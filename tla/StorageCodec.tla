---------------------------- MODULE StorageCodec ----------------------------
(***************************************************************************)
(* FileStorage::maybe_encrypt and maybe_decrypt (src/src/storage.cpp): how *)
(* a license document becomes the bytes of the license file and back.      *)
(*                                                                         *)
(* AES-256-GCM is modelled by its contract: a tag binds a secret, the      *)
(* additional data and the ciphertext, and decryption succeeds only when   *)
(* the tag it is given binds exactly what it was fed.                      *)
(***************************************************************************)
EXTENDS LicenseVerifier

CONSTANT Secrets   \* values of Config::storage_secret

GcmTag(secret, aad, text) == [secret |-> secret, aad |-> aad, text |-> text]

(* The content of a license file: the body, and a tag when the file starts *)
(* with the "enc:" prefix.                                                 *)
Tag == [secret : Secrets, aad : Document, text : {None}]
Content == [tag : {None} \cup Tag, body : Document]

ASSUME CodecAssumption ==
  None \notin Secrets /\ None \notin Tag /\ None \notin Content

Plain(doc) == [tag |-> None, body |-> doc]

(* EVP_EncryptUpdate is called with a null output buffer, so GCM takes the *)
(* document as additional data and encrypts nothing: the body written out  *)
(* is the zero-filled buffer.                                              *)
Sealed(secret, doc) ==
  [tag |-> GcmTag(secret, doc, None), body |-> Garbage]

(* The outcomes of maybe_encrypt: without a secret the document itself,    *)
(* which is also the fallback when the IV or the cipher cannot be had.     *)
MaybeEncrypt(secret, doc) ==
  IF secret = None THEN {Plain(doc)} ELSE {Plain(doc), Sealed(secret, doc)}

(* None is std::nullopt, the decryption error.  EVP_DecryptUpdate has no   *)
(* output buffer either: the body is fed as additional data, and bytes     *)
(* whose tag matched would come back zero-filled.  Without a secret the    *)
(* bytes of a sealed file are handed out as they are.                      *)
MaybeDecrypt(secret, content) ==
  IF content.tag = None THEN content.body
  ELSE IF secret = None \/ content.tag = GcmTag(secret, content.body, None)
  THEN Garbage
  ELSE None

=============================================================================
