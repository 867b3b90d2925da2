---------------------------- MODULE ClientContract ----------------------------
(***************************************************************************)
(* What license_manager::Client promises the application that drives it,   *)
(* with no word about keys, files, locks or requests: when a license may   *)
(* be put in place, and what the answer to a call says about it.           *)
(***************************************************************************)
CONSTANTS
  Acceptable,  \* licenses that this machine may run with
  NoLicense

VARIABLES
  call,       \* the call under way, "idle" between two, "none": no client
  answer,     \* "ok", "error" or "none" while there is no answer
  license,    \* what current_license() returns
  installed,  \* the call under way has put a license in place
  beating     \* there is a heartbeat thread

kvars == <<call, answer, license, installed, beating>>

KCalls == {"create", "activate", "manual", "close", "destroy"}

KTypeOK ==
  /\ call \in KCalls \cup {"none", "idle"}
  /\ answer \in {"none", "ok", "error"}
  /\ license \in Acceptable \cup {NoLicense}
  /\ installed \in BOOLEAN /\ beating \in BOOLEAN

Gone ==
  /\ call' = "none" /\ license' = NoLicense
  /\ installed' = FALSE /\ beating' = FALSE

KInit ==
  /\ call = "none" /\ answer = "none" /\ license = NoLicense
  /\ installed = FALSE /\ beating = FALSE

Begin ==
  /\ \/ call = "none" /\ call' = "create"
     \/ call = "idle" /\ call' \in KCalls \ {"create"}
  /\ answer' = "none"
  /\ UNCHANGED <<license, installed, beating>>

(* A call may be turned down at once.                                      *)
Refuse ==
  /\ call \in {"none", "idle"} /\ answer' = "error"
  /\ UNCHANGED <<call, license, installed, beating>>

(* One license for a call, and any number from the heartbeat thread as     *)
(* long as there is one; never while there is no client.                   *)
Install ==
  /\ license' \in Acceptable
  /\ \/ /\ call \in {"create", "activate", "manual"} /\ ~installed
        /\ installed' = TRUE
     \/ call # "none" /\ beating /\ UNCHANGED installed
  /\ UNCHANGED <<call, answer, beating>>

(* create() and activate() succeed only with a license in place, and       *)
(* close() only when there is no heartbeat thread any more.                *)
Succeed ==
  /\ call \in {"create", "activate", "manual", "close"}
  /\ call \in {"create", "activate"} => installed
  /\ call = "close" => ~beating
  /\ call' = "idle" /\ answer' = "ok" /\ installed' = FALSE
  /\ beating' \in (IF call = "create" THEN BOOLEAN ELSE {beating})
  /\ UNCHANGED license

(* A call that fails leaves the license in place as it found it.           *)
Fail ==
  /\ call \in {"create", "activate", "manual"} /\ ~installed
  /\ answer' = "error"
  /\ IF call = "create" THEN Gone
     ELSE call' = "idle" /\ UNCHANGED <<license, installed, beating>>

Stopped ==
  /\ call \in {"close", "destroy"} /\ beating' = FALSE
  /\ UNCHANGED <<call, answer, license, installed>>

Destroyed == call = "destroy" /\ ~beating /\ Gone /\ answer' = "ok"

Died == call # "none" /\ Gone /\ answer' = "error"

KNext ==
  \/ Begin \/ Refuse \/ Install \/ Succeed \/ Fail
  \/ Stopped \/ Destroyed \/ Died

KSpec == KInit /\ [][KNext]_kvars

=============================================================================
