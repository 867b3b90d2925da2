----------------------------- MODULE AtomicFile ------------------------------
(***************************************************************************)
(* What FileStorage (src/include/storage.hpp) is meant to be: a file that  *)
(* holds one whole piece of data or does not exist.  A save takes effect   *)
(* at one instant or not at all, and says which; a load returns what the   *)
(* file held at one instant.                                               *)
(***************************************************************************)
CONSTANTS Data, Writers, Readers, None

VARIABLES
  content,  \* the data of the file, None when there is none
  pending,  \* per writer, the data it is saving
  reply,    \* per process, what its last call returned
  seen,     \* per reader, the data it is loading
  spoiled   \* whether something happened that voids the promise

avars == <<content, pending, reply, seen, spoiled>>

AInit ==
  /\ content \in Data \cup {None}
  /\ pending = [w \in Writers |-> None]
  /\ reply = [p \in Writers \cup Readers |-> None]
  /\ seen = [r \in Readers |-> None]
  /\ ~spoiled

(* A call under way has no reply yet.                                      *)
ASave(w, d) ==
  /\ pending[w] = None
  /\ pending' = [pending EXCEPT ![w] = d]
  /\ reply' = [reply EXCEPT ![w] = None]
  /\ UNCHANGED <<content, seen>>

(* The effect and the answer are one step: nothing in the code lies        *)
(* between the rename and the return.                                      *)
ACommit(w) ==
  /\ pending[w] # None
  /\ content' = pending[w]
  /\ pending' = [pending EXCEPT ![w] = None]
  /\ reply' = [reply EXCEPT ![w] = "success"]
  /\ UNCHANGED seen

AFail(w) ==
  /\ pending[w] # None
  /\ pending' = [pending EXCEPT ![w] = None]
  /\ reply' = [reply EXCEPT ![w] = "storage_write_error"]
  /\ UNCHANGED <<content, seen>>

(* Removing what is not there succeeds as well.                            *)
ARemove(w) ==
  /\ pending[w] = None
  /\ \/ content' = None /\ reply' = [reply EXCEPT ![w] = "success"]
     \/ content' = content /\ reply' = [reply EXCEPT ![w] = "storage_write_error"]
  /\ UNCHANGED <<pending, seen>>

ALoad(r) ==
  /\ seen[r] = None /\ content # None
  /\ seen' = [seen EXCEPT ![r] = content]
  /\ reply' = [reply EXCEPT ![r] = None]
  /\ UNCHANGED <<content, pending>>

(* A load answers at once that there is no file, later with the data, or   *)
(* with an error at any time.                                              *)
ALoaded(r) ==
  /\ \/ /\ seen[r] = None /\ content = None
        /\ reply' = [reply EXCEPT ![r] = "storage_file_not_found"]
     \/ /\ seen[r] # None
        /\ reply' = [reply EXCEPT ![r] = seen[r]]
     \/ reply' = [reply EXCEPT ![r] = "storage_read_error"]
  /\ seen' = [seen EXCEPT ![r] = None]
  /\ UNCHANGED <<content, pending>>

Undone(f, dead) == [p \in DOMAIN f |-> IF p \in dead THEN None ELSE f[p]]

(* A crash undoes what the dead had under way, and nothing else.           *)
ACrash(dead) ==
  /\ pending' = Undone(pending, dead) /\ seen' = Undone(seen, dead)
  /\ reply' = Undone(reply, dead)
  /\ UNCHANGED content

AStep ==
  \/ \E w \in Writers :
       (\E d \in Data : ASave(w, d)) \/ ACommit(w) \/ AFail(w) \/ ARemove(w)
  \/ \E r \in Readers : ALoad(r) \/ ALoaded(r)
  \/ \E dead \in SUBSET (Writers \cup Readers) : ACrash(dead)

(* The file keeps its promise until the step that spoils it.               *)
ANext == spoiled' \/ (UNCHANGED spoiled /\ AStep)

ASpec == AInit /\ [][ANext]_avars

=============================================================================
