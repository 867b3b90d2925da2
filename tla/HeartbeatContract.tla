-------------------------- MODULE HeartbeatContract --------------------------
(***************************************************************************)
(* What HeartbeatManager promises those who start, pause and stop it, with *)
(* no word about intervals: when a request to the server may leave.        *)
(***************************************************************************)
VARIABLES
  phase,    \* "idle", "running" or "stopping"
  held,     \* between pause() and resume()
  armed,    \* the loop has found that it need not stop
  inFlight  \* a request is on its way

cvars == <<phase, held, armed, inFlight>>

CTypeOK ==
  /\ phase \in {"idle", "running", "stopping"}
  /\ held \in BOOLEAN /\ armed \in BOOLEAN /\ inFlight \in BOOLEAN

CInit == phase = "idle" /\ ~held /\ ~armed /\ ~inFlight

CStart ==
  /\ phase = "idle"
  /\ phase' = "running" /\ held' = FALSE
  /\ UNCHANGED <<armed, inFlight>>

CHold == held' \in BOOLEAN /\ UNCHANGED <<phase, armed, inFlight>>

CRequestStop ==
  /\ phase # "stopping"
  /\ phase' = "stopping"
  /\ UNCHANGED <<held, armed, inFlight>>

(* Only before stop(), and one request at a time: so that at most one      *)
(* leaves after stop() was called.                                         *)
CArm ==
  /\ phase = "running" /\ ~armed /\ ~inFlight
  /\ armed' = TRUE
  /\ UNCHANGED <<phase, held, inFlight>>

(* A request leaves only when the loop has just seen no pause.             *)
CFire ==
  /\ armed
  /\ armed' = FALSE /\ inFlight' = ~held
  /\ UNCHANGED <<phase, held>>

CFinish == inFlight /\ inFlight' = FALSE /\ UNCHANGED <<phase, held, armed>>

(* stop() returns when nothing is left that could send.                    *)
CStopped ==
  /\ phase = "stopping" /\ ~armed /\ ~inFlight
  /\ phase' = "idle"
  /\ UNCHANGED <<held, armed, inFlight>>

CNext ==
  \/ CStart \/ CHold \/ CRequestStop \/ CArm \/ CFire \/ CFinish \/ CStopped

CSpec == CInit /\ [][CNext]_cvars

=============================================================================
