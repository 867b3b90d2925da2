---------------------------- MODULE ClientSession -----------------------------
(***************************************************************************)
(* A client in use: the application's calls, the heartbeat thread with the *)
(* loop of HeartbeatManager, and callbacks that call back into the client  *)
(* (src/src/client.cpp, src/src/heartbeat.cpp).  What counts here is who   *)
(* waits for whom, so a license is only applied or refused; LicenseClient  *)
(* has what becomes of it.                                                 *)
(*                                                                         *)
(* stack[t] is the call stack of thread t, outermost frame first.  A frame *)
(* is a function of the SDK at the point it has reached, or a callback the *)
(* application has been entered through.                                   *)
(***************************************************************************)
EXTENDS HeartbeatManager, FiniteSets, Sequences

CONSTANTS
  Uses,     \* the calls each callback may make: pairs <<callback, call>>
  MaxDepth  \* bound on the call stack

Callbacks == {"licenseUpdated", "heartbeatError", "activationRequired",
              "publicKeyUpdated"}
Calls == {"query", "pause", "resume", "activate", "sendHeartbeat", "close"}

ASSUME SessionAssumption ==
  Uses \subseteq Callbacks \X Calls /\ MaxDepth \in Nat

VARIABLES
  client,   \* whether the application has a client
  manager,  \* whether the client has a heartbeat_manager_
  mutex,    \* Client::mutex_: the thread that holds it, or "free"
  stack,    \* the call stack of each thread
  alive,    \* FALSE once std::terminate was called
  misused   \* history: a callback has made a call it had better not make

App == "app"
Hb == "hb"
Threads == {App, Hb}

session == <<client, manager, mutex, stack, alive, misused>>
svars == <<vars, session>>

Frames == Callbacks \cup {"query", "activate", "sendHeartbeat", "join",
                          "joinLast", "update", "apply", "lock", "unlock"}

Top(t) == IF stack[t] = <<>> THEN "none" ELSE stack[t][Len(stack[t])]
Beneath(t) == SubSeq(stack[t], 1, Len(stack[t]) - 1)

(* The stack of t without its top frame, with other frames in its place.   *)
Become(t, frames) == stack' = [stack EXCEPT ![t] = Beneath(t) \o frames]
Pop(t) == Become(t, <<>>)
Push(t, frame) == stack' = [stack EXCEPT ![t] = Append(@, frame)]

-----------------------------------------------------------------------------
(* Calling the client, from the application or out of a callback.          *)

(* Calls that wait for a lock the callback holds, that join the thread the *)
(* callback runs on, or that lead back to the same callback.               *)
Unwise(t, callback, call) ==
  \/ callback = "licenseUpdated" /\ call \notin {"pause", "resume"}
  \/ t = Hb /\ call = "close"
  \/ callback \in {"activationRequired", "publicKeyUpdated"} /\ call = "activate"

(* Bounds: callbacks call until one has misused the client, and up to      *)
(* MaxDepth frames.                                                        *)
MayCall(t, call) ==
  /\ alive /\ client
  /\ \/ t = App /\ stack[t] = <<>>
     \/ /\ <<Top(t), call>> \in Uses
        /\ ~misused /\ Len(stack[t]) < MaxDepth
  /\ misused' = (misused \/ (stack[t] # <<>> /\ Unwise(t, Top(t), call)))

(* pause_heartbeat and resume_heartbeat.                                   *)
CallPause(t) ==
  /\ MayCall(t, "pause")
  /\ IF manager THEN Pause ELSE UNCHANGED vars
  /\ UNCHANGED <<client, manager, mutex, stack, alive>>

CallResume(t) ==
  /\ MayCall(t, "resume")
  /\ IF manager THEN Resume ELSE UNCHANGED vars
  /\ UNCHANGED <<client, manager, mutex, stack, alive>>

(* validate, current_license and license_key only lock and look.           *)
CallWaiting(t) ==
  \E call \in {"query", "activate", "sendHeartbeat"} :
    /\ MayCall(t, call)
    /\ Push(t, call)
    /\ UNCHANGED <<vars, client, manager, mutex, alive>>

(* stop(), up to the join, which the heartbeat thread may call on itself.  *)
RequestStop(t) ==
  IF t = App THEN Stop
  ELSE /\ stopRequested' = TRUE
       /\ UNCHANGED <<running, paused, stopping, loop, currentInterval,
                      remaining, resp, notified, history>>

(* close() takes no lock, so that a callback may finish while it joins.    *)
LocksToClose(t) == mutex = "free" /\ mutex' = t  \* mutant
LockToClose(t) == UNCHANGED mutex

CallClose(t) ==
  /\ MayCall(t, "close")
  /\ IF manager THEN RequestStop(t) /\ Push(t, "join") /\ LockToClose(t)
     ELSE UNCHANGED <<vars, stack, mutex>>
  /\ UNCHANGED <<client, manager, alive>>

(* The destructor, on the application's own thread outside any call.       *)
Destroy ==
  /\ alive /\ client /\ stack[App] = <<>>
  /\ IF manager THEN Stop /\ Push(App, "joinLast") /\ UNCHANGED client
     ELSE client' = FALSE /\ UNCHANGED <<vars, stack>>
  /\ UNCHANGED <<manager, mutex, alive, misused>>

(* create() succeeds.  Without a license key, or offline, there is no      *)
(* manager.                                                                *)
Create ==
  /\ alive /\ ~client
  /\ client' = TRUE
  /\ \/ manager' = TRUE /\ Start
     \/ manager' = FALSE /\ UNCHANGED vars
  /\ UNCHANGED <<mutex, stack, alive, misused>>

-----------------------------------------------------------------------------
(* What thread t does inside the SDK.                                      *)

sdkUnchanged == UNCHANGED <<vars, client, manager, alive, misused>>

QueryKeepsLock(t) == mutex' = t  \* mutant
QueryLock(t) == mutex = "free" /\ UNCHANGED mutex

Query(t) ==
  /\ alive /\ Top(t) = "query"
  /\ QueryLock(t)
  /\ Pop(t)
  /\ sdkUnchanged

(* perform_activation fails, and calls back before it returns; or it comes *)
(* back with a license, which may not decode, and perhaps with a key.      *)
Activation(t) ==
  /\ alive /\ Top(t) = "activate"
  /\ \/ Become(t, <<"activationRequired">>)
     \/ Pop(t)
     \/ Become(t, <<"apply">>)
     \/ Become(t, <<"apply", "publicKeyUpdated">>)
  /\ sdkUnchanged /\ UNCHANGED mutex

(* send_heartbeat: nothing new, a license, or an error, which it returns   *)
(* and does not report to on_heartbeat_error_.                             *)
ReportedToo == {<<>>, <<"apply">>, <<"heartbeatError">>}  \* mutant
HeartbeatOutcomes == {<<>>, <<"apply">>}

Heartbeat(t) ==
  /\ alive /\ Top(t) = "sendHeartbeat"
  /\ \E outcome \in HeartbeatOutcomes : Become(t, outcome)
  /\ sdkUnchanged /\ UNCHANGED mutex

(* The license is refused, or goes on to the lock.                         *)
Apply(t) ==
  /\ alive /\ Top(t) = "apply"
  /\ Pop(t) \/ Become(t, <<"lock">>)
  /\ sdkUnchanged /\ UNCHANGED mutex

(* lock_guard, the assignment, and on_license_updated_ under the lock.     *)
Lock(t) ==
  /\ alive /\ Top(t) = "lock" /\ mutex = "free"
  /\ mutex' = t
  /\ Become(t, <<"unlock", "licenseUpdated">>)
  /\ sdkUnchanged

KeepLock == UNCHANGED mutex  \* mutant
Release == mutex' = "free"

Unlock(t) ==
  /\ alive /\ Top(t) = "unlock"
  /\ Release
  /\ Pop(t)
  /\ sdkUnchanged

CallbackReturns(t) ==
  /\ alive /\ Top(t) \in Callbacks
  /\ Pop(t)
  /\ sdkUnchanged /\ UNCHANGED mutex

(* on_update of start_heartbeat, after the license was applied or refused. *)
Updated ==
  /\ alive /\ Top(Hb) = "update"
  /\ Become(Hb, IF resp.status = "activation_required"
                THEN <<"activationRequired">> ELSE <<>>)
  /\ sdkUnchanged /\ UNCHANGED mutex

JoinLeavesThread == stopping /\ stopping' = FALSE /\   \* mutant
  UNCHANGED <<running, paused, stopRequested, loop, currentInterval, remaining,
              resp, notified, history>>
JoinThread == Join

(* stop() returns, and the manager is reset.                               *)
Joined ==
  /\ alive /\ Top(App) \in {"join", "joinLast"}
  /\ JoinThread
  /\ manager' = FALSE
  /\ client' = (Top(App) = "join")
  /\ Pop(App)
  /\ UNCHANGED <<mutex, alive, misused>>

(* A thread that joins itself gets resource_deadlock_would_occur.  The one *)
(* handler there is lies around on_public_key_updated_; on the way to it   *)
(* lock_guards let go.  Without it the exception leaves the thread.        *)
JoinThrows ==
  /\ alive /\ Top(Hb) = "join"
  /\ LET handlers == {i \in DOMAIN stack[Hb] : stack[Hb][i] = "publicKeyUpdated"}
         innermost == CHOOSE i \in handlers : \A j \in handlers : j <= i
     IN  IF handlers = {}
         THEN alive' = FALSE /\ UNCHANGED <<stack, mutex>>
         ELSE /\ stack' = [stack EXCEPT ![Hb] = SubSeq(@, 1, innermost - 1)]
              /\ mutex' = IF \E i \in innermost .. Len(stack[Hb]) :
                               stack[Hb][i] = "unlock"
                          THEN "free" ELSE mutex
              /\ UNCHANGED alive
  /\ UNCHANGED <<vars, client, manager, misused>>

-----------------------------------------------------------------------------
(* The loop of the heartbeat thread, between its callbacks.                *)

LoopStep ==
  /\ alive /\ stack[Hb] = <<>>
  /\ \/ /\ SendFails
        /\ Push(Hb, "heartbeatError")
     \/ /\ Handle
        /\ IF notified' THEN stack' = [stack EXCEPT ![Hb] = <<"update", "apply">>]
           ELSE UNCHANGED stack
     \/ /\ \/ LoopTop \/ Sleep \/ WakeUp \/ CheckStop \/ CheckPaused
           \/ SendSucceeds \/ OverrideInterval
        /\ UNCHANGED stack
  /\ UNCHANGED <<client, manager, mutex, alive, misused>>

-----------------------------------------------------------------------------
SInit ==
  /\ Init
  /\ client = FALSE /\ manager = FALSE /\ mutex = "free"
  /\ stack = [t \in Threads |-> <<>>]
  /\ alive = TRUE /\ misused = FALSE

Inside(t) ==
  \/ Query(t) \/ Activation(t) \/ Heartbeat(t) \/ Apply(t) \/ Lock(t)
  \/ Unlock(t)

SNext ==
  \/ Create \/ Destroy
  \/ \E t \in Threads :
       \/ CallPause(t) \/ CallResume(t) \/ CallWaiting(t) \/ CallClose(t)
       \/ Inside(t) \/ CallbackReturns(t)
  \/ Updated \/ Joined \/ JoinThrows \/ LoopStep

SSpec == SInit /\ [][SNext]_svars

(* The callbacks thread t is in.  Without misuse there are three at most.  *)
Nesting(t) == Cardinality({i \in DOMAIN stack[t] : stack[t][i] \in Callbacks})
MaxNesting == 3

(* Threads run, requests time out, and a callback, however many calls it   *)
(* makes, returns in the end, also one entered from within another.        *)
(* mutex_ goes to whoever keeps asking for it.                             *)
SFairSpec ==
  /\ SSpec
  /\ \A t \in Threads :
       /\ WF_svars(Inside(t))
       /\ SF_svars(Query(t) \/ Lock(t))
       /\ \A n \in 1 .. MaxNesting :
            SF_svars(CallbackReturns(t) /\ Nesting(t) = n)
  /\ WF_svars(Updated) /\ WF_svars(Joined) /\ WF_svars(LoopStep)

-----------------------------------------------------------------------------
STypeOK ==
  /\ TypeOK
  /\ client \in BOOLEAN /\ manager \in BOOLEAN
  /\ alive \in BOOLEAN /\ misused \in BOOLEAN
  /\ mutex \in Threads \cup {"free"}
  /\ stack \in [Threads -> Seq(Frames)]

(* mutex_ is held exactly while on_license_updated_ runs, on every way out *)
(* of it, an exception that passes through it included (client.cpp 304).   *)
LockIsScoped ==
  \A t \in Threads :
    alive => (mutex = t <=> \E i \in DOMAIN stack[t] : stack[t][i] = "unlock")

WaitsFor(t) ==
  IF Top(t) \in {"query", "lock"} THEN {mutex}
  ELSE IF Top(t) \in {"join", "joinLast"} /\ ~Joinable THEN {Hb} ELSE {}

Deadlocked ==
  \/ \E t \in Threads : t \in WaitsFor(t)
  \/ App \in WaitsFor(Hb) /\ Hb \in WaitsFor(App)

(* As long as on_license_updated makes no call but pause and resume, and   *)
(* no callback of the heartbeat thread closes the client, nobody waits for *)
(* itself or in a circle, and nothing terminates the process: queries,     *)
(* heartbeats and a close() from the other callbacks are safe, also while  *)
(* the other thread is in a callback or in close() (client.cpp 206-311,    *)
(* heartbeat.cpp 190-196).                                                 *)
OnlyMisuseDeadlocks == ~misused => alive /\ ~Deadlocked

(* Under the same condition callbacks do not pile up on the stack, however *)
(* long the server keeps failing (client.cpp 206-212).                     *)
NestingIsBounded ==
  ~misused => \A t \in Threads : Nesting(t) <= MaxNesting /\ Len(stack[t]) <= 5

(* Once close() has returned, or the client is gone, the heartbeat thread  *)
(* is in no callback, holds no lock and has no request under way, so that  *)
(* callbacks may refer to what the application now frees, and a later      *)
(* send_heartbeat has the CURL handle to itself (client.cpp 567-572).      *)
QuietAfterClose ==
  alive /\ ~manager => stack[Hb] = <<>> /\ loop = "none" /\ mutex # Hb

(* Without such calls, every call of the application and every callback of *)
(* the heartbeat thread ends, close() and the destructor included.         *)
CallsComeBack ==
  [](~misused) => \A t \in Threads : (stack[t] # <<>>) ~> (stack[t] = <<>>)

=============================================================================
