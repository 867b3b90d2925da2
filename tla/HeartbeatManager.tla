--------------------------- MODULE HeartbeatManager ---------------------------
(***************************************************************************)
(* HeartbeatManager (src/src/heartbeat.cpp) and the thread it runs: the    *)
(* wait between two heartbeats, the backoff, and what start(), stop(),     *)
(* pause() and resume() do to a loop that may be anywhere.                 *)
(*                                                                         *)
(* start() and stop() are called one at a time, as Client calls them;      *)
(* pause() and resume() come from any thread, callbacks included.  Time is *)
(* counted in the ticks of the loop's sleep_for.                           *)
(***************************************************************************)
EXTENDS Integers

CONSTANTS
  Interval,         \* interval_, the one the configuration asks for
  MinBackoff,       \* std::chrono::seconds(30)
  MaxBackoff,       \* std::chrono::minutes(30)
  ServerIntervals,  \* values of heartbeat_interval in responses
  MaxFailures       \* bound on the failures counted in a row

ASSUME HeartbeatAssumption ==
  /\ Interval \in Nat \ {0}
  /\ MinBackoff \in Nat \ {0} /\ MaxBackoff \in Nat /\ MinBackoff <= MaxBackoff
  /\ ServerIntervals \subseteq Int
  /\ MaxFailures \in Nat

Statuses == {"active", "activation_required"}
Response == [status : Statuses, file : BOOLEAN, interval : ServerIntervals]

VARIABLES
  running, paused, stopRequested,  \* the manager's atomics
  stopping,         \* stop() has raised the flag and not returned
  loop,             \* where the thread is, "none" when there is none
  currentInterval,  \* current_interval of loop()
  remaining,        \* ticks up to the deadline
  resp,             \* the response being handled
  notified,         \* whether on_license_updated_ was called with it
  from, failures    \* history: the last interval that is no backoff, and the
                    \* failures in a row since

vars == <<running, paused, stopRequested, stopping, loop, currentInterval,
          remaining, resp, notified, from, failures>>
control == <<running, paused, stopRequested, stopping>>
history == <<from, failures>>

NoResponse == [status |-> "active", file |-> FALSE, interval |-> 0]

-----------------------------------------------------------------------------
(* The controls.                                                           *)

(* A second start() of a running manager does nothing.                     *)
Start ==
  /\ ~running /\ ~stopping
  /\ running' = TRUE /\ paused' = FALSE /\ stopRequested' = FALSE
  /\ loop' = "top" /\ currentInterval' = Interval
  /\ from' = Interval /\ failures' = 0
  /\ UNCHANGED <<stopping, remaining, resp, notified>>

Pause ==
  /\ paused' = TRUE
  /\ UNCHANGED <<running, stopRequested, stopping, loop, currentInterval,
                 remaining, resp, notified, history>>

Resume ==
  /\ paused' = FALSE
  /\ UNCHANGED <<running, stopRequested, stopping, loop, currentInterval,
                 remaining, resp, notified, history>>

Stop ==
  /\ ~stopping
  /\ stopRequested' = TRUE /\ stopping' = TRUE
  /\ UNCHANGED <<running, paused, loop, currentInterval, remaining, resp,
                 notified, history>>

JoinAny == TRUE  \* mutant
JoinStarted == loop = "exited"  \* mutant
Joinable == loop \in {"none", "exited"}

Join ==
  /\ stopping /\ Joinable
  /\ stopping' = FALSE /\ running' = FALSE
  /\ loop' = IF loop = "exited" THEN "none" ELSE loop
  /\ UNCHANGED <<paused, stopRequested, currentInterval, remaining, resp,
                 notified, history>>

-----------------------------------------------------------------------------
(* The loop.                                                               *)

Goto(step) == loop' = step

LoopTop ==
  /\ loop = "top"
  /\ IF stopRequested
     THEN Goto("exited") /\ UNCHANGED remaining
     ELSE Goto("sleep") /\ remaining' = currentInterval
  /\ UNCHANGED <<control, currentInterval, resp, notified, history>>

SleepsForever == ~stopRequested  \* mutant
SleepsOn == ~stopRequested /\ remaining > 0

(* sleep_for sleeps a tick at least.                                       *)
Sleep ==
  /\ loop = "sleep" /\ SleepsOn
  /\ \E left \in 0 .. remaining - 1 : remaining' = left
  /\ UNCHANGED <<control, loop, currentInterval, resp, notified, history>>

WakeUp ==
  /\ loop = "sleep" /\ ~SleepsOn
  /\ Goto("checkStop")
  /\ UNCHANGED <<control, currentInterval, remaining, resp, notified, history>>

CheckStop ==
  /\ loop = "checkStop"
  /\ Goto(IF stopRequested THEN "exited" ELSE "checkPaused")
  /\ UNCHANGED <<control, currentInterval, remaining, resp, notified, history>>

NeverHeld == FALSE  \* mutant
Held == paused

CheckPaused ==
  /\ loop = "checkPaused"
  /\ Goto(IF Held THEN "top" ELSE "sending")
  /\ UNCHANGED <<control, currentInterval, remaining, resp, notified, history>>

BackoffUncapped(interval) ==  \* mutant
  IF interval * 2 < MinBackoff THEN MinBackoff ELSE interval * 2
Backoff(interval) ==
  LET doubled == interval * 2
      capped == IF doubled > MaxBackoff THEN MaxBackoff ELSE doubled
  IN  IF capped < MinBackoff THEN MinBackoff ELSE capped

(* service_->send returns an error, which goes to on_error_.               *)
SendFails ==
  /\ loop = "sending"
  /\ currentInterval' = Backoff(currentInterval)
  /\ failures' = IF failures < MaxFailures THEN failures + 1 ELSE failures
  /\ Goto("top")
  /\ UNCHANGED <<control, remaining, resp, notified, from>>

SendSucceeds ==
  /\ loop = "sending"
  /\ resp' \in Response /\ notified' = FALSE
  /\ currentInterval' = Interval
  /\ from' = Interval /\ failures' = 0
  /\ Goto("handle")
  /\ UNCHANGED <<control, remaining>>

(* Only a response with a license file reaches the callback.               *)
Handle ==
  /\ loop = "handle"
  /\ notified' = resp.file
  /\ Goto("override")
  /\ UNCHANGED <<control, currentInterval, remaining, resp, history>>

OverrideAny(interval) == TRUE  \* mutant
Overrides(interval) == interval > 0

OverrideInterval ==
  /\ loop = "override"
  /\ IF Overrides(resp.interval)
     THEN currentInterval' = resp.interval /\ from' = resp.interval
     ELSE UNCHANGED <<currentInterval, from>>
  /\ Goto("top")
  /\ resp' = NoResponse /\ notified' = FALSE
  /\ UNCHANGED <<control, remaining, failures>>

-----------------------------------------------------------------------------
Init ==
  /\ running = FALSE /\ paused = FALSE /\ stopRequested = FALSE
  /\ stopping = FALSE
  /\ loop = "none" /\ currentInterval = Interval /\ remaining = 0
  /\ resp = NoResponse /\ notified = FALSE
  /\ from = Interval /\ failures = 0

(* The steps of the thread, the request among them: CURLOPT_TIMEOUT ends   *)
(* it one way or the other.                                                *)
Loop ==
  \/ LoopTop \/ Sleep \/ WakeUp \/ CheckStop \/ CheckPaused
  \/ SendFails \/ SendSucceeds \/ Handle \/ OverrideInterval

Next == Start \/ Pause \/ Resume \/ Stop \/ Join \/ Loop

Spec == Init /\ [][Next]_vars
FairSpec == Spec /\ WF_vars(Loop) /\ WF_vars(Join)

-----------------------------------------------------------------------------
Steps == {"none", "top", "sleep", "checkStop", "checkPaused", "sending",
          "handle", "override", "exited"}

TypeOK ==
  /\ running \in BOOLEAN /\ paused \in BOOLEAN
  /\ stopRequested \in BOOLEAN /\ stopping \in BOOLEAN
  /\ loop \in Steps
  /\ currentInterval \in Nat \ {0} /\ remaining \in Nat
  /\ resp \in [status : Statuses, file : BOOLEAN, interval : Int]
  /\ notified \in BOOLEAN
  /\ from \in Nat \ {0} /\ failures \in 0 .. MaxFailures

(* The loop follows the contract: after pause() or stop() at most the      *)
(* request that had passed the checks still leaves, and stop() returns     *)
(* only when none is left (heartbeat.cpp 190-226).                         *)
Contract == INSTANCE HeartbeatContract WITH
  phase <- IF stopping THEN "stopping" ELSE IF running THEN "running" ELSE "idle",
  held <- paused,
  armed <- loop = "checkPaused",
  inFlight <- loop = "sending"
FollowsContract == Contract!CSpec

(* There is a thread exactly while the manager is running, so start() never *)
(* assigns to a std::thread that is still joinable, which would terminate   *)
(* the process (heartbeat.cpp 179-196).                                     *)
OneThread == running <=> loop # "none"

(* The wait after n failures in a row is the last regular interval doubled  *)
(* n times, never below the minimum nor above the maximum once it backs     *)
(* off, whatever interval the server had asked for and however pauses and   *)
(* restarts fall in between (heartbeat.cpp 228-257).                        *)
Doublings[n \in 0 .. MaxFailures] == IF n = 0 THEN 1 ELSE 2 * Doublings[n - 1]
Smaller(a, b) == IF a < b THEN a ELSE b
Larger(a, b) == IF a > b THEN a ELSE b
ExponentialBackoff ==
  loop \in {"top", "sleep"} =>
    currentInterval =
      IF failures = 0 THEN from
      ELSE Smaller(MaxBackoff, Larger(MinBackoff, 2 * from) * Doublings[failures - 1])

(* stop() returns, wherever the loop is: sleeping, in a request or in a     *)
(* callback (heartbeat.cpp 190-216).                                        *)
StopReturns == stopping ~> ~stopping

(* A manager that is neither stopped nor paused for good keeps sending, and *)
(* so recovers from any number of failures (heartbeat.cpp 209-258).         *)
KeepsSending ==
  <>[](running /\ ~paused /\ ~stopRequested) => []<>(loop = "sending")

(* client.hpp declares ActivationRequiredCallback for a server that wants   *)
(* the client activated again; start_heartbeat forwards that status.        *)
ReactivationIsReported ==
  loop = "override" /\ resp.status = "activation_required" => notified

=============================================================================
