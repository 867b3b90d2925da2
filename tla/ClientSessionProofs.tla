-------------------------- MODULE ClientSessionProofs --------------------------
(***************************************************************************)
(* Proofs about ClientSession: who may hold the lock, what can lie on the  *)
(* two call stacks, and that only misuse deadlocks, whatever calls the     *)
(* callbacks make and however deep they nest.                              *)
(***************************************************************************)
EXTENDS ClientSession, HeartbeatManagerProofs, FiniteSetTheorems,
        SequenceTheorems, WellFoundedInduction

Depth(t) == 1 .. Len(stack[t])

(* How high on the stack each frame can lie while callbacks behave.        *)
Ceiling ==
  [frame \in Frames |->
    CASE frame \in {"heartbeatError", "update"} -> 1
      [] frame \in {"activate", "activationRequired"} -> 2
      [] frame = "publicKeyUpdated" -> 3
      [] frame = "licenseUpdated" -> 5
      [] OTHER -> 4]

(* The callbacks of activate().                                            *)
OfActivation == {"activationRequired", "publicKeyUpdated"}

(* The lock is held by the top frame, or by the one under the callback it  *)
(* reports to, which calls nothing; a join is not on the heartbeat         *)
(* thread's stack; and there is one callback of activate() at most.        *)
Behaved(t) ==
  /\ \A i \in Depth(t) :
       /\ i <= Ceiling[stack[t][i]]
       /\ stack[t][i] = "licenseUpdated" => i = Len(stack[t])
       /\ stack[t][i] = "unlock" =>
            \/ i = Len(stack[t])
            \/ i + 1 = Len(stack[t]) /\ stack[t][i + 1] = "licenseUpdated"
       /\ stack[t][i] = "activate" => i = 1 \/ stack[t][1] = "heartbeatError"
       /\ t = Hb => stack[t][i] \notin {"join", "joinLast"}
  /\ \A i, j \in Depth(t) :
       stack[t][i] \in OfActivation /\ stack[t][j] \in OfActivation => i = j

(* The thread is in callbacks only where its loop calls them, and there is *)
(* a thread only while there is a manager, as there is a manager only      *)
(* while there is a client.                                                *)
Ownership ==
  /\ stack[Hb] # <<>> => loop \in {"top", "override"}
  /\ ~manager => loop = "none"
  /\ ~client => ~manager

(* A thread holds the lock exactly while it is in the scope of one         *)
(* lock_guard, and its stack is as told above until a callback misuses     *)
(* the client.                                                             *)
InOrder(t) ==
  /\ alive => (mutex = t <=> \E i \in Depth(t) : stack[t][i] = "unlock")
  /\ \A i, j \in Depth(t) :
       stack[t][i] = "unlock" /\ stack[t][j] = "unlock" => i = j
  /\ ~misused => Behaved(t)

SInv ==
  /\ STypeOK /\ IInv /\ Ownership
  /\ ~misused => alive
  /\ \A t \in Threads : InOrder(t)

-----------------------------------------------------------------------------
(* What the operators do to the stacks, frame by frame.                    *)

LEMMA StackIs ==
  ASSUME STypeOK, NEW t \in Threads
  PROVE  /\ stack[t] \in Seq(Frames) /\ Len(stack[t]) \in Nat
         /\ DOMAIN stack[t] = Depth(t)
         /\ stack[t] = <<>> <=> Len(stack[t]) = 0
         /\ \A i \in Depth(t) : stack[t][i] \in Frames
         /\ stack[t] # <<>> => Top(t) = stack[t][Len(stack[t])]
         /\ stack[t] = <<>> => Top(t) = "none"
<1>1. stack[t] \in Seq(Frames)
  BY DEF STypeOK
<1>2. /\ Len(stack[t]) \in Nat /\ DOMAIN stack[t] = Depth(t)
      /\ \A i \in Depth(t) : stack[t][i] \in Frames
  BY <1>1 DEF Depth
<1>3. stack[t] = <<>> <=> Len(stack[t]) = 0
  BY <1>1
<1>4. QED
  BY <1>1, <1>2, <1>3 DEF Top

LEMMA BecomeIs ==
  ASSUME STypeOK, NEW t \in Threads, stack[t] # <<>>,
         NEW frames \in Seq(Frames), Become(t, frames)
  PROVE  /\ stack' \in [Threads -> Seq(Frames)]
         /\ \A u \in Threads \ {t} : stack'[u] = stack[u]
         /\ Len(stack'[t]) = Len(stack[t]) - 1 + Len(frames)
         /\ \A i \in 1 .. Len(stack[t]) - 1 : stack'[t][i] = stack[t][i]
         /\ \A i \in Len(stack[t]) .. Len(stack[t]) - 1 + Len(frames) :
              stack'[t][i] = frames[i - Len(stack[t]) + 1]
<1>1. /\ stack[t] \in Seq(Frames) /\ Len(stack[t]) \in Nat \ {0}
      /\ stack' = [stack EXCEPT ![t] = Beneath(t) \o frames]
  BY StackIs DEF Become
<1>2. /\ Beneath(t) \in Seq(Frames) /\ Len(Beneath(t)) = Len(stack[t]) - 1
      /\ \A i \in 1 .. Len(stack[t]) - 1 : Beneath(t)[i] = stack[t][i]
  BY <1>1 DEF Beneath
<1>3. stack'[t] = Beneath(t) \o frames /\ \A u \in Threads \ {t} : stack'[u] = stack[u]
  BY <1>1 DEF STypeOK
<1>4. /\ Beneath(t) \o frames \in Seq(Frames)
      /\ Len(Beneath(t) \o frames) = Len(Beneath(t)) + Len(frames)
      /\ \A i \in 1 .. Len(Beneath(t)) + Len(frames) :
           (Beneath(t) \o frames)[i] =
             IF i <= Len(Beneath(t)) THEN Beneath(t)[i]
             ELSE frames[i - Len(Beneath(t))]
  <2>1. Beneath(t) \in Seq(Frames) /\ frames \in Seq(Frames)
    BY <1>2
  <2>2. ASSUME NEW S, NEW s1 \in Seq(S), NEW s2 \in Seq(S)
        PROVE  /\ s1 \o s2 \in Seq(S) /\ Len(s1 \o s2) = Len(s1) + Len(s2)
               /\ \A i \in 1 .. Len(s1) + Len(s2) :
                    (s1 \o s2)[i] = IF i <= Len(s1) THEN s1[i] ELSE s2[i - Len(s1)]
    BY ConcatProperties
  <2>3. QED
    BY <2>1, <2>2, Zenon
<1>5. stack' \in [Threads -> Seq(Frames)]
  BY <1>1, <1>4 DEF STypeOK
<1>6. Len(frames) \in Nat
  OBVIOUS
<1>7. \A i \in 1 .. Len(stack[t]) - 1 : stack'[t][i] = stack[t][i]
  BY <1>1, <1>2, <1>3, <1>4, <1>6
<1>8. ASSUME NEW i \in Len(stack[t]) .. Len(stack[t]) - 1 + Len(frames)
      PROVE  stack'[t][i] = frames[i - Len(stack[t]) + 1]
  <2>1. i \in 1 .. Len(Beneath(t)) + Len(frames) /\ ~(i <= Len(Beneath(t)))
    BY <1>1, <1>2, <1>6
  <2>2. i - Len(Beneath(t)) = i - Len(stack[t]) + 1
    BY <1>1, <1>2
  <2>3. QED
    BY <1>3, <1>4, <2>1, <2>2
<1>9. QED
  BY <1>2, <1>3, <1>4, <1>5, <1>7, <1>8

LEMMA PushIs ==
  ASSUME STypeOK, NEW t \in Threads, NEW frame \in Frames, Push(t, frame)
  PROVE  /\ stack' \in [Threads -> Seq(Frames)]
         /\ \A u \in Threads \ {t} : stack'[u] = stack[u]
         /\ Len(stack'[t]) = Len(stack[t]) + 1
         /\ \A i \in Depth(t) : stack'[t][i] = stack[t][i]
         /\ stack'[t][Len(stack[t]) + 1] = frame
<1>1. stack[t] \in Seq(Frames) /\ stack' = [stack EXCEPT ![t] = Append(@, frame)]
  BY StackIs DEF Push
<1>2. QED
  BY <1>1 DEF STypeOK, Depth

(* An index into a set of frames that is the highest of them.              *)
LEMMA LastOne ==
  ASSUME NEW n \in Nat, NEW H \in SUBSET (1 .. n), H # {}
  PROVE  \E i \in H : \A j \in H : j <= i
<1> DEFINE T == {n - i : i \in H}
           R == OpToRel(<, Nat)
<1>1. \A i \in H : i \in Nat /\ n - i \in Nat
  OBVIOUS
<1>2. T \subseteq Nat /\ T # {}
  BY <1>1
<1>3. IsWellFoundedOn(R, Nat)
  BY NatLessThanWellFounded
<1>4. \E x \in T : \A y \in T : <<y, x>> \notin R
  <2> HIDE DEF R, T
  <2>1. QED
    BY <1>2, <1>3, WFMin
<1>5. \A x, y \in Nat : y < x => <<y, x>> \in R
  BY DEF OpToRel
<1>6. PICK x \in T : \A y \in T : ~(y < x)
  <2> HIDE DEF R
  <2>1. QED
    BY <1>2, <1>4, <1>5
<1>7. PICK i \in H : x = n - i
  OBVIOUS
<1>8. ASSUME NEW j \in H PROVE j <= i
  <2>1. ~(n - j < n - i)
    BY <1>6, <1>7
  <2>2. QED
    BY <1>1, <2>1
<1>9. QED
  BY <1>8

-----------------------------------------------------------------------------
(* What is left alone stays as it was.                                     *)

LEMMA OthersBehave ==
  ASSUME NEW u \in Threads, stack'[u] = stack[u], Behaved(u)
  PROVE  Behaved(u)'
  BY DEF Behaved, Depth

LEMMA OthersInOrder ==
  ASSUME NEW u \in Threads, stack'[u] = stack[u], mutex' = u <=> mutex = u,
         alive, misused => misused', InOrder(u)
  PROVE  InOrder(u)'
<1>1. ~misused' => Behaved(u)'
  BY OthersBehave DEF InOrder
<1>2. QED
  BY <1>1 DEF InOrder, Depth

(* A step of thread t, given what it does to t itself.                     *)
LEMMA StepKeeps ==
  ASSUME SInv, alive, NEW t \in Threads, STypeOK', IInv', Ownership',
         ~misused' => alive', misused => misused', InOrder(t)',
         \A u \in Threads \ {t} : stack'[u] = stack[u] /\ (mutex' = u <=> mutex = u)
  PROVE  SInv'
<1>1. ASSUME NEW u \in Threads \ {t} PROVE InOrder(u)'
  BY OthersInOrder DEF SInv
<1>2. QED
  BY <1>1 DEF SInv

(* The heartbeat loop and the manager do not take part.                    *)
LEMMA SdkKeeps ==
  ASSUME SInv, sdkUnchanged, mutex' \in Threads \cup {"free"},
         stack' \in [Threads -> Seq(Frames)], stack[Hb] = <<>> => stack'[Hb] = <<>>
  PROVE  STypeOK' /\ IInv' /\ Ownership'
<1>1. UNCHANGED vars /\ UNCHANGED <<client, manager, alive, misused>>
  BY DEF sdkUnchanged
<1>2. IInv'
  BY <1>1, Inductive DEF SInv
<1>3. STypeOK'
  BY <1>1, <1>2 DEF SInv, STypeOK, IInv
<1>4. Ownership'
  BY <1>1 DEF SInv, Ownership, vars
<1>5. QED
  BY <1>2, <1>3, <1>4

LEMMA Shift ==
  ASSUME NEW n \in Nat \ {0}, NEW m \in Nat, NEW i \in 1 .. n - 1 + m,
         ~(i <= n - 1)
  PROVE  /\ i - n + 1 \in 1 .. m /\ n - 1 + (i - n + 1) = i
         /\ i \in n .. n - 1 + m
OBVIOUS

(* A frame may give way to others that fit at its height.                  *)
LEMMA BecomeBehaves ==
  ASSUME STypeOK, NEW t \in Threads, stack[t] # <<>>, Behaved(t),
         NEW frames \in Seq(Frames), Become(t, frames),
         Top(t) = "licenseUpdated" => Len(frames) = 0,
         \A k \in 1 .. Len(frames) :
           /\ Len(stack[t]) - 1 + k <= Ceiling[frames[k]]
           /\ frames[k] = "licenseUpdated" => k = Len(frames)
           /\ frames[k] = "unlock" => k + 1 = Len(frames) /\ frames[k + 1] = "licenseUpdated"
           /\ frames[k] \notin {"activate", "join", "joinLast"}
           /\ frames[k] \in OfActivation =>
                /\ k = Len(frames)
                /\ \A i \in 1 .. Len(stack[t]) - 1 : stack[t][i] \notin OfActivation
  PROVE  Behaved(t)'
<1> DEFINE n == Len(stack[t])
           m == Len(frames)
           old == stack[t]
           new == stack'[t]
<1>1. n \in Nat \ {0} /\ m \in Nat /\ Top(t) = old[n]
  BY StackIs
<1>2. /\ Len(new) = n - 1 + m
      /\ \A i \in 1 .. n - 1 : new[i] = old[i]
      /\ \A i \in n .. n - 1 + m : new[i] = frames[i - n + 1]
  BY BecomeIs
<1>3. ASSUME NEW i \in 1 .. n - 1 + m, ~(i <= n - 1)
      PROVE  /\ i - n + 1 \in 1 .. m /\ new[i] = frames[i - n + 1]
             /\ n - 1 + (i - n + 1) = i
  <2>1. /\ i - n + 1 \in 1 .. m /\ n - 1 + (i - n + 1) = i
        /\ i \in n .. n - 1 + m
    BY <1>1, <1>3, Shift
  <2>2. QED
    BY <1>2, <2>1
<1>4. ASSUME NEW i \in 1 .. n - 1
      PROVE  /\ i <= Ceiling[new[i]]
             /\ new[i] # "licenseUpdated"
             /\ new[i] = "unlock" => i = n - 1 /\ m = 0
             /\ new[i] = "activate" => i = 1 \/ new[1] = "heartbeatError"
             /\ t = Hb => new[i] \notin {"join", "joinLast"}
  <2>1. i \in Depth(t) /\ i # n /\ new[i] = old[i] /\ i <= n - 1
    BY <1>1, <1>2 DEF Depth
  <2>2. 1 \in 1 .. n - 1 /\ new[1] = old[1]
    BY <1>1, <1>2, <2>1
  <2>3. old[i] = "unlock" => i + 1 = n /\ old[n] = "licenseUpdated"
    BY <2>1 DEF Behaved
  <2>4. old[i] = "unlock" => i = n - 1 /\ m = 0
    BY <1>1, <2>3
  <2>5. QED
    BY <2>1, <2>2, <2>4 DEF Behaved
<1>5. ASSUME NEW i \in 1 .. n - 1 + m, ~(i <= n - 1)
      PROVE  /\ i <= Ceiling[new[i]]
             /\ new[i] = "licenseUpdated" => i = n - 1 + m
             /\ new[i] = "unlock" => i + 1 = n - 1 + m /\ new[i + 1] = "licenseUpdated"
             /\ new[i] \notin {"activate", "join", "joinLast"}
             /\ new[i] \in OfActivation =>
                  /\ i = n - 1 + m
                  /\ \A j \in 1 .. n - 1 : new[j] \notin OfActivation
  <2> DEFINE k == i - n + 1
  <2>1. k \in 1 .. m /\ new[i] = frames[k] /\ n - 1 + k = i
    BY <1>3, <1>5
  <2>2. k + 1 = m => i + 1 = n - 1 + m /\ new[i + 1] = frames[k + 1]
    <3>1. ASSUME k + 1 = m PROVE i + 1 \in n .. n - 1 + m /\ (i + 1) - n + 1 = k + 1
      <4> HIDE DEF n, m
      <4>1. QED
        BY <1>1, <1>5, <3>1
    <3>2. ASSUME k + 1 = m PROVE i + 1 = n - 1 + m /\ new[i + 1] = frames[k + 1]
      <4>1. i + 1 = n - 1 + m
        <5> HIDE DEF n, m
        <5>1. QED
          BY <1>1, <1>5, <3>2
      <4>2. QED
        BY <1>2, <3>1, <3>2, <4>1
    <3>3. QED
      BY <3>2
  <2>3. k = m => i = n - 1 + m
    BY <1>1, <2>1
  <2> HIDE DEF k
  <2>4. \A j \in 1 .. n - 1 : new[j] = old[j]
    BY <1>2
  <2>5. QED
    BY <2>1, <2>2, <2>3, <2>4
<1> HIDE DEF n, m, old, new
<1>6. \A i \in 1 .. n - 1 + m :
        /\ i <= Ceiling[new[i]]
        /\ new[i] = "licenseUpdated" => i = n - 1 + m
        /\ new[i] = "unlock" =>
             \/ i = n - 1 + m
             \/ i + 1 = n - 1 + m /\ new[i + 1] = "licenseUpdated"
        /\ new[i] = "activate" => i = 1 \/ new[1] = "heartbeatError"
        /\ t = Hb => new[i] \notin {"join", "joinLast"}
  <2> TAKE i \in 1 .. n - 1 + m
  <2>1. CASE i <= n - 1
    BY <1>1, <1>4, <2>1
  <2>2. CASE ~(i <= n - 1)
    BY <1>5, <2>2
  <2>3. QED
    BY <2>1, <2>2
<1>7. \A i, j \in 1 .. n - 1 + m :
        new[i] \in OfActivation /\ new[j] \in OfActivation => i = j
  <2> TAKE i, j \in 1 .. n - 1 + m
  <2>1. CASE i <= n - 1 /\ j <= n - 1
    <3>1. i \in Depth(t) /\ j \in Depth(t) /\ new[i] = old[i] /\ new[j] = old[j]
      <4>1. i \in 1 .. n - 1 /\ j \in 1 .. n - 1 /\ i \in 1 .. n /\ j \in 1 .. n
        BY <1>1, <2>1
      <4>2. QED
        BY <1>2, <4>1 DEF Depth, n
    <3>2. QED
      BY <3>1 DEF Behaved, old
  <2>2. CASE ~(i <= n - 1) /\ ~(j <= n - 1)
    BY <1>5, <2>2
  <2>3. CASE i <= n - 1 /\ ~(j <= n - 1)
    <3>1. i \in 1 .. n - 1
      BY <1>1, <2>3
    <3>2. QED
      BY <1>5, <2>3, <3>1
  <2>4. CASE ~(i <= n - 1) /\ j <= n - 1
    <3>1. j \in 1 .. n - 1
      BY <1>1, <2>4
    <3>2. QED
      BY <1>5, <2>4, <3>1
  <2>5. QED
    BY <2>1, <2>2, <2>3, <2>4
<1>8. QED
  BY <1>2, <1>6, <1>7 DEF Behaved, Depth, n, m, new

(* A call goes on top of a callback that may make it.                      *)
LEMMA PushBehaves ==
  ASSUME STypeOK, NEW t \in Threads, NEW frame \in Frames, Push(t, frame),
         Behaved(t), Len(stack[t]) + 1 <= Ceiling[frame],
         Top(t) \notin {"licenseUpdated", "unlock"},
         frame \notin OfActivation \cup {"licenseUpdated", "unlock"},
         frame = "activate" => stack[t] = <<>> \/ stack[t][1] = "heartbeatError",
         frame \in {"join", "joinLast"} => t # Hb
  PROVE  Behaved(t)'
<1> DEFINE n == Len(stack[t])
           old == stack[t]
           new == stack'[t]
<1>1. n \in Nat /\ (n # 0 => old[n] \notin {"licenseUpdated", "unlock"})
  BY StackIs
<1>2. /\ Len(new) = n + 1 /\ new[n + 1] = frame
      /\ \A i \in 1 .. n : new[i] = old[i]
  BY PushIs DEF Depth
<1>3. ASSUME NEW i \in 1 .. n + 1
      PROVE  i = n + 1 \/ i \in 1 .. n
  BY <1>1
<1>4. ASSUME NEW i \in 1 .. n
      PROVE  /\ i <= Ceiling[new[i]]
             /\ new[i] \notin {"licenseUpdated", "unlock"}
             /\ new[i] = "activate" => i = 1 \/ new[1] = "heartbeatError"
             /\ t = Hb => new[i] \notin {"join", "joinLast"}
  <2>1. i \in Depth(t) /\ new[i] = old[i] /\ n \in Depth(t) /\ n # 0
    BY <1>1, <1>2 DEF Depth
  <2>2. new[1] = old[1]
    BY <1>1, <1>2, <2>1
  <2>3. old[i] # "licenseUpdated"
    BY <1>1, <2>1 DEF Behaved
  <2>4. old[i] = "unlock" => i = n \/ old[n] = "licenseUpdated"
    BY <2>1 DEF Behaved
  <2>5. QED
    BY <1>1, <2>1, <2>2, <2>3, <2>4 DEF Behaved
<1>5. frame = "activate" => n + 1 = 1 \/ new[1] = "heartbeatError"
  <2>1. CASE n = 0
    BY <2>1
  <2>2. CASE n # 0
    <3>1. 1 \in 1 .. n /\ stack[t] # <<>>
      BY <1>1, <2>2, StackIs
    <3>2. QED
      BY <1>2, <3>1
  <2>3. QED
    BY <2>1, <2>2
<1>6. \A i, j \in 1 .. n :
        new[i] \in OfActivation /\ new[j] \in OfActivation => i = j
  BY <1>2 DEF Behaved, Depth
<1>7. n + 1 <= Ceiling[frame]
  OBVIOUS
<1> HIDE DEF n, old, new
<1>8. \A i \in 1 .. n + 1 :
        /\ i <= Ceiling[new[i]]
        /\ new[i] \notin {"licenseUpdated", "unlock"}
        /\ new[i] = "activate" => i = 1 \/ new[1] = "heartbeatError"
        /\ t = Hb => new[i] \notin {"join", "joinLast"}
  BY <1>2, <1>3, <1>4, <1>5, <1>7
<1>9. \A i, j \in 1 .. n + 1 :
        new[i] \in OfActivation /\ new[j] \in OfActivation => i = j
  <2>1. new[n + 1] \notin OfActivation
    BY <1>2
  <2>2. QED
    BY <1>3, <1>6, <2>1
<1>10. QED
  BY <1>2, <1>8, <1>9 DEF Behaved, Depth, n, new

LEMMA PushInOrder ==
  ASSUME STypeOK, alive, NEW t \in Threads, NEW frame \in Frames \ {"unlock"},
         Push(t, frame), UNCHANGED mutex, InOrder(t), ~misused' => Behaved(t)'
  PROVE  InOrder(t)'
<1>1. /\ Len(stack[t]) \in Nat /\ Len(stack'[t]) = Len(stack[t]) + 1
      /\ \A i \in Depth(t) : stack'[t][i] = stack[t][i]
      /\ stack'[t][Len(stack[t]) + 1] # "unlock"
  BY StackIs, PushIs
<1>2. \A i : (i \in Depth(t)' /\ stack'[t][i] = "unlock") <=>
            (i \in Depth(t) /\ stack[t][i] = "unlock")
  <2>1. Depth(t)' = Depth(t) \cup {Len(stack[t]) + 1}
    BY <1>1 DEF Depth
  <2>2. QED
    BY <1>1, <2>1
<1>3. QED
  BY <1>2 DEF InOrder

(* The top frame makes way for others, and the lock is as it was.          *)
LEMMA BecomeInOrder ==
  ASSUME STypeOK, NEW t \in Threads, InOrder(t), stack[t] # <<>>,
         Top(t) # "unlock", NEW frames \in Seq(Frames),
         \A i \in 1 .. Len(frames) : frames[i] # "unlock",
         Become(t, frames), UNCHANGED <<mutex, alive, misused>>,
         ~misused => Behaved(t)'
  PROVE  InOrder(t)'
<1>1. \A i : (i \in Depth(t)' /\ stack'[t][i] = "unlock") <=>
            (i \in Depth(t) /\ stack[t][i] = "unlock")
  <2>1. /\ Len(stack[t]) \in Nat \ {0} /\ Len(frames) \in Nat
        /\ stack[t][Len(stack[t])] # "unlock"
    BY StackIs
  <2>2. /\ Len(stack'[t]) = Len(stack[t]) - 1 + Len(frames)
        /\ \A i \in 1 .. Len(stack[t]) - 1 : stack'[t][i] = stack[t][i]
        /\ \A i \in Len(stack[t]) .. Len(stack[t]) - 1 + Len(frames) :
             stack'[t][i] = frames[i - Len(stack[t]) + 1]
    BY BecomeIs
  <2>3. ASSUME NEW i \in Len(stack[t]) .. Len(stack[t]) - 1 + Len(frames)
        PROVE  stack'[t][i] # "unlock"
    <3>1. i - Len(stack[t]) + 1 \in 1 .. Len(frames)
      BY <2>1
    <3>2. QED
      BY <2>2, <3>1
  <2>4. ASSUME NEW i, i \in Depth(t)', stack'[t][i] = "unlock"
        PROVE  i \in Depth(t) /\ stack[t][i] = "unlock"
    <3>1. i \in 1 .. Len(stack[t]) - 1 + Len(frames)
      BY <2>2, <2>4 DEF Depth
    <3>2. ~(i \in Len(stack[t]) .. Len(stack[t]) - 1 + Len(frames))
      BY <2>3, <2>4
    <3>3. i \in 1 .. Len(stack[t]) - 1
      BY <2>1, <3>1, <3>2
    <3>4. QED
      BY <2>1, <2>2, <2>4, <3>3 DEF Depth
  <2>5. ASSUME NEW i, i \in Depth(t), stack[t][i] = "unlock"
        PROVE  i \in Depth(t)' /\ stack'[t][i] = "unlock"
    <3>1. i \in 1 .. Len(stack[t]) - 1
      BY <2>1, <2>5 DEF Depth
    <3>2. i \in 1 .. Len(stack[t]) - 1 + Len(frames)
      BY <2>1, <3>1
    <3>3. QED
      BY <2>2, <2>5, <3>1, <3>2 DEF Depth
  <2>6. QED
    BY <2>4, <2>5
<1>2. QED
  BY <1>1 DEF InOrder

(* Thread t goes on inside the SDK: the top frame makes way for others,    *)
(* and the lock is as it was.                                              *)
LEMMA BecomeKeeps ==
  ASSUME SInv, alive, NEW t \in Threads, stack[t] # <<>>, Top(t) # "unlock",
         NEW frames \in Seq(Frames),
         \A i \in 1 .. Len(frames) : frames[i] # "unlock",
         Become(t, frames), sdkUnchanged, UNCHANGED mutex,
         ~misused => Behaved(t)'
  PROVE  SInv'
<1>0. STypeOK /\ InOrder(t) /\ UNCHANGED <<alive, misused>>
  BY DEF SInv, sdkUnchanged
<1>1. /\ stack' \in [Threads -> Seq(Frames)]
      /\ \A u \in Threads \ {t} : stack'[u] = stack[u]
  BY <1>0, BecomeIs
<1>2. STypeOK' /\ IInv' /\ Ownership'
  <2>1. mutex' \in Threads \cup {"free"}
    BY <1>0 DEF STypeOK
  <2>2. stack[Hb] = <<>> => stack'[Hb] = <<>>
    BY <1>1 DEF Threads
  <2>3. QED
    BY <1>1, <2>1, <2>2, SdkKeeps
<1>3. InOrder(t)'
  BY <1>0, BecomeInOrder
<1>4. QED
  BY <1>0, <1>1, <1>2, <1>3, StepKeeps DEF SInv

LEMMA CeilingIs ==
  /\ Ceiling["heartbeatError"] = 1 /\ Ceiling["update"] = 1
  /\ Ceiling["activate"] = 2 /\ Ceiling["activationRequired"] = 2
  /\ Ceiling["publicKeyUpdated"] = 3 /\ Ceiling["licenseUpdated"] = 5
  /\ \A frame \in {"query", "sendHeartbeat", "join", "joinLast", "apply",
                   "lock", "unlock"} : Ceiling[frame] = 4
BY DEF Ceiling, Frames, Callbacks

LEMMA TopIs ==
  ASSUME SInv, NEW t \in Threads, Top(t) # "none"
  PROVE  /\ stack[t] # <<>> /\ Len(stack[t]) \in Nat \ {0}
         /\ Len(stack[t]) \in Depth(t) /\ Top(t) = stack[t][Len(stack[t])]
         /\ ~misused => Behaved(t) /\ Len(stack[t]) <= Ceiling[Top(t)]
<1>1. STypeOK
  BY DEF SInv
<1>2. /\ stack[t] # <<>> /\ Len(stack[t]) \in Nat \ {0}
      /\ Len(stack[t]) \in Depth(t) /\ Top(t) = stack[t][Len(stack[t])]
  BY <1>1, StackIs DEF Depth
<1>3. ~misused => Behaved(t) /\ Len(stack[t]) <= Ceiling[Top(t)]
  BY <1>2 DEF SInv, InOrder, Behaved
<1>4. QED
  BY <1>2, <1>3

(* The top frame returns.                                                  *)
LEMMA PopKeeps ==
  ASSUME SInv, alive, NEW t \in Threads, Top(t) \notin {"none", "unlock"},
         Pop(t), sdkUnchanged, UNCHANGED mutex
  PROVE  SInv'
<1>1. /\ stack[t] # <<>> /\ (~misused => Behaved(t)) /\ STypeOK
      /\ <<>> \in Seq(Frames) /\ Len(<<>>) = 0 /\ Become(t, <<>>)
  BY TopIs DEF SInv, Pop
<1>2. ASSUME ~misused PROVE Behaved(t)'
  <2>1. \A k \in 1 .. Len(<<>>) : FALSE
    OBVIOUS
  <2>2. QED
    BY <1>1, <1>2, <2>1, BecomeBehaves, Zenon
<1>3. \A i \in 1 .. Len(<<>>) : <<>>[i] # "unlock"
  OBVIOUS
<1>4. Top(t) # "unlock" /\ (~misused => Behaved(t)')
  BY <1>2
<1>5. QED
  BY <1>1, <1>3, <1>4, BecomeKeeps, Zenon

(* The top frame goes on to f.                                             *)
LEMMA SwapKeeps ==
  ASSUME SInv, alive, NEW t \in Threads,
         Top(t) \notin {"none", "unlock", "licenseUpdated"},
         NEW f \in Frames \ {"unlock", "licenseUpdated", "activate", "join", "joinLast"},
         Become(t, <<f>>), sdkUnchanged, UNCHANGED mutex,
         ~misused => /\ Len(stack[t]) <= Ceiling[f]
                     /\ f \in OfActivation => \A i \in 1 .. Len(stack[t]) - 1 :
                                               stack[t][i] \notin OfActivation
  PROVE  SInv'
<1>1. /\ stack[t] # <<>> /\ (~misused => Behaved(t)) /\ STypeOK
      /\ Len(stack[t]) \in Nat
  BY TopIs DEF SInv
<1>2. <<f>> \in Seq(Frames) /\ Len(<<f>>) = 1 /\ <<f>>[1] = f
  OBVIOUS
<1> DEFINE frames == <<f>>
<1>3. frames \in Seq(Frames) /\ Len(frames) = 1 /\ frames[1] = f /\ Become(t, frames)
  BY <1>2
<1> HIDE DEF frames
<1>4. ASSUME NEW k \in 1 .. Len(frames)
      PROVE  k = Len(frames) /\ frames[k] = f /\ Len(stack[t]) - 1 + k = Len(stack[t])
  BY <1>1, <1>3
<1>5. ASSUME ~misused PROVE Behaved(t)'
  BY <1>1, <1>3, <1>4, <1>5, BecomeBehaves
<1>6. \A i \in 1 .. Len(frames) : frames[i] # "unlock"
  BY <1>4
<1>7. Top(t) # "unlock" /\ (~misused => Behaved(t)')
  BY <1>5
<1>8. QED
  BY <1>1, <1>3, <1>6, <1>7, BecomeKeeps, Zenon

-----------------------------------------------------------------------------
(* The steps inside the SDK.                                               *)

LEMMA QueryKeeps ==
  ASSUME SInv, NEW t \in Threads, Query(t)
  PROVE  SInv'
<1>1. alive /\ Top(t) = "query" /\ Pop(t) /\ sdkUnchanged /\ UNCHANGED mutex
  BY DEF Query, QueryLock
<1>2. QED
  BY <1>1, PopKeeps

LEMMA HeartbeatKeeps ==
  ASSUME SInv, NEW t \in Threads, Heartbeat(t)
  PROVE  SInv'
<1>1. /\ alive /\ Top(t) = "sendHeartbeat" /\ sdkUnchanged /\ UNCHANGED mutex
      /\ Become(t, <<>>) \/ Become(t, <<"apply">>)
  BY DEF Heartbeat, HeartbeatOutcomes
<1>2. CASE Become(t, <<>>)
  BY <1>1, <1>2, PopKeeps DEF Pop
<1>3. CASE Become(t, <<"apply">>)
  <2>1. "apply" \in Frames \ {"unlock", "licenseUpdated", "activate", "join", "joinLast"}
    BY DEF Frames
  <2>2. "apply" \notin OfActivation /\ Ceiling["apply"] = Ceiling["sendHeartbeat"]
    BY CeilingIs DEF OfActivation
  <2>3. ~misused => Len(stack[t]) <= Ceiling["apply"]
    BY <1>1, <2>2, TopIs
  <2>4. QED
    BY <1>1, <1>3, <2>1, <2>2, <2>3, SwapKeeps
<1>4. QED
  BY <1>1, <1>2, <1>3

LEMMA ApplyKeeps ==
  ASSUME SInv, NEW t \in Threads, Apply(t)
  PROVE  SInv'
<1>1. /\ alive /\ Top(t) = "apply" /\ sdkUnchanged /\ UNCHANGED mutex
      /\ Pop(t) \/ Become(t, <<"lock">>)
  BY DEF Apply
<1>2. CASE Pop(t)
  BY <1>1, <1>2, PopKeeps
<1>3. CASE Become(t, <<"lock">>)
  <2>1. "lock" \in Frames \ {"unlock", "licenseUpdated", "activate", "join", "joinLast"}
    BY DEF Frames
  <2>2. "lock" \notin OfActivation /\ Ceiling["lock"] = Ceiling["apply"]
    BY CeilingIs DEF OfActivation
  <2>3. ~misused => Len(stack[t]) <= Ceiling["lock"]
    BY <1>1, <2>2, TopIs
  <2>4. QED
    BY <1>1, <1>3, <2>1, <2>2, <2>3, SwapKeeps
<1>4. QED
  BY <1>1, <1>2, <1>3

LEMMA CallbackKeeps ==
  ASSUME SInv, NEW t \in Threads, CallbackReturns(t)
  PROVE  SInv'
<1>1. /\ alive /\ Top(t) \in Callbacks /\ Pop(t) /\ sdkUnchanged
      /\ UNCHANGED mutex
  BY DEF CallbackReturns
<1>2. Top(t) \notin {"none", "unlock"}
  BY <1>1 DEF Callbacks
<1>3. QED
  BY <1>1, <1>2, PopKeeps

LEMMA UpdatedKeeps ==
  ASSUME SInv, Updated
  PROVE  SInv'
<1>1. /\ alive /\ Top(Hb) = "update" /\ sdkUnchanged /\ UNCHANGED mutex
      /\ Become(Hb, <<>>) \/ Become(Hb, <<"activationRequired">>)
  BY DEF Updated
<1>2. Hb \in Threads
  BY DEF Threads
<1>3. CASE Become(Hb, <<>>)
  BY <1>1, <1>2, <1>3, PopKeeps DEF Pop
<1>4. CASE Become(Hb, <<"activationRequired">>)
  <2>1. "activationRequired" \in
          Frames \ {"unlock", "licenseUpdated", "activate", "join", "joinLast"}
    BY DEF Frames, Callbacks
  <2>2. Len(stack[Hb]) \in Nat \ {0} /\ (~misused => Len(stack[Hb]) <= Ceiling["update"])
    BY <1>1, <1>2, TopIs
  <2>3. \A n \in Nat \ {0} : n <= 1 => n <= 2 /\ 1 .. n - 1 = {}
    OBVIOUS
  <2>4. ~misused => /\ Len(stack[Hb]) <= Ceiling["activationRequired"]
                    /\ \A i \in 1 .. Len(stack[Hb]) - 1 : FALSE
    BY <2>2, <2>3, CeilingIs
  <2>5. QED
    BY <1>1, <1>2, <1>4, <2>1, <2>4, SwapKeeps
<1>5. QED
  BY <1>1, <1>3, <1>4

(* While callbacks behave, activate() is called where no callback of       *)
(* another activate() is.                                                  *)
LEMMA ActivationIsAlone ==
  ASSUME SInv, ~misused, NEW t \in Threads, Top(t) = "activate"
  PROVE  \A i \in 1 .. Len(stack[t]) - 1 : stack[t][i] \notin OfActivation
<1> DEFINE n == Len(stack[t])
<1>1. /\ n \in Nat \ {0} /\ n \in Depth(t) /\ stack[t][n] = "activate"
      /\ Behaved(t) /\ n <= 2
  BY TopIs, CeilingIs
<1>2. n = 1 \/ stack[t][1] = "heartbeatError"
  BY <1>1 DEF Behaved
<1>3. ASSUME NEW i \in 1 .. n - 1 PROVE i = 1 /\ n # 1
  BY <1>1
<1>4. QED
  BY <1>2, <1>3 DEF OfActivation

LEMMA ActivationKeeps ==
  ASSUME SInv, NEW t \in Threads, Activation(t)
  PROVE  SInv'
<1>1. /\ alive /\ Top(t) = "activate" /\ sdkUnchanged /\ UNCHANGED mutex
      /\ \/ Become(t, <<"activationRequired">>)
         \/ Pop(t)
         \/ Become(t, <<"apply">>)
         \/ Become(t, <<"apply", "publicKeyUpdated">>)
  BY DEF Activation
<1>2. ~misused => /\ Behaved(t) /\ Len(stack[t]) <= 2
                  /\ \A i \in 1 .. Len(stack[t]) - 1 : stack[t][i] \notin OfActivation
  BY <1>1, TopIs, CeilingIs, ActivationIsAlone
<1>3. stack[t] # <<>> /\ Len(stack[t]) \in Nat \ {0} /\ STypeOK
  BY <1>1, TopIs DEF SInv
<1>4. CASE Become(t, <<"activationRequired">>)
  <2>1. "activationRequired" \in
          Frames \ {"unlock", "licenseUpdated", "activate", "join", "joinLast"}
    BY DEF Frames, Callbacks
  <2>2. ~misused => Len(stack[t]) <= Ceiling["activationRequired"]
    BY <1>2, CeilingIs
  <2>3. QED
    BY <1>1, <1>2, <1>4, <2>1, <2>2, SwapKeeps
<1>5. CASE Pop(t)
  BY <1>1, <1>5, PopKeeps
<1>6. CASE Become(t, <<"apply">>)
  <2>1. "apply" \in Frames \ {"unlock", "licenseUpdated", "activate", "join", "joinLast"}
    BY DEF Frames
  <2>2. ~misused => Len(stack[t]) <= Ceiling["apply"]
    BY <1>2, <1>3, CeilingIs
  <2>3. "apply" \notin OfActivation
    BY DEF OfActivation
  <2>4. QED
    BY <1>1, <1>6, <2>1, <2>2, <2>3, SwapKeeps
<1>7. CASE Become(t, <<"apply", "publicKeyUpdated">>)
  <2> DEFINE frames == <<"apply", "publicKeyUpdated">>
  <2>1. /\ frames \in Seq(Frames) /\ Len(frames) = 2 /\ Become(t, frames)
        /\ frames[1] = "apply" /\ frames[2] = "publicKeyUpdated"
    BY <1>7 DEF Frames, Callbacks
  <2> HIDE DEF frames
  <2>2. \A k \in 1 .. Len(frames) : k = 1 \/ (k = 2 /\ k = Len(frames))
    BY <2>1
  <2>3. ASSUME ~misused PROVE Behaved(t)'
    <3>1. \A k \in 1 .. Len(frames) : Len(stack[t]) - 1 + k <= Ceiling[frames[k]]
      BY <1>2, <1>3, <2>1, <2>2, <2>3, CeilingIs
    <3>2. /\ "apply" \notin OfActivation \cup {"licenseUpdated", "unlock", "activate", "join", "joinLast"}
          /\ "publicKeyUpdated" \notin {"licenseUpdated", "unlock", "activate", "join", "joinLast"}
      BY DEF OfActivation
    <3>3. \A k \in 1 .. Len(frames) :
            /\ frames[k] \notin {"licenseUpdated", "unlock", "activate", "join", "joinLast"}
            /\ frames[k] \in OfActivation => k = Len(frames)
      BY <2>1, <2>2, <3>2
    <3>4. Top(t) # "licenseUpdated"
      BY <1>1
    <3>5. QED
      BY <1>2, <1>3, <2>1, <2>3, <3>1, <3>3, <3>4, BecomeBehaves
  <2>4. \A k \in 1 .. Len(frames) : frames[k] # "unlock"
    BY <2>1, <2>2
  <2>5. Top(t) # "unlock" /\ (~misused => Behaved(t)')
    BY <1>1, <2>3
  <2>6. QED
    BY <1>1, <1>3, <2>1, <2>4, <2>5, BecomeKeeps, Zenon
<1>8. QED
  BY <1>1, <1>4, <1>5, <1>6, <1>7

LEMMA LockKeeps ==
  ASSUME SInv, NEW t \in Threads, Lock(t)
  PROVE  SInv'
<1> DEFINE n == Len(stack[t])
           frames == <<"unlock", "licenseUpdated">>
<1>1. /\ alive /\ Top(t) = "lock" /\ mutex = "free" /\ mutex' = t /\ sdkUnchanged
      /\ UNCHANGED <<alive, misused>>
  BY DEF Lock, sdkUnchanged
<1>2. /\ STypeOK /\ stack[t] # <<>> /\ n \in Nat \ {0}
      /\ ~misused => Behaved(t) /\ n <= 4
  BY <1>1, TopIs, CeilingIs DEF SInv
<1>3. /\ frames \in Seq(Frames) /\ Len(frames) = 2 /\ Become(t, frames)
      /\ frames[1] = "unlock" /\ frames[2] = "licenseUpdated"
  BY DEF Frames, Callbacks, Lock
<1>4. ASSUME NEW u \in Threads, NEW i \in Depth(u) PROVE stack[u][i] # "unlock"
  <2>1. mutex # u
    BY <1>1 DEF Threads, App, Hb
  <2>2. QED
    BY <1>1, <2>1 DEF SInv, InOrder
<1> HIDE DEF frames
<1>5. /\ stack' \in [Threads -> Seq(Frames)]
      /\ \A u \in Threads \ {t} : stack'[u] = stack[u]
  BY <1>2, <1>3, BecomeIs
<1>6. STypeOK' /\ IInv' /\ Ownership'
  <2>1. stack[Hb] = <<>> => stack'[Hb] = <<>>
    BY <1>2, <1>5 DEF Threads
  <2>2. QED
    BY <1>1, <1>5, <2>1, SdkKeeps
<1>7. ~misused => Behaved(t)'
  <2>1. \A k \in 1 .. Len(frames) : k = 1 \/ (k = 2 /\ k = Len(frames))
    BY <1>3
  <2>2. ~misused => \A k \in 1 .. Len(frames) : Len(stack[t]) - 1 + k <= Ceiling[frames[k]]
    BY <1>2, <1>3, <2>1, CeilingIs
  <2>3. {"licenseUpdated", "unlock"} \cap
          (OfActivation \cup {"activate", "join", "joinLast"}) = {}
    BY DEF OfActivation
  <2>4. \A k \in 1 .. Len(frames) :
          /\ frames[k] = "licenseUpdated" => k = Len(frames)
          /\ frames[k] = "unlock" => k + 1 = Len(frames) /\ frames[k + 1] = "licenseUpdated"
          /\ frames[k] \notin {"activate", "join", "joinLast"}
          /\ frames[k] \notin OfActivation
    BY <1>3, <2>1, <2>3
  <2>5. Top(t) # "licenseUpdated"
    BY <1>1
  <2>6. QED
    BY <1>2, <1>3, <2>2, <2>4, <2>5, BecomeBehaves
<1>8. /\ Depth(t)' = 1 .. n + 1 /\ stack'[t][n] = "unlock"
      /\ \A i \in Depth(t)' : stack'[t][i] = "unlock" => i = n
  <2>1. /\ Len(stack'[t]) = n - 1 + Len(frames)
        /\ \A i \in 1 .. n - 1 : stack'[t][i] = stack[t][i]
        /\ \A i \in n .. n - 1 + Len(frames) : stack'[t][i] = frames[i - n + 1]
    BY <1>2, <1>3, BecomeIs
  <2> HIDE DEF n
  <2>2. n - 1 + Len(frames) = n + 1
    BY <1>2, <1>3
  <2>3. /\ n \in n .. n + 1 /\ n + 1 \in n .. n + 1
        /\ n - n + 1 = 1 /\ (n + 1) - n + 1 = 2
        /\ \A i \in 1 .. n + 1 : i \in 1 .. n - 1 \/ i = n \/ i = n + 1
    BY <1>2
  <2>4. stack'[t][n] = "unlock" /\ stack'[t][n + 1] = "licenseUpdated"
    BY <1>3, <2>1, <2>2, <2>3
  <2>5. ASSUME NEW i \in 1 .. n - 1 PROVE stack'[t][i] # "unlock"
    <3>1. i \in Depth(t)
      BY <1>2 DEF Depth, n
    <3>2. QED
      BY <1>4, <2>1, <3>1
  <2>6. Depth(t)' = 1 .. n + 1
    BY <2>1, <2>2 DEF Depth
  <2>7. QED
    BY <2>3, <2>4, <2>5, <2>6
<1>9. InOrder(t)'
  <2>1. n \in Depth(t)'
    BY <1>2, <1>8
  <2>2. QED
    BY <1>1, <1>7, <1>8, <2>1 DEF InOrder
<1>10. \A u \in Threads \ {t} : mutex' = u <=> mutex = u
  BY <1>1 DEF Threads, App, Hb
<1>11. QED
  BY <1>1, <1>5, <1>6, <1>9, <1>10, StepKeeps DEF SInv

LEMMA UnlockKeeps ==
  ASSUME SInv, NEW t \in Threads, Unlock(t)
  PROVE  SInv'
<1> DEFINE n == Len(stack[t])
<1>1. /\ alive /\ Top(t) = "unlock" /\ mutex' = "free" /\ sdkUnchanged
      /\ UNCHANGED <<alive, misused>> /\ Become(t, <<>>)
  BY DEF Unlock, Release, Pop, sdkUnchanged
<1>2. /\ STypeOK /\ InOrder(t) /\ stack[t] # <<>> /\ n \in Nat \ {0}
      /\ n \in Depth(t) /\ stack[t][n] = "unlock" /\ (~misused => Behaved(t))
  BY <1>1, TopIs DEF SInv
<1>3. mutex = t /\ \A i \in Depth(t) : stack[t][i] = "unlock" => i = n
  BY <1>1, <1>2 DEF InOrder
<1>4. <<>> \in Seq(Frames) /\ Len(<<>>) = 0 /\ \A k \in 1 .. Len(<<>>) : FALSE
  OBVIOUS
<1>5. /\ stack' \in [Threads -> Seq(Frames)]
      /\ \A u \in Threads \ {t} : stack'[u] = stack[u]
      /\ Len(stack'[t]) = n - 1 + Len(<<>>)
      /\ \A i \in 1 .. n - 1 : stack'[t][i] = stack[t][i]
  BY <1>1, <1>2, <1>4, BecomeIs, Zenon
<1>6. STypeOK' /\ IInv' /\ Ownership'
  <2>1. stack[Hb] = <<>> => stack'[Hb] = <<>>
    BY <1>2, <1>5 DEF Threads
  <2>2. QED
    BY <1>1, <1>5, <2>1, SdkKeeps
<1>7. ~misused => Behaved(t)'
  <2>1. Top(t) # "licenseUpdated"
    BY <1>1
  <2>2. QED
    BY <1>1, <1>2, <1>4, <2>1, BecomeBehaves, Zenon
<1>8. \A i \in Depth(t)' : stack'[t][i] # "unlock"
  <2>1. Depth(t)' = 1 .. n - 1
    BY <1>2, <1>4, <1>5 DEF Depth
  <2>2. \A i \in 1 .. n - 1 : i \in Depth(t) /\ i # n
    BY <1>2 DEF Depth
  <2>3. QED
    BY <1>3, <1>5, <2>1, <2>2
<1>9. InOrder(t)'
  <2>1. mutex' # t
    BY <1>1 DEF Threads, App, Hb
  <2>2. QED
    BY <1>1, <1>7, <1>8, <2>1 DEF InOrder
<1>10. \A u \in Threads \ {t} : mutex' = u <=> mutex = u
  BY <1>1, <1>3 DEF Threads, App, Hb
<1>11. QED
  BY <1>1, <1>5, <1>6, <1>9, <1>10, StepKeeps DEF SInv

-----------------------------------------------------------------------------
(* The calls.                                                              *)

(* The stacks and the lock are left alone.                                 *)
LEMMA QuietKeeps ==
  ASSUME SInv, alive, UNCHANGED <<stack, mutex, alive>>, misused => misused',
         STypeOK', IInv', Ownership'
  PROVE  SInv'
<1>1. ASSUME NEW u \in Threads PROVE InOrder(u)'
  BY OthersInOrder DEF SInv
<1>2. QED
  BY <1>1 DEF SInv

LEMMA MayCallIs ==
  ASSUME STypeOK, NEW t \in Threads, NEW call, MayCall(t, call)
  PROVE  /\ alive /\ client /\ misused' \in BOOLEAN /\ (misused => misused')
         /\ \/ t = App /\ stack[t] = <<>> /\ Top(t) = "none"
            \/ /\ Top(t) \in Callbacks /\ stack[t] # <<>>
               /\ ~misused' => ~Unwise(t, Top(t), call)
<1>1. /\ alive /\ client /\ misused' = (misused \/ (stack[t] # <<>> /\ Unwise(t, Top(t), call)))
      /\ (t = App /\ stack[t] = <<>>) \/ <<Top(t), call>> \in Uses
  BY DEF MayCall
<1>2. misused' \in BOOLEAN /\ (misused => misused')
      /\ (stack[t] # <<>> /\ ~misused' => ~Unwise(t, Top(t), call))
  BY <1>1
<1>3. CASE t = App /\ stack[t] = <<>>
  BY <1>1, <1>2, <1>3 DEF Top
<1>4. CASE <<Top(t), call>> \in Uses
  <2>1. Top(t) \in Callbacks
    BY <1>4, SessionAssumption
  <2>2. stack[t] # <<>>
    BY <2>1, StackIs DEF Callbacks
  <2>3. QED
    BY <1>1, <1>2, <2>1, <2>2
<1>5. QED
  BY <1>1, <1>3, <1>4

LEMMA CallBehaves ==
  ASSUME SInv, NEW t \in Threads, NEW call, MayCall(t, call), ~misused',
         NEW frame \in Frames, Push(t, frame),
         \/ frame = call /\ call \in {"query", "activate", "sendHeartbeat"}
         \/ frame = "join" /\ call = "close"
  PROVE  Behaved(t)'
<1>1. STypeOK /\ ~misused /\ Behaved(t) /\ Len(stack[t]) \in Nat
  <2>1. STypeOK /\ ~misused
    BY MayCallIs DEF SInv
  <2>2. QED
    BY <2>1, StackIs DEF SInv, InOrder
<1>2. /\ frame \notin OfActivation \cup {"licenseUpdated", "unlock", "joinLast"}
      /\ Ceiling[frame] = IF frame = "activate" THEN 2 ELSE 4
  BY CeilingIs DEF OfActivation
<1>3. CASE t = App /\ stack[t] = <<>> /\ Top(t) = "none"
  <2>1. Len(stack[t]) + 1 <= Ceiling[frame] /\ t # Hb
    BY <1>1, <1>2, <1>3, StackIs DEF App, Hb
  <2>2. QED
    BY <1>1, <1>2, <1>3, <2>1, PushBehaves
<1>4. CASE Top(t) \in Callbacks /\ stack[t] # <<>> /\ ~Unwise(t, Top(t), call)
  <2>1. /\ Top(t) \in {"heartbeatError", "activationRequired", "publicKeyUpdated"}
        /\ frame = "activate" => Top(t) = "heartbeatError"
        /\ frame \in {"join", "joinLast"} => t # Hb
    BY <1>2, <1>4 DEF Unwise, Callbacks
  <2>2. /\ Len(stack[t]) \in Depth(t) /\ Top(t) = stack[t][Len(stack[t])]
        /\ Len(stack[t]) \in Nat \ {0} /\ Len(stack[t]) <= Ceiling[Top(t)]
    <3>1. Top(t) # "none"
      BY <2>1
    <3>2. QED
      BY <1>1, <3>1, TopIs, Zenon
  <2>3. Len(stack[t]) <= 3 /\ (Top(t) = "heartbeatError" => Len(stack[t]) = 1)
    <3>1. /\ Ceiling[Top(t)] \in {1, 2, 3}
          /\ Top(t) = "heartbeatError" => Ceiling[Top(t)] = 1
      BY <2>1, CeilingIs
    <3>2. Len(stack[t]) \in Nat \ {0} /\ Len(stack[t]) <= Ceiling[Top(t)]
      BY <2>2
    <3>3. \A n \in Nat \ {0}, c \in {1, 2, 3} : n <= c => n <= 3 /\ (c = 1 => n = 1)
      OBVIOUS
    <3>4. QED
      BY <3>1, <3>2, <3>3, Zenon
  <2>4. Len(stack[t]) + 1 <= Ceiling[frame]
    BY <1>2, <2>1, <2>2, <2>3
  <2>5. frame = "activate" => stack[t][1] = "heartbeatError"
    BY <2>1, <2>2, <2>3
  <2>6. QED
    BY <1>1, <1>2, <2>1, <2>4, <2>5, PushBehaves
<1>5. QED
  BY <1>1, <1>3, <1>4, MayCallIs

LEMMA PauseKeeps ==
  ASSUME SInv, NEW t \in Threads, CallPause(t) \/ CallResume(t)
  PROVE  SInv'
<1>1. /\ MayCall(t, "pause") \/ MayCall(t, "resume")
      /\ Pause \/ Resume \/ UNCHANGED vars
      /\ UNCHANGED <<client, manager, mutex, stack, alive>>
  BY DEF CallPause, CallResume
<1>2. alive /\ misused' \in BOOLEAN /\ (misused => misused')
  BY <1>1, MayCallIs DEF SInv
<1>3. IInv' /\ UNCHANGED loop
  <2>1. [Next]_vars
    BY <1>1 DEF Next
  <2>2. UNCHANGED loop
    BY <1>1 DEF Pause, Resume, vars
  <2>3. QED
    BY <2>1, <2>2, Inductive DEF SInv
<1>4. STypeOK' /\ Ownership'
  BY <1>1, <1>2, <1>3 DEF SInv, STypeOK, IInv, Ownership
<1>5. QED
  BY <1>1, <1>2, <1>3, <1>4, QuietKeeps

(* A push that leaves the lock alone, whatever the manager does meanwhile. *)
LEMMA PushKeeps ==
  ASSUME SInv, alive, NEW t \in Threads, NEW frame \in Frames \ {"unlock"},
         Push(t, frame), UNCHANGED <<client, manager, mutex, alive>>,
         misused' \in BOOLEAN, misused => misused', IInv', UNCHANGED loop,
         t = Hb => loop \in {"top", "override"}, ~misused' => Behaved(t)'
  PROVE  SInv'
<1>1. STypeOK /\ InOrder(t) /\ TypeOK'
  BY DEF SInv, IInv
<1>2. /\ stack' \in [Threads -> Seq(Frames)]
      /\ \A u \in Threads \ {t} : stack'[u] = stack[u]
  BY <1>1, PushIs
<1>3. STypeOK'
  BY <1>1, <1>2 DEF STypeOK
<1>4. Ownership'
  <2>1. t # Hb => stack'[Hb] = stack[Hb]
    BY <1>2 DEF Threads
  <2>2. QED
    BY <2>1 DEF SInv, Ownership
<1>5. InOrder(t)'
  BY <1>1, PushInOrder
<1>6. QED
  BY <1>2, <1>3, <1>4, <1>5, StepKeeps DEF SInv

LEMMA WaitingKeeps ==
  ASSUME SInv, NEW t \in Threads, CallWaiting(t)
  PROVE  SInv'
<1>1. PICK call \in {"query", "activate", "sendHeartbeat"} :
        /\ MayCall(t, call) /\ Push(t, call)
        /\ UNCHANGED <<vars, client, manager, mutex, alive>>
  BY DEF CallWaiting
<1>2. call \in Frames \ {"unlock"}
  BY DEF Frames
<1>3. /\ alive /\ misused' \in BOOLEAN /\ (misused => misused')
      /\ t = Hb => stack[Hb] # <<>>
  BY <1>1, MayCallIs DEF SInv, App, Hb
<1>4. IInv' /\ UNCHANGED loop
  BY <1>1, Inductive DEF SInv, vars
<1>5. t = Hb => loop \in {"top", "override"}
  BY <1>3 DEF SInv, Ownership
<1>6. ~misused' => Behaved(t)'
  BY <1>1, <1>2, CallBehaves
<1>7. QED
  BY <1>1, <1>2, <1>3, <1>4, <1>5, <1>6, PushKeeps

(* Raising the flag disturbs nothing that is known of the manager.         *)
LEMMA RequestKeeps ==
  ASSUME IInv, NEW t \in Threads, RequestStop(t)
  PROVE  IInv' /\ UNCHANGED loop
<1>1. CASE t = App
  <2>1. Stop
    BY <1>1 DEF RequestStop
  <2>2. [Next]_vars /\ UNCHANGED loop
    BY <2>1 DEF Next, Stop
  <2>3. QED
    BY <2>2, Inductive
<1>2. CASE t # App
  <2>1. /\ stopRequested' = TRUE
        /\ UNCHANGED <<running, paused, stopping, loop, currentInterval,
                       remaining, resp, notified, history>>
    BY <1>2 DEF RequestStop
  <2>2. QED
    BY <2>1 DEF IInv, TypeOK, OneThread, StopIsSeen, BackoffIsBounded,
                SuccessForgets, history
<1>3. QED
  BY <1>1, <1>2

LEMMA CloseKeeps ==
  ASSUME SInv, NEW t \in Threads, CallClose(t)
  PROVE  SInv'
<1>1. /\ MayCall(t, "close") /\ UNCHANGED <<client, manager, mutex, alive>>
      /\ \/ manager /\ RequestStop(t) /\ Push(t, "join")
         \/ ~manager /\ UNCHANGED <<vars, stack>>
  BY DEF CallClose, LockToClose
<1>2. /\ alive /\ misused' \in BOOLEAN /\ (misused => misused')
      /\ t = Hb => stack[Hb] # <<>>
  BY <1>1, MayCallIs DEF SInv, App, Hb
<1>3. CASE RequestStop(t) /\ Push(t, "join")
  <2>1. "join" \in Frames \ {"unlock"}
    BY DEF Frames
  <2>2. IInv' /\ UNCHANGED loop
    BY <1>3, RequestKeeps DEF SInv
  <2>3. t = Hb => loop \in {"top", "override"}
    BY <1>2 DEF SInv, Ownership
  <2>4. ~misused' => Behaved(t)'
    BY <1>1, <1>3, <2>1, CallBehaves
  <2>5. QED
    BY <1>1, <1>2, <1>3, <2>1, <2>2, <2>3, <2>4, PushKeeps
<1>4. CASE UNCHANGED <<vars, stack>>
  <2>1. IInv' /\ UNCHANGED loop
    BY <1>4, Inductive DEF SInv, vars
  <2>2. STypeOK' /\ Ownership'
    BY <1>1, <1>2, <1>4, <2>1 DEF SInv, STypeOK, IInv, Ownership
  <2>3. QED
    BY <1>1, <1>2, <1>4, <2>1, <2>2, QuietKeeps
<1>5. QED
  BY <1>1, <1>3, <1>4

LEMMA DestroyKeeps ==
  ASSUME SInv, Destroy
  PROVE  SInv'
<1>1. /\ alive /\ client /\ stack[App] = <<>>
      /\ UNCHANGED <<manager, mutex, alive, misused>>
      /\ \/ manager /\ Stop /\ Push(App, "joinLast") /\ UNCHANGED client
         \/ ~manager /\ client' = FALSE /\ UNCHANGED <<vars, stack>>
  BY DEF Destroy
<1>2. App \in Threads /\ App # Hb /\ STypeOK /\ misused' \in BOOLEAN
  BY <1>1 DEF Threads, App, Hb, SInv, STypeOK
<1>3. CASE Stop /\ Push(App, "joinLast") /\ UNCHANGED client
  <2>1. /\ "joinLast" \in Frames \ {"unlock"}
        /\ "joinLast" \notin OfActivation \cup {"licenseUpdated", "unlock", "activate"}
        /\ Ceiling["joinLast"] = 4
    BY CeilingIs DEF Frames, OfActivation
  <2>2. IInv' /\ UNCHANGED loop
    BY <1>3, Inductive DEF SInv, Next, Stop
  <2>3. ~misused => Behaved(App)'
    <3>1. Len(stack[App]) + 1 <= Ceiling["joinLast"] /\ Top(App) = "none"
      BY <1>1, <1>2, <2>1, StackIs
    <3>2. ~misused => Behaved(App)
      BY <1>2 DEF SInv, InOrder
    <3>3. QED
      BY <1>2, <1>3, <2>1, <3>1, <3>2, PushBehaves
  <2>4. QED
    BY <1>1, <1>2, <1>3, <2>1, <2>2, <2>3, PushKeeps
<1>4. CASE ~manager /\ client' = FALSE /\ UNCHANGED <<vars, stack>>
  <2>1. IInv' /\ UNCHANGED loop
    BY <1>4, Inductive DEF SInv, vars
  <2>2. STypeOK' /\ Ownership'
    BY <1>1, <1>4, <2>1 DEF SInv, STypeOK, IInv, Ownership
  <2>3. QED
    BY <1>1, <1>4, <2>1, <2>2, QuietKeeps
<1>5. QED
  BY <1>1, <1>3, <1>4

LEMMA CreateKeeps ==
  ASSUME SInv, Create
  PROVE  SInv'
<1>1. /\ alive /\ ~client /\ client' = TRUE
      /\ UNCHANGED <<mutex, stack, alive, misused>>
      /\ (manager' = TRUE /\ Start) \/ (manager' = FALSE /\ UNCHANGED vars)
  BY DEF Create
<1>2. loop = "none" /\ stack[Hb] = <<>>
  BY <1>1 DEF SInv, Ownership
<1>3. IInv'
  <2>1. [Next]_vars
    BY <1>1 DEF Next
  <2>2. QED
    BY <2>1, Inductive DEF SInv
<1>4. STypeOK' /\ Ownership'
  <2>1. manager' \in BOOLEAN /\ (~manager' => loop' = "none")
    BY <1>1, <1>2 DEF vars
  <2>2. QED
    BY <1>1, <1>2, <1>3, <2>1 DEF SInv, STypeOK, IInv, Ownership
<1>5. QED
  BY <1>1, <1>3, <1>4, QuietKeeps

-----------------------------------------------------------------------------
(* The join, and the loop.                                                 *)

LEMMA JoinedKeeps ==
  ASSUME SInv, Joined
  PROVE  SInv'
<1>1. /\ alive /\ Top(App) \in {"join", "joinLast"} /\ Join /\ manager' = FALSE
      /\ client' = (Top(App) = "join") /\ Become(App, <<>>)
      /\ UNCHANGED <<mutex, alive, misused>>
  BY DEF Joined, JoinThread, Pop
<1>2. App \in Threads /\ STypeOK /\ InOrder(App)
  BY DEF SInv, Threads
<1>3. /\ stack[App] # <<>> /\ (~misused => Behaved(App))
      /\ Top(App) \notin {"unlock", "licenseUpdated"}
  <2>1. Top(App) \notin {"none", "unlock", "licenseUpdated"}
    BY <1>1
  <2>2. QED
    BY <1>2, <2>1, TopIs
<1>4. <<>> \in Seq(Frames) /\ Len(<<>>) = 0 /\ \A k \in 1 .. Len(<<>>) : FALSE
  OBVIOUS
<1>5. loop \in {"none", "exited"} /\ loop' = "none"
  BY <1>1 DEF Join, Joinable
<1>6. /\ stack' \in [Threads -> Seq(Frames)]
      /\ \A u \in Threads \ {App} : stack'[u] = stack[u]
  BY <1>1, <1>2, <1>3, <1>4, BecomeIs, Zenon
<1>7. stack'[Hb] = <<>>
  <2>1. stack[Hb] = <<>>
    BY <1>5 DEF SInv, Ownership
  <2>2. QED
    BY <1>6, <2>1 DEF Threads, App, Hb
<1>8. IInv'
  BY <1>1, Inductive DEF SInv, Next
<1>9. STypeOK' /\ Ownership'
  <2>1. client' \in BOOLEAN /\ manager' \in BOOLEAN
    BY <1>1
  <2>2. STypeOK'
    BY <1>1, <1>2, <1>6, <1>8, <2>1 DEF STypeOK, IInv
  <2>3. QED
    BY <1>1, <1>5, <1>7, <2>2 DEF Ownership
<1>10. ~misused => Behaved(App)'
  BY <1>1, <1>2, <1>3, <1>4, BecomeBehaves, Zenon
<1>11. InOrder(App)'
  <2>1. \A i \in 1 .. Len(<<>>) : <<>>[i] # "unlock"
    BY <1>4
  <2>2. QED
    BY <1>1, <1>2, <1>3, <1>4, <1>10, <2>1, BecomeInOrder, Zenon
<1>12. (~misused' => alive') /\ (misused => misused')
  BY <1>1
<1>13. \A u \in Threads \ {App} : stack'[u] = stack[u] /\ (mutex' = u <=> mutex = u)
  BY <1>1, <1>6
<1>14. QED
  BY <1>1, <1>2, <1>8, <1>9, <1>11, <1>12, <1>13, StepKeeps

(* The exception leaves the frames from the innermost handler on, and with *)
(* them the scope of the lock, if it is among them.                        *)
LEMMA ThrowKeeps ==
  ASSUME SInv, JoinThrows
  PROVE  SInv'
<1> DEFINE handlers == {i \in DOMAIN stack[Hb] : stack[Hb][i] = "publicKeyUpdated"}
           innermost == CHOOSE i \in handlers : \A j \in handlers : j <= i
<1>1. /\ alive /\ Top(Hb) = "join" /\ UNCHANGED <<vars, client, manager, misused>>
      /\ IF handlers = {}
         THEN alive' = FALSE /\ UNCHANGED <<stack, mutex>>
         ELSE /\ stack' = [stack EXCEPT ![Hb] = SubSeq(@, 1, innermost - 1)]
              /\ mutex' = IF \E i \in innermost .. Len(stack[Hb]) :
                               stack[Hb][i] = "unlock"
                          THEN "free" ELSE mutex
              /\ UNCHANGED alive
  BY DEF JoinThrows
<1>2. Hb \in Threads /\ App \in Threads /\ STypeOK /\ InOrder(Hb) /\ InOrder(App)
  BY DEF SInv, Threads
<1>3. misused
  <2>1. ASSUME ~misused PROVE FALSE
    <3>1. Len(stack[Hb]) \in Depth(Hb) /\ Top(Hb) = stack[Hb][Len(stack[Hb])] /\ Behaved(Hb)
      BY <1>1, <1>2, <2>1, TopIs
    <3>2. QED
      BY <1>1, <1>2, <3>1 DEF Behaved
  <2>2. QED
    BY <2>1
<1>4. IInv' /\ UNCHANGED <<loop, client, manager, misused>>
  BY <1>1, Inductive DEF SInv, vars
<1>5. CASE handlers = {}
  <2>1. alive' = FALSE /\ UNCHANGED <<stack, mutex>>
    BY <1>1, <1>5
  <2>2. STypeOK' /\ Ownership'
    BY <1>4, <2>1 DEF SInv, STypeOK, IInv, Ownership
  <2>3. ASSUME NEW u \in Threads PROVE InOrder(u)'
    BY <1>3, <1>4, <2>1 DEF SInv, InOrder, Depth
  <2>4. QED
    BY <1>3, <1>4, <2>2, <2>3 DEF SInv
<1>6. CASE handlers # {}
  <2> DEFINE n == Len(stack[Hb])
  <2>1. /\ stack[Hb] \in Seq(Frames) /\ n \in Nat /\ handlers \in SUBSET (1 .. n)
        /\ \A i \in 1 .. n : stack[Hb][i] \in Frames
    BY <1>2, StackIs DEF Depth
  <2>2. innermost \in 1 .. n
    <3>1. \E i \in handlers : \A j \in handlers : j <= i
      BY <1>6, <2>1, LastOne
    <3>2. QED
      BY <2>1, <3>1
  <2>3. /\ stack' = [stack EXCEPT ![Hb] = SubSeq(@, 1, innermost - 1)]
        /\ mutex' = IF \E i \in innermost .. n : stack[Hb][i] = "unlock"
                    THEN "free" ELSE mutex
        /\ UNCHANGED alive
    BY <1>1, <1>6
  <2> DEFINE m == innermost - 1
  <2> HIDE DEF innermost, handlers
  <2>4. m \in Nat /\ m < n
    BY <2>1, <2>2
  <2>5. \A i \in 1 .. m : i \in 1 .. n
    BY <2>1, <2>4
  <2>6. /\ SubSeq(stack[Hb], 1, m) \in Seq(Frames)
        /\ Len(SubSeq(stack[Hb], 1, m)) = m
        /\ \A i \in 1 .. m : SubSeq(stack[Hb], 1, m)[i] = stack[Hb][i]
    BY <2>1, <2>4, <2>5
  <2>7. /\ stack' \in [Threads -> Seq(Frames)] /\ stack'[App] = stack[App]
        /\ stack'[Hb] = SubSeq(stack[Hb], 1, m)
    BY <1>2, <2>3, <2>6 DEF STypeOK, App, Hb
  <2>8. mutex' \in Threads \cup {"free"}
    BY <1>2, <2>3 DEF STypeOK
  <2>9. stack[Hb] = <<>> => stack'[Hb] = <<>>
    BY <1>1, <1>2, TopIs
  <2>10. STypeOK' /\ IInv' /\ Ownership'
    BY <1>1, <2>3, <2>7, <2>8, <2>9, SdkKeeps DEF sdkUnchanged
  <2>11. /\ Depth(Hb)' = 1 .. m /\ Depth(Hb) = 1 .. n
         /\ \A i \in 1 .. m : stack'[Hb][i] = stack[Hb][i]
    BY <2>6, <2>7 DEF Depth
  <2>12. InOrder(Hb)'
    <3>1. CASE \E i \in innermost .. n : stack[Hb][i] = "unlock"
      <4>1. PICK i \in innermost .. n : stack[Hb][i] = "unlock"
        BY <3>1
      <4>2. i \in Depth(Hb) /\ \A j \in 1 .. m : j # i
        BY <2>1, <2>2, <2>11
      <4>3. \A j \in 1 .. m : stack'[Hb][j] # "unlock"
        BY <1>2, <2>5, <2>11, <4>1, <4>2 DEF InOrder
      <4>4. mutex' # Hb
        BY <2>3, <3>1 DEF Hb
      <4>5. QED
        BY <1>3, <1>4, <2>11, <4>3, <4>4 DEF InOrder
    <3>2. CASE ~ \E i \in innermost .. n : stack[Hb][i] = "unlock"
      <4>1. \A i \in 1 .. n : i \in 1 .. m \/ i \in innermost .. n
        BY <2>1, <2>2
      <4>2. (\E i \in 1 .. n : stack[Hb][i] = "unlock")
              <=> \E i \in 1 .. m : stack'[Hb][i] = "unlock"
        BY <2>5, <2>11, <3>2, <4>1
      <4>3. mutex' = mutex
        BY <2>3, <3>2
      <4>4. QED
        BY <1>2, <1>3, <1>4, <2>3, <2>5, <2>11, <4>2, <4>3 DEF InOrder
    <3>3. QED
      BY <3>1, <3>2
  <2>13. mutex' = App <=> mutex = App
    <3>1. ASSUME NEW i \in innermost .. n, stack[Hb][i] = "unlock" PROVE mutex = Hb
      <4>1. i \in Depth(Hb)
        BY <2>1, <2>2, <2>11
      <4>2. QED
        BY <1>1, <1>2, <3>1, <4>1 DEF InOrder
    <3>2. QED
      BY <2>3, <3>1 DEF App, Hb
  <2>14. \A u \in Threads \ {Hb} : stack'[u] = stack[u] /\ (mutex' = u <=> mutex = u)
    BY <2>7, <2>13 DEF Threads
  <2>15. QED
    BY <1>1, <1>2, <1>3, <1>4, <2>10, <2>12, <2>14, StepKeeps
<1>7. QED
  BY <1>5, <1>6

(* Handle has called on_license_updated_: the stack of the heartbeat       *)
(* thread fills from empty.                                                *)
LEMMA NotifiedInOrder ==
  ASSUME SInv, alive, stack[Hb] = <<>>, UNCHANGED <<mutex, alive, misused>>,
         stack' = [stack EXCEPT ![Hb] = <<"update", "apply">>]
  PROVE  InOrder(Hb)' /\ stack' \in [Threads -> Seq(Frames)] /\ stack'[App] = stack[App]
<1> DEFINE frames == <<"update", "apply">>
<1>1. Hb \in Threads /\ App \in Threads /\ App # Hb /\ STypeOK /\ InOrder(Hb)
  BY DEF SInv, Threads, App, Hb
<1>2. /\ frames \in Seq(Frames) /\ Len(frames) = 2
      /\ frames[1] = "update" /\ frames[2] = "apply"
  BY DEF Frames
<1>3. stack' = [stack EXCEPT ![Hb] = frames]
  OBVIOUS
<1> HIDE DEF frames
<1>4. stack' \in [Threads -> Seq(Frames)] /\ stack'[App] = stack[App] /\ stack'[Hb] = frames
  BY <1>1, <1>2, <1>3 DEF STypeOK
<1>5. Depth(Hb)' = 1 .. 2 /\ stack'[Hb][1] = "update" /\ stack'[Hb][2] = "apply"
  BY <1>2, <1>4 DEF Depth
<1>6. \A i \in 1 .. 2 : i = 1 \/ i = 2
  OBVIOUS
<1>7. \A i \in 1 .. 2 :
        /\ i <= Ceiling[stack'[Hb][i]]
        /\ stack'[Hb][i] \notin OfActivation \cup {"licenseUpdated", "unlock", "activate", "join", "joinLast"}
  BY <1>5, <1>6, CeilingIs DEF OfActivation
<1>8. Behaved(Hb)'
  BY <1>5, <1>7 DEF Behaved
<1>9. mutex # Hb
  <2>1. Depth(Hb) = {}
    BY <1>1, StackIs DEF Depth
  <2>2. QED
    BY <1>1, <2>1 DEF InOrder
<1>10. QED
  BY <1>4, <1>5, <1>7, <1>8, <1>9 DEF InOrder

LEMMA LoopKeeps ==
  ASSUME SInv, LoopStep
  PROVE  SInv'
<1>1. /\ alive /\ stack[Hb] = <<>> /\ UNCHANGED <<client, manager, mutex, alive, misused>>
      /\ \/ SendFails /\ Push(Hb, "heartbeatError")
         \/ Handle /\ notified' /\ stack' = [stack EXCEPT ![Hb] = <<"update", "apply">>]
         \/ Loop /\ UNCHANGED stack
  BY DEF LoopStep, Loop
<1>2. Hb \in Threads /\ STypeOK
  BY DEF SInv, Threads
<1>3. IInv' /\ loop # "none" /\ loop' # "none"
  <2>1. Loop
    BY <1>1 DEF Loop
  <2>2. IInv'
    BY <2>1, Inductive DEF SInv, Next
  <2>3. loop # "none" /\ loop' # "none"
    BY <2>1 DEF Loop, Goto, LoopTop, Sleep, WakeUp, CheckStop, CheckPaused,
                SendFails, SendSucceeds, Handle, OverrideInterval
  <2>4. QED
    BY <2>2, <2>3
<1>4. manager /\ client
  BY <1>3 DEF SInv, Ownership
<1>5. CASE SendFails /\ Push(Hb, "heartbeatError")
  <2>1. /\ "heartbeatError" \in Frames \ {"unlock"} /\ Ceiling["heartbeatError"] = 1
        /\ "heartbeatError" \notin OfActivation \cup
              {"licenseUpdated", "unlock", "activate", "join", "joinLast"}
    BY CeilingIs DEF Frames, Callbacks, OfActivation
  <2>2. loop' = "top"
    BY <1>5 DEF SendFails, Goto
  <2>3. ~misused => Behaved(Hb)'
    <3>1. Len(stack[Hb]) + 1 <= Ceiling["heartbeatError"] /\ Top(Hb) = "none"
      BY <1>1, <1>2, <2>1, StackIs
    <3>2. ~misused => Behaved(Hb)
      BY <1>2 DEF SInv, InOrder
    <3>3. QED
      BY <1>2, <1>5, <2>1, <3>1, <3>2, PushBehaves
  <2>4. /\ stack' \in [Threads -> Seq(Frames)]
        /\ \A u \in Threads \ {Hb} : stack'[u] = stack[u]
    BY <1>2, <1>5, <2>1, PushIs
  <2>5. STypeOK' /\ Ownership'
    BY <1>1, <1>2, <1>3, <1>4, <2>2, <2>4 DEF STypeOK, IInv, Ownership
  <2>6. InOrder(Hb)'
    BY <1>1, <1>2, <1>5, <2>1, <2>3, PushInOrder DEF SInv
  <2>7. QED
    BY <1>1, <1>2, <1>3, <2>4, <2>5, <2>6, StepKeeps DEF SInv
<1>6. CASE Handle /\ stack' = [stack EXCEPT ![Hb] = <<"update", "apply">>]
  <2>1. loop' = "override"
    BY <1>6 DEF Handle, Goto
  <2>2. InOrder(Hb)' /\ stack' \in [Threads -> Seq(Frames)] /\ stack'[App] = stack[App]
    BY <1>1, <1>6, NotifiedInOrder
  <2>3. STypeOK' /\ Ownership'
    BY <1>1, <1>2, <1>3, <1>4, <2>1, <2>2 DEF STypeOK, IInv, Ownership
  <2>4. \A u \in Threads \ {Hb} : stack'[u] = stack[u]
    BY <2>2 DEF Threads
  <2>5. QED
    BY <1>1, <1>2, <1>3, <2>2, <2>3, <2>4, StepKeeps DEF SInv
<1>7. CASE UNCHANGED stack
  <2>1. STypeOK' /\ Ownership'
    BY <1>1, <1>2, <1>3, <1>4, <1>7 DEF STypeOK, IInv, Ownership
  <2>2. QED
    BY <1>1, <1>3, <1>7, <2>1, QuietKeeps
<1>8. QED
  BY <1>1, <1>5, <1>6, <1>7

-----------------------------------------------------------------------------
(* The invariant.                                                          *)

LEMMA SInitial == SInit => SInv
<1> SUFFICES ASSUME SInit PROVE SInv
  OBVIOUS
<1>1. /\ Init /\ client = FALSE /\ manager = FALSE /\ mutex = "free"
      /\ stack = [t \in Threads |-> <<>>] /\ alive = TRUE /\ misused = FALSE
  BY DEF SInit
<1>2. IInv /\ loop = "none"
  BY <1>1, Initial DEF Init
<1>3. <<>> \in Seq(Frames) /\ Len(<<>>) = 0 /\ 1 .. 0 = {}
  OBVIOUS
<1>4. \A t \in Threads : stack[t] = <<>> /\ Depth(t) = {}
  BY <1>1, <1>3 DEF Depth
<1>5. STypeOK
  <2>1. stack \in [Threads -> Seq(Frames)]
    BY <1>1, <1>3
  <2>2. QED
    BY <1>1, <1>2, <2>1 DEF STypeOK, IInv
<1>6. Ownership
  BY <1>1, <1>2, <1>4 DEF Ownership, Threads
<1>7. ASSUME NEW t \in Threads PROVE InOrder(t)
  <2>1. mutex # t
    BY <1>1 DEF Threads, App, Hb
  <2>2. QED
    BY <1>4, <2>1 DEF InOrder, Behaved
<1>8. QED
  BY <1>1, <1>2, <1>5, <1>6, <1>7 DEF SInv

LEMMA SInductive == SInv /\ [SNext]_svars => SInv'
<1> SUFFICES ASSUME SInv, [SNext]_svars PROVE SInv'
  OBVIOUS
<1>1. CASE Create
  BY <1>1, CreateKeeps
<1>2. CASE Destroy
  BY <1>2, DestroyKeeps
<1>3. ASSUME NEW t \in Threads,
             \/ CallPause(t) \/ CallResume(t) \/ CallWaiting(t) \/ CallClose(t)
             \/ Inside(t) \/ CallbackReturns(t)
      PROVE  SInv'
  <2>1. CASE CallPause(t) \/ CallResume(t)
    BY <2>1, PauseKeeps
  <2>2. CASE CallWaiting(t)
    BY <2>2, WaitingKeeps
  <2>3. CASE CallClose(t)
    BY <2>3, CloseKeeps
  <2>4. CASE Inside(t)
    BY <2>4, QueryKeeps, ActivationKeeps, HeartbeatKeeps, ApplyKeeps, LockKeeps,
       UnlockKeeps DEF Inside
  <2>5. CASE CallbackReturns(t)
    BY <2>5, CallbackKeeps
  <2>6. QED
    BY <1>3, <2>1, <2>2, <2>3, <2>4, <2>5
<1>4. CASE Updated
  BY <1>4, UpdatedKeeps
<1>5. CASE Joined
  BY <1>5, JoinedKeeps
<1>6. CASE JoinThrows
  BY <1>6, ThrowKeeps
<1>7. CASE LoopStep
  BY <1>7, LoopKeeps
<1>8. CASE UNCHANGED svars
  <2>1. UNCHANGED vars /\ UNCHANGED <<client, manager, mutex, stack, alive, misused>>
    BY <1>8 DEF svars, session
  <2>2. IInv' /\ UNCHANGED loop
    BY <2>1, Inductive DEF SInv, vars
  <2>3. STypeOK' /\ Ownership' /\ (~misused' => alive')
    BY <2>1, <2>2 DEF SInv, STypeOK, IInv, Ownership
  <2>4. ASSUME NEW u \in Threads PROVE InOrder(u)'
    BY <2>1 DEF SInv, InOrder, Behaved, Depth
  <2>5. QED
    BY <2>2, <2>3, <2>4 DEF SInv
<1>9. QED
  BY <1>1, <1>2, <1>3, <1>4, <1>5, <1>6, <1>7, <1>8 DEF SNext

(* The inductive invariant of the session, through every call and every    *)
(* step of the heartbeat's thread (client.cpp, heartbeat.cpp).             *)
THEOREM SessionInvariance == SSpec => []SInv
BY SInitial, SInductive, PTL DEF SSpec

(* All variables keep their types, the call stacks among them.             *)
THEOREM SessionTypeCorrect == SSpec => []STypeOK
<1>1. SInv => STypeOK
  BY DEF SInv
<1>2. QED
  BY <1>1, SessionInvariance, PTL

(* mutex_ is held exactly while on_license_updated_ runs under it, however *)
(* deep callbacks nest and wherever an exception passes through            *)
(* (client.cpp 304-310).                                                   *)
THEOREM LockStaysScoped == SSpec => []LockIsScoped
<1>1. ASSUME SInv PROVE LockIsScoped
  <2>1. \A t \in Threads : DOMAIN stack[t] = Depth(t)
    BY <1>1, StackIs DEF SInv
  <2>2. QED
    BY <1>1, <2>1 DEF SInv, InOrder, LockIsScoped
<1>2. QED
  BY <1>1, SessionInvariance, PTL

(* While callbacks behave, whoever holds the lock is about to leave it or  *)
(* in on_license_updated_: it waits for nobody.                            *)
LEMMA HolderWaitsForNobody ==
  ASSUME SInv, ~misused, NEW t \in Threads, mutex = t
  PROVE  Top(t) \in {"unlock", "licenseUpdated"}
<1>1. STypeOK /\ Behaved(t) /\ \E i \in Depth(t) : stack[t][i] = "unlock"
  BY DEF SInv, InOrder
<1>2. PICK i \in Depth(t) : stack[t][i] = "unlock"
  BY <1>1
<1>3. \/ i = Len(stack[t])
      \/ i + 1 = Len(stack[t]) /\ stack[t][i + 1] = "licenseUpdated"
  BY <1>1, <1>2 DEF Behaved
<1>4. stack[t] # <<>> /\ Top(t) = stack[t][Len(stack[t])]
  <2>1. Len(stack[t]) # 0
    BY <1>2, <1>1, StackIs DEF Depth
  <2>2. QED
    BY <1>1, <2>1, StackIs
<1>5. QED
  BY <1>2, <1>3, <1>4

(* Nobody waits for itself or in a circle, and nothing terminates the      *)
(* process, as long as no callback makes a call that does so by itself:    *)
(* for every set of calls callbacks may make (client.cpp 206-311,          *)
(* heartbeat.cpp 190-196).                                                 *)
THEOREM MisuseAloneDeadlocks == SSpec => []OnlyMisuseDeadlocks
<1>1. ASSUME SInv, ~misused PROVE alive /\ ~Deadlocked
  <2>1. alive
    BY <1>1 DEF SInv
  <2>2. ASSUME NEW t \in Threads, mutex = t
        PROVE  Top(t) \notin {"query", "lock", "join", "joinLast"}
    BY <1>1, <2>2, HolderWaitsForNobody, Zenon
  <2>3. Hb \in Threads /\ App \in Threads /\ App # Hb
    BY DEF Threads, App, Hb
  <2>4. Top(Hb) \notin {"join", "joinLast"}
    <3>1. CASE Top(Hb) = "none"
      BY <3>1
    <3>2. CASE Top(Hb) # "none"
      <4>1. Len(stack[Hb]) \in Depth(Hb) /\ Top(Hb) = stack[Hb][Len(stack[Hb])] /\ Behaved(Hb)
        BY <1>1, <2>3, <3>2, TopIs
      <4>2. QED
        BY <2>3, <4>1 DEF Behaved
    <3>3. QED
      BY <3>1, <3>2
  <2>5. ASSUME NEW t \in Threads PROVE t \notin WaitsFor(t)
    <3>1. Top(t) \in {"join", "joinLast"} => t # Hb
      BY <2>4
    <3>2. QED
      BY <2>2, <3>1 DEF WaitsFor
  <2>6. ~(App \in WaitsFor(Hb) /\ Hb \in WaitsFor(App))
    <3>1. App \in WaitsFor(Hb) => mutex = App
      BY <2>3 DEF WaitsFor
    <3>2. Hb \in WaitsFor(App) => Top(App) \in {"query", "lock", "join", "joinLast"}
      BY DEF WaitsFor
    <3>3. QED
      BY <2>2, <2>3, <3>1, <3>2
  <2>7. QED
    BY <2>1, <2>5, <2>6 DEF Deadlocked
<1>2. SInv => OnlyMisuseDeadlocks
  BY <1>1 DEF OnlyMisuseDeadlocks
<1>3. QED
  BY <1>2, SessionInvariance, PTL

LEMMA ThreeIndices ==
  ASSUME NEW a, NEW b, NEW c, NEW S \in SUBSET {a, b, c}
  PROVE  Cardinality(S) <= 3
<1>1. IsFiniteSet({}) /\ Cardinality({}) = 0
  BY FS_EmptySet
<1>2. IsFiniteSet({a}) /\ Cardinality({a}) = 1
  BY FS_Singleton
<1>3. /\ IsFiniteSet({a} \cup {b}) /\ Cardinality({a} \cup {b}) \in {1, 2}
  BY <1>2, FS_AddElement
<1>4. /\ IsFiniteSet({a} \cup {b} \cup {c})
      /\ Cardinality({a} \cup {b} \cup {c}) \in {1, 2, 3}
  BY <1>3, FS_AddElement
<1>5. {a} \cup {b} \cup {c} = {a, b, c}
  OBVIOUS
<1>6. /\ Cardinality(S) <= Cardinality({a, b, c}) /\ IsFiniteSet(S)
  BY <1>4, <1>5, FS_Subset
<1>7. Cardinality(S) \in Nat
  BY <1>6, FS_CardinalityType
<1>8. QED
  BY <1>4, <1>5, <1>6, <1>7

(* A thread is in three callbacks at most, that of a failed heartbeat, one *)
(* of activate() and on_license_updated_, on five frames at most           *)
(* (client.cpp 206-212).                                                   *)
THEOREM NestingStaysBounded == SSpec => []NestingIsBounded
<1>1. ASSUME SInv, ~misused, NEW t \in Threads
      PROVE  Nesting(t) <= MaxNesting /\ Len(stack[t]) <= 5
  <2> DEFINE n == Len(stack[t])
             k == CHOOSE i \in Depth(t) : stack[t][i] \in OfActivation
             nested == {i \in DOMAIN stack[t] : stack[t][i] \in Callbacks}
  <2>1. /\ STypeOK /\ Behaved(t) /\ n \in Nat /\ DOMAIN stack[t] = Depth(t)
        /\ stack[t] = <<>> <=> n = 0
    <3>1. STypeOK /\ Behaved(t)
      BY <1>1 DEF SInv, InOrder
    <3>2. QED
      BY <3>1, StackIs
  <2>2. ASSUME NEW i \in nested PROVE i \in {1, k, n}
    <3>1. i \in Depth(t) /\ i \in Nat \ {0} /\ i <= Ceiling[stack[t][i]]
      BY <2>1 DEF Behaved, Depth
    <3>2. CASE stack[t][i] = "heartbeatError"
      BY <3>1, <3>2, CeilingIs
    <3>3. CASE stack[t][i] \in OfActivation
      <4>1. k \in Depth(t) /\ stack[t][k] \in OfActivation
        BY <3>1, <3>3
      <4>2. i = k
        <5> HIDE DEF k
        <5>1. QED
          BY <2>1, <3>1, <3>3, <4>1 DEF Behaved
      <4>3. QED
        BY <4>2
    <3>4. CASE stack[t][i] = "licenseUpdated"
      BY <2>1, <3>1, <3>4 DEF Behaved
    <3>5. QED
      BY <3>2, <3>3, <3>4 DEF Callbacks, OfActivation
  <2>3. nested \in SUBSET {1, k, n}
    BY <2>2
  <2>4. Cardinality(nested) <= 3
    <3> HIDE DEF nested, k, n
    <3>1. QED
      BY <2>3, ThreeIndices
  <2>5. n <= 5
    <3>1. CASE n = 0
      BY <3>1
    <3>2. CASE n # 0
      <4>1. n \in Depth(t)
        BY <2>1, <3>2 DEF Depth
      <4>2. stack[t][n] \in Frames /\ n <= Ceiling[stack[t][n]]
        BY <2>1, <4>1, StackIs DEF Behaved
      <4>3. Ceiling[stack[t][n]] \in {1, 2, 3, 4, 5}
        BY <4>2, CeilingIs DEF Frames, Callbacks
      <4>4. \A m \in Nat, c \in {1, 2, 3, 4, 5} : m <= c => m <= 5
        OBVIOUS
      <4>5. QED
        BY <2>1, <4>2, <4>3, <4>4, Zenon
    <3>3. QED
      BY <3>1, <3>2
  <2>6. QED
    BY <2>4, <2>5 DEF Nesting, MaxNesting
<1>2. SInv => NestingIsBounded
  BY <1>1 DEF NestingIsBounded
<1>3. QED
  BY <1>2, SessionInvariance, PTL

(* Once close() or the destructor has returned, the heartbeat thread is    *)
(* gone: it is in no callback, and holds no lock (client.cpp 567-572).     *)
THEOREM StaysQuietAfterClose == SSpec => []QuietAfterClose
<1>1. ASSUME SInv, alive, ~manager PROVE stack[Hb] = <<>> /\ loop = "none" /\ mutex # Hb
  <2>1. loop = "none" /\ stack[Hb] = <<>>
    BY <1>1 DEF SInv, Ownership
  <2>2. Hb \in Threads /\ Depth(Hb) = {}
    <3>1. Hb \in Threads /\ STypeOK
      BY <1>1 DEF SInv, Threads
    <3>2. Len(stack[Hb]) = 0
      BY <2>1, <3>1, StackIs
    <3>3. QED
      BY <3>1, <3>2 DEF Depth
  <2>3. mutex # Hb
    BY <1>1, <2>2 DEF SInv, InOrder
  <2>4. QED
    BY <2>1, <2>3
<1>2. SInv => QuietAfterClose
  BY <1>1 DEF QuietAfterClose
<1>3. QED
  BY <1>2, SessionInvariance, PTL

=============================================================================
