-------------------------- MODULE SemaphoreProofs --------------------------
(***************************************************************************)
(* Proofs about Semaphore, for any finite set of threads, initial count    *)
(* and number of posts.                                                    *)
(***************************************************************************)
EXTENDS Semaphore, FiniteSetTheorems, TLAPS

\* The sets of threads that are counted are finite.
LEMMA MoveFinite ==
  ASSUME TypeOK
  PROVE  \A l : IsFiniteSet(In(l)) /\ Cardinality(In(l)) \in Nat
<1> TAKE l
<1>1. In(l) \subseteq Thread
  BY DEF In
<1> QED
  BY <1>1, SemaphoreAssumption, FS_Subset, FS_CardinalityType

\* One thread goes from one place to another: one more there, one less here.
LEMMA MoveIn ==
  ASSUME TypeOK, NEW t \in Thread, NEW l, NEW m, pc[t] = l, l # m, pc' = [pc EXCEPT ![t] = m]
  PROVE  /\ Cardinality(In(m)') = Cardinality(In(m)) + 1
         /\ Cardinality(In(l)') = Cardinality(In(l)) - 1
         /\ \A n : n # l /\ n # m => In(n)' = In(n)
         /\ In(m)' = In(m) \cup {t} /\ In(l)' = In(l) \ {t}
<1>1. /\ In(m)' = In(m) \cup {t} /\ t \notin In(m)
      /\ In(l)' = In(l) \ {t} /\ t \in In(l)
      /\ \A n : n # l /\ n # m => In(n)' = In(n)
  BY DEF In, TypeOK
<1> QED
  <2>1. IsFiniteSet(In(l)) /\ IsFiniteSet(In(m))
    BY MoveFinite
  <2>2. Cardinality(In(m) \cup {t}) = Cardinality(In(m)) + 1
    BY <2>1, <1>1, FS_AddElement
  <2>3. Cardinality(In(l) \ {t}) = Cardinality(In(l)) - 1
    BY <2>1, <1>1, FS_RemoveElement
  <2> QED
    BY <1>1, <2>2, <2>3

-----------------------------------------------------------------------------
(* Type correctness and the absence of lost wakeups *)

\* At first nobody sleeps.
LEMMA InitInv == Init => TypeOK /\ NoLostWakeup
<1> SUFFICES ASSUME Init PROVE TypeOK /\ NoLostWakeup
  OBVIOUS
<1>1. TypeOK
  BY SemaphoreAssumption DEF Init, TypeOK
<1>2. In("asleep") = {}
  BY DEF Init, In
<1> QED
  BY <1>1, <1>2 DEF NoLostWakeup

\* Every step keeps the types.
LEMMA StepTypeOK == TypeOK /\ [Next]_vars => TypeOK'
<1> SUFFICES ASSUME TypeOK, [Next]_vars PROVE TypeOK'
  OBVIOUS
<1> USE DEF TypeOK
<1>1. ASSUME NEW t \in Thread, NEW k \in {"Wait"} \cup Timed, Call(t, k) PROVE TypeOK'
  BY <1>1 DEF Call, Timed
<1>2. ASSUME NEW t \in Thread, NegativeTimedWait(t) PROVE TypeOK'
  BY <1>2 DEF NegativeTimedWait
<1>3. ASSUME NEW t \in Thread, Enter(t) PROVE TypeOK'
  BY <1>3 DEF Enter, Take, Return
<1>4. ASSUME NEW t \in Thread, WakeAlone(t) PROVE TypeOK'
  BY <1>4 DEF WakeAlone
<1>5. ASSUME NEW t \in Thread, Resume(t) PROVE TypeOK'
  BY <1>5 DEF Resume, Take, Return
<1>6. CASE Post
  BY <1>6 DEF Post, NotifyOne, In
<1>7. CASE UNCHANGED vars
  BY <1>7 DEF vars
<1> QED
  BY <1>1, <1>2, <1>3, <1>4, <1>5, <1>6, <1>7 DEF Next

\* Every step keeps a thread on its way to every token; the steps that count are
\* Enter and Resume, which take one of each, and Post, which adds one of each.
LEMMA StepNoLostWakeup == TypeOK /\ NoLostWakeup /\ [Next]_vars => NoLostWakeup'
<1> SUFFICES ASSUME TypeOK, NoLostWakeup, [Next]_vars PROVE NoLostWakeup'
  OBVIOUS
<1>n. \A l : Cardinality(In(l)) \in Nat
  BY MoveFinite
<1>c. curCount \in Int
  BY DEF TypeOK
<1>u. ASSUME UNCHANGED <<pc, curCount>> PROVE NoLostWakeup'
  BY <1>u DEF NoLostWakeup, In
<1>1. ASSUME NEW t \in Thread, NEW k \in {"Wait"} \cup Timed, Call(t, k) PROVE NoLostWakeup'
  <2>1. In("asleep")' = In("asleep") /\ In("awake")' = In("awake") /\ curCount' = curCount
    <3>1. pc[t] = "idle" /\ pc' = [pc EXCEPT ![t] = "enter"] /\ curCount' = curCount
      BY <1>1 DEF Call
    <3>2. \A n : n # "idle" /\ n # "enter" => In(n)' = In(n)
      BY <3>1, MoveIn
    <3> QED
      BY <3>1, <3>2
  <2> QED
    BY <2>1 DEF NoLostWakeup
<1>2. ASSUME NEW t \in Thread, NegativeTimedWait(t) PROVE NoLostWakeup'
  BY <1>2, <1>u DEF NegativeTimedWait
<1>3. ASSUME NEW t \in Thread, Enter(t) PROVE NoLostWakeup'
  <2>1. CASE curCount > 0 /\ Take(t)
    <3>1. /\ In("asleep")' = In("asleep") /\ In("awake")' = In("awake")
          /\ curCount' = curCount - 1
      <4>1. pc[t] = "enter" /\ pc' = [pc EXCEPT ![t] = "idle"] /\ curCount' = curCount - 1
        BY <2>1, <1>3 DEF Enter, Take, Return
      <4>2. \A n : n # "enter" /\ n # "idle" => In(n)' = In(n)
        BY <4>1, MoveIn
      <4> QED
        BY <4>1, <4>2
    <3> QED
      BY <3>1, <1>n, <1>c DEF NoLostWakeup
  <2>2. CASE ~(curCount > 0) /\ pc' = [pc EXCEPT ![t] = "asleep"] /\ curCount' = curCount
    <3>1. In("awake")' = In("awake")
      <4>1. pc[t] = "enter"
        BY <1>3 DEF Enter
      <4>2. \A n : n # "enter" /\ n # "asleep" => In(n)' = In(n)
        BY <4>1, <2>2, MoveIn
      <4> QED
        BY <4>2
    <3> QED
      BY <3>1, <2>2, <1>n, <1>c DEF NoLostWakeup
  <2> QED
    BY <1>3, <2>1, <2>2 DEF Enter
<1>4. ASSUME NEW t \in Thread, WakeAlone(t) PROVE NoLostWakeup'
  <2>1. /\ In("asleep") # {} /\ curCount' = curCount
        /\ Cardinality(In("awake")') = Cardinality(In("awake")) + 1
    <3>1. pc[t] = "asleep" /\ pc' = [pc EXCEPT ![t] = "awake"] /\ curCount' = curCount
      BY <1>4 DEF WakeAlone
    <3>2. In("asleep") # {}
      BY <3>1 DEF In
    <3> QED
      BY <3>1, <3>2, MoveIn
  <2> QED
    BY <2>1, <1>n, <1>c DEF NoLostWakeup
<1>5. ASSUME NEW t \in Thread, Resume(t) PROVE NoLostWakeup'
  <2>1. PICK l \in {"idle", "enter"} : pc' = [pc EXCEPT ![t] = l]
    BY <1>5 DEF Resume, Take, Return
  <2>2. curCount' = IF curCount > 0 THEN curCount - 1 ELSE curCount
    BY <1>5, <1>c DEF Resume, Take
  <2>3. /\ Cardinality(In("awake")') = Cardinality(In("awake")) - 1
        /\ In("asleep")' = In("asleep")
    BY <1>5, <2>1, MoveIn DEF Resume
  <2>4. Cardinality(In("awake")') \in Nat
    <3>1. In("awake")' = In("awake") \ {t}
      BY <1>5, <2>1, MoveIn DEF Resume
    <3> QED
      BY <3>1, MoveFinite, FS_RemoveElement, FS_CardinalityType
  <2> QED
    BY <2>2, <2>3, <2>4, <1>n, <1>c DEF NoLostWakeup
<1>6. CASE Post
  <2>1. CASE In("asleep") = {}
    BY <2>1, <1>6 DEF Post, NotifyOne, NoLostWakeup, In
  <2>2. CASE In("asleep") # {}
    <3>1. PICK t \in In("asleep") : pc' = [pc EXCEPT ![t] = "awake"]
      BY <2>2, <1>6 DEF Post, NotifyOne
    <3>2. t \in Thread /\ pc[t] = "asleep"
      BY DEF In
    <3>3. Cardinality(In("awake")') = Cardinality(In("awake")) + 1
      BY <3>1, <3>2, MoveIn
    <3>4. curCount' = curCount + 1
      BY <1>6 DEF Post
    <3> QED
      BY <2>2, <3>3, <3>4, <1>n, <1>c DEF NoLostWakeup
  <2> QED
    BY <2>1, <2>2
<1>7. CASE UNCHANGED vars
  BY <1>7, <1>u DEF vars
<1> QED
  BY <1>1, <1>2, <1>3, <1>4, <1>5, <1>6, <1>7 DEF Next

\* Every variable keeps its type, for any set of threads.
THEOREM TypeCorrect == Spec => []TypeOK
  BY InitInv, StepTypeOK, PTL DEF Spec

\* Waking one thread for every token is enough: for any number of threads and
\* tokens, those already on their way cover the tokens while anybody sleeps.
THEOREM NoWakeupLost == Spec => []NoLostWakeup
  BY InitInv, StepTypeOK, StepNoLostWakeup, PTL DEF Spec

-----------------------------------------------------------------------------
(* Semaphore implements CountingSemaphore *)

\* Every step of the class is a step of the counting semaphore or leaves it alone.
LEMMA StepRefines ==
  ASSUME TypeOK, [Next]_vars PROVE [Counting!Next]_(Counting!semVars)
<1> USE DEF Counting!Next, Counting!Answer, Timed, Counting!Timed
<1>u. ASSUME UNCHANGED <<curCount, call, result>> PROVE [Counting!Next]_(Counting!semVars)
  BY <1>u DEF Counting!semVars
<1>1. ASSUME NEW t \in Thread, NEW k \in {"Wait"} \cup Timed, Call(t, k)
      PROVE  Counting!Next
  BY <1>1 DEF Call, Counting!Call, TypeOK
<1>2. ASSUME NEW t \in Thread, NegativeTimedWait(t) PROVE Counting!Next
  <2>1. call[t] = "none" /\ call' = [call EXCEPT ![t] = "none"]
    BY <1>2 DEF NegativeTimedWait, TypeOK
  <2>2. Counting!Refuse(t)
    BY <2>1, <1>2 DEF NegativeTimedWait, Counting!Refuse
  <2> QED
    BY <2>2
<1>t. ASSUME NEW t \in Thread, pc[t] # "idle", curCount > 0, Take(t) PROVE Counting!Next
  <2>1. Counting!Acquire(t)
    BY <1>t DEF Take, Return, Counting!Acquire, TypeOK
  <2> QED
    BY <2>1
<1>3. ASSUME NEW t \in Thread, Enter(t) PROVE [Counting!Next]_(Counting!semVars)
  BY <1>3, <1>t, <1>u DEF Enter
<1>4. ASSUME NEW t \in Thread, WakeAlone(t) PROVE [Counting!Next]_(Counting!semVars)
  BY <1>4, <1>u DEF WakeAlone
<1>5. ASSUME NEW t \in Thread, Resume(t) PROVE [Counting!Next]_(Counting!semVars)
  <2>1. CASE curCount > 0 /\ Take(t)
    BY <2>1, <1>5, <1>t DEF Resume
  <2>2. CASE ~(curCount > 0) /\ call[t] = "Wait"
    BY <2>2, <1>5, <1>u DEF Resume
  <2>3. CASE ~(curCount > 0) /\ call[t] \in Timed /\ Return(t, "false") /\ UNCHANGED curCount
    <3>1. Counting!Fail(t)
      BY <2>3 DEF Counting!Fail, Return, TypeOK
    <3> QED
      BY <3>1
  <2> QED
    BY <1>5, <2>1, <2>2, <2>3 DEF Resume
<1>6. CASE Post
  BY <1>6 DEF Post, Counting!Post
<1>7. CASE UNCHANGED vars
  BY <1>7, <1>u DEF vars
<1> QED
  BY <1>1, <1>2, <1>3, <1>4, <1>5, <1>6, <1>7 DEF Next

\* The class is a counting semaphore, for any number of threads.
THEOREM Implements == Spec => ImplementsCounting
<1>1. Init => Counting!Init
  BY DEF Init, Counting!Init
<1>2. TypeOK /\ [Next]_vars => [Counting!Next]_(Counting!semVars)
  BY StepRefines
<1> QED
  BY <1>1, <1>2, TypeCorrect, PTL DEF Spec, Counting!Spec, ImplementsCounting
=============================================================================
