---------------------------- MODULE XTaskProofs ----------------------------
(***************************************************************************)
(* Proofs about XTask, for any maxima the callers set, either plan, and    *)
(* any bound on the clock and on the calls.                                *)
(***************************************************************************)
EXTENDS XTask, TLAPS

\* What one run() that counts leaves behind: the counter went up by at most one, the
\* clock reading is the time since a first look no earlier than the first run().
LEMMA Counted ==
  ASSUME TypeOK, CountInv, NEW later \in now..MaxClock
  PROVE  /\ NextCnt \in 0..(calls + 1)
         /\ FirstTick \in 0..later /\ NextTick(later) \in 0..later
         /\ FirstTick # 0 => FirstTick >= (IF since = 0 THEN now ELSE since)
         /\ NextTick(later) > 0 => FirstTick # 0 /\ NextTick(later) <= later - FirstTick
<1>1. /\ now \in Nat /\ since \in Nat /\ tickLast \in Nat /\ tickVal \in Nat
      /\ tickMax \in Nat /\ cntVal \in Nat /\ cntMax \in Nat /\ calls \in Nat
      /\ now >= 1 /\ later \in Nat /\ later >= now
  BY XTaskAssumption DEF TypeOK
<1>2. NextCnt \in 0..(calls + 1)
  BY <1>1 DEF NextCnt, CountInv
<1>3. /\ FirstTick \in 0..later
      /\ FirstTick # 0 => FirstTick >= (IF since = 0 THEN now ELSE since)
  BY <1>1 DEF FirstTick, CountInv
<1>4. CASE tickVal >= tickMax
  BY <1>1, <1>2, <1>3, <1>4 DEF NextTick, FirstTick, CountInv
<1>5. CASE ~(tickVal >= tickMax)
  <2>1. FirstTick # 0 /\ NextTick(later) = later - FirstTick
    BY <1>1, <1>5 DEF NextTick, FirstTick
  <2> QED
    BY <1>1, <1>2, <1>3, <2>1
<1> QED
  BY <1>4, <1>5

-----------------------------------------------------------------------------
(* The inductive invariant *)

\* A new XTask has counted nothing and started nothing.
LEMMA InitIInv == Init => IInv
<1> SUFFICES ASSUME Init PROVE IInv
  OBVIOUS
<1>1. TypeOK
  <2>1. now \in 1..MaxClock
    BY XTaskAssumption DEF Init
  <2>2. /\ cntVal \in 0..MaxCalls /\ calls \in 0..MaxCalls
        /\ starts \in 0..MaxCalls /\ late \in 0..MaxCalls
    BY XTaskAssumption DEF Init
  <2>3. tickVal \in 0..MaxClock /\ tickLast \in 0..MaxClock /\ since \in 0..MaxClock
    BY XTaskAssumption DEF Init
  <2>4. isPause \in BOOLEAN /\ lowered \in BOOLEAN /\ raised \in BOOLEAN
    BY DEF Init
  <2>5. plan \in Plans /\ cntMax \in Counts /\ tickMax \in Times /\ pc \in {"out", "in"}
    BY DEF Init
  <2> QED
    BY <2>1, <2>2, <2>3, <2>4, <2>5 DEF TypeOK
<1>2. CountInv
  BY XTaskAssumption DEF Init, CountInv
<1>3. due <=> Due(0, 0)
  BY DEF Init, due
<1> QED
  BY <1>1, <1>2, <1>3
     DEF Init, IInv, StartInv, PauseInv, OneStartPerReset, SkippedOnlyIfLowered,
         OneStartAfterPause

\* The types and what relates the counters, whatever the step.
LEMMA StepCountInv == TypeOK /\ CountInv /\ [Next]_vars => TypeOK' /\ CountInv'
<1> SUFFICES ASSUME TypeOK, CountInv, [Next]_vars PROVE TypeOK' /\ CountInv'
  OBVIOUS
<1> USE XTaskAssumption DEF TypeOK, CountInv
<1>1. CASE RunEnter
  BY <1>1 DEF RunEnter
<1>2. CASE RunDone
  BY <1>2 DEF RunDone, RunLeave
<1>3. CASE RunCount
  <2>1. PICK later \in now..MaxClock :
          /\ now' = later
          /\ cntVal' = NextCnt /\ tickVal' = NextTick(later) /\ tickLast' = FirstTick
          /\ IF Due(NextCnt, NextTick(later)) THEN Start ELSE UNCHANGED <<starts, late>>
    BY <1>3 DEF RunCount
  <2>2. /\ starts' \in Nat /\ late' \in Nat /\ late' <= starts' /\ starts' <= calls + 1
    BY <2>1 DEF Start
  <2>3. RunLeave /\ pc = "in" /\ calls < MaxCalls
    BY <1>3 DEF RunCount
  <2>4. /\ NextCnt \in 0..(calls + 1)
        /\ FirstTick \in 0..later /\ NextTick(later) \in 0..later
        /\ FirstTick # 0 => FirstTick >= (IF since = 0 THEN now ELSE since)
        /\ NextTick(later) > 0 => FirstTick # 0 /\ NextTick(later) <= later - FirstTick
    BY Counted
  <2>5. TypeOK'
    BY <2>1, <2>2, <2>3, <2>4 DEF RunLeave
  <2>6. CountInv'
    BY <2>1, <2>2, <2>3, <2>4 DEF RunLeave
  <2> QED
    BY <2>5, <2>6
<1>4. ASSUME NEW max \in Counts, SetMaxRunCount(max) PROVE TypeOK' /\ CountInv'
  BY <1>4 DEF SetMaxRunCount
<1>5. ASSUME NEW max \in Times, SetMaxRunTime(max) PROVE TypeOK' /\ CountInv'
  BY <1>5 DEF SetMaxRunTime
<1>6. CASE Reset
  <2>1. /\ cntVal' \in 0..MaxCalls /\ calls' \in 0..MaxCalls
        /\ starts' \in 0..MaxCalls /\ late' \in 0..MaxCalls
    BY <1>6 DEF Reset, Forget
  <2>2. /\ tickVal' \in 0..MaxClock /\ tickLast' \in 0..MaxClock /\ since' \in 0..MaxClock
        /\ now' \in 1..MaxClock
    BY <1>6 DEF Reset, Forget
  <2>3. isPause' \in BOOLEAN /\ lowered' \in BOOLEAN /\ raised' \in BOOLEAN
    BY <1>6 DEF Reset, Forget
  <2>4. plan' \in Plans /\ cntMax' \in Counts /\ tickMax' \in Times /\ pc' \in {"out", "in"}
    BY <1>6 DEF Reset
  <2>5. CountInv'
    BY <1>6 DEF Reset, Forget
  <2> QED
    BY <2>1, <2>2, <2>3, <2>4, <2>5 DEF TypeOK
<1>7. CASE PauseOn
  BY <1>7 DEF PauseOn
<1>8. CASE PauseOff
  BY <1>8 DEF PauseOff
<1>9. CASE Clock
  BY <1>9 DEF Clock
<1>10. CASE UNCHANGED vars
  BY <1>10 DEF vars
<1> QED
  BY <1>1, <1>2, <1>3, <1>4, <1>5, <1>6, <1>7, <1>8, <1>9, <1>10 DEF Next, Run

\* The order of starts, due times and maxima.
LEMMA StepStartInv ==
  TypeOK /\ StartInv /\ OneStartPerReset /\ SkippedOnlyIfLowered /\ [Next]_vars
    => StartInv' /\ OneStartPerReset' /\ SkippedOnlyIfLowered'
<1> SUFFICES ASSUME TypeOK, StartInv, OneStartPerReset, SkippedOnlyIfLowered, [Next]_vars
             PROVE  StartInv' /\ OneStartPerReset' /\ SkippedOnlyIfLowered'
  OBVIOUS
<1> DEFINE Goal == StartInv' /\ OneStartPerReset' /\ SkippedOnlyIfLowered'
<1>0. /\ starts \in Nat /\ cntVal \in Nat /\ cntMax \in Nat /\ tickVal \in Nat /\ tickMax \in Nat
      /\ plan \in Plans /\ lowered \in BOOLEAN /\ raised \in BOOLEAN
  BY XTaskAssumption DEF TypeOK
<1> USE DEF StartInv, OneStartPerReset, SkippedOnlyIfLowered, due, Due
<1>1. CASE UNCHANGED <<plan, cntVal, cntMax, tickVal, tickMax, starts, lowered, raised>>
  BY <1>1
<1>2. CASE RunCount
  <2>1. PICK later \in now..MaxClock :
          /\ cntVal' = NextCnt /\ tickVal' = NextTick(later)
          /\ IF Due(NextCnt, NextTick(later)) THEN Start ELSE UNCHANGED <<starts, late>>
    BY <1>2 DEF RunCount
  <2>2. ~due /\ UNCHANGED <<plan, cntMax, tickMax, lowered, raised>>
    BY <1>2 DEF RunCount, RunLeave
  <2>3. due' = Due(NextCnt, NextTick(later))
    BY <2>1, <2>2
  <2>4. ~(~lowered /\ Due(0, 0))
    BY <2>2
  <2>5. CASE Due(NextCnt, NextTick(later))
    BY <1>0, <2>1, <2>2, <2>3, <2>4, <2>5 DEF Start
  <2>6. CASE ~Due(NextCnt, NextTick(later))
    BY <1>0, <2>1, <2>2, <2>3, <2>4, <2>6
  <2> QED
    BY <2>5, <2>6
<1>3. ASSUME NEW max \in Counts, SetMaxRunCount(max) PROVE Goal
  <2>1. max \in Nat
    BY XTaskAssumption
  <2>2. CASE max < cntMax
    <3>1. lowered' /\ (raised => raised') /\ starts' = starts
      BY <1>3, <2>2 DEF SetMaxRunCount
    <3>2. due => due'
      BY <1>0, <1>3, <2>1, <2>2 DEF SetMaxRunCount
    <3> HIDE DEF due, Due
    <3> QED
      BY <3>1, <3>2
  <2>3. CASE max >= cntMax
    <3>1. /\ cntMax' >= cntMax /\ cntMax' \in Nat
          /\ UNCHANGED <<plan, cntVal, tickVal, tickMax, starts>> /\ (lowered' <=> lowered)
      <4>1. cntMax' = max /\ UNCHANGED <<plan, cntVal, tickVal, tickMax, starts>>
        BY <1>3 DEF SetMaxRunCount
      <4>2. lowered' <=> lowered
        BY <1>0, <1>3, <2>1, <2>3 DEF SetMaxRunCount
      <4> QED
        BY <1>0, <2>1, <2>3, <4>1, <4>2, <1>3 DEF SetMaxRunCount, TypeOK
    <3>2. (due' => due) /\ (Due(0, 0)' => Due(0, 0))
      BY <1>0, <3>1
    <3>3. due => due' \/ raised'
      <4>1. CASE max > cntMax
        BY <1>3, <4>1 DEF SetMaxRunCount
      <4>2. CASE max = cntMax
        BY <1>3, <3>1, <4>2 DEF SetMaxRunCount
      <4> QED
        BY <1>0, <2>1, <2>3, <4>1, <4>2
    <3>4. cntVal = 0 /\ tickVal = 0 /\ due' => Due(0, 0)'
      BY <3>1
    <3>5. raised => raised'
      BY <1>3 DEF SetMaxRunCount
    <3> HIDE DEF due, Due
    <3> QED
      BY <1>0, <3>1, <3>2, <3>3, <3>4, <3>5
  <2> QED
    BY <1>0, <2>1, <2>2, <2>3
<1>4. ASSUME NEW max \in Times, SetMaxRunTime(max) PROVE Goal
  <2>1. max \in Nat
    BY XTaskAssumption
  <2>2. CASE max < tickMax
    <3>1. lowered' /\ (raised => raised') /\ starts' = starts
      BY <1>4, <2>2 DEF SetMaxRunTime
    <3>2. due => due'
      BY <1>0, <1>4, <2>1, <2>2 DEF SetMaxRunTime
    <3> HIDE DEF due, Due
    <3> QED
      BY <3>1, <3>2
  <2>3. CASE max >= tickMax
    <3>1. /\ tickMax' >= tickMax /\ tickMax' \in Nat
          /\ UNCHANGED <<plan, cntVal, tickVal, cntMax, starts>> /\ (lowered' <=> lowered)
      <4>1. tickMax' = max /\ UNCHANGED <<plan, cntVal, tickVal, cntMax, starts>>
        BY <1>4 DEF SetMaxRunTime
      <4>2. lowered' <=> lowered
        BY <1>0, <1>4, <2>1, <2>3 DEF SetMaxRunTime
      <4> QED
        BY <1>0, <2>1, <2>3, <4>1, <4>2, <1>4 DEF SetMaxRunTime, TypeOK
    <3>2. (due' => due) /\ (Due(0, 0)' => Due(0, 0))
      BY <1>0, <3>1
    <3>3. due => due' \/ raised'
      <4>1. CASE max > tickMax
        BY <1>4, <4>1 DEF SetMaxRunTime
      <4>2. CASE max = tickMax
        BY <1>4, <3>1, <4>2 DEF SetMaxRunTime
      <4> QED
        BY <1>0, <2>1, <2>3, <4>1, <4>2
    <3>4. cntVal = 0 /\ tickVal = 0 /\ due' => Due(0, 0)'
      BY <3>1
    <3>5. raised => raised'
      BY <1>4 DEF SetMaxRunTime
    <3> HIDE DEF due, Due
    <3> QED
      BY <1>0, <3>1, <3>2, <3>3, <3>4, <3>5
  <2> QED
    BY <1>0, <2>1, <2>2, <2>3
<1>5. CASE Reset
  BY <1>0, <1>5 DEF Reset, Forget
<1> QED
  BY <1>1, <1>2, <1>3, <1>4, <1>5
     DEF Next, Run, RunEnter, RunDone, RunLeave, PauseOn, PauseOff, Clock, vars

\* The pause.
LEMMA StepPauseInv ==
  TypeOK /\ PauseInv /\ OneStartAfterPause /\ [Next]_vars => PauseInv' /\ OneStartAfterPause'
<1> SUFFICES ASSUME TypeOK, PauseInv, OneStartAfterPause, [Next]_vars
             PROVE  PauseInv' /\ OneStartAfterPause'
  OBVIOUS
<1>0. late \in Nat
  BY XTaskAssumption DEF TypeOK
<1> USE DEF PauseInv, OneStartAfterPause
<1>1. CASE RunCount
  BY <1>0, <1>1 DEF RunCount, RunLeave, Start
<1>2. CASE RunEnter \/ RunDone \/ Reset \/ PauseOn \/ PauseOff \/ Clock \/ UNCHANGED vars
  BY <1>0, <1>2 DEF RunEnter, RunDone, RunLeave, Reset, PauseOn, PauseOff, Clock, vars
<1>3. ASSUME NEW max \in Counts, SetMaxRunCount(max) PROVE PauseInv' /\ OneStartAfterPause'
  BY <1>3 DEF SetMaxRunCount
<1>4. ASSUME NEW max \in Times, SetMaxRunTime(max) PROVE PauseInv' /\ OneStartAfterPause'
  BY <1>4 DEF SetMaxRunTime
<1> QED
  BY <1>1, <1>2, <1>3, <1>4 DEF Next, Run

\* IInv, and with it each of its parts, holds in every state of XTask.
THEOREM Invariance == Spec => []IInv
<1>1. IInv /\ [Next]_vars => IInv'
  BY StepCountInv, StepStartInv, StepPauseInv DEF IInv
<1> QED
  BY InitIInv, <1>1, PTL DEF Spec

\* Every variable keeps its type, for every set of maxima and every bound.
THEOREM TypeCorrect == Spec => []TypeOK
<1>1. IInv => TypeOK
  BY DEF IInv
<1> QED
  BY Invariance, <1>1, PTL

\* The task is started once between two resets, unless a maximum was raised.
THEOREM OneStart == Spec => []OneStartPerReset
<1>1. IInv => OneStartPerReset
  BY DEF IInv
<1> QED
  BY Invariance, <1>1, PTL

\* A task that is due and was never started was made due by a lowered maximum, or by
\* the maxima alone.
THEOREM Skipped == Spec => []SkippedOnlyIfLowered
<1>1. IInv => SkippedOnlyIfLowered
  BY DEF IInv
<1> QED
  BY Invariance, <1>1, PTL

\* At most one start after pauseOn() has returned.
THEOREM Paused == Spec => []OneStartAfterPause
<1>1. IInv => OneStartAfterPause
  BY DEF IInv
<1> QED
  BY Invariance, <1>1, PTL

\* Every start of the task was earned by counted calls and by time since the reset.
THEOREM Earned == Spec => StartIsEarned
<1> DEFINE A == starts' > starts =>
                  LET counted == calls' >= cntMax
                      timed   == tickMax > 0 => now' - since' >= tickMax
                  IN IF plan = "CountingAndTicking" THEN counted /\ timed ELSE counted \/ timed
<1>1. TypeOK /\ CountInv /\ [Next]_vars => [A]_vars
  <2> SUFFICES ASSUME TypeOK, CountInv, Next PROVE A
    BY DEF vars
  <2>0. /\ starts \in Nat /\ calls \in Nat /\ cntMax \in Nat /\ tickMax \in Nat
        /\ now \in Nat /\ since \in Nat
    BY XTaskAssumption DEF TypeOK
  <2>1. CASE RunCount
    <3>1. PICK later \in now..MaxClock :
            /\ now' = later
            /\ IF Due(NextCnt, NextTick(later)) THEN Start ELSE UNCHANGED <<starts, late>>
      BY <2>1 DEF RunCount
    <3>2. SUFFICES ASSUME Due(NextCnt, NextTick(later)) PROVE A
      BY <3>1, <2>0
    <3>3. /\ NextCnt \in 0..(calls + 1)
          /\ FirstTick \in 0..later /\ NextTick(later) \in 0..later
          /\ FirstTick # 0 => FirstTick >= (IF since = 0 THEN now ELSE since)
          /\ NextTick(later) > 0 => FirstTick # 0 /\ NextTick(later) <= later - FirstTick
      BY Counted
    <3>4. calls' = calls + 1 /\ since' = (IF since = 0 THEN now ELSE since)
      BY <2>1 DEF RunCount, RunLeave
    <3>5. NextCnt >= cntMax => calls' >= cntMax
      BY <2>0, <3>3, <3>4
    <3>6. NextTick(later) >= tickMax => (tickMax > 0 => now' - since' >= tickMax)
      BY <2>0, <3>1, <3>3, <3>4
    <3> QED
      BY <3>2, <3>5, <3>6 DEF Due
  <2>2. CASE ~RunCount
    <3>1. ~(starts' > starts)
      BY <2>0, <2>2 DEF Next, Run, RunEnter, RunDone, RunLeave, SetMaxRunCount, SetMaxRunTime,
                        Reset, Forget, PauseOn, PauseOff, Clock
    <3> QED
      BY <3>1
  <2> QED
    BY <2>1, <2>2
<1>2. IInv => TypeOK /\ CountInv
  BY DEF IInv
<1> QED
  BY Invariance, <1>1, <1>2, PTL DEF Spec, StartIsEarned
=============================================================================
