------------------------------- MODULE XTask -------------------------------
(***************************************************************************)
(* Class XTask (native/base/xtask.hpp) with its Counting and Ticking       *)
(* (native/base/computing.hpp): run() is called again and again by one     *)
(* thread, and starts the task when enough runs have been counted and (or) *)
(* enough time has passed since the first of them.  isPause is the one     *)
(* atomic member: pauseOn() and pauseOff() may come from another thread,   *)
(* between run()'s look at isPause and the rest of run(). A definition     *)
(* whose comment says "Fault" is used by nothing (see README, "Faults").   *)
(***************************************************************************)
EXTENDS Integers

CONSTANTS Counts,      \* values of maxCnt
          Times,       \* values of maxTime
          MaxClock,    \* bound: the clock stops here
          MaxCalls     \* bound: runs counted since a reset

ASSUME XTaskAssumption ==
    /\ Counts \subseteq Nat /\ Counts # {}
    /\ Times \subseteq Nat /\ Times # {}
    /\ MaxClock \in Nat \ {0} /\ MaxCalls \in Nat

Plans == {"CountingAndTicking", "CountingOrTicking"}

VARIABLES plan,        \* the Plan the caller instantiates run() with
          cntVal, cntMax,               \* cnt
          tickVal, tickLast, tickMax,   \* tick
          isPause,
          now,         \* steady_clock, never 0
          pc,          \* "out", or "in" when run() has seen isPause FALSE
          \* what happened since the last reset()
          calls,       \* calls of run() that were not paused
          since,       \* when the first of them looked at the clock, or 0
          starts,      \* times the task was started
          lowered,     \* a maximum was set to less than it was
          raised,      \* a maximum was set to more than it was
          late         \* the task was started after pauseOn() returned

vars == <<plan, cntVal, cntMax, tickVal, tickLast, tickMax, isPause, now, pc,
          calls, since, starts, lowered, raised, late>>

\* Every variable stays in its type: what the clock measured is never negative,
\* and the count never overtakes the calls that can have been made.
TypeOK ==
    /\ plan \in Plans
    /\ cntVal \in 0..MaxCalls /\ cntMax \in Counts
    /\ tickVal \in 0..MaxClock /\ tickLast \in 0..MaxClock /\ tickMax \in Times
    /\ now \in 1..MaxClock
    /\ pc \in {"out", "in"}
    /\ calls \in 0..MaxCalls /\ since \in 0..MaxClock
    /\ starts \in 0..MaxCalls /\ late \in 0..MaxCalls
    /\ isPause \in BOOLEAN /\ lowered \in BOOLEAN /\ raised \in BOOLEAN

Init ==
    /\ plan \in Plans
    /\ cntMax \in Counts /\ tickMax \in Times
    /\ cntVal = 0 /\ tickVal = 0 /\ tickLast = 0
    /\ isPause = FALSE
    /\ now = 1 /\ pc = "out"
    /\ calls = 0 /\ since = 0 /\ starts = 0 /\ late = 0
    /\ lowered = FALSE /\ raised = FALSE

-----------------------------------------------------------------------------
Due(cnt, time) ==
    IF plan = "CountingAndTicking" THEN cnt >= cntMax /\ time >= tickMax
                                   ELSE cnt >= cntMax \/ time >= tickMax

due == Due(cntVal, tickVal)

\* Counting::selfInc and Ticking::selfInc, each called only until it is done.
NextCnt   == IF cntVal >= cntMax THEN cntVal ELSE cntVal + 1
FirstTick == IF tickVal >= tickMax \/ tickLast # 0 THEN tickLast ELSE now
NextTick(later) == IF tickVal >= tickMax THEN tickVal ELSE later - FirstTick

\* (Fault: a pause is not looked at.)
RunEnterAnyway ==
    /\ pc = "out" /\ calls < MaxCalls
    /\ pc' = "in"
    /\ UNCHANGED <<plan, cntVal, cntMax, tickVal, tickLast, tickMax, isPause, now,
                   calls, since, starts, lowered, raised, late>>

\* run(): the look at isPause
RunEnter ==
    /\ pc = "out" /\ ~isPause /\ calls < MaxCalls
    /\ pc' = "in"
    /\ UNCHANGED <<plan, cntVal, cntMax, tickVal, tickLast, tickMax, isPause, now,
                   calls, since, starts, lowered, raised, late>>

RunLeave ==
    /\ pc' = "out"
    /\ calls' = calls + 1
    /\ since' = IF since = 0 THEN now ELSE since
    /\ UNCHANGED <<plan, cntMax, tickMax, isPause, lowered, raised>>

Start == starts' = starts + 1 /\ late' = late + (IF isPause THEN 1 ELSE 0)

\* (Fault: what is due is started again.)
RunDoneAgain ==
    /\ pc = "in" /\ due
    /\ RunLeave /\ Start
    /\ UNCHANGED <<now, cntVal, tickVal, tickLast>>

\* run(): what was due before the call is not started again
RunDone ==
    /\ pc = "in" /\ due
    /\ RunLeave
    /\ UNCHANGED <<now, cntVal, tickVal, tickLast, starts, late>>

\* (Fault: run() looks before it counts, and not after.)
RunCountLooksFirst ==
    /\ pc = "in" /\ ~due
    /\ RunLeave
    /\ \E later \in now..MaxClock :
          /\ now' = later
          /\ cntVal' = NextCnt /\ tickVal' = NextTick(later) /\ tickLast' = FirstTick
    /\ UNCHANGED <<starts, late>>

\* run(): counts, looks at the clock (the first time twice, and time may pass in
\* between), and starts the task if that makes it due.  The task may call any
\* operation of its XTask but run(): nothing of run() is left.
RunCount ==
    /\ pc = "in" /\ ~due
    /\ RunLeave
    /\ \E later \in now..MaxClock :
          /\ now' = later
          /\ cntVal' = NextCnt /\ tickVal' = NextTick(later) /\ tickLast' = FirstTick
          /\ IF Due(NextCnt, NextTick(later)) THEN Start ELSE UNCHANGED <<starts, late>>

Run == RunDone \/ RunCount

-----------------------------------------------------------------------------
(* The other operations, by the thread that calls run() *)

SetMaxRunCount(max) ==
    /\ pc = "out"
    /\ cntMax' = max
    /\ lowered' = (lowered \/ max < cntMax) /\ raised' = (raised \/ max > cntMax)
    /\ UNCHANGED <<plan, cntVal, tickVal, tickLast, tickMax, isPause, now, pc,
                   calls, since, starts, late>>

SetMaxRunTime(max) ==
    /\ pc = "out"
    /\ tickMax' = max
    /\ lowered' = (lowered \/ max < tickMax) /\ raised' = (raised \/ max > tickMax)
    /\ UNCHANGED <<plan, cntVal, cntMax, tickVal, tickLast, isPause, now, pc,
                   calls, since, starts, late>>

Forget ==
    calls' = 0 /\ since' = 0 /\ starts' = 0 /\ lowered' = FALSE /\ raised' = FALSE

\* (Fault: the time of the first look survives the reset.)
ResetKeepsLast ==
    /\ pc = "out"
    /\ cntVal' = 0 /\ tickVal' = 0
    /\ isPause' = FALSE /\ late' = 0
    /\ Forget
    /\ UNCHANGED <<plan, cntMax, tickLast, tickMax, now, pc>>

Reset ==
    /\ pc = "out"
    /\ cntVal' = 0 /\ tickVal' = 0 /\ tickLast' = 0
    /\ isPause' = FALSE /\ late' = 0
    /\ Forget
    /\ UNCHANGED <<plan, cntMax, tickMax, now, pc>>

(* From any thread *)

PauseOn ==
    /\ isPause' = TRUE
    /\ late' = IF isPause THEN late ELSE 0
    /\ UNCHANGED <<plan, cntVal, cntMax, tickVal, tickLast, tickMax, now, pc,
                   calls, since, starts, lowered, raised>>

PauseOff ==
    /\ isPause' = FALSE
    /\ UNCHANGED <<plan, cntVal, cntMax, tickVal, tickLast, tickMax, now, pc,
                   calls, since, starts, lowered, raised, late>>

Clock ==
    /\ now < MaxClock
    /\ now' = now + 1
    /\ UNCHANGED <<plan, cntVal, cntMax, tickVal, tickLast, tickMax, isPause, pc,
                   calls, since, starts, lowered, raised, late>>

Next ==
    \/ RunEnter \/ Run
    \/ \E max \in Counts : SetMaxRunCount(max)
    \/ \E max \in Times : SetMaxRunTime(max)
    \/ Reset \/ PauseOn \/ PauseOff \/ Clock

Spec == Init /\ [][Next]_vars

-----------------------------------------------------------------------------
(* Properties *)

\* Whatever has happened to the maxima and however often the object was paused,
\* a start of the task was earned since the last reset(): by as many counted
\* calls of run() as the maximum in force, and by as much time since the first of
\* them (one of the two under CountingOrTicking).
StartIsEarned ==
    [][starts' > starts =>
         LET counted == calls' >= cntMax
             timed   == tickMax > 0 => now' - since' >= tickMax
         IN IF plan = "CountingAndTicking" THEN counted /\ timed ELSE counted \/ timed]_vars

\* Between two reset()s the task is started once, unless a maximum was raised:
\* the caller that wants it again has to reset() (or the task itself has).
OneStartPerReset == starts > 1 => raised

\* The task is skipped, due and never started, only when a caller lowered a
\* maximum to what had been reached, or the maxima allowed it before the first run().
\* (With the default maxTime of zero that is every CountingOrTicking task.)
SkippedOnlyIfLowered ==
    due /\ starts = 0 => lowered \/ Due(0, 0)

\* pauseOn() from another thread stops every start but one: that of a run() that
\* had already seen isPause FALSE.
OneStartAfterPause == isPause => late <= 1

-----------------------------------------------------------------------------
(* The inductive invariant of the proofs *)

\* What the counter and the clock hold was counted since the last reset().
CountInv ==
    /\ cntVal <= calls /\ late <= starts /\ starts <= calls
    /\ pc = "in" => calls < MaxCalls
    /\ since <= now
    /\ tickLast # 0 => since # 0 /\ since <= tickLast /\ tickLast <= now
    /\ tickVal > 0 => tickLast # 0 /\ tickVal <= now - tickLast

\* Where the task stands: due once it was started, unless a maximum was raised; and
\* nothing counted while the maxima make it due from the reset() on.
StartInv ==
    /\ starts >= 1 => raised \/ due
    /\ ~lowered /\ Due(0, 0) => cntVal = 0 /\ tickVal = 0

\* Under a pause only the run() that was already in may start the task.
PauseInv == isPause /\ pc = "in" => late = 0

IInv ==
    /\ TypeOK /\ CountInv /\ StartInv /\ PauseInv
    /\ OneStartPerReset /\ SkippedOnlyIfLowered /\ OneStartAfterPause
=============================================================================
