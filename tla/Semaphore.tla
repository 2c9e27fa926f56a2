----------------------------- MODULE Semaphore -----------------------------
(***************************************************************************)
(* Class Semaphore (native/base/semaphore.cpp, .inl): a count, a mutex and *)
(* a condition variable.  What a method does between taking the mutex and  *)
(* giving it up, in condVar.wait or at its end, is one step. A definition  *)
(* whose comment says "Fault" is used by nothing (see README, "Faults").   *)
(***************************************************************************)
EXTENDS Integers, FiniteSets

CONSTANTS Thread,    \* the threads that call Wait, TryWait and TimedWait
          InitVal,   \* the constructor's init_val
          MaxPosts   \* bound: calls of Post

ASSUME SemaphoreAssumption ==
    IsFiniteSet(Thread) /\ InitVal \in Int /\ MaxPosts \in Nat

VARIABLES curCount,
          pc,       \* "idle"; "enter": about to lock the mutex and look;
                    \* "asleep": in the wait set of condVar; "awake": out of
                    \* it, about to lock the mutex again
          call,     \* the method the thread is in
          result,   \* what its last call returned
          posts     \* calls of Post so far

vars == <<curCount, pc, call, result, posts>>

Timed == {"TryWait", "TimedWait"}

In(l) == {t \in Thread : pc[t] = l}

\* Every variable stays in its type, and a thread is in a call exactly while it is
\* somewhere in one.
TypeOK ==
    /\ curCount \in Int
    /\ pc     \in [Thread -> {"idle", "enter", "asleep", "awake"}]
    /\ call   \in [Thread -> {"none", "Wait"} \cup Timed]
    /\ result \in [Thread -> {"none", "pending", "true", "false"}]
    /\ posts  \in Nat
    /\ \A t \in Thread : pc[t] = "idle" <=> call[t] = "none"

Init ==
    /\ curCount = InitVal
    /\ pc     = [t \in Thread |-> "idle"]
    /\ call   = [t \in Thread |-> "none"]
    /\ result = [t \in Thread |-> "none"]
    /\ posts  = 0

-----------------------------------------------------------------------------
Call(t, k) ==
    /\ pc[t] = "idle"
    /\ pc'     = [pc EXCEPT ![t] = "enter"]
    /\ call'   = [call EXCEPT ![t] = k]
    /\ result' = [result EXCEPT ![t] = "pending"]
    /\ UNCHANGED <<curCount, posts>>

\* TimedWait of a negative duration does not even lock.
NegativeTimedWait(t) ==
    /\ pc[t] = "idle"
    /\ result' = [result EXCEPT ![t] = "false"]
    /\ UNCHANGED <<curCount, pc, call, posts>>

\* The method returns r.  (Fault: the call is not over.)
ReturnStillInCall(t, r) ==
    /\ pc'     = [pc EXCEPT ![t] = "idle"]
    /\ result' = [result EXCEPT ![t] = r]
    /\ UNCHANGED call

Return(t, r) ==
    /\ pc'     = [pc EXCEPT ![t] = "idle"]
    /\ call'   = [call EXCEPT ![t] = "none"]
    /\ result' = [result EXCEPT ![t] = r]

\* --curCount, and the method is done.
Take(t) == curCount' = curCount - 1 /\ Return(t, "true")

\* The first look, with the mutex held.
Enter(t) ==
    /\ pc[t] = "enter"
    /\ \/ curCount > 0 /\ Take(t)
       \/ /\ ~(curCount > 0)
          /\ pc' = [pc EXCEPT ![t] = "asleep"]
          /\ UNCHANGED <<curCount, call, result>>
    /\ UNCHANGED posts

\* condVar lets a thread go without a notification: the time of a timed wait
\* is up, or it wakes up spuriously.
WakeAlone(t) ==
    /\ pc[t] = "asleep"
    /\ pc' = [pc EXCEPT ![t] = "awake"]
    /\ UNCHANGED <<curCount, call, result, posts>>

\* The second look: Wait starts over, after giving up the mutex for a moment.
\* (Fault: there is no second look.)
ResumeUnchecked(t) ==
    /\ pc[t] = "awake"
    /\ Take(t)
    /\ UNCHANGED posts

Resume(t) ==
    /\ pc[t] = "awake"
    /\ \/ curCount > 0 /\ Take(t)
       \/ /\ ~(curCount > 0) /\ call[t] = "Wait"
          /\ pc' = [pc EXCEPT ![t] = "enter"]
          /\ UNCHANGED <<curCount, call, result>>
       \/ ~(curCount > 0) /\ call[t] \in Timed /\ Return(t, "false") /\ UNCHANGED curCount
    /\ UNCHANGED posts

\* condVar.notify_one(): one of the threads in the wait set, if there is one.
\* (Fault: nobody is notified.)
NotifyNone == UNCHANGED pc
NotifyOne ==
    IF In("asleep") = {} THEN UNCHANGED pc
    ELSE \E t \in In("asleep") : pc' = [pc EXCEPT ![t] = "awake"]

\* (Fault: only the first token wakes a thread.)
PostOnlyFromZero ==
    /\ posts < MaxPosts /\ posts' = posts + 1
    /\ curCount' = curCount + 1
    /\ IF curCount = 0 THEN NotifyOne ELSE UNCHANGED pc
    /\ UNCHANGED <<call, result>>

Post ==
    /\ posts < MaxPosts /\ posts' = posts + 1
    /\ curCount' = curCount + 1
    /\ NotifyOne
    /\ UNCHANGED <<call, result>>

Next ==
    \/ \E t \in Thread :
          \/ \E k \in {"Wait"} \cup Timed : Call(t, k)
          \/ NegativeTimedWait(t) \/ Enter(t) \/ WakeAlone(t) \/ Resume(t)
    \/ Post

Spec == Init /\ [][Next]_vars

\* A thread that is not in the wait set gets the mutex and goes on, and a timed
\* wait ends.  Nobody has to post, and condVar need not wake anybody spuriously.
Fairness ==
    \A t \in Thread :
        /\ WF_vars(Enter(t)) /\ WF_vars(Resume(t))
        /\ WF_vars(call[t] \in Timed /\ WakeAlone(t))

FairSpec == Spec /\ Fairness

-----------------------------------------------------------------------------
(* Properties *)

\* No lost wakeup: while a thread sleeps, every token has a thread on its way
\* to it.  Post adds one to both sides; notify_one, which wakes a single thread,
\* is enough only because this holds at every step, spurious wakeups and
\* threads that overtake the woken one included.
NoLostWakeup == In("asleep") # {} => curCount <= Cardinality(In("awake"))

Counting == INSTANCE CountingSemaphore WITH value <- curCount

\* The class is a counting semaphore: a token is taken by one caller, a call
\* fails only when there is no token, and no more tokens are taken than posted.
ImplementsCounting == Counting!Spec

\* ... no token lies there for ever while a thread waits for one, and a timed wait
\* and a TryWait always come back, with or without a token.
ImplementsFairCounting == Counting!FairSpec
=============================================================================
