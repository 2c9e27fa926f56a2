------------------------- MODULE CountingSemaphore -------------------------
(***************************************************************************)
(* What class Semaphore promises: a number of tokens, callers that take    *)
(* one each, and no token left lying while a caller waits for one.         *)
(***************************************************************************)
EXTENDS Integers

CONSTANTS Thread, InitVal

VARIABLES value,   \* tokens
          call,    \* the call every thread is in, or "none"
          result   \* what its last call returned; "pending" while it is in one

semVars == <<value, call, result>>

Timed == {"TryWait", "TimedWait"}

Init ==
    /\ value = InitVal
    /\ call   = [t \in Thread |-> "none"]
    /\ result = [t \in Thread |-> "none"]

Call(t, k) ==
    /\ call[t] = "none"
    /\ call'   = [call EXCEPT ![t] = k]
    /\ result' = [result EXCEPT ![t] = "pending"]
    /\ UNCHANGED value

Answer(t, r) ==
    /\ call'   = [call EXCEPT ![t] = "none"]
    /\ result' = [result EXCEPT ![t] = r]

\* A caller takes a token; no caller goes without one while there is one,
\* except one that does not want to wait.
Acquire(t) == call[t] # "none" /\ value > 0 /\ value' = value - 1 /\ Answer(t, "true")
Fail(t)    == call[t] \in Timed /\ value <= 0 /\ UNCHANGED value /\ Answer(t, "false")

\* A wait for less than no time is refused, whatever the number of tokens.
Refuse(t) == call[t] = "none" /\ UNCHANGED value /\ Answer(t, "false")

Post == value' = value + 1 /\ UNCHANGED <<call, result>>

Next ==
    \/ \E t \in Thread :
          \/ \E k \in {"Wait"} \cup Timed : Call(t, k)
          \/ Acquire(t) \/ Fail(t) \/ Refuse(t)
    \/ Post

Spec == Init /\ [][Next]_semVars

\* A token does not lie there for ever while somebody waits for one, and a call that
\* does not want to wait comes back.
FairSpec ==
    /\ Spec
    /\ WF_semVars(\E t \in Thread : Acquire(t))
    /\ \A t \in Thread : (call[t] \in Timed) ~> (call[t] = "none")
=============================================================================
