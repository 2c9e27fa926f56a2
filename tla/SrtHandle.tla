------------------------------ MODULE SrtHandle ------------------------------
(***************************************************************************)
(* What a handle of class LibSrt promises the thread that owns it and the  *)
(* thread that may stop it, with no word about sockets, epolls or polling: *)
(* it is down, on its way up, or up; a request to stop is remembered until *)
(* the next open, and lets at most one message through.                    *)
(***************************************************************************)
EXTENDS Naturals

VARIABLES phase,  \* "down", "opening" or "up"
          stop,   \* somebody asked to stop since the last open
          late    \* messages handed to SRT since then

handleVars == <<phase, stop, late>>

Init == phase = "down" /\ stop \in BOOLEAN /\ late = 0

\* open() is called; it may fail at once.
Open == phase = "down" /\ phase' \in {"opening", "down"} /\ stop' = FALSE /\ late' = 0

\* open() returns true or false.  A stop asked for meanwhile may come too late.
Settle == phase = "opening" /\ phase' \in {"up", "down"} /\ UNCHANGED <<stop, late>>

Stop == stop' = TRUE /\ UNCHANGED <<phase, late>>

\* A handle goes down only when somebody asked for it.
Close == phase = "up" /\ stop /\ phase' = "down" /\ UNCHANGED <<stop, late>>

LateMessage == stop /\ late = 0 /\ late' = 1 /\ UNCHANGED <<phase, stop>>

Next == Open \/ Settle \/ Stop \/ Close \/ LateMessage

Spec == Init /\ [][Next]_handleVars

\* An open that was begun is settled.
FairSpec == Spec /\ WF_handleVars(Settle)
=============================================================================
