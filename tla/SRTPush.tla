------------------------------- MODULE SRTPush -------------------------------
(***************************************************************************)
(* Class SRTPush (native/srtcore/srt_push.cpp) in the hands of any users:  *)
(* threads that share it, write to it and release it, each as it likes,    *)
(* and the last of which destroys it.  The handle inside is a LibSrt, of   *)
(* which only matters here whether it exists.  A definition whose comment  *)
(* says "Fault" is used by nothing (see README, "Faults").                 *)
(***************************************************************************)
EXTENDS Integers

CONSTANTS Users,
          MaxReleases   \* bound: release() is not called more often than this

ASSUME SRTPushAssumption == Users # {} /\ MaxReleases \in Nat

VARIABLES handle_,      \* "set" or "null"
          success_,
          doing,        \* per user: "idle", "checked", "inside", "closing" or "gone"
          releases,     \* calls of release(), the destructor's included
          overlapped,   \* one of them ran while another user was in a call
          fault         \* "none", "null" (dereferenced) or "freed" (used after its end)

pushVars == <<handle_, success_, doing, releases, overlapped, fault>>

\* SRTPush::SRTPush: open() may have failed.
PushInit ==
    /\ handle_ = "set" /\ success_ \in BOOLEAN
    /\ doing = [u \in Users |-> "idle"]
    /\ releases = 0 /\ overlapped = FALSE /\ fault = "none"

Goes(u, l) == doing' = [doing EXCEPT ![u] = l]

In(places)        == {u \in Users : doing[u] \in places}
OthersIn(u, where) == In(where) \ {u} # {}

-----------------------------------------------------------------------------
\* write() tests success_ and handle_ ...  (Fault: only success_.)
WriteUntested(u) ==
    /\ doing[u] = "idle"
    /\ Goes(u, IF success_ THEN "checked" ELSE "idle")
    /\ overlapped' = (overlapped \/ OthersIn(u, {"closing"}))
    /\ UNCHANGED <<handle_, success_, releases, fault>>

Write(u) ==
    /\ doing[u] = "idle"
    /\ Goes(u, IF success_ /\ handle_ = "set" THEN "checked" ELSE "idle")
    /\ overlapped' = (overlapped \/ OthersIn(u, {"closing"}))
    /\ UNCHANGED <<handle_, success_, releases, fault>>

\* ... and reads handle_ again to call LibSrt::write, which comes back.
WriteCall(u) ==
    /\ doing[u] = "checked"
    /\ IF handle_ = "set" THEN Goes(u, "inside") /\ UNCHANGED fault
                          ELSE fault' = "null" /\ UNCHANGED doing
    /\ UNCHANGED <<handle_, success_, releases, overlapped>>

WriteReturn(u) ==
    /\ doing[u] = "inside"
    /\ Goes(u, "idle")
    /\ UNCHANGED <<handle_, success_, releases, overlapped, fault>>

\* release() calls handle_->close() and, when that is back, drops the LibSrt, with
\* whoever is still inside it.
StartRelease(u, place) ==
    /\ doing[u] = "idle"
    /\ releases' = releases + 1
    /\ overlapped' = (overlapped \/ OthersIn(u, {"checked", "inside", "closing"}))
    /\ IF handle_ = "set" THEN Goes(u, place) /\ UNCHANGED fault
                          ELSE fault' = "null" /\ UNCHANGED doing
    /\ UNCHANGED <<handle_, success_>>

Release(u) == releases < MaxReleases /\ StartRelease(u, "closing")

Released(u) ==
    /\ doing[u] \in {"closing", "destroying"}
    /\ handle_' = "null"
    /\ fault' = IF OthersIn(u, {"inside", "closing"}) THEN "freed" ELSE fault
    /\ Goes(u, IF doing[u] = "closing" THEN "idle" ELSE "gone")
    /\ UNCHANGED <<success_, releases, overlapped>>

\* A user drops its shared_ptr; with the last one goes the object, releasing.
Leave(u) ==
    IF In({"gone"}) = Users \ {u}
    THEN StartRelease(u, "destroying")
    ELSE /\ doing[u] = "idle"
         /\ Goes(u, "gone")
         /\ UNCHANGED <<handle_, success_, releases, overlapped, fault>>

-----------------------------------------------------------------------------
PushNext ==
    /\ fault = "none"
    /\ \E u \in Users :
          Write(u) \/ WriteCall(u) \/ WriteReturn(u) \/ Release(u) \/ Released(u) \/ Leave(u)

PushSpec == PushInit /\ [][PushNext]_pushVars

\* SRTPush needs more of its users than the class says: that release() is called
\* once and by nobody beside a write().  Kept, nothing goes wrong.  Since the
\* destructor calls release() too, once means never: an object that a user has
\* released and that is destroyed afterwards dereferences null.
ReleasedOnce ==
    /\ fault # "none" => overlapped \/ releases > 1
    /\ In({"gone"}) = Users => releases = 1
=============================================================================
