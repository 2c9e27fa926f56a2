---------------------------- MODULE XATaskProofs ----------------------------
(***************************************************************************)
(* Proofs about XATask, for both plans, all maxima and any number of       *)
(* update()s.                                                              *)
(***************************************************************************)
EXTENDS XATask, TLAPS

-----------------------------------------------------------------------------
(* The inductive invariant *)

\* What the proofs need of the types: in particular the worker is at one of its
\* labels, and no measured time is longer than the maximum.
TypeInv ==
    /\ plan \in Plans
    /\ val \in 0..MaxTime /\ elapsed \in 0..MaxTime
    /\ tokens \in Nat
    /\ worker \in {"loop", "clear", "nap", "store", "decide", "decideCount", "checkQuit",
                   "callback", "over"}
    /\ quit \in BOOLEAN /\ hasRun \in BOOLEAN
    /\ kicked \in BOOLEAN /\ tardy \in BOOLEAN /\ overlap \in BOOLEAN /\ few \in BOOLEAN

\* val is what the last nap measured or was reset since, and is zero in a nap.
ValInv ==
    /\ val \in {0, elapsed}
    /\ worker \in {"nap", "store"} => val = 0

\* A token posted in a nap is there when the nap ends, so the nap takes it.
KickInv ==
    /\ worker = "nap" /\ kicked => tokens > 0
    /\ worker # "nap" /\ kicked /\ elapsed = MaxTime => tardy

\* Whoever has left the loop was told to quit or has napped the whole time.
NapInv ==
    MaxTime > 0 =>
        /\ worker \in {"decide", "decideCount", "checkQuit"} => quit \/ elapsed = MaxTime
        /\ worker = "callback" => elapsed = MaxTime

\* Between the end of the loop and the look at timing.done() the time stays done,
\* unless an update() was on its way to reset it, or the destructor is.
ResetInv ==
    /\ owner # "alive" => quit
    /\ worker = "decide" => quit \/ overlap \/ (timingDone /\ updater \notin {"post", "clear"})
    /\ worker = "decideCount" /\ plan = "CountingOrTiming" => quit \/ overlap

IInv == TypeInv /\ ValInv /\ KickInv /\ NapInv /\ ResetInv /\ MissedOnlyByLateReset

-----------------------------------------------------------------------------
(* Every step preserves it *)

\* The object is made with no time, no tokens and no calls.
LEMMA InitIInv == Init => IInv
<1> SUFFICES ASSUME Init PROVE IInv
  OBVIOUS
<1>1. plan \in Plans /\ val \in 0..MaxTime /\ elapsed \in 0..MaxTime /\ tokens \in Nat
  BY XATaskAssumption DEF Init
<1>2. TypeInv
  BY <1>1 DEF Init, TypeInv
<1>3. ValInv /\ KickInv /\ NapInv /\ ResetInv /\ MissedOnlyByLateReset
  BY DEF Init, ValInv, KickInv, NapInv, ResetInv, MissedOnlyByLateReset
<1> QED
  BY <1>2, <1>3 DEF IInv

\* The worker, up to the end of its loop.
LEMMA LoopIInv ==
  ASSUME IInv, Loop \/ ClearVal \/ NapByToken \/ NapToTheEnd \/ NapSpurious \/ StoreVal
  PROVE  IInv'
<1> USE XATaskAssumption DEF IInv, TypeInv, WorkerGoto, others
<1>1. CASE Loop
  <2>0. /\ worker = "loop" /\ worker' \in {"clear", "decide"}
        /\ UNCHANGED <<quit, hasRun, val, tokens, elapsed, kicked, tardy, plan, updater, owner, few>>
    BY <1>1 DEF Loop
  <2>1. overlap' \in BOOLEAN
    <3>1. overlap' = overlap \/ overlap' = (updater \in {"post", "clear"})
      BY <1>1 DEF Loop
    <3>2. (updater \in {"post", "clear"}) \in BOOLEAN
      OBVIOUS
    <3> QED
      BY <3>1, <3>2
  <2>2. TypeInv' /\ ValInv' /\ KickInv'
    BY <2>0, <2>1 DEF ValInv, KickInv
  <2>3. worker' = "decide" => (val >= MaxTime \/ quit) /\ (overlap' <=> updater \in {"post", "clear"})
    BY <1>1 DEF Loop, timingDone
  <2>4. NapInv'
    BY <2>0, <2>3 DEF NapInv, ValInv
  <2>5. ResetInv' /\ MissedOnlyByLateReset'
    BY <2>0, <2>3 DEF ResetInv, MissedOnlyByLateReset, timingDone
  <2> QED
    BY <2>2, <2>4, <2>5
<1>2. CASE ClearVal
  <2>1. TypeInv'
    <3>1. kicked' \in BOOLEAN /\ tardy' \in BOOLEAN
      BY <1>2, Zenon DEF ClearVal
    <3> QED
      BY <1>2, <3>1 DEF ClearVal
  <2>2. ValInv' /\ KickInv' /\ NapInv' /\ ResetInv' /\ MissedOnlyByLateReset'
    BY <1>2 DEF ClearVal, ValInv, KickInv, NapInv, ResetInv, MissedOnlyByLateReset
  <2> QED
    BY <2>1, <2>2
<1>3. CASE NapByToken
  BY <1>3 DEF NapByToken, ValInv, KickInv, NapInv, ResetInv, MissedOnlyByLateReset
<1>4. CASE NapToTheEnd \/ NapSpurious
  BY <1>4 DEF NapToTheEnd, NapSpurious, ValInv, KickInv, NapInv, ResetInv, MissedOnlyByLateReset
<1>5. CASE StoreVal
  BY <1>5 DEF StoreVal, ValInv, KickInv, NapInv, ResetInv, MissedOnlyByLateReset
<1> QED
  BY <1>1, <1>2, <1>3, <1>4, <1>5

\* The worker, from there to its end.
LEMMA DecideIInv ==
  ASSUME IInv, Decide \/ DecideCount \/ CheckQuit \/ Callback
  PROVE  IInv'
<1> USE XATaskAssumption DEF IInv, TypeInv, WorkerGoto, others
<1>1. CASE Decide
  BY <1>1 DEF Decide, AfterTiming, Plans, ValInv, KickInv, NapInv, ResetInv,
     MissedOnlyByLateReset, timingDone
<1>2. CASE DecideCount
  BY <1>2 DEF DecideCount, Plans, ValInv, KickInv, NapInv, ResetInv, MissedOnlyByLateReset
<1>3. CASE CheckQuit
  BY <1>3 DEF CheckQuit, ValInv, KickInv, NapInv, ResetInv, MissedOnlyByLateReset
<1>4. CASE Callback
  BY <1>4 DEF Callback, ValInv, KickInv, NapInv, ResetInv, MissedOnlyByLateReset
<1> QED
  BY <1>1, <1>2, <1>3, <1>4

\* update(): it resets only a time that it has seen not done.
LEMMA UpdateIInv ==
  ASSUME IInv, Update \/ UpdaterStep
  PROVE  IInv'
<1> USE XATaskAssumption DEF IInv, TypeInv, workerVars
<1>1. CASE Update
  BY <1>1 DEF Update, ValInv, KickInv, NapInv, ResetInv, MissedOnlyByLateReset, timingDone
<1>2. CASE UpdatePost
  BY <1>2 DEF UpdatePost, Post, ValInv, KickInv, NapInv, ResetInv, MissedOnlyByLateReset,
     timingDone
<1>3. CASE UpdateClear
  BY <1>3 DEF UpdateClear, ValInv, KickInv, NapInv, ResetInv, MissedOnlyByLateReset
<1>4. CASE UpdateCount
  BY <1>4 DEF UpdateCount, ValInv, KickInv, NapInv, ResetInv, MissedOnlyByLateReset, timingDone
<1> QED
  BY <1>1, <1>2, <1>3, <1>4 DEF UpdaterStep

\* The destructor: whatever it resets, it has set quit before.
LEMMA OwnerIInv ==
  ASSUME IInv, Destroy \/ OwnerStep
  PROVE  IInv'
<1> USE XATaskAssumption DEF IInv, TypeInv, nonOwner
<1>1. CASE Destroy
  BY <1>1 DEF Destroy, ValInv, KickInv, NapInv, ResetInv, MissedOnlyByLateReset
<1>2. CASE DestroyPost
  BY <1>2 DEF DestroyPost, Post, ValInv, KickInv, NapInv, ResetInv, MissedOnlyByLateReset
<1>3. CASE DestroyClear
  BY <1>3 DEF DestroyClear, ValInv, KickInv, NapInv, ResetInv, MissedOnlyByLateReset
<1>4. CASE DestroyCount \/ Join
  BY <1>4 DEF DestroyCount, Join, ValInv, KickInv, NapInv, ResetInv, MissedOnlyByLateReset
<1> QED
  BY <1>1, <1>2, <1>3, <1>4 DEF OwnerStep

\* The invariant holds of every behaviour.
THEOREM Invariance == Spec => []IInv
<1>1. IInv /\ [Next]_vars => IInv'
  <2> SUFFICES ASSUME IInv, [Next]_vars PROVE IInv'
    OBVIOUS
  <2>1. CASE WorkerStep \/ NapToTheEnd \/ NapSpurious
    BY <2>1, LoopIInv, DecideIInv DEF WorkerStep
  <2>2. CASE Update \/ UpdaterStep
    BY <2>2, UpdateIInv
  <2>3. CASE Destroy \/ OwnerStep
    BY <2>3, OwnerIInv
  <2>4. CASE UNCHANGED vars
    BY <2>4 DEF vars, IInv, TypeInv, ValInv, KickInv, NapInv, ResetInv, MissedOnlyByLateReset,
       timingDone
  <2> QED
    BY <2>1, <2>2, <2>3, <2>4 DEF Next
<1> QED
  BY <1>1, InitIInv, PTL DEF Spec

-----------------------------------------------------------------------------
(* What follows *)

\* The callback runs after a nap of the whole of max_timeout that no update() cut
\* short, whatever the plan and however many of them there are.
THEOREM QuietNap == Spec => []CallbackAfterQuietNap
<1>1. IInv => CallbackAfterQuietNap
  BY DEF IInv, KickInv, NapInv, CallbackAfterQuietNap
<1> QED
  BY <1>1, Invariance, PTL

\* A callback that is owed is lost to one race only: an update() that looks before
\* run() has left its loop and resets after.
THEOREM LateReset == Spec => []MissedOnlyByLateReset
<1>1. IInv => MissedOnlyByLateReset
  BY DEF IInv
<1> QED
  BY <1>1, Invariance, PTL
=============================================================================
