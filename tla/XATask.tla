------------------------------- MODULE XATask -------------------------------
(***************************************************************************)
(* Class XATask (native/base/xatask.hpp) with its Timing and Counting      *)
(* (native/base/computing.hpp): a thread of its own naps until a nap lasts *)
(* the whole of max_timeout, update() cuts the nap short, and the callback *)
(* runs once.  Three threads: the worker, one caller of update(), and the  *)
(* thread that destroys the object.  The semaphore nap is what Semaphore   *)
(* was shown to be: a number of tokens; a timed wait takes one or, when    *)
(* there is none, ends with its time or spuriously.                        *)
(* Timing::val and Counting::val are plain variables: every read and every *)
(* write of them is a step of its own wherever another thread can tell.    *)
(* A definition whose comment says "Fault" is used by nothing (see README, *)
(* "Faults").                                                              *)
(***************************************************************************)
EXTENDS Integers

CONSTANTS MaxCount,    \* max_cntout
          MaxTime,     \* max_timeout, in units of time
          MaxUpdates   \* bound: calls of update()

ASSUME XATaskAssumption == MaxCount \in Nat /\ MaxTime \in Nat /\ MaxUpdates \in Nat

Plans == {"CountingAndTiming", "CountingOrTiming"}

VARIABLES plan,        \* the PLAN the object was made with
          quit, hasRun,
          val,         \* timing.val; whatever is over MaxTime is MaxTime
          tokens,      \* timing.nap's count
          count,       \* counting.val
          worker,      \* where XATask::run is
          elapsed,     \* what Task::duration measured of the nap that ended
          updater,     \* where update() is
          updates,     \* calls of update() so far
          owner,       \* where the destructor is
          kicked,      \* a token was posted during the nap
          tardy,       \* that nap took a token and yet lasted the whole time
          overlap,     \* update() was about to reset when run() left its loop
          few          \* counting was not done when run() looked at it

vars == <<plan, quit, hasRun, val, tokens, count, worker, elapsed, updater, updates, owner,
          kicked, tardy, overlap, few>>

timingDone   == val >= MaxTime
countingDone == count >= MaxCount

Init ==
    /\ plan \in Plans
    /\ quit = FALSE /\ hasRun = FALSE
    /\ val = 0 /\ tokens = 0 /\ count = 0
    /\ worker = "loop" /\ elapsed = 0
    /\ updater = "idle" /\ updates = 0
    /\ owner = "alive"
    /\ kicked = FALSE /\ tardy = FALSE /\ overlap = FALSE /\ few = FALSE

-----------------------------------------------------------------------------
(* The worker: XATask::run and Timing::wait *)

others == <<plan, updater, updates, owner, few>>

WorkerGoto(l) == worker' = l

Loop ==
    /\ worker = "loop"
    /\ IF ~timingDone /\ ~quit
       THEN WorkerGoto("clear") /\ UNCHANGED overlap
       ELSE WorkerGoto("decide") /\ overlap' = (updater \in {"post", "clear"})
    /\ UNCHANGED <<quit, hasRun, val, tokens, count, elapsed, kicked, tardy, others>>

ClearVal ==
    /\ worker = "clear"
    /\ val' = 0 /\ kicked' = FALSE /\ tardy' = FALSE
    /\ WorkerGoto("nap")
    /\ UNCHANGED <<quit, hasRun, tokens, count, elapsed, overlap, others>>

\* nap.TimedWait(maxVal) and the clock around it.  A nap that gets its token is
\* measured as shorter than max_timeout, unless the token came so late, or the
\* worker was scheduled so late, that the time was up.
NapByToken ==
    /\ worker = "nap" /\ tokens > 0
    /\ tokens' = tokens - 1
    /\ \E e \in 0..MaxTime : elapsed' = e /\ tardy' = (e = MaxTime)
    /\ WorkerGoto("store")
    /\ UNCHANGED <<quit, hasRun, val, count, kicked, overlap, others>>

NapToTheEnd ==
    /\ worker = "nap" /\ tokens = 0
    /\ elapsed' = MaxTime
    /\ WorkerGoto("store")
    /\ UNCHANGED <<quit, hasRun, val, tokens, count, kicked, tardy, overlap, others>>

NapSpurious ==
    /\ worker = "nap" /\ tokens = 0
    /\ \E e \in 0..(MaxTime - 1) : elapsed' = e
    /\ WorkerGoto("store")
    /\ UNCHANGED <<quit, hasRun, val, tokens, count, kicked, tardy, overlap, others>>

\* val = what was measured.  (Fault: it is dropped.)
StoreNothing ==
    /\ worker = "store"
    /\ WorkerGoto("loop")
    /\ UNCHANGED <<quit, hasRun, val, tokens, count, elapsed, kicked, tardy, overlap, others>>

StoreVal ==
    /\ worker = "store"
    /\ val' = elapsed
    /\ WorkerGoto("loop")
    /\ UNCHANGED <<quit, hasRun, tokens, count, elapsed, kicked, tardy, overlap, others>>

\* `timing.done() && counting.done()' or `||' looks at the second only where the
\* first does not settle it, and an update() may come in between.  (Fault: it is
\* `&&' under both plans.)
AfterTimingBoth == IF timingDone THEN "decideCount" ELSE "over"
AfterTiming ==
    IF plan = "CountingAndTiming" THEN (IF timingDone THEN "decideCount" ELSE "over")
                                  ELSE (IF timingDone THEN "checkQuit" ELSE "decideCount")

Decide ==
    /\ worker = "decide"
    /\ WorkerGoto(AfterTiming)
    /\ UNCHANGED <<quit, hasRun, val, tokens, count, elapsed, kicked, tardy, overlap, others>>

DecideCount ==
    /\ worker = "decideCount"
    /\ WorkerGoto(IF countingDone THEN "checkQuit" ELSE "over")
    /\ few' = ~countingDone
    /\ UNCHANGED <<plan, quit, hasRun, val, tokens, count, elapsed, kicked, tardy, overlap,
                   updater, updates, owner>>

\* (Fault: the callback runs although the object is being destroyed.)
CheckNoQuit ==
    /\ worker = "checkQuit"
    /\ WorkerGoto("callback")
    /\ UNCHANGED <<quit, hasRun, val, tokens, count, elapsed, kicked, tardy, overlap, others>>

CheckQuit ==
    /\ worker = "checkQuit"
    /\ WorkerGoto(IF quit THEN "over" ELSE "callback")
    /\ UNCHANGED <<quit, hasRun, val, tokens, count, elapsed, kicked, tardy, overlap, others>>

\* The callback returns; the thread ends.
Callback ==
    /\ worker = "callback"
    /\ hasRun' = TRUE
    /\ WorkerGoto("over")
    /\ UNCHANGED <<quit, val, tokens, count, elapsed, kicked, tardy, overlap, others>>

WorkerStep ==
    \/ Loop \/ ClearVal \/ NapByToken \/ StoreVal \/ Decide \/ DecideCount \/ CheckQuit \/ Callback

-----------------------------------------------------------------------------
(* update(), called by one thread while the object is alive *)

workerVars == <<plan, quit, hasRun, worker, elapsed, tardy, overlap, owner, few>>

\* The first look at timing.done()
Update ==
    /\ updater = "idle" /\ owner = "alive" /\ updates < MaxUpdates
    /\ updates' = updates + 1
    /\ updater' = IF timingDone THEN "count" ELSE "post"
    /\ UNCHANGED <<val, tokens, count, kicked, workerVars>>

\* nap.Post() of Timing::reset
Post == tokens' = tokens + 1 /\ kicked' = (kicked \/ worker = "nap")

UpdatePost ==
    /\ updater = "post"
    /\ Post
    /\ updater' = "clear"
    /\ UNCHANGED <<val, count, updates, workerVars>>

UpdateClear ==
    /\ updater = "clear"
    /\ val' = 0
    /\ updater' = "count"
    /\ UNCHANGED <<tokens, count, updates, kicked, workerVars>>

\* Counting::selfInc() where it is not done.
UpdateCount ==
    /\ updater = "count"
    /\ count' = IF countingDone THEN count ELSE count + 1
    /\ updater' = "idle"
    /\ UNCHANGED <<val, tokens, updates, kicked, workerVars>>

UpdaterStep == UpdatePost \/ UpdateClear \/ UpdateCount

-----------------------------------------------------------------------------
(* ~XATask, called when nobody is in update() *)

nonOwner == <<plan, hasRun, worker, elapsed, tardy, updater, updates, overlap, few>>

\* (Fault: quit is not set.)
DestroyNoQuit ==
    /\ owner = "alive" /\ updater = "idle"
    /\ owner' = "post"
    /\ UNCHANGED <<quit, val, tokens, count, kicked, nonOwner>>

Destroy ==
    /\ owner = "alive" /\ updater = "idle"
    /\ quit' = TRUE
    /\ owner' = "post"
    /\ UNCHANGED <<val, tokens, count, kicked, nonOwner>>

DestroyPost ==
    /\ owner = "post"
    /\ Post
    /\ owner' = "clear"
    /\ UNCHANGED <<quit, val, count, nonOwner>>

DestroyClear ==
    /\ owner = "clear"
    /\ val' = 0
    /\ owner' = "countReset"
    /\ UNCHANGED <<quit, tokens, count, kicked, nonOwner>>

DestroyCount ==
    /\ owner = "countReset"
    /\ count' = 0
    /\ owner' = "join"
    /\ UNCHANGED <<quit, val, tokens, kicked, nonOwner>>

Join ==
    /\ owner = "join" /\ worker = "over"
    /\ owner' = "gone"
    /\ UNCHANGED <<quit, val, tokens, count, kicked, nonOwner>>

OwnerStep == DestroyPost \/ DestroyClear \/ DestroyCount \/ Join

-----------------------------------------------------------------------------
Next ==
    \/ WorkerStep \/ NapToTheEnd \/ NapSpurious
    \/ Update \/ UpdaterStep
    \/ Destroy \/ OwnerStep

Spec == Init /\ [][Next]_vars

\* The threads run.  The clock is left out: a nap may last for ever unless a token
\* ends it.
FairSpec ==
    Spec /\ WF_vars(WorkerStep) /\ WF_vars(UpdaterStep) /\ WF_vars(OwnerStep)

\* The clock goes on, and spurious wakeups do not keep a nap from its end for ever.
ClockGoesOn == SF_vars(NapToTheEnd)

-----------------------------------------------------------------------------
(* Properties *)

\* The destructor never hangs on join(), however long max_timeout is: setting
\* quit before the post closes the gap between the worker's look at quit and its
\* nap.  (Checked with no help from the clock.)
DestructorReturns == (owner # "alive") ~> (owner = "gone")

\* The callback runs only after a nap of the whole of max_timeout; and if an
\* update() posted during that nap, its token was taken after the time was up.
\* That is so under CountingOrTiming too, whatever the count has reached.
CallbackAfterQuietNap ==
    worker = "callback" /\ MaxTime > 0 => elapsed = MaxTime /\ (kicked => tardy)

\* A callback that is owed runs.  When run() ends without it and without having
\* been told to quit, either too few updates had been counted, or an update()
\* that had seen the time not done yet reset it after run() had left its loop,
\* which is the one way in which an update() loses the task.
MissedOnlyByLateReset ==
    worker = "over" /\ ~quit /\ ~hasRun => overlap \/ (few /\ plan = "CountingAndTiming")

\* However update() and the naps overlap, the worker ends once the updates do, if
\* the clock goes on: no token that update() left behind keeps it napping for ever.
WorkerEnds == ClockGoesOn => <>(worker = "over")
=============================================================================
