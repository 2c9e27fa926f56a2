---------------------------- MODULE PartsProofs -----------------------------
(***************************************************************************)
(* Proofs about the parts that MCParts puts side by side: XLog for any set *)
(* of threads, finite or not, and any paths they set, SRTPush in the hands *)
(* of any set of users, CalcSample with a ring of any size, any interval   *)
(* and any samples, AACParse with any header, and MkdirP with any          *)
(* processes and paths.                                                    *)
(***************************************************************************)
EXTENDS XLog, SRTPush, CalcSample, AACParse, MkdirP, FoldProofs

-----------------------------------------------------------------------------
(* XLog *)

\* What the proofs need of the types: each static is at one of its stages, each
\* thread at one of its labels.
LogTypeInv ==
    /\ static \in [Loggers -> {"unset", "set"} \cup Logging]
    /\ registry \in [Loggers -> {"absent", "stdout", Torn, DefaultPath} \cup Path]
    /\ at \in [Logging -> Loggers \cup {"out", "get", "locked"}]
    /\ path \in [Logging -> {"none", Torn, DefaultPath} \cup Path]
    /\ TextLoggerPath \in {DefaultPath} \cup Path
    /\ assigning \in {Nobody} \cup Path
    /\ late \in BOOLEAN

\* A thread is between "get" and the end of get() exactly while it initialises one
\* static, and holds the lock exactly while it is at "locked".
InitialiserInv ==
    /\ \A n \in Loggers : static[n] \in Logging => at[static[n]] \in {"get", "locked"}
    /\ \A t \in Logging : at[t] \in {"get", "locked"} => \E n \in Loggers : static[n] = t
    /\ static["console"] \in Logging => static["console"] # static["text"]
    /\ LoggerLock = Nobody \/ (LoggerLock \in Logging /\ at[LoggerLock] = "locked")
    /\ \A t \in Logging : at[t] = "locked" => LoggerLock = t

\* As long as no assignment followed it, the copy an initialiser took is the path.
CopyInv ==
    /\ ~late => assigning = Nobody
    /\ static["text"] \in Logging =>
          /\ path[static["text"]] \in {Torn, DefaultPath} \cup Path
          /\ ~late => path[static["text"]] = TextLoggerPath
    /\ registry["text"] # "absent" => static["text"] = "set"

LogInv == LogTypeInv /\ InitialiserInv /\ CopyInv /\ LogsWhereSet

\* Before the first line nothing is made, and the path is that of the source.
LEMMA InitLogInv == LogInit => LogInv
<1> SUFFICES ASSUME LogInit PROVE LogInv
  OBVIOUS
<1> USE XLogAssumption DEF LogInit, Loggers
<1>1. LogTypeInv
  BY DEF LogTypeInv
<1>2. InitialiserInv
  BY DEF InitialiserInv
<1>3. CopyInv /\ LogsWhereSet
  BY DEF CopyInv, LogsWhereSet
<1> QED
  BY <1>1, <1>2, <1>3 DEF LogInv

\* setTextPath(), which makes every copy taken before it a late one.
LEMMA SetLogInv ==
  ASSUME LogInv, (\E p \in Path : SetTextPath(p)) \/ PathSet PROVE LogInv'
<1> USE DEF LogInv, LogTypeInv
<1>1. LogTypeInv'
  BY XLogAssumption DEF SetTextPath, PathSet
<1>2. InitialiserInv'
  BY DEF SetTextPath, PathSet, InitialiserInv
<1>3. late'
  BY DEF SetTextPath, PathSet, CopyInv
<1>4. CopyInv' /\ LogsWhereSet'
  BY <1>3 DEF SetTextPath, PathSet, CopyInv, LogsWhereSet
<1> QED
  BY <1>1, <1>2, <1>4

\* log() up to the initialiser, where a logger is there already.
LEMMA HaveLoggerLogInv ==
  ASSUME LogInv, NEW t \in Logging, Log(t) \/ \E n \in Loggers : HaveLogger(t, n) PROVE LogInv'
<1> USE DEF LogInv, LogTypeInv, GoTo, Loggers
<1>1. /\ at[t] \notin {"get", "locked"}
      /\ \E l \in {"console", "text", "out"} : at' = [at EXCEPT ![t] = l]
      /\ UNCHANGED <<TextLoggerPath, assigning, static, LoggerLock, registry, path, late>>
  BY DEF Log, HaveLogger, After
<1>2. LogTypeInv' /\ CopyInv' /\ LogsWhereSet'
  BY <1>1 DEF CopyInv, LogsWhereSet
<1>3. InitialiserInv'
  BY <1>1 DEF InitialiserInv
<1> QED
  BY <1>2, <1>3

\* Taking a static, and a copy of the path with that of the text logger.
LEMMA InitialiseLogInv ==
  ASSUME LogInv, NEW t \in Logging, NEW n \in Loggers, Initialise(t, n) PROVE LogInv'
<1> USE DEF LogInv, LogTypeInv, GoTo, Loggers
<1>1. /\ at[t] = n /\ static[n] = "unset" /\ static' = [static EXCEPT ![n] = t]
      /\ at' = [at EXCEPT ![t] = "get"]
      /\ UNCHANGED <<TextLoggerPath, assigning, LoggerLock, registry>>
  BY DEF Initialise
<1>2. CASE n = "text"
  <2>1. PICK c \in Copies : path' = [path EXCEPT ![t] = c] /\ late' = (assigning # Nobody)
    BY <1>2 DEF Initialise
  <2>2. LogTypeInv'
    <3>1. c \in {"none", Torn, DefaultPath} \cup Path
      BY <2>1 DEF Copies
    <3>2. late' \in BOOLEAN
      BY <2>1
    <3> QED
      BY <1>1, <2>1, <3>1, <3>2
  <2>3. CopyInv' /\ LogsWhereSet'
    BY <1>1, <1>2, <2>1, XLogAssumption DEF CopyInv, LogsWhereSet, Copies
  <2>4. InitialiserInv'
    BY <1>1, <1>2, XLogAssumption DEF InitialiserInv
  <2> QED
    BY <2>2, <2>3, <2>4
<1>3. CASE n = "console"
  <2>1. UNCHANGED <<path, late>>
    BY <1>3 DEF Initialise
  <2>2. LogTypeInv' /\ CopyInv' /\ LogsWhereSet'
    BY <1>1, <1>3, <2>1 DEF CopyInv, LogsWhereSet
  <2>3. InitialiserInv'
    BY <1>1, <1>3, XLogAssumption DEF InitialiserInv
  <2> QED
    BY <2>2, <2>3
<1> QED
  BY <1>2, <1>3

\* get(), entered ...
LEMMA LockLogInv ==
  ASSUME LogInv, NEW t \in Logging, Lock(t) PROVE LogInv'
<1> USE DEF LogInv, LogTypeInv, GoTo, Lock
<1>1. LogTypeInv' /\ CopyInv' /\ LogsWhereSet'
  BY DEF CopyInv, LogsWhereSet, Loggers
<1>2. InitialiserInv'
  BY XLogAssumption DEF InitialiserInv, Loggers
<1> QED
  BY <1>1, <1>2

\* ... and left, with the logger made or found, or with an exception.
LEMMA GetLogInv ==
  ASSUME LogInv, NEW t \in Logging, (\E n \in Loggers : Get(t, n)) \/ Throws(t) PROVE LogInv'
<1> USE DEF LogInv, LogTypeInv, GoTo, Loggers
<1>1. CASE Throws(t)
  <2>1. LogTypeInv' /\ CopyInv' /\ LogsWhereSet'
    BY <1>1, XLogAssumption DEF Throws, CopyInv, LogsWhereSet
  <2>2. InitialiserInv'
    BY <1>1, XLogAssumption DEF Throws, InitialiserInv
  <2> QED
    BY <2>1, <2>2
<1>2. ASSUME NEW n \in Loggers, Get(t, n) PROVE LogInv'
  <2>1. /\ at[t] = "locked" /\ static[n] = t /\ static' = [static EXCEPT ![n] = "set"]
        /\ LoggerLock' = Nobody /\ path' = [path EXCEPT ![t] = "none"]
        /\ \E l \in {"text", "out"} : at' = [at EXCEPT ![t] = l]
        /\ UNCHANGED <<TextLoggerPath, assigning, late>>
    BY <1>2 DEF Get, After
  <2>2. registry' = [registry EXCEPT ![n] = IF @ # "absent" THEN @
                                            ELSE IF n = "text" THEN path[t] ELSE "stdout"]
    BY <1>2 DEF Get
  <2>3. \A m \in Loggers : m # n => static[m] # t
    BY <2>1 DEF InitialiserInv
  <2>4. InitialiserInv'
    BY <2>1, <2>3, XLogAssumption DEF InitialiserInv
  <2>5. CopyInv'
    BY <2>1, <2>2, <2>3, XLogAssumption DEF CopyInv
  <2>6. LogsWhereSet'
    BY <2>1, <2>2, XLogAssumption DEF CopyInv, LogsWhereSet
  <2>7. LogTypeInv'
    <3>1. n = "text" => path[t] \in {Torn, DefaultPath} \cup Path
      BY <2>1 DEF CopyInv
    <3> QED
      BY <2>1, <2>2, <3>1
  <2> QED
    BY <2>4, <2>5, <2>6, <2>7
<1> QED
  BY <1>1, <1>2

\* The invariant holds of every behaviour.
THEOREM LogInvariance == LogSpec => []LogInv
<1>1. LogInv /\ [LogNext]_logVars => LogInv'
  <2> SUFFICES ASSUME LogInv, [LogNext]_logVars PROVE LogInv'
    OBVIOUS
  <2>1. ASSUME NEW t \in Logging, Log(t) \/ LogStep(t) PROVE LogInv'
    BY <2>1, HaveLoggerLogInv, InitialiseLogInv, LockLogInv, GetLogInv DEF LogStep
  <2>2. CASE (\E p \in Path : SetTextPath(p)) \/ PathSet
    BY <2>2, SetLogInv
  <2>3. CASE UNCHANGED logVars
    BY <2>3 DEF logVars, LogInv, LogTypeInv, InitialiserInv, CopyInv, LogsWhereSet
  <2> QED
    BY <2>1, <2>2, <2>3 DEF LogNext
<1> QED
  BY <1>1, InitLogInv, PTL DEF LogSpec

\* However many threads log first at once, the text logger writes where the last
\* setTextPath() before the copy said.
THEOREM TextLogger == LogSpec => []LogsWhereSet
<1>1. LogInv => LogsWhereSet
  BY DEF LogInv
<1> QED
  BY <1>1, LogInvariance, PTL

\* Who waits in log() waits for a thread that is itself past every static, and at
\* the lock if not past it: at a static for the one that initialises it, at the
\* lock for the one that holds it and has nothing more to wait for.
NoWaitCycle ==
    \A t \in Logging :
        /\ at[t] \in Loggers /\ static[at[t]] \in Logging =>
              static[at[t]] # t /\ at[static[at[t]]] \in {"get", "locked"}
        /\ at[t] = "get" /\ LoggerLock # Nobody =>
              LoggerLock # t /\ at[LoggerLock] = "locked"
        /\ at[t] = "locked" => \E n \in Loggers : static[n] = t

\* So no two threads ever wait for each other, whatever creation throws; that they
\* do come back, given fairness, is what the runs show.
THEOREM WaitsAreOrdered == LogSpec => []NoWaitCycle
<1>1. LogInv => NoWaitCycle
  BY DEF LogInv, InitialiserInv, NoWaitCycle, Loggers
<1> QED
  BY <1>1, LogInvariance, PTL

-----------------------------------------------------------------------------
(* SRTPush *)

UsersTypeInv ==
    /\ handle_ \in {"set", "null"}
    /\ doing \in [Users -> {"idle", "checked", "inside", "closing", "destroying", "gone"}]
    /\ releases \in Nat
    /\ overlapped \in BOOLEAN
    /\ fault \in {"none", "null", "freed"}

Releasing(u) == doing[u] \in {"closing", "destroying"}

\* The handle is there until a release() is over, and each release is counted.
CountedInv ==
    /\ handle_ = "null" => releases >= 1
    /\ \A u \in Users : Releasing(u) => releases >= 1
    /\ handle_ = "set" /\ (\A u \in Users : ~Releasing(u)) => releases = 0

\* Unless calls overlapped, whoever is in write() has the handle and nobody is in
\* release(), and no two are.
ApartInv ==
    ~overlapped =>
        /\ \A u, v \in Users : doing[u] \in {"checked", "inside"} =>
              handle_ = "set" /\ doing[v] # "closing"
        /\ \A u, v \in Users : doing[u] = "closing" /\ doing[v] = "closing" => u = v

\* The destructor runs when all the others have left, and for the first release;
\* all have left when it is over.
DestructorInv ==
    /\ \A u \in Users : doing[u] = "destroying" =>
          releases = 1 /\ \A v \in Users \ {u} : doing[v] = "gone"
    /\ (\A u \in Users : doing[u] = "gone") => releases = 1

FaultInv == fault # "none" => overlapped \/ releases > 1

UsersInv ==
    /\ UsersTypeInv /\ FaultInv /\ DestructorInv
    /\ fault = "none" => CountedInv /\ ApartInv

\* A new SRTPush, whether its open() succeeded or not.
LEMMA InitUsersInv == PushInit => UsersInv
<1> SUFFICES ASSUME PushInit PROVE UsersInv
  OBVIOUS
<1>1. UsersTypeInv
  BY DEF PushInit, UsersTypeInv
<1>2. FaultInv /\ CountedInv /\ ApartInv
  BY DEF PushInit, FaultInv, CountedInv, ApartInv, Releasing
<1>3. DestructorInv
  BY SRTPushAssumption DEF PushInit, DestructorInv
<1> QED
  BY <1>1, <1>2, <1>3 DEF UsersInv

\* write(), which overlaps a release() if there is one.
LEMMA WriteUsersInv ==
  ASSUME UsersInv, fault = "none", NEW u \in Users, Write(u) \/ WriteCall(u) \/ WriteReturn(u)
  PROVE  UsersInv'
<1> USE DEF UsersInv, UsersTypeInv, Goes
<1>1. CASE Write(u)
  <2>1. /\ doing[u] = "idle" /\ UNCHANGED <<handle_, releases, fault>>
        /\ \/ doing' = doing
           \/ handle_ = "set" /\ doing' = [doing EXCEPT ![u] = "checked"]
    BY <1>1 DEF Write
  <2>2. overlapped' = (overlapped \/ OthersIn(u, {"closing"}))
    BY <1>1 DEF Write
  <2>3. ~overlapped' => ~overlapped /\ \A v \in Users : doing[v] # "closing"
    BY <2>1, <2>2 DEF OthersIn, In
  <2>4. overlapped' \in BOOLEAN
    BY <2>2
  <2>5. UsersTypeInv' /\ FaultInv'
    BY <2>1, <2>4 DEF FaultInv
  <2>6. DestructorInv' /\ CountedInv'
    BY <2>1 DEF DestructorInv, CountedInv, Releasing
  <2>7. ApartInv'
    BY <2>1, <2>3 DEF ApartInv
  <2> QED
    BY <2>5, <2>6, <2>7
<1>2. CASE WriteCall(u)
  <2>1. /\ doing[u] = "checked" /\ UNCHANGED <<handle_, releases, overlapped>>
        /\ \/ handle_ = "set" /\ doing' = [doing EXCEPT ![u] = "inside"] /\ fault' = fault
           \/ handle_ = "null" /\ fault' = "null" /\ doing' = doing
    BY <1>2 DEF WriteCall
  <2>2. UsersTypeInv' /\ DestructorInv'
    BY <2>1 DEF DestructorInv
  <2>3. FaultInv'
    BY <2>1 DEF FaultInv, ApartInv
  <2>4. CountedInv' /\ ApartInv'
    BY <2>1 DEF CountedInv, ApartInv, Releasing
  <2> QED
    BY <2>2, <2>3, <2>4
<1>3. CASE WriteReturn(u)
  BY <1>3 DEF WriteReturn, FaultInv, DestructorInv, CountedInv, ApartInv, Releasing
<1> QED
  BY <1>1, <1>2, <1>3

\* release(), by a user or by the destructor: the second one finds no handle.
LEMMA StartReleaseUsersInv ==
  ASSUME UsersInv, fault = "none", NEW u \in Users, NEW place \in {"closing", "destroying"},
         StartRelease(u, place),
         place = "destroying" => \A v \in Users \ {u} : doing[v] = "gone"
  PROVE  UsersInv'
<1> USE DEF UsersInv, UsersTypeInv, Goes
<1>1. /\ doing[u] = "idle" /\ releases' = releases + 1 /\ UNCHANGED handle_
      /\ \/ handle_ = "set" /\ doing' = [doing EXCEPT ![u] = place] /\ fault' = fault
         \/ handle_ = "null" /\ fault' = "null" /\ doing' = doing
  BY DEF StartRelease
<1>2. overlapped' = (overlapped \/ OthersIn(u, {"checked", "inside", "closing"}))
  BY DEF StartRelease
<1>3. ~overlapped' =>
         ~overlapped /\ \A v \in Users : doing[v] \notin {"checked", "inside", "closing"}
  BY <1>1, <1>2 DEF OthersIn, In
<1>4. overlapped' \in BOOLEAN
  BY <1>2
<1>5. UsersTypeInv' /\ FaultInv'
  BY <1>1, <1>4 DEF FaultInv, CountedInv
<1>6. DestructorInv'
  BY <1>1 DEF DestructorInv, CountedInv, Releasing
<1>7. fault' = "none" => CountedInv'
  BY <1>1 DEF CountedInv, Releasing
<1>8. fault' = "none" => ApartInv'
  BY <1>1, <1>3 DEF ApartInv
<1> QED
  BY <1>5, <1>6, <1>7, <1>8

\* Its end, which drops the LibSrt, and a user that leaves.
LEMMA ReleasedUsersInv ==
  ASSUME UsersInv, fault = "none", NEW u \in Users, Released(u) PROVE UsersInv'
<1> USE DEF UsersInv, UsersTypeInv, Goes
<1>1. /\ Releasing(u) /\ handle_' = "null" /\ UNCHANGED <<releases, overlapped>>
      /\ doing' = [doing EXCEPT ![u] = IF doing[u] = "closing" THEN "idle" ELSE "gone"]
      /\ fault' = IF OthersIn(u, {"inside", "closing"}) THEN "freed" ELSE fault
  BY DEF Released, Releasing
<1>2. OthersIn(u, {"inside", "closing"}) =>
         \E v \in Users \ {u} : doing[v] \in {"inside", "closing"}
  BY DEF OthersIn, In
<1>3. ~overlapped => \A v \in Users \ {u} : doing[v] \notin {"checked", "inside", "closing"}
  BY <1>1 DEF ApartInv, DestructorInv, Releasing
<1>4. FaultInv'
  BY <1>1, <1>2, <1>3 DEF FaultInv
<1>5. UsersTypeInv' /\ CountedInv'
  BY <1>1 DEF CountedInv, Releasing
<1>6. ApartInv'
  BY <1>1, <1>3 DEF ApartInv, Releasing
<1>7. DestructorInv'
  BY <1>1 DEF DestructorInv, Releasing
<1> QED
  BY <1>4, <1>5, <1>6, <1>7

\* All the steps.
LEMMA StepUsersInv == UsersInv /\ [PushNext]_pushVars => UsersInv'
<1> SUFFICES ASSUME UsersInv, [PushNext]_pushVars PROVE UsersInv'
  OBVIOUS
<1>1. ASSUME fault = "none", NEW u \in Users,
             Write(u) \/ WriteCall(u) \/ WriteReturn(u) \/ Release(u) \/ Released(u) \/ Leave(u)
      PROVE  UsersInv'
  <2>1. CASE Write(u) \/ WriteCall(u) \/ WriteReturn(u)
    BY <2>1, <1>1, WriteUsersInv
  <2>2. CASE Release(u)
    BY <2>2, <1>1, StartReleaseUsersInv DEF Release
  <2>3. CASE Released(u)
    BY <2>3, <1>1, ReleasedUsersInv
  <2>4. CASE Leave(u) /\ In({"gone"}) = Users \ {u}
    <3>1. \A v \in Users \ {u} : doing[v] = "gone"
      BY <2>4 DEF In
    <3> QED
      BY <2>4, <3>1, <1>1, StartReleaseUsersInv DEF Leave
  <2>5. CASE Leave(u) /\ In({"gone"}) # Users \ {u}
    <3>1. doing[u] = "idle" /\ doing' = [doing EXCEPT ![u] = "gone"]
          /\ UNCHANGED <<handle_, releases, overlapped, fault>>
      BY <2>5 DEF Leave, Goes
    <3>2. \E v \in Users \ {u} : doing[v] # "gone"
      BY <2>5, <3>1 DEF In
    <3> QED
      BY <3>1, <3>2, <1>1
      DEF UsersInv, UsersTypeInv, FaultInv, DestructorInv, CountedInv, ApartInv, Releasing
  <2> QED
    BY <1>1, <2>1, <2>2, <2>3, <2>4, <2>5
<1>2. CASE UNCHANGED pushVars
  BY <1>2 DEF pushVars, UsersInv, UsersTypeInv, FaultInv, DestructorInv, CountedInv, ApartInv,
     Releasing
<1> QED
  BY <1>1, <1>2 DEF PushNext

\* Any number of users: nothing goes wrong unless calls overlapped or release() was
\* called more than once, the destructor's call included.
THEOREM OneRelease == PushSpec => []ReleasedOnce
<1>1. UsersInv => ReleasedOnce
  BY DEF UsersInv, UsersTypeInv, FaultInv, DestructorInv, ReleasedOnce, In
<1> QED
  BY <1>1, InitUsersInv, StepUsersInv, PTL DEF PushSpec

-----------------------------------------------------------------------------
(* CalcSample *)

Sample  == [tick : Nat, size : Nat]
Nothing == [tick |-> 0, size |-> 0]

SamplesTypeInv ==
    /\ index \in 0..(NB_SAMPLE - 1)
    /\ samples \in Seq(Sample) /\ taken \in Seq(Sample)
    /\ sampleSum \in Sample
    /\ lastTick \in Nat /\ hasUpdateTick \in 0..lastTick
    /\ lastTick = 0 => taken = <<>>

\* Until it is full the ring is all there was; from then on what is before index is
\* the end of it, and what is from index on came before that.
RingInv ==
    LET n == Len(taken)
    IN  IF n < NB_SAMPLE
        THEN samples = taken /\ index = n
        ELSE /\ Len(samples) = NB_SAMPLE
             /\ \A i \in 1..NB_SAMPLE :
                   samples[i] = IF i <= index THEN taken[n - index + i]
                                              ELSE taken[n - NB_SAMPLE - index + i]

\* Until the ring is full the sum has all the time that passed, so it has all that
\* passed since the last report.
ElapsedInv ==
    Len(taken) <= NB_SAMPLE => sampleSum.tick >= lastTick - hasUpdateTick

SamplesInv == SamplesTypeInv /\ RingInv /\ ElapsedInv /\ NoTrapInFirstRound

\* An average is zero only of less than what it is shared among.
LEMMA AverageOfEnough ==
  ASSUME NEW a \in Nat, NEW n \in Nat \ {0}, a >= n PROVE a \div n # 0
  OBVIOUS

\* The next place in the ring.
LEMMA NextIndex ==
  ASSUME NEW i \in 0..(NB_SAMPLE - 1)
  PROVE  (i + 1) % NB_SAMPLE = IF i + 1 = NB_SAMPLE THEN 0 ELSE i + 1
  BY CalcSampleAssumption

\* Nothing is sampled yet.
LEMMA InitSamplesInv == Init => SamplesInv
<1> SUFFICES ASSUME Init PROVE SamplesInv
  OBVIOUS
<1>1. samples \in Seq(Sample) /\ taken \in Seq(Sample) /\ Len(taken) = 0
  BY EmptySeq DEF Init
<1>2. sampleSum = [tick |-> 0, size |-> 0]
  BY DEF Init
<1> QED
  BY <1>1, <1>2, CalcSampleAssumption
  DEF Init, SamplesInv, SamplesTypeInv, Sample, RingInv, ElapsedInv, NoTrapInFirstRound

\* A sample goes where the oldest one was, or to the end.
LEMMA UpdateRing ==
  ASSUME SamplesTypeInv, RingInv, NEW s \in Sample, UpdateSample(s)
  PROVE  /\ index' \in 0..(NB_SAMPLE - 1)
         /\ samples' \in Seq(Sample) /\ taken' \in Seq(Sample)
         /\ Len(taken') = Len(taken) + 1
         /\ Len(taken') <= NB_SAMPLE => Len(samples') = Len(taken')
         /\ RingInv'
<1> DEFINE n == Len(taken)
<1>n. NB_SAMPLE \in Nat \ {0}
  BY CalcSampleAssumption
<1>0. n \in Nat /\ Len(samples) \in Nat
  BY LenProperties DEF SamplesTypeInv
<1>1. /\ taken' = Append(taken, s) /\ taken' \in Seq(Sample) /\ Len(taken') = n + 1
      /\ taken'[n + 1] = s /\ \A j \in 1..n : taken'[j] = taken[j]
  BY AppendProperties DEF UpdateSample, SamplesTypeInv
<1>2. index' = IF index + 1 = NB_SAMPLE THEN 0 ELSE index + 1
  BY NextIndex DEF UpdateSample, SamplesTypeInv
<1>3. index' \in 0..(NB_SAMPLE - 1)
  BY <1>2, <1>n DEF SamplesTypeInv
<1>4. CASE n < NB_SAMPLE
  <2>1. samples = taken /\ index = n /\ ~Full
    BY <1>4, <1>0 DEF RingInv, Full
  <2>2. samples' = taken'
    BY <1>1, <2>1 DEF UpdateSample, RingWith
  <2>3. RingInv'
    <3>1. CASE n + 1 < NB_SAMPLE
      BY <3>1, <2>1, <2>2, <1>0, <1>1, <1>2 DEF RingInv
    <3>2. CASE n + 1 = NB_SAMPLE
      BY <3>2, <2>1, <2>2, <1>0, <1>1, <1>2, <1>n DEF RingInv
    <3> QED
      BY <3>1, <3>2, <1>4, <1>0, <1>n
  <2> QED
    BY <2>2, <2>3, <1>1, <1>3
<1>5. CASE n >= NB_SAMPLE
  <2>1. /\ Len(samples) = NB_SAMPLE /\ Full
        /\ \A i \in 1..NB_SAMPLE :
              samples[i] = IF i <= index THEN taken[n - index + i]
                                         ELSE taken[n - NB_SAMPLE - index + i]
    BY <1>5, <1>0, <1>n DEF RingInv, Full
  <2>2. /\ samples' \in Seq(Sample) /\ Len(samples') = NB_SAMPLE
        /\ \A i \in 1..NB_SAMPLE : samples'[i] = IF i = index + 1 THEN s ELSE samples[i]
    <3>1. samples' = [samples EXCEPT ![index + 1] = s]
      BY <2>1 DEF UpdateSample, RingWith
    <3>2. index + 1 \in 1..Len(samples)
      BY <2>1, <1>n DEF SamplesTypeInv
    <3> QED
      BY <3>1, <3>2, <2>1, ExceptSeq DEF SamplesTypeInv
  <2>3. RingInv'
    <3>0. Len(taken') = n + 1 /\ ~(Len(taken') < NB_SAMPLE)
      BY <1>0, <1>1, <1>5, <1>n
    <3>1. ASSUME NEW i \in 1..NB_SAMPLE
          PROVE  samples'[i] = IF i <= index' THEN taken'[Len(taken') - index' + i]
                                              ELSE taken'[Len(taken') - NB_SAMPLE - index' + i]
      <4>0. index \in 0..(NB_SAMPLE - 1)
        BY DEF SamplesTypeInv
      <4>1. CASE i = index + 1
        <5>1. samples'[i] = s /\ taken'[Len(taken')] = s
          BY <4>1, <3>0, <2>2, <1>1
        <5>2. IF i <= index' THEN Len(taken') - index' + i = Len(taken')
                             ELSE Len(taken') - NB_SAMPLE - index' + i = Len(taken')
          BY <4>0, <4>1, <3>0, <1>0, <1>2, <1>n
        <5> QED
          BY <5>1, <5>2
      <4>2. CASE i <= index
        <5>1. samples'[i] = taken[n - index + i] /\ n - index + i \in 1..n
          BY <4>0, <4>2, <2>1, <2>2, <1>0, <1>5, <1>n
        <5>2. samples'[i] = taken'[n - index + i]
          BY <5>1, <1>1
        <5>3. IF i <= index' THEN Len(taken') - index' + i = n - index + i
                             ELSE Len(taken') - NB_SAMPLE - index' + i = n - index + i
          BY <4>0, <4>2, <3>0, <1>0, <1>2, <1>n
        <5> QED
          BY <5>2, <5>3
      <4>3. CASE i > index + 1
        <5>1. samples'[i] = taken[n - NB_SAMPLE - index + i] /\ n - NB_SAMPLE - index + i \in 1..n
          BY <4>0, <4>3, <2>1, <2>2, <1>0, <1>5, <1>n
        <5>2. samples'[i] = taken'[n - NB_SAMPLE - index + i]
          BY <5>1, <1>1
        <5>3. index' = index + 1
          BY <4>0, <4>3, <1>2, <1>n
        <5> QED
          BY <5>2, <5>3, <4>0, <4>3, <3>0, <1>0, <1>n
      <4> QED
        BY <4>0, <4>1, <4>2, <4>3
    <3> QED
      BY <3>0, <3>1, <2>2 DEF RingInv
  <2> QED
    BY <2>2, <2>3, <1>0, <1>1, <1>3, <1>5, <1>n
<1> QED
  BY <1>0, <1>4, <1>5, <1>n

\* A report in the first round shares at least NB_SAMPLE ticks among no more samples.
LEMMA UpdateSamplesInv ==
  ASSUME SamplesInv, ~trapped, NEW tick \in Nat, tick >= lastTick, NEW size \in Nat,
         Update(tick, size)
  PROVE  SamplesInv'
<1> DEFINE s == [tick |-> tick - lastTick, size |-> size]
<1>n. NB_SAMPLE \in Nat \ {0} /\ TIME_INTERVAL \in Nat /\ TIME_INTERVAL >= NB_SAMPLE
  BY CalcSampleAssumption
<1>t. SamplesTypeInv /\ RingInv /\ ElapsedInv
  BY DEF SamplesInv
<1>s. s \in Sample /\ UpdateSample(s) /\ lastTick' = tick /\ lastTick # 0
  BY <1>t DEF Update, SamplesTypeInv, Sample
<1>1. /\ index' \in 0..(NB_SAMPLE - 1)
      /\ samples' \in Seq(Sample) /\ taken' \in Seq(Sample)
      /\ Len(taken') = Len(taken) + 1
      /\ Len(taken') <= NB_SAMPLE => Len(samples') = Len(taken')
      /\ RingInv'
  BY <1>t, <1>s, UpdateRing
<1>0. Len(taken) \in Nat /\ Len(samples) \in Nat /\ Len(samples') \in Nat
  BY <1>1, <1>t, LenProperties DEF SamplesTypeInv
<1>2. /\ sampleSum' \in Sample
      /\ Len(taken') <= NB_SAMPLE => sampleSum'.tick = sampleSum.tick + (tick - lastTick)
  <2>1. sampleSum' = SumOf(s)
    BY <1>s DEF UpdateSample
  <2>2. Len(taken') <= NB_SAMPLE => ~Full
    BY <1>0, <1>1, <1>t DEF Full, RingInv
  <2> QED
    BY <2>1, <2>2, <1>s, <1>t DEF SumOf, Plus, Minus, Sample, SamplesTypeInv
<1>3. /\ hasUpdateTick' = IF tick - hasUpdateTick >= TIME_INTERVAL THEN tick ELSE hasUpdateTick
      /\ tick - hasUpdateTick < TIME_INTERVAL => trapped' = trapped
  BY <1>n, <1>t DEF Update, SamplesTypeInv
<1>7. /\ lastTick \in Nat /\ hasUpdateTick \in Nat /\ sampleSum.tick \in Int
      /\ Len(taken) <= NB_SAMPLE => sampleSum.tick >= lastTick - hasUpdateTick
  BY <1>t DEF SamplesTypeInv, Sample, ElapsedInv
<1>8. Len(taken') <= NB_SAMPLE => sampleSum'.tick >= tick - hasUpdateTick
  BY <1>0, <1>1, <1>2, <1>7, <1>n
<1>4. SamplesTypeInv'
  BY <1>s, <1>t, <1>1, <1>2, <1>3 DEF SamplesTypeInv
<1>5. ElapsedInv'
  <2> SUFFICES ASSUME Len(taken') <= NB_SAMPLE PROVE sampleSum'.tick >= lastTick' - hasUpdateTick'
    BY DEF ElapsedInv
  <2>1. sampleSum'.tick \in Nat /\ sampleSum'.tick >= tick - hasUpdateTick
    BY <1>2, <1>8 DEF Sample
  <2>2. hasUpdateTick' = tick \/ hasUpdateTick' = hasUpdateTick
    BY <1>3
  <2> QED
    BY <2>1, <2>2, <1>s, <1>7
<1>6. NoTrapInFirstRound'
  <2> SUFFICES ASSUME trapped', Len(taken') <= NB_SAMPLE PROVE FALSE
    BY <1>0, <1>1, <1>n DEF NoTrapInFirstRound
  <2>1. tick - hasUpdateTick >= TIME_INTERVAL
    <3>1. ~(tick - hasUpdateTick < TIME_INTERVAL)
      BY <1>3, Zenon
    <3> QED
      BY <3>1, <1>7, <1>n
  <2>2. sampleSum'.tick \div Len(samples') = 0
    <3>1. Report(Average(sampleSum', Len(samples')))
      BY <2>1 DEF Update
    <3>2. Average(sampleSum', Len(samples')).tick = 0
      BY <3>1 DEF Report
    <3> QED
      BY <3>2 DEF Average
  <2>3. sampleSum'.tick >= TIME_INTERVAL /\ sampleSum'.tick \in Nat
    <3>1. sampleSum'.tick \in Nat
      BY <1>2 DEF Sample
    <3> QED
      BY <3>1, <2>1, <1>8, <1>7, <1>n
  <2>4. Len(samples') \in Nat \ {0} /\ Len(samples') <= NB_SAMPLE
    BY <1>0, <1>1
  <2> QED
    BY <2>2, <2>3, <2>4, <1>n, AverageOfEnough
<1> QED
  BY <1>1, <1>4, <1>5, <1>6 DEF SamplesInv

\* All the steps.
LEMMA StepSamplesInv == SamplesInv /\ [Next]_vars => SamplesInv'
<1> SUFFICES ASSUME SamplesInv, [Next]_vars PROVE SamplesInv'
  OBVIOUS
<1> USE DEF SamplesInv, SamplesTypeInv, RingInv, ElapsedInv, NoTrapInFirstRound
<1>1. ASSUME NEW tick \in Nat, tick > 0, FirstUpdate(tick) PROVE SamplesInv'
  <2>1. /\ taken = <<>> /\ lastTick' = tick /\ hasUpdateTick' = tick
        /\ UNCHANGED <<index, samples, sampleSum, trapped, taken>>
    BY <1>1 DEF FirstUpdate
  <2> QED
    BY <2>1, <1>1 DEF Sample
<1>2. ASSUME NEW tick \in Nat, tick >= lastTick, NEW size \in Nat, Update(tick, size), ~trapped
      PROVE  SamplesInv'
  BY <1>2, UpdateSamplesInv
<1>3. CASE Next
  BY <1>1, <1>2, <1>3, CalcSampleAssumption DEF Next, Ticks
<1>4. CASE UNCHANGED vars
  BY <1>4 DEF vars
<1> QED
  BY <1>3, <1>4

\* ... and with them every behaviour.
LEMMA SamplesInvariance == Spec => []SamplesInv
  BY InitSamplesInv, StepSamplesInv, PTL DEF Spec

-----------------------------------------------------------------------------
(* The sum of the samples *)

\* The total is reached sample by sample.
SumStep(seq) == [p \in Sample \X (1..Len(seq)) |-> Plus(p[1], seq[p[2]])]

\* It is the fold of these steps,
LEMMA TotalIsFold ==
  ASSUME NEW seq \in Seq(Sample)
  PROVE  IsFold(Total(seq), Len(seq), Sample, Nothing, SumStep(seq))
<1> DEFINE n == Len(seq)
           step == SumStep(seq)
           sum == CHOOSE f : f = [S \in SUBSET (1..n) |->
                      IF S = {} THEN Nothing ELSE Plus(f[S \ {Max(S)}], seq[Max(S)])]
<1>1. n \in Nat /\ DOMAIN seq = 1..n /\ \A i \in 1..n : seq[i] \in Sample
  BY LenProperties, ElementOfSeq
<1>2. Nothing \in Sample /\ \A s, t \in Sample : Plus(s, t) \in Sample
  BY DEF Nothing, Plus, Sample
<1>3. step \in [Sample \X (1..n) -> Sample]
  BY <1>1, <1>2 DEF SumStep
<1>4. ASSUME NEW S \in SUBSET (1..n), S # {}, NEW v \in Sample
      PROVE  step[<<v, Max(S)>>] = Plus(v, seq[Max(S)])
  BY <1>1, <1>4, MaxOfIndices DEF SumStep
<1>5. PICK f \in [SUBSET (1..n) -> Sample] : Steps(f, n, Nothing, step)
  BY <1>1, <1>2, <1>3, FoldExists DEF Solvable
<1>6. f = [S \in SUBSET (1..n) |->
              IF S = {} THEN Nothing ELSE Plus(f[S \ {Max(S)}], seq[Max(S)])]
  BY <1>4, <1>5 DEF Steps
<1>7. sum = [S \in SUBSET (1..n) |->
              IF S = {} THEN Nothing ELSE Plus(sum[S \ {Max(S)}], seq[Max(S)])]
  BY <1>6
<1>8. Total(seq) = sum[1..n]
  BY <1>1 DEF Total, FoldLeft, MapThenFoldSet, Nothing
<1> HIDE DEF sum, step, n
<1>9. sum[{}] = Nothing
  BY <1>7
<1>10. ASSUME NEW S \in SUBSET (1..n), S # {}, sum[S \ {Max(S)}] \in Sample
       PROVE  sum[S] = step[<<sum[S \ {Max(S)}], Max(S)>>]
  BY <1>4, <1>7, <1>10
<1>11. IsFold(sum[1..n], n, Sample, Nothing, step)
  BY <1>1, <1>2, <1>3, <1>9, <1>10, FoldByStep
<1> QED
  BY <1>8, <1>11 DEF n, step

\* The total of no samples, and that of one more.
LEMMA TotalOfNone == Total(<<>>) = Nothing
<1>1. <<>> \in Seq(Sample) /\ Len(<<>>) = 0
  BY EmptySeq
<1> QED
  BY <1>1, TotalIsFold, FoldOfNone

\* so one more sample is one more summand.
LEMMA TotalOfOneMore ==
  ASSUME NEW seq \in Seq(Sample), NEW s \in Sample
  PROVE  Total(Append(seq, s)) = Plus(Total(seq), s)
<1> DEFINE n == Len(seq)
           more == Append(seq, s)
<1>1. n \in Nat /\ more \in Seq(Sample) /\ Len(more) = n + 1
  BY LenProperties, AppendProperties
<1>2. more[n + 1] = s /\ \A k \in 1..n : more[k] = seq[k]
  BY AppendProperties
<1>3. IsFold(Total(seq), n, Sample, Nothing, SumStep(seq))
  BY TotalIsFold
<1>4. IsFold(Total(more), n + 1, Sample, Nothing, SumStep(more))
  BY <1>1, TotalIsFold
<1> HIDE DEF more
<1>5. \A t \in Sample, k \in 1..n : SumStep(more)[<<t, k>>] = SumStep(seq)[<<t, k>>]
  BY <1>1, <1>2 DEF SumStep
<1>6. Total(seq) \in Sample /\ Total(more) = SumStep(more)[<<Total(seq), n + 1>>]
  <2> HIDE DEF n
  <2> QED
    BY <1>1, <1>3, <1>4, <1>5, FoldOfOneMore
<1>7. SumStep(more)[<<Total(seq), n + 1>>] = Plus(Total(seq), s)
  BY <1>1, <1>2, <1>6 DEF SumStep
<1> QED
  BY <1>6, <1>7 DEF more

\* The sum takes in every sample of the first round, and from then on gives back what
\* it takes.
LEMMA StepSum ==
  SamplesInv /\ SumOfFirstRound /\ [Next]_vars => SumOfFirstRound'
<1> SUFFICES ASSUME SamplesInv, SumOfFirstRound, [Next]_vars PROVE SumOfFirstRound'
  OBVIOUS
<1>t. SamplesTypeInv /\ RingInv /\ NB_SAMPLE \in Nat \ {0}
  BY CalcSampleAssumption DEF SamplesInv
<1>0. Len(taken) \in Nat /\ taken \in Seq(Sample)
  BY <1>t, LenProperties DEF SamplesTypeInv
<1>1. ASSUME NEW tick \in Nat, tick >= lastTick, NEW size \in Nat, Update(tick, size)
      PROVE  SumOfFirstRound'
  <2> DEFINE s == [tick |-> tick - lastTick, size |-> size]
  <2>1. s \in Sample /\ UpdateSample(s)
    BY <1>1, <1>t DEF Update, SamplesTypeInv, Sample
  <2> HIDE DEF s
  <2>2. taken' = Append(taken, s) /\ sampleSum' = SumOf(s)
    BY <2>1 DEF UpdateSample
  <2>3. /\ taken' \in Seq(Sample) /\ Len(taken') = Len(taken) + 1
        /\ \A k \in 1..Len(taken) : taken'[k] = taken[k]
    BY <2>1, <2>2, <1>0, AppendProperties
  <2>4. CASE Len(taken) < NB_SAMPLE
    <3>1. ~Full
      BY <2>4, <1>0, <1>t DEF RingInv, Full
    <3>2. sampleSum' = Plus(Total(taken), s)
      BY <2>2, <2>4, <3>1, <1>0, <1>t DEF SumOf, SumOfFirstRound
    <3>3. sampleSum' = Total(taken')
      BY <3>2, <2>1, <2>2, <1>0, TotalOfOneMore
    <3> QED
      BY <3>3, <2>3, <2>4, <1>0, <1>t DEF SumOfFirstRound
  <2>5. CASE Len(taken) >= NB_SAMPLE
    <3>1. Full /\ sampleSum \in Sample
      BY <2>5, <1>0, <1>t DEF RingInv, Full, SamplesTypeInv
    <3>2. sampleSum' = sampleSum
      BY <3>1, <2>1, <2>2 DEF SumOf, Plus, Minus, Sample
    <3>3. /\ SubSeq(taken', 1, NB_SAMPLE) \in Seq(Sample)
          /\ Len(SubSeq(taken', 1, NB_SAMPLE)) = NB_SAMPLE
          /\ \A k \in 1..NB_SAMPLE : SubSeq(taken', 1, NB_SAMPLE)[k] = taken[k]
      <4>1. \A k \in 1..NB_SAMPLE : taken'[k] \in Sample /\ taken'[k] = taken[k]
        BY <2>3, <2>5, <1>0, <1>t, ElementOfSeq
      <4> QED
        BY <4>1, <1>t, SubSeqProperties
    <3>6. ~(Len(taken') <= NB_SAMPLE)
      BY <2>3, <2>5, <1>0, <1>t
    <3>4. CASE Len(taken) = NB_SAMPLE
      <4>1. SubSeq(taken', 1, NB_SAMPLE) = taken
        BY <3>3, <3>4, <1>0, SeqEqual
      <4>2. sampleSum = Total(taken)
        BY <3>4, <1>0, <1>t DEF SumOfFirstRound
      <4>3. sampleSum' = Total(SubSeq(taken', 1, NB_SAMPLE))
        BY <4>1, <4>2, <3>2
      <4> QED
        BY <4>3, <3>6 DEF SumOfFirstRound
    <3>5. CASE Len(taken) > NB_SAMPLE
      <4>1. /\ SubSeq(taken, 1, NB_SAMPLE) \in Seq(Sample)
            /\ Len(SubSeq(taken, 1, NB_SAMPLE)) = NB_SAMPLE
            /\ \A k \in 1..NB_SAMPLE : SubSeq(taken, 1, NB_SAMPLE)[k] = taken[k]
        <5>1. \A k \in 1..NB_SAMPLE : taken[k] \in Sample
          BY <3>5, <1>0, <1>t, ElementOfSeq
        <5> QED
          BY <5>1, <1>t, SubSeqProperties
      <4>2. SubSeq(taken', 1, NB_SAMPLE) = SubSeq(taken, 1, NB_SAMPLE)
        BY <4>1, <3>3, SeqEqual
      <4>3. sampleSum = Total(SubSeq(taken, 1, NB_SAMPLE))
        BY <3>5, <1>0, <1>t DEF SumOfFirstRound
      <4>4. sampleSum' = Total(SubSeq(taken', 1, NB_SAMPLE))
        BY <4>2, <4>3, <3>2
      <4> QED
        BY <4>4, <3>6 DEF SumOfFirstRound
    <3> QED
      BY <3>4, <3>5, <2>5, <1>0, <1>t
  <2> QED
    BY <2>4, <2>5, <1>0, <1>t
<1>2. ASSUME UNCHANGED <<taken, sampleSum>> PROVE SumOfFirstRound'
  BY <1>2 DEF SumOfFirstRound
<1>3. CASE Next
  BY <1>1, <1>2, <1>3, CalcSampleAssumption DEF Next, Ticks, FirstUpdate
<1>4. CASE UNCHANGED vars
  BY <1>2, <1>4 DEF vars
<1> QED
  BY <1>3, <1>4

\* The sum stays that of the first round throughout a run.
LEMMA SumInvariance == Spec => []SumOfFirstRound
<1>1. Init => SumOfFirstRound
  <2> SUFFICES ASSUME Init PROVE SumOfFirstRound
    OBVIOUS
  <2>1. sampleSum = Nothing /\ taken = <<>> /\ Len(taken) <= NB_SAMPLE
    BY CalcSampleAssumption, EmptySeq DEF Init, Nothing
  <2> QED
    BY <2>1, TotalOfNone DEF SumOfFirstRound
<1> QED
  BY <1>1, StepSum, SamplesInvariance, PTL DEF Spec

-----------------------------------------------------------------------------
(* What follows *)

\* Whatever the samples, Bitrate's division by the average does not trap before the
\* ring has wrapped.
THEOREM FirstRoundSafe == Spec => []NoTrapInFirstRound
<1>1. SamplesInv => NoTrapInFirstRound
  BY DEF SamplesInv
<1> QED
  BY <1>1, SamplesInvariance, PTL

\* The ring holds the latest NB_SAMPLE samples, oldest at index, and the sum is that of
\* the first NB_SAMPLE, for any NB_SAMPLE and however many samples there were.
THEOREM RingTurnsSumStays == Spec => []RingAndSum
<1>1. SamplesInv => RingHoldsLatest
  <2> SUFFICES ASSUME SamplesInv PROVE RingHoldsLatest
    OBVIOUS
  <2> DEFINE L == Len(taken)
             n == Len(samples)
             latest == SubSeq(taken, L - n + 1, L)
  <2>t. SamplesTypeInv /\ RingInv /\ NB_SAMPLE \in Nat \ {0}
    BY CalcSampleAssumption DEF SamplesInv
  <2>0. L \in Nat /\ n \in Nat
    BY <2>t, LenProperties DEF SamplesTypeInv
  <2>1. CASE L < NB_SAMPLE
    <3>1. samples = taken /\ n = L
      BY <2>1, <2>t DEF RingInv
    <3>2. SubSeq(taken, 1, L) = taken
      BY <2>t, SubSeqFull DEF SamplesTypeInv
    <3> QED
      BY <3>1, <3>2, <2>0, <2>1 DEF RingHoldsLatest
  <2>2. CASE L >= NB_SAMPLE
    <3>1. /\ n = NB_SAMPLE
          /\ \A i \in 1..n : samples[i] = IF i <= index THEN taken[L - index + i]
                                                         ELSE taken[L - n - index + i]
      BY <2>2, <2>0, <2>t DEF RingInv
    <3>x. index \in 0..(n - 1) /\ n <= L
      BY <2>2, <3>1, <2>t DEF SamplesTypeInv
    <3>e. /\ \A i \in 1..n : samples[i] \in Sample
          /\ \A i \in 1..L : taken[i] \in Sample
      BY <2>t, ElementOfSeq DEF SamplesTypeInv
    <3> DEFINE front == SubSeq(samples, index + 1, n)
               back  == SubSeq(samples, 1, index)
    <3>2. /\ latest \in Seq(Sample) /\ Len(latest) = n
          /\ \A j \in 1..n : latest[j] = taken[L - n + j]
      BY <3>x, <3>e, <2>0, SubSeqProperties
    <3>3. /\ front \in Seq(Sample) /\ Len(front) = n - index
          /\ \A j \in 1..(n - index) : front[j] = samples[index + j]
      BY <3>x, <3>e, <2>0, SubSeqProperties
    <3>4. /\ back \in Seq(Sample) /\ Len(back) = index
          /\ \A j \in 1..index : back[j] = samples[j]
      BY <3>x, <3>e, <2>0, SubSeqProperties
    <3>5. /\ front \o back \in Seq(Sample) /\ Len(front \o back) = n
          /\ \A j \in 1..n : (front \o back)[j] =
                IF j <= n - index THEN front[j] ELSE back[j - (n - index)]
      BY <3>3, <3>4, <3>x, <2>0, ConcatProperties
    <3>6. \A j \in 1..n : (front \o back)[j] = latest[j]
      <4> SUFFICES ASSUME NEW j \in 1..n PROVE (front \o back)[j] = latest[j]
        OBVIOUS
      <4>1. CASE j <= n - index
        <5>1. (front \o back)[j] = samples[index + j] /\ index + j \in 1..n /\ index + j > index
          <6>1. j \in 1..(n - index) /\ index + j \in 1..n /\ index + j > index
            BY <4>1, <3>x, <2>0
          <6>2. (front \o back)[j] = front[j]
            BY <4>1, <3>5
          <6> QED
            BY <6>1, <6>2, <3>3
        <5>2. L - n - index + (index + j) = L - n + j
          BY <3>x, <2>0
        <5>3. samples[index + j] = taken[L - n - index + (index + j)]
          BY <5>1, <3>1, <3>x, <2>0
        <5>4. latest[j] = taken[L - n + j]
          BY <3>2
        <5> QED
          BY <5>1, <5>2, <5>3, <5>4
      <4>2. CASE j > n - index
        <5>1. /\ (front \o back)[j] = samples[j - (n - index)]
              /\ j - (n - index) \in 1..index /\ j - (n - index) \in 1..n
          <6>1. j - (n - index) \in 1..index /\ j - (n - index) \in 1..n
            BY <4>2, <3>x, <2>0
          <6>2. (front \o back)[j] = back[j - (n - index)]
            BY <4>2, <3>5, <3>x, <2>0
          <6> QED
            BY <6>1, <6>2, <3>4
        <5>2. L - index + (j - (n - index)) = L - n + j
          BY <3>x, <2>0
        <5>3. samples[j - (n - index)] = taken[L - index + (j - (n - index))]
          BY <5>1, <3>1, <3>x, <2>0
        <5>4. latest[j] = taken[L - n + j]
          BY <3>2
        <5> QED
          BY <5>1, <5>2, <5>3, <5>4
      <4> QED
        BY <4>1, <4>2, <3>x, <2>0
    <3>7. latest = front \o back
      BY <3>2, <3>5, <3>6, SeqEqual
    <3> QED
      <4>1. Len(samples) = NB_SAMPLE /\ ~(Len(taken) < NB_SAMPLE) /\ ~(Len(samples) < NB_SAMPLE)
        BY <3>1, <2>2, <2>0, <2>t
      <4>2. SubSeq(taken, Len(taken) - Len(samples) + 1, Len(taken))
              = SubSeq(samples, index + 1, Len(samples)) \o SubSeq(samples, 1, index)
        BY <3>7
      <4> QED
        BY <4>1, <4>2 DEF RingHoldsLatest
  <2> QED
    BY <2>1, <2>2, <2>0, <2>t
<1> QED
  BY <1>1, SamplesInvariance, SumInvariance, PTL DEF RingAndSum

-----------------------------------------------------------------------------
(* AACParse *)

\* The first k bytes made into a number.
FirstBytes(k) == {x \in Nat : \E i \in 0..(k - 1) : \E b \in pData[i] : x = 8 * (k - 1 - i) + b}

AdtsStep == [p \in (SUBSET Nat) \X (1..7) |-> ShiftLeft(p[1], 8) \cup pData[p[2] - 1]]

BytesInv == pData \in [Bytes -> SUBSET Bits]

\* The number is built byte by byte.
LEMMA AdtsIsFold ==
  ASSUME BytesInv PROVE IsFold(Adts, 7, SUBSET Nat, {}, AdtsStep)
<1> DEFINE num == CHOOSE f : f = [S \in SUBSET (1..7) |->
                     IF S = {} THEN {} ELSE ShiftLeft(f[S \ {Max(S)}], 8)
                                              \cup pData[[i \in 1..7 |-> i - 1][Max(S)]]]
<1>1. ASSUME NEW v \in SUBSET Nat PROVE ShiftLeft(v, 8) \in SUBSET Nat
  BY DEF ShiftLeft
<1>2. AdtsStep \in [(SUBSET Nat) \X (1..7) -> SUBSET Nat]
  <2>1. \A k \in 1..7 : pData[k - 1] \in SUBSET Nat
    BY DEF BytesInv, Bytes, Bits
  <2> QED
    BY <1>1, <2>1 DEF AdtsStep
<1>3. ASSUME NEW S \in SUBSET (1..7), S # {}, NEW v \in SUBSET Nat
      PROVE  AdtsStep[<<v, Max(S)>>] = ShiftLeft(v, 8) \cup pData[[i \in 1..7 |-> i - 1][Max(S)]]
  <2>1. Max(S) \in 1..7
    BY <1>3, MaxOfIndices
  <2> QED
    BY <2>1 DEF AdtsStep
<1>4. PICK f \in [SUBSET (1..7) -> SUBSET Nat] : Steps(f, 7, {}, AdtsStep)
  BY <1>2, FoldExists DEF Solvable
<1>5. f = [S \in SUBSET (1..7) |->
              IF S = {} THEN {} ELSE ShiftLeft(f[S \ {Max(S)}], 8)
                                       \cup pData[[i \in 1..7 |-> i - 1][Max(S)]]]
  <2>1. ASSUME NEW S \in SUBSET (1..7), S # {}
        PROVE  f[S] = ShiftLeft(f[S \ {Max(S)}], 8) \cup pData[[i \in 1..7 |-> i - 1][Max(S)]]
    <3>1. S \ {Max(S)} \in SUBSET (1..7)
      OBVIOUS
    <3>2. f[S \ {Max(S)}] \in SUBSET Nat
      BY <3>1
    <3>3. f[S] = AdtsStep[<<f[S \ {Max(S)}], Max(S)>>]
      BY <1>4, <2>1 DEF Steps
    <3> QED
      BY <3>2, <3>3, <2>1, <1>3
  <2>2. f[{}] = {}
    BY <1>4 DEF Steps
  <2> QED
    BY <2>1, <2>2
<1>6. num = [S \in SUBSET (1..7) |->
              IF S = {} THEN {} ELSE ShiftLeft(num[S \ {Max(S)}], 8)
                                       \cup pData[[i \in 1..7 |-> i - 1][Max(S)]]]
  BY <1>5
<1>7. Adts = num[1..7]
  <2>1. DOMAIN [i \in 1..7 |-> i - 1] = 1..7
    OBVIOUS
  <2> QED
    BY <2>1 DEF Adts, FoldLeft, MapThenFoldSet
<1> HIDE DEF num
<1>8. num[{}] = {}
  BY <1>6
<1>9. ASSUME NEW S \in SUBSET (1..7), S # {}, num[S \ {Max(S)}] \in SUBSET Nat
      PROVE  num[S] = AdtsStep[<<num[S \ {Max(S)}], Max(S)>>]
  BY <1>3, <1>6, <1>9
<1> QED
  BY <1>2, <1>7, <1>8, <1>9, FoldByStep

\* A byte more moves what there is by eight.
LEMMA OneByteMore ==
  ASSUME BytesInv, NEW k \in 0..6
  PROVE  ShiftLeft(FirstBytes(k), 8) \cup pData[k] = FirstBytes(k + 1)
<1>1. ASSUME NEW i \in 0..6, NEW b \in pData[i] PROVE b \in 0..7
  BY DEF BytesInv, Bytes, Bits
<1>2. ASSUME NEW x \in ShiftLeft(FirstBytes(k), 8) PROVE x \in FirstBytes(k + 1)
  <2>3. PICK y \in FirstBytes(k) : x = y + 8
    BY DEF ShiftLeft
  <2>4. PICK i \in 0..(k - 1) : \E b \in pData[i] : y = 8 * (k - 1 - i) + b
    BY DEF FirstBytes
  <2>1. PICK b \in pData[i] : x = 8 * (k - 1 - i) + b + 8
    BY <2>3, <2>4
  <2>2. i \in 0..6 /\ b \in 0..7
    BY <1>1, <2>1
  <2>5. i \in 0..((k + 1) - 1) /\ x = 8 * ((k + 1) - 1 - i) + b /\ x \in Nat
    BY <2>1, <2>2
  <2> QED
    BY <2>5 DEF FirstBytes
<1>3. ASSUME NEW x \in pData[k] PROVE x \in FirstBytes(k + 1)
  <2>1. x \in Nat /\ k \in 0..((k + 1) - 1) /\ x = 8 * ((k + 1) - 1 - k) + x
    BY <1>1
  <2> QED
    BY <2>1 DEF FirstBytes
<1>4. ASSUME NEW x \in FirstBytes(k + 1) PROVE x \in ShiftLeft(FirstBytes(k), 8) \cup pData[k]
  <2>1. PICK i \in 0..k : \E b \in pData[i] : x = 8 * (k - i) + b
    BY DEF FirstBytes
  <2>2. PICK b \in pData[i] : x = 8 * (k - i) + b
    BY <2>1
  <2>3. i \in 0..6 /\ b \in 0..7
    BY <1>1
  <2>4. CASE i = k
    BY <2>2, <2>3, <2>4
  <2>5. CASE i < k
    <3> DEFINE y == 8 * (k - 1 - i) + b
    <3>1. y \in Nat /\ i \in 0..(k - 1) /\ x = y + 8
      BY <2>2, <2>3, <2>5
    <3>2. y \in FirstBytes(k)
      BY <3>1 DEF FirstBytes
    <3> QED
      BY <3>1, <3>2 DEF ShiftLeft
  <2> QED
    BY <2>4, <2>5
<1> QED
  BY <1>2, <1>3, <1>4

\* So both functions build the number whose bits are those of the bytes.
LEMMA AdtsIsTheBytes == ASSUME BytesInv PROVE Adts = FirstBytes(7)
<1>1. PICK g : Chain(g, 7, SUBSET Nat, {}, AdtsStep) /\ Adts = g[7]
  BY AdtsIsFold DEF IsFold
<1> DEFINE D == {k \in Nat : k <= 7 => g[k] = FirstBytes(k)}
<1>2. 0 \in D
  BY <1>1 DEF Chain, FirstBytes
<1>3. ASSUME NEW k \in Nat, k \in D PROVE k + 1 \in D
  <2> SUFFICES ASSUME k + 1 <= 7 PROVE g[k + 1] = FirstBytes(k + 1)
    OBVIOUS
  <2>1. k \in 0..6 /\ k + 1 \in 1..7 /\ g[k] = FirstBytes(k) /\ (k + 1) - 1 = k
    BY <1>3
  <2>2. FirstBytes(k) \in SUBSET Nat
    BY DEF FirstBytes
  <2>3. g[k + 1] = AdtsStep[<<g[k], k + 1>>]
    BY <1>1, <2>1 DEF Chain
  <2>4. g[k + 1] = ShiftLeft(FirstBytes(k), 8) \cup pData[k]
    BY <2>1, <2>2, <2>3 DEF AdtsStep
  <2> QED
    BY <2>1, <2>4, OneByteMore
<1>4. 7 \in D
  <2> HIDE DEF D
  <2> QED
    BY <1>2, <1>3, Induction
<1> QED
  BY <1>1, <1>4

\* The places where the fields start, and the end of the last.
Places == <<0, 12, 13, 15, 16, 18, 22, 23, 26, 27, 28, 29, 30, 43, 54, 56>>

\* Every field ends where the next one starts, and is shifted by what comes after it;
\* none is masked to less than its member.
LEMMA FieldsFit ==
  /\ Len(AdtsHeader) = 15
  /\ \A k \in 1..15 :
        /\ AdtsHeader[k].member \in Nat \ {0}
        /\ AdtsHeader[k].mask >= AdtsHeader[k].member /\ AdtsHeader[k].mask \in Nat
        /\ Places[k] \in Nat /\ Places[k + 1] = Places[k] + AdtsHeader[k].member
        /\ AdtsHeader[k].shift = 56 - Places[k + 1]
<1>1. Len(AdtsFixedHeader) = 10 /\ Len(AdtsVariableHeader) = 5
  BY DEF AdtsFixedHeader, AdtsVariableHeader
<1> DEFINE Fields == {AdtsFixedHeader[k] : k \in 1..10} \cup {AdtsVariableHeader[k] : k \in 1..5}
<1>2. AdtsFixedHeader \in Seq(Fields) /\ AdtsVariableHeader \in Seq(Fields)
  <2>1. /\ AdtsFixedHeader = [k \in 1..10 |-> AdtsFixedHeader[k]]
        /\ AdtsVariableHeader = [k \in 1..5 |-> AdtsVariableHeader[k]]
    BY DEF AdtsFixedHeader, AdtsVariableHeader
  <2>2. AdtsFixedHeader \in [1..10 -> Fields] /\ AdtsVariableHeader \in [1..5 -> Fields]
    BY <2>1
  <2> HIDE DEF Fields
  <2>3. \A m \in Nat : \A s \in [1..m -> Fields] : s \in Seq(Fields)
    BY SeqDef
  <2>4. 10 \in Nat /\ 5 \in Nat
    OBVIOUS
  <2> QED
    BY <2>2, <2>3, <2>4
<1> HIDE DEF Fields
<1>9. /\ Len(AdtsHeader) = Len(AdtsFixedHeader) + Len(AdtsVariableHeader)
      /\ \A i \in 1..(Len(AdtsFixedHeader) + Len(AdtsVariableHeader)) :
            AdtsHeader[i] = IF i <= Len(AdtsFixedHeader) THEN AdtsFixedHeader[i]
                            ELSE AdtsVariableHeader[i - Len(AdtsFixedHeader)]
  BY <1>2, ConcatProperties DEF AdtsHeader
<1>3. Len(AdtsHeader) = 15
  BY <1>1, <1>9
<1>4. \A k \in 1..10 : AdtsHeader[k] = AdtsFixedHeader[k]
  BY <1>1, <1>9
<1>5. \A k \in 1..5 : AdtsHeader[k + 10] = AdtsVariableHeader[k]
  BY <1>1, <1>9
<1>6. ASSUME NEW k \in 1..10
      PROVE  /\ AdtsHeader[k].member \in Nat \ {0}
             /\ AdtsHeader[k].mask >= AdtsHeader[k].member /\ AdtsHeader[k].mask \in Nat
             /\ Places[k] \in Nat /\ Places[k + 1] = Places[k] + AdtsHeader[k].member
             /\ AdtsHeader[k].shift = 56 - Places[k + 1]
  BY <1>4 DEF AdtsFixedHeader, Field, Places
<1>7. ASSUME NEW j \in 1..5
      PROVE  /\ AdtsHeader[j + 10].member \in Nat \ {0}
             /\ AdtsHeader[j + 10].mask >= AdtsHeader[j + 10].member /\ AdtsHeader[j + 10].mask \in Nat
             /\ Places[j + 10] \in Nat /\ Places[j + 10 + 1] = Places[j + 10] + AdtsHeader[j + 10].member
             /\ AdtsHeader[j + 10].shift = 56 - Places[j + 10 + 1]
  BY <1>5 DEF AdtsVariableHeader, Field, Places
<1>8. ASSUME NEW k \in 11..15
      PROVE  /\ AdtsHeader[k].member \in Nat \ {0}
             /\ AdtsHeader[k].mask >= AdtsHeader[k].member /\ AdtsHeader[k].mask \in Nat
             /\ Places[k] \in Nat /\ Places[k + 1] = Places[k] + AdtsHeader[k].member
             /\ AdtsHeader[k].shift = 56 - Places[k + 1]
  <2>1. k - 10 \in 1..5 /\ (k - 10) + 10 = k
    OBVIOUS
  <2> QED
    BY <2>1, <1>7
<1> QED
  BY <1>3, <1>6, <1>8

MemberStep(n) == [p \in Nat \X (1..n) |-> p[1] + AdtsHeader[p[2]].member]

\* StartOf counts the members before a field, so it is where the table says.
LEMMA StartIsFold ==
  ASSUME NEW n \in 0..15 PROVE IsFold(StartOf(n + 1), n, Nat, 0, MemberStep(n))
<1> DEFINE seq == SubSeq(AdtsHeader, 1, (n + 1) - 1)
           sum == CHOOSE f : f = [S \in SUBSET (1..n) |->
                     IF S = {} THEN 0 ELSE f[S \ {Max(S)}] + seq[Max(S)].member]
<1>0. n \in Nat /\ (n + 1) - 1 = n
  OBVIOUS
<1>1. DOMAIN seq = 1..n /\ \A k \in 1..n : seq[k] = AdtsHeader[k]
  BY <1>0, FieldsFit
<1>2. MemberStep(n) \in [Nat \X (1..n) -> Nat]
  BY FieldsFit DEF MemberStep
<1>3. ASSUME NEW S \in SUBSET (1..n), S # {}, NEW v \in Nat
      PROVE  MemberStep(n)[<<v, Max(S)>>] = v + seq[Max(S)].member
  <2>1. Max(S) \in 1..n
    BY <1>0, <1>3, MaxOfIndices
  <2> QED
    BY <2>1, <1>1 DEF MemberStep
<1>4. PICK f \in [SUBSET (1..n) -> Nat] : Steps(f, n, 0, MemberStep(n))
  BY <1>0, <1>2, FoldExists DEF Solvable
<1>5. f = [S \in SUBSET (1..n) |-> IF S = {} THEN 0 ELSE f[S \ {Max(S)}] + seq[Max(S)].member]
  BY <1>3, <1>4 DEF Steps
<1>6. sum = [S \in SUBSET (1..n) |-> IF S = {} THEN 0 ELSE sum[S \ {Max(S)}] + seq[Max(S)].member]
  BY <1>5
<1>7. StartOf(n + 1) = sum[1..n]
  BY <1>1 DEF StartOf, FoldLeft, MapThenFoldSet
<1> HIDE DEF sum, seq
<1>8. sum[{}] = 0
  BY <1>6
<1>9. ASSUME NEW S \in SUBSET (1..n), S # {}, sum[S \ {Max(S)}] \in Nat
      PROVE  sum[S] = MemberStep(n)[<<sum[S \ {Max(S)}], Max(S)>>]
  BY <1>3, <1>6, <1>9
<1>10. IsFold(sum[1..n], n, Nat, 0, MemberStep(n))
  <2>1. \A S \in SUBSET (1..n) : S # {} /\ sum[S \ {Max(S)}] \in Nat =>
            sum[S] = MemberStep(n)[<<sum[S \ {Max(S)}], Max(S)>>]
    BY <1>9
  <2>2. 0 \in Nat
    OBVIOUS
  <2> QED
    BY <1>0, <1>2, <1>8, <2>1, <2>2, FoldByStep, Zenon
<1> QED
  BY <1>7, <1>10

\* A field starts where the members before it end.
LEMMA StartOfField == ASSUME NEW n \in 0..15 PROVE StartOf(n + 1) = Places[n + 1]
<1>1. PICK g : Chain(g, n, Nat, 0, MemberStep(n)) /\ StartOf(n + 1) = g[n]
  BY StartIsFold DEF IsFold
<1> DEFINE D == {k \in Nat : k <= n => g[k] = Places[k + 1]}
<1>2. 0 \in D
  BY <1>1 DEF Chain, Places
<1>3. ASSUME NEW k \in Nat, k \in D PROVE k + 1 \in D
  <2> SUFFICES ASSUME k + 1 <= n PROVE g[k + 1] = Places[(k + 1) + 1]
    OBVIOUS
  <2>1. k + 1 \in 1..n /\ k + 1 \in 1..15 /\ g[k] = Places[k + 1] /\ (k + 1) - 1 = k
    BY <1>3
  <2>2. g[k + 1] = MemberStep(n)[<<g[k], k + 1>>] /\ g[k] \in Nat
    BY <1>1, <2>1 DEF Chain
  <2>3. g[k + 1] = g[k] + AdtsHeader[k + 1].member
    BY <2>1, <2>2 DEF MemberStep
  <2> QED
    BY <2>1, <2>3, FieldsFit
<1>4. n \in D
  <2> HIDE DEF D
  <2> QED
    BY <1>2, <1>3, Induction
<1> QED
  BY <1>1, <1>4

\* A field takes over the bits of its own place.
LEMMA FieldIsItsBits ==
  ASSUME BytesInv, NEW k \in 1..15
  PROVE  SeenIn(k) = {q \in Places[k]..(Places[k + 1] - 1) : 55 - q \in Adts}
<1> DEFINE f == AdtsHeader[k]
<1>1. /\ f.member \in Nat \ {0} /\ f.mask \in Nat /\ f.mask >= f.member
      /\ Places[k] \in Nat /\ Places[k + 1] = Places[k] + f.member
      /\ f.shift = 56 - Places[k + 1]
  BY FieldsFit
<1>2. StartOf(k) = Places[k]
  <2>1. k - 1 \in 0..15 /\ (k - 1) + 1 = k
    OBVIOUS
  <2> QED
    BY <2>1, StartOfField
<1>3. Adts \in SUBSET Nat
  BY AdtsIsTheBytes DEF FirstBytes
<1> HIDE DEF f
<1>4. Parsed(f) = {b \in 0..(f.member - 1) : b + f.shift \in Adts}
  <2>1. ASSUME NEW b \in Parsed(f) PROVE b \in 0..(f.member - 1) /\ b + f.shift \in Adts
    BY <1>1, <1>3 DEF Parsed, Low, ShiftRight
  <2>2. ASSUME NEW b \in 0..(f.member - 1), b + f.shift \in Adts PROVE b \in Parsed(f)
    <3>1. b + f.shift >= f.shift /\ b = (b + f.shift) - f.shift
      BY <1>1, <1>3
    <3> QED
      BY <3>1, <2>2, <1>1, <1>3 DEF Parsed, Low, ShiftRight
  <2> QED
    BY <2>1, <2>2
<1>5. SeenIn(k) = {Places[k] + f.member - 1 - b : b \in Parsed(f)}
  BY <1>2 DEF SeenIn, f
<1>6. ASSUME NEW q \in SeenIn(k)
      PROVE  q \in Places[k]..(Places[k + 1] - 1) /\ 55 - q \in Adts
  <2>1. PICK b \in 0..(f.member - 1) : q = Places[k] + f.member - 1 - b /\ b + f.shift \in Adts
    BY <1>4, <1>5
  <2>2. b + f.shift = 55 - q
    BY <2>1, <1>1
  <2> QED
    BY <2>1, <2>2, <1>1
<1>7. ASSUME NEW q \in Places[k]..(Places[k + 1] - 1), 55 - q \in Adts
      PROVE  q \in SeenIn(k)
  <2> DEFINE b == Places[k] + f.member - 1 - q
  <2>1. b \in 0..(f.member - 1) /\ q = Places[k] + f.member - 1 - b /\ b + f.shift = 55 - q
    BY <1>1
  <2> HIDE DEF b
  <2> QED
    BY <2>1, <1>4, <1>5, <1>7
<1> QED
  BY <1>6, <1>7

\* The places of the fields are those of the bits, and no others.
LEMMA EveryPlaceIsInAField ==
  ASSUME NEW q \in Int
  PROVE  q \in 0..55 <=> \E k \in 1..15 : q \in Places[k]..(Places[k + 1] - 1)
<1>1. \A k \in 1..15 : Places[k] >= 0 /\ Places[k + 1] <= 56 /\ Places[k] \in Nat /\ Places[k + 1] \in Nat
  BY DEF Places
<1>2. ASSUME q \in 0..55 PROVE \E k \in 1..15 : q \in Places[k]..(Places[k + 1] - 1)
  BY <1>2 DEF Places
<1>3. ASSUME NEW k \in 1..15, q \in Places[k]..(Places[k + 1] - 1) PROVE q \in 0..55
  BY <1>1, <1>3
<1> QED
  BY <1>2, <1>3

\* A bit of the number is one of the bytes', and has its place among theirs.
LEMMA PlaceOfBit ==
  ASSUME BytesInv
  PROVE  {q \in 0..55 : 55 - q \in Adts} = {8 * one[1] + 7 - one[2] : one \in Ones}
<1>1. ASSUME NEW i \in 0..6, NEW b \in pData[i] PROVE b \in 0..7
  BY DEF BytesInv, Bytes, Bits
<1>2. ASSUME NEW q \in 0..55, 55 - q \in Adts PROVE q \in {8 * one[1] + 7 - one[2] : one \in Ones}
  <2>1. PICK i \in 0..6 : \E b \in pData[i] : 55 - q = 8 * (6 - i) + b
    BY <1>2, AdtsIsTheBytes DEF FirstBytes
  <2>2. PICK b \in pData[i] : 55 - q = 8 * (6 - i) + b
    BY <2>1
  <2>3. b \in 0..7
    BY <1>1
  <2>4. <<i, b>> \in Ones
    BY <2>3 DEF Ones, Bytes, Bits
  <2>5. q = 8 * i + 7 - b
    BY <2>2, <2>3
  <2> QED
    BY <2>4, <2>5
<1>3. ASSUME NEW one \in Ones PROVE 8 * one[1] + 7 - one[2] \in {q \in 0..55 : 55 - q \in Adts}
  <2>1. PICK i \in 0..6, b \in 0..7 : one = <<i, b>> /\ b \in pData[i]
    BY DEF Ones, Bytes, Bits
  <2> DEFINE q == 8 * i + 7 - b
  <2>2. q \in 0..55 /\ 55 - q \in Nat /\ 55 - q = 8 * (7 - 1 - i) + b /\ i \in 0..(7 - 1)
    OBVIOUS
  <2>3. 55 - q \in FirstBytes(7)
    BY <2>1, <2>2 DEF FirstBytes
  <2> QED
    BY <2>1, <2>2, <2>3, AdtsIsTheBytes
<1> QED
  BY <1>2, <1>3

\* For every header, and not only those with few bits in them.
THEOREM FieldsTakeTheHeader == AdtsSpec => []FieldsAreTheHeader
<1>1. BytesInv => FieldsAreTheHeader
  <2> SUFFICES ASSUME BytesInv PROVE FieldsAreTheHeader
    OBVIOUS
  <2>1. Len(AdtsHeader) = 15 /\ DOMAIN AdtsHeader = 1..15
    BY FieldsFit DEF AdtsHeader, AdtsFixedHeader, AdtsVariableHeader
  <2>2. StartOf(15 + 1) = 56
    <3>1. 15 \in 0..15 /\ Places[15 + 1] = 56
      BY DEF Places
    <3> QED
      BY <3>1, StartOfField
  <2>3. UNION {SeenIn(k) : k \in 1..15} = {q \in 0..55 : 55 - q \in Adts}
    <3>1. ASSUME NEW k \in 1..15, NEW q \in SeenIn(k) PROVE q \in 0..55 /\ 55 - q \in Adts
      <4>1. q \in Places[k]..(Places[k + 1] - 1) /\ 55 - q \in Adts
        BY FieldIsItsBits
      <4>2. q \in Int
        BY <4>1, FieldsFit
      <4> QED
        BY <4>1, <4>2, EveryPlaceIsInAField
    <3>2. ASSUME NEW q \in 0..55, 55 - q \in Adts PROVE \E k \in 1..15 : q \in SeenIn(k)
      BY <3>2, EveryPlaceIsInAField, FieldIsItsBits
    <3> QED
      BY <3>1, <3>2
  <2> QED
    BY <2>1, <2>2, <2>3, PlaceOfBit DEF FieldsAreTheHeader
<1>2. AdtsInit => BytesInv
  BY DEF AdtsInit, BytesInv
<1>3. BytesInv /\ [SetBit]_pData => BytesInv'
  BY DEF BytesInv, SetBit
<1> QED
  BY <1>1, <1>2, <1>3, PTL DEF AdtsSpec

-----------------------------------------------------------------------------
(* MkdirP *)

Text == Seq(STRING)

Readers == [done : Seq(Text), cur : Text]

OneMore(r, ch) == IF ch = "/" THEN [done |-> Closed(r), cur |-> <<>>]
                              ELSE [done |-> r.done, cur |-> Append(r.cur, ch)]

\* One more character makes names too.
LEMMA ReaderGoesOn ==
  ASSUME NEW r \in Readers, NEW ch \in STRING
  PROVE  Closed(r) \in Seq(Text) /\ OneMore(r, ch) \in Readers
<1>1. r.done \in Seq(Text) /\ r.cur \in Text
  BY DEF Readers
<1>2. Closed(r) \in Seq(Text)
  <2> HIDE DEF Text
  <2> QED
    BY <1>1 DEF Closed
<1>3. Append(r.cur, ch) \in Text /\ <<>> \in Text
  BY <1>1 DEF Text
<1> QED
  BY <1>1, <1>2, <1>3 DEF OneMore, Readers

ReadStep(chars, n) == [p \in Readers \X (1..n) |-> OneMore(p[1], chars[p[2]])]

\* A path is read character by character.
LEMMA ReadingIsFold ==
  ASSUME NEW chars \in Text
  PROVE  IsFold(Reading(chars), Len(chars), Readers, [done |-> <<>>, cur |-> <<>>],
                ReadStep(chars, Len(chars)))
<1> DEFINE n    == Len(chars)
           base == [done |-> <<>>, cur |-> <<>>]
           read == CHOOSE f : f = [S \in SUBSET (1..n) |->
                     IF S = {} THEN [done |-> <<>>, cur |-> <<>>]
                     ELSE IF chars[Max(S)] = "/" THEN [done |-> Closed(f[S \ {Max(S)}]), cur |-> <<>>]
                          ELSE [done |-> f[S \ {Max(S)}].done,
                                cur |-> Append(f[S \ {Max(S)}].cur, chars[Max(S)])]]
<1>1. n \in Nat /\ DOMAIN chars = 1..n /\ \A k \in 1..n : chars[k] \in STRING
  BY DEF Text
<1>2. base \in Readers
  BY DEF Readers, Text
<1>3. ReadStep(chars, n) \in [Readers \X (1..n) -> Readers]
  BY <1>1, ReaderGoesOn DEF ReadStep
<1>4. ASSUME NEW S \in SUBSET (1..n), S # {}, NEW r \in Readers
      PROVE  ReadStep(chars, n)[<<r, Max(S)>>] = OneMore(r, chars[Max(S)])
  <2>1. Max(S) \in 1..n
    BY <1>1, <1>4, MaxOfIndices
  <2> QED
    BY <2>1 DEF ReadStep
<1>5. PICK f \in [SUBSET (1..n) -> Readers] : Steps(f, n, base, ReadStep(chars, n))
  BY <1>1, <1>2, <1>3, FoldExists DEF Solvable
<1>6. f = [S \in SUBSET (1..n) |->
             IF S = {} THEN [done |-> <<>>, cur |-> <<>>]
             ELSE IF chars[Max(S)] = "/" THEN [done |-> Closed(f[S \ {Max(S)}]), cur |-> <<>>]
                  ELSE [done |-> f[S \ {Max(S)}].done,
                        cur |-> Append(f[S \ {Max(S)}].cur, chars[Max(S)])]]
  <2>1. ASSUME NEW S \in SUBSET (1..n), S # {}
        PROVE  f[S] = OneMore(f[S \ {Max(S)}], chars[Max(S)])
    <3>1. f[S \ {Max(S)}] \in Readers
      OBVIOUS
    <3>2. f[S] = ReadStep(chars, n)[<<f[S \ {Max(S)}], Max(S)>>]
      BY <1>5, <2>1 DEF Steps
    <3> QED
      BY <3>1, <3>2, <2>1, <1>4
  <2>2. f[{}] = base
    BY <1>5 DEF Steps
  <2> QED
    BY <2>1, <2>2 DEF OneMore
<1>7. read = [S \in SUBSET (1..n) |->
             IF S = {} THEN [done |-> <<>>, cur |-> <<>>]
             ELSE IF chars[Max(S)] = "/" THEN [done |-> Closed(read[S \ {Max(S)}]), cur |-> <<>>]
                  ELSE [done |-> read[S \ {Max(S)}].done,
                        cur |-> Append(read[S \ {Max(S)}].cur, chars[Max(S)])]]
  BY <1>6
<1>8. Reading(chars) = read[1..n]
  BY <1>1 DEF Reading, FoldLeft, MapThenFoldSet
<1> HIDE DEF read
<1>9. read[{}] = base
  BY <1>7
<1>10. ASSUME NEW S \in SUBSET (1..n), S # {}, read[S \ {Max(S)}] \in Readers
       PROVE  read[S] = ReadStep(chars, n)[<<read[S \ {Max(S)}], Max(S)>>]
  <2>1. read[S] = OneMore(read[S \ {Max(S)}], chars[Max(S)])
    BY <1>7, <1>10 DEF OneMore
  <2> QED
    BY <2>1, <1>4, <1>10
<1> HIDE DEF n, base
<1>11. IsFold(read[1..n], n, Readers, base, ReadStep(chars, n))
  <2>1. \A S \in SUBSET (1..n) : S # {} /\ read[S \ {Max(S)}] \in Readers =>
            read[S] = ReadStep(chars, n)[<<read[S \ {Max(S)}], Max(S)>>]
    BY <1>10
  <2> QED
    BY <1>1, <1>2, <1>3, <1>9, <2>1, FoldByStep, Zenon
<1> QED
  BY <1>8, <1>11 DEF n, base

\* Of nothing there is nothing to read, ...
LEMMA ReadNothing == Reading(<<>>) = [done |-> <<>>, cur |-> <<>>]
<1>1. <<>> \in Text /\ Len(<<>>) = 0
  BY DEF Text
<1> QED
  BY <1>1, ReadingIsFold, FoldOfNone

\* ... and a character more is a step more.
LEMMA ReadOneMore ==
  ASSUME NEW chars \in Text, NEW i \in 1..Len(chars)
  PROVE  /\ Reading(SubSeq(chars, 1, i - 1)) \in Readers /\ chars[i] \in STRING
         /\ Reading(SubSeq(chars, 1, i)) = OneMore(Reading(SubSeq(chars, 1, i - 1)), chars[i])
<1> DEFINE n == i - 1
           short == SubSeq(chars, 1, i - 1)
           long  == SubSeq(chars, 1, i)
<1>1. /\ short \in Text /\ Len(short) = n /\ long \in Text /\ Len(long) = n + 1
      /\ n \in Nat /\ chars[i] \in STRING /\ long[n + 1] = chars[i]
      /\ \A k \in 1..n : long[k] = short[k]
  <2>1. Len(chars) \in Nat /\ i \in Nat \ {0} /\ i <= Len(chars) /\ n + 1 = i /\ n \in Nat
    BY DEF Text
  <2>2. chars[i] \in STRING
    BY DEF Text
  <2>3. long \in Text /\ Len(long) = i /\ \A k \in 1..i : long[k] = chars[k]
    BY <2>1, SubSeqProperties DEF Text
  <2>4. short \in Text /\ Len(short) = n /\ \A k \in 1..n : short[k] = chars[k]
    BY <2>1, SubSeqProperties DEF Text
  <2> QED
    BY <2>1, <2>2, <2>3, <2>4
<1>2. IsFold(Reading(short), n, Readers, [done |-> <<>>, cur |-> <<>>], ReadStep(short, n))
  BY <1>1, ReadingIsFold
<1>3. IsFold(Reading(long), n + 1, Readers, [done |-> <<>>, cur |-> <<>>], ReadStep(long, n + 1))
  BY <1>1, ReadingIsFold
<1> HIDE DEF n, short, long
<1>4. \A r \in Readers, k \in 1..n : ReadStep(long, n + 1)[<<r, k>>] = ReadStep(short, n)[<<r, k>>]
  BY <1>1 DEF ReadStep
<1>5. /\ Reading(short) \in Readers /\ Reading(long) \in Readers
      /\ Reading(long) = ReadStep(long, n + 1)[<<Reading(short), n + 1>>]
  BY <1>1, <1>2, <1>3, <1>4, FoldOfOneMore
<1>6. n + 1 \in 1..(n + 1)
  BY <1>1
<1>7. Reading(long) = OneMore(Reading(short), long[n + 1])
  BY <1>5, <1>6 DEF ReadStep
<1> QED
  BY <1>1, <1>5, <1>7 DEF short, long

\* What is read of the path that a caller has.
Read(c) == Reading(SubSeq(text[c], 1, pos[c] - 1))

\* Whatever is read, it makes names.
LEMMA ReadAll ==
  ASSUME NEW chars \in Text PROVE Reading(chars) \in Readers
<1>1. CASE chars = <<>>
  <2>1. [done |-> <<>>, cur |-> <<>>] \in Readers
    BY DEF Readers, Text
  <2> QED
    BY <1>1, <2>1, ReadNothing
<1>2. CASE chars # <<>>
  <2>1. Len(chars) \in 1..Len(chars) /\ SubSeq(chars, 1, Len(chars)) = chars
    BY <1>2 DEF Text
  <2>2. Reading(chars) = OneMore(Reading(SubSeq(chars, 1, Len(chars) - 1)), chars[Len(chars)])
    BY <2>1, ReadOneMore
  <2> QED
    BY <2>1, <2>2, ReadOneMore, ReaderGoesOn
<1> QED
  BY <1>1, <1>2

\* mkdir_p starts before the end of the first name.
LEMMA StartsAtNothing ==
  ASSUME NEW chars \in Text, chars # <<>>
  PROVE  /\ Start(chars) \in 1..(Len(chars) + 1)
         /\ Reading(SubSeq(chars, 1, Start(chars) - 1)).done = <<>>
<1>1. Len(chars) \in Nat \ {0} /\ 1 \in 1..Len(chars)
  BY DEF Text
<1>2. SubSeq(chars, 1, 1 - 1) = <<>>
  BY DEF Text
<1>3. Reading(SubSeq(chars, 1, 1)) = OneMore([done |-> <<>>, cur |-> <<>>], chars[1])
  BY <1>1, <1>2, ReadOneMore, ReadNothing
<1>4. CASE chars[1] \in Separators
  <2>1. Start(chars) = 2 /\ 2 - 1 = 1
    BY <1>4 DEF Start
  <2>2. Reading(SubSeq(chars, 1, 1)).done = <<>>
    BY <1>3 DEF OneMore, Closed
  <2> QED
    BY <2>1, <2>2, <1>1
<1>5. CASE chars[1] \notin Separators /\ Len(chars) > 1 /\ chars[1] = "." /\ chars[2] \in Separators
  <2>1. Start(chars) = 3 /\ 3 - 1 = 2 /\ 2 - 1 = 1 /\ 2 \in 1..Len(chars)
    BY <1>1, <1>5 DEF Start
  <2>2. Reading(SubSeq(chars, 1, 1)) = [done |-> <<>>, cur |-> <<".">>]
    BY <1>3, <1>5 DEF OneMore
  <2>3. Reading(SubSeq(chars, 1, 2)) = OneMore([done |-> <<>>, cur |-> <<".">>], chars[2])
    BY <2>1, <2>2, ReadOneMore
  <2>4. Reading(SubSeq(chars, 1, 2)).done = <<>>
    BY <2>3 DEF OneMore, Closed
  <2> QED
    BY <2>1, <2>4
<1>6. CASE chars[1] \notin Separators /\ ~(Len(chars) > 1 /\ chars[1] = "." /\ chars[2] \in Separators)
  <2>1. Start(chars) = 1
    BY <1>6 DEF Start
  <2>2. Reading(SubSeq(chars, 1, 1 - 1)) = [done |-> <<>>, cur |-> <<>>]
    BY <1>2, ReadNothing, Zenon
  <2>3. Reading(SubSeq(chars, 1, 1 - 1)).done = <<>>
    BY <2>2
  <2> QED
    BY <2>1, <2>3, <1>1
<1> QED
  BY <1>4, <1>5, <1>6

DirTypeInv ==
    /\ <<>> \in dirs
    /\ text \in [Callers -> Text] /\ pos \in [Callers -> Nat]
    /\ ret \in [Callers -> {0, -1}]
    /\ made \in [Callers -> SUBSET dirs]
    /\ refused \in [Callers -> SUBSET Seq(Text)]

\* What a caller is reading, whose names so far are there unless it was refused one of
\* them, and what it has made is not longer than the name it is in.
Named(d, r) ==
    \/ Len(d) <= Len(r.done)
    \/ \E name \in Text : d = Append(r.done, name) /\ 0 < Len(name) /\ Len(name) < Len(r.cur)

ReadingInv ==
    \A c \in Callers : pos[c] > 0 =>
        /\ text[c] # <<>>
        /\ pos[c] <= Len(text[c]) + 1
        /\ Read(c).done \in dirs \/ \E d \in refused[c] : IsPrefix(d, Read(c).done)
        /\ \A d \in made[c] : d \in Seq(Text) /\ Named(d, Read(c))

DirInv == DirTypeInv /\ ReadingInv /\ DirectoryIsThere

\* A directory is above itself, and what is above it is above those in it.
LEMMA AboveItself == ASSUME NEW d \in Seq(Text) PROVE IsPrefix(d, d)
<1> HIDE DEF Text
<1> QED
  BY DEF IsPrefix

LEMMA AboveGoesOn ==
  ASSUME NEW q \in Seq(Text), NEW d \in Seq(Text), NEW name \in Text, IsPrefix(d, q)
  PROVE  IsPrefix(d, Append(q, name))
<1> HIDE DEF Text
<1>1. /\ Len(d) \in Nat /\ Len(q) \in Nat /\ Len(d) <= Len(q)
      /\ SubSeq(d, 1, Len(d)) = SubSeq(q, 1, Len(d))
  BY DEF IsPrefix
<1>2. /\ Append(q, name) \in Seq(Text) /\ Len(Append(q, name)) = Len(q) + 1
      /\ \A i \in 1..Len(q) : Append(q, name)[i] = q[i]
  OBVIOUS
<1>3. SubSeq(Append(q, name), 1, Len(d)) = SubSeq(q, 1, Len(d))
  BY <1>1, <1>2
<1> QED
  BY <1>1, <1>2, <1>3 DEF IsPrefix

\* A path that ends in a dot names what its reader has done.
LEMMA DotIsNoName ==
  ASSUME NEW chars \in Text, EndsInDot(chars) PROVE Reading(chars).cur \in {<<>>, <<".">>}
<1>1. PICK i \in DOMAIN chars :
        /\ chars[i] = "." /\ (i > 1 => chars[i - 1] = "/")
        /\ \A j \in (i + 1)..Len(chars) : chars[j] = "/"
  BY DEF EndsInDot
<1>2. Len(chars) \in Nat /\ i \in 1..Len(chars) /\ Len(chars) \in 1..Len(chars) /\ i \in Nat
  BY DEF Text
<1>3. \A j \in 1..Len(chars) :
         /\ chars[j] = "/" => Reading(SubSeq(chars, 1, j)).cur = <<>>
         /\ chars[j] = "." => Reading(SubSeq(chars, 1, j)).cur
                                = Append(Reading(SubSeq(chars, 1, j - 1)).cur, ".")
  <2> SUFFICES ASSUME NEW j \in 1..Len(chars)
               PROVE  /\ chars[j] = "/" => Reading(SubSeq(chars, 1, j)).cur = <<>>
                      /\ chars[j] = "." => Reading(SubSeq(chars, 1, j)).cur
                                             = Append(Reading(SubSeq(chars, 1, j - 1)).cur, ".")
    OBVIOUS
  <2>1. Reading(SubSeq(chars, 1, j)) = OneMore(Reading(SubSeq(chars, 1, j - 1)), chars[j])
    BY ReadOneMore
  <2>2. \A q : /\ OneMore(q, "/").cur = <<>>
              /\ OneMore(q, ".").cur = Append(q.cur, ".")
    BY DEF OneMore
  <2> QED
    BY <2>1, <2>2
<1>4. SubSeq(chars, 1, Len(chars)) = chars
  BY DEF Text
<1>5. CASE i < Len(chars)
  <2>1. chars[Len(chars)] = "/"
    BY <1>1, <1>2, <1>5
  <2>2. Reading(chars).cur = <<>>
    BY <1>2, <1>3, <1>4, <2>1
  <2> QED
    BY <2>2
<1>6. CASE i = Len(chars)
  <2>1. Reading(SubSeq(chars, 1, i - 1)).cur = <<>>
    <3>1. CASE i = 1
      <4>1. SubSeq(chars, 1, i - 1) = <<>>
        BY <3>1 DEF Text
      <4>2. Reading(SubSeq(chars, 1, i - 1)) = [done |-> <<>>, cur |-> <<>>]
        BY <4>1, ReadNothing, Zenon
      <4> QED
        BY <4>2
    <3>2. CASE i > 1
      <4>1. i - 1 \in 1..Len(chars) /\ chars[i - 1] = "/"
        BY <1>1, <1>2, <3>2
      <4> QED
        BY <4>1, <1>3
    <3> QED
      BY <1>2, <3>1, <3>2
  <2>2. Reading(chars).cur = Append(<<>>, ".")
    BY <1>1, <1>2, <1>3, <1>4, <1>6, <2>1
  <2>3. Append(<<>>, ".") = <<".">>
    OBVIOUS
  <2> QED
    BY <2>2, <2>3
<1> QED
  BY <1>2, <1>5, <1>6

\* mkdir: whatever it answers, the directory is there or the caller was refused it or one
\* above it, given that this is so of the ones above it.
LEMMA MkdirMakes ==
  ASSUME DirTypeInv, NEW c \in Callers, NEW chars \in Text, Mkdir(c, chars),
         Reading(chars).done \in dirs \/ \E d \in refused[c] : IsPrefix(d, Reading(chars).done)
  PROVE  /\ Names(chars) \in Seq(Text)
         /\ dirs \subseteq dirs' /\ refused[c] \subseteq refused'[c]
         /\ Names(chars) \in dirs' \/ \E d \in refused'[c] : IsPrefix(d, Names(chars))
         /\ ret' \in [Callers -> {0, -1}] /\ made' \in [Callers -> SUBSET dirs']
         /\ refused' \in [Callers -> SUBSET Seq(Text)]
         /\ \A e \in Callers \ {c} :
               ret'[e] = ret[e] /\ made'[e] = made[e] /\ refused'[e] = refused[e]
         /\ \/ ret'[c] = 0 /\ Names(chars) \in dirs' /\ made'[c] = made[c] \cup {Names(chars)}
            \/ ret'[c] = -1 /\ made'[c] = made[c]
<1> DEFINE r == Reading(chars)
           d == Names(chars)
<1>1. r.done \in Seq(Text) /\ r.cur \in Text
  BY ReadAll DEF Readers
<1>2. d = IF r.cur \in {<<>>, <<".">>} THEN r.done ELSE Append(r.done, r.cur)
  BY DEF Names, Closed
<1>3. d \in Seq(Text)
  <2> HIDE DEF Text, r, d
  <2> QED
    BY <1>1, <1>2
<1>4. CASE /\ dirs' = dirs \cup {d} /\ made' = [made EXCEPT ![c] = @ \cup {d}]
           /\ ret' = [ret EXCEPT ![c] = 0] /\ refused' = refused
  <2> HIDE DEF r, d
  <2>1. /\ made' \in [Callers -> SUBSET dirs'] /\ made'[c] = made[c] \cup {d}
        /\ ret' \in [Callers -> {0, -1}] /\ ret'[c] = 0
    BY <1>4 DEF DirTypeInv
  <2> QED
    BY <1>3, <1>4, <2>1 DEF d, DirTypeInv
<1>5. CASE /\ ret' = [ret EXCEPT ![c] = -1] /\ dirs' = dirs /\ made' = made
           /\ refused' = [refused EXCEPT ![c] = IF Makeable(chars) THEN @ \cup {d} ELSE @]
  <2>1. /\ ret' \in [Callers -> {0, -1}] /\ ret'[c] = -1
        /\ refused' \in [Callers -> SUBSET Seq(Text)]
        /\ refused'[c] = IF Makeable(chars) THEN refused[c] \cup {d} ELSE refused[c]
    <3> HIDE DEF r, d
    <3> QED
      BY <1>3, <1>5 DEF DirTypeInv
  <2>2. d \in dirs \/ \E e \in refused'[c] : IsPrefix(e, d)
    <3>1. CASE Makeable(chars)
      BY <2>1, <3>1, <1>3, AboveItself
    <3>2. CASE r.cur \in {<<>>, <<".">>}
      BY <2>1, <3>2, <1>2
    <3>3. CASE ~Makeable(chars) /\ r.cur \notin {<<>>, <<".">>}
      <4>1. d = Append(r.done, r.cur) /\ ~EndsInDot(chars)
        BY <3>3, <1>2, DotIsNoName
      <4>2. Front(d) = r.done
        <5> HIDE DEF Text, r, d
        <5> QED
          BY <4>1, <1>1 DEF Front
      <4>3. d \in dirs \/ r.done \notin dirs
        BY <3>3, <4>1, <4>2 DEF Makeable
      <4>4. ASSUME NEW e \in refused[c], IsPrefix(e, r.done) PROVE IsPrefix(e, d)
        <5>1. e \in Seq(Text)
          BY DEF DirTypeInv
        <5> HIDE DEF r, d
        <5> QED
          BY <4>1, <4>4, <5>1, <1>1, AboveGoesOn
      <4> QED
        BY <2>1, <4>3, <4>4
    <3> QED
      BY <3>1, <3>2, <3>3
  <2> HIDE DEF r, d
  <2> QED
    BY <1>3, <1>5, <2>1, <2>2 DEF d, DirTypeInv
<1> QED
  BY <1>4, <1>5 DEF Mkdir

\* What is named stays named, and so is what has just been made.
LEMMA NamedGoesOn ==
  ASSUME NEW r \in Readers, NEW ch \in STRING, NEW d \in Seq(Text),
         Named(d, r) \/ (d = Append(r.done, r.cur) /\ r.cur \notin {<<>>, <<".">>})
  PROVE  Named(d, OneMore(r, ch))
<1>1. r.done \in Seq(Text) /\ r.cur \in Text
  BY DEF Readers
<1>2. Len(r.cur) \in Nat /\ Len(r.done) \in Nat /\ Len(d) \in Nat
  BY <1>1 DEF Text
<1>3. r.cur # <<>> => Len(r.cur) > 0
  BY <1>1 DEF Text
<1>4. ASSUME NEW name \in Text PROVE Len(Append(r.done, name)) = Len(r.done) + 1
  <2> HIDE DEF Text
  <2> QED
    BY <1>1
<1>5. CASE ch = "/"
  <2>1. OneMore(r, ch).done = IF r.cur \in {<<>>, <<".">>} THEN r.done ELSE Append(r.done, r.cur)
    BY <1>5 DEF OneMore, Closed
  <2>2. CASE r.cur \in {<<>>, <<".">>}
    <3>1. Len(r.cur) <= 1
      <4>1. Len(<<>>) = 0 /\ Len(<<".">>) = 1
        OBVIOUS
      <4>2. r.cur = <<>> \/ r.cur = <<".">>
        BY <2>2
      <4>3. Len(r.cur) = 0 \/ Len(r.cur) = 1
        BY <4>1, <4>2, Zenon
      <4>4. \A k \in Nat : k = 0 \/ k = 1 => k <= 1
        OBVIOUS
      <4> QED
        BY <4>3, <4>4, <1>2, Zenon
    <3>2. Len(d) <= Len(r.done)
      <4>1. \A name \in Text : Len(name) \in Nat
        BY DEF Text
      <4> QED
        BY <2>2, <3>1, <1>2, <4>1 DEF Named
    <3> QED
      BY <2>1, <2>2, <3>2 DEF Named
  <2>3. CASE r.cur \notin {<<>>, <<".">>}
    <3>1. Len(OneMore(r, ch).done) = Len(r.done) + 1
      BY <2>1, <2>3, <1>1, <1>4
    <3>2. Len(d) <= Len(r.done) + 1
      BY <1>1, <1>2, <1>4 DEF Named
    <3> QED
      BY <3>1, <3>2 DEF Named
  <2> QED
    BY <2>2, <2>3
<1>6. CASE ch # "/"
  <2>1. OneMore(r, ch).done = r.done /\ OneMore(r, ch).cur = Append(r.cur, ch)
    BY <1>6 DEF OneMore
  <2>2. Len(Append(r.cur, ch)) = Len(r.cur) + 1
    BY <1>1 DEF Text
  <2>3. CASE Named(d, r)
    <3>1. \A name \in Text : Len(name) \in Nat
      BY DEF Text
    <3> QED
      BY <2>1, <2>2, <2>3, <1>2, <3>1 DEF Named
  <2>4. CASE d = Append(r.done, r.cur) /\ r.cur \notin {<<>>, <<".">>}
    BY <2>1, <2>2, <2>4, <1>1, <1>2, <1>3 DEF Named
  <2> QED
    BY <2>3, <2>4
<1> QED
  BY <1>5, <1>6

\* A call starts where no name is done and nothing is made, or ends at once.
LEMMA CallDirInv ==
  ASSUME DirInv, NEW c \in Callers, NEW chars \in Paths, Call(c, chars) PROVE DirInv'
<1>1. chars \in Text /\ chars # <<>>
  BY PathsAssumption DEF Text
<1>2. /\ Start(chars) \in 1..(Len(chars) + 1)
      /\ Reading(SubSeq(chars, 1, Start(chars) - 1)).done = <<>>
  BY <1>1, StartsAtNothing
<1>3. Start(chars) \in Nat \ {0} /\ Start(chars) <= Len(chars) + 1
  <2>1. Len(chars) \in Nat
    BY <1>1 DEF Text
  <2> QED
    BY <2>1, <1>2
<1>4. /\ pos[c] = 0 /\ dirs' = dirs
      /\ text' = [text EXCEPT ![c] = chars] /\ made' = [made EXCEPT ![c] = {}]
      /\ \/ /\ pos' = [pos EXCEPT ![c] = Start(chars)] /\ ret' = [ret EXCEPT ![c] = 0]
            /\ refused' = [refused EXCEPT ![c] = {}]
         \/ /\ pos' = pos /\ ret' = [ret EXCEPT ![c] = -1]
            /\ refused' = [refused EXCEPT ![c] = {<<>>}]
  BY DEF Call
<1>5. <<>> \in Seq(Text)
  OBVIOUS
<1>6. /\ text' \in [Callers -> Text] /\ made' \in [Callers -> SUBSET dirs']
      /\ text'[c] = chars /\ made'[c] = {}
      /\ \A e \in Callers \ {c} : text'[e] = text[e] /\ made'[e] = made[e]
  <2> HIDE DEF Text
  <2> QED
    BY <1>1, <1>4 DEF DirInv, DirTypeInv
<1>7. /\ pos' \in [Callers -> Nat] /\ ret' \in [Callers -> {0, -1}]
      /\ refused' \in [Callers -> SUBSET Seq(Text)]
      /\ \/ pos'[c] = Start(chars)
         \/ pos'[c] = 0 /\ ret'[c] = -1 /\ refused'[c] = {<<>>}
      /\ \A e \in Callers \ {c} :
            pos'[e] = pos[e] /\ ret'[e] = ret[e] /\ refused'[e] = refused[e]
  <2> DEFINE Dirs == Seq(Text)
  <2>1. pos \in [Callers -> Nat] /\ ret \in [Callers -> {0, -1}] /\ refused \in [Callers -> SUBSET Dirs]
    BY DEF DirInv, DirTypeInv
  <2>2. {} \in SUBSET Dirs /\ {<<>>} \in SUBSET Dirs
    BY <1>5
  <2> HIDE DEF Dirs
  <2>3. refused' \in [Callers -> SUBSET Dirs] /\ \A e \in Callers \ {c} : refused'[e] = refused[e]
    BY <1>4, <2>1, <2>2
  <2>4. /\ pos' \in [Callers -> Nat] /\ ret' \in [Callers -> {0, -1}]
        /\ \A e \in Callers \ {c} : pos'[e] = pos[e] /\ ret'[e] = ret[e]
    BY <1>3, <1>4, <2>1
  <2>5. \/ pos'[c] = Start(chars)
        \/ pos'[c] = 0 /\ ret'[c] = -1 /\ refused'[c] = {<<>>}
    BY <1>4, <2>1
  <2> QED
    BY <2>3, <2>4, <2>5 DEF Dirs
<1>8. DirTypeInv'
  BY <1>4, <1>6, <1>7 DEF DirInv, DirTypeInv
<1>9. ReadingInv'
  <2> SUFFICES ASSUME NEW e \in Callers, pos'[e] > 0
               PROVE  /\ text'[e] # <<>>
                      /\ pos'[e] <= Len(text'[e]) + 1
                      /\ \/ Reading(SubSeq(text'[e], 1, pos'[e] - 1)).done \in dirs'
                         \/ \E d \in refused'[e] :
                               IsPrefix(d, Reading(SubSeq(text'[e], 1, pos'[e] - 1)).done)
                      /\ \A d \in made'[e] :
                            d \in Seq(Text) /\ Named(d, Reading(SubSeq(text'[e], 1, pos'[e] - 1)))
    BY DEF ReadingInv, Read, Named
  <2>1. CASE e = c
    BY <2>1, <1>1, <1>2, <1>3, <1>4, <1>6, <1>7 DEF DirInv, DirTypeInv
  <2>2. CASE e # c
    BY <2>2, <1>4, <1>6, <1>7 DEF DirInv, ReadingInv, Read
  <2> QED
    BY <2>1, <2>2
<1>10. IsPrefix(<<>>, Names(chars))
  <2>1. Names(chars) \in Seq(Text)
    <3>1. Reading(chars) \in Readers
      BY <1>1, ReadAll
    <3>2. chars[1] \in STRING
      BY <1>1 DEF Text
    <3> QED
      BY <3>1, <3>2, ReaderGoesOn DEF Names
  <2> HIDE DEF Text
  <2> QED
    BY <2>1 DEF IsPrefix
<1>11. DirectoryIsThere'
  <2> SUFFICES ASSUME NEW e \in Callers, pos'[e] = 0, text'[e] # <<>>
               PROVE  /\ \/ Names(text'[e]) \in dirs'
                         \/ ret'[e] = -1 /\ \E d \in refused'[e] : IsPrefix(d, Names(text'[e]))
                      /\ ret'[e] = 0 => Names(text'[e]) \in made'[e] \cap dirs'
                      /\ ret'[e] = -1 /\ Names(text'[e]) \in made'[e] =>
                            Reading(text'[e]).cur \in {<<>>, <<".">>}
    BY DEF DirectoryIsThere
  <2>1. CASE e = c
    <3>1. ret'[c] = -1 /\ refused'[c] = {<<>>}
      BY <2>1, <1>3, <1>7
    <3> QED
      BY <2>1, <3>1, <1>6, <1>10
  <2>2. CASE e # c
    BY <2>2, <1>4, <1>6, <1>7 DEF DirInv, DirectoryIsThere
  <2> QED
    BY <2>1, <2>2
<1> QED
  BY <1>8, <1>9, <1>11 DEF DirInv

\* A turn of the loop reads one more character, after a mkdir if it is a separator.
LEMMA LoopDirInv ==
  ASSUME DirInv, NEW c \in Callers, Loop(c) PROVE DirInv'
<1> DEFINE chars == text[c]
           i    == pos[c]
           r    == Read(c)
           s    == OneMore(r, chars[i])
<1>1. chars \in Text /\ Len(chars) \in Nat /\ i \in 1..Len(chars) /\ i \in Nat
  BY DEF Loop, DirInv, DirTypeInv, Text
<1>2. /\ r \in Readers /\ chars[i] \in STRING /\ s \in Readers
      /\ Reading(SubSeq(chars, 1, i)) = s
  BY <1>1, ReadOneMore, ReaderGoesOn DEF Read
<1>3. /\ chars # <<>>
      /\ r.done \in dirs \/ \E d \in refused[c] : IsPrefix(d, r.done)
      /\ \A d \in made[c] : d \in Seq(Text) /\ Named(d, r)
  BY <1>1 DEF DirInv, ReadingInv
<1>4. pos' = [pos EXCEPT ![c] = i + 1] /\ text' = text
  BY DEF Loop, AfterPrefix
<1>5. /\ dirs \subseteq dirs'
      /\ s.done \in dirs' \/ \E d \in refused'[c] : IsPrefix(d, s.done)
      /\ ret' \in [Callers -> {0, -1}] /\ made' \in [Callers -> SUBSET dirs']
      /\ refused' \in [Callers -> SUBSET Seq(Text)]
      /\ \A e \in Callers \ {c} :
            ret'[e] = ret[e] /\ made'[e] = made[e] /\ refused'[e] = refused[e]
      /\ \A d \in made'[c] : d \in Seq(Text) /\ Named(d, s)
  <2>1. CASE chars[i] \in Separators
    <3> DEFINE before == SubSeq(chars, 1, i - 1)
    <3>1. Mkdir(c, before)
      BY <2>1 DEF Loop
    <3>2. before \in Text
      BY <1>1, SubSeqProperties DEF Text
    <3>3. Reading(before) = r
      BY DEF Read
    <3> HIDE DEF chars, i, r, s, before
    <3>4. /\ Names(before) \in Seq(Text)
          /\ dirs \subseteq dirs' /\ refused[c] \subseteq refused'[c]
          /\ Names(before) \in dirs' \/ \E d \in refused'[c] : IsPrefix(d, Names(before))
          /\ ret' \in [Callers -> {0, -1}] /\ made' \in [Callers -> SUBSET dirs']
          /\ refused' \in [Callers -> SUBSET Seq(Text)]
          /\ \A e \in Callers \ {c} :
                ret'[e] = ret[e] /\ made'[e] = made[e] /\ refused'[e] = refused[e]
          /\ made'[c] \subseteq made[c] \cup {Names(before)}
      BY <3>1, <3>2, <3>3, <1>3, MkdirMakes DEF DirInv
    <3>5. s.done \in dirs' \/ \E d \in refused'[c] : IsPrefix(d, s.done)
      <4>1. s.done = Names(before) \/ s.done = r.done
        BY <3>3 DEF s, OneMore, Names
      <4>2. r.done \in dirs' \/ \E d \in refused'[c] : IsPrefix(d, r.done)
        BY <3>4, <1>3
      <4> QED
        BY <4>1, <4>2, <3>4
    <3>6. \A d \in made'[c] : d \in Seq(Text) /\ Named(d, s)
      <4>1. Named(Names(before), r) \/ (Names(before) = Append(r.done, r.cur) /\ r.cur \notin {<<>>, <<".">>})
        <5>1. Len(r.done) \in Nat
          <6> HIDE DEF Text
          <6> QED
            BY <1>2 DEF Readers
        <5>2. CASE r.cur \in {<<>>, <<".">>}
          BY <5>1, <5>2, <3>3 DEF Names, Closed, Named
        <5>3. CASE r.cur \notin {<<>>, <<".">>}
          BY <5>3, <3>3 DEF Names, Closed
        <5> QED
          BY <5>2, <5>3
      <4>2. ASSUME NEW d \in made'[c] PROVE d \in Seq(Text) /\ Named(d, s)
        <5>1. CASE d \in made[c]
          BY <5>1, <1>2, <1>3, NamedGoesOn DEF s
        <5>2. CASE d = Names(before)
          BY <5>2, <4>1, <3>4, <1>2, NamedGoesOn DEF s
        <5> QED
          BY <5>1, <5>2, <3>4
      <4> QED
        BY <4>2
    <3> QED
      BY <3>4, <3>5, <3>6
  <2>2. CASE chars[i] \notin Separators
    <3>1. dirs' = dirs /\ ret' = ret /\ made' = made /\ refused' = refused
      BY <2>2 DEF Loop
    <3>2. chars[i] # "/"
      BY <2>2 DEF Separators
    <3> HIDE DEF chars, i, r
    <3>3. s.done = r.done
      BY <3>2 DEF OneMore
    <3> HIDE DEF s
    <3>4. \A d \in made[c] : d \in Seq(Text) /\ Named(d, s)
      BY <1>2, <1>3, NamedGoesOn DEF s
    <3> QED
      BY <3>1, <3>3, <3>4, <1>3 DEF DirInv, DirTypeInv
  <2> QED
    BY <2>1, <2>2
<1>6. pos'[c] = i + 1 /\ \A e \in Callers \ {c} : pos'[e] = pos[e]
  BY <1>4 DEF DirInv, DirTypeInv
<1>7. i + 1 > 0 /\ i + 1 <= Len(chars) + 1 /\ (i + 1) - 1 = i /\ i + 1 \in Nat
  BY <1>1
<1>8. Reading(SubSeq(text'[c], 1, pos'[c] - 1)) = s
  BY <1>2, <1>4, <1>6, <1>7
<1>9. DirTypeInv'
  BY <1>4, <1>5, <1>7 DEF DirInv, DirTypeInv
<1> HIDE DEF chars, i, r, s
<1>10. ReadingInv'
  <2> SUFFICES ASSUME NEW e \in Callers, pos'[e] > 0
               PROVE  /\ text'[e] # <<>>
                      /\ pos'[e] <= Len(text'[e]) + 1
                      /\ \/ Reading(SubSeq(text'[e], 1, pos'[e] - 1)).done \in dirs'
                         \/ \E d \in refused'[e] :
                               IsPrefix(d, Reading(SubSeq(text'[e], 1, pos'[e] - 1)).done)
                      /\ \A d \in made'[e] :
                            d \in Seq(Text) /\ Named(d, Reading(SubSeq(text'[e], 1, pos'[e] - 1)))
    BY DEF ReadingInv, Read, Named
  <2>1. CASE e = c
    BY <2>1, <1>3, <1>4, <1>5, <1>6, <1>7, <1>8 DEF chars
  <2>2. CASE e # c
    BY <2>2, <1>4, <1>5, <1>6 DEF DirInv, ReadingInv, Read
  <2> QED
    BY <2>1, <2>2
<1>11. DirectoryIsThere'
  <2> SUFFICES ASSUME NEW e \in Callers, pos'[e] = 0, text'[e] # <<>>
               PROVE  /\ \/ Names(text[e]) \in dirs'
                         \/ ret'[e] = -1 /\ \E d \in refused'[e] : IsPrefix(d, Names(text[e]))
                      /\ ret'[e] = 0 => Names(text[e]) \in made'[e] \cap dirs'
                      /\ ret'[e] = -1 /\ Names(text[e]) \in made'[e] =>
                            Reading(text[e]).cur \in {<<>>, <<".">>}
    BY <1>4 DEF DirectoryIsThere
  <2>1. e # c
    BY <1>6, <1>7
  <2> QED
    BY <2>1, <1>4, <1>5, <1>6 DEF DirInv, DirectoryIsThere
<1> QED
  BY <1>9, <1>10, <1>11 DEF DirInv

\* The last mkdir, of the whole path.
LEMMA WholeDirInv ==
  ASSUME DirInv, NEW c \in Callers, Whole(c) PROVE DirInv'
<1> DEFINE chars == text[c]
           r    == Reading(chars)
<1>1. chars \in Text /\ Len(chars) \in Nat /\ pos[c] \in Nat /\ pos[c] > Len(chars)
  BY DEF Whole, DirInv, DirTypeInv, Text
<1>2. pos[c] - 1 = Len(chars)
  BY <1>1 DEF DirInv, ReadingInv
<1>3. SubSeq(chars, 1, Len(chars)) = chars
  BY <1>1 DEF Text
<1>4. Read(c) = r
  BY <1>2, <1>3 DEF Read
<1>5. /\ r.done \in dirs \/ \E d \in refused[c] : IsPrefix(d, r.done)
      /\ \A d \in made[c] : d \in Seq(Text) /\ Named(d, r)
  BY <1>1, <1>4 DEF DirInv, ReadingInv
<1>6. pos' = [pos EXCEPT ![c] = 0] /\ text' = text /\ Mkdir(c, chars)
  BY DEF Whole
<1> HIDE DEF chars, r
<1>7. /\ dirs \subseteq dirs'
      /\ Names(chars) \in dirs' \/ \E d \in refused'[c] : IsPrefix(d, Names(chars))
      /\ ret' \in [Callers -> {0, -1}] /\ made' \in [Callers -> SUBSET dirs']
      /\ refused' \in [Callers -> SUBSET Seq(Text)]
      /\ \A e \in Callers \ {c} :
            ret'[e] = ret[e] /\ made'[e] = made[e] /\ refused'[e] = refused[e]
      /\ \/ ret'[c] = 0 /\ Names(chars) \in dirs' /\ made'[c] = made[c] \cup {Names(chars)}
         \/ ret'[c] = -1 /\ made'[c] = made[c]
  BY <1>1, <1>5, <1>6, MkdirMakes DEF DirInv, r
<1>8. Names(chars) \in made[c] => r.cur \in {<<>>, <<".">>}
  <2> SUFFICES ASSUME Names(chars) \in made[c], r.cur \notin {<<>>, <<".">>} PROVE FALSE
    OBVIOUS
  <2>1. r.done \in Seq(Text) /\ r.cur \in Text
    BY <1>1, ReadAll DEF r, Readers
  <2>2. Names(chars) = Append(r.done, r.cur) /\ Named(Names(chars), r)
    BY <1>5 DEF Names, Closed, r
  <2>3. ASSUME NEW name \in Text
        PROVE  /\ Len(Append(r.done, name)) = Len(r.done) + 1 /\ Len(r.done) \in Nat
               /\ Append(r.done, name)[Len(r.done) + 1] = name
    <3> HIDE DEF Text
    <3> QED
      BY <2>1
  <2>4. PICK name \in Text : Append(r.done, r.cur) = Append(r.done, name) /\ Len(name) < Len(r.cur)
    BY <2>1, <2>2, <2>3 DEF Named
  <2>5. name = r.cur
    BY <2>1, <2>3, <2>4
  <2>6. Len(name) \in Nat
    BY DEF Text
  <2> QED
    BY <2>4, <2>5, <2>6
<1>9. pos'[c] = 0 /\ \A e \in Callers \ {c} : pos'[e] = pos[e]
  BY <1>6 DEF DirInv, DirTypeInv
<1>10. DirTypeInv'
  BY <1>6, <1>7 DEF DirInv, DirTypeInv
<1>11. ReadingInv'
  <2> SUFFICES ASSUME NEW e \in Callers, pos'[e] > 0
               PROVE  /\ text'[e] # <<>>
                      /\ pos'[e] <= Len(text'[e]) + 1
                      /\ \/ Reading(SubSeq(text'[e], 1, pos'[e] - 1)).done \in dirs'
                         \/ \E d \in refused'[e] :
                               IsPrefix(d, Reading(SubSeq(text'[e], 1, pos'[e] - 1)).done)
                      /\ \A d \in made'[e] :
                            d \in Seq(Text) /\ Named(d, Reading(SubSeq(text'[e], 1, pos'[e] - 1)))
    BY DEF ReadingInv, Read, Named
  <2>1. e # c
    BY <1>9
  <2> QED
    BY <2>1, <1>6, <1>7, <1>9 DEF DirInv, ReadingInv, Read
<1>12. DirectoryIsThere'
  <2> SUFFICES ASSUME NEW e \in Callers, pos'[e] = 0, text'[e] # <<>>
               PROVE  /\ \/ Names(text[e]) \in dirs'
                         \/ ret'[e] = -1 /\ \E d \in refused'[e] : IsPrefix(d, Names(text[e]))
                      /\ ret'[e] = 0 => Names(text[e]) \in made'[e] \cap dirs'
                      /\ ret'[e] = -1 /\ Names(text[e]) \in made'[e] =>
                            Reading(text[e]).cur \in {<<>>, <<".">>}
    BY <1>6 DEF DirectoryIsThere
  <2>1. CASE e = c
    BY <2>1, <1>7, <1>8 DEF chars, r
  <2>2. CASE e # c
    BY <2>2, <1>6, <1>7, <1>9 DEF DirInv, DirectoryIsThere
  <2> QED
    BY <2>1, <2>2
<1> QED
  BY <1>10, <1>11, <1>12 DEF DirInv

\* Any number of processes, any paths, any failures of mkdir: when mkdir_p returns the
\* directory is there unless the system refused it this call or one above it, and its
\* answer is 0 exactly if its last mkdir made it.
THEOREM DirectoriesAreThere == DirSpec => []DirectoryIsThere
<1>1. DirInit => DirInv
  BY DEF DirInit, DirInv, DirTypeInv, ReadingInv, DirectoryIsThere, Text
<1>2. DirInv /\ [DirNext]_dirVars => DirInv'
  <2> SUFFICES ASSUME DirInv, [DirNext]_dirVars PROVE DirInv'
    OBVIOUS
  <2>1. CASE DirNext
    BY <2>1, CallDirInv, LoopDirInv, WholeDirInv DEF DirNext
  <2>2. CASE UNCHANGED dirVars
    BY <2>2 DEF dirVars, DirInv, DirTypeInv, ReadingInv, Read, Named, DirectoryIsThere
  <2> QED
    BY <2>1, <2>2
<1>3. DirInv => DirectoryIsThere
  BY DEF DirInv
<1> QED
  BY <1>1, <1>2, <1>3, PTL DEF DirSpec
=============================================================================
