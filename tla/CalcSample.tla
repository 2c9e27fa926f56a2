----------------------------- MODULE CalcSample -----------------------------
(***************************************************************************)
(* CalcSample, FPS and Bitrate (native/base/calc_sample.hpp, fps.hpp,      *)
(* bitrate.hpp): a ring of NB_SAMPLE samples, each the time since the last *)
(* update and a size, with a running sum of them.  Every TIME_INTERVAL,    *)
(* update() divides by the average of the samples: FPS in floating point,  *)
(* Bitrate in integers. A definition whose comment says "Fault" is used by *)
(* nothing (see README, "Faults").                                         *)
(***************************************************************************)
EXTENDS Integers, SequencesExt

CONSTANTS Class,           \* "FPS" or "Bitrate"
          NB_SAMPLE, TIME_INTERVAL,
          Sizes,           \* sizes given to Bitrate::update
          MaxTick,         \* bound: the clock stops here
          MaxUpdates       \* bound: samples taken

ASSUME CalcSampleAssumption ==
    /\ Class \in {"FPS", "Bitrate"}
    /\ NB_SAMPLE \in Nat \ {0}
    /\ TIME_INTERVAL \in Nat /\ TIME_INTERVAL >= NB_SAMPLE
    /\ Sizes \subseteq Nat
    /\ MaxTick \in Nat /\ MaxUpdates \in Nat

VARIABLES index, samples, sampleSum,
          lastTick, hasUpdateTick,
          rate,        \* currentFPS or currentBitrate, as the pair it is the quotient of
          trapped,     \* the integer division by zero happened
          taken        \* every sample there ever was, oldest first

vars == <<index, samples, sampleSum, lastTick, hasUpdateTick, rate, trapped, taken>>

Ticks  == 0..MaxTick
None   == [size |-> 0, tick |-> 1]

Average(sum, n) == [tick |-> sum.tick \div n, size |-> sum.size \div n]

Init ==
    /\ index = 0 /\ samples = <<>>
    /\ sampleSum = [tick |-> 0, size |-> 0]
    /\ lastTick = 0 /\ hasUpdateTick = 0
    /\ rate = None /\ trapped = FALSE
    /\ taken = <<>>

-----------------------------------------------------------------------------
Plus(sum, s)  == [tick |-> sum.tick + s.tick, size |-> sum.size + s.size]
Minus(sum, s) == [tick |-> sum.tick - s.tick, size |-> sum.size - s.size]

Full == Len(samples) = NB_SAMPLE

\* updateSample: what leaves the sum of a full ring is the new sample, not the
\* one whose place it takes.  (Fault: nothing leaves.)
SumGrows(s)   == Plus(sampleSum, s)
SumOf(s)      == Plus(IF Full THEN Minus(sampleSum, s) ELSE sampleSum, s)
RingWith(s)   == IF Full THEN [samples EXCEPT ![index + 1] = s] ELSE Append(samples, s)

UpdateSample(s) ==
    /\ samples'   = RingWith(s)
    /\ sampleSum' = SumOf(s)
    /\ index'     = (index + 1) % NB_SAMPLE
    /\ taken'     = Append(taken, s)

\* (Fault: the interval is measured from zero.)
FirstUpdateUnmarked(tick) ==
    /\ lastTick = 0
    /\ lastTick' = tick
    /\ UNCHANGED <<index, samples, sampleSum, hasUpdateTick, rate, trapped, taken>>

\* The first update only sets the clock; zero stands for "not yet".
FirstUpdate(tick) ==
    /\ lastTick = 0
    /\ lastTick' = tick /\ hasUpdateTick' = tick
    /\ UNCHANGED <<index, samples, sampleSum, rate, trapped, taken>>

\* The divisor is the average tick: zero traps in Bitrate, and is infinity in FPS.
Report(d) ==
    IF Class = "Bitrate" /\ d.tick = 0
    THEN trapped' = TRUE /\ UNCHANGED rate
    ELSE rate' = d /\ UNCHANGED trapped

Update(tick, size) ==
    /\ lastTick # 0 /\ Len(taken) < MaxUpdates
    /\ UpdateSample([tick |-> tick - lastTick, size |-> size])
    /\ lastTick' = tick
    /\ IF tick - hasUpdateTick >= TIME_INTERVAL
       THEN /\ hasUpdateTick' = tick
            /\ Report(Average(sampleSum', Len(samples')))
       ELSE UNCHANGED <<hasUpdateTick, rate, trapped>>

\* tick is the time of the call: it never goes back.
Next ==
    /\ ~trapped
    /\ \E tick \in (Ticks \ {0}), size \in (IF Class = "Bitrate" THEN Sizes ELSE {0}) :
          tick >= lastTick /\ (FirstUpdate(tick) \/ Update(tick, size))

Spec == Init /\ [][Next]_vars

-----------------------------------------------------------------------------
Total(seq) == FoldLeft(Plus, [tick |-> 0, size |-> 0], seq)

\* The ring holds the latest samples: those since it was last at index 0, and
\* before them what is left of the round before.
RingHoldsLatest ==
    LET n == Len(samples)
        latest == SubSeq(taken, Len(taken) - n + 1, Len(taken))
    IN /\ n = IF Len(taken) < NB_SAMPLE THEN Len(taken) ELSE NB_SAMPLE
       /\ latest = IF n < NB_SAMPLE THEN samples
                   ELSE SubSeq(samples, index + 1, n) \o SubSeq(samples, 1, index)

\* sampleSum is the total of the samples until the ring is full, and from then on
\* stays the total of the first NB_SAMPLE: later samples are cached and never
\* counted.
SumOfFirstRound ==
    sampleSum = Total(IF Len(taken) <= NB_SAMPLE THEN taken ELSE SubSeq(taken, 1, NB_SAMPLE))

\* The cache and what the average is made of part ways after the first round: the
\* ring turns on, the sum stands still.
RingAndSum == RingHoldsLatest /\ SumOfFirstRound

\* Bitrate's integer division cannot trap before the ring has wrapped: over a
\* TIME_INTERVAL of at least NB_SAMPLE ticks the average tick is positive.
NoTrapInFirstRound == trapped => Len(taken) > NB_SAMPLE

\* calc_sample.hpp:13 has NB_SAMPLE samples cached for the average, so the sum that
\* is divided by their number is the sum of the samples in the cache.
SumOfCachedSamples == sampleSum = Total(samples)
=============================================================================
