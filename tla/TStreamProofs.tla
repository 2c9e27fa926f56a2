---------------------------- MODULE TStreamProofs ----------------------------
(***************************************************************************)
(* Proofs about PES::writePayload of TStream, for frames of any lengths    *)
(* and adaptation fields of any lengths.                                   *)
(***************************************************************************)
EXTENDS TStream, TLAPS

IInv == TypeOK /\ AccountInv

\* The length of a frame's head is a number.
LEMMA HeadType ==
    ASSUME NEW f \in Frame
    PROVE  f.body \in Nat /\ Head(f) \in Nat
BY TStreamAssumption DEF Frame, Head

\* IInv holds when the second user starts.
LEMMA InitInv == Init => IInv
<1> SUFFICES ASSUME Init PROVE IInv
    OBVIOUS
<1>1. source.body \in Nat /\ Head(source) \in Nat
    BY HeadType DEF Init
<1>2. TypeOK
    BY <1>1 DEF Init, TypeOK, PES_HEADER_LEN
<1>3. AccountInv
    BY DEF Init, AccountInv
<1> QED BY <1>2, <1>3 DEF IInv

\* Whatever a packet carries, it takes from left what it adds to offset, except for
\* the prefix of the first one.
LEMMA PayloadInv ==
    ASSUME IInv, NEW field \in FieldLens, WritePayload(field)
    PROVE  IInv'
<1> DEFINE len == TS_PACKET_SIZE - TS_HEADER_LEN - field - Prefix
<1>1. field \in Nat /\ source.body \in Nat /\ Head(source) \in Nat
    BY HeadType, TStreamAssumption DEF IInv, TypeOK
<1>2. /\ Prefix = IF start THEN 35 + Head(source) ELSE 0
      /\ Prefix \in Nat /\ len \in Int
    BY <1>1 DEF Prefix, SizeofPES, PTS_LEN, TS_PACKET_SIZE, TS_HEADER_LEN
<1>3. len >= 0 /\ left > 0 /\ user = "sending" /\ UNCHANGED <<asserts, source>>
    BY DEF WritePayload
<1>4. CASE left' = left - Taken(field, len) /\ offset' = offset + len
           /\ start' = FALSE /\ user' = user
           /\ (asserts => Asserted(TS_PACKET_SIZE, TS_PACKET_SIZE))
  <2>1. ~asserts
      BY <1>4 DEF Asserted, TS_PACKET_SIZE
  <2>2. /\ Taken(field, len) = IF field = 0 THEN 184 ELSE Prefix + len
        /\ len = 184 - field - Prefix
      BY <1>1, <1>2 DEF Taken, TS_PACKET_SIZE, TS_HEADER_LEN
  <2>3. Taken(field, len) = Prefix + len /\ Taken(field, len) <= 184
      BY <2>2, <1>1, <1>2
  <2>4. TypeOK'
      <3>1. left' \in Int /\ offset' \in Int
          BY <1>4, <1>2, <2>3 DEF IInv, TypeOK
      <3> HIDE DEF len
      <3>2. asserts' \in BOOLEAN /\ start' \in BOOLEAN
          BY <1>4, <1>3 DEF IInv, TypeOK
      <3>3. source' \in Frame /\ user' \in {"sending", "sent", "aborted"}
          BY <1>4, <1>3 DEF IInv, TypeOK
      <3> QED BY <3>1, <3>2, <3>3 DEF TypeOK
  <2>5. left' + offset' = source.body - 21
      <3>1. CASE start
          BY <3>1, <1>1, <1>2, <1>4, <2>3 DEF IInv, TypeOK, AccountInv, PES_HEADER_LEN
      <3>2. CASE ~start
          BY <3>2, <1>1, <1>2, <1>4, <2>3 DEF IInv, TypeOK, AccountInv, SizeofPES
      <3> QED BY <3>1, <3>2
  <2>6. left' > -184
      BY <1>1, <1>2, <1>3, <1>4, <2>3 DEF IInv, TypeOK
  <2>7. AccountInv'
      BY <1>3, <1>4, <2>1, <2>5, <2>6 DEF AccountInv, SizeofPES
  <2> QED BY <2>4, <2>7 DEF IInv
<1>5. CASE user' = "aborted" /\ UNCHANGED <<start, left, offset>>
  <2>1. TypeOK'
      BY <1>5, <1>3 DEF IInv, TypeOK
  <2>2. AccountInv'
      BY <1>5, <1>3 DEF IInv, AccountInv, Head
  <2> QED BY <2>1, <2>2 DEF IInv
<1> QED BY <1>4, <1>5 DEF WritePayload

\* The steps of the mux do not touch the second user; no step of his breaks IInv.
LEMMA NextInv == IInv /\ [Next]_vars => IInv'
<1> SUFFICES ASSUME IInv, [Next]_vars PROVE IInv'
    OBVIOUS
<1>1. CASE UNCHANGED userVars
    BY <1>1 DEF IInv, TypeOK, AccountInv, userVars, Head
<1>2. CASE MuxNext
  <2>1. UNCHANGED userVars
      BY <1>2 DEF MuxNext, NewTS, WriteTable, WriteFrame, Turn
  <2> QED BY <2>1, <1>1
<1>3. CASE \E field \in FieldLens : WritePayload(field)
    BY <1>3, PayloadInv
<1>4. CASE Sent
  <2>1. ~start
      <3>1. ASSUME start PROVE FALSE
        <4>1. source.body \in Nat /\ Head(source) \in Nat
            BY HeadType DEF IInv, TypeOK
        <4> QED BY <3>1, <4>1, <1>4 DEF Sent, IInv, AccountInv, PES_HEADER_LEN
      <3> QED BY <3>1
  <2>2. AccountInv'
      BY <1>4, <2>1 DEF Sent, IInv, AccountInv, Head
  <2> QED BY <1>4, <2>2 DEF Sent, IInv, TypeOK
<1>5. CASE UNCHANGED vars
    BY <1>5, <1>1 DEF vars
<1> QED BY <1>2, <1>3, <1>4, <1>5 DEF Next, UserNext

\* IInv holds for ever.
LEMMA Inv == Spec => []IInv
<1> QED BY InitInv, NextInv, PTL DEF Spec

\* For every frame and every way the adaptation fields cut it, the body ends at most
\* 21 bytes after the last byte that PES::writePayload sends, and at most 162 before.
THEOREM TailsBounded == Spec => []TailBounded
<1>1. IInv => TailBounded
  <2> SUFFICES ASSUME IInv, user = "sent" PROVE TailBounded
      BY DEF TailBounded
  <2>1. source.body \in Nat
      BY HeadType DEF IInv, TypeOK
  <2>2. left + offset = source.body - 21 /\ left \in -183..0 /\ offset \in Int
      BY DEF IInv, TypeOK, AccountInv, SizeofPES
  <2> QED BY <2>1, <2>2 DEF TailBounded, SizeofPES
<1> QED BY <1>1, Inv, PTL

\* In a build with assertions no packet of any frame is ever finished.
THEOREM AssertsStop == Spec => []AssertsStopPayload
<1>1. IInv => AssertsStopPayload
    BY DEF IInv, AccountInv, AssertsStopPayload
<1> QED BY <1>1, Inv, PTL

-----------------------------------------------------------------------------
\* In the loop there is something left to write: the header alone is.
MuxInv == payload_len \in Int /\ (thread = "frame" => payload_len > 0)

\* A packet of a frame has a PCR, so its turn changes neither thread nor payload_len.
LEMMA TurnKeeps ==
    ASSUME MuxInv, Turn
    PROVE  UNCHANGED <<thread, payload_len>>
BY DEF MuxInv, Turn, WritePacket, AdaptationField, HasPcr

\* MuxInv is preserved by every step.
LEMMA MuxInvStep == MuxInv /\ [Next]_vars => MuxInv'
<1> SUFFICES ASSUME MuxInv, [Next]_vars PROVE MuxInv'
    OBVIOUS
<1>1. CASE NewTS
    BY <1>1 DEF NewTS, MuxInv
<1>2. ASSUME NEW p \in {"PAT", "PMT"}, WriteTable(p) PROVE MuxInv'
    BY <1>2 DEF WriteTable, WritePacket, MuxInv
<1>3. ASSUME NEW f \in Frame, WriteFrame(f) PROVE MuxInv'
    BY <1>3, HeadType DEF WriteFrame, MuxInv, PES_HEADER_LEN
<1>4. CASE Turn
    BY <1>4, TurnKeeps DEF MuxInv
<1>5. CASE UserNext
    BY <1>5 DEF UserNext, WritePayload, Sent, muxVars, MuxInv
<1>6. CASE UNCHANGED vars
    BY <1>6 DEF vars, muxVars, MuxInv
<1> QED BY <1>1, <1>2, <1>3, <1>4, <1>5, <1>6 DEF Next, MuxNext

\* writeFrame() never returns, for any frame.
THEOREM FrameNeverReturns == Spec => FrameHoldsThread
<1>1. Init => MuxInv
    BY DEF Init, MuxInv
<1>2. MuxInv /\ [Next]_vars => [thread = "frame" => thread' = "frame" /\ payload_len' = payload_len]_vars
  <2> SUFFICES ASSUME MuxInv, Next, thread = "frame" PROVE UNCHANGED <<thread, payload_len>>
      OBVIOUS
  <2>1. CASE Turn
      BY <2>1, TurnKeeps
  <2>2. CASE UserNext
      BY <2>2 DEF UserNext, WritePayload, Sent, muxVars
  <2> QED BY <2>1, <2>2 DEF Next, MuxNext, NewTS, WriteTable, WriteFrame
<1> QED BY <1>1, <1>2, MuxInvStep, PTL DEF Spec, FrameHoldsThread
=============================================================================
