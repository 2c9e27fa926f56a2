------------------------------- MODULE TStream -------------------------------
(***************************************************************************)
(* The transport stream mux: TSMux and TStream (native/tscore) over Buffer *)
(* and Packet (native/base).  Bytes are counted, not kept.                 *)
(*                                                                         *)
(* There are two users.  One has a TStream: newTS(), writePAT(),           *)
(* writePMT() and TSMux::write(), which is writeFrame().  The other calls  *)
(* the public PES::writePayload on buffers of its own, packet after        *)
(* packet, as long as payload_len is positive, which is the loop of        *)
(* writeFrame().  A definition whose comment says "Fault" is used by       *)
(* nothing (see README, "Faults").                                         *)
(***************************************************************************)
EXTENDS Integers

CONSTANTS BodyLens, HeadLens,   \* lengths of the body and the head of a frame
          FieldLens             \* lengths of the adaptation fields of the second user

ASSUME TStreamAssumption ==
    /\ BodyLens \subseteq Nat /\ HeadLens \subseteq Nat /\ FieldLens \subseteq Nat

TS_PACKET_SIZE == 188
TS_HEADER_LEN  == 4
PES_HEADER_LEN == 6 + 3 + 5
PTS_LEN        == 5
SizeofPES      == 24      \* with the members of Packet and the pointer to its virtuals

Frame == [type : {"None", "NonKeyFrameVideo", "KeyFrameVideo", "Audio"},
          body : BodyLens, head : HeadLens]

Head(f)   == IF f.type = "KeyFrameVideo" THEN f.head ELSE 0
Stream(f) == IF f.type = "Audio" THEN "audio" ELSE "video"

VARIABLES
    made,        \* newTS() has set header, adp, pat, pmt and pes
    thread,      \* "idle", "frame" in the loop of writeFrame, or "crashed"
    frame,       \* the frame it writes
    payload_len, \* pes->payload_len
    header,      \* what changes in *header: whose pid, and continuity_counter
    counter,     \* audioWriteCounter and videoWriteCounter
    asserts,     \* the build of the second user has no NDEBUG
    source,      \* its frame
    start,       \* its header's payload_unit_start_indicator
    left,        \* its payload_len
    offset,      \* source->body->offsetIndex_
    user         \* "sending", "sent" or "aborted"

muxVars  == <<made, thread, frame, payload_len, header, counter>>
userVars == <<asserts, source, start, left, offset, user>>
vars     == <<muxVars, userVars>>

NoFrame == [type |-> "None", body |-> 0, head |-> 0]

Init ==
    /\ made = FALSE /\ thread = "idle" /\ frame = NoFrame /\ payload_len = 0
    /\ header = [pid |-> "none", cc |-> 0]
    /\ counter = [s \in {"audio", "video"} |-> 0]
    /\ asserts \in BOOLEAN /\ source \in Frame
    /\ start = TRUE /\ offset = 0 /\ user = "sending"
    /\ left = source.body + PES_HEADER_LEN + Head(source)

-----------------------------------------------------------------------------
(* TStream *)

NewTS ==
    /\ thread = "idle"
    /\ made' = TRUE /\ payload_len' = 0 /\ header' = [pid |-> "none", cc |-> 0]
    /\ UNCHANGED <<thread, frame, counter, userVars>>

\* Only PES has has_pcr and adp_filling.  (Fault: no packet has a PCR.)
HasPcrNever(p) == FALSE
HasPcr(p)      == p = "PES"

\* adaptation_field_control, of which only "no field" goes on.
AdaptationField(p, len) ==
    HasPcr(p) \/ (p = "PES" /\ len # 0 /\ TS_HEADER_LEN + len < TS_PACKET_SIZE)

\* writePacket: a packet with an adaptation field is given up after its header, and
\* the result is not looked at; any other calls packet->type(), and
\* the constructor of every packet has zeroed the pointer to its virtuals.
WritePacket(p, len) ==
    IF AdaptationField(p, len) THEN UNCHANGED thread ELSE thread' = "crashed"

\* header is null before newTS().
WriteTable(p) ==
    /\ thread = "idle"
    /\ IF made THEN WritePacket(p, 0) ELSE thread' = "crashed"
    /\ header' = IF made /\ p = "PMT" THEN [header EXCEPT !.pid = "pmt"] ELSE header
    /\ UNCHANGED <<made, frame, payload_len, counter, userVars>>

WriteFrame(f) ==
    /\ thread = "idle"
    /\ IF made THEN /\ thread' = "frame" /\ frame' = f
                    /\ payload_len' = f.body + PES_HEADER_LEN + Head(f)
               ELSE thread' = "crashed" /\ UNCHANGED <<frame, payload_len>>
    /\ UNCHANGED <<made, header, counter, userVars>>

NextCounter(n) == IF n + 1 = 16 THEN 0 ELSE n + 1

\* A turn of the loop: the counter is spent whether the packet is written or not.
Turn ==
    /\ thread = "frame"
    /\ IF payload_len > 0
       THEN LET s == Stream(frame)
            IN /\ header' = [pid |-> s, cc |-> counter[s]]
               /\ counter' = [counter EXCEPT ![s] = NextCounter(@)]
               /\ WritePacket("PES", payload_len)
       ELSE thread' = "idle" /\ UNCHANGED <<header, counter>>
    /\ UNCHANGED <<made, frame, payload_len, userVars>>

-----------------------------------------------------------------------------
(* PES::writePayload *)

\* What it writes before the body: start code and length, a whole PES, the time
\* stamp, and the head of a key frame.
Prefix == IF start THEN 6 + SizeofPES + PTS_LEN + Head(source) ELSE 0

\* What it takes off payload_len for len bytes of the body.  (Fault: of a packet
\* without adaptation field, only these.)
TakenBody(field, len) == (IF field = 0 THEN 0 ELSE Prefix) + len
Taken(field, len)     == IF field = 0 THEN 184 ELSE Prefix + len

\* Buffer::setOffsetIndex.  (Fault: the end of the buffer is an offset.)
AssertsToTheEnd(value, len) == 0 <= value /\ value <= len
Asserted(value, len)        == 0 <= value /\ value < len

\* field is the length of the packet's adaptation field.  The body is copied from
\* its offset to the end of the packet, however much of it there is; both offsets
\* are moved past what was copied, that of the packet to its end.  Reading past the
\* body may end the program.  A prefix that does not fit is outside the contract.
WritePayload(field) ==
    LET len  == TS_PACKET_SIZE - TS_HEADER_LEN - field - Prefix
        held == /\ start => Asserted(0, source.body)
                /\ Asserted(offset + len, source.body)
                /\ Asserted(TS_PACKET_SIZE, TS_PACKET_SIZE)
    IN /\ user = "sending" /\ left > 0 /\ len >= 0
       /\ \/ /\ asserts => held
             /\ left' = left - Taken(field, len)
             /\ offset' = offset + len
             /\ start' = FALSE
             /\ UNCHANGED user
          \/ /\ (asserts /\ ~held) \/ offset + len > source.body
             /\ user' = "aborted"
             /\ UNCHANGED <<start, left, offset>>
       /\ UNCHANGED <<asserts, source, muxVars>>

Sent ==
    /\ user = "sending" /\ left <= 0
    /\ user' = "sent"
    /\ UNCHANGED <<asserts, source, start, left, offset, muxVars>>

-----------------------------------------------------------------------------
MuxNext ==
    \/ NewTS
    \/ \E p \in {"PAT", "PMT"} : WriteTable(p)
    \/ \E f \in Frame : WriteFrame(f)
    \/ Turn

UserNext == (\E field \in FieldLens : WritePayload(field)) \/ Sent

Next == MuxNext \/ UserNext

Spec == Init /\ [][Next]_vars

-----------------------------------------------------------------------------
(* Properties *)

\* writeFrame() never returns: no packet of a frame gets past the adaptation field
\* that writePacket() chose for it, so payload_len stays what it is, although
\* tstream.hpp:97 has a PES fill its last packet with that field.
FrameHoldsThread ==
    [][thread = "frame" => thread' = "frame" /\ payload_len' = payload_len]_vars

\* A build with assertions never finishes a packet of PES::writePayload, whatever
\* frame and buffer it is given.
AssertsStopPayload == asserts => start /\ offset = 0 /\ user # "sent"

\* PES_HEADER_LEN counts the 3 bytes of an optional PES header where a whole
\* SizeofPES is written: when payload_len is used up, up to 21 bytes of the body
\* have not been sent, or up to 162 bytes after its end have; never more, however
\* the adaptation fields cut the frame.
TailBounded ==
    user = "sent" => offset - source.body \in -(SizeofPES - 3)..(183 - (SizeofPES - 3))

TypeOK ==
    /\ asserts \in BOOLEAN /\ start \in BOOLEAN
    /\ source \in Frame /\ left \in Int /\ offset \in Int
    /\ user \in {"sending", "sent", "aborted"}

\* The invariant behind the two: what is left and what was sent add up to the body
\* less the bytes the header was not counted with.
AccountInv ==
    /\ start  => offset = 0 /\ left = source.body + PES_HEADER_LEN + Head(source)
    /\ ~start => left + offset = source.body - (SizeofPES - 3) /\ left > -184
    /\ user = "sent" => ~start /\ left <= 0
    /\ asserts => start
=============================================================================
