------------------------------ MODULE AACParse ------------------------------
(***************************************************************************)
(* The ADTS header of an AAC frame (native/base/aac_parse.hpp): seven      *)
(* bytes made into one number, and its fields cut out by shifts and masks. *)
(* A number is the set of the positions of its one bits.  A definition     *)
(* whose comment says "Fault" is used by nothing (see README, "Faults").   *)
(***************************************************************************)
EXTENDS Integers, FiniteSets, SequencesExt

CONSTANT MaxOnes      \* bound: one bits in the header

VARIABLE pData        \* the bytes

Bytes == 0..6
Bits  == 0..7

AdtsInit == pData = [i \in Bytes |-> {}]

ShiftLeft(n, s)  == {b + s : b \in n}
ShiftRight(n, s) == {b - s : b \in {c \in n : c >= s}}
Low(n, width)    == {b \in n : b < width}

\* The number both functions build first.
Adts == FoldLeft(LAMBDA n, i : ShiftLeft(n, 8) \cup pData[i], {}, [i \in 1..7 |-> i - 1])

\* Every field: its shift, the width of its mask and that of its member.  syncword
\* has no mask; that of aac_frame_length is a bit wider than the member.
Field(name, shift, mask, member) ==
    [name |-> name, shift |-> shift, mask |-> mask, member |-> member]

\* (Fault: the length is shifted as far as it is masked.)
VariableHeaderShifted ==
    <<Field("copyright_identification_bit", 27, 1, 1),
      Field("copyright_identification_start", 26, 1, 1),
      Field("aac_frame_length", 14, 14, 13),
      Field("adts_buffer_fullness", 2, 11, 11),
      Field("number_of_raw_data_blocks_in_frame", 0, 2, 2)>>

AdtsVariableHeader ==
    <<Field("copyright_identification_bit", 27, 1, 1),
      Field("copyright_identification_start", 26, 1, 1),
      Field("aac_frame_length", 13, 14, 13),
      Field("adts_buffer_fullness", 2, 11, 11),
      Field("number_of_raw_data_blocks_in_frame", 0, 2, 2)>>

AdtsFixedHeader ==
    <<Field("syncword", 44, 64, 12), Field("id", 43, 1, 1), Field("layer", 41, 2, 2),
      Field("protection_absent", 40, 1, 1), Field("profile", 38, 2, 2),
      Field("sampling_frequency_index", 34, 4, 4), Field("private_bit", 33, 1, 1),
      Field("channel_configuration", 30, 3, 3), Field("original_copy", 29, 1, 1),
      Field("home", 28, 1, 1)>>

Parsed(f) == Low(Low(ShiftRight(Adts, f.shift), f.mask), f.member)

-----------------------------------------------------------------------------
Ones == {one \in Bytes \X Bits : one[2] \in pData[one[1]]}

SetBit ==
    /\ Cardinality(Ones) < MaxOnes
    /\ \E i \in Bytes, b \in Bits : pData' = [pData EXCEPT ![i] = @ \cup {b}]

AdtsSpec == AdtsInit /\ [][SetBit]_pData

-----------------------------------------------------------------------------
\* Where the k-th field of the whole header starts, counted from its first bit.
AdtsHeader == AdtsFixedHeader \o AdtsVariableHeader
StartOf(k) == FoldLeft(LAMBDA n, f : n + f.member, 0, SubSeq(AdtsHeader, 1, k - 1))

\* The bits of the header that a field has taken over, by their places in it.
SeenIn(k) == {StartOf(k) + AdtsHeader[k].member - 1 - b : b \in Parsed(AdtsHeader[k])}

\* The fields are in the header one after the other, first bit first: put together
\* at the widths of their members they are the bits of the bytes, and none is lost.
FieldsAreTheHeader ==
    /\ StartOf(Len(AdtsHeader) + 1) = 56
    /\ UNION {SeenIn(k) : k \in DOMAIN AdtsHeader} = {8 * one[1] + 7 - one[2] : one \in Ones}
=============================================================================
