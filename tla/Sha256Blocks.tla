----------------------------- MODULE Sha256Blocks -----------------------------
(***************************************************************************)
(* common/sha256: the blocks that sha256 feeds to sha256_transform.  The   *)
(* transform is opaque here; what can go wrong around it is the padding,   *)
(* which is built in one buffer that is never cleared.                     *)
(***************************************************************************)
EXTENDS Integers, Sequences, SequencesExt

CONSTANTS
    BlockLen,   \* bytes of a block: 64 in the code
    LengthLen   \* bytes of the length at its end: 8 in the code

ASSUME BlockAssumption ==
    /\ LengthLen \in Nat \ {0}
    /\ BlockLen \in Nat /\ BlockLen > LengthLen

Zeros(n) == [i \in 1..n |-> 0]

\* The bit length, most significant byte first: the last byte, bitLen >>= 8, and so on.
BitLength(len) ==
    LET bitLen[j \in 0..LengthLen] == IF j = 0 THEN len * 8 ELSE bitLen[j - 1] \div 256
    IN  [i \in 1..LengthLen |-> bitLen[LengthLen - i] % 256]

\* Bytes written into the buffer from position p on.
Write(block, p, bytes) ==
    [i \in 1..BlockLen |-> IF i \in p..(p + Len(bytes) - 1) THEN bytes[i - p + 1] ELSE block[i]]

\* Faulty variant of LengthDoesNotFit: off by one.
LengthBarelyFits(rem) == rem > BlockLen - LengthLen + 1

\* if (rem > 56)
LengthDoesNotFit(rem) == rem > BlockLen - LengthLen

\* The blocks of a message; garbage is what the buffer holds at first.
Blocks(data, garbage) ==
    LET full   == Len(data) \div BlockLen
        whole  == [i \in 1..full |-> SubSeq(data, (i - 1) * BlockLen + 1, i * BlockLen)]
        tail   == Append(SubSeq(data, full * BlockLen + 1, Len(data)), 128)
        rem    == Len(tail)
        first  == Write(IF full = 0 THEN garbage ELSE whole[full], 1, tail)
        spill  == Write(first, rem + 1, Zeros(BlockLen - rem))
        final  == IF LengthDoesNotFit(rem) THEN Write(spill, 1, Zeros(BlockLen - LengthLen))
                  ELSE Write(first, rem + 1, Zeros(BlockLen - LengthLen - rem))
    IN  whole \o (IF LengthDoesNotFit(rem) THEN <<spill>> ELSE <<>>)
        \o <<Write(final, BlockLen - LengthLen + 1, BitLength(Len(data)))>>

\* The padding of the standard (FIPS 180-4, 5.1.1): a one bit, the fewest zeros that fill
\* whole blocks, the length.
Padded(data) ==
    LET zeros == CHOOSE z \in 0..(BlockLen - 1) : (Len(data) + 1 + z + LengthLen) % BlockLen = 0
    IN  data \o <<128>> \o Zeros(zeros) \o BitLength(Len(data))

=============================================================================
