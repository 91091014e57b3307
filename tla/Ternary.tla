------------------------------- MODULE Ternary -------------------------------
(***************************************************************************)
(* The I2_S format of the base models (src/src/tensor.cpp): weights that   *)
(* are -1, 0 or 1 times a scale, two bits each.  A block of 4 * Group      *)
(* weights takes Group bytes: a byte holds one weight of each quarter of   *)
(* the block.  The last block may be short.  The scale is left out.        *)
(*                                                                         *)
(* Weights and bytes are counted from 0, as in the code.                   *)
(***************************************************************************)
EXTENDS Integers

CONSTANT Group    \* 32 in the code

ASSUME GroupAssumption == Group \in Nat \ {0}

Block == 4 * Group

\* n_blocks
Blocks(n) == (n + Block - 1) \div Block

\* data.size() of a tensor of n weights: the blocks and the scale.
PackedBytes(n) == Blocks(n) * Group + 4

\* block_n, and cols0 to cols3: how many weights of quarter k the block has.
BlockLen(n, b) == IF n - b * Block < Block THEN n - b * Block ELSE Block
Columns(m, k) ==
    IF m >= (k + 1) * Group THEN Group
    ELSE IF m > k * Group THEN m - k * Group ELSE 0

\* tensor_quantize_i2_s: the code of a weight, with what is almost 0 taken
\* for 0.
Code(w) == IF w = 0 THEN 1 ELSE IF w > 0 THEN 2 ELSE 0

\* Mutant of Field: a byte holds four weights that follow each other.
FieldInOrder(ws, n, j, k) ==
    LET b == j \div Group
        g == j % Group
    IN  IF 4 * g + k < BlockLen(n, b) THEN Code(ws[b * Block + 4 * g + k]) ELSE 0

\* The code of quarter k in byte j.
Field(ws, n, j, k) ==
    LET b == j \div Group
        g == j % Group
    IN  IF g < Columns(BlockLen(n, b), k) THEN Code(ws[b * Block + k * Group + g]) ELSE 0

Pack(ws, n) ==
    [j \in 0 .. Blocks(n) * Group - 1 |->
        64 * Field(ws, n, j, 0) + 16 * Field(ws, n, j, 1)
            + 4 * Field(ws, n, j, 2) + Field(ws, n, j, 3)]

\* map2bit
Value(c) == CASE c = 0 -> -1 [] c = 2 -> 1 [] OTHER -> 0

\* Quarter k of a byte.
FieldOf(byte, k) ==
    CASE k = 0 -> byte \div 64
      [] k = 1 -> (byte \div 16) % 4
      [] k = 2 -> (byte \div 4) % 4
      [] k = 3 -> byte % 4

\* tensor_dequantize_i2_s_to_floats
Unpack(bytes, n) ==
    [i \in 0 .. n - 1 |->
        LET b == i \div Block
            k == (i % Block) \div Group
            g == i % Group
        IN  IF g < Columns(BlockLen(n, b), k)
            THEN Value(FieldOf(bytes[b * Group + g], k)) ELSE 0]

\* The sign of every weight comes back, also in a short block.
SignsComeBack(ws, n) ==
    \A i \in 0 .. n - 1 : Unpack(Pack(ws, n), n)[i] = Value(Code(ws[i]))

=============================================================================
