---------------------------- MODULE SerializeAtom ----------------------------
(***************************************************************************)
(* How classic/clvm/serialize.rs writes an atom and reads it back: the     *)
(* header that carries the atom's size, and the number the header's bytes  *)
(* stand for (casts.rs int_from_bytes).  A byte is a number below 256.     *)
(* Writing atoms of 2^27 bytes and more, with a header of five, is left    *)
(* out.                                                                    *)
(***************************************************************************)
EXTENDS Integers, Sequences, SequencesExt

\* The first byte of a header of n bytes, without the bits of the size: as many
\* ones as the header has bytes.
Marker == <<128, 192, 224, 240, 248, 252, 254, 255>>

\* atom_size_blob, for an atom that needs a header.
Header(size) ==
  IF size < 64 THEN <<Marker[1] + size>>
  ELSE IF size < 8192 THEN <<Marker[2] + size \div 256, size % 256>>
  ELSE IF size < 1024 * 1024
  THEN <<Marker[3] + size \div (256 * 256), (size \div 256) % 256, size % 256>>
  ELSE <<Marker[4] + size \div (256 * 256 * 256), (size \div (256 * 256)) % 256, (size \div 256) % 256, size % 256>>

\* atom_size_blob and the atom behind it: nil is 80, a byte below 80 is itself.
WriteAtom(bytes) ==
  IF bytes = <<>> THEN <<128>>
  ELSE IF Len(bytes) = 1 /\ bytes[1] <= 127 THEN bytes
  ELSE Header(Len(bytes)) \o bytes

\* The leading ones of a header's first byte.
bit_count(b) == CHOOSE n \in 1..8 : b >= Marker[n] /\ (n = 8 \/ b < Marker[n + 1])

\* get_u32 takes its four bytes lowest first.
get_u32(b) == b[1] + 256 * (b[2] + 256 * (b[3] + 256 * b[4]))

\* Up to three bytes, highest first.
Leading(b) ==
  IF b = <<>> THEN 0
  ELSE IF Len(b) = 1 THEN b[1]
  ELSE IF Len(b) = 2 THEN 256 * b[1] + b[2]
  ELSE 256 * 256 * b[1] + 256 * b[2] + b[3]

\* int_from_bytes: a word of four bytes at the end, if there are as many, and
\* the bytes left in front of it.  Up to seven bytes here.
int_from_bytes(b) ==
  LET n == Len(b)
  IN IF n < 4 THEN Leading(b)
     ELSE 256 * 256 * (256 * 256 * Leading(SubSeq(b, 1, n - 4))) + get_u32(SubSeq(b, n - 3, n))

\* The size a header stands for.
ReadSize(header) == int_from_bytes([header EXCEPT ![1] = @ - Marker[bit_count(@)]])

\* 2^34, the size an atom must be below.
TooLarge(size) == size \div (1024 * 1024 * 1024) >= 16
=============================================================================
