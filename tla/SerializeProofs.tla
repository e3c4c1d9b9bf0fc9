--------------------------- MODULE SerializeProofs ---------------------------
(***************************************************************************)
(* For all values with atoms of less than 2^27 bytes and for everything    *)
(* that may become of a stream on its way: what the reader of serialize.rs *)
(* makes of it.                                                            *)
(***************************************************************************)
EXTENDS Serialize, FiniteSetTheorems, SequenceTheorems, WellFoundedInduction, NaturalsInduction, TLAPS

Byte == 0..255
Number == Nat

(***************************************************************************)
(* The header of an atom.                                                  *)
(***************************************************************************)

\* The first byte tells the number of bytes of the header.
LEMMA BitCount ==
  ASSUME NEW b \in Byte, NEW n \in 1..8, b >= Marker[n], n = 8 \/ b < Marker[n + 1]
  PROVE  bit_count(b) = n
<1> DEFINE Is(m) == b >= Marker[m] /\ (m = 8 \/ b < Marker[m + 1])
<1>1. \A m \in 1..8 : Is(m) => m = n
  BY DEF Marker, Byte
<1>2. Is(n)
  OBVIOUS
<1>3. bit_count(b) = CHOOSE m \in 1..8 : Is(m)
  BY DEF bit_count
<1> HIDE DEF Is
<1> QED
  BY <1>1, <1>2, <1>3

\* A byte that is not an atom itself begins with one to eight ones.
LEMMA BitCountIn ==
  ASSUME NEW b \in Byte, b >= 128
  PROVE  /\ bit_count(b) \in 1..8
         /\ b >= Marker[bit_count(b)]
         /\ b # 255 => bit_count(b) < 8
<1>1. \E n \in 1..8 : b >= Marker[n] /\ (n = 8 \/ b < Marker[n + 1])
  BY DEF Marker, Byte
<1>2. PICK n \in 1..8 : b >= Marker[n] /\ (n = 8 \/ b < Marker[n + 1])
  BY <1>1
<1>3. bit_count(b) = n
  BY <1>2, BitCount
<1> QED
  BY <1>2, <1>3 DEF Marker, Byte

\* Seq(Byte) and Seq(Number) stay folded for the provers.
LEMMA Bytes == \A x \in Byte : x \in Nat /\ x <= 255
  BY DEF Byte

LEMMA BytesAreNumbers == Byte \subseteq Number
  BY DEF Byte, Number

LEMMA Numbers == \A x : x \in Number <=> x \in Nat
  BY DEF Number

\* Bytes stand for a natural number.
LEMMA LeadingIn ==
  ASSUME NEW b \in Seq(Number), NEW n \in 0..3, Len(b) = n
  PROVE  Leading(b) \in Nat
<1>1. \A i \in 1..n : b[i] \in Nat
  <2>1. \A i \in 1..n : b[i] \in Number
    BY ElementOfSeq
  <2> QED
    BY <2>1, Numbers
<1>2. n = 0 <=> b = <<>>
  BY EmptySeq
<1>3. CASE n = 0
  BY <1>2, <1>3 DEF Leading
<1>4. CASE n = 1
  <2>1. b[1] \in Nat
    BY <1>1, <1>4
  <2>2. Leading(b) = b[1]
    BY <1>2, <1>4 DEF Leading
  <2> QED
    BY <2>1, <2>2
<1>5. CASE n = 2
  <2>1. b[1] \in Nat /\ b[2] \in Nat
    BY <1>1, <1>5
  <2>2. Leading(b) = 256 * b[1] + b[2]
    BY <1>2, <1>5 DEF Leading
  <2> QED
    BY <2>1, <2>2
<1>6. CASE n = 3
  <2>1. b[1] \in Nat /\ b[2] \in Nat /\ b[3] \in Nat
    BY <1>1, <1>6
  <2>2. Leading(b) = 256 * 256 * b[1] + 256 * b[2] + b[3]
    BY <1>2, <1>6 DEF Leading
  <2> QED
    BY <2>1, <2>2
<1> QED
  BY <1>3, <1>4, <1>5, <1>6

LEMMA IntFromBytes ==
  ASSUME NEW b \in Seq(Number), NEW n \in 0..7, Len(b) = n
  PROVE  int_from_bytes(b) \in Nat
<1>1. CASE n < 4
  <2>1. n \in 0..3
    BY <1>1
  <2>2. int_from_bytes(b) = Leading(b)
    BY <1>1 DEF int_from_bytes
  <2> QED
    BY <2>1, <2>2, LeadingIn
<1>2. CASE n >= 4
  <2> DEFINE front == SubSeq(b, 1, n - 4)
             rest == SubSeq(b, n - 3, n)
  <2>1. front \in Seq(Number) /\ Len(front) = n - 4
    BY <1>2
  <2>2. /\ rest[1] \in Number /\ rest[2] \in Number
        /\ rest[3] \in Number /\ rest[4] \in Number
    BY <1>2
  <2>3. n - 4 \in 0..3
    BY <1>2
  <2>4. int_from_bytes(b) = 256 * 256 * (256 * 256 * Leading(front)) + get_u32(rest)
    BY <1>2 DEF int_from_bytes
  <2> HIDE DEF front, rest
  <2>5. Leading(front) \in Nat
    BY <2>1, <2>3, LeadingIn
  <2>6. rest[1] \in Nat /\ rest[2] \in Nat /\ rest[3] \in Nat /\ rest[4] \in Nat
    BY <2>2, Numbers
  <2>7. get_u32(rest) \in Nat
    <3>1. \A i, j \in Nat : i + 256 * j \in Nat
      OBVIOUS
    <3>2. rest[3] + 256 * rest[4] \in Nat
      BY <2>6, <3>1
    <3>3. rest[2] + 256 * (rest[3] + 256 * rest[4]) \in Nat
      BY <2>6, <3>1, <3>2
    <3>4. rest[1] + 256 * (rest[2] + 256 * (rest[3] + 256 * rest[4])) \in Nat
      BY <2>6, <3>1, <3>3
    <3> QED
      BY <3>4 DEF get_u32
  <2> QED
    BY <2>4, <2>5, <2>7
<1> QED
  BY <1>1, <1>2

\* So does a header.
LEMMA ReadSizeIn ==
  ASSUME NEW h \in Seq(Byte), NEW n \in 1..7, Len(h) = n, h[1] >= 128
  PROVE  ReadSize(h) \in Nat
<1> DEFINE b == h[1]
           less == b - Marker[bit_count(b)]
           g == [h EXCEPT ![1] = less]
<1>1. b \in Byte /\ b >= 128
  BY ElementOfSeq
<1>2. bit_count(b) \in 1..8 /\ b >= Marker[bit_count(b)]
  BY <1>1, BitCountIn
<1>3. less \in Number
  <2>1. b \in Nat
    BY <1>1, Bytes
  <2>2. Marker[bit_count(b)] \in Nat
    BY <1>2 DEF Marker
  <2>3. less \in Nat
    BY <1>2, <2>1, <2>2
  <2> QED
    BY <2>3, Numbers
<1>4. h \in Seq(Number)
  BY BytesAreNumbers, SeqMonotonic
<1>5. 1 \in 1..Len(h)
  BY n \in 1..7
<1>6. ReadSize(h) = int_from_bytes(g)
  BY DEF ReadSize
<1> HIDE DEF b, less
<1>7. g \in Seq(Number) /\ Len(g) = n
  BY <1>3, <1>4, <1>5, ExceptSeq
<1> HIDE DEF g
<1>8. n \in 0..7
  OBVIOUS
<1>9. int_from_bytes(g) \in Nat
  BY <1>7, <1>8, IntFromBytes
<1> QED
  BY <1>6, <1>9

\* The header of an atom of less than 2^20 bytes: its first byte, which is not
\* the mark of a pair, tells its length, and it is read as the atom's size.
LEMMA HeaderReadsBack ==
  ASSUME NEW n \in Nat, n > 0, n < 1024 * 1024
  PROVE  /\ Header(n) \in Seq(Byte)
         /\ Len(Header(n)) \in 1..3
         /\ Header(n)[1] \in 129..254
         /\ bit_count(Header(n)[1]) = Len(Header(n))
         /\ ReadSize(Header(n)) = n
<1>1. CASE n < 64
  <2> DEFINE b == 128 + n
  <2>1. Header(n) = <<b>>
    BY <1>1 DEF Header, Marker
  <2>2. b \in 129..191 /\ b \in Byte
    BY <1>1 DEF Byte
  <2>3. bit_count(b) = 1
    BY <2>2, BitCount DEF Marker
  <2>4. ReadSize(<<b>>) = n
    <3>1. [<<b>> EXCEPT ![1] = @ - Marker[bit_count(@)]] = <<n>>
      BY <2>3 DEF Marker
    <3>2. int_from_bytes(<<n>>) = n
      BY DEF int_from_bytes, Leading
    <3> QED
      BY <3>1, <3>2 DEF ReadSize
  <2> HIDE DEF b
  <2> QED
    BY <2>1, <2>2, <2>3, <2>4
<1>2. CASE n >= 64 /\ n < 8192
  <2> DEFINE b == 192 + n \div 256
             c == n % 256
  <2>1. Header(n) = <<b, c>>
    BY <1>2 DEF Header, Marker
  <2>2. b \in 192..223 /\ b \in Byte /\ c \in Byte /\ n = 256 * (n \div 256) + c
    BY <1>2 DEF Byte
  <2>3. bit_count(b) = 2
    BY <2>2, BitCount DEF Marker
  <2>4. ReadSize(<<b, c>>) = n
    <3>1. [<<b, c>> EXCEPT ![1] = @ - Marker[bit_count(@)]] = <<n \div 256, c>>
      <4>1. b - Marker[bit_count(b)] = n \div 256
        BY <2>2, <2>3 DEF Marker
      <4> HIDE DEF b, c
      <4> QED
        BY <4>1
    <3>2. int_from_bytes(<<n \div 256, c>>) = n
      <4> HIDE DEF c
      <4> QED
        BY <2>2 DEF int_from_bytes, Leading
    <3> HIDE DEF b, c
    <3> QED
      BY <3>1, <3>2 DEF ReadSize
  <2> HIDE DEF b, c
  <2> QED
    BY <2>1, <2>2, <2>3, <2>4
<1>3. CASE n >= 8192
  <2> DEFINE a == n \div (256 * 256)
             b == 224 + a
             c == (n \div 256) % 256
             d == n % 256
  <2>1. Header(n) = <<b, c, d>>
    BY <1>3 DEF Header, Marker
  <2>2. b \in 224..239 /\ b \in Byte /\ c \in Byte /\ d \in Byte
    BY <1>3 DEF Byte
  <2>5. n = 256 * 256 * a + 256 * c + d
    BY <1>3
  <2>3. bit_count(b) = 3
    BY <2>2, BitCount DEF Marker
  <2>4. ReadSize(<<b, c, d>>) = n
    <3>1. [<<b, c, d>> EXCEPT ![1] = @ - Marker[bit_count(@)]] = <<a, c, d>>
      <4>1. b - Marker[bit_count(b)] = a
        BY <2>2, <2>3 DEF Marker
      <4> HIDE DEF a, b, c, d
      <4> QED
        BY <4>1
    <3>2. int_from_bytes(<<a, c, d>>) = n
      <4> HIDE DEF a, c, d
      <4> QED
        BY <2>5 DEF int_from_bytes, Leading
    <3> HIDE DEF a, b, c, d
    <3> QED
      BY <3>1, <3>2 DEF ReadSize
  <2> HIDE DEF a, b, c, d
  <2> QED
    BY <2>1, <2>2, <2>3, <2>4
<1> QED
  BY <1>1, <1>2, <1>3

(***************************************************************************)
(* Atoms in a stream.                                                      *)
(***************************************************************************)

\* The header's first byte and the bytes behind it.
LEMMA HeaderInStream ==
  ASSUME stream \in Seq(Byte), NEW L \in Nat, Len(stream) = L,
         NEW at \in Nat, NEW more \in Nat, at + more <= L, NEW b \in Byte
  PROVE  LET h == <<b>> \o SubSeq(stream, at + 1, at + more)
         IN /\ h \in Seq(Byte)
            /\ Len(h) = more + 1
            /\ h[1] = b
            /\ \A i \in 1..more : h[i + 1] = stream[at + i]
<1> DEFINE piece == SubSeq(stream, at + 1, at + more)
           h == <<b>> \o piece
<1>1. \A i \in (at + 1)..(at + more) : stream[i] \in Byte
  <2>1. \A i \in (at + 1)..(at + more) : i \in 1..L
    OBVIOUS
  <2> QED
    BY <2>1, ElementOfSeq
<1>2. /\ piece \in Seq(Byte)
      /\ Len(piece) = more
      /\ \A i \in 1..more : piece[i] = stream[at + i]
  <2>1. /\ piece \in Seq(Byte)
        /\ Len(piece) = IF at + 1 <= at + more THEN (at + more) - (at + 1) + 1 ELSE 0
        /\ \A i \in 1..((at + more) - (at + 1) + 1) : piece[i] = stream[(at + 1) + i - 1]
    BY <1>1, SubSeqProperties
  <2>2. \A i \in 1..more : (at + 1) + i - 1 = at + i
    OBVIOUS
  <2> QED
    BY <2>1, <2>2
<1> HIDE DEF piece
<1>3. <<b>> \in Seq(Byte) /\ Len(<<b>>) = 1 /\ <<b>>[1] = b
  OBVIOUS
<1>4. /\ h \in Seq(Byte)
      /\ Len(h) = 1 + more
      /\ \A i \in 1..(1 + more) : h[i] = IF i <= 1 THEN <<b>>[i] ELSE piece[i - 1]
  BY <1>2, <1>3, ConcatProperties
<1> HIDE DEF h
<1>5. h[1] = b
  BY <1>3, <1>4
<1>6. ASSUME NEW i \in 1..more PROVE h[i + 1] = stream[at + i]
  <2>1. i + 1 \in 1..(1 + more) /\ ~(i + 1 <= 1) /\ (i + 1) - 1 = i
    OBVIOUS
  <2> QED
    BY <1>2, <1>4, <2>1
<1>7. Len(h) = more + 1
  BY <1>4
<1> QED
  BY <1>4, <1>5, <1>6, <1>7 DEF h, piece

\* What is read in place of an atom's bytes, and how far the reader goes.
LEMMA AtomShape ==
  ASSUME stream \in Seq(Byte), NEW L \in Nat, Len(stream) = L,
         NEW at \in 1..L, NEW b \in Byte, b # 255
  PROVE  LET a == atom_from_stream(b, at)
         IN /\ a.to \in at..L
            /\ a.val = NoValue \/ \E x \in Seq(Byte) : a.val = Atom(x)
<1> DEFINE more   == bit_count(b) - 1
           header == <<b>> \o SubSeq(stream, at + 1, at + more)
           size   == ReadSize(header)
           start  == at + more
<1>b. b \in Nat /\ b <= 255
  BY Bytes
<1>1. CASE b <= 127
  <2>1. atom_from_stream(b, at) = [val |-> Atom(<<b>>), to |-> at]
    BY <1>1 DEF atom_from_stream
  <2>2. <<b>> \in Seq(Byte)
    OBVIOUS
  <2>3. \E x \in Seq(Byte) : Atom(<<b>>) = Atom(x)
    BY <2>2
  <2>4. at \in at..L
    OBVIOUS
  <2> QED
    BY <2>1, <2>3, <2>4
<1>2. CASE b = 128
  <2>1. atom_from_stream(b, at) = [val |-> Atom(<<>>), to |-> at]
    BY <1>2 DEF atom_from_stream
  <2>2. <<>> \in Seq(Byte)
    OBVIOUS
  <2>3. \E x \in Seq(Byte) : Atom(<<>>) = Atom(x)
    BY <2>2
  <2>4. at \in at..L
    OBVIOUS
  <2> QED
    BY <2>1, <2>3, <2>4
<1>3. CASE b > 128
  <2>1. more \in 0..6 /\ b >= 128
    BY <1>3, <1>b, BitCountIn
  <2>2. CASE at + more > L
    <3>1. Available(more, at) = L - at /\ L - at # more
      BY <2>1, <2>2 DEF Available
    <3>2. atom_from_stream(b, at) = [val |-> NoValue, to |-> at + Available(more, at)]
      <4>1. ~(b <= 127) /\ b # 128
        BY <1>3, <1>b
      <4> QED
        BY <3>1, <4>1 DEF atom_from_stream
    <3> HIDE DEF more
    <3> QED
      BY <3>1, <3>2
  <2>3. CASE at + more <= L
    <3>1. Available(more, at) = more
      BY <2>1, <2>3 DEF Available
    <3>2. /\ header \in Seq(Byte)
          /\ Len(header) = more + 1
          /\ header[1] = b
      <4> HIDE DEF more
      <4> QED
        BY <2>1, <2>3, HeaderInStream
    <3>3. size \in Nat
      <4>1. more + 1 \in 1..7
        BY <2>1
      <4> HIDE DEF more, header
      <4> QED
        BY <2>1, <3>2, <4>1, ReadSizeIn
    <3>4. start \in at..L
      <4> HIDE DEF more
      <4> QED
        BY <2>1, <2>3
    <3>5. ~(b <= 127) /\ b # 128
      BY <1>3, <1>b
    <3>6. CASE TooLarge(size)
      <4>1. atom_from_stream(b, at) = [val |-> NoValue, to |-> start]
        BY <3>1, <3>5, <3>6 DEF atom_from_stream
      <4> HIDE DEF start
      <4> QED
        BY <3>4, <4>1
    <3>7. CASE ~TooLarge(size) /\ start + size > L
      <4> HIDE DEF size, start
      <4>1. Available(size, start) = L - start /\ L - start # size
        BY <3>3, <3>4, <3>7 DEF Available
      <4>2. atom_from_stream(b, at) = [val |-> NoValue, to |-> start + Available(size, start)]
        BY <3>1, <3>5, <3>7, <4>1 DEF atom_from_stream, size, start
      <4>3. start + (L - start) \in at..L
        BY <3>4
      <4> QED
        BY <4>1, <4>2, <4>3
    <3>8. CASE ~TooLarge(size) /\ start + size <= L
      <4> DEFINE x == SubSeq(stream, start + 1, start + size)
      <4> HIDE DEF size, start
      <4>1. Available(size, start) = size
        BY <3>3, <3>4, <3>8 DEF Available
      <4>2. atom_from_stream(b, at) = [val |-> Atom(x), to |-> start + size]
        BY <3>1, <3>5, <3>8, <4>1 DEF atom_from_stream, size, start
      <4>3. start + size \in at..L
        BY <3>3, <3>4, <3>8
      <4>4. x \in Seq(Byte)
        <5>1. \A i \in (start + 1)..(start + size) : i \in 1..L
          BY <3>3, <3>4, <3>8
        <5>2. \A i \in (start + 1)..(start + size) : stream[i] \in Byte
          BY <5>1, ElementOfSeq
        <5>3. start + 1 \in Int /\ start + size \in Int
          BY <3>3, <3>4
        <5> QED
          BY <5>2, <5>3, SubSeqProperties
      <4> HIDE DEF x
      <4> QED
        BY <4>2, <4>3, <4>4
    <3>9. start + size <= L \/ start + size > L
      <4> HIDE DEF size, start
      <4> QED
        BY <3>3, <3>4
    <3> QED
      BY <3>6, <3>7, <3>8, <3>9
  <2> QED
    BY <2>1, <2>2, <2>3
<1> QED
  BY <1>1, <1>2, <1>3, <1>b

\* One sequence behind another.
LEMMA Joins ==
  ASSUME NEW S, NEW s \in Seq(S), NEW t \in Seq(S),
         NEW m \in Nat, NEW n \in Nat, Len(s) = m, Len(t) = n
  PROVE  /\ s \o t \in Seq(S)
         /\ Len(s \o t) = m + n
         /\ \A i \in 1..m : (s \o t)[i] = s[i]
         /\ \A i \in 1..n : (s \o t)[m + i] = t[i]
<1> DEFINE u == s \o t
<1>1. /\ u \in Seq(S)
      /\ Len(u) = m + n
      /\ \A i \in 1..(m + n) : u[i] = IF i <= m THEN s[i] ELSE t[i - m]
  BY ConcatProperties
<1> HIDE DEF u
<1>2. \A i \in 1..m : u[i] = s[i]
  BY <1>1
<1>3. ASSUME NEW i \in 1..n PROVE u[m + i] = t[i]
  <2>1. m + i \in 1..(m + n) /\ ~(m + i <= m) /\ (m + i) - m = i
    OBVIOUS
  <2> QED
    BY <1>1, <2>1
<1> QED
  BY <1>1, <1>2, <1>3 DEF u

\* The sizes an atom may have here, and the sizes that are read back.
Fits(x) == Len(x) < 128 * 1024 * 1024
Short(x) == Len(x) < 1024 * 1024

\* The header of an atom that fits.
LEMMA HeaderShape ==
  ASSUME NEW n \in Nat, n > 0, n < 128 * 1024 * 1024
  PROVE  Header(n) \in Seq(Byte) /\ \E m \in 1..4 : Len(Header(n)) = m
<1>1. CASE n < 1024 * 1024
  BY <1>1, HeaderReadsBack
<1>2. CASE ~(n < 1024 * 1024)
  <2> DEFINE a == 240 + n \div (256 * 256 * 256)
             b == (n \div (256 * 256)) % 256
             c == (n \div 256) % 256
             d == n % 256
  <2>1. Header(n) = <<a, b, c, d>>
    BY <1>2 DEF Header, Marker
  <2>2. a \in Byte /\ b \in Byte /\ c \in Byte /\ d \in Byte
    BY <1>2 DEF Byte
  <2> HIDE DEF a, b, c, d
  <2>3. <<a, b, c, d>> \in Seq(Byte) /\ Len(<<a, b, c, d>>) = 4
    BY <2>2
  <2> QED
    BY <2>1, <2>3
<1> QED
  BY <1>1, <1>2

\* What is written in place of an atom.
LEMMA WriteAtomShape ==
  ASSUME NEW x \in Seq(Byte), Fits(x)
  PROVE  WriteAtom(x) \in Seq(Byte) /\ \E k \in Nat \ {0} : Len(WriteAtom(x)) = k
<1>0. PICK n \in Nat : Len(x) = n
  BY LenProperties
<1>1. CASE x = <<>>
  <2>1. WriteAtom(x) = <<128>>
    BY <1>1 DEF WriteAtom
  <2>2. 128 \in Byte
    BY DEF Byte
  <2>3. <<128>> \in Seq(Byte) /\ Len(<<128>>) = 1
    BY <2>2
  <2> QED
    BY <2>1, <2>3
<1>2. CASE x # <<>> /\ Len(x) = 1 /\ x[1] <= 127
  <2>1. WriteAtom(x) = x
    BY <1>2 DEF WriteAtom
  <2> QED
    BY <1>2, <2>1
<1>3. CASE x # <<>> /\ ~(Len(x) = 1 /\ x[1] <= 127)
  <2>1. n > 0
    BY <1>0, <1>3, EmptySeq
  <2>2. n < 128 * 1024 * 1024
    BY <1>0 DEF Fits
  <2>3. WriteAtom(x) = Header(n) \o x
    BY <1>0, <1>3 DEF WriteAtom
  <2> DEFINE h == Header(n)
  <2>4. h \in Seq(Byte) /\ \E m \in 1..4 : Len(h) = m
    BY <2>1, <2>2, HeaderShape
  <2> HIDE DEF h
  <2>5. PICK m \in 1..4 : Len(h) = m
    BY <2>4
  <2>6. m \in Nat /\ m + n \in Nat \ {0}
    OBVIOUS
  <2>7. h \o x \in Seq(Byte) /\ Len(h \o x) = m + n
    BY <1>0, <2>4, <2>5, <2>6, Joins
  <2> QED
    BY <2>3, <2>6, <2>7 DEF h
<1> QED
  BY <1>1, <1>2, <1>3

\* A piece of a sequence, element by element.
LEMMA PieceIs ==
  ASSUME NEW S, NEW s \in Seq(S), NEW L \in Nat, Len(s) = L,
         NEW at \in Nat, NEW n \in Nat, at + n <= L,
         NEW x \in Seq(S), Len(x) = n, \A i \in 1..n : s[at + i] = x[i]
  PROVE  SubSeq(s, at + 1, at + n) = x
<1> DEFINE y == SubSeq(s, at + 1, at + n)
<1>1. \A i \in (at + 1)..(at + n) : s[i] \in S
  <2>1. \A i \in (at + 1)..(at + n) : i \in 1..L
    OBVIOUS
  <2> QED
    BY <2>1, ElementOfSeq
<1>2. /\ y \in Seq(S)
      /\ Len(y) = IF at + 1 <= at + n THEN (at + n) - (at + 1) + 1 ELSE 0
      /\ \A i \in 1..((at + n) - (at + 1) + 1) : y[i] = s[(at + 1) + i - 1]
  BY <1>1, SubSeqProperties
<1>3. (at + n) - (at + 1) + 1 = n /\ (at + 1 <= at + n <=> n > 0)
  OBVIOUS
<1>4. \A i \in 1..n : (at + 1) + i - 1 = at + i
  OBVIOUS
<1> HIDE DEF y
<1>5. Len(y) = n
  BY <1>2, <1>3
<1>6. \A i \in 1..n : y[i] = x[i]
  BY <1>2, <1>3, <1>4
<1>7. y = x
  BY <1>2, <1>5, <1>6, SeqEqual
<1> QED
  BY <1>7 DEF y

LEMMA HighBytes == \A i \in 129..254 : i \in Byte /\ i \in Nat /\ ~(i <= 127) /\ i # 128 /\ i # 255
  BY DEF Byte

\* w stands in the stream behind a place.
Stands(w, at) ==
  /\ at + Len(w) <= Len(stream)
  /\ \A i \in 1..Len(w) : stream[at + i] = w[i]

\* What stands there in one piece stands there in pieces.
LEMMA StandsInPieces ==
  ASSUME stream \in Seq(Byte), NEW at \in Nat,
         NEW v \in Seq(Byte), NEW w \in Seq(Byte), NEW m \in Nat, Len(v) = m,
         Stands(v \o w, at)
  PROVE  Stands(v, at) /\ Stands(w, at + m)
<1>1. PICK n \in Nat : Len(w) = n
  BY LenProperties
<1>2. PICK L \in Nat : Len(stream) = L
  BY LenProperties
<1> DEFINE u == v \o w
<1>3. /\ Len(u) = m + n
      /\ \A i \in 1..m : u[i] = v[i]
      /\ \A i \in 1..n : u[m + i] = w[i]
  <2>1. /\ Len(u) = m + n
        /\ \A i \in 1..(m + n) : u[i] = IF i <= m THEN v[i] ELSE w[i - m]
    BY <1>1, ConcatProperties
  <2> HIDE DEF u
  <2>2. ASSUME NEW i \in 1..m PROVE u[i] = v[i]
    <3>1. i \in 1..(m + n) /\ i <= m
      OBVIOUS
    <3> QED
      BY <2>1, <3>1
  <2>3. ASSUME NEW i \in 1..n PROVE u[m + i] = w[i]
    <3>1. m + i \in 1..(m + n) /\ ~(m + i <= m) /\ (m + i) - m = i
      OBVIOUS
    <3> QED
      BY <2>1, <3>1
  <2> QED
    BY <2>1, <2>2, <2>3
<1>4. Stands(u, at)
  OBVIOUS
<1> HIDE DEF u
<1>5. /\ at + (m + n) <= L
      /\ \A i \in 1..(m + n) : stream[at + i] = u[i]
  BY <1>2, <1>3, <1>4 DEF Stands
<1>6. ASSUME NEW i \in 1..m PROVE stream[at + i] = v[i]
  <2>1. i \in 1..(m + n)
    OBVIOUS
  <2> QED
    BY <1>3, <1>5, <2>1
<1>7. ASSUME NEW i \in 1..n PROVE stream[(at + m) + i] = w[i]
  <2>1. m + i \in 1..(m + n) /\ (at + m) + i = at + (m + i)
    OBVIOUS
  <2> QED
    BY <1>3, <1>5, <2>1
<1>8. at + m <= L /\ (at + m) + n <= L
  BY <1>5
<1> QED
  BY <1>1, <1>2, <1>6, <1>7, <1>8 DEF Stands

\* What stands behind a place is the piece that is cut out there.
LEMMA StandsIsCut ==
  ASSUME stream \in Seq(Byte), NEW at \in Nat, NEW n \in Nat,
         NEW x \in Seq(Byte), Len(x) = n, Stands(x, at)
  PROVE  SubSeq(stream, at + 1, at + n) = x /\ Available(n, at) = n
<1>1. PICK L \in Nat : Len(stream) = L
  BY LenProperties
<1>2. at + n <= L /\ \A i \in 1..n : stream[at + i] = x[i]
  BY <1>1 DEF Stands
<1>3. Available(n, at) = n
  BY <1>1, <1>2 DEF Available
<1> QED
  BY <1>1, <1>2, <1>3, PieceIs

\* A first byte and the bytes behind it.
LEMMA FirstAndRest ==
  ASSUME NEW S, NEW h \in Seq(S), NEW m \in Nat, Len(h) = m + 1
  PROVE  /\ h[1] \in S
         /\ SubSeq(h, 2, m + 1) \in Seq(S)
         /\ Len(SubSeq(h, 2, m + 1)) = m
         /\ h = <<h[1]>> \o SubSeq(h, 2, m + 1)
<1>1. 1 \in 1..Len(h) /\ m + 1 \in 1..Len(h)
  OBVIOUS
<1>2. h[1] \in S
  BY <1>1, ElementOfSeq
<1>3. SubSeq(h, 1, m + 1) = h
  BY SubSeqFull
<1>4. h = <<h[1]>> \o SubSeq(h, 2, m + 1)
  <2>1. SubSeq(h, 1, m + 1) = <<h[1]>> \o SubSeq(h, 1 + 1, m + 1)
    BY <1>1, SubSeqRecursiveFirst
  <2> QED
    BY <1>3, <2>1
<1>5. \A i \in 2..(m + 1) : h[i] \in S
  <2>1. \A i \in 2..(m + 1) : i \in 1..Len(h)
    OBVIOUS
  <2> QED
    BY <2>1, ElementOfSeq
<1>6. SubSeq(h, 2, m + 1) \in Seq(S) /\ Len(SubSeq(h, 2, m + 1)) = m
  BY <1>5, SubSeqProperties
<1> QED
  BY <1>2, <1>4, <1>6

\* An atom of less than 2^20 bytes is read back where it was written, and what
\* stands there is not taken for a pair.
LEMMA AtomReadsBack ==
  ASSUME stream \in Seq(Byte), NEW x \in Seq(Byte), Short(x),
         NEW w, w = WriteAtom(x), NEW k \in Nat, Len(w) = k,
         NEW at \in Nat, Stands(w, at)
  PROVE  /\ stream[at + 1] # 255
         /\ atom_from_stream(stream[at + 1], at + 1) = [val |-> Atom(x), to |-> at + k]
<1>0. PICK n \in Nat : Len(x) = n
  BY LenProperties
<1>1. CASE x = <<>>
  <2>1. w = <<128>> /\ k = 1
    BY <1>1 DEF WriteAtom
  <2>2. stream[at + 1] = 128
    BY <2>1 DEF Stands
  <2>3. atom_from_stream(128, at + 1) = [val |-> Atom(<<>>), to |-> at + 1]
    BY DEF atom_from_stream
  <2> QED
    BY <1>1, <2>1, <2>2, <2>3
<1>2. CASE x # <<>> /\ n = 1 /\ x[1] <= 127
  <2>1. w = x /\ k = 1
    BY <1>0, <1>2 DEF WriteAtom
  <2>2. stream[at + 1] = x[1]
    BY <2>1 DEF Stands
  <2>3. x[1] \in Nat
    BY <1>0, <1>2, ElementOfSeq, Bytes
  <2>4. x = <<x[1]>>
    BY <1>0, <1>2
  <2>5. atom_from_stream(x[1], at + 1) = [val |-> Atom(<<x[1]>>), to |-> at + 1]
    BY <1>2, <2>3 DEF atom_from_stream
  <2>6. x[1] # 255
    BY <1>2, <2>3
  <2> QED
    BY <2>1, <2>2, <2>4, <2>5, <2>6
<1>3. CASE x # <<>> /\ ~(n = 1 /\ x[1] <= 127)
  <2>1. n > 0
    BY <1>0, <1>3, EmptySeq
  <2>2. n < 1024 * 1024
    BY <1>0 DEF Short
  <2> DEFINE h == Header(n)
  <2>3. w = h \o x
    BY <1>0, <1>3 DEF WriteAtom
  <2>4. /\ h \in Seq(Byte)
        /\ Len(h) \in 1..3
        /\ h[1] \in 129..254
        /\ bit_count(h[1]) = Len(h)
        /\ ReadSize(h) = n
    BY <2>1, <2>2, HeaderReadsBack
  <2> HIDE DEF h
  <2>5. PICK m \in Nat : Len(h) = m + 1
    <3>1. PICK l \in 1..3 : Len(h) = l
      BY <2>4
    <3>2. l - 1 \in Nat /\ l = (l - 1) + 1
      OBVIOUS
    <3> QED
      BY <3>1, <3>2
  <2> DEFINE b == h[1]
             rest == SubSeq(h, 2, m + 1)
  <2>6. h = <<b>> \o rest /\ rest \in Seq(Byte) /\ Len(rest) = m
    BY <2>4, <2>5, FirstAndRest
  <2>7. b \in 129..254 /\ bit_count(b) = m + 1
    BY <2>4, <2>5
  <2>8. b \in Byte /\ b # 255 /\ ~(b <= 127) /\ b # 128
    <3> HIDE DEF b
    <3>1. PICK i \in 129..254 : i = b
      BY <2>7
    <3>2. i # 255 /\ ~(i <= 127) /\ i # 128
      OBVIOUS
    <3>3. i \in Byte
      BY HighBytes
    <3> QED
      BY <3>1, <3>2, <3>3
  <2> HIDE DEF b, rest
  <2>9. Stands(h, at) /\ Stands(x, at + (m + 1))
    <3>1. m + 1 \in Nat
      OBVIOUS
    <3>2. Stands(h \o x, at)
      BY <2>3
    <3> QED
      BY <2>4, <2>5, <3>1, <3>2, StandsInPieces
  <2>10. Stands(<<b>>, at) /\ Stands(rest, at + 1)
    <3>1. <<b>> \in Seq(Byte) /\ Len(<<b>>) = 1 /\ 1 \in Nat
      BY <2>8
    <3>2. Stands(<<b>> \o rest, at)
      BY <2>6, <2>9
    <3> QED
      BY <2>6, <3>1, <3>2, StandsInPieces
  <2>11. stream[at + 1] = b
    BY <2>10 DEF Stands
  <2>12. k = (m + 1) + n
    <3>1. m + 1 \in Nat
      OBVIOUS
    <3> QED
      BY <1>0, <2>3, <2>4, <2>5, <3>1, Joins
  <2> DEFINE from == at + 1
  <2>13. atom_from_stream(b, from) = [val |-> Atom(x), to |-> (from + m) + n]
    <3> DEFINE start == from + m
    <3>0. from \in Nat /\ start \in Nat /\ start = at + (m + 1)
      OBVIOUS
    <3>3. Stands(rest, from) /\ Stands(x, start)
      BY <2>9, <2>10, <3>0
    <3>4. start = from + m
      OBVIOUS
    <3> HIDE DEF from, start
    <3>1. SubSeq(stream, from + 1, from + m) = rest /\ Available(m, from) = m
      BY <2>6, <3>0, <3>3, StandsIsCut
    <3>5. SubSeq(stream, start + 1, start + n) = x /\ Available(n, start) = n
      BY <1>0, <3>0, <3>3, StandsIsCut
    <3>6. ~TooLarge(n)
      BY <2>2 DEF TooLarge
    <3>7. ~(b <= 127) /\ b # 128
      BY <2>8
    <3> DEFINE more   == bit_count(b) - 1
               header == <<b>> \o SubSeq(stream, from + 1, from + more)
               size   == ReadSize(header)
    <3>8. more = m
      BY <2>7
    <3>9. size = n
      BY <2>4, <2>6, <3>1, <3>8
    <3>10. from + more = start
      BY <3>4, <3>8
    <3> HIDE DEF more, size
    <3>11. atom_from_stream(b, from) = [val |-> Atom(SubSeq(stream, start + 1, start + size)), to |-> start + size]
      <4>1. Available(more, from) = more /\ ~TooLarge(size) /\ Available(size, start) = size
        BY <3>1, <3>5, <3>6, <3>8, <3>9
      <4>2. ~(Available(more, from) # more) /\ ~(Available(size, from + more) # size)
        BY <3>10, <4>1
      <4>3. atom_from_stream(b, from) =
              [val |-> Atom(SubSeq(stream, from + more + 1, from + more + size)), to |-> from + more + size]
        BY <3>7, <4>1, <4>2 DEF atom_from_stream, more, size
      <4> QED
        BY <3>10, <4>3
    <3> QED
      BY <3>4, <3>5, <3>9, <3>11
  <2>14. ((at + 1) + m) + n = at + k
    BY <2>12
  <2> QED
    BY <2>8, <2>11, <2>13, <2>14 DEF from
<1> QED
  BY <1>1, <1>2, <1>3

(***************************************************************************)
(* The stacks.                                                             *)
(***************************************************************************)

\* The top of a stack and what is under it.
LEMMA TopOf ==
  ASSUME NEW S, NEW s \in Seq(S), s # <<>>
  PROVE  /\ Last(s) \in S
         /\ Front(s) \in Seq(S)
         /\ \E n \in Nat : /\ Len(s) = n + 1 /\ Len(Front(s)) = n
                         /\ Last(s) = s[n + 1]
                         /\ \A i \in 1..n : Front(s)[i] = s[i]
<1>1. PICK m \in Nat \ {0} : Len(s) = m
  BY EmptySeq
<1>2. PICK n \in Nat : m = n + 1
  <2>1. m - 1 \in Nat /\ m = (m - 1) + 1
    OBVIOUS
  <2> QED
    BY <2>1
<1>3. Last(s) = s[n + 1]
  BY <1>1, <1>2 DEF Last
<1>4. Front(s) = SubSeq(s, 1, n)
  BY <1>1, <1>2 DEF Front
<1>5. \A i \in 1..(n + 1) : s[i] \in S
  BY <1>1, <1>2, ElementOfSeq
<1>6. /\ SubSeq(s, 1, n) \in Seq(S)
      /\ Len(SubSeq(s, 1, n)) = n
      /\ \A i \in 1..n : SubSeq(s, 1, n)[i] = s[i]
  BY <1>5, SubSeqProperties
<1>7. Last(s) \in S
  BY <1>3, <1>5
<1> QED
  BY <1>1, <1>2, <1>3, <1>4, <1>6, <1>7

\* What is put on a stack is on its top.
LEMMA PutOn ==
  ASSUME NEW S, NEW s \in Seq(S), NEW e \in S
  PROVE  /\ Append(s, e) \in Seq(S)
         /\ Append(s, e) # <<>>
         /\ Last(Append(s, e)) = e
         /\ Front(Append(s, e)) = s
<1>1. PICK n \in Nat : Len(s) = n
  BY LenProperties
<1> DEFINE t == Append(s, e)
<1>2. t \in Seq(S) /\ t # <<>> /\ Len(t) = n + 1 /\ t[n + 1] = e /\ \A i \in 1..n : t[i] = s[i]
  BY <1>1, AppendProperties
<1> HIDE DEF t
<1>3. Last(t) = e
  BY <1>2 DEF Last
<1>4. PICK m \in Nat : Len(t) = m + 1 /\ Len(Front(t)) = m /\ \A i \in 1..m : Front(t)[i] = t[i]
  BY <1>2, TopOf
<1>5. m = n
  BY <1>2, <1>4
<1>6. Front(t) \in Seq(S) /\ Len(Front(t)) = n /\ \A i \in 1..n : Front(t)[i] = s[i]
  BY <1>2, <1>4, <1>5, TopOf
<1>7. Front(t) = s
  BY <1>1, <1>6, SeqEqual
<1> QED
  BY <1>2, <1>3, <1>7 DEF t

IsSeq(s) == \E S : s \in Seq(S)

\* A value is put on the values.
LEMMA AppendValue ==
  ASSUME NEW s, IsSeq(s), NEW e
  PROVE  /\ IsSeq(Append(s, e))
         /\ \E n \in Nat : Len(s) = n /\ Len(Append(s, e)) = n + 1
<1>1. PICK S : s \in Seq(S)
  BY DEF IsSeq
<1> DEFINE T == S \cup {e}
<1>2. s \in Seq(T) /\ e \in T
  BY <1>1, SeqMonotonic
<1>3. Append(s, e) \in Seq(T) /\ Len(Append(s, e)) = Len(s) + 1
  BY <1>2, AppendProperties
<1>4. Len(s) \in Nat
  BY <1>1
<1> QED
  BY <1>3, <1>4 DEF IsSeq

\* Two values become one.
LEMMA JoinedShape ==
  ASSUME NEW s, IsSeq(s), NEW n \in Nat, Len(s) = n
  PROVE  /\ IsSeq(Joined(s))
         /\ \E m \in Nat : Len(Joined(s)) = m /\ m = (IF n < 2 THEN 0 ELSE n - 1)
<1>1. CASE n < 2
  <2>1. Joined(s) = <<>>
    BY <1>1 DEF Joined
  <2>2. Len(<<>>) = 0 /\ <<>> \in Seq({})
    BY EmptySeq
  <2> QED
    BY <1>1, <2>1, <2>2 DEF IsSeq
<1>2. CASE ~(n < 2)
  <2> DEFINE e == Pair(s[n - 1], s[n])
             t == SubSeq(s, 1, n - 2)
  <2>1. Joined(s) = Append(t, e)
    BY <1>2 DEF Joined
  <2>2. PICK S : s \in Seq(S)
    BY DEF IsSeq
  <2>3. \A i \in 1..(n - 2) : s[i] \in S
    <3>1. \A i \in 1..(n - 2) : i \in 1..Len(s)
      OBVIOUS
    <3> QED
      BY <2>2, <3>1, ElementOfSeq
  <2>4. t \in Seq(S) /\ Len(t) = n - 2
    <3>1. /\ t \in Seq(S)
          /\ Len(t) = IF 1 <= n - 2 THEN (n - 2) - 1 + 1 ELSE 0
      BY <2>3, SubSeqProperties
    <3> HIDE DEF t
    <3>2. (IF 1 <= n - 2 THEN (n - 2) - 1 + 1 ELSE 0) = n - 2
      BY <1>2
    <3> QED
      BY <3>1, <3>2
  <2> HIDE DEF t, e
  <2>5. PICK k \in Nat : IsSeq(Append(t, e)) /\ Len(t) = k /\ Len(Append(t, e)) = k + 1
    BY <2>4, AppendValue DEF IsSeq
  <2>6. k = n - 2 /\ k + 1 \in Nat /\ k + 1 = (IF n < 2 THEN 0 ELSE n - 1)
    BY <1>2, <2>4, <2>5
  <2> QED
    BY <2>1, <2>5, <2>6
<1> QED
  BY <1>1, <1>2

\* A pair of the two that were put on last.
LEMMA JoinedTwo ==
  ASSUME NEW s, IsSeq(s), NEW a, NEW d
  PROVE  Joined(Append(Append(s, a), d)) = Append(s, Pair(a, d))
<1>1. PICK R : s \in Seq(R)
  BY DEF IsSeq
<1> DEFINE S == R \cup {a, d}
<1>2. s \in Seq(S) /\ a \in S /\ d \in S
  BY <1>1, SeqMonotonic
<1> HIDE DEF S
<1>3. PICK n \in Nat : Len(s) = n
  BY <1>2, LenProperties
<1> DEFINE t == Append(s, a)
           u == Append(t, d)
<1>4. t \in Seq(S) /\ Len(t) = n + 1 /\ t[n + 1] = a /\ \A i \in 1..n : t[i] = s[i]
  BY <1>2, <1>3, AppendProperties
<1> HIDE DEF t
<1>5. u \in Seq(S) /\ Len(u) = n + 2 /\ u[n + 2] = d /\ \A i \in 1..(n + 1) : u[i] = t[i]
  <2>1. u \in Seq(S) /\ Len(u) = Len(t) + 1 /\ u[Len(t) + 1] = d /\ \A i \in 1..Len(t) : u[i] = t[i]
    BY <1>2, <1>4, AppendProperties
  <2>2. (n + 1) + 1 = n + 2
    OBVIOUS
  <2> HIDE DEF u
  <2> QED
    BY <1>4, <2>1, <2>2
<1> HIDE DEF u
<1>6. u[n + 1] = a /\ \A i \in 1..n : u[i] = s[i]
  BY <1>4, <1>5
<1>7. SubSeq(u, 1, n) = s
  <2>1. \A i \in 1..n : u[i] \in S
    <3>1. \A i \in 1..n : i \in 1..Len(s)
      BY <1>3
    <3>2. \A i \in 1..n : s[i] \in S
      BY <1>2, <3>1, ElementOfSeq
    <3> QED
      BY <1>6, <3>2
  <2>2. /\ SubSeq(u, 1, n) \in Seq(S)
        /\ Len(SubSeq(u, 1, n)) = n
        /\ \A i \in 1..n : SubSeq(u, 1, n)[i] = u[i]
    BY <2>1, SubSeqProperties
  <2> QED
    BY <1>2, <1>3, <1>6, <2>2, SeqEqual
<1>8. Joined(u) = Append(SubSeq(u, 1, (n + 2) - 2), Pair(u[(n + 2) - 1], u[n + 2]))
  BY <1>5 DEF Joined
<1>9. (n + 2) - 2 = n /\ (n + 2) - 1 = n + 1
  OBVIOUS
<1> QED
  BY <1>5, <1>6, <1>7, <1>8, <1>9 DEF u, t

(***************************************************************************)
(* Types.                                                                  *)
(***************************************************************************)

Ops == {"read", "cons"}

\* The reader's places and stacks.
Reader ==
  /\ stream \in Seq(Byte)
  /\ op_stack \in Seq(Ops)
  /\ IsSeq(val_stack)
  /\ \E v, L \in Nat : /\ Len(stream) = L /\ Len(val_stack) = v
                      /\ seek \in Nat /\ v <= seek /\ seek <= L

Typed ==
  /\ tree \in Trees
  /\ state \in Seq(Trees)
  /\ Reader
  /\ intact \in BOOLEAN
  /\ phase \in {"write", "read", "done"}
  /\ phase = "write" => seek = 0 /\ op_stack = <<"read">> /\ val_stack = <<>> /\ intact = TRUE
  /\ phase # "write" => state = <<>>
  /\ phase = "done" => op_stack = <<>>

\* A value and its parts.
LEMMA TreeShape ==
  ASSUME NEW t \in Trees
  PROVE  \/ t[1] = "atom" /\ t = Atom(t[2]) /\ t[2] \in Seq(Byte) /\ Fits(t[2])
         \/ t[1] # "atom" /\ t = Pair(t[2], t[3]) /\ t[2] \in Trees /\ t[3] \in Trees
  BY TreesAssumption DEF Byte, Fits

LEMMA InitTyped == SerializeInit => Typed
<1> SUFFICES ASSUME SerializeInit PROVE Typed
  OBVIOUS
<1>1. PICK t \in Trees : SerializeStart(t)
  BY DEF SerializeInit
<1>2. <<t>> \in Seq(Trees) /\ <<"read">> \in Seq(Ops)
  BY DEF Ops
<1>3. <<>> \in Seq(Byte) /\ Len(<<>>) = 0
  BY EmptySeq
<1>4. Reader
  <2>1. IsSeq(val_stack)
    BY <1>1, <1>3 DEF SerializeStart, IsSeq
  <2>2. Len(stream) = 0 /\ Len(val_stack) = 0 /\ seek = 0 /\ 0 \in Nat /\ 0 <= 0
    BY <1>1, <1>3 DEF SerializeStart
  <2>3. stream \in Seq(Byte) /\ op_stack \in Seq(Ops)
    BY <1>1, <1>2, <1>3 DEF SerializeStart
  <2> QED
    BY <2>1, <2>2, <2>3 DEF Reader
<1> QED
  BY <1>1, <1>2, <1>4 DEF Typed, SerializeStart

\* One more piece is written: the bytes of an atom or the mark of a pair.
Piece(t) == IF t[1] = "atom" THEN WriteAtom(t[2]) ELSE <<ConsMarker>>

\* What is left to be written after it.
Left(todo) ==
  LET t == Last(todo)
  IN IF t[1] = "atom" THEN Front(todo) ELSE Append(Append(Front(todo), t[3]), t[2])

LEMMA PieceShape ==
  ASSUME NEW t \in Trees
  PROVE  Piece(t) \in Seq(Byte) /\ \E k \in Nat \ {0} : Len(Piece(t)) = k
<1>1. CASE t[1] = "atom"
  BY <1>1, TreeShape, WriteAtomShape DEF Piece
<1>2. CASE t[1] # "atom"
  <2>1. Piece(t) = <<255>>
    BY <1>2 DEF Piece, ConsMarker
  <2>2. 255 \in Byte
    BY DEF Byte
  <2>3. <<255>> \in Seq(Byte) /\ Len(<<255>>) = 1
    BY <2>2
  <2> QED
    BY <2>1, <2>3
<1> QED
  BY <1>1, <1>2

LEMMA LeftShape ==
  ASSUME NEW todo \in Seq(Trees), todo # <<>>
  PROVE  Left(todo) \in Seq(Trees)
<1> DEFINE t == Last(todo)
<1>1. t \in Trees /\ Front(todo) \in Seq(Trees)
  BY TopOf
<1>2. CASE t[1] = "atom"
  BY <1>1, <1>2 DEF Left
<1>3. CASE t[1] # "atom"
  <2>1. t[2] \in Trees /\ t[3] \in Trees
    BY <1>1, <1>3, TreeShape
  <2>2. Left(todo) = Append(Append(Front(todo), t[3]), t[2])
    BY <1>3 DEF Left
  <2>3. Append(Front(todo), t[3]) \in Seq(Trees)
    BY <1>1, <2>1, PutOn
  <2>4. Append(Append(Front(todo), t[3]), t[2]) \in Seq(Trees)
    BY <2>1, <2>3, PutOn
  <2> QED
    BY <2>2, <2>4
<1> QED
  BY <1>2, <1>3

\* WriteNext in these words.
LEMMA WriteNextShape ==
  ASSUME Typed, WriteNext
  PROVE  /\ phase = "write" /\ state # <<>> /\ Last(state) \in Trees
         /\ stream' = stream \o Piece(Last(state))
         /\ state' = Left(state)
         /\ UNCHANGED <<tree, seek, op_stack, val_stack, intact, phase>>
<1> DEFINE t == Last(state)
<1>1. phase = "write" /\ state # <<>>
  BY DEF WriteNext
<1>2. t \in Trees /\ Front(state) \in Seq(Trees)
  BY <1>1, TopOf DEF Typed
<1>3. UNCHANGED <<tree, seek, op_stack, val_stack, intact, phase>>
  BY DEF WriteNext
<1>4. CASE t[1] = "atom"
  BY <1>1, <1>2, <1>3, <1>4 DEF WriteNext, Piece, Left
<1>5. CASE t[1] # "atom"
  <2>1. stream' = Append(stream, ConsMarker) /\ state' = Front(state) \o <<t[3], t[2]>>
    BY <1>5 DEF WriteNext
  <2>2. Append(stream, ConsMarker) = stream \o <<ConsMarker>>
    <3>1. stream \in Seq(Byte) /\ ConsMarker \in Byte
      BY DEF Typed, Reader, ConsMarker, Byte
    <3> QED
      BY <3>1, AppendIsConcat
  <2>3. t[2] \in Trees /\ t[3] \in Trees
    BY <1>2, <1>5, TreeShape
  <2>4. Front(state) \o <<t[3], t[2]>> = Append(Append(Front(state), t[3]), t[2])
    <3> DEFINE f == Front(state)
               a == t[3]
               d == t[2]
    <3>1. f \in Seq(Trees) /\ a \in Trees /\ d \in Trees
      BY <1>2, <2>3
    <3> HIDE DEF f, a, d
    <3>2. Append(f, a) \in Seq(Trees)
      BY <3>1, PutOn
    <3>3. Append(f, a) = f \o <<a>> /\ Append(Append(f, a), d) = Append(f, a) \o <<d>>
      BY <3>1, <3>2, AppendIsConcat
    <3>4. <<a>> \in Seq(Trees) /\ <<d>> \in Seq(Trees) /\ <<a>> \o <<d>> = <<a, d>>
      <4>1. <<a>> \in Seq(Trees) /\ <<d>> \in Seq(Trees)
        BY <3>1
      <4> DEFINE u == <<a>> \o <<d>>
                 w == <<a, d>>
      <4>2. u \in Seq(Trees) /\ Len(u) = 2 /\ u[1] = a /\ u[2] = d
        <5>1. /\ u \in Seq(Trees) /\ Len(u) = 1 + 1
              /\ \A i \in 1..(1 + 1) : u[i] = IF i <= 1 THEN <<a>>[i] ELSE <<d>>[i - 1]
          BY <4>1, ConcatProperties
        <5> HIDE DEF u
        <5> QED
          BY <5>1
      <4>3. w \in Seq(Trees) /\ Len(w) = 2 /\ w[1] = a /\ w[2] = d
        BY <3>1
      <4> HIDE DEF u, w
      <4>4. \A i \in 1..2 : u[i] = w[i]
        BY <4>2, <4>3
      <4>5. u = w
        BY <4>2, <4>3, <4>4, SeqEqual
      <4> QED
        BY <4>1, <4>5 DEF u, w
    <3>5. (f \o <<a>>) \o <<d>> = f \o (<<a>> \o <<d>>)
      BY <3>1, <3>4, ConcatAssociative
    <3>6. f \o <<a, d>> = Append(Append(f, a), d)
      BY <3>3, <3>4, <3>5
    <3> QED
      BY <3>6 DEF f, a, d
  <2> QED
    BY <1>1, <1>2, <1>3, <1>5, <2>1, <2>2, <2>4 DEF Piece, Left
<1> QED
  BY <1>4, <1>5

(***************************************************************************)
(* What OpReadSexp meets: the end of the stream, a pair or an atom.        *)
(***************************************************************************)
AtEnd ==
  /\ seek = Len(stream)
  /\ op_stack' = Front(op_stack) /\ seek' = seek /\ val_stack' = val_stack

AtPair ==
  /\ seek < Len(stream) /\ stream[seek + 1] = ConsMarker
  /\ op_stack' = Append(Append(Append(Front(op_stack), "cons"), "read"), "read")
  /\ seek' = seek + 1 /\ val_stack' = val_stack

Met == atom_from_stream(stream[seek + 1], seek + 1)

AtAtom ==
  /\ seek < Len(stream) /\ stream[seek + 1] # ConsMarker
  /\ op_stack' = Front(op_stack) /\ seek' = Met.to
  /\ val_stack' = IF Met.val = NoValue THEN val_stack ELSE Append(val_stack, Met.val)

LEMMA ThreeOn ==
  ASSUME NEW S, NEW f \in Seq(S), NEW a \in S, NEW b \in S, NEW c \in S,
         NEW n \in Nat, Len(f) = n
  PROVE  LET g == Append(Append(Append(f, a), b), c)
         IN /\ g \in Seq(S) /\ Len(g) = n + 3
            /\ g[n + 1] = a /\ g[n + 2] = b /\ g[n + 3] = c
            /\ \A i \in 1..n : g[i] = f[i]
<1> DEFINE g == Append(Append(Append(f, a), b), c)
<1> DEFINE p == Append(f, a)
           q == Append(p, b)
<1>1. p \in Seq(S) /\ Len(p) = n + 1 /\ p[n + 1] = a /\ \A i \in 1..n : p[i] = f[i]
  BY AppendProperties
<1> HIDE DEF p
<1>2. q \in Seq(S) /\ Len(q) = (n + 1) + 1 /\ q[(n + 1) + 1] = b /\ \A i \in 1..(n + 1) : q[i] = p[i]
  BY <1>1, AppendProperties
<1> HIDE DEF q
<1> DEFINE r == Append(q, c)
<1>3. /\ r \in Seq(S) /\ Len(r) = ((n + 1) + 1) + 1 /\ r[((n + 1) + 1) + 1] = c
      /\ \A i \in 1..((n + 1) + 1) : r[i] = q[i]
  BY <1>2, AppendProperties
<1>4. g = r
  BY DEF q, p
<1> HIDE DEF r, g
<1>5. (n + 1) + 1 = n + 2 /\ (n + 2) + 1 = n + 3
  OBVIOUS
<1>6. r[n + 1] = a
  BY <1>1, <1>2, <1>3
<1>7. r[n + 2] = b /\ r[n + 3] = c /\ Len(r) = n + 3
  BY <1>2, <1>3, <1>5
<1>8. \A i \in 1..n : r[i] = f[i]
  BY <1>1, <1>2, <1>3
<1> QED
  BY <1>3, <1>4, <1>6, <1>7, <1>8 DEF g

LEMMA ThreeOf ==
  ASSUME NEW S, NEW f \in Seq(S), NEW a \in S, NEW b \in S, NEW c \in S
  PROVE  f \o <<a, b, c>> = Append(Append(Append(f, a), b), c)
<1> DEFINE u == <<a, b, c>>
           g == Append(Append(Append(f, a), b), c)
           h == f \o u
<1>1. PICK n \in Nat : Len(f) = n
  BY LenProperties
<1>2. u \in Seq(S) /\ Len(u) = 3 /\ u[1] = a /\ u[2] = b /\ u[3] = c
  OBVIOUS
<1> HIDE DEF u
<1>3. /\ h \in Seq(S) /\ Len(h) = n + 3
      /\ \A i \in 1..(n + 3) : h[i] = IF i <= n THEN f[i] ELSE u[i - n]
  <2>1. /\ h \in Seq(S) /\ Len(h) = Len(f) + Len(u)
        /\ \A i \in 1..(Len(f) + Len(u)) : h[i] = IF i <= Len(f) THEN f[i] ELSE u[i - Len(f)]
    BY <1>2, ConcatProperties
  <2> HIDE DEF h
  <2> QED
    BY <1>1, <1>2, <2>1
<1> HIDE DEF h
<1>5. /\ g \in Seq(S) /\ Len(g) = n + 3
      /\ g[n + 1] = a /\ g[n + 2] = b /\ g[n + 3] = c
      /\ \A i \in 1..n : g[i] = f[i]
  BY <1>1, ThreeOn
<1> HIDE DEF g
<1>6. ASSUME NEW i \in 1..(n + 3) PROVE h[i] = g[i]
  <2>1. CASE i <= n
    <3>1. i \in 1..n
      BY <2>1
    <3> QED
      BY <1>3, <1>5, <2>1, <3>1
  <2>2. CASE i = n + 1
    BY <1>2, <1>3, <1>5, <2>2
  <2>3. CASE i = n + 2
    BY <1>2, <1>3, <1>5, <2>3
  <2>4. CASE i = n + 3
    BY <1>2, <1>3, <1>5, <2>4
  <2> QED
    BY <2>1, <2>2, <2>3, <2>4
<1>7. h = g
  BY <1>3, <1>5, <1>6, SeqEqual
<1> QED
  BY <1>7 DEF g, h, u

LEMMA ReadItemShape ==
  ASSUME Reader, ReadItem
  PROVE  /\ phase = "read" /\ op_stack # <<>> /\ Last(op_stack) = "read"
         /\ AtEnd \/ AtPair \/ AtAtom
         /\ UNCHANGED <<tree, state, stream, intact, phase>>
<1>1. PICK v, L \in Nat : Len(stream) = L /\ seek \in Nat /\ seek <= L
  BY DEF Reader
<1>2. phase = "read" /\ op_stack # <<>> /\ Last(op_stack) = "read"
  BY DEF ReadItem
<1>3. UNCHANGED <<tree, state, stream, intact, phase>>
  BY DEF ReadItem
<1>4. Available(1, seek) = 0 <=> seek = L
  BY <1>1 DEF Available
<1>5. CASE seek = L
  <2>1. AtEnd
    BY <1>1, <1>4, <1>5 DEF ReadItem, AtEnd
  <2> QED
    BY <1>2, <1>3, <2>1
<1>6. CASE seek # L /\ stream[seek + 1] = ConsMarker
  <2>1. seek < L
    BY <1>1, <1>6
  <2>2. op_stack' = Front(op_stack) \o <<"cons", "read", "read">> /\ seek' = seek + 1 /\ val_stack' = val_stack
    BY <1>1, <1>4, <1>6 DEF ReadItem
  <2>3. Front(op_stack) \in Seq(Ops) /\ "cons" \in Ops /\ "read" \in Ops
    BY <1>2, TopOf DEF Reader, Ops
  <2>4. Front(op_stack) \o <<"cons", "read", "read">>
          = Append(Append(Append(Front(op_stack), "cons"), "read"), "read")
    BY <2>3, ThreeOf
  <2>5. AtPair
    BY <1>1, <1>6, <2>1, <2>2, <2>4 DEF AtPair
  <2> QED
    BY <1>2, <1>3, <2>5
<1>7. CASE seek # L /\ stream[seek + 1] # ConsMarker
  <2>1. seek < L
    BY <1>1, <1>7
  <2>2. AtAtom
    BY <1>1, <1>4, <1>7, <2>1 DEF ReadItem, AtAtom, Met
  <2> QED
    BY <1>2, <1>3, <2>2
<1> QED
  BY <1>5, <1>6, <1>7

LEMMA WriteNextTyped == Typed /\ WriteNext => Typed'
<1> SUFFICES ASSUME Typed, WriteNext PROVE Typed'
  OBVIOUS
<1> DEFINE t == Last(state)
<1>1. /\ phase = "write" /\ state # <<>> /\ t \in Trees
      /\ stream' = stream \o Piece(t)
      /\ state' = Left(state)
      /\ UNCHANGED <<tree, seek, op_stack, val_stack, intact, phase>>
  BY WriteNextShape
<1>2. state' \in Seq(Trees)
  BY <1>1, LeftShape DEF Typed
<1>3. PICK k \in Nat \ {0} : Piece(t) \in Seq(Byte) /\ Len(Piece(t)) = k
  BY <1>1, PieceShape
<1>4. PICK v, L \in Nat : /\ Len(stream) = L /\ Len(val_stack) = v
                         /\ seek \in Nat /\ v <= seek /\ seek <= L
  BY DEF Typed, Reader
<1>5. stream' \in Seq(Byte) /\ Len(stream') = L + k
  <2>1. stream \in Seq(Byte)
    BY DEF Typed, Reader
  <2> DEFINE p == Piece(t)
  <2> HIDE DEF p
  <2>2. p \in Seq(Byte) /\ Len(p) = k
    BY <1>3 DEF p
  <2>3. stream \o p \in Seq(Byte) /\ Len(stream \o p) = L + k
    BY <1>4, <2>1, <2>2, ConcatProperties
  <2> QED
    BY <1>1, <2>3 DEF p
<1>6. Reader'
  <2>1. op_stack' \in Seq(Ops) /\ IsSeq(val_stack)' /\ Len(val_stack') = v
    BY <1>1, <1>4 DEF Typed, Reader, IsSeq
  <2>2. L + k \in Nat /\ seek' \in Nat /\ v <= seek' /\ seek' <= L + k
    BY <1>1, <1>4
  <2> QED
    BY <1>5, <2>1, <2>2 DEF Reader
<1> QED
  BY <1>1, <1>2, <1>6 DEF Typed

LEMMA StartReadingTyped == Typed /\ StartReading => Typed'
<1> SUFFICES ASSUME Typed, StartReading PROVE Typed'
  OBVIOUS
<1>1. /\ phase = "write" /\ state = <<>> /\ phase' = "read"
      /\ UNCHANGED <<tree, state, seek, op_stack, val_stack>>
  BY DEF StartReading
<1>2. stream' \in Seq(Byte)
  BY DEF StartReading, Typed, Reader, Byte
<1>3. intact' \in BOOLEAN
  BY DEF StartReading
<1>4. seek = 0 /\ val_stack = <<>>
  BY <1>1 DEF Typed
<1>5. PICK L \in Nat : Len(stream') = L
  BY <1>2, LenProperties
<1>6. Reader'
  <2>1. op_stack' \in Seq(Ops) /\ IsSeq(val_stack)'
    BY <1>1 DEF Typed, Reader, IsSeq
  <2>2. Len(val_stack') = 0 /\ seek' = 0 /\ 0 \in Nat /\ 0 <= 0 /\ 0 <= L
    BY <1>1, <1>4
  <2> QED
    BY <1>2, <1>5, <2>1, <2>2 DEF Reader
<1> QED
  BY <1>1, <1>3, <1>6 DEF Typed

LEMMA ReadItemTyped == Typed /\ ReadItem => Typed'
<1> SUFFICES ASSUME Typed, ReadItem PROVE Typed'
  OBVIOUS
<1>0. Reader
  BY DEF Typed
<1>1. /\ phase = "read" /\ op_stack # <<>> /\ Last(op_stack) = "read"
      /\ AtEnd \/ AtPair \/ AtAtom
      /\ UNCHANGED <<tree, state, stream, intact, phase>>
  BY <1>0, ReadItemShape
<1>2. PICK v, L \in Nat : /\ Len(stream) = L /\ Len(val_stack) = v
                         /\ seek \in Nat /\ v <= seek /\ seek <= L
  BY <1>0 DEF Reader
<1>3. Front(op_stack) \in Seq(Ops)
  BY <1>0, <1>1, TopOf DEF Reader
<1>4. Reader'
  <2>1. stream' \in Seq(Byte) /\ Len(stream') = L
    BY <1>0, <1>1, <1>2 DEF Reader
  <2>2. CASE AtEnd
    <3>1. op_stack' \in Seq(Ops) /\ seek' = seek /\ val_stack' = val_stack
      BY <1>3, <2>2 DEF AtEnd
    <3>2. IsSeq(val_stack)'
      BY <1>0, <3>1 DEF Reader, IsSeq
    <3> QED
      BY <1>2, <2>1, <3>1, <3>2 DEF Reader
  <2>3. CASE AtPair
    <3>1. seek < L /\ seek' = seek + 1 /\ val_stack' = val_stack
      BY <1>2, <2>3 DEF AtPair
    <3>2. op_stack' \in Seq(Ops)
      <4>1. "cons" \in Ops /\ "read" \in Ops
        BY DEF Ops
      <4> DEFINE f == Front(op_stack)
      <4> HIDE DEF f
      <4>2. f \in Seq(Ops)
        BY <1>3 DEF f
      <4>3. Append(f, "cons") \in Seq(Ops)
        BY <4>1, <4>2, PutOn
      <4>4. Append(Append(f, "cons"), "read") \in Seq(Ops)
        BY <4>1, <4>3, PutOn
      <4>5. Append(Append(Append(f, "cons"), "read"), "read") \in Seq(Ops)
        BY <4>1, <4>4, PutOn
      <4> QED
        BY <2>3, <4>5 DEF AtPair, f
    <3>3. IsSeq(val_stack)'
      BY <1>0, <3>1 DEF Reader, IsSeq
    <3>4. seek' \in Nat /\ v <= seek' /\ seek' <= L
      BY <1>2, <3>1
    <3> QED
      BY <1>2, <2>1, <3>1, <3>2, <3>3, <3>4 DEF Reader
  <2>4. CASE AtAtom
    <3>1. /\ seek < L /\ stream[seek + 1] # 255
          /\ op_stack' \in Seq(Ops) /\ seek' = Met.to
          /\ val_stack' = IF Met.val = NoValue THEN val_stack ELSE Append(val_stack, Met.val)
      BY <1>2, <1>3, <2>4 DEF AtAtom, ConsMarker
    <3>2. Met.to \in (seek + 1)..L
      <4> DEFINE at == seek + 1
                 b == stream[at]
      <4>1. at \in 1..L
        BY <1>2, <3>1
      <4>2. b \in Byte /\ b # 255
        BY <1>0, <1>2, <3>1, <4>1, ElementOfSeq DEF Reader
      <4>3. stream \in Seq(Byte)
        BY <1>0 DEF Reader
      <4> HIDE DEF at, b
      <4>4. atom_from_stream(b, at).to \in at..L
        BY <1>2, <4>1, <4>2, <4>3, AtomShape
      <4> QED
        BY <4>4 DEF Met, at, b
    <3> DEFINE to == Met.to
    <3>3. to \in Nat /\ seek + 1 <= to /\ to <= L
      <4> HIDE DEF to
      <4>1. to \in (seek + 1)..L
        BY <3>2 DEF to
      <4> QED
        BY <1>2, <4>1
    <3> HIDE DEF to
    <3>4. seek' \in Nat /\ v + 1 <= seek' /\ v <= seek' /\ seek' <= L
      <4>1. seek' = to
        BY <3>1 DEF to
      <4> QED
        BY <1>2, <3>3, <4>1
    <3>5. CASE Met.val = NoValue
      <4>1. val_stack' = val_stack
        BY <3>1, <3>5
      <4>2. IsSeq(val_stack)'
        BY <1>0, <4>1 DEF Reader, IsSeq
      <4> QED
        BY <1>2, <2>1, <3>1, <3>4, <4>1, <4>2 DEF Reader
    <3>6. CASE Met.val # NoValue
      <4>1. val_stack' = Append(val_stack, Met.val)
        BY <3>1, <3>6
      <4>2. IsSeq(val_stack)' /\ Len(val_stack') = v + 1
        <5> DEFINE e == Met.val
        <5> HIDE DEF e
        <5>1. IsSeq(val_stack)
          BY <1>0 DEF Reader
        <5>2. IsSeq(Append(val_stack, e)) /\ Len(Append(val_stack, e)) = v + 1
          BY <1>2, <5>1, AppendValue
        <5>3. val_stack' = Append(val_stack, e)
          BY <4>1 DEF e
        <5> QED
          BY <5>2, <5>3 DEF IsSeq
      <4>3. v + 1 \in Nat
        BY <1>2
      <4> QED
        BY <1>2, <2>1, <3>1, <3>4, <4>2, <4>3 DEF Reader
    <3> QED
      BY <3>5, <3>6
  <2> QED
    BY <1>1, <2>2, <2>3, <2>4
<1> QED
  BY <1>1, <1>4 DEF Typed

LEMMA ConsTyped == Typed /\ Cons_ => Typed'
<1> SUFFICES ASSUME Typed, Cons_ PROVE Typed'
  OBVIOUS
<1>0. Reader
  BY DEF Typed
<1>1. /\ phase = "read" /\ op_stack # <<>> /\ Last(op_stack) = "cons"
      /\ op_stack' = Front(op_stack) /\ val_stack' = Joined(val_stack)
      /\ UNCHANGED <<tree, state, stream, seek, intact, phase>>
  BY DEF Cons_
<1>2. PICK v, L \in Nat : /\ Len(stream) = L /\ Len(val_stack) = v
                         /\ seek \in Nat /\ v <= seek /\ seek <= L
  BY <1>0 DEF Reader
<1>3. Front(op_stack) \in Seq(Ops)
  BY <1>0, <1>1, TopOf DEF Reader
<1>4. PICK m \in Nat : IsSeq(Joined(val_stack)) /\ Len(Joined(val_stack)) = m
                      /\ m = (IF v < 2 THEN 0 ELSE v - 1)
  BY <1>0, <1>2, JoinedShape DEF Reader
<1>5. m <= seek
  BY <1>2, <1>4
<1>6. Reader'
  <2>1. IsSeq(val_stack)' /\ Len(val_stack') = m
    BY <1>1, <1>4 DEF IsSeq
  <2>2. stream' \in Seq(Byte) /\ Len(stream') = L /\ seek' \in Nat /\ seek' <= L /\ m <= seek'
    BY <1>0, <1>1, <1>2, <1>5 DEF Reader
  <2> QED
    BY <1>1, <1>3, <2>1, <2>2 DEF Reader
<1> QED
  BY <1>1, <1>6 DEF Typed

LEMMA NextTyped == Typed /\ [SerializeNext]_serializeVars => Typed'
<1> SUFFICES ASSUME Typed, [SerializeNext]_serializeVars PROVE Typed'
  OBVIOUS
<1>1. ASSUME UNCHANGED serializeVars PROVE Typed'
  BY <1>1 DEF Typed, Reader, IsSeq, serializeVars
<1>2. CASE Return
  <2>1. /\ phase = "read" /\ op_stack = <<>> /\ phase' = "done"
        /\ UNCHANGED <<tree, state, stream, seek, op_stack, val_stack, intact>>
    BY <1>2 DEF Return
  <2>2. Reader'
    BY <2>1 DEF Typed, Reader, IsSeq
  <2> QED
    BY <2>1, <2>2 DEF Typed
<1>3. CASE SerializeTerminated
  BY <1>1, <1>3 DEF SerializeTerminated
<1> QED
  BY <1>1, <1>2, <1>3, WriteNextTyped, StartReadingTyped, ReadItemTyped, ConsTyped DEF SerializeNext

LEMMA AlwaysTyped == SerializeSpec => []Typed
<1> QED
  BY InitTyped, NextTyped, PTL DEF SerializeSpec

\* The reader never reads past the end of the stream, has never more values
\* than it read bytes, and does nothing after the result is returned
\* (serialize.rs sexp_from_stream).
THEOREM SerializeTypeCorrect == SerializeSpec => []SerializeTypeOK
<1>1. Typed => SerializeTypeOK
  <2> SUFFICES ASSUME Typed PROVE SerializeTypeOK
    OBVIOUS
  <2>1. PICK v, L \in Nat : /\ Len(stream) = L /\ Len(val_stack) = v
                           /\ seek \in Nat /\ v <= seek /\ seek <= L
    BY DEF Typed, Reader
  <2>2. \A i \in DOMAIN op_stack : op_stack[i] \in {"read", "cons"}
    <3>1. op_stack \in Seq(Ops)
      BY DEF Typed, Reader
    <3>2. \A i \in DOMAIN op_stack : op_stack[i] \in Ops
      BY <3>1
    <3> QED
      BY <3>2 DEF Ops
  <2>3. seek \in 0..L /\ v <= L
    BY <2>1
  <2> QED
    BY <2>1, <2>2, <2>3 DEF Typed, SerializeTypeOK
<1> QED
  BY <1>1, AlwaysTyped, PTL

(***************************************************************************)
(* What the bytes from a place on say.                                     *)
(***************************************************************************)

\* What they say at one place if p is what they say at the places behind it.
Says(p, from) ==
  LET b == stream[from + 1]
      a == p[from + 1]
      d == p[a.to]
  IN IF from = Len(stream) THEN [val |-> NoValue, to |-> from]
     ELSE IF b # ConsMarker THEN atom_from_stream(b, from + 1)
     ELSE IF a.val = NoValue THEN a
     ELSE IF d.val = NoValue THEN d
     ELSE [val |-> Pair(a.val, d.val), to |-> d.to]

IsParse(p) == \A from \in 0..Len(stream) : p[from] = Says(p, from)

\* It ends behind the place.
LEMMA SaysGoesOn ==
  ASSUME stream \in Seq(Byte), NEW L \in Nat, Len(stream) = L, NEW j \in 0..(L - 1), NEW p,
         \A i \in (j + 1)..L : p[i].to \in i..L
  PROVE  Says(p, j).to \in j..L
<1> DEFINE b == stream[j + 1]
           a == p[j + 1]
           d == p[a.to]
<1>1. j # Len(stream) /\ j + 1 \in 1..L /\ j + 1 \in (j + 1)..L
  OBVIOUS
<1>2. a.to \in (j + 1)..L
  BY <1>1
<1>3. d.to \in (j + 1)..L
  <2> DEFINE k == a.to
  <2>1. k \in (j + 1)..L /\ p[k].to \in k..L
    BY <1>2
  <2> HIDE DEF k
  <2>2. p[k].to \in (j + 1)..L
    BY <2>1
  <2> QED
    BY <2>2 DEF k
<1>4. CASE b # ConsMarker
  <2>1. Says(p, j) = atom_from_stream(b, j + 1)
    BY <1>1, <1>4 DEF Says
  <2>2. b \in Byte /\ b # 255
    BY <1>1, <1>4, ElementOfSeq DEF ConsMarker
  <2> DEFINE at == j + 1
  <2>3. at \in 1..L
    BY <1>1
  <2> HIDE DEF b, at
  <2>4. atom_from_stream(b, at).to \in at..L
    BY <2>2, <2>3, AtomShape
  <2> QED
    BY <2>1, <2>4 DEF at
<1>5. CASE b = ConsMarker
  <2>1. Says(p, j) = IF a.val = NoValue THEN a ELSE IF d.val = NoValue THEN d
                     ELSE [val |-> Pair(a.val, d.val), to |-> d.to]
    BY <1>1, <1>5 DEF Says
  <2>2. Says(p, j).to = a.to \/ Says(p, j).to = d.to
    <3> HIDE DEF a, d
    <3> QED
      BY <2>1
  <2>3. \A i \in (j + 1)..L : i \in j..L
    OBVIOUS
  <2> HIDE DEF a, d
  <2> QED
    BY <1>2, <1>3, <2>2, <2>3
<1> QED
  BY <1>4, <1>5

\* It depends on nothing at the place itself or before it.
LEMMA SaysTheSame ==
  ASSUME NEW L \in Nat, Len(stream) = L, NEW j \in 0..L, NEW p, NEW q,
         \A i \in (j + 1)..L : p[i] = q[i] /\ p[i].to \in i..L
  PROVE  Says(q, j) = Says(p, j)
<1>1. CASE j = L
  BY <1>1 DEF Says
<1>2. CASE j # L
  <2>1. j + 1 \in (j + 1)..L
    BY <1>2
  <2>2. p[j + 1] = q[j + 1] /\ p[j + 1].to \in (j + 1)..L
    BY <2>1
  <2>3. p[p[j + 1].to] = q[p[j + 1].to]
    BY <2>2
  <2> QED
    BY <1>2, <2>2, <2>3 DEF Says
<1> QED
  BY <1>1, <1>2

\* There is something the bytes say.
LEMMA ParseExists ==
  ASSUME stream \in Seq(Byte), NEW L \in Nat, Len(stream) = L
  PROVE  \E f : f = [from \in 0..L |-> Says(f, from)]
<1> DEFINE From(f, k) == \A i \in (L - k)..L : f[i] = Says(f, i) /\ f[i].to \in i..L
           Known(k) == \E f : From(f, k)
           Unknown == {k \in 0..L : ~Known(k)}
<1>1. Known(0)
  <2> DEFINE f == [i \in 0..L |-> [val |-> NoValue, to |-> L]]
  <2>1. f[L] = [val |-> NoValue, to |-> L]
    OBVIOUS
  <2>2. Says(f, L) = [val |-> NoValue, to |-> L]
    BY DEF Says
  <2>3. \A i \in (L - 0)..L : i = L
    OBVIOUS
  <2>4. L \in L..L
    OBVIOUS
  <2>5. f[L].to = L
    BY <2>1
  <2> HIDE DEF f
  <2>6. From(f, 0)
    BY <2>1, <2>2, <2>3, <2>4, <2>5
  <2> QED
    BY <2>6
<1>2. ASSUME NEW k \in 1..L, Known(k - 1) PROVE Known(k)
  <2>1. PICK f : From(f, k - 1)
    BY <1>2
  <2> DEFINE j == L - k
             g == [i \in 0..L |-> IF i = j THEN Says(f, j) ELSE f[i]]
  <2>2. j \in 0..(L - 1) /\ L - (k - 1) = j + 1 /\ j \in 0..L
    OBVIOUS
  <2>3. \A i \in (j + 1)..L : f[i] = Says(f, i) /\ f[i].to \in i..L
    BY <2>1, <2>2
  <2> HIDE DEF j
  <2>4. g[j] = Says(f, j)
    BY <2>2
  <2>5. \A i \in (j + 1)..L : g[i] = f[i]
    BY <2>2
  <2> HIDE DEF g
  <2>6. Says(f, j).to \in j..L
    BY <2>2, <2>3, SaysGoesOn
  <2>7. ASSUME NEW i \in j..L PROVE g[i] = Says(g, i) /\ g[i].to \in i..L
    <3>1. i \in 0..L /\ \A m \in (i + 1)..L : m \in (j + 1)..L
      BY <2>2
    <3>2. \A m \in (i + 1)..L : f[m] = g[m] /\ f[m].to \in m..L
      BY <2>3, <2>5, <3>1
    <3>3. Says(g, i) = Says(f, i)
      BY <3>1, <3>2, SaysTheSame
    <3>4. CASE i = j
      BY <2>4, <2>6, <3>3, <3>4
    <3>5. CASE i # j
      <4>1. i \in (j + 1)..L
        BY <2>2, <3>5
      <4> QED
        BY <2>3, <2>5, <3>3, <4>1
    <3> QED
      BY <3>4, <3>5
  <2>8. From(g, k)
    BY <2>7 DEF j
  <2> QED
    BY <2>8
<1>3. Known(L)
  <2> SUFFICES ASSUME ~Known(L) PROVE FALSE
    OBVIOUS
  <2> HIDE DEF Known
  <2>1. L \in Unknown /\ Unknown \subseteq Nat
    OBVIOUS
  <2>2. PICK k \in Unknown : \A i \in Unknown : ~(<<i, k>> \in OpToRel(<, Nat))
    <3> HIDE DEF Unknown
    <3>1. Unknown # {}
      BY <2>1
    <3> QED
      BY <2>1, <3>1, NatLessThanWellFounded, WFMin
  <2>3. k \in 0..L /\ ~Known(k)
    BY <2>2
  <2>4. k # 0
    BY <1>1, <2>3
  <2>5. k \in 1..L /\ k - 1 \in 0..L /\ k - 1 \in Nat /\ k \in Nat /\ k - 1 < k
    BY <2>3, <2>4
  <2>6. ~Known(k - 1)
    BY <1>2, <2>3, <2>5
  <2>7. k - 1 \in Unknown
    BY <2>5, <2>6
  <2> HIDE DEF Unknown
  <2>8. <<k - 1, k>> \in OpToRel(<, Nat)
    BY <2>5 DEF OpToRel
  <2> QED
    BY <2>2, <2>7, <2>8
<1>4. PICK f : From(f, L)
  BY <1>3
<1>5. \A i \in 0..L : i \in (L - L)..L
  OBVIOUS
<1>6. \A i \in 0..L : f[i] = Says(f, i) /\ f[i].to \in i..L
  BY <1>4, <1>5
<1> HIDE DEF From, Known, Unknown
<1> DEFINE g == [i \in 0..L |-> f[i]]
<1>7. \A i \in 0..L : g[i] = f[i]
  OBVIOUS
<1>8. ASSUME NEW i \in 0..L PROVE g[i] = Says(g, i)
  <2> HIDE DEF g
  <2>1. \A m \in (i + 1)..L : m \in 0..L
    OBVIOUS
  <2>2. \A m \in (i + 1)..L : f[m] = g[m] /\ f[m].to \in m..L
    BY <1>6, <1>7, <2>1
  <2>3. Says(g, i) = Says(f, i)
    BY <2>2, SaysTheSame
  <2> QED
    BY <1>6, <1>7, <2>3
<1>9. g = [i \in 0..L |-> Says(g, i)]
  <2> DEFINE h == [i \in 0..L |-> Says(g, i)]
  <2>1. \A i \in 0..L : h[i] = g[i]
    BY <1>8
  <2>2. h = [i \in 0..L |-> h[i]] /\ g = [i \in 0..L |-> g[i]]
    OBVIOUS
  <2> HIDE DEF g, h
  <2>3. g = h
    BY <2>1, <2>2
  <2> QED
    BY <2>3 DEF h
<1> HIDE DEF g
<1> QED
  BY <1>9

LEMMA ParseIsParse ==
  ASSUME stream \in Seq(Byte)
  PROVE  IsParse(Parse)
<1> DEFINE Step(f) == [from \in 0..Len(stream) |-> Says(f, from)]
<1>1. Parse = CHOOSE f : f = Step(f)
  BY DEF Parse, Says
<1>2. PICK L \in Nat : Len(stream) = L
  BY LenProperties
<1>3. \E f : f = Step(f)
  BY <1>2, ParseExists
<1>4. Parse = Step(Parse)
  <2> HIDE DEF Step
  <2> QED
    BY <1>1, <1>3
<1>5. ASSUME NEW from \in 0..Len(stream) PROVE Parse[from] = Says(Parse, from)
  <2> DEFINE F == Step(Parse)
  <2>1. F[from] = Says(Parse, from)
    OBVIOUS
  <2> HIDE DEF Step
  <2> QED
    BY <1>4, <2>1
<1> QED
  BY <1>5 DEF IsParse

(***************************************************************************)
(* Nothing is made up.  h[j] is the number of values there are when the    *)
(* operations above the j-th are done, if none of them fails: one at the   *)
(* end.  The reader either has that many and what is ahead of it comes to  *)
(* what the bytes say, or has lost one, and then the bytes say nothing and *)
(* at the end there is no value.                                           *)
(***************************************************************************)
Heights(h) ==
  LET n == Len(op_stack)
  IN /\ h[0] = 1
     /\ \A j \in 0..n : h[j] \in Nat
     /\ \A j \in 0..(n - 1) : h[j] >= 1
     /\ \A j \in 1..n : op_stack[j] = "read" => h[j - 1] = h[j] + 1
     /\ \A j \in 1..n : op_stack[j] = "cons" => h[j] = h[j - 1] + 1

\* What the j-th operation makes of the values vals[j] and the place pos[j].
StepAhead(p, vals, pos, j) ==
  /\ op_stack[j] = "read" =>
       /\ p[pos[j]].val # NoValue
       /\ vals[j - 1] = Append(vals[j], p[pos[j]].val)
       /\ pos[j - 1] = p[pos[j]].to
  /\ op_stack[j] = "cons" => vals[j - 1] = Joined(vals[j]) /\ pos[j - 1] = pos[j]

\* It goes well to the end, or to the m-th operation.
Ahead(p, vals, pos, m) ==
  LET n == Len(op_stack)
  IN /\ m \in 0..n
     /\ vals[n] = val_stack /\ pos[n] = seek
     /\ \A j \in (m + 1)..n : StepAhead(p, vals, pos, j)
     /\ m = 0 => p[0].val # NoValue /\ vals[0] = <<p[0].val>> /\ pos[0] = p[0].to
     /\ m # 0 => op_stack[m] = "read" /\ p[pos[m]].val = NoValue /\ p[0].val = NoValue

Good(p) ==
  /\ \E h : Heights(h) /\ h[Len(op_stack)] = Len(val_stack)
  /\ \E vals, pos, m : Ahead(p, vals, pos, m)

Lost(p) ==
  /\ p[0].val = NoValue
  /\ \E h : Heights(h) /\ Len(val_stack) < h[Len(op_stack)]

\* How the operations change.
Popped(k) ==
  /\ k \in Nat /\ Len(op_stack) = k + 1 /\ Len(op_stack') = k
  /\ \A i \in 1..k : op_stack'[i] = op_stack[i]

Pushed(k) ==
  /\ k \in Nat /\ Len(op_stack) = k + 1 /\ Len(op_stack') = k + 3
  /\ \A i \in 1..k : op_stack'[i] = op_stack[i]
  /\ op_stack'[k + 1] = "cons" /\ op_stack'[k + 2] = "read" /\ op_stack'[k + 3] = "read"

LEMMA OpsPopped ==
  ASSUME op_stack \in Seq(Ops), op_stack # <<>>, op_stack' = Front(op_stack)
  PROVE  \E k : Popped(k) /\ Last(op_stack) = op_stack[k + 1]
<1>1. PICK k \in Nat : /\ Len(op_stack) = k + 1 /\ Len(Front(op_stack)) = k
                      /\ Last(op_stack) = op_stack[k + 1]
                      /\ \A i \in 1..k : Front(op_stack)[i] = op_stack[i]
  BY TopOf
<1> QED
  BY <1>1 DEF Popped

LEMMA OpsPushed ==
  ASSUME op_stack \in Seq(Ops), op_stack # <<>>, AtPair
  PROVE  \E k : Pushed(k) /\ Last(op_stack) = op_stack[k + 1]
<1> DEFINE f == Front(op_stack)
<1>1. f \in Seq(Ops)
  BY TopOf
<1>2. PICK k \in Nat : /\ Len(op_stack) = k + 1 /\ Len(f) = k
                      /\ Last(op_stack) = op_stack[k + 1]
                      /\ \A i \in 1..k : f[i] = op_stack[i]
  BY TopOf
<1>3. "cons" \in Ops /\ "read" \in Ops
  BY DEF Ops
<1> DEFINE g == Append(Append(Append(f, "cons"), "read"), "read")
<1>4. op_stack' = g
  BY DEF AtPair
<1> HIDE DEF f
<1>5. /\ Len(g) = k + 3
      /\ g[k + 1] = "cons" /\ g[k + 2] = "read" /\ g[k + 3] = "read"
      /\ \A i \in 1..k : g[i] = f[i]
  BY <1>1, <1>2, <1>3, ThreeOn
<1> HIDE DEF g
<1> QED
  BY <1>2, <1>4, <1>5 DEF Pushed

\* The heights under an operation that is done.
LEMMA HeightsPopped ==
  ASSUME NEW k, Popped(k), NEW h, Heights(h)
  PROVE  /\ Heights(h)'
         /\ h[k] \in Nat /\ h[k] >= 1 /\ h[k + 1] \in Nat
         /\ op_stack[k + 1] = "read" => h[k] = h[k + 1] + 1
         /\ op_stack[k + 1] = "cons" => h[k + 1] = h[k] + 1
<1>1. /\ k \in Nat /\ Len(op_stack) = k + 1 /\ Len(op_stack') = k
      /\ \A i \in 1..k : op_stack'[i] = op_stack[i]
  BY DEF Popped
<1>2. /\ h[0] = 1
      /\ \A j \in 0..(k + 1) : h[j] \in Nat
      /\ \A j \in 0..k : h[j] >= 1
      /\ \A j \in 1..(k + 1) : op_stack[j] = "read" => h[j - 1] = h[j] + 1
      /\ \A j \in 1..(k + 1) : op_stack[j] = "cons" => h[j] = h[j - 1] + 1
  <2>1. (k + 1) - 1 = k
    BY <1>1
  <2> QED
    BY <1>1, <2>1 DEF Heights
<1>3. k \in 0..k /\ k \in 0..(k + 1) /\ k + 1 \in 1..(k + 1) /\ k + 1 \in 0..(k + 1) /\ (k + 1) - 1 = k
  BY <1>1
<1>4. /\ \A j \in 0..k : j \in 0..(k + 1)
      /\ \A j \in 0..(k - 1) : j \in 0..k
      /\ \A j \in 1..k : j \in 1..(k + 1)
  BY <1>1
<1>5. Heights(h)'
  BY <1>1, <1>2, <1>4 DEF Heights
<1> QED
  BY <1>2, <1>3, <1>5

\* The heights when a pair begins.
LEMMA HeightsPushed ==
  ASSUME NEW k, Pushed(k), op_stack[k + 1] = "read", NEW h, Heights(h)
  PROVE  \E g : Heights(g)' /\ g[k + 3] = h[k + 1]
<1>1. /\ k \in Nat /\ Len(op_stack) = k + 1 /\ Len(op_stack') = k + 3
      /\ \A i \in 1..k : op_stack'[i] = op_stack[i]
      /\ op_stack'[k + 1] = "cons" /\ op_stack'[k + 2] = "read" /\ op_stack'[k + 3] = "read"
  BY DEF Pushed
<1>2. /\ h[0] = 1
      /\ \A j \in 0..(k + 1) : h[j] \in Nat
      /\ \A j \in 0..k : h[j] >= 1
      /\ \A j \in 1..(k + 1) : op_stack[j] = "read" => h[j - 1] = h[j] + 1
      /\ \A j \in 1..(k + 1) : op_stack[j] = "cons" => h[j] = h[j - 1] + 1
  <2>1. (k + 1) - 1 = k
    BY <1>1
  <2> QED
    BY <1>1, <2>1 DEF Heights
<1>3. PICK v \in Nat : v = h[k + 1] /\ h[k] = v + 1
  <2>1. k + 1 \in 0..(k + 1) /\ k + 1 \in 1..(k + 1) /\ (k + 1) - 1 = k
    BY <1>1
  <2> QED
    BY <1>2, <2>1
<1> DEFINE g == [j \in Nat |-> IF j <= k THEN h[j] ELSE IF j = k + 1 THEN v + 2
                              ELSE IF j = k + 2 THEN v + 1 ELSE v]
<1>4. /\ \A j \in 0..k : g[j] = h[j]
      /\ g[k + 1] = v + 2 /\ g[k + 2] = v + 1 /\ g[k + 3] = v
  BY <1>1
<1> HIDE DEF g
<1>5. g[0] = 1 /\ g[k] = v + 1
  BY <1>1, <1>2, <1>3, <1>4
<1>6. ASSUME NEW j \in 0..(k + 3) PROVE g[j] \in Nat /\ (j <= k + 2 => g[j] >= 1)
  <2>1. CASE j <= k
    <3>1. j \in 0..k /\ j \in 0..(k + 1)
      BY <1>1, <2>1
    <3> QED
      BY <1>2, <1>4, <3>1
  <2>2. CASE j = k + 1
    BY <1>3, <1>4, <2>2
  <2>3. CASE j = k + 2
    BY <1>3, <1>4, <2>3
  <2>4. CASE j = k + 3
    BY <1>1, <1>3, <1>4, <2>4
  <2> QED
    BY <1>1, <2>1, <2>2, <2>3, <2>4
<1>7. ASSUME NEW j \in 1..(k + 3)
      PROVE  /\ op_stack'[j] = "read" => g[j - 1] = g[j] + 1
             /\ op_stack'[j] = "cons" => g[j] = g[j - 1] + 1
  <2>1. CASE j <= k
    <3>1. j \in 1..k /\ j \in 0..k /\ j - 1 \in 0..k /\ j \in 1..(k + 1)
      BY <1>1, <2>1
    <3>2. g[j] = h[j] /\ g[j - 1] = h[j - 1] /\ op_stack'[j] = op_stack[j]
      BY <1>1, <1>4, <3>1
    <3> QED
      BY <1>2, <3>1, <3>2
  <2>2. CASE j = k + 1
    <3>1. j - 1 = k
      BY <1>1, <2>2
    <3>2. g[j] = v + 2 /\ g[j - 1] = v + 1 /\ op_stack'[j] = "cons"
      BY <1>1, <1>4, <1>5, <2>2, <3>1
    <3> QED
      BY <3>2
  <2>3. CASE j = k + 2
    <3>1. j - 1 = k + 1
      BY <1>1, <2>3
    <3>2. g[j] = v + 1 /\ g[j - 1] = v + 2 /\ op_stack'[j] = "read"
      BY <1>1, <1>4, <2>3, <3>1
    <3> QED
      BY <3>2
  <2>4. CASE j = k + 3
    <3>1. j - 1 = k + 2
      BY <1>1, <2>4
    <3>2. g[j] = v /\ g[j - 1] = v + 1 /\ op_stack'[j] = "read"
      BY <1>1, <1>4, <2>4, <3>1
    <3> QED
      BY <3>2
  <2> QED
    BY <1>1, <2>1, <2>2, <2>3, <2>4
<1>8. \A j \in 0..((k + 3) - 1) : g[j] >= 1
  <2>1. \A j \in 0..((k + 3) - 1) : j \in 0..(k + 3) /\ j <= k + 2
    BY <1>1
  <2> QED
    BY <1>6, <2>1
<1>9. Heights(g)'
  BY <1>1, <1>5, <1>6, <1>7, <1>8 DEF Heights
<1> QED
  BY <1>3, <1>4, <1>9

\* What is ahead under an operation that is done.
LEMMA AheadPopped ==
  ASSUME NEW k, Popped(k), NEW p, NEW vals, NEW pos, NEW m, Ahead(p, vals, pos, m), m # k + 1,
         vals[k] = val_stack', pos[k] = seek'
  PROVE  Ahead(p, vals, pos, m)'
<1>1. /\ k \in Nat /\ Len(op_stack) = k + 1 /\ Len(op_stack') = k
      /\ \A i \in 1..k : op_stack'[i] = op_stack[i]
  BY DEF Popped
<1>2. /\ m \in 0..(k + 1)
      /\ \A j \in (m + 1)..(k + 1) : StepAhead(p, vals, pos, j)
      /\ m = 0 => p[0].val # NoValue /\ vals[0] = <<p[0].val>> /\ pos[0] = p[0].to
      /\ m # 0 => op_stack[m] = "read" /\ p[pos[m]].val = NoValue /\ p[0].val = NoValue
  BY <1>1 DEF Ahead
<1>3. m \in 0..k
  BY <1>1, <1>2
<1>4. ASSUME NEW j \in (m + 1)..k PROVE StepAhead(p, vals, pos, j)'
  <2>1. j \in 1..k /\ j \in (m + 1)..(k + 1)
    BY <1>1, <1>3
  <2>2. op_stack'[j] = op_stack[j] /\ StepAhead(p, vals, pos, j)
    BY <1>1, <1>2, <2>1
  <2> QED
    BY <2>2 DEF StepAhead
<1>5. m # 0 => op_stack'[m] = "read"
  BY <1>1, <1>2, <1>3
<1> QED
  BY <1>1, <1>2, <1>3, <1>4, <1>5 DEF Ahead

\* An item is read that is no pair.
LEMMA ItemFollows ==
  ASSUME Reader, NEW k, Popped(k), op_stack[k + 1] = "read", NEW p,
         p[seek].val = NoValue => val_stack' = val_stack,
         p[seek].val # NoValue => val_stack' = Append(val_stack, p[seek].val) /\ seek' = p[seek].to,
         Good(p) \/ Lost(p)
  PROVE  Good(p)' \/ Lost(p)'
<1>1. k \in Nat /\ Len(op_stack) = k + 1 /\ Len(op_stack') = k
  BY DEF Popped
<1>2. PICK v \in Nat : Len(val_stack) = v
  BY DEF Reader
<1> DEFINE e == p[seek]
<1>3. e.val # NoValue => Len(val_stack') = v + 1
  <2> HIDE DEF e
  <2>1. IsSeq(val_stack)
    BY DEF Reader
  <2>2. Len(Append(val_stack, e.val)) = v + 1
    BY <1>2, <2>1, AppendValue
  <2> QED
    BY <2>2 DEF e
<1>4. e.val = NoValue => Len(val_stack') = v
  BY <1>2
<1>5. CASE Good(p)
  <2>1. PICK h : Heights(h) /\ h[k + 1] = v
    BY <1>1, <1>2, <1>5 DEF Good
  <2>2. PICK vals, pos, m : Ahead(p, vals, pos, m)
    BY <1>5 DEF Good
  <2>3. Heights(h)' /\ h[k] = v + 1
    BY <2>1, HeightsPopped
  <2>4. /\ vals[k + 1] = val_stack /\ pos[k + 1] = seek
        /\ m \in 0..(k + 1)
        /\ \A j \in (m + 1)..(k + 1) : StepAhead(p, vals, pos, j)
        /\ m # 0 => p[pos[m]].val = NoValue /\ p[0].val = NoValue
    BY <1>1, <2>2 DEF Ahead
  <2>5. CASE m = k + 1
    <3>1. p[seek].val = NoValue /\ p[0].val = NoValue
      <4>1. m # 0
        BY <1>1, <2>5
      <4> QED
        BY <2>4, <2>5, <4>1
    <3>2. v < h[k] /\ Len(val_stack') = v
      BY <1>4, <2>3, <3>1
    <3> QED
      BY <1>1, <2>3, <3>1, <3>2 DEF Lost
  <2>6. CASE m # k + 1
    <3>1. k + 1 \in (m + 1)..(k + 1) /\ (k + 1) - 1 = k
      BY <1>1, <2>4, <2>6
    <3>2. StepAhead(p, vals, pos, k + 1)
      BY <2>4, <3>1
    <3>3. e.val # NoValue /\ vals[k] = Append(val_stack, e.val) /\ pos[k] = e.to
      BY <2>4, <3>1, <3>2 DEF StepAhead
    <3>4. vals[k] = val_stack' /\ pos[k] = seek'
      BY <3>3
    <3>5. Ahead(p, vals, pos, m)'
      BY <2>2, <2>6, <3>4, AheadPopped
    <3>6. Len(val_stack') = v + 1
      BY <1>3, <3>3
    <3> QED
      BY <1>1, <2>3, <3>5, <3>6 DEF Good
  <2> QED
    BY <2>5, <2>6
<1>6. CASE Lost(p)
  <2>1. PICK h : Heights(h) /\ v < h[k + 1]
    BY <1>1, <1>2, <1>6 DEF Lost
  <2>2. Heights(h)' /\ h[k + 1] \in Nat /\ h[k] = h[k + 1] + 1
    BY <2>1, HeightsPopped
  <2>3. Len(val_stack') < h[k]
    <3>1. v < h[k] /\ v + 1 < h[k]
      BY <2>1, <2>2
    <3> QED
      BY <1>3, <1>4, <3>1
  <2> QED
    BY <1>1, <1>6, <2>2, <2>3 DEF Lost
<1> QED
  BY <1>5, <1>6

\* A pair begins.
LEMMA PairFollows ==
  ASSUME Reader, AtPair, op_stack # <<>>, Last(op_stack) = "read", NEW p, IsParse(p),
         Good(p) \/ Lost(p)
  PROVE  Good(p)' \/ Lost(p)'
<1>0. PICK k : Pushed(k) /\ op_stack[k + 1] = "read"
  BY OpsPushed DEF Reader
<1>1. /\ k \in Nat /\ Len(op_stack) = k + 1 /\ Len(op_stack') = k + 3
      /\ \A i \in 1..k : op_stack'[i] = op_stack[i]
      /\ op_stack'[k + 1] = "cons" /\ op_stack'[k + 2] = "read" /\ op_stack'[k + 3] = "read"
  BY <1>0 DEF Pushed
<1>2. seek' = seek + 1 /\ val_stack' = val_stack
  BY DEF AtPair
<1> DEFINE a == p[seek + 1]
           d == p[a.to]
<1>3. p[seek] = IF a.val = NoValue THEN a ELSE IF d.val = NoValue THEN d
                ELSE [val |-> Pair(a.val, d.val), to |-> d.to]
  <2>1. PICK L \in Nat : Len(stream) = L /\ seek \in Nat /\ seek <= L
    BY DEF Reader
  <2>2. seek \in 0..L /\ seek # L /\ stream[seek + 1] = ConsMarker
    BY <2>1 DEF AtPair
  <2>3. p[seek] = Says(p, seek)
    BY <2>1, <2>2 DEF IsParse
  <2> QED
    BY <2>1, <2>2, <2>3 DEF Says
<1>4. CASE Lost(p)
  <2>1. PICK h : Heights(h) /\ Len(val_stack) < h[k + 1]
    BY <1>1, <1>4 DEF Lost
  <2>2. PICK g : Heights(g)' /\ g[k + 3] = h[k + 1]
    BY <1>0, <2>1, HeightsPushed
  <2> QED
    BY <1>1, <1>2, <1>4, <2>1, <2>2 DEF Lost
<1>5. CASE Good(p)
  <2>1. PICK h : Heights(h) /\ h[k + 1] = Len(val_stack)
    BY <1>1, <1>5 DEF Good
  <2>2. PICK g : Heights(g)' /\ g[k + 3] = h[k + 1]
    BY <1>0, <2>1, HeightsPushed
  <2>3. \E h2 : Heights(h2)' /\ h2[Len(op_stack')] = Len(val_stack')
    BY <1>1, <1>2, <2>1, <2>2
  <2>4. PICK vals, pos, m : Ahead(p, vals, pos, m)
    BY <1>5 DEF Good
  <2>5. /\ m \in 0..(k + 1)
        /\ vals[k + 1] = val_stack /\ pos[k + 1] = seek
        /\ \A j \in (m + 1)..(k + 1) : StepAhead(p, vals, pos, j)
        /\ m = 0 => p[0].val # NoValue /\ vals[0] = <<p[0].val>> /\ pos[0] = p[0].to
        /\ m # 0 => op_stack[m] = "read" /\ p[pos[m]].val = NoValue /\ p[0].val = NoValue
    BY <1>1, <2>4 DEF Ahead
  <2> DEFINE V == [j \in Nat |->
                     IF j <= k THEN vals[j]
                     ELSE IF j = k + 1 THEN Append(Append(val_stack, a.val), d.val)
                     ELSE IF j = k + 2 THEN Append(val_stack, a.val) ELSE val_stack]
             P == [j \in Nat |->
                     IF j <= k THEN pos[j]
                     ELSE IF j = k + 1 THEN d.to ELSE IF j = k + 2 THEN a.to ELSE seek + 1]
  <2>6. PICK vals2, pos2 :
          /\ \A j \in 0..k : vals2[j] = vals[j] /\ pos2[j] = pos[j]
          /\ vals2[k + 1] = Append(Append(val_stack, a.val), d.val) /\ pos2[k + 1] = d.to
          /\ vals2[k + 2] = Append(val_stack, a.val) /\ pos2[k + 2] = a.to
          /\ vals2[k + 3] = val_stack /\ pos2[k + 3] = seek + 1
    <3>1. /\ \A j \in 0..k : V[j] = vals[j] /\ P[j] = pos[j]
          /\ V[k + 1] = Append(Append(val_stack, a.val), d.val) /\ P[k + 1] = d.to
          /\ V[k + 2] = Append(val_stack, a.val) /\ P[k + 2] = a.to
          /\ V[k + 3] = val_stack /\ P[k + 3] = seek + 1
      BY <1>1
    <3> HIDE DEF V, P, a, d
    <3> QED
      BY <3>1
  <2> HIDE DEF V, P
  <2>7. (k + 3) - 1 = k + 2 /\ (k + 2) - 1 = k + 1 /\ (k + 1) - 1 = k /\ k \in 0..k
    BY <1>1
  <2>8. a.val # NoValue => StepAhead(p, vals2, pos2, k + 3)'
    <3> HIDE DEF d
    <3>1. p[pos2[k + 3]] = a
      BY <2>6
    <3> HIDE DEF a
    <3> QED
      BY <1>1, <2>6, <2>7, <3>1 DEF StepAhead
  <2>9. d.val # NoValue => StepAhead(p, vals2, pos2, k + 2)'
    <3>1. p[pos2[k + 2]] = d
      BY <2>6
    <3> HIDE DEF a, d
    <3> QED
      BY <1>1, <2>6, <2>7, <3>1 DEF StepAhead
  <2>10. CASE m = k + 1
    <3>1. p[seek].val = NoValue /\ p[0].val = NoValue
      <4>1. m # 0
        BY <1>1, <2>10
      <4> QED
        BY <2>5, <2>10, <4>1
    <3>2. a.val = NoValue \/ d.val = NoValue
      <4> HIDE DEF a, d
      <4>1. Pair(a.val, d.val) # NoValue
        BY DEF Pair, NoValue
      <4> QED
        BY <1>3, <3>1, <4>1
    <3>3. CASE a.val = NoValue
      <4> DEFINE m2 == k + 3
      <4>1. m2 \in 0..(k + 3) /\ m2 # 0 /\ \A j \in (m2 + 1)..(k + 3) : FALSE
        BY <1>1
      <4>2. p[pos2[m2]].val = NoValue /\ op_stack'[m2] = "read"
        BY <1>1, <2>6, <3>3
      <4>3. vals2[k + 3] = val_stack' /\ pos2[k + 3] = seek'
        BY <1>2, <2>6
      <4> HIDE DEF m2
      <4>4. Ahead(p, vals2, pos2, m2)'
        BY <1>1, <3>1, <4>1, <4>2, <4>3 DEF Ahead
      <4> QED
        BY <2>3, <4>4 DEF Good
    <3>4. CASE a.val # NoValue /\ d.val = NoValue
      <4> DEFINE m2 == k + 2
      <4>1. m2 \in 0..(k + 3) /\ m2 # 0 /\ \A j \in (m2 + 1)..(k + 3) : j = k + 3
        BY <1>1
      <4>2. p[pos2[m2]].val = NoValue /\ op_stack'[m2] = "read"
        BY <1>1, <2>6, <3>4
      <4>3. vals2[k + 3] = val_stack' /\ pos2[k + 3] = seek'
        BY <1>2, <2>6
      <4>4. \A j \in (m2 + 1)..(k + 3) : StepAhead(p, vals2, pos2, j)'
        BY <2>8, <3>4, <4>1
      <4> HIDE DEF m2
      <4>5. Ahead(p, vals2, pos2, m2)'
        BY <1>1, <3>1, <4>1, <4>2, <4>3, <4>4 DEF Ahead
      <4> QED
        BY <2>3, <4>5 DEF Good
    <3> QED
      BY <3>2, <3>3, <3>4
  <2>11. CASE m # k + 1
    <3>1. m \in 0..k /\ k + 1 \in (m + 1)..(k + 1)
      BY <1>1, <2>5, <2>11
    <3>2. StepAhead(p, vals, pos, k + 1)
      BY <2>5, <3>1
    <3>3. /\ p[seek].val # NoValue
          /\ vals[k] = Append(val_stack, p[seek].val) /\ pos[k] = p[seek].to
      BY <1>0, <2>5, <2>7, <3>2 DEF StepAhead
    <3>4. a.val # NoValue /\ d.val # NoValue /\ p[seek].val = Pair(a.val, d.val) /\ p[seek].to = d.to
      <4> HIDE DEF a, d
      <4> QED
        BY <1>3, <3>3
    <3>5. vals2[k] = Joined(vals2[k + 1]) /\ pos2[k] = pos2[k + 1]
      <4>1. IsSeq(val_stack)
        BY DEF Reader
      <4>2. vals2[k] = Append(val_stack, Pair(a.val, d.val)) /\ pos2[k] = d.to
        BY <2>6, <2>7, <3>3, <3>4
      <4> HIDE DEF a, d
      <4>3. Joined(Append(Append(val_stack, a.val), d.val)) = Append(val_stack, Pair(a.val, d.val))
        BY <4>1, JoinedTwo
      <4> QED
        BY <2>6, <4>2, <4>3
    <3>6. StepAhead(p, vals2, pos2, k + 1)'
      BY <1>1, <2>7, <3>5 DEF StepAhead
    <3>7. ASSUME NEW j \in (m + 1)..(k + 3) PROVE StepAhead(p, vals2, pos2, j)'
      <4>1. CASE j <= k
        <5>1. j \in 0..k /\ j - 1 \in 0..k /\ j \in (m + 1)..(k + 1) /\ j \in 1..k
          BY <1>1, <3>1, <4>1
        <5>2. /\ op_stack'[j] = op_stack[j] /\ StepAhead(p, vals, pos, j)
              /\ vals2[j] = vals[j] /\ pos2[j] = pos[j]
              /\ vals2[j - 1] = vals[j - 1] /\ pos2[j - 1] = pos[j - 1]
          BY <1>1, <2>5, <2>6, <5>1
        <5> QED
          BY <5>2 DEF StepAhead
      <4>2. CASE j = k + 1
        BY <3>6, <4>2
      <4>3. CASE j = k + 2
        BY <2>9, <3>4, <4>3
      <4>4. CASE j = k + 3
        BY <2>8, <3>4, <4>4
      <4> QED
        BY <1>1, <3>1, <4>1, <4>2, <4>3, <4>4
    <3>8. /\ vals2[k + 3] = val_stack' /\ pos2[k + 3] = seek'
          /\ m \in 0..(k + 3)
          /\ m = 0 => p[0].val # NoValue /\ vals2[0] = <<p[0].val>> /\ pos2[0] = p[0].to
          /\ m # 0 => op_stack'[m] = "read" /\ p[pos2[m]].val = NoValue /\ p[0].val = NoValue
      <4>1. m # 0 => m \in 1..k
        BY <1>1, <3>1
      <4>2. 0 \in 0..k /\ m \in 0..(k + 3)
        BY <1>1, <3>1
      <4> HIDE DEF a, d
      <4> QED
        BY <1>1, <1>2, <2>5, <2>6, <3>1, <4>1, <4>2
    <3>9. Ahead(p, vals2, pos2, m)'
      BY <1>1, <3>7, <3>8 DEF Ahead
    <3> QED
      BY <2>3, <3>9 DEF Good
  <2> QED
    BY <2>10, <2>11
<1> QED
  BY <1>4, <1>5

\* Two values become one.
LEMMA ConsFollows ==
  ASSUME Reader, Cons_, NEW p, Good(p) \/ Lost(p)
  PROVE  Good(p)' \/ Lost(p)'
<1>0. /\ op_stack # <<>> /\ Last(op_stack) = "cons" /\ op_stack' = Front(op_stack)
      /\ val_stack' = Joined(val_stack) /\ seek' = seek
  BY DEF Cons_
<1>1. PICK k : Popped(k) /\ op_stack[k + 1] = "cons"
  BY <1>0, OpsPopped DEF Reader
<1>2. k \in Nat /\ Len(op_stack) = k + 1 /\ Len(op_stack') = k
  BY <1>1 DEF Popped
<1>3. PICK v \in Nat : Len(val_stack) = v
  BY DEF Reader
<1>4. PICK w \in Nat : Len(val_stack') = w /\ w = (IF v < 2 THEN 0 ELSE v - 1)
  BY <1>0, <1>3, JoinedShape DEF Reader
<1>5. CASE Good(p)
  <2>1. PICK h : Heights(h) /\ h[k + 1] = v
    BY <1>2, <1>3, <1>5 DEF Good
  <2>2. PICK vals, pos, m : Ahead(p, vals, pos, m)
    BY <1>5 DEF Good
  <2>3. Heights(h)' /\ h[k] \in Nat /\ h[k] >= 1 /\ v = h[k] + 1
    BY <1>1, <2>1, HeightsPopped
  <2>4. w = h[k]
    BY <1>4, <2>3
  <2>5. /\ vals[k + 1] = val_stack /\ pos[k + 1] = seek
        /\ m \in 0..(k + 1)
        /\ \A j \in (m + 1)..(k + 1) : StepAhead(p, vals, pos, j)
        /\ m # 0 => op_stack[m] = "read"
    BY <1>2, <2>2 DEF Ahead
  <2>6. m # k + 1
    <3>1. k + 1 # 0
      BY <1>2
    <3> QED
      BY <1>1, <2>5, <3>1
  <2>7. k + 1 \in (m + 1)..(k + 1) /\ (k + 1) - 1 = k
    BY <1>2, <2>5, <2>6
  <2>8. vals[k] = Joined(val_stack) /\ pos[k] = seek
    <3>1. StepAhead(p, vals, pos, k + 1)
      BY <2>5, <2>7
    <3> QED
      BY <1>1, <2>5, <2>7, <3>1 DEF StepAhead
  <2>9. vals[k] = val_stack' /\ pos[k] = seek'
    BY <1>0, <2>8
  <2>10. Ahead(p, vals, pos, m)'
    BY <1>1, <2>2, <2>6, <2>9, AheadPopped
  <2> QED
    BY <1>2, <1>4, <2>3, <2>4, <2>10 DEF Good
<1>6. CASE Lost(p)
  <2>1. PICK h : Heights(h) /\ v < h[k + 1]
    BY <1>2, <1>3, <1>6 DEF Lost
  <2>2. Heights(h)' /\ h[k] \in Nat /\ h[k] >= 1 /\ h[k + 1] = h[k] + 1
    BY <1>1, <2>1, HeightsPopped
  <2>3. w < h[k]
    BY <1>4, <2>1, <2>2
  <2> QED
    BY <1>2, <1>4, <1>6, <2>2, <2>3 DEF Lost
<1> QED
  BY <1>5, <1>6

\* The reader as it starts.
LEMMA StartFollows ==
  ASSUME op_stack = <<"read">>, val_stack = <<>>, seek = 0, NEW p
  PROVE  Good(p)
<1>1. Len(op_stack) = 1 /\ op_stack[1] = "read" /\ Len(val_stack) = 0
  BY EmptySeq
<1> DEFINE H == [j \in Nat |-> IF j = 0 THEN 1 ELSE 0]
<1>2. H[0] = 1 /\ H[1] = 0
  OBVIOUS
<1> HIDE DEF H
<1>3. Heights(H)
  <2>1. /\ \A j \in 0..1 : j = 0 \/ j = 1
        /\ \A j \in 0..(1 - 1) : j = 0
        /\ \A j \in 1..1 : j = 1
        /\ 1 - 1 = 0
    OBVIOUS
  <2>2. \A j \in 0..1 : H[j] \in Nat
    BY <1>2, <2>1
  <2>3. \A j \in 0..(1 - 1) : H[j] >= 1
    BY <1>2, <2>1
  <2>4. \A j \in 1..1 : /\ op_stack[j] = "read" => H[j - 1] = H[j] + 1
                        /\ op_stack[j] = "cons" => H[j] = H[j - 1] + 1
    BY <1>1, <1>2, <2>1
  <2> QED
    BY <1>1, <1>2, <2>2, <2>3, <2>4 DEF Heights
<1> DEFINE V == [j \in Nat |-> IF j = 0 THEN <<p[0].val>> ELSE <<>>]
           P == [j \in Nat |-> IF j = 0 THEN p[0].to ELSE 0]
           m == IF p[0].val = NoValue THEN 1 ELSE 0
<1>4. V[0] = <<p[0].val>> /\ V[1] = <<>> /\ P[0] = p[0].to /\ P[1] = 0
  OBVIOUS
<1> HIDE DEF V, P
<1>5. Ahead(p, V, P, m)
  <2>1. CASE p[0].val = NoValue
    <3>1. m = 1 /\ 1 \in 0..1 /\ \A j \in (1 + 1)..1 : FALSE
      BY <2>1
    <3> HIDE DEF m
    <3> QED
      BY <1>1, <1>4, <2>1, <3>1 DEF Ahead
  <2>2. CASE p[0].val # NoValue
    <3>1. m = 0 /\ 0 \in 0..1 /\ (\A j \in (0 + 1)..1 : j = 1) /\ 1 - 1 = 0
      BY <2>2
    <3> HIDE DEF m
    <3>2. StepAhead(p, V, P, 1)
      <4>1. V[0] = Append(V[1], p[P[1]].val)
        BY <1>4
      <4> QED
        BY <1>1, <1>4, <2>2, <3>1, <4>1 DEF StepAhead
    <3> QED
      BY <1>1, <1>4, <2>2, <3>1, <3>2 DEF Ahead
  <2> QED
    BY <2>1, <2>2
<1> QED
  BY <1>1, <1>2, <1>3, <1>5 DEF Good

Followed == phase # "write" => \A p : IsParse(p) => Good(p) \/ Lost(p)

\* What the bytes say is about the stream only.
LEMMA SameParse ==
  ASSUME stream' = stream, NEW p, IsParse(p)'
  PROVE  IsParse(p)
<1>1. ASSUME NEW n, NEW from PROVE Available(n, from)' = Available(n, from)
  BY DEF Available
<1>2. ASSUME NEW b, NEW from PROVE atom_from_stream(b, from)' = atom_from_stream(b, from)
  <2> DEFINE more   == bit_count(b) - 1
             header == <<b>> \o SubSeq(stream, from + 1, from + more)
             size   == ReadSize(header)
  <2>1. header' = header
    OBVIOUS
  <2>2. size' = size
    BY <2>1
  <2> QED
    BY <2>2 DEF atom_from_stream, Available
<1>3. ASSUME NEW from PROVE Says(p, from)' = Says(p, from)
  BY <1>2 DEF Says
<1> QED
  BY <1>3 DEF IsParse

LEMMA NextFollowed == Typed /\ Followed /\ [SerializeNext]_serializeVars => Followed'
<1> SUFFICES ASSUME Typed, Followed, [SerializeNext]_serializeVars PROVE Followed'
  OBVIOUS
<1>1. Reader
  BY DEF Typed
<1>2. CASE WriteNext
  <2>1. phase' = "write"
    BY <1>2 DEF WriteNext
  <2> QED
    BY <2>1 DEF Followed
<1>3. CASE StartReading
  <2>1. op_stack' = <<"read">> /\ val_stack' = <<>> /\ seek' = 0
    BY <1>3 DEF StartReading, Typed
  <2>2. \A p : Good(p)'
    <3> TAKE p
    <3>1. (op_stack = <<"read">> /\ val_stack = <<>> /\ seek = 0)'
      BY <2>1
    <3>2. op_stack = <<"read">> /\ val_stack = <<>> /\ seek = 0 => Good(p)
      BY StartFollows
    <3> QED
      BY <3>1, <3>2, StartFollows, PTL
  <2> QED
    BY <2>2 DEF Followed
<1>4. ASSUME stream' = stream, phase # "write",
             NEW p, IsParse(p)'
      PROVE  IsParse(p) /\ (Good(p) \/ Lost(p))
  <2>1. IsParse(p)
    BY <1>4, SameParse
  <2> QED
    BY <1>4, <2>1 DEF Followed
<1>5. CASE ReadItem
  <2>1. /\ phase = "read" /\ op_stack # <<>> /\ Last(op_stack) = "read"
        /\ AtEnd \/ AtPair \/ AtAtom
        /\ UNCHANGED <<tree, state, stream, intact, phase>>
    BY <1>1, <1>5, ReadItemShape
  <2> SUFFICES ASSUME NEW p, IsParse(p)' PROVE Good(p)' \/ Lost(p)'
    BY DEF Followed
  <2>2. IsParse(p) /\ (Good(p) \/ Lost(p))
    BY <1>4, <2>1
  <2>3. PICK L \in Nat : Len(stream) = L /\ seek \in Nat /\ seek <= L
    BY <1>1 DEF Reader
  <2>4. p[seek] = Says(p, seek)
    <3>1. seek \in 0..L
      BY <2>3
    <3> QED
      BY <2>2, <2>3, <3>1 DEF IsParse
  <2>5. CASE AtPair
    BY <1>1, <2>1, <2>2, <2>5, PairFollows
  <2>6. CASE AtEnd
    <3>1. seek = L /\ op_stack' = Front(op_stack) /\ val_stack' = val_stack
      BY <2>3, <2>6 DEF AtEnd
    <3>2. p[seek].val = NoValue
      BY <2>3, <2>4, <3>1 DEF Says
    <3>3. PICK k : Popped(k) /\ op_stack[k + 1] = "read"
      BY <1>1, <2>1, <3>1, OpsPopped DEF Reader
    <3> QED
      BY <1>1, <2>2, <3>1, <3>2, <3>3, ItemFollows
  <2>7. CASE AtAtom
    <3>1. /\ seek # L /\ stream[seek + 1] # ConsMarker
          /\ op_stack' = Front(op_stack) /\ seek' = Met.to
          /\ val_stack' = IF Met.val = NoValue THEN val_stack ELSE Append(val_stack, Met.val)
      BY <2>3, <2>7 DEF AtAtom
    <3>2. p[seek] = Met
      BY <2>3, <2>4, <3>1 DEF Says, Met
    <3>3. PICK k : Popped(k) /\ op_stack[k + 1] = "read"
      BY <1>1, <2>1, <3>1, OpsPopped DEF Reader
    <3>4. /\ p[seek].val = NoValue => val_stack' = val_stack
          /\ p[seek].val # NoValue =>
               val_stack' = Append(val_stack, p[seek].val) /\ seek' = p[seek].to
      BY <3>1, <3>2
    <3> QED
      BY <1>1, <2>2, <3>3, <3>4, ItemFollows
  <2> QED
    BY <2>1, <2>5, <2>6, <2>7
<1>6. CASE Cons_
  <2>1. phase = "read" /\ stream' = stream
    BY <1>6 DEF Cons_
  <2> SUFFICES ASSUME NEW p, IsParse(p)' PROVE Good(p)' \/ Lost(p)'
    BY DEF Followed
  <2>2. Good(p) \/ Lost(p)
    BY <1>4, <2>1
  <2> QED
    BY <1>1, <1>6, <2>2, ConsFollows
<1>7. ASSUME UNCHANGED <<stream, op_stack, val_stack, seek>>, phase' # "write" => phase # "write"
      PROVE  Followed'
  <2> SUFFICES ASSUME phase' # "write", NEW p, IsParse(p)' PROVE Good(p)' \/ Lost(p)'
    BY DEF Followed
  <2>1. Good(p) \/ Lost(p)
    BY <1>4, <1>7
  <2>2. \A h : Heights(h)' <=> Heights(h)
    BY <1>7 DEF Heights
  <2>3. \A vals, pos, j : StepAhead(p, vals, pos, j)' <=> StepAhead(p, vals, pos, j)
    BY <1>7 DEF StepAhead
  <2>4. \A vals, pos, m : Ahead(p, vals, pos, m)' <=> Ahead(p, vals, pos, m)
    BY <1>7, <2>3 DEF Ahead
  <2> QED
    BY <1>7, <2>1, <2>2, <2>4 DEF Good, Lost
<1>8. CASE Return
  BY <1>7, <1>8 DEF Return
<1>9. CASE SerializeTerminated \/ UNCHANGED serializeVars
  BY <1>7, <1>9 DEF SerializeTerminated, serializeVars
<1> QED
  BY <1>2, <1>3, <1>5, <1>6, <1>8, <1>9 DEF SerializeNext

\* Though the reader's loop goes on after an error, it comes to a value only if
\* the stream begins with that value's bytes, whatever has become of the stream,
\* and then stops behind them (sexp_from_stream).
THEOREM ReaderMakesNothingUp == SerializeSpec => []NothingIsMadeUp
<1>1. SerializeInit => Followed
  BY DEF SerializeInit, SerializeStart, Followed
<1>2. Typed /\ Followed => NothingIsMadeUp
  <2> SUFFICES ASSUME Typed, Followed, phase = "done"
               PROVE  /\ Result = Parse[0].val
                      /\ Result # NoValue => seek = Parse[0].to /\ Len(val_stack) = 1
    BY DEF NothingIsMadeUp
  <2>1. op_stack = <<>> /\ Len(op_stack) = 0 /\ IsParse(Parse)
    BY EmptySeq, ParseIsParse DEF Typed, Reader
  <2>2. Good(Parse) \/ Lost(Parse)
    BY <2>1 DEF Followed
  <2> DEFINE p == Parse
  <2> HIDE DEF p
  <2>3. Good(p) \/ Lost(p)
    BY <2>2 DEF p
  <2>4. CASE Good(p)
    <3>1. PICK vals, pos, m : Ahead(p, vals, pos, m)
      BY <2>4 DEF Good
    <3>2. m = 0
      BY <2>1, <3>1 DEF Ahead
    <3>3. val_stack = <<p[0].val>> /\ seek = p[0].to
      BY <2>1, <3>1, <3>2 DEF Ahead
    <3>4. val_stack # <<>> /\ Len(val_stack) = 1 /\ Last(val_stack) = p[0].val
      BY <3>3 DEF Last
    <3> QED
      BY <3>3, <3>4 DEF Result, p
  <2>5. CASE Lost(p)
    <3>1. PICK h : Heights(h) /\ Len(val_stack) < h[0]
      BY <2>1, <2>5 DEF Lost
    <3>2. Len(val_stack) < 1
      BY <3>1 DEF Heights
    <3>3. val_stack = <<>>
      <4>1. PICK S : val_stack \in Seq(S)
        BY DEF Typed, Reader, IsSeq
      <4>2. Len(val_stack) \in Nat
        BY <4>1
      <4>3. Len(val_stack) = 0
        BY <3>2, <4>2
      <4> QED
        BY <4>1, <4>3, EmptySeq
    <3>4. Result = NoValue /\ p[0].val = NoValue
      BY <2>5, <3>3 DEF Result, Lost
    <3> QED
      BY <3>4 DEF p
  <2> QED
    BY <2>3, <2>4, <2>5
<1>3. Typed /\ Followed /\ [SerializeNext]_serializeVars => Followed'
  BY NextFollowed
<1> QED
  BY <1>1, <1>2, <1>3, AlwaysTyped, PTL DEF SerializeSpec

(***************************************************************************)
(* What is written is read.  Every piece that was written stands where it  *)
(* was written: todo[i] is what was left to be written before the i-th     *)
(* piece, at[i] the place of it.  The reader is before one of the pieces,  *)
(* and what its operations would make of the trees it has and of those     *)
(* still to be read is the tree that was written: vals[j] and rest[j] are  *)
(* the two behind the operations above the j-th.                           *)
(***************************************************************************)
Wrote(todo, at, i) ==
  LET w == Piece(Last(todo[i]))
  IN /\ todo[i] # <<>> /\ todo[i + 1] = Left(todo[i])
     /\ Stands(w, at[i]) /\ at[i + 1] = at[i] + Len(w)

Written(todo, at, k) ==
  /\ k \in Nat
  /\ todo[0] = <<tree>> /\ at[0] = 0
  /\ \A i \in 0..k : todo[i] \in Seq(Trees) /\ at[i] \in Nat
  /\ todo[k] = state /\ at[k] = Len(stream)
  /\ \A i \in 0..(k - 1) : Wrote(todo, at, i)

Undo(vals, rest, j) ==
  /\ op_stack[j] = "read" =>
       /\ rest[j] # <<>> /\ rest[j - 1] = Front(rest[j])
       /\ vals[j - 1] = Append(vals[j], Last(rest[j]))
  /\ op_stack[j] = "cons" => rest[j - 1] = rest[j] /\ vals[j - 1] = Joined(vals[j])

Unread(left, vals, rest) ==
  LET n == Len(op_stack)
  IN /\ vals[n] = val_stack /\ rest[n] = left
     /\ vals[0] = <<tree>> /\ rest[0] = <<>>
     /\ \A j \in 1..n : Undo(vals, rest, j)

Kept ==
  intact => \E todo, at, k :
    /\ Written(todo, at, k)
    /\ phase # "write" =>
         \E i, vals, rest : i \in 0..k /\ at[i] = seek /\ Unread(todo[i], vals, rest)

\* What stands in the stream still stands there when more is written, and so
\* does what is written.
LEMMA StandsStill ==
  ASSUME stream \in Seq(Byte), NEW L \in Nat, Len(stream) = L,
         NEW p \in Seq(Byte), stream' = stream \o p
  PROVE  /\ \A w, a : w \in Seq(Byte) /\ a \in Nat /\ Stands(w, a) => Stands(w, a)'
         /\ Stands(p, L)' /\ Len(stream') = L + Len(p)
<1>1. PICK n \in Nat : Len(p) = n
  BY LenProperties
<1>2. /\ Len(stream') = L + n
      /\ \A i \in 1..L : stream'[i] = stream[i]
      /\ \A i \in 1..n : stream'[L + i] = p[i]
  <2> DEFINE u == stream \o p
  <2>1. /\ Len(u) = L + n
        /\ \A i \in 1..(L + n) : u[i] = IF i <= L THEN stream[i] ELSE p[i - L]
    BY <1>1, ConcatProperties
  <2>2. stream' = u
    OBVIOUS
  <2> HIDE DEF u
  <2>3. ASSUME NEW i \in 1..L PROVE u[i] = stream[i]
    <3>1. i \in 1..(L + n) /\ i <= L
      OBVIOUS
    <3> QED
      BY <2>1, <3>1
  <2>4. ASSUME NEW i \in 1..n PROVE u[L + i] = p[i]
    <3>1. L + i \in 1..(L + n) /\ ~(L + i <= L) /\ (L + i) - L = i
      OBVIOUS
    <3> QED
      BY <2>1, <3>1
  <2> QED
    BY <2>1, <2>2, <2>3, <2>4
<1>3. ASSUME NEW w, NEW a, w \in Seq(Byte), a \in Nat, Stands(w, a) PROVE Stands(w, a)'
  <2>1. PICK m \in Nat : Len(w) = m
    BY <1>3, LenProperties
  <2>2. a + m <= L /\ \A i \in 1..m : stream[a + i] = w[i]
    BY <1>3, <2>1 DEF Stands
  <2>3. a + m <= L + n
    BY <1>3, <2>2
  <2>4. ASSUME NEW i \in 1..m PROVE stream'[a + i] = w[i]
    <3>1. a + i \in 1..L
      BY <1>3, <2>2
    <3> QED
      BY <1>2, <2>2, <3>1
  <2> QED
    BY <1>2, <2>1, <2>3, <2>4 DEF Stands
<1>4. Stands(p, L)'
  BY <1>1, <1>2 DEF Stands
<1> QED
  BY <1>1, <1>2, <1>3, <1>4

LEMMA WriteNextKept == Typed /\ Kept /\ WriteNext => Kept'
<1> SUFFICES ASSUME Typed, Kept, WriteNext PROVE Kept'
  OBVIOUS
<1> DEFINE t == Last(state)
<1>1. /\ phase = "write" /\ state # <<>> /\ t \in Trees
      /\ stream' = stream \o Piece(t)
      /\ state' = Left(state)
      /\ UNCHANGED <<tree, seek, op_stack, val_stack, intact, phase>>
  BY WriteNextShape
<1>2. stream \in Seq(Byte) /\ state \in Seq(Trees) /\ intact = TRUE
  BY <1>1 DEF Typed, Reader
<1>3. PICK todo, at, k : Written(todo, at, k)
  BY <1>2 DEF Kept
<1>4. /\ k \in Nat
      /\ todo[0] = <<tree>> /\ at[0] = 0
      /\ \A i \in 0..k : todo[i] \in Seq(Trees) /\ at[i] \in Nat
      /\ todo[k] = state /\ at[k] = Len(stream)
      /\ \A i \in 0..(k - 1) : Wrote(todo, at, i)
  BY <1>3 DEF Written
<1>5. PICK L \in Nat : Len(stream) = L /\ at[k] = L
  BY <1>2, <1>4, LenProperties
<1>6. PICK p \in Seq(Byte), n \in Nat : p = Piece(t) /\ Len(p) = n
  BY <1>1, PieceShape
<1>7. /\ \A w, a : w \in Seq(Byte) /\ a \in Nat /\ Stands(w, a) => Stands(w, a)'
      /\ Stands(p, L)' /\ Len(stream') = L + n
  <2>1. stream' = stream \o p
    BY <1>1, <1>6
  <2> QED
    BY <1>2, <1>5, <1>6, <2>1, StandsStill
<1>8. Left(state) \in Seq(Trees)
  BY <1>1, <1>2, LeftShape
<1> DEFINE T == [i \in Nat |-> IF i <= k THEN todo[i] ELSE Left(state)]
           A == [i \in Nat |-> IF i <= k THEN at[i] ELSE L + n]
<1>9. PICK todo2, at2 : /\ \A i \in 0..k : todo2[i] = todo[i] /\ at2[i] = at[i]
                        /\ todo2[k + 1] = Left(state) /\ at2[k + 1] = L + n
  <2>1. /\ \A i \in 0..k : T[i] = todo[i] /\ A[i] = at[i]
        /\ T[k + 1] = Left(state) /\ A[k + 1] = L + n
    BY <1>4
  <2> HIDE DEF T, A
  <2> QED
    BY <2>1
<1> HIDE DEF T, A
<1>10. ASSUME NEW i \in 0..(k + 1) PROVE todo2[i] \in Seq(Trees) /\ at2[i] \in Nat
  <2>1. CASE i \in 0..k
    BY <1>4, <1>9, <2>1
  <2>2. CASE i = k + 1
    BY <1>8, <1>9, <2>2
  <2> QED
    BY <1>4, <2>1, <2>2
<1>11. ASSUME NEW i \in 0..k PROVE Wrote(todo2, at2, i)'
  <2>1. i \in 0..k /\ todo2[i] = todo[i] /\ at2[i] = at[i]
    BY <1>9
  <2>2. CASE i = k
    <3>1. todo2[i] = state /\ at2[i] = L
      BY <1>4, <1>5, <2>1, <2>2
    <3>2. todo2[i + 1] = Left(state) /\ at2[i + 1] = L + n
      BY <1>9, <2>2
    <3>3. Piece(Last(todo2[i])) = p /\ todo2[i] # <<>> /\ todo2[i + 1] = Left(todo2[i])
      BY <1>1, <1>6, <3>1, <3>2
    <3> QED
      BY <1>6, <1>7, <3>1, <3>2, <3>3 DEF Wrote
  <2>3. CASE i # k
    <3>1. i \in 0..(k - 1) /\ i + 1 \in 0..k
      BY <1>4, <2>3
    <3>2. Wrote(todo, at, i) /\ todo2[i + 1] = todo[i + 1] /\ at2[i + 1] = at[i + 1]
      BY <1>4, <1>9, <3>1
    <3> DEFINE w == Piece(Last(todo[i]))
    <3>3. todo[i] # <<>> /\ todo[i + 1] = Left(todo[i]) /\ Stands(w, at[i]) /\ at[i + 1] = at[i] + Len(w)
      BY <3>2 DEF Wrote
    <3>4. todo[i] \in Seq(Trees) /\ at[i] \in Nat
      BY <1>4, <2>1
    <3>5. w \in Seq(Byte)
      BY <3>3, <3>4, TopOf, PieceShape
    <3>6. Stands(w, at[i])'
      <4> HIDE DEF w
      <4> QED
        BY <1>7, <3>3, <3>4, <3>5
    <3> QED
      BY <2>1, <3>2, <3>3, <3>6 DEF Wrote
  <2> QED
    BY <2>2, <2>3
<1>12. Written(todo2, at2, k + 1)'
  <2>1. todo2[0] = <<tree'>> /\ at2[0] = 0
    <3>1. 0 \in 0..k
      BY <1>4
    <3> QED
      BY <1>1, <1>4, <1>9, <3>1
  <2>2. k + 1 \in Nat /\ (k + 1) - 1 = k
    BY <1>4
  <2> QED
    BY <1>1, <1>7, <1>9, <1>10, <1>11, <2>1, <2>2 DEF Written
<1> QED
  BY <1>1, <1>12 DEF Kept

\* A trace of the writer as long as stream and state are what they are.
LEMMA StillWritten ==
  ASSUME UNCHANGED <<tree, state, stream>>, NEW todo, NEW at, NEW k, Written(todo, at, k)
  PROVE  Written(todo, at, k)'
<1>1. \A w, a : Stands(w, a)' <=> Stands(w, a)
  BY DEF Stands
<1>2. \A i : Wrote(todo, at, i)' <=> Wrote(todo, at, i)
  BY <1>1 DEF Wrote
<1> QED
  BY <1>2 DEF Written

\* The reader starts before the first piece.
LEMMA StartReadingKept == Typed /\ Kept /\ StartReading => Kept'
<1> SUFFICES ASSUME Typed, Kept, StartReading, intact' PROVE Kept'
  BY DEF Kept
<1>1. /\ stream' = stream
      /\ UNCHANGED <<tree, state, seek, op_stack, val_stack>>
  BY DEF StartReading
<1>2. op_stack = <<"read">> /\ val_stack = <<>> /\ seek = 0 /\ intact = TRUE /\ tree \in Trees
  BY DEF StartReading, Typed
<1>3. PICK todo, at, k : Written(todo, at, k)
  BY <1>2 DEF Kept
<1>4. Written(todo, at, k)'
  BY <1>1, <1>3, StillWritten
<1>5. k \in Nat /\ 0 \in 0..k /\ todo[0] = <<tree>> /\ at[0] = 0
  BY <1>3 DEF Written
<1>6. Len(op_stack') = 1 /\ op_stack'[1] = "read"
  BY <1>1, <1>2
<1> DEFINE V == [j \in Nat |-> IF j = 0 THEN <<tree>> ELSE <<>>]
           R == [j \in Nat |-> IF j = 0 THEN <<>> ELSE <<tree>>]
<1>7. PICK vals, rest : vals[0] = <<tree>> /\ vals[1] = <<>> /\ rest[0] = <<>> /\ rest[1] = <<tree>>
  <2>1. V[0] = <<tree>> /\ V[1] = <<>> /\ R[0] = <<>> /\ R[1] = <<tree>>
    OBVIOUS
  <2> HIDE DEF V, R
  <2> QED
    BY <2>1
<1> HIDE DEF V, R
<1>8. Front(<<tree>>) = <<>> /\ Last(<<tree>>) = tree /\ <<tree>> # <<>>
  <2>1. <<>> \in Seq(Trees) /\ Append(<<>>, tree) = <<tree>>
    BY <1>2
  <2> QED
    BY <1>2, <2>1, PutOn
<1>9. Undo(vals, rest, 1)'
  <2>1. 1 - 1 = 0 /\ Append(<<>>, tree) = <<tree>>
    OBVIOUS
  <2> QED
    BY <1>6, <1>7, <1>8, <2>1 DEF Undo
<1>10. Unread(todo[0], vals, rest)'
  <2>1. \A j \in 1..1 : j = 1
    OBVIOUS
  <2> QED
    BY <1>1, <1>2, <1>5, <1>6, <1>7, <1>9, <2>1 DEF Unread
<1> QED
  BY <1>1, <1>2, <1>4, <1>5, <1>10 DEF Kept

\* The operations under one that is done.
LEMMA UnreadPopped ==
  ASSUME NEW k, Popped(k), NEW left, NEW vals, NEW rest, Unread(left, vals, rest), tree' = tree,
         vals[k] = val_stack'
  PROVE  Unread(rest[k], vals, rest)'
<1>1. /\ k \in Nat /\ Len(op_stack) = k + 1 /\ Len(op_stack') = k
      /\ \A i \in 1..k : op_stack'[i] = op_stack[i]
  BY DEF Popped
<1>2. /\ vals[0] = <<tree>> /\ rest[0] = <<>>
      /\ \A j \in 1..(k + 1) : Undo(vals, rest, j)
  BY <1>1 DEF Unread
<1>3. ASSUME NEW j \in 1..k PROVE Undo(vals, rest, j)'
  <2>1. j \in 1..(k + 1)
    BY <1>1
  <2>2. op_stack'[j] = op_stack[j] /\ Undo(vals, rest, j)
    BY <1>1, <1>2, <2>1
  <2> QED
    BY <2>2 DEF Undo
<1> QED
  BY <1>1, <1>2, <1>3 DEF Unread

LEMMA ConsKept == Typed /\ Kept /\ Cons_ => Kept'
<1> SUFFICES ASSUME Typed, Kept, Cons_, intact PROVE Kept'
  BY DEF Kept, Cons_
<1>0. /\ phase = "read" /\ op_stack # <<>> /\ Last(op_stack) = "cons" /\ op_stack' = Front(op_stack)
      /\ val_stack' = Joined(val_stack)
      /\ UNCHANGED <<tree, state, stream, seek, intact, phase>>
  BY DEF Cons_
<1>1. PICK q : Popped(q) /\ op_stack[q + 1] = "cons"
  BY <1>0, OpsPopped DEF Typed, Reader
<1>2. q \in Nat /\ Len(op_stack) = q + 1
  BY <1>1 DEF Popped
<1>3. PICK todo, at, k, i, vals, rest :
        Written(todo, at, k) /\ i \in 0..k /\ at[i] = seek /\ Unread(todo[i], vals, rest)
  BY <1>0 DEF Kept
<1>4. /\ vals[q + 1] = val_stack /\ rest[q + 1] = todo[i]
      /\ \A j \in 1..(q + 1) : Undo(vals, rest, j)
  BY <1>2, <1>3 DEF Unread
<1>5. Undo(vals, rest, q + 1) /\ (q + 1) - 1 = q
  <2>1. q + 1 \in 1..(q + 1) /\ (q + 1) - 1 = q
    BY <1>2
  <2> QED
    BY <1>4, <2>1
<1>6. vals[q] = Joined(val_stack) /\ rest[q] = todo[i]
  BY <1>1, <1>4, <1>5 DEF Undo
<1>7. vals[q] = val_stack' /\ tree' = tree
  BY <1>0, <1>6
<1>8. Unread(rest[q], vals, rest)'
  BY <1>1, <1>3, <1>7, UnreadPopped
<1>9. Written(todo, at, k)'
  BY <1>0, <1>3, StillWritten
<1> QED
  BY <1>0, <1>3, <1>6, <1>8, <1>9 DEF Kept

\* No atom has 2^20 bytes or more: what is written of those is not read back.
AtomsAreShort == \A t \in Trees : t[1] = "atom" => Short(t[2])

LEMMA ReadItemKept ==
  ASSUME AtomsAreShort, Typed, Kept, ReadItem
  PROVE  Kept'
<1> SUFFICES ASSUME intact PROVE Kept'
  BY DEF Kept, ReadItem
<1>1. /\ phase = "read" /\ op_stack # <<>> /\ Last(op_stack) = "read"
      /\ AtEnd \/ AtPair \/ AtAtom
      /\ UNCHANGED <<tree, state, stream, intact, phase>>
  BY ReadItemShape DEF Typed
<1>2. stream \in Seq(Byte) /\ IsSeq(val_stack)
  BY DEF Typed, Reader
<1>3. PICK todo, at, k, i, vals, rest :
        Written(todo, at, k) /\ i \in 0..k /\ at[i] = seek /\ Unread(todo[i], vals, rest)
  BY <1>1 DEF Kept
<1>4. Written(todo, at, k)'
  BY <1>1, <1>3, StillWritten
<1>5. PICK q \in Nat : Len(op_stack) = q + 1 /\ op_stack[q + 1] = "read"
  BY <1>1, TopOf DEF Typed, Reader
<1>6. /\ vals[q + 1] = val_stack /\ rest[q + 1] = todo[i]
      /\ vals[0] = <<tree>> /\ rest[0] = <<>>
      /\ \A j \in 1..(q + 1) : Undo(vals, rest, j)
  BY <1>3, <1>5 DEF Unread
<1>7. Undo(vals, rest, q + 1) /\ (q + 1) - 1 = q
  <2>1. q + 1 \in 1..(q + 1) /\ (q + 1) - 1 = q
    BY <1>5
  <2> QED
    BY <1>6, <2>1
<1>8. /\ todo[i] # <<>> /\ rest[q] = Front(todo[i])
      /\ vals[q] = Append(val_stack, Last(todo[i]))
  BY <1>5, <1>6, <1>7 DEF Undo
<1>9. /\ k \in Nat /\ todo[k] = <<>> /\ todo[i] \in Seq(Trees) /\ at[i] \in Nat
      /\ \A l \in 0..(k - 1) : Wrote(todo, at, l)
  BY <1>1, <1>3 DEF Written, Typed
<1>10. Wrote(todo, at, i) /\ i + 1 \in 0..k
  <2>1. i # k
    BY <1>8, <1>9
  <2>2. i \in 0..(k - 1) /\ i + 1 \in 0..k
    BY <1>3, <1>9, <2>1
  <2> QED
    BY <1>9, <2>2
<1>11. PICK t \in Trees : t = Last(todo[i])
  BY <1>8, <1>9, TopOf
<1>12. PICK w \in Seq(Byte), n \in Nat : w = Piece(t) /\ Len(w) = n /\ n # 0
  BY <1>11, PieceShape
<1>13. todo[i + 1] = Left(todo[i]) /\ Stands(w, seek) /\ at[i + 1] = seek + n
  BY <1>3, <1>10, <1>11, <1>12 DEF Wrote
<1>14. seek # Len(stream)
  <2>1. PICK L \in Nat : Len(stream) = L
    BY <1>2, LenProperties
  <2>2. seek + n <= L /\ seek \in Nat
    BY <1>3, <1>9, <1>12, <1>13, <2>1 DEF Stands
  <2> QED
    BY <1>12, <2>1, <2>2
<1>15. CASE t[1] = "atom"
  <2>1. t = Atom(t[2]) /\ t[2] \in Seq(Byte) /\ Short(t[2]) /\ w = WriteAtom(t[2])
    BY <1>11, <1>12, <1>15, TreeShape DEF AtomsAreShort, Piece
  <2>2. /\ stream[seek + 1] # 255
        /\ atom_from_stream(stream[seek + 1], seek + 1) = [val |-> t, to |-> seek + n]
    <3>1. PICK x \in Seq(Byte) : x = t[2]
      BY <2>1
    <3>2. seek \in Nat
      BY <1>3, <1>9
    <3> QED
      BY <1>2, <1>12, <1>13, <2>1, <3>1, <3>2, AtomReadsBack
  <2>3. t # NoValue
    BY <1>15 DEF NoValue
  <2>4. /\ op_stack' = Front(op_stack) /\ seek' = seek + n
        /\ val_stack' = Append(val_stack, t)
    <3>1. AtAtom
      BY <1>1, <1>14, <2>2 DEF AtEnd, AtPair, ConsMarker
    <3> QED
      BY <2>2, <2>3, <3>1 DEF AtAtom, Met
  <2>5. PICK p : Popped(p)
    BY <1>1, <2>4, OpsPopped DEF Typed, Reader
  <2>6. p = q
    BY <1>5, <2>5 DEF Popped
  <2>7. vals[q] = val_stack' /\ tree' = tree
    BY <1>1, <1>8, <1>11, <2>4
  <2>8. Unread(rest[q], vals, rest)'
    BY <1>3, <2>5, <2>6, <2>7, UnreadPopped
  <2>9. rest[q] = todo[i + 1]
    BY <1>8, <1>11, <1>13, <1>15 DEF Left
  <2>10. at[i + 1] = seek'
    BY <1>13, <2>4
  <2> QED
    BY <1>4, <1>10, <2>8, <2>9, <2>10 DEF Kept
<1>16. CASE t[1] # "atom"
  <2>1. t = Pair(t[2], t[3]) /\ t[2] \in Trees /\ t[3] \in Trees /\ w = <<255>>
    BY <1>12, <1>16, TreeShape DEF Piece, ConsMarker
  <2>2. PICK a, d \in Trees : a = t[2] /\ d = t[3] /\ t = Pair(a, d)
    BY <2>1
  <2>3. n = 1 /\ stream[seek + 1] = 255
    BY <1>12, <1>13, <2>1 DEF Stands
  <2>4. AtPair
    BY <1>1, <1>14, <2>3 DEF AtEnd, AtAtom, ConsMarker
  <2>5. seek' = seek + 1 /\ val_stack' = val_stack
    BY <2>4 DEF AtPair
  <2>6. PICK p : Pushed(p)
    BY <1>1, <2>4, OpsPushed DEF Typed, Reader
  <2>7. /\ Len(op_stack') = q + 3
        /\ \A j \in 1..q : op_stack'[j] = op_stack[j]
        /\ op_stack'[q + 1] = "cons" /\ op_stack'[q + 2] = "read" /\ op_stack'[q + 3] = "read"
    <3>1. p = q
      BY <1>5, <2>6 DEF Pushed
    <3> QED
      BY <2>6, <3>1 DEF Pushed
  <2>8. PICK f \in Seq(Trees) : f = Front(todo[i])
    BY <1>8, <1>9, TopOf
  <2>9. todo[i + 1] = Append(Append(f, d), a)
    BY <1>11, <1>13, <1>16, <2>2, <2>8 DEF Left
  <2> DEFINE V == [j \in Nat |-> IF j <= q THEN vals[j]
                                 ELSE IF j = q + 1 THEN Append(Append(val_stack, a), d)
                                 ELSE IF j = q + 2 THEN Append(val_stack, a) ELSE val_stack]
             R == [j \in Nat |-> IF j <= q THEN rest[j]
                                 ELSE IF j = q + 1 THEN f
                                 ELSE IF j = q + 2 THEN Append(f, d) ELSE Append(Append(f, d), a)]
  <2>10. PICK vals2, rest2 :
           /\ \A j \in 0..q : vals2[j] = vals[j] /\ rest2[j] = rest[j]
           /\ vals2[q + 1] = Append(Append(val_stack, a), d) /\ rest2[q + 1] = f
           /\ vals2[q + 2] = Append(val_stack, a) /\ rest2[q + 2] = Append(f, d)
           /\ vals2[q + 3] = val_stack /\ rest2[q + 3] = Append(Append(f, d), a)
    <3>1. /\ \A j \in 0..q : V[j] = vals[j] /\ R[j] = rest[j]
          /\ V[q + 1] = Append(Append(val_stack, a), d) /\ R[q + 1] = f
          /\ V[q + 2] = Append(val_stack, a) /\ R[q + 2] = Append(f, d)
          /\ V[q + 3] = val_stack /\ R[q + 3] = Append(Append(f, d), a)
      BY <1>5
    <3> HIDE DEF V, R
    <3> QED
      BY <3>1
  <2> HIDE DEF V, R
  <2>11. (q + 3) - 1 = q + 2 /\ (q + 2) - 1 = q + 1 /\ (q + 1) - 1 = q /\ q \in 0..q /\ 0 \in 0..q
    BY <1>5
  <2>12. /\ Append(f, d) \in Seq(Trees) /\ Append(f, d) # <<>>
         /\ Last(Append(f, d)) = d /\ Front(Append(f, d)) = f
    BY <2>8, PutOn
  <2>13. /\ Append(Append(f, d), a) # <<>>
         /\ Last(Append(Append(f, d), a)) = a /\ Front(Append(Append(f, d), a)) = Append(f, d)
    BY <2>12, PutOn
  <2>14. Undo(vals2, rest2, q + 3)'
    BY <2>7, <2>10, <2>11, <2>13 DEF Undo
  <2>15. Undo(vals2, rest2, q + 2)'
    BY <2>7, <2>10, <2>11, <2>12 DEF Undo
  <2>16. Undo(vals2, rest2, q + 1)'
    <3>1. Joined(Append(Append(val_stack, a), d)) = Append(val_stack, Pair(a, d))
      BY <1>2, JoinedTwo
    <3>2. vals2[q] = Append(val_stack, Pair(a, d)) /\ rest2[q] = f
      BY <1>8, <1>11, <2>2, <2>8, <2>10, <2>11
    <3>3. vals2[q] = Joined(vals2[q + 1]) /\ rest2[q] = rest2[q + 1]
      BY <2>10, <3>1, <3>2
    <3> QED
      BY <2>7, <2>11, <3>3 DEF Undo
  <2>17. ASSUME NEW j \in 1..(q + 3) PROVE Undo(vals2, rest2, j)'
    <3>1. CASE j <= q
      <4>1. j \in 0..q /\ j - 1 \in 0..q /\ j \in 1..(q + 1) /\ j \in 1..q
        BY <1>5, <3>1
      <4>2. /\ op_stack'[j] = op_stack[j] /\ Undo(vals, rest, j)
            /\ vals2[j] = vals[j] /\ rest2[j] = rest[j]
            /\ vals2[j - 1] = vals[j - 1] /\ rest2[j - 1] = rest[j - 1]
        BY <1>6, <2>7, <2>10, <4>1
      <4> QED
        BY <4>2 DEF Undo
    <3>2. CASE j = q + 1
      BY <2>16, <3>2
    <3>3. CASE j = q + 2
      BY <2>15, <3>3
    <3>4. CASE j = q + 3
      BY <2>14, <3>4
    <3> QED
      BY <1>5, <3>1, <3>2, <3>3, <3>4
  <2>18. Unread(todo[i + 1], vals2, rest2)'
    <3>1. vals2[0] = <<tree'>> /\ rest2[0] = <<>>
      BY <1>1, <1>6, <2>10, <2>11
    <3>2. vals2[q + 3] = val_stack' /\ rest2[q + 3] = todo[i + 1]
      BY <2>5, <2>9, <2>10
    <3> QED
      BY <2>7, <2>17, <3>1, <3>2 DEF Unread
  <2>19. at[i + 1] = seek'
    BY <1>13, <2>3, <2>5
  <2> QED
    BY <1>4, <1>10, <2>18, <2>19 DEF Kept
<1> QED
  BY <1>15, <1>16

\* A stream that is as it was written is read back as what was written, for
\* values whose atoms are shorter than 2^20 bytes (sexp_to_stream,
\* sexp_from_stream); longer ones are not, as a run finds.
THEOREM WrittenIsReadBack ==
  ASSUME AtomsAreShort
  PROVE  SerializeSpec => []WhatIsWrittenIsRead
<1>1. SerializeInit => Kept
  <2> SUFFICES ASSUME SerializeInit PROVE Kept
    OBVIOUS
  <2>1. PICK t \in Trees : SerializeStart(t)
    BY DEF SerializeInit
  <2>2. tree = t /\ state = <<t>> /\ stream = <<>> /\ phase = "write" /\ Len(stream) = 0
    BY <2>1, EmptySeq DEF SerializeStart
  <2> DEFINE T == [i \in Nat |-> <<t>>]
             A == [i \in Nat |-> 0]
  <2>3. T[0] = <<t>> /\ A[0] = 0 /\ <<t>> \in Seq(Trees)
    OBVIOUS
  <2> HIDE DEF T, A
  <2>4. (\A i \in 0..0 : i = 0) /\ (\A i \in 0..(0 - 1) : FALSE)
    OBVIOUS
  <2>5. Written(T, A, 0)
    <3>1. \A i \in 0..0 : T[i] \in Seq(Trees) /\ A[i] \in Nat
      <4>1. PICK u \in Seq(Trees) : u = <<t>>
        BY <2>3
      <4>2. T[0] = u /\ A[0] = 0
        BY <2>3, <4>1
      <4> QED
        BY <2>4, <4>2
    <3>2. \A i \in 0..(0 - 1) : Wrote(T, A, i)
      BY <2>4
    <3>3. T[0] = <<tree>> /\ A[0] = 0 /\ T[0] = state /\ A[0] = Len(stream)
      BY <2>2, <2>3
    <3> QED
      BY <3>1, <3>2, <3>3 DEF Written
  <2> QED
    BY <2>2, <2>5 DEF Kept
<1>2. Typed /\ Kept /\ [SerializeNext]_serializeVars => Kept'
  <2> SUFFICES ASSUME Typed, Kept, [SerializeNext]_serializeVars PROVE Kept'
    OBVIOUS
  <2>1. ASSUME UNCHANGED <<tree, state, stream, seek, op_stack, val_stack, intact>>,
               phase' # "write" => phase # "write"
        PROVE  Kept'
    <3> SUFFICES ASSUME intact PROVE Kept'
      BY <2>1 DEF Kept
    <3>1. PICK todo, at, k :
            /\ Written(todo, at, k)
            /\ phase # "write" =>
                 \E i, vals, rest : i \in 0..k /\ at[i] = seek /\ Unread(todo[i], vals, rest)
      BY DEF Kept
    <3>2. Written(todo, at, k)'
      BY <2>1, <3>1, StillWritten
    <3>3. \A left, vals, rest : Unread(left, vals, rest)' <=> Unread(left, vals, rest)
      <4>1. \A vals, rest, j : Undo(vals, rest, j)' <=> Undo(vals, rest, j)
        BY <2>1 DEF Undo
      <4> QED
        BY <2>1, <4>1 DEF Unread
    <3> QED
      BY <2>1, <3>1, <3>2, <3>3 DEF Kept
  <2>2. CASE Return
    BY <2>1, <2>2 DEF Return
  <2>3. CASE SerializeTerminated \/ UNCHANGED serializeVars
    BY <2>1, <2>3 DEF SerializeTerminated, serializeVars
  <2> QED
    BY <2>2, <2>3, WriteNextKept, StartReadingKept, ReadItemKept, ConsKept DEF SerializeNext
<1>3. Typed /\ Kept => WhatIsWrittenIsRead
  <2> SUFFICES ASSUME Typed, Kept, phase = "done", intact PROVE Result = tree
    BY DEF WhatIsWrittenIsRead
  <2>1. PICK left, vals, rest : Unread(left, vals, rest)
    BY DEF Kept
  <2>2. Len(op_stack) = 0
    BY EmptySeq DEF Typed
  <2>3. val_stack = <<tree>>
    BY <2>1, <2>2 DEF Unread
  <2>4. val_stack # <<>> /\ Last(val_stack) = tree
    BY <2>3 DEF Last
  <2> QED
    BY <2>4 DEF Result
<1> QED
  BY <1>1, <1>2, <1>3, AlwaysTyped, PTL DEF SerializeSpec
=============================================================================
