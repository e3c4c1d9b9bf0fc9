------------------------------- MODULE MCText -------------------------------
(***************************************************************************)
(* Instances of what reads, writes and holds values, in one graph: the     *)
(* reader of chialisp text, the REPL, the writing and reading of CLVM      *)
(* values, the sizes of atoms, and the objects a program in Javascript     *)
(* holds.  One of them works and the others stay at their beginning.       *)
(***************************************************************************)
EXTENDS Serialize, ObjectCache

CONSTANTS
  MaxHeld,    \* bound: what the reader of text holds
  MaxText,    \* bound: what is typed to the REPL
  Sizes       \* bound: sizes of atoms looked at on their own

VARIABLES
  part,                                                                \* which of them works
  reader,                                                              \* SExpReading
  depth, input_exp, helpers, panicked, session, asked,                 \* Repl
  size                                                                 \* of an atom

repl == <<depth, input_exp, helpers, panicked, session, asked>>
varsOfAll == <<part, reader, repl, serializeVars, size, vars>>

\* Every class of characters but #: a name that begins with it does not
\* survive printing.
Alphabet == {"(", ")", ".", "a", "1", ";", "\"", "'", "\\", " ", "nl"}

(***************************************************************************)
(* What is typed: forms over one line or several, and several in one line, *)
(* with definitions, of which b is the keyword, before others and behind;  *)
(* lines that close too much, in quotes and out of them; comments and nil. *)
(* No line opens a parenthesis in quotes, in a comment or in a word.       *)
(***************************************************************************)
Reading == INSTANCE SExpReading
Keywords == {<<"b">>}
CompilesAlone(form) == form[3][2][1] = "atom" /\ form[3][3] # Reading!Nil
Lines ==
  {<<"a">>, <<";", "a">>, <<")">>, <<"(", "a", ")">>, <<"(", "b">>, <<"a", " ", "1", ")">>,
   <<"(", "a", " ", "(", "1">>, <<"1", ")", ")">>, <<"(", "b", " ", "1", ")">>, <<"\"", "a", "\"">>,
   <<"(", "b", " ", "a", " ", "\"", "1", "\"", ")">>,
   <<"1", " ", "(", "a", ")">>, <<"(", "a", ")", "(", "b">>, <<")", "(", "1", ")">>,
   <<"(", "(">>, <<"(", ")">>, <<"\"", ")", "\"">>}

(***************************************************************************)
(* What is written: small trees of atoms of no, one, two and 64 bytes, and *)
(* the atoms on both sides of a change of the header's length.  A stream   *)
(* is damaged by breaking off anywhere, by another byte at any place or by *)
(* a byte left out; one of thousands of bytes is not.  The bytes that come *)
(* in are headers of up to three bytes, pairs and plain bytes.             *)
(***************************************************************************)
Few == {Atom(<<>>), Atom(<<5>>), Atom(<<200, 255>>)}
Pairs(s, t) == {Pair(a, b) : a \in s, b \in t}
Flat == Few \cup Pairs(Few, Few)
Long(n) == Atom([i \in 1..n |-> IF i % 7 = 0 THEN 255 ELSE 5])
SmallTrees ==
  Flat \cup Pairs(Flat, Flat)
    \cup Pairs(Pairs(Few, {Atom(<<5>>)}), Pairs(Flat, {Atom(<<200, 255>>)}))
    \cup Pairs({Long(64)}, {Atom(<<5>>)}) \cup Pairs({Atom(<<5>>)}, {Long(64)})
    \cup {Long(n) : n \in {63, 64, 8191, 8192}}

OtherBytes == {0, 5, 128, 129, 130, 192, 224, 255}
Damaged(s) ==
  IF Len(s) > 1000 THEN {} ELSE
    {SubSeq(s, 1, n) : n \in 0..(Len(s) - 1)}
      \cup (IF Len(s) > 20 THEN {} ELSE
              {[s EXCEPT ![i] = b] : i \in DOMAIN s, b \in OtherBytes}
                \cup {RemoveAt(s, i) : i \in DOMAIN s})

\* The first size with a header of four bytes.
NoSizes == {}
FourBytes == {1048576}

(***************************************************************************)
(* What is held: a number, and a pair of nil and the text with the bytes   *)
(* of a number.  There are four ids, of which the first three are numbers  *)
(* from 0 on and the fourth is negative.                                   *)
(***************************************************************************)
Converting == INSTANCE ClvmConvert WITH PrimMap <- {}, NewStyle <- TRUE

HeldHex(v) == Converting!convert_to_clvm_rs(v)
HeldParsed(h) == Converting!convert_from_clvm_rs(h)
HeldEmpty == Converting!Nil
HeldIsPair(v) == Converting!IsCons(v)
HeldLeftOf(v) == Converting!First(v)
HeldRightOf(v) == Converting!Rest(v)
HeldPairOf(a, b) == Converting!Pair(a, b)
HeldValues == {Converting!Int_(5), Converting!Pair(Converting!Nil, Converting!Bytes(6, FALSE))}

\* Atoms, pairs of them and pairs of those.
HeldAtoms == {Converting!Nil, Converting!Int_(5), Converting!Int_(6), Converting!Bytes(6, FALSE)}
HeldPairs(s) == {Converting!Pair(a, b) : a \in s, b \in s}
HeldSExps == HeldAtoms \cup HeldPairs(HeldAtoms \cup HeldPairs(HeldAtoms))

(***************************************************************************)
(* The parts side by side.                                                 *)
(***************************************************************************)
Typing == INSTANCE Repl WITH toplevel_forms <- Keywords, Compiles <- CompilesAlone

InitOfAll ==
  /\ part \in {"reader", "repl", "serialize", "objects"} \cup {"sizes" : s \in Sizes}
  /\ Reading!Init
  /\ Typing!Init
  /\ IF part = "serialize" THEN SerializeInit ELSE SerializeStart(Atom(<<>>))
  /\ IF part = "sizes" THEN size \in Sizes ELSE size = 1
  /\ Init

NextOfAll ==
  /\ \/ part = "reader" /\ Reading!Next /\ UNCHANGED <<repl, serializeVars, vars>>
     \/ part = "repl" /\ Typing!Next /\ UNCHANGED <<reader, serializeVars, vars>>
     \/ part = "serialize" /\ SerializeNext /\ UNCHANGED <<reader, repl, vars>>
     \/ part = "objects" /\ Next /\ UNCHANGED <<reader, repl, serializeVars>>
  /\ UNCHANGED <<part, size>>

SpecOfAll == InitOfAll /\ [][NextOfAll]_varsOfAll

(***************************************************************************)
(* Properties                                                              *)
(***************************************************************************)

\* The types of all states.
TypesOK == Reading!TypeOK /\ Typing!TypeOK /\ SerializeTypeOK

\* What the reader of text reads is read again from its print
\* (compiler/sexp.rs parse_sexp and Display).
ReadsWhatItPrints == Reading!ReadsWhatItPrints


\* The number of leading ones is the number of bytes that carry the size, and
\* the size those bytes carry is the one that was written (serialize.rs, the
\* comment at its top).
SizeReadsBack ==
  LET h == Header(size)
  IN /\ Len(h) = bit_count(h[1])
     /\ ReadSize(h) = size
=============================================================================
