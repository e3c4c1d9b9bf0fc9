------------------------------ MODULE Serialize ------------------------------
(***************************************************************************)
(* classic/clvm/serialize.rs: sexp_to_stream and sexp_from_stream, both    *)
(* with a stack of their own in place of recursion.  The reader's          *)
(* operations give errors that its loop drops: a stream that breaks off or *)
(* is damaged is found out only by what is left on the stacks.             *)
(***************************************************************************)
EXTENDS SerializeAtom

CONSTANTS
  Trees,      \* the values written and their parts
  Damages(_)  \* what may have become of a stream when it is read

Atom(bytes) == <<"atom", bytes>>
Pair(a, b) == <<"pair", a, b>>
NoValue == <<"error">>

ASSUME TreesAssumption ==
  \A t \in Trees :
    \/ t[1] = "atom" /\ t = Atom(t[2]) /\ t[2] \in Seq(0..255) /\ Len(t[2]) < 128 * 1024 * 1024
    \/ t[1] = "pair" /\ t = Pair(t[2], t[3]) /\ {t[2], t[3]} \subseteq Trees

VARIABLES
  tree,        \* the value that was written
  state,       \* what the writer has still to write, the next one last
  stream,      \* the bytes
  seek,        \* how many of them are read
  op_stack,    \* what the reader has still to do: "read", "cons"
  val_stack,   \* the values it has
  intact,      \* the stream is read as it was written
  phase        \* "write", "read", "done"

serializeVars == <<tree, state, stream, seek, op_stack, val_stack, intact, phase>>

ConsMarker == 255

SerializeStart(t) ==
  /\ tree = t
  /\ state = <<t>>
  /\ stream = <<>> /\ seek = 0
  /\ op_stack = <<"read">> /\ val_stack = <<>>
  /\ intact = TRUE
  /\ phase = "write"

SerializeInit == \E t \in Trees : SerializeStart(t)

\* Fault: the rest of a pair is written before its first.
WriteNext_RestFirst ==
  LET t == Last(state)
  IN /\ phase = "write" /\ state # <<>>
     /\ IF t[1] = "atom"
        THEN stream' = stream \o WriteAtom(t[2]) /\ state' = Front(state)
        ELSE stream' = Append(stream, ConsMarker) /\ state' = Front(state) \o <<t[2], t[3]>>
     /\ UNCHANGED <<tree, seek, op_stack, val_stack, intact, phase>>

\* SExpToBytesIterator: an atom with its header, or the mark of a pair with
\* the first of it to be written next.
WriteNext ==
  LET t == Last(state)
  IN /\ phase = "write" /\ state # <<>>
     /\ IF t[1] = "atom"
        THEN stream' = stream \o WriteAtom(t[2]) /\ state' = Front(state)
        ELSE stream' = Append(stream, ConsMarker) /\ state' = Front(state) \o <<t[3], t[2]>>
     /\ UNCHANGED <<tree, seek, op_stack, val_stack, intact, phase>>

\* The bytes are read some other time, perhaps not all of them.
StartReading ==
  /\ phase = "write" /\ state = <<>>
  /\ stream' \in {stream} \cup (Damages(stream) \cap Seq(0..255))
  /\ intact' = (stream' = stream)
  /\ phase' = "read"
  /\ UNCHANGED <<tree, state, seek, op_stack, val_stack>>

\* Stream::read: no more than there is.
Available(n, from) == IF from + n <= Len(stream) THEN n ELSE Len(stream) - from

\* atom_from_stream behind the first byte b: the atom, or NoValue, and how
\* far it read.
atom_from_stream(b, from) ==
  LET more   == bit_count(b) - 1
      header == <<b>> \o SubSeq(stream, from + 1, from + more)
      size   == ReadSize(header)
      start  == from + more
  IN IF b <= 127 THEN [val |-> Atom(<<b>>), to |-> from]
     ELSE IF b = 128 THEN [val |-> Atom(<<>>), to |-> from]
     ELSE IF Available(more, from) # more
     THEN [val |-> NoValue, to |-> from + Available(more, from)]
     ELSE IF TooLarge(size)
     THEN [val |-> NoValue, to |-> start]
     ELSE IF Available(size, start) # size
     THEN [val |-> NoValue, to |-> start + Available(size, start)]
     ELSE [val |-> Atom(SubSeq(stream, start + 1, start + size)), to |-> start + size]

\* OpReadSexp, of which no error comes out.
ReadItem ==
  /\ phase = "read" /\ op_stack # <<>> /\ Last(op_stack) = "read"
  /\ IF Available(1, seek) = 0
     THEN /\ op_stack' = Front(op_stack)
          /\ UNCHANGED <<seek, val_stack>>
     ELSE LET b == stream[seek + 1]
              a == atom_from_stream(b, seek + 1)
          IN IF b = ConsMarker
             THEN /\ op_stack' = Front(op_stack) \o <<"cons", "read", "read">>
                  /\ seek' = seek + 1
                  /\ UNCHANGED val_stack
             ELSE /\ op_stack' = Front(op_stack)
                  /\ seek' = a.to
                  /\ val_stack' = IF a.val = NoValue THEN val_stack ELSE Append(val_stack, a.val)
  /\ UNCHANGED <<tree, state, stream, intact, phase>>

\* Fault: a value without another stays on the stack.
Joined_KeepsLone(vals) ==
  LET n == Len(vals)
  IN IF n < 2 THEN vals ELSE Append(SubSeq(vals, 1, n - 2), Pair(vals[n - 1], vals[n]))

\* OpCons: the two values on top become one; a value without another is
\* popped all the same and lost.
Joined(vals) ==
  LET n == Len(vals)
  IN IF n < 2 THEN <<>> ELSE Append(SubSeq(vals, 1, n - 2), Pair(vals[n - 1], vals[n]))

Cons_ ==
  /\ phase = "read" /\ op_stack # <<>> /\ Last(op_stack) = "cons"
  /\ op_stack' = Front(op_stack)
  /\ val_stack' = Joined(val_stack)
  /\ UNCHANGED <<tree, state, stream, seek, intact, phase>>

\* Nothing is left to do: the value on top is the result, if there is one.
Return ==
  /\ phase = "read" /\ op_stack = <<>>
  /\ phase' = "done"
  /\ UNCHANGED <<tree, state, stream, seek, op_stack, val_stack, intact>>

SerializeTerminated == phase = "done" /\ UNCHANGED serializeVars

SerializeNext == WriteNext \/ StartReading \/ ReadItem \/ Cons_ \/ Return \/ SerializeTerminated

SerializeSpec == SerializeInit /\ [][SerializeNext]_serializeVars

Result == IF val_stack = <<>> THEN NoValue ELSE Last(val_stack)

(***************************************************************************)
(* Properties                                                              *)
(***************************************************************************)

SerializeTypeOK ==
  /\ phase \in {"write", "read", "done"} /\ intact \in BOOLEAN
  /\ phase = "done" => op_stack = <<>>
  /\ seek \in 0..Len(stream)
  /\ \A i \in DOMAIN op_stack : op_stack[i] \in {"read", "cons"}
  /\ Len(val_stack) <= Len(stream)

\* What the bytes from a place on say, and where they end.
Parse[from \in 0..Len(stream)] ==
  LET b == stream[from + 1]
      a == Parse[from + 1]
      d == Parse[a.to]
  IN IF from = Len(stream) THEN [val |-> NoValue, to |-> from]
     ELSE IF b # ConsMarker THEN atom_from_stream(b, from + 1)
     ELSE IF a.val = NoValue THEN a
     ELSE IF d.val = NoValue THEN d
     ELSE [val |-> Pair(a.val, d.val), to |-> d.to]

\* Though the reader's loop goes on after an error, it comes to a value only if
\* the stream begins with that value's bytes and then stops behind them
\* (sexp_from_stream).
NothingIsMadeUp ==
  phase = "done" =>
    /\ Result = Parse[0].val
    /\ Result # NoValue => seek = Parse[0].to /\ Len(val_stack) = 1

\* A stream that is as it was written is read back as what was written
\* (sexp_to_stream, sexp_from_stream).
WhatIsWrittenIsRead == phase = "done" /\ intact => Result = tree
=============================================================================
