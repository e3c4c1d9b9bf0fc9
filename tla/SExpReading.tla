---------------------------- MODULE SExpReading ----------------------------
(***************************************************************************)
(* A text that is read character by character (compiler/sexp.rs            *)
(* ParsePartialResult::push), as long as the reader holds little.          *)
(***************************************************************************)
EXTENDS SExpReader

CONSTANTS
  Alphabet,   \* the characters that come
  MaxHeld     \* bound: what the reader holds when it still takes one

VARIABLE reader    \* the ParsePartialResult

Init == reader = Start

RECURSIVE Weight(_), StateWeight(_)

\* The size of a form and of a state of the reader.
Weight(v) ==
  CASE v = Nil -> 1
    [] v[1] = "cons" -> Weight(v[2]) + (IF v[3] = Nil THEN 1 ELSE Weight(v[3]))
    [] v[1] \in {"atom", "int"} -> Len(v[2])
    [] v[1] = "quoted" -> Len(v[3]) + 1

FormsWeight(forms) == FoldLeft(LAMBDA n, v : n + Weight(v), 0, forms)

StateWeight(st) ==
  CASE st[1] = "Bareword" -> Len(st[2])
    [] st[1] \in {"QuotedText", "QuotedEscaped"} -> Len(st[3]) + 1
    [] st[1] = "ParsingList" -> 1 + StateWeight(st[2]) + FormsWeight(st[3])
    [] st[1] = "TermList" -> 2 + StateWeight(st[2]) + FormsWeight(st[3]) + FormsWeight(st[4])
    [] st[1] \in {"OpenList", "StartStructuredList"} -> 1
    [] st[1] \in {"Empty", "CommentText"} -> 0

Held == StateWeight(reader.state) + FormsWeight(reader.res)

Take(c) ==
  /\ ~reader.failed /\ Held < MaxHeld
  /\ reader' = push(reader, c)

Next == \E c \in Alphabet : Take(c)

Spec == Init /\ [][Next]_reader

(***************************************************************************)
(* Properties                                                              *)
(***************************************************************************)

\* The states the reader gets into: an item of a list is never at its
\* beginning, and behind a dot is at most one form.
RECURSIVE StateOK(_)
StateOK(st) ==
  CASE st[1] \in {"Empty", "CommentText", "OpenList", "StartStructuredList"} -> TRUE
    [] st[1] = "Bareword" -> st[2] # <<>>
    [] st[1] \in {"QuotedText", "QuotedEscaped"} -> st[2] \in {"\"", "'"}
    [] st[1] = "ParsingList" -> StateOK(st[2]) /\ st[4] \in BOOLEAN
    [] st[1] = "TermList" -> StateOK(st[2]) /\ Len(st[4]) <= 1
                             /\ (st[4] # <<>> => st[2] \in {Empty, CommentText})

TypeOK == reader.failed \in BOOLEAN /\ StateOK(reader.state)

\* Every form that can be read is read again from its own print, up to the way
\* its atoms are written (SExp's Display, parse_sexp).
ReadsWhatItPrints ==
  LET read == finalize(reader)
  IN \A i \in DOMAIN read.forms :
       LET again == parse_sexp(Printed(read.forms[i]))
       IN ~again.failed /\ Len(again.forms) = 1 /\ Same(again.forms[1], read.forms[i])
=============================================================================
