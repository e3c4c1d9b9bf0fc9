----------------------------- MODULE SExpReader -----------------------------
(***************************************************************************)
(* compiler/sexp.rs: the incremental reader of chialisp text               *)
(* (ParsePartialResult, parse_sexp_step) and the way forms are printed.    *)
(*                                                                         *)
(* A text is a sequence of characters; a character is a string, "nl" the   *)
(* newline.  The two hex digits of a character c are the one character     *)
(* "x" \o c, and its share of a numeral that stands for bytes "d" \o c.    *)
(* Locations are left out.                                                 *)
(***************************************************************************)
EXTENDS Integers, Sequences, SequencesExt

Digits == {"0", "1", "2"}
Letters == {"a", "b", "-"}
Others == {"(", ")", ".", "#", ";", "\"", "'", "\\", " ", "nl"}
Characters == Digits \cup Letters \cup Others
Space == {" ", "nl"}

HexOf(t) == [i \in DOMAIN t |-> "x" \o t[i]]
NumeralOf(t) == [i \in DOMAIN t |-> "d" \o t[i]]
HexDigits == {"x" \o c : c \in Characters}
NumeralDigits == {"d" \o c : c \in Characters}
CharactersOf(t, letter) == [i \in DOMAIN t |-> CHOOSE c \in Characters : letter \o c = t[i]]

(***************************************************************************)
(* Forms.                                                                  *)
(***************************************************************************)
Nil == <<"nil">>
Word(w) == <<"atom", w>>
Quoted(q, t) == <<"quoted", q, t>>
Number(w) == <<"int", w>>
Pair(a, b) == <<"cons", a, b>>

enlist(items) == FoldRight(Pair, items, Nil)
with_tail(items, tail) == FoldRight(Pair, items, tail)

\* #( ... ): a balanced tree of the items.
RECURSIVE restructure_list(_)
restructure_list(items) ==
  LET mid == Len(items) \div 2
  IN CASE items = <<>> -> Nil
       [] Len(items) = 1 -> items[1]
       [] OTHER -> Pair(restructure_list(SubSeq(items, 1, mid)),
                        restructure_list(SubSeq(items, mid + 1, Len(items))))

closed_list(items, structured) == IF structured THEN restructure_list(items) ELSE enlist(items)

is_dec(w) ==
  LET digits == IF w[1] = "-" THEN Tail(w) ELSE w
  IN digits # <<>> /\ \A i \in DOMAIN digits : digits[i] \in Digits \cup NumeralDigits

Normal(w) ==
  LET minus  == IF w[1] = "-" THEN <<"-">> ELSE <<>>
      digits == SubSeq(w, Len(minus) + 1, Len(w))
      first  == CHOOSE i \in DOMAIN digits : digits[i] # "0" /\ \A j \in 1..(i - 1) : digits[j] = "0"
  IN minus \o SubSeq(digits, first, Len(digits))

\* What a word means: a number, of which 0 is nil, bytes in hex, or a name,
\* which # in front marks as one (prims that have the name apart).
make_atom(w) ==
  CASE Len(w) > 1 /\ w[1] = "#" -> Word(Tail(w))
    [] ~(Len(w) > 1 /\ w[1] = "#") /\ w[1] \in HexDigits -> Quoted("x", CharactersOf(w, "x"))
    [] ~(Len(w) > 1 /\ w[1] = "#") /\ w[1] \notin HexDigits ->
         IF ~is_dec(w) THEN Word(w)
         ELSE IF \A i \in DOMAIN w : w[i] \in {"0", "-"} THEN Nil ELSE Number(Normal(w))

(***************************************************************************)
(* The reader's states and what a character makes of them.                 *)
(***************************************************************************)
Empty == <<"Empty">>
CommentText == <<"CommentText">>
Bareword(w) == <<"Bareword", w>>
QuotedText(q, t) == <<"QuotedText", q, t>>
QuotedEscaped(q, t) == <<"QuotedEscaped", q, t>>
OpenList == <<"OpenList">>
ParsingList(pp, content, structured) == <<"ParsingList", pp, content, structured>>
TermList(parsed, pp, content) == <<"TermList", pp, content, parsed>>
StartStructuredList == <<"StartStructuredList">>

resume(st) == [emitted |-> <<>>, state |-> st, failed |-> FALSE]
emit(form, st) == [emitted |-> <<form>>, state |-> st, failed |-> FALSE]
error == [emitted |-> <<>>, state |-> Empty, failed |-> TRUE]

step_empty(c) ==
  CASE c = "(" -> resume(OpenList)
    [] c = ")" -> error
    [] c = ";" -> resume(CommentText)
    [] c \in {"\"", "'"} -> resume(QuotedText(c, <<>>))
    [] c = "#" -> resume(StartStructuredList)
    [] c \in Space -> resume(Empty)
    [] c \notin Others \/ c \in {".", "\\"} -> resume(Bareword(<<c>>))

\* The closed dotted list; the items before the dot must be there.
dotted(content, tail) == IF content = <<>> THEN error ELSE emit(with_tail(content, tail), Empty)

RECURSIVE parse_sexp_step(_, _)

\* Fault: a list that is closed behind a word loses the word.
step_list_DropsWord(st, c) ==
  LET pp == st[2]  content == st[3]  structured == st[4]
      inner == parse_sexp_step(pp, c)
  IN CASE c = ")" /\ pp[1] \in {"Empty", "Bareword"} -> emit(closed_list(content, structured), Empty)
       [] c = "." /\ pp = Empty -> IF structured THEN error ELSE resume(TermList(<<>>, Empty, content))
       [] ~(c = ")" /\ pp[1] \in {"Empty", "Bareword"}) /\ ~(c = "." /\ pp = Empty) ->
            IF inner.failed THEN error
            ELSE resume(ParsingList(inner.state, content \o inner.emitted, structured))

\* In a list: a dot or a closing parenthesis between its items, or whatever
\* the item that is being read makes of the character.
step_list(st, c) ==
  LET pp == st[2]  content == st[3]  structured == st[4]
      inner == parse_sexp_step(pp, c)
  IN CASE c = "." /\ pp = Empty -> IF structured THEN error ELSE resume(TermList(<<>>, Empty, content))
       [] c = ")" /\ pp = Empty -> emit(closed_list(content, structured), Empty)
       [] c = ")" /\ pp[1] = "Bareword" ->
            emit(closed_list(Append(content, make_atom(pp[2])), structured), Empty)
       [] ~(c = "." /\ pp = Empty) /\ ~(c = ")" /\ pp[1] \in {"Empty", "Bareword"}) ->
            IF inner.failed THEN error
            ELSE resume(ParsingList(inner.state, content \o inner.emitted, structured))

\* Behind the dot of a list: the tail is still to come ...
step_before_tail(pp, content, c) ==
  LET inner == parse_sexp_step(pp, c)
  IN CASE c = "." /\ pp = Empty -> error
       [] c = ")" /\ pp = Empty ->
            emit(IF Len(content) = 1 THEN content[1] ELSE enlist(content), Empty)
       [] c = ")" /\ pp[1] = "Bareword" -> dotted(content, make_atom(pp[2]))
       [] ~(c \in {".", ")"} /\ pp = Empty) /\ ~(c = ")" /\ pp[1] = "Bareword") ->
            IF inner.failed THEN error
            ELSE IF inner.emitted # <<>> THEN resume(TermList(inner.emitted, Empty, content))
            ELSE resume(TermList(<<>>, inner.state, content))

\* ... or is there, and nothing but space and comments may follow it.
step_behind_tail(parsed, pp, content, c) ==
  LET inner == parse_sexp_step(pp, c)
  IN IF c = ")" /\ pp = Empty THEN dotted(content, parsed)
     ELSE IF inner.failed \/ inner.emitted # <<>> \/ inner.state \notin {Empty, CommentText} THEN error
     ELSE resume(TermList(<<parsed>>, inner.state, content))

parse_sexp_step(st, c) ==
  CASE st = Empty -> step_empty(c)
    [] st = CommentText -> resume(IF c = "nl" THEN Empty ELSE CommentText)
    [] st[1] = "Bareword" ->
         IF c \in Space THEN emit(make_atom(st[2]), Empty) ELSE resume(Bareword(Append(st[2], c)))
    [] st[1] = "QuotedText" ->
         IF c = "\\" THEN resume(QuotedEscaped(st[2], st[3]))
         ELSE IF c = st[2] THEN emit(Quoted(st[2], st[3]), Empty)
         ELSE resume(QuotedText(st[2], Append(st[3], c)))
    [] st[1] = "QuotedEscaped" -> resume(QuotedText(st[2], Append(st[3], c)))
    [] st = OpenList ->
         IF c = ")" THEN emit(Nil, Empty)
         ELSE IF c = "." \/ step_empty(c).failed THEN error
         ELSE resume(ParsingList(step_empty(c).state, <<>>, FALSE))
    [] st[1] = "ParsingList" -> step_list(st, c)
    [] st[1] = "TermList" ->
         IF st[4] = <<>> THEN step_before_tail(st[2], st[3], c)
         ELSE step_behind_tail(st[4][1], st[2], st[3], c)
    [] st = StartStructuredList ->
         IF c = "(" THEN resume(ParsingList(Empty, <<>>, TRUE))
         ELSE parse_sexp_step(Bareword(<<"#">>), c)

(***************************************************************************)
(* ParsePartialResult.                                                     *)
(***************************************************************************)
Start == [res |-> <<>>, state |-> Empty, failed |-> FALSE]

\* A text that has failed stays so.
push(r, c) ==
  LET next == parse_sexp_step(r.state, c)
  IN IF r.failed THEN r
     ELSE [res |-> r.res \o next.emitted, state |-> next.state, failed |-> next.failed]

Failure == [failed |-> TRUE, forms |-> <<>>]

\* What the text means if it ends here.  A word that is not ended by a space is
\* all that comes out.
finalize(r) ==
  CASE ~r.failed /\ r.state \in {Empty, CommentText} -> [failed |-> FALSE, forms |-> r.res]
    [] ~r.failed /\ r.state[1] = "Bareword" -> [failed |-> FALSE, forms |-> <<make_atom(r.state[2])>>]
    [] r.failed \/ (r.state \notin {Empty, CommentText} /\ r.state[1] # "Bareword") -> Failure

parse_sexp(text) == finalize(FoldLeft(push, Start, text))

(***************************************************************************)
(* Printing.                                                               *)
(***************************************************************************)
printable(t, quoted) ==
  \A i \in DOMAIN t : t[i] \notin {"nl", "\"", "\\"} /\ (quoted \/ t[i] \notin {" ", "'"})

escape_quote(q, t) == FlattenSeq([i \in DOMAIN t |-> IF t[i] = q THEN <<"\\", q>> ELSE <<t[i]>>])

nilp(v) == v = Nil \/ (v[1] = "quoted" /\ v[3] = <<>>)

RECURSIVE Printed(_)

list_no_parens(a, b) ==
  CASE nilp(b) -> Printed(a)
    [] b[1] = "cons" -> Printed(a) \o <<" ">> \o SubSeq(Printed(b), 2, Len(Printed(b)) - 1)
    [] ~nilp(b) /\ b[1] # "cons" -> Printed(a) \o <<" ", ".", " ">> \o Printed(b)

Printed(v) ==
  CASE v = Nil -> <<"(", ")">>
    [] v[1] = "cons" -> <<"(">> \o list_no_parens(v[2], v[3]) \o <<")">>
    [] v[1] = "int" -> v[2]
    [] v[1] = "quoted" -> IF printable(v[3], TRUE) THEN <<"\"">> \o escape_quote(v[2], v[3]) \o <<"\"">>
                          ELSE HexOf(v[3])
    [] v[1] = "atom" -> IF printable(v[2], FALSE) THEN v[2] ELSE NumeralOf(v[2])

\* SExp::equal_to: what the bytes are, not how they were written.
RECURSIVE Same(_, _)
Content(v) ==
  CASE v[1] = "atom" -> v[2]
    [] v[1] = "quoted" -> v[3]
    [] v[1] = "int" -> IF v[2][1] \in NumeralDigits THEN CharactersOf(v[2], "d") ELSE <<"int">> \o v[2]

Same(v, w) ==
  CASE nilp(v) \/ nilp(w) -> nilp(v) /\ nilp(w)
    [] ~nilp(v) /\ ~nilp(w) /\ (v[1] = "cons" \/ w[1] = "cons") ->
         v[1] = w[1] /\ Same(v[2], w[2]) /\ Same(v[3], w[3])
    [] ~nilp(v) /\ ~nilp(w) /\ v[1] # "cons" /\ w[1] # "cons" -> Content(v) = Content(w)
=============================================================================
