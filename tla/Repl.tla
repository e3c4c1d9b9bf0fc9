-------------------------------- MODULE Repl --------------------------------
(***************************************************************************)
(* compiler/repl.rs: Repl::process_line.  Lines are gathered as long as    *)
(* parentheses are open, and what was gathered is read, defines something  *)
(* or is evaluated.                                                        *)
(*                                                                         *)
(* A word is one character and so is a keyword.  Evaluating a form is left *)
(* out; that it happens is kept in asked.                                  *)
(***************************************************************************)
EXTENDS SExpReader, FiniteSets, FiniteSetsExt

CONSTANTS
  Lines,           \* what may be typed, sequences of characters
  toplevel_forms,  \* the keywords of definitions
  Compiles(_),     \* whether the frontend takes a definition
  MaxText          \* bound: the length of what is typed without an error

VARIABLES
  depth,       \* parentheses that are open
  input_exp,   \* the text gathered
  helpers,     \* the evaluator's definitions: sequence of [name, form]
  panicked,    \* "", or the place the program ended at
  session,     \* history: the lines since the last that could not be read
  asked        \* history: the forms handled in that time

vars == <<depth, input_exp, helpers, panicked, session, asked>>

Init ==
  /\ depth = 0 /\ input_exp = <<>>
  /\ helpers = <<>>
  /\ panicked = ""
  /\ session = <<>> /\ asked = <<>>

Count(line, c) == Cardinality({i \in DOMAIN line : line[i] = c})
count_depth(line) == Count(line, "(") - Count(line, ")")

\* add_helper: a definition takes the place of the one of the same name.
add_helper(known, h) ==
  IF \E i \in DOMAIN known : known[i].name = h.name
  THEN [i \in DOMAIN known |-> IF known[i].name = h.name THEN h ELSE known[i]]
  ELSE Append(known, h)

(***************************************************************************)
(* What a line comes to.                                                   *)
(***************************************************************************)
Taken(line) == input_exp \o <<"nl">> \o line

TypedSoFar == FoldLeft(LAMBDA n, line : n + Len(line) + 1, 0, session)
Prompts == panicked = "" /\ TypedSoFar < MaxText

Typed(line) ==
  /\ Prompts
  /\ session' = Append(session, line)

\* Fault: the depth is not reset behind an error.
Unbalanced_KeepsDepth(line) ==
  /\ Typed(line) /\ depth + count_depth(line) < 0
  /\ depth' = depth + count_depth(line) /\ input_exp' = <<>> /\ asked' = <<>>
  /\ UNCHANGED <<helpers, panicked>>

\* More are closed than were opened: the text is expected not to parse.
Unbalanced(line) ==
  LET parsed == parse_sexp(Taken(line))
  IN /\ Prompts
     /\ depth + count_depth(line) < 0
     /\ IF parsed.failed
        THEN depth' = 0 /\ input_exp' = <<>> /\ session' = <<>> /\ asked' = <<>> /\ UNCHANGED panicked
        ELSE /\ panicked' = "too many parens but parsed anyway"
             /\ depth' = depth + count_depth(line) /\ input_exp' = <<>>
             /\ session' = Append(session, line)
             /\ UNCHANGED asked
     /\ UNCHANGED helpers


\* Some are still open: there is more to come.
Gather(line) ==
  /\ Typed(line) /\ depth + count_depth(line) > 0
  /\ depth' = depth + count_depth(line)
  /\ input_exp' = Taken(line)
  /\ UNCHANGED <<helpers, panicked, asked>>

\* All are closed: what was gathered is read and gone.
Complete(line) ==
  /\ depth + count_depth(line) = 0
  /\ depth' = 0 /\ input_exp' = <<>>

Unreadable(line) ==
  /\ Prompts
  /\ Complete(line) /\ parse_sexp(Taken(line)).failed
  /\ session' = <<>> /\ asked' = <<>>
  /\ UNCHANGED <<helpers, panicked>>

Forms(line) == parse_sexp(Taken(line)).forms

Nothing(line) ==
  /\ Typed(line) /\ Complete(line)
  /\ ~parse_sexp(Taken(line)).failed /\ Forms(line) = <<>>
  /\ UNCHANGED <<helpers, panicked, asked>>

RECURSIVE proper_list(_)
proper_list(form) == nilp(form) \/ (form[1] = "cons" /\ proper_list(form[3]))

is_helper(form) == form[1] = "cons" /\ form[2] \in {Word(w) : w \in toplevel_forms}

\* Whatever follows the first form, only that is looked at.
Define(line) ==
  LET form == Forms(line)[1]
  IN /\ Typed(line) /\ Complete(line)
     /\ Forms(line) # <<>> /\ is_helper(form)
     /\ helpers' = IF form[3][1] = "cons" /\ Compiles(form)
                   THEN add_helper(helpers, [name |-> form[3][2], form |-> form])
                   ELSE helpers
     /\ asked' = Append(asked, form)
     /\ UNCHANGED panicked

\* detect_chialisp_module: several forms are a module, and so is a list that
\* begins with a list.
is_module(forms) ==
  \/ Len(forms) > 1
  \/ forms[1][1] = "cons" /\ forms[1][2][1] = "cons" /\ proper_list(forms[1])

\* A module has exports and nothing that is evaluated; of a form that nil is
\* detect_chialisp_module looks for the first item.
Evaluate(line) ==
  /\ Typed(line) /\ Complete(line)
  /\ Forms(line) # <<>> /\ ~is_helper(Forms(line)[1])
  /\ CASE is_module(Forms(line)) -> UNCHANGED <<asked, panicked>>
       [] ~is_module(Forms(line)) /\ nilp(Forms(line)[1]) ->
            panicked' = "index out of bounds" /\ UNCHANGED asked
       [] ~is_module(Forms(line)) /\ ~nilp(Forms(line)[1]) ->
            asked' = Append(asked, Forms(line)[1]) /\ UNCHANGED panicked
  /\ UNCHANGED helpers

Next == \E line \in Lines :
  Unbalanced(line) \/ Gather(line) \/ Unreadable(line) \/ Nothing(line) \/ Define(line) \/ Evaluate(line)

Spec == Init /\ [][Next]_vars

(***************************************************************************)
(* Properties                                                              *)
(***************************************************************************)

\* What is gathered has as many open parentheses as depth says, and nothing
\* is gathered when none is; a name is defined once.
TypeOK ==
  /\ panicked = "" => depth >= 0 /\ depth = count_depth(input_exp)
  /\ depth = 0 => input_exp = <<>>
  /\ \A i, j \in DOMAIN helpers : helpers[i].name = helpers[j].name => i = j

\* What a whole text asks for: a definition that comes first, or the form it
\* has.
AsksFor(forms) ==
  IF forms # <<>> /\ (is_helper(forms[1]) \/ ~is_module(forms)) THEN <<forms[1]>> ELSE <<>>

\* The whole texts that were typed, a text being as many lines as the reader
\* needs to read them, and the lines behind the last.
Whole ==
  LET Line(so_far, line) ==
        LET text == so_far.input_exp \o <<"nl">> \o line
            parsed == parse_sexp(text)
        IN IF parsed.failed
           THEN [so_far EXCEPT !.input_exp = text]
           ELSE [asked |-> so_far.asked \o AsksFor(parsed.forms), input_exp |-> <<>>]
  IN FoldLeft(Line, [asked |-> <<>>, input_exp |-> <<>>], session)

=============================================================================
