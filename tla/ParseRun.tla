------------------------------ MODULE ParseRun ------------------------------
(***************************************************************************)
(* A program is printed, its text edited character by character, and every *)
(* text parsed (language-core/src/parse.ts), as the editor does with what  *)
(* is typed.                                                               *)
(***************************************************************************)
EXTENDS Parser, Printer

CONSTANTS
  Programs,    \* sequence of syntax trees
  Typed,       \* the characters that may be typed into a text
  MaxEdits     \* bound on the edits of one text

VARIABLES
  program,   \* the tree that was printed, << >> before
  text,      \* what the editor holds
  removed,   \* the characters deleted
  typed,     \* the characters inserted
  result     \* what parse makes of the text

vars == << program, text, removed, typed, result >>

\* The empty text is parsed.
Init ==
  /\ program = << >> /\ text = << >> /\ removed = << >> /\ typed = << >>
  /\ result = treeOf(parsed(start(<< Eof >>, << >>), << >>))

Write(i) ==
  /\ program = << >>
  /\ program' = Programs[i]
  /\ text' = print(Programs[i])
  /\ UNCHANGED << removed, typed >>

Edits == Len(removed) + Len(typed)

Delete(i) ==
  /\ Edits < MaxEdits
  /\ text' = RemoveAt(text, i)
  /\ removed' = Append(removed, text[i])
  /\ UNCHANGED << program, typed >>

Insert(i, c) ==
  /\ program # << >> /\ Edits < MaxEdits
  /\ text' = InsertAt(text, i, c)
  /\ typed' = Append(typed, c)
  /\ UNCHANGED << program, removed >>

\* Each text is parsed.
Next ==
  /\ \/ \E i \in DOMAIN Programs : Write(i)
     \/ \E i \in DOMAIN text : Delete(i)
     \/ \E i \in 1..(Len(text) + 1), c \in Typed : Insert(i, c)
  /\ result' = parse(text')

Spec == Init /\ [][Next]_vars

(***************************************************************************)
(* Properties.                                                             *)
(***************************************************************************)
\* An expression without its parentheses.
RECURSIVE Ungrouped(_)
Ungrouped(e) ==
  CASE e.kind = "Grouping" -> Ungrouped(e.expression)
    [] e.kind = "Binary" -> BinaryExpression(e.op, Ungrouped(e.left), Ungrouped(e.right))
    [] e.kind = "Unary"  -> UnaryExpression(e.op, Ungrouped(e.argument))
    [] OTHER -> e
SameStatement(s, t) ==
  IF s.kind = "Output" /\ t.kind = "Output"
  THEN All(s.expressions, Ungrouped) = All(t.expressions, Ungrouped)
  ELSE s = t

\* Blocks within blocks, the body of a routine among them.
RECURSIVE DepthOf(_)
DepthOf(ss) ==
  LET inner(s) == IF IsRoutine(s) THEN << s.body >> ELSE Blocks(s) IN
  Max({ 0 } \cup UNION { { 1 + DepthOf(inner(ss[i])[k]) : k \in DOMAIN inner(ss[i]) }
                         : i \in DOMAIN ss })

\* What one writes is what one gets: a printed program parses without an error
\* to the tree it was printed from, whatever its precedences, its parameter
\* modes and the characters of its literals.
PrintedTextReparses ==
  Edits = 0 /\ DepthOf(program) <= maxBlockNesting =>
    /\ result.ok
    /\ Len(result.ast) = Len(program)
    /\ \A i \in DOMAIN program : SameStatement(result.ast[i], program[i])

\* The tokens of a text that carry its meaning: not line breaks, the defaults
\* PUBLIC and BYVAL, DO, the colon of OTHERWISE, nor the variable after NEXT.
Idle(tokens, i) ==
  \/ tokens[i].kind \in { "Newline", "DO", "PUBLIC", "BYVAL" }
  \/ i > 1 /\ tokens[i].kind = ":" /\ tokens[i - 1].kind = "OTHERWISE"
  \/ i > 1 /\ tokens[i].kind = "Identifier" /\ tokens[i - 1].kind = "NEXT"
Said(t) == << t.kind, IF t.kind = "Identifier" THEN t.lexeme ELSE "", t.literal >>
MeaningOf(tokens) ==
  LET kept == SelectSeq([ i \in DOMAIN tokens |-> i ], LAMBDA i : ~Idle(tokens, i)) IN
  [ k \in DOMAIN kept |-> Said(tokens[kept[k]]) ]
Meaning(someText) == MeaningOf(lex(someText).tokens)

\* No token is dropped in silence: when an edited text parses without an
\* error, the tree says all that the text says.
SilentMeansFaithful == result.ok => Meaning(print(result.ast)) = Meaning(text)

Kinds(ss) == [ i \in DOMAIN ss |-> ss[i].kind ]

\* A parenthesis that is missing does not cost the block around it: the loop
\* or routine it is in is still closed by its own keyword
\* (parser/recovery.test.ts).
UnclosedCallKeepsItsBlock ==
  removed = << ")" >> /\ typed = << >> =>
    \A i \in DOMAIN program :
      Blocks(program[i]) # << >> \/ IsRoutine(program[i])
      => Contains(Kinds(result.ast), program[i].kind)

\* Blocks nested too deep cost themselves, with an error for each, and nothing
\* else: the statements around them are all there.
DeepNestingIsContained ==
  Edits = 0 /\ DepthOf(program) > maxBlockNesting =>
    /\ ToSet(result.errors) = { "P_NESTING_TOO_DEEP" }
    /\ Kinds(result.ast) = Kinds(program)
=============================================================================
