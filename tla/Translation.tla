----------------------------- MODULE Translation -----------------------------
(***************************************************************************)
(* Translation beside interpretation (translator/src/pipeline): a program  *)
(* is written, checked, lowered and printed as Python; then the            *)
(* interpreter and Python run it statement by statement, side by side.     *)
(* A program with errors still gets its partial Python, which nothing is   *)
(* promised of: it is not run here.                                        *)
(***************************************************************************)
EXTENDS Checker, Evaluator, PythonProgram

CONSTANTS
  Worlds,         \* sequence of [ declarations, pool ], sequences of statements
  Lines,          \* what the user types at an INPUT
  MaxStatements   \* statements written after the declarations

VARIABLES
  world,      \* the world whose statements are written
  program,    \* the statements written
  phase,      \* "writing", "running", "done"
  python,     \* the translation
  diagnostics,  \* what the translator says of it
  machine,    \* the interpreter
  process,    \* the Python process
  next        \* the next top-level statement

vars == << world, program, phase, python, diagnostics, machine, process, next >>

NoPython == [ statements |-> << >>, cells |-> {}, helpers |-> {} ]

Init ==
  /\ world \in DOMAIN Worlds
  /\ program = Worlds[world].declarations
  /\ phase = "writing"
  /\ python = NoPython
  /\ diagnostics = << >>
  /\ machine = hoisted(<< >>, << >>)
  /\ process = started({}, << >>)
  /\ next = 1

Write(i) ==
  /\ phase = "writing"
  /\ Len(program) < Len(Worlds[world].declarations) + MaxStatements
  /\ program' = Append(program, Worlds[world].pool[i])
  /\ UNCHANGED << world, phase, python, diagnostics, machine, process, next >>

\* translatePseudocodeToPython: check, lower, print.
Translate ==
  /\ phase = "writing"
  /\ \E verdict \in { check(program) }, ir \in { lowerCambridgeProgram(program) } :
       /\ diagnostics' = ir.diagnostics
       /\ phase' = IF verdict.ok /\ "T_BYREF_TEMPORARY" \notin ToSet(diagnostics')
                   THEN "running" ELSE "done"
       /\ python' = printPython(ir.irs)
       /\ process' = started(python'.helpers, Lines)
  /\ machine' = hoisted(program, Lines)
  /\ UNCHANGED << world, program, next >>

RunStatement ==
  /\ phase = "running" /\ machine.ctl = "run" /\ next <= Len(program)
  /\ machine' = runStatement(machine, program[next])
  /\ process' = pyBlock(process, python.statements[next])
  /\ next' = next + 1
  /\ UNCHANGED << world, program, phase, python, diagnostics >>

\* The program is over, or the interpreter stopped at an error.
Finish ==
  /\ phase = "running" /\ (machine.ctl # "run" \/ next > Len(program))
  /\ phase' = "done"
  /\ UNCHANGED << world, program, python, diagnostics, machine, process, next >>

Next ==
  \/ \E i \in DOMAIN Worlds[world].pool : Write(i)
  \/ Translate
  \/ RunStatement
  \/ Finish

Spec == Init /\ [][Next]_vars

(***************************************************************************)
(* Properties.                                                             *)
(***************************************************************************)
\* The elements of nested lists, row by row.
RECURSIVE Elements(_, _)
Elements(v, rank) ==
  LET slots == process.heap[v.id].slots IN
  IF rank = 1 THEN slots ELSE Each(slots, LAMBDA w : Elements(w, rank - 1))

\* A value of the interpreter and one of Python stand for the same.  An
\* instance that was never made is None; a field not yet set is missing.
RECURSIVE Agree(_, _, _)
Agree(v, w, depth) ==
  LET slots == machine.heap[v.id].slots
      fields == process.heap[w.id].slots
  IN CASE depth = 0 -> TRUE
       [] v.kind \in NUMBER -> numeric(w) /\ fractionOf(v) = fractionOf(number(w))
       [] v.kind = "BOOLEAN" -> w.kind = "BOOLEAN" /\ v.value = w.value
       [] v.kind \in TEXT -> w.kind = "STRING" /\ text(v) = w.value
       [] v.kind = "ENUM" -> w.kind = "ENUM" /\ v.ordinal = w.ordinal
       [] v.kind = "RECORD" ->
            /\ w.kind = "object"
            /\ \A k \in DOMAIN slots : /\ pyId(k) \in DOMAIN fields
                                       /\ Agree(slots[k], fields[pyId(k)], depth - 1)
       [] v.kind = "OBJECT" ->
            \/ w.kind = "NONE"
            \/ /\ w.kind = "object"
               /\ process.heap[w.id].class = pyId(machine.heap[v.id].name)
               /\ \A k \in DOMAIN slots :
                    pyId(k) \in DOMAIN fields =>
                      Agree(slots[k], fields[pyId(k)], depth - 1)
       [] v.kind = "ARRAY" ->
            /\ w.kind = "list"
            /\ LET es == Elements(w, Len(machine.heap[v.id].lowers)) IN
               /\ DOMAIN es = DOMAIN slots
               /\ \A k \in DOMAIN es : Agree(slots[k], es[k], depth - 1)
       [] v.kind = "POINTER" ->
            IF v.place = nil THEN w.kind \in { "NONE", "NIL" }
            ELSE w.kind = "list" /\ Agree(get(machine, v.place), fields[1], depth - 1)
       [] OTHER -> TRUE

Depth == 4

\* TRANSLATION.md promises Python that does what the pseudocode does.  As
\* long as the interpreter has met no error, and the translator has not warned
\* of a CALL that Python cannot make yet, neither has Python, both have
\* shown the same values, and every global that Python knows holds the same
\* in both: copies are made where the interpreter copies and nowhere else,
\* bounds, cells, loops and rounding come out alike.
PythonKeepsInStep ==
  phase = "running" /\ machine.ctl = "run" /\ diagnostics = << >> =>
    /\ process.ctl = "run"
    /\ Len(process.output) = Len(machine.output)
    /\ \A i \in DOMAIN machine.output : \A k \in DOMAIN machine.output[i] :
         Agree(machine.output[i][k], process.output[i][k], 1)
    /\ \A n \in DOMAIN machine.stack[1].env :
         pyId(n) \in DOMAIN process.globals =>
           LET w == process.globals[pyId(n)] IN
           Agree(get(machine, bindingAt(machine.stack[1].env[n])),
                 IF n \in python.cells THEN process.heap[w.id].slots[1] ELSE w, Depth)

\* Where Python holds values: << 0, global >> or << object, key >>.
PythonHolders ==
  { << 0, n, process.globals[n] >> : n \in DOMAIN process.globals }
  \cup UNION { { << i, k, process.heap[i].slots[k] >> :
                   k \in DOMAIN process.heap[i].slots } : i \in DOMAIN process.heap }

\* An array or a record of the program: neither a cell nor an instance.
IsComposite(w) ==
  CASE w.kind = "list"   -> process.heap[w.id].class = None
    [] w.kind = "object" -> process.globals[process.heap[w.id].class].def.kind = "Dataclass"
    [] OTHER -> FALSE

\* Python names objects where pseudocode holds values: no two variables,
\* fields or elements name the same list or record (TRANSLATION.md copies
\* "TYPE records/arrays", and instances alone are shared).
PythonRecordsAreNotShared ==
  \A h1, h2 \in PythonHolders :
    IsComposite(h1[3]) /\ IsComposite(h2[3]) /\ h1[3].id = h2[3].id
      => h1[1] = h2[1] /\ h1[2] = h2[2]
=============================================================================
