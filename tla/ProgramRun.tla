------------------------------ MODULE ProgramRun ------------------------------
(***************************************************************************)
(* A program is written, checked, and, when the checker finds it ok, run   *)
(* statement by statement (interpreter/src/run.ts).  The programs are the  *)
(* declarations of a world followed by statements of its pool, in any      *)
(* order.  Before it is run, one of its symbols may be renamed.            *)
(***************************************************************************)
EXTENDS Occurrences, Evaluator

CONSTANTS
  Worlds,         \* sequence of [ declarations, pool ], sequences of statements
  Lines,          \* what the user types at an INPUT
  MaxStatements,  \* statements written after the declarations
  NewNames,       \* the names a rename may give
  MaxRenamed      \* statements after the declarations when one renames

VARIABLES
  world,      \* the world whose statements are written
  program,    \* the statements written
  renaming,   \* the rename made: the program before, and the symbol's key
  phase,      \* "writing", "checked", "running", "done"
  verdict,    \* CheckResult
  machine,    \* the interpreter
  next        \* the next top-level statement

vars == << world, program, renaming, phase, verdict, machine, next >>

NoRenaming == [ before |-> << >>, key |-> NoKey ]
NoVerdict == [ diagnostics |-> << >>, ok |-> FALSE ]

Init ==
  /\ world \in DOMAIN Worlds
  /\ program = Worlds[world].declarations
  /\ renaming = NoRenaming
  /\ phase = "writing"
  /\ verdict = NoVerdict
  /\ machine = hoisted(<< >>, << >>)
  /\ next = 1

Write(i) ==
  /\ phase = "writing" /\ renaming = NoRenaming
  /\ Len(program) < Len(Worlds[world].declarations) + MaxStatements
  /\ program' = Append(program, Worlds[world].pool[i])
  /\ UNCHANGED << world, renaming, phase, verdict, machine, next >>

\* LanguageService.rename, at any occurrence of any symbol, in a program
\* without errors.  Where a loop is overwritten nothing is left to run.
Rename ==
  /\ phase = "writing" /\ renaming = NoRenaming
  /\ Len(program) <= Len(Worlds[world].declarations) + MaxRenamed
  /\ \E c \in { checked(program) } :
       /\ ~HasError(c.diags)
       /\ \E key \in allKeys(c), to \in NewNames :
            /\ isRenamable(key[2]) /\ isFree(c, key, to)
            /\ renaming' = [ before |-> program, key |-> key ]
            /\ program' = renameIn(c, program, key, to)
  /\ phase' = IF holdsOverwritten(program') THEN "done" ELSE "writing"
  /\ UNCHANGED << world, verdict, machine, next >>

\* runPseudocode: check first; an error refuses the run.
Check ==
  /\ phase = "writing"
  /\ verdict' = check(program)
  /\ IF verdict'.ok
     THEN phase' = "running" /\ machine' = hoisted(program, Lines)
     ELSE phase' = "done" /\ UNCHANGED machine
  /\ UNCHANGED << world, program, renaming, next >>

RunStatement ==
  /\ phase = "running" /\ machine.ctl = "run" /\ next <= Len(program)
  /\ machine' = runStatement(machine, program[next])
  /\ next' = next + 1
  /\ UNCHANGED << world, program, renaming, phase, verdict >>

\* The program is over or stopped at an error.
Finish ==
  /\ phase = "running" /\ (machine.ctl # "run" \/ next > Len(program))
  /\ phase' = "done"
  /\ UNCHANGED << world, program, renaming, verdict, machine, next >>

Next ==
  \/ \E i \in DOMAIN Worlds[world].pool : Write(i)
  \/ Rename
  \/ Check
  \/ RunStatement
  \/ Finish

Spec == Init /\ [][Next]_vars

(***************************************************************************)
(* Properties.                                                             *)
(***************************************************************************)
\* What the data of a run may still bring about in a checked program.
DataErrors ==
  { "R_DIV_ZERO", "R_ARRAY_BOUNDS", "R_NULL_POINTER", "R_ENUM_RANGE",
    "R_STEP_LIMIT", "R_STACK_OVERFLOW", "R_INPUT", "R_BUILTIN", "R_FOR_STEP",
    "R_NO_RETURN", "WAITING" }

\* The checker's promise to the interpreter (docs/language/INTERPRETER.md:
\* "Checker already validates the AST; the interpreter reuses that gate
\* without re-deriving types"): a program it finds ok never meets an error of
\* types, names or declarations.
AcceptedProgramsDoNotGoWrong == machine.ctl \in { "run" } \cup DataErrors

\* A value is one of the static type t.
RECURSIVE HasType(_, _, _)
HasType(table, v, t) ==
  CASE t.kind = "scalar" -> v.kind = t.name
    [] t.kind \in { "enum", "set" } ->
         v.kind = (IF t.kind = "enum" THEN "ENUM" ELSE "SET") /\ v.name = t.name
    [] t.kind = "record" -> v.kind = "RECORD" /\ machine.heap[v.id].name = t.name
    [] t.kind = "class" ->
         /\ v.kind = "OBJECT"
         /\ t.name \in ToSet(Ancestors(table, machine.heap[v.id].name))
    [] t.kind = "pointer" ->
         /\ v.kind = "POINTER" /\ v.name = t.name
         /\ v.place # nil => HasType(table, get(machine, v.place),
                                     table[t.name].target)
    [] OTHER -> /\ v.kind = "ARRAY"
                /\ \A k \in DOMAIN machine.heap[v.id].slots :
                     HasType(table, machine.heap[v.id].slots[k], t.element)

\* The static types of the slots of a record or an instance.
SlotTypes(table, object) ==
  LET classes == IF object.kind = "RECORD" THEN << object.name >>
                 ELSE Ancestors(table, object.name)
      fs == FlattenSeq([ i \in DOMAIN classes |-> table[classes[i]].fields ])
  IN [ n \in DOMAIN object.slots |->
         fs[CHOOSE i \in DOMAIN fs : fs[i].name = n].type ]

\* Every variable of the program, arrays too, every local scalar, record,
\* enumeration and pointer, every field and element, and every place a pointer
\* or a BYREF parameter names, also one inside a record that was replaced while
\* the parameter named it, holds a value of its declared type.  Stores of
\* instances are not checked when they are made: only the checker's rules keep
\* an instance of a parent out of a variable of its subclass.  (A class
\* parameter's binding is labelled with the class of its argument, not with the
\* declared one, and a local array's with no element type: of those the
\* elements are looked at, not the binding.)
StoreIsWellTyped ==
  LET table == classTableOf(program, typeTableOf(program))
      typeOf(n) == IF n \in SCALARS THEN scalar(n) ELSE userType(table[n])
      ok(o) ==
        CASE o.kind = "cell"  ->
               o.type = "ARRAY" \/ (o.bind = "parameter" /\ o.value.kind = "OBJECT")
               \/ HasType(table, o.value, typeOf(o.type))
          [] o.kind = "alias" -> o.type # "ARRAY" =>
                                   HasType(table, get(machine, o.place),
                                           typeOf(o.type))
          [] o.kind = "ARRAY" ->
               \A k \in DOMAIN o.slots : HasType(table, o.slots[k], typeOf(o.element[2]))
          [] OTHER -> LET types == SlotTypes(table, o) IN
                      \A n \in DOMAIN types : HasType(table, o.slots[n], types[n])
      globals  == checked(program).globals
      bindings == Head(machine.stack).env
  IN /\ \A i \in DOMAIN machine.heap : ok(machine.heap[i])
     /\ phase = "running" => \A n \in DOMAIN globals \cap DOMAIN bindings :
          globals[n].kind = "variable" =>
            HasType(table, machine.heap[bindings[n]].value, globals[n].type)

\* Where values are held: << heap object, key >>.
Holders ==
  UNION { LET o == machine.heap[i] IN
          CASE o.kind = "cell"  -> { << i, "value", o.value >> }
            [] o.kind = "alias" -> {}
            [] OTHER -> { << i, k, o.slots[k] >> : k \in DOMAIN o.slots }
          : i \in DOMAIN machine.heap }

\* Records and arrays are values: two variables, fields or elements never
\* share one (docs/language/TYPE_SYSTEM.md: "Record and array
\* assignment and parameter passing are by value").  BYREF parameters and
\* pointers name places, they hold nothing.
RecordsAreNotShared ==
  \A h1, h2 \in Holders :
    /\ h1[3].kind = h2[3].kind /\ h1[3].kind \in { "RECORD", "ARRAY" }
    /\ h1[3].id = h2[3].id
    => h1[1] = h2[1] /\ h1[2] = h2[2]

\* The run of a whole program.
runOf(someProgram) ==
  FoldLeft(LAMBDA m, s : IF m.ctl = "run" THEN runStatement(m, s) ELSE m,
           hoisted(someProgram, Lines), someProgram)

\* A method that another class of its line declares too.
IsOverridden(table, key) ==
  /\ key[3] = "method"
  /\ \E n \in DOMAIN table \ { key[1][1] } :
       /\ table[n].kind = "class"
       /\ n \in ToSet(Ancestors(table, key[1][1])) \/ key[1][1] \in ToSet(Ancestors(table, n))
       /\ \E i \in DOMAIN table[n].methods : table[n].methods[i].name = key[2]

\* What a program shows and leaves in its variables, and whether it ends
\* well.  Values of user types carry the names of types and fields: when one of
\* these is renamed, the scalars are compared.
SameRun(m1, m2, key) ==
  LET named == key[3] \in { "type", "class", "field" }
      scalarIn(o) == o.kind = "cell" /\ o.value.kind \in SCALARS
  IN /\ m1.ctl = m2.ctl
     /\ Len(m1.output) = Len(m2.output) /\ Len(m1.heap) = Len(m2.heap)
     /\ named \/ m1.output = m2.output
     /\ \A i \in DOMAIN m1.heap :
          ~named \/ scalarIn(m1.heap[i]) => m1.heap[i] = m2.heap[i]

\* A rename does not change what a program does (LANGUAGE_SERVICE.md: references
\* are "scoped correctly under shadowing"): the renamed program is still
\* accepted and runs alike.  The uses the index does not see - a class after
\* INHERITS, a field named bare or through SELF in a method - are then
\* undeclared, which is reported; overridden methods, renamed class by class,
\* and overwritten loops are what the index is known to miss.
RenameKeepsMeaning ==
  renaming # NoRenaming /\ phase = "done" =>
    \/ holdsOverwritten(program)
    \/ IsOverridden(classTableOf(renaming.before, typeTableOf(renaming.before)),
                    renaming.key)
    \/ ~verdict.ok /\ renaming.key[3] \in { "class", "field" }
    \/ verdict.ok /\ SameRun(machine, runOf(renaming.before), renaming.key)
=============================================================================
