------------------------------- MODULE Lowering -------------------------------
(***************************************************************************)
(* From the syntax tree to the translator's intermediate tree              *)
(* (translator/src/cambridge/lower.ts, ir/nodes.ts).  The intermediate     *)
(* tree is the syntax tree with three changes: an index carries the lower  *)
(* bounds of its array, copies are explicit, a BYREF argument is boxed.    *)
(*                                                                         *)
(* Identifiers are case-folded keys, so a name is its own declared casing. *)
(* A tree that the checker finds ok always lowers, but for a BYREF         *)
(* argument that is not a place.  The context holds                        *)
(*   scopes       the global scope and, in a routine, its own: bindings    *)
(*   classes      class -> the shapes of its fields, inherited ones too    *)
(*   records      TYPE -> the shapes of its fields                         *)
(*   plainNames   the enumerated, pointer and set types                    *)
(*   routines     routine -> the shape and the mode of its parameters      *)
(*   classFields  the fields of the class whose method is lowered          *)
(*   diags        diagnostics                                              *)
(***************************************************************************)
EXTENDS SyntaxTree, SequencesExt

DeepCopyExpression(e) == [ kind |-> "DeepCopy", value |-> e ]
IrIndexExpression(a, is, lowers) ==
  [ kind |-> "Index", array |-> a, indices |-> is, lowers |-> lowers ]
IrInput(t, type) == [ kind |-> "Input", target |-> t, valueType |-> type ]
Self == "self"

(***************************************************************************)
(* Shapes: what decides about copies and about cells.                      *)
(***************************************************************************)
scalarShape(t) == [ kind |-> "scalar", type |-> t ]
recordShape(n) == [ kind |-> "record", name |-> n ]
classShape(n)  == [ kind |-> "class", name |-> n ]
arrayShape(element, lowers) ==
  [ kind |-> "array", element |-> element, lowers |-> lowers ]
isCompositeShape(s) == s.kind \in { "record", "array" }

Bind(kind, shape, cell) == [ kind |-> kind, shape |-> shape, cell |-> cell ]
NoBindings == [ n \in {} |-> Bind("var", scalarShape(None), FALSE) ]

Innermost(c) == c.scopes[Len(c.scopes)]
\* registerBinding: the first binding of a name in a scope stays.
registerBinding(c, n, b) ==
  IF n \in DOMAIN Innermost(c) THEN c
  ELSE [ c EXCEPT !.scopes[Len(c.scopes)] = (n :> b) @@ @ ]
variable(c, n, shape) == registerBinding(c, n, Bind("var", shape, FALSE))
pushScope(c) == [ c EXCEPT !.scopes = Append(@, NoBindings) ]
popScope(c)  == [ c EXCEPT !.scopes = Front(@) ]

Bound(c, n) == \E i \in DOMAIN c.scopes : n \in DOMAIN c.scopes[i]
bindingOf(c, n) ==
  LET at == { i \in DOMAIN c.scopes : n \in DOMAIN c.scopes[i] } IN
  IF at = {} THEN Bind("none", scalarShape(None), FALSE)
  ELSE c.scopes[CHOOSE i \in at : \A j \in at : j <= i][n]

namedTypeShape(c, n) ==
  CASE n \in DOMAIN c.classes -> classShape(n)
    [] n \in c.plainNames     -> scalarShape(None)
    [] OTHER                  -> recordShape(n)

shapeFromSimpleType(c, t) ==
  IF t.kind = "TypeName" THEN scalarShape(t.name) ELSE namedTypeShape(c, t.name)

fieldShape(fields, f) == IF f \in DOMAIN fields THEN fields[f] ELSE scalarShape(None)
memberShape(c, of, f) ==
  CASE of.kind = "record" /\ of.name \in DOMAIN c.records ->
         fieldShape(c.records[of.name], f)
    [] of.kind = "class" -> fieldShape(c.classes[of.name], f)
    [] OTHER -> scalarShape(None)
elementShape(of) == IF of.kind = "array" THEN of.element ELSE scalarShape(None)

RECURSIVE exprShape(_, _)
exprShape(c, e) ==
  CASE e.kind = "Identifier" -> bindingOf(c, e.name).shape
    [] e.kind = "Member"     -> memberShape(c, exprShape(c, e.object), e.property)
    [] e.kind = "Index"      -> elementShape(exprShape(c, e.array))
    [] e.kind = "Grouping"   -> exprShape(c, e.expression)
    [] OTHER -> scalarShape(None)

\* maybeDeepCopy.
copied(e, shape) == IF isCompositeShape(shape) THEN DeepCopyExpression(e) ELSE e

(***************************************************************************)
(* Expressions.                                                            *)
(***************************************************************************)
\* A name bound in a scope, a field of the class, or a name to be resolved
\* by Python.  A scalar BYREF parameter is a cell.
lowerIdentifier(c, n) ==
  CASE Bound(c, n) -> IF bindingOf(c, n).cell
                      THEN IrIndexExpression(Identifier(n),
                             << Literal("INTEGER", 0) >>, << >>)
                      ELSE Identifier(n)
    [] ~Bound(c, n) /\ n \in c.classFields -> MemberExpression(Identifier(Self), n)
    [] OTHER -> Identifier(n)

\* Mutant: an index keeps no lower bounds.
noLowers(shape, n) == << >>
lowersOf(shape, n) ==
  IF shape.kind = "array" /\ Len(shape.lowers) = n THEN shape.lowers ELSE << >>

paramSpecs(c, f) == IF f \in DOMAIN c.routines THEN c.routines[f] ELSE << >>

RECURSIVE lowerExpression(_, _)
lowerAll(c, es) == [ i \in DOMAIN es |-> lowerExpression(c, es[i]) ]
\* The arguments of NEW and of methods are copied by their own shape.
methodArgs(c, args) ==
  [ i \in DOMAIN args |-> copied(lowerExpression(c, args[i]), exprShape(c, args[i])) ]

\* An argument passed BYVAL; the parameter's shape counts when it is known.
byValue(c, specs, args, i) ==
  copied(lowerExpression(c, args[i]),
         IF i \in DOMAIN specs THEN specs[i].shape ELSE exprShape(c, args[i]))

lowerExpression(c, e) ==
  CASE e.kind = "Identifier" -> lowerIdentifier(c, e.name)
    [] e.kind = "Index" ->
         IrIndexExpression(lowerExpression(c, e.array), lowerAll(c, e.indices),
                           lowersOf(exprShape(c, e.array), Len(e.indices)))
    [] e.kind = "Member" -> MemberExpression(lowerExpression(c, e.object), e.property)
    [] e.kind = "Unary"  -> UnaryExpression(e.op, lowerExpression(c, e.argument))
    [] e.kind = "Binary" -> BinaryExpression(e.op, lowerExpression(c, e.left),
                                             lowerExpression(c, e.right))
    [] e.kind = "Grouping" -> GroupingExpression(lowerExpression(c, e.expression))
    [] e.kind = "Call" ->
         LET specs == paramSpecs(c, e.callee)
             byref(i) == i \in DOMAIN specs /\ specs[i].mode = "BYREF"
         IN CallExpression(e.callee,
              [ i \in DOMAIN e.args |-> IF byref(i) THEN lowerExpression(c, e.args[i])
                                        ELSE byValue(c, specs, e.args, i) ])
    [] e.kind = "Eof" -> EofExpression(lowerExpression(c, e.file))
    [] e.kind = "New" -> NewExpression(e.class, methodArgs(c, e.args))
    [] e.kind = "MethodCall" ->
         MethodCallExpression(IF e.object.kind = "Super" THEN SuperExpression
                              ELSE lowerExpression(c, e.object),
                              e.method, methodArgs(c, e.args))
    [] e.kind = "AddressOf" -> AddressOfExpression(lowerExpression(c, e.target))
    [] e.kind = "Deref" -> DerefExpression(lowerExpression(c, e.pointer))
    [] e.kind = "ArrayLiteral" -> ArrayLiteral(lowerAll(c, e.elements))
    [] OTHER -> e

shapeFromTypeRef(c, t) ==
  IF t.kind # "ArrayType" THEN shapeFromSimpleType(c, t)
  ELSE arrayShape(shapeFromSimpleType(c, t.element),
                  [ d \in DOMAIN t.dims |-> lowerExpression(c, t.dims[d][1]) ])

lowerTypeRef(c, t) ==
  IF t.kind # "ArrayType" THEN t
  ELSE ArrayType([ d \in DOMAIN t.dims |-> lowerAll(c, t.dims[d]) ], t.element)

(***************************************************************************)
(* buildClassRegistry: a scan before any statement is lowered, when the    *)
(* other user types are not known yet.  A bound that is no literal is 0.   *)
(***************************************************************************)
registryShape(classNames, t) ==
  LET simple(u) == CASE u.kind = "TypeName"   -> scalarShape(u.name)
                     [] u.kind = "NamedType" /\ u.name \in classNames ->
                          classShape(u.name)
                     [] OTHER -> recordShape(u.name)
      bound(e) == IF e.kind = "Literal" /\ e.type = "INTEGER" THEN e
                  ELSE Literal("INTEGER", 0)
  IN IF t.kind # "ArrayType" THEN simple(t)
     ELSE arrayShape(simple(t.element), [ d \in DOMAIN t.dims |-> bound(t.dims[d][1]) ])

ClassDeclarations(program) == SelectSeq(program, LAMBDA s : s.kind = "Class")

ownFieldShapes(classNames, decl) ==
  FoldLeft(LAMBDA fields, d :
             IF d.kind # "Property" THEN fields
             ELSE fields @@ [ n \in ToSet(d.names) |-> registryShape(classNames, d.type) ],
           [ n \in {} |-> scalarShape(None) ], decl.members)

\* The parent's fields, then the class's own, which win; MAX_INHERITANCE_DEPTH
\* and `visiting` end a chain that has no end.
buildClassRegistry(program) ==
  LET decls == ClassDeclarations(program)
      names == { decls[i].name : i \in DOMAIN decls }
      declOf(n) == LET at == { i \in DOMAIN decls : decls[i].name = n } IN
                   decls[CHOOSE i \in at : \A j \in at : j <= i]
      combine[n \in names, depth \in 0..Len(decls)] ==
        LET own == ownFieldShapes(names, declOf(n)) IN
        IF depth = 0 \/ declOf(n).inherits \notin names THEN own
        ELSE own @@ combine[declOf(n).inherits, depth - 1]
  IN [ n \in names |-> combine[n, Len(decls)] ]

(***************************************************************************)
(* Statements.  A result is the context and the statements emitted.        *)
(***************************************************************************)
emit(c, irs) == [ irs |-> irs, c |-> c ]
\* Go on with the context and the statements of r.
After(r, K(_, _)) == K(r.c, r.irs)
\* What the next statement emits after the ones before.
Followed(irs, next) == emit(next.c, irs \o next.irs)

RECURSIVE rootIdentifierName(_)
rootIdentifierName(e) ==
  CASE e.kind = "Identifier" -> e.name
    [] e.kind = "Index"      -> rootIdentifierName(e.array)
    [] e.kind = "Member"     -> rootIdentifierName(e.object)
    [] OTHER                 -> None

\* checkAssignToConstant: a statement that would change one emits nothing.
Assignable(c, target) == bindingOf(c, rootIdentifierName(target)).kind # "const"

RECURSIVE lowerStatement(_, _)
\* The context runs through the statements of a block, and of all the blocks
\* of a statement: a binding made in one is known in the next.
lowerBlock(c, body) ==
  FoldLeft(LAMBDA r, s : Followed(r.irs, lowerStatement(r.c, s)), emit(c, << >>), body)

\* IF and CASE: the conditions or the labels of the branches, and their blocks.
branches(c, bs) ==
  FoldLeft(LAMBDA r, b : After(lowerBlock(r.c, b[2]), LAMBDA c1, body :
             emit(c1, Append(r.irs, << lowerAll(r.c, b[1]), body >>))),
           emit(c, << >>), bs)

celledShape(c, p, celled, shape) ==
  registerBinding(c, p.name,
    Bind("var", shape, celled /\ p.mode = "BYREF" /\ shape.kind = "scalar"))
lowerParameters(c, params, celled) ==
  FoldLeft(LAMBDA c1, p : celledShape(c1, p, celled, shapeFromTypeRef(c1, p.type)),
           pushScope(c), params)

\* The context in the routine knows its parameters; a call of it, in its body
\* and after, their modes.
specsOf(c, params) ==
  [ i \in DOMAIN params |->
      [ shape |-> shapeFromTypeRef(c, params[i].type), mode |-> params[i].mode ] ]
known(c, s) == [ c EXCEPT !.routines = (s.name :> specsOf(c, s.params)) @@ @ ]
paramTypes(c, s) ==
  [ s EXCEPT !.params =
      [ i \in DOMAIN @ |-> [ @[i] EXCEPT !.type = lowerTypeRef(c, @) ] ] ]
routineFrom(c, s) ==
  After(lowerBlock(known(c, s), s.body), LAMBDA c1, body :
    emit(popScope(c1), << [ paramTypes(c, s) EXCEPT !.body = body ] >>))
lowerRoutine(c, s) ==
  routineFrom(lowerParameters(variable(c, s.name, scalarShape(None)), s.params,
                              s.kind = "Procedure"), s)

\* lowerClassMember: a method registers neither its name nor its parameters'
\* shapes; BYREF scalars are cells in functions too.
lowerClassMember(c, d) ==
  IF d.kind = "Property" THEN emit(c, << [ d EXCEPT !.type = lowerTypeRef(c, @) ] >>)
  ELSE After(lowerBlock(lowerParameters(c, d.routine.params, TRUE), d.routine.body),
             LAMBDA c1, body :
               emit(popScope(c1), << [ d EXCEPT !.routine.body = body ] >>))

lowerMembers(c, members) ==
  FoldLeft(LAMBDA r, d : Followed(r.irs, lowerClassMember(r.c, d)), emit(c, << >>),
           members)
lowerClass(c, s) ==
  After(lowerMembers([ c EXCEPT !.classFields = DOMAIN c.classes[s.name] ], s.members),
        LAMBDA c1, members :
          emit([ c1 EXCEPT !.classFields = c.classFields ],
               << [ s EXCEPT !.members = members ] >>))

\* A BYREF scalar argument is boxed before the call and read back after it.
RefName(i) == "_pp_ref_" \o ToString(i - 1)
isPlace(e) == e.kind \in { "Identifier", "Index", "Member" }
\* irs: the arguments, lowered.
boxedCall(c, s, specs, irs) ==
  LET byref == { i \in DOMAIN s.args \cap DOMAIN specs : specs[i].mode = "BYREF" }
      boxed == { i \in byref : specs[i].shape.kind = "scalar" }
      box(i)  == AssignmentStatement(Identifier(RefName(i)),
                   CallExpression("_pp_cell", << irs[i] >>))
      back(i) == AssignmentStatement(irs[i],
                   IrIndexExpression(Identifier(RefName(i)),
                                     << Literal("INTEGER", 0) >>, << >>))
      arg(i) == CASE i \in boxed -> Identifier(RefName(i))
                  [] i \in byref \ boxed -> irs[i]
                  [] OTHER -> byValue(c, specs, s.args, i)
      each(of(_)) == [ k \in 1..Cardinality(boxed) |-> of(SetToSortSeq(boxed, <)[k]) ]
  IN IF \E i \in boxed : ~isPlace(s.args[i])
     THEN emit([ c EXCEPT !.diags = Append(@, "T_BYREF_TEMPORARY") ], << >>)
     ELSE emit(c, each(box)
                  \o << CallStatement(s.callee, [ i \in DOMAIN s.args |-> arg(i) ]) >>
                  \o each(back))
lowerCall(c, s) == boxedCall(c, s, paramSpecs(c, s.callee), lowerAll(c, s.args))

\* Mutant: a stored record or array is not copied.
storedAsIs(e, shape) == e
\* By value: an array literal is fresh, anything else composite is copied.
storedValue(e, shape) == IF e.kind = "ArrayLiteral" THEN e ELSE copied(e, shape)

lowerAssignment(c, s) ==
  IF ~Assignable(c, s.target) THEN emit(c, << >>)
  ELSE emit(c, << AssignmentStatement(lowerExpression(c, s.target),
                    storedValue(lowerExpression(c, s.value), exprShape(c, s.value))) >>)

inputType(shape) == IF shape.kind = "scalar" THEN shape.type ELSE None
lowerInput(c, s) ==
  IF ~Assignable(c, s.target) THEN emit(c, << >>)
  ELSE emit(c, << IrInput(lowerExpression(c, s.target),
                          inputType(exprShape(c, s.target))) >>)

\* A condition or a label is lowered before the block it guards, after the
\* blocks that come earlier.
lowerIf(c, s) ==
  After(branches(c, [ i \in DOMAIN s.clauses |->
                        << << s.clauses[i][1] >>, s.clauses[i][2] >> ]),
        LAMBDA c1, bs : After(lowerBlock(c1, s.alternate), LAMBDA c2, last :
          emit(c2, << IfStatement([ i \in DOMAIN bs |-> << bs[i][1][1], bs[i][2] >> ],
                                  last) >>)))

lowerCase(c, s) ==
  After(branches(c, [ i \in DOMAIN s.arms |-> << s.arms[i].label, s.arms[i].body >> ]),
        LAMBDA c1, bs : After(lowerBlock(c1, s.otherwise), LAMBDA c2, last :
          emit(c2, << CaseStatement(lowerExpression(c, s.discriminant),
            [ i \in DOMAIN bs |-> [ label |-> bs[i][1], body |-> bs[i][2] ] ], last) >>)))

lowerLoop(c, s) ==
  After(lowerBlock(c, s.body), LAMBDA c1, body :
    emit(c1, << [ s EXCEPT !.condition = lowerExpression(c, @), !.body = body ] >>))

lowerFor(c, s) ==
  IF bindingOf(c, s.variable).kind = "const" THEN emit(c, << >>)
  ELSE After(lowerBlock(variable(c, s.variable, scalarShape(None)), s.body),
             LAMBDA c1, body :
               emit(c1, << ForStatement(s.variable, lowerExpression(c, s.start),
                             lowerExpression(c, s.end), lowerAll(c, s.step), body) >>))

constant(c, n) == registerBinding(c, n, Bind("const", scalarShape(None), FALSE))

lowerType(c, s) ==
  LET typeOf(n) == s.fields[CHOOSE i \in DOMAIN s.fields : s.fields[i].name = n].type
      shapes == [ n \in { s.fields[i].name : i \in DOMAIN s.fields } |->
                    shapeFromTypeRef(c, typeOf(n)) ]
  IN emit([ c EXCEPT !.records = (s.name :> shapes) @@ @ ],
          << TypeDeclaration(s.name, [ i \in DOMAIN s.fields |->
               [ s.fields[i] EXCEPT !.type = lowerTypeRef(c, @) ] ]) >>)

\* What a declaration binds: variables, constants, the members of an enum.
variables(c, ns, shape) == FoldLeft(LAMBDA c1, n : variable(c1, n, shape), c, ns)
lowerDeclaration(c, s) ==
  CASE s.kind = "Declare" ->
         emit(variables(c, s.names, shapeFromTypeRef(c, s.type)),
              << DeclareStatement(s.names, lowerTypeRef(c, s.type)) >>)
    [] s.kind = "Constant" ->
         emit(constant(c, s.name),
              << ConstantStatement(s.name, lowerExpression(c, s.value)) >>)
    [] s.kind = "Define" ->
         emit(variable(c, s.name, scalarShape(None)),
              << DefineStatement(s.name, lowerAll(c, s.values), s.type) >>)
    [] s.kind = "Enum" -> emit(FoldLeft(constant, c, s.members), << s >>)
    [] OTHER -> emit(c, << s >>)

lowerFileStatement(c, s) ==
  CASE s.kind \in { "OpenFile", "CloseFile" } ->
         emit(c, << [ s EXCEPT !.file = lowerExpression(c, @) ] >>)
    [] s.kind \in { "READFILE", "GETRECORD" } /\ ~Assignable(c, s.operand) ->
         emit(c, << >>)
    [] OTHER -> emit(c, << [ s EXCEPT !.file = lowerExpression(c, @),
                                      !.operand = lowerExpression(c, @) ] >>)

lowerStatement(c, s) ==
  CASE s.kind = "Assign" -> lowerAssignment(c, s)
    [] s.kind = "Input"  -> lowerInput(c, s)
    [] s.kind = "Output" -> emit(c, << OutputStatement(lowerAll(c, s.expressions)) >>)
    [] s.kind = "If"     -> lowerIf(c, s)
    [] s.kind = "Case"   -> lowerCase(c, s)
    [] s.kind \in { "While", "Repeat" } -> lowerLoop(c, s)
    [] s.kind = "For"    -> lowerFor(c, s)
    [] s.kind = "Type"   -> lowerType(c, s)
    [] s.kind \in { "Declare", "Constant", "Define", "Enum", "Pointer", "Set" } ->
         lowerDeclaration(c, s)
    [] IsRoutine(s)      -> lowerRoutine(c, s)
    [] s.kind = "Class"  -> lowerClass(c, s)
    [] s.kind = "CallStmt" -> lowerCall(c, s)
    [] s.kind = "Return" ->
         emit(c, << ReturnStatement(copied(lowerExpression(c, s.value),
                                           exprShape(c, s.value))) >>)
    [] s.kind = "CallMethod" ->
         emit(c, << ExpressionStatement(MethodCallExpression(
                      lowerExpression(c, s.object), s.method, methodArgs(c, s.args))) >>)
    [] s.kind = "ExprStmt" ->
         emit(c, << ExpressionStatement(lowerExpression(c, s.expression)) >>)
    [] OTHER -> lowerFileStatement(c, s)

(***************************************************************************)
(* lowerCambridgeProgram: one sequence of statements for each statement of *)
(* the program.  Names of routines are known from the start, the modes of  *)
(* their parameters are not.                                               *)
(***************************************************************************)
initialContext(program) ==
  LET plain == SelectSeq(program, LAMBDA s : s.kind \in { "Enum", "Pointer", "Set" })
      c == [ scopes |-> << NoBindings >>, classes |-> buildClassRegistry(program),
             records |-> << >>, plainNames |-> { plain[i].name : i \in DOMAIN plain },
             routines |-> << >>, classFields |-> {}, diags |-> << >> ]
  IN FoldLeft(LAMBDA c1, s : variable(c1, s.name, scalarShape(None)), c,
              SelectSeq(program, IsRoutine))

\* One warning for each CALL at the top level that comes before the
\* declaration of its routine.
warnForwardProcedureCalls(irs) ==
  LET all == FlattenSeq(irs)
      declares(i, f) == IsRoutine(all[i]) /\ all[i].name = f
      early(i) == /\ all[i].kind = "CallStmt"
                  /\ ~\E j \in 1..(i - 1) : declares(j, all[i].callee)
                  /\ \E j \in DOMAIN all : declares(j, all[i].callee)
  IN [ k \in 1..Cardinality({ i \in DOMAIN all : early(i) }) |-> "T_CALL_BEFORE_PROC" ]

lowered(r) ==
  [ irs |-> r.irs, diagnostics |-> r.c.diags \o warnForwardProcedureCalls(r.irs) ]
lowerCambridgeProgram(program) ==
  lowered(FoldLeft(LAMBDA r, s : After(lowerStatement(r.c, s), LAMBDA c, irs :
                     emit(c, Append(r.irs, irs))),
                   emit(initialContext(program), << >>), program))
=============================================================================
