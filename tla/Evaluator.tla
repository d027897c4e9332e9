------------------------------ MODULE Evaluator ------------------------------
(***************************************************************************)
(* The tree-walking interpreter (interpreter/src/interpreter.ts): a        *)
(* statement maps a machine to a machine, an expression gives a machine    *)
(* and a value.  The suspensions of execution (debugger, INPUT, Stop) are  *)
(* in ExecutionSystem and DebugStepping, the file statements in FileIO.    *)
(***************************************************************************)
EXTENDS RuntimeValues

CONSTANTS
  maxSteps,       \* InterpretOptions.maxSteps
  maxCallDepth    \* InterpretOptions.maxCallDepth

ASSUME InterpretOptionsAssumption ==
  maxSteps \in Nat \ {0} /\ maxCallDepth \in Nat \ {0}

(***************************************************************************)
(* The registries of runProgram: the last declaration of a name.           *)
(***************************************************************************)
Registered(m, kind, n) ==
  \E i \in DOMAIN m.program : m.program[i].kind = kind /\ m.program[i].name = n

entry(m, kind, n) ==
  LET at == { i \in DOMAIN m.program : /\ m.program[i].kind = kind
                                       /\ m.program[i].name = n }
  IN m.program[CHOOSE i \in at : \A j \in at : j <= i]

isClass(m, n) == Registered(m, "Class", n)

tick(m) == IF m.steps >= maxSteps
           THEN [ m EXCEPT !.steps = @ + 1, !.ctl = "R_STEP_LIMIT" ]
           ELSE [ m EXCEPT !.steps = @ + 1 ]

\* One recursion: interpretNode goes by the kind of the node.
RECURSIVE interpretNode(_, _)
evalExpr(m, e)      == interpretNode(m, e)
execStatement(m, s) == interpretNode(m, s)

execBlock(m, body) ==
  FoldLeft(LAMBDA acc, s : Do(acc, LAMBDA m1 : execStatement(m1, s)), m, body)

evalAll(m, es) ==
  FoldLeft(LAMBDA r, e : Then(r, LAMBDA m1, vs :
             Then(evalExpr(m1, e), LAMBDA m2, v : ret(m2, Append(vs, v)))),
           ret(m, << >>), es)

evalIntegers(m, es) ==
  FoldLeft(LAMBDA r, e : Then(r, LAMBDA m1, ns :
             asInteger(evalExpr(m1, e), LAMBDA m2, n : ret(m2, Append(ns, n)))),
           ret(m, << >>), es)

(***************************************************************************)
(* Shapes: buildValueFactory and the factories below it.                   *)
(***************************************************************************)
\* collectAllFields: the ancestors' first; the parent chain, oldest first.
RECURSIVE lineage(_, _)
lineage(m, cls) ==
  LET above == entry(m, "Class", cls).inherits IN
  IF above # None /\ isClass(m, above) THEN Append(lineage(m, above), cls)
  ELSE << cls >>

ownFields(decl) ==
  FlattenSeq([ i \in DOMAIN decl.members |->
    LET d == decl.members[i] IN
    IF d.kind = "Property" THEN [ j \in DOMAIN d.names |->
                                    [ name |-> d.names[j], type |-> d.type ] ]
    ELSE << >> ])

collectAllFields(m, cls) ==
  Each(lineage(m, cls), LAMBDA n : ownFields(entry(m, "Class", n)))

RECURSIVE buildValueFactory(_, _, _)
\* within: the classes and records being built.  A class that holds itself
\* recurses until the host's stack is exhausted.
buildFields(m, fields, within) ==
  FoldLeft(LAMBDA r, f : Then(r, LAMBDA m1, shapes :
             Then(buildValueFactory(m1, f.type, within),
                  LAMBDA m2, s : ret(m2, Append(shapes, << f.name, s >>)))),
           ret(m, << >>), fields)

plainShape(v) == [ kind |-> "plain", default |-> v ]

buildNamedTypeFactory(m, n, within) ==
  LET fields(kind, fs) ==
        IF n \in within THEN throw(m, "CRASH")
        ELSE Then(buildFields(m, fs, within \cup { n }), LAMBDA m1, shapes :
               ret(m1, [ kind |-> kind, name |-> n, fields |-> shapes ]))
  IN CASE Registered(m, "Enum", n) -> ret(m, plainShape(enumValue(n, 0)))
       [] Registered(m, "Pointer", n) -> ret(m, plainShape(pointerValue(n, nil)))
       [] Registered(m, "Set", n) -> ret(m, plainShape(setValue(n, << >>)))
       [] isClass(m, n) -> fields("OBJECT", collectAllFields(m, n))
       [] Registered(m, "Type", n) -> fields("RECORD", entry(m, "Type", n).fields)
       [] OTHER -> throw(m, "R_UNKNOWN_TYPE")

\* elementTypeOf knows scalars, classes and records only.
elementTypeOf(m, t) ==
  CASE t.kind = "TypeName" -> ret(m, << "SCALAR", t.name >>)
    [] t.kind = "NamedType" /\ isClass(m, t.name) -> ret(m, << "CLASS", t.name >>)
    [] t.kind = "NamedType" /\ Registered(m, "Type", t.name) ->
         ret(m, << "RECORD", t.name >>)
    [] OTHER -> throw(m, "R_UNKNOWN_TYPE")

buildValueFactory(m, t, within) ==
  CASE t.kind = "TypeName"  -> ret(m, plainShape(defaultScalar(t.name)))
    [] t.kind = "NamedType" -> buildNamedTypeFactory(m, t.name, within)
    [] OTHER ->
         Then(evalIntegers(m, FlattenSeq(t.dims)), LAMBDA m1, ns :
         Then(elementTypeOf(m1, t.element), LAMBDA m2, element :
         Then(buildValueFactory(m2, t.element, within), LAMBDA m3, s :
           ret(m3, [ kind |-> "ARRAY", element |-> element, of |-> s,
                     lowers |-> [ d \in DOMAIN t.dims |-> ns[2 * d - 1] ],
                     uppers |-> [ d \in DOMAIN t.dims |-> ns[2 * d] ] ]))))

typeDisplayName(t) == IF t.kind = "ArrayType" THEN "ARRAY" ELSE t.name

(***************************************************************************)
(* resolvePlace.                                                           *)
(***************************************************************************)
fieldOfSelf(m, n) == m.self # 0 /\ n \in DOMAIN m.heap[m.self].slots

resolvePlace(m, target) ==
  CASE target.kind = "Identifier" ->
         LET b == binding(m, target.name) IN
         CASE b # 0 -> ret(m, bindingAt(b))
           [] b = 0 /\ fieldOfSelf(m, target.name) ->
                ret(m, slotAt(m.self, target.name))
           [] OTHER -> throw(m, "R_UNDECL")
    [] target.kind = "Deref" ->
         Then(evalExpr(m, target.pointer), LAMBDA m1, p :
           CASE p.kind # "POINTER" -> throw(m1, "R_TYPE")
             [] p.kind = "POINTER" /\ p.place = nil -> throw(m1, "R_NULL_POINTER")
             [] OTHER -> ret(m1, through(p.place)))
    [] target.kind = "Member" ->
         Then(evalExpr(m, target.object), LAMBDA m1, o :
           CASE o.kind \notin { "RECORD", "OBJECT" } -> throw(m1, "R_TYPE")
             [] OTHER -> IF target.property \in DOMAIN m1.heap[o.id].slots
                         THEN ret(m1, slotAt(o.id, target.property))
                         ELSE throw(m1, "R_UNKNOWN_FIELD"))
    [] OTHER ->
         expect(evalExpr(m, target.array), LAMBDA a : a.kind = "ARRAY",
         LAMBDA m1, a :
           Then(evalIntegers(m1, target.indices), LAMBDA m2, is :
             LET array  == m2.heap[a.id]
                 offset == arrayOffset(array, is)
             IN CASE Len(is) # Len(array.lowers) -> throw(m2, "R_ARRAY_RANK")
                  [] OTHER -> IF offset = 0 THEN throw(m2, "R_ARRAY_BOUNDS")
                              ELSE ret(m2, slotAt(a.id, offset))))

assignTarget(m, target, v) ==
  Then(resolvePlace(m, target), LAMBDA m1, place : ret(put(m1, place, v), nil)).m

\* assignArrayLiteral: the elements are stored one by one, each before the
\* next is evaluated.
assignArrayLiteral(m, target, es) ==
  IF target.kind # "Identifier" THEN throw(m, "R_ASSIGN_TARGET").m
  ELSE Then(resolvePlace(m, target), LAMBDA m1, place :
    LET a == get(m1, place) IN
    IF a.kind # "ARRAY" THEN throw(m1, "R_TYPE")
    ELSE IF Len(es) # Cardinality(DOMAIN m1.heap[a.id].slots)
    THEN throw(m1, "R_ARRAY_LITERAL_LENGTH")
    ELSE FoldLeft(LAMBDA r, i : Then(r, LAMBDA m2, x :
           Then(evalExpr(m2, es[i]), LAMBDA m3, v :
             ret(put(m3, slotAt(a.id, i), v), nil))),
           ret(m1, nil), [ i \in DOMAIN es |-> i ])).m

(***************************************************************************)
(* Calls.                                                                  *)
(***************************************************************************)
bindParameterByVal(m, env, p, v) ==
  LET as(type, w) == bind(m, env, p.name, cell("parameter", type, w))
      copied == copyOf(m, v)
      copy(type) == bind(copied.m, env, p.name, cell("parameter", type, copied.v))
      named == p.type.kind = "NamedType"
  IN CASE named /\ v.kind = "OBJECT" -> as(m.heap[v.id].name, v)
       [] named /\ v.kind = "POINTER" ->
            as(p.type.name, pointerValue(p.type.name, v.place))
       [] named /\ v.kind \in { "ENUM", "SET" } ->
            IF v.name = p.type.name THEN as(p.type.name, v) ELSE throw(m, "R_TYPE")
       [] named /\ v.kind = "RECORD" ->
            IF m.heap[v.id].name = p.type.name THEN copy(p.type.name)
            ELSE throw(m, "R_TYPE")
       [] p.type.kind = "ArrayType" ->
            IF v.kind = "ARRAY" THEN copy("ARRAY") ELSE throw(m, "R_TYPE")
       [] p.type.kind = "TypeName" ->
            Then(coerceAssign(m, p.type.name, v), LAMBDA m1, w :
              bind(m1, env, p.name, cell("parameter", p.type.name, w)))
       [] OTHER -> throw(m, "R_TYPE")

\* bindCallParameters: in order, in the caller's environment.
bindCallParameters(m, params, args) ==
  FoldLeft(LAMBDA r, i : Then(r, LAMBDA m1, env :
    LET p == params[i] IN
    IF p.mode = "BYREF"
    THEN IF args[i].kind \notin { "Identifier", "Index", "Member" }
         THEN throw(m1, "R_BYREF_TEMPORARY")
         ELSE Then(resolvePlace(m1, args[i]), LAMBDA m2, place :
                bind(m2, env, p.name, alias(typeDisplayName(p.type), place)))
    ELSE Then(evalExpr(m1, args[i]), LAMBDA m2, v :
           bindParameterByVal(m2, env, p, v))),
    ret(m, [ n \in {} |-> 0 ]), [ i \in DOMAIN params |-> i ])

\* The body in a frame of its own.  SELF and its method's class, `self` and
\* `class`, are put back however the body ends.
invoke(m, routine, args, mode, self, class) ==
  LET function == routine.kind = "Function" IN
  CASE mode = "function" /\ ~function -> throw(m, "R_PROC_AS_EXPR")
    [] Len(args) # Len(routine.params) -> throw(m, "R_ARG_COUNT")
    [] Len(m.stack) >= maxCallDepth -> throw(m, "R_STACK_OVERFLOW")
    [] OTHER ->
         Then(bindCallParameters(m, routine.params, args), LAMBDA m1, env :
           LET body == execBlock([ push(m1, IF function THEN "function"
                                            ELSE "procedure", env)
                                   EXCEPT !.self = self, !.methodClass = class ],
                                 routine.body)
               done == [ pop(body) EXCEPT !.self = m1.self,
                                          !.methodClass = m1.methodClass ]
           IN CASE body.ctl = "return" ->
                     ret([ done EXCEPT !.ctl = "run", !.returned = nil ],
                         body.returned)
                [] body.ctl = "run" /\ function -> throw(done, "R_NO_RETURN")
                [] OTHER -> ret(done, integerValue(0)))

callRoutine(m, f, args, mode) ==
  LET kind == IF Registered(m, "Function", f) THEN "Function" ELSE "Procedure" IN
  CASE lookupBuiltin(f) ->
         Then(evalAll(m, args), LAMBDA m1, vs :
           Then(executeBuiltin(m1, f, vs), LAMBDA m2, v :
             ret(m2, IF mode = "procedure" THEN integerValue(0) ELSE v)))
    [] ~lookupBuiltin(f) /\ Registered(m, kind, f) ->
         invoke(m, entry(m, kind, f), args, mode, m.self, m.methodClass)
    [] OTHER -> throw(m, "R_UNDECL_ROUTINE")

methodsNamed(m, cls, n) ==
  SelectSeq(entry(m, "Class", cls).members,
            LAMBDA d : d.kind = "Method" /\ d.routine.name = n)

\* lookupMethod: from the class up.
lookupMethod(m, cls, n) ==
  LET chain  == lineage(m, cls)
      owners == SelectSeq(chain, LAMBDA c : methodsNamed(m, c, n) # << >>)
  IN IF owners = << >> THEN [ found |-> FALSE ]
     ELSE [ found |-> TRUE, owner |-> Last(owners),
            routine |-> Last(methodsNamed(m, Last(owners), n)).routine ]

evalNew(m, cls, args) ==
  IF ~isClass(m, cls) THEN throw(m, "R_UNKNOWN_CLASS")
  ELSE LET new == lookupMethod(m, cls, "NEW") IN
       Then(buildNamedTypeFactory(m, cls, {}), LAMBDA m1, shape :
       Then(fresh(m1, shape), LAMBDA m2, object :
         CASE new.found ->
                Then(invoke(m2, new.routine, args, "procedure", object.id, new.owner),
                     LAMBDA m3, x : ret(m3, object))
           [] ~new.found /\ args # << >> -> throw(m2, "R_ARG_COUNT")
           [] OTHER -> ret(m2, object)))

\* SUPER is the parent of the class whose method runs.
superOf(m) ==
  IF m.self = 0 \/ m.methodClass = None THEN None
  ELSE entry(m, "Class", m.methodClass).inherits

callMethod(m, object, method, args, mode) ==
  LET from(m1, target, cls) ==
        LET found == lookupMethod(m1, cls, method) IN
        IF found.found
        THEN invoke(m1, found.routine, args, mode, target, found.owner)
        ELSE throw(m1, "R_UNKNOWN_METHOD")
  IN IF object.kind = "Super"
     THEN IF superOf(m) = None THEN throw(m, "R_SUPER_OUTSIDE")
          ELSE IF ~isClass(m, superOf(m)) THEN throw(m, "R_UNKNOWN_CLASS")
          ELSE from(m, m.self, superOf(m))
     ELSE expect(evalExpr(m, object), LAMBDA o : o.kind = "OBJECT",
                 LAMBDA m1, o : from(m1, o.id, m1.heap[o.id].name))

(***************************************************************************)
(* Expressions.                                                            *)
(***************************************************************************)
\* enum +- INTEGER, within the ordinals of the enum.
evalEnumOrdinal(m, op, l, r) ==
  LET e == IF l.kind = "ENUM" THEN l ELSE r
      n == IF l.kind = "ENUM" THEN r ELSE l
      next == IF op = "+" THEN e.ordinal + n.value
              ELSE IF l.kind = "ENUM" THEN e.ordinal - n.value
              ELSE n.value - e.ordinal
  IN CASE n.kind # "INTEGER" -> throw(m, "R_TYPE")
       [] n.kind = "INTEGER"
            /\ next \notin 0..(Len(entry(m, "Enum", e.name).members) - 1) ->
            throw(m, "R_ENUM_RANGE")
       [] OTHER -> ret(m, enumValue(e.name, next))

\* AND and OR leave their right side alone when the left one decides.
evalShortCircuit(m, e) ==
  isTruthyBoolean(evalExpr(m, e.left), LAMBDA m1, l :
    IF l = (e.op = "OR") THEN ret(m1, booleanValue(l))
    ELSE isTruthyBoolean(evalExpr(m1, e.right),
                         LAMBDA m2, r : ret(m2, booleanValue(r))))

evalPlace(m, e) ==
  Then(resolvePlace(m, e), LAMBDA m1, place : ret(m1, get(m1, place)))

valueOfExpression(m, e) ==
  CASE e.kind = "Literal" -> ret(m, literalValue(e))
    [] IsPlace(e) -> evalPlace(m, e)
    [] e.kind = "Grouping" -> evalExpr(m, e.expression)
    [] e.kind = "Unary" ->
         Then(evalExpr(m, e.argument), LAMBDA m1, a : evalUnary(m1, e.op, a))
    [] e.kind = "Binary" /\ e.op \in { "AND", "OR" } -> evalShortCircuit(m, e)
    [] e.kind = "Binary" /\ e.op \notin { "AND", "OR" } ->
         Then(evalExpr(m, e.left), LAMBDA m1, l :
         Then(evalExpr(m1, e.right), LAMBDA m2, r :
           IF e.op \in { "+", "-" } /\ "ENUM" \in { l.kind, r.kind }
           THEN evalEnumOrdinal(m2, e.op, l, r)
           ELSE evalBinary(m2, e.op, l, r)))
    [] e.kind = "Call" -> callRoutine(m, e.callee, e.args, "function")
    [] e.kind = "AddressOf" ->
         Then(resolvePlace(m, e.target), LAMBDA m1, p : ret(m1, pointerValue("", p)))
    [] e.kind = "New" -> evalNew(m, e.class, e.args)
    [] e.kind = "MethodCall" ->
         callMethod(m, e.object, e.method, e.args, "function")
    [] e.kind = "Super" -> throw(m, "R_SUPER_OUTSIDE")
    [] OTHER -> throw(m, "R_INTERNAL")

(***************************************************************************)
(* Statements.                                                             *)
(***************************************************************************)
execDeclare(m, s) ==
  Then(buildValueFactory(m, s.type, {}), LAMBDA m1, shape :
    FoldLeft(LAMBDA r, n : Then(r, LAMBDA m2, x :
               Then(fresh(m2, shape), LAMBDA m3, v :
                 ret(define(m3, n, cell("variable", typeDisplayName(s.type), v)),
                     nil))),
             ret(m1, nil), s.names)).m

execConstant(m, s) ==
  Then(evalExpr(m, s.value), LAMBDA m1, v :
    ret(define(m1, s.name, cell("constant", v.kind, v)), nil)).m

execDefine(m, s) ==
  IF ~Registered(m, "Set", s.type) THEN throw(m, "R_UNKNOWN_TYPE").m
  ELSE Then(evalAll(m, s.values), LAMBDA m1, vs :
         ret(define(m1, s.name, cell("variable", s.type, setValue(s.type, vs))),
             nil)).m

execAssignment(m, s) ==
  IF s.value.kind = "ArrayLiteral"
  THEN assignArrayLiteral(m, s.target, s.value.elements)
  ELSE Then(evalExpr(m, s.value), LAMBDA m1, v :
         ret(assignTarget(m1, s.target, v), nil)).m

\* The current value says what the line must hold.  No line left: execution
\* waits, which ExecutionSystem models; here the program stops.
execInput(m, s) ==
  Then(resolvePlace(m, s.target), LAMBDA m1, place :
    LET type == get(m1, place).kind IN
    IF type \notin SCALARS THEN throw(m1, "R_INPUT")
    ELSE IF m1.input = << >> THEN throw(m1, "WAITING")
    ELSE Then(parseInput([ m1 EXCEPT !.input = Tail(@) ], Head(m1.input), type),
              LAMBDA m2, v : ret(put(m2, place, v), nil))).m

\* The parts are formatted one by one, each before the next is evaluated.
execOutput(m, s) ==
  Then(FoldLeft(LAMBDA r, e : Then(r, LAMBDA m1, parts :
                  Then(evalExpr(m1, e), LAMBDA m2, v :
                    IF endless(m2, v, {}) THEN throw(m2, "CRASH")
                    ELSE ret(m2, Append(parts, formatValue(m2, v))))),
                ret(m, << >>), s.expressions),
       LAMBDA m1, parts : ret([ m1 EXCEPT !.output = Append(@, parts) ], nil)).m

RECURSIVE execClauses(_, _, _)
execClauses(m, clauses, alternate) ==
  IF clauses = << >> THEN execBlock(m, alternate)
  ELSE isTruthyBoolean(evalExpr(m, Head(clauses)[1]), LAMBDA m1, holds :
         ret(IF holds THEN execBlock(m1, Head(clauses)[2])
             ELSE execClauses(m1, Tail(clauses), alternate), nil)).m

numberOf(r, K(_, _)) == expect(r, isNumber, LAMBDA m, v : K(m, fractionOf(v)))

RECURSIVE execArms(_, _, _, _)
execArms(m, disc, arms, otherwise) ==
  IF arms = << >> THEN execBlock(m, otherwise)
  ELSE LET arm == Head(arms)
           taken(m1, matches) ==
             ret(IF matches THEN execBlock(m1, arm.body)
                 ELSE execArms(m1, disc, Tail(arms), otherwise), nil)
       IN (IF Len(arm.label) = 1
           THEN Then(evalExpr(m, arm.label[1]), LAMBDA m1, v :
                  taken(m1, valuesEqual(disc, v)))
           ELSE numberOf(evalExpr(m, arm.label[1]), LAMBDA m1, low :
                numberOf(evalExpr(m1, arm.label[2]), LAMBDA m2, high :
                numberOf(ret(m2, disc), LAMBDA m3, n :
                  taken(m3, ~isLess(n, low) /\ ~isLess(high, n)))))).m

RECURSIVE whileLoop(_, _)
whileLoop(m, s) ==
  isTruthyBoolean(evalExpr(m, s.condition), LAMBDA m1, holds :
    IF ~holds THEN ret(m1, nil)
    ELSE ret(Do(execBlock(m1, s.body), LAMBDA m2 :
             Do(tick(m2), LAMBDA m3 : whileLoop(m3, s))), nil)).m

RECURSIVE repeatLoop(_, _)
repeatLoop(m, s) ==
  Do(execBlock(m, s.body), LAMBDA m1 :
  Do(tick(m1), LAMBDA m2 :
    isTruthyBoolean(evalExpr(m2, s.condition), LAMBDA m3, done :
      ret(IF done THEN m3 ELSE repeatLoop(m3, s), nil)).m))

\* The variable is read back after the body, which may have changed it.
RECURSIVE forLoop(_, _, _, _, _, _)
forLoop(m, s, b, i, end, step) ==
  IF ~goesOn(i, end, step) THEN m
  ELSE Do(store(m, b, integerValue(i)), LAMBDA m1 :
       Do(execBlock(m1, s.body), LAMBDA m2 :
         asInteger(ret(m2, get(m2, bindingAt(b))), LAMBDA m3, cur :
           ret(IF ~goesOn(cur + step, end, step) THEN m3
               ELSE Do(tick(m3), LAMBDA m4 :
                      forLoop(m4, s, b, cur + step, end, step)), nil)).m))

execFor(m, s) ==
  Then(evalIntegers(m, << s.start, s.end >> \o s.step), LAMBDA m1, ns :
    LET step == IF Len(ns) = 3 THEN ns[3] ELSE 1
        b    == binding(m1, s.variable)
        loop(m2) == forLoop(m2, s, binding(m2, s.variable), ns[1], ns[2], step)
    IN CASE step = 0 -> throw(m1, "R_FOR_STEP")
         [] step # 0 /\ b = 0 ->
              ret(loop(define(m1, s.variable,
                              cell("variable", "INTEGER", integerValue(ns[1])))), nil)
         [] OTHER -> CASE m1.heap[b].bind = "constant" ->
                            throw(m1, "R_ASSIGN_CONSTANT")
                       [] m1.heap[b].type # "INTEGER" -> throw(m1, "R_TYPE")
                       [] OTHER -> ret(loop(m1), nil)).m

execReturn(m, s) ==
  IF frame(m).kind # "function" THEN throw(m, "R_RETURN_OUTSIDE").m
  ELSE Then(evalExpr(m, s.value), LAMBDA m1, v :
         ret([ m1 EXCEPT !.ctl = "return", !.returned = v ], nil)).m

afterExecution(m, s) ==
  Do(tick(m), LAMBDA m1 :
    CASE s.kind = "Declare"  -> execDeclare(m1, s)
      [] s.kind = "Constant" -> execConstant(m1, s)
      [] s.kind = "Define"   -> execDefine(m1, s)
      [] s.kind = "Assign"   -> execAssignment(m1, s)
      [] s.kind = "Input"    -> execInput(m1, s)
      [] s.kind = "Output"   -> execOutput(m1, s)
      [] s.kind = "If"       -> execClauses(m1, s.clauses, s.alternate)
      [] s.kind = "Case"     ->
           Then(evalExpr(m1, s.discriminant), LAMBDA m2, d :
             ret(execArms(m2, d, s.arms, s.otherwise), nil)).m
      [] s.kind = "While"    -> whileLoop(m1, s)
      [] s.kind = "Repeat"   -> repeatLoop(m1, s)
      [] s.kind = "For"      -> execFor(m1, s)
      [] s.kind = "Return"   -> execReturn(m1, s)
      [] s.kind = "CallStmt" -> callRoutine(m1, s.callee, s.args, "procedure").m
      [] s.kind = "CallMethod" ->
           callMethod(m1, s.object, s.method, s.args, "procedure").m
      [] s.kind = "ExprStmt" ->
           (IF s.expression.kind = "Call"
            THEN callRoutine(m1, s.expression.callee, s.expression.args, "procedure")
            ELSE callMethod(m1, s.expression.object, s.expression.method,
                            s.expression.args, "procedure")).m
      [] OTHER -> m1)

interpretNode(m, node) ==
  IF IsExpression(node) THEN valueOfExpression(m, node) ELSE afterExecution(m, node)

(***************************************************************************)
(* runProgram.  The members of an enum are global constants from the       *)
(* start; routines take no step of their own.                              *)
(***************************************************************************)
hoisted(program, input) ==
  LET empty == [ program |-> program, heap |-> << >>, stack |-> << >>, self |-> 0,
                 methodClass |-> None, ctl |-> "run", returned |-> nil,
                 steps |-> 0, input |-> input, output |-> << >> ]
      inject(m, d) ==
        FoldLeft(LAMBDA m1, i : Do(m1, LAMBDA m2 :
                   define(m2, d.members[i], cell("constant", d.name,
                                                 enumValue(d.name, i - 1)))),
                 m, [ i \in DOMAIN d.members |-> i ])
  IN FoldLeft(inject, push(empty, "global", [ n \in {} |-> 0 ]),
              SelectSeq(program, LAMBDA d : d.kind = "Enum"))

runStatement(m, s) == IF IsRoutine(s) THEN m ELSE execStatement(m, s)
=============================================================================
