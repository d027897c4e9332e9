---------------------------- MODULE PythonProgram ----------------------------
(***************************************************************************)
(* What the printed Python does when it is run: external to the            *)
(* repository, but for the _pp_ helpers print.ts puts before the program.  *)
(*                                                                         *)
(* A process holds                                                         *)
(*   heap      lists, and objects of a class, by number                    *)
(*   globals   name -> value; functions and classes are values             *)
(*   frames    calls: the names that are local, their values, and the      *)
(*             class super() starts from                                   *)
(*   ctl       "run", "return", "break" or the exception raised            *)
(*   helpers   those of the program (printPython)                          *)
(*   fuel      loop turns and calls left                                   *)
(*   returned, input, output                                               *)
(* Values are those of RuntimeValues, with None, a function and a class; a *)
(* text of one character is a text, and the text of an enumeration's member*)
(* stays a member (NAME).  A syntax error is raised when its line is       *)
(* reached.                                                                *)
(***************************************************************************)
EXTENDS PythonPrinter, RuntimeValues

CONSTANT Fuel   \* bound on the loop turns and calls of a run

none        == value("NONE", 0)
function(d) == [ kind |-> "FUNCTION", def |-> d ]
class(d)    == [ kind |-> "CLASS", def |-> d ]
\* The names of Python that the program uses as values.
Builtins    == { "object", "set" }
builtinOf(n) == [ kind |-> "BUILTIN", name |-> n ]

newObject(p, kind, cls, slots) ==
  LET a == alloc(p, [ kind |-> kind, class |-> cls, slots |-> slots ])
  IN ret(a.m, reference(kind, a.v))
newList(p, vs) == newObject(p, "list", None, vs)

numeric(v) == v.kind \in { "INTEGER", "REAL", "BOOLEAN", "ENUM" }
\* IntEnum members and booleans are ints.
number(v) == CASE v.kind = "ENUM"    -> integerValue(v.ordinal)
               [] v.kind = "BOOLEAN" -> integerValue(IF v.value THEN 1 ELSE 0)
               [] OTHER -> v
truthy(v) == CASE numeric(v) -> fractionOf(number(v))[1] # 0
               [] v.kind = "STRING" -> v.value # << >>
               [] OTHER -> v.kind # "NONE"

pyEqual(a, b) ==
  CASE numeric(a) /\ numeric(b) -> fractionOf(number(a)) = fractionOf(number(b))
    [] a.kind = b.kind /\ a.kind = "STRING" -> a.value = b.value
    [] a.kind = b.kind /\ a.kind \in { "list", "object" } -> a.id = b.id
    [] OTHER -> a.kind = b.kind /\ a.kind = "NONE"

(***************************************************************************)
(* Names: one bound anywhere in a function is local to it.                 *)
(***************************************************************************)
RECURSIVE boundNames(_)
boundNames(body) ==
  UNION { LET s == body[i] IN
    (CASE s.kind = "Assign" /\ s.target.kind = "Identifier" -> { s.target.name }
       [] s.kind = "Annotate" -> { s.name }
       [] s.kind = "For"      -> { s.variable }
       [] s.kind = "Match"    ->
            UNION { CASE Len(s.arms[k].label) = 2 -> { "_v" }
                      [] s.arms[k].label[1].kind = "Identifier" ->
                           { s.arms[k].label[1].name }
                      [] OTHER -> {} : k \in DOMAIN s.arms }
       [] OTHER -> {})
    \cup UNION { boundNames(Suites(s)[k]) : k \in DOMAIN Suites(s) }
    : i \in DOMAIN body }

calling(p) == p.frames # << >>
top(p)     == p.frames[Len(p.frames)]
load(p, n) ==
  LET env == IF calling(p) /\ n \in top(p).locals THEN top(p).env ELSE p.globals
  IN CASE n \in DOMAIN env -> ret(p, env[n])
       [] n \in Builtins \ DOMAIN env -> ret(p, builtinOf(n))
       [] OTHER -> throw(p, "NameError")
setName(p, n, v) ==
  IF calling(p) THEN [ p EXCEPT !.frames[Len(p.frames)].env = (n :> v) @@ @ ]
  ELSE [ p EXCEPT !.globals = (n :> v) @@ @ ]

(***************************************************************************)
(* copy.deepcopy: everything reachable, shared as the original is.         *)
(***************************************************************************)
refs(p, id) == LET s == p.heap[id].slots IN
  { s[k].id : k \in { j \in DOMAIN s : s[j].kind \in { "list", "object" } } }
RECURSIVE reachable(_, _)
reachable(p, ids) ==
  LET more == ids \cup UNION { refs(p, i) : i \in ids } IN
  IF more = ids THEN ids ELSE reachable(p, more)

deepcopy(p, v) ==
  IF v.kind \notin { "list", "object" } THEN ret(p, v)
  ELSE LET old == SetToSortSeq(reachable(p, { v.id }), <)
           new(id) == Len(p.heap) + CHOOSE k \in DOMAIN old : old[k] = id
           renamed(w) == IF w.kind \in { "list", "object" }
                         THEN reference(w.kind, new(w.id)) ELSE w
           twin(id) == [ p.heap[id] EXCEPT !.slots =
                           [ k \in DOMAIN @ |-> renamed(@[k]) ] ]
       IN ret([ p EXCEPT !.heap = @ \o [ k \in DOMAIN old |-> twin(old[k]) ] ],
              renamed(v))

(***************************************************************************)
(* Lists and fields.                                                       *)
(***************************************************************************)
\* The slot of list[i], counted from 1; a negative index counts from the end.
slotOf(list, i) == IF i >= 0 THEN i + 1 ELSE Len(list.slots) + i + 1
atIndex(p, a, i, K(_)) ==
  IF a.kind # "list" \/ i.kind # "INTEGER" THEN throw(p, "TypeError")
  ELSE LET k == slotOf(p.heap[a.id], i.value) IN
       IF k \in DOMAIN p.heap[a.id].slots THEN K(k) ELSE throw(p, "IndexError")
item(p, a, i) == atIndex(p, a, i, LAMBDA k : ret(p, p.heap[a.id].slots[k]))
setItem(p, a, i, v) ==
  atIndex(p, a, i, LAMBDA k : ret([ p EXCEPT !.heap[a.id].slots[k] = v ], none))

field(p, o, f) ==
  CASE o.kind = "object" ->
         IF f \in DOMAIN p.heap[o.id].slots THEN ret(p, p.heap[o.id].slots[f])
         ELSE throw(p, "AttributeError")
    [] o.kind = "CLASS" ->
         IF o.def.kind = "IntEnum" /\ \E i \in DOMAIN o.def.members : o.def.members[i] = f
         THEN ret(p, enumValue(o.def.name, (CHOOSE i \in DOMAIN o.def.members :
                                              o.def.members[i] = f) - 1))
         ELSE throw(p, "AttributeError")
    [] OTHER -> throw(p, "AttributeError")
setField(p, o, f, v) ==
  IF o.kind # "object" THEN throw(p, "AttributeError")
  ELSE ret([ p EXCEPT !.heap[o.id].slots = (f :> v) @@ @ ], none)

(***************************************************************************)
(* Operators.                                                              *)
(***************************************************************************)
arithmetic(p, op, a, b) ==
  LET x == number(a)
      y == number(b)
      q == IF x.kind = "INTEGER" THEN floorDiv(x.value, y.value) ELSE 0
  IN CASE op \in { "/", "DIV", "MOD" } /\ fractionOf(y)[1] = 0 -> throw(p, "ZeroDivisionError")
       [] op = "DIV" -> ret(p, integerValue(q))
       [] op = "MOD" -> ret(p, integerValue(x.value - q * y.value))
       [] OTHER -> numericOp(p, op, x, y)

below(p, op, a, b) ==
  CASE numeric(a) /\ numeric(b) -> compare(p, op, number(a), number(b))
    [] a.kind = "STRING" /\ b.kind = "STRING" -> compare(p, op, a, b)
    [] OTHER -> throw(p, "TypeError")

binary(p, op, a, b) ==
  CASE op = "="  -> ret(p, booleanValue(pyEqual(a, b)))
    [] op = "<>" -> ret(p, booleanValue(~pyEqual(a, b)))
    [] op \in { "<", "<=", ">", ">=" } -> below(p, op, a, b)
    [] op \in { "+", "&" } /\ a.kind = "STRING" /\ b.kind = "STRING" ->
         ret(p, value("STRING", a.value \o b.value))
    [] op # "&" /\ numeric(a) /\ numeric(b) -> arithmetic(p, op, a, b)
    [] op = "&" /\ numeric(a) /\ numeric(b) -> arithmetic(p, "+", a, b)
    [] OTHER -> throw(p, "TypeError")

(***************************************************************************)
(* The helpers that print.ts writes before the program.                    *)
(***************************************************************************)
pp_right(p, s, n) == ret(p, value("STRING", ppRight(s.value, n.value)))
\* int(a / b): the quotient of small numbers is exact enough.
pp_div(p, a, b) ==
  IF number(b).value = 0 THEN throw(p, "ZeroDivisionError")
  ELSE ret(p, integerValue(truncate(number(a).value, number(b).value)))
pp_mod(p, a, b) ==
  Then(pp_div(p, a, b), LAMBDA p1, q :
    ret(p1, integerValue(number(a).value - q.value * number(b).value)))
\* type(a)(n) fails when the enum has no member of that number.
pp_enum(p, a, n) ==
  CASE a.kind # "ENUM" -> ret(p, integerValue(n))
    [] a.kind = "ENUM" /\ n + 1 \in DOMAIN p.globals[a.name].def.members ->
         ret(p, enumValue(a.name, n))
    [] OTHER -> throw(p, "ValueError")
pp_load(p, c)     == item(p, c, integerValue(0))
pp_store(p, c, v) == setItem(p, c, integerValue(0), v)

\* A pointer to nothing shows NIL.  The helper would give the name of a value
\* whose class belongs to the module enum; the class of an enumeration belongs
\* to the printed program, so that its members pass as they are.
pp_show(v) == IF v.kind = "NONE" THEN [ v EXCEPT !.kind = "NIL" ] ELSE v
set(vs) == [ kind |-> "SET", elements |-> vs ]

Provided == { "_pp_div", "_pp_mod", "_pp_right", "_pp_enum_add", "_pp_enum_sub", "_pp_addr",
              "_pp_load", "_pp_store", "_pp_pload", "_pp_pstore", "_pp_show", "_pp_define",
              "print", "len", "int", "ord", "chr", "set", "object" }
Walks    == { "_pp_cell", "copy.deepcopy", "_pp_is_num" }

\* By itself a member of an IntEnum prints as its number.
printed(v) == IF v.kind = "ENUM" THEN number(v) ELSE v

\* A helper or a function of Python, called.
provide(p, f, vs) ==
  LET a == vs[1]
      b == vs[2]
  IN CASE f = "_pp_div"      -> pp_div(p, a, b)
       [] f = "_pp_mod"      -> pp_mod(p, a, b)
       [] f = "_pp_right"    -> pp_right(p, a, b)
       [] f = "_pp_enum_add" -> pp_enum(p, a, number(a).value + number(b).value)
       [] f = "_pp_enum_sub" -> pp_enum(p, a, number(a).value - number(b).value)
       [] f = "_pp_addr"     -> ret(p, a)
       [] f \in { "_pp_load", "_pp_pload" }   -> pp_load(p, a)
       [] f \in { "_pp_store", "_pp_pstore" } -> pp_store(p, a, b)
       [] f = "_pp_show"     -> ret(p, pp_show(a))
       [] f = "_pp_define"   -> ret(p, set(Tail(vs)))
       [] f = "_pp_cell"     -> newObject(p, "list", "cell", << a >>)
       [] f = "copy.deepcopy" -> deepcopy(p, a)
       [] f = "_pp_is_num"   -> ret(p, booleanValue(isDecimal(trim(a.value))))
       [] f = "print"        -> ret([ p EXCEPT !.output = Append(@,
                                        [ i \in DOMAIN vs |-> printed(vs[i]) ]) ], none)
       [] f = "len"          -> ret(p, integerValue(Len(a.value)))
       [] f = "int"          -> ret(p, wholePart(number(a)))
       [] f = "ord"          -> ret(p, integerValue(Head(a.value)))
       [] f = "chr"          -> ret(p, value("STRING", << a.value >>))
       [] f = "object"       -> newObject(p, "object", "object", << >>)
       [] OTHER              -> ret(p, set(vs))

(***************************************************************************)
(* Calls.                                                                  *)
(***************************************************************************)
spend(p) == IF p.fuel = 0 THEN [ p EXCEPT !.ctl = "Exhausted" ]
            ELSE [ p EXCEPT !.fuel = @ - 1 ]

RECURSIVE pyExpr(_, _)
RECURSIVE pyBlock(_, _)

pyAll(p, es) ==
  FoldLeft(LAMBDA r, e : Then(r, LAMBDA p1, vs :
             Then(pyExpr(p1, e), LAMBDA p2, v : ret(p2, Append(vs, v)))),
           ret(p, << >>), es)

\* owner: the class whose method it is.
enter(p, def, vs, owner) ==
  [ spend(p) EXCEPT !.frames = Append(@,
      [ locals |-> boundNames(def.body) \cup ToSet(def.params),
        env |-> [ n \in ToSet(def.params) |->
                    vs[CHOOSE i \in DOMAIN vs : def.params[i] = n] ],
        class |-> owner ]) ]
leave(p) ==
  ret([ p EXCEPT !.frames = Front(@), !.returned = none,
                 !.ctl = IF @ = "return" THEN "run" ELSE @ ],
      IF p.ctl = "return" THEN p.returned ELSE none)
invokeDef(p, def, vs, owner) ==
  IF Len(vs) # Len(def.params) THEN throw(p, "TypeError")
  ELSE leave(Do(enter(p, def, vs, owner), LAMBDA p1 : pyBlock(p1, def.body)))

\* The method of a class or of the nearest base that has it.
RECURSIVE methodFrom(_, _, _)
methodFrom(p, cls, name) ==
  LET d == p.globals[cls].def
      at == { i \in DOMAIN d.defs : d.defs[i].name = name }
  IN CASE cls = None -> [ owner |-> None ]
       [] cls # None /\ at # {} ->
            [ owner |-> cls, def |-> d.defs[CHOOSE i \in at : \A j \in at : j <= i] ]
       [] OTHER -> methodFrom(p, d.base, name)

invokeFound(p, o, found, vs) ==
  IF found.owner = None THEN throw(p, "AttributeError")
  ELSE invokeDef(p, found.def, << o >> \o vs, found.owner)
invokeMethod(p, o, cls, name, vs) == invokeFound(p, o, methodFrom(p, cls, name), vs)

\* Fields are given their defaults one by one, outside of any call.
construct(p, d, vs, new) ==
  Then(newObject(p, "object", d.name, << >>), LAMBDA p1, o :
    CASE new.owner # None ->
           Then(invokeDef(p1, new.def, << o >> \o vs, new.owner),
                LAMBDA p2, x : ret(p2, o))
      [] new.owner = None /\ vs # << >> -> throw(p1, "TypeError")
      [] OTHER -> ret(p1, o))
defaults(p, fields) ==
  FoldLeft(LAMBDA r, f : Then(r, LAMBDA p1, slots :
             Then(pyExpr(p1, f[2]), LAMBDA p2, v : ret(p2, (f[1] :> v) @@ slots))),
           ret([ p EXCEPT !.frames = << >> ], << >>), fields)
instantiate(p, d, vs) ==
  IF d.kind = "Dataclass"
  THEN Then(defaults(p, d.fields), LAMBDA p1, slots :
         newObject([ p1 EXCEPT !.frames = p.frames ], "object", d.name, slots))
  ELSE construct(p, d, vs, methodFrom(p, d.name, "__init__"))

pyCall(p, f, vs) ==
  CASE f \in Provided \cup p.helpers -> provide(p, f, vs)
    [] f \in Walks \ p.helpers -> throw(p, "NameError")
    [] OTHER -> Then(load(p, f), LAMBDA p1, v :
         CASE v.kind = "FUNCTION" -> invokeDef(p1, v.def, vs, None)
           [] v.kind = "CLASS"    -> instantiate(p1, v.def, vs)
           [] v.kind = "BUILTIN"  -> provide(p1, v.name, vs)
           [] OTHER -> throw(p1, "TypeError"))

\* super() is bound to the class the method was found in.
pyMethod(p, e) ==
  IF e.object.kind = "Super"
  THEN Then(pyAll(p, e.args), LAMBDA p1, vs :
         invokeMethod(p1, top(p1).env[Self], p1.globals[top(p1).class].def.base,
                      e.method, vs))
  ELSE Then(pyExpr(p, e.object), LAMBDA p1, o :
       Then(pyAll(p1, e.args), LAMBDA p2, vs :
         CASE o.kind = "STRING" /\ e.method = "upper" ->
                ret(p2, value("STRING", upper(o.value)))
           [] o.kind = "object" ->
                invokeMethod(p2, o, p2.heap[o.id].class, e.method, vs)
           [] OTHER -> throw(p2, "AttributeError")))

(***************************************************************************)
(* Expressions.                                                            *)
(***************************************************************************)
readLine(p, type) ==
  IF p.input = << >> THEN throw(p, "EOFError")
  ELSE LET line == Head(p.input)
           p1 == [ p EXCEPT !.input = Tail(@) ]
           read == parseInput(p1, line, IF type = None THEN "STRING" ELSE type)
       IN CASE read.m.ctl # "run" -> throw(p1, "ValueError")
            [] read.m.ctl = "run" /\ type = "CHAR" ->
                 ret(p1, value("STRING", << read.v.value >>))
            [] OTHER -> read

RECURSIVE pyChain(_, _, _)
pyChain(p, left, rest) ==
  IF rest = << >> THEN ret(p, booleanValue(TRUE))
  ELSE Then(pyExpr(p, rest[1][2]), LAMBDA p1, next :
       Then(binary(p1, rest[1][1], left, next), LAMBDA p2, v :
         IF v.value THEN pyChain(p2, next, Tail(rest)) ELSE ret(p2, v)))

\* A comprehension evaluates its element anew for each item.
repeat(p, e) ==
  Then(pyAll(p, << e.hi, e.lo >>), LAMBDA p1, ends :
    LET size == ends[1].value - ends[2].value + 1 IN
    Then(pyAll(p1, [ i \in 1..size |-> e.element ]),
         LAMBDA p2, vs : newList(p2, vs)))

pyExpr(p, e) ==
  CASE e.kind = "Literal"    -> ret(p, literalValue(e))
    [] e.kind = "Identifier" -> load(p, e.name)
    [] e.kind = "Grouping"   -> pyExpr(p, e.expression)
    [] e.kind = "Unary" ->
         Then(pyExpr(p, e.argument), LAMBDA p1, v :
           CASE e.op = "NOT" -> ret(p1, booleanValue(~truthy(v)))
             [] e.op # "NOT" /\ numeric(v) -> evalUnary(p1, e.op, number(v))
             [] OTHER -> throw(p1, "TypeError"))
    [] e.kind = "Binary" ->
         Then(pyExpr(p, e.left), LAMBDA p1, l :
           IF e.op \in { "AND", "OR" }
           THEN IF truthy(l) = (e.op = "OR") THEN ret(p1, l) ELSE pyExpr(p1, e.right)
           ELSE Then(pyExpr(p1, e.right), LAMBDA p2, r : binary(p2, e.op, l, r)))
    [] e.kind = "Chain" ->
         Then(pyExpr(p, e.first), LAMBDA p1, v : pyChain(p1, v, e.rest))
    [] e.kind = "Index" ->
         Then(pyExpr(p, e.array), LAMBDA p1, a :
         Then(pyExpr(p1, e.indices[1]), LAMBDA p2, i : item(p2, a, i)))
    [] e.kind = "Member" ->
         Then(pyExpr(p, e.object), LAMBDA p1, o : field(p1, o, e.property))
    [] e.kind = "Slice" ->
         Then(pyExpr(p, e.text), LAMBDA p1, t :
         Then(pyAll(p1, SelectSeq(<< e.from, e.to >>, LAMBDA x : x.kind # "NoEnd")),
              LAMBDA p2, ends :
           ret(p2, value("STRING", sliced(t.value,
             IF e.from.kind = "NoEnd" THEN 0 ELSE Head(ends).value,
             IF e.to.kind = "NoEnd" THEN Len(t.value) ELSE Last(ends).value)))))
    [] e.kind = "ArrayLiteral" ->
         Then(pyAll(p, e.elements), LAMBDA p1, vs : newList(p1, vs))
    [] e.kind = "Repeat"     -> repeat(p, e)
    [] e.kind = "MethodCall" -> pyMethod(p, e)
    [] e.kind = "Input"      -> readLine(p, e.type)
    [] e.kind = "Call" ->
         Then(pyAll(p, e.args), LAMBDA p1, vs : pyCall(p1, e.callee, vs))
    [] OTHER -> throw(p, "SyntaxError")

(***************************************************************************)
(* Statements.                                                             *)
(***************************************************************************)
setTarget(p, t, v) ==
  CASE t.kind = "Identifier" -> setName(p, t.name, v)
    [] t.kind = "Member" ->
         Then(pyExpr(p, t.object), LAMBDA p1, o : setField(p1, o, t.property, v)).m
    [] t.kind = "Index" ->
         Then(pyExpr(p, t.array), LAMBDA p1, a :
         Then(pyExpr(p1, t.indices[1]), LAMBDA p2, i : setItem(p2, a, i, v))).m
    [] OTHER -> throw(p, "SyntaxError").m

RECURSIVE pyClauses(_, _, _)
pyClauses(p, clauses, alternate) ==
  IF clauses = << >> THEN pyBlock(p, alternate)
  ELSE Then(pyExpr(p, Head(clauses)[1]), LAMBDA p1, v :
         ret(IF truthy(v) THEN pyBlock(p1, Head(clauses)[2])
             ELSE pyClauses(p1, Tail(clauses), alternate), v)).m

\* A pattern: a bare name takes the value, a literal or a dotted name is
\* compared with it, << low, high >> is a name with a guard.
fits(p, d, label) ==
  LET e == label[1] IN
  CASE Len(label) = 2 ->
         Then(pyExpr(setName(p, "_v", d), label[1]), LAMBDA p1, low :
         Then(below(p1, "<=", low, d), LAMBDA p2, from :
           IF ~from.value THEN ret(p2, FALSE)
           ELSE Then(pyExpr(p2, label[2]), LAMBDA p3, high :
                Then(below(p3, "<=", d, high), LAMBDA p4, to : ret(p4, to.value)))))
    [] Len(label) = 1 /\ e.kind = "Identifier" -> ret(setName(p, e.name, d), TRUE)
    [] Len(label) = 1 /\ (\/ e.kind \in { "Literal", "Member" }
                          \/ e.kind = "Unary" /\ e.argument.kind = "Literal") ->
         Then(pyExpr(p, e), LAMBDA p1, v : ret(p1, pyEqual(d, v)))
    [] OTHER -> throw(p, "SyntaxError")

RECURSIVE pyMatch(_, _, _, _)
pyMatch(p, d, arms, otherwise) ==
  IF arms = << >> THEN pyBlock(p, otherwise)
  ELSE Then(fits(p, d, Head(arms).label), LAMBDA p1, yes :
         ret(IF yes THEN pyBlock(p1, Head(arms).body)
             ELSE pyMatch(p1, d, Tail(arms), otherwise), none)).m

\* `break` leaves the loop, and an exception or a return goes through it.
RECURSIVE pyWhile(_, _)
pyWhile(p, s) ==
  LET after(turn) == CASE turn.ctl = "break" -> [ turn EXCEPT !.ctl = "run" ]
                       [] turn.ctl = "run"   -> pyWhile(turn, s)
                       [] OTHER -> turn
  IN Then(pyExpr(p, s.condition), LAMBDA p1, v :
       ret(IF truthy(v) THEN after(pyBlock(spend(p1), s.body)) ELSE p1, v)).m

\* The range is made before the first turn, which binds the variable.
pyFor(p, s) ==
  Then(pyAll(p, << s.start, s.end >> \o s.step), LAMBDA p1, ends :
    LET from == ends[1].value
        to   == ends[2].value
        step == IF Len(ends) = 3 THEN ends[3].value ELSE 1
    IN IF step = 0 THEN throw(p1, "ValueError")
       ELSE ret(FoldLeft(LAMBDA p2, n : Do(p2, LAMBDA p3 :
                  pyBlock(setName(spend(p3), s.variable, integerValue(n)), s.body)),
                  p1, rangeOf(from, to, step)), none)).m

pyStatement(p, s) ==
  CASE s.kind = "Assign" ->
         Then(pyExpr(p, s.value), LAMBDA p1, v : ret(setTarget(p1, s.target, v), none)).m
    [] s.kind = "ExprStmt" -> pyExpr(p, s.expression).m
    [] s.kind = "If"       -> pyClauses(p, s.clauses, s.alternate)
    [] s.kind = "Match"    ->
         Then(pyExpr(p, s.discriminant), LAMBDA p1, d :
           ret(pyMatch(p1, d, s.arms, s.otherwise), none)).m
    [] s.kind = "While"    -> pyWhile(p, s)
    [] s.kind = "For"      -> pyFor(p, s)
    [] s.kind = "Break"    -> [ p EXCEPT !.ctl = "break" ]
    [] s.kind = "Return"   ->
         Then(pyExpr(p, s.value), LAMBDA p1, v :
           ret([ p1 EXCEPT !.ctl = "return", !.returned = v ], none)).m
    [] s.kind = "Def"      -> setName(p, s.name, function(s))
    [] s.kind \in { "PyClass", "Dataclass", "IntEnum" } -> setName(p, s.name, class(s))
    [] OTHER -> p

pyBlock(p, body) ==
  FoldLeft(LAMBDA p1, s : Do(p1, LAMBDA p2 : pyStatement(p2, s)), p, body)

started(helpers, lines) ==
  [ heap |-> << >>, globals |-> << >>, frames |-> << >>, ctl |-> "run",
    helpers |-> helpers, fuel |-> Fuel, returned |-> none,
    input |-> lines, output |-> << >> ]
=============================================================================
