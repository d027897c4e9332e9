---------------------------- MODULE RuntimeValues ----------------------------
(***************************************************************************)
(* The values of the interpreter and the store they live in                *)
(* (interpreter/src/value.ts, environment.ts, frame.ts).                   *)
(*                                                                         *)
(* A machine holds                                                         *)
(*   program     the statements, from which its registries are read       *)
(*   heap        objects by number: bindings, arrays, records, instances   *)
(*   stack       frames, the global one first; an environment maps names   *)
(*               to bindings                                               *)
(*   self        currentInstance (0: none)   methodClass  its method's     *)
(*   ctl         "run", "return" or the code of the error thrown           *)
(*   steps, input, output                                                  *)
(* Scalars and enum values are immutable; ARRAY, RECORD and OBJECT values  *)
(* are references into the heap.  A REAL is a fraction << n, d >> in       *)
(* lowest terms, without the rounding of a double; text is a sequence of   *)
(* code points, a CHAR is a code point.                                    *)
(***************************************************************************)
EXTENDS TypeSystem, Scalars

SCALARS == { "INTEGER", "REAL", "BOOLEAN", "STRING", "CHAR" }

value(kind, v)    == [ kind |-> kind, value |-> v ]
integerValue(n)   == value("INTEGER", n)
realValue(q)      == value("REAL", q)
booleanValue(b)   == value("BOOLEAN", b)
enumValue(type, ordinal) == [ kind |-> "ENUM", name |-> type, ordinal |-> ordinal ]
setValue(type, elements) == [ kind |-> "SET", name |-> type, elements |-> elements ]
\* Places: a binding, a slot of an object, or what a pointer's place holds.
nil            == [ at |-> "nil" ]
bindingAt(id)  == [ at |-> "binding", id |-> id ]
slotAt(id, k)  == [ at |-> "slot", id |-> id, key |-> k ]
through(place) == [ at |-> "through", place |-> place ]
pointerValue(type, place) == [ kind |-> "POINTER", name |-> type, place |-> place ]
reference(kind, id) == [ kind |-> kind, id |-> id ]

defaultScalar(type) ==
  value(type, CASE type = "INTEGER" -> 0 [] type = "REAL" -> << 0, 1 >>
                [] type = "BOOLEAN" -> FALSE [] type = "STRING" -> << >>
                [] OTHER -> 32)

isNumber(v) == v.kind \in NUMBER
isText(v)   == v.kind \in TEXT
text(v)     == IF v.kind = "CHAR" THEN << v.value >> ELSE v.value

RECURSIVE commonDivisor(_, _)
commonDivisor(a, b) == IF b = 0 THEN a ELSE commonDivisor(b, a % b)
fraction(n, d) ==
  LET abs(k) == IF k < 0 THEN 0 - k ELSE k
      c == commonDivisor(abs(n), abs(d))
  IN << (IF d < 0 THEN 0 - n ELSE n) \div c, abs(d) \div c >>
fractionOf(v)   == IF v.kind = "INTEGER" THEN << v.value, 1 >> ELSE v.value
isLess(x, y)    == x[1] * y[2] < y[1] * x[2]
\* A REAL literal counts halves.
literalValue(e) == IF e.type = "REAL" THEN realValue(fraction(e.value, 2))
                   ELSE value(e.type, e.value)

(***************************************************************************)
(* Results: a machine and a value.  An error thrown, or a RETURN, skips    *)
(* whatever would have followed.                                           *)
(***************************************************************************)
ret(m, v)       == [ m |-> m, v |-> v ]
throw(m, code)  == ret([ m EXCEPT !.ctl = code ], nil)
Then(r, K(_, _)) == IF r.m.ctl = "run" THEN K(r.m, r.v) ELSE r
Do(m, K(_))      == IF m.ctl = "run" THEN K(m) ELSE m
expect(r, Holds(_), K(_, _)) ==
  Then(r, LAMBDA m, v : IF Holds(v) THEN K(m, v) ELSE throw(m, "R_TYPE"))

asInteger(r, K(_, _)) == expect(r, LAMBDA v : v.kind = "INTEGER",
                                LAMBDA m, v : K(m, v.value))
isTruthyBoolean(r, K(_, _)) == expect(r, LAMBDA v : v.kind = "BOOLEAN",
                                      LAMBDA m, v : K(m, v.value))

alloc(m, object) == ret([ m EXCEPT !.heap = Append(@, object) ],
                        Len(m.heap) + 1)

(***************************************************************************)
(* Environments.  Frame 1 is the global one, the parent of every other.    *)
(***************************************************************************)
frame(m) == m.stack[Len(m.stack)]
push(m, kind, env) ==
  [ m EXCEPT !.stack = Append(@, [ kind |-> kind, env |-> env ]) ]
pop(m) == [ m EXCEPT !.stack = Front(@) ]

\* Environment.lookup: 0 when the name is unbound.
binding(m, n) ==
  CASE n \in DOMAIN frame(m).env   -> frame(m).env[n]
    [] n \in DOMAIN m.stack[1].env -> m.stack[1].env[n]
    [] OTHER -> 0

cell(bind, type, v) ==
  [ kind |-> "cell", bind |-> bind, type |-> type, value |-> v ]
alias(type, place) ==
  [ kind |-> "alias", bind |-> "parameter", type |-> type, place |-> place ]

\* Environment.define and defineByRef, in an environment under construction.
bind(m, env, n, object) ==
  IF n \in DOMAIN env THEN throw(m, "R_DUP_BINDING")
  ELSE LET a == alloc(m, object) IN ret(a.m, (n :> a.v) @@ env)

define(m, n, object) ==
  LET r == bind(m, frame(m).env, n, object) IN
  IF r.m.ctl # "run" THEN r.m
  ELSE [ r.m EXCEPT !.stack[Len(m.stack)].env = r.v ]

(***************************************************************************)
(* cloneValue: arrays, records and sets are copied, instances and pointers *)
(* are not.                                                                *)
(***************************************************************************)
RECURSIVE cloneValue(_, _)
cloneSlots(m, slots) ==
  FoldLeft(LAMBDA r, k : LET c == cloneValue(r.m, slots[k]) IN
                         ret(c.m, [ r.v EXCEPT ![k] = c.v ]),
           ret(m, slots), SetToSeq(DOMAIN slots))

cloneValue(m, v) ==
  IF v.kind \notin { "ARRAY", "RECORD" } THEN ret(m, v)
  ELSE LET copied == cloneSlots(m, m.heap[v.id].slots)
           a == alloc(copied.m, [ m.heap[v.id] EXCEPT !.slots = copied.v ])
       IN ret(a.m, reference(v.kind, a.v))

\* Mutant: a stored record is the value itself, not a copy.
sameValue(m, v) == ret(m, v)
\* The copy that assignment and parameter passing make.
copyOf(m, v) == cloneValue(m, v)

arrayShapesEqual(m, a, b) ==
  LET x == m.heap[a.id]
      y == m.heap[b.id]
  IN /\ x.element = y.element
     /\ x.lowers = y.lowers /\ x.uppers = y.uppers

coerceAssign(m, to, v) ==
  CASE v.kind = to -> ret(m, v)
    [] to = "REAL" /\ v.kind = "INTEGER" -> ret(m, realValue(<< v.value, 1 >>))
    [] OTHER -> throw(m, "R_TYPE")

\* coerceForStore: what is stored where `old` is.  An array is filled in
\* place; an instance is shared, whatever its class.
coerceForStore(m, old, new) ==
  LET either(k) == k \in { old.kind, new.kind }
      both(k)   == old.kind = k /\ new.kind = k
      named     == old.name = new.name
      anonymous == old.name = "" \/ new.name = ""
  IN CASE either("ARRAY") ->
            IF ~both("ARRAY") THEN throw(m, "R_TYPE")
            ELSE IF ~arrayShapesEqual(m, old, new) THEN throw(m, "R_TYPE")
            ELSE LET c == cloneSlots(m, m.heap[new.id].slots) IN
                 ret([ c.m EXCEPT !.heap[old.id].slots = c.v ], old)
       [] ~either("ARRAY") /\ either("RECORD") ->
            IF ~both("RECORD") THEN throw(m, "R_TYPE")
            ELSE IF m.heap[old.id].name # m.heap[new.id].name
            THEN throw(m, "R_TYPE") ELSE copyOf(m, new)
       [] ~either("ARRAY") /\ ~either("RECORD") /\ either("OBJECT") ->
            IF both("OBJECT") THEN ret(m, new) ELSE throw(m, "R_TYPE")
       [] \E k \in { "ENUM", "SET" } : both(k) ->
            IF named THEN ret(m, new) ELSE throw(m, "R_TYPE")
       [] both("POINTER") ->
            IF named \/ anonymous
            THEN ret(m, pointerValue(IF old.name = "" THEN new.name ELSE old.name,
                                     new.place))
            ELSE throw(m, "R_TYPE")
       [] OTHER -> IF old.kind \in SCALARS THEN coerceAssign(m, old.kind, new)
                   ELSE throw(m, "R_TYPE")

(***************************************************************************)
(* ValuePlace: get and set.  A BYREF binding passes both on to the place   *)
(* it names, and what it stores is coerced at each stage.                  *)
(***************************************************************************)
RECURSIVE get(_, _)
get(m, place) ==
  CASE place.at = "slot" -> m.heap[place.id].slots[place.key]
    [] place.at = "through" -> get(m, place.place)
    [] OTHER -> LET b == m.heap[place.id] IN
                IF b.kind = "alias" THEN get(m, b.place) ELSE b.value

RECURSIVE put(_, _, _)
\* The setter of a binding.
store(m, id, v) ==
  IF m.heap[id].kind = "alias" THEN put(m, m.heap[id].place, v)
  ELSE [ m EXCEPT !.heap[id].value = v ]

stored(place, c) ==
  CASE c.m.ctl # "run" -> c.m
    [] c.m.ctl = "run" /\ place.at = "slot" ->
         [ c.m EXCEPT !.heap[place.id].slots[place.key] = c.v ]
    [] c.m.ctl = "run" /\ place.at = "through" -> put(c.m, place.place, c.v)
    [] OTHER -> store(c.m, place.id, c.v)

put(m, place, v) ==
  IF place.at = "binding" /\ m.heap[place.id].bind = "constant"
  THEN [ m EXCEPT !.ctl = "R_ASSIGN_CONSTANT" ]
  ELSE stored(place, coerceForStore(m, get(m, place), v))

(***************************************************************************)
(* The factories of default values.  A shape is built once, its bounds     *)
(* evaluated, and then gives a fresh value for every name and slot.        *)
(***************************************************************************)
RECURSIVE fresh(_, _)
\* Fresh values for a sequence of << key, shape >>; a repeated key keeps the
\* last.
freshSlots(m, fields) ==
  FoldLeft(LAMBDA r, f :
             IF r.m.ctl # "run" THEN r
             ELSE LET v == fresh(r.m, f[2]) IN
                  IF v.m.ctl # "run" THEN v ELSE ret(v.m, (f[1] :> v.v) @@ r.v),
           ret(m, [ k \in {} |-> nil ]), fields)

fresh(m, shape) ==
  CASE shape.kind \in { "RECORD", "OBJECT" } ->
         Then(freshSlots(m, shape.fields), LAMBDA m1, slots :
           LET a == alloc(m1, [ kind |-> shape.kind, name |-> shape.name,
                                slots |-> slots ])
           IN ret(a.m, reference(shape.kind, a.v)))
    [] shape.kind = "ARRAY" ->
         IF \E d \in DOMAIN shape.lowers : shape.uppers[d] < shape.lowers[d]
         THEN throw(m, "R_ARRAY_BOUNDS")
         ELSE Then(freshSlots(m, [ i \in 1..sizeOf(shape.lowers, shape.uppers)
                                     |-> << i, shape.of >> ]),
                   LAMBDA m1, slots :
           LET a == alloc(m1, [ kind |-> "ARRAY", element |-> shape.element,
                                lowers |-> shape.lowers,
                                uppers |-> shape.uppers,
                                slots |-> slots ])
           IN ret(a.m, reference("ARRAY", a.v)))
    [] OTHER -> ret(m, shape.default)

(***************************************************************************)
(* formatValue, up to layout: the scalars a value shows, nested as it is.  *)
(***************************************************************************)
Composite(v) == v.kind \in { "ARRAY", "RECORD", "OBJECT" }

\* formatValue follows references without end.
RECURSIVE endless(_, _, _)
endless(m, v, path) ==
  /\ Composite(v)
  /\ \/ v.id \in path
     \/ \E k \in DOMAIN m.heap[v.id].slots :
          endless(m, m.heap[v.id].slots[k], path \cup { v.id })

RECURSIVE formatValue(_, _)
formatValue(m, v) ==
  CASE Composite(v) -> [ k \in DOMAIN m.heap[v.id].slots |->
                           formatValue(m, m.heap[v.id].slots[k]) ]
    [] v.kind = "POINTER" -> << v.name, v.place = nil >>
    [] OTHER -> v

(***************************************************************************)
(* Operators on scalars.                                                   *)
(***************************************************************************)
valuesEqual(a, b) ==
  CASE isNumber(a) /\ isNumber(b) -> fractionOf(a) = fractionOf(b)
    [] a.kind = "ENUM" /\ b.kind = "ENUM" ->
         a.name = b.name /\ a.ordinal = b.ordinal
    [] a.kind = b.kind /\ a.kind \in SCALARS -> a.value = b.value
    [] OTHER -> FALSE

compare(m, op, a, b) ==
  LET answer(below, same) ==
        ret(m, booleanValue(CASE op = "<"  -> below [] op = "<=" -> below \/ same
                              [] op = ">"  -> ~below /\ ~same
                              [] OTHER -> ~below))
  IN CASE a.kind = "ENUM" /\ b.kind = "ENUM" ->
            IF a.name # b.name THEN throw(m, "R_TYPE")
            ELSE answer(a.ordinal < b.ordinal, a.ordinal = b.ordinal)
       [] isNumber(a) /\ isNumber(b) ->
            answer(isLess(fractionOf(a), fractionOf(b)), fractionOf(a) = fractionOf(b))
       [] isText(a) /\ isText(b) ->
            answer(textBelow(text(a), text(b)), text(a) = text(b))
       [] OTHER -> throw(m, "R_TYPE")

numericOp(m, op, a, b) ==
  LET int == a.kind = "INTEGER" /\ b.kind = "INTEGER"
      l   == fractionOf(a)
      r   == fractionOf(b)
      number(n, d) == ret(m, IF int THEN integerValue(n)
                             ELSE realValue(fraction(n, d)))
  IN CASE ~isNumber(a) \/ ~isNumber(b) -> throw(m, "R_TYPE")
       [] op = "+" -> number(l[1] * r[2] + r[1] * l[2], l[2] * r[2])
       [] op = "-" -> number(l[1] * r[2] - r[1] * l[2], l[2] * r[2])
       [] op = "*" -> number(l[1] * r[1], l[2] * r[2])
       [] op \in { "DIV", "MOD" } /\ ~int -> throw(m, "R_TYPE")
       [] op \in { "/", "DIV", "MOD" } /\ r[1] = 0 -> throw(m, "R_DIV_ZERO")
       [] op = "/" -> ret(m, realValue(fraction(l[1] * r[2], l[2] * r[1])))
       [] op = "DIV" -> ret(m, integerValue(truncate(a.value, b.value)))
       [] OTHER -> ret(m, integerValue(remainder(a.value, b.value)))

evalBinary(m, op, a, b) ==
  CASE op = "&" -> IF isText(a) /\ isText(b)
                   THEN ret(m, value("STRING", text(a) \o text(b)))
                   ELSE throw(m, "R_TYPE")
    [] op = "="  -> ret(m, booleanValue(valuesEqual(a, b)))
    [] op = "<>" -> ret(m, booleanValue(~valuesEqual(a, b)))
    [] op \in { "<", "<=", ">", ">=" } -> compare(m, op, a, b)
    [] OTHER -> numericOp(m, op, a, b)

evalUnary(m, op, a) ==
  IF op = "NOT" THEN isTruthyBoolean(ret(m, a),
                                     LAMBDA m1, b : ret(m1, booleanValue(~b)))
  ELSE IF ~isNumber(a) THEN throw(m, "R_TYPE")
  ELSE IF op # "-" THEN ret(m, a)
  ELSE ret(m, IF a.kind = "INTEGER" THEN integerValue(0 - a.value)
              ELSE realValue(<< 0 - a.value[1], a.value[2] >>))

(***************************************************************************)
(* Builtins, and the text of an INPUT line.                                *)
(***************************************************************************)
Blank(ch) == ch \in 9..13 \cup { 32, 160 }
trim(t) ==
  LET inked == { i \in DOMAIN t : ~Blank(t[i]) } IN
  IF inked = {} THEN << >> ELSE SubSeq(t, Min(inked), Max(inked))

Digit(ch) == ch \in 48..57
unsigned(t) == IF t # << >> /\ Head(t) \in { 43, 45 } THEN Tail(t) ELSE t
isInteger(t) == unsigned(t) # << >> /\ \A i \in DOMAIN unsigned(t) : Digit(unsigned(t)[i])
\* At most one point, at least one digit.
isDecimal(t) ==
  LET u == unsigned(t) IN
  /\ \A i \in DOMAIN u : Digit(u[i]) \/ u[i] = 46
  /\ \E i \in DOMAIN u : Digit(u[i])
  /\ Cardinality({ i \in DOMAIN u : u[i] = 46 }) <= 1

integerOf(t) ==
  LET n == FoldLeft(LAMBDA a, ch : 10 * a + (ch - 48), 0, unsigned(t)) IN
  IF Head(t) = 45 THEN 0 - n ELSE n
\* The digits without the point, and how many of them are behind it.
decimalOf(t) ==
  LET behind == IF 46 \in ToSet(t) THEN Len(t) - SelectInSeq(t, LAMBDA ch : ch = 46) ELSE 0
  IN fraction(integerOf(SelectSeq(t, LAMBDA ch : ch # 46)), 10 ^ behind)
wholePart(v) == integerValue(truncate(fractionOf(v)[1], fractionOf(v)[2]))

upper(t) == [ i \in DOMAIN t |-> IF t[i] \in 97..122 THEN t[i] - 32 ELSE t[i] ]
trueText  == << 84, 82, 85, 69 >>
falseText == << 70, 65, 76, 83, 69 >>

executeBuiltin(m, f, args) ==
  LET a == args[1]
      n == args[2].value
      positive == \A i \in 2..Len(args) :
                    args[i].value >= IF f = "MID" /\ i = 2 THEN 1 ELSE 0
      part(t, k) == CASE f = "LEFT"  -> leftOf(t, k)
                      [] f = "RIGHT" -> rightOf(t, k)
                      [] OTHER -> midOf(t, k, args[3].value)
  IN CASE Len(args) # Len(CORE_BUILTINS[f].params) -> throw(m, "R_BUILTIN_ARGS")
       [] f \in { "LENGTH", "LEFT", "RIGHT", "MID", "UCASE", "IS_NUM" }
            /\ ~isText(a) -> throw(m, "R_TYPE")
       [] f = "LENGTH" -> ret(m, integerValue(Len(text(a))))
       [] f \in { "LEFT", "RIGHT", "MID" } ->
            IF \E i \in 2..Len(args) : args[i].kind # "INTEGER"
            THEN throw(m, "R_TYPE")
            ELSE IF ~positive THEN throw(m, "R_BUILTIN")
            ELSE ret(m, value("STRING", part(text(a), n)))
       [] f = "UCASE" -> ret(m, IF a.kind = "CHAR"
                                THEN value("CHAR", upper(text(a))[1])
                                ELSE value("STRING", upper(text(a))))
       [] f = "IS_NUM" -> ret(m, booleanValue(isDecimal(trim(text(a)))))
       [] f = "INT" -> IF isNumber(a) THEN ret(m, wholePart(a))
                       ELSE throw(m, "R_TYPE")
       [] f = "ASC" -> IF a.kind = "CHAR" THEN ret(m, integerValue(a.value))
                       ELSE throw(m, "R_TYPE")
       [] OTHER -> CASE a.kind # "INTEGER" -> throw(m, "R_TYPE")
                     [] a.kind = "INTEGER" /\ a.value \notin 0..1114111 ->
                          throw(m, "R_BUILTIN")
                     [] OTHER -> ret(m, value("CHAR", a.value))

\* Numbers and truth values are trimmed, texts are taken as they are.  (Of what
\* Number() reads, exponents and hexadecimals are left out.)
parseInput(m, line, type) ==
  LET t == trim(line) IN
  CASE type = "INTEGER" /\ isInteger(t) -> ret(m, integerValue(integerOf(t)))
    [] type = "REAL" /\ isDecimal(t) -> ret(m, realValue(decimalOf(t)))
    [] type = "BOOLEAN" /\ upper(t) \in { trueText, falseText } ->
         ret(m, booleanValue(upper(t) = trueText))
    [] type = "STRING" -> ret(m, value("STRING", line))
    [] type = "CHAR" /\ line # << >> -> ret(m, value("CHAR", Head(line)))
    [] OTHER -> throw(m, "R_INPUT")
=============================================================================
