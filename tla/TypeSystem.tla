----------------------------- MODULE TypeSystem -----------------------------
(***************************************************************************)
(* Types, assignability and the tables of user types and classes           *)
(* (checker/src/type-system.ts, types.ts, records.ts, classes.ts).  A user *)
(* type is a reference by name into the type table: the passes that rebind *)
(* forward references to the final entries leave exactly that.             *)
(*                                                                         *)
(* A diagnostic is a record of its severity and its code.                  *)
(***************************************************************************)
EXTENDS SyntaxTree, FiniteSets, SequencesExt

error(code)   == << [ severity |-> "error", code |-> code ] >>
warning(code) == << [ severity |-> "warning", code |-> code ] >>
When(cond, diags) == IF cond THEN diags ELSE << >>
\* The diagnostics of each element of s, in order.
Each(s, Diags(_)) == FlattenSeq([ i \in DOMAIN s |-> Diags(s[i]) ])

scalar(n)   == [ kind |-> "scalar", name |-> n ]
errorType   == [ kind |-> "error" ]
arrayOf(el, rank, bounds) ==
  [ kind |-> "array", element |-> el, dimensions |-> rank, bounds |-> bounds ]
\* A reference to an entry of the type table.
userType(entry) == [ kind |-> entry.kind, name |-> entry.name ]
addressOfType(t) == [ kind |-> "pointer", name |-> "", target |-> t ]

isScalar(t, n) == t.kind = "scalar" /\ t.name = n
isNumeric(t)   == isScalar(t, "INTEGER") \/ isScalar(t, "REAL")
isBoolean(t)   == isScalar(t, "BOOLEAN")
isIndexType(t) == isScalar(t, "INTEGER")
isStringy(t)   == isScalar(t, "STRING") \/ isScalar(t, "CHAR")
isCompositeType(t) ==
  t.kind \in { "array", "record", "class", "set", "pointer" }
isError(t) == t.kind = "error"

Known(table, n) == n \in DOMAIN table
targetOf(table, p) ==
  IF p.name = "" THEN p.target ELSE table[p.name].target

(***************************************************************************)
(* literalArrayBounds: the bounds when every one is a literal.             *)
(***************************************************************************)
isIntegerLiteral(e) == e.kind = "Literal" /\ e.type = "INTEGER"
isNegated(e) == e.kind = "Unary" /\ e.op = "-" /\ isIntegerLiteral(e.argument)
integerLiteralValue(e) == IF isNegated(e) THEN 0 - e.argument.value ELSE e.value

literalArrayBounds(ref) ==
  IF \E i \in DOMAIN ref.dims, j \in 1..2 :
       ~isIntegerLiteral(ref.dims[i][j]) /\ ~isNegated(ref.dims[i][j])
  THEN << >>
  ELSE [ i \in DOMAIN ref.dims |->
           << integerLiteralValue(ref.dims[i][1]),
              integerLiteralValue(ref.dims[i][2]) >> ]

\* Incomplete bounds cannot prove a mismatch.
arrayBoundsEqual(a, b) == a = << >> \/ b = << >> \/ a = b

\* resolveTypeRef: an unknown name is the error type.
resolveSimpleType(ref, table) ==
  CASE ref.kind = "TypeName" -> scalar(ref.name)
    [] ref.kind = "NamedType" /\ Known(table, ref.name) ->
         IF isError(table[ref.name]) THEN errorType
         ELSE userType(table[ref.name])
    [] OTHER -> errorType

resolveTypeRef(ref, table) ==
  IF ref.kind = "ArrayType"
  THEN arrayOf(resolveSimpleType(ref.element, table), Len(ref.dims),
               literalArrayBounds(ref))
  ELSE resolveSimpleType(ref, table)

\* resolveUserTypeRef: what it reports.
typeRefDiags(ref, table) ==
  LET named == IF ref.kind = "ArrayType" THEN ref.element ELSE ref IN
  When(named.kind = "NamedType" /\ ~Known(table, named.name),
       error("C_UNKNOWN_TYPE"))

(***************************************************************************)
(* Equality and assignability.                                             *)
(***************************************************************************)
RECURSIVE typesEqual(_, _)
typesEqual(a, b) ==
  \/ isError(a) \/ isError(b)
  \/ /\ a.kind = b.kind
     /\ CASE a.kind = "array" ->
               /\ a.dimensions = b.dimensions
               /\ typesEqual(a.element, b.element)
               /\ arrayBoundsEqual(a.bounds, b.bounds)
          [] a.kind = "pointer" ->
               /\ a.name = b.name
               /\ a.name = "" => typesEqual(a.target, b.target)
          [] a.kind = "arrayLiteral" -> FALSE
          [] OTHER -> a.name = b.name

\* isSubclassOf: the chain of INHERITS reaches the ancestor.  The chains of
\* a registered table are acyclic, so the classes bound its length.
Ancestors(table, n) ==
  LET parent[k \in 0..Cardinality(DOMAIN table)] ==
        IF k = 0 THEN << n >>
        ELSE LET chain == parent[k - 1]
                 up    == table[Last(chain)].inherits
             IN IF up = None \/ ~Known(table, up) THEN chain
                ELSE Append(chain, up)
  IN parent[Cardinality(DOMAIN table)]

isSubclassOf(table, from, to) == to \in ToSet(Tail(Ancestors(table, from)))

\* Mutant: an instance of a parent may be stored where its subclass is
\* declared.
classAssignableEitherWay(table, to, from) ==
  to = from \/ isSubclassOf(table, from, to) \/ isSubclassOf(table, to, from)

classAssignable(table, to, from) == to = from \/ isSubclassOf(table, from, to)

RECURSIVE isAssignable(_, _, _)
isAssignable(to, from, table) ==
  \/ isError(to) \/ isError(from)
  \/ /\ to.kind = "scalar" /\ from.kind = "scalar"
     /\ \/ to.name = from.name
        \/ to.name = "REAL" /\ from.name = "INTEGER"
  \/ to.kind = "array" /\ from.kind = "array" /\ typesEqual(to, from)
  \/ /\ to.kind = "array" /\ from.kind = "arrayLiteral" /\ to.dimensions = 1
     /\ isAssignable(to.element, from.element, table)
     /\ \/ to.bounds = << >>
        \/ from.length = to.bounds[1][2] - to.bounds[1][1] + 1
  \/ /\ to.kind = from.kind /\ to.kind \in { "record", "enum", "set" }
     /\ to.name = from.name
  \/ /\ to.kind = "class" /\ from.kind = "class"
     /\ classAssignable(table, to.name, from.name)
  \/ /\ to.kind = "pointer" /\ from.kind = "pointer"
     /\ IF from.name = ""
        THEN typesEqual(targetOf(table, to), from.target)
        ELSE to.name = from.name

(***************************************************************************)
(* The result types of the operators.                                      *)
(***************************************************************************)
Comparison == { "=", "<>", "<", "<=", ">", ">=" }

binaryResultType(op, l, r) ==
  CASE isError(l) \/ isError(r) -> errorType
    [] op \in { "AND", "OR" } \cup Comparison -> scalar("BOOLEAN")
    [] op \in { "DIV", "MOD" } -> scalar("INTEGER")
    [] op = "&" -> IF isStringy(l) /\ isStringy(r) THEN scalar("STRING")
                   ELSE errorType
    [] op \in { "+", "-" } /\ l.kind = "enum" /\ isScalar(r, "INTEGER") -> l
    [] op \in { "+", "-" } /\ r.kind = "enum" /\ isScalar(l, "INTEGER") -> r
    [] isNumeric(l) /\ isNumeric(r) ->
         IF l.name = "REAL" \/ r.name = "REAL" \/ op = "/"
         THEN scalar("REAL") ELSE scalar("INTEGER")
    [] OTHER -> errorType

unaryResultType(op, a) ==
  CASE isError(a) -> errorType
    [] op = "NOT" -> scalar("BOOLEAN")
    [] isNumeric(a) -> a
    [] OTHER -> errorType

\* comparableTypes: what may be compared without a warning.
comparableTypes(l, r) ==
  \/ isError(l) \/ isError(r)
  \/ isNumeric(l) /\ isNumeric(r)
  \/ l.kind = r.kind /\ l.kind \in { "enum", "scalar" } /\ l.name = r.name

(***************************************************************************)
(* Pass 0, registerTypeDeclarations: the first declaration of a name wins, *)
(* then the bodies are bound, then the records that contain themselves     *)
(* become the error type.                                                  *)
(***************************************************************************)
\* The accepted declarations: those whose name no earlier one took.
FirstOfName(decls) ==
  SelectSeq([ i \in DOMAIN decls |-> << i, decls[i] >> ],
            LAMBDA p : \A j \in 1..(p[1] - 1) : decls[j].name # p[2].name)

placeholderFor(d) ==
  [ kind |-> CASE d.kind = "Type" -> "record" [] d.kind = "Enum" -> "enum"
               [] d.kind = "Pointer" -> "pointer" [] OTHER -> "set",
    name |-> d.name ]

\* Fields: << name, type reference >>; a repeated name keeps the first.
bindRecordFields(d, table) ==
  [ i \in 1..Len(FirstOfName(d.fields)) |->
      LET f == FirstOfName(d.fields)[i][2] IN
      [ name |-> f.name, type |-> resolveTypeRef(f.type, table) ] ]

bindTypeBody(d, table) ==
  CASE d.kind = "Type" -> [ kind |-> "record", name |-> d.name,
                            fields |-> bindRecordFields(d, table) ]
    [] d.kind = "Enum" -> [ kind |-> "enum", name |-> d.name,
                            members |-> d.members ]
    [] d.kind = "Pointer" -> [ kind |-> "pointer", name |-> d.name,
                               target |-> resolveSimpleType(d.target, table) ]
    [] OTHER -> [ kind |-> "set", name |-> d.name,
                  element |-> resolveSimpleType(d.element, table) ]

\* addTypeEdges: the records a type contains, itself or as array elements.
containedRecords(t) ==
  CASE t.kind = "record" -> { t.name }
    [] t.kind = "array" /\ t.element.kind = "record" -> { t.element.name }
    [] OTHER -> {}

\* findRecursiveTypeKeys: the names whose search meets a cycle, their own or
\* one they lead to.
findRecursiveTypeKeys(table) ==
  LET next(n) == IF table[n].kind # "record" THEN {}
                 ELSE UNION { containedRecords(table[n].fields[i].type)
                              : i \in DOMAIN table[n].fields }
      reach[k \in 0..Cardinality(DOMAIN table)] ==
        IF k = 0 THEN [ n \in DOMAIN table |-> next(n) ]
        ELSE [ n \in DOMAIN table |->
                 reach[k - 1][n] \cup UNION { reach[k - 1][m]
                                              : m \in reach[k - 1][n] } ]
      all == reach[Cardinality(DOMAIN table)]
  IN { n \in DOMAIN table : \E m \in all[n] \cup { n } : m \in all[m] }

typeDeclarations(program) == SelectSeq(program, IsTypeDeclaration)

\* The accepted declarations by name.
ByName(decls) ==
  [ n \in { decls[i][2].name : i \in DOMAIN decls } |->
      decls[CHOOSE i \in DOMAIN decls : decls[i][2].name = n][2] ]

boundTypes(declOf, cyclic) ==
  LET slots == [ n \in DOMAIN declOf |-> IF n \in cyclic THEN errorType
                                         ELSE placeholderFor(declOf[n]) ]
  IN [ n \in DOMAIN declOf |-> IF n \in cyclic THEN errorType
                               ELSE bindTypeBody(declOf[n], slots) ]

typeTable(declOf) ==
  boundTypes(declOf, findRecursiveTypeKeys(boundTypes(declOf, {})))
typeTableOf(program) == typeTable(ByName(FirstOfName(typeDeclarations(program))))

typeDeclarationDiags(decls, table) ==
  LET refs(d) == CASE d.kind = "Type" -> [ i \in DOMAIN d.fields |->
                                             d.fields[i].type ]
                   [] d.kind = "Pointer" -> << d.target >>
                   [] d.kind = "Set" -> << d.element >>
                   [] OTHER -> << >>
  IN When(Len(FirstOfName(decls)) < Len(decls), error("C_DUP_TYPE"))
     \o Each(decls, LAMBDA d : Each(refs(d),
                                    LAMBDA r : typeRefDiags(r, table)))
     \o Each(decls, LAMBDA d :
               When(d.kind = "Type"
                      /\ Len(FirstOfName(d.fields)) < Len(d.fields),
                    error("C_DUP_FIELD")))
     \o Each(decls, LAMBDA d : When(isError(table[d.name]),
                                    error("C_RECURSIVE_TYPE")))

(***************************************************************************)
(* Pass 0b, registerClassDeclarations.  The INHERITS of an unknown parent, *)
(* of a TYPE, or closing a cycle is cleared, in textual order.             *)
(***************************************************************************)
fieldsOf(decl, table) ==
  LET properties == SelectSeq(decl.members, LAMBDA m : m.kind = "Property") IN
  FlattenSeq([ i \in DOMAIN properties |->
    [ j \in DOMAIN properties[i].names |->
        [ name |-> properties[i].names[j],
          type |-> resolveTypeRef(properties[i].type, table),
          visibility |-> properties[i].visibility ] ] ])

signatureOf(routine, table) ==
  [ kind   |-> IF routine.kind = "Function" THEN "function" ELSE "procedure",
    params |-> [ i \in DOMAIN routine.params |->
                   resolveTypeRef(routine.params[i].type, table) ],
    paramModes |-> [ i \in DOMAIN routine.params |-> routine.params[i].mode ],
    returns |-> IF routine.kind = "Function"
                THEN resolveSimpleType(routine.returns, table) ELSE errorType ]

methodsOf(decl, table) ==
  LET methods == SelectSeq(decl.members, LAMBDA m : m.kind = "Method") IN
  [ i \in DOMAIN methods |->
      [ name |-> methods[i].routine.name, visibility |-> methods[i].visibility,
        type |-> signatureOf(methods[i].routine, table),
        body |-> methods[i].routine ] ]

classDeclarations(program) ==
  SelectSeq(program, LAMBDA s : s.kind = "Class")

\* isInInheritanceCycle, over the parents left so far: the walk from n comes
\* back to a class it has seen, n itself or one above it, and never ends.
InCycle(parentOf, n) ==
  LET up[k \in 0..Cardinality(DOMAIN parentOf)] ==
        IF k = 0 THEN n
        ELSE IF up[k - 1] = None THEN None ELSE parentOf[up[k - 1]]
  IN up[Cardinality(DOMAIN parentOf)] # None

\* The parents after each declaration in turn lost the cycle it closes.
parentsOf(decls, declOf) ==
  FoldLeft(LAMBDA parents, p :
             IF InCycle(parents, p[2].name)
             THEN [ parents EXCEPT ![p[2].name] = None ] ELSE parents,
           [ n \in DOMAIN declOf |-> IF declOf[n].inherits \in DOMAIN declOf
                                     THEN declOf[n].inherits ELSE None ],
           decls)

boundClasses(types, declOf, parents) ==
  LET scope == [ n \in DOMAIN declOf |-> [ kind |-> "class", name |-> n ] ] @@ types
  IN [ n \in DOMAIN declOf |->
         [ kind |-> "class", name |-> n, inherits |-> parents[n],
           fields |-> fieldsOf(declOf[n], scope),
           methods |-> methodsOf(declOf[n], scope) ] ] @@ types

classTable(types, decls) ==
  boundClasses(types, ByName(decls), parentsOf(decls, ByName(decls)))

\* A TYPE of the same name wins.
classTableOf(program, types) ==
  classTable(types, SelectSeq(FirstOfName(classDeclarations(program)),
                              LAMBDA p : ~Known(types, p[2].name)))

\* findClassFieldOwner, findClassMethodOwner: own members first, then the
\* ancestors', so many of them.  The declaring class decides on PRIVATE.
Within(s, n) == IF Len(s) <= n THEN s ELSE SubSeq(s, 1, n)
FirstOr(s, default) == IF s = << >> THEN default ELSE s[1]

MAX_INHERITANCE_DEPTH == 64

Owner(table, cls, members, n) ==
  FirstOr(SelectSeq(Within(Ancestors(table, cls), MAX_INHERITANCE_DEPTH + 1), LAMBDA a :
            \E j \in DOMAIN table[a][members] : table[a][members][j].name = n),
          None)

MemberOf(table, owner, members, n) ==
  LET ms == table[owner][members] IN
  ms[CHOOSE j \in DOMAIN ms : ms[j].name = n
                              /\ \A k \in 1..(j - 1) : ms[k].name # n]

findClassFieldOwner(table, cls, n)  == Owner(table, cls, "fields", n)
findClassMethodOwner(table, cls, n) == Owner(table, cls, "methods", n)

isAccessible(visibility, definingClass, currentClass) ==
  visibility = "PUBLIC" \/ definingClass = currentClass

checkOverrides(table, n) ==
  LET own == table[n].methods
      up  == table[n].inherits
      mismatch(m) ==
        LET owner == findClassMethodOwner(table, up, m.name)
            inherited == MemberOf(table, owner, "methods", m.name).type
        IN /\ m.name # "NEW" /\ owner # None
           /\ \/ Len(inherited.params) # Len(m.type.params)
              \/ inherited.kind # m.type.kind
              \/ m.type.kind = "function"
                   /\ ~typesEqual(inherited.returns, m.type.returns)
  IN IF up = None THEN << >>
     ELSE Each(own, LAMBDA m : When(mismatch(m),
                                    warning("C_OVERRIDE_MISMATCH")))

\* C_BYREF_ON_FUNCTION
byRefOnFunction(routine) ==
  IF routine.kind # "Function" THEN << >>
  ELSE Each(routine.params, LAMBDA p : When(p.mode = "BYREF",
                                            error("C_BYREF_ON_FUNCTION")))

classDeclarationDiags(decls, types, table) ==
  LET dup(s) == Len(FirstOfName(s)) < Len(s)
      ofKind(d, k) == SelectSeq(d.members, LAMBDA m : m.kind = k)
      routines(d) == [ i \in DOMAIN ofKind(d, "Method") |->
                         ofKind(d, "Method")[i].routine ]
  IN When(dup(decls) \/ \E i \in DOMAIN decls : Known(types, decls[i].name),
          error("C_DUP_CLASS"))
     \o Each(decls, LAMBDA d :
          CASE d.inherits = None -> << >>
            [] ~Known(table, d.inherits) -> error("C_UNKNOWN_CLASS")
            [] table[d.inherits].kind # "class" -> error("C_INVALID_INHERITS")
            [] table[d.name].kind = "class"
                 /\ table[d.name].inherits = None -> error("C_CYCLIC_INHERITANCE")
            [] OTHER -> << >>)
     \o Each(decls, LAMBDA d :
          When(dup([ i \in DOMAIN fieldsOf(d, table) |->
                       fieldsOf(d, table)[i] ]), error("C_DUP_MEMBER"))
          \o When(dup(routines(d)), error("C_DUP_METHOD"))
          \o Each(ofKind(d, "Property"), LAMBDA m : typeRefDiags(m.type, table))
          \o Each(routines(d), LAMBDA r :
               Each(r.params, LAMBDA p : typeRefDiags(p.type, table))
               \o byRefOnFunction(r)
               \o When(r.kind = "Function", typeRefDiags(r.returns, table))))
     \o Each(decls, LAMBDA d : When(table[d.name].kind = "class",
                                    checkOverrides(table, d.name)))

(***************************************************************************)
(* The builtin functions (language-core/src/builtins/registry.ts): the     *)
(* types each parameter accepts, and the type returned.                    *)
(***************************************************************************)
TEXT   == { "STRING", "CHAR" }
NUMBER == { "REAL", "INTEGER" }
builtin(params, returns) == [ params |-> params, returns |-> returns ]
CORE_BUILTINS ==
  [ LENGTH |-> builtin(<< TEXT >>, "INTEGER"),
    LEFT   |-> builtin(<< TEXT, {"INTEGER"} >>, "STRING"),
    RIGHT  |-> builtin(<< TEXT, {"INTEGER"} >>, "STRING"),
    MID    |-> builtin(<< TEXT, {"INTEGER"}, {"INTEGER"} >>, "STRING"),
    UCASE  |-> builtin(<< TEXT >>, "same-as-arg0"),
    INT    |-> builtin(<< NUMBER >>, "INTEGER"),
    ASC    |-> builtin(<< {"CHAR"} >>, "INTEGER"),
    CHR    |-> builtin(<< {"INTEGER"} >>, "CHAR"),
    IS_NUM |-> builtin(<< TEXT >>, "BOOLEAN") ]

lookupBuiltin(n) == n \in DOMAIN CORE_BUILTINS
=============================================================================
