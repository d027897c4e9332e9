----------------------------- MODULE Occurrences -----------------------------
(***************************************************************************)
(* The occurrences of a symbol and its renaming                            *)
(* (language-service/src/index/occurrences.ts, rename in features.ts).     *)
(* The index walks a checked program and resolves every name against the   *)
(* checker's symbols; a rename replaces the text of the occurrences that   *)
(* carry the key of one symbol, the declarations among them.  Here the     *)
(* walk replaces them as it goes.  Builtins, which are symbols too, cannot *)
(* be renamed and are left out.                                            *)
(*                                                                         *)
(* A binder b holds the type table, the symbols, the container and its     *)
(* locals, the globals, the key sought and the name put for it.            *)
(***************************************************************************)
EXTENDS Checker

\* symbolKeyOf: container, name and kind.
symbolKeyOf(s) == << s.container, s.name, s.kind >>
NoKey == << >>

\* The symbols of a container by name; the last of a name counts.
inContainer(symbols, container) ==
  FoldLeft(LAMBDA found1, s :
             IF s.container = container THEN (s.name :> s) @@ found1 ELSE found1,
           [ n \in {} |-> symbols ], symbols)

binderOf(c, key, to) ==
  [ table |-> c.table, symbols |-> c.symbols, container |-> GLOBAL,
    globals |-> inContainer(c.symbols, GLOBAL), locals |-> [ n \in {} |-> 0 ],
    key |-> key, to |-> to ]

\* The walk of a routine sees all of its locals from the start.
LocalKinds == { "parameter", "variable", "constant" }
inside(b, container) ==
  [ b EXCEPT !.container = container,
             !.locals = inContainer(SelectSeq(b.symbols, LAMBDA s : s.kind \in LocalKinds),
                                    container) ]

(***************************************************************************)
(* What a name at an occurrence stands for; a name that is not resolved    *)
(* has no symbol to be renamed.                                            *)
(***************************************************************************)
put1(b, key, n) == IF key = b.key THEN b.to ELSE n

\* Mutant: a global is found before the local that hides it.
resolveGlobalFirst(b, n) ==
  IF n \in DOMAIN b.globals THEN << b.globals[n] >>
  ELSE IF n \in DOMAIN b.locals THEN << b.locals[n] >> ELSE << >>

resolve(b, n) ==
  IF n \in DOMAIN b.locals THEN << b.locals[n] >>
  ELSE IF n \in DOMAIN b.globals THEN << b.globals[n] >> ELSE << >>

keyed(found1) == IF found1 = << >> THEN NoKey ELSE symbolKeyOf(found1[1])
typeOrNone(found1) == IF found1 = << >> THEN errorType ELSE found1[1].type

addRef(b, n)       == put1(b, keyed(resolve(b, n)), n)
declaredAs(b, kind, n) == put1(b, << b.container, n, kind >>, n)

addTypeRef(b, n) ==
  put1(b, keyed(SelectSeq(b.symbols, LAMBDA s : s.name = n
                                       /\ s.kind \in { "type", "class" })), n)

\* resolveClassMemberSymbol: the class that declares the member, from
\* className on.
memberKey(owner, n, kind) == IF owner = None THEN NoKey ELSE << << owner >>, n, kind >>

fieldKey(b, t, n) ==
  CASE t.kind = "record" -> memberKey(t.name, n, "field")
    [] t.kind = "class"  -> memberKey(findClassFieldOwner(b.table, t.name, n), n, "field")
    [] OTHER -> NoKey

methodKey(b, t, n) ==
  IF t.kind # "class" THEN NoKey
  ELSE memberKey(findClassMethodOwner(b.table, t.name, n), n, "method")

\* SUPER: the parent of the class whose method is walked.
superType(b) ==
  IF Len(b.container) # 2 THEN errorType
  ELSE IF b.table[b.container[1]].inherits = None THEN errorType
  ELSE [ kind |-> "class", name |-> b.table[b.container[1]].inherits ]

fieldType(b, t, n) ==
  CASE t.kind = "record" -> recordField(b, t.name, n).type
    [] t.kind = "class" /\ findClassFieldOwner(b.table, t.name, n) # None ->
         MemberOf(b.table, findClassFieldOwner(b.table, t.name, n), "fields", n).type
    [] OTHER -> errorType

\* resolveExprType; null is the error type.
RECURSIVE resolveExprType(_, _)
resolveExprType(b, e) ==
  CASE e.kind = "Identifier" -> typeOrNone(resolve(b, e.name))
    [] e.kind = "Member" -> fieldType(b, resolveExprType(b, e.object), e.property)
    [] e.kind = "Index" ->
         LET a == resolveExprType(b, e.array) IN
         IF a.kind = "array" THEN a.element ELSE errorType
    [] e.kind = "Grouping" -> resolveExprType(b, e.expression)
    [] e.kind = "Deref" ->
         LET p == resolveExprType(b, e.pointer) IN
         IF p.kind = "pointer" THEN targetOf(b.table, p) ELSE errorType
    [] OTHER -> errorType

(***************************************************************************)
(* The walk, by the kind of the node.                                      *)
(***************************************************************************)
RECURSIVE renamedNode(_, _)
walkAll(b, ns) == [ i \in DOMAIN ns |-> renamedNode(b, ns[i]) ]

walkTypeRef(b, ref) ==
  CASE ref.kind = "NamedType" -> NamedType(addTypeRef(b, ref.name))
    [] ref.kind = "ArrayType" ->
         ArrayType([ i \in DOMAIN ref.dims |-> walkAll(b, ref.dims[i]) ],
                   IF ref.element.kind # "NamedType" THEN ref.element
                   ELSE NamedType(addTypeRef(b, ref.element.name)))
    [] OTHER -> ref

addFieldRef(b, object, n) == put1(b, fieldKey(b, resolveExprType(b, object), n), n)
addMethodRef(b, object, n) ==
  put1(b, methodKey(b, IF object.kind = "Super" THEN superType(b)
                       ELSE resolveExprType(b, object), n), n)

\* walkAssignTarget walks a place that is assigned as it walks an expression.
walkExpr(b, e) ==
  CASE e.kind = "Identifier" -> Identifier(addRef(b, e.name))
    [] e.kind = "Unary"  -> [ e EXCEPT !.argument = renamedNode(b, @) ]
    [] e.kind = "Binary" -> [ e EXCEPT !.left = renamedNode(b, @),
                                       !.right = renamedNode(b, @) ]
    [] e.kind = "Grouping" -> [ e EXCEPT !.expression = renamedNode(b, @) ]
    [] e.kind = "ArrayLiteral" -> [ e EXCEPT !.elements = walkAll(b, @) ]
    [] e.kind = "Index" -> [ e EXCEPT !.array = renamedNode(b, @),
                                      !.indices = walkAll(b, @) ]
    [] e.kind = "Member" ->
         MemberExpression(renamedNode(b, e.object), addFieldRef(b, e.object, e.property))
    [] e.kind = "AddressOf" -> [ e EXCEPT !.target = renamedNode(b, @) ]
    [] e.kind = "Deref" -> [ e EXCEPT !.pointer = renamedNode(b, @) ]
    [] e.kind = "Call" -> CallExpression(addRef(b, e.callee), walkAll(b, e.args))
    [] e.kind = "Eof"  -> EofExpression(renamedNode(b, e.file))
    [] e.kind = "New"  -> NewExpression(addTypeRef(b, e.class), walkAll(b, e.args))
    [] e.kind = "MethodCall" ->
         MethodCallExpression(renamedNode(b, e.object), addMethodRef(b, e.object, e.method),
                              walkAll(b, e.args))
    [] OTHER -> e

\* The declarations of a routine are in its own container.
walkRoutine(b, r, container) ==
  LET i == inside(b, container)
      params == [ k \in DOMAIN r.params |->
                    Parameter(declaredAs(i, "parameter", r.params[k].name),
                              walkTypeRef(i, r.params[k].type), r.params[k].mode) ]
      r1 == [ r EXCEPT !.params = params, !.body = walkAll(i, @) ]
  IN IF r.kind = "Function" THEN [ r1 EXCEPT !.returns = walkTypeRef(i, @) ] ELSE r1

walkMember(b, class, m) ==
  IF m.kind = "Property"
  THEN ClassProperty(m.visibility,
         [ i \in DOMAIN m.names |-> put1(b, << << class >>, m.names[i], "field" >>,
                                         m.names[i]) ],
         walkTypeRef(b, m.type))
  ELSE ClassMethod(m.visibility,
         [ walkRoutine(b, m.routine, << class, m.routine.name >>) EXCEPT
             !.name = put1(b, << << class >>, @, "method" >>, @) ])

\* The name after INHERITS is not walked.
walkClass(b, d) ==
  [ d EXCEPT !.name = declaredAs(b, "class", @),
             !.members = [ i \in DOMAIN @ |-> walkMember(b, d.name, @[i]) ] ]

walkTypeDeclaration(b, s) ==
  LET s1 == [ s EXCEPT !.name = declaredAs(b, "type", @) ] IN
  CASE s.kind = "Enum" ->
         [ s1 EXCEPT !.members = [ i \in DOMAIN @ |-> declaredAs(b, "constant", @[i]) ] ]
    [] s.kind = "Pointer" -> [ s1 EXCEPT !.target = walkTypeRef(b, @) ]
    [] s.kind = "Set" -> [ s1 EXCEPT !.element = walkTypeRef(b, @) ]
    [] OTHER ->
         [ s1 EXCEPT !.fields = [ i \in DOMAIN @ |->
             [ name |-> put1(b, << << s.name >>, @[i].name, "field" >>, @[i].name),
               type |-> walkTypeRef(b, @[i].type) ] ] ]

\* The variable of a FOR has no span of its own, nor has the one after NEXT:
\* their occurrence spans the statement, and the new name replaces the loop.
Overwritten(to) == [ kind |-> "Overwritten", name |-> to ]

walkFor(b, s) ==
  IF keyed(resolve(b, s.variable)) = b.key THEN Overwritten(b.to)
  ELSE [ s EXCEPT !.start = renamedNode(b, @), !.end = renamedNode(b, @),
                  !.step = walkAll(b, @), !.body = walkAll(b, @) ]

walkCase(b, s) ==
  CaseStatement(renamedNode(b, s.discriminant),
    [ i \in DOMAIN s.arms |-> [ label |-> walkAll(b, s.arms[i].label),
                                body  |-> walkAll(b, s.arms[i].body) ] ],
    walkAll(b, s.otherwise))

walkStatement(b, s) ==
  CASE s.kind = "Declare" ->
         DeclareStatement([ i \in DOMAIN s.names |->
                              declaredAs(b, "variable", s.names[i]) ],
                          walkTypeRef(b, s.type))
    [] s.kind = "Constant" ->
         ConstantStatement(declaredAs(b, "constant", s.name), renamedNode(b, s.value))
    [] s.kind = "Define" ->
         DefineStatement(declaredAs(b, "variable", s.name), walkAll(b, s.values),
                         addTypeRef(b, s.type))
    [] IsTypeDeclaration(s) -> walkTypeDeclaration(b, s)
    [] s.kind = "Assign" -> [ s EXCEPT !.target = renamedNode(b, @),
                                       !.value = renamedNode(b, @) ]
    [] s.kind = "Input"  -> [ s EXCEPT !.target = renamedNode(b, @) ]
    [] s.kind = "Output" -> [ s EXCEPT !.expressions = walkAll(b, @) ]
    [] s.kind = "If" ->
         IfStatement([ i \in DOMAIN s.clauses |-> << renamedNode(b, s.clauses[i][1]),
                                                   walkAll(b, s.clauses[i][2]) >> ],
                     walkAll(b, s.alternate))
    [] s.kind \in { "While", "Repeat" } ->
         [ s EXCEPT !.condition = renamedNode(b, @), !.body = walkAll(b, @) ]
    [] s.kind = "For"  -> walkFor(b, s)
    [] s.kind = "Case" -> walkCase(b, s)
    [] s.kind = "CallStmt" -> CallStatement(addRef(b, s.callee), walkAll(b, s.args))
    [] s.kind = "CallMethod" ->
         CallMethodStatement(renamedNode(b, s.object), addMethodRef(b, s.object, s.method),
                             walkAll(b, s.args))
    [] s.kind = "Return"   -> ReturnStatement(renamedNode(b, s.value))
    [] IsRoutine(s) ->
         [ walkRoutine(b, s, << s.name >>) EXCEPT
             !.name = declaredAs(b, IF s.kind = "Function" THEN "function"
                                    ELSE "procedure", @) ]
    [] s.kind = "Class" -> walkClass(b, s)
    [] s.kind = "ExprStmt" -> [ s EXCEPT !.expression = renamedNode(b, @) ]
    [] s.kind \in { "OpenFile", "CloseFile" } -> [ s EXCEPT !.file = renamedNode(b, @) ]
    [] OTHER -> [ s EXCEPT !.file = renamedNode(b, @), !.operand = renamedNode(b, @) ]

renamedNode(b, node) ==
  IF IsExpression(node) THEN walkExpr(b, node) ELSE walkStatement(b, node)

(***************************************************************************)
(* rename.                                                                 *)
(***************************************************************************)
\* The keys of the fields and methods a type or class declares.
memberKeys(entry) ==
  CASE entry.kind = "record" ->
         { << << entry.name >>, entry.fields[i].name, "field" >> :
             i \in DOMAIN entry.fields }
    [] entry.kind = "class" ->
         { << << entry.name >>, entry.fields[i].name, "field" >> :
             i \in DOMAIN entry.fields }
         \cup { << << entry.name >>, entry.methods[i].name, "method" >> :
                  i \in DOMAIN entry.methods }
    [] OTHER -> {}

allKeys(c) ==
  { symbolKeyOf(c.symbols[i]) : i \in DOMAIN c.symbols }
  \cup UNION { memberKeys(c.table[n]) : n \in DOMAIN c.table }

\* prepareRename: neither a builtin nor a keyword; NEW is the one keyword
\* that names a symbol.
isRenamable(n) == ~lookupBuiltin(n) /\ n # "NEW"

\* The new name must be free in the container of the symbol.
isFree(c, key, to) ==
  ~lookupBuiltin(to) /\ \A k \in allKeys(c) \ { key } : k[1] = key[1] => k[2] # to

renameIn(c, program, key, to) == walkAll(binderOf(c, key, to), program)

\* Is a loop lost?
RECURSIVE holdsOverwritten(_)
holdsOverwritten(ss) ==
  \E i \in DOMAIN ss :
    \/ ss[i].kind = "Overwritten"
    \/ IsRoutine(ss[i]) /\ holdsOverwritten(ss[i].body)
    \/ ss[i].kind = "Class" /\ \E m \in DOMAIN ss[i].members :
         /\ ss[i].members[m].kind = "Method"
         /\ holdsOverwritten(ss[i].members[m].routine.body)
    \/ \E k \in DOMAIN Blocks(ss[i]) : holdsOverwritten(Blocks(ss[i])[k])
=============================================================================
