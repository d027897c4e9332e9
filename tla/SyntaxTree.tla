----------------------------- MODULE SyntaxTree -----------------------------
(***************************************************************************)
(* The abstract syntax of Cambridge pseudocode (language-core/src/ast):    *)
(* one constructor per node.  Spans are left out, and identifiers stand    *)
(* for their case-folded keys.  A literal carries its scalar type and an   *)
(* abstract value; the fields of a record are listed one by one.           *)
(***************************************************************************)
EXTENDS Integers, Sequences

None == "none"

Literal(type, value) == [ kind |-> "Literal", type |-> type, value |-> value ]
Identifier(name)     == [ kind |-> "Identifier", name |-> name ]
UnaryExpression(op, a)     == [ kind |-> "Unary", op |-> op, argument |-> a ]
BinaryExpression(op, l, r) ==
  [ kind |-> "Binary", op |-> op, left |-> l, right |-> r ]
GroupingExpression(e)      == [ kind |-> "Grouping", expression |-> e ]
CallExpression(f, args)    == [ kind |-> "Call", callee |-> f, args |-> args ]
IndexExpression(a, is)     == [ kind |-> "Index", array |-> a, indices |-> is ]
ArrayLiteral(es)           == [ kind |-> "ArrayLiteral", elements |-> es ]
MemberExpression(o, p)     ==
  [ kind |-> "Member", object |-> o, property |-> p ]
AddressOfExpression(place) == [ kind |-> "AddressOf", target |-> place ]
DerefExpression(p)         == [ kind |-> "Deref", pointer |-> p ]
NewExpression(c, args)     == [ kind |-> "New", class |-> c, args |-> args ]
SuperExpression            == [ kind |-> "Super" ]
MethodCallExpression(o, m, args) ==
  [ kind |-> "MethodCall", object |-> o, method |-> m, args |-> args ]

TypeName(n)  == [ kind |-> "TypeName", name |-> n ]
NamedType(n) == [ kind |-> "NamedType", name |-> n ]
\* One bound pair of expressions per dimension.
ArrayType(dims, e) == [ kind |-> "ArrayType", dims |-> dims, element |-> e ]
Parameter(n, type, mode) == [ name |-> n, type |-> type, mode |-> mode ]

TypeDeclaration(n, fields) ==
  [ kind |-> "Type", name |-> n, fields |-> fields ]
EnumTypeDeclaration(n, ms) == [ kind |-> "Enum", name |-> n, members |-> ms ]
PointerTypeDeclaration(n, t) == [ kind |-> "Pointer", name |-> n, target |-> t ]
SetTypeDeclaration(n, t) == [ kind |-> "Set", name |-> n, element |-> t ]
DefineStatement(n, vs, t) ==
  [ kind |-> "Define", name |-> n, values |-> vs, type |-> t ]
DeclareStatement(ns, t) == [ kind |-> "Declare", names |-> ns, type |-> t ]
ConstantStatement(n, e) == [ kind |-> "Constant", name |-> n, value |-> e ]
ProcedureDeclaration(n, ps, body) ==
  [ kind |-> "Procedure", name |-> n, params |-> ps, body |-> body ]
FunctionDeclaration(n, ps, t, body) ==
  [ kind |-> "Function", name |-> n, params |-> ps, returns |-> t,
    body |-> body ]
CallStatement(f, args)     == [ kind |-> "CallStmt", callee |-> f, args |-> args ]
CallMethodStatement(o, m, args) ==
  [ kind |-> "CallMethod", object |-> o, method |-> m, args |-> args ]
ExpressionStatement(e)     == [ kind |-> "ExprStmt", expression |-> e ]
ReturnStatement(e)         == [ kind |-> "Return", value |-> e ]
AssignmentStatement(t, e)  == [ kind |-> "Assign", target |-> t, value |-> e ]
InputStatement(t)          == [ kind |-> "Input", target |-> t ]
OutputStatement(es)        == [ kind |-> "Output", expressions |-> es ]
\* The clauses are the IF and the ELSE IFs: << condition, statements >>.
IfStatement(clauses, alternate) ==
  [ kind |-> "If", clauses |-> clauses, alternate |-> alternate ]
\* A label is << value >> or << low, high >>.
CaseStatement(d, arms, otherwise) ==
  [ kind |-> "Case", discriminant |-> d, arms |-> arms,
    otherwise |-> otherwise ]
WhileStatement(c, body)    == [ kind |-> "While", condition |-> c, body |-> body ]
RepeatStatement(body, c)   == [ kind |-> "Repeat", condition |-> c, body |-> body ]
ForStatement(v, from, to, step, body) ==
  [ kind |-> "For", variable |-> v, start |-> from, end |-> to, step |-> step,
    body |-> body ]

EofExpression(f)           == [ kind |-> "Eof", file |-> f ]
OpenFileStatement(f, mode) == [ kind |-> "OpenFile", file |-> f, mode |-> mode ]
CloseFileStatement(f)      == [ kind |-> "CloseFile", file |-> f ]
\* READFILE, WRITEFILE, SEEK, GETRECORD, PUTRECORD: a file and an operand.
FileStatement(op, f, e)    == [ kind |-> op, file |-> f, operand |-> e ]

ClassProperty(vis, ns, t) ==
  [ kind |-> "Property", visibility |-> vis, names |-> ns, type |-> t ]
ClassMethod(vis, routine) ==
  [ kind |-> "Method", visibility |-> vis, routine |-> routine ]
ClassDeclaration(n, inherits, members) ==
  [ kind |-> "Class", name |-> n, inherits |-> inherits, members |-> members ]

IsRoutine(s) == s.kind \in { "Procedure", "Function" }
IsTypeDeclaration(s) == s.kind \in { "Type", "Enum", "Pointer", "Set" }
IsExpression(n) ==
  n.kind \in { "Literal", "Identifier", "Unary", "Binary", "Grouping", "Call",
              "Index", "ArrayLiteral", "Member", "AddressOf", "Deref", "New",
              "Super", "MethodCall", "Eof" }
IsPlace(e) == e.kind \in { "Identifier", "Index", "Member", "Deref" }

\* The statements a compound statement holds, in textual order.
Blocks(s) ==
  CASE s.kind = "If" ->
         [ i \in DOMAIN s.clauses |-> s.clauses[i][2] ] \o << s.alternate >>
    [] s.kind = "Case" ->
         [ i \in DOMAIN s.arms |-> s.arms[i].body ] \o << s.otherwise >>
    [] s.kind \in { "While", "Repeat", "For" } -> << s.body >>
    [] OTHER -> << >>
=============================================================================
