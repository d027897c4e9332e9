------------------------------ MODULE MCParsing ------------------------------
(***************************************************************************)
(* Programs with every statement, literals with every escape, and all the  *)
(* ways two operators can meet.                                            *)
(***************************************************************************)
EXTENDS ParseRun

X(n)     == Identifier(n)
I(d)     == Literal("INTEGER", << d >>)
Str(cs)  == Literal("STRING", cs)
Out(e)   == OutputStatement(<< e >>)
Set(n, e) == AssignmentStatement(X(n), e)
INTEGER  == TypeName("INTEGER")
F(args)  == CallExpression("f", args)

Operators == << "OR", "AND", "=", "<", "+", "-", "&", "*", "DIV" >>
Pairs == FlattenSeq([ i \in DOMAIN Operators |->
           FlattenSeq([ j \in DOMAIN Operators |->
             LET b(n, l, r) == BinaryExpression(Operators[n], l, r) IN
             << << Out(b(i, X("a"), b(j, X("b"), X("c")))) >>,
                << Out(b(i, b(j, X("a"), X("b")), X("c"))) >> >> ]) ])
Signs == FlattenSeq([ i \in DOMAIN Operators |->
           LET b(l, r) == BinaryExpression(Operators[i], l, r)
               u(op, e) == UnaryExpression(op, e)
           IN << << Out(u("NOT", b(X("a"), X("b")))) >>,
                 << Out(b(u("NOT", X("a")), u("-", X("b")))) >>,
                 << Out(u("-", u("-", b(X("a"), I("2"))))) >> >> ])

Literals ==
  << << Out(Str(<< "Say", " ", "\"", "Hi", "\"", "\n" >>)) >>,
     << Out(Str(<< "\\", "'", "\t", "/", "/" >>)) >>,
     << Out(Literal("CHAR", << "'" >>)), Out(Literal("CHAR", << "\"" >>)) >>,
     << Set("d", Literal("DATE", << "1", "/", "1", "2", "/", "2", "0", "2", "4" >>)),
        Set("r", Literal("REAL", << "0", ".", "5" >>)) >>,
     << ConstantStatement("k", UnaryExpression("-", I("1"))),
        ConstantStatement("t", Literal("BOOLEAN", << "TRUE" >>)) >> >>

Places ==
  << << Set("p", AddressOfExpression(X("x"))),
        AssignmentStatement(DerefExpression(X("p")), MemberExpression(X("r"), "x")) >>,
     << AssignmentStatement(IndexExpression(X("m"), << I("1"), F(<< X("i") >>) >>),
                            ArrayLiteral(<< I("1"), I("2") >>)) >>,
     << InputStatement(MemberExpression(IndexExpression(X("m"), << I("1") >>), "x")),
        AssignmentStatement(X("output"), NewExpression("A", << I("1") >>)) >>,
     << ExpressionStatement(MethodCallExpression(SuperExpression, "NEW", << >>)),
        ExpressionStatement(MethodCallExpression(X("o"), "m", << X("x") >>)) >>,
     << CallStatement("f", << I("1"), X("x") >>), ExpressionStatement(F(<< >>)) >> >>

Blocked ==
  << << IfStatement(<< << F(<< X("a") >>), << Out(I("1")) >> >>,
                       << X("b"), << >> >> >>, << Set("x", F(<< X("x") >>)) >>),
        Out(X("x")) >>,
     << WhileStatement(GroupingExpression(F(<< X("a") >>)), << CallStatement("f", << >>) >>),
        Out(X("x")) >>,
     << RepeatStatement(<< Out(F(<< I("1") >>)) >>, F(<< X("x") >>)), Out(X("x")) >>,
     << ForStatement("i", I("1"), F(<< >>), << I("2") >>,
                     << Out(F(<< X("i") >>)), Set("x", I("1")) >>), Out(X("x")) >>,
     << CaseStatement(X("x"),
          << [ label |-> << I("1") >>, body |-> << Out(F(<< X("x") >>)) >> ],
             [ label |-> << I("2"), F(<< X("x") >>) >>, body |-> << Set("x", I("1")) >> ] >>,
          << Out(X("x")) >>) >>,
     << ForStatement("i", I("1"), I("2"), << >>,
          << ForStatement("j", I("1"), I("2"), << >>, << Out(F(<< X("j") >>)) >>) >>) >> >>

Declarations ==
  << << DeclareStatement(<< "x", "y" >>, ArrayType(<< << I("1"), X("n") >>,
                                                     << I("0"), I("1") >> >>, INTEGER)),
        TypeDeclaration("R", << [ name |-> "x", type |-> INTEGER ],
                                [ name |-> "y", type |-> NamedType("T") ] >>) >>,
     << EnumTypeDeclaration("E", << "A", "B" >>), PointerTypeDeclaration("P", INTEGER),
        SetTypeDeclaration("S", NamedType("E")), DefineStatement("v", << X("A") >>, "S") >>,
     << ProcedureDeclaration("f", << Parameter("a", INTEGER, "BYVAL"),
                                     Parameter("b", INTEGER, "BYREF"),
                                     Parameter("c", INTEGER, "BYREF"),
                                     Parameter("d", NamedType("T"), "BYVAL") >>,
          << Out(F(<< X("a") >>)) >>) >>,
     << FunctionDeclaration("f", << >>, INTEGER, << ReturnStatement(F(<< I("1") >>)) >>) >>,
     << ClassDeclaration("A", None, << ClassProperty("PRIVATE", << "x" >>, INTEGER),
          ClassMethod("PUBLIC", ProcedureDeclaration("NEW", << >>, << Set("x", I("1")) >>)),
          ClassMethod("PUBLIC", FunctionDeclaration("g", << >>, INTEGER,
                                                    << ReturnStatement(X("x")) >>)) >>),
        ClassDeclaration("B", "A", << >>) >>,
     << OpenFileStatement(X("s"), "RANDOM"), FileStatement("SEEK", X("s"), I("1")),
        FileStatement("GETRECORD", X("s"), X("x")), FileStatement("PUTRECORD", X("s"), X("x")),
        CloseFileStatement(X("s")) >>,
     << WhileStatement(UnaryExpression("NOT", EofExpression(X("s"))),
                       << FileStatement("READFILE", X("s"), X("x")) >>),
        FileStatement("WRITEFILE", X("s"), X("x")) >> >>

\* Nests of blocks of every kind, from one within the limit.
Block(kind, body) ==
  CASE kind = 1 -> IfStatement(<< << X("a"), body >> >>, << >>)
    [] kind = 2 -> WhileStatement(X("a"), body)
    [] kind = 3 -> RepeatStatement(body, X("a"))
    [] kind = 4 -> ForStatement("i", I("1"), I("2"), << >>, body)
    [] kind = 5 -> CaseStatement(X("a"), << [ label |-> << I("1") >>, body |-> body ] >>, << >>)
Nests ==
  FlattenSeq([ i \in 1..5 |-> FlattenSeq([ j \in 1..5 |->
    << << Block(i, << Block(j, << Block(i, << >>) >>) >>), Out(X("x")) >>,
       << ProcedureDeclaration("f", << >>,
            << Block(i, << Block(j, << Block(j, << Block(i, << >>), Out(X("x")) >>) >>) >>) >>),
          Out(X("x")) >> >> ]) ])

\* An ELSE IF in the block that is too deep: two IFs, one ENDIF.
Chained == IfStatement(<< << X("a"), << >> >>, << X("b"), << >> >> >>, << >>)
ChainedNests ==
  [ i \in 1..5 |->
      << Block(i, << Block(i, << Block(i, << Block(2, << Chained >>) >>) >>) >>),
         Out(X("x")) >> ] \o Nests

SmallPrograms == Pairs \o Signs \o Literals \o Places \o Blocked \o Declarations \o Nests
SmallTyped == { ")", "(", "\n", ",", "a", "1", ":" }
=============================================================================
