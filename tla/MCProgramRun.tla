----------------------------- MODULE MCProgramRun -----------------------------
(***************************************************************************)
(* Small worlds for ProgramRun.  Each has declarations that are right and  *)
(* a pool of statements, right and wrong ones.                             *)
(***************************************************************************)
EXTENDS ProgramRun

I(n)  == Literal("INTEGER", n)
R(n)  == Literal("REAL", n)     \* in halves
X(n)  == Identifier(n)
INTEGER == TypeName("INTEGER")
REAL    == TypeName("REAL")
T(n)    == NamedType(n)
Set(n, e)      == AssignmentStatement(X(n), e)
Var(n, t)      == DeclareStatement(<< n >>, t)
Val(n, t)      == Parameter(n, t, "BYVAL")
Ref(n, t)      == Parameter(n, t, "BYREF")
Plus(a, b)     == BinaryExpression("+", a, b)
Out(e)         == OutputStatement(<< e >>)
Dot(o, f)      == MemberExpression(X(o), f)
At(a, i)       == IndexExpression(X(a), << i >>)
To(t, e)       == AssignmentStatement(t, e)
Pair(t)        == ArrayType(<< << I(1), I(2) >> >>, t)
Do1(o, m, as)  == ExpressionStatement(MethodCallExpression(X(o), m, as))
Ask(o, m)      == MethodCallExpression(X(o), m, << >>)

\* Scalars, constants, loops and routines.
scalars ==
  [ declarations |->
      << DeclareStatement(<< "i", "n" >>, INTEGER), Var("r", REAL),
         ConstantStatement("k", I(3)),
         ProcedureDeclaration("Bump", << Ref("x", INTEGER) >>,
           << Set("x", Plus(X("x"), I(1))) >>),
         FunctionDeclaration("Half", << Val("r", REAL) >>, REAL,
           << ReturnStatement(BinaryExpression("/", X("r"), I(2))) >>),
         FunctionDeclaration("Down", << Val("x", INTEGER) >>, INTEGER,
           << IfStatement(<< << BinaryExpression(">", X("x"), I(0)),
                                << ReturnStatement(CallExpression("Down",
                                     << BinaryExpression("-", X("x"), I(1)) >>)) >> >> >>,
                          << ReturnStatement(X("x")) >>) >>) >>,
    pool |->
      << Set("i", X("r")), Set("r", X("i")), Set("k", I(1)), Set("z", I(1)),
         Set("i", CallExpression("LENGTH", << Literal("STRING", << 65, 66 >>) >>)),
         Set("i", CallExpression("Half", << I(1) >>)),
         Set("r", CallExpression("Half", << X("k") >>)),
         Set("n", CallExpression("Down", << X("k") >>)),
         Set("i", BinaryExpression("DIV", X("k"), X("n"))),
         CallStatement("Bump", << X("i") >>), CallStatement("Bump", << X("k") >>),
         CallStatement("Bump", << X("r") >>), CallStatement("Bump", << I(1) >>),
         InputStatement(X("i")), Out(Plus(X("r"), X("k"))),
         ForStatement("i", I(1), X("k"), << >>, << CallStatement("Bump", << X("i") >>) >>),
         ForStatement("j", X("k"), I(1), << I(-1) >>, << Set("n", X("j")) >>),
         ForStatement("k", I(1), I(2), << >>, << >>),
         ForStatement("r", I(1), I(2), << >>, << >>), Out(X("j")),
         WhileStatement(BinaryExpression("<", X("n"), X("k")),
                        << Set("n", Plus(X("n"), I(1))) >>),
         RepeatStatement(<< Set("i", Plus(X("i"), R(1))) >>, Literal("BOOLEAN", TRUE)),
         CaseStatement(X("i"), << [ label |-> << I(0) >>, body |-> << Set("n", I(5)) >> ],
                                  [ label |-> << I(1), I(4) >>,
                                    body |-> << Set("r", X("k")) >> ] >>,
                       << Set("i", I(0)) >>),
         ReturnStatement(I(1)) >> ]

\* Records and arrays, passed and assigned.
records ==
  [ declarations |->
      << TypeDeclaration("P", << [ name |-> "x", type |-> INTEGER ],
                                 [ name |-> "y", type |-> REAL ] >>),
         TypeDeclaration("Q", << [ name |-> "p", type |-> T("P") ],
                                 [ name |-> "a", type |-> Pair(T("P")) ] >>),
         ProcedureDeclaration("Put", << Ref("to", T("P")), Val("from", T("P")) >>,
           << AssignmentStatement(Dot("from", "x"), I(7)), Set("to", X("from")) >>),
         DeclareStatement(<< "p1", "p2" >>, T("P")), Var("q", T("Q")),
         Var("ps", Pair(T("P"))), Var("ns", Pair(INTEGER)),
         ProcedureDeclaration("Renew", << Ref("x", INTEGER) >>,
           << Set("p1", X("p2")), Set("x", Plus(Dot("p1", "x"), I(2))) >>) >>,
    pool |->
      << Set("p1", X("p2")), To(Dot("q", "p"), X("p1")), Set("p2", Dot("q", "p")),
         To(Dot("q", "a"), X("ps")), Set("ps", Dot("q", "a")), Set("q", X("q")),
         Set("ps", X("ps")), Set("ps", X("ns")), Set("q", X("p1")),
         To(At("ps", I(1)), X("p1")), To(At("ps", I(2)), At("ps", I(1))),
         To(At("ps", At("ns", I(2))), Dot("q", "p")),
         To(MemberExpression(At("ps", I(2)), "x"), I(4)),
         To(Dot("p1", "x"), R(3)), To(Dot("p1", "z"), I(1)),
         To(At("ns", R(2)), I(1)), To(At("ns", I(1)), Dot("p1", "y")),
         Set("ns", ArrayLiteral(<< I(1), Dot("p1", "x") >>)),
         Set("ns", ArrayLiteral(<< I(1) >>)),
         CallStatement("Put", << At("ps", I(1)), X("p1") >>),
         CallStatement("Put", << X("p1"), X("p1") >>),
         CallStatement("Put", << Dot("q", "p"), At("ps", I(2)) >>),
         CallStatement("Put", << X("ns"), X("p1") >>), CallStatement("Renew", << Dot("p1", "x") >>),
         CallStatement("Renew", << At("ns", I(2)) >>), CallStatement("Renew", << Dot("p1", "y") >>),
         InputStatement(Dot("p1", "y")), Out(X("q")) >> ]

\* Enumerations, pointers and sets.
pointers ==
  [ declarations |->
      << EnumTypeDeclaration("Season", << "Spring", "Summer" >>),
         PointerTypeDeclaration("IP", INTEGER),
         PointerTypeDeclaration("SP", T("Season")),
         SetTypeDeclaration("Ints", INTEGER),
         FunctionDeclaration("Local", << >>, T("IP"),
           << Var("l", INTEGER), Set("l", I(5)),
              ReturnStatement(AddressOfExpression(X("l"))) >>),
         Var("i", INTEGER), ConstantStatement("k", I(3)),
         DeclareStatement(<< "e", "f" >>, T("Season")), Var("ip", T("IP")),
         Var("sp", T("SP")), Var("s", T("Ints")) >>,
    pool |->
      << Set("ip", AddressOfExpression(X("i"))), Set("ip", AddressOfExpression(X("k"))),
         Set("sp", AddressOfExpression(X("e"))), Set("sp", AddressOfExpression(X("i"))),
         Set("ip", X("sp")), Set("ip", CallExpression("Local", << >>)),
         To(DerefExpression(X("ip")), I(4)), To(DerefExpression(X("ip")), R(1)),
         To(DerefExpression(X("sp")), X("f")), To(DerefExpression(X("i")), I(1)),
         Set("i", DerefExpression(X("ip"))), Set("f", DerefExpression(X("sp"))),
         Set("e", Plus(X("e"), I(1))), Set("e", X("Summer")), Set("e", X("i")),
         Set("Summer", X("e")), Set("f", Plus(X("e"), X("f"))),
         DefineStatement("t", << X("i"), I(2) >>, "Ints"), Set("s", X("t")),
         DefineStatement("u", << X("e") >>, "Ints"), Set("s", X("e")),
         DefineStatement("t", << >>, "Season"), Out(BinaryExpression("=", X("e"), X("f"))),
         InputStatement(X("e")) >> ]

\* Classes: overriding, SUPER across a class without methods, PRIVATE.
classes ==
  [ declarations |->
      << ClassDeclaration("A", None,
           << ClassProperty("PRIVATE", << "x" >>, INTEGER),
              ClassMethod("PUBLIC", ProcedureDeclaration("NEW",
                << Val("v", INTEGER) >>, << Set("x", X("v")) >>)),
              ClassMethod("PUBLIC", FunctionDeclaration("Get", << >>, INTEGER,
                << ReturnStatement(X("x")) >>)),
              ClassMethod("PUBLIC", ProcedureDeclaration("Add", << Val("i", INTEGER) >>,
                << Set("x", Plus(X("x"), X("i"))) >>)),
              ClassMethod("PRIVATE", ProcedureDeclaration("Reset", << >>,
                << Set("x", I(0)) >>)) >>),
         ClassDeclaration("B", "A",
           << ClassProperty("PUBLIC", << "peer" >>, T("A")),
              ClassMethod("PUBLIC", ProcedureDeclaration("NEW",
                << Val("v", INTEGER), Val("to", T("A")) >>,
                << ExpressionStatement(MethodCallExpression(SuperExpression,
                     "NEW", << X("v") >>)),
                   Set("peer", X("to")) >>)),
              ClassMethod("PUBLIC", FunctionDeclaration("Get", << >>, INTEGER,
                << ReturnStatement(Plus(MethodCallExpression(SuperExpression,
                     "Get", << >>), I(1))) >>)) >>),
         ClassDeclaration("C", "B", << ClassProperty("PUBLIC", << "tag" >>, INTEGER) >>),
         Var("a", T("A")), Var("b", T("B")), Var("c", T("C")), Var("i", INTEGER),
         ProcedureDeclaration("Take", << Val("o", T("B")) >>,
           << Set("a", X("o")), Set("o", NewExpression("B", << I(6), X("a") >>)) >>),
         Set("a", X("c")) >>,
    pool |->
      << Set("a", NewExpression("A", << I(1) >>)),
         Set("a", NewExpression("C", << I(2), X("b") >>)),
         Set("b", NewExpression("C", << X("i"), X("a") >>)),
         Set("b", NewExpression("A", << I(1) >>)), Set("c", NewExpression("C", << I(4) >>)),
         Set("a", X("b")), Set("b", X("a")), Set("c", X("b")), Set("b", X("c")),
         To(Dot("b", "peer"), X("b")), To(Dot("b", "peer"), X("i")),
         Set("i", Ask("a", "Get")), Set("i", Ask("c", "Get")),
         Set("i", MethodCallExpression(Dot("b", "peer"), "Get", << >>)),
         Set("a", Dot("b", "peer")), Set("c", Dot("b", "peer")),
         Set("i", Dot("a", "x")), Set("i", Dot("a", "peer")), Do1("a", "Reset", << >>),
         Do1("a", "Add", << I(2) >>),
         CallMethodStatement(X("c"), "Add", << Dot("c", "tag") >>),
         To(Dot("c", "tag"), Ask("c", "Get")), Set("i", Dot("c", "tag")),
         Do1("b", "NEW", << I(9), X("c") >>), Do1("b", "NEW", << I(9) >>),
         CallStatement("Take", << X("c") >>), CallStatement("Take", << X("a") >>),
         Set("i", MethodCallExpression(SuperExpression, "Get", << >>)),
         Set("i", X("x")), Out(X("a")), Out(BinaryExpression("=", X("a"), X("b"))) >> ]

AllWorlds  == << scalars, records, pointers, classes >>
Fresh      == { "fresh", "i" }
SmallLines == << << 32, 52 >>, << 49, 46, 50, 53 >> >>
===============================================================================
