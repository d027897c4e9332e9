---------------------------- MODULE MCTranslation ----------------------------
(***************************************************************************)
(* Small worlds for Translation.  What the translation is known to miss    *)
(* (README, "Gaps of the translator") is left out of the pools: scalars    *)
(* are given a value before they are read, no procedure assigns a global,  *)
(* and no value of an enumeration is shown.  Two worlds apart show what    *)
(* becomes of a whole BYREF record and of an enumeration that is shown.    *)
(***************************************************************************)
EXTENDS Translation

I(n)   == Literal("INTEGER", n)
R(n)   == Literal("REAL", n)     \* in halves
Str(s) == Literal("STRING", s)
X(n)   == Identifier(n)
INTEGER == TypeName("INTEGER")
REAL    == TypeName("REAL")
T(n)    == NamedType(n)
Set(n, e)      == AssignmentStatement(X(n), e)
Var(n, t)      == DeclareStatement(<< n >>, t)
Val(n, t)      == Parameter(n, t, "BYVAL")
Ref(n, t)      == Parameter(n, t, "BYREF")
Op(op, a, b)   == BinaryExpression(op, a, b)
Plus(a, b)     == Op("+", a, b)
Out(e)         == OutputStatement(<< e >>)
Dot(o, f)      == MemberExpression(X(o), f)
At(a, i)       == IndexExpression(X(a), << i >>)
To(t, e)       == AssignmentStatement(t, e)
From2(t)       == ArrayType(<< << I(2), I(3) >> >>, t)
Call(f, a)     == CallExpression(f, a)
Do1(o, m, as)  == ExpressionStatement(MethodCallExpression(X(o), m, as))
Ask(o, m)      == MethodCallExpression(X(o), m, << >>)
Field(n, t)    == [ name |-> n, type |-> t ]

\* Numbers, texts, loops; names that Python keeps for itself.
scalars ==
  [ declarations |->
      << DeclareStatement(<< "i", "list" >>, INTEGER), Var("r", REAL),
         Var("s", TypeName("STRING")), Var("ok", TypeName("BOOLEAN")),
         Set("i", I(-5)), Set("list", I(3)), Set("r", R(5)), Set("s", Str(<< 97, 98 >>)),
         Set("ok", Literal("BOOLEAN", FALSE)), ConstantStatement("k", I(2)),
         ProcedureDeclaration("Bump", << Ref("x", INTEGER), Val("by", INTEGER) >>,
           << Set("x", Plus(X("x"), X("by"))), Set("by", X("x")) >>),
         ProcedureDeclaration("Twice", << Ref("y", INTEGER) >>,
           << CallStatement("Bump", << X("y"), X("y") >>) >>),
         FunctionDeclaration("Down", << Val("n", INTEGER) >>, INTEGER,
           << IfStatement(<< << Op(">", X("n"), I(0)),
                << ReturnStatement(Call("Down", << Op("-", X("n"), X("k")) >>)) >> >> >>,
                << ReturnStatement(X("n")) >>) >>) >>,
    pool |->
      << Set("i", Op("DIV", X("i"), X("k"))), Set("i", Op("MOD", X("i"), I(-3))),
         Set("r", Op("/", X("i"), X("k"))), Set("list", Call("Down", << X("list") >>)),
         CallStatement("Bump", << X("list"), X("i") >>), CallStatement("Twice", << X("i") >>),
         Set("s", Call("RIGHT", << X("s"), Op("-", X("list"), I(3)) >>)),
         Set("s", Op("&", Call("MID", << X("s"), I(1), I(1) >>),
                          Call("LEFT", << Call("UCASE", << X("s") >>), X("k") >>))),
         Set("i", Plus(Call("LENGTH", << X("s") >>), Call("INT", << X("r") >>))),
         Set("ok", Call("IS_NUM", << X("s") >>)),
         Set("ok", Op("AND", UnaryExpression("NOT", Op("=", X("i"), X("k"))),
                             Op("<>", I(6), Op("DIV", I(6), X("i"))))),
         Set("i", Op("-", X("i"), GroupingExpression(Op("-", X("list"), I(1))))),
         Set("r", Op("*", GroupingExpression(Plus(X("r"), X("i"))), UnaryExpression("-", X("k")))),
         InputStatement(X("i")), InputStatement(X("s")),
         ProcedureDeclaration("Late", << >>, << Out(X("k")) >>), CallStatement("Late", << >>),
         OutputStatement(<< X("i"), Op("<=", X("r"), X("list")), X("s") >>),
         ForStatement("i", I(1), X("k"), << >>, << CallStatement("Bump", << X("list"), X("i") >>) >>),
         ForStatement("j", X("k"), I(0), << I(-1) >>, << Set("i", X("j")), Out(X("j")) >>),
         ForStatement("j", I(1), I(4), << X("k") >>, << Set("list", X("j")) >>),
         WhileStatement(Op("<", X("i"), X("k")), << Set("i", Plus(X("i"), I(3))) >>),
         RepeatStatement(<< Set("list", Plus(X("list"), I(1))) >>, Op(">", X("list"), X("i"))),
         CaseStatement(X("i"), << [ label |-> << I(2) >>, body |-> << Set("list", I(1)) >> ],
                                  [ label |-> << I(-5), I(0) >>, body |-> << Set("r", X("k")) >> ] >>,
                       << Set("i", I(2)) >>) >> ]

\* Records and arrays, whose bounds start above 1.
records ==
  [ declarations |->
      << TypeDeclaration("P", << Field("x", INTEGER), Field("y", REAL) >>),
         TypeDeclaration("Q", << Field("p", T("P")), Field("a", From2(T("P"))) >>),
         ProcedureDeclaration("Put", << Ref("to", T("P")), Val("from", T("P")) >>,
           << To(Dot("from", "x"), Plus(Dot("from", "x"), I(7))),
              To(Dot("to", "x"), Dot("from", "x")) >>),
         FunctionDeclaration("Same", << Val("it", T("P")) >>, T("P"),
           << To(Dot("it", "y"), R(3)), ReturnStatement(X("it")) >>),
         DeclareStatement(<< "p1", "p2" >>, T("P")), Var("q", T("Q")), Var("ps", From2(T("P"))),
         Var("g", ArrayType(<< << I(0), I(1) >>, << I(3), I(4) >> >>, INTEGER)) >>,
    pool |->
      << Set("p1", X("p2")), To(Dot("q", "p"), X("p1")), Set("p2", Dot("q", "p")),
         To(Dot("q", "a"), X("ps")), Set("ps", Dot("q", "a")), Set("q", X("q")),
         To(At("ps", I(2)), X("p1")), To(At("ps", I(3)), At("ps", I(2))),
         To(At("ps", IndexExpression(X("g"), << I(1), I(3) >>)), X("p2")),
         To(MemberExpression(At("ps", I(3)), "x"), I(4)), To(Dot("p1", "x"), I(1)),
         To(MemberExpression(IndexExpression(Dot("q", "a"), << I(2) >>), "x"), I(5)),
         To(MemberExpression(Dot("q", "p"), "x"), Dot("p2", "x")),
         To(IndexExpression(X("g"), << I(1), I(3) >>), Plus(Dot("p1", "x"), I(2))),
         To(IndexExpression(X("g"), << I(0), I(4) >>), IndexExpression(X("g"), << I(1), I(3) >>)),
         CallStatement("Put", << At("ps", I(2)), X("p1") >>),
         CallStatement("Put", << X("p1"), X("p1") >>),
         CallStatement("Put", << Dot("q", "p"), At("ps", I(3)) >>),
         Set("p2", Call("Same", << X("p1") >>)), To(At("ps", I(3)), Call("Same", << X("p2") >>)),
         Out(Dot("p2", "y")), InputStatement(Dot("p1", "y")) >> ]

\* Enumerations and pointers.
pointers ==
  [ declarations |->
      << EnumTypeDeclaration("Season", << "Spring", "Summer", "Autumn" >>),
         PointerTypeDeclaration("IP", INTEGER),
         DeclareStatement(<< "i", "j" >>, INTEGER), Set("j", I(8)),
         DeclareStatement(<< "e", "f" >>, T("Season")), DeclareStatement(<< "p", "q" >>, T("IP")),
         FunctionDeclaration("Deref", << Val("at", T("IP")) >>, INTEGER,
           << ReturnStatement(DerefExpression(X("at"))) >>),
         Set("p", AddressOfExpression(X("i"))) >>,
    pool |->
      << Set("p", AddressOfExpression(X("i"))), Set("q", X("p")), Set("q", AddressOfExpression(X("i"))),
         To(DerefExpression(X("q")), I(4)),
         To(DerefExpression(X("p")), Plus(DerefExpression(X("p")), X("j"))),
         Set("i", X("j")), Set("j", X("i")), Set("j", DerefExpression(X("p"))),
         Set("j", Call("Deref", << X("p") >>)), Set("i", Plus(X("i"), I(1))), InputStatement(X("i")),
         Set("e", Plus(X("e"), I(1))), Set("e", Op("-", X("e"), I(1))), Set("f", X("e")),
         Set("e", X("Autumn")), OutputStatement(<< Op("=", X("e"), X("f")), Op("<", X("f"), X("Summer")) >>),
         IfStatement(<< << Op("=", X("i"), X("j")), << Set("i", I(0)) >> >>,
                        << Op("<", X("i"), X("j")), << Set("j", I(1)) >> >> >>, << Set("e", X("Summer")) >>) >> ]

\* Classes: instances are shared, their records are not.
classes ==
  [ declarations |->
      << TypeDeclaration("P", << Field("x", INTEGER) >>),
         ClassDeclaration("A", None,
           << ClassProperty("PRIVATE", << "v" >>, INTEGER),
              ClassMethod("PUBLIC", ProcedureDeclaration("NEW", << Val("n", INTEGER) >>,
                << Set("v", X("n")) >>)),
              ClassMethod("PUBLIC", ProcedureDeclaration("Add", << Val("n", INTEGER) >>,
                << Set("v", Plus(X("v"), X("n"))) >>)),
              ClassMethod("PUBLIC", FunctionDeclaration("Get", << >>, INTEGER,
                << ReturnStatement(X("v")) >>)) >>),
         ClassDeclaration("B", "A",
           << ClassProperty("PUBLIC", << "peer" >>, T("A")), ClassProperty("PUBLIC", << "at" >>, T("P")),
              ClassMethod("PUBLIC", ProcedureDeclaration("NEW", << Val("to", T("A")), Val("p", T("P")) >>,
                << ExpressionStatement(MethodCallExpression(SuperExpression, "NEW", << I(1) >>)),
                   Set("peer", X("to")), Set("at", X("p")) >>)),
              ClassMethod("PUBLIC", FunctionDeclaration("Get", << >>, INTEGER,
                << ReturnStatement(Plus(MethodCallExpression(SuperExpression, "Get", << >>),
                                        Dot("at", "x"))) >>)) >>),
         ClassDeclaration("C", "B", << >>),
         Var("p", T("P")), Var("a", T("A")), Var("b", T("B")), Var("i", INTEGER),
         ProcedureDeclaration("Poke", << Val("o", T("A")) >>,
           << Do1("o", "Add", << I(10) >>), Set("o", NewExpression("A", << I(0) >>)) >>),
         Set("a", NewExpression("A", << I(3) >>)), Set("i", I(2)),
         Set("b", NewExpression("B", << X("a"), X("p") >>)) >>,
    pool |->
      << Set("a", NewExpression("A", << X("i") >>)), Set("a", NewExpression("C", << X("b"), X("p") >>)),
         Set("b", NewExpression("C", << X("a"), Dot("b", "at") >>)), Set("a", X("b")),
         To(Dot("b", "peer"), X("b")), To(Dot("b", "peer"), X("a")), Set("a", Dot("b", "peer")),
         Set("i", Ask("a", "Get")), Set("i", Ask("b", "Get")),
         Set("i", MethodCallExpression(Dot("b", "peer"), "Get", << >>)),
         Do1("a", "Add", << X("i") >>), CallMethodStatement(X("b"), "Add", << I(5) >>),
         To(Dot("p", "x"), I(4)), To(Dot("b", "at"), X("p")), Set("p", Dot("b", "at")),
         To(MemberExpression(Dot("b", "at"), "x"), X("i")),
         CallStatement("Poke", << X("a") >>), CallStatement("Poke", << X("b") >>),
         Out(Op("=", Ask("a", "Get"), X("i"))) >> ]

\* A whole record assigned to a BYREF parameter.
wholes ==
  [ declarations |->
      << TypeDeclaration("P", << Field("x", INTEGER) >>),
         ProcedureDeclaration("Put", << Ref("to", T("P")), Val("from", T("P")) >>,
           << Set("to", X("from")) >>),
         DeclareStatement(<< "p1", "p2" >>, T("P")) >>,
    pool |-> << To(Dot("p1", "x"), I(4)), CallStatement("Put", << X("p2"), X("p1") >>),
                CallStatement("Put", << X("p1"), X("p2") >>) >> ]

Wholes     == << wholes >>
AllWorlds  == << scalars, records, pointers, classes >>
SmallLines == << << 32, 52 >>, << 49, 46, 50, 53 >> >>
KeptNames  == { "list", "print", "class" }
===============================================================================
