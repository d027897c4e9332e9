-------------------------- MODULE CompilerSession --------------------------
(***************************************************************************)
(* createCompilerSession: one IncrementalCompiler behind two entries, the  *)
(* CompilerService facade and the LanguageService, which caches on its own.*)
(* Clients call either, in any order, for any document; a version may be   *)
(* late.  A call runs to its end, so an action is a whole call.  A call    *)
(* for a document that is not open throws or answers nothing.              *)
(***************************************************************************)
EXTENDS DependencyGraph, LanguageService

CONSTANTS
  MaxVersion,  \* bound: the versions the clients send
  MaxOpen      \* bound: the documents open at once

ASSUME BoundAssumption == MaxVersion \in Nat /\ MaxOpen \in Nat

VARIABLES
  session,  \* per document: the compiler's entry and the service's caches
  graph     \* IncrementalCompiler.dependencies

vars == << session, graph >>

TypeOK ==
  /\ session \in [ Uri -> Session ]
  /\ graph \in Graph

Init ==
  /\ session = [ u \in Uri |-> NoSession ]
  /\ graph = NoEdges

IsOpen(u) == session[u].doc # None

MayWrite(u) == IsOpen(u) \/ Cardinality({ v \in Uri : IsOpen(v) }) < MaxOpen

\* The other documents after a change of `u': those that depend on it are to be
\* compiled again from the stage `from'.
Spoiled(u, from) ==
  LET dependents == transitiveDependents(graph, u)
  IN  [ v \in Uri |-> IF v \in dependents /\ IsOpen(v)
                      THEN [ session[v] EXCEPT !.doc = Invalidate(@, from) ]
                      ELSE session[v] ]

Around(u, text, version) ==
  IF Changes(session[u].doc, text, version) THEN Spoiled(u, "parse") ELSE session

\* A call that leaves `s' of the document `u' and touches no other.
Leaves(u, s) == session' = [ session EXCEPT ![u] = s ] /\ UNCHANGED graph

-----------------------------------------------------------------------------
(* Writes *)

OpenDocument(u, text, version) ==
  /\ MayWrite(u)
  /\ session' = [ Around(u, text, version) EXCEPT ![u] = Opened(session[u], text, version) ]
  /\ UNCHANGED graph

UpdateDocument(u, text, version) ==
  /\ MayWrite(u)
  /\ session' = [ Around(u, text, version) EXCEPT ![u] = Updated(session[u], text, version) ]
  /\ UNCHANGED graph

\* Without a version, analyze takes the next one; reading the current one is a
\* get of its own.
Analyze(u, text) ==
  LET s == IF IsOpen(u) THEN get(session[u]) ELSE session[u]
      version == IF IsOpen(u) THEN s.doc.version + 1 ELSE 1
  IN  /\ MayWrite(u)
      /\ version <= MaxVersion
      /\ session' = [ Around(u, text, version) EXCEPT ![u] = Updated(s, text, version) ]
      /\ UNCHANGED graph

\* CompilerService.openDocument and updateDocument.
FacadeUpdate(u, text, version) ==
  /\ MayWrite(u)
  /\ session' = [ Around(u, text, version) EXCEPT
       ![u] = onCompiled([ session[u] EXCEPT !.doc = updateDocument(@, text, version) ]) ]
  /\ UNCHANGED graph

\* Mutant: the service is not told that the facade closed the document.
CloseBehindTheService(u) ==
  /\ session' = [ session EXCEPT ![u].doc = None ]
  /\ graph' = remove(graph, u)

\* closeDocument of either entry: store.close and forget, or onClosed.  Closing
\* a document that is not open still drops its edges.
CloseDocument(u) ==
  /\ session' = [ session EXCEPT ![u] = NoSession ]
  /\ graph' = remove(graph, u)

\* `parse' does what `source' does, `translate' and `interpret' have no flag here.
invalidate(u, from, others) ==
  /\ session' = [ (IF others THEN Spoiled(u, from) ELSE session) EXCEPT
                    ![u].doc = IF @ = None THEN @ ELSE Invalidate(@, from) ]
  /\ UNCHANGED graph

SetDependencies(u, list) ==
  /\ graph' = setDependencies(graph, u, list)
  /\ UNCHANGED session

-----------------------------------------------------------------------------
(* Queries *)

\* LanguageService.compile.
Compile(u) == IsOpen(u) /\ Leaves(u, get([ session[u] EXCEPT !.doc = Full(@) ]))

FacadeCompile(u, upTo, force) ==
  IsOpen(u) /\ Leaves(u, onCompiled([ session[u] EXCEPT !.doc = compile(@, upTo, force) ]))

\* getAnalysis, diagnostics, getSymbols, definition, references, rename, ...
Query(u) == IsOpen(u) /\ Leaves(u, get(session[u]))

\* hover, completion.
Hover(u) == IsOpen(u) /\ Leaves(u, hover(session[u]))

\* CompilerService.getHover, getCompletion: ensureCompiled first.
FacadeHover(u) ==
  IsOpen(u) /\ Leaves(u, hover(onCompiled([ session[u] EXCEPT !.doc = Full(@) ])))

\* CompilerService.getDiagnostics, getSymbols: the compiler alone.
GetDiagnostics(u) == IsOpen(u) /\ Leaves(u, [ session[u] EXCEPT !.doc = Full(@) ])

GetAst(u) == IsOpen(u) /\ Leaves(u, [ session[u] EXCEPT !.doc = compile(@, "parse", FALSE) ])

\* workspaceSymbols reads every open document as it is, compiled or not.
WorkspaceSymbols ==
  /\ session' = [ u \in Uri |-> IF IsOpen(u) THEN syncAnalysis(session[u]) ELSE session[u] ]
  /\ UNCHANGED graph

-----------------------------------------------------------------------------
Next ==
  \/ \E u \in Uri, text \in Source, version \in 0..MaxVersion :
       \/ OpenDocument(u, text, version)
       \/ UpdateDocument(u, text, version)
       \/ FacadeUpdate(u, text, version)
  \/ \E u \in Uri, text \in Source : Analyze(u, text)
  \/ \E u \in Uri : CloseDocument(u) \/ Compile(u) \/ Query(u) \/ Hover(u)
                      \/ FacadeHover(u) \/ GetDiagnostics(u) \/ GetAst(u)
  \/ \E u \in Uri, from \in { "source", "check", "language" }, others \in BOOLEAN :
       invalidate(u, from, others)
  \/ \E u \in Uri, upTo \in { "parse", "check" }, force \in BOOLEAN : FacadeCompile(u, upTo, force)
  \/ \E u \in Uri, list \in SUBSET Uri : SetDependencies(u, list)
  \/ WorkspaceSymbols

Spec == Init /\ [][Next]_vars

-----------------------------------------------------------------------------
(* Properties *)

\* Whatever happened before, every question that is asked next is answered from
\* the document's current text and from all of it: the analysis behind
\* diagnostics, symbols and navigation, the memos of hover and completion even
\* when two texts share a fingerprint, and the compiler's own outputs.
AnswersAreCurrent ==
  \A u \in Uri : IsOpen(u) =>
    LET s == session[u]
        now == { s.doc.source }
    IN  /\ Drawn(get(s).analysis) = now
        /\ HoverSays(s) = now
        /\ { Full(s.doc).ast, Full(s.doc).semantics } = now
        /\ compile(s.doc, "parse", FALSE).ast = s.doc.source

\* The outputs of the check that the cache holds are the current text's while
\* the check is valid, and gone while it is not (clearSemanticOutputs); so the
\* questions that read the cache without compiling, workspaceSymbols and
\* getDocument, never show another text's.
OutputsMatchStages ==
  \A u \in Uri : IsOpen(u) =>
    LET e == session[u].doc
    IN  /\ e.parse => e.ast = e.source
        /\ e.check => e.parse
        /\ e.semantics = IF e.check THEN e.source ELSE None

\* A valid language stage means a kept analysis, complete and of this text: the
\* service alone may set it (markLanguageValid) and every compile resets it.
LanguageStageIsEarned ==
  \A u \in Uri : IsOpen(u) /\ session[u].doc.language =>
    /\ session[u].doc.check
    /\ session[u].analysis # None
    /\ Drawn(session[u].analysis) = { session[u].doc.source }

\* The memos were made for the text the service remembers, which is the
\* document's: a shared fingerprint cannot bring back another text's answer.
MemosAreCurrent ==
  \A u \in Uri : IsOpen(u) =>
    /\ session[u].featureSource = session[u].doc.source
    /\ \A h \in Fingerprint : session[u].memo[h] \in { None, { session[u].doc.source } }

\* Closing a document drops everything either service kept of it.
NothingKeptAfterClose == \A u \in Uri : ~ IsOpen(u) => session[u] = NoSession

\* The two adjacency maps are inverse, and nobody depends on itself.
GraphIsInverse ==
  \A u, v \in Uri : /\ u \in graph.deps[v] <=> v \in graph.dependents[u]
                    /\ u \notin graph.deps[u]

\* When a document gets another text, every open document that depends on it,
\* however far, must be parsed again.
DependentsSpoiled ==
  [][ \A u, v \in Uri :
        /\ IsOpen(u) /\ session'[u].doc # None
        /\ session[u].doc.source # session'[u].doc.source
        /\ v # u /\ DependsOn(graph, v, u) /\ IsOpen(v)
        => ~ session'[v].doc.parse ]_vars

\* A delayed update does not take effect, not even on the version alone: while a
\* document is open no call sets it back to an older version.
LateUpdatesLose ==
  [][ \A u \in Uri : IsOpen(u) /\ session'[u].doc # None =>
        session'[u].doc.version >= session[u].doc.version ]_vars

\* What the calls preserve together, and what the answers rest on.
SessionInv == /\ OutputsMatchStages /\ LanguageStageIsEarned
              /\ MemosAreCurrent /\ NothingKeptAfterClose
=============================================================================
