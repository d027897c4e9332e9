-------------------------- MODULE LanguageService --------------------------
(***************************************************************************)
(* DocumentStore and LanguageService over a compiler entry: the analysis   *)
(* with its occurrence index, the position memos and the text they were    *)
(* made for.  A session is what both keep of one document.  hoverCache and *)
(* completionCache are filled and cleared by the same lines at the same    *)
(* times, and positions do not interact: one memo per hash stands for both.*)
(* A memo holds the texts its answer was drawn from.                       *)
(***************************************************************************)
EXTENDS IncrementalCompiler

CONSTANT Hash   \* hashSource: two texts may have one fingerprint

ASSUME HashAssumption == DOMAIN Hash = Source

Fingerprint == { Hash[t] : t \in Source }

NoMemo == [ h \in Fingerprint |-> None ]

Analysis == [ version : Nat, source : Source, ast : Product, semantics : Product ]

ASSUME AnalysisAssumption == None \notin Analysis

Session == [ doc : Entry \cup { None }, analysis : Analysis \cup { None },
             featureSource : Product, memo : [ Fingerprint -> (SUBSET Product) \cup { None } ] ]

NoSession == [ doc |-> None, analysis |-> None, featureSource |-> None, memo |-> NoMemo ]

\* The texts an analysis speaks of.
Drawn(a) == { a.source, a.ast, a.semantics }

\* Mutant: the stage becomes valid for whatever was rebuilt.
SyncMarksAlways(s) ==
  IF s.analysis # None /\ s.analysis.source = s.doc.source /\ s.doc.language
  THEN [ s EXCEPT !.analysis.version = s.doc.version ]
  ELSE [ s EXCEPT !.analysis = [ version |-> s.doc.version, source |-> s.doc.source,
                                 ast |-> s.doc.ast, semantics |-> s.doc.semantics ],
                  !.doc.language = TRUE ]

\* syncAnalysis: a kept analysis of the same text is good while the language
\* stage is valid; else it is rebuilt, and the stage becomes valid when the
\* document was checked (markLanguageValid).
syncAnalysis(s) ==
  IF s.analysis # None /\ s.analysis.source = s.doc.source /\ s.doc.language
  THEN [ s EXCEPT !.analysis.version = s.doc.version ]
  ELSE [ s EXCEPT !.analysis = [ version |-> s.doc.version, source |-> s.doc.source,
                                 ast |-> s.doc.ast, semantics |-> s.doc.semantics ],
                  !.doc.language = @ \/ s.doc.check ]

Fresh(s) == /\ s.analysis # None
            /\ s.analysis.source = s.doc.source
            /\ s.analysis.version = s.doc.version
            /\ s.doc.language

\* DocumentStore.get of an open document.
get(s) == IF Fresh(s) THEN s
          ELSE syncAnalysis([ s EXCEPT !.doc = Full(@) ])

\* Mutant: only a change of the fingerprint clears the memos.
OnCompiledByHash(s) ==
  get([ s EXCEPT !.featureSource = s.doc.source,
                 !.memo = IF s.featureSource \in Source
                             /\ Hash[s.featureSource] # Hash[s.doc.source]
                          THEN NoMemo ELSE @ ])

\* What CompilerService calls after it compiled.
onCompiled(s) ==
  get([ s EXCEPT !.featureSource = s.doc.source,
                 !.memo = IF s.featureSource \notin { None, s.doc.source }
                          THEN NoMemo ELSE @ ])

\* LanguageService.openDocument clears first, updateDocument when the text is
\* another one than the memos were made for.
Opened(s, text, version) ==
  LET t == syncAnalysis([ s EXCEPT !.doc = updateDocument(@, text, version) ])
  IN  [ t EXCEPT !.memo = NoMemo, !.featureSource = t.analysis.source ]

Updated(s, text, version) ==
  LET t == syncAnalysis([ s EXCEPT !.doc = updateDocument(@, text, version) ])
  IN  [ t EXCEPT !.memo = IF s.featureSource = t.analysis.source THEN @ ELSE NoMemo,
                 !.featureSource = t.analysis.source ]

\* hover and completion of an open document: the memo of the text's hash, else
\* an answer that is kept there.
hover(s) ==
  LET t == get(s)
      h == Hash[t.analysis.source]
  IN  IF t.memo[h] # None THEN t ELSE [ t EXCEPT !.memo[h] = Drawn(t.analysis) ]

\* What hover says.
HoverSays(s) == LET t == hover(s) IN t.memo[Hash[t.analysis.source]]
=============================================================================
