---------------------- MODULE CompilerSession_proofs ----------------------
(***************************************************************************)
(* Theorems about CompilerSession: the types, the caches' invariant        *)
(* SessionInv, that every answer is about the current text, that late      *)
(* updates lose, that the dependency maps stay inverse, and that a changed *)
(* document spoils all that depend on it.  Each operation of the compiler  *)
(* and of the service is one lemma about one document.                     *)
(***************************************************************************)
EXTENDS CompilerSession, PureFunctions_proofs

\* The compiler's entry: valid stages go with outputs of the current text.
EntryOK(e) ==
  /\ e \in Entry
  /\ e.parse => e.ast = e.source
  /\ e.check => e.parse
  /\ e.language => e.check
  /\ e.semantics = IF e.check THEN e.source ELSE None

\* An open document between two steps of one call: the memos may lag behind.
Base(s) ==
  /\ s \in Session /\ s.doc # None
  /\ EntryOK(s.doc)
  /\ s.doc.language => /\ s.analysis # None
                       /\ Drawn(s.analysis) = { s.doc.source }

MemosOf(s, text) == \A h \in Fingerprint : s.memo[h] \in { None, { text } }

\* A document between two calls.
Sound(s) ==
  /\ s \in Session
  /\ s.doc = None => s = NoSession
  /\ s.doc # None => /\ Base(s)
                     /\ s.featureSource = s.doc.source
                     /\ MemosOf(s, s.doc.source)

-----------------------------------------------------------------------------
(* The compiler *)

\* Invalidating a stage invalidates those behind it.
LEMMA StagesAreOrdered ==
  ASSUME NEW from \in Stage
  PROVE  /\ "parse" \in stagesFrom(from) => "check" \in stagesFrom(from)
         /\ "check" \in stagesFrom(from) => "language" \in stagesFrom(from)
<1>1. from \in { "source", "parse", "check", "language", "translate", "interpret" }
  BY DEF Stage, STAGE_ORDER
<1>2. \A i \in 1..6 : STAGE_ORDER[i] = "parse" => i = 2
  BY DEF STAGE_ORDER
<1>3. \A i \in 1..6 : STAGE_ORDER[i] = "check" => i = 3
  BY DEF STAGE_ORDER
<1>4. STAGE_ORDER[3] = "check" /\ STAGE_ORDER[4] = "language"
  BY DEF STAGE_ORDER
<1>5. ASSUME "parse" \in stagesFrom(from) PROVE "check" \in stagesFrom(from)
  <2>1. \E k \in 1..2 : STAGE_ORDER[k] = from
    BY <1>2, <1>5 DEF stagesFrom
  <2>2. \E k \in 1..3 : STAGE_ORDER[k] = from
    BY <2>1
  <2> QED
    BY <2>2, <1>4 DEF stagesFrom
<1>6. ASSUME "check" \in stagesFrom(from) PROVE "language" \in stagesFrom(from)
  <2>1. \E k \in 1..3 : STAGE_ORDER[k] = from
    BY <1>3, <1>6 DEF stagesFrom
  <2>2. \E k \in 1..4 : STAGE_ORDER[k] = from
    BY <2>1
  <2> QED
    BY <2>2, <1>4 DEF stagesFrom
<1> QED
  BY <1>5, <1>6

\* Invalidation keeps the text and the version; a language stage that survives
\* it survives with the check.
LEMMA InvalidateKeeps ==
  ASSUME NEW e, EntryOK(e), NEW from \in Stage
  PROVE  /\ EntryOK(Invalidate(e, from))
         /\ Invalidate(e, from).version = e.version
         /\ Invalidate(e, from).source = e.source
         /\ Invalidate(e, from).language => e.language
         /\ "parse" \in stagesFrom(from) => ~ Invalidate(e, from).parse
<1> DEFINE c == Invalidate(e, from)
<1>1. e \in Entry
  BY DEF EntryOK
<1>2. c.version = e.version /\ c.source = e.source /\ c.ast = e.ast
  BY <1>1 DEF Invalidate, Entry
<1>3. c.semantics = IF "check" \in stagesFrom(from) THEN None ELSE e.semantics
  BY <1>1 DEF Invalidate, Entry
<1>4. c.parse = (e.parse /\ "parse" \notin stagesFrom(from))
  BY <1>1 DEF Invalidate, Entry
<1>5. c.check = (e.check /\ "check" \notin stagesFrom(from))
  BY <1>1 DEF Invalidate, Entry
<1>6. c.language = (e.language /\ "language" \notin stagesFrom(from))
  BY <1>1 DEF Invalidate, Entry
<1>7. c \in Entry
  BY <1>1 DEF Invalidate, Entry, Product
<1> HIDE DEF c
<1>8. EntryOK(c)
  BY <1>2, <1>3, <1>4, <1>5, <1>6, <1>7, StagesAreOrdered DEF EntryOK
<1>9. c.language => e.language
  BY <1>6
<1>10. "parse" \in stagesFrom(from) => ~ c.parse
  BY <1>4
<1> QED
  BY <1>2, <1>8, <1>9, <1>10 DEF c

\* A compile keeps text and version, leaves the parse valid and, unless it was
\* asked to stop there, the check; the language stage survives a cache hit only.
LEMMA CompileKeeps ==
  ASSUME NEW e, EntryOK(e), NEW upTo \in { "parse", "check" }, NEW force \in BOOLEAN
  PROVE  /\ EntryOK(compile(e, upTo, force))
         /\ compile(e, upTo, force).version = e.version
         /\ compile(e, upTo, force).source = e.source
         /\ compile(e, upTo, force).parse
         /\ upTo = "check" => compile(e, upTo, force).check
         /\ compile(e, upTo, force).language => e.language
         /\ force => ~ compile(e, upTo, force).language
<1> DEFINE needParse == force \/ ~ e.parse
           needCheck == upTo = "check" /\ (needParse \/ ~ e.check)
           ast == IF needParse THEN e.source ELSE e.ast
           c == [ e EXCEPT !.ast = ast, !.parse = TRUE, !.check = needCheck,
                           !.semantics = IF needCheck THEN ast ELSE None,
                           !.language = FALSE ]
<1>1. compile(e, upTo, force) = IF ~ needParse /\ ~ needCheck THEN e ELSE c
  BY DEF compile
<1>2. e \in Entry
  BY DEF EntryOK
<1>3. ast = e.source
  BY DEF EntryOK
<1>4. needCheck \in BOOLEAN
  OBVIOUS
<1> HIDE DEF needCheck, ast
<1>5. /\ c.version = e.version /\ c.source = e.source /\ c.ast = e.source
      /\ c.semantics = IF needCheck THEN e.source ELSE None
  BY <1>2, <1>3 DEF Entry
<1>6. c.parse = TRUE /\ c.check = needCheck /\ c.language = FALSE
  BY <1>2 DEF Entry
<1>7. c \in Entry
  BY <1>2, <1>3, <1>4 DEF Entry, Product
<1> HIDE DEF c
<1>8. EntryOK(c)
  BY <1>5, <1>6, <1>7 DEF EntryOK
<1>9. CASE ~ needParse /\ ~ needCheck
  <2>1. e.parse /\ (upTo = "check" => e.check) /\ ~ force
    BY <1>9 DEF needCheck
  <2> QED
    BY <1>1, <1>9, <2>1
<1>10. CASE needParse \/ needCheck
  <2>1. compile(e, upTo, force) = c
    BY <1>1, <1>10
  <2>2. upTo = "check" => needCheck
    BY <1>10 DEF needCheck
  <2> QED
    BY <2>1, <2>2, <1>5, <1>6, <1>8
<1> QED
  BY <1>9, <1>10

\* A full compile leaves a document checked, with text and version as they were.
LEMMA FullKeeps ==
  ASSUME NEW e, EntryOK(e)
  PROVE  /\ EntryOK(Full(e)) /\ Full(e).check
         /\ Full(e).version = e.version /\ Full(e).source = e.source
         /\ Full(e).language => e.language
BY CompileKeeps DEF Full

\* An update leaves a checked entry, does not lower the version, and keeps the
\* language stage only with the text.
UpdateOf(e, c) ==
  /\ EntryOK(c) /\ c.check
  /\ e # None => c.version >= e.version
  /\ c.language => e # None /\ e.language /\ c.source = e.source

LEMMA UpdateKeeps ==
  ASSUME NEW e, e # None => EntryOK(e), NEW text \in Source, NEW version \in Nat
  PROVE  UpdateOf(e, updateDocument(e, text, version))
<1>1. CASE e = None
  <2> DEFINE n == createEntry(text, version)
  <2>1. EntryOK(n)
    BY DEF createEntry, EntryOK, Entry, Product
  <2>2. updateDocument(e, text, version) = compile(n, "check", TRUE)
    BY <1>1 DEF updateDocument
  <2> HIDE DEF n
  <2> DEFINE c == compile(n, "check", TRUE)
  <2>3. EntryOK(c) /\ c.check /\ ~ c.language
    BY <2>1, CompileKeeps
  <2> HIDE DEF c
  <2> QED
    BY <1>1, <2>2, <2>3 DEF UpdateOf, c
<1>2. CASE e # None /\ version < e.version
  <2>1. updateDocument(e, text, version) = Full(e)
    BY <1>2 DEF updateDocument
  <2>2. e.version >= e.version
    BY <1>2 DEF EntryOK, Entry
  <2> QED
    BY <1>2, <2>1, <2>2, FullKeeps DEF UpdateOf
<1>3. CASE e # None /\ ~ (version < e.version) /\ text = e.source
  <2> DEFINE n == [ e EXCEPT !.version = version ]
  <2>1. e \in Entry
    BY <1>3 DEF EntryOK
  <2>2. updateDocument(e, text, version) = Full(n)
    BY <1>3 DEF updateDocument
  <2>3. /\ n.version = version /\ n.source = e.source /\ n.ast = e.ast
        /\ n.semantics = e.semantics /\ n.parse = e.parse /\ n.check = e.check
        /\ n.language = e.language
    BY <2>1 DEF Entry
  <2>4. n \in Entry
    BY <2>1 DEF Entry
  <2>5. version >= e.version
    BY <1>3, <2>1 DEF Entry
  <2> HIDE DEF n
  <2>6. EntryOK(n)
    BY <1>3, <2>3, <2>4 DEF EntryOK
  <2> QED
    BY <1>3, <2>2, <2>3, <2>5, <2>6, FullKeeps DEF UpdateOf
<1>4. CASE e # None /\ ~ (version < e.version) /\ text # e.source
  <2> DEFINE m == [ e EXCEPT !.version = version, !.source = text ]
             n == Invalidate(m, "parse")
  <2>1. e \in Entry
    BY <1>4 DEF EntryOK
  <2>2. updateDocument(e, text, version) = Full(n)
    BY <1>4 DEF updateDocument
  <2>3. "parse" \in stagesFrom("parse")
    <3>1. STAGE_ORDER[2] = "parse"
      BY DEF STAGE_ORDER
    <3>2. 2 \in { j \in 1..6 : \E k \in 1..j : STAGE_ORDER[k] = "parse" }
      BY <3>1
    <3> QED
      BY <3>1, <3>2 DEF stagesFrom
  <2>4. "check" \in stagesFrom("parse") /\ "language" \in stagesFrom("parse")
    <3>1. "parse" \in Stage
      BY DEF Stage, STAGE_ORDER
    <3> QED
      BY <2>3, <3>1, StagesAreOrdered
  <2>5. m \in Entry
    BY <2>1 DEF Entry
  <2>6. m.version = version /\ m.source = text
    BY <2>1 DEF Entry
  <2> HIDE DEF m
  <2>7. n.version = version /\ n.source = text /\ n.semantics = None
    BY <2>4, <2>5, <2>6 DEF Invalidate, Entry
  <2>8. n.parse = FALSE /\ n.check = FALSE /\ n.language = FALSE
    BY <2>3, <2>4, <2>5 DEF Invalidate, Entry
  <2>9. n \in Entry
    BY <2>5 DEF Invalidate, Entry, Product
  <2>10. version >= e.version
    BY <1>4, <2>1 DEF Entry
  <2> HIDE DEF n
  <2>11. EntryOK(n)
    BY <2>7, <2>8, <2>9 DEF EntryOK
  <2> QED
    BY <1>4, <2>2, <2>7, <2>8, <2>10, <2>11, FullKeeps DEF UpdateOf
<1> QED
  BY <1>1, <1>2, <1>3, <1>4

-----------------------------------------------------------------------------
(* The service *)

\* An analysis is of one text when its three parts are.
LEMMA DrawnIsOne ==
  ASSUME NEW a, NEW text
  PROVE  Drawn(a) = { text } <=> a.source = text /\ a.ast = text /\ a.semantics = text
BY DEF Drawn

\* What a query leaves as it was.
After(s, t) ==
  /\ Base(t)
  /\ t.doc.source = s.doc.source /\ t.doc.version = s.doc.version
  /\ t.memo = s.memo /\ t.featureSource = s.featureSource

\* Another entry of the same text and version, with the language stage valid at
\* most where it was, keeps a document well-formed.
LEMMA WithEntry ==
  ASSUME NEW s, Base(s), NEW e, EntryOK(e), e.language => s.doc.language,
         e.source = s.doc.source, e.version = s.doc.version
  PROVE  /\ After(s, [ s EXCEPT !.doc = e ])
         /\ [ s EXCEPT !.doc = e ].doc = e
         /\ [ s EXCEPT !.doc = e ].analysis = s.analysis
<1> DEFINE t == [ s EXCEPT !.doc = e ]
<1>1. s \in Session /\ e \in Entry
  BY DEF Base, EntryOK
<1>2. t.doc = e /\ t.analysis = s.analysis /\ t.memo = s.memo
        /\ t.featureSource = s.featureSource
  BY <1>1 DEF Session
<1>3. t \in Session
  BY <1>1 DEF Session
<1> HIDE DEF t
<1>4. Base(t)
  BY <1>1, <1>2, <1>3, EntryAssumption DEF Base
<1> QED
  BY <1>2, <1>4 DEF After, t

\* After a sync there is an analysis of the text; of a checked document it is a
\* complete one.
LEMMA SyncKeeps ==
  ASSUME NEW s, Base(s)
  PROVE  /\ After(s, syncAnalysis(s))
         /\ syncAnalysis(s).analysis.source = s.doc.source
         /\ s.doc.check => Drawn(syncAnalysis(s).analysis) = { s.doc.source }
         /\ syncAnalysis(s).doc.parse = s.doc.parse
         /\ syncAnalysis(s).doc.check = s.doc.check
<1>1. /\ s \in Session /\ s.doc \in Entry /\ EntryOK(s.doc)
  BY DEF Base, EntryOK
<1>2. CASE s.analysis # None /\ s.analysis.source = s.doc.source /\ s.doc.language
  <2> DEFINE t == [ s EXCEPT !.analysis.version = s.doc.version ]
  <2>1. s.analysis \in Analysis
    BY <1>1, <1>2 DEF Session
  <2>2. /\ t.doc = s.doc /\ t.memo = s.memo /\ t.featureSource = s.featureSource
        /\ t.analysis = [ s.analysis EXCEPT !.version = s.doc.version ]
    BY <1>1 DEF Session
  <2>3. /\ t.analysis.source = s.analysis.source /\ t.analysis.ast = s.analysis.ast
        /\ t.analysis.semantics = s.analysis.semantics
    BY <2>1, <2>2 DEF Analysis
  <2>4. t.analysis \in Analysis
    BY <1>1, <2>1, <2>2 DEF Analysis, Entry
  <2>5. t \in Session
    <3>1. t = [ s EXCEPT !.analysis = t.analysis ]
      BY <1>1 DEF Session
    <3> QED
      BY <1>1, <2>4, <3>1 DEF Session
  <2>6. syncAnalysis(s) = t
    BY <1>2 DEF syncAnalysis
  <2> HIDE DEF t
  <2>7. Drawn(t.analysis) = { s.doc.source }
    <3>1. Drawn(s.analysis) = { s.doc.source }
      BY <1>2 DEF Base
    <3> QED
      BY <2>3, <3>1 DEF Drawn
  <2>8. t.analysis # None
    BY <2>4, AnalysisAssumption
  <2>9. Base(t)
    BY <2>2, <2>5, <2>7, <2>8 DEF Base
  <2> QED
    BY <1>2, <2>2, <2>3, <2>6, <2>7, <2>9 DEF After
<1>3. CASE ~ (s.analysis # None /\ s.analysis.source = s.doc.source /\ s.doc.language)
  <2> DEFINE a == [ version |-> s.doc.version, source |-> s.doc.source,
                    ast |-> s.doc.ast, semantics |-> s.doc.semantics ]
             e == [ s.doc EXCEPT !.language = s.doc.language \/ s.doc.check ]
             t == [ s EXCEPT !.analysis = a, !.doc.language = @ \/ s.doc.check ]
  <2>1. a \in Analysis
    BY <1>1 DEF Analysis, Entry, Product
  <2>2. /\ e.version = s.doc.version /\ e.source = s.doc.source /\ e.ast = s.doc.ast
        /\ e.semantics = s.doc.semantics /\ e.parse = s.doc.parse /\ e.check = s.doc.check
    BY <1>1 DEF Entry
  <2>3. e.language = (s.doc.language \/ s.doc.check)
    BY <1>1 DEF Entry
  <2>4. e \in Entry
    BY <1>1 DEF Entry
  <2>5. t.doc = e /\ t.analysis = a /\ t.memo = s.memo /\ t.featureSource = s.featureSource
    BY <1>1 DEF Session, Entry
  <2>6. t \in Session
    <3>1. t = [ s EXCEPT !.analysis = a, !.doc = e ]
      BY <1>1 DEF Session
    <3> HIDE DEF a, e, t
    <3> QED
      BY <1>1, <2>1, <2>4, <3>1 DEF Session
  <2>7. syncAnalysis(s) = t
    BY <1>3 DEF syncAnalysis
  <2>8. a.source = s.doc.source /\ a.ast = s.doc.ast /\ a.semantics = s.doc.semantics
    OBVIOUS
  <2> HIDE DEF a, e, t
  <2>9. EntryOK(e)
    BY <1>1, <2>2, <2>3, <2>4 DEF EntryOK
  <2>10. s.doc.check => Drawn(a) = { s.doc.source }
    BY <1>1, <2>8, DrawnIsOne DEF EntryOK
  <2>11. e.language => s.doc.check
    BY <1>1, <2>3 DEF EntryOK
  <2>12. Base(t)
    BY <2>1, <2>2, <2>4, <2>5, <2>6, <2>9, <2>10, <2>11, AnalysisAssumption,
       EntryAssumption DEF Base
  <2> QED
    BY <2>2, <2>5, <2>7, <2>8, <2>10, <2>12 DEF After
<1> QED
  BY <1>2, <1>3

\* Every query gets an analysis of the current text and of all of it.
LEMMA GetKeeps ==
  ASSUME NEW s, Base(s)
  PROVE  /\ After(s, get(s))
         /\ Drawn(get(s).analysis) = { s.doc.source }
         /\ get(s).analysis.source = s.doc.source
<1>1. CASE Fresh(s)
  <2>1. get(s) = s /\ Drawn(s.analysis) = { s.doc.source }
    BY <1>1 DEF get, Fresh, Base
  <2> QED
    BY <2>1, DrawnIsOne DEF After
<1>2. CASE ~ Fresh(s)
  <2> DEFINE e == Full(s.doc)
             t == [ s EXCEPT !.doc = e ]
  <2>1. /\ EntryOK(e) /\ e.check
        /\ e.language => s.doc.language
        /\ e.source = s.doc.source /\ e.version = s.doc.version
    BY FullKeeps DEF Base
  <2>2. get(s) = syncAnalysis(t)
    BY <1>2 DEF get
  <2> HIDE DEF e
  <2>3. After(s, t) /\ t.doc = e
    BY <2>1, WithEntry
  <2> HIDE DEF t
  <2>4. Base(t)
    BY <2>3 DEF After
  <2>5. /\ After(t, syncAnalysis(t))
        /\ syncAnalysis(t).analysis.source = t.doc.source
        /\ t.doc.check => Drawn(syncAnalysis(t).analysis) = { t.doc.source }
    BY <2>4, SyncKeeps
  <2> QED
    BY <2>1, <2>2, <2>3, <2>5 DEF After
<1> QED
  BY <1>1, <1>2

\* A document the compiler has just changed: the memos are those of the text the
\* service remembers, if it remembers one.
Lagging(s) ==
  /\ Base(s)
  /\ s.featureSource = None => s.memo = NoMemo
  /\ s.featureSource # None => MemosOf(s, s.featureSource)

\* What a call does to a document: sound, and not set back.
Steps(s, t) ==
  /\ Sound(t)
  /\ s.doc # None /\ t.doc # None => t.doc.version >= s.doc.version

\* Empty memos are those of any text.
LEMMA NoMemoIsOfAny ==
  ASSUME NEW s, s.memo = NoMemo, NEW text
  PROVE  MemosOf(s, text)
BY DEF MemosOf, NoMemo

\* A sound document stays sound when its analysis and its memos stay sound.
LEMMA StaysSound ==
  ASSUME NEW s, Sound(s), s.doc # None, NEW t, After(s, t)
  PROVE  Steps(s, t) /\ Lagging(t) /\ Sound(t)
<1>1. Base(t) /\ t.doc # None /\ t \in Session /\ s.doc \in Entry
  BY DEF After, Base, Sound, EntryOK
<1>2. t.featureSource = t.doc.source /\ MemosOf(t, t.doc.source)
  BY DEF After, Sound, MemosOf
<1>3. Sound(t)
  BY <1>1, <1>2 DEF Sound
<1>4. t.doc.version >= s.doc.version
  BY <1>1 DEF After, Entry
<1>5. Lagging(t)
  <2>1. t.doc.source \in Source
    BY <1>1 DEF Base, EntryOK, Entry
  <2>2. t.featureSource # None
    BY <1>2, <2>1, SourceAssumption
  <2> QED
    BY <1>1, <1>2, <2>2 DEF Lagging
<1> QED
  BY <1>3, <1>4, <1>5 DEF Steps

\* CompilerService tells the service what it compiled.
LEMMA OnCompiledKeeps ==
  ASSUME NEW s, Lagging(s)
  PROVE  /\ Sound(onCompiled(s))
         /\ onCompiled(s).doc # None
         /\ onCompiled(s).doc.version = s.doc.version
         /\ onCompiled(s).doc.source = s.doc.source
<1> DEFINE m == IF s.featureSource \notin { None, s.doc.source } THEN NoMemo ELSE s.memo
           t == [ s EXCEPT !.featureSource = s.doc.source, !.memo = m ]
<1>1. s \in Session /\ EntryOK(s.doc) /\ s.doc \in Entry /\ s.doc # None
  BY DEF Lagging, Base, EntryOK
<1>2. m \in [ Fingerprint -> (SUBSET Product) \cup { None } ]
  BY <1>1 DEF Session, NoMemo
<1>3. \A h \in Fingerprint : m[h] \in { None, { s.doc.source } }
  <2>1. CASE s.featureSource = None
    BY <2>1 DEF Lagging, NoMemo
  <2>2. CASE s.featureSource = s.doc.source /\ s.featureSource # None
    BY <2>2 DEF Lagging, MemosOf
  <2>3. CASE s.featureSource \notin { None, s.doc.source }
    BY <2>3 DEF NoMemo
  <2> QED
    BY <2>1, <2>2, <2>3
<1>4. onCompiled(s) = get(t)
  BY DEF onCompiled
<1> HIDE DEF m
<1>5. t.doc = s.doc /\ t.analysis = s.analysis /\ t.memo = m /\ t.featureSource = s.doc.source
  BY <1>1 DEF Session
<1>6. t \in Session
  BY <1>1, <1>2 DEF Session, Entry, Product
<1> HIDE DEF t
<1>7. Base(t)
  BY <1>1, <1>5, <1>6 DEF Base, Lagging
<1>8. Sound(t)
  BY <1>1, <1>3, <1>5, <1>6, <1>7 DEF Sound, MemosOf
<1>9. After(t, get(t))
  BY <1>7, GetKeeps
<1>10. Sound(get(t))
  BY <1>1, <1>5, <1>8, <1>9, StaysSound
<1> QED
  BY <1>1, <1>4, <1>5, <1>9, <1>10 DEF After, Base

\* Another entry of the same text under a sound document.
LEMMA SoundWithEntry ==
  ASSUME NEW s, Sound(s), s.doc # None, NEW e, EntryOK(e),
         e.language => s.doc.language, e.source = s.doc.source, e.version = s.doc.version
  PROVE  /\ Steps(s, [ s EXCEPT !.doc = e ])
         /\ Lagging([ s EXCEPT !.doc = e ])
         /\ Base([ s EXCEPT !.doc = e ])
         /\ [ s EXCEPT !.doc = e ].doc = e
<1>1. Base(s)
  BY DEF Sound
<1> DEFINE t == [ s EXCEPT !.doc = e ]
<1>2. After(s, t) /\ t.doc = e
  BY <1>1, WithEntry
<1> HIDE DEF t
<1>3. Steps(s, t) /\ Lagging(t)
  BY <1>2, StaysSound
<1> QED
  BY <1>2, <1>3 DEF t, Lagging

\* The compiler's update under a sound document, open or not.
LEMMA UpdateLags ==
  ASSUME NEW s, Sound(s), NEW text \in Source, NEW version \in Nat
  PROVE  LET r == [ s EXCEPT !.doc = updateDocument(s.doc, text, version) ]
         IN  /\ Lagging(r)
             /\ r.memo = s.memo /\ r.featureSource = s.featureSource
             /\ s.doc # None => r.doc.version >= s.doc.version
<1> DEFINE e == updateDocument(s.doc, text, version)
           r == [ s EXCEPT !.doc = e ]
<1>1. s \in Session
  BY DEF Sound
<1>2. s.doc # None => EntryOK(s.doc) /\ Base(s)
  BY DEF Sound, Base
<1>3. UpdateOf(s.doc, e)
  BY <1>2, UpdateKeeps
<1> HIDE DEF e
<1>4. EntryOK(e) /\ e \in Entry
  BY <1>3 DEF UpdateOf, EntryOK
<1>5. r.doc = e /\ r.analysis = s.analysis /\ r.memo = s.memo /\ r.featureSource = s.featureSource
  BY <1>1 DEF Session
<1>6. r \in Session
  BY <1>1, <1>4 DEF Session
<1> HIDE DEF r
<1>7. e.language => s.analysis # None /\ Drawn(s.analysis) = { e.source }
  BY <1>2, <1>3 DEF UpdateOf, Base
<1>8. Base(r)
  BY <1>4, <1>5, <1>6, <1>7, EntryAssumption DEF Base
<1>9. Lagging(r)
  <2>1. CASE s.doc = None
    <3>1. s.memo = NoMemo /\ s.featureSource = None
      BY <2>1 DEF Sound, NoSession
    <3> QED
      BY <1>5, <1>8, <3>1 DEF Lagging
  <2>2. CASE s.doc # None
    <3>1. s.featureSource = s.doc.source /\ MemosOf(s, s.doc.source)
      BY <2>2 DEF Sound
    <3>2. s.featureSource # None
      BY <2>2, <1>2, <3>1, SourceAssumption DEF EntryOK, Entry
    <3> QED
      BY <1>5, <1>8, <3>1, <3>2 DEF Lagging, MemosOf
  <2> QED
    BY <2>1, <2>2
<1> QED
  BY <1>3, <1>5, <1>9 DEF UpdateOf, e, r

\* The memos of a text are all a well-formed document needs besides to be sound.
LEMMA SoundWithMemo ==
  ASSUME NEW s, Base(s), NEW m \in [ Fingerprint -> (SUBSET Product) \cup { None } ],
         \A h \in Fingerprint : m[h] \in { None, { s.doc.source } }
  PROVE  LET t == [ s EXCEPT !.memo = m, !.featureSource = s.doc.source ]
         IN  Sound(t) /\ t.doc = s.doc
<1> DEFINE t == [ s EXCEPT !.memo = m, !.featureSource = s.doc.source ]
<1>1. s \in Session /\ s.doc # None /\ s.doc.source \in Source
  BY DEF Base, EntryOK, Entry
<1>2. t.doc = s.doc /\ t.analysis = s.analysis /\ t.memo = m /\ t.featureSource = s.doc.source
  BY <1>1 DEF Session
<1>3. t \in Session
  BY <1>1 DEF Session, Product
<1> HIDE DEF t
<1>4. Base(t)
  BY <1>2, <1>3 DEF Base
<1>5. Sound(t)
  BY <1>1, <1>2, <1>3, <1>4 DEF Sound, MemosOf
<1> QED
  BY <1>2, <1>5 DEF t

\* LanguageService.openDocument and updateDocument.
LEMMA OpenedSteps ==
  ASSUME NEW s, Sound(s), NEW text \in Source, NEW version \in Nat
  PROVE  Steps(s, Opened(s, text, version)) /\ Steps(s, Updated(s, text, version))
<1> DEFINE r == [ s EXCEPT !.doc = updateDocument(s.doc, text, version) ]
           t == syncAnalysis(r)
           kept == IF s.featureSource = t.analysis.source THEN t.memo ELSE NoMemo
<1>1. Lagging(r) /\ r.memo = s.memo /\ r.featureSource = s.featureSource
  BY UpdateLags
<1>2. s.doc # None => r.doc.version >= s.doc.version
  BY UpdateLags
<1>3. /\ Opened(s, text, version) =
            [ t EXCEPT !.memo = NoMemo, !.featureSource = t.analysis.source ]
      /\ Updated(s, text, version) =
            [ t EXCEPT !.memo = kept, !.featureSource = t.analysis.source ]
  BY DEF Opened, Updated
<1> HIDE DEF r
<1>4. After(r, t) /\ t.analysis.source = t.doc.source
  BY <1>1, SyncKeeps DEF Lagging, After
<1> HIDE DEF t
<1>5. Base(t) /\ t.memo = s.memo /\ t \in Session /\ t.doc.source \in Source
  BY <1>1, <1>4 DEF After, Base, EntryOK, Entry
<1>6. NoMemo \in [ Fingerprint -> (SUBSET Product) \cup { None } ]
  BY DEF NoMemo
<1>7. kept \in [ Fingerprint -> (SUBSET Product) \cup { None } ]
  BY <1>5, <1>6 DEF Session
<1>8. \A h \in Fingerprint : kept[h] \in { None, { t.doc.source } }
  <2>1. CASE s.featureSource = t.doc.source
    <3>1. MemosOf(r, t.doc.source)
      BY <1>1, <1>5, <2>1, SourceAssumption DEF Lagging
    <3> QED
      BY <1>1, <1>4, <1>5, <2>1, <3>1 DEF MemosOf
  <2>2. CASE s.featureSource # t.doc.source
    BY <1>4, <2>2 DEF NoMemo
  <2> QED
    BY <2>1, <2>2
<1>9. \A h \in Fingerprint : NoMemo[h] \in { None, { t.doc.source } }
  BY DEF NoMemo
<1> HIDE DEF kept
<1>10. t.doc.version = r.doc.version
  BY <1>4 DEF After
<1> DEFINE a == [ t EXCEPT !.memo = NoMemo, !.featureSource = t.doc.source ]
           b == [ t EXCEPT !.memo = kept, !.featureSource = t.doc.source ]
<1>11. Sound(a) /\ a.doc = t.doc
  BY <1>5, <1>6, <1>9, SoundWithMemo
<1>12. Sound(b) /\ b.doc = t.doc
  BY <1>5, <1>7, <1>8, SoundWithMemo
<1>13. Opened(s, text, version) = a /\ Updated(s, text, version) = b
  BY <1>3, <1>4
<1> HIDE DEF a, b
<1> QED
  BY <1>2, <1>10, <1>11, <1>12, <1>13 DEF Steps

\* CompilerService.openDocument and updateDocument.
LEMMA FacadeUpdateSteps ==
  ASSUME NEW s, Sound(s), NEW text \in Source, NEW version \in Nat
  PROVE  Steps(s, onCompiled([ s EXCEPT !.doc = updateDocument(s.doc, text, version) ]))
<1> DEFINE r == [ s EXCEPT !.doc = updateDocument(s.doc, text, version) ]
<1>1. Lagging(r)
  BY UpdateLags
<1>2. s.doc # None => r.doc.version >= s.doc.version
  BY UpdateLags
<1> HIDE DEF r
<1>3. Sound(onCompiled(r)) /\ onCompiled(r).doc.version = r.doc.version
  BY <1>1, OnCompiledKeeps
<1>4. Steps(s, onCompiled(r))
  BY <1>2, <1>3 DEF Steps
<1> QED
  BY <1>4 DEF r

\* A query steps a sound, open document on.
LEMMA GetSteps ==
  ASSUME NEW s, Sound(s), s.doc # None
  PROVE  Steps(s, get(s)) /\ Sound(get(s)) /\ get(s).doc # None
         /\ get(s).doc.version = s.doc.version
<1>1. After(s, get(s))
  BY GetKeeps DEF Sound
<1> QED
  BY <1>1, StaysSound DEF After, Base

\* Two steps of a call make one.
LEMMA StepsCompose ==
  ASSUME NEW s, Sound(s), NEW r, Steps(s, r), r.doc # None, NEW t, Steps(r, t)
  PROVE  Steps(s, t)
<1>1. CASE s.doc = None \/ t.doc = None
  BY <1>1 DEF Steps
<1>2. CASE s.doc # None /\ t.doc # None
  <2>1. s.doc.version \in Nat /\ r.doc.version \in Nat /\ t.doc.version \in Nat
    BY <1>2 DEF Steps, Sound, Base, EntryOK, Entry
  <2> QED
    BY <1>2, <2>1 DEF Steps
<1> QED
  BY <1>1, <1>2

\* Nothing happens to the documents a call does not touch.
LEMMA StaysPut ==
  ASSUME NEW s, Sound(s)
  PROVE  Steps(s, s)
<1>1. s.doc # None => s.doc.version \in Nat
  BY DEF Sound, Base, EntryOK, Entry
<1> QED
  BY <1>1 DEF Steps

\* hover and completion: the answer is about the current text, and is kept.
LEMMA HoverSteps ==
  ASSUME NEW s, Sound(s), s.doc # None
  PROVE  /\ Steps(s, hover(s)) /\ hover(s).doc # None
         /\ HoverSays(s) = { s.doc.source }
<1> DEFINE t == get(s)
           h == Hash[t.analysis.source]
           now == s.doc.source
<1>1. /\ After(s, t) /\ Drawn(t.analysis) = { now } /\ t.analysis.source = now
  BY GetKeeps DEF Sound
<1>2. Steps(s, t) /\ Sound(t)
  BY <1>1, StaysSound
<1> HIDE DEF t
<1>3. t.doc # None /\ t \in Session /\ t.doc.source = now /\ now \in Source
      /\ t.doc.version = s.doc.version /\ Base(t)
  BY <1>1 DEF After, Base, EntryOK, Entry
<1>4. h \in Fingerprint
  BY <1>1, <1>3 DEF Fingerprint
<1>5. t.featureSource = now /\ \A g \in Fingerprint : t.memo[g] \in { None, { now } }
  BY <1>2, <1>3 DEF Sound, MemosOf
<1>6. t.memo \in [ Fingerprint -> (SUBSET Product) \cup { None } ]
  BY <1>3 DEF Session
<1>7. CASE t.memo[h] # None
  <2>1. hover(s) = t
    BY <1>7 DEF hover, t
  <2>2. HoverSays(s) = t.memo[h]
    BY <2>1 DEF HoverSays
  <2> QED
    BY <1>2, <1>3, <1>4, <1>5, <1>7, <2>1, <2>2
<1>8. CASE t.memo[h] = None
  <2> DEFINE m == [ t.memo EXCEPT ![h] = { now } ]
             n == [ t EXCEPT !.memo = m, !.featureSource = t.doc.source ]
  <2>1. m \in [ Fingerprint -> (SUBSET Product) \cup { None } ]
    BY <1>3, <1>6 DEF Product
  <2>2. \A g \in Fingerprint : m[g] \in { None, { t.doc.source } }
    BY <1>3, <1>4, <1>5, <1>6
  <2>3. m[h] = { now }
    BY <1>4, <1>6
  <2>4. n = [ t EXCEPT !.memo[h] = { now } ]
    BY <1>3, <1>5 DEF Session
  <2>5. hover(s) = n
    BY <1>1, <1>8, <2>4 DEF hover, t
  <2> HIDE DEF m
  <2>6. Sound(n) /\ n.doc = t.doc
    BY <1>3, <2>1, <2>2, SoundWithMemo
  <2>7. n.memo = m /\ n.analysis = t.analysis
    BY <1>3 DEF Session
  <2> HIDE DEF n
  <2>8. HoverSays(s) = { now }
    BY <2>3, <2>5, <2>7 DEF HoverSays
  <2>9. Steps(s, n)
    BY <1>2, <1>3, <2>6 DEF Steps
  <2> QED
    BY <1>3, <2>5, <2>6, <2>8, <2>9
<1> QED
  BY <1>7, <1>8

\* Invalidating an open document.
LEMMA InvalidateSteps ==
  ASSUME NEW s, Sound(s), s.doc # None, NEW from \in Stage
  PROVE  Steps(s, [ s EXCEPT !.doc = Invalidate(s.doc, from) ])
<1>1. EntryOK(s.doc)
  BY DEF Sound, Base
<1> DEFINE e == Invalidate(s.doc, from)
<1>2. /\ EntryOK(e) /\ e.version = s.doc.version /\ e.source = s.doc.source
      /\ e.language => s.doc.language
  BY <1>1, InvalidateKeeps
<1> HIDE DEF e
<1>3. Steps(s, [ s EXCEPT !.doc = e ])
  BY <1>2, SoundWithEntry
<1> QED
  BY <1>3 DEF e

\* A compile, by the compiler alone or with the service told of it.
LEMMA CompileSteps ==
  ASSUME NEW s, Sound(s), s.doc # None, NEW upTo \in { "parse", "check" }, NEW force \in BOOLEAN
  PROVE  LET r == [ s EXCEPT !.doc = compile(s.doc, upTo, force) ]
         IN  /\ Steps(s, r) /\ r.doc # None
             /\ Steps(s, onCompiled(r)) /\ onCompiled(r).doc # None
             /\ Steps(s, get(r))
<1>1. EntryOK(s.doc)
  BY DEF Sound, Base
<1> DEFINE e == compile(s.doc, upTo, force)
           r == [ s EXCEPT !.doc = e ]
<1>2. /\ EntryOK(e) /\ e.version = s.doc.version /\ e.source = s.doc.source
      /\ e.language => s.doc.language
  BY <1>1, CompileKeeps
<1> HIDE DEF e
<1>3. Steps(s, r) /\ Lagging(r) /\ Base(r) /\ r.doc = e
  BY <1>2, SoundWithEntry
<1> HIDE DEF r
<1>4. Sound(r) /\ r.doc # None
  BY <1>3 DEF Steps, Base
<1>5. /\ Sound(onCompiled(r)) /\ onCompiled(r).doc # None
      /\ onCompiled(r).doc.version = r.doc.version
  BY <1>3, OnCompiledKeeps
<1>6. Steps(s, onCompiled(r))
  BY <1>3, <1>5, <1>4 DEF Steps
<1>7. Steps(r, get(r))
  BY <1>4, GetSteps
<1>8. Steps(s, get(r))
  BY <1>3, <1>4, <1>7, StepsCompose
<1> QED
  BY <1>3, <1>4, <1>5, <1>6, <1>8 DEF e, r

-----------------------------------------------------------------------------
(* The session *)

Sessions == session \in [ Uri -> Session ] /\ \A v \in Uri : Sound(session[v])

\* No document is set back, and all stay sound.
Advances == /\ session' \in [ Uri -> Session ]
            /\ \A v \in Uri : Steps(session[v], session'[v])

\* The effect of a call is that on its document and that on the others.
LEMMA CallAdvances ==
  ASSUME Sessions, NEW u \in Uri, NEW f \in [ Uri -> Session ],
         \A v \in Uri : Steps(session[v], f[v]),
         NEW t, Steps(session[u], t), session' = [ f EXCEPT ![u] = t ]
  PROVE  Advances
<1>1. t \in Session
  BY DEF Steps, Sound
<1>2. session' \in [ Uri -> Session ]
  BY <1>1
<1>3. ASSUME NEW v \in Uri PROVE Steps(session[v], session'[v])
  BY DEF Sessions
<1> QED
  BY <1>2, <1>3 DEF Advances

\* A call that touches one document advances them all when it advances that one.
LEMMA OneAdvances ==
  ASSUME Sessions, NEW u \in Uri, NEW t, Steps(session[u], t),
         session' = [ session EXCEPT ![u] = t ]
  PROVE  Advances
<1>1. session \in [ Uri -> Session ] /\ \A v \in Uri : Steps(session[v], session[v])
  BY StaysPut DEF Sessions
<1> QED
  BY <1>1, CallAdvances

\* Spoiling its dependents leaves every document sound and steps it on.
LEMMA SpoiledSteps ==
  ASSUME Sessions, NEW u \in Uri, NEW from \in Stage
  PROVE  /\ Spoiled(u, from) \in [ Uri -> Session ]
         /\ \A v \in Uri : Steps(session[v], Spoiled(u, from)[v])
<1>1. ASSUME NEW v \in Uri
      PROVE  Steps(session[v], Spoiled(u, from)[v]) /\ Spoiled(u, from)[v] \in Session
  <2>1. Sound(session[v])
    BY DEF Sessions
  <2>2. CASE v \in transitiveDependents(graph, u) /\ IsOpen(v)
    <3>1. Steps(session[v], [ session[v] EXCEPT !.doc = Invalidate(session[v].doc, from) ])
      BY <2>1, <2>2, InvalidateSteps DEF IsOpen
    <3> QED
      BY <2>2, <3>1 DEF Spoiled, Steps, Sound
  <2>3. CASE ~ (v \in transitiveDependents(graph, u) /\ IsOpen(v))
    BY <2>1, <2>3, StaysPut DEF Spoiled, Sound
  <2> QED
    BY <2>2, <2>3
<1>2. Spoiled(u, from) = [ v \in Uri |-> Spoiled(u, from)[v] ]
  BY DEF Spoiled
<1> QED
  BY <1>1, <1>2

\* So does what an update does around the document it writes.
LEMMA AroundSteps ==
  ASSUME Sessions, NEW u \in Uri, NEW text, NEW version
  PROVE  /\ Around(u, text, version) \in [ Uri -> Session ]
         /\ \A v \in Uri : Steps(session[v], Around(u, text, version)[v])
<1>1. "parse" \in Stage
  BY DEF Stage, STAGE_ORDER
<1>2. \A v \in Uri : Steps(session[v], session[v])
  BY StaysPut DEF Sessions
<1> QED
  BY <1>1, <1>2, SpoiledSteps DEF Around, Sessions

\* A closed document is sound.
LEMMA ClosedIsSound ==
  Sound(NoSession) /\ \A s : Steps(s, NoSession)
<1>1. NoSession \in Session /\ NoSession.doc = None
  BY DEF NoSession, Session, NoMemo, Product
<1> QED
  BY <1>1 DEF Sound, Steps

\* One call of a client: every action takes the documents one step on.
LEMMA NextAdvances ==
  ASSUME Sessions, Next
  PROVE  Advances
<1> USE DEF Sessions
<1>1. ASSUME NEW u \in Uri, NEW text \in Source, NEW version \in 0..MaxVersion,
             OpenDocument(u, text, version)
      PROVE  Advances
  <2>1. version \in Nat
    BY BoundAssumption
  <2>2. Steps(session[u], Opened(session[u], text, version))
    BY <2>1, OpenedSteps
  <2> QED
    BY <1>1, <2>2, AroundSteps, CallAdvances DEF OpenDocument
<1>2. ASSUME NEW u \in Uri, NEW text \in Source, NEW version \in 0..MaxVersion,
             UpdateDocument(u, text, version)
      PROVE  Advances
  <2>1. version \in Nat
    BY BoundAssumption
  <2>2. Steps(session[u], Updated(session[u], text, version))
    BY <2>1, OpenedSteps
  <2> QED
    BY <1>2, <2>2, AroundSteps, CallAdvances DEF UpdateDocument
<1>3. ASSUME NEW u \in Uri, NEW text \in Source, NEW version \in 0..MaxVersion,
             FacadeUpdate(u, text, version)
      PROVE  Advances
  <2>1. version \in Nat
    BY BoundAssumption
  <2> DEFINE f == Around(u, text, version)
             r == [ session[u] EXCEPT !.doc = updateDocument(session[u].doc, text, version) ]
  <2>2. Steps(session[u], onCompiled(r))
    BY <2>1, FacadeUpdateSteps
  <2>3. session' = [ f EXCEPT ![u] = onCompiled(r) ]
    BY <1>3 DEF FacadeUpdate
  <2>4. f \in [ Uri -> Session ] /\ \A v \in Uri : Steps(session[v], f[v])
    BY AroundSteps
  <2> HIDE DEF f, r
  <2> QED
    BY <2>2, <2>3, <2>4, CallAdvances
<1>4. ASSUME NEW u \in Uri, NEW text \in Source, Analyze(u, text)
      PROVE  Advances
  <2> DEFINE s == IF IsOpen(u) THEN get(session[u]) ELSE session[u]
             version == IF IsOpen(u) THEN s.doc.version + 1 ELSE 1
             f == Around(u, text, version)
  <2>1. session' = [ f EXCEPT ![u] = Updated(s, text, version) ]
    BY <1>4 DEF Analyze
  <2>2. f \in [ Uri -> Session ] /\ \A v \in Uri : Steps(session[v], f[v])
    BY AroundSteps
  <2>3. Steps(session[u], Updated(s, text, version))
    <3>1. CASE IsOpen(u)
      <4>1. Steps(session[u], s) /\ Sound(s) /\ s.doc # None
        BY <3>1, GetSteps DEF IsOpen
      <4>2. s.doc.version + 1 \in Nat
        BY <4>1 DEF Sound, Base, EntryOK, Entry
      <4>3. version \in Nat
        BY <3>1, <4>2
      <4> HIDE DEF s, version
      <4>4. Steps(s, Updated(s, text, version))
        BY <4>1, <4>3, OpenedSteps
      <4> QED
        BY <4>1, <4>4, StepsCompose
    <3>2. CASE ~ IsOpen(u)
      <4>1. s = session[u] /\ version = 1
        BY <3>2
      <4> QED
        BY <4>1, OpenedSteps
    <3> QED
      BY <3>1, <3>2
  <2> HIDE DEF f, s, version
  <2> QED
    BY <2>1, <2>2, <2>3, CallAdvances
<1>5. ASSUME NEW u \in Uri, CloseDocument(u) PROVE Advances
  BY <1>5, ClosedIsSound, OneAdvances DEF CloseDocument
<1>6. ASSUME NEW u \in Uri, Compile(u) PROVE Advances
  <2> DEFINE t == get([ session[u] EXCEPT !.doc = compile(session[u].doc, "check", FALSE) ])
  <2>1. Steps(session[u], t)
    BY <1>6, CompileSteps DEF Compile, IsOpen
  <2>2. session' = [ session EXCEPT ![u] = t ]
    BY <1>6 DEF Compile, Leaves, Full
  <2> HIDE DEF t
  <2> QED
    BY <2>1, <2>2, OneAdvances
<1>7. ASSUME NEW u \in Uri, Query(u) PROVE Advances
  BY <1>7, GetSteps, OneAdvances DEF Query, IsOpen, Leaves
<1>8. ASSUME NEW u \in Uri, Hover(u) PROVE Advances
  BY <1>8, HoverSteps, OneAdvances DEF Hover, IsOpen, Leaves
<1>9. ASSUME NEW u \in Uri, FacadeHover(u) PROVE Advances
  <2> DEFINE t == onCompiled([ session[u] EXCEPT !.doc = compile(session[u].doc, "check", FALSE) ])
  <2>1. Steps(session[u], t) /\ t.doc # None
    BY <1>9, CompileSteps DEF FacadeHover, IsOpen
  <2>2. session' = [ session EXCEPT ![u] = hover(t) ]
    BY <1>9 DEF FacadeHover, Leaves, Full
  <2> HIDE DEF t
  <2>3. Steps(t, hover(t))
    BY <2>1, HoverSteps DEF Steps
  <2>4. Steps(session[u], hover(t))
    BY <2>1, <2>3, StepsCompose
  <2> QED
    BY <2>2, <2>4, OneAdvances
<1>10. ASSUME NEW u \in Uri, GetDiagnostics(u) PROVE Advances
  <2> DEFINE t == [ session[u] EXCEPT !.doc = compile(session[u].doc, "check", FALSE) ]
  <2>1. Steps(session[u], t)
    BY <1>10, CompileSteps DEF GetDiagnostics, IsOpen
  <2>2. session' = [ session EXCEPT ![u] = t ]
    BY <1>10 DEF GetDiagnostics, Leaves, Full
  <2> HIDE DEF t
  <2> QED
    BY <2>1, <2>2, OneAdvances
<1>11. ASSUME NEW u \in Uri, GetAst(u) PROVE Advances
  <2> DEFINE t == [ session[u] EXCEPT !.doc = compile(session[u].doc, "parse", FALSE) ]
  <2>1. Steps(session[u], t)
    BY <1>11, CompileSteps DEF GetAst, IsOpen
  <2>2. session' = [ session EXCEPT ![u] = t ]
    BY <1>11 DEF GetAst, Leaves
  <2> HIDE DEF t
  <2> QED
    BY <2>1, <2>2, OneAdvances
<1>12. ASSUME NEW u \in Uri, NEW from \in { "source", "check", "language" },
              NEW others \in BOOLEAN, invalidate(u, from, others)
       PROVE  Advances
  <2> DEFINE f == IF others THEN Spoiled(u, from) ELSE session
             t == [ f[u] EXCEPT !.doc = IF f[u].doc = None THEN None
                                        ELSE Invalidate(f[u].doc, from) ]
  <2>1. from \in Stage
    BY DEF Stage, STAGE_ORDER
  <2>2. f \in [ Uri -> Session ] /\ \A v \in Uri : Steps(session[v], f[v])
    BY <2>1, SpoiledSteps, StaysPut
  <2>3. session' = [ f EXCEPT ![u] = t ]
    BY <1>12, <2>2 DEF invalidate
  <2> HIDE DEF f
  <2>4. Steps(session[u], f[u]) /\ Sound(f[u]) /\ f[u] \in Session
    BY <2>2 DEF Steps, Sound
  <2>5. Steps(f[u], t)
    <3>1. CASE f[u].doc = None
      <4>1. t = f[u]
        BY <2>4, <3>1 DEF Session
      <4> QED
        BY <2>4, <4>1, StaysPut
    <3>2. CASE f[u].doc # None
      BY <2>1, <2>4, <3>2, InvalidateSteps
    <3> QED
      BY <3>1, <3>2
  <2>6. Steps(session[u], t)
    <3>1. CASE f[u].doc = None
      <4>1. t = f[u]
        BY <2>4, <3>1 DEF Session
      <4> QED
        BY <2>4, <4>1
    <3>2. CASE f[u].doc # None
      <4> HIDE DEF t
      <4> QED
        BY <2>4, <2>5, <3>2, StepsCompose
    <3> QED
      BY <3>1, <3>2
  <2> HIDE DEF t
  <2> QED
    BY <2>2, <2>3, <2>6, CallAdvances
<1>13. ASSUME NEW u \in Uri, NEW upTo \in { "parse", "check" }, NEW force \in BOOLEAN,
              FacadeCompile(u, upTo, force)
       PROVE  Advances
  <2> DEFINE t == onCompiled([ session[u] EXCEPT !.doc = compile(session[u].doc, upTo, force) ])
  <2>1. Steps(session[u], t)
    BY <1>13, CompileSteps DEF FacadeCompile, IsOpen
  <2>2. session' = [ session EXCEPT ![u] = t ]
    BY <1>13 DEF FacadeCompile, Leaves
  <2> HIDE DEF t
  <2> QED
    BY <2>1, <2>2, OneAdvances
<1>14. ASSUME NEW u \in Uri, NEW list \in SUBSET Uri, SetDependencies(u, list)
       PROVE  Advances
  BY <1>14, StaysPut DEF SetDependencies, Advances
<1>15. ASSUME WorkspaceSymbols PROVE Advances
  <2>1. ASSUME NEW v \in Uri
        PROVE  Steps(session[v], session'[v]) /\ session'[v] \in Session
    <3>1. CASE IsOpen(v)
      <4>1. After(session[v], syncAnalysis(session[v]))
        BY <3>1, SyncKeeps DEF IsOpen, Sound
      <4>2. session'[v] = syncAnalysis(session[v])
        BY <1>15, <3>1 DEF WorkspaceSymbols
      <4>3. Steps(session[v], session'[v])
        BY <3>1, <4>1, <4>2, StaysSound DEF IsOpen
      <4> QED
        BY <4>3 DEF Steps, Sound
    <3>2. CASE ~ IsOpen(v)
      BY <1>15, <3>2, StaysPut DEF WorkspaceSymbols
    <3> QED
      BY <3>1, <3>2
  <2>2. session' = [ v \in Uri |-> session'[v] ]
    BY <1>15 DEF WorkspaceSymbols
  <2> QED
    BY <2>1, <2>2 DEF Advances
<1> QED
  BY <1>1, <1>2, <1>3, <1>4, <1>5, <1>6, <1>7, <1>8, <1>9, <1>10, <1>11, <1>12,
     <1>13, <1>14, <1>15 DEF Next

-----------------------------------------------------------------------------
(* Texts: only a write gives a document another one *)

Keeps(s, t) == s.doc # None /\ t.doc # None => t.doc.source = s.doc.source

\* The compiler's update keeps the text when it is late or brings the same one.
LEMMA UpdateText ==
  ASSUME NEW s, Sound(s), s.doc # None, NEW text \in Source, NEW version \in Nat,
         ~ Changes(s.doc, text, version)
  PROVE  updateDocument(s.doc, text, version).source = s.doc.source
<1> DEFINE e == s.doc
           n == [ e EXCEPT !.version = version ]
<1>1. EntryOK(e) /\ e \in Entry /\ e.version \in Nat
  BY DEF Sound, Base, EntryOK, Entry
<1>2. CASE version < e.version
  BY <1>1, <1>2, FullKeeps DEF updateDocument
<1>3. CASE ~ (version < e.version)
  <2>1. text = e.source
    BY <1>1, <1>3 DEF Changes
  <2>2. updateDocument(e, text, version) = Full(n)
    BY <1>3, <2>1 DEF updateDocument
  <2>3. n.source = e.source
    BY <1>1 DEF Entry
  <2>4. EntryOK(n)
    BY <1>1 DEF EntryOK, Entry
  <2> HIDE DEF n
  <2> QED
    BY <2>2, <2>3, <2>4, FullKeeps
<1> QED
  BY <1>2, <1>3

\* So do the three entries for updates.
LEMMA WriteText ==
  ASSUME NEW s, Sound(s), NEW text \in Source, NEW version \in Nat,
         ~ Changes(s.doc, text, version)
  PROVE  /\ Keeps(s, Opened(s, text, version))
         /\ Keeps(s, Updated(s, text, version))
         /\ Keeps(s, onCompiled([ s EXCEPT !.doc = updateDocument(s.doc, text, version) ]))
<1> SUFFICES ASSUME s.doc # None
             PROVE  /\ Opened(s, text, version).doc.source = s.doc.source
                    /\ Updated(s, text, version).doc.source = s.doc.source
                    /\ onCompiled([ s EXCEPT !.doc = updateDocument(s.doc, text, version) ]).doc.source
                         = s.doc.source
  BY DEF Keeps
<1> DEFINE e == updateDocument(s.doc, text, version)
           r == [ s EXCEPT !.doc = e ]
           t == syncAnalysis(r)
<1>1. e.source = s.doc.source
  BY UpdateText
<1>2. Lagging(r) /\ Base(r)
  BY UpdateLags DEF Lagging
<1>3. s \in Session
  BY DEF Sound
<1> HIDE DEF e
<1>4. r.doc = e
  BY <1>3 DEF Session
<1>5. Opened(s, text, version) = [ t EXCEPT !.memo = NoMemo, !.featureSource = t.analysis.source ]
  BY DEF Opened, e
<1>6. \E m : Updated(s, text, version) =
               [ t EXCEPT !.memo = m, !.featureSource = t.analysis.source ]
  BY DEF Updated, e
<1>7. After(r, t) /\ onCompiled(r).doc.source = r.doc.source
  BY <1>2, SyncKeeps, OnCompiledKeeps
<1> HIDE DEF r
<1>8. t \in Session /\ t.doc.source = e.source
  BY <1>4, <1>7 DEF After, Base
<1> HIDE DEF t
<1>9. Opened(s, text, version).doc = t.doc /\ Updated(s, text, version).doc = t.doc
  BY <1>5, <1>6, <1>8 DEF Session
<1> QED
  BY <1>1, <1>4, <1>7, <1>8, <1>9 DEF e, r

\* Questions, compiles and invalidations leave the text alone.
LEMMA ReadText ==
  ASSUME NEW s, Sound(s), s.doc # None
  PROVE  /\ get(s).doc.source = s.doc.source
         /\ get(s).doc.version = s.doc.version
         /\ hover(s).doc.source = s.doc.source
         /\ syncAnalysis(s).doc.source = s.doc.source
<1>1. Base(s)
  BY DEF Sound
<1>2. After(s, get(s)) /\ After(s, syncAnalysis(s))
  BY <1>1, GetKeeps, SyncKeeps
<1> DEFINE t == get(s)
<1>3. hover(s) = t \/ \E h : hover(s) = [ t EXCEPT !.memo[h] = Drawn(t.analysis) ]
  BY DEF hover
<1>4. t \in Session
  BY <1>2 DEF After, Base
<1> HIDE DEF t
<1>5. hover(s).doc = t.doc
  BY <1>3, <1>4 DEF Session
<1> QED
  BY <1>2, <1>5 DEF After, t

\* A compile leaves the text alone, whoever is told of it.
LEMMA CompileText ==
  ASSUME NEW s, Sound(s), s.doc # None, NEW upTo \in { "parse", "check" }, NEW force \in BOOLEAN
  PROVE  LET r == [ s EXCEPT !.doc = compile(s.doc, upTo, force) ]
         IN  /\ r.doc.source = s.doc.source /\ get(r).doc.source = s.doc.source
             /\ onCompiled(r).doc.source = s.doc.source
             /\ hover(onCompiled(r)).doc.source = s.doc.source
<1>1. EntryOK(s.doc)
  BY DEF Sound, Base
<1> DEFINE e == compile(s.doc, upTo, force)
           r == [ s EXCEPT !.doc = e ]
<1>2. /\ EntryOK(e) /\ e.version = s.doc.version /\ e.source = s.doc.source
      /\ e.language => s.doc.language
  BY <1>1, CompileKeeps
<1> HIDE DEF e
<1>3. Steps(s, r) /\ Lagging(r) /\ Base(r) /\ r.doc = e
  BY <1>2, SoundWithEntry
<1> HIDE DEF r
<1>4. /\ Sound(onCompiled(r)) /\ onCompiled(r).doc # None
      /\ onCompiled(r).doc.source = r.doc.source
  BY <1>3, OnCompiledKeeps
<1>5. Sound(r) /\ r.doc # None
  BY <1>3 DEF Steps, Base
<1>6. get(r).doc.source = r.doc.source
  BY <1>5, ReadText
<1>7. hover(onCompiled(r)).doc.source = onCompiled(r).doc.source
  BY <1>4, ReadText
<1> QED
  BY <1>2, <1>3, <1>4, <1>6, <1>7 DEF e, r

\* Spoiling others changes no text.
LEMMA SpoiledText ==
  ASSUME Sessions, NEW u, NEW from \in Stage, NEW v \in Uri
  PROVE  Keeps(session[v], Spoiled(u, from)[v])
<1> DEFINE s == session[v]
           t == [ s EXCEPT !.doc = Invalidate(s.doc, from) ]
<1>1. Spoiled(u, from)[v] \in { s, t } /\ (Spoiled(u, from)[v] = t => s.doc # None \/ t = s)
  BY DEF Spoiled, IsOpen
<1>2. ASSUME s.doc # None PROVE t.doc.source = s.doc.source
  <2>1. s \in Session /\ EntryOK(s.doc)
    BY <1>2 DEF Sessions, Sound, Base
  <2> DEFINE e == Invalidate(s.doc, from)
  <2>2. e.source = s.doc.source
    BY <2>1, InvalidateKeeps
  <2> HIDE DEF e, s
  <2>3. t.doc = e
    BY <2>1 DEF Session, e
  <2> QED
    BY <2>2, <2>3
<1> HIDE DEF s, t
<1>3. Keeps(s, Spoiled(u, from)[v])
  BY <1>1, <1>2 DEF Keeps
<1> QED
  BY <1>3 DEF s

\* An open document that stays open has another text after the step.
Rewritten(u) == /\ IsOpen(u) /\ session'[u].doc # None
                /\ session[u].doc.source # session'[u].doc.source

\* What the others are left with when a document is rewritten.
OthersSpoiled ==
  \A u, v \in Uri : Rewritten(u) /\ v # u => session'[v] = Spoiled(u, "parse")[v]

\* A call that keeps every text rewrites nothing.
LEMMA QuietCall ==
  ASSUME Sessions, NEW u \in Uri, NEW f \in [ Uri -> Session ],
         \A v \in Uri : Keeps(session[v], f[v]),
         NEW t, Keeps(session[u], t), session' = [ f EXCEPT ![u] = t ]
  PROVE  OthersSpoiled
<1>1. \A v \in Uri : Keeps(session[v], session'[v])
  OBVIOUS
<1> QED
  BY <1>1 DEF Keeps, Rewritten, OthersSpoiled, IsOpen

\* A question to one document is such a call.
LEMMA QuietQuestion ==
  ASSUME Sessions, NEW u \in Uri, NEW t, t.doc.source = session[u].doc.source,
         session' = [ session EXCEPT ![u] = t ]
  PROVE  OthersSpoiled
<1>1. \A v \in Uri : Keeps(session[v], session[v])
  BY DEF Keeps
<1>2. Keeps(session[u], t)
  BY DEF Keeps
<1> QED
  BY <1>1, <1>2, QuietCall DEF Sessions

\* A call that writes one document spoils its dependents if it rewrites it.
LEMMA WritingCall ==
  ASSUME Sessions, NEW u \in Uri, NEW text, NEW version, NEW t,
         ~ Changes(session[u].doc, text, version) => Keeps(session[u], t),
         session' = [ Around(u, text, version) EXCEPT ![u] = t ]
  PROVE  OthersSpoiled
<1>1. Around(u, text, version) \in [ Uri -> Session ]
  BY AroundSteps
<1>2. \A v \in Uri : Keeps(session[v], Around(u, text, version)[v])
  <2>1. "parse" \in Stage
    BY DEF Stage, STAGE_ORDER
  <2> QED
    BY <2>1, SpoiledText DEF Around, Keeps
<1>3. CASE ~ Changes(session[u].doc, text, version)
  <2> DEFINE f == Around(u, text, version)
  <2> HIDE DEF f
  <2>1. f \in [ Uri -> Session ] /\ \A v \in Uri : Keeps(session[v], f[v])
    BY <1>1, <1>2 DEF f
  <2>2. session' = [ f EXCEPT ![u] = t ]
    BY DEF f
  <2> QED
    BY <1>3, <2>1, <2>2, QuietCall
<1>4. CASE Changes(session[u].doc, text, version)
  <2> SUFFICES ASSUME NEW w \in Uri, NEW v \in Uri, Rewritten(w), v # w
               PROVE  session'[v] = Spoiled(w, "parse")[v]
    BY DEF OthersSpoiled
  <2>1. Around(u, text, version) = Spoiled(u, "parse")
    BY <1>4 DEF Around
  <2>2. w # u => session'[w] = Around(u, text, version)[w]
    BY <1>1
  <2>3. w = u
    BY <1>2, <2>2 DEF Keeps, Rewritten, IsOpen
  <2> QED
    BY <1>1, <2>1, <2>3
<1> QED
  BY <1>3, <1>4

\* One call of a client: only the writes rewrite a document, and they spoil.
LEMMA NextSpoils ==
  ASSUME Sessions, Next
  PROVE  OthersSpoiled
<1> USE DEF Sessions
<1>1. ASSUME NEW u \in Uri, NEW text \in Source, NEW version \in 0..MaxVersion,
             OpenDocument(u, text, version) \/ UpdateDocument(u, text, version)
               \/ FacadeUpdate(u, text, version)
      PROVE  OthersSpoiled
  <2> DEFINE s == session[u]
             r == [ s EXCEPT !.doc = updateDocument(s.doc, text, version) ]
  <2>1. version \in Nat
    BY BoundAssumption
  <2>2. ~ Changes(s.doc, text, version) =>
          /\ Keeps(s, Opened(s, text, version)) /\ Keeps(s, Updated(s, text, version))
          /\ Keeps(s, onCompiled(r))
    BY <2>1, WriteText
  <2>3. \/ session' = [ Around(u, text, version) EXCEPT ![u] = Opened(s, text, version) ]
        \/ session' = [ Around(u, text, version) EXCEPT ![u] = Updated(s, text, version) ]
        \/ session' = [ Around(u, text, version) EXCEPT ![u] = onCompiled(r) ]
    BY <1>1 DEF OpenDocument, UpdateDocument, FacadeUpdate
  <2> HIDE DEF r
  <2> QED
    BY <2>2, <2>3, WritingCall
<1>2. ASSUME NEW u \in Uri, NEW text \in Source, Analyze(u, text)
      PROVE  OthersSpoiled
  <2> DEFINE s == IF IsOpen(u) THEN get(session[u]) ELSE session[u]
             version == IF IsOpen(u) THEN s.doc.version + 1 ELSE 1
  <2>1. session' = [ Around(u, text, version) EXCEPT ![u] = Updated(s, text, version) ]
    BY <1>2 DEF Analyze
  <2>2. ASSUME ~ Changes(session[u].doc, text, version)
        PROVE  Keeps(session[u], Updated(s, text, version))
    <3> SUFFICES ASSUME IsOpen(u) PROVE Keeps(session[u], Updated(s, text, version))
      BY DEF Keeps, IsOpen
    <3>1. /\ s = get(session[u]) /\ version = s.doc.version + 1
          /\ session[u].doc # None
      BY DEF IsOpen
    <3>2. Sound(s) /\ s.doc # None
      BY <3>1, GetSteps
    <3>3. s.doc.source = session[u].doc.source /\ s.doc.version = session[u].doc.version
      BY <3>1, ReadText
    <3>4. s.doc.version + 1 \in Nat
      BY <3>2 DEF Sound, Base, EntryOK, Entry
    <3>5. ~ Changes(s.doc, text, version)
      BY <2>2, <3>1, <3>2, <3>3 DEF Changes
    <3>6. version \in Nat
      BY <3>1, <3>4
    <3> HIDE DEF s, version
    <3>7. Keeps(s, Updated(s, text, version))
      BY <3>2, <3>5, <3>6, WriteText
    <3> QED
      BY <3>2, <3>3, <3>7 DEF Keeps
  <2> HIDE DEF s, version
  <2> QED
    BY <2>1, <2>2, WritingCall
<1>3. ASSUME NEW u \in Uri, CloseDocument(u) PROVE OthersSpoiled
  <2>1. Keeps(session[u], NoSession) /\ \A v \in Uri : Keeps(session[v], session[v])
    BY DEF Keeps, NoSession
  <2> QED
    BY <1>3, <2>1, QuietCall DEF CloseDocument
<1>4. ASSUME NEW u \in Uri, Query(u) \/ Hover(u)
      PROVE  OthersSpoiled
  <2>1. session[u].doc # None
    BY <1>4 DEF Query, Hover, IsOpen
  <2>2. \/ session' = [ session EXCEPT ![u] = get(session[u]) ]
        \/ session' = [ session EXCEPT ![u] = hover(session[u]) ]
    BY <1>4 DEF Query, Hover, Leaves
  <2> QED
    BY <2>1, <2>2, ReadText, QuietQuestion
<1>5. ASSUME NEW u \in Uri, NEW upTo \in { "parse", "check" }, NEW force \in BOOLEAN,
             \/ Compile(u) \/ FacadeHover(u) \/ GetDiagnostics(u) \/ GetAst(u)
             \/ FacadeCompile(u, upTo, force)
      PROVE  OthersSpoiled
  <2> DEFINE R(to, f) == [ session[u] EXCEPT !.doc = compile(session[u].doc, to, f) ]
  <2>1. session[u].doc # None
    BY <1>5 DEF Compile, FacadeHover, GetDiagnostics, GetAst, FacadeCompile, IsOpen
  <2>2. \E to \in { "parse", "check" }, f \in BOOLEAN :
          \/ session' = [ session EXCEPT ![u] = R(to, f) ]
          \/ session' = [ session EXCEPT ![u] = get(R(to, f)) ]
          \/ session' = [ session EXCEPT ![u] = onCompiled(R(to, f)) ]
          \/ session' = [ session EXCEPT ![u] = hover(onCompiled(R(to, f))) ]
    BY <1>5 DEF Compile, FacadeHover, GetDiagnostics, GetAst, FacadeCompile, Leaves, Full
  <2>3. \A to \in { "parse", "check" }, f \in BOOLEAN :
          /\ R(to, f).doc.source = session[u].doc.source
          /\ get(R(to, f)).doc.source = session[u].doc.source
          /\ onCompiled(R(to, f)).doc.source = session[u].doc.source
          /\ hover(onCompiled(R(to, f))).doc.source = session[u].doc.source
    BY <2>1, CompileText
  <2> HIDE DEF R
  <2> QED
    BY <2>2, <2>3, QuietQuestion
<1>6. ASSUME NEW u \in Uri, NEW from \in { "source", "check", "language" },
             NEW others \in BOOLEAN, invalidate(u, from, others)
      PROVE  OthersSpoiled
  <2> DEFINE f == IF others THEN Spoiled(u, from) ELSE session
             t == [ f[u] EXCEPT !.doc = IF f[u].doc = None THEN None
                                        ELSE Invalidate(f[u].doc, from) ]
  <2>1. from \in Stage
    BY DEF Stage, STAGE_ORDER
  <2>2. f \in [ Uri -> Session ] /\ Sound(f[u])
    BY <2>1, SpoiledSteps DEF Steps
  <2>3. \A v \in Uri : Keeps(session[v], f[v])
    BY <2>1, SpoiledText DEF Keeps
  <2>4. session' = [ f EXCEPT ![u] = t ]
    BY <1>6, <2>2 DEF invalidate
  <2> HIDE DEF f
  <2>5. Keeps(session[u], t)
    <3>1. CASE f[u].doc = None
      BY <2>2, <3>1 DEF Keeps, Session
    <3>2. CASE f[u].doc # None
      <4> DEFINE e == Invalidate(f[u].doc, from)
      <4>1. e.source = f[u].doc.source
        BY <2>1, <2>2, <3>2, InvalidateKeeps DEF Sound, Base
      <4>2. t = [ f[u] EXCEPT !.doc = e ] /\ f[u] \in Session
        BY <2>2, <3>2
      <4> HIDE DEF e, t
      <4>3. t.doc = e
        BY <4>2 DEF Session
      <4> QED
        BY <2>3, <3>2, <4>1, <4>3 DEF Keeps
    <3> QED
      BY <3>1, <3>2
  <2> HIDE DEF t
  <2> QED
    BY <2>2, <2>3, <2>4, <2>5, QuietCall
<1>7. ASSUME NEW u \in Uri, NEW list \in SUBSET Uri, SetDependencies(u, list)
      PROVE  OthersSpoiled
  BY <1>7 DEF SetDependencies, OthersSpoiled, Rewritten
<1>8. ASSUME WorkspaceSymbols PROVE OthersSpoiled
  <2>1. \A v \in Uri : IsOpen(v) => session'[v] = syncAnalysis(session[v])
    BY <1>8 DEF WorkspaceSymbols
  <2>2. \A v \in Uri : IsOpen(v) => session'[v].doc.source = session[v].doc.source
    BY <2>1, ReadText DEF IsOpen
  <2> QED
    BY <2>2 DEF OthersSpoiled, Rewritten
<1> QED
  BY <1>1, <1>2, <1>3, <1>4, <1>5, <1>6, <1>7, <1>8 DEF Next

-----------------------------------------------------------------------------
(* The theorems *)

Inv == Sessions /\ graph \in Graph /\ MapsInverse(graph)

\* The invariant holds when nothing is open yet.
LEMMA InitInv == Init => Inv
<1> SUFFICES ASSUME Init PROVE Inv
  OBVIOUS
<1>1. Sessions
  BY ClosedIsSound DEF Init, Sessions, Sound
<1>2. graph \in Graph /\ MapsInverse(graph)
  BY DEF Init, NoEdges, Graph, MapsInverse
<1> QED
  BY <1>1, <1>2 DEF Inv

\* Every call keeps it: the actions take documents one step on, the edges stay inverse.
LEMMA NextInv == Inv /\ [Next]_vars => Inv'
<1> SUFFICES ASSUME Inv, [Next]_vars PROVE Inv'
  OBVIOUS
<1>1. CASE Next
  <2>1. Sessions'
    BY <1>1, NextAdvances DEF Inv, Sessions, Advances, Steps
  <2>2. graph' = graph \/ \E u \in Uri : \/ graph' = remove(graph, u)
                                       \/ \E list \in SUBSET Uri :
                                            graph' = setDependencies(graph, u, list)
    BY <1>1 DEF Next, OpenDocument, UpdateDocument, FacadeUpdate, Analyze, CloseDocument,
       Compile, Query, Hover, FacadeHover, GetDiagnostics, GetAst, invalidate,
       FacadeCompile, SetDependencies, WorkspaceSymbols, Leaves
  <2>3. graph' \in Graph /\ MapsInverse(graph')
    BY <2>2, SetKeepsInverse, RemoveKeepsInverse DEF Inv
  <2> QED
    BY <2>1, <2>3 DEF Inv
<1>2. CASE UNCHANGED vars
  BY <1>2 DEF vars, Inv, Sessions
<1> QED
  BY <1>1, <1>2

\* Hence it always holds.
LEMMA SpecInv == Spec => []Inv
BY InitInv, NextInv, PTL DEF Spec

\* Type correctness, for any documents, texts and fingerprints.
THEOREM TypesHold == Spec => []TypeOK
<1>1. Inv => TypeOK
  BY DEF Inv, Sessions, TypeOK
<1> QED
  BY <1>1, SpecInv, PTL

\* Every question is answered from the whole of the current text, whatever was
\* cached and however the fingerprints collide.
THEOREM AnswersHold == Spec => []AnswersAreCurrent
<1>1. Inv => AnswersAreCurrent
  <2> SUFFICES ASSUME Inv, NEW u \in Uri, IsOpen(u)
               PROVE  LET s == session[u]
                          now == { s.doc.source }
                      IN  /\ Drawn(get(s).analysis) = now
                          /\ HoverSays(s) = now
                          /\ { Full(s.doc).ast, Full(s.doc).semantics } = now
                          /\ compile(s.doc, "parse", FALSE).ast = s.doc.source
    BY DEF AnswersAreCurrent
  <2> DEFINE s == session[u]
  <2>1. Sound(s) /\ s.doc # None
    BY DEF Inv, Sessions, IsOpen
  <2> HIDE DEF s
  <2>2. Base(s) /\ EntryOK(s.doc)
    BY <2>1 DEF Sound, Base
  <2>3. Drawn(get(s).analysis) = { s.doc.source }
    BY <2>2, GetKeeps
  <2>4. HoverSays(s) = { s.doc.source }
    BY <2>1, HoverSteps
  <2> DEFINE f == Full(s.doc)
             p == compile(s.doc, "parse", FALSE)
  <2>5. EntryOK(f) /\ f.check /\ f.source = s.doc.source
    BY <2>2, FullKeeps
  <2>6. EntryOK(p) /\ p.parse /\ p.source = s.doc.source
    BY <2>2, CompileKeeps
  <2> HIDE DEF f, p
  <2>7. f.ast = s.doc.source /\ f.semantics = s.doc.source /\ p.ast = s.doc.source
    BY <2>5, <2>6 DEF EntryOK
  <2> QED
    BY <2>3, <2>4, <2>7 DEF s, f, p
<1> QED
  BY <1>1, SpecInv, PTL

\* The caches' invariant: outputs, stages, analyses and memos go together, and
\* nothing is kept of a closed document.
THEOREM CachesHold == Spec => []SessionInv
<1>1. Inv => SessionInv
  <2> SUFFICES ASSUME Inv PROVE SessionInv
    OBVIOUS
  <2>1. \A u \in Uri : Sound(session[u])
    BY DEF Inv, Sessions
  <2>2. OutputsMatchStages
    BY <2>1 DEF OutputsMatchStages, IsOpen, Sound, Base, EntryOK
  <2>3. LanguageStageIsEarned
    BY <2>1 DEF LanguageStageIsEarned, IsOpen, Sound, Base, EntryOK
  <2>4. MemosAreCurrent
    BY <2>1 DEF MemosAreCurrent, IsOpen, Sound, MemosOf
  <2>5. NothingKeptAfterClose
    BY <2>1 DEF NothingKeptAfterClose, IsOpen, Sound
  <2> QED
    BY <2>2, <2>3, <2>4, <2>5 DEF SessionInv
<1> QED
  BY <1>1, SpecInv, PTL

\* The compiler's outputs and the stages that vouch for them go together.
THEOREM OutputsHold == Spec => []OutputsMatchStages
<1>1. SessionInv => OutputsMatchStages
  BY DEF SessionInv
<1> QED
  BY <1>1, CachesHold, PTL

\* A valid language stage means a complete analysis of the current text.
THEOREM LanguageStageHolds == Spec => []LanguageStageIsEarned
<1>1. SessionInv => LanguageStageIsEarned
  BY DEF SessionInv
<1> QED
  BY <1>1, CachesHold, PTL

\* A closed document leaves nothing behind.
THEOREM CloseHolds == Spec => []NothingKeptAfterClose
<1>1. SessionInv => NothingKeptAfterClose
  BY DEF SessionInv
<1> QED
  BY <1>1, CachesHold, PTL

\* The dependency maps are inverse and have no loops of length one.
THEOREM GraphHolds == Spec => []GraphIsInverse
<1>1. Inv => GraphIsInverse
  BY DEF Inv, MapsInverse, GraphIsInverse
<1> QED
  BY <1>1, SpecInv, PTL

\* No call sets an open document back to an older version.
THEOREM LateUpdatesHold == Spec => LateUpdatesLose
<1>1. Inv /\ [Next]_vars =>
        [ \A u \in Uri : IsOpen(u) /\ session'[u].doc # None =>
            session'[u].doc.version >= session[u].doc.version ]_vars
  BY NextAdvances DEF Inv, Advances, Steps, IsOpen
<1> QED
  BY <1>1, SpecInv, PTL DEF Spec, LateUpdatesLose
\* When a document gets another text, each open document that depends on it, by
\* a chain of any length and through any cycles, must be parsed again
\* (IncrementalCompiler.updateDocument, DependencyGraph.transitiveDependents).
THEOREM DependentsFollow == Spec => DependentsSpoiled
<1>1. ASSUME Inv, [Next]_vars, NEW u \in Uri, NEW v \in Uri,
             IsOpen(u), session'[u].doc # None,
             session[u].doc.source # session'[u].doc.source,
             v # u, DependsOn(graph, v, u), IsOpen(v)
      PROVE  ~ session'[v].doc.parse
  <2>1. v \in transitiveDependents(graph, u)
    BY <1>1, SearchFindsDependents DEF Inv
  <2>2. Next
    BY <1>1 DEF vars
  <2>3. session'[v] = Spoiled(u, "parse")[v]
    BY <1>1, <2>2, NextSpoils DEF Inv, OthersSpoiled, Rewritten
  <2> DEFINE s == session[v]
             e == Invalidate(s.doc, "parse")
  <2>4. session'[v] = [ s EXCEPT !.doc = e ]
    BY <1>1, <2>1, <2>3 DEF Spoiled
  <2>5. s \in Session /\ s.doc \in Entry
    BY <1>1 DEF Inv, Sessions, Session, IsOpen
  <2>6. "parse" \in stagesFrom("parse")
    <3>1. STAGE_ORDER[2] = "parse"
      BY DEF STAGE_ORDER
    <3>2. 2 \in { j \in 1..6 : \E k \in 1..j : STAGE_ORDER[k] = "parse" }
      BY <3>1
    <3> QED
      BY <3>1, <3>2 DEF stagesFrom
  <2>7. e.parse = FALSE
    BY <2>5, <2>6 DEF Invalidate, Entry
  <2> HIDE DEF s, e
  <2>8. session'[v].doc = e
    BY <2>4, <2>5 DEF Session
  <2> QED
    BY <2>7, <2>8
<1>2. Inv /\ [Next]_vars =>
        [ \A u, v \in Uri :
            /\ IsOpen(u) /\ session'[u].doc # None
            /\ session[u].doc.source # session'[u].doc.source
            /\ v # u /\ DependsOn(graph, v, u) /\ IsOpen(v)
            => ~ session'[v].doc.parse ]_vars
  BY <1>1
<1> QED
  BY <1>2, SpecInv, PTL DEF Spec, DependentsSpoiled
=============================================================================
