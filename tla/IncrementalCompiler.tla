------------------------ MODULE IncrementalCompiler ------------------------
(***************************************************************************)
(* IncrementalCompiler: one document's entry in the staged cache.  parse   *)
(* and check are functions of the text, so what is kept of an AST, or of   *)
(* the checker's outputs, is the text it was computed from; None stands    *)
(* for null and for the emptied lists.  The stages translate and interpret *)
(* are never valid in this code base and have no flag here; timestamps and *)
(* counters are left out.                                                  *)
(***************************************************************************)
EXTENDS Integers, Sequences

CONSTANTS
  Source,  \* texts
  None     \* no entry, no output

ASSUME SourceAssumption == None \notin Source

Product == Source \cup { None }

Entry == [ version : Nat, source : Source, ast : Product, semantics : Product,
           parse : BOOLEAN, check : BOOLEAN, language : BOOLEAN ]

\* An entry is there or it is not.
ASSUME EntryAssumption == None \notin Entry

STAGE_ORDER == << "source", "parse", "check", "language", "translate", "interpret" >>

Stage == { STAGE_ORDER[i] : i \in 1..6 }

stagesFrom(from) ==
  { STAGE_ORDER[i] : i \in { j \in 1..6 : \E k \in 1..j : STAGE_ORDER[k] = from } }

\* Mutant: the flags go, the checker's outputs stay.
InvalidateKeepsOutputs(e, from) ==
  [ e EXCEPT !.parse    = @ /\ "parse" \notin stagesFrom(from),
             !.check    = @ /\ "check" \notin stagesFrom(from),
             !.language = @ /\ "language" \notin stagesFrom(from) ]

\* invalidateFlags, and clearSemanticOutputs for the stages up to `check'.
Invalidate(e, from) ==
  [ e EXCEPT !.parse     = @ /\ "parse" \notin stagesFrom(from),
             !.check     = @ /\ "check" \notin stagesFrom(from),
             !.language  = @ /\ "language" \notin stagesFrom(from),
             !.semantics = IF "check" \in stagesFrom(from) THEN None ELSE @ ]

\* Only what is invalid runs again.  When nothing is checked something was
\* parsed, and the outputs of the check were cleared for it.
compile(e, upTo, force) ==
  LET needParse == force \/ ~ e.parse
      needCheck == upTo = "check" /\ (needParse \/ ~ e.check)
      ast       == IF needParse THEN e.source ELSE e.ast
  IN  IF ~ needParse /\ ~ needCheck THEN e
      ELSE [ e EXCEPT !.ast = ast, !.parse = TRUE, !.check = needCheck,
                      !.semantics = IF needCheck THEN ast ELSE None,
                      !.language = FALSE ]

Full(e) == compile(e, "check", FALSE)

createEntry(text, version) ==
  [ version |-> version, source |-> text, ast |-> None, semantics |-> None,
    parse |-> FALSE, check |-> FALSE, language |-> FALSE ]

\* An update is news when it opens the document or brings it another text.
Changes(e, text, version) == e # None /\ version >= e.version /\ text # e.source

\* Mutant: a delayed update clobbers a newer one.
UpdateWithoutGuard(e, text, version) ==
  IF e = None THEN compile(createEntry(text, version), "check", TRUE)
  ELSE IF text = e.source THEN Full([ e EXCEPT !.version = version ])
  ELSE Full(Invalidate([ e EXCEPT !.version = version, !.source = text ], "parse"))

\* A version below the current one is ignored, whatever its text.
updateDocument(e, text, version) ==
  IF e = None THEN compile(createEntry(text, version), "check", TRUE)
  ELSE IF version < e.version THEN Full(e)
  ELSE IF text = e.source THEN Full([ e EXCEPT !.version = version ])
  ELSE Full(Invalidate([ e EXCEPT !.version = version, !.source = text ], "parse"))
=============================================================================
