---------------------------- MODULE FileChecker ----------------------------
(***************************************************************************)
(* The static check of the file statements (checker/src/file): it walks    *)
(* the statements in their textual order and tracks which literal paths    *)
(* are open, and how.  Only the open state is modelled; the types of       *)
(* paths, addresses, targets and records are the type checker's.           *)
(***************************************************************************)
EXTENDS VirtualFileSystem

VARIABLES
  openFiles,  \* the checker's openFiles: the mode of each path, or "closed"
  accepted    \* no diagnostic was given so far

checkerVars == << openFiles, accepted >>

CheckerTypeOK ==
  /\ openFiles \in [ Path -> Mode \cup { "closed" } ]
  /\ accepted \in BOOLEAN

CheckerInit ==
  /\ openFiles = [ p \in Path |-> "closed" ]
  /\ accepted = TRUE

Diagnose == accepted' = FALSE

\* OPENFILE: C_FILE_ALREADY_OPEN leaves the first mode in place.
CheckOpen(p, mode) ==
  IF openFiles[p] # "closed"
  THEN Diagnose /\ UNCHANGED openFiles
  ELSE /\ openFiles' = [ openFiles EXCEPT ![p] = mode ]
       /\ UNCHANGED accepted

\* Mutant: a closed file is still taken to be open.
CheckCloseForgets(p) ==
  /\ IF openFiles[p] = "closed" THEN Diagnose ELSE UNCHANGED accepted
  /\ UNCHANGED openFiles

CheckClose(p) ==
  IF openFiles[p] = "closed"
  THEN Diagnose /\ UNCHANGED openFiles
  ELSE /\ openFiles' = [ openFiles EXCEPT ![p] = "closed" ]
       /\ UNCHANGED accepted

\* requireOpenMode: C_FILE_NOT_OPEN or C_FILE_MODE.
requireOpenMode(p, allowed) ==
  /\ IF openFiles[p] \in allowed THEN UNCHANGED accepted ELSE Diagnose
  /\ UNCHANGED openFiles

checkEof(p) == requireOpenMode(p, Mode)
=============================================================================
