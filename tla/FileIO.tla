------------------------------- MODULE FileIO -------------------------------
(***************************************************************************)
(* A straight-line program over files with literal names: each statement,  *)
(* in its turn, is checked by FileChecker and executed on the              *)
(* VirtualFileSystem.  The first runtime error ends the program.  (Inside  *)
(* IF, loops and routines the checker still walks in textual order, and    *)
(* says so: it is best-effort there.)                                      *)
(***************************************************************************)
EXTENDS FileChecker

vars == << fsVars, checkerVars >>

Init == FsInit /\ CheckerInit

Running == error = "none"

Memory ==
  /\ \/ \E v \in Var, x \in Value : SetField(v, x)
     \/ \E v, w \in Var : AssignNested(v, w) \/ Assign(v, w)
  /\ UNCHANGED checkerVars

OpenFile(p)  == \E mode \in Mode : CheckOpen(p, mode) /\ open(p, mode)
CloseFile(p) == CheckClose(p) /\ close(p)
ReadFile(p)  == requireOpenMode(p, { "READ" }) /\ readLine(p)
WriteFile(p) ==
  \E l \in Line : requireOpenMode(p, { "WRITE", "APPEND" }) /\ writeLine(p, l)
Eof(p)       == checkEof(p) /\ eof(p)
Seek(p) ==
  \E n \in { -1 } \cup Address : requireOpenMode(p, { "RANDOM" }) /\ seek(p, n)
GetRecord(p) == \E v \in Var : requireOpenMode(p, { "RANDOM" }) /\ getRecord(p, v)
PutRecord(p) == \E v \in Var : requireOpenMode(p, { "RANDOM" }) /\ putRecord(p, v)

Next ==
  /\ Running
  /\ \/ Memory
     \/ \E p \in Path :
          \/ OpenFile(p) \/ CloseFile(p)
          \/ ReadFile(p) \/ WriteFile(p) \/ Eof(p)
          \/ Seek(p) \/ GetRecord(p) \/ PutRecord(p)

Spec == Init /\ [][Next]_vars

TypeOK == FsTypeOK /\ CheckerTypeOK

-----------------------------------------------------------------------------
(* Properties *)

\* An open path has a body of the kind its mode needs, so the "file is missing"
\* errors of requireText and requireRandom cannot happen (open).
OpenMatchesBody ==
  \A p \in Path :
    /\ handles[p].mode \in { "READ", "WRITE", "APPEND" } => store[p].kind = "text"
    /\ handles[p].mode = "RANDOM" => store[p].kind = "random"

\* While a path is open for READ its lines stay and its reader only advances,
\* never past the end: the loop WHILE NOT EOF, READFILE of the 9618 guide reads
\* each line of the file once, and ends (open, close, readLine).
ReaderUndisturbed ==
  [][ \A p \in Path :
        (handles[p].mode = "READ" /\ handles'[p].mode = "READ") =>
          /\ store'[p] = store[p]
          /\ handles'[p].readIndex - handles[p].readIndex \in { 0, 1 }
          /\ handles'[p].readIndex <= Len(store[p].lines) ]_vars

\* The answer of EOF can be relied on: READFILE fails with R_FILE_EOF exactly
\* when EOF would have said TRUE, and until the file is read or closed no other
\* statement, on this file or another, turns the answer round (eof, readLine).
EofForetellsRead ==
  [][ \A p \in Path :
        handles[p].mode = "READ" =>
          IF ReadFile(p) THEN error' = "R_FILE_EOF" <=> atEnd(p)
          ELSE handles'[p].mode = "READ" => atEnd(p)' = atEnd(p) ]_vars

\* Of a straight-line program with literal names the checker refuses exactly
\* the statements that would fail because a file is open, is not open, or is
\* open in another mode (check-files.ts against VirtualFileSystem.ts).
CheckedExactly ==
  accepted <=> error \notin { "R_FILE_ALREADY_OPEN", "R_FILE_NOT_OPEN",
                              "R_FILE_MODE" }

\* The values behind the references.
ValueAt(x) == IF hold[x] = Nil THEN Nil ELSE Deep(hold[x])

Values ==
  INSTANCE FileStore
    WITH Blank <- Nil,
         val   <- [ v \in Var |-> ValueAt(v) ],
         files <- [ p \in Path |->
                      [ kind    |-> store[p].kind,
                        lines   |-> store[p].lines,
                        records |-> [ a \in Address |-> ValueAt(<< p, a >>) ] ] ]

\* Through all sharing of objects the program sees records as values: no field
\* assignment reaches into a file or another variable, and no file operation
\* into a variable that was not its target (cloneValue, coerceForStore).
ImplementsFileStore == Values!Spec

-----------------------------------------------------------------------------
(* The inductive invariant behind the theorems *)

\* Nothing is shared: each object is held by the place it is named after, and
\* each cell by its object.
Unshared ==
  /\ \A x \in Place : hold[x] \in { x, Nil }
  /\ \A o \in Obj : nested[o] = o

\* A file has records or lines, never both, and lines only up to the bound.
OneKind ==
  \A p \in Path :
    /\ store[p].kind # "text" => store[p].lines = << >>
    /\ store[p].kind # "random" => \A a \in Address : hold[<< p, a >>] = Nil
    /\ Len(store[p].lines) <= MaxLines
    /\ handles[p].readIndex <= Len(store[p].lines)

\* As long as the program runs, the checker and the run agree on the paths.
InStep == Running => accepted /\ \A p \in Path : openFiles[p] = handles[p].mode

FileInv ==
  /\ OpenMatchesBody
  /\ CheckedExactly
  /\ Unshared
  /\ OneKind
  /\ InStep
=============================================================================
