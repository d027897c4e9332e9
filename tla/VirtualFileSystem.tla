------------------------- MODULE VirtualFileSystem -------------------------
(***************************************************************************)
(* The files of a running program (interpreter/src/files) and the record   *)
(* variables it moves through them.  In the interpreter a TYPE record is a *)
(* mutable object: a variable and a slot of a random file hold references, *)
(* a field assignment mutates the object in place, and only the calls of   *)
(* cloneValue keep the two apart.  The model keeps these identities: an    *)
(* object is a record whose one field is a nested record, and that is a    *)
(* cell with one scalar field.                                             *)
(*                                                                         *)
(* The debugger's snapshotOpenFiles and the tests' readStored only read.   *)
(***************************************************************************)
EXTENDS Integers, Sequences

CONSTANTS
  Path,        \* the file names of the program
  Var,         \* its record variables, all of one TYPE
  Value,       \* what the scalar field may hold
  Line,        \* the lines it may write
  MaxAddress,  \* bound: the last record address it uses
  MaxLines,    \* bound: lines in a file
  Nil          \* no record

Address == 0 .. MaxAddress
Slot    == Path \X Address
Place   == Var \cup Slot

ASSUME FilesAssumption ==
  /\ MaxAddress \in Nat /\ MaxLines \in Nat \ { 0 }
  /\ Value # {}
  /\ \A v \in Var : v \notin Slot
  /\ Nil \notin Place \cup Value

\* The identities of objects and of cells.  One that nothing holds any more is
\* used again, so there need be no more of them than places to hold one.
Obj  == Place
Cell == Place

VARIABLES
  store,    \* store: the body of each path, but for its records
  handles,  \* openHandles
  hold,     \* the object that each variable and each slot of a file holds
  nested,   \* the cell that each object's field holds
  cell,     \* the scalar in each cell
  error     \* the code of the error that ended the program, "none" before

heapVars == << hold, nested, cell >>
fsVars   == << store, handles, heapVars, error >>

Mode == { "READ", "WRITE", "APPEND", "RANDOM" }

Body   == [ kind : { "missing", "text", "random" }, lines : Seq(Line) ]
Handle == [ mode : Mode \cup { "closed" }, readIndex : 0 .. MaxLines,
            recordNumber : Address ]
Code   == { "none", "R_FILE_NOT_FOUND", "R_FILE_ALREADY_OPEN",
            "R_FILE_NOT_OPEN", "R_FILE_MODE", "R_FILE_EOF", "R_FILE_SEEK",
            "R_FILE_NO_RECORD" }

Empty(kind) == [ kind |-> kind, lines |-> << >> ]
Closed == [ mode |-> "closed", readIndex |-> 0, recordNumber |-> 0 ]

FsTypeOK ==
  /\ store \in [ Path -> Body ]
  /\ handles \in [ Path -> Handle ]
  /\ hold \in [ Place -> Obj \cup { Nil } ]
  /\ \A v \in Var : hold[v] # Nil
  /\ nested \in [ Obj -> Cell ]
  /\ cell \in [ Cell -> Value ]
  /\ error \in Code

\* DECLARE gives each variable a record of its own.  A run finds no file, or
\* the text files it was seeded with.
FsInit ==
  /\ store \in [ Path -> { Empty("missing"), Empty("text") } \cup
                         { [ Empty("text") EXCEPT !.lines = << l >> ] : l \in Line } ]
  /\ handles = [ p \in Path |-> Closed ]
  /\ hold = [ x \in Place |-> IF x \in Var THEN x ELSE Nil ]
  /\ nested = [ o \in Obj |-> o ]
  /\ \E x \in Value : cell = [ c \in Cell |-> x ]
  /\ error = "none"

-----------------------------------------------------------------------------
(* Records *)

\* What stays when the place `at' is overwritten.
HeldBeside(at) == { hold[x] : x \in Place \ { at } } \ { Nil }
CellsBeside(at) == { nested[o] : o \in HeldBeside(at) }

\* Of the free identities, the one named after the place.
Free(at, used) == IF at \notin used THEN at ELSE CHOOSE o \in Place : o \notin used

\* The scalar a record holds, all in all.
Deep(o) == cell[nested[o]]

\* Mutant: the new object shares the nested record of the old one.
StoreShallow(at, o) ==
  LET new == Free(at, HeldBeside(at)) IN
  /\ hold' = [ hold EXCEPT ![at] = new ]
  /\ nested' = [ nested EXCEPT ![new] = nested[o] ]
  /\ UNCHANGED cell

\* cloneValue, and the place that gets the copy: a new object with a new cell.
StoreClone(at, o) ==
  LET new == Free(at, HeldBeside(at))
      c   == Free(at, CellsBeside(at)) IN
  /\ hold' = [ hold EXCEPT ![at] = new ]
  /\ nested' = [ nested EXCEPT ![new] = c ]
  /\ cell' = [ cell EXCEPT ![c] = Deep(o) ]

\* V.Inner.Field <- x: the object is reached and mutated in place.
SetField(v, x) ==
  /\ cell' = [ cell EXCEPT ![nested[hold[v]]] = x ]
  /\ UNCHANGED << store, handles, hold, nested, error >>

\* V.Inner <- W.Inner: coerceForStore stores a copy of the nested record.
AssignNested(v, w) ==
  LET others == { nested[o] : o \in { hold[x] : x \in Place } \ { Nil, hold[v] } }
      c == Free(v, others) IN
  /\ nested' = [ nested EXCEPT ![hold[v]] = c ]
  /\ cell' = [ cell EXCEPT ![c] = Deep(hold[w]) ]
  /\ UNCHANGED << store, handles, hold, error >>

\* V <- W: coerceForStore stores a copy of the record.
Assign(v, w) ==
  /\ StoreClone(v, hold[w])
  /\ UNCHANGED << store, handles, error >>

-----------------------------------------------------------------------------
(* Files *)

Fail(code) ==
  /\ error' = code
  /\ UNCHANGED << store, handles, heapVars >>

IsOpen(p) == handles[p].mode # "closed"

\* Mutant: APPEND keeps whatever is there.
EstablishedLoosely(body, mode) ==
  CASE mode = "READ"   -> body
    [] mode = "WRITE"  -> Empty("text")
    [] mode = "APPEND" -> IF body.kind = "missing" THEN Empty("text") ELSE body
    [] mode = "RANDOM" -> IF body.kind = "random" THEN body ELSE Empty("random")

\* The body a path has once it is open: a file of the other kind is replaced.
Established(body, mode) ==
  CASE mode = "READ"   -> body
    [] mode = "WRITE"  -> Empty("text")
    [] mode = "APPEND" -> IF body.kind = "text" THEN body ELSE Empty("text")
    [] mode = "RANDOM" -> IF body.kind = "random" THEN body ELSE Empty("random")

\* The handle of a path that is opened; its records go with a body that is
\* not a random file any more.
SetOpen(p, mode) ==
  /\ handles' = [ handles EXCEPT ![p] = [ Closed EXCEPT !.mode = mode ] ]
  /\ store' = [ store EXCEPT ![p] = Established(@, mode) ]
  /\ hold' = [ x \in Place |->
                 IF x \in { p } \X Address /\ store'[p].kind # "random"
                 THEN Nil ELSE hold[x] ]
  /\ UNCHANGED << nested, cell, error >>

\* Mutant: a second OPENFILE takes the handle over.
OpenTwice(p, mode) ==
  IF mode = "READ" /\ store[p].kind # "text" THEN Fail("R_FILE_NOT_FOUND")
  ELSE SetOpen(p, mode)

open(p, mode) ==
  IF IsOpen(p) THEN Fail("R_FILE_ALREADY_OPEN")
  ELSE IF mode = "READ" /\ store[p].kind # "text" THEN Fail("R_FILE_NOT_FOUND")
  ELSE SetOpen(p, mode)

close(p) ==
  IF ~IsOpen(p) THEN Fail("R_FILE_NOT_OPEN")
  ELSE /\ handles' = [ handles EXCEPT ![p] = Closed ]
       /\ UNCHANGED << store, heapVars, error >>

\* requireOpen, the mode and the body, in the order every call checks them.
Access(p, modes, kind, call) ==
  IF ~IsOpen(p) THEN Fail("R_FILE_NOT_OPEN")
  ELSE IF handles[p].mode \notin modes THEN Fail("R_FILE_MODE")
  ELSE IF store[p].kind # kind THEN Fail("R_FILE_NOT_FOUND")
  ELSE call

\* Mutant: the last line can be read once more.
ReadPastEnd(p) ==
  Access(p, { "READ" }, "text",
         IF handles[p].readIndex > Len(store[p].lines) THEN Fail("R_FILE_EOF")
         ELSE /\ handles' = [ handles EXCEPT ![p].readIndex = @ + 1 ]
              /\ UNCHANGED << store, heapVars, error >>)

\* READFILE into a STRING variable, which the model does not keep.
readLine(p) ==
  Access(p, { "READ" }, "text",
         IF handles[p].readIndex >= Len(store[p].lines) THEN Fail("R_FILE_EOF")
         ELSE /\ handles' = [ handles EXCEPT ![p].readIndex = @ + 1 ]
              /\ UNCHANGED << store, heapVars, error >>)

writeLine(p, l) ==
  /\ Len(store[p].lines) < MaxLines
  /\ Access(p, { "WRITE", "APPEND" }, "text",
            /\ store' = [ store EXCEPT ![p].lines = Append(@, l) ]
            /\ UNCHANGED << handles, heapVars, error >>)

\* What EOF(path) answers: of a file that is not read, always TRUE.
atEnd(p) ==
  handles[p].mode = "READ" => handles[p].readIndex >= Len(store[p].lines)

\* EOF(path) needs an open file, of any mode; answering changes nothing.
eof(p) ==
  IF ~IsOpen(p) THEN Fail("R_FILE_NOT_OPEN") ELSE UNCHANGED fsVars

\* SEEK checks the mode and the address; the body is not looked at.
seek(p, n) ==
  IF ~IsOpen(p) THEN Fail("R_FILE_NOT_OPEN")
  ELSE IF handles[p].mode # "RANDOM" THEN Fail("R_FILE_MODE")
  ELSE IF n < 0 THEN Fail("R_FILE_SEEK")
  ELSE /\ handles' = [ handles EXCEPT ![p].recordNumber = n ]
       /\ UNCHANGED << store, heapVars, error >>

Here(p) == << p, handles[p].recordNumber >>

\* GETRECORD: a copy of the record, which assignTarget copies once more.
getRecord(p, v) ==
  Access(p, { "RANDOM" }, "random",
         IF hold[Here(p)] = Nil THEN Fail("R_FILE_NO_RECORD")
         ELSE /\ StoreClone(v, hold[Here(p)])
              /\ UNCHANGED << store, handles, error >>)

putRecord(p, v) ==
  Access(p, { "RANDOM" }, "random",
         /\ StoreClone(Here(p), hold[v])
         /\ UNCHANGED << store, handles, error >>)
=============================================================================
