--------------------------- MODULE FileIO_proofs ---------------------------
(***************************************************************************)
(* Theorems about FileIO: the types, what open paths hold, the agreement   *)
(* of checker and run, that readers are undisturbed and that records are   *)
(* values.  They rest on FileInv, of which Unshared says that no two       *)
(* places ever share an object.                                            *)
(***************************************************************************)
EXTENDS FileIO, SequenceTheorems, TLAPS

-----------------------------------------------------------------------------
(* The heap *)

\* While nothing is shared, the identity named after a place is free for it.
LEMMA OwnNameIsFree ==
  ASSUME Unshared, NEW at \in Place
  PROVE  /\ Free(at, HeldBeside(at)) = at
         /\ Free(at, CellsBeside(at)) = at
<1>1. HeldBeside(at) \subseteq Place \ { at }
  BY FilesAssumption DEF Unshared, HeldBeside
<1>2. CellsBeside(at) \subseteq Place \ { at }
  BY <1>1 DEF Unshared, CellsBeside, Obj
<1> QED
  BY <1>1, <1>2 DEF Free

\* The effect of a copy: the place holds its own object, with the scalar of
\* the one that was copied, and nothing else changes.
LEMMA CopyEffect ==
  ASSUME Unshared, NEW at \in Place, NEW o \in Place, StoreClone(at, o)
  PROVE  /\ hold' = [ hold EXCEPT ![at] = at ]
         /\ nested' = [ nested EXCEPT ![at] = at ]
         /\ cell' = [ cell EXCEPT ![at] = cell[o] ]
<1>1. Deep(o) = cell[o]
  BY DEF Deep, Unshared, Obj
<1> QED
  BY <1>1, OwnNameIsFree DEF StoreClone

\* Storing a copy of a nested record has the same effect on a variable's cell.
LEMMA NestedEffect ==
  ASSUME FsTypeOK, Unshared, NEW v \in Var, NEW w \in Var, AssignNested(v, w)
  PROVE  /\ hold' = hold
         /\ nested' = [ nested EXCEPT ![v] = v ]
         /\ cell' = [ cell EXCEPT ![v] = cell[w] ]
<1>1. v \in Place /\ w \in Place
  BY DEF Place
<1>2. hold[v] = v /\ hold[w] = w
  BY <1>1 DEF FsTypeOK, Unshared
<1> DEFINE others == { nested[o] : o \in { hold[x] : x \in Place } \ { Nil, hold[v] } }
<1>3. { hold[x] : x \in Place } \ { Nil, hold[v] } \subseteq Place \ { v }
  BY <1>2 DEF Unshared
<1>4. v \notin others
  BY <1>3 DEF Unshared, Obj
<1>5. Free(v, others) = v
  BY <1>4 DEF Free
<1>6. Deep(hold[w]) = cell[w]
  BY <1>1, <1>2 DEF Deep, Unshared, Obj
<1> HIDE DEF others
<1> QED
  BY <1>2, <1>5, <1>6 DEF AssignNested, others

\* What every statement that stores a record comes to: the place `at' holds its
\* own object with the scalar x.
Stores(at, x) ==
  /\ hold' = [ hold EXCEPT ![at] = at ]
  /\ nested' = nested
  /\ cell' = [ cell EXCEPT ![at] = x ]

\* A copy stores the scalar of the record it was taken of.
LEMMA CopyStores ==
  ASSUME FsTypeOK, Unshared, NEW at \in Place, NEW o \in Place, StoreClone(at, o)
  PROVE  Stores(at, cell[o])
<1>1. nested \in [ Place -> Place ] /\ nested[at] = at
  BY DEF FsTypeOK, Unshared, Obj, Cell
<1>2. [ nested EXCEPT ![at] = at ] = nested
  BY <1>1
<1> QED
  BY <1>2, CopyEffect DEF Stores

\* And so does a copy of the nested record alone: it is all a record has.
LEMMA NestedStores ==
  ASSUME FsTypeOK, Unshared, NEW v \in Var, NEW w \in Var, AssignNested(v, w)
  PROVE  Stores(v, cell[w])
<1>1. v \in Place
  BY DEF Place
<1>2. nested \in [ Place -> Place ] /\ nested[v] = v
  BY <1>1 DEF FsTypeOK, Unshared, Obj, Cell
<1>3. hold[v] = v
  BY <1>1 DEF FsTypeOK, Unshared
<1>4. hold \in [ Place -> Place \cup { Nil } ]
  BY DEF FsTypeOK, Obj
<1>5. [ nested EXCEPT ![v] = v ] = nested
  BY <1>2
<1>6. [ hold EXCEPT ![v] = v ] = hold
  BY <1>1, <1>3, <1>4
<1> QED
  BY <1>5, <1>6, NestedEffect DEF Stores

\* The assignment of a field stores its value in the variable's own object.
LEMMA FieldStores ==
  ASSUME FsTypeOK, Unshared, NEW v \in Var, NEW x \in Value, SetField(v, x)
  PROVE  Stores(v, x)
<1>1. v \in Place
  BY DEF Place
<1>2. hold[v] = v /\ nested[v] = v
  BY <1>1 DEF FsTypeOK, Unshared, Obj
<1>3. hold \in [ Place -> Place \cup { Nil } ]
  BY DEF FsTypeOK, Obj
<1>4. [ hold EXCEPT ![v] = v ] = hold
  BY <1>1, <1>2, <1>3
<1> QED
  BY <1>2, <1>4 DEF SetField, Stores

\* Storing a record keeps the heap typed and unshared.
LEMMA StoringKeeps ==
  ASSUME FsTypeOK, Unshared, NEW at \in Place, NEW x \in Value, Stores(at, x)
  PROVE  /\ hold' \in [ Place -> Obj \cup { Nil } ]
         /\ \A v \in Var : hold'[v] # Nil
         /\ nested' \in [ Obj -> Cell ]
         /\ cell' \in [ Cell -> Value ]
         /\ Unshared'
<1>1. hold \in [ Place -> Place \cup { Nil } ] /\ cell \in [ Place -> Value ]
  BY DEF FsTypeOK, Obj, Cell
<1>2. \A y \in Place : hold'[y] = IF y = at THEN at ELSE hold[y]
  BY <1>1 DEF Stores
<1>3. \A v \in Var : hold'[v] # Nil
  BY <1>2, FilesAssumption DEF FsTypeOK, Place
<1>4. Unshared'
  BY <1>2 DEF Stores, Unshared, Obj
<1>5. hold' \in [ Place -> Obj \cup { Nil } ]
  BY <1>1 DEF Stores, Obj
<1>6. cell' \in [ Cell -> Value ]
  BY <1>1 DEF Stores, Cell
<1> QED
  BY <1>3, <1>4, <1>5, <1>6 DEF Stores, FsTypeOK

-----------------------------------------------------------------------------
(* What a statement of a running program comes to *)

Inv == TypeOK /\ FileInv

Misuse == { "R_FILE_ALREADY_OPEN", "R_FILE_NOT_OPEN", "R_FILE_MODE" }

\* An error, which the checker foresaw if it is a misuse.
Ended ==
  \E code \in Code \ { "none" } :
    /\ Fail(code)
    /\ accepted' = (code \notin Misuse)
    /\ openFiles' \in [ Path -> Mode \cup { "closed" } ]

Opened(p, mode) ==
  /\ ~IsOpen(p)
  /\ mode = "READ" => store[p].kind = "text"
  /\ SetOpen(p, mode)
  /\ openFiles' = [ openFiles EXCEPT ![p] = mode ]
  /\ UNCHANGED accepted

WasClosed(p) ==
  /\ handles' = [ handles EXCEPT ![p] = Closed ]
  /\ openFiles' = [ openFiles EXCEPT ![p] = "closed" ]
  /\ UNCHANGED << store, heapVars, error, accepted >>

Advanced(p) ==
  /\ handles[p].mode = "READ"
  /\ handles[p].readIndex < Len(store[p].lines)
  /\ handles' = [ handles EXCEPT ![p].readIndex = @ + 1 ]
  /\ UNCHANGED << store, heapVars, error, checkerVars >>

Wrote(p, l) ==
  /\ handles[p].mode \in { "WRITE", "APPEND" }
  /\ Len(store[p].lines) < MaxLines
  /\ store' = [ store EXCEPT ![p].lines = Append(@, l) ]
  /\ UNCHANGED << handles, heapVars, error, checkerVars >>

Sought(p, n) ==
  /\ handles[p].mode = "RANDOM"
  /\ handles' = [ handles EXCEPT ![p].recordNumber = n ]
  /\ UNCHANGED << store, heapVars, error, checkerVars >>

Put(p, v) ==
  /\ handles[p].mode = "RANDOM"
  /\ Stores(Here(p), cell[v])
  /\ UNCHANGED << store, handles, error, checkerVars >>

Got(p, v) ==
  /\ handles[p].mode = "RANDOM"
  /\ hold[Here(p)] # Nil
  /\ Stores(v, cell[Here(p)])
  /\ UNCHANGED << store, handles, error, checkerVars >>

Set(v, x) == Stores(v, x) /\ UNCHANGED << store, handles, error, checkerVars >>

Copied(v, w) == Set(v, cell[w])

\* The handles and the checker's state as the statements find them.
LEMMA Facts ==
  ASSUME Inv, Running, NEW p \in Path
  PROVE  /\ handles[p] \in Handle /\ store[p] \in Body
         /\ openFiles[p] = handles[p].mode
         /\ accepted = TRUE /\ error = "none"
         /\ Here(p) \in Place
         /\ IsOpen(p) <=> handles[p].mode \in Mode
<1>1. handles[p] \in Handle /\ store[p] \in Body
  BY DEF Inv, TypeOK, FsTypeOK
<1>2. Here(p) \in Place
  BY <1>1 DEF Here, Place, Slot, Handle
<1>3. IsOpen(p) <=> handles[p].mode \in Mode
  BY <1>1 DEF Handle, IsOpen, Mode
<1>4. accepted = TRUE
  BY DEF Inv, FileInv, InStep, TypeOK, CheckerTypeOK
<1> QED
  BY <1>1, <1>2, <1>3, <1>4 DEF Inv, FileInv, InStep, Running

\* The quantities that reading and writing compare are numbers.
LEMMA Counts ==
  ASSUME Inv, NEW p \in Path
  PROVE  /\ handles[p].readIndex \in Nat
         /\ store[p].lines \in Seq(Line)
         /\ Len(store[p].lines) \in Nat
<1>1. handles[p] \in Handle /\ store[p] \in Body
  BY DEF Inv, TypeOK, FsTypeOK
<1>2. handles[p].readIndex \in 0 .. MaxLines /\ store[p].lines \in Seq(Line)
  BY <1>1 DEF Handle, Body
<1> QED
  BY <1>2, FilesAssumption, LenProperties

\* A call that is refused because of the path's open state was diagnosed.
LEMMA Foreseen ==
  ASSUME Inv, Running, NEW code \in Misuse, Fail(code), Diagnose, UNCHANGED openFiles
  PROVE  Ended
<1>1. code \in Code \ { "none" }
  BY DEF Misuse, Code
<1>2. openFiles' \in [ Path -> Mode \cup { "closed" } ]
  BY DEF Inv, TypeOK, CheckerTypeOK
<1>3. accepted' = (code \notin Misuse)
  BY DEF Diagnose
<1> QED
  BY <1>1, <1>2, <1>3 DEF Ended

\* An error of another kind is none of the checker's business.
LEMMA Unforeseen ==
  ASSUME Inv, Running, NEW code \in Code \ { "none" }, code \notin Misuse,
         Fail(code), UNCHANGED checkerVars
  PROVE  Ended
<1>1. openFiles' \in [ Path -> Mode \cup { "closed" } ] /\ openFiles' = openFiles
  BY DEF Inv, TypeOK, CheckerTypeOK, checkerVars
<1>2. accepted = TRUE
  BY DEF Inv, FileInv, InStep, TypeOK, CheckerTypeOK
<1>3. accepted' = accepted
  BY DEF checkerVars
<1>4. accepted' = (code \notin Misuse)
  BY <1>2, <1>3
<1> QED
  BY <1>1, <1>4 DEF Ended

\* OPENFILE fails as the checker said, or fails on a file that is not there,
\* or opens the path for both.
LEMMA OpenOutcome ==
  ASSUME Inv, Running, NEW p \in Path, NEW mode \in Mode,
         CheckOpen(p, mode), open(p, mode)
  PROVE  Ended \/ Opened(p, mode)
<1>1. CASE IsOpen(p)
  <2>1. Fail("R_FILE_ALREADY_OPEN")
    BY <1>1 DEF open
  <2>2. Diagnose /\ UNCHANGED openFiles
    BY <1>1, Facts DEF CheckOpen, IsOpen
  <2> QED
    BY <2>1, <2>2, Foreseen DEF Misuse
<1>2. CASE ~IsOpen(p) /\ mode = "READ" /\ store[p].kind # "text"
  <2>1. Fail("R_FILE_NOT_FOUND")
    BY <1>2 DEF open
  <2>2. openFiles' = [ openFiles EXCEPT ![p] = mode ] /\ accepted' = TRUE
    BY <1>2, Facts DEF CheckOpen, IsOpen
  <2>3. openFiles' \in [ Path -> Mode \cup { "closed" } ]
    BY <2>2 DEF Inv, TypeOK, CheckerTypeOK
  <2>4. "R_FILE_NOT_FOUND" \in Code \ { "none" } /\ "R_FILE_NOT_FOUND" \notin Misuse
    BY DEF Code, Misuse
  <2>5. accepted' = ("R_FILE_NOT_FOUND" \notin Misuse)
    BY <2>2, <2>4
  <2> QED
    BY <2>1, <2>3, <2>4, <2>5 DEF Ended
<1>3. CASE ~IsOpen(p) /\ (mode = "READ" => store[p].kind = "text")
  <2>1. SetOpen(p, mode)
    BY <1>3 DEF open
  <2>2. openFiles' = [ openFiles EXCEPT ![p] = mode ] /\ UNCHANGED accepted
    BY <1>3, Facts DEF CheckOpen, IsOpen
  <2> QED
    BY <1>3, <2>1, <2>2 DEF Opened
<1> QED
  BY <1>1, <1>2, <1>3

\* CLOSEFILE fails as the checker said, or closes the path for both.
LEMMA CloseOutcome ==
  ASSUME Inv, Running, NEW p \in Path, CloseFile(p)
  PROVE  Ended \/ WasClosed(p)
<1>1. CASE ~IsOpen(p)
  <2>1. Fail("R_FILE_NOT_OPEN")
    BY <1>1 DEF CloseFile, close
  <2>2. Diagnose /\ UNCHANGED openFiles
    BY <1>1, Facts DEF CloseFile, CheckClose, IsOpen
  <2> QED
    BY <2>1, <2>2, Foreseen DEF Misuse
<1>2. CASE IsOpen(p)
  BY <1>2, Facts DEF CloseFile, close, CheckClose, IsOpen, WasClosed
<1> QED
  BY <1>1, <1>2

\* requireOpenMode of the checker and requireOpen of the run decide alike: a
\* call in a wrong mode ends the program as foreseen, and in a right one the
\* checker is silent.
LEMMA ModesAgree ==
  ASSUME Inv, Running, NEW p \in Path, NEW modes \in SUBSET Mode,
         requireOpenMode(p, modes)
  PROVE  /\ handles[p].mode \in modes => IsOpen(p) /\ UNCHANGED checkerVars
         /\ handles[p].mode \notin modes => Diagnose /\ UNCHANGED openFiles
<1>1. CASE handles[p].mode \in modes
  BY <1>1, Facts DEF requireOpenMode, checkerVars
<1>2. CASE handles[p].mode \notin modes
  BY <1>2, Facts DEF requireOpenMode
<1> QED
  BY <1>1, <1>2

\* The run refuses a call in a wrong mode as the checker foresaw.
LEMMA WrongMode ==
  ASSUME Inv, Running, NEW p \in Path, NEW modes \in SUBSET Mode,
         requireOpenMode(p, modes), handles[p].mode \notin modes,
         IF ~IsOpen(p) THEN Fail("R_FILE_NOT_OPEN") ELSE Fail("R_FILE_MODE")
  PROVE  Ended
<1>1. Diagnose /\ UNCHANGED openFiles
  BY ModesAgree
<1>2. PICK code \in Misuse : Fail(code)
  BY DEF Misuse
<1> QED
  BY <1>1, <1>2, Foreseen

\* READFILE fails, at the end of the file or as foreseen, or advances.
LEMMA ReadOutcome ==
  ASSUME Inv, Running, NEW p \in Path, ReadFile(p)
  PROVE  Ended \/ Advanced(p)
<1>1. requireOpenMode(p, { "READ" }) /\ { "READ" } \in SUBSET Mode
  BY DEF ReadFile, Mode
<1>2. CASE handles[p].mode \notin { "READ" }
  BY <1>1, <1>2, WrongMode DEF ReadFile, readLine, Access
<1>3. CASE handles[p].mode \in { "READ" }
  <2>1. IsOpen(p) /\ UNCHANGED checkerVars
    BY <1>1, <1>3, ModesAgree
  <2>2. store[p].kind = "text"
    BY <1>3 DEF Inv, FileInv, OpenMatchesBody
  <2>3. CASE handles[p].readIndex >= Len(store[p].lines)
    <3>1. Fail("R_FILE_EOF")
      BY <1>3, <2>1, <2>2, <2>3 DEF ReadFile, readLine, Access
    <3> QED
      BY <2>1, <3>1, Unforeseen DEF Misuse, Code
  <2>4. CASE ~(handles[p].readIndex >= Len(store[p].lines))
    <3>1. handles[p].readIndex \in Nat /\ Len(store[p].lines) \in Nat
      BY Counts
    <3>2. handles[p].readIndex < Len(store[p].lines)
      BY <2>4, <3>1
    <3> QED
      BY <1>3, <2>1, <2>2, <2>4, <3>2 DEF ReadFile, readLine, Access, Advanced
  <2> QED
    BY <2>3, <2>4
<1> QED
  BY <1>2, <1>3

\* WRITEFILE fails as foreseen or appends its line.
LEMMA WriteOutcome ==
  ASSUME Inv, Running, NEW p \in Path, NEW l \in Line,
         requireOpenMode(p, { "WRITE", "APPEND" }), writeLine(p, l)
  PROVE  Ended \/ Wrote(p, l)
<1>1. { "WRITE", "APPEND" } \in SUBSET Mode
  BY DEF Mode
<1>2. CASE handles[p].mode \notin { "WRITE", "APPEND" }
  BY <1>1, <1>2, WrongMode DEF writeLine, Access
<1>3. CASE handles[p].mode \in { "WRITE", "APPEND" }
  <2>1. IsOpen(p) /\ UNCHANGED checkerVars
    BY <1>1, <1>3, ModesAgree
  <2>2. store[p].kind = "text"
    BY <1>3 DEF Inv, FileInv, OpenMatchesBody
  <2> QED
    BY <1>3, <2>1, <2>2 DEF writeLine, Access, Wrote
<1> QED
  BY <1>2, <1>3

\* EOF fails as foreseen or changes nothing.
LEMMA EofOutcome ==
  ASSUME Inv, Running, NEW p \in Path, Eof(p)
  PROVE  Ended \/ UNCHANGED vars
<1>1. requireOpenMode(p, Mode) /\ Mode \in SUBSET Mode
  BY DEF Eof, checkEof
<1>2. CASE IsOpen(p)
  <2>1. UNCHANGED checkerVars
    BY <1>1, <1>2, ModesAgree, Facts
  <2> QED
    BY <1>2, <2>1 DEF Eof, eof, vars
<1>3. CASE ~IsOpen(p)
  <2>1. Diagnose /\ UNCHANGED openFiles
    BY <1>1, <1>3, ModesAgree, Facts
  <2>2. Fail("R_FILE_NOT_OPEN")
    BY <1>3 DEF Eof, eof
  <2> QED
    BY <2>1, <2>2, Foreseen DEF Misuse
<1> QED
  BY <1>2, <1>3

\* SEEK fails on a negative address or as foreseen, or moves the handle.
LEMMA SeekOutcome ==
  ASSUME Inv, Running, NEW p \in Path, NEW n \in { -1 } \cup Address,
         requireOpenMode(p, { "RANDOM" }), seek(p, n)
  PROVE  Ended \/ (n \in Address /\ Sought(p, n))
<1>1. { "RANDOM" } \in SUBSET Mode
  BY DEF Mode
<1>2. CASE handles[p].mode \notin { "RANDOM" }
  BY <1>1, <1>2, WrongMode DEF seek
<1>3. CASE handles[p].mode \in { "RANDOM" }
  <2>1. IsOpen(p) /\ UNCHANGED checkerVars
    BY <1>1, <1>3, ModesAgree
  <2>2. CASE n < 0
    <3>1. Fail("R_FILE_SEEK")
      BY <1>3, <2>1, <2>2 DEF seek
    <3> QED
      BY <2>1, <3>1, Unforeseen DEF Misuse, Code
  <2>3. CASE ~(n < 0)
    BY <1>3, <2>1, <2>3 DEF seek, Sought
  <2> QED
    BY <2>2, <2>3
<1> QED
  BY <1>2, <1>3

\* GETRECORD fails where no record is, or as foreseen, or stores a copy of the
\* record in the variable.
LEMMA GetOutcome ==
  ASSUME Inv, Running, NEW p \in Path, NEW v \in Var,
         requireOpenMode(p, { "RANDOM" }), getRecord(p, v)
  PROVE  Ended \/ Got(p, v)
<1>1. { "RANDOM" } \in SUBSET Mode /\ v \in Place /\ Here(p) \in Place
  BY Facts DEF Mode, Place
<1>2. CASE handles[p].mode \notin { "RANDOM" }
  BY <1>1, <1>2, WrongMode DEF getRecord, Access
<1>3. CASE handles[p].mode \in { "RANDOM" }
  <2>1. IsOpen(p) /\ UNCHANGED checkerVars
    BY <1>1, <1>3, ModesAgree
  <2>2. store[p].kind = "random"
    BY <1>3 DEF Inv, FileInv, OpenMatchesBody
  <2>3. CASE hold[Here(p)] = Nil
    <3>1. Fail("R_FILE_NO_RECORD")
      BY <1>3, <2>1, <2>2, <2>3 DEF getRecord, Access
    <3> QED
      BY <2>1, <3>1, Unforeseen DEF Misuse, Code
  <2>4. CASE hold[Here(p)] # Nil
    <3>1. StoreClone(v, hold[Here(p)]) /\ UNCHANGED << store, handles, error >>
      BY <1>3, <2>1, <2>2, <2>4 DEF getRecord, Access
    <3>2. hold[Here(p)] = Here(p)
      BY <1>1, <2>4 DEF Inv, FileInv, Unshared
    <3>3. Stores(v, cell[Here(p)])
      BY <1>1, <3>1, <3>2, CopyStores DEF Inv, TypeOK, FileInv
    <3> QED
      BY <1>3, <2>1, <2>4, <3>1, <3>3 DEF Got
  <2> QED
    BY <2>3, <2>4
<1> QED
  BY <1>2, <1>3

\* PUTRECORD fails as foreseen or stores a copy of the variable in the slot.
LEMMA PutOutcome ==
  ASSUME Inv, Running, NEW p \in Path, NEW v \in Var,
         requireOpenMode(p, { "RANDOM" }), putRecord(p, v)
  PROVE  Ended \/ Put(p, v)
<1>1. { "RANDOM" } \in SUBSET Mode /\ v \in Place /\ Here(p) \in Place
  BY Facts DEF Mode, Place
<1>2. CASE handles[p].mode \notin { "RANDOM" }
  BY <1>1, <1>2, WrongMode DEF putRecord, Access
<1>3. CASE handles[p].mode \in { "RANDOM" }
  <2>1. IsOpen(p) /\ UNCHANGED checkerVars
    BY <1>1, <1>3, ModesAgree
  <2>2. store[p].kind = "random"
    BY <1>3 DEF Inv, FileInv, OpenMatchesBody
  <2>3. StoreClone(Here(p), hold[v]) /\ UNCHANGED << store, handles, error >>
    BY <1>3, <2>1, <2>2 DEF putRecord, Access
  <2>4. hold[v] = v
    BY <1>1 DEF Inv, TypeOK, FsTypeOK, FileInv, Unshared
  <2>5. Stores(Here(p), cell[v])
    BY <1>1, <2>3, <2>4, CopyStores DEF Inv, TypeOK, FileInv
  <2> QED
    BY <1>3, <2>1, <2>3, <2>5 DEF Put
<1> QED
  BY <1>2, <1>3

\* An assignment, of a field, of a nested record or of a record.
LEMMA MemoryOutcome ==
  ASSUME Inv, Running, Memory
  PROVE  \/ \E v \in Var, x \in Value : Set(v, x)
         \/ \E v, w \in Var : Copied(v, w)
<1>1. FsTypeOK /\ Unshared
  BY DEF Inv, TypeOK, FileInv
<1>2. ASSUME NEW v \in Var, NEW x \in Value, SetField(v, x)
      PROVE  Set(v, x)
  BY <1>1, <1>2, FieldStores DEF Set, SetField, Memory
<1>3. ASSUME NEW v \in Var, NEW w \in Var, AssignNested(v, w)
      PROVE  Copied(v, w)
  BY <1>1, <1>3, NestedStores DEF Copied, Set, AssignNested, Memory
<1>4. ASSUME NEW v \in Var, NEW w \in Var, Assign(v, w)
      PROVE  Copied(v, w)
  <2>1. v \in Place /\ w \in Place
    BY DEF Place
  <2>2. hold[w] = w
    BY <1>1, <2>1 DEF FsTypeOK, Unshared
  <2>3. StoreClone(v, w)
    BY <1>4, <2>2 DEF Assign
  <2>4. Stores(v, cell[w])
    BY <1>1, <2>1, <2>3, CopyStores
  <2> QED
    BY <1>4, <2>4 DEF Copied, Set, Assign, Memory
<1> QED
  BY <1>2, <1>3, <1>4 DEF Memory

\* All that a step can be.
LEMMA Outcomes ==
  ASSUME Inv, Next
  PROVE  \/ Ended
         \/ UNCHANGED vars
         \/ \E v \in Var, x \in Value : Set(v, x)
         \/ \E v, w \in Var : Copied(v, w)
         \/ \E p \in Path :
              \/ \E mode \in Mode : Opened(p, mode)
              \/ WasClosed(p)
              \/ Advanced(p)
              \/ \E l \in Line : Wrote(p, l)
              \/ \E n \in Address : Sought(p, n)
              \/ \E v \in Var : Put(p, v) \/ Got(p, v)
<1>1. Running
  BY DEF Next
<1>2. CASE Memory
  BY <1>1, <1>2, MemoryOutcome
<1>3. ASSUME NEW p \in Path, OpenFile(p)
      PROVE  Ended \/ \E mode \in Mode : Opened(p, mode)
  BY <1>1, <1>3, OpenOutcome DEF OpenFile
<1>4. ASSUME NEW p \in Path, WriteFile(p)
      PROVE  Ended \/ \E l \in Line : Wrote(p, l)
  BY <1>1, <1>4, WriteOutcome DEF WriteFile
<1>5. ASSUME NEW p \in Path, Seek(p)
      PROVE  Ended \/ \E n \in Address : Sought(p, n)
  BY <1>1, <1>5, SeekOutcome DEF Seek
<1>6. ASSUME NEW p \in Path, GetRecord(p)
      PROVE  Ended \/ \E v \in Var : Got(p, v)
  BY <1>1, <1>6, GetOutcome DEF GetRecord
<1>7. ASSUME NEW p \in Path, PutRecord(p)
      PROVE  Ended \/ \E v \in Var : Put(p, v)
  BY <1>1, <1>7, PutOutcome DEF PutRecord
<1> QED
  BY <1>1, <1>2, <1>3, <1>4, <1>5, <1>6, <1>7, CloseOutcome, ReadOutcome, EofOutcome
     DEF Next
-----------------------------------------------------------------------------
(* Each outcome keeps the invariant *)

\* A run finds no file, or the text files it was seeded with (seed).
LEMMA SeededFiles ==
  ASSUME Init
  PROVE  /\ store \in [ Path -> Body ]
         /\ \A p \in Path : /\ store[p].kind \in { "missing", "text" }
                            /\ Len(store[p].lines) \in 0 .. 1
                            /\ store[p].kind = "missing" => store[p].lines = << >>
<1> DEFINE Seeded == { [ kind |-> "text", lines |-> << l >> ] : l \in Line }
           Bodies == { Empty("missing"), Empty("text") } \cup Seeded
<1>0. store \in [ Path -> Bodies ]
  <2>1. \A l \in Line :
          [ Empty("text") EXCEPT !.lines = << l >> ] = [ kind |-> "text", lines |-> << l >> ]
    BY DEF Empty
  <2>2. { [ Empty("text") EXCEPT !.lines = << l >> ] : l \in Line } = Seeded
    BY <2>1
  <2> QED
    BY <2>2 DEF Init, FsInit
<1>1. \A body \in Bodies :
        /\ body \in Body
        /\ body.kind \in { "missing", "text" }
        /\ Len(body.lines) \in 0 .. 1
        /\ body.kind = "missing" => body.lines = << >>
  <2>1. \A body \in Seeded :
          body \in Body /\ body.kind = "text" /\ Len(body.lines) = 1
    <3>1. \A l \in Line : << l >> \in Seq(Line) /\ Len(<< l >>) = 1
      OBVIOUS
    <3> SUFFICES ASSUME NEW l \in Line
                 PROVE  LET body == [ kind |-> "text", lines |-> << l >> ]
                        IN body \in Body /\ body.kind = "text" /\ Len(body.lines) = 1
      OBVIOUS
    <3>2. [ kind |-> "text", lines |-> << l >> ] \in Body
      BY <3>1 DEF Body
    <3> QED
      BY <3>1, <3>2
  <2>2. << >> \in Seq(Line) /\ Len(<< >>) = 0
    OBVIOUS
  <2>3. \A kind \in { "missing", "text" } :
          Empty(kind).kind = kind /\ Empty(kind).lines = << >> /\ Empty(kind) \in Body
    BY <2>2 DEF Empty, Body
  <2>4. \A body \in Seeded :
          body.kind \in { "missing", "text" } /\ Len(body.lines) \in 0 .. 1
          /\ body.kind # "missing"
    BY <2>1
  <2>5. \A kind \in { "missing", "text" } : Len(Empty(kind).lines) \in 0 .. 1
    BY <2>2, <2>3
  <2> HIDE DEF Seeded
  <2> QED
    BY <2>1, <2>3, <2>4, <2>5
<1> HIDE DEF Bodies
<1> QED
  BY <1>0, <1>1

\* The invariant holds initially: no path is open, no slot holds a record.
LEMMA InitInv == Init => Inv
<1> SUFFICES ASSUME Init PROVE Inv
  OBVIOUS
<1>2. store \in [ Path -> Body ] /\ \A p \in Path : Len(store[p].lines) \in 0 .. 1
  BY SeededFiles
<1>3. \A p \in Path : /\ store[p].kind \in { "missing", "text" }
                      /\ store[p].kind = "missing" => store[p].lines = << >>
  BY SeededFiles
<1>4. handles \in [ Path -> Handle ]
  BY FilesAssumption DEF Init, FsInit, Closed, Handle, Address
<1>5. \A p \in Path : handles[p].mode = "closed" /\ handles[p].readIndex = 0
  BY DEF Init, FsInit, Closed
<1>6. hold \in [ Place -> Obj \cup { Nil } ]
  BY DEF Init, FsInit, Obj
<1>7. \A v \in Var : hold[v] # Nil
  BY FilesAssumption DEF Init, FsInit, Place
<1>8. \A p \in Path, a \in Address : hold[<< p, a >>] = Nil
  BY FilesAssumption DEF Init, FsInit, Place, Slot
<1>9. nested \in [ Obj -> Cell ] /\ cell \in [ Cell -> Value ]
  BY DEF Init, FsInit, Obj, Cell
<1>10. FsTypeOK
  BY <1>2, <1>4, <1>6, <1>7, <1>9 DEF FsTypeOK, Init, FsInit, Code
<1>11. CheckerTypeOK
  BY DEF Init, CheckerInit, CheckerTypeOK
<1>12. OpenMatchesBody
  BY <1>5 DEF OpenMatchesBody
<1>13. CheckedExactly /\ InStep
  BY <1>5 DEF Init, FsInit, CheckerInit, CheckedExactly, InStep
<1>14. Unshared
  BY DEF Init, FsInit, Unshared, Obj
<1>15. OneKind
  <2>1. \A p \in Path : /\ Len(store[p].lines) <= MaxLines
                        /\ handles[p].readIndex <= Len(store[p].lines)
    <3> TAKE p \in Path
    <3>1. Len(store[p].lines) \in 0 .. 1
      BY <1>2
    <3>2. handles[p].readIndex = 0
      BY <1>5
    <3>3. MaxLines \in Nat /\ 1 <= MaxLines
      BY FilesAssumption
    <3>4. \A n \in 0 .. 1 : n <= MaxLines /\ 0 <= n
      BY <3>3
    <3> QED
      BY <3>1, <3>2, <3>4
  <2>2. \A p \in Path : /\ store[p].kind # "text" => store[p].lines = << >>
                        /\ store[p].kind # "random" => \A a \in Address : hold[<< p, a >>] = Nil
    BY <1>3, <1>8
  <2> QED
    BY <2>1, <2>2 DEF OneKind
<1> QED
  BY <1>10, <1>11, <1>12, <1>13, <1>14, <1>15 DEF Inv, TypeOK, FileInv

\* A program that ends leaves its files and its memory as they are.
LEMMA EndedKeeps ==
  ASSUME Inv, Ended
  PROVE  Inv'
<1>1. PICK code \in Code \ { "none" } :
        /\ Fail(code)
        /\ accepted' = (code \notin Misuse)
        /\ openFiles' \in [ Path -> Mode \cup { "closed" } ]
  BY DEF Ended
<1>2. UNCHANGED << store, handles, hold, nested, cell >> /\ error' = code
  BY <1>1 DEF Fail, heapVars
<1>3. FsTypeOK'
  BY <1>1, <1>2 DEF Inv, TypeOK, FsTypeOK
<1>4. CheckerTypeOK'
  BY <1>1 DEF CheckerTypeOK
<1>5. CheckedExactly'
  BY <1>1, <1>2 DEF CheckedExactly, Misuse
<1>6. InStep'
  BY <1>2 DEF InStep, Running
<1>7. OpenMatchesBody'
  BY <1>2 DEF Inv, FileInv, OpenMatchesBody
<1>8. Unshared'
  BY <1>2 DEF Inv, FileInv, Unshared
<1>9. OneKind'
  BY <1>2 DEF Inv, FileInv, OneKind
<1> QED
  BY <1>3, <1>4, <1>5, <1>6, <1>7, <1>8, <1>9 DEF Inv, TypeOK, FileInv

\* A record that is stored in a variable, or in a slot of a random file.
LEMMA StoredKeeps ==
  ASSUME Inv, NEW at \in Place, NEW x \in Value, Stores(at, x),
         UNCHANGED << store, handles, error, checkerVars >>,
         \A p \in Path, a \in Address : at = << p, a >> => store[p].kind = "random"
  PROVE  Inv'
<1>1. FsTypeOK /\ Unshared
  BY DEF Inv, TypeOK, FileInv
<1>2. UNCHANGED << openFiles, accepted >>
  BY DEF checkerVars
<1>3. FsTypeOK'
  BY <1>1, StoringKeeps DEF FsTypeOK
<1>4. CheckerTypeOK'
  BY <1>2 DEF Inv, TypeOK, CheckerTypeOK
<1>5. Unshared'
  BY <1>1, StoringKeeps
<1>6. OpenMatchesBody'
  BY DEF Inv, FileInv, OpenMatchesBody
<1>7. CheckedExactly' /\ InStep'
  BY <1>2 DEF Inv, FileInv, CheckedExactly, InStep, Running
<1>8. OneKind'
  <2>1. hold \in [ Place -> Obj \cup { Nil } ]
    BY <1>1 DEF FsTypeOK
  <2>2. \A p \in Path, a \in Address :
          store[p].kind # "random" => hold'[<< p, a >>] = hold[<< p, a >>]
    BY <2>1 DEF Stores, Place, Slot
  <2> QED
    BY <2>2 DEF Inv, FileInv, OneKind
<1> QED
  BY <1>3, <1>4, <1>5, <1>6, <1>7, <1>8 DEF Inv, TypeOK, FileInv

\* What OPENFILE makes of a path's body.
LEMMA BodyOnceOpen ==
  ASSUME NEW body \in Body, NEW mode \in Mode, mode = "READ" => body.kind = "text"
  PROVE  /\ Established(body, mode) \in Body
         /\ mode # "RANDOM" => Established(body, mode).kind = "text"
         /\ mode = "RANDOM" => Established(body, mode).kind = "random"
         /\ Established(body, mode) = body
            \/ Established(body, mode) \in { Empty("text"), Empty("random") }
         /\ mode = "RANDOM" /\ body.kind = "random" => Established(body, mode) = body
<1>1. << >> \in Seq(Line)
  OBVIOUS
<1>2. \A kind \in { "text", "random" } : Empty(kind) \in Body /\ Empty(kind).kind = kind
  BY <1>1 DEF Empty, Body
<1> QED
  BY <1>2 DEF Established, Mode

\* OPENFILE keeps it: the body fits the mode, and what does not fit is gone.
LEMMA OpenedKeeps ==
  ASSUME Inv, Running, NEW p \in Path, NEW mode \in Mode, Opened(p, mode)
  PROVE  Inv'
<1> DEFINE new == Established(store[p], mode)
<1>1. /\ handles' = [ handles EXCEPT ![p] = [ Closed EXCEPT !.mode = mode ] ]
      /\ store' = [ store EXCEPT ![p] = new ]
      /\ hold' = [ x \in Place |->
                     IF x \in { p } \X Address /\ store'[p].kind # "random"
                     THEN Nil ELSE hold[x] ]
      /\ UNCHANGED << nested, cell, error, accepted >>
      /\ openFiles' = [ openFiles EXCEPT ![p] = mode ]
  BY DEF Opened, SetOpen
<1>2. /\ store \in [ Path -> Body ] /\ handles \in [ Path -> Handle ]
      /\ openFiles \in [ Path -> Mode \cup { "closed" } ]
      /\ hold \in [ Place -> Obj \cup { Nil } ]
  BY DEF Inv, TypeOK, FsTypeOK, CheckerTypeOK
<1>3. /\ new \in Body
      /\ mode # "RANDOM" => new.kind = "text"
      /\ mode = "RANDOM" => new.kind = "random"
      /\ new = store[p] \/ new \in { Empty("text"), Empty("random") }
  BY <1>2, BodyOnceOpen DEF Opened
<1> HIDE DEF new
<1>4. \A q \in Path : store'[q] = IF q = p THEN new ELSE store[q]
  BY <1>1, <1>2
<1>5. [ Closed EXCEPT !.mode = mode ] = [ mode |-> mode, readIndex |-> 0, recordNumber |-> 0 ]
  BY DEF Closed
<1>6. \A q \in Path :
        handles'[q] = IF q = p THEN [ mode |-> mode, readIndex |-> 0, recordNumber |-> 0 ]
                      ELSE handles[q]
  BY <1>1, <1>2, <1>5
<1>7. [ mode |-> mode, readIndex |-> 0, recordNumber |-> 0 ] \in Handle
  BY FilesAssumption DEF Handle, Address
<1>8. handles' \in [ Path -> Handle ]
  BY <1>1, <1>2, <1>5, <1>7
<1>9. store' \in [ Path -> Body ]
  BY <1>1, <1>2, <1>3
<1>10. hold' \in [ Place -> Obj \cup { Nil } ]
  BY <1>1, <1>2
<1>11. \A v \in Var : v \in Place /\ v \notin { p } \X Address
  BY FilesAssumption DEF Place, Slot
<1>12. \A v \in Var : hold'[v] # Nil
  BY <1>1, <1>11 DEF Inv, TypeOK, FsTypeOK
<1>13. FsTypeOK'
  BY <1>1, <1>8, <1>9, <1>10, <1>12 DEF Inv, TypeOK, FsTypeOK
<1>14. CheckerTypeOK'
  BY <1>1, <1>2 DEF Inv, TypeOK, CheckerTypeOK
<1>15. OpenMatchesBody'
  BY <1>3, <1>4, <1>6 DEF Inv, FileInv, OpenMatchesBody
<1>16. CheckedExactly'
  BY <1>1 DEF Inv, FileInv, CheckedExactly
<1>17. Unshared'
  BY <1>1 DEF Inv, FileInv, Unshared
<1>18. OneKind'
  <2> SUFFICES ASSUME NEW q \in Path
               PROVE  /\ store'[q].kind # "text" => store'[q].lines = << >>
                      /\ store'[q].kind # "random" => \A a \in Address : hold'[<< q, a >>] = Nil
                      /\ Len(store'[q].lines) <= MaxLines
                      /\ handles'[q].readIndex <= Len(store'[q].lines)
    BY DEF OneKind
  <2>1. \A a \in Address : << q, a >> \in Place
    BY DEF Place, Slot
  <2>2. /\ store[q].kind # "text" => store[q].lines = << >>
        /\ store[q].kind # "random" => \A a \in Address : hold[<< q, a >>] = Nil
        /\ Len(store[q].lines) <= MaxLines
        /\ handles[q].readIndex <= Len(store[q].lines)
    BY DEF Inv, FileInv, OneKind
  <2>3. CASE q # p
    <3>1. store'[q] = store[q] /\ handles'[q] = handles[q]
      BY <2>3, <1>4, <1>6
    <3>2. \A a \in Address : << q, a >> \notin { p } \X Address
      BY <2>3
    <3>3. \A a \in Address : hold'[<< q, a >>] = hold[<< q, a >>]
      BY <2>1, <3>2, <1>1
    <3> QED
      BY <2>2, <3>1, <3>3
  <2>4. CASE q = p
    <3>1. store'[q] = new /\ handles'[q].readIndex = 0
      BY <2>4, <1>4, <1>6
    <3>2. new.kind # "random" => \A a \in Address : hold'[<< q, a >>] = Nil
      BY <2>1, <2>4, <3>1, <1>1
    <3>3. CASE new = store[p]
      <4>1. Len(store[p].lines) \in Nat
        BY Counts
      <4> QED
        BY <2>2, <2>4, <3>1, <3>2, <3>3, <4>1
    <3>4. CASE new \in { Empty("text"), Empty("random") }
      <4>1. new.lines = << >>
        BY <3>4 DEF Empty
      <4>2. Len(new.lines) = 0
        BY <4>1
      <4> QED
        BY <3>1, <3>2, <4>1, <4>2, FilesAssumption
    <3> QED
      BY <1>3, <3>3, <3>4
  <2> QED
    BY <2>3, <2>4
<1>19. InStep'
  <2>1. ASSUME NEW q \in Path PROVE openFiles'[q] = handles'[q].mode
    <3>1. openFiles[q] = handles[q].mode
      BY Facts
    <3>2. openFiles'[q] = IF q = p THEN mode ELSE openFiles[q]
      BY <1>1, <1>2
    <3>3. handles'[q].mode = IF q = p THEN mode ELSE handles[q].mode
      BY <1>6
    <3> QED
      BY <3>1, <3>2, <3>3
  <2>2. accepted'
    BY <1>1, Facts
  <2> QED
    BY <2>1, <2>2 DEF InStep
<1> QED
  BY <1>13, <1>14, <1>15, <1>16, <1>17, <1>18, <1>19 DEF Inv, TypeOK, FileInv

\* CLOSEFILE keeps it.
LEMMA ClosedKeeps ==
  ASSUME Inv, Running, NEW p \in Path, WasClosed(p)
  PROVE  Inv'
<1>1. /\ handles \in [ Path -> Handle ]
      /\ openFiles \in [ Path -> Mode \cup { "closed" } ]
  BY DEF Inv, TypeOK, FsTypeOK, CheckerTypeOK
<1>2. UNCHANGED << store, hold, nested, cell, error, accepted >>
  BY DEF WasClosed, heapVars
<1>3. Closed \in Handle /\ Closed.mode = "closed" /\ Closed.readIndex = 0
  BY FilesAssumption DEF Closed, Handle, Address
<1>4. \A q \in Path : handles'[q] = IF q = p THEN Closed ELSE handles[q]
  BY <1>1 DEF WasClosed
<1>5. FsTypeOK'
  BY <1>1, <1>2, <1>3 DEF Inv, TypeOK, FsTypeOK, WasClosed
<1>6. CheckerTypeOK'
  BY <1>1, <1>2 DEF Inv, TypeOK, CheckerTypeOK, WasClosed
<1>7. OpenMatchesBody'
  BY <1>2, <1>3, <1>4 DEF Inv, FileInv, OpenMatchesBody
<1>8. CheckedExactly' /\ Unshared'
  BY <1>2 DEF Inv, FileInv, CheckedExactly, Unshared
<1>9. OneKind'
  <2>1. \A q \in Path : Len(store[q].lines) \in Nat
    BY Counts
  <2>2. \A q \in Path : handles'[q].readIndex <= Len(store[q].lines)
    BY <1>3, <1>4, <2>1 DEF Inv, FileInv, OneKind
  <2> QED
    BY <1>2, <2>2 DEF Inv, FileInv, OneKind
<1>10. InStep'
  <2>1. \A q \in Path : openFiles[q] = handles[q].mode
    BY Facts
  <2>2. \A q \in Path : openFiles'[q] = IF q = p THEN "closed" ELSE openFiles[q]
    BY <1>1 DEF WasClosed
  <2>3. accepted'
    BY <1>2, Facts
  <2> QED
    BY <1>3, <1>4, <2>1, <2>2, <2>3 DEF InStep
<1> QED
  BY <1>5, <1>6, <1>7, <1>8, <1>9, <1>10 DEF Inv, TypeOK, FileInv

\* READFILE keeps it: the reader stops at the last line.
LEMMA AdvancedKeeps ==
  ASSUME Inv, Running, NEW p \in Path, Advanced(p)
  PROVE  Inv'
<1>1. handles \in [ Path -> Handle ]
  BY DEF Inv, TypeOK, FsTypeOK
<1>2. UNCHANGED << store, hold, nested, cell, error, openFiles, accepted >>
  BY DEF Advanced, heapVars, checkerVars
<1>3. /\ handles[p].readIndex \in Nat /\ Len(store[p].lines) \in Nat
      /\ handles[p].readIndex < Len(store[p].lines)
      /\ Len(store[p].lines) <= MaxLines
  BY Counts DEF Advanced, Inv, FileInv, OneKind
<1>4. handles[p].readIndex + 1 \in 0 .. MaxLines
      /\ handles[p].readIndex + 1 <= Len(store[p].lines)
  BY <1>3, FilesAssumption
<1>5. [ handles[p] EXCEPT !.readIndex = @ + 1 ] \in Handle
  BY <1>1, <1>4 DEF Handle
<1>6. \A q \in Path :
        /\ handles'[q].mode = handles[q].mode
        /\ handles'[q].readIndex = IF q = p THEN handles[p].readIndex + 1
                                   ELSE handles[q].readIndex
  BY <1>1 DEF Advanced, Handle
<1>7. handles' \in [ Path -> Handle ]
  BY <1>1, <1>5 DEF Advanced
<1>8. FsTypeOK' /\ CheckerTypeOK'
  BY <1>2, <1>7 DEF Inv, TypeOK, FsTypeOK, CheckerTypeOK
<1>9. OpenMatchesBody'
  BY <1>2, <1>6 DEF Inv, FileInv, OpenMatchesBody
<1>10. CheckedExactly' /\ Unshared'
  BY <1>2 DEF Inv, FileInv, CheckedExactly, Unshared
<1>11. OneKind'
  BY <1>2, <1>4, <1>6 DEF Inv, FileInv, OneKind
<1>12. InStep'
  BY <1>2, <1>6 DEF Inv, FileInv, InStep, Running
<1> QED
  BY <1>8, <1>9, <1>10, <1>11, <1>12 DEF Inv, TypeOK, FileInv

\* WRITEFILE keeps it: it appends to a text file that nobody reads.
LEMMA WroteKeeps ==
  ASSUME Inv, Running, NEW p \in Path, NEW l \in Line, Wrote(p, l)
  PROVE  Inv'
<1>1. store \in [ Path -> Body ]
  BY DEF Inv, TypeOK, FsTypeOK
<1>2. UNCHANGED << handles, hold, nested, cell, error, openFiles, accepted >>
  BY DEF Wrote, heapVars, checkerVars
<1> DEFINE new == Append(store[p].lines, l)
<1>3. new \in Seq(Line) /\ Len(new) = Len(store[p].lines) + 1
  BY Counts
<1>4. store[p].kind = "text"
  BY DEF Wrote, Inv, FileInv, OpenMatchesBody
<1> HIDE DEF new
<1>5. [ store[p] EXCEPT !.lines = new ] \in Body
  BY <1>1, <1>3 DEF Body
<1>6. store' = [ store EXCEPT ![p].lines = new ]
  BY DEF Wrote, new
<1>7. \A q \in Path :
        /\ store'[q].kind = store[q].kind
        /\ store'[q].lines = IF q = p THEN new ELSE store[q].lines
  BY <1>1, <1>6 DEF Body
<1>8. store' \in [ Path -> Body ]
  BY <1>1, <1>5, <1>6
<1>9. FsTypeOK' /\ CheckerTypeOK'
  BY <1>2, <1>8 DEF Inv, TypeOK, FsTypeOK, CheckerTypeOK
<1>10. OpenMatchesBody'
  BY <1>2, <1>7 DEF Inv, FileInv, OpenMatchesBody
<1>11. CheckedExactly' /\ Unshared' /\ InStep'
  BY <1>2 DEF Inv, FileInv, CheckedExactly, Unshared, InStep, Running
<1>12. OneKind'
  <2>1. /\ Len(new) <= MaxLines
        /\ handles[p].readIndex <= Len(store[p].lines) => handles[p].readIndex <= Len(new)
    BY <1>3, Counts, FilesAssumption DEF Wrote
  <2> QED
    BY <1>2, <1>4, <1>7, <2>1 DEF Inv, FileInv, OneKind
<1> QED
  BY <1>9, <1>10, <1>11, <1>12 DEF Inv, TypeOK, FileInv

\* SEEK keeps it.
LEMMA SoughtKeeps ==
  ASSUME Inv, Running, NEW p \in Path, NEW n \in Address, Sought(p, n)
  PROVE  Inv'
<1>1. handles \in [ Path -> Handle ]
  BY DEF Inv, TypeOK, FsTypeOK
<1>2. UNCHANGED << store, hold, nested, cell, error, openFiles, accepted >>
  BY DEF Sought, heapVars, checkerVars
<1>3. [ handles[p] EXCEPT !.recordNumber = n ] \in Handle
  BY <1>1 DEF Handle
<1>4. \A q \in Path : /\ handles'[q].mode = handles[q].mode
                      /\ handles'[q].readIndex = handles[q].readIndex
  BY <1>1 DEF Sought, Handle
<1>5. handles' \in [ Path -> Handle ]
  BY <1>1, <1>3 DEF Sought
<1>6. FsTypeOK' /\ CheckerTypeOK'
  BY <1>2, <1>5 DEF Inv, TypeOK, FsTypeOK, CheckerTypeOK
<1>7. OpenMatchesBody' /\ OneKind' /\ InStep'
  BY <1>2, <1>4 DEF Inv, FileInv, OpenMatchesBody, OneKind, InStep, Running
<1>8. CheckedExactly' /\ Unshared'
  BY <1>2 DEF Inv, FileInv, CheckedExactly, Unshared
<1> QED
  BY <1>6, <1>7, <1>8 DEF Inv, TypeOK, FileInv

\* No step changes the state when the variables stay.
LEMMA StutterKeeps ==
  ASSUME Inv, UNCHANGED vars
  PROVE  Inv'
<1>1. UNCHANGED << store, handles, hold, nested, cell, error, openFiles, accepted >>
  BY DEF vars, fsVars, heapVars, checkerVars
<1> QED
  BY <1>1 DEF Inv, TypeOK, FsTypeOK, CheckerTypeOK, FileInv, OpenMatchesBody,
              CheckedExactly, Unshared, OneKind, InStep, Running

\* Which record each of the four copies stores, and where.
LEMMA StoredAt ==
  ASSUME Inv, Running
  PROVE  /\ \A v \in Var, x \in Value : Set(v, x) => Inv'
         /\ \A v, w \in Var : Copied(v, w) => Inv'
         /\ \A p \in Path, v \in Var : Put(p, v) \/ Got(p, v) => Inv'
<1>1. cell \in [ Place -> Value ] /\ Var \subseteq Place
  BY DEF Inv, TypeOK, FsTypeOK, Cell, Place
<1>2. ASSUME NEW v \in Var, NEW x \in Value, Set(v, x)
      PROVE  Inv'
  <2>1. \A p \in Path, a \in Address : v # << p, a >>
    BY FilesAssumption DEF Slot
  <2>2. v \in Place
    BY <1>1
  <2> QED
    BY <1>2, <2>1, <2>2, StoredKeeps DEF Set
<1>3. ASSUME NEW v \in Var, NEW w \in Var, Copied(v, w)
      PROVE  Inv'
  BY <1>1, <1>2, <1>3 DEF Copied
<1>4. ASSUME NEW p \in Path, NEW v \in Var, Put(p, v)
      PROVE  Inv'
  <2>1. Here(p) \in Place /\ cell[v] \in Value
    BY <1>1, Facts
  <2>2. store[p].kind = "random"
    BY <1>4 DEF Put, Inv, FileInv, OpenMatchesBody
  <2>3. \A q \in Path, a \in Address : Here(p) = << q, a >> => store[q].kind = "random"
    BY <2>2 DEF Here
  <2> QED
    BY <1>4, <2>1, <2>3, StoredKeeps DEF Put
<1>5. ASSUME NEW p \in Path, NEW v \in Var, Got(p, v)
      PROVE  Inv'
  <2>1. cell[Here(p)] \in Value
    BY <1>1, Facts
  <2> QED
    BY <1>2, <1>5, <2>1 DEF Got, Set
<1> QED
  BY <1>2, <1>3, <1>4, <1>5

\* FileInv is inductive.
LEMMA Inductive == Inv /\ [Next]_vars => Inv'
<1> SUFFICES ASSUME Inv, [Next]_vars PROVE Inv'
  OBVIOUS
<1>1. CASE UNCHANGED vars
  BY <1>1, StutterKeeps
<1>2. CASE Next
  <2>1. Running
    BY <1>2 DEF Next
  <2> QED
    BY <1>2, <2>1, Outcomes, EndedKeeps, StutterKeeps, StoredAt, OpenedKeeps,
       ClosedKeeps, AdvancedKeeps, WroteKeeps, SoughtKeeps
<1> QED
  BY <1>1, <1>2

\* The invariant holds in every state of every run.
LEMMA Invariance == Spec => []Inv
  BY InitInv, Inductive, PTL DEF Spec

-----------------------------------------------------------------------------
(* The theorems *)

\* The files, the handles, the memory and the checker's table keep their types.
THEOREM Typing == Spec => []TypeOK
<1>1. Inv => TypeOK
  BY DEF Inv
<1> QED
  BY <1>1, Invariance, PTL

\* An open path always has a body its mode can work with (open).
THEOREM OpenBodies == Spec => []OpenMatchesBody
<1>1. Inv => OpenMatchesBody
  BY DEF Inv, FileInv
<1> QED
  BY <1>1, Invariance, PTL

\* Of a straight-line program the checker refuses exactly the statements that
\* would fail on the path's open state (check-files.ts).
THEOREM CheckerExact == Spec => []CheckedExactly
<1>1. Inv => CheckedExactly
  BY DEF Inv, FileInv
<1> QED
  BY <1>1, Invariance, PTL

\* What one step does to a path that is open for READ before and after it.
ReaderStep(p) ==
  (handles[p].mode = "READ" /\ handles'[p].mode = "READ") =>
    /\ store'[p] = store[p]
    /\ handles'[p].readIndex - handles[p].readIndex \in { 0, 1 }
    /\ handles'[p].readIndex <= Len(store[p].lines)

\* A step that touches neither the files nor the handles disturbs no reader.
LEMMA ReaderLeftAlone ==
  ASSUME Inv, NEW p \in Path, store'[p] = store[p], handles'[p] = handles[p]
  PROVE  ReaderStep(p)
<1>1. handles[p].readIndex \in Nat /\ handles[p].readIndex <= Len(store[p].lines)
  BY Counts DEF Inv, FileInv, OneKind
<1> QED
  BY <1>1 DEF ReaderStep

\* Nor does one that opens, closes, reads, writes or seeks some path.
LEMMA ReaderKept ==
  ASSUME Inv, Running, NEW p \in Path, NEW q \in Path,
         \/ \E mode \in Mode : Opened(q, mode)
         \/ WasClosed(q)
         \/ Advanced(q)
         \/ \E l \in Line : Wrote(q, l)
         \/ \E n \in Address : Sought(q, n)
  PROVE  ReaderStep(p)
<1>1. /\ handles \in [ Path -> Handle ] /\ store \in [ Path -> Body ]
  BY DEF Inv, TypeOK, FsTypeOK
<1>2. CASE q # p
  <2>1. store'[p] = store[p] /\ handles'[p] = handles[p]
    BY <1>1, <1>2 DEF Opened, SetOpen, WasClosed, Advanced, Wrote, Sought
  <2> QED
    BY <2>1, ReaderLeftAlone
<1>3. CASE q = p /\ \E mode \in Mode : Opened(q, mode)
  <2>1. handles[p].mode \notin Mode
    BY <1>3, Facts DEF Opened
  <2> QED
    BY <2>1 DEF ReaderStep, Mode
<1>4. CASE q = p /\ WasClosed(q)
  <2>1. handles'[p] = Closed
    BY <1>1, <1>4 DEF WasClosed
  <2> QED
    BY <2>1 DEF ReaderStep, Closed
<1>5. CASE q = p /\ Advanced(q)
  <2>1. /\ handles'[p].readIndex = handles[p].readIndex + 1
        /\ store'[p] = store[p]
        /\ handles[p].readIndex < Len(store[p].lines)
    BY <1>1, <1>5 DEF Advanced, Handle
  <2> QED
    BY <2>1, Counts DEF ReaderStep
<1>6. CASE q = p /\ \E l \in Line : Wrote(q, l)
  BY <1>6 DEF Wrote, ReaderStep
<1>7. CASE q = p /\ \E n \in Address : Sought(q, n)
  BY <1>7 DEF Sought, ReaderStep
<1> QED
  BY <1>2, <1>3, <1>4, <1>5, <1>6, <1>7

\* A file that is being read is neither truncated nor written, and its reader
\* advances line by line to its end (open, readLine).
THEOREM ReadersUndisturbed == Spec => ReaderUndisturbed
<1>1. Inv /\ [Next]_vars => \A p \in Path : ReaderStep(p)
  <2> SUFFICES ASSUME Inv, [Next]_vars, NEW p \in Path PROVE ReaderStep(p)
    OBVIOUS
  <2>1. CASE UNCHANGED vars
    BY <2>1, ReaderLeftAlone DEF vars, fsVars
  <2>2. CASE Next
    <3>1. Running
      BY <2>2 DEF Next
    <3>2. CASE Ended
      BY <3>2, ReaderLeftAlone DEF Ended, Fail
    <3>3. CASE \/ \E v \in Var, x \in Value : Set(v, x)
               \/ \E v, w \in Var : Copied(v, w)
               \/ \E q \in Path, v \in Var : Put(q, v) \/ Got(q, v)
      BY <3>3, ReaderLeftAlone DEF Set, Copied, Put, Got
    <3>4. CASE UNCHANGED vars
      BY <2>1, <3>4
    <3> QED
      BY <2>2, <3>1, <3>2, <3>3, <3>4, Outcomes, ReaderKept
  <2> QED
    BY <2>1, <2>2
<1>2. Inv /\ [Next]_vars => [ \A p \in Path :
        (handles[p].mode = "READ" /\ handles'[p].mode = "READ") =>
          /\ store'[p] = store[p]
          /\ handles'[p].readIndex - handles[p].readIndex \in { 0, 1 }
          /\ handles'[p].readIndex <= Len(store[p].lines) ]_vars
  BY <1>1 DEF ReaderStep
<1> QED
  BY <1>2, Invariance, PTL DEF Spec, ReaderUndisturbed

\* What EofForetellsRead says of a path and a step.
Foretold(p) ==
  handles[p].mode = "READ" =>
    IF ReadFile(p) THEN error' = "R_FILE_EOF" <=> atEnd(p)
    ELSE handles'[p].mode = "READ" => atEnd(p)' = atEnd(p)

\* READFILE of an open reader fails at the end of the file and nowhere else.
LEMMA ReadAsForetold ==
  ASSUME Inv, Running, NEW p \in Path, handles[p].mode = "READ", ReadFile(p)
  PROVE  error' = "R_FILE_EOF" <=> atEnd(p)
<1>1. IsOpen(p) /\ store[p].kind = "text" /\ error = "none"
  BY DEF IsOpen, Inv, FileInv, OpenMatchesBody, Running
<1>2. IF handles[p].readIndex >= Len(store[p].lines) THEN Fail("R_FILE_EOF")
      ELSE UNCHANGED error
  BY <1>1 DEF ReadFile, readLine, Access
<1> QED
  BY <1>1, <1>2 DEF Fail, atEnd

\* The answer depends on the path's own file and handle.
LEMMA AnswerStays ==
  ASSUME NEW p \in Path, ~ReadFile(p), store'[p] = store[p], handles'[p] = handles[p]
  PROVE  Foretold(p)
BY DEF Foretold, atEnd

\* A reader that advances was read by READFILE.
LEMMA AdvancedByRead ==
  ASSUME Inv, Running, NEW p \in Path, Advanced(p)
  PROVE  ReadFile(p)
<1>1. /\ handles[p].readIndex \in Nat /\ Len(store[p].lines) \in Nat
      /\ handles[p].readIndex < Len(store[p].lines)
  BY Counts DEF Advanced
<1>2. ~(handles[p].readIndex >= Len(store[p].lines))
  BY <1>1
<1>3. IsOpen(p) /\ store[p].kind = "text"
  BY DEF Advanced, IsOpen, Inv, FileInv, OpenMatchesBody
<1>4. readLine(p)
  BY <1>2, <1>3 DEF Advanced, readLine, Access
<1>5. requireOpenMode(p, { "READ" })
  BY Facts DEF Advanced, requireOpenMode, checkerVars
<1> QED
  BY <1>4, <1>5 DEF ReadFile

\* EOF tells what the next READFILE will do, whatever comes between the two
\* (eof, readLine).
THEOREM EofIsReliable == Spec => EofForetellsRead
<1>1. Inv /\ [Next]_vars => [ \A p \in Path : Foretold(p) ]_vars
  <2> SUFFICES ASSUME Inv, Next, NEW p \in Path, handles[p].mode = "READ"
               PROVE  Foretold(p)
    BY DEF Foretold
  <2>1. Running
    BY DEF Next
  <2>2. CASE ReadFile(p)
    BY <2>1, <2>2, ReadAsForetold DEF Foretold
  <2>3. CASE ~ReadFile(p)
    <3>1. /\ handles \in [ Path -> Handle ] /\ store \in [ Path -> Body ]
          /\ IsOpen(p)
      BY <2>1, Facts DEF Inv, TypeOK, FsTypeOK, Mode
    <3>2. CASE Ended
      BY <2>3, <3>2, AnswerStays DEF Ended, Fail
    <3>3. CASE \/ UNCHANGED vars
               \/ \E v \in Var, x \in Value : Set(v, x)
               \/ \E v, w \in Var : Copied(v, w)
               \/ \E q \in Path, v \in Var : Put(q, v) \/ Got(q, v)
      BY <2>3, <3>3, AnswerStays DEF vars, fsVars, Set, Copied, Put, Got
    <3>4. ASSUME NEW q \in Path, NEW mode \in Mode, Opened(q, mode)
          PROVE  Foretold(p)
      <4>1. q # p
        BY <3>1, <3>4 DEF Opened
      <4>2. store'[p] = store[p] /\ handles'[p] = handles[p]
        BY <3>1, <3>4, <4>1 DEF Opened, SetOpen
      <4> QED
        BY <2>3, <4>2, AnswerStays
    <3>7. ASSUME NEW q \in Path, NEW l \in Line, Wrote(q, l)
          PROVE  Foretold(p)
      <4>1. q # p
        BY <3>1, <3>7 DEF Wrote
      <4>2. store'[p] = store[p] /\ handles'[p] = handles[p]
        BY <3>1, <3>7, <4>1 DEF Wrote
      <4> QED
        BY <2>3, <4>2, AnswerStays
    <3>8. ASSUME NEW q \in Path, NEW n \in Address, Sought(q, n)
          PROVE  Foretold(p)
      <4>1. q # p
        BY <3>1, <3>8 DEF Sought
      <4>2. store'[p] = store[p] /\ handles'[p] = handles[p]
        BY <3>1, <3>8, <4>1 DEF Sought
      <4> QED
        BY <2>3, <4>2, AnswerStays
    <3>5. ASSUME NEW q \in Path, WasClosed(q)
          PROVE  Foretold(p)
      <4>1. CASE q = p
        <5>1. handles'[p].mode # "READ"
          BY <3>1, <3>5, <4>1 DEF WasClosed, Closed
        <5> QED
          BY <2>3, <5>1 DEF Foretold
      <4>2. CASE q # p
        <5>1. store'[p] = store[p] /\ handles'[p] = handles[p]
          BY <3>1, <3>5, <4>2 DEF WasClosed
        <5> QED
          BY <2>3, <5>1, AnswerStays
      <4> QED
        BY <4>1, <4>2
    <3>6. ASSUME NEW q \in Path, Advanced(q)
          PROVE  Foretold(p)
      <4>1. q # p
        BY <2>1, <2>3, <3>6, AdvancedByRead
      <4>2. store'[p] = store[p] /\ handles'[p] = handles[p]
        BY <3>1, <3>6, <4>1 DEF Advanced
      <4> QED
        BY <2>3, <4>2, AnswerStays
    <3> QED
      BY <3>2, <3>3, <3>4, <3>5, <3>6, <3>7, <3>8, Outcomes
  <2> QED
    BY <2>2, <2>3
<1>2. Inv /\ [Next]_vars => [ \A p \in Path :
        handles[p].mode = "READ" =>
          IF ReadFile(p) THEN error' = "R_FILE_EOF" <=> atEnd(p)
          ELSE handles'[p].mode = "READ" => atEnd(p)' = atEnd(p) ]_vars
  BY <1>1 DEF Foretold
<1> QED
  BY <1>2, Invariance, PTL DEF Spec, EofForetellsRead

-----------------------------------------------------------------------------
(* Records are values *)

\* Without sharing, the value at a place is the scalar of its own cell.
LEMMA ValuesAre ==
  ASSUME Inv
  PROVE  /\ \A x \in Place : ValueAt(x) = IF hold[x] = Nil THEN Nil ELSE cell[x]
         /\ \A v \in Var : ValueAt(v) = cell[v] /\ ValueAt(v) \in Value
         /\ \A p \in Path, a \in Address : << p, a >> \in Place
<1>1. \A x \in Place : ValueAt(x) = IF hold[x] = Nil THEN Nil ELSE cell[x]
  BY DEF Inv, FileInv, Unshared, ValueAt, Deep, Obj
<1>2. \A v \in Var : v \in Place /\ hold[v] # Nil /\ cell[v] \in Value
  BY DEF Inv, TypeOK, FsTypeOK, Place, Cell
<1> QED
  BY <1>1, <1>2 DEF Place, Slot

\* Storing a record changes the value at that place only.
LEMMA ValueStored ==
  ASSUME Inv, Inv', NEW at \in Place, NEW x \in Value, Stores(at, x)
  PROVE  \A y \in Place : ValueAt(y)' = IF y = at THEN x ELSE ValueAt(y)
<1>1. \A y \in Place : ValueAt(y)' = IF hold'[y] = Nil THEN Nil ELSE cell'[y]
  BY DEF Inv, FileInv, Unshared, ValueAt, Deep, Obj
<1>2. hold \in [ Place -> Obj \cup { Nil } ] /\ cell \in [ Place -> Value ]
  BY DEF Inv, TypeOK, FsTypeOK, Cell
<1>3. \A y \in Place : /\ hold'[y] = IF y = at THEN at ELSE hold[y]
                       /\ cell'[y] = IF y = at THEN x ELSE cell[y]
  BY <1>2 DEF Stores
<1>4. at # Nil
  BY FilesAssumption
<1> QED
  BY <1>1, <1>3, <1>4, ValuesAre

AbsVal == [ v \in Var |-> ValueAt(v) ]
AbsFile(p) == [ kind    |-> store[p].kind,
                lines   |-> store[p].lines,
                records |-> [ a \in Address |-> ValueAt(<< p, a >>) ] ]
AbsFiles == [ p \in Path |-> AbsFile(p) ]

\* A step that changes no value and no body is none for the abstract store.
LEMMA SameValues ==
  ASSUME UNCHANGED << store, hold, nested, cell >>
  PROVE  UNCHANGED Values!vars
BY DEF Values!vars, ValueAt, Deep

\* An assignment is one of the abstract store.
LEMMA SetIsAbstract ==
  ASSUME Inv, Inv', NEW v \in Var, NEW x \in Value, Set(v, x)
  PROVE  AbsVal' = [ AbsVal EXCEPT ![v] = x ] /\ AbsFiles' = AbsFiles
<1>1. v \in Place /\ \A p \in Path, a \in Address : << p, a >> # v
  BY FilesAssumption DEF Place, Slot
<1>2. \A y \in Place : ValueAt(y)' = IF y = v THEN x ELSE ValueAt(y)
  BY <1>1, ValueStored DEF Set
<1>3. \A w \in Var : w \in Place
  BY DEF Place
<1>4. AbsVal' = [ AbsVal EXCEPT ![v] = x ]
  BY <1>2, <1>3 DEF AbsVal
<1>5. \A p \in Path, a \in Address : ValueAt(<< p, a >>)' = ValueAt(<< p, a >>)
  BY <1>1, <1>2, ValuesAre
<1>6. store' = store
  BY DEF Set
<1>7. \A p \in Path : AbsFile(p)' = AbsFile(p)
  BY <1>5, <1>6 DEF AbsFile
<1> QED
  BY <1>4, <1>7 DEF AbsFiles

\* PUTRECORD copies a variable into the abstract file.
LEMMA PutIsAbstract ==
  ASSUME Inv, Inv', NEW p \in Path, NEW v \in Var, Put(p, v), Here(p) \in Place
  PROVE  Values!Put(p, handles[p].recordNumber, v)
<1> DEFINE n == handles[p].recordNumber
<1>1. Here(p) = << p, n >> /\ n \in Address
  BY DEF Here, Inv, TypeOK, FsTypeOK, Handle
<1>2. cell[v] \in Value /\ ValueAt(v) = cell[v]
  BY ValuesAre
<1>3. \A y \in Place : ValueAt(y)' = IF y = << p, n >> THEN cell[v] ELSE ValueAt(y)
  BY <1>1, <1>2, ValueStored DEF Put
<1>4. \A w \in Var : w \in Place /\ w # << p, n >>
  BY <1>1, FilesAssumption DEF Place, Slot
<1>5. AbsVal' = AbsVal
  BY <1>3, <1>4 DEF AbsVal
<1>6. store[p].kind = "random" /\ store' = store
  BY DEF Put, Inv, FileInv, OpenMatchesBody
<1>7. \A q \in Path, a \in Address :
        ValueAt(<< q, a >>)' = IF q = p /\ a = n THEN ValueAt(v) ELSE ValueAt(<< q, a >>)
  BY <1>1, <1>2, <1>3, ValuesAre
<1> HIDE DEF n
<1>8. \A q \in Path :
        AbsFile(q)' = IF q = p THEN [ AbsFile(p) EXCEPT !.records[n] = ValueAt(v) ]
                      ELSE AbsFile(q)
  BY <1>6, <1>7 DEF AbsFile
<1>9. AbsFiles' = [ AbsFiles EXCEPT ![p].records[n] = ValueAt(v) ]
  BY <1>8 DEF AbsFiles, AbsFile
<1>10. AbsFiles[p].kind = "random" /\ AbsVal[v] = ValueAt(v)
  BY <1>6 DEF AbsFiles, AbsFile, AbsVal
<1> QED
  BY <1>5, <1>9, <1>10 DEF Values!Put, AbsVal, AbsFiles, AbsFile, n

\* GETRECORD copies a record of the abstract file into a variable.
LEMMA GetIsAbstract ==
  ASSUME Inv, Inv', Running, NEW p \in Path, NEW v \in Var, Got(p, v)
  PROVE  Values!Get(v, p, handles[p].recordNumber)
<1> DEFINE n == handles[p].recordNumber
<1>1. Here(p) = << p, n >> /\ n \in Address /\ Here(p) \in Place
  BY Facts DEF Here, Inv, TypeOK, FsTypeOK, Handle
<1>2. ValueAt(<< p, n >>) = cell[Here(p)] /\ cell[Here(p)] \in Value
  BY <1>1, ValuesAre DEF Got, Inv, TypeOK, FsTypeOK, Cell
<1>3. ValueAt(<< p, n >>) # Nil
  BY <1>2, FilesAssumption
<1>4. Set(v, cell[Here(p)])
  BY DEF Got, Set
<1>5. AbsVal' = [ AbsVal EXCEPT ![v] = ValueAt(<< p, n >>) ] /\ AbsFiles' = AbsFiles
  BY <1>2, <1>4, SetIsAbstract
<1>6. store[p].kind = "random"
  BY DEF Got, Inv, FileInv, OpenMatchesBody
<1> HIDE DEF n
<1>7. AbsFiles[p].kind = "random" /\ AbsFiles[p].records[n] = ValueAt(<< p, n >>)
  BY <1>1, <1>6 DEF AbsFiles, AbsFile
<1> QED
  BY <1>3, <1>5, <1>7 DEF Values!Get, AbsVal, AbsFiles, AbsFile, n

\* WRITEFILE appends to the abstract file.
LEMMA WroteIsAbstract ==
  ASSUME Inv, NEW p \in Path, NEW l \in Line, Wrote(p, l)
  PROVE  Values!WriteLine(p, l)
<1>1. \A x \in Place : ValueAt(x)' = ValueAt(x)
  BY DEF Wrote, heapVars, ValueAt, Deep
<1>2. AbsVal' = AbsVal
  BY <1>1 DEF AbsVal, Place
<1>3. store \in [ Path -> Body ] /\ store[p].kind = "text"
  BY DEF Wrote, Inv, TypeOK, FsTypeOK, FileInv, OpenMatchesBody
<1>4. \A q \in Path :
        /\ store'[q].kind = store[q].kind
        /\ store'[q].lines = IF q = p THEN Append(store[p].lines, l) ELSE store[q].lines
  BY <1>3 DEF Wrote, Body
<1>5. \A q \in Path, a \in Address : ValueAt(<< q, a >>)' = ValueAt(<< q, a >>)
  BY <1>1, ValuesAre
<1>6. \A q \in Path :
        AbsFile(q)' = IF q = p THEN [ AbsFile(p) EXCEPT !.lines = Append(@, l) ]
                      ELSE AbsFile(q)
  BY <1>4, <1>5 DEF AbsFile
<1>7. AbsFiles' = [ AbsFiles EXCEPT ![p].lines = Append(@, l) ]
  BY <1>6 DEF AbsFiles, AbsFile
<1>8. AbsFiles[p].kind = "text"
  BY <1>3 DEF AbsFiles, AbsFile
<1> QED
  BY <1>2, <1>7, <1>8 DEF Values!WriteLine, AbsVal, AbsFiles, AbsFile

\* OPENFILE keeps the abstract file or renews it.
LEMMA OpenedIsAbstract ==
  ASSUME Inv, NEW p \in Path, NEW mode \in Mode, Opened(p, mode)
  PROVE  \/ UNCHANGED Values!vars
         \/ \E kind \in { "text", "random" } : Values!Renew(p, kind)
<1> DEFINE new == Established(store[p], mode)
<1>1. /\ store \in [ Path -> Body ] /\ hold \in [ Place -> Obj \cup { Nil } ]
      /\ store' = [ store EXCEPT ![p] = new ]
      /\ hold' = [ x \in Place |->
                     IF x \in { p } \X Address /\ store'[p].kind # "random"
                     THEN Nil ELSE hold[x] ]
      /\ UNCHANGED << nested, cell >>
  BY DEF Opened, SetOpen, Inv, TypeOK, FsTypeOK
<1>2. /\ new = store[p] \/ new \in { Empty("text"), Empty("random") }
      /\ mode # "RANDOM" => new.kind = "text"
      /\ mode = "RANDOM" /\ store[p].kind = "random" => new = store[p]
  BY <1>1, BodyOnceOpen DEF Opened
<1> HIDE DEF new
<1>3. store'[p] = new
  BY <1>1
<1>4. \A a \in Address : store[p].kind # "random" => hold[<< p, a >>] = Nil
  BY DEF Inv, FileInv, OneKind
<1>5. \A x \in Place : x \notin { p } \X Address => ValueAt(x)' = ValueAt(x)
  BY <1>1 DEF ValueAt, Deep
<1>6. \A v \in Var : v \in Place /\ v \notin { p } \X Address
  BY FilesAssumption DEF Place, Slot
<1>7. AbsVal' = AbsVal
  BY <1>5, <1>6 DEF AbsVal
<1>8. CASE new = store[p]
  <2>1. store' = store
    BY <1>1, <1>8
  <2>2. \A x \in Place : hold'[x] = hold[x]
    BY <1>1, <1>4, <2>1
  <2>3. hold' = hold
    BY <1>1, <2>2
  <2> QED
    BY <1>1, <2>1, <2>3, SameValues
<1>9. CASE new # store[p]
  <2>1. PICK kind \in { "text", "random" } : new = Empty(kind)
    BY <1>2, <1>9
  <2>2. new.kind = kind /\ new.lines = << >>
    BY <2>1 DEF Empty
  <2>3. kind = "random" => store[p].kind # "random"
    BY <1>2, <1>9, <2>2
  <2>4. \A a \in Address : hold'[<< p, a >>] = Nil
    BY <1>1, <1>3, <1>4, <2>2, <2>3, ValuesAre
  <2>5. \A a \in Address : ValueAt(<< p, a >>)' = Nil
    BY <2>4 DEF ValueAt
  <2>6. \A q \in Path, a \in Address :
          q # p => ValueAt(<< q, a >>)' = ValueAt(<< q, a >>)
    BY <1>5, ValuesAre
  <2>7. \A q \in Path : q # p => store'[q] = store[q]
    BY <1>1
  <2>8. \A q \in Path :
          AbsFile(q)' = IF q = p THEN Values!Empty(kind) ELSE AbsFile(q)
    BY <1>3, <2>2, <2>5, <2>6, <2>7 DEF AbsFile, Values!Empty, Values!Missing
  <2>9. AbsFiles' = [ AbsFiles EXCEPT ![p] = Values!Empty(kind) ]
    BY <2>8 DEF AbsFiles
  <2>10. kind = "random" => AbsFiles[p].kind # "random"
    BY <2>3 DEF AbsFiles, AbsFile
  <2>11. Values!Renew(p, kind)
    BY <1>7, <2>9, <2>10 DEF Values!Renew, AbsVal, AbsFiles, AbsFile
  <2> QED
    BY <2>11
<1> QED
  BY <1>8, <1>9

\* The program's records and files behave as values: whatever object a variable
\* or a slot refers to, each statement changes what FileStore says it changes.
THEOREM RecordsAreValues == Spec => ImplementsFileStore
<1>1. Init /\ Inv => Values!Init
  <2> SUFFICES ASSUME Init, Inv PROVE Values!Init
    OBVIOUS
  <2>1. AbsVal \in [ Var -> Value ]
    BY ValuesAre DEF AbsVal
  <2>2. \A p \in Path : store[p].kind \in { "missing", "text" }
    BY SeededFiles
  <2>3. \A p \in Path, a \in Address : ValueAt(<< p, a >>) = Nil
    BY FilesAssumption DEF Init, FsInit, Place, Slot, ValueAt
  <2>4. \A p \in Path : /\ AbsFiles[p].kind \in { "missing", "text" }
                        /\ AbsFiles[p].records = Values!Missing.records
    BY <2>2, <2>3 DEF AbsFiles, AbsFile, Values!Missing
  <2> QED
    BY <2>1, <2>4 DEF Values!Init, AbsVal, AbsFiles, AbsFile
<1>2. Inv /\ Inv' /\ [Next]_vars => [Values!Next]_(Values!vars)
  <2> SUFFICES ASSUME Inv, Inv', [Next]_vars PROVE [Values!Next]_(Values!vars)
    OBVIOUS
  <2>1. CASE UNCHANGED vars
    BY <2>1, SameValues DEF vars, fsVars, heapVars
  <2>2. ASSUME Running, NEW v \in Var, NEW x \in Value, Set(v, x)
        PROVE  Values!SetField(v, x)
    BY <2>2, SetIsAbstract DEF Values!SetField, AbsVal, AbsFiles, AbsFile
  <2>3. ASSUME Running, NEW v \in Var, NEW w \in Var, Copied(v, w)
        PROVE  Values!Assign(v, w)
    <3>1. cell[w] = AbsVal[w] /\ cell[w] \in Value
      BY ValuesAre DEF AbsVal
    <3>2. AbsVal' = [ AbsVal EXCEPT ![v] = AbsVal[w] ] /\ AbsFiles' = AbsFiles
      BY <2>3, <3>1, SetIsAbstract DEF Copied
    <3> QED
      BY <3>2 DEF Values!Assign, AbsVal, AbsFiles, AbsFile
  <2>4. CASE Next
    <3>1. Running
      BY <2>4 DEF Next
    <3>2. CASE Ended
      BY <3>2, SameValues DEF Ended, Fail, heapVars
    <3>3. CASE \E v \in Var, x \in Value : Set(v, x)
      BY <2>2, <3>1, <3>3 DEF Values!Next
    <3>4. CASE \E v, w \in Var : Copied(v, w)
      BY <2>3, <3>1, <3>4 DEF Values!Next
    <3>5. ASSUME NEW p \in Path, NEW mode \in Mode, Opened(p, mode)
          PROVE  [Values!Next]_(Values!vars)
      BY <3>5, OpenedIsAbstract DEF Values!Next
    <3>6. ASSUME NEW p \in Path, WasClosed(p) \/ Advanced(p) \/ \E n \in Address : Sought(p, n)
          PROVE  [Values!Next]_(Values!vars)
      BY <3>6, SameValues DEF WasClosed, Advanced, Sought, heapVars
    <3>7. ASSUME NEW p \in Path, NEW l \in Line, Wrote(p, l)
          PROVE  [Values!Next]_(Values!vars)
      BY <3>7, WroteIsAbstract DEF Values!Next
    <3>8. ASSUME NEW p \in Path, NEW v \in Var, Put(p, v) \/ Got(p, v)
          PROVE  [Values!Next]_(Values!vars)
      <4>1. handles[p].recordNumber \in Address /\ Here(p) \in Place
        BY <3>1, Facts DEF Handle
      <4> QED
        BY <3>1, <3>8, <4>1, PutIsAbstract, GetIsAbstract DEF Values!Next
    <3> QED
      BY <2>1, <2>4, <3>2, <3>3, <3>4, <3>5, <3>6, <3>7, <3>8, Outcomes
  <2> QED
    BY <2>1, <2>4
<1>3. Init => Inv
  BY InitInv
<1> QED
  BY <1>1, <1>2, <1>3, Invariance, PTL DEF Spec, ImplementsFileStore, Values!Spec
=============================================================================
