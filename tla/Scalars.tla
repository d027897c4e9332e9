------------------------------- MODULE Scalars -------------------------------
(***************************************************************************)
(* What the interpreter computes from numbers and texts alone: division,   *)
(* the slots of an array, the turns of a FOR, the order of texts and their *)
(* parts (interpreter/src/interpreter.ts, value.ts, builtins.ts); and what *)
(* Python computes where the translator put its own operators.             *)
(*                                                                         *)
(* Nothing here is RECURSIVE, so that PureFunctions_proofs can reason      *)
(* about it.                                                               *)
(***************************************************************************)
EXTENDS Integers, Sequences

(***************************************************************************)
(* Division.  Math.trunc of a / b, and Python's a // b.                    *)
(***************************************************************************)
truncate(a, b) ==
  LET abs(n) == IF n < 0 THEN 0 - n ELSE n
      q      == abs(a) \div abs(b)
  IN IF (a < 0) # (b < 0) THEN 0 - q ELSE q
remainder(a, b) == a - truncate(a, b) * b

floorDiv(a, b) == IF b > 0 THEN a \div b ELSE (0 - a) \div (0 - b)

(***************************************************************************)
(* Arrays are rows of slots; the last index runs fastest.                  *)
(***************************************************************************)
\* allocateArray multiplies the dimensions from the first to the last.
sizeOf(lowers, uppers) ==
  LET size[d \in 0 .. Len(lowers)] ==
        IF d = 0 THEN 1 ELSE size[d - 1] * (uppers[d] - lowers[d] + 1)
  IN size[Len(lowers)]

\* arrayOffset goes from the last dimension to the first.  stride[d + 1] is
\* the number of slots between two values of index d.
strides(array) ==
  LET n == Len(array.lowers)
      stride[d \in 1 .. n + 1] ==
        IF d = n + 1 THEN 1
        ELSE stride[d + 1] * (array.uppers[d] - array.lowers[d] + 1)
  IN stride
\* The slot (from 1), 0 when an index is out of bounds.
arrayOffset(array, is) ==
  LET n == Len(array.lowers)
      offset[d \in 1 .. n + 1] ==
        IF d = n + 1 THEN 0
        ELSE offset[d + 1] + (is[d] - array.lowers[d]) * strides(array)[d + 1]
  IN IF \E d \in 1 .. n : is[d] < array.lowers[d] \/ is[d] > array.uppers[d]
     THEN 0 ELSE 1 + offset[1]

(***************************************************************************)
(* The turns of a FOR: execFor goes on while this holds, and Python goes   *)
(* through a range that was made before the first turn.                    *)
(***************************************************************************)
goesOn(i, end, step) == IF step > 0 THEN i <= end ELSE i >= end

rangeOf(from, to, step) ==
  LET turns == IF step > 0 THEN (to - from + step - 1) \div step
               ELSE (from - to - step - 1) \div (0 - step)
  IN [ i \in 1 .. turns |-> from + (i - 1) * step ]

\* The printer takes a loop for a descending one by the text of its step, which
\* is << >> when none is written, and not by its value.
isNegativeLiteral(e) ==
  LET isNumber(n) == n.kind = "Literal" /\ n.type \in { "INTEGER", "REAL" }
  IN \/ isNumber(e) /\ e.value < 0
     \/ e.kind = "Unary" /\ e.op = "-" /\ isNumber(e.argument)
isDescending(step) == step # << >> /\ isNegativeLiteral(Head(step))

(***************************************************************************)
(* Texts.                                                                  *)
(***************************************************************************)
textBelow(a, b) ==
  \E i \in 1 .. Len(b) :
    /\ \A j \in 1 .. (i - 1) : j <= Len(a) /\ a[j] = b[j]
    /\ i > Len(a) \/ a[i] < b[i]

\* s.slice(from, to), counted from 0, the ends cut to the text.
slice(t, from, to) ==
  SubSeq(t, from + 1, IF to < Len(t) THEN to ELSE Len(t))

leftOf(t, n)     == slice(t, 0, n)
\* s.slice(-n): the last n characters, or all of them.
rightOf(t, n)    == slice(t, IF n < Len(t) THEN Len(t) - n ELSE 0, Len(t))
midOf(t, at, n)  == slice(t, at - 1, at - 1 + n)

\* Python's text[from:to]; an end below 0 counts from the end of the text.
sliced(t, from, to) ==
  LET end(n) == IF n < 0 THEN (IF Len(t) + n < 0 THEN 0 ELSE Len(t) + n) ELSE n
  IN slice(t, end(from), end(to))
\* The helper _pp_right: s[-0:] would be the whole text.
ppRight(t, n) == IF n = 0 THEN << >> ELSE sliced(t, 0 - n, Len(t))
=============================================================================
