----------------------------- MODULE FileStore -----------------------------
(***************************************************************************)
(* What a 9618 program may rely on about its TYPE records and its files:   *)
(* records are VALUES.  Assigning one, writing one to a random file and    *)
(* reading one back copy it, so a variable changes only when it is         *)
(* assigned and a file only when it is written or opened anew.             *)
(***************************************************************************)
EXTENDS Naturals, Sequences

CONSTANTS Path, Var, Value, Line, Address,
          Blank   \* an address at which no record was put

VARIABLES
  val,    \* the record each variable holds
  files   \* what each path holds

vars == << val, files >>

Missing == [ kind |-> "missing", lines |-> << >>,
             records |-> [ a \in Address |-> Blank ] ]
Empty(kind) == [ Missing EXCEPT !.kind = kind ]

Init ==
  /\ val \in [ Var -> Value ]
  /\ \A p \in Path : /\ files[p].kind \in { "missing", "text" }
                     /\ files[p].records = Missing.records

SetField(v, x) == val' = [ val EXCEPT ![v] = x ] /\ UNCHANGED files

Assign(v, w) == val' = [ val EXCEPT ![v] = val[w] ] /\ UNCHANGED files

\* A file that is opened for writing, or as a file of the other kind, is new.
Renew(p, kind) ==
  /\ kind = "random" => files[p].kind # "random"
  /\ files' = [ files EXCEPT ![p] = Empty(kind) ]
  /\ UNCHANGED val

WriteLine(p, l) ==
  /\ files[p].kind = "text"
  /\ files' = [ files EXCEPT ![p].lines = Append(@, l) ]
  /\ UNCHANGED val

Put(p, a, v) ==
  /\ files[p].kind = "random"
  /\ files' = [ files EXCEPT ![p].records[a] = val[v] ]
  /\ UNCHANGED val

Get(v, p, a) ==
  /\ files[p].kind = "random"
  /\ files[p].records[a] # Blank
  /\ val' = [ val EXCEPT ![v] = files[p].records[a] ]
  /\ UNCHANGED files

Next ==
  \/ \E v \in Var, x \in Value : SetField(v, x)
  \/ \E v, w \in Var : Assign(v, w)
  \/ \E p \in Path, kind \in { "text", "random" } : Renew(p, kind)
  \/ \E p \in Path, l \in Line : WriteLine(p, l)
  \/ \E p \in Path, a \in Address, v \in Var : Put(p, a, v) \/ Get(v, p, a)

Spec == Init /\ [][Next]_vars
=============================================================================
