------------------------- MODULE BidirectionalSync -------------------------
(***************************************************************************)
(* createBidirectionalSync: the live translation between the Pseudocode    *)
(* and the Python buffer.  Its two halves mirror each other, so the        *)
(* actions take the pane they start from.  A text is a model value; what   *)
(* the translators make of it is a constant, and need not be invertible.   *)
(*                                                                         *)
(* A timer is armed or not.  The generation tokens repeat, inside the      *)
(* callback, what clearTimeout already guarantees, and are left out, and   *)
(* so are the force* entries, which only tests call.                       *)
(***************************************************************************)
CONSTANTS
  Text,       \* Text[o]: the texts the pane o may hold
  Translate,  \* Translate[o][t]: the text of the other pane, or Refused
  Refused,
  Starter     \* the buffers before the first translation

Pane == { "pseudocode", "python" }
Peer(o) == IF o = "pseudocode" THEN "python" ELSE "pseudocode"

Buffers == { b \in [ Pane -> UNION { Text[o] : o \in Pane } ] :
               \A o \in Pane : b[o] \in Text[o] }

ASSUME SyncAssumption ==
  /\ \A o \in Pane : /\ Translate[o] \in [ Text[o] -> Text[Peer(o)] \cup { Refused } ]
                     /\ Refused \notin Text[o]
  /\ Starter \in Buffers

VARIABLES
  buffer,     \* pseudocode, python
  lastGood,   \* lastGoodPseudocode, lastGoodPython
  status,
  errorSide,  \* the pane whose translation failed, or "none"
  pending,    \* the pane whose text waits to be translated, or "none"
  timer       \* forwardTimer, reverseTimer

syncVars == << buffer, lastGood, status, errorSide, pending, timer >>

SyncTypeOK ==
  /\ buffer \in Buffers /\ lastGood \in Buffers
  /\ status \in { "idle", "pending", "ok", "error" }
  /\ errorSide \in Pane \cup { "none" }
  /\ pending \in Pane \cup { "none" }
  /\ timer \in [ Pane -> BOOLEAN ]

NoTimer == [ o \in Pane |-> FALSE ]

\* Mutant: the other direction stays scheduled.
ScheduleBoth(o) ==
  /\ timer' = [ timer EXCEPT ![o] = TRUE ]
  /\ pending' = o
  /\ status' = "pending"

\* scheduleForward and scheduleReverse cancel the other direction.
Schedule(o) ==
  /\ timer' = [ NoTimer EXCEPT ![o] = TRUE ]
  /\ pending' = o
  /\ status' = "pending"

\* Mutant: an echo of the buffer is taken for an edit.
EditAnything(o, text) ==
  /\ buffer' = [ buffer EXCEPT ![o] = text ]
  /\ Schedule(o)
  /\ UNCHANGED << lastGood, errorSide >>

\* editPseudocode and editPython ignore the text they hold already.
edit(o, text) ==
  IF text = buffer[o] THEN UNCHANGED syncVars
  ELSE /\ buffer' = [ buffer EXCEPT ![o] = text ]
       /\ Schedule(o)
       /\ UNCHANGED << lastGood, errorSide >>

\* Mutant: the result is taken without a look at result.ok.
TimerTakesAnything(o) ==
  /\ timer[o]
  /\ timer' = [ timer EXCEPT ![o] = FALSE ]
  /\ pending' = "none"
  /\ buffer' = [ buffer EXCEPT ![Peer(o)] = Translate[o][buffer[o]] ]
  /\ lastGood' = buffer'
  /\ status' = "ok"
  /\ errorSide' = "none"

\* The timer's callback translates the text the buffer has by now.
TimerFires(o) ==
  /\ timer[o]
  /\ timer' = [ timer EXCEPT ![o] = FALSE ]
  /\ pending' = "none"
  /\ LET result == Translate[o][buffer[o]] IN
     \/ /\ result # Refused
        /\ buffer' = [ buffer EXCEPT ![Peer(o)] = result ]
        /\ lastGood' = buffer'
        /\ status' = "ok"
        /\ errorSide' = "none"
     \/ /\ result = Refused
        /\ buffer' = [ buffer EXCEPT ![Peer(o)] = lastGood[Peer(o)] ]
        /\ status' = "error"
        /\ errorSide' = o
        /\ UNCHANGED lastGood

\* A new controller that is bootstrapped translates the starter program.
Bootstrap ==
  /\ buffer' = Starter
  /\ lastGood' = Starter
  /\ errorSide' = "none"
  /\ Schedule("pseudocode")

\* One that is given a restored session translates nothing: restoreBuffers
\* takes both texts for good and cancels what bootstrap had scheduled.
restoreBuffers(b) ==
  /\ buffer' = b
  /\ lastGood' = b
  /\ status' = "ok"
  /\ errorSide' = "none"
  /\ pending' = "none"
  /\ timer' = NoTimer
=============================================================================
