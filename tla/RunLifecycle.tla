---------------------------- MODULE RunLifecycle ----------------------------
(***************************************************************************)
(* What RuntimeController promises the rest of the IDE about runs, without *)
(* saying how: run() returns a promise; until it settles the IDE is busy   *)
(* with exactly that run, which may be suspended (paused, waiting for      *)
(* INPUT) and resumed; it settles once, together with the outcome being    *)
(* shown; and nothing changes after that until the student runs again.     *)
(***************************************************************************)
EXTENDS Naturals

CONSTANT RunId \* the identities of runs, growing numbers

Busy    == { "running", "paused", "waitingForInput" }
Outcome == { "completed", "runtimeError", "semanticError", "cancelled" }

VARIABLES
  phase,    \* what the IDE shows: "idle", busy in some way, or an outcome
  run,      \* the latest run, 0 before the first
  promise   \* the promise each run returned

vars == << phase, run, promise >>

Init ==
  /\ phase = "idle"
  /\ run = 0
  /\ promise = [ r \in RunId |-> "none" ]

\* A run starts when none is in progress.
Start(r) ==
  /\ phase \notin Busy
  /\ r > run
  /\ phase' = "running"
  /\ run' = r
  /\ promise' = [ promise EXCEPT ![r] = "pending" ]

\* Restart settles the run in progress and starts the next.
Replace(r) ==
  /\ phase \in Busy
  /\ r > run
  /\ phase' = "running"
  /\ run' = r
  /\ promise' = [ promise EXCEPT ![run] = "settled", ![r] = "pending" ]

SuspendOrResume ==
  /\ phase \in Busy
  /\ phase' \in Busy
  /\ UNCHANGED << run, promise >>

End ==
  /\ phase \in Busy
  /\ phase' \in Outcome
  /\ promise' = [ promise EXCEPT ![run] = "settled" ]
  /\ UNCHANGED run

Next ==
  \/ \E r \in RunId : Start(r) \/ Replace(r)
  \/ SuspendOrResume
  \/ End

Spec == Init /\ [][Next]_vars
=============================================================================
