------------------------ MODULE ExecutionOrder_proofs ------------------------
(***************************************************************************)
(* What each kind of step does to the sessions of the worker, and the      *)
(* proof that their order (OrderInv) is inductive: runs begin in the order *)
(* they were started, the newest is the current one, and what is stopped   *)
(* is on its way out.  It rests on the types and RunInv of                 *)
(* ExecutionSystem_proofs, and holds for every bound, every set of lines   *)
(* and every number of sessions.                                           *)
(***************************************************************************)
EXTENDS ExecutionSystem_proofs

-----------------------------------------------------------------------------
(* Queues: what is left when the head is taken, and what appending adds    *)

\* A queue after its head was handled holds the other messages, one place
\* nearer.
LEMMA TailPlaces ==
  ASSUME NEW S, NEW q \in Seq(S), q # << >>
  PROVE  /\ 1 \in 1 .. Len(q) /\ Head(q) = q[1] /\ Len(q) \in Nat
         /\ Len(Tail(q)) = Len(q) - 1
         /\ \A i \in 1 .. Len(Tail(q)) :
              Tail(q)[i] = q[i + 1] /\ i + 1 \in 1 .. Len(q) /\ i + 1 # 1
         /\ \A i \in 1 .. Len(q) : i # 1 =>
              i - 1 \in 1 .. Len(Tail(q)) /\ Tail(q)[i - 1] = q[i]
<1>1. /\ Len(q) \in Nat \ { 0 } /\ Head(q) = q[1]
      /\ Len(Tail(q)) = Len(q) - 1
      /\ \A i \in 1 .. Len(Tail(q)) : Tail(q)[i] = q[i + 1]
  BY HeadTailProperties, EmptySeq
<1> QED
  BY <1>1

\* What is posted at once goes, in its order, behind what was there.
LEMMA ConcatPlaces ==
  ASSUME NEW S, NEW q \in Seq(S), NEW r \in Seq(S)
  PROVE  /\ Len(q) \in Nat /\ Len(r) \in Nat /\ Len(q \o r) = Len(q) + Len(r)
         /\ \A i \in 1 .. Len(q \o r) :
              \/ i \in 1 .. Len(q) /\ (q \o r)[i] = q[i]
              \/ /\ i > Len(q) /\ i - Len(q) \in 1 .. Len(r)
                 /\ (q \o r)[i] = r[i - Len(q)]
         /\ \A i \in 1 .. Len(q) : i \in 1 .. Len(q \o r) /\ (q \o r)[i] = q[i]
         /\ \A i \in 1 .. Len(r) :
              i + Len(q) \in 1 .. Len(q \o r) /\ (q \o r)[i + Len(q)] = r[i]
<1>1. /\ Len(q) \in Nat /\ Len(r) \in Nat /\ Len(q \o r) = Len(q) + Len(r)
      /\ \A i \in 1 .. Len(q \o r) :
           (q \o r)[i] = IF i <= Len(q) THEN q[i] ELSE r[i - Len(q)]
  BY ConcatProperties, LenProperties
<1> QED
  BY <1>1

-----------------------------------------------------------------------------
(* What a step of a session does *)

\* Phases in which a session has a step of its own to take.
Moving == { "rejected", "ticked", "run", "resumed", "yield" }

\* A run begins: it becomes the current one and stops before, or after, the
\* tick of its first statement.
Starts(s) ==
  /\ ses[s].pc = "begin"
  /\ \A t \in Session : ses[t].pc = "begin" => s <= t
  /\ cur' = s /\ tail' = s
  /\ \E new \in SessionState :
       /\ ses' = [ ses EXCEPT ![s] = new ]
       /\ new.pc \in { "rejected", "ticked", "parked" }
       /\ new.abort = ses[s].abort

\* A run goes on; only one whose signal is not aborted does.
Goes(s) ==
  /\ ses[s].pc \in Moving \ { "rejected" }
  /\ NoneBegins
  /\ UNCHANGED << cur, tail >>
  /\ ses[s].pc \in { "run", "yield" } => ~ses[s].abort
  /\ \E new \in SessionState :
       /\ ses' = [ ses EXCEPT ![s] = new ]
       /\ new.pc \in { "run", "input", "yield", "parked" }
       /\ new.abort = ses[s].abort

\* A run is over.
Leaves(s) == ses[s].pc \in Moving /\ NoneBegins /\ Leave(s)

Moves(s) == Starts(s) \/ Goes(s) \/ Leaves(s)

\* What the session posts meanwhile: perhaps that it was resumed, then at most
\* one event, which says what the session waits for, that it ended, or what it
\* printed.  A session that is current says all that.
Says(s, e) ==
  /\ e.sid = s
  /\ e.type \in { "paused", "inputRequest" } => ses'[s].pc = WaitsAfter(e)
  /\ e.type = "paused" => e.step = ses'[s].steps

Speaks(s, events) ==
  /\ events \in Seq(Event)
  /\ fromWorker' = fromWorker \o events
  /\ \A i \in 1 .. Len(events) :
       /\ Says(s, events[i])
       /\ i # Len(events) => events[i].type = "resumed"
  /\ said' = IF \E i \in 1 .. Len(events) : events[i].type = "output"
             THEN [ said EXCEPT ![s] = @ + 1 ] ELSE said
  /\ ses'[s].pc \in { "parked", "input" } /\ cur' = s =>
       \E i \in 1 .. Len(events) : Asks(events[i], s)
  /\ ses'[s].pc = "ended" /\ cur = s =>
       \E i \in 1 .. Len(events) : IsFinal(events[i])

\* Two events posted at once are the first and then the second.
LEMMA TwoEvents ==
  ASSUME NEW r \in Event, NEW e \in Event
  PROVE  LET all == Append(<< r >>, e) IN
         /\ all \in Seq(Event) /\ Len(all) = 2
         /\ all[1] = r /\ all[2] = e
<1>1. ASSUME NEW q \in Seq(Event)
      PROVE  /\ Append(q, e) \in Seq(Event) /\ Len(Append(q, e)) = Len(q) + 1
             /\ \A i \in 1 .. Len(q) : Append(q, e)[i] = q[i]
             /\ Append(q, e)[Len(q) + 1] = e
  BY <1>1
<1>2. << r >> \in Seq(Event) /\ Len(<< r >>) = 1 /\ << r >>[1] = r
  OBVIOUS
<1>3. Len(<< r >>) + 1 = 2 /\ 1 \in 1 .. Len(<< r >>)
  BY <1>2
<1> QED
  BY <1>1, <1>2, <1>3

\* Posting what the program says, after a "resumed" or not.
LEMMA SaysOne ==
  ASSUME TypeInv, NEW s \in Session, NEW e \in Event, Says(s, e),
         NEW before \in { << >>, << Evt("resumed", s) >> },
         Say(s, Append(before, e)),
         said' = IF cur = s /\ e.type = "output"
                 THEN [ said EXCEPT ![s] = @ + 1 ] ELSE said,
         ses'[s].pc \in { "parked", "input" } => cur' = cur /\ Asks(e, s),
         ses'[s].pc = "ended" => IsFinal(e)
  PROVE  \E events : Speaks(s, events)
<1>1. fromWorker \in Seq(Event) /\ fromWorker \o << >> = fromWorker
  BY ConcatEmptySeq DEF TypeInv, TypeOK, MainTypeOK
<1>2. CASE cur # s
  <2>1. Len(<< >>) = 0 /\ << >> \in Seq(Event)
    OBVIOUS
  <2>2. Speaks(s, << >>)
    BY <1>2, <2>1 DEF Say, Speaks
  <2> QED
    BY <2>2
<1>3. CASE cur = s
  <2> DEFINE all == Append(before, e)
  <2> DEFINE r == Evt("resumed", s)
  <2>1. r \in Event /\ r.sid = s /\ r.type = "resumed"
    BY EventsTyped DEF EventType, Evt
  <2>2. before = << >> \/ before = << r >>
    OBVIOUS
  <2>3. /\ all \in Seq(Event) /\ Len(all) \in { 1, 2 } /\ all[Len(all)] = e
        /\ Len(all) \in 1 .. Len(all)
        /\ \A i \in 1 .. Len(all) : i = Len(all) \/ all[i] = r
    <3>1. CASE before = << >>
      <4>1. all = << e >>
        BY <3>1
      <4> QED
        BY <4>1
    <3>2. CASE before = << r >>
      <4> HIDE DEF r
      <4>1. /\ all \in Seq(Event) /\ Len(all) = 2 /\ all[2] = e /\ all[1] = r
        BY <2>1, <3>2, TwoEvents
      <4> HIDE DEF all
      <4> QED
        BY <4>1
    <3> QED
      BY <2>2, <3>1, <3>2
  <2>4. fromWorker' = fromWorker \o all
    BY <1>3 DEF Say
  <2> HIDE DEF all, r
  <2>5. \A i \in 1 .. Len(all) :
          /\ Says(s, all[i])
          /\ i # Len(all) => all[i].type = "resumed"
    BY <2>1, <2>3 DEF Says
  <2>6. (\E i \in 1 .. Len(all) : all[i].type = "output") <=> e.type = "output"
    BY <2>1, <2>3
  <2>7. Speaks(s, all)
    BY <1>3, <2>3, <2>4, <2>5, <2>6 DEF Speaks
  <2> QED
    BY <2>7
<1> QED
  BY <1>2, <1>3

\* Going on in silence, after a "resumed" or not.
LEMMA SaysNothing ==
  ASSUME TypeInv, NEW s \in Session,
         NEW before \in { << >>, << Evt("resumed", s) >> },
         Say(s, before), UNCHANGED said,
         ses'[s].pc \notin { "parked", "input", "ended" }
  PROVE  \E events : Speaks(s, events)
<1>1. fromWorker \in Seq(Event) /\ fromWorker \o << >> = fromWorker
  BY ConcatEmptySeq DEF TypeInv, TypeOK, MainTypeOK
<1> DEFINE r == Evt("resumed", s)
<1>2. r \in Event /\ r.sid = s /\ r.type = "resumed"
  BY EventsTyped DEF EventType, Evt
<1>3. fromWorker' = fromWorker \o << >> \/ fromWorker' = fromWorker \o << r >>
  BY DEF Say
<1>4. CASE fromWorker' = fromWorker \o << >>
  <2>1. Len(<< >>) = 0 /\ << >> \in Seq(Event)
    OBVIOUS
  <2>2. Speaks(s, << >>)
    BY <1>4, <2>1 DEF Speaks
  <2> QED
    BY <2>2
<1>5. CASE fromWorker' = fromWorker \o << r >>
  <2>1. Len(<< r >>) = 1 /\ << r >> \in Seq(Event) /\ << r >>[1] = r
    BY <1>2
  <2>2. \A i \in 1 .. Len(<< r >>) : << r >>[i] = r /\ i = Len(<< r >>)
    BY <2>1
  <2> HIDE DEF r
  <2>3. Speaks(s, << r >>)
    BY <1>2, <1>5, <2>1, <2>2 DEF Speaks, Says
  <2> QED
    BY <2>3
<1> QED
  BY <1>3, <1>4, <1>5

\* Every step of a session (its begin, its ticks, its timer, its end) is one of
\* the moves, and says what the moved session waits for.
LEMMA SessionOutcome ==
  ASSUME TypeInv, NEW s \in Session, SessionStep(s) \/ RunRejects(s)
  PROVE  Moves(s) /\ UNCHANGED toWorker /\ \E events : Speaks(s, events)
<1> DEFINE Soft == { << >>, << Evt("resumed", s) >> }
<1>1. ses \in [ Session -> SessionState ] /\ ses[s] \in SessionState
  BY DEF TypeInv, TypeOK, WorkerTypeOK
<1>2. UNCHANGED toWorker
  BY DEF SessionStep, Begin, EndUnrun, FirstStatement, Tick, ResumeFromGate,
         TimerFires, RunRejects
<1>3. << >> \in Soft /\ << Evt("resumed", s) >> \in Soft /\ \A e : << e >> = Append(<< >>, e)
  OBVIOUS
<1>4. \A t \in EventType : /\ Evt(t, s) \in Event /\ Evt(t, s).sid = s
                           /\ Evt(t, s).type = t
  BY EventsTyped DEF Evt
<1>5. ASSUME Leave(s) PROVE ses'[s].pc = "ended"
  BY <1>5 DEF Leave, Over, Fresh
<1>6. ASSUME NEW t \in EventType, IsFinal(Evt(t, s)), NEW before \in Soft,
             ses[s].pc \in Moving, NoneBegins, UNCHANGED said,
             End(s, Append(before, Evt(t, s)))
      PROVE  Moves(s) /\ \E events : Speaks(s, events)
  <2>1. t \notin { "paused", "inputRequest", "output" }
    BY <1>4, <1>6 DEF IsFinal, Terminal
  <2>2. Says(s, Evt(t, s))
    BY <1>4, <2>1 DEF Says
  <2>3. \E events : Speaks(s, events)
    BY <1>4, <1>5, <1>6, <2>1, <2>2, SaysOne DEF End
  <2> QED
    BY <1>6, <2>3 DEF Moves, Leaves, End
<1>7. \A t \in Terminal \cup { "workerError" } : t \in EventType /\ IsFinal(Evt(t, s))
  BY <1>4 DEF IsFinal, Terminal, EventType, Session, None
<1>8. ASSUME NEW st \in SessionState, st.abort = ses[s].abort, NEW p,
             p \in { "run", "input", "yield", "parked" },
             NEW new \in SessionState, new.pc = p, new.abort = st.abort,
             ses' = [ ses EXCEPT ![s] = new ],
             UNCHANGED << cur, tail >>, NoneBegins, ses[s].pc \in Moving \ { "rejected" },
             ses[s].pc \in { "run", "yield" } => ~ses[s].abort
      PROVE  Moves(s) /\ ses'[s] = new
  BY <1>1, <1>8 DEF Moves, Goes
<1>9. ASSUME NEW st \in SessionState, NEW p \in Phase
      PROVE  /\ [ st EXCEPT !.pc = p ] \in SessionState
             /\ [ st EXCEPT !.pc = p ].pc = p
             /\ [ st EXCEPT !.pc = p ].abort = st.abort
             /\ [ st EXCEPT !.pc = p ].steps = st.steps
  BY <1>9 DEF SessionState
<1>10. ASSUME NEW st \in SessionState, st.abort = ses[s].abort, NEW before \in Soft,
              NoneBegins, ses[s].pc \in Moving \ { "rejected" },
              ses[s].pc \in { "run", "yield" } => ~ses[s].abort,
              YieldOrBody(s, st, before) \/ Body(s, st, before)
       PROVE  Moves(s) /\ \E events : Speaks(s, events)
  <2> DEFINE Now(p) == [ st EXCEPT !.pc = p ]
  <2>1. \A p \in { "run", "input", "yield" } :
          /\ Now(p) \in SessionState /\ Now(p).pc = p /\ Now(p).abort = st.abort
          /\ Now(p).steps = st.steps
    <3>1. \A p \in { "run", "input", "yield" } : p \in Phase
      BY DEF Phase
    <3> QED
      BY <1>9, <1>10, <3>1
  <2> HIDE DEF Now
  <2>2. ASSUME NEW p \in { "run", "input", "yield" }, ses' = [ ses EXCEPT ![s] = Now(p) ],
               UNCHANGED << cur, tail >>
        PROVE  Moves(s) /\ ses'[s].pc = p
    BY <1>8, <1>10, <2>1, <2>2
  <2>3. CASE \E p \in { "run", "yield" } :
               /\ Say(s, before) /\ ses' = [ ses EXCEPT ![s] = Now(p) ]
               /\ UNCHANGED << cur, tail, said >>
    BY <1>10, <2>2, <2>3, SaysNothing
  <2>4. CASE /\ Say(s, Append(before, Evt("output", s)))
             /\ said' = IF cur = s THEN [ said EXCEPT ![s] = @ + 1 ] ELSE said
             /\ ses' = [ ses EXCEPT ![s] = Now("run") ]
             /\ UNCHANGED << cur, tail >>
    <3>1. Moves(s) /\ ses'[s].pc = "run"
      BY <2>2, <2>4
    <3>2. Evt("output", s) \in Event /\ Evt("output", s).type = "output"
          /\ Says(s, Evt("output", s))
      BY <1>4 DEF EventType, Says
    <3>3. \E events : Speaks(s, events)
      BY <1>10, <2>4, <3>1, <3>2, SaysOne
    <3> QED
      BY <3>1, <3>3
  <2>5. CASE /\ Say(s, Append(before, Evt("inputRequest", s)))
             /\ ses' = [ ses EXCEPT ![s] = Now("input") ]
             /\ UNCHANGED << cur, tail, said >>
    <3>1. Moves(s) /\ ses'[s].pc = "input"
      BY <2>2, <2>5
    <3>2. Evt("inputRequest", s) \in Event /\ Evt("inputRequest", s).type = "inputRequest"
          /\ Says(s, Evt("inputRequest", s)) /\ Asks(Evt("inputRequest", s), s)
      BY <1>4, <3>1 DEF EventType, Says, WaitsAfter, Asks
    <3>3. \E events : Speaks(s, events)
      BY <1>10, <2>5, <3>1, <3>2, SaysOne
    <3> QED
      BY <3>1, <3>3
  <2>6. CASE /\ \E outcome \in { "completed", "runtimeError" } :
                  End(s, Append(before, Evt(outcome, s)))
             /\ UNCHANGED said
    BY <1>6, <1>7, <1>10, <2>6 DEF Terminal
  <2>7. CASE Body(s, st, before)
    BY <2>3, <2>4, <2>5, <2>6, <2>7 DEF Body, Now
  <2>8. CASE /\ Say(s, before)
             /\ ses' = [ ses EXCEPT ![s] = [ st EXCEPT !.pc = "yield" ] ]
             /\ UNCHANGED << cur, tail, said >>
    BY <2>3, <2>8 DEF Now
  <2> QED
    BY <1>10, <2>7, <2>8 DEF YieldOrBody
<1>11. ASSUME NEW st \in SessionState
       PROVE  /\ Parked(st) \in SessionState /\ Parked(st).pc = "parked"
              /\ Parked(st).abort = st.abort /\ Parked(st).steps = st.steps
  BY <1>11, StatesTyped DEF Parked, SessionState
<1>12. ASSUME NEW n \in Nat
       PROVE  /\ PausedEvt(s, n) \in Event /\ PausedEvt(s, n).sid = s
              /\ PausedEvt(s, n).type = "paused" /\ PausedEvt(s, n).step = n
  BY EventsTyped DEF PausedEvt, Evt
<1>13. CASE Begin(s)
  <2> DEFINE first == [ ses[s] EXCEPT !.steps = 1 ]
  <2>1. /\ first \in SessionState /\ first.abort = ses[s].abort /\ first.steps = 1
        /\ first.pc = "begin"
    BY <1>1, <1>13, StatesTyped DEF SessionState, Begin
  <2>2. /\ ses[s].pc = "begin" /\ cur' = s /\ tail' = s /\ UNCHANGED said
        /\ \A t \in Session : ses[t].pc = "begin" => s <= t
    BY <1>13 DEF Begin, MayBegin
  <2>3. \/ /\ ses' = [ ses EXCEPT ![s] = [ ses[s] EXCEPT !.pc = "rejected" ] ]
           /\ UNCHANGED fromWorker
        \/ /\ ses' = [ ses EXCEPT ![s] = Parked(first) ]
           /\ fromWorker' = Append(fromWorker, PausedEvt(s, 1))
        \/ /\ ses' = [ ses EXCEPT ![s] = [ first EXCEPT !.pc = "ticked" ] ]
           /\ UNCHANGED fromWorker
    BY <1>13 DEF Begin
  <2> HIDE DEF first
  <2>4. ASSUME NEW new \in SessionState, new.pc \in { "rejected", "ticked", "parked" },
               new.abort = ses[s].abort, ses' = [ ses EXCEPT ![s] = new ]
        PROVE  Moves(s) /\ ses'[s] = new
    BY <1>1, <2>2, <2>4 DEF Moves, Starts
  <2>5. fromWorker \in Seq(Event)
    BY DEF TypeInv, TypeOK, MainTypeOK
  <2>6. ASSUME NEW new \in SessionState, new.pc \in { "rejected", "ticked" },
               new.abort = ses[s].abort, ses' = [ ses EXCEPT ![s] = new ],
               UNCHANGED fromWorker
        PROVE  Moves(s) /\ \E events : Speaks(s, events)
    <3>1. Moves(s) /\ ses'[s].pc \in { "rejected", "ticked" }
      BY <2>4, <2>6
    <3>2. fromWorker' = fromWorker \o << >> /\ << >> \in Seq(Event) /\ Len(<< >>) = 0
      BY <2>5, <2>6, ConcatEmptySeq
    <3>3. Speaks(s, << >>)
      BY <3>1, <3>2, <2>2 DEF Speaks
    <3> QED
      BY <3>1, <3>3
  <2>7. CASE /\ ses' = [ ses EXCEPT ![s] = Parked(first) ]
             /\ fromWorker' = Append(fromWorker, PausedEvt(s, 1))
    <3> DEFINE e == PausedEvt(s, 1)
    <3>1. Moves(s) /\ ses'[s].pc = "parked" /\ ses'[s].steps = 1
      BY <1>11, <2>1, <2>4, <2>7
    <3>2. e \in Event /\ e.sid = s /\ e.type = "paused" /\ e.step = 1
      BY <1>12
    <3> HIDE DEF e
    <3>3. /\ << e >> \in Seq(Event) /\ Len(<< e >>) = 1
          /\ fromWorker' = fromWorker \o << e >>
          /\ \A i \in 1 .. Len(<< e >>) : << e >>[i] = e /\ i = Len(<< e >>)
          /\ 1 \in 1 .. Len(<< e >>)
      BY <3>2, <2>5, <2>7 DEF e
    <3>4. Says(s, e) /\ Asks(e, s)
      BY <3>1, <3>2 DEF Says, WaitsAfter, Asks
    <3>5. Speaks(s, << e >>)
      BY <3>1, <3>2, <3>3, <3>4, <2>2 DEF Speaks
    <3> QED
      BY <1>2, <3>1, <3>5
  <2>8. CASE /\ ses' = [ ses EXCEPT ![s] = [ ses[s] EXCEPT !.pc = "rejected" ] ]
             /\ UNCHANGED fromWorker
    <3>1. /\ [ ses[s] EXCEPT !.pc = "rejected" ] \in SessionState
          /\ [ ses[s] EXCEPT !.pc = "rejected" ].pc = "rejected"
          /\ [ ses[s] EXCEPT !.pc = "rejected" ].abort = ses[s].abort
      BY <1>1, <1>9 DEF Phase
    <3> QED
      BY <1>2, <2>6, <2>8, <3>1
  <2>9. CASE /\ ses' = [ ses EXCEPT ![s] = [ first EXCEPT !.pc = "ticked" ] ]
             /\ UNCHANGED fromWorker
    <3>1. /\ [ first EXCEPT !.pc = "ticked" ] \in SessionState
          /\ [ first EXCEPT !.pc = "ticked" ].pc = "ticked"
          /\ [ first EXCEPT !.pc = "ticked" ].abort = ses[s].abort
      BY <1>9, <2>1 DEF Phase
    <3> QED
      BY <1>2, <2>6, <2>9, <3>1
  <2> QED
    BY <1>2, <2>3, <2>7, <2>8, <2>9
<1>14. CASE EndUnrun(s)
  <2>1. ses[s].pc \in Moving /\ NoneBegins /\ UNCHANGED said
    BY <1>14 DEF EndUnrun, Moving
  <2>2. \E t \in Terminal : End(s, Append(<< >>, Evt(t, s)))
    BY <1>3, <1>14 DEF EndUnrun, Terminal
  <2> QED
    BY <1>2, <1>3, <1>6, <1>7, <2>1, <2>2
<1>15. CASE FirstStatement(s)
  <2>1. ses[s].pc = "ticked" /\ NoneBegins /\ YieldOrBody(s, ses[s], << >>)
    BY <1>15 DEF FirstStatement
  <2> QED
    BY <1>1, <1>2, <1>3, <1>10, <2>1 DEF Moving
<1>16. CASE ResumeFromGate(s)
  <2>1. /\ ses[s].pc = "resumed" /\ NoneBegins
        /\ YieldOrBody(s, ses[s], << Evt("resumed", s) >>)
    BY <1>16 DEF ResumeFromGate
  <2> QED
    BY <1>1, <1>2, <1>3, <1>10, <2>1 DEF Moving
<1>17. CASE TimerFires(s)
  <2>1. ses[s].pc = "yield" /\ ses[s].pc \in Moving \ { "rejected" }
    BY <1>17 DEF TimerFires, Moving
  <2>2. NoneBegins
    BY <1>17 DEF TimerFires, Quiet, Runnable, NoneBegins
  <2>3. CASE ses[s].abort
    <3>1. End(s, Append(<< >>, Evt("cancelled", s))) /\ UNCHANGED said
      BY <1>3, <1>17, <2>3 DEF TimerFires
    <3> QED
      BY <1>2, <1>3, <1>6, <1>7, <2>1, <2>2, <3>1 DEF Terminal
  <2>4. CASE ~ses[s].abort
    <3>1. Body(s, ses[s], << >>)
      BY <1>17, <2>4 DEF TimerFires
    <3> QED
      BY <1>1, <1>2, <1>3, <1>10, <2>1, <2>2, <2>4, <3>1
  <2> QED
    BY <2>3, <2>4
<1>18. CASE Tick(s)
  <2> DEFINE st == [ ses[s] EXCEPT !.steps = @ + 1 ]
  <2>1. st \in SessionState /\ st.abort = ses[s].abort /\ st.steps \in Nat
    <3>1. st \in SessionState
      BY <1>1, StatesTyped
    <3> QED
      BY <3>1, <1>1 DEF SessionState
  <2>2. ses[s].pc = "run" /\ ses[s].pc \in Moving \ { "rejected" } /\ NoneBegins
    BY <1>18 DEF Tick, Moving
  <2>3. \/ \E t \in Terminal : End(s, << Evt(t, s) >>) /\ UNCHANGED said
        \/ cur = s /\ ~ses[s].abort /\ Park(s, st)
        \/ ~ses[s].abort /\ YieldOrBody(s, st, << >>)
    BY <1>18 DEF Tick, Terminal
  <2> HIDE DEF st
  <2>4. CASE \E t \in Terminal : End(s, << Evt(t, s) >>) /\ UNCHANGED said
    <3>1. PICK t \in Terminal : End(s, Append(<< >>, Evt(t, s))) /\ UNCHANGED said
      BY <1>3, <2>4
    <3> QED
      BY <1>2, <1>3, <1>6, <1>7, <2>2, <3>1
  <2>5. CASE cur = s /\ ~ses[s].abort /\ Park(s, st)
    <3> DEFINE e == PausedEvt(s, st.steps)
    <3>1. /\ Say(s, Append(<< >>, e)) /\ ses' = [ ses EXCEPT ![s] = Parked(st) ]
          /\ UNCHANGED << cur, tail, said >>
      BY <1>3, <2>5 DEF Park
    <3>2. Moves(s) /\ ses'[s] = Parked(st)
      BY <1>8, <1>11, <2>1, <2>2, <2>5, <3>1
    <3>3. e \in Event /\ e.sid = s /\ e.type = "paused" /\ e.step = ses'[s].steps
      BY <1>11, <1>12, <2>1, <3>2
    <3>4. ses'[s].pc = "parked"
      BY <1>11, <2>1, <3>2
    <3> HIDE DEF e
    <3>5. Says(s, e) /\ Asks(e, s)
      BY <3>3, <3>4 DEF Says, WaitsAfter, Asks
    <3>6. \E events : Speaks(s, events)
      BY <1>3, <3>1, <3>3, <3>4, <3>5, SaysOne
    <3> QED
      BY <1>2, <3>2, <3>6
  <2>6. CASE ~ses[s].abort /\ YieldOrBody(s, st, << >>)
    BY <1>2, <1>3, <1>10, <2>1, <2>2, <2>6
  <2> QED
    BY <2>3, <2>4, <2>5, <2>6
<1>19. CASE RunRejects(s)
  <2> DEFINE e == Evt("workerError", s)
  <2>1. e \in Event /\ e.sid = s /\ e.type = "workerError" /\ IsFinal(e)
    BY <1>4, <1>7 DEF EventType
  <2>2. /\ Append(fromWorker, e) = fromWorker' /\ UNCHANGED said /\ ses'[s].pc = "ended"
        /\ ses[s].pc = "run" /\ NoneBegins /\ Leave(s)
    BY <1>5, <1>19 DEF RunRejects
  <2> HIDE DEF e
  <2>3. fromWorker \in Seq(Event)
    BY DEF TypeInv, TypeOK, MainTypeOK
  <2>4. /\ << e >> \in Seq(Event) /\ Len(<< e >>) = 1
        /\ fromWorker' = fromWorker \o << e >>
        /\ \A i \in 1 .. Len(<< e >>) : << e >>[i] = e /\ i = Len(<< e >>)
        /\ 1 \in 1 .. Len(<< e >>)
    BY <2>1, <2>2, <2>3
  <2>5. Says(s, e)
    BY <2>1 DEF Says
  <2>6. Speaks(s, << e >>)
    BY <2>1, <2>2, <2>4, <2>5 DEF Speaks
  <2>7. Moves(s)
    BY <2>2 DEF Moves, Leaves, Moving
  <2> QED
    BY <1>2, <2>6, <2>7
<1> QED
  BY <1>13, <1>14, <1>15, <1>16, <1>17, <1>18, <1>19 DEF SessionStep

-----------------------------------------------------------------------------
(* What a command does                                                     *)

\* A command handled, session by session: run gives a session its place, and
\* aborts the one that runs; the others touch the current session only, and
\* only if they are meant for it.
Handled(c) ==
  /\ IsRun(c) =>
       /\ ses'[c.sid].pc = IF tail = None THEN "begin" ELSE "queued"
       /\ ses'[c.sid].after = tail
       /\ ~ses'[c.sid].abort
       /\ \A t \in Session \ { c.sid } :
            ses'[t] = IF tail # None /\ t = cur THEN Aborted(ses[t]) ELSE ses[t]
  /\ ~IsRun(c) =>
       /\ \A t \in Session : t # cur \/ t # c.sid => ses'[t] = ses[t]
       /\ cur = c.sid /\ c.type = "stop" => ses'[cur] = Aborted(ses[cur])
       /\ cur = c.sid /\ c.type # "stop" =>
            /\ ses'[cur].abort = ses[cur].abort
            /\ ses'[cur].steps = ses[cur].steps
            /\ ses'[cur].pc =
                 IF c.type = "resume" /\ ~ses[cur].abort /\ ses[cur].pc = "parked"
                 THEN "resumed"
                 ELSE IF c.type = "input" /\ ses[cur].pc = "input" THEN "run"
                 ELSE ses[cur].pc

\* Aborting wakes a session that waits for the student, and leaves the rest.
LEMMA AbortedEffect ==
  ASSUME NEW st \in SessionState
  PROVE  /\ Aborted(st) \in SessionState
         /\ Aborted(st).abort
         /\ Aborted(st).steps = st.steps
         /\ Aborted(st).after = st.after
         /\ Aborted(st).pc = IF st.pc \in { "parked", "input" } THEN "run" ELSE st.pc
<1>1. Aborted(st) \in SessionState
  BY StatesTyped
<1>2. /\ Aborted(st).abort
      /\ Aborted(st).steps = st.steps
      /\ Aborted(st).after = st.after
  BY DEF Aborted, SessionState
<1>3. Aborted(st).pc = IF st.pc \in { "parked", "input" } THEN "run" ELSE st.pc
  BY DEF Aborted, SessionState
<1> QED
  BY <1>1, <1>2, <1>3

\* The worker takes the oldest command while no microtask is due, and does
\* with it what its type says.
LEMMA CommandOutcome ==
  ASSUME TypeInv, HandleWorkerCommand
  PROVE  LET c == Head(toWorker) IN
         /\ c \in Command /\ c.sid \in Session /\ Handled(c)
         /\ Quiet
         /\ toWorker # << >> /\ toWorker' = Tail(toWorker)
         /\ UNCHANGED << fromWorker, cur, tail, said, lost, faults >>
<1> DEFINE c == Head(toWorker)
<1>1. /\ toWorker \in Seq(Command) /\ ses \in [ Session -> SessionState ]
      /\ toWorker # << >> /\ toWorker' = Tail(toWorker) /\ Quiet
      /\ UNCHANGED << fromWorker, cur, tail, said, lost, faults >>
      /\ cur \in Session \cup { None }
      /\ tail \in Session \cup { None }
  BY DEF TypeInv, TypeOK, MainTypeOK, WorkerTypeOK, HandleWorkerCommand
<1>2. c \in Command /\ c.sid \in Session /\ c.sid # None
  <2>1. c \in Command
    BY <1>1, HeadTailProperties
  <2> QED
    BY <2>1 DEF Command, Session, None
<1> SUFFICES Handled(c)
  BY <1>1, <1>2
<1>3. /\ AbortCurrent(ses) \in [ Session -> SessionState ]
      /\ \A t \in Session :
           AbortCurrent(ses)[t] = IF t = cur THEN Aborted(ses[t]) ELSE ses[t]
  <2>1. CASE cur = None
    BY <1>1, <2>1 DEF AbortCurrent, Session, None
  <2>2. CASE cur # None
    <3>1. cur \in Session /\ Aborted(ses[cur]) \in SessionState
      BY <1>1, <2>2, AbortedEffect
    <3> QED
      BY <1>1, <2>2, <3>1 DEF AbortCurrent
  <2> QED
    BY <2>1, <2>2
<1>4. CASE HandleRun(c)
  <2> DEFINE sessions == IF tail = None THEN ses ELSE AbortCurrent(ses)
  <2> DEFINE new == [ Fresh EXCEPT !.pc = IF tail = None THEN "begin" ELSE "queued",
                                   !.after = tail, !.mode = c.mode, !.bps = c.bps ]
  <2>1. IsRun(c) /\ ses' = [ sessions EXCEPT ![c.sid] = new ]
    BY <1>4 DEF HandleRun, IsRun
  <2>2. /\ new.pc = IF tail = None THEN "begin" ELSE "queued"
        /\ new.after = tail /\ ~new.abort
    BY DEF Fresh
  <2>3. /\ sessions \in [ Session -> SessionState ]
        /\ \A t \in Session : sessions[t] = IF tail # None /\ t = cur
                                            THEN Aborted(ses[t]) ELSE ses[t]
    BY <1>1, <1>3
  <2> HIDE DEF new, sessions
  <2>4. ses'[c.sid] = new /\ \A t \in Session \ { c.sid } : ses'[t] = sessions[t]
    BY <1>2, <2>1, <2>3
  <2> QED
    BY <1>1, <1>2, <2>1, <2>2, <2>3, <2>4 DEF Handled
<1>5. CASE ~HandleRun(c)
  <2>1. \/ HandleStop(c) \/ HandlePause(c) \/ HandleResume(c) \/ HandleInput(c)
        \/ HandleBreakpoints(c)
    BY <1>5 DEF HandleWorkerCommand
  <2>2. ~IsRun(c)
    BY <2>1 DEF IsRun, HandleStop, HandlePause, HandleResume, HandleInput, HandleBreakpoints
  <2>3. CASE cur # c.sid
    <3>1. ses' = ses
      BY <2>1, <2>3 DEF HandleStop, HandlePause, HandleResume, HandleInput, HandleBreakpoints
    <3> QED
      BY <1>1, <1>2, <2>2, <2>3, <3>1 DEF Handled
  <2>4. CASE cur = c.sid
    <3>1. cur \in Session /\ ses[cur] \in SessionState
      BY <1>1, <1>2, <2>4
    <3>2. CASE HandleStop(c)
      <4>1. ses' = AbortCurrent(ses) /\ c.type = "stop"
        BY <2>4, <3>2 DEF HandleStop
      <4> QED
        BY <1>1, <1>2, <1>3, <2>2, <2>4, <4>1 DEF Handled
    <3>3. ASSUME NEW st, ses' = [ ses EXCEPT ![cur] = st ], c.type # "stop",
                 st.abort = ses[cur].abort, st.steps = ses[cur].steps,
                 st.pc = IF c.type = "resume" /\ ~ses[cur].abort /\ ses[cur].pc = "parked"
                         THEN "resumed"
                         ELSE IF c.type = "input" /\ ses[cur].pc = "input" THEN "run"
                         ELSE ses[cur].pc
          PROVE  Handled(c)
      <4>1. ses'[cur] = st /\ \A t \in Session : t # cur => ses'[t] = ses[t]
        BY <1>1, <3>1, <3>3
      <4> QED
        BY <2>2, <2>4, <3>3, <4>1 DEF Handled
    <3>4. ses = [ ses EXCEPT ![cur] = ses[cur] ]
      BY <1>1
    <3>5. CASE HandlePause(c)
      <4>1. CASE ses[cur].abort
        BY <2>4, <3>3, <3>4, <3>5, <4>1 DEF HandlePause
      <4>2. CASE ~ses[cur].abort
        <5> DEFINE st == [ ses[cur] EXCEPT !.pauseReq = TRUE ]
        <5>1. ses' = [ ses EXCEPT ![cur] = st ] /\ c.type = "pause"
          BY <2>4, <3>5, <4>2 DEF HandlePause
        <5>2. st.abort = ses[cur].abort /\ st.steps = ses[cur].steps /\ st.pc = ses[cur].pc
          BY <3>1 DEF SessionState
        <5> HIDE DEF st
        <5> QED
          BY <3>3, <5>1, <5>2
      <4> QED
        BY <4>1, <4>2
    <3>6. CASE HandleResume(c)
      <4>1. CASE ses[cur].abort
        BY <2>4, <3>3, <3>4, <3>6, <4>1 DEF HandleResume
      <4>2. CASE ~ses[cur].abort
        <5> DEFINE st == [ ses[cur] EXCEPT !.mode = c.mode, !.pauseReq = FALSE,
                             !.pc = IF @ = "parked" THEN "resumed" ELSE @ ]
        <5>1. ses' = [ ses EXCEPT ![cur] = st ] /\ c.type = "resume"
          BY <1>1, <2>4, <3>1, <3>6, <4>2 DEF HandleResume
        <5>2. /\ st.abort = ses[cur].abort /\ st.steps = ses[cur].steps
              /\ st.pc = IF ses[cur].pc = "parked" THEN "resumed" ELSE ses[cur].pc
          BY <3>1 DEF SessionState
        <5> HIDE DEF st
        <5> QED
          BY <3>3, <4>2, <5>1, <5>2
      <4> QED
        BY <4>1, <4>2
    <3>7. CASE HandleInput(c)
      <4> DEFINE st == [ ses[cur] EXCEPT !.pc = IF @ = "input" THEN "run" ELSE @ ]
      <4>1. ses' = [ ses EXCEPT ![cur] = st ] /\ c.type = "input"
        BY <1>1, <2>4, <3>1, <3>7 DEF HandleInput
      <4>2. /\ st.abort = ses[cur].abort /\ st.steps = ses[cur].steps
            /\ st.pc = IF ses[cur].pc = "input" THEN "run" ELSE ses[cur].pc
        BY <3>1 DEF SessionState
      <4> HIDE DEF st
      <4> QED
        BY <3>3, <4>1, <4>2
    <3>8. CASE HandleBreakpoints(c)
      <4> DEFINE st == [ ses[cur] EXCEPT !.bps = c.bps ]
      <4>1. ses' = [ ses EXCEPT ![cur] = st ] /\ c.type = "setBreakpoints"
        BY <2>4, <3>8 DEF HandleBreakpoints
      <4>2. st.abort = ses[cur].abort /\ st.steps = ses[cur].steps /\ st.pc = ses[cur].pc
        BY <3>1 DEF SessionState
      <4> HIDE DEF st
      <4> QED
        BY <3>3, <4>1, <4>2
    <3> QED
      BY <2>1, <3>2, <3>5, <3>6, <3>7, <3>8
  <2> QED
    BY <2>3, <2>4
<1> QED
  BY <1>4, <1>5

-----------------------------------------------------------------------------
(* OrderInv is inductive                                                   *)

\* A step that leaves a session alive, waiting its turn, not begun or over,
\* as it was.
SameClass(t) ==
  /\ ses'[t].pc \in Live <=> ses[t].pc \in Live
  /\ \A p \in { "none", "queued", "begin", "ended" } :
       ses'[t].pc = p <=> ses[t].pc = p
  /\ ses[t].pc = "queued" => ses'[t].after = ses[t].after
  /\ ses[t] = Fresh => ses'[t] = Fresh

\* The types the proofs below use all the time.
LEMMA TypesKnown ==
  ASSUME TypeInv
  PROVE  /\ fromWorker \in Seq(Event) /\ toWorker \in Seq(Command) /\ pending \in Seq(Command)
         /\ gen \in Nat /\ sid \in Nat /\ sid <= gen
         /\ ses \in [ Session -> SessionState ]
         /\ cur \in Session \cup { None } /\ tail \in Session \cup { None }
         /\ \A s \in Session : s \in Nat /\ s # 0 /\ s # None
         /\ \A c \in Command : c.sid \in Session
         /\ \A e \in Event : e.sid \in Session \cup { None }
         /\ None \notin Session /\ None = 0
         /\ Fresh.pc = "none" /\ ~Fresh.abort /\ "none" \notin Live
         /\ (ui \in Busy => sid \in Session)
BY DEF TypeInv, TypeOK, MainTypeOK, WorkerTypeOK, Session, None, Command, Event, Fresh,
       Live, Executing, SidKnown, BusyHasSid

\* A command is handled while nobody computes: the current session, if any,
\* waits for a timer or for the student.
LEMMA QuietCurrent ==
  ASSUME TypeInv, OrderInv, Quiet, cur # None
  PROVE  cur \in Session /\ ses[cur].pc \in { "yield", "parked", "input" }
<1>1. cur \in Session /\ ses[cur].pc \in Live
  BY TypesKnown DEF OrderInv, NewestIsCurrent
<1> QED
  BY <1>1 DEF Quiet, Runnable, Live, Executing

\* What the oldest command, if it is a run, finds: nothing as new as it has
\* begun, and the current session is another.
LEMMA RunIsNewest ==
  ASSUME TypeInv, RunInv, OrderInv, HandleWorkerCommand, IsRun(Head(toWorker))
  PROVE  LET c == Head(toWorker) IN
         /\ \A t \in Session : t >= c.sid => ses[t] = Fresh
         /\ c.sid # cur /\ c.sid # tail
         /\ \A i \in 1 .. Len(Tail(toWorker)) :
              IsRun(Tail(toWorker)[i]) => c.sid < Tail(toWorker)[i].sid
<1> DEFINE c == Head(toWorker)
<1>1. toWorker # << >> /\ c.sid \in Session
  BY CommandOutcome
<1>2. /\ 1 \in 1 .. Len(toWorker) /\ c = toWorker[1]
      /\ \A i \in 1 .. Len(Tail(toWorker)) :
           /\ Tail(toWorker)[i] = toWorker[i + 1]
           /\ i + 1 \in 1 .. Len(toWorker) /\ 1 < i + 1
  <2>1. /\ 1 \in 1 .. Len(toWorker) /\ c = toWorker[1]
        /\ \A i \in 1 .. Len(Tail(toWorker)) :
             /\ Tail(toWorker)[i] = toWorker[i + 1]
             /\ i + 1 \in 1 .. Len(toWorker) /\ i + 1 # 1
    BY <1>1, TypesKnown, TailPlaces
  <2> QED
    BY <2>1
<1>3. \A t \in Session : t >= c.sid => ses[t] = Fresh
  BY <1>2 DEF OrderInv, RunsAscend
<1>4. \A i \in 1 .. Len(Tail(toWorker)) :
        IsRun(Tail(toWorker)[i]) => c.sid < Tail(toWorker)[i].sid
  BY <1>2 DEF OrderInv, RunsAscend
<1>5. ses[c.sid].pc \notin Live
  <2>1. c.sid \in Nat
    BY <1>1, TypesKnown
  <2>2. ses[c.sid] = Fresh
    BY <1>1, <1>3, <2>1
  <2> QED
    BY <2>2, TypesKnown
<1>6. c.sid # cur /\ c.sid # tail
  BY <1>1, <1>5, TypesKnown DEF OrderInv, WaitForTail, NewestIsCurrent
<1> QED
  BY <1>3, <1>4, <1>6

\* Handling a command keeps every session in its class, but the one it runs.
LEMMA CommandClasses ==
  ASSUME TypeInv, RunInv, OrderInv, HandleWorkerCommand
  PROVE  LET c == Head(toWorker) IN
         \A t \in Session : ~(IsRun(c) /\ t = c.sid) =>
           /\ SameClass(t)
           /\ (ses[t].abort => ses[t].pc \in { "run", "yield" }) =>
                (ses'[t].abort => ses'[t].pc \in { "run", "yield" })
<1> DEFINE c == Head(toWorker)
<1> SUFFICES ASSUME NEW t \in Session, ~(IsRun(c) /\ t = c.sid)
             PROVE  /\ SameClass(t)
                    /\ (ses[t].abort => ses[t].pc \in { "run", "yield" }) =>
                         (ses'[t].abort => ses'[t].pc \in { "run", "yield" })
  OBVIOUS
<1>1. Handled(c) /\ Quiet /\ c.sid \in Session
  BY CommandOutcome
<1>2. ses[t] \in SessionState
  BY TypesKnown
<1>3. CASE ses'[t] = ses[t]
  BY <1>3 DEF SameClass
<1>4. CASE t = cur /\ ses'[t] = Aborted(ses[t])
  <2>1. ses[t].pc \in { "yield", "parked", "input" }
    BY <1>1, <1>4, QuietCurrent, TypesKnown
  <2>2. ses'[t].pc \in { "yield", "run" } /\ ses[t] # Fresh
    BY <1>2, <1>4, <2>1, AbortedEffect, TypesKnown
  <2> QED
    BY <2>1, <2>2 DEF SameClass, Live, Executing
<1>5. CASE t = cur /\ ~IsRun(c) /\ cur = c.sid /\ c.type # "stop"
  <2>1. ses[t].pc \in { "yield", "parked", "input" }
    BY <1>1, <1>5, QuietCurrent, TypesKnown
  <2>2. /\ ses'[t].abort = ses[t].abort
        /\ ses'[t].pc = IF c.type = "resume" /\ ~ses[t].abort /\ ses[t].pc = "parked"
                        THEN "resumed"
                        ELSE IF c.type = "input" /\ ses[t].pc = "input" THEN "run"
                        ELSE ses[t].pc
    BY <1>1, <1>5 DEF Handled
  <2>3. ses'[t].pc \in { "yield", "parked", "input", "run", "resumed" } /\ ses[t] # Fresh
    BY <2>1, <2>2, TypesKnown
  <2>4. SameClass(t)
    BY <2>1, <2>3 DEF SameClass, Live, Executing
  <2>5. ses[t].pc \in { "run", "yield" } => ses'[t].pc \in { "run", "yield" }
    BY <2>1, <2>2
  <2> QED
    BY <2>2, <2>4, <2>5
<1> QED
  BY <1>1, <1>3, <1>4, <1>5 DEF Handled

\* A command keeps the order of the sessions.
LEMMA CommandKeepsOrder ==
  ASSUME TypeInv, RunInv, OrderInv, HandleWorkerCommand, UNCHANGED mainOnly
  PROVE  OrderInv'
<1> DEFINE c == Head(toWorker)
<1>1. /\ Handled(c) /\ Quiet /\ c.sid \in Session
      /\ UNCHANGED << ui, gen, sid, cur, tail, ready, pending >>
      /\ toWorker # << >> /\ toWorker' = Tail(toWorker)
  BY CommandOutcome DEF mainOnly, runVars
<1>2. /\ 1 \in 1 .. Len(toWorker) /\ c = toWorker[1]
      /\ \A i \in 1 .. Len(toWorker') :
           toWorker'[i] = toWorker[i + 1] /\ i + 1 \in 1 .. Len(toWorker) /\ i + 1 # 1
  BY <1>1, TypesKnown, TailPlaces
<1>3. pending' = << >> /\ Len(pending') = 0
  BY <1>1 DEF RunInv, OneQueue
<1>4. c.sid <= gen
  BY <1>2 DEF RunInv, Issued
<1>5. \A t \in Session : ~(IsRun(c) /\ t = c.sid) =>
        /\ SameClass(t)
        /\ ses'[t].abort => ses'[t].pc \in { "run", "yield" }
  BY CommandClasses DEF OrderInv, AbortsAreSeen
<1>6. IsRun(c) =>
        /\ \A t \in Session : t >= c.sid => ses[t] = Fresh
        /\ c.sid # cur /\ c.sid # tail
        /\ \A i \in 1 .. Len(toWorker') : IsRun(toWorker'[i]) => c.sid < toWorker'[i].sid
        /\ ses'[c.sid].pc = IF tail = None THEN "begin" ELSE "queued"
        /\ ses'[c.sid].after = tail
        /\ ~ses'[c.sid].abort
  BY <1>1, RunIsNewest DEF Handled
<1>7. RunsAscend(pending)'
  BY <1>3 DEF RunsAscend
<1>8. RunsAscend(toWorker)'
  <2> SUFFICES ASSUME NEW i \in 1 .. Len(toWorker'), IsRun(toWorker'[i])
               PROVE  /\ \A t \in Session : t >= toWorker'[i].sid => ses'[t] = Fresh
                      /\ \A j \in 1 .. Len(toWorker') :
                           i < j /\ IsRun(toWorker'[j]) => toWorker'[i].sid < toWorker'[j].sid
    BY DEF RunsAscend, IsRun
  <2>1. /\ \A t \in Session : t >= toWorker'[i].sid => ses[t] = Fresh
        /\ toWorker'[i].sid \in Session
    BY <1>2, TypesKnown DEF OrderInv, RunsAscend
  <2>2. ASSUME NEW t \in Session, t >= toWorker'[i].sid PROVE ses'[t] = Fresh
    <3>1. ~(IsRun(c) /\ t = c.sid)
      <4>1. t \in Nat /\ c.sid \in Nat /\ toWorker'[i].sid \in Nat
        BY <1>1, <2>1, TypesKnown
      <4>2. IsRun(c) => c.sid < toWorker'[i].sid
        BY <1>6
      <4> QED
        BY <2>2, <4>1, <4>2
    <3> QED
      BY <1>5, <2>1, <2>2, <3>1 DEF SameClass
  <2>3. ASSUME NEW j \in 1 .. Len(toWorker'), i < j, IsRun(toWorker'[j])
        PROVE  toWorker'[i].sid < toWorker'[j].sid
    <3>1. i + 1 < j + 1
      BY <2>3
    <3> QED
      BY <1>2, <2>3, <3>1 DEF OrderInv, RunsAscend
  <2> QED
    BY <2>2, <2>3
<1>9. \A s \in Session : ses'[s].pc = "none" => ses'[s] = Fresh
  BY <1>5, <1>6 DEF SameClass, OrderInv
<1>10. WaitForTail'
  <2>1. tail # None => tail \in Session /\ ses'[tail].pc \in Live
    BY <1>5, <1>6, TypesKnown DEF SameClass, OrderInv, WaitForTail
  <2>2. ASSUME NEW s \in Session, ses'[s].pc = "queued"
        PROVE  tail # None /\ ses'[s].after = tail
    BY <1>5, <1>6, <2>2 DEF SameClass, OrderInv, WaitForTail
  <2>3. ASSUME tail # None, NEW t \in Session PROVE ses'[t].pc # "begin"
    <3>1. ses[t].pc # "begin"
      BY <1>1 DEF Quiet, Runnable
    <3> QED
      BY <1>5, <1>6, <2>3, <3>1 DEF SameClass
  <2> QED
    BY <1>1, <2>1, <2>2, <2>3 DEF WaitForTail, NoneBegins
<1>11. NewestIsCurrent'
  <2>1. cur # None => ses'[cur].pc \in Live
    BY <1>5, <1>6, TypesKnown DEF SameClass, OrderInv, NewestIsCurrent
  <2>2. ASSUME NEW s \in Session, ses'[s].pc \in Live
        PROVE  ses[s].pc \in Live /\ (IsRun(c) => s < c.sid)
    <3>1. ~(IsRun(c) /\ s = c.sid)
      BY <1>6, <2>2 DEF Live, Executing
    <3>2. ses[s].pc \in Live
      BY <1>5, <2>2, <3>1 DEF SameClass
    <3>3. IsRun(c) => ~(s >= c.sid)
      BY <1>6, <3>2, TypesKnown
    <3> QED
      BY <1>1, <3>2, <3>3, TypesKnown
  <2>3. ASSUME NEW s \in Session, NEW t \in Session, t < s, ses'[s].pc \in Live
        PROVE  ses'[t].pc \notin { "queued", "begin" }
    <3>1. ~(IsRun(c) /\ t = c.sid)
      BY <1>1, <2>2, <2>3, TypesKnown
    <3>2. ses[t].pc \notin { "queued", "begin" }
      BY <2>2, <2>3 DEF OrderInv, NewestIsCurrent
    <3> QED
      BY <1>5, <3>1, <3>2 DEF SameClass
  <2>4. ASSUME NEW s \in Session, ses'[s].pc \in Live,
               \A t \in Session : s < t => ses'[t].pc = "none"
        PROVE  cur = s
    <3>1. ses[s].pc \in Live /\ ~IsRun(c)
      BY <1>1, <1>6, <2>2, <2>4
    <3>2. \A t \in Session : s < t => ses[t].pc = "none"
      BY <1>5, <2>4, <3>1 DEF SameClass
    <3> QED
      BY <3>1, <3>2 DEF OrderInv, NewestIsCurrent
  <2> QED
    BY <1>1, <2>1, <2>3, <2>4 DEF NewestIsCurrent
<1>12. AbortsAreSeen'
  <2>1. \A s \in Session : ses'[s].abort => ses'[s].pc \in { "run", "yield" }
    BY <1>5, <1>6
  <2>2. /\ \A i \in 1 .. Len(toWorker') : toWorker'[i].type = "stop" => toWorker'[i].sid < gen
        /\ \A i \in 1 .. Len(pending') : pending'[i].type = "stop" => pending'[i].sid < gen
    BY <1>2, <1>3 DEF OrderInv, AbortsAreSeen
  <2>3. ASSUME ui \in Busy PROVE ~ses'[sid].abort
    <3>1. sid \in Session /\ gen = sid /\ ~ses[sid].abort
      BY <2>3, TypesKnown DEF RunInv, RunTracked, OrderInv, AbortsAreSeen
    <3>2. CASE IsRun(c)
      <4>1. ses[sid] = Fresh
        BY <1>4, <1>6, <3>1, <3>2
      <4>2. cur # sid
        BY <3>1, <4>1, TypesKnown DEF OrderInv, NewestIsCurrent
      <4> QED
        BY <1>1, <1>6, <3>1, <3>2, <4>2 DEF Handled
    <3>3. CASE ~IsRun(c)
      <4>1. c.type = "stop" => c.sid # sid
        BY <1>2, <3>1, TypesKnown DEF OrderInv, AbortsAreSeen
      <4> QED
        BY <1>1, <3>1, <3>3, <4>1 DEF Handled
    <3> QED
      BY <3>2, <3>3
  <2> QED
    BY <1>1, <2>1, <2>2, <2>3 DEF AbortsAreSeen
<1> QED
  BY <1>7, <1>8, <1>9, <1>10, <1>11, <1>12 DEF OrderInv

\* What a move leaves of each session: the one that moves is alive before and,
\* unless it leaves, after; the others stay in their class, but for those that
\* are woken.
LEMMA MoveClasses ==
  ASSUME TypeInv, OrderInv, NEW s \in Session, Moves(s)
  PROVE  /\ ses[s].pc \notin { "none", "queued", "parked", "input", "ended" }
         /\ ses'[s].pc \in Live \cup { "ended" }
         /\ ~ses'[s].abort \/ (ses[s].abort /\ ses'[s].pc \in { "run", "yield" })
         /\ \A t \in Session \ { s } :
              \/ ses'[t] = ses[t]
              \/ /\ Leaves(s) /\ ses[t].pc = "queued" /\ ses[t].after = s
                 /\ ses'[t].pc = "begin" /\ ~ses'[t].abort /\ ses'[t].steps = ses[t].steps
<1>1. /\ ses \in [ Session -> SessionState ]
      /\ \A t \in Session : ses[t].abort => ses[t].pc \in { "run", "yield" }
  BY TypesKnown DEF OrderInv, AbortsAreSeen
<1>2. CASE Starts(s)
  <2>1. PICK new \in SessionState :
          /\ ses' = [ ses EXCEPT ![s] = new ] /\ new.abort = ses[s].abort
          /\ new.pc \in { "rejected", "ticked", "parked" }
    BY <1>2 DEF Starts
  <2>2. ses[s].pc = "begin" /\ ~ses[s].abort
    BY <1>1, <1>2 DEF Starts
  <2>3. ses'[s] = new /\ \A t \in Session \ { s } : ses'[t] = ses[t]
    BY <1>1, <2>1
  <2> QED
    BY <2>1, <2>2, <2>3 DEF Live, Executing
<1>3. CASE Goes(s)
  <2>1. PICK new \in SessionState :
          /\ ses' = [ ses EXCEPT ![s] = new ] /\ new.abort = ses[s].abort
          /\ new.pc \in { "run", "input", "yield", "parked" }
    BY <1>3 DEF Goes
  <2>2. ses[s].pc \in Moving /\ ~ses[s].abort
    BY <1>1, <1>3 DEF Goes
  <2>3. ses'[s] = new /\ \A t \in Session \ { s } : ses'[t] = ses[t]
    BY <1>1, <2>1
  <2> QED
    BY <2>1, <2>2, <2>3 DEF Live, Executing, Moving
<1>4. CASE Leaves(s)
  <2>1. ses[s].pc \in Moving /\ Leave(s)
    BY <1>4 DEF Leaves
  <2>2. ses'[s] = Over /\ Over.pc = "ended" /\ ~Over.abort
    BY <2>1 DEF Leave, Over, Fresh
  <2>3. ASSUME NEW t \in Session \ { s }, ses[t].pc = "queued", ses[t].after = s
        PROVE  ses'[t].pc = "begin" /\ ~ses'[t].abort /\ ses'[t].steps = ses[t].steps
    <3>1. ses'[t] = [ ses[t] EXCEPT !.pc = "begin", !.after = None ]
      BY <2>1, <2>3 DEF Leave
    <3>2. ses[t] \in SessionState /\ ~ses[t].abort
      BY <1>1, <2>3
    <3> QED
      BY <3>1, <3>2 DEF SessionState
  <2>4. ASSUME NEW t \in Session \ { s }, ~(ses[t].pc = "queued" /\ ses[t].after = s)
        PROVE  ses'[t] = ses[t]
    BY <2>1, <2>4 DEF Leave
  <2> QED
    BY <1>4, <2>1, <2>2, <2>3, <2>4 DEF Moving
<1> QED
  BY <1>2, <1>3, <1>4 DEF Moves

\* A session's step keeps the order of the sessions: the one that begins is the
\* newest alive, and only the one everybody waits for can wake them.
LEMMA MoveKeepsOrder ==
  ASSUME TypeInv, RunInv, OrderInv, NEW s \in Session, Moves(s),
         UNCHANGED << ui, gen, sid, toWorker, pending >>
  PROVE  OrderInv'
<1>1. /\ ses[s].pc \notin { "none", "queued", "parked", "input", "ended" }
      /\ ses'[s].pc \in Live \cup { "ended" }
      /\ \A t \in Session \ { s } :
           \/ ses'[t] = ses[t]
           \/ /\ Leaves(s) /\ ses[t].pc = "queued" /\ ses[t].after = s
              /\ ses'[t].pc = "begin" /\ ~ses'[t].abort
  BY MoveClasses
<1>2. /\ \A t \in Session : ses[t] = Fresh => ses'[t] = Fresh
      /\ \A t \in Session : ses'[t].pc = "none" <=> ses[t].pc = "none"
      /\ \A t \in Session \ { s } : ses'[t].pc \in Live <=> ses[t].pc \in Live
  BY <1>1, TypesKnown DEF Live, Executing
<1>3. \A t, u \in Session : t < u /\ ses[u].pc \in Live =>
        ses[t].pc \notin { "queued", "begin" }
  BY DEF OrderInv, NewestIsCurrent
<1>4. RunsAscend(toWorker)' /\ RunsAscend(pending)'
  BY <1>2 DEF OrderInv, RunsAscend
<1>5. \A t \in Session : ses'[t].pc = "none" => ses'[t] = Fresh
  BY <1>2 DEF OrderInv
<1>6. WaitForTail' /\ NewestIsCurrent'
  <2>1. CASE Starts(s)
    <3>1. /\ cur' = s /\ tail' = s /\ ses[s].pc = "begin" /\ ses'[s].pc \in Live
          /\ \A t \in Session : ses[t].pc = "begin" => s <= t
          /\ \A t \in Session \ { s } : ses'[t] = ses[t]
      <4>1. ses'[s].pc \in Live
        BY <2>1, TypesKnown DEF Starts, Live, Executing
      <4> QED
        BY <2>1, <4>1, TypesKnown DEF Starts
    <3>2. \A t \in Session : ses'[t].pc # "queued"
      BY <1>1, <3>1 DEF OrderInv, WaitForTail, NoneBegins, Live, Executing
    <3>3. WaitForTail'
      BY <3>1, <3>2 DEF WaitForTail
    <3>4. ASSUME NEW u \in Session, ses'[u].pc \in Live PROVE u <= s
      <4>1. CASE u # s
        <5>1. ses[u].pc \in Live
          BY <1>2, <3>4, <4>1
        <5>2. ~(s < u)
          BY <1>3, <3>1, <5>1
        <5> QED
          BY <5>2, TypesKnown
      <4> QED
        BY <4>1, TypesKnown
    <3>5. ASSUME NEW u \in Session, NEW t \in Session, t < u, ses'[u].pc \in Live
          PROVE  ses'[t].pc \notin { "queued", "begin" }
      <4>1. t # s /\ ~(s <= t)
        BY <3>4, <3>5, TypesKnown
      <4> QED
        BY <3>1, <3>2, <4>1
    <3>6. ASSUME NEW u \in Session, ses'[u].pc \in Live,
                 \A t \in Session : u < t => ses'[t].pc = "none"
          PROVE  cur' = u
      <4>1. ~(u < s)
        BY <1>1, <3>1, <3>6 DEF Live, Executing
      <4> QED
        BY <3>1, <3>4, <3>6, <4>1, TypesKnown
    <3>7. NewestIsCurrent'
      BY <3>1, <3>5, <3>6 DEF NewestIsCurrent
    <3> QED
      BY <3>3, <3>7
  <2>2. CASE Goes(s)
    <3>1. /\ UNCHANGED << cur, tail >> /\ NoneBegins
          /\ ses[s].pc \in Live /\ ses'[s].pc \in Live
          /\ ses'[s].pc \notin { "queued", "begin" }
          /\ \A t \in Session \ { s } : ses'[t] = ses[t]
      <4>1. ses'[s].pc \in { "run", "input", "yield", "parked" } /\ ses[s].pc \in Moving
        BY <2>2, TypesKnown DEF Goes
      <4> QED
        BY <2>2, <4>1, TypesKnown DEF Goes, Live, Executing, Moving
    <3>2. \A t \in Session : /\ ses'[t].pc \in Live <=> ses[t].pc \in Live
                             /\ ses'[t].pc \in { "queued", "begin" } => ses'[t] = ses[t]
      BY <3>1
    <3>3. WaitForTail'
      BY <3>1, <3>2, TypesKnown DEF OrderInv, WaitForTail, NoneBegins
    <3>4. NewestIsCurrent'
      BY <1>2, <1>3, <3>1, <3>2, TypesKnown DEF OrderInv, NewestIsCurrent
    <3> QED
      BY <3>3, <3>4
  <2>3. CASE Leaves(s)
    <3>1. /\ ses[s].pc \in Live /\ ses'[s].pc = "ended" /\ NoneBegins
          /\ cur' = IF cur = s THEN None ELSE cur
          /\ tail' = IF tail = s THEN None ELSE tail
          /\ \A t \in Session \ { s } :
               ~(ses[t].pc = "queued" /\ ses[t].after = s) => ses'[t] = ses[t]
      BY <2>3 DEF Leaves, Leave, Over, Fresh, Moving, Live, Executing
    <3>2. /\ tail # None => tail \in Session /\ ses[tail].pc \in Live
          /\ cur # None => cur \in Session /\ ses[cur].pc \in Live
          /\ \A t \in Session : ses[t].pc = "queued" => tail # None /\ ses[t].after = tail
      BY TypesKnown DEF OrderInv, WaitForTail, NewestIsCurrent
    <3>5. \A t \in Session \ { s } :
            ses[t].pc = "queued" /\ ses[t].after = s => ses'[t].pc = "begin"
      <4>1. ses \in [ Session -> SessionState ] /\ Leave(s)
        BY <2>3, TypesKnown DEF Leaves
      <4> QED
        BY <4>1 DEF Leave, SessionState
    <3>3. WaitForTail'
      <4>1. tail' # None => tail' \in Session /\ ses'[tail'].pc \in Live
        BY <1>2, <3>1, <3>2
      <4>2. ASSUME NEW t \in Session, ses'[t].pc = "queued"
            PROVE  tail' # None /\ ses'[t].after = tail' /\ \A u \in Session : ses'[u].pc # "begin"
        <5>1. t # s /\ ses'[t] = ses[t] /\ ses[t].after # s
          BY <1>1, <3>1, <3>5, <4>2
        <5>2. tail # None /\ ses[t].after = tail /\ tail # s
          BY <3>2, <4>2, <5>1
        <5>3. \A u \in Session \ { s } : ses'[u] = ses[u]
          BY <3>1, <3>2, <5>2
        <5> QED
          BY <3>1, <5>1, <5>2, <5>3 DEF NoneBegins
      <4> QED
        BY <4>1, <4>2 DEF WaitForTail, NoneBegins
    <3>4. NewestIsCurrent'
      <4>1. cur' # None => ses'[cur'].pc \in Live
        BY <1>2, <3>1, <3>2
      <4>2. ASSUME NEW u \in Session, ses'[u].pc \in Live PROVE u # s /\ ses[u].pc \in Live
        BY <1>2, <3>1, <4>2 DEF Live, Executing
      <4>3. ASSUME NEW u \in Session, NEW t \in Session, t < u, ses'[u].pc \in Live
            PROVE  ses'[t].pc \notin { "queued", "begin" }
        <5>1. ses[t].pc \notin { "queued", "begin" }
          BY <1>3, <4>2, <4>3
        <5> QED
          BY <3>1, <5>1
      <4>4. ASSUME NEW u \in Session, ses'[u].pc \in Live,
                   \A t \in Session : u < t => ses'[t].pc = "none"
            PROVE  cur' = u
        <5>1. u # s /\ ses[u].pc \in Live /\ \A t \in Session : u < t => ses[t].pc = "none"
          BY <1>2, <4>2, <4>4
        <5>2. cur = u
          BY <5>1 DEF OrderInv, NewestIsCurrent
        <5> QED
          BY <3>1, <5>1, <5>2
      <4> QED
        BY <4>1, <4>3, <4>4 DEF NewestIsCurrent
    <3> QED
      BY <3>3, <3>4
  <2> QED
    BY <2>1, <2>2, <2>3 DEF Moves
<1>7. AbortsAreSeen'
  <2>1. \A t \in Session : ses'[t].abort => ses[t].abort /\ ses'[t].pc \in { "run", "yield" }
    BY MoveClasses DEF OrderInv, AbortsAreSeen
  <2>2. ui \in Busy => sid \in Session
    BY TypesKnown
  <2> QED
    BY <2>1, <2>2 DEF OrderInv, AbortsAreSeen
<1> QED
  BY <1>4, <1>5, <1>6, <1>7 DEF OrderInv

-----------------------------------------------------------------------------
(* What a click does                                                       *)

\* A new run: the stop of the run in flight, if any, then the run.
Reruns(cmds) ==
  /\ gen < gen' /\ sid' = gen' /\ gen' \in Session
  /\ ui' = "running" /\ port = "live"
  /\ Len(cmds) \in 1 .. Len(cmds)
  /\ IsRun(cmds[Len(cmds)]) /\ cmds[Len(cmds)].sid = gen'
  /\ \A i \in 1 .. Len(cmds) : i # Len(cmds) =>
       cmds[i].type = "stop" /\ cmds[i].sid < gen'

Stops(cmds) ==
  /\ ui \in Busy /\ ui' = "cancelled"
  /\ gen' = gen + 1 /\ sid' = sid
  /\ \A i \in 1 .. Len(cmds) : cmds[i].type = "stop" /\ cmds[i].sid = sid

\* The student answers what the program asked.
Replies(cmds) ==
  /\ ui \in { "paused", "waitingForInput" } /\ ui' = "running"
  /\ UNCHANGED << gen, sid, loc >>
  /\ Len(cmds) = 1 /\ 1 \in 1 .. Len(cmds)
  /\ cmds[1].sid = sid
  /\ cmds[1].type = IF ui = "paused" THEN "resume" ELSE "input"

\* Pause and the breakpoint edits.
Remarks(cmds) ==
  /\ UNCHANGED << ui, gen, sid, loc >>
  /\ \A i \in 1 .. Len(cmds) :
       cmds[i].type \in { "pause", "setBreakpoints" } /\ cmds[i].sid = sid

\* Every click posts some commands: those of a new run, a stop, the answer the
\* program waits for, or a remark.
LEMMA StudentOutcome ==
  ASSUME TypeInv, RunInv, Student
  PROVE  /\ UNCHANGED << workerVars, fromWorker, delivered >>
         /\ \E cmds \in Seq(Command) :
              /\ Post(cmds)
              /\ Reruns(cmds) \/ Stops(cmds) \/ Replies(cmds) \/ Remarks(cmds)
<1>1. /\ gen \in Nat /\ sid \in Nat /\ sid <= gen /\ bps \in SUBSET Lines
      /\ ui \in Busy => gen = sid /\ sid \in Session
      /\ toWorker \in Seq(Command) /\ pending \in Seq(Command)
  BY TypesKnown DEF TypeInv, TypeOK, MainTypeOK, RunInv, RunTracked
<1>2. UNCHANGED << workerVars, fromWorker, delivered >>
  BY DEF Student, Run, Stop, Restart, Pause, Resume, SubmitInput, EditBreakpoint, ExecuteRun
<1> DEFINE Posted == \E cmds \in Seq(Command) :
              /\ Post(cmds)
              /\ Reruns(cmds) \/ Stops(cmds) \/ Replies(cmds) \/ Remarks(cmds)
<1>3. ASSUME NEW g, NEW p, NEW mode \in StepMode, gen < g, port = "live",
             ExecuteRun(g, p, << >>, mode)
      PROVE  Posted
  <2> DEFINE r == RunCmd(g, bps, mode)
  <2>1. g \in Session /\ r \in Command /\ IsRun(r) /\ r.sid = g
    BY <1>1, <1>3, CommandsTyped DEF ExecuteRun, RunCmd, Cmd, IsRun
  <2>2. << r >> \in Seq(Command) /\ Len(<< r >>) = 1 /\ << r >>[1] = r
    BY <2>1
  <2>3. Post(<< r >>) /\ gen' = g /\ sid' = g /\ ui' = "running"
    BY <1>3 DEF ExecuteRun
  <2> HIDE DEF r
  <2>4. Reruns(<< r >>)
    BY <1>3, <2>1, <2>2, <2>3 DEF Reruns
  <2> QED
    BY <2>2, <2>3, <2>4
<1>4. ASSUME NEW g, NEW p, NEW mode \in StepMode, gen < g, port = "live", ui \in Busy,
             ExecuteRun(g, p, << Cmd("stop", sid) >>, mode)
      PROVE  Posted
  <2> DEFINE r == RunCmd(g, bps, mode)
  <2> DEFINE q == Cmd("stop", sid)
  <2> DEFINE cmds == Append(<< q >>, r)
  <2>1. g \in Session /\ r \in Command /\ IsRun(r) /\ r.sid = g
    BY <1>1, <1>4, CommandsTyped DEF ExecuteRun, RunCmd, Cmd, IsRun
  <2>2. q \in Command /\ q.type = "stop" /\ q.sid = sid /\ sid < g
    <3>1. q \in Command
      BY <1>1, <1>4, CommandsTyped DEF CommandType, StepMode
    <3> QED
      BY <1>1, <1>4, <2>1, <3>1, TypesKnown DEF Cmd
  <2>3. Post(cmds) /\ gen' = g /\ sid' = g /\ ui' = "running"
    BY <1>4 DEF ExecuteRun
  <2> HIDE DEF r, q
  <2>4. << q >> \in Seq(Command) /\ Len(<< q >>) = 1 /\ << q >>[1] = q
    BY <2>2
  <2>5. ASSUME NEW b \in Seq(Command)
        PROVE  /\ Append(b, r) \in Seq(Command) /\ Len(Append(b, r)) = Len(b) + 1
               /\ \A i \in 1 .. Len(b) : Append(b, r)[i] = b[i]
               /\ Append(b, r)[Len(b) + 1] = r
    BY <2>1, <2>5
  <2>6. /\ cmds \in Seq(Command) /\ Len(cmds) = 2 /\ cmds[2] = r /\ cmds[1] = q
    <3>1. Len(<< q >>) + 1 = 2 /\ 1 \in 1 .. Len(<< q >>)
      BY <2>4
    <3> QED
      BY <2>4, <2>5, <3>1
  <2> HIDE DEF cmds
  <2>7. Reruns(cmds)
    BY <1>4, <2>1, <2>2, <2>3, <2>6 DEF Reruns
  <2> QED
    BY <2>3, <2>6, <2>7
<1>5. ASSUME NEW c \in Command, Post(<< c >>), c.sid = sid,
             \/ UNCHANGED << ui, gen, sid, loc >> /\ c.type \in { "pause", "setBreakpoints" }
             \/ ui \in Busy /\ ui' = "cancelled" /\ gen' = gen + 1 /\ sid' = sid /\ c.type = "stop"
             \/ /\ ui \in { "paused", "waitingForInput" } /\ ui' = "running"
                /\ UNCHANGED << gen, sid, loc >>
                /\ c.type = IF ui = "paused" THEN "resume" ELSE "input"
      PROVE  Posted
  <2>1. << c >> \in Seq(Command) /\ Len(<< c >>) = 1 /\ << c >>[1] = c
    OBVIOUS
  <2>2. 1 \in 1 .. Len(<< c >>) /\ \A i \in 1 .. Len(<< c >>) : << c >>[i] = c
    BY <2>1
  <2>3. Stops(<< c >>) \/ Replies(<< c >>) \/ Remarks(<< c >>)
    BY <1>5, <2>1, <2>2 DEF Stops, Replies, Remarks
  <2> QED
    BY <1>5, <2>1, <2>3
<1>6. ASSUME ui \in Busy
      PROVE  /\ \A t \in CommandType : Cmd(t, sid) \in Command /\ Cmd(t, sid).sid = sid
                                       /\ Cmd(t, sid).type = t
             /\ \A m \in StepMode : ResumeCmd(sid, m) \in Command /\ ResumeCmd(sid, m).sid = sid
                                    /\ ResumeCmd(sid, m).type = "resume"
             /\ \A b \in SUBSET Lines : BreakpointsCmd(sid, b) \in Command
                  /\ BreakpointsCmd(sid, b).sid = sid
                  /\ BreakpointsCmd(sid, b).type = "setBreakpoints"
  BY <1>1, <1>6, CommandsTyped DEF StepMode, Cmd, ResumeCmd, BreakpointsCmd
<1>7. ASSUME NEW mode \in { "continue", "stepInto" }, Run(mode) PROVE Posted
  BY <1>1, <1>3, <1>7 DEF Run, StepMode
<1>8. ASSUME Stop PROVE Posted
  <2>1. /\ ui \in Busy /\ ui' = "cancelled" /\ gen' = gen + 1 /\ sid' = sid
        /\ Post(<< Cmd("stop", sid) >>)
    BY <1>8 DEF Stop
  <2> QED
    BY <1>5, <1>6, <2>1 DEF CommandType
<1>9. ASSUME Restart PROVE Posted
  <2>1. CASE ui \in Busy
    BY <1>1, <1>4, <1>9, <2>1 DEF Restart, StepMode
  <2>2. CASE ui \notin Busy
    BY <1>1, <1>3, <1>9, <2>2 DEF Restart, StepMode
  <2> QED
    BY <2>1, <2>2
<1>10. ASSUME Pause PROVE Posted
  <2>1. /\ ui \in Busy /\ UNCHANGED << ui, gen, sid, loc >> /\ Post(<< Cmd("pause", sid) >>)
    BY <1>10 DEF Pause, Busy, runVars
  <2> QED
    BY <1>5, <1>6, <2>1 DEF CommandType
<1>11. ASSUME NEW mode \in StepMode, Resume(mode) PROVE Posted
  <2>1. /\ ui \in Busy /\ ui = "paused" /\ ui' = "running" /\ UNCHANGED << gen, sid, loc >>
        /\ Post(<< ResumeCmd(sid, mode) >>)
    BY <1>11 DEF Resume, Busy, runVars
  <2> QED
    BY <1>5, <1>6, <2>1
<1>12. ASSUME SubmitInput PROVE Posted
  <2>1. /\ ui \in Busy /\ ui = "waitingForInput" /\ ui' = "running"
        /\ UNCHANGED << gen, sid, loc >> /\ Post(<< Cmd("input", sid) >>)
    BY <1>12 DEF SubmitInput, Busy, runVars
  <2> QED
    BY <1>5, <1>6, <2>1 DEF CommandType
<1>13. ASSUME NEW line \in Lines, EditBreakpoint(line) PROVE Posted
  <2>1. UNCHANGED << ui, gen, sid, loc >> /\ bps' \in SUBSET Lines
    BY <1>1, <1>13 DEF EditBreakpoint, runVars
  <2>2. CASE ui \in Busy /\ sid # 0
    <3>1. Post(<< BreakpointsCmd(sid, bps') >>)
      BY <1>13, <2>2 DEF EditBreakpoint
    <3> QED
      BY <1>5, <1>6, <2>1, <2>2, <3>1
  <2>3. CASE ~(ui \in Busy /\ sid # 0)
    <3>1. UNCHANGED portVars
      BY <1>13, <2>3 DEF EditBreakpoint
    <3>2. toWorker \o << >> = toWorker /\ pending \o << >> = pending
      BY <1>1, ConcatEmptySeq
    <3>3. Post(<< >>)
      BY <3>1, <3>2 DEF Post, portVars
    <3>4. << >> \in Seq(Command) /\ Remarks(<< >>)
      BY <2>1 DEF Remarks
    <3> QED
      BY <3>3, <3>4
  <2> QED
    BY <2>2, <2>3
<1> QED
  BY <1>2, <1>7, <1>8, <1>9, <1>10, <1>11, <1>12, <1>13 DEF Student

\* Where the posted commands are: behind those that were there, in the one
\* queue that is in use.
LEMMA PostPlaces ==
  ASSUME TypeInv, NEW cmds \in Seq(Command), Post(cmds)
  PROVE  /\ UNCHANGED << port, ready >>
         /\ Len(cmds) \in Nat
         /\ \A i \in 1 .. Len(toWorker') :
              \/ i \in 1 .. Len(toWorker) /\ toWorker'[i] = toWorker[i]
              \/ /\ i > Len(toWorker) /\ i - Len(toWorker) \in 1 .. Len(cmds)
                 /\ toWorker'[i] = cmds[i - Len(toWorker)]
         /\ \A i \in 1 .. Len(pending') :
              \/ i \in 1 .. Len(pending) /\ pending'[i] = pending[i]
              \/ /\ i > Len(pending) /\ i - Len(pending) \in 1 .. Len(cmds)
                 /\ pending'[i] = cmds[i - Len(pending)]
         /\ \A i \in 1 .. Len(toWorker) : i \in 1 .. Len(toWorker') /\ toWorker'[i] = toWorker[i]
         /\ \A i \in 1 .. Len(pending) : i \in 1 .. Len(pending') /\ pending'[i] = pending[i]
         /\ port = "live" => \A i \in 1 .. Len(cmds) :
              \/ \E j \in 1 .. Len(toWorker') : toWorker'[j] = cmds[i]
              \/ \E j \in 1 .. Len(pending') : pending'[j] = cmds[i]
<1>1. toWorker \in Seq(Command) /\ pending \in Seq(Command) /\ Len(cmds) \in Nat
  BY TypesKnown, LenProperties
<1>2. /\ UNCHANGED << port, ready >>
      /\ \/ toWorker' = toWorker \o cmds /\ UNCHANGED pending
         \/ pending' = pending \o cmds /\ UNCHANGED toWorker
         \/ port # "live" /\ UNCHANGED << toWorker, pending >>
  BY DEF Post
<1>3. CASE toWorker' = toWorker \o cmds /\ UNCHANGED pending
  <2> DEFINE new == toWorker \o cmds
  <2>1. /\ Len(toWorker) \in Nat
        /\ \A i \in 1 .. Len(new) :
             \/ i \in 1 .. Len(toWorker) /\ new[i] = toWorker[i]
             \/ /\ i > Len(toWorker) /\ i - Len(toWorker) \in 1 .. Len(cmds)
                /\ new[i] = cmds[i - Len(toWorker)]
        /\ \A i \in 1 .. Len(toWorker) : i \in 1 .. Len(new) /\ new[i] = toWorker[i]
        /\ \A i \in 1 .. Len(cmds) :
             i + Len(toWorker) \in 1 .. Len(new) /\ new[i + Len(toWorker)] = cmds[i]
    BY <1>1, ConcatPlaces, SMTT(30)
  <2>2. toWorker' = new /\ pending' = pending
    BY <1>3
  <2> HIDE DEF new
  <2>3. \A i \in 1 .. Len(cmds) : \E j \in 1 .. Len(toWorker') : toWorker'[j] = cmds[i]
    BY <2>1, <2>2
  <2> QED
    BY <1>1, <1>2, <2>1, <2>2, <2>3
<1>4. CASE pending' = pending \o cmds /\ UNCHANGED toWorker
  <2> DEFINE new == pending \o cmds
  <2>1. /\ Len(pending) \in Nat
        /\ \A i \in 1 .. Len(new) :
             \/ i \in 1 .. Len(pending) /\ new[i] = pending[i]
             \/ /\ i > Len(pending) /\ i - Len(pending) \in 1 .. Len(cmds)
                /\ new[i] = cmds[i - Len(pending)]
        /\ \A i \in 1 .. Len(pending) : i \in 1 .. Len(new) /\ new[i] = pending[i]
        /\ \A i \in 1 .. Len(cmds) :
             i + Len(pending) \in 1 .. Len(new) /\ new[i + Len(pending)] = cmds[i]
    BY <1>1, ConcatPlaces, SMTT(30)
  <2>2. pending' = new /\ toWorker' = toWorker
    BY <1>4
  <2> HIDE DEF new
  <2>3. \A i \in 1 .. Len(cmds) : \E j \in 1 .. Len(pending') : pending'[j] = cmds[i]
    BY <2>1, <2>2
  <2> QED
    BY <1>1, <1>2, <2>1, <2>2, <2>3
<1>5. CASE port # "live" /\ UNCHANGED << toWorker, pending >>
  BY <1>1, <1>2, <1>5
<1> QED
  BY <1>2, <1>3, <1>4, <1>5

\* A click keeps the order of the sessions: a new run is newer than all.
LEMMA StudentKeepsOrder ==
  ASSUME TypeInv, RunInv, OrderInv, Student
  PROVE  OrderInv'
<1>1. /\ UNCHANGED << ses, cur, tail >>
      /\ gen \in Nat /\ sid \in Nat /\ sid <= gen
      /\ ui \in Busy => gen = sid /\ sid \in Session
      /\ \A t \in Session : t \in Nat /\ (t > gen => ses[t] = Fresh)
  <2>1. \A t \in Session : t > gen => ses[t].pc = "none"
    BY TypesKnown DEF RunInv, Issued
  <2> QED
    BY <2>1, TypesKnown, StudentOutcome DEF workerVars, OrderInv, RunInv, RunTracked
<1>2. PICK cmds \in Seq(Command) :
        /\ Post(cmds)
        /\ Reruns(cmds) \/ Stops(cmds) \/ Replies(cmds) \/ Remarks(cmds)
  BY StudentOutcome
<1>3. /\ gen' \in Nat /\ gen <= gen'
      /\ \A i \in 1 .. Len(cmds) :
           /\ IsRun(cmds[i]) => i = Len(cmds) /\ cmds[i].sid \in Session /\ gen < cmds[i].sid
           /\ cmds[i].type = "stop" => cmds[i].sid < gen'
      /\ ui' \in Busy => ~ses[sid'].abort
  <2>1. CASE Reruns(cmds)
    BY <1>1, <2>1, TypesKnown DEF Reruns, IsRun
  <2>2. CASE Stops(cmds)
    BY <1>1, <2>2 DEF Stops, IsRun, Busy
  <2>3. CASE Replies(cmds)
    <3>1. /\ \A i \in 1 .. Len(cmds) : i = 1 /\ cmds[i].type \in { "resume", "input" }
          /\ UNCHANGED << gen, sid >> /\ ui \in Busy
      BY <2>3 DEF Replies, Busy
    <3> QED
      BY <1>1, <3>1 DEF IsRun, OrderInv, AbortsAreSeen
  <2>4. CASE Remarks(cmds)
    BY <1>1, <2>4 DEF Remarks, IsRun, OrderInv, AbortsAreSeen
  <2> QED
    BY <1>2, <2>1, <2>2, <2>3, <2>4
<1>4. /\ \A i \in 1 .. Len(toWorker) : toWorker[i].sid <= gen /\ toWorker[i].sid \in Nat
      /\ \A i \in 1 .. Len(pending) : pending[i].sid <= gen /\ pending[i].sid \in Nat
  BY TypesKnown DEF RunInv, Issued
<1>5. RunsAscend(toWorker)'
  <2>1. \A i \in 1 .. Len(toWorker') : IsRun(toWorker'[i]) =>
          \/ i \in 1 .. Len(toWorker) /\ toWorker'[i] = toWorker[i]
          \/ /\ i > Len(toWorker) /\ i - Len(toWorker) = Len(cmds)
             /\ toWorker'[i].sid > gen /\ toWorker'[i].sid \in Session
    BY <1>2, <1>3, PostPlaces
  <2>2. Len(toWorker) \in Nat /\ Len(cmds) \in Nat
    BY TypesKnown, LenProperties
  <2> SUFFICES ASSUME NEW i \in 1 .. Len(toWorker'), IsRun(toWorker'[i])
               PROVE  /\ \A t \in Session : t >= toWorker'[i].sid => ses[t] = Fresh
                      /\ \A j \in 1 .. Len(toWorker') :
                           i < j /\ IsRun(toWorker'[j]) => toWorker'[i].sid < toWorker'[j].sid
    BY <1>1 DEF RunsAscend, IsRun
  <2>3. CASE i \in 1 .. Len(toWorker) /\ toWorker'[i] = toWorker[i]
    BY <1>1, <1>4, <2>1, <2>2, <2>3 DEF OrderInv, RunsAscend
  <2>4. CASE /\ i > Len(toWorker) /\ i - Len(toWorker) = Len(cmds)
             /\ toWorker'[i].sid > gen /\ toWorker'[i].sid \in Session
    BY <1>1, <2>1, <2>2, <2>4
  <2> QED
    BY <2>1, <2>3, <2>4
<1>6. RunsAscend(pending)'
  <2>1. \A i \in 1 .. Len(pending') : IsRun(pending'[i]) =>
          \/ i \in 1 .. Len(pending) /\ pending'[i] = pending[i]
          \/ /\ i > Len(pending) /\ i - Len(pending) = Len(cmds)
             /\ pending'[i].sid > gen /\ pending'[i].sid \in Session
    BY <1>2, <1>3, PostPlaces
  <2>2. Len(pending) \in Nat /\ Len(cmds) \in Nat
    BY TypesKnown, LenProperties
  <2> SUFFICES ASSUME NEW i \in 1 .. Len(pending'), IsRun(pending'[i])
               PROVE  /\ \A t \in Session : t >= pending'[i].sid => ses[t] = Fresh
                      /\ \A j \in 1 .. Len(pending') :
                           i < j /\ IsRun(pending'[j]) => pending'[i].sid < pending'[j].sid
    BY <1>1 DEF RunsAscend, IsRun
  <2>3. CASE i \in 1 .. Len(pending) /\ pending'[i] = pending[i]
    BY <1>1, <1>4, <2>1, <2>2, <2>3 DEF OrderInv, RunsAscend
  <2>4. CASE /\ i > Len(pending) /\ i - Len(pending) = Len(cmds)
             /\ pending'[i].sid > gen /\ pending'[i].sid \in Session
    BY <1>1, <2>1, <2>2, <2>4
  <2> QED
    BY <2>1, <2>3, <2>4
<1>7. WaitForTail' /\ NewestIsCurrent' /\ \A s \in Session : ses'[s].pc = "none" => ses'[s] = Fresh
  BY <1>1 DEF OrderInv, WaitForTail, NewestIsCurrent, NoneBegins
<1>8. AbortsAreSeen'
  <2>1. \A i \in 1 .. Len(toWorker') : toWorker'[i].type = "stop" => toWorker'[i].sid < gen'
    <3> SUFFICES ASSUME NEW i \in 1 .. Len(toWorker'), toWorker'[i].type = "stop"
                 PROVE  toWorker'[i].sid < gen'
      OBVIOUS
    <3>1. CASE i \in 1 .. Len(toWorker) /\ toWorker'[i] = toWorker[i]
      <4>1. toWorker[i].sid < gen /\ toWorker[i].sid \in Nat
        BY <1>4, <3>1 DEF OrderInv, AbortsAreSeen
      <4> QED
        BY <1>1, <1>3, <3>1, <4>1
    <3>2. CASE i - Len(toWorker) \in 1 .. Len(cmds) /\ toWorker'[i] = cmds[i - Len(toWorker)]
      BY <1>3, <3>2
    <3> QED
      BY <1>2, <3>1, <3>2, PostPlaces
  <2>2. \A i \in 1 .. Len(pending') : pending'[i].type = "stop" => pending'[i].sid < gen'
    <3> SUFFICES ASSUME NEW i \in 1 .. Len(pending'), pending'[i].type = "stop"
                 PROVE  pending'[i].sid < gen'
      OBVIOUS
    <3>1. CASE i \in 1 .. Len(pending) /\ pending'[i] = pending[i]
      <4>1. pending[i].sid < gen /\ pending[i].sid \in Nat
        BY <1>4, <3>1 DEF OrderInv, AbortsAreSeen
      <4> QED
        BY <1>1, <1>3, <3>1, <4>1
    <3>2. CASE i - Len(pending) \in 1 .. Len(cmds) /\ pending'[i] = cmds[i - Len(pending)]
      BY <1>3, <3>2
    <3> QED
      BY <1>2, <3>1, <3>2, PostPlaces
  <2> QED
    BY <1>1, <1>3, <2>1, <2>2 DEF OrderInv, AbortsAreSeen
<1> QED
  BY <1>5, <1>6, <1>7, <1>8 DEF OrderInv

-----------------------------------------------------------------------------
(* What a delivery and the end of a worker do                              *)

\* A delivery takes the oldest event; the commands that waited for the worker
\* go, in their order, into the empty queue to it.
LEMMA DeliveryPlaces ==
  ASSUME TypeInv, RunInv, DeliverEvent
  PROVE  LET e == Head(fromWorker) IN
         /\ e \in Event /\ e = fromWorker[1] /\ 1 \in 1 .. Len(fromWorker)
         /\ ~IsCrash(e) /\ OnWorkerEvent(e)
         /\ Len(fromWorker) \in Nat /\ Len(fromWorker') = Len(fromWorker) - 1
         /\ \A i \in 1 .. Len(fromWorker') :
              /\ fromWorker'[i] = fromWorker[i + 1]
              /\ i + 1 \in 1 .. Len(fromWorker) /\ i + 1 # 1
         /\ \A i \in 1 .. Len(fromWorker) : i # 1 =>
              i - 1 \in 1 .. Len(fromWorker') /\ fromWorker'[i - 1] = fromWorker[i]
         /\ UNCHANGED << gen, sid, port >>
         /\ \/ UNCHANGED << toWorker, pending >>
            \/ toWorker' = pending /\ pending' = << >> /\ toWorker = << >>
         /\ Len(<< >>) = 0
<1> DEFINE e == Head(fromWorker)
<1>1. /\ fromWorker \in Seq(Event) /\ fromWorker # << >> /\ fromWorker' = Tail(fromWorker)
      /\ ~IsCrash(e) /\ OnWorkerEvent(e)
  BY TypesKnown DEF DeliverEvent
<1>2. e \in Event
  BY <1>1, HeadTailProperties
<1>3. UNCHANGED << gen, sid, port >>
  BY DeliveryEffect DEF DeliverEvent, FlushPending, portVars
<1>4. \/ UNCHANGED << toWorker, pending >>
      \/ toWorker' = pending /\ pending' = << >> /\ toWorker = << >>
  <2>1. CASE e.type = "ready"
    <3>1. toWorker' = toWorker \o pending /\ pending' = << >>
      BY <2>1 DEF DeliverEvent, FlushPending
    <3>2. toWorker = << >> \/ pending = << >>
      BY DEF RunInv, OneQueue
    <3> QED
      BY <3>1, <3>2, TypesKnown, ConcatEmptySeq
  <2>2. CASE e.type # "ready"
    BY <2>2 DEF DeliverEvent, portVars
  <2> QED
    BY <2>1, <2>2
<1>5. /\ 1 \in 1 .. Len(fromWorker) /\ e = fromWorker[1] /\ Len(fromWorker) \in Nat
      /\ Len(fromWorker') = Len(fromWorker) - 1
      /\ \A i \in 1 .. Len(fromWorker') :
           /\ fromWorker'[i] = fromWorker[i + 1]
           /\ i + 1 \in 1 .. Len(fromWorker) /\ i + 1 # 1
      /\ \A i \in 1 .. Len(fromWorker) : i # 1 =>
           i - 1 \in 1 .. Len(fromWorker') /\ fromWorker'[i - 1] = fromWorker[i]
  BY <1>1, TailPlaces
<1> QED
  BY <1>1, <1>2, <1>3, <1>4, <1>5

\* The steps that kill a worker: a crash is delivered, the worker is made anew
\* or disposed of.
Kills == (DeliverCrash \/ RecreateWorker \/ Dispose) /\ Terminated

\* A worker that is killed leaves nothing in flight and no session alive; the
\* UI stays as it is, unless its run is cancelled.
LEMMA KillEffect ==
  ASSUME TypeInv, RunInv, Kills
  PROVE  /\ toWorker' = << >> /\ pending' = << >> /\ Len(<< >>) = 0
         /\ \A i \in 1 .. Len(fromWorker') :
              fromWorker'[i].sid = None /\ ~IsCrash(fromWorker'[i])
         /\ cur' = None /\ tail' = None
         /\ \A s \in Session :
              /\ ses'[s] = IF ses[s].pc = "none" THEN Fresh ELSE Over
              /\ ses'[s].pc \in { "none", "ended" } /\ ~ses'[s].abort
              /\ ses'[s].pc = "none" => ses'[s] = Fresh
         /\ lost \subseteq lost'
         /\ \A s \in Session : s \in lost' => s \in lost
              \/ ses[s].pc \notin { "none", "ended" }
              \/ \E i \in 1 .. Len(fromWorker) : fromWorker[i].sid = s
         /\ \A s \in Session \ lost' :
              /\ ses[s].pc \in { "none", "ended" }
              /\ \A i \in 1 .. Len(fromWorker) : fromWorker[i].sid # s
         /\ UNCHANGED << sid, said, delivered >>
         /\ \/ UNCHANGED << ui, gen, port, loc >>
            \/ UNCHANGED << ui, gen, loc >> /\ Dispose /\ ui \notin Busy
            \/ ui \in Busy /\ ui' = "cancelled" /\ gen' = gen + 1
<1>1. /\ toWorker' = << >> /\ pending' = << >> /\ UNCHANGED << sid, delivered >>
      /\ fromWorker' = << >> \/ fromWorker' = << Evt("ready", None) >>
      /\ \/ UNCHANGED << ui, gen, port, loc >>
         \/ UNCHANGED << ui, gen, loc >> /\ Dispose /\ ui \notin Busy
         \/ ui \in Busy /\ ui' = "cancelled" /\ gen' = gen + 1
  <2>1. CASE DeliverCrash \/ RecreateWorker
    BY <2>1 DEF DeliverCrash, RecreateWorker, Respawn, runVars
  <2>2. CASE Dispose
    BY <2>2 DEF Dispose, Finish
  <2> QED
    BY <2>1, <2>2 DEF Kills
<1>2. /\ cur' = None /\ tail' = None /\ UNCHANGED said
      /\ lost' = lost \cup { s \in Session :
                      \/ ses[s].pc \notin { "none", "ended" }
                      \/ \E i \in DOMAIN fromWorker : fromWorker[i].sid = s }
      /\ ses' = [ s \in Session |-> IF ses[s].pc = "none" THEN Fresh ELSE Over ]
  BY DEF Kills, Terminated
<1>3. DOMAIN fromWorker = 1 .. Len(fromWorker)
  BY TypesKnown, LenProperties
<1>4. \A i \in 1 .. Len(fromWorker') :
        fromWorker'[i].sid = None /\ ~IsCrash(fromWorker'[i])
  BY <1>1 DEF Evt, IsCrash
<1>5. \A s \in Session :
        /\ ses'[s] = IF ses[s].pc = "none" THEN Fresh ELSE Over
        /\ ses'[s].pc \in { "none", "ended" } /\ ~ses'[s].abort
        /\ ses'[s].pc = "none" => ses'[s] = Fresh
  BY <1>2 DEF Fresh, Over
<1>6. /\ lost \subseteq lost'
      /\ \A s \in Session : s \in lost' => s \in lost
           \/ ses[s].pc \notin { "none", "ended" }
           \/ \E i \in 1 .. Len(fromWorker) : fromWorker[i].sid = s
      /\ \A s \in Session \ lost' :
           /\ ses[s].pc \in { "none", "ended" }
           /\ \A i \in 1 .. Len(fromWorker) : fromWorker[i].sid # s
  BY <1>2, <1>3
<1>7. Len(<< >>) = 0
  OBVIOUS
<1> QED
  BY <1>1, <1>2, <1>4, <1>5, <1>6, <1>7

\* A delivery moves no session.
LEMMA DeliverKeepsOrder ==
  ASSUME TypeInv, RunInv, OrderInv, DeliverEvent, UNCHANGED workerVars
  PROVE  OrderInv'
<1>1. /\ UNCHANGED << ses, cur, tail, gen, sid >>
      /\ ui' \in Busy => ui \in Busy
      /\ \/ UNCHANGED << toWorker, pending >>
         \/ toWorker' = pending /\ pending' = << >> /\ toWorker = << >>
      /\ Len(<< >>) = 0
  BY DeliveryPlaces, DeliveryEffect DEF workerVars, Terminal, Busy
<1>2. RunsAscend(toWorker)' /\ RunsAscend(pending)'
  BY <1>1 DEF OrderInv, RunsAscend
<1>3. AbortsAreSeen'
  BY <1>1 DEF OrderInv, AbortsAreSeen
<1> QED
  BY <1>1, <1>2, <1>3 DEF OrderInv, WaitForTail, NewestIsCurrent, NoneBegins

\* A worker that is killed leaves no order to keep.
LEMMA KillKeepsOrder ==
  ASSUME TypeInv, RunInv, OrderInv, Kills
  PROVE  OrderInv'
<1>1. /\ toWorker' = << >> /\ pending' = << >> /\ Len(<< >>) = 0
      /\ cur' = None /\ tail' = None
      /\ \A s \in Session :
           /\ ses'[s].pc \in { "none", "ended" } /\ ~ses'[s].abort
           /\ ses'[s].pc = "none" => ses'[s] = Fresh
  BY KillEffect
<1>2. RunsAscend(toWorker)' /\ RunsAscend(pending)'
  BY <1>1 DEF RunsAscend
<1>3. NewestIsCurrent' /\ WaitForTail'
  BY <1>1 DEF NewestIsCurrent, WaitForTail, Live, Executing
<1>4. AbortsAreSeen'
  <2>1. ui' \in Busy => sid' \in Session
    BY KillEffect, TypesKnown DEF Busy
  <2> QED
    BY <1>1, <2>1 DEF AbortsAreSeen
<1> QED
  BY <1>1, <1>2, <1>3, <1>4 DEF OrderInv

\* OrderInv is inductive, relative to the types and RunInv.
LEMMA NextKeepsOrder == TypeInv /\ RunInv /\ OrderInv /\ [Next]_vars => OrderInv'
<1> SUFFICES ASSUME TypeInv, RunInv, OrderInv, [Next]_vars PROVE OrderInv'
  OBVIOUS
<1>1. CASE Student
  BY <1>1, StudentKeepsOrder
<1>2. CASE Deliver \/ Host
  BY <1>2, DeliverKeepsOrder, KillKeepsOrder DEF Deliver, Host, Kills
<1>3. CASE Worker
  <2>1. UNCHANGED << ui, gen, sid, pending, mainOnly >>
    BY <1>3 DEF Worker, mainOnly, runVars
  <2>2. CASE HandleWorkerCommand
    BY <2>1, <2>2, CommandKeepsOrder
  <2>3. ASSUME NEW s \in Session, SessionStep(s) \/ RunRejects(s) PROVE OrderInv'
    BY <2>1, <2>3, SessionOutcome, MoveKeepsOrder
  <2>4. CASE Crash
    BY <2>1, <2>4 DEF Crash, OrderInv, RunsAscend, WaitForTail, NewestIsCurrent, NoneBegins,
                      AbortsAreSeen
  <2> QED
    BY <1>3, <2>2, <2>3, <2>4 DEF Worker
<1>4. CASE UNCHANGED vars
  BY <1>4 DEF vars, mainVars, workerVars, runVars, portVars, OrderInv, RunsAscend, WaitForTail,
              NewestIsCurrent, NoneBegins, AbortsAreSeen
<1> QED
  BY <1>1, <1>2, <1>3, <1>4 DEF Next
=============================================================================
