--------------------------- MODULE LiveIde_proofs ---------------------------
(***************************************************************************)
(* Theorems about LiveIde: the types, the status chip, and that the text   *)
(* the user typed last is never rewritten, whatever the translators do,    *)
(* and that the page comes to rest in a state that deserves the name.      *)
(***************************************************************************)
EXTENDS LiveIde, TLAPS

Inv == TypeOK /\ IdeInv

\* A pane is not its own peer, and the peer's peer is the pane.
LEMMA Peers ==
  /\ \A o \in Pane : Peer(o) \in Pane /\ Peer(o) # o /\ Peer(Peer(o)) = o
  /\ \A o, q \in Pane : q # o => q = Peer(o)
  /\ "none" \notin Pane
BY DEF Pane, Peer

\* A pair of texts is given by its two panes.
LEMMA BuffersAre ==
  /\ \A b \in Buffers, o \in Pane : b[o] \in Text[o]
  /\ \A b \in Buffers, o \in Pane : \A t \in Text[o] : [ b EXCEPT ![o] = t ] \in Buffers
  /\ Buffers \subseteq [ Pane -> UNION { Text[o] : o \in Pane } ]
BY DEF Buffers

-----------------------------------------------------------------------------
(* The controller *)

SyncInv == SyncTypeOK /\ ChipTellsTruth

\* Scheduling arms one timer, for the pane that it names.
LEMMA ScheduleEffect ==
  ASSUME NEW o \in Pane, Schedule(o)
  PROVE  /\ timer' \in [ Pane -> BOOLEAN ]
         /\ \A q \in Pane : timer'[q] <=> q = o
         /\ pending' = o /\ status' = "pending"
BY DEF Schedule, NoTimer

\* An edit keeps the chip truthful and disarms the other direction.
LEMMA EditKeeps ==
  ASSUME SyncInv, NEW o \in Pane, NEW text \in Text[o], edit(o, text)
  PROVE  /\ SyncInv'
         /\ buffer'[o] = text
         /\ buffer'[Peer(o)] = buffer[Peer(o)]
         /\ text # buffer[o] => ~timer'[Peer(o)]
         /\ text = buffer[o] => UNCHANGED syncVars
<1>1. CASE text = buffer[o]
  BY <1>1, Peers DEF edit, syncVars, SyncInv, SyncTypeOK, ChipTellsTruth
<1>2. CASE text # buffer[o]
  <2>1. buffer' = [ buffer EXCEPT ![o] = text ] /\ UNCHANGED << lastGood, errorSide >>
    BY <1>2 DEF edit
  <2>2. /\ timer' \in [ Pane -> BOOLEAN ]
        /\ \A q \in Pane : timer'[q] <=> q = o
        /\ pending' = o /\ status' = "pending"
    BY <1>2, ScheduleEffect DEF edit
  <2>3. buffer' \in Buffers
    BY <2>1, BuffersAre DEF SyncInv, SyncTypeOK
  <2>4. SyncTypeOK'
    BY <2>1, <2>2, <2>3 DEF SyncInv, SyncTypeOK
  <2>5. ChipTellsTruth'
    BY <2>2, Peers DEF ChipTellsTruth
  <2>6. buffer'[o] = text /\ buffer'[Peer(o)] = buffer[Peer(o)]
    BY <2>1, BuffersAre, Peers DEF SyncInv, SyncTypeOK
  <2> QED
    BY <1>2, <2>2, <2>4, <2>5, <2>6, Peers DEF SyncInv
<1> QED
  BY <1>1, <1>2

\* A translation keeps the chip truthful and leaves its own source alone.
LEMMA TimerKeeps ==
  ASSUME SyncInv, NEW o \in Pane, TimerFires(o)
  PROVE  /\ SyncInv'
         /\ buffer'[o] = buffer[o]
         /\ \A q \in Pane : ~timer'[q]
<1> DEFINE result == Translate[o][buffer[o]]
<1>1. /\ timer[o] /\ timer' = [ timer EXCEPT ![o] = FALSE ] /\ pending' = "none"
      /\ buffer \in Buffers /\ lastGood \in Buffers /\ timer \in [ Pane -> BOOLEAN ]
  BY DEF TimerFires, SyncInv, SyncTypeOK
<1>2. \A q \in Pane : timer[q] <=> q = o
  BY <1>1, Peers DEF SyncInv, ChipTellsTruth
<1>3. timer' \in [ Pane -> BOOLEAN ] /\ \A q \in Pane : ~timer'[q]
  BY <1>1, <1>2
<1>4. result \in Text[Peer(o)] \cup { Refused }
  BY <1>1, SyncAssumption, BuffersAre
<1>5. CASE result # Refused
  <2>1. /\ buffer' = [ buffer EXCEPT ![Peer(o)] = result ] /\ lastGood' = buffer'
        /\ status' = "ok" /\ errorSide' = "none"
    BY <1>5 DEF TimerFires
  <2>2. buffer' \in Buffers
    BY <1>1, <1>4, <1>5, <2>1, BuffersAre, Peers
  <2>3. buffer'[o] = buffer[o]
    BY <1>1, <2>1, BuffersAre, Peers
  <2>4. SyncTypeOK'
    BY <1>1, <1>3, <2>1, <2>2 DEF SyncTypeOK
  <2>5. ChipTellsTruth'
    BY <1>3, <2>1 DEF ChipTellsTruth
  <2> QED
    BY <1>3, <2>3, <2>4, <2>5 DEF SyncInv
<1>6. CASE result = Refused
  <2>1. /\ buffer' = [ buffer EXCEPT ![Peer(o)] = lastGood[Peer(o)] ]
        /\ lastGood' = lastGood /\ status' = "error" /\ errorSide' = o
    BY <1>6 DEF TimerFires
  <2>2. buffer' \in Buffers
    BY <1>1, <2>1, BuffersAre, Peers
  <2>3. buffer'[o] = buffer[o] /\ buffer'[Peer(o)] = lastGood[Peer(o)]
    BY <1>1, <2>1, BuffersAre, Peers
  <2>4. SyncTypeOK'
    BY <1>1, <1>3, <2>1, <2>2 DEF SyncInv, SyncTypeOK
  <2>5. ChipTellsTruth'
    BY <1>3, <1>6, <2>1, <2>3 DEF ChipTellsTruth
  <2> QED
    BY <1>3, <2>3, <2>4, <2>5 DEF SyncInv
<1> QED
  BY <1>5, <1>6

\* A controller that is bootstrapped or restored is truthful.
LEMMA FreshIsTruthful ==
  ASSUME NEW b \in Buffers, Bootstrap \/ restoreBuffers(b)
  PROVE  SyncInv'
<1>1. CASE Bootstrap
  <2>1. /\ timer' \in [ Pane -> BOOLEAN ]
        /\ \A q \in Pane : timer'[q] <=> q = "pseudocode"
        /\ pending' = "pseudocode" /\ status' = "pending" /\ pending' \in Pane
    BY <1>1, ScheduleEffect DEF Bootstrap, Pane
  <2>2. SyncTypeOK'
    BY <1>1, <2>1, SyncAssumption DEF Bootstrap, SyncTypeOK
  <2>3. ChipTellsTruth'
    BY <2>1, Peers DEF ChipTellsTruth
  <2> QED
    BY <2>2, <2>3 DEF SyncInv
<1>2. CASE restoreBuffers(b)
  BY <1>2 DEF restoreBuffers, NoTimer, SyncInv, SyncTypeOK, ChipTellsTruth
<1> QED
  BY <1>1, <1>2

-----------------------------------------------------------------------------
(* The IDE around it *)

\* Rendering shows the buffers, and echoes only what it applied.
LEMMA RenderKeeps ==
  ASSUME shown \in Buffers, buffer' \in Buffers,
         NEW models, \A q \in Pane : models[q] \in Text[q] \cup { Nothing },
         Rendered(models), autosave \in BOOLEAN
  PROVE  /\ shown' \in Buffers /\ autosave' \in BOOLEAN /\ echo' \subseteq Pane
         /\ \A q \in Pane : editor'[q] \in Text[q] \cup { Nothing }
         /\ EchoesAgree'
<1>1. shown' = buffer' /\ autosave' \in BOOLEAN /\ echo' \subseteq Pane
  BY DEF Rendered
<1>2. \A q \in Pane : editor'[q] = IF models[q] = Nothing \/ shown'[q] = shown[q]
                                   THEN models[q] ELSE shown'[q]
  BY DEF Rendered, Apply
<1>3. \A q \in Pane : shown'[q] \in Text[q]
  BY <1>1, BuffersAre
<1>4. \A q \in Pane : editor'[q] \in Text[q] \cup { Nothing }
  BY <1>2, <1>3
<1>5. \A q \in echo' : editor'[q] = buffer'[q]
  BY <1>1, <1>2 DEF Rendered
<1> QED
  BY <1>1, <1>4, <1>5 DEF EchoesAgree

\* The initial state satisfies the invariant.
LEMMA InitInv == Init => Inv
<1> SUFFICES ASSUME Init PROVE Inv
  OBVIOUS
<1>1. timer \in [ Pane -> BOOLEAN ] /\ \A q \in Pane : timer[q] <=> q = "pseudocode"
  BY DEF Init, NoTimer
<1>2. SyncTypeOK
  BY <1>1, SyncAssumption DEF Init, SyncTypeOK, Pane
<1>3. TypeOK
  BY <1>2, SyncAssumption, IdeAssumption DEF Init, TypeOK
<1>4. ChipTellsTruth
  BY <1>1, Peers DEF Init, ChipTellsTruth
<1>5. EchoesAgree /\ EditIsSafe /\ RestIsStored
  BY Peers DEF Init, EchoesAgree, EditIsSafe, RestIsStored
<1> QED
  BY <1>3, <1>4, <1>5 DEF Inv, IdeInv

\* The invariant, as the parts the steps disturb.
LEMMA Parts ==
  Inv <=> /\ SyncInv /\ EchoesAgree /\ EditIsSafe /\ RestIsStored
          /\ shown \in Buffers /\ persisted \in Buffers
          /\ \A o \in Pane : editor[o] \in Text[o] \cup { Nothing }
          /\ echo \subseteq Pane
          /\ autosave \in BOOLEAN
          /\ storage \in Buffers \cup { Nothing }
          /\ edited \in Pane \cup { "none" }
          /\ edits \in 0 .. MaxEdits /\ loads \in 0 .. MaxLoads
BY DEF Inv, TypeOK, IdeInv, SyncInv

\* A render that shows another text restarts the autosave timer.
LEMMA RestKept ==
  ASSUME RestIsStored, autosave \in BOOLEAN, NEW models, Rendered(models),
         UNCHANGED storage
  PROVE  RestIsStored'
BY DEF RestIsStored, Rendered, Fits

\* An edit by the user, rendered at once.
LEMMA UserEdit ==
  ASSUME Inv, NEW o \in Pane, NEW text \in Text[o], text # buffer[o],
         NEW models, \A q \in Pane : models[q] \in Text[q] \cup { Nothing },
         TakeAndRender(o, text, models), CountEdit,
         UNCHANGED << persisted, storage, loads >>
  PROVE  Inv' /\ edits' # edits
<1>1. SyncInv /\ edit(o, text) /\ edited' = o /\ Rendered(models)
  BY Parts DEF TakeAndRender
<1>2. SyncInv' /\ ~timer'[Peer(o)]
  BY <1>1, EditKeeps
<1>3. buffer' \in Buffers
  BY <1>2 DEF SyncInv, SyncTypeOK
<1>4. /\ shown' \in Buffers /\ autosave' \in BOOLEAN /\ echo' \subseteq Pane
      /\ \A q \in Pane : editor'[q] \in Text[q] \cup { Nothing }
      /\ EchoesAgree'
  BY <1>1, <1>3, RenderKeeps, Parts
<1>5. edits' \in 0 .. MaxEdits /\ edits' # edits
  BY Parts, IdeAssumption DEF CountEdit
<1>6. EditIsSafe'
  BY <1>1, <1>2 DEF EditIsSafe
<1>7. /\ persisted' \in Buffers /\ storage' \in Buffers \cup { Nothing }
      /\ loads' \in 0 .. MaxLoads /\ edited' \in Pane \cup { "none" }
  BY <1>1, Parts
<1>8. RestIsStored'
  BY <1>1, RestKept, Parts
<1>9. Inv' <=> /\ SyncInv' /\ EchoesAgree' /\ EditIsSafe' /\ RestIsStored'
               /\ shown' \in Buffers /\ persisted' \in Buffers
               /\ \A q \in Pane : editor'[q] \in Text[q] \cup { Nothing }
               /\ echo' \subseteq Pane
               /\ autosave' \in BOOLEAN
               /\ storage' \in Buffers \cup { Nothing }
               /\ edited' \in Pane \cup { "none" }
               /\ edits' \in 0 .. MaxEdits /\ loads' \in 0 .. MaxLoads
  BY DEF Inv, TypeOK, IdeInv, SyncInv
<1> QED
  BY <1>2, <1>4, <1>5, <1>6, <1>7, <1>8, <1>9

\* What a step may do to the pane the user edited last.
EditKept ==
  \A o \in Pane : (edited = o /\ edited' = o /\ edits' = edits)
                    => buffer'[o] = buffer[o]

\* A translation leaves what the user typed.
LEMMA TranslationStep ==
  ASSUME Inv, NEW o \in Pane, Translation(o)
  PROVE  Inv' /\ EditKept
<1>1. SyncInv /\ TimerFires(o) /\ UNCHANGED ideVars /\ echo = {}
  BY Parts DEF Translation, Quiet
<1>2. SyncInv' /\ buffer'[o] = buffer[o] /\ \A q \in Pane : ~timer'[q]
  BY <1>1, TimerKeeps
<1>3. \A q \in Pane : edited = q => q = o
  <2>1. timer[o]
    BY <1>1 DEF TimerFires
  <2> QED
    BY <2>1, Peers DEF Inv, IdeInv, EditIsSafe
<1>4. EchoesAgree' /\ EditIsSafe' /\ RestIsStored'
  BY <1>1, <1>2, Parts, Peers DEF ideVars, pageVars, EchoesAgree, EditIsSafe,
                                  RestIsStored, Fits
<1>5. TypeOK'
  BY <1>1, <1>2 DEF ideVars, pageVars, Inv, TypeOK, SyncInv
<1> QED
  BY <1>2, <1>3, <1>4, <1>5 DEF Inv, IdeInv, SyncInv, EditKept

\* An echo repeats what the controller has, and is ignored.
LEMMA EchoStep ==
  ASSUME Inv, NEW o \in Pane, Echo(o)
  PROVE  Inv' /\ EditKept
<1>1. o \in echo /\ echo' = echo \ { o } /\ editor[o] = buffer[o] /\ buffer[o] \in Text[o]
  BY BuffersAre DEF Echo, Inv, TypeOK, SyncTypeOK, IdeInv, EchoesAgree
<1>2. UNCHANGED syncVars
  BY <1>1, EditKeeps, Parts DEF Echo
<1>3. UNCHANGED << shown, editor, autosave, persisted, storage, edited, edits, loads >>
  BY DEF Echo
<1> QED
  BY <1>1, <1>2, <1>3 DEF syncVars, Inv, TypeOK, SyncTypeOK, IdeInv, ChipTellsTruth,
                          EchoesAgree, EditIsSafe, RestIsStored, Fits, EditKept

\* A page load starts over.
LEMMA LoadStep ==
  ASSUME Inv, NEW snap \in Buffers \cup { Nothing }, Load(snap)
  PROVE  Inv' /\ EditKept
<1>1. SyncInv'
  BY FreshIsTruthful, SyncAssumption DEF Load
<1>2. /\ storage' = snap /\ shown' = buffer' /\ persisted' = buffer'
      /\ editor' = [ o \in Pane |-> Nothing ] /\ echo' = {} /\ autosave' = TRUE
      /\ edited' = "none" /\ edits' = edits
  BY DEF Load
<1>3. loads' \in 0 .. MaxLoads
  BY IdeAssumption DEF Load, CountLoad, Inv, TypeOK
<1>4. TypeOK'
  BY <1>1, <1>2, <1>3 DEF Inv, TypeOK, SyncInv, SyncTypeOK
<1>5. EchoesAgree' /\ EditIsSafe' /\ RestIsStored'
  BY <1>2, Peers DEF EchoesAgree, EditIsSafe, RestIsStored
<1>6. EditKept
  BY <1>2, Peers DEF EditKept
<1> QED
  BY <1>1, <1>4, <1>5, <1>6 DEF Inv, IdeInv, SyncInv

\* The steps of the page that leave the controller alone.
LEMMA PageStep ==
  ASSUME Inv, Render \/ Autosave \/ SaveLocal \/ Stay \/ \E o \in Pane : Mount(o)
  PROVE  Inv' /\ EditKept
<1>1. UNCHANGED << syncVars, edited, edits >>
  BY DEF Render, Autosave, SaveLocal, Stay, Mount, Save, pageVars
<1>2. SyncInv' /\ EditIsSafe' /\ EditKept
  BY <1>1 DEF syncVars, Inv, IdeInv, TypeOK, SyncInv, SyncTypeOK, ChipTellsTruth,
              EditIsSafe, EditKept
<1>3. shown \in Buffers /\ Saved \in Buffers \cup { Nothing }
  BY DEF Inv, TypeOK, Saved
<1>4. CASE Render
  <2>1. /\ shown' \in Buffers /\ autosave' \in BOOLEAN /\ echo' \subseteq Pane
        /\ \A q \in Pane : editor'[q] \in Text[q] \cup { Nothing }
        /\ EchoesAgree'
    <3>1. Rendered(editor) /\ buffer' \in Buffers
      BY <1>2, <1>4 DEF Render, SyncInv, SyncTypeOK
    <3> QED
      BY <3>1, RenderKeeps DEF Inv, TypeOK
  <2>2. TypeOK'
    BY <1>2, <1>4, <2>1 DEF Render, Inv, TypeOK, SyncInv
  <2>3. RestIsStored'
    BY <1>4, RestKept, Parts DEF Render
  <2> QED
    BY <1>2, <2>1, <2>2, <2>3 DEF Inv, IdeInv, SyncInv
<1>5. CASE Autosave \/ SaveLocal \/ Stay
  <2>1. UNCHANGED << shown, editor, echo, buffer >> /\ autosave' \in BOOLEAN
    BY <1>1, <1>5 DEF Autosave, SaveLocal, Save, Stay, pageVars, syncVars, Inv, TypeOK
  <2>2. loads' \in 0 .. MaxLoads
    BY <1>5, IdeAssumption DEF Autosave, SaveLocal, Save, Stay, CountLoad, Inv, TypeOK
  <2>3. storage' \in Buffers \cup { Nothing } /\ persisted' \in Buffers
    BY <1>3, <1>5 DEF Autosave, SaveLocal, Save, Stay, pageVars, Inv, TypeOK
  <2>4. TypeOK'
    BY <1>1, <1>2, <2>1, <2>2, <2>3 DEF Inv, TypeOK, SyncInv
  <2>5. EchoesAgree'
    BY <2>1 DEF Inv, IdeInv, EchoesAgree
  <2>6. RestIsStored'
    BY <1>5, <2>1, Parts DEF Autosave, SaveLocal, Save, Saved, Stay, pageVars,
                             RestIsStored, Fits
  <2> QED
    BY <1>2, <2>4, <2>5, <2>6 DEF Inv, IdeInv, SyncInv
<1>6. ASSUME NEW o \in Pane, Mount(o)
      PROVE  Inv'
  <2>1. /\ Quiet /\ UNCHANGED << shown, echo, autosave, persisted, storage, loads >>
        /\ editor' = [ editor EXCEPT ![o] = shown[o] ]
    BY <1>6 DEF Mount
  <2>2. shown[o] \in Text[o]
    BY <1>3, BuffersAre
  <2>3. \A q \in Pane : editor'[q] \in Text[q] \cup { Nothing }
    BY <2>1, <2>2 DEF Inv, TypeOK
  <2>4. TypeOK'
    BY <1>1, <1>2, <2>1, <2>3 DEF Inv, TypeOK, SyncInv
  <2>5. EchoesAgree'
    BY <2>1 DEF Quiet, EchoesAgree
  <2>6. RestIsStored'
    BY <2>1, Parts DEF RestIsStored, Fits
  <2> QED
    BY <1>2, <2>4, <2>5, <2>6 DEF Inv, IdeInv, SyncInv
<1> QED
  BY <1>2, <1>4, <1>5, <1>6

\* IdeInv is inductive, and no step rewrites what the user typed last.
LEMMA Inductive == Inv /\ [Next]_vars => Inv' /\ EditKept
<1> SUFFICES ASSUME Inv, [Next]_vars PROVE Inv' /\ EditKept
  OBVIOUS
<1>1. CASE UNCHANGED vars
  BY <1>1 DEF vars, syncVars, ideVars, pageVars, Inv, TypeOK, SyncTypeOK, IdeInv,
              ChipTellsTruth, EchoesAgree, EditIsSafe, RestIsStored, Fits, EditKept
<1>2. ASSUME NEW o \in Pane, NEW text \in Text[o], Type(o, text)
      PROVE  Inv' /\ EditKept
  <2>1. /\ text # buffer[o] /\ CountEdit
        /\ TakeAndRender(o, text, [ editor EXCEPT ![o] = text ])
        /\ UNCHANGED << persisted, storage, loads >>
    BY <1>2 DEF Type
  <2>2. \A q \in Pane : [ editor EXCEPT ![o] = text ][q] \in Text[q] \cup { Nothing }
    BY DEF Inv, TypeOK
  <2> QED
    BY <2>1, <2>2, UserEdit DEF EditKept
<1>3. ASSUME NEW text \in Text["pseudocode"], NewFile(text)
      PROVE  Inv' /\ EditKept
  <2>1. "pseudocode" \in Pane
    BY DEF Pane
  <2>2. \A q \in Pane : editor[q] \in Text[q] \cup { Nothing }
    BY DEF Inv, TypeOK
  <2> QED
    BY <1>3, <2>1, <2>2, UserEdit DEF NewFile, EditKept
<1>4. CASE Reload \/ Crash
  <2>1. storage \in Buffers \cup { Nothing } /\ StoredOnUnload \in Buffers \cup { Nothing }
    BY DEF Inv, TypeOK, StoredOnUnload, Saved
  <2> QED
    BY <1>4, <2>1, LoadStep DEF Reload, Crash
<1> QED
  BY <1>1, <1>2, <1>3, <1>4, TranslationStep, EchoStep, PageStep DEF Next, User, Page

\* The invariant holds in every state of every run.
LEMMA Invariance == Spec => []Inv
<1>1. Inv /\ [Next]_vars => Inv'
  BY Inductive
<1> QED
  BY <1>1, InitInv, PTL DEF Spec

-----------------------------------------------------------------------------
(* What the page has left to do *)

RestingInv == Inv /\ RestInv

\* A render leaves every mounted editor with the text it shows.
LEMMA RenderFollows ==
  ASSUME shown' \in Buffers, NEW models, Rendered(models),
         \A q \in Pane : models[q] \in { Nothing, shown[q], shown'[q] }
  PROVE  /\ EditorsFollow'
         /\ \A q \in Pane : editor'[q] = Nothing <=> models[q] = Nothing
<1>1. editor' = [ q \in Pane |-> IF models[q] = Nothing \/ shown'[q] = shown[q]
                                 THEN models[q] ELSE shown'[q] ]
  BY DEF Rendered, Apply
<1>2. \A q \in Pane : shown'[q] # Nothing
  BY BuffersAre, IdeAssumption
<1> QED
  BY <1>1, <1>2 DEF EditorsFollow

\* An edit by the user is rendered at once, in the editor it was made in too.
LEMMA EditFollows ==
  ASSUME RestingInv, NEW o \in Pane, NEW text \in Text[o],
         TakeAndRender(o, text, [ editor EXCEPT ![o] = text ])
           \/ TakeAndRender(o, text, editor),
         text # buffer[o]
  PROVE  RestInv'
<1>1. edit(o, text) /\ SyncInv
  BY Parts DEF TakeAndRender, RestingInv
<1>2. buffer' \in Buffers /\ buffer'[o] = text /\ status' = "pending"
  BY <1>1, EditKeeps DEF edit, Schedule, SyncInv, SyncTypeOK
<1>3. /\ EditorsFollow /\ shown' = buffer' /\ shown \in Buffers
  BY Parts DEF RestingInv, RestInv, TakeAndRender, Rendered
<1>4. \A q \in Pane : [ editor EXCEPT ![o] = text ][q] \in { Nothing, shown[q], shown'[q] }
  BY <1>2, <1>3 DEF EditorsFollow
<1>5. \A q \in Pane : editor[q] \in { Nothing, shown[q], shown'[q] }
  BY <1>3 DEF EditorsFollow
<1>6. EditorsFollow'
  <2>1. CASE TakeAndRender(o, text, [ editor EXCEPT ![o] = text ])
    BY <1>2, <1>3, <1>4, <2>1, RenderFollows DEF TakeAndRender
  <2>2. CASE TakeAndRender(o, text, editor)
    BY <1>2, <1>3, <1>5, <2>2, RenderFollows DEF TakeAndRender
  <2> QED
    BY <2>1, <2>2
<1> QED
  BY <1>2, <1>6 DEF RestInv, ChipIsDecided

\* The editors follow the renders, and the chip is never idle again.
LEMMA RestInductive == RestingInv /\ [Next]_vars => RestInv'
<1> SUFFICES ASSUME RestingInv, [Next]_vars PROVE RestInv'
  OBVIOUS
<1> USE DEF RestInv
<1>1. /\ EditorsFollow /\ ChipIsDecided /\ SyncInv
      /\ shown \in Buffers /\ buffer \in Buffers
  BY Parts DEF RestingInv, SyncInv, SyncTypeOK
<1>2. CASE UNCHANGED vars
  BY <1>1, <1>2 DEF vars, syncVars, ideVars, pageVars, EditorsFollow, ChipIsDecided
<1>3. ASSUME NEW o \in Pane, NEW text \in Text[o], Type(o, text)
      PROVE  RestInv'
  BY <1>3, EditFollows DEF Type
<1>4. ASSUME NEW text \in Text["pseudocode"], NewFile(text)
      PROVE  RestInv'
  BY <1>4, EditFollows DEF NewFile, Pane
<1>5. CASE SaveLocal \/ Stay \/ Autosave
  BY <1>1, <1>5 DEF SaveLocal, Stay, Autosave, Save, pageVars, syncVars,
                    EditorsFollow, ChipIsDecided
<1>6. CASE Reload \/ Crash
  <2>1. PICK snap : Load(snap)
    BY <1>6 DEF Reload, Crash
  <2>2. editor' = [ q \in Pane |-> Nothing ]
    BY <2>1 DEF Load
  <2>3. status' \in { "pending", "ok" }
    BY <2>1 DEF Load, Bootstrap, restoreBuffers, Schedule
  <2> QED
    BY <2>2, <2>3 DEF EditorsFollow, ChipIsDecided
<1>7. ASSUME NEW o \in Pane, Translation(o)
      PROVE  RestInv'
  BY <1>1, <1>7 DEF Translation, TimerFires, ideVars, pageVars, EditorsFollow,
                    ChipIsDecided
<1>8. ASSUME NEW o \in Pane, Echo(o)
      PROVE  RestInv'
  <2>1. editor[o] = buffer[o] /\ buffer[o] \in Text[o]
    BY <1>1, <1>8, BuffersAre DEF Echo, RestingInv, Inv, IdeInv, EchoesAgree
  <2> QED
    BY <1>1, <1>8, <2>1 DEF Echo, edit, syncVars, EditorsFollow, ChipIsDecided
<1>9. ASSUME NEW o \in Pane, Mount(o)
      PROVE  RestInv'
  BY <1>1, <1>9 DEF Mount, syncVars, EditorsFollow, ChipIsDecided
<1>10. CASE Render
  <2>1. Rendered(editor) /\ shown' = buffer /\ buffer' = buffer /\ status' = status
    BY <1>10 DEF Render, Rendered, syncVars
  <2>2. EditorsFollow'
    BY <1>1, <2>1, RenderFollows DEF EditorsFollow
  <2> QED
    BY <1>1, <2>1, <2>2 DEF ChipIsDecided
<1> QED
  BY <1>2, <1>3, <1>4, <1>5, <1>6, <1>7, <1>8, <1>9, <1>10 DEF Next, User, Page

\* A page that was just opened has no editor to be out of step.
LEMMA RestInit == Init => RestInv
BY DEF Init, RestInv, EditorsFollow, ChipIsDecided

\* The invariants hold together in every state of every run.
LEMMA RestInvariance == Spec => []RestingInv
<1>1. RestingInv /\ [Next]_vars => RestingInv'
  BY RestInductive, Inductive DEF RestingInv
<1>2. Init => RestingInv
  BY RestInit, InitInv DEF RestingInv
<1> QED
  BY <1>1, <1>2, PTL DEF Spec

\* The weights are numbers, and the work is theirs.
LEMMA WorkIsNatural ==
  /\ \A o \in Pane : PaneWork(o) \in 0 .. 8
  /\ Work \in Nat
BY DEF Pane, PaneWork, Work, If

\* A translation leaves a render at most.
LEMMA TranslationWorks ==
  ASSUME RestingInv, NEW o \in Pane, Translation(o)
  PROVE  Work' < Work
<1>1. /\ SyncInv /\ TimerFires(o) /\ timer[o]
      /\ UNCHANGED << shown, editor, echo, autosave >>
  BY Parts DEF RestingInv, Translation, TimerFires, ideVars, pageVars
<1>2. \A q \in Pane : ~timer'[q]
  BY <1>1, TimerKeeps
<1> QED
  BY <1>1, <1>2 DEF Work, PaneWork, If, Pane

\* A render leaves two echoes and a save at most.
LEMMA RenderWorks ==
  ASSUME RestingInv, Render
  PROVE  Work' < Work
<1>1. /\ echo = {} /\ shown # buffer /\ shown' = buffer' /\ buffer' = buffer
      /\ timer' = timer /\ buffer \in Buffers /\ Rendered(editor) /\ EditorsFollow
  BY Parts DEF RestingInv, RestInv, Render, Quiet, Rendered, syncVars, SyncInv, SyncTypeOK
<1>2. \A q \in Pane : editor'[q] = Nothing <=> editor[q] = Nothing
  BY <1>1, RenderFollows DEF EditorsFollow
<1> QED
  BY <1>1, <1>2 DEF Work, PaneWork, If, Pane

\* An echo, a late editor and a save are done when they are made.
LEMMA SmallWorks ==
  ASSUME RestingInv, Autosave \/ \E o \in Pane : Echo(o) \/ Mount(o)
  PROVE  Work' < Work
<1>1. CASE Autosave
  BY <1>1 DEF Autosave, Save, syncVars, Work, PaneWork, If, Pane
<1>2. ASSUME NEW o \in Pane, Echo(o)
      PROVE  Work' < Work
  <2>1. editor[o] = buffer[o] /\ buffer[o] \in Text[o] /\ SyncInv
    BY <1>2, Parts, BuffersAre DEF Echo, RestingInv, SyncInv, SyncTypeOK, EchoesAgree
  <2>2. UNCHANGED << buffer, timer, shown, editor, autosave >>
    BY <1>2, <2>1 DEF Echo, edit, syncVars
  <2>3. o \in echo /\ echo' = echo \ { o }
    BY <1>2 DEF Echo
  <2> QED
    BY <2>2, <2>3 DEF Work, PaneWork, If, Pane
<1>3. ASSUME NEW o \in Pane, Mount(o)
      PROVE  Work' < Work
  <2>1. /\ UNCHANGED << buffer, timer, shown, echo, autosave >>
        /\ editor[o] = Nothing /\ editor' = [ editor EXCEPT ![o] = shown[o] ]
    BY <1>3 DEF Mount, syncVars
  <2>2. shown[o] # Nothing
    <3>1. shown \in Buffers
      BY Parts DEF RestingInv
    <3> QED
      BY <3>1, BuffersAre, IdeAssumption
  <2>3. DOMAIN editor = Pane
    BY DEF RestingInv, RestInv, EditorsFollow
  <2> QED
    BY <2>1, <2>2, <2>3 DEF Work, PaneWork, If, Pane
<1> QED
  BY <1>1, <1>2, <1>3

-----------------------------------------------------------------------------
(* The theorems *)

\* The buffers, editors and snapshots keep their types.
THEOREM Typing == Spec => []TypeOK
<1>1. Inv => TypeOK
  BY DEF Inv
<1> QED
  BY <1>1, Invariance, PTL

\* The status chip always tells the truth about what is scheduled, translated
\* or refused, whatever the two translators compute.
THEOREM ChipTruth == Spec => []ChipTellsTruth
<1>1. Inv => ChipTellsTruth
  BY DEF Inv, IdeInv
<1> QED
  BY <1>1, Invariance, PTL

\* No translation, render or echo ever rewrites the text the user edited last.
THEOREM EditsAreKept == Spec => EditIsKept
<1>1. Inv /\ [Next]_vars => EditKept
  BY Inductive
<1>2. Inv /\ [Next]_vars =>
        [ \A o \in Pane : (edited = o /\ edited' = o /\ edits' = edits)
                            => buffer'[o] = buffer[o] ]_vars
  BY <1>1 DEF EditKept
<1> QED
  BY <1>2, Invariance, PTL DEF Spec, EditIsKept

\* A refresh restores the buffers of the page that is left, but for two empty
\* ones, texts too large to store, and the gap between a save that a cancelled
\* refresh made and the next autosave (StoredOnUnload, restoreBuffers).
THEOREM RefreshRestores == Spec => RefreshKeepsWork
<1> DEFINE Kept == (Reload /\ Fits(shown) /\ shown # Empty /\ (shown # persisted \/ ~autosave))
                     => buffer' = shown
<1>1. Inv => Kept
  <2> SUFFICES ASSUME Inv, Reload, Fits(shown), shown # Empty,
                      shown # persisted \/ ~autosave
               PROVE  buffer' = shown
    OBVIOUS
  <2>1. RestIsStored /\ shown \in Buffers
    BY Parts
  <2>2. shown # Nothing
    BY <2>1, IdeAssumption
  <2>3. StoredOnUnload = shown
    <3>1. CASE shown # persisted
      BY <3>1 DEF StoredOnUnload, Saved
    <3>2. CASE shown = persisted
      BY <2>1, <3>2 DEF StoredOnUnload, RestIsStored
    <3> QED
      BY <3>1, <3>2
  <2>4. restoreBuffers(shown)
    BY <2>2, <2>3 DEF Reload, Load
  <2> QED
    BY <2>4 DEF restoreBuffers
<1>2. Inv /\ [Next]_vars => [Kept]_vars
  BY <1>1
<1> QED
  BY <1>2, Invariance, PTL DEF Spec, RefreshKeepsWork
\* Whatever the translators compute, the page never feeds itself: each of its
\* own steps leaves it less to do, so that it stops when the user does (the loop
\* guard of bidirectionalSync.ts, suppressChangeRef, the cancelled timers).
THEOREM TranslationsEnd == Spec => TranslatingEnds
<1>1. RestingInv => (Page => Work' < Work)
  BY TranslationWorks, RenderWorks, SmallWorks DEF Page
<1>2. RestingInv /\ [Next]_vars => [ Page => Work' < Work ]_vars
  BY <1>1
<1> QED
  BY <1>2, RestInvariance, PTL DEF Spec, TranslatingEnds

\* When nothing is left to do, the editors hold the controller's texts, the chip
\* shows an outcome, and what is shown is stored if it fits.
THEOREM RestSettles == Spec => []RestIsSettled
<1>1. RestingInv => RestIsSettled
  <2> SUFFICES ASSUME RestingInv PROVE RestIsSettled
    OBVIOUS
  <2>1. Work = 0 <=> Resting
    BY DEF Work, PaneWork, If, Pane, Resting
  <2>2. ASSUME Resting PROVE Settled
    <3>1. \A o \in Pane : editor[o] = buffer[o]
      BY <2>2 DEF Resting, RestingInv, RestInv, EditorsFollow
    <3>2. status \in { "ok", "error" }
      <4>1. status # "idle" /\ status \in { "idle", "pending", "ok", "error" }
        BY DEF RestingInv, RestInv, ChipIsDecided, Inv, TypeOK, SyncTypeOK
      <4>2. status # "pending"
        BY <2>2, Parts DEF Resting, RestingInv, SyncInv, SyncTypeOK, ChipTellsTruth
      <4> QED
        BY <4>1, <4>2
    <3>3. Fits(shown) => storage = shown
      BY <2>2, Parts DEF Resting, RestingInv, RestIsStored
    <3> QED
      BY <2>2, <3>1, <3>2, <3>3 DEF Resting, Settled
  <2> QED
    BY <2>1, <2>2 DEF RestIsSettled
<1> QED
  BY <1>1, RestInvariance, PTL
=============================================================================
