------------------------------ MODULE LiveIde ------------------------------
(***************************************************************************)
(* The two editors of the IDE around BidirectionalSync: the user types in  *)
(* a Monaco editor, the sync controller's buffers reach the editors with   *)
(* React's next render, and the buffers are saved to localStorage, where   *)
(* the next page load finds them (CodeSurface, IdeShell, the hook          *)
(* usePseudocodeTranslation and workspacePersistence).                     *)
(***************************************************************************)
EXTENDS BidirectionalSync, Naturals

CONSTANTS
  Large,      \* the pseudocode texts that do not fit in the storage
  Empty,      \* the buffers when both are empty
  Nothing,    \* no snapshot is stored; an editor that is not mounted
  MaxEdits,   \* bound: edits by the user
  MaxLoads    \* bound: page loads after the first, and refused unloads

ASSUME IdeAssumption ==
  /\ MaxEdits \in Nat /\ MaxLoads \in Nat
  /\ Nothing \notin Buffers /\ \A o \in Pane : Nothing \notin Text[o]

VARIABLES
  shown,      \* the buffers of the last render (React state)
  editor,     \* what each Monaco model holds
  echo,       \* panes whose editor still reports the text just applied to it
  autosave,   \* autosaveTimer
  storage,    \* the snapshot in localStorage
  persisted,  \* lastPersisted
  edited,     \* history: the pane the user edited last, or "none"
  edits,      \* counts the edits
  loads       \* counts the loads

pageVars  == << shown, editor, echo, autosave, persisted >>
ideVars   == << pageVars, storage, edited, edits, loads >>
vars      == << syncVars, ideVars >>

TypeOK ==
  /\ SyncTypeOK
  /\ shown \in Buffers /\ persisted \in Buffers
  /\ \A o \in Pane : editor[o] \in Text[o] \cup { Nothing }
  /\ echo \subseteq Pane
  /\ autosave \in BOOLEAN
  /\ storage \in Buffers \cup { Nothing }
  /\ edited \in Pane \cup { "none" }
  /\ edits \in 0 .. MaxEdits /\ loads \in 0 .. MaxLoads

\* The IDE is first opened in a browser that has nothing stored.
Init ==
  /\ buffer = Starter /\ lastGood = Starter
  /\ status = "pending" /\ errorSide = "none" /\ pending = "pseudocode"
  /\ timer = [ NoTimer EXCEPT !["pseudocode"] = TRUE ]
  /\ shown = Starter /\ persisted = Starter
  /\ editor = [ o \in Pane |-> Nothing ]
  /\ echo = {}
  /\ autosave = TRUE
  /\ storage = Nothing
  /\ edited = "none" /\ edits = 0 /\ loads = 0

-----------------------------------------------------------------------------
(* The editors *)

\* Echoes come within the task that caused them, before anything else runs.
Quiet == echo = {}

CountEdit == edits < MaxEdits /\ edits' = edits + 1

\* applyPeerBufferToEditor, in the effect on a pane's text.
Apply(models) ==
  editor' = [ o \in Pane |-> IF models[o] = Nothing \/ shown'[o] = shown[o]
                             THEN models[o] ELSE shown'[o] ]

\* React renders the controller's state over the editors' models.  The effects
\* update the editors and, if a text changed, restart the autosave timer.
Rendered(models) ==
  /\ shown' = buffer'
  /\ Apply(models)
  /\ echo' = { o \in Pane : editor'[o] # models[o] }
  /\ autosave' = (autosave \/ shown' # shown)

\* The update that an edit makes is rendered before the next task, because it
\* is made inside a user's event (React's discrete events).
TakeAndRender(o, text, models) ==
  /\ edit(o, text)
  /\ edited' = o
  /\ Rendered(models)

\* A keystroke, paste or undo in a mounted editor: onChange.  The text is not
\* by chance the one of a translation that still waits to be rendered; that
\* edit would be ignored, and a second one before the render that takes it back
\* would leave the editor out of step.
Type(o, text) ==
  /\ Quiet /\ CountEdit
  /\ editor[o] # Nothing
  /\ text \notin { editor[o], buffer[o] }
  /\ TakeAndRender(o, text, [ editor EXCEPT ![o] = text ])
  /\ UNCHANGED << persisted, storage, loads >>

\* New file and the examples replace the pseudocode (handleNewFile).
NewFile(text) ==
  /\ Quiet /\ CountEdit
  /\ text # buffer["pseudocode"]
  /\ TakeAndRender("pseudocode", text, editor)
  /\ UNCHANGED << persisted, storage, loads >>

\* A translation is made in a timer's task, and rendered in a later one.
Translation(o) ==
  /\ Quiet
  /\ TimerFires(o)
  /\ UNCHANGED ideVars

Render ==
  /\ Quiet
  /\ shown # buffer
  /\ UNCHANGED << syncVars, persisted, storage, edited, edits, loads >>
  /\ Rendered(editor)

\* An editor reports an applied text through onChange.  suppressChangeRef
\* drops the report, unless the editor makes it after the flag is reset.
Echo(o) ==
  /\ o \in echo
  /\ echo' = echo \ { o }
  /\ edit(o, editor[o]) \/ UNCHANGED syncVars
  /\ UNCHANGED << shown, editor, autosave, persisted, storage, edited, edits, loads >>

\* Mutant: the editor starts from the text of the first render.
MountStale(o) ==
  /\ Quiet
  /\ editor[o] = Nothing
  /\ editor' = [ editor EXCEPT ![o] = Starter[o] ]
  /\ UNCHANGED << syncVars, shown, echo, autosave, persisted, storage, edited,
                  edits, loads >>

\* handleMount: Monaco has loaded; its editor catches up with the last render.
Mount(o) ==
  /\ Quiet
  /\ editor[o] = Nothing
  /\ editor' = [ editor EXCEPT ![o] = shown[o] ]
  /\ UNCHANGED << syncVars, shown, echo, autosave, persisted, storage, edited,
                  edits, loads >>

-----------------------------------------------------------------------------
(* The workspace *)

Fits(b) == b["pseudocode"] \notin Large

\* saveWorkspaceSnapshot
Saved == IF Fits(shown) THEN shown ELSE storage

\* What was rendered last is stored, if it fits.
Save ==
  /\ storage' = Saved
  /\ persisted' = IF Fits(shown) THEN shown ELSE persisted

\* The autosave timer fires.
Autosave ==
  /\ Quiet
  /\ autosave
  /\ autosave' = FALSE
  /\ Save
  /\ UNCHANGED << syncVars, shown, editor, echo, edited, edits, loads >>

\* The user saves (handleSaveLocal).  The timer stays as it is.
SaveLocal ==
  /\ Quiet
  /\ Save
  /\ UNCHANGED << syncVars, shown, editor, echo, autosave, edited, edits, loads >>

\* Mutant: what the autosave timer is about to store is left to it.
StoredByTimer == IF shown # persisted /\ ~autosave THEN Saved ELSE storage

\* onBeforeUnload stores what differs from the last snapshot.
StoredOnUnload == IF shown # persisted THEN Saved ELSE storage

CountLoad == loads < MaxLoads /\ loads' = loads + 1

\* A page load: the stored session, if there is one, or the starter program.
Load(snap) ==
  /\ CountLoad
  /\ IF snap \in { Nothing, Empty } THEN Bootstrap ELSE restoreBuffers(snap)
  /\ storage' = snap
  /\ shown' = buffer'
  /\ persisted' = buffer'
  /\ editor' = [ o \in Pane |-> Nothing ]
  /\ echo' = {}
  /\ autosave' = TRUE
  /\ edited' = "none"
  /\ UNCHANGED edits

\* The tab is closed or refreshed, and opened again.
Reload == Quiet /\ Load(StoredOnUnload)

\* The browser or the tab dies without onBeforeUnload.
Crash == Quiet /\ Load(storage)

\* The user is warned of unsaved edits, and stays.  lastPersisted stays as well.
Stay ==
  /\ Quiet /\ CountLoad
  /\ shown # persisted
  /\ storage' = Saved
  /\ UNCHANGED << syncVars, pageVars, edited, edits >>

-----------------------------------------------------------------------------

User ==
  \/ \E o \in Pane : \E text \in Text[o] : Type(o, text)
  \/ \E text \in Text["pseudocode"] : NewFile(text)
  \/ SaveLocal \/ Reload \/ Crash \/ Stay

\* What the page does by itself.
Page ==
  \/ \E o \in Pane : Translation(o) \/ Echo(o) \/ Mount(o)
  \/ Render
  \/ Autosave

Next == User \/ Page

\* Timers fire, React renders and Monaco loads, sooner or later.  The user is
\* free to do nothing.
Fairness ==
  /\ \A o \in Pane : /\ WF_vars(Translation(o))
                     /\ WF_vars(Echo(o))
                     /\ WF_vars(Mount(o))
  /\ WF_vars(Render)
  /\ WF_vars(Autosave)

Spec == Init /\ [][Next]_vars /\ Fairness

-----------------------------------------------------------------------------
(* Properties *)

\* The status chip tells the truth: "Translating..." while exactly one direction
\* is scheduled, from the pane that was edited; "Synced" over a pair of texts that
\* is the last good one; "Translation failed" over a text that is refused, next
\* to the last good text of the other pane (scheduleForward, scheduleReverse).
ChipTellsTruth ==
  /\ status = "pending" => pending # "none"
  /\ \A o \in Pane : timer[o] <=> (status = "pending" /\ pending = o)
  /\ status = "ok" => buffer = lastGood
  /\ status = "error" =>
       /\ Translate[errorSide][buffer[errorSide]] = Refused
       /\ buffer[Peer(errorSide)] = lastGood[Peer(errorSide)]

\* What the user typed last is theirs: no translation, echo or render rewrites
\* it; only their next edit, or a new page, does (the loop guard of
\* bidirectionalSync.ts and suppressChangeRef).
EditIsKept ==
  [][ \A o \in Pane : (edited = o /\ edited' = o /\ edits' = edits)
                        => buffer'[o] = buffer[o] ]_vars

\* A refresh brings back the buffers the page showed, unless they were too large
\* to store or the starter program took the place of two empty ones.  (There is
\* a gap: a user who was warned, stayed, went back to the text that was saved
\* last and refreshes before the autosave timer fires finds the text they had
\* left.  The property is about every other case.)
RefreshKeepsWork ==
  [][ (Reload /\ Fits(shown) /\ shown # Empty /\ (shown # persisted \/ ~autosave))
        => buffer' = shown ]_vars

\* Once the user pauses, everything comes to rest: both editors show the
\* controller's buffers, nothing is left to translate, and the rendered texts
\* are stored if they fit: translating never feeds itself.
Settled ==
  /\ \A o \in Pane : editor[o] = buffer[o]
  /\ shown = buffer
  /\ status \in { "ok", "error" }
  /\ Fits(shown) => storage = shown

Settles == <>[]Settled

\* "On failure, the last successful peer text stays visible" (web README): the
\* Python next to a refused pseudocode came from a translation, was accepted by
\* one, or is the starter's.
PeerWasGood ==
  (status = "error" /\ errorSide = "pseudocode") =>
    \/ buffer["python"] = Starter["python"]
    \/ Translate["python"][buffer["python"]] # Refused
    \/ \E p \in Text["pseudocode"] : Translate["pseudocode"][p] = buffer["python"]

-----------------------------------------------------------------------------
(* The inductive invariant behind the theorems *)

\* An echo can only repeat what the controller has.
EchoesAgree == \A o \in echo : editor[o] = buffer[o]

\* Nothing is scheduled that could rewrite the pane the user edited last.
EditIsSafe == \A o \in Pane : edited = o => ~timer[Peer(o)]

\* Once the autosave timer has fired, storage holds what is shown.
RestIsStored == (~autosave /\ Fits(shown)) => storage = shown

IdeInv == ChipTellsTruth /\ EchoesAgree /\ EditIsSafe /\ RestIsStored

-----------------------------------------------------------------------------
(* The safety part of Settles: what the page has left to do, and that it   *)
(* only ever gets less until the user acts again                           *)

\* A mounted editor holds the text of the last render.
EditorsFollow ==
  /\ DOMAIN editor = Pane
  /\ \A o \in Pane : editor[o] \in { Nothing, shown[o] }

\* A chip that is not "pending" is the outcome of a translation or a restore.
ChipIsDecided == status # "idle"

RestInv == EditorsFollow /\ ChipIsDecided

\* No step of Page has its guard.
Resting ==
  /\ \A o \in Pane : ~timer[o] /\ o \notin echo /\ editor[o] # Nothing
  /\ shown = buffer
  /\ ~autosave

\* What is left to do, weighed: a translation leads to a render, and a render
\* to two echoes and a save.
If(condition, weight) == IF condition THEN weight ELSE 0
PaneWork(o) ==
  If(timer[o], 6) + If(o \in echo, 1) + If(editor[o] = Nothing, 1)
Work ==
  PaneWork("pseudocode") + PaneWork("python")
    + If(shown # buffer, 4) + If(autosave, 1)

\* Whatever the translators compute, every translation, render, echo, mount and
\* save leaves the page less to do: a text that was translated is not translated
\* back, and an applied text is not taken for an edit (the loop guard of
\* bidirectionalSync.ts, scheduleForward and scheduleReverse).
TranslatingEnds == [][ Page => Work' < Work ]_vars

\* A page with nothing left to do has settled: what is in the editors, what the
\* controller translated and what a refresh would bring back agree.
RestIsSettled == (Work = 0 <=> Resting) /\ (Resting => Settled)
=============================================================================
