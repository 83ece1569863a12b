---------------------------- MODULE TabletProofs -----------------------------
(***************************************************************************)
(* What the main loop of the tablet keeps for any number of fingers, pages *)
(* and failures: its types, strokes stay on their page, a quiet panel is   *)
(* in colour, and who is awake holds the wake lock.                        *)
(***************************************************************************)
EXTENDS Tablet, FiniteSetTheorems, TLAPS

-----------------------------------------------------------------------------
(* The inductive invariant.                                                *)

(* A lock that is not held is about to be taken again, or taking it has    *)
(* failed twice; the guard only has to take it after a first failure.      *)
LockIsRestored ==
  /\ failures \in Nat
  /\ phase # "suspending" => step = "idle"
  /\ step = "drop" => failures >= 1
  /\ ~wakeLock => step \in {"ask", "wait", "restore", "drop"} \/ failures >= 2

(* Whoever is to refresh the panel in colour is still at it: the stroke    *)
(* that is being drawn or the pinch that goes on, unless it was dropped. A *)
(* pinch that is rendered only later has its fingers on the page.          *)
ColourIsDue ==
  /\ monochrome => IsDrawing \/ forgotten \/ (gesture.active = "pinch" /\ view # Library)
  /\ pendingPenPixels => IsDrawing \/ forgotten
  /\ transformNeedsRender /\ phase = "awake" => forgotten \/ view = Library \/ gesture.active = "pinch"

EditInv   == StrokesStayOnTheirPage /\ ColourIsDue /\ gesture \in Gesture
TabletInv == LockIsRestored /\ EditInv /\ finger \in [Slot -> Place \cup {Up}]

-----------------------------------------------------------------------------
(* The handlers of the notebook.                                           *)

(* What a caller may hand over as the contact of the pen, and as gesture.  *)
Given(g, c) == /\ c = contact \/ (~IsDrawing /\ c.kind \notin {"fineliner", "eraser"})
               /\ g \in Gesture /\ (gesture.active = "pinch" => g.active = "pinch")

LEMMA ContactFields ==
  /\ \A kind : Contact(kind).kind = kind
  /\ NoContact.kind = "none" /\ NoGesture.active = "idle" /\ NoGesture \in Gesture
BY DEF Contact, NoContact, NoGesture, Gesture, Activity, Place

LEMMA FailKeeps ==
  ASSUME EditInv, phase' # "awake", UNCHANGED <<editing, panel>>
  PROVE  EditInv'
BY DEF EditInv, StrokesStayOnTheirPage, ColourIsDue, IsDrawing, editing, panel

LEMMA NothingKeeps ==
  ASSUME EditInv, NEW g, NEW c, Given(g, c), Nothing(g, c)
  PROVE  EditInv'
BY DEF EditInv, StrokesStayOnTheirPage, ColourIsDue, IsDrawing, Given, Nothing, panel

LEMMA ShowKeeps ==
  ASSUME EditInv, NEW c, Given(gesture, c), NEW p, NEW n, ShowDocument(p, n, c)
  PROVE  EditInv'
BY ContactFields DEF EditInv, StrokesStayOnTheirPage, ColourIsDue, IsDrawing, Given, ShowDocument,
   FinishEditing, Finished, SubmitColor, StillPending

LEMMA ShowFailsKeeps ==
  ASSUME EditInv, NEW c, Given(gesture, c), NEW p, NEW n, ShowDocumentFails(p, n, c)
  PROVE  EditInv'
BY ContactFields DEF EditInv, StrokesStayOnTheirPage, ColourIsDue, IsDrawing, Given, ShowDocumentFails,
   FinishEditing, FinishPixels, Finished, StillPending

LEMMA StayKeeps ==
  ASSUME EditInv, NEW c, Given(gesture, c), StayOnPage(c)
  PROVE  EditInv'
BY ContactFields DEF EditInv, StrokesStayOnTheirPage, ColourIsDue, IsDrawing, Given, StayOnPage,
   FinishEditing, FinishPixels, Finished, StillPending

LEMMA FinishKeeps ==
  ASSUME EditInv, NEW c, c.kind \notin {"fineliner", "eraser"}, FinishPenContact(c)
  PROVE  EditInv'
BY DEF EditInv, StrokesStayOnTheirPage, ColourIsDue, IsDrawing, FinishPenContact, FinishPixels, StillPending

LEMMA ToolbarKeeps ==
  ASSUME EditInv, NEW g, NEW c, Given(g, c), ApplyToolbarAction(g, c)
  PROVE  EditInv'
<1>1. CASE ShowDocumentLibrary(c)
  BY <1>1, ContactFields DEF EditInv, StrokesStayOnTheirPage, ColourIsDue, IsDrawing, Given,
     ShowDocumentLibrary, SubmitColor, StillPending
<1>2. CASE InsertBlankPage(c)
  <2>1. Given(gesture, c) BY DEF Given, EditInv
  <2> QED BY <1>2, <2>1, ShowKeeps DEF InsertBlankPage
<1>3. CASE /\ transformNeedsRender' \in {transformNeedsRender, FALSE}
           /\ gesture' = g /\ contact' = c
           /\ UNCHANGED <<phase, view, pageCount, pendingPenPixels>>
           /\ SubmitColor
  <2>1. transformNeedsRender' => transformNeedsRender BY <1>3
  <2>2. UNCHANGED <<phase, view, pendingPenPixels>> /\ gesture' = g /\ contact' = c /\ SubmitColor BY <1>3
  <2> QED BY <2>1, <2>2 DEF EditInv, StrokesStayOnTheirPage, ColourIsDue, IsDrawing, Given, SubmitColor, StillPending
<1> QED BY <1>1, <1>2, <1>3 DEF ApplyToolbarAction

LEMMA LibraryKeeps ==
  ASSUME EditInv, NEW g, NEW c, Given(g, c), ApplyDocumentLibraryAction(g, c)
  PROVE  EditInv'
<1>1. CASE OpenDocument(c)
  <2>1. Given(gesture, c) BY DEF Given, EditInv
  <2> QED BY <1>1, <2>1, ShowKeeps DEF OpenDocument
<1>2. CASE phase' = "exited" /\ UNCHANGED <<editing, panel>> BY <1>2, FailKeeps
<1>3. CASE /\ gesture' = g /\ contact' = c
           /\ UNCHANGED <<phase, view, pageCount, transformNeedsRender, pendingPenPixels>>
           /\ SubmitColor
  BY <1>3 DEF EditInv, StrokesStayOnTheirPage, ColourIsDue, IsDrawing, Given, SubmitColor, StillPending
<1> QED BY <1>1, <1>2, <1>3 DEF ApplyDocumentLibraryAction

-----------------------------------------------------------------------------
(* The events of the main loop.                                            *)

LEMMA ChangeKeeps ==
  ASSUME EditInv, NEW c, Given(gesture, c), ChangePage(c)
  PROVE  EditInv'
<1>1. ASSUME NEW d \in PageDeltas, ShowDocument(view + d, pageCount, c) PROVE EditInv'
  BY <1>1, ShowKeeps
<1> QED BY <1>1, StayKeeps DEF ChangePage

LEMMA TouchingKeeps ==
  ASSUME EditInv, NEW place, TouchingFrame(place)
  PROVE  EditInv'
<1>1. contact = NoContact => /\ Given(gesture, Contact("library")) /\ Given(gesture, Contact("toolbar"))
                             /\ Given(gesture, Contact("outside"))
  BY ContactFields DEF Given, IsDrawing, EditInv
<1>2. Given(gesture, contact) BY DEF Given, EditInv
<1>3. CASE contact = NoContact /\ ApplyDocumentLibraryAction(gesture, Contact("library"))
  <2>1. Given(gesture, Contact("library")) BY <1>1, <1>3
  <2> QED BY <1>3, <2>1, LibraryKeeps
<1>8. CASE contact = NoContact /\ ApplyToolbarAction(gesture, Contact("toolbar"))
  <2>1. Given(gesture, Contact("toolbar")) BY <1>1, <1>8
  <2> QED BY <1>8, <2>1, ToolbarKeeps
<1>9. CASE contact = NoContact /\ Nothing(gesture, Contact("outside"))
  <2>1. Given(gesture, Contact("outside")) BY <1>1, <1>9
  <2> QED BY <1>9, <2>1, NothingKeeps
<1>4. CASE Nothing(gesture, contact) BY <1>2, <1>4, NothingKeeps
<1>5. CASE FinishPenContact(Contact("outside")) BY <1>5, ContactFields, FinishKeeps
<1>6. CASE IsDrawing /\ Ink /\ UNCHANGED <<phase, editing>>
  BY <1>6 DEF EditInv, StrokesStayOnTheirPage, ColourIsDue, IsDrawing, Ink, editing
<1>7. CASE /\ view # Library /\ contact = NoContact
           /\ \E kind \in {"fineliner", "eraser"} : contact' = [kind |-> kind, page |-> view]
           /\ Ink /\ UNCHANGED <<phase, view, pageCount, gesture>>
  <2>1. IsDrawing' /\ contact'.page = view BY <1>7 DEF IsDrawing
  <2>2. UNCHANGED <<phase, view, gesture, transformNeedsRender, monochrome, forgotten>> BY <1>7 DEF Ink
  <2>3. ~IsDrawing BY <1>7, ContactFields DEF IsDrawing
  <2> QED BY <2>1, <2>2, <2>3 DEF EditInv, StrokesStayOnTheirPage, ColourIsDue
<1> QED BY <1>3, <1>4, <1>5, <1>6, <1>7, <1>8, <1>9 DEF TouchingFrame

LEMMA PenKeeps ==
  ASSUME EditInv, PenEvent
  PROVE  EditInv'
<1>1. ASSUME NEW place, TouchingFrame(place) PROVE EditInv' BY <1>1, TouchingKeeps
<1>2. CASE FinishPenContact(NoContact) BY <1>2, ContactFields, FinishKeeps
<1>3. CASE Fail BY <1>3, FailKeeps DEF Fail
<1> QED BY <1>1, <1>2, <1>3 DEF PenEvent, ApplyPenFrame

(* While a pinch goes on nothing is tapped or swiped, and the event that   *)
(* ends it is never missed.                                                *)
LEMMA PinchEnds ==
  ASSUME NEW g, NEW frame, NEW near, NEW open, NEW n, g.active = "pinch",
         NEW event \in GestureEvents(g, frame, near)
  PROVE  /\ event \in {"none", "pinch changed", "pinch finished"}
         /\ event # "pinch finished" => UpdatedGesture(g, frame, near, open, n).active = "pinch"
<1>1. CASE Rejects(g, frame, near) BY <1>1 DEF GestureEvents
<1>2. CASE ~Rejects(g, frame, near) /\ DOMAIN frame = {} BY <1>2 DEF GestureEvents, FinishedOneFinger
<1>3. CASE ~Rejects(g, frame, near) /\ DOMAIN frame # {}
  <2>1. event \in {"none", "pinch changed"} BY <1>3 DEF GestureEvents
  <2>2. UpdatedGesture(g, frame, near, open, n).active = "pinch" BY <1>3 DEF UpdatedGesture, NoGesture
  <2> QED BY <2>1, <2>2
<1> QED BY <1>1, <1>2, <1>3

LEMMA ChangedIsPinch ==
  ASSUME NEW g \in Gesture, NEW frame, NEW near, "pinch changed" \in GestureEvents(g, frame, near)
  PROVE  g.active = "pinch"
<1> SUFFICES ASSUME g.active # "pinch" PROVE FALSE
  OBVIOUS
<1>0. Rejects(g, frame, near) => DOMAIN frame # {} BY DEF Rejects
<1>1. CASE Rejects(g, frame, near)
  <2>1. GestureEvents(g, frame, near) = {"none"} BY <1>0, <1>1 DEF GestureEvents
  <2> QED BY <2>1
<1>2. CASE ~Rejects(g, frame, near) /\ DOMAIN frame = {}
  <2>1. GestureEvents(g, frame, near) \subseteq {"none", g.active} BY <1>2 DEF GestureEvents, FinishedOneFinger
  <2>2. g.active \in Activity BY DEF Gesture
  <2> QED BY <2>1, <2>2 DEF Activity
<1>3. CASE ~Rejects(g, frame, near) /\ DOMAIN frame # {}
  <2>1. GestureEvents(g, frame, near) = {"none"} BY <1>3 DEF GestureEvents
  <2> QED BY <2>1
<1> QED BY <1>1, <1>2, <1>3

LEMMA GestureIsKnown ==
  ASSUME NEW g \in Gesture, NEW frame, \A s \in DOMAIN frame : frame[s] \in Place, NEW near, NEW open, NEW n
  PROVE  UpdatedGesture(g, frame, near, open, n) \in Gesture
<1> DEFINE only    == frame[CHOOSE s \in DOMAIN frame : TRUE]
           started == ClassifyOneFingerStart(only, open, n)
<1>1. started \in Activity BY DEF ClassifyOneFingerStart, Activity
<1>0. Rejects(g, frame, near) => DOMAIN frame # {} BY DEF Rejects
<1>2. CASE Rejects(g, frame, near)
  <2>1. UpdatedGesture(g, frame, near, open, n) = [NoGesture EXCEPT !.rejected = TRUE] BY <1>0, <1>2 DEF UpdatedGesture
  <2> QED BY <2>1, ContactFields DEF Gesture
<1>3. CASE ~Rejects(g, frame, near) /\ DOMAIN frame = {}
  <2>1. Cardinality(DOMAIN frame) # 1 BY <1>3, FS_EmptySet
  <2>2. UpdatedGesture(g, frame, near, open, n) = NoGesture BY <1>3, <2>1 DEF UpdatedGesture
  <2> QED BY <2>2, ContactFields
<1>4. CASE ~Rejects(g, frame, near) /\ DOMAIN frame # {} /\ Cardinality(DOMAIN frame) # 1
  <2>1. UpdatedGesture(g, frame, near, open, n) = [NoGesture EXCEPT !.active = "pinch"] BY <1>4 DEF UpdatedGesture
  <2> QED BY <2>1, ContactFields DEF Gesture, Activity
<1>5. CASE ~Rejects(g, frame, near) /\ DOMAIN frame # {} /\ Cardinality(DOMAIN frame) = 1
  <2>1. only \in Place BY <1>5
  <2>2. CASE g.active = "idle"
    <3>1. UpdatedGesture(g, frame, near, open, n) = [NoGesture EXCEPT !.active = started, !.place = IF started = "toolbar tap" THEN only ELSE @]
      BY <1>5, <2>2 DEF UpdatedGesture
    <3> HIDE DEF started, only
    <3> QED BY <1>1, <2>1, <3>1, ContactFields DEF Gesture
  <2>3. CASE g.active = "toolbar tap"
    <3>1. UpdatedGesture(g, frame, near, open, n) = [g EXCEPT !.place = only] BY <1>5, <2>3 DEF UpdatedGesture
    <3> HIDE DEF only
    <3> QED BY <2>1, <3>1 DEF Gesture
  <2>4. CASE g.active \notin {"idle", "toolbar tap"}
    <3>1. UpdatedGesture(g, frame, near, open, n) = g BY <1>5, <2>4 DEF UpdatedGesture
    <3> QED BY <3>1
  <2> QED BY <2>2, <2>3, <2>4
<1> QED BY <1>2, <1>3, <1>4, <1>5

LEMMA TouchKeeps ==
  ASSUME EditInv, NEW frame, \A s \in DOMAIN frame : frame[s] \in Place, ApplyTouchFrame(frame)
  PROVE  EditInv'
<1> DEFINE open == view # Library
           g    == UpdatedGesture(gesture, frame, penProximity, open, pageCount)
<1>1. PICK event \in GestureEvents(gesture, frame, penProximity) :
        \/ event = "library tap" /\ (ApplyDocumentLibraryAction(g, contact) \/ LibraryTapFails)
        \/ event = "toolbar tap" /\ (ApplyToolbarAction(g, contact) \/ Nothing(g, contact))
        \/ event = "swipe" /\ ChangePage(contact)
        \/ event = "pinch changed" /\ open /\ PinchChanged(g)
        \/ event = "pinch finished" /\ open /\ PinchFinished(g)
        \/ ~open /\ Nothing(g, contact)
        \/ event = "none" /\ Nothing(g, contact)
  BY DEF ApplyTouchFrame
<1>2. g \in Gesture BY GestureIsKnown DEF EditInv
<1>3. /\ gesture.active = "pinch" /\ event # "pinch finished" =>
           g.active = "pinch" /\ event \in {"none", "pinch changed"}
      /\ event = "pinch changed" => gesture.active = "pinch"
  BY PinchEnds, ChangedIsPinch DEF EditInv
<1> HIDE DEF open, g
<1>10. event # "pinch finished" => Given(g, contact) /\ Given(gesture, contact)
  BY <1>2, <1>3 DEF Given, EditInv
<1>4. CASE LibraryTapFails BY <1>4, FailKeeps DEF LibraryTapFails, Fail
<1>5. CASE event = "swipe" /\ ChangePage(contact) BY <1>5, <1>10, ChangeKeeps
<1>6. CASE event = "pinch changed" /\ open /\ PinchChanged(g)
  <2>1. g.active = "pinch" BY <1>3, <1>6
  <2>2. gesture' = g /\ UNCHANGED <<phase, view, contact, pendingPenPixels, monochrome, forgotten>>
    BY <1>6 DEF PinchChanged
  <2> QED BY <1>2, <1>6, <2>1, <2>2 DEF open, EditInv, StrokesStayOnTheirPage, ColourIsDue, IsDrawing
<1>7. CASE open /\ PinchFinished(g)
  BY <1>2, <1>7 DEF open, EditInv, StrokesStayOnTheirPage, ColourIsDue, IsDrawing, PinchFinished, SubmitColor,
     StillPending
<1>8. CASE ~open /\ Nothing(g, contact)
  BY <1>2, <1>8 DEF open, EditInv, StrokesStayOnTheirPage, ColourIsDue, IsDrawing, Nothing, panel
<1>9. CASE event # "pinch finished" /\ \/ ApplyDocumentLibraryAction(g, contact)
                                       \/ ApplyToolbarAction(g, contact)
                                       \/ Nothing(g, contact)
  BY <1>9, <1>10, LibraryKeeps, ToolbarKeeps, NothingKeeps
<1> QED BY <1>1, <1>4, <1>5, <1>6, <1>7, <1>8, <1>9

(* Requests of the bot, and the sleep.                                     *)
LEMMA RequestKeeps ==
  ASSUME EditInv, ApplyDocumentRequest
  PROVE  EditInv'
<1>1. Given(gesture, contact) BY DEF Given, EditInv
<1>2. CASE OpenDocument(contact) BY <1>1, <1>2, ShowKeeps DEF OpenDocument
<1>3. CASE StayOnPage(contact) BY <1>1, <1>3, StayKeeps
<1>4. CASE FinishingFails
  BY <1>4, ContactFields DEF EditInv, StrokesStayOnTheirPage, ColourIsDue, IsDrawing, FinishingFails, StillPending
<1>5. CASE OpeningFails(contact) BY <1>1, <1>5, ShowFailsKeeps DEF OpeningFails
<1> QED BY <1>2, <1>3, <1>4, <1>5 DEF ApplyDocumentRequest

LEMMA SleepKeeps ==
  ASSUME EditInv, GoToSleep
  PROVE  EditInv'
<1>1. CASE Fail BY <1>1, FailKeeps DEF Fail
<1>2. CASE ~Fail
  <2>1. /\ CanFinish /\ phase' = "discharging" /\ contact' = NoContact /\ gesture' = NoGesture
        /\ pendingPenPixels' = (pendingPenPixels /\ ~IsDrawing) /\ SubmitColor
    BY <1>2 DEF GoToSleep
  <2> QED BY <2>1, ContactFields DEF EditInv, StrokesStayOnTheirPage, ColourIsDue, IsDrawing, SubmitColor,
          StillPending
<1> QED BY <1>1, <1>2

LEMMA WakeKeeps ==
  ASSUME EditInv, WakeUp
  PROVE  EditInv'
BY DEF EditInv, StrokesStayOnTheirPage, ColourIsDue, IsDrawing, WakeUp, editing, SubmitColor, StillPending

(* What refreshes the panel later.                                         *)
LEMMA RefreshKeeps ==
  ASSUME EditInv, phase = "awake", SubmitPendingPenPixels \/ RedrawPendingPinchFrame
  PROVE  EditInv'
<1>1. CASE SubmitPendingPenPixels
  BY <1>1 DEF SubmitPendingPenPixels, EditInv, StrokesStayOnTheirPage, ColourIsDue, IsDrawing, editing
<1>2. CASE RedrawPendingPinchFrame /\ ~Fail
  <2>1. /\ view # Library /\ transformNeedsRender /\ ~transformNeedsRender'
        /\ UNCHANGED <<phase, view, contact, gesture, pendingPenPixels, forgotten>>
    BY <1>2 DEF RedrawPendingPinchFrame, editing
  <2> QED BY <2>1 DEF EditInv, StrokesStayOnTheirPage, ColourIsDue, IsDrawing
<1>3. CASE Fail BY <1>3, FailKeeps DEF Fail
<1> QED BY <1>1, <1>2, <1>3

(* A step that touches neither the page nor the panel, and is not a waking.*)
LEMMA OtherKeeps ==
  ASSUME EditInv, UNCHANGED <<editing, panel>>, phase' = phase \/ phase' # "awake"
  PROVE  EditInv'
BY DEF EditInv, StrokesStayOnTheirPage, ColourIsDue, IsDrawing, editing, panel

-----------------------------------------------------------------------------
(* The wake lock.                                                          *)

LEMMA SuspendKeepsLock ==
  ASSUME LockIsRestored, phase = "suspending", phase' = phase, SuspendStep \/ KernelSuspends
  PROVE  LockIsRestored'
<1>1. CASE KernelSuspends BY <1>1 DEF KernelSuspends, LockIsRestored
<1>2. CASE ReadCount BY <1>2 DEF ReadCount, LockIsRestored, Works, Fails
<1>3. CASE ReleaseWakeLock BY <1>3 DEF ReleaseWakeLock, LockIsRestored, Works, Fails
<1>4. CASE AskSystemd BY <1>4 DEF AskSystemd, LockIsRestored, Works, Fails
<1>5. CASE WaitForSuspend BY <1>5 DEF WaitForSuspend, LockIsRestored, Works, Fails
<1>6. CASE RestoreWakeLock BY <1>6 DEF RestoreWakeLock, LockIsRestored, Works, Fails
<1>7. CASE DropReleasedLock BY <1>7 DEF DropReleasedLock, LockIsRestored, Works, Fails
<1> QED BY <1>1, <1>2, <1>3, <1>4, <1>5, <1>6, <1>7 DEF SuspendStep

(* A handler never suspends: it goes on, or the program ends.              *)
LEMMA EventsDoNotSuspend ==
  ASSUME PenEvent \/ TouchEvent \/ ApplyDocumentRequest \/ SaveFails
  PROVE  phase' # "suspending"
<1> DEFINE Goes == phase' \in {"awake", "failed", "exited"}
<1>1. phase = "awake" BY DEF PenEvent, TouchEvent, ApplyDocumentRequest, SaveFails
<1>2. ASSUME NEW p, NEW n, NEW c, ShowDocument(p, n, c) PROVE Goes
  BY <1>1, <1>2 DEF ShowDocument, FinishEditing
<1>3. ASSUME NEW c, StayOnPage(c) PROVE Goes BY <1>1, <1>3 DEF StayOnPage, FinishEditing
<1>4. ASSUME NEW g, NEW c, ApplyToolbarAction(g, c) PROVE Goes
  BY <1>1, <1>2, <1>4 DEF ApplyToolbarAction, ShowDocumentLibrary, InsertBlankPage
<1>5. ASSUME NEW g, NEW c, ApplyDocumentLibraryAction(g, c) PROVE Goes
  BY <1>1, <1>2, <1>5 DEF ApplyDocumentLibraryAction, OpenDocument
<1>6. ASSUME NEW g, NEW c, Nothing(g, c) PROVE Goes BY <1>1, <1>6 DEF Nothing
<1>7. ASSUME NEW c, FinishPenContact(c) PROVE Goes BY <1>1, <1>7 DEF FinishPenContact
<1>8. CASE PenEvent
  BY <1>1, <1>4, <1>5, <1>6, <1>7, <1>8 DEF PenEvent, ApplyPenFrame, TouchingFrame, Fail
<1>9. CASE TouchEvent
  BY <1>1, <1>2, <1>3, <1>4, <1>5, <1>6, <1>9 DEF TouchEvent, ApplyTouchFrame, ChangePage, PinchChanged,
     PinchFinished, LibraryTapFails, Fail
<1>10. CASE ApplyDocumentRequest
  <2>1. CASE FinishingFails BY <1>1, <2>1 DEF FinishingFails
  <2>2. CASE OpeningFails(contact) BY <1>1, <2>2 DEF OpeningFails, ShowDocumentFails, FinishEditing
  <2> QED BY <1>2, <1>3, <1>10, <2>1, <2>2 DEF ApplyDocumentRequest, OpenDocument
<1>11. CASE SaveFails BY <1>11 DEF SaveFails, Fail
<1> QED BY <1>8, <1>9, <1>10, <1>11

LEMMA SleepKeepsLock ==
  ASSUME LockIsRestored, \/ ReadyToSuspend \/ Resume
                         \/ phase # "suspending" /\ phase' # "suspending" /\ UNCHANGED suspendVars
  PROVE  LockIsRestored'
BY DEF LockIsRestored, ReadyToSuspend, Resume, SuspendBegins, SuspendReturns, WakeUp, suspendVars

-----------------------------------------------------------------------------
(* The theorems.                                                           *)

LEMMA InitHolds == Init => TabletInv
BY ContactFields DEF Init, SuspendInit, TabletInv, LockIsRestored, EditInv, StrokesStayOnTheirPage, ColourIsDue,
   IsDrawing

LEMMA NextHolds == TabletInv /\ [Next]_vars => TabletInv'
<1> SUFFICES ASSUME TabletInv, [Next]_vars PROVE TabletInv'
  OBVIOUS
<1> USE DEF TabletInv
<1>1. finger' \in [Slot -> Place \cup {Up}]
  <2>1. CASE FingerMoves BY <2>1 DEF FingerMoves
  <2>2. CASE NoInput BY <2>2 DEF NoInput
  <2>3. CASE UNCHANGED finger BY <2>3
  <2> QED BY <2>1, <2>2, <2>3 DEF Next, PenEvent, SubmitPendingPenPixels, TouchEvent, RedrawPendingPinchFrame,
          ApplyDocumentRequest, SaveFails, PressPowerButton, GoToSleep, WakeBeforeSuspend, ReadyToSuspend, Suspend,
          Resume, Stop, WakeUp, vars, input
<1>2. EditInv'
  <2>1. CASE PenEvent BY <2>1, PenKeeps
  <2>2. CASE SubmitPendingPenPixels \/ RedrawPendingPinchFrame
    BY <2>2, RefreshKeeps DEF SubmitPendingPenPixels, RedrawPendingPinchFrame
  <2>3. CASE TouchEvent
    <3>1. \A s \in DOMAIN Frame : Frame[s] \in Place BY <1>1 DEF Frame, Up
    <3> QED BY <2>3, <3>1, TouchKeeps DEF TouchEvent
  <2>4. CASE ApplyDocumentRequest BY <2>4, RequestKeeps
  <2>5. CASE GoToSleep BY <2>5, SleepKeeps
  <2>6. CASE WakeBeforeSuspend \/ Resume BY <2>6, WakeKeeps DEF WakeBeforeSuspend, Resume
  <2>7. CASE PressPowerButton \/ ReadyToSuspend \/ Suspend \/ Stop \/ UNCHANGED vars
    BY <2>7, OtherKeeps DEF PressPowerButton, ReadyToSuspend, Suspend, Stop, vars
  <2>8. CASE SaveFails BY <2>8, FailKeeps DEF SaveFails, Fail
  <2> QED BY <2>1, <2>2, <2>3, <2>4, <2>5, <2>6, <2>7, <2>8 DEF Next
<1>3. LockIsRestored'
  <2>1. CASE Suspend BY <2>1, SuspendKeepsLock DEF Suspend
  <2>2. CASE ReadyToSuspend \/ Resume BY <2>2, SleepKeepsLock
  <2>3. CASE UNCHANGED <<phase, suspendVars>> BY <2>3 DEF LockIsRestored, suspendVars
  <2>4. CASE phase # "suspending" /\ phase' # "suspending" /\ UNCHANGED suspendVars BY <2>4, SleepKeepsLock
  <2>5. CASE PenEvent \/ TouchEvent \/ ApplyDocumentRequest \/ SaveFails
    <3>1. phase # "suspending" /\ UNCHANGED suspendVars
      BY <2>5 DEF PenEvent, TouchEvent, ApplyDocumentRequest, SaveFails
    <3> QED BY <2>5, <3>1, EventsDoNotSuspend, SleepKeepsLock
  <2>6. CASE SubmitPendingPenPixels \/ RedrawPendingPinchFrame \/ GoToSleep \/ WakeBeforeSuspend
    <3>1. phase # "suspending" /\ phase' # "suspending" /\ UNCHANGED suspendVars
      BY <2>6 DEF SubmitPendingPenPixels, RedrawPendingPinchFrame, GoToSleep, WakeBeforeSuspend, WakeUp, Fail
    <3> QED BY <3>1, SleepKeepsLock
  <2>7. CASE PressPowerButton \/ Stop \/ UNCHANGED vars
    BY <2>3, <2>4, <2>7 DEF PressPowerButton, Stop, vars
  <2> QED BY <2>1, <2>2, <2>5, <2>6, <2>7 DEF Next
<1> QED BY <1>1, <1>2, <1>3

(* The invariant holds of every behaviour.                                 *)
THEOREM TabletInvHolds == Spec => []TabletInv
<1>1. Init => TabletInv BY InitHolds
<1>2. TabletInv /\ [Next]_vars => TabletInv' BY NextHolds
<1> QED BY <1>1, <1>2, PTL DEF Spec

(* Whoever turns, inserts or opens pages while the pen draws, its stroke is*)
(* never on another page than the one it was begun on.                     *)
THEOREM StrokesKeepTheirPage == Spec => []StrokesStayOnTheirPage
<1>1. TabletInv => StrokesStayOnTheirPage BY DEF TabletInv, EditInv
<1> QED BY <1>1, TabletInvHolds, PTL

(* When the pen is lifted and the pinch has ended nothing is left in fast  *)
(* monochrome, except what ended with its document, or in a request whose  *)
(* save failed.                                                            *)
THEOREM MonochromeIsCleanedUp == Spec => []QuietPanelIsInColour
<1>1. TabletInv => QuietPanelIsInColour BY DEF TabletInv, EditInv, ColourIsDue, QuietPanelIsInColour
<1> QED BY <1>1, TabletInvHolds, PTL

(* An awake program holds its wake lock, unless a sleep failed twice.      *)
THEOREM WakeLockIsHeld == Spec => []AwakeHoldsTheWakeLock
<1>1. TabletInv => AwakeHoldsTheWakeLock BY DEF TabletInv, LockIsRestored, AwakeHoldsTheWakeLock
<1> QED BY <1>1, TabletInvHolds, PTL

-----------------------------------------------------------------------------
(* Types. The page that is shown is one of the open document's.            *)

Contacts == [kind : Kinds, page : Nat]
EditTypeOK ==
  /\ phase \in {"awake", "discharging", "suspending"} \cup Ended
  /\ pageCount \in 0..MaxPages /\ view \in 0..pageCount /\ contact \in Contacts
PanelTypeOK ==
  /\ transformNeedsRender \in BOOLEAN /\ pendingPenPixels \in BOOLEAN
  /\ monochrome \in BOOLEAN /\ forgotten \in BOOLEAN
InputTypeOK ==
  /\ pen \in [near : BOOLEAN, down : BOOLEAN, seenNear : BOOLEAN, seenDown : BOOLEAN]
  /\ power \in {"up", "pressed", "ignored"} /\ penProximity \in BOOLEAN

(* systemd is only asked while attempts are left.                          *)
SuspendTypeOK ==
  /\ step \in SuspendSteps /\ attempt \in 0..MaxSuspendAttempts /\ suspends \in 0..2
  /\ wakeLock \in BOOLEAN /\ failures \in 0..MaxFailures
  /\ step = "release" => attempt = 0
  /\ step = "ask" => attempt < MaxSuspendAttempts

(* A contact is what its kind says, on a page or nowhere.                  *)
LEMMA ContactTypes ==
  /\ \A kind \in Kinds : Contact(kind) \in Contacts
  /\ Contact("library") \in Contacts /\ Contact("toolbar") \in Contacts /\ Contact("outside") \in Contacts
  /\ NoContact \in Contacts
  /\ \A kind \in {"fineliner", "eraser"}, p \in Nat : [kind |-> kind, page |-> p] \in Contacts
BY DEF Contact, NoContact, Contacts, Kinds, Library

(* A document is shown at one of its pages.                                *)
LEMMA ShowTypes ==
  ASSUME EditTypeOK, phase = "awake", NEW c \in Contacts, NEW n \in 0..MaxPages, NEW p \in 0..n,
         ShowDocument(p, n, c)
  PROVE  EditTypeOK'
BY ContactTypes DEF EditTypeOK, ShowDocument, FinishEditing, Finished

LEMMA NumberFacts == MaxPages \in Nat \ {0} /\ MaxSuspendAttempts \in Nat \ {0} /\ MaxFailures \in Nat
BY TabletAssumption, SuspendAssumption

(* The handlers open a page of the document or leave it as it is.          *)
LEMMA HandlersTypes ==
  ASSUME EditTypeOK, phase = "awake", NEW g, NEW c \in Contacts,
         \/ OpenDocument(c) \/ InsertBlankPage(c) \/ StayOnPage(c) \/ ChangePage(c)
         \/ ApplyToolbarAction(g, c) \/ ApplyDocumentLibraryAction(g, c) \/ Nothing(g, c)
         \/ PinchChanged(g) \/ PinchFinished(g) \/ LibraryTapFails \/ FinishPenContact(c)
  PROVE  EditTypeOK'
<1>1. CASE OpenDocument(c)
  <2>1. PICK n \in 1..MaxPages : \E p \in 1..n : ShowDocument(p, n, c)
    BY <1>1 DEF OpenDocument
  <2> QED
    BY <2>1, NumberFacts, ShowTypes
<1>2. CASE InsertBlankPage(c)
  <2>1. pageCount + 1 \in 0..MaxPages /\ view + 1 \in 0..pageCount + 1 /\ ShowDocument(view + 1, pageCount + 1, c)
    BY <1>2, NumberFacts DEF InsertBlankPage, EditTypeOK
  <2> QED
    BY <2>1, ShowTypes
<1>3. CASE StayOnPage(c)
  BY <1>3, ContactTypes DEF StayOnPage, FinishEditing, Finished, EditTypeOK
<1>4. CASE ChangePage(c)
  <2>1. ASSUME NEW d \in PageDeltas, view + d \in 1..pageCount, ShowDocument(view + d, pageCount, c)
        PROVE  EditTypeOK'
    <3>1. pageCount \in 0..MaxPages /\ view + d \in 0..pageCount
      BY <2>1, NumberFacts DEF EditTypeOK
    <3> QED
      BY <2>1, <3>1, ShowTypes
  <2> QED
    BY <1>3, <1>4, <2>1 DEF ChangePage
<1>5. CASE ApplyToolbarAction(g, c)
  <2>1. CASE ShowDocumentLibrary(c)
    BY <2>1, NumberFacts DEF ShowDocumentLibrary, EditTypeOK, Library
  <2> QED
    BY <1>2, <1>5, <2>1 DEF ApplyToolbarAction, EditTypeOK
<1>6. CASE ApplyDocumentLibraryAction(g, c)
  BY <1>1, <1>6 DEF ApplyDocumentLibraryAction, EditTypeOK, editing, Ended
<1>7. CASE Nothing(g, c) \/ PinchChanged(g) \/ PinchFinished(g) \/ LibraryTapFails \/ FinishPenContact(c)
  BY <1>7 DEF Nothing, PinchChanged, PinchFinished, LibraryTapFails, Fail, FinishPenContact, EditTypeOK, editing, Ended
<1> QED
  BY <1>1, <1>2, <1>3, <1>4, <1>5, <1>6, <1>7

LEMMA TouchingTypes ==
  ASSUME EditTypeOK, phase = "awake", NEW place, TouchingFrame(place)
  PROVE  EditTypeOK'
<1>1. contact \in Contacts
  BY DEF EditTypeOK
<1>2. CASE \/ ApplyDocumentLibraryAction(gesture, Contact("library")) \/ Nothing(gesture, contact)
           \/ FinishPenContact(Contact("outside")) \/ ApplyToolbarAction(gesture, Contact("toolbar"))
           \/ Nothing(gesture, Contact("outside"))
  BY <1>1, <1>2, ContactTypes, HandlersTypes
<1>3. CASE UNCHANGED <<phase, editing>>
  BY <1>3 DEF EditTypeOK, editing
<1>4. CASE /\ \E kind \in {"fineliner", "eraser"} : contact' = [kind |-> kind, page |-> view]
           /\ UNCHANGED <<phase, view, pageCount>>
  <2>1. view \in Nat
    BY NumberFacts DEF EditTypeOK
  <2>2. contact' \in Contacts
    BY <1>4, <2>1, ContactTypes
  <2> QED
    BY <1>4, <2>2 DEF EditTypeOK
<1> QED
  BY <1>2, <1>3, <1>4 DEF TouchingFrame

(* The page that is shown, in every step.                                  *)
LEMMA EditTypes ==
  ASSUME EditTypeOK, [Next]_vars
  PROVE  EditTypeOK'
<1>1. contact \in Contacts
  BY DEF EditTypeOK
<1>2. CASE PenEvent
  <2>1. CASE Fail
    BY <2>1 DEF Fail, EditTypeOK, editing, Ended
  <2> QED
    BY <1>2, <2>1, TouchingTypes, HandlersTypes, ContactTypes DEF PenEvent, ApplyPenFrame
<1>3. CASE TouchEvent
  BY <1>1, <1>3, HandlersTypes DEF TouchEvent, ApplyTouchFrame
<1>4. CASE ApplyDocumentRequest
  <2>1. CASE FinishingFails
    BY <2>1, ContactTypes DEF FinishingFails, EditTypeOK
  <2>2. ASSUME NEW n \in 1..MaxPages, NEW p \in 1..n, ShowDocumentFails(p, n, contact)
        PROVE  EditTypeOK'
    <3>1. n \in 0..MaxPages /\ p \in 0..n
      BY NumberFacts
    <3> QED
      BY <2>2, <3>1, <1>1, ContactTypes DEF EditTypeOK, ShowDocumentFails, FinishEditing, Finished
  <2> QED
    BY <1>1, <1>4, <2>1, <2>2, HandlersTypes DEF ApplyDocumentRequest, OpeningFails
<1>5. CASE GoToSleep
  BY <1>5, ContactTypes DEF GoToSleep, Fail, EditTypeOK, editing, Ended
<1>6. CASE phase' \in {"awake", "suspending", "stopped", "failed", phase} /\ UNCHANGED editing
  BY <1>6 DEF EditTypeOK, editing, Ended
<1>7. CASE \/ SubmitPendingPenPixels \/ RedrawPendingPinchFrame \/ SaveFails \/ PressPowerButton
           \/ WakeBeforeSuspend \/ ReadyToSuspend \/ Suspend \/ Resume \/ Stop \/ UNCHANGED vars
  BY <1>6, <1>7 DEF SubmitPendingPenPixels, RedrawPendingPinchFrame, SaveFails, PressPowerButton, WakeBeforeSuspend,
     ReadyToSuspend, Suspend, Resume, Stop, WakeUp, Fail, vars
<1> QED
  BY <1>2, <1>3, <1>4, <1>5, <1>7 DEF Next

(* Whether the panel is to be refreshed is a matter of yes or no.          *)
LEMMA PanelTypes ==
  ASSUME PanelTypeOK, [Next]_vars
  PROVE  PanelTypeOK'
<1>1. ASSUME NEW g, NEW c, NEW p, NEW n, \/ ShowDocument(p, n, c) \/ StayOnPage(c) \/ ApplyToolbarAction(g, c)
                                         \/ ApplyDocumentLibraryAction(g, c) \/ Nothing(g, c)
      PROVE  PanelTypeOK'
  <2>1. ASSUME NEW q, NEW m, ShowDocument(q, m, c)
        PROVE  PanelTypeOK'
    BY <2>1 DEF ShowDocument, SubmitColor, PanelTypeOK
  <2>2. CASE StayOnPage(c)
    BY <2>2 DEF StayOnPage, FinishPixels, StillPending, PanelTypeOK
  <2>3. CASE ApplyToolbarAction(g, c)
    BY <2>1, <2>3 DEF ApplyToolbarAction, ShowDocumentLibrary, InsertBlankPage, SubmitColor, PanelTypeOK
  <2>4. CASE ApplyDocumentLibraryAction(g, c)
    BY <2>1, <2>4 DEF ApplyDocumentLibraryAction, OpenDocument, SubmitColor, PanelTypeOK, panel
  <2>5. CASE Nothing(g, c)
    BY <2>5 DEF Nothing, PanelTypeOK, panel
  <2> QED
    BY <1>1, <2>1, <2>2, <2>3, <2>4, <2>5
<1>2. CASE UNCHANGED panel \/ Fail
  BY <1>2 DEF PanelTypeOK, panel, Fail
<1>3. ASSUME NEW c, FinishPenContact(c)
      PROVE  PanelTypeOK'
  BY <1>3 DEF FinishPenContact, FinishPixels, StillPending, PanelTypeOK
<1>4. CASE Ink
  BY <1>4 DEF Ink, PanelTypeOK
<1>5. CASE PenEvent
  BY <1>1, <1>2, <1>3, <1>4, <1>5 DEF PenEvent, ApplyPenFrame, TouchingFrame
<1>6. ASSUME NEW g, PinchChanged(g) \/ PinchFinished(g)
      PROVE  PanelTypeOK'
  BY <1>6 DEF PinchChanged, PinchFinished, SubmitColor, PanelTypeOK
<1>7. CASE TouchEvent
  BY <1>1, <1>2, <1>6, <1>7 DEF TouchEvent, ApplyTouchFrame, ChangePage, LibraryTapFails
<1>8. CASE ApplyDocumentRequest
  <2>1. CASE FinishingFails
    BY <2>1 DEF FinishingFails, StillPending, PanelTypeOK
  <2>2. CASE OpeningFails(contact)
    BY <2>2 DEF OpeningFails, ShowDocumentFails, FinishPixels, StillPending, PanelTypeOK
  <2> QED
    BY <1>1, <1>8, <2>1, <2>2 DEF ApplyDocumentRequest, OpenDocument
<1>9. CASE GoToSleep
  BY <1>2, <1>9 DEF GoToSleep, SubmitColor, PanelTypeOK
<1>10. CASE WakeUp
  BY <1>10 DEF WakeUp, SubmitColor, PanelTypeOK
<1>11. CASE SubmitPendingPenPixels \/ RedrawPendingPinchFrame
  BY <1>2, <1>11 DEF SubmitPendingPenPixels, RedrawPendingPinchFrame, PanelTypeOK
<1>12. CASE SaveFails \/ PressPowerButton \/ ReadyToSuspend \/ Suspend \/ Stop \/ UNCHANGED vars
  BY <1>2, <1>12 DEF SaveFails, PressPowerButton, ReadyToSuspend, Suspend, Stop, vars
<1> QED
  BY <1>5, <1>7, <1>8, <1>9, <1>10, <1>11, <1>12 DEF Next, WakeBeforeSuspend, Resume

(* What the program knows of the pen and of the button.                    *)
LEMMA InputTypes ==
  ASSUME InputTypeOK, [Next]_vars
  PROVE  InputTypeOK'
<1>1. PenMoves => pen' \in [near : BOOLEAN, down : BOOLEAN, seenNear : BOOLEAN, seenDown : BOOLEAN]
  BY DEF PenMoves, InputTypeOK
<1>2. CASE PenEvent
  BY <1>1, <1>2 DEF PenEvent, ApplyPenFrame, InputTypeOK
<1>3. CASE GoToSleep
  <2>1. power' = "up"
    BY <1>3 DEF GoToSleep
  <2>2. UNCHANGED <<pen, penProximity>> \/ (NoInput /\ penProximity' = FALSE)
    BY <1>3 DEF GoToSleep
  <2>3. CASE UNCHANGED <<pen, penProximity>>
    BY <2>1, <2>3 DEF InputTypeOK
  <2>4. CASE NoInput /\ penProximity' = FALSE
    BY <2>1, <2>4 DEF NoInput, InputTypeOK
  <2> QED
    BY <2>2, <2>3, <2>4
<1>4. CASE WakeUp
  BY <1>4 DEF WakeUp, InputTypeOK
<1>5. CASE PressPowerButton
  BY <1>5 DEF PressPowerButton, InputTypeOK
<1>6. CASE UNCHANGED <<pen, power, penProximity>>
  BY <1>6 DEF InputTypeOK
<1>7. CASE \/ SubmitPendingPenPixels \/ TouchEvent \/ RedrawPendingPinchFrame \/ ApplyDocumentRequest
           \/ SaveFails \/ ReadyToSuspend \/ Suspend \/ Stop \/ UNCHANGED vars
  BY <1>6, <1>7 DEF SubmitPendingPenPixels, TouchEvent, RedrawPendingPinchFrame, ApplyDocumentRequest, SaveFails,
     ReadyToSuspend, Suspend, Stop, vars, input
<1> QED
  BY <1>2, <1>3, <1>4, <1>5, <1>7 DEF Next, WakeBeforeSuspend, Resume

(* The lock is held or not.                                                *)
LEMMA LockTypes ==
  ASSUME wakeLock \in BOOLEAN, [Next]_vars
  PROVE  wakeLock' \in BOOLEAN
<1>1. SuspendBegins \/ SuspendReturns \/ KernelSuspends \/ UNCHANGED suspendVars => UNCHANGED wakeLock
  BY DEF SuspendBegins, SuspendReturns, KernelSuspends, suspendVars
<1>2. SuspendStep => UNCHANGED wakeLock \/ wakeLock' = TRUE \/ wakeLock' = FALSE
  BY DEF SuspendStep, ReadCount, ReleaseWakeLock, AskSystemd, WaitForSuspend, RestoreWakeLock, DropReleasedLock
<1>3. Next \/ UNCHANGED vars => \/ SuspendBegins \/ SuspendReturns \/ KernelSuspends \/ SuspendStep
                               \/ UNCHANGED suspendVars
  BY DEF Next, Suspend, ReadyToSuspend, Resume, PenEvent, SubmitPendingPenPixels, TouchEvent, RedrawPendingPinchFrame,
     ApplyDocumentRequest, SaveFails, PressPowerButton, GoToSleep, WakeBeforeSuspend, Stop, vars
<1> QED
  BY <1>1, <1>2, <1>3

(* The attempts of one sleep stay within their number.                     *)
LEMMA SuspendTypes ==
  ASSUME SuspendTypeOK, [Next]_vars
  PROVE  SuspendTypeOK'
<1> DEFINE T == /\ step \in SuspendSteps /\ attempt \in 0..MaxSuspendAttempts /\ suspends \in 0..2
                /\ failures \in 0..MaxFailures
                /\ step = "release" => attempt = 0
                /\ step = "ask" => attempt < MaxSuspendAttempts
<1>0. T
  BY DEF SuspendTypeOK
<1> USE NumberFacts DEF SuspendSteps
<1>1. ASSUME UNCHANGED suspendVars  PROVE T'
  BY <1>0, <1>1 DEF suspendVars
<1>2. ASSUME SuspendBegins  PROVE T'
  BY <1>0, <1>2 DEF SuspendBegins
<1>3. ASSUME SuspendReturns  PROVE T'
  BY <1>0, <1>3 DEF SuspendReturns
<1>4. ASSUME KernelSuspends  PROVE T'
  BY <1>0, <1>4 DEF KernelSuspends
<1>5. ASSUME ReadCount  PROVE T'
  BY <1>0, <1>5 DEF ReadCount, Works, Fails
<1>6. ASSUME ReleaseWakeLock  PROVE T'
  <2>1. /\ step = "release" /\ step' \in {"ask", "done"} /\ UNCHANGED <<attempt, suspends>>
        /\ Works \/ Fails
    BY <1>6 DEF ReleaseWakeLock
  <2> QED
    BY <1>0, <2>1 DEF Works, Fails
<1>7. ASSUME AskSystemd  PROVE T'
  BY <1>0, <1>7 DEF AskSystemd, Works, Fails
<1>8. ASSUME WaitForSuspend  PROVE T'
  BY <1>0, <1>8 DEF WaitForSuspend, Works, Fails
<1>9. ASSUME RestoreWakeLock \/ DropReleasedLock  PROVE T'
  <2>1. step' \in {"done", "drop"} /\ UNCHANGED <<attempt, suspends>> /\ (Works \/ Fails)
    BY <1>9 DEF RestoreWakeLock, DropReleasedLock
  <2> QED
    BY <1>0, <2>1 DEF Works, Fails
<1> HIDE DEF T
<1>10. ASSUME Suspend  PROVE T'
  BY <1>4, <1>5, <1>6, <1>7, <1>8, <1>9, <1>10 DEF Suspend, SuspendStep
<1>11. ASSUME ReadyToSuspend \/ Resume  PROVE T'
  BY <1>2, <1>3, <1>11 DEF ReadyToSuspend, Resume
<1>12. ASSUME \/ PenEvent \/ SubmitPendingPenPixels \/ TouchEvent \/ RedrawPendingPinchFrame \/ ApplyDocumentRequest
              \/ SaveFails \/ PressPowerButton \/ GoToSleep \/ WakeBeforeSuspend \/ Stop \/ UNCHANGED vars
       PROVE  T'
  BY <1>1, <1>12 DEF PenEvent, SubmitPendingPenPixels, TouchEvent, RedrawPendingPinchFrame, ApplyDocumentRequest,
     SaveFails, PressPowerButton, GoToSleep, WakeBeforeSuspend, Stop, vars
<1>13. T'
  BY <1>10, <1>11, <1>12 DEF Next
<1> QED
  BY <1>13, LockTypes DEF SuspendTypeOK, T

(* The tablet is well typed: it shows a page of the open document, and     *)
(* never asks for more suspends than it may.                               *)
THEOREM TabletIsWellTyped == Spec => []TabletTypeOK
<1> DEFINE Types == EditTypeOK /\ PanelTypeOK /\ InputTypeOK /\ SuspendTypeOK
<1>1. Init => Types
  <2> SUFFICES ASSUME Init  PROVE Types
    OBVIOUS
  <2>1. EditTypeOK
    BY ContactTypes, NumberFacts DEF Init, EditTypeOK, Library
  <2>2. PanelTypeOK /\ InputTypeOK
    BY DEF Init, PanelTypeOK, InputTypeOK
  <2>3. step = "idle" /\ attempt = 0 /\ suspends = 0 /\ wakeLock = TRUE /\ failures = 0
    BY DEF Init, SuspendInit
  <2>4. wakeLock \in BOOLEAN
    BY <2>3
  <2>5. SuspendTypeOK
    BY <2>3, <2>4, NumberFacts DEF SuspendTypeOK, SuspendSteps
  <2> QED
    BY <2>1, <2>2, <2>5
<1>2. Types /\ [Next]_vars => Types'
  BY EditTypes, PanelTypes, InputTypes, SuspendTypes
<1>3. Types /\ TabletInv => TabletTypeOK
  BY DEF EditTypeOK, PanelTypeOK, InputTypeOK, SuspendTypeOK, TabletInv, EditInv, TabletTypeOK, Contacts
<1> HIDE DEF Types
<1> QED
  BY <1>1, <1>2, <1>3, TabletInvHolds, PTL DEF Spec
=============================================================================
