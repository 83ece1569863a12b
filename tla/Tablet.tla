------------------------------- MODULE Tablet --------------------------------
(* The main loop of the program on the tablet: pen, fingers, the power     *)
(* button and the requests of the bot act on one view, and the display is  *)
(* refreshed in fast monochrome or slow colour. One thread takes the events*)
(* of one device after the other, so that a handler is a step; the order   *)
(* of events of different devices is not known to it, so that an event and *)
(* its handling are one step too. Only when the tablet goes to sleep does  *)
(* something happen between its steps, which is then thrown away.          *)
(* What is drawn is left to Notebook; here a page is only a number.        *)
EXTENDS TouchGestures, SystemSuspend

CONSTANTS
  Slot,        \* the slots of the touch device
  MaxPages     \* bound: pages of a document

ASSUME TabletAssumption == MaxPages \in Nat \ {0} /\ IsFiniteSet(Slot)

VARIABLES
  phase,        \* what the program does, or how it has ended
  finger,       \* where the finger of each slot is
  pen,          \* the pen, and what the program was told of it
  power,        \* the power button: up, pressed, or pressed but ignored
  view,         \* the page that is shown, or Library
  pageCount,    \* pages of the open document, none if it is the library
  contact,      \* what the pen does since it touches
  gesture,      \* what the fingers do
  penProximity, \* whether the pen was near at its last frame
  transformNeedsRender, \* a pinch has moved the page, which is not drawn yet
  pendingPenPixels,     \* ink that was not yet submitted to the panel
  monochrome,   \* regions that are shown in fast monochrome
  forgotten     \* observer: a pinch or a stroke has ended without its colour update

input    == <<finger, pen, power>>
editing  == <<view, pageCount, contact, gesture>>
panel    == <<transformNeedsRender, pendingPenPixels, monochrome, forgotten>>
vars     == <<phase, input, editing, penProximity, panel, suspendVars>>

Library   == 0
Ended     == {"exited", "stopped", "failed"}
Up        == "up"
NoInput   == /\ finger' = [s \in Slot |-> Up]
             /\ pen' = [near |-> FALSE, down |-> FALSE, seenNear |-> FALSE, seenDown |-> FALSE]

Kinds     == {"none", "fineliner", "eraser", "outside", "toolbar", "library"}
Contact(kind) == [kind |-> kind, page |-> Library]
NoContact == Contact("none")
IsDrawing == contact.kind \in {"fineliner", "eraser"}

Init ==
  /\ phase = "awake"
  /\ finger = [s \in Slot |-> Up]
  /\ pen = [near |-> FALSE, down |-> FALSE, seenNear |-> FALSE, seenDown |-> FALSE]
  /\ power = "up"
  /\ view = Library /\ pageCount = 0 /\ contact = NoContact /\ gesture = NoGesture
  /\ penProximity = FALSE
  /\ transformNeedsRender = FALSE /\ pendingPenPixels = FALSE
  /\ monochrome = FALSE /\ forgotten = FALSE
  /\ SuspendInit

-----------------------------------------------------------------------------
(* The handlers of the notebook. Each says what becomes of phase, editing  *)
(* and panel; g and c are the gesture and the contact that its caller has  *)
(* set before.                                                             *)

(* An error of the notebook ends the program.                              *)
Fail == phase' = "failed" /\ UNCHANGED <<editing, panel>>

(* An update in colour takes every monochrome region with it.              *)
StillPending == monochrome' \/ transformNeedsRender' \/ pendingPenPixels'
SubmitColor  == monochrome' = FALSE /\ forgotten' = (forgotten /\ StillPending)

(* finish_pen_contact puts the stroke on the page, or takes what is under  *)
(* the eraser from it, and shows the result in colour. Without an open page*)
(* it fails.                                                               *)
CanFinish == ~(IsDrawing /\ view = Library)
FinishPixels ==
  /\ transformNeedsRender' = (transformNeedsRender /\ contact.kind # "eraser")
  /\ pendingPenPixels' = (pendingPenPixels /\ ~IsDrawing)
  /\ monochrome' = (monochrome /\ ~IsDrawing)
FinishPenContact(c) ==
  /\ CanFinish /\ FinishPixels /\ contact' = c
  /\ forgotten' = (forgotten /\ StillPending)
  /\ UNCHANGED <<phase, view, pageCount, gesture>>

NeverFinished(c) == c \* a mutant: the page may change under the pen
(* finish_editing_input_sequences, before whatever may change the page:    *)
(* the pen's contact ends if it draws, and fingers start anew.             *)
Finished(c) == IF IsDrawing THEN NoContact ELSE c
FinishEditing(c) == CanFinish /\ contact' = Finished(c) /\ gesture' = NoGesture /\ UNCHANGED phase

(* show_document: a page is drawn anew and refreshed in full.              *)
ShowDocument(p, n, c) ==
  /\ FinishEditing(c) /\ view' = p /\ pageCount' = n
  /\ transformNeedsRender' = FALSE /\ pendingPenPixels' = (pendingPenPixels /\ ~IsDrawing)
  /\ SubmitColor
OpenDocument(c) == \E n \in 1..MaxPages : \E p \in 1..n : ShowDocument(p, n, c)
(* Its save fails when the other page is already open, but not drawn.      *)
ShowDocumentFails(p, n, c) ==
  /\ FinishEditing(c) /\ FinishPixels /\ view' = p /\ pageCount' = n
  /\ forgotten' = ((forgotten \/ gesture.active = "pinch" \/ transformNeedsRender) /\ StillPending)
OpeningFails(c) == \E n \in 1..MaxPages : \E p \in 1..n : ShowDocumentFails(p, n, c)
InsertBlankPage(c) == view # Library /\ pageCount < MaxPages /\ ShowDocument(view + 1, pageCount + 1, c)

TurnPastTheEnd(c) == \* a mutant: the document's last page is not looked at
  view # Library /\ \E d \in PageDeltas : ShowDocument(view + d, pageCount, c)
(* What ends the sequences and shows the same page as before, without a    *)
(* redraw: an export, or a page that is not there.                         *)
StayOnPage(c) ==
  /\ FinishEditing(c) /\ FinishPixels /\ UNCHANGED <<view, pageCount>>
  /\ forgotten' = ((forgotten \/ gesture.active = "pinch") /\ StillPending)
ChangePage(c) ==
  /\ view # Library
  /\ StayOnPage(c) \/ \E d \in PageDeltas : view + d \in 1..pageCount /\ ShowDocument(view + d, pageCount, c)

(* show_document_library: fingers start anew, but the contact of the pen   *)
(* goes on, and so does a pinch that is not rendered.                      *)
ShowDocumentLibrary(c) ==
  /\ view' = Library /\ pageCount' = 0 /\ gesture' = NoGesture /\ contact' = c
  /\ UNCHANGED <<phase, transformNeedsRender, pendingPenPixels>>
  /\ SubmitColor

(* The buttons of the toolbar: after each the toolbar is drawn in colour.  *)
(* Undo and redo draw the page, if there is something to take back.        *)
ApplyToolbarAction(g, c) ==
  \/ ShowDocumentLibrary(c)
  \/ InsertBlankPage(c)
  \/ /\ transformNeedsRender' \in {transformNeedsRender, FALSE}
     /\ gesture' = g /\ contact' = c
     /\ UNCHANGED <<phase, view, pageCount, pendingPenPixels>>
     /\ SubmitColor

(* The rows and buttons of the library: a document, a new one, the exit,   *)
(* another screen of the list. A document is not opened if the pen's stroke*)
(* cannot be finished, see LibraryTapFails.                                *)
ApplyDocumentLibraryAction(g, c) ==
  \/ OpenDocument(c)
  \/ phase' = "exited" /\ UNCHANGED <<editing, panel>>
  \/ /\ gesture' = g /\ contact' = c
     /\ UNCHANGED <<phase, view, pageCount, transformNeedsRender, pendingPenPixels>>
     /\ SubmitColor
LibraryTapFails == ~CanFinish /\ Fail
Nothing(g, c) == gesture' = g /\ contact' = c /\ UNCHANGED <<phase, view, pageCount, panel>>

-----------------------------------------------------------------------------
(* The pen. Its device tells of changes only: what it was before is kept   *)
(* by the program, and lost when the device is reset.                      *)

Ink == pendingPenPixels' \in {pendingPenPixels, TRUE}
         /\ UNCHANGED <<transformNeedsRender, monochrome, forgotten>>

(* A frame of a pen that touches.                                          *)
TouchingFrame(place) ==
  \/ view = Library /\ contact = NoContact /\ ApplyDocumentLibraryAction(gesture, Contact("library"))
  \/ view = Library /\ contact # NoContact /\ Nothing(gesture, contact)
  \/ view # Library /\ IsDrawing /\ place = "page" /\ Ink /\ UNCHANGED <<phase, editing>>
  \/ view # Library /\ IsDrawing /\ place # "page" /\ FinishPenContact(Contact("outside"))
  \/ view # Library /\ contact = NoContact /\ place = "toolbar"
       /\ ApplyToolbarAction(gesture, Contact("toolbar"))
  \/ view # Library /\ contact = NoContact /\ place = "outside"
       /\ Nothing(gesture, Contact("outside"))
  \/ /\ view # Library /\ contact = NoContact /\ place = "page"
     /\ \E kind \in {"fineliner", "eraser"} : contact' = [kind |-> kind, page |-> view]
     /\ Ink /\ UNCHANGED <<phase, view, pageCount, gesture>>
  \/ view # Library /\ contact # NoContact /\ ~IsDrawing /\ Nothing(gesture, contact)

(* apply_pen_frame.                                                        *)
ApplyPenFrame ==
  /\ penProximity' = pen'.seenNear
  /\ \/ pen'.seenDown /\ \E place \in {"toolbar", "page", "outside"} : TouchingFrame(place)
     \/ ~pen'.seenDown /\ CanFinish /\ FinishPenContact(NoContact)
     \/ ~pen'.seenDown /\ ~CanFinish /\ Fail

(* PenDevice::drain: the pen comes near, touches, moves, is lifted, leaves. *)
PenMoves ==
  \/ ~pen.near /\ pen' = [pen EXCEPT !.near = TRUE, !.seenNear = TRUE]
  \/ pen.near /\ ~pen.down /\ pen' = [pen EXCEPT !.near = FALSE, !.seenNear = FALSE]
  \/ pen.near /\ ~pen.down /\ pen' = [pen EXCEPT !.down = TRUE, !.seenDown = TRUE]
  \/ pen.down /\ pen' = [pen EXCEPT !.down = FALSE, !.seenDown = FALSE]
  \/ pen.near /\ pen' = pen

PenEvent ==
  /\ phase = "awake" /\ PenMoves /\ ApplyPenFrame
  /\ UNCHANGED <<finger, power, suspendVars>>

(* submit_pending_pen_pixels_if_due.                                       *)
SubmitPendingPenPixels ==
  /\ phase = "awake" /\ pendingPenPixels
  /\ pendingPenPixels' = FALSE /\ monochrome' = TRUE
  /\ UNCHANGED <<phase, input, editing, penProximity, transformNeedsRender, forgotten, suspendVars>>

-----------------------------------------------------------------------------
(* Fingers.                                                                *)

PinchFinishedIfMoved(g) == \* a mutant: a pinch that moved nothing since is not cleaned up
  /\ gesture' = g
  /\ UNCHANGED <<phase, view, pageCount, contact, pendingPenPixels>>
  /\ IF transformNeedsRender THEN transformNeedsRender' = FALSE /\ SubmitColor
     ELSE UNCHANGED <<transformNeedsRender, monochrome, forgotten>>
(* finish_pinch.                                                           *)
PinchFinished(g) ==
  /\ gesture' = g /\ transformNeedsRender' = FALSE
  /\ UNCHANGED <<phase, view, pageCount, contact, pendingPenPixels>>
  /\ SubmitColor

(* apply_pinch_change, which may meet the limits of the view.              *)
PinchChanged(g) ==
  /\ gesture' = g /\ transformNeedsRender' \in {transformNeedsRender, TRUE}
  /\ UNCHANGED <<phase, view, pageCount, contact, pendingPenPixels, monochrome, forgotten>>

(* apply_touch_frame.                                                      *)
ApplyTouchFrame(frame) ==
  LET open == view # Library
      g    == UpdatedGesture(gesture, frame, penProximity, open, pageCount)
  IN  \E event \in GestureEvents(gesture, frame, penProximity) :
        \/ event = "library tap" /\ ~open
             /\ (ApplyDocumentLibraryAction(g, contact) \/ LibraryTapFails)
        \/ event = "toolbar tap" /\ open /\ gesture.place = "toolbar" /\ ApplyToolbarAction(g, contact)
        \/ event = "toolbar tap" /\ gesture.place # "toolbar" /\ Nothing(g, contact)
        \/ event = "swipe" /\ ChangePage(contact)
        \/ event = "pinch changed" /\ open /\ PinchChanged(g)
        \/ event = "pinch finished" /\ open /\ PinchFinished(g)
        \/ event \in {"pinch changed", "pinch finished"} /\ ~open /\ Nothing(g, contact)
        \/ event = "none" /\ Nothing(g, contact)

(* TouchDevice::drain: a finger touches, moves, turns out to be a palm, or *)
(* is lifted. One whose beginning was thrown away is not seen until it     *)
(* touches again.                                                          *)
FingerMoves ==
  \E s \in Slot : \E p \in Place \cup {Up} :
    (finger[s] = Up => p # Up) /\ finger' = [finger EXCEPT ![s] = p]
Frame == [s \in {r \in Slot : finger'[r] # Up} |-> finger'[s]]

TouchEvent ==
  /\ phase = "awake" /\ FingerMoves /\ ApplyTouchFrame(Frame)
  /\ UNCHANGED <<pen, power, penProximity, suspendVars>>

(* redraw_pending_pinch_frame, which draws the open page.                  *)
RedrawPendingPinchFrame ==
  /\ phase = "awake" /\ transformNeedsRender
  /\ \/ view = Library /\ Fail
     \/ /\ view # Library /\ transformNeedsRender' = FALSE
        /\ monochrome' \in {monochrome, TRUE}
        /\ UNCHANGED <<phase, editing, pendingPenPixels, forgotten>>
  /\ UNCHANGED <<input, penProximity, suspendVars>>

-----------------------------------------------------------------------------
(* Requests of the bot: to open or import a document, or to export or share*)
(* the page. One that fails is answered with the error, and the program    *)
(* goes on, wherever the error has left it.                                *)

(* The stroke cannot be finished: the library is open in place of its page,*)
(* the page's session has ended, or a save fails. By then the contact is   *)
(* gone; its colour update and the reset of the fingers are not reached.   *)
(* The toolbar may have been drawn in colour for the recorded edit.        *)
FinishingFails ==
  /\ IsDrawing /\ contact' = NoContact
  /\ UNCHANGED <<phase, view, pageCount, gesture, transformNeedsRender, pendingPenPixels>>
  /\ \/ UNCHANGED monochrome
     \/ CanFinish /\ monochrome' = FALSE
  /\ forgotten' = ((forgotten /\ StillPending) \/ monochrome' \/ pendingPenPixels')

ApplyDocumentRequest ==
  /\ phase = "awake"
  /\ \/ OpenDocument(contact) \/ StayOnPage(contact)
     \/ FinishingFails \/ OpeningFails(contact)
  /\ UNCHANGED <<input, penProximity, suspendVars>>

(* Everywhere else a save that fails ends the program.                     *)
SaveFails ==
  /\ phase = "awake" /\ Fail
  /\ UNCHANGED <<input, penProximity, suspendVars>>

-----------------------------------------------------------------------------
(* Sleep.                                                                  *)

(* The button acts when it is released. A press is ignored in the first    *)
(* three seconds after the tablet woke up, which are left open.            *)
PressPowerButton ==
  /\ phase \in {"awake", "discharging"}
  /\ \/ power = "up" /\ power' \in {"pressed", "ignored"}
     \/ power = "ignored" /\ power' = "up"
  /\ UNCHANGED <<phase, finger, pen, editing, penProximity, panel, suspendVars>>
CompletesPress == power = "pressed"

(* finish_input_sequences_and_save_state and show_sleep_screen.            *)
GoToSleep ==
  /\ phase = "awake" /\ CompletesPress /\ power' = "up"
  /\ \/ ~CanFinish /\ Fail /\ UNCHANGED <<finger, pen, penProximity>>
     \/ /\ CanFinish /\ phase' = "discharging" /\ NoInput
        /\ contact' = NoContact /\ gesture' = NoGesture /\ penProximity' = FALSE
        /\ pendingPenPixels' = (pendingPenPixels /\ ~IsDrawing)
        /\ transformNeedsRender' = (transformNeedsRender /\ contact.kind # "eraser")
        /\ SubmitColor /\ UNCHANGED <<view, pageCount>>
  /\ UNCHANGED suspendVars

(* After the devices were reset no finger touches, and the pen is neither  *)
(* near nor down for the program, whatever it really is.                   *)
WakeUp ==
  /\ phase' = "awake"
  /\ \E n, d \in BOOLEAN : (d => n) /\ pen' = [near |-> n, down |-> d, seenNear |-> FALSE, seenDown |-> FALSE]
  /\ power' \in {"up", "ignored"}
  /\ transformNeedsRender' = (transformNeedsRender /\ view = Library)
  /\ UNCHANGED <<finger, editing, penProximity, pendingPenPixels>>
  /\ SubmitColor

(* The panel discharges for thirty seconds, in which a press of the button *)
(* wakes the tablet.                                                       *)
WakeBeforeSuspend == phase = "discharging" /\ CompletesPress /\ WakeUp /\ UNCHANGED suspendVars
ReadyToSuspend ==
  /\ phase = "discharging" /\ phase' = "suspending" /\ SuspendBegins
  /\ UNCHANGED <<input, editing, penProximity, panel>>
Suspend ==
  /\ phase = "suspending" /\ (SuspendStep \/ KernelSuspends)
  /\ UNCHANGED <<phase, input, editing, penProximity, panel>>
Resume == phase = "suspending" /\ SuspendReturns /\ WakeUp

(* SIGTERM and SIGINT set a flag that the loops look at. Nothing is ended: *)
(* the stroke that the pen draws is lost.                                  *)
Stop ==
  /\ phase \in {"awake", "discharging"} /\ phase' = "stopped"
  /\ UNCHANGED <<input, editing, penProximity, panel, suspendVars>>

Next ==
  \/ PenEvent \/ SubmitPendingPenPixels \/ TouchEvent \/ RedrawPendingPinchFrame
  \/ ApplyDocumentRequest \/ SaveFails \/ PressPowerButton
  \/ GoToSleep \/ WakeBeforeSuspend \/ ReadyToSuspend \/ Suspend \/ Resume \/ Stop

(* The program goes on with its sleep; whether the kernel ever suspends is *)
(* its own affair.                                                         *)
Fairness == WF_vars(ReadyToSuspend) /\ WF_vars(phase = "suspending" /\ SuspendStep
                                                 /\ UNCHANGED <<phase, input, editing, penProximity, panel>>)
              /\ WF_vars(Resume)
Spec == Init /\ [][Next]_vars /\ Fairness

-----------------------------------------------------------------------------
(* Properties.                                                             *)

TabletTypeOK ==
  /\ phase \in {"awake", "discharging", "suspending"} \cup Ended
  /\ finger \in [Slot -> Place \cup {Up}]
  /\ pen \in [near : BOOLEAN, down : BOOLEAN, seenNear : BOOLEAN, seenDown : BOOLEAN]
  /\ power \in {"up", "pressed", "ignored"}
  /\ pageCount \in 0..MaxPages /\ view \in 0..pageCount
  /\ contact \in [kind : Kinds, page : Nat] /\ gesture \in Gesture
  /\ {penProximity, transformNeedsRender, pendingPenPixels, monochrome, forgotten} \subseteq BOOLEAN
  /\ step \in SuspendSteps /\ attempt \in 0..MaxSuspendAttempts /\ suspends \in 0..2
  /\ wakeLock \in BOOLEAN /\ failures \in 0..MaxFailures

(* A stroke goes to the page that it was begun on, whoever turns, inserts  *)
(* or opens pages while it is drawn. (In the library it goes nowhere.)     *)
StrokesStayOnTheirPage == IsDrawing => view \in {contact.page, Library}

(* Whatever was shown in fast monochrome is shown in colour when the pen   *)
(* is lifted and the pinch has ended; except a pinch or a stroke that ended*)
(* with the document, or in a request whose save failed.                   *)
QuietPanelIsInColour ==
  monochrome /\ ~IsDrawing /\ gesture.active # "pinch" => forgotten

(* While it is awake the program holds its wake lock, also after a suspend *)
(* that has failed anywhere, as long as a sleep fails once.                *)
AwakeHoldsTheWakeLock == phase = "awake" /\ failures <= 1 => wakeLock

(* Whoever goes to sleep wakes up, or has ended: the suspend is tried eight*)
(* times and not for ever.                                                 *)
SleepEnds == phase \in {"discharging", "suspending"} ~> phase \in {"awake"} \cup Ended
=============================================================================
