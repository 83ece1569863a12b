---------------------------- MODULE TouchGestures ----------------------------
(* What fingers on the screen mean: the rejection of palms, and the gesture*)
(* that one sequence of contacts is, from the first finger that touches to *)
(* the last one that is lifted. A finger is somewhere on the toolbar, near *)
(* an edge or elsewhere on the page, or it is a palm; where exactly is left*)
(* open, and with it whether it moved too far for a tap or far enough for a*)
(* swipe.                                                                  *)
EXTENDS Integers, FiniteSets

Place == {"toolbar", "edge", "page", "palm"}

(* A tap on the toolbar remembers the place where its finger is now.       *)
Activity == {"idle", "library tap", "toolbar tap", "swipe", "pinch"}
Gesture  == [active : Activity, place : Place, rejected : BOOLEAN]
NoGesture == [active |-> "idle", place |-> "page", rejected |-> FALSE]

(* A frame is a function from the slots that are in contact to their places*)
HasPalm(frame) == \E s \in DOMAIN frame : frame[s] = "palm"

(* A sequence with a palm, with a third finger, or near the pen is rejected*)
(* until every contact is released.                                        *)
Rejects(g, frame, pen) ==
  /\ DOMAIN frame # {}
  /\ g.rejected \/ pen \/ Cardinality(DOMAIN frame) > 2 \/ HasPalm(frame)

(* What one finger may become, where it touches.                           *)
ClassifyOneFingerStart(place, open, pageCount) ==
  CASE ~open                               -> "library tap"
    [] open /\ place = "toolbar"           -> "toolbar tap"
    [] open /\ place = "edge" /\ pageCount > 1 -> "swipe"
    [] OTHER                               -> "idle"

(* The gesture after a frame. One finger that is left of a pinch does not  *)
(* end it.                                                                 *)
UpdatedGesture(g, frame, pen, open, pageCount) ==
  LET fingers == DOMAIN frame
      only    == frame[CHOOSE s \in fingers : TRUE]
      started == ClassifyOneFingerStart(only, open, pageCount)
  IN  CASE Rejects(g, frame, pen)    -> [NoGesture EXCEPT !.rejected = TRUE]
        [] fingers = {}              -> NoGesture
        [] ~Rejects(g, frame, pen) /\ Cardinality(fingers) = 1 ->
             CASE g.active = "idle"        -> [NoGesture EXCEPT !.active = started, !.place =
                                                IF started = "toolbar tap" THEN only ELSE @]
               [] g.active = "toolbar tap" -> [g EXCEPT !.place = only]
               [] OTHER                    -> g
        [] OTHER                     -> [NoGesture EXCEPT !.active = "pinch"]

(* One finger is lifted: a tap is none if the finger moved too far, and a  *)
(* swipe is none if it was too short or not level.                         *)
FinishedOneFinger(active) == {"none", active}

(* A swipe from the left edge turns back, one from the right edge forward. *)
PageDeltas == {-1, 1}

(* The events that a frame may cause.                                      *)
GestureEvents(g, frame, pen) ==
  LET fingers == DOMAIN frame
  IN  CASE Rejects(g, frame, pen) -> {IF g.active = "pinch" THEN "pinch finished" ELSE "none"}
        [] fingers = {} ->
             CASE g.active = "idle"  -> {"none"}
               [] g.active = "pinch" -> {"pinch finished"}
               [] OTHER              -> FinishedOneFinger(g.active)
        [] OTHER -> {IF Cardinality(fingers) = 2 /\ g.active = "pinch"
                     THEN "pinch changed" ELSE "none"}
=============================================================================
