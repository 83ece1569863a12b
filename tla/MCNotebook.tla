----------------------------- MODULE MCNotebook -------------------------------
(* Small instances of Notebook: a few handlers and a few faults, the last  *)
(* of which takes the place of a handler. The strokes of a page are        *)
(* bounded by MaxStrokes, and the eraser cuts a stroke in two at most: one *)
(* stroke becomes two, in the middle of a page as well as at its ends.     *)
EXTENDS Notebook, TLC

CONSTANTS MaxHandlers, MaxFaults, MaxSteps, MaxStrokes

VARIABLES handlers, faults

MCInit == NotebookInit /\ handlers = 0 /\ faults = 0
MCNext ==
  \/ /\ handlers < MaxHandlers /\ handlers + faults < MaxSteps
     /\ Handler /\ handlers' = handlers + 1
     /\ Len(page') <= MaxStrokes
     /\ UNCHANGED faults
  \/ /\ faults < MaxFaults /\ handlers + faults < MaxSteps
     /\ Fault /\ faults' = faults + 1
     /\ UNCHANGED handlers
  \/ (UndoIsRefused \/ WriteLibrary \/ WriteHistories) /\ UNCHANGED <<handlers, faults>>
MCSpec == MCInit /\ [][MCNext]_<<vars, handlers, faults>>

OneStroke == {<<>>} \cup {<<s>> : s \in Stroke}
Pieces    == OneStroke \cup {<<s, s>> : s \in Stroke}
Strokes   == Permutations(Stroke)
=============================================================================
