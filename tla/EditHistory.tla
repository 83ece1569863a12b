----------------------------- MODULE EditHistory -----------------------------
(***************************************************************************)
(* The undo and redo histories that the tablet keeps per page, as values:  *)
(* a sequence of histories, the oldest first, and what its operations make *)
(* of it. (tablet/page_edit_histories.rs)                                  *)
(*                                                                         *)
(* An edit is remembered as the one range of the page's strokes that it    *)
(* replaced, and it is taken back only where the page still has what the   *)
(* edit put there.                                                         *)
(***************************************************************************)
EXTENDS Integers, FiniteSetsExt, SequencesExt

CONSTANTS
  MaxActions,     \* MAXIMUM_ACTIONS_PER_PAGE
  MaxHistories    \* MAXIMUM_PAGES_WITH_HISTORY

ASSUME HistoryAssumption ==
  /\ MaxActions \in Nat \ {0}
  /\ MaxHistories \in Nat \ {0}

-----------------------------------------------------------------------------
(* StrokeSequenceReplacement                                               *)

CommonPrefix(s, t) ==
  Max({k \in 0 .. Min({Len(s), Len(t)}) : SubSeq(s, 1, k) = SubSeq(t, 1, k)})

(* The common suffix of what follows the first `prefix' strokes.           *)
CommonSuffix(s, t, prefix) ==
  Max({k \in 0 .. Min({Len(s), Len(t)}) - prefix :
         SubSeq(s, Len(s) - k + 1, Len(s)) = SubSeq(t, Len(t) - k + 1, Len(t))})

BetweenOverlapping(before, after) ==                             \* a mutant
  LET prefix == CommonPrefix(before, after)
      suffix == CommonSuffix(before, after, 0)
  IN  [start    |-> prefix,
       removed  |-> SubSeq(before, prefix + 1, Len(before) - suffix),
       inserted |-> SubSeq(after, prefix + 1, Len(after) - suffix)]

Between(before, after) ==
  LET prefix == CommonPrefix(before, after)
      suffix == CommonSuffix(before, after, prefix)
  IN  [start    |-> prefix,
       removed  |-> SubSeq(before, prefix + 1, Len(before) - suffix),
       inserted |-> SubSeq(after, prefix + 1, Len(after) - suffix)]

(* replace_matching, in two halves: its check and its splice.              *)
Matches(s, start, expected) ==
  /\ start + Len(expected) <= Len(s)
  /\ SubSeq(s, start + 1, start + Len(expected)) = expected
Spliced(s, start, expected, replacement) ==
  SubSeq(s, 1, start) \o replacement \o SubSeq(s, start + Len(expected) + 1, Len(s))

Reversible(s, r)   == Matches(s, r.start, r.inserted)
Reversed(s, r)     == Spliced(s, r.start, r.inserted, r.removed)
Forwardable(s, r)  == Matches(s, r.start, r.removed)
Forwarded(s, r)    == Spliced(s, r.start, r.removed, r.inserted)

-----------------------------------------------------------------------------
(* PageEditHistories. A page is identified by its document and its index.  *)

NewHistory(id)      == [identity |-> id, undo |-> <<>>, redo |-> <<>>]
Identities(hs)      == {hs[k].identity : k \in DOMAIN hs}
HistoryOf(hs, id)   == IF id \in Identities(hs)
                       THEN hs[CHOOSE k \in DOMAIN hs : hs[k].identity = id]
                       ELSE NewHistory(id)
Updated(hs, h)      == [k \in DOMAIN hs |-> IF hs[k].identity = h.identity THEN h ELSE hs[k]]

(* history_mut_or_insert: a page without a history takes the place of the  *)
(* page whose history is the oldest, if there are too many.                *)
WithHistory(hs, id) ==
  IF id \in Identities(hs) THEN hs
  ELSE Append(IF Len(hs) >= MaxHistories THEN Tail(hs) ELSE hs, NewHistory(id))

AllActions(undo)    == undo                                      \* a mutant
LatestActions(undo) == IF Len(undo) > MaxActions THEN Tail(undo) ELSE undo

(* record: an edit that changed nothing leaves everything as it was, redo  *)
(* included.                                                               *)
Recorded(hs, id, before, after) ==
  LET h == HistoryOf(hs, id)
  IN  IF before = after THEN hs
      ELSE Updated(WithHistory(hs, id),
                   [h EXCEPT !.undo = LatestActions(Append(@, Between(before, after))),
                             !.redo = <<>>])

CanUndo(h, s) == h.undo # <<>> /\ Reversible(s, Last(h.undo))
CanRedo(h, s) == h.redo # <<>> /\ Forwardable(s, Last(h.redo))

AfterUndo(h) == [h EXCEPT !.undo = Front(@), !.redo = Append(@, Last(h.undo))]
AfterRedo(h) == [h EXCEPT !.redo = Front(@), !.undo = Append(@, Last(h.redo))]

Unshifted(hs, doc, index) == hs                                  \* a mutant

(* insert_page: the histories of the pages from index on move with them.   *)
Shifted(hs, doc, index) ==
  [k \in DOMAIN hs |->
     IF hs[k].identity[1] = doc /\ hs[k].identity[2] >= index
     THEN [hs[k] EXCEPT !.identity = <<doc, @[2] + 1>>] ELSE hs[k]]

(* clear: a page has one history at most.                                  *)
Cleared(hs, id) ==
  IF id \in Identities(hs) THEN RemoveAt(hs, CHOOSE k \in DOMAIN hs : hs[k].identity = id)
  ELSE hs

-----------------------------------------------------------------------------
(* What a history must be.                                                 *)

(* All of the edits can be taken back, the latest first.                   *)
Inverted(r) == [start |-> r.start, removed |-> r.inserted, inserted |-> r.removed]
CanAllBeTakenBack(s, edits) ==
  LET nth(k)  == edits[Len(edits) - k + 1]
      page[k \in 0 .. Len(edits)] == IF k = 0 THEN s ELSE Reversed(page[k - 1], nth(k))
  IN  \A k \in DOMAIN edits : Reversible(page[k - 1], nth(k))

(* Every edit can be taken back, the latest first, and every edit that was *)
(* taken back can be made again.                                           *)
Fits(s, h) ==
  /\ CanAllBeTakenBack(s, h.undo)
  /\ CanAllBeTakenBack(s, [k \in DOMAIN h.redo |-> Inverted(h.redo[k])])

(* PageEditHistories::validate, which save and restore ask for, and that   *)
(* no page has two histories.                                              *)
HistoriesAreValid(hs) ==
  /\ Len(hs) <= MaxHistories
  /\ \A k \in DOMAIN hs : Len(hs[k].undo) <= MaxActions /\ Len(hs[k].redo) <= MaxActions
  /\ \A j, k \in DOMAIN hs : hs[j].identity = hs[k].identity => j = k
=============================================================================
