----------------------------- MODULE PageJournal -----------------------------
(***************************************************************************)
(* The journal of one shared page: the committed and the active strokes,   *)
(* the table of applied commands, and the history of draw and erase        *)
(* actions that every participant can undo and redo on its own.            *)
(* (app/page-log/src/journal.rs and history.rs)                            *)
(*                                                                         *)
(* Simplifications, none of which touches a decision the code makes:       *)
(*  - a point is the Cell of the paper it lies on, an eraser path is the   *)
(*    set of Cells it rubs out, and erasing a stroke keeps the maximal     *)
(*    runs of points outside that set (the code also interpolates the      *)
(*    points where a segment is cut);                                      *)
(*  - the hash that names a rendered fragment is the triple it is computed *)
(*    from: the root, the erasers (a set: they are always hashed in the    *)
(*    order of the history) and the fragment (the point it starts at), so  *)
(*    that two names differ when their inputs do;                          *)
(*  - the background, the dimensions and the colour of a page are left     *)
(*    out: no operation of the journal changes them.                       *)
(***************************************************************************)
EXTENDS Integers, Sequences, FiniteSets, Functions, SequencesExt

CONSTANTS
  Participant,       \* participants of the share
  Owner,             \* the one with ParticipantRole::Owner
  RootId,            \* stroke ids that clients mint
  CommandId,         \* command ids that clients mint
  Cell,              \* places on the paper
  Batch,             \* the point batches that a client appends
  Region,            \* the sets of cells that an eraser path covers
  Baseline,          \* committed strokes of the page when it was shared
  MaxStrokePoints, MaxPagePoints, MaxStrokes, MaxActions,
  MaxRecordedPoints, MaxRecordedRubs, MaxRecordedTargets

VARIABLES
  strokes,           \* snapshot.strokes, in drawing order
  active,            \* snapshot.active_strokes, in the order they were begun
  revision,          \* snapshot.revision
  strokeCount,       \* stroke_count, maintained by increments
  pointCount,        \* point_count, maintained by increments
  commands,          \* commands: what each applied command id was answered
  actions,           \* history.actions
  undo, redo,        \* history.participants: each one's two stacks
  minted             \* (client side) the stroke ids that were ever begun

pageVars    == <<strokes, active, strokeCount, pointCount>>
historyVars == <<actions, undo, redo>>
vars        == <<pageVars, historyVars, revision, commands, minted>>

StrokeId    == RootId \X (SUBSET CommandId) \X Nat
Stroke      == [id : StrokeId, author : Participant, points : Seq(Cell)]
OriginalId(r) == <<r, {}, 0>>

Draw        == [kind : {"draw"}, id : CommandId, actor : Participant,
                active : BOOLEAN, stroke : Stroke]
Erasure     == [kind : {"erase"}, id : CommandId, actor : Participant,
                active : BOOLEAN, region : SUBSET Cell, targets : SUBSET StrokeId]
Applied     == [kind : {"begin", "append", "commit", "cancel", "set", "none"},
                actor : Participant, revision : Nat, about : SUBSET StrokeId]

IdsOf(s)    == {s[i].id : i \in DOMAIN s}
Distinct(s) == \A i, j \in DOMAIN s : s[i].id = s[j].id => i = j

ASSUME JournalAssumption ==
  /\ Owner \in Participant
  /\ Batch \subseteq Seq(Cell)
  /\ Region \subseteq SUBSET Cell
  /\ Baseline \in Seq(Stroke)
  /\ Distinct(Baseline)
  /\ \A i \in DOMAIN Baseline : /\ Baseline[i].points # <<>>
                                /\ Baseline[i].author = Owner
                                /\ \E r \in RootId : Baseline[i].id = OriginalId(r)
  /\ {MaxStrokePoints, MaxPagePoints, MaxStrokes, MaxActions,
      MaxRecordedPoints, MaxRecordedRubs, MaxRecordedTargets} \subseteq Nat

-----------------------------------------------------------------------------
(* Rendering: what the recorded actions make of the page. *)

IsDraw(a)  == a.kind = "draw"
IsErase(a) == a.kind = "erase"

ErasersOf(acts, id) ==
  {i \in DOMAIN acts : IsErase(acts[i]) /\ acts[i].active /\ id \in acts[i].targets}

(* One stroke under the active erasers that target it: itself if there are *)
(* none, else the maximal runs of its points that no eraser rubs out.      *)
RenderStroke(acts, root) ==
  LET erasers == ErasersOf(acts, root.id)
      rubbed  == UNION {acts[i].region : i \in erasers}
      kept    == {i \in DOMAIN root.points : root.points[i] \notin rubbed}
      stop(i) == CHOOSE e \in kept : i .. e \subseteq kept /\ e + 1 \notin kept
      run(i)  == [id     |-> <<root.id[1], {acts[k].id : k \in erasers}, i>>,
                  author |-> root.author,
                  points |-> SubSeq(root.points, i, stop(i))]
  IN  IF erasers = {} THEN <<root>>
      ELSE FlattenSeq([i \in DOMAIN root.points |->
             IF i \in kept /\ i - 1 \notin kept THEN <<run(i)>> ELSE <<>>])

(* The roots in the order they were drawn: the baseline, then the draws.   *)
RenderedStrokes(acts) ==
  FlattenSeq([i \in DOMAIN Baseline |-> RenderStroke(acts, Baseline[i])]
             \o [i \in DOMAIN acts |-> IF IsDraw(acts[i]) /\ acts[i].active
                                       THEN RenderStroke(acts, acts[i].stroke) ELSE <<>>])

ActiveRoots(acts) ==
  Range(Baseline) \cup
  {acts[i].stroke : i \in {j \in DOMAIN acts : IsDraw(acts[j]) /\ acts[j].active}}

TargetsOfAnyone(acts, p, region) ==                              \* a mutant
  LET hit(root) == LET left == RenderStroke(acts, root)
                   IN  \E k \in DOMAIN left : \E i \in DOMAIN left[k].points :
                         left[k].points[i] \in region
  IN  {root.id : root \in {r \in ActiveRoots(acts) : hit(r)}}

(* The roots an eraser of p changes: p's own, or anyone's for the owner.   *)
EraserTargets(acts, p, region) ==
  LET hit(root) == LET left == RenderStroke(acts, root)
                   IN  \E k \in DOMAIN left : \E i \in DOMAIN left[k].points :
                         left[k].points[i] \in region
  IN  {root.id : root \in {r \in ActiveRoots(acts) : (p = Owner \/ r.author = p) /\ hit(r)}}

-----------------------------------------------------------------------------
(* Sizes, and the limits a snapshot and a history are validated against. *)

PointTotal(s) == Len(FlattenSeq([i \in DOMAIN s |-> s[i].points]))

RecordedPoints(acts) ==
  PointTotal(Baseline)
    + Len(FlattenSeq([i \in DOMAIN acts |-> IF IsDraw(acts[i]) THEN acts[i].stroke.points
                                                               ELSE <<>>]))
Erasures(acts)        == {i \in DOMAIN acts : IsErase(acts[i])}
RecordedRubs(acts)    == Cardinality(UNION {{i} \X acts[i].region : i \in Erasures(acts)})
RecordedTargets(acts) == Cardinality(UNION {{i} \X acts[i].targets : i \in Erasures(acts)})

ValidSnapshot(committed, begun) ==
  LET all == committed \o begun
  IN  /\ Distinct(all)
      /\ \A i \in DOMAIN all : Len(all[i].points) <= MaxStrokePoints
      /\ Len(all) <= MaxStrokes
      /\ PointTotal(committed) + PointTotal(begun) <= MaxPagePoints

(* A share begins with a page that passed these checks, a page's points    *)
(* fit its history, and the cells under an eraser path are finitely many.  *)
ASSUME BaselineAssumption ==
  /\ ValidSnapshot(Baseline, <<>>)
  /\ MaxPagePoints <= MaxRecordedPoints
  /\ \A region \in Region : IsFiniteSet(region)

-----------------------------------------------------------------------------
Init ==
  /\ strokes     = Baseline
  /\ active      = <<>>
  /\ revision    = 0
  /\ strokeCount = Len(Baseline)
  /\ pointCount  = PointTotal(Baseline)
  /\ commands    = <<>>
  /\ actions     = <<>>
  /\ undo        = [p \in Participant |-> <<>>]
  /\ redo        = [p \in Participant |-> <<>>]
  /\ minted      = {r \in RootId : OriginalId(r) \in IdsOf(Baseline)}

(* What submit does first and last: a command id that is already remembered *)
(* is answered from the table and changes nothing, so that a second        *)
(* delivery is a stuttering step; a new one gets the next revision and is  *)
(* remembered. Each handler below applies the operation in between.        *)
RecordBeforeAdvancing(p, c, kind, about) ==                      \* a mutant
  /\ c \notin DOMAIN commands
  /\ revision' = revision + 1
  /\ commands' = [x \in DOMAIN commands \cup {c} |->
                    IF x = c THEN [kind |-> kind, actor |-> p,
                                   revision |-> revision, about |-> about]
                             ELSE commands[x]]

Record(p, c, kind, about) ==
  /\ c \notin DOMAIN commands
  /\ revision' = revision + 1
  /\ commands' = [x \in DOMAIN commands \cup {c} |->
                    IF x = c THEN [kind |-> kind, actor |-> p,
                                   revision |-> revision + 1, about |-> about]
                             ELSE commands[x]]

BeginStrokeAgain(p, c, r) ==                                     \* a mutant
  /\ Record(p, c, "begin", {OriginalId(r)})
  /\ strokeCount < MaxStrokes
  /\ OriginalId(r) \notin IdsOf(strokes) \cup IdsOf(active)
  /\ active' = Append(active, [id |-> OriginalId(r), author |-> p, points |-> <<>>])
  /\ strokeCount' = strokeCount + 1
  /\ minted' = minted \cup {r}
  /\ UNCHANGED <<strokes, pointCount, historyVars>>

BeginStroke(p, c, r) ==
  /\ Record(p, c, "begin", {OriginalId(r)})
  /\ r \notin minted                        \* clients mint an id once
  /\ strokeCount < MaxStrokes
  /\ OriginalId(r) \notin IdsOf(strokes) \cup IdsOf(active)
  /\ active' = Append(active, [id |-> OriginalId(r), author |-> p, points |-> <<>>])
  /\ strokeCount' = strokeCount + 1
  /\ minted' = minted \cup {r}
  /\ UNCHANGED <<strokes, pointCount, historyVars>>

AppendUncounted(p, c, i, first, batch) ==                        \* a mutant
  /\ Record(p, c, "append", {active[i].id})
  /\ active[i].author = p
  /\ batch # <<>>
  /\ Len(active[i].points) + Len(batch) <= MaxStrokePoints
  /\ first = Len(active[i].points)
  /\ active' = [active EXCEPT ![i].points = @ \o batch]
  /\ UNCHANGED <<strokes, strokeCount, pointCount, historyVars, minted>>

AppendStrokePoints(p, c, i, first, batch) ==
  /\ Record(p, c, "append", {active[i].id})
  /\ active[i].author = p
  /\ batch # <<>>
  /\ Len(active[i].points) + Len(batch) <= MaxStrokePoints
  /\ pointCount + Len(batch) <= MaxPagePoints
  /\ first = Len(active[i].points)
  /\ active' = [active EXCEPT ![i].points = @ \o batch]
  /\ pointCount' = pointCount + Len(batch)
  /\ UNCHANGED <<strokes, strokeCount, historyVars, minted>>

RecordActionUnbounded(p, action) ==                              \* a mutant
  /\ actions' = Append(actions, action)
  /\ undo' = [undo EXCEPT ![p] = Append(@, action.id)]
  /\ redo' = [redo EXCEPT ![p] = <<>>]

(* A new recorded action: it is active, it is what p undoes next, and what *)
(* p could redo is forgotten.                                              *)
RecordAction(p, action) ==
  /\ Len(actions) < MaxActions
  /\ actions' = Append(actions, action)
  /\ undo' = [undo EXCEPT ![p] = Append(@, action.id)]
  /\ redo' = [redo EXCEPT ![p] = <<>>]

CommitStroke(p, c, i) ==
  /\ Record(p, c, "commit", {active[i].id})
  /\ active[i].author = p
  /\ active[i].points # <<>>
  /\ RecordedPoints(actions) + Len(active[i].points) <= MaxRecordedPoints
  /\ RecordAction(p, [kind |-> "draw", id |-> c, actor |-> p,
                      active |-> TRUE, stroke |-> active[i]])
  /\ active' = RemoveAt(active, i)
  /\ strokes' = Append(strokes, active[i])
  /\ UNCHANGED <<strokeCount, pointCount, minted>>

CancelUncounted(p, c, i) ==                                      \* a mutant
  /\ Record(p, c, "cancel", {active[i].id})
  /\ active[i].author = p
  /\ active' = RemoveAt(active, i)
  /\ pointCount' = pointCount - Len(active[i].points)
  /\ UNCHANGED <<strokes, strokeCount, historyVars, minted>>

CancelStroke(p, c, i) ==
  /\ Record(p, c, "cancel", {active[i].id})
  /\ active[i].author = p
  /\ active' = RemoveAt(active, i)
  /\ pointCount' = pointCount - Len(active[i].points)
  /\ strokeCount' = strokeCount - 1
  /\ UNCHANGED <<strokes, historyVars, minted>>

SetOnlyCommittedCounts(rendered) ==                              \* a mutant
  /\ ValidSnapshot(rendered, active)
  /\ strokes' = rendered
  /\ strokeCount' = Len(rendered)
  /\ pointCount' = PointTotal(rendered)
  /\ UNCHANGED active

(* PageOperation::SetCommittedStrokes: refused as a whole, history and all, *)
(* when the page it would leave is not a valid one.                        *)
SetCommittedStrokes(rendered) ==
  /\ ValidSnapshot(rendered, active)
  /\ strokes' = rendered
  /\ strokeCount' = Len(rendered) + Len(active)
  /\ pointCount' = PointTotal(rendered) + PointTotal(active)
  /\ UNCHANGED active

Erase(p, c, region) ==
  LET targets == EraserTargets(actions, p, region)
  IN  /\ Record(p, c, "set", {})
      /\ targets # {}
      /\ RecordedRubs(actions) + Cardinality(region) <= MaxRecordedRubs
      /\ RecordedTargets(actions) + Cardinality(targets) <= MaxRecordedTargets
      /\ RecordAction(p, [kind |-> "erase", id |-> c, actor |-> p, active |-> TRUE,
                          region |-> region, targets |-> targets])
      /\ SetCommittedStrokes(RenderedStrokes(actions'))
      /\ UNCHANGED minted

(* An eraser that changes nothing leaves no action, and the redo stack.    *)
EraseNothing(p, c, region) ==
  /\ Record(p, c, "none", {})
  /\ EraserTargets(actions, p, region) = {}
  /\ RecordedRubs(actions) + Cardinality(region) <= MaxRecordedRubs
  /\ Len(actions) < MaxActions
  /\ UNCHANGED <<pageVars, historyVars, minted>>

ActionWith(acts, p, id, flag) ==
  \E i \in DOMAIN acts : acts[i].id = id /\ acts[i].actor = p /\ acts[i].active = flag

SetActive(acts, id, flag) ==
  [i \in DOMAIN acts |-> IF acts[i].id = id THEN [acts[i] EXCEPT !.active = flag]
                                            ELSE acts[i]]

UndoKeepingPage(p, c) ==                                         \* a mutant
  /\ Record(p, c, "set", {})
  /\ undo[p] # <<>>
  /\ ActionWith(actions, p, Last(undo[p]), TRUE)
  /\ actions' = SetActive(actions, Last(undo[p]), FALSE)
  /\ undo' = [undo EXCEPT ![p] = Front(@)]
  /\ redo' = [redo EXCEPT ![p] = Append(@, Last(undo[p]))]
  /\ UNCHANGED <<pageVars, minted>>

UndoKeepingEntry(p, c) ==                                        \* a mutant
  /\ Record(p, c, "set", {})
  /\ undo[p] # <<>>
  /\ ActionWith(actions, p, Last(undo[p]), TRUE)
  /\ actions' = SetActive(actions, Last(undo[p]), FALSE)
  /\ redo' = [redo EXCEPT ![p] = Append(@, Last(undo[p]))]
  /\ SetCommittedStrokes(RenderedStrokes(actions'))
  /\ UNCHANGED <<undo, minted>>

Undo(p, c) ==
  /\ Record(p, c, "set", {})
  /\ undo[p] # <<>>
  /\ ActionWith(actions, p, Last(undo[p]), TRUE)
  /\ actions' = SetActive(actions, Last(undo[p]), FALSE)
  /\ undo' = [undo EXCEPT ![p] = Front(@)]
  /\ redo' = [redo EXCEPT ![p] = Append(@, Last(undo[p]))]
  /\ SetCommittedStrokes(RenderedStrokes(actions'))
  /\ UNCHANGED minted

RedoOnce(p, c) ==                                                \* a mutant
  /\ Record(p, c, "set", {})
  /\ redo[p] # <<>>
  /\ ActionWith(actions, p, Last(redo[p]), FALSE)
  /\ actions' = SetActive(actions, Last(redo[p]), TRUE)
  /\ redo' = [redo EXCEPT ![p] = Front(@)]
  /\ SetCommittedStrokes(RenderedStrokes(actions'))
  /\ UNCHANGED <<undo, minted>>

Redo(p, c) ==
  /\ Record(p, c, "set", {})
  /\ redo[p] # <<>>
  /\ ActionWith(actions, p, Last(redo[p]), FALSE)
  /\ actions' = SetActive(actions, Last(redo[p]), TRUE)
  /\ redo' = [redo EXCEPT ![p] = Front(@)]
  /\ undo' = [undo EXCEPT ![p] = Append(@, Last(redo[p]))]
  /\ SetCommittedStrokes(RenderedStrokes(actions'))
  /\ UNCHANGED minted

Submit(p, c) ==
  \/ \E r \in RootId : BeginStroke(p, c, r)
  \/ \E i \in DOMAIN active, first \in 0 .. MaxStrokePoints, batch \in Batch :
       AppendStrokePoints(p, c, i, first, batch)
  \/ \E i \in DOMAIN active : CommitStroke(p, c, i)
  \/ \E i \in DOMAIN active : CancelStroke(p, c, i)
  \/ \E region \in Region : Erase(p, c, region) \/ EraseNothing(p, c, region)
  \/ Undo(p, c)
  \/ Redo(p, c)

Next == \E p \in Participant, c \in CommandId : Submit(p, c)
Spec == Init /\ [][Next]_vars

-----------------------------------------------------------------------------
HistoryTypeOK ==
  /\ active \in Seq(Stroke)
  /\ actions \in Seq(Draw \cup Erasure)
  /\ undo \in [Participant -> Seq(CommandId)]
  /\ redo \in [Participant -> Seq(CommandId)]
  /\ revision \in Nat
  /\ DOMAIN commands \subseteq CommandId
  /\ \A c \in DOMAIN commands : commands[c] \in Applied
  /\ minted \subseteq RootId

TypeOK ==
  /\ HistoryTypeOK
  /\ strokes \in Seq(Stroke) /\ strokeCount \in Nat /\ pointCount \in Nat

(* The parts of PageHistory::validate, which a relay runs on every page it *)
(* loads and whose failure loses the share.                                *)
ActionIdsAreDistinct == Distinct(actions)

DrawsAreWhole ==
  \A i \in DOMAIN actions : IsDraw(actions[i]) =>
    actions[i].stroke.author = actions[i].actor /\ actions[i].stroke.points # <<>>

RootIdsAreDistinct ==
  \A i \in DOMAIN actions : IsDraw(actions[i]) =>
    /\ actions[i].stroke.id \notin IdsOf(Baseline)
    /\ \A j \in DOMAIN actions :
         IsDraw(actions[j]) /\ actions[j].stroke.id = actions[i].stroke.id => i = j

TargetsAreRoots ==
  \A i \in DOMAIN actions : IsErase(actions[i]) =>
    /\ actions[i].targets # {}
    /\ \A id \in actions[i].targets :
         \/ id \in IdsOf(Baseline)
         \/ \E j \in DOMAIN actions : IsDraw(actions[j]) /\ actions[j].stroke.id = id

StacksMatchActions ==
  /\ \A p \in Participant : \A i \in DOMAIN undo[p] : ActionWith(actions, p, undo[p][i], TRUE)
  /\ \A p \in Participant : \A i \in DOMAIN redo[p] : ActionWith(actions, p, redo[p][i], FALSE)

NoActionIsStackedTwice ==
  \A p \in Participant : IsInjective(undo[p]) /\ IsInjective(redo[p])

ActiveActionsAreStacked ==
  \A i \in DOMAIN actions : actions[i].active =>
    \E j \in DOMAIN undo[actions[i].actor] : undo[actions[i].actor][j] = actions[i].id

HistoryIsValid ==
  /\ ActionIdsAreDistinct /\ DrawsAreWhole /\ RootIdsAreDistinct /\ TargetsAreRoots
  /\ StacksMatchActions /\ NoActionIsStackedTwice /\ ActiveActionsAreStacked

(* Every identifier in use is accounted for: actions carry the ids of      *)
(* commands that are remembered, strokes the ids that were minted, and a   *)
(* stroke in progress is neither a root of the history nor another one in  *)
(* progress. It is what makes HistoryIsValid inductive.                    *)
DrawnIds == {actions[i].stroke.id : i \in {j \in DOMAIN actions : IsDraw(actions[j])}}

IdsAreFresh ==
  /\ \A i \in DOMAIN actions : actions[i].id \in DOMAIN commands
  /\ \A id \in IdsOf(Baseline) \cup DrawnIds \cup IdsOf(active) :
       \E r \in minted : id = OriginalId(r)
  /\ Distinct(active)
  /\ \A i \in DOMAIN active : active[i].id \notin IdsOf(Baseline) \cup DrawnIds

(* What is on the page is exactly what the recorded actions render to,     *)
(* although a commit only appends a stroke and only erase, undo and redo   *)
(* recompute the page (the last check of PageHistory::validate).           *)
PageIsRendered == strokes = RenderedStrokes(actions)

HistoryIsWithinLimits ==
  /\ Len(actions) <= MaxActions
  /\ RecordedPoints(actions) <= MaxRecordedPoints
  /\ RecordedRubs(actions) <= MaxRecordedRubs
  /\ RecordedTargets(actions) <= MaxRecordedTargets

(* Whatever legal commands were submitted, the page that is stored then    *)
(* passes PageJournal::revalidate when the relay restarts.                 *)
PageIsReloadable ==
  /\ ValidSnapshot(strokes, active)
  /\ HistoryIsValid
  /\ HistoryIsWithinLimits
  /\ PageIsRendered
  /\ \A c \in DOMAIN commands : commands[c].revision \in 1 .. revision

(* The two counters kept by increments are the sizes of the page, so that  *)
(* the limits are enforced on what is there and no decrement underflows.   *)
CountsMatchPage ==
  /\ strokeCount = Len(strokes) + Len(active)
  /\ pointCount = PointTotal(strokes) + PointTotal(active)

(* Every revision was given to exactly one command: a command delivered    *)
(* twice is applied once.                                                  *)
EveryRevisionIsOneCommand ==
  \A n \in 1 .. revision : \E c \in DOMAIN commands :
    commands[c].revision = n /\ \A d \in DOMAIN commands \ {c} : commands[d].revision # n

(* "Guests may replace only their own strokes; the black owner may replace *)
(* any stroke" (docs/architecture.md): whatever a guest does, undo and     *)
(* redo included, the strokes of everyone else stay, cut as they were and  *)
(* in the same order.                                                      *)
ByOthers(s, p) ==
  FlattenSeq([i \in DOMAIN s |-> IF s[i].author = p THEN <<>> ELSE <<s[i]>>])
GuestsLeaveOthersAlone ==
  [][\A c \in DOMAIN commands' \ DOMAIN commands :
       LET p == commands'[c].actor
       IN  p # Owner => ByOthers(strokes', p) = ByOthers(strokes, p)]_vars

(* The undo and the redo that HistoryAvailability offers are refused for    *)
(* no other reason than the size of the page that would result: the action *)
(* on the stack is there, is the participant's and has the expected state, *)
(* and no stroke it brings back collides with one that is being drawn.     *)
FitsOnPage(committed, begun) ==
  /\ Len(committed) + Len(begun) <= MaxStrokes
  /\ PointTotal(committed) + PointTotal(begun) <= MaxPagePoints
CanBecome(rendered) == FitsOnPage(rendered, active) => ValidSnapshot(rendered, active)
CanUndo(p) == undo[p] # <<>>
CanRedo(p) == redo[p] # <<>>
OfferedHistoryIsAccepted ==
  \A p \in Participant :
    /\ CanUndo(p) =>
         /\ ActionWith(actions, p, Last(undo[p]), TRUE)
         /\ CanBecome(RenderedStrokes(SetActive(actions, Last(undo[p]), FALSE)))
    /\ CanRedo(p) =>
         /\ ActionWith(actions, p, Last(redo[p]), FALSE)
         /\ CanBecome(RenderedStrokes(SetActive(actions, Last(redo[p]), TRUE)))
=============================================================================
