--------------------------- MODULE ShareStoreProofs ---------------------------
(***************************************************************************)
(* A share in memory and in its file, for every instance of ShareStore:    *)
(*  1. what the file keeps: what was announced, who was let in, that the   *)
(*     share was revoked, and the page between two handlers (StoreInv);    *)
(*  2. the page, the handler's copy of it and the file are pages that can  *)
(*     be reloaded, so that no restart loses a share by its page;          *)
(*  3. types;                                                              *)
(*  4. who answers for the strokes in progress (OrphanInv);                *)
(*  5. when a share is lost (LossInv).                                     *)
(***************************************************************************)
EXTENDS ShareStore, PageJournalProofs, TLAPS

-----------------------------------------------------------------------------
(* The inductive invariant.                                                *)

(* Every answer of the table f is one of the table g.                      *)
Within(f, g) == \A c \in DOMAIN f : c \in DOMAIN g /\ g[c] = f[c]

SamePage(m, n) == /\ m.strokes = n.strokes /\ m.actions = n.actions
                  /\ m.undo = n.undo /\ m.redo = n.redo

ModesAreRight ==
  /\ mode \in {"serving", "submitting", "finalizing", "loading", "skipped", "lost"}
  /\ mode \in {"submitting", "finalizing"} <=> previous # {}
FileIsAShare == DOMAIN disk = DOMAIN Memory

(* The copy that a handler goes back to, while it holds the lock: nothing  *)
(* but the journal has changed since, and the file has the page of the copy*)
CopyIsSafe ==
  \A m \in previous :
    /\ m.members = members /\ ~revoked /\ ~m.revoked
    /\ Within(announced, m.commands) /\ Within(m.commands, commands)
    /\ ~torn => SamePage(disk, m)
    /\ mode = "finalizing" /\ DOMAIN commands \subseteq DOMAIN m.commands => SamePage(Memory, m)

RevocationIsStored == ended => disk.revoked /\ revoked

(* A share without strokes in progress is served as it was loaded.         *)
LoadedPageIsOnDisk ==
  mode = "loading" /\ disk.active = <<>> => active = <<>> /\ SamePage(disk, Memory)

StoreInv ==
  /\ ModesAreRight /\ FileIsAShare /\ CopyIsSafe /\ RevocationIsStored /\ LoadedPageIsOnDisk
  /\ AcknowledgedCommandsSurvive /\ SessionsAreHonoured /\ CommittedPageIsOnDisk

-----------------------------------------------------------------------------
(* What the journal's actions do to the table of commands and to the page. *)

LEMMA RecordAdds ==
  ASSUME NEW p, NEW c, NEW kind, NEW about, Record(p, c, kind, about)
  PROVE  c \notin DOMAIN commands /\ c \in DOMAIN commands' /\ Within(commands, commands')
BY DEF Record, Within

(* Begin, append and cancel change neither page nor history.             *)
LEMMA TransientKeepsPage ==
  ASSUME NEW k, NEW c, SubmitTransient(k, c)
  PROVE  Within(commands, commands') /\ UNCHANGED <<strokes, historyVars>>
<1>1. ASSUME NEW p, NEW r, BeginStroke(p, c, r)
      PROVE  Within(commands, commands') /\ UNCHANGED <<strokes, historyVars>>
  BY <1>1, RecordAdds DEF BeginStroke
<1>2. ASSUME NEW p, NEW i, NEW first, NEW batch, AppendStrokePoints(p, c, i, first, batch)
      PROVE  Within(commands, commands') /\ UNCHANGED <<strokes, historyVars>>
  BY <1>2, RecordAdds DEF AppendStrokePoints
<1>3. ASSUME NEW p, NEW i, CancelStroke(p, c, i)
      PROVE  Within(commands, commands') /\ UNCHANGED <<strokes, historyVars>>
  BY <1>3, RecordAdds DEF CancelStroke
<1> QED BY <1>1, <1>2, <1>3 DEF SubmitTransient

(* A durable command adds an answer.                                     *)
LEMMA DurableAdds ==
  ASSUME NEW k, NEW c, SubmitDurable(k, c)
  PROVE  Within(commands, commands')
<1>1. ASSUME NEW p, NEW i, CommitStroke(p, c, i) PROVE Within(commands, commands')
  BY <1>1, RecordAdds DEF CommitStroke
<1>2. ASSUME NEW p, NEW region, Erase(p, c, region) PROVE Within(commands, commands')
  BY <1>2, RecordAdds DEF Erase
<1>3. ASSUME NEW p, NEW region, EraseNothing(p, c, region) PROVE Within(commands, commands')
  BY <1>3, RecordAdds DEF EraseNothing
<1>4. ASSUME NEW p, Undo(p, c) PROVE Within(commands, commands')
  BY <1>4, RecordAdds DEF Undo
<1>5. ASSUME NEW p, Redo(p, c) PROVE Within(commands, commands')
  BY <1>5, RecordAdds DEF Redo
<1> QED BY <1>1, <1>2, <1>3, <1>4, <1>5 DEF SubmitDurable

(* Finishing a stroke adds an answer.                                    *)
LEMMA FinalizeAdds ==
  ASSUME NEW p, NEW c, NEW i, Finalize(p, c, i)
  PROVE  c \notin DOMAIN commands /\ c \in DOMAIN commands' /\ Within(commands, commands')
<1>1. CASE CancelStroke(p, c, i) BY <1>1, RecordAdds DEF CancelStroke
<1>2. CASE CommitStroke(p, c, i) BY <1>2, RecordAdds DEF CommitStroke
<1> QED BY <1>1, <1>2 DEF Finalize

(* Tables that grow have all that the first one had.                     *)
LEMMA WithinIsTransitive ==
  ASSUME NEW f, NEW g, NEW h, Within(f, g), Within(g, h)
  PROVE  Within(f, h)
BY DEF Within

(* What is announced is what the table says.                               *)
LEMMA AnnounceKeeps ==
  ASSUME NEW new, new \subseteq DOMAIN commands, Within(announced, commands), Announce(new)
  PROVE  Within(announced', commands)
BY DEF Within, Announce

(* What a handler applied is in the table.                               *)
LEMMA NewlyAppliedIsInTable == NewlyApplied \subseteq DOMAIN commands
BY DEF NewlyApplied

(* The fields of a share that are in memory.                               *)
LEMMA MemoryFields ==
  /\ Memory.strokes = strokes /\ Memory.active = active /\ Memory.commands = commands
  /\ Memory.actions = actions /\ Memory.undo = undo /\ Memory.redo = redo
  /\ Memory.members = members /\ Memory.revoked = revoked
  /\ DOMAIN Memory = {"strokes", "active", "revision", "strokeCount", "pointCount", "commands",
                      "actions", "undo", "redo", "members", "revoked"}
BY DEF Memory

(* Survival of what was announced, in terms of tables.                   *)
LEMMA Survive ==
  AcknowledgedCommandsSurvive <=> Within(announced, disk.commands) /\ Within(announced, commands)
BY DEF AcknowledgedCommandsSurvive, Within

-----------------------------------------------------------------------------
(* Every step keeps the invariant. First those that touch nothing that it  *)
(* speaks of.                                                              *)

LEMMA InitHolds == StoreInit => StoreInv
BY MemoryFields DEF StoreInit, Init, StoreInv, ModesAreRight, FileIsAShare, CopyIsSafe, RevocationIsStored,
   LoadedPageIsOnDisk, AcknowledgedCommandsSurvive, SessionsAreHonoured, CommittedPageIsOnDisk

(* Steps that change nothing the invariant speaks of.                    *)
LEMMA Frame ==
  ASSUME StoreInv, UNCHANGED <<strokes, active, historyVars, commands, lock, members, revoked, disk, torn,
                               sessions, announced, ended>>
  PROVE  StoreInv'
BY DEF StoreInv, ModesAreRight, FileIsAShare, CopyIsSafe, RevocationIsStored, LoadedPageIsOnDisk,
   AcknowledgedCommandsSurvive, SessionsAreHonoured, CommittedPageIsOnDisk, Within, SamePage, Memory,
   historyVars, lock

(* Connecting, delivering again and the passing of time.                 *)
LEMMA QuietStep ==
  ASSUME StoreInv,
         \/ Expire \/ UNCHANGED storeVars
         \/ \E k \in Connection : (\E p \in Participant : Connect(k, p)) \/ \E c \in DOMAIN commands : Redeliver(k, c)
  PROVE  StoreInv'
<1>1. UNCHANGED <<strokes, active, historyVars, commands, lock, members, revoked, disk, torn,
                  sessions, announced, ended>>
  BY DEF Expire, Connect, Redeliver, storeVars, vars, pageVars, file, observers
<1> QED BY <1>1, Frame

(* Begin, append and cancel.                                             *)
LEMMA TransientStep ==
  ASSUME StoreInv, NEW k, NEW c, SubmitTransient(k, c)
  PROVE  StoreInv'
<1>1. Within(commands, commands') /\ UNCHANGED <<strokes, historyVars>> BY TransientKeepsPage
<1>2. UNCHANGED <<lock, members, revoked, disk, torn, sessions, announced, ended>> /\ mode = "serving"
  BY DEF SubmitTransient, file, observers
<1>3. previous = {} BY <1>2 DEF StoreInv, ModesAreRight
<1>4. ModesAreRight' /\ FileIsAShare' /\ CopyIsSafe' /\ RevocationIsStored' /\ LoadedPageIsOnDisk'
  BY <1>2, <1>3 DEF StoreInv, ModesAreRight, FileIsAShare, CopyIsSafe, RevocationIsStored,
     LoadedPageIsOnDisk, Memory, lock
<1>5. AcknowledgedCommandsSurvive'
  BY <1>1, <1>2 DEF StoreInv, AcknowledgedCommandsSurvive, Within
<1>6. SessionsAreHonoured' /\ CommittedPageIsOnDisk'
  BY <1>1, <1>2 DEF StoreInv, SessionsAreHonoured, CommittedPageIsOnDisk, historyVars, lock
<1> QED BY <1>4, <1>5, <1>6 DEF StoreInv

-----------------------------------------------------------------------------
(* A durable command, from the change in memory to its answer.             *)

LEMMA SubmitStep ==
  ASSUME StoreInv, NEW k, NEW c, SubmitDurable(k, c)
  PROVE  StoreInv'
<1>1. Within(commands, commands') BY DurableAdds
<1>2. /\ mode = "serving" /\ mode' = "submitting" /\ previous' = {Memory} /\ ~revoked
      /\ UNCHANGED <<members, revoked, disk, torn, sessions, announced, ended>>
  BY DEF SubmitDurable, Hold, RequireActive, file, observers
<1>3. ModesAreRight' /\ FileIsAShare' /\ RevocationIsStored' /\ LoadedPageIsOnDisk' /\ CommittedPageIsOnDisk'
  BY <1>2 DEF StoreInv, ModesAreRight, FileIsAShare, RevocationIsStored, LoadedPageIsOnDisk,
     CommittedPageIsOnDisk, Memory
<1>4. CopyIsSafe'
  <2>1. Within(announced, Memory.commands) /\ (~torn => SamePage(disk, Memory))
    BY <1>2, MemoryFields, Survive DEF StoreInv, CommittedPageIsOnDisk, SamePage
  <2> QED BY <1>1, <1>2, <2>1, MemoryFields DEF CopyIsSafe
<1>5. AcknowledgedCommandsSurvive' BY <1>1, <1>2 DEF StoreInv, AcknowledgedCommandsSurvive, Within
<1>6. SessionsAreHonoured' BY <1>2 DEF StoreInv, SessionsAreHonoured
<1> QED BY <1>3, <1>4, <1>5, <1>6 DEF StoreInv

(* A write that succeeds in the middle of a handler, and what it announces.*)
LEMMA WriteStep ==
  ASSUME StoreInv, mode \in {"submitting", "finalizing"}, UNCHANGED <<vars, members, revoked>>,
         WriteSucceeds, Announce(NewlyApplied), Release, UNCHANGED <<sessions, ended>>
  PROVE  StoreInv'
<1>1. /\ disk' = Memory /\ Memory' = Memory /\ mode' = "serving" /\ previous' = {}
      /\ UNCHANGED <<strokes, active, historyVars, commands, members, revoked, sessions, ended>>
  BY DEF WriteSucceeds, Memory, Release, vars, pageVars, historyVars
<1>2. ModesAreRight' /\ FileIsAShare' /\ CopyIsSafe' /\ LoadedPageIsOnDisk'
  BY <1>1 DEF ModesAreRight, FileIsAShare, CopyIsSafe, LoadedPageIsOnDisk
<1>3. RevocationIsStored'
  BY <1>1, MemoryFields DEF StoreInv, RevocationIsStored
<1>4. AcknowledgedCommandsSurvive'
  <2>1. Within(announced', commands)
    BY AnnounceKeeps, NewlyAppliedIsInTable, Survive DEF StoreInv
  <2> QED BY <1>1, <2>1, MemoryFields DEF AcknowledgedCommandsSurvive, Within
<1>5. SessionsAreHonoured' /\ CommittedPageIsOnDisk'
  BY <1>1, MemoryFields DEF StoreInv, SessionsAreHonoured, CommittedPageIsOnDisk, historyVars
<1> QED BY <1>2, <1>3, <1>4, <1>5 DEF StoreInv

(* A handler that goes back to its copy, whether or not its failed write   *)
(* had taken effect.                                                       *)
LEMMA RestoreStep ==
  ASSUME StoreInv, mode \in {"submitting", "finalizing"}, \A m \in previous : Restore(m), Release,
         UNCHANGED <<sessions, announced, ended>>,
         WriteFails(Memory) \/ UNCHANGED <<disk, torn>>
  PROVE  StoreInv'
<1>1. PICK m \in previous : TRUE BY DEF StoreInv, ModesAreRight
<1>2. /\ m.members = members /\ ~revoked /\ ~m.revoked
      /\ Within(announced, m.commands) /\ Within(m.commands, commands)
      /\ ~torn => SamePage(disk, m)
  BY <1>1 DEF StoreInv, CopyIsSafe
<1>3. /\ strokes' = m.strokes /\ actions' = m.actions /\ undo' = m.undo /\ redo' = m.redo
      /\ commands' = m.commands /\ members' = members
      /\ mode' = "serving" /\ previous' = {}
  BY <1>1, <1>2 DEF Restore, Release
<1>4. disk' \in {disk, Memory} /\ (~torn' => ~torn /\ disk' = disk)
  <2>1. CASE WriteFails(Memory)
    <3>1. torn' = (torn \/ disk' # disk) /\ disk' \in {disk, Memory} BY <2>1 DEF WriteFails
    <3> QED BY <3>1
  <2>2. CASE UNCHANGED <<disk, torn>> BY <2>2
  <2> QED BY <2>1, <2>2
<1>5. ModesAreRight' /\ CopyIsSafe' /\ LoadedPageIsOnDisk'
  BY <1>3 DEF ModesAreRight, CopyIsSafe, LoadedPageIsOnDisk
<1>6. FileIsAShare'
  BY <1>4, MemoryFields DEF StoreInv, FileIsAShare, Memory
<1>7. RevocationIsStored' BY <1>2 DEF StoreInv, RevocationIsStored
<1>8. AcknowledgedCommandsSurvive'
  <2>1. Within(announced, disk.commands) /\ Within(announced, commands) BY Survive DEF StoreInv
  <2>2. Within(announced, disk'.commands) BY <1>4, <2>1, MemoryFields
  <2> QED BY <1>2, <1>3, <2>2 DEF AcknowledgedCommandsSurvive, Within
<1>9. SessionsAreHonoured'
  BY <1>3, <1>4, MemoryFields DEF StoreInv, SessionsAreHonoured
<1>10. CommittedPageIsOnDisk'
  BY <1>2, <1>3, <1>4 DEF CommittedPageIsOnDisk, SamePage
<1> QED BY <1>5, <1>6, <1>7, <1>8, <1>9, <1>10 DEF StoreInv

LEMMA SubmissionEnds ==
  ASSUME StoreInv, PersistSubmission \/ RejectSubmission
  PROVE  StoreInv'
<1>1. CASE PersistSubmission BY <1>1, WriteStep DEF PersistSubmission
<1>2. CASE RejectSubmission BY <1>2, RestoreStep DEF RejectSubmission, observers
<1> QED BY <1>1, <1>2

-----------------------------------------------------------------------------
(* A connection that closes, and the strokes that it had begun.            *)

LEMMA DisconnectStep ==
  ASSUME StoreInv, NEW k, Disconnect(k)
  PROVE  StoreInv'
<1>1. CASE UNCHANGED lock
  <2>1. UNCHANGED <<strokes, active, historyVars, commands, lock, members, revoked, disk, torn,
                    sessions, announced, ended>>
    BY <1>1 DEF Disconnect, vars, pageVars, file, observers
  <2> QED BY <2>1, Frame
<1>2. CASE Hold("finalizing", k) /\ RequireActive
  <2>1. /\ mode = "serving" /\ mode' = "finalizing" /\ previous' = {Memory} /\ ~revoked
        /\ UNCHANGED <<strokes, active, historyVars, commands, members, revoked, disk, torn,
                       sessions, announced, ended>>
    BY <1>2 DEF Disconnect, Hold, RequireActive, vars, pageVars, file, observers
  <2>2. Memory' = Memory BY <1>2 DEF Disconnect, Memory, vars, pageVars, historyVars
  <2>3. ModesAreRight' /\ FileIsAShare' /\ RevocationIsStored' /\ LoadedPageIsOnDisk'
        /\ CommittedPageIsOnDisk' /\ SessionsAreHonoured' /\ AcknowledgedCommandsSurvive'
    BY <2>1, <2>2 DEF StoreInv, ModesAreRight, FileIsAShare, RevocationIsStored, LoadedPageIsOnDisk,
       CommittedPageIsOnDisk, SessionsAreHonoured, AcknowledgedCommandsSurvive
  <2>4. Within(announced, Memory.commands) /\ (~torn => SamePage(disk, Memory))
    BY <2>1, MemoryFields, Survive DEF StoreInv, CommittedPageIsOnDisk, SamePage
  <2>5. SamePage(Memory, Memory) /\ Within(commands, commands) BY DEF SamePage, Within
  <2>6. CopyIsSafe' BY <2>1, <2>2, <2>4, <2>5, MemoryFields DEF CopyIsSafe
  <2> QED BY <2>3, <2>6 DEF StoreInv
<1> QED BY <1>1, <1>2 DEF Disconnect

LEMMA FinalizeStep ==
  ASSUME StoreInv, NEW c, FinalizeStroke(c)
  PROVE  StoreInv'
<1>1. c \notin DOMAIN commands /\ c \in DOMAIN commands' /\ Within(commands, commands')
  BY FinalizeAdds DEF FinalizeStroke
<1>2. /\ mode = "finalizing" /\ mode' = mode /\ previous' = previous
      /\ UNCHANGED <<members, revoked, disk, torn, sessions, announced, ended>>
  BY DEF FinalizeStroke, lock, file, observers
<1>3. ModesAreRight' /\ FileIsAShare' /\ RevocationIsStored' /\ LoadedPageIsOnDisk'
      /\ CommittedPageIsOnDisk' /\ SessionsAreHonoured'
  BY <1>2 DEF StoreInv, ModesAreRight, FileIsAShare, RevocationIsStored, LoadedPageIsOnDisk,
     CommittedPageIsOnDisk, SessionsAreHonoured, Memory
<1>4. AcknowledgedCommandsSurvive' BY <1>1, <1>2 DEF StoreInv, AcknowledgedCommandsSurvive, Within
<1>5. CopyIsSafe'
  <2> SUFFICES ASSUME NEW m \in previous'
               PROVE  /\ m.members = members' /\ ~revoked' /\ ~m.revoked
                      /\ Within(announced', m.commands) /\ Within(m.commands, commands')
                      /\ ~torn' => SamePage(disk', m)
                      /\ ~(DOMAIN commands' \subseteq DOMAIN m.commands)
    BY DEF CopyIsSafe
  <2>1. /\ m.members = members /\ ~revoked /\ ~m.revoked
        /\ Within(announced, m.commands) /\ Within(m.commands, commands)
        /\ ~torn => SamePage(disk, m)
    BY <1>2 DEF StoreInv, CopyIsSafe
  <2>2. Within(m.commands, commands') /\ c \notin DOMAIN m.commands
    BY <1>1, <2>1 DEF Within
  <2> QED BY <1>1, <1>2, <2>1, <2>2
<1> QED BY <1>3, <1>4, <1>5 DEF StoreInv

(* Without a stroke that was its own, the closed connection changes nothing*)
LEMMA NothingToPersist ==
  ASSUME StoreInv, mode = "finalizing", NewlyApplied = {}, Release,
         UNCHANGED <<vars, members, revoked, disk, torn, sessions, announced, ended>>
  PROVE  StoreInv'
<1>1. PICK m \in previous : TRUE BY DEF StoreInv, ModesAreRight
<1>2. DOMAIN commands \subseteq DOMAIN m.commands BY DEF NewlyApplied
<1>3. SamePage(Memory, m) /\ (~torn => SamePage(disk, m)) BY <1>1, <1>2 DEF StoreInv, CopyIsSafe
<1>4. /\ mode' = "serving" /\ previous' = {}
      /\ UNCHANGED <<strokes, active, actions, undo, redo, commands>> /\ Memory' = Memory
  BY DEF Release, Memory, vars, pageVars, historyVars
<1>5. CommittedPageIsOnDisk' BY <1>3, <1>4, MemoryFields DEF CommittedPageIsOnDisk, SamePage
<1>6. ModesAreRight' /\ FileIsAShare' /\ CopyIsSafe' /\ LoadedPageIsOnDisk' /\ RevocationIsStored'
      /\ SessionsAreHonoured' /\ AcknowledgedCommandsSurvive'
  BY <1>4 DEF StoreInv, ModesAreRight, FileIsAShare, CopyIsSafe, LoadedPageIsOnDisk, RevocationIsStored,
     SessionsAreHonoured, AcknowledgedCommandsSurvive
<1> QED BY <1>5, <1>6 DEF StoreInv

LEMMA FinalizeEnds ==
  ASSUME StoreInv, PersistFinalized \/ AbandonFinalize
  PROVE  StoreInv'
<1>1. CASE AbandonFinalize BY <1>1, RestoreStep DEF AbandonFinalize, file
<1>2. CASE PersistFinalized
  <2>1. mode = "finalizing" /\ Release /\ UNCHANGED <<sessions, ended>>
    BY <1>2 DEF PersistFinalized
  <2>2. CASE NewlyApplied = {} /\ UNCHANGED <<vars, members, revoked, file, announced>>
    BY <2>1, <2>2, NothingToPersist DEF file
  <2>3. CASE UNCHANGED <<vars, members, revoked>> /\ WriteSucceeds /\ Announce(NewlyApplied)
    BY <2>1, <2>3, WriteStep
  <2>4. CASE WriteFails(Memory) /\ (\A m \in previous : Restore(m)) /\ UNCHANGED announced
    BY <2>1, <2>4, RestoreStep
  <2> QED BY <1>2, <2>2, <2>3, <2>4 DEF PersistFinalized
<1> QED BY <1>1, <1>2

-----------------------------------------------------------------------------
(* Someone is let in, or the share is revoked. The share in memory is      *)
(* written, with what has changed; the write may fail and still take effect*)

LEMMA WriteAnyway ==
  ASSUME StoreInv, mode = "serving", UNCHANGED <<vars, lock, announced>>,
         WriteSucceeds \/ WriteFails(Memory')
  PROVE  /\ disk' \in {disk, Memory'}
         /\ ModesAreRight' /\ FileIsAShare' /\ CopyIsSafe' /\ LoadedPageIsOnDisk'
         /\ AcknowledgedCommandsSurvive' /\ CommittedPageIsOnDisk'
<1>1. /\ mode' = "serving" /\ previous' = {} /\ previous = {}
      /\ UNCHANGED <<strokes, active, actions, undo, redo, commands, announced>>
  BY DEF StoreInv, ModesAreRight, lock, vars, pageVars, historyVars
<1>2. /\ Memory'.strokes = strokes /\ Memory'.actions = actions /\ Memory'.undo = undo
      /\ Memory'.redo = redo /\ Memory'.commands = commands /\ DOMAIN Memory' = DOMAIN Memory
  BY <1>1 DEF Memory
<1>3. disk' \in {disk, Memory'} /\ (~torn' => disk' = Memory' \/ (disk' = disk /\ ~torn))
  BY DEF WriteSucceeds, WriteFails
<1>4. ModesAreRight' /\ FileIsAShare' /\ CopyIsSafe' /\ LoadedPageIsOnDisk'
  BY <1>1, <1>2, <1>3 DEF StoreInv, ModesAreRight, FileIsAShare, CopyIsSafe, LoadedPageIsOnDisk
<1>5. AcknowledgedCommandsSurvive'
  BY <1>1, <1>2, <1>3 DEF StoreInv, AcknowledgedCommandsSurvive
<1>6. CommittedPageIsOnDisk'
  BY <1>1, <1>2, <1>3 DEF StoreInv, CommittedPageIsOnDisk
<1> QED BY <1>3, <1>4, <1>5, <1>6

LEMMA RedeemStep ==
  ASSUME StoreInv, NEW p, Redeem(p)
  PROVE  StoreInv'
<1>1. WriteSucceeds \/ WriteFails(Memory') BY DEF Redeem
<1>2. mode = "serving" /\ UNCHANGED <<vars, lock, announced>> BY DEF Redeem
<1>3. /\ disk' \in {disk, Memory'}
      /\ ModesAreRight' /\ FileIsAShare' /\ CopyIsSafe' /\ LoadedPageIsOnDisk'
      /\ AcknowledgedCommandsSurvive' /\ CommittedPageIsOnDisk'
  BY <1>1, <1>2, WriteAnyway
<1>4. RevocationIsStored' BY DEF Redeem, RequireActive, StoreInv, RevocationIsStored
<1>5. SessionsAreHonoured'
  <2>1. Memory'.members = members \cup {p} /\ members' = members \cup {p} BY DEF Redeem, Memory
  <2>2. CASE WriteSucceeds /\ sessions' = sessions \cup {p}
    BY <2>1, <2>2 DEF WriteSucceeds, StoreInv, SessionsAreHonoured
  <2>3. CASE UNCHANGED sessions
    BY <1>3, <2>1, <2>3 DEF StoreInv, SessionsAreHonoured
  <2> QED BY <2>2, <2>3 DEF Redeem
<1> QED BY <1>3, <1>4, <1>5 DEF StoreInv

LEMMA RevokeStep ==
  ASSUME StoreInv, Revoke
  PROVE  StoreInv'
<1>1. WriteSucceeds \/ WriteFails(Memory') BY DEF Revoke
<1>2. mode = "serving" /\ UNCHANGED <<vars, lock, announced>> BY DEF Revoke
<1>3. /\ disk' \in {disk, Memory'}
      /\ ModesAreRight' /\ FileIsAShare' /\ CopyIsSafe' /\ LoadedPageIsOnDisk'
      /\ AcknowledgedCommandsSurvive' /\ CommittedPageIsOnDisk'
  BY <1>1, <1>2, WriteAnyway
<1>4. Memory'.members = members /\ Memory'.revoked /\ revoked' /\ UNCHANGED <<members, sessions>>
  BY DEF Revoke, Memory
<1>5. RevocationIsStored'
  <2>1. CASE WriteSucceeds BY <1>4, <2>1 DEF WriteSucceeds, RevocationIsStored
  <2>2. CASE UNCHANGED ended BY <1>3, <1>4, <2>2 DEF StoreInv, RevocationIsStored
  <2> QED BY <2>1, <2>2 DEF Revoke
<1>6. SessionsAreHonoured' BY <1>3, <1>4 DEF StoreInv, SessionsAreHonoured
<1> QED BY <1>3, <1>5, <1>6 DEF StoreInv

-----------------------------------------------------------------------------
(* A restart.                                                              *)

LEMMA RestartStep ==
  ASSUME StoreInv, Restart
  PROVE  StoreInv'
<1>1. /\ LoadedShare.strokes = disk.strokes /\ LoadedShare.active = disk.active
      /\ LoadedShare.commands = disk.commands /\ LoadedShare.actions = disk.actions
      /\ LoadedShare.undo = disk.undo /\ LoadedShare.redo = disk.redo
      /\ LoadedShare.members = disk.members /\ LoadedShare.revoked = disk.revoked
  BY MemoryFields DEF StoreInv, FileIsAShare, LoadedShare
<1>2. /\ strokes' = disk.strokes /\ active' = disk.active /\ commands' = disk.commands
      /\ actions' = disk.actions /\ undo' = disk.undo /\ redo' = disk.redo
      /\ members' = disk.members /\ revoked' = disk.revoked
  BY <1>1 DEF Restart, Restore
<1>3. /\ mode' \in {"loading", "lost"} /\ previous' = {}
      /\ UNCHANGED <<disk, sessions, announced, ended>>
  BY DEF Restart
<1>4. ModesAreRight' /\ FileIsAShare' /\ CopyIsSafe'
  BY <1>3 DEF StoreInv, ModesAreRight, FileIsAShare, CopyIsSafe, Memory
<1>5. RevocationIsStored' BY <1>2, <1>3 DEF StoreInv, RevocationIsStored
<1>6. LoadedPageIsOnDisk' BY <1>2, <1>3 DEF LoadedPageIsOnDisk, SamePage, Memory
<1>7. AcknowledgedCommandsSurvive' BY <1>2, <1>3 DEF StoreInv, AcknowledgedCommandsSurvive
<1>8. SessionsAreHonoured' /\ CommittedPageIsOnDisk'
  BY <1>2, <1>3 DEF StoreInv, SessionsAreHonoured, CommittedPageIsOnDisk
<1> QED BY <1>4, <1>5, <1>6, <1>7, <1>8 DEF StoreInv

LEMMA RepairStep ==
  ASSUME StoreInv, NEW c, RepairStroke(c)
  PROVE  StoreInv'
<1>1. Within(commands, commands') BY FinalizeAdds DEF RepairStroke
<1>2. /\ mode = "loading" /\ mode' = "loading" /\ previous' = previous /\ previous = {} /\ disk.active # <<>>
      /\ UNCHANGED <<members, revoked, disk, torn, sessions, announced, ended>>
  BY DEF RepairStroke, lock, file, observers, StoreInv, ModesAreRight, LoadedPageIsOnDisk
<1>3. ModesAreRight' /\ FileIsAShare' /\ RevocationIsStored' /\ LoadedPageIsOnDisk'
      /\ CommittedPageIsOnDisk' /\ SessionsAreHonoured' /\ CopyIsSafe'
  BY <1>2 DEF StoreInv, ModesAreRight, FileIsAShare, RevocationIsStored, LoadedPageIsOnDisk,
     CommittedPageIsOnDisk, SessionsAreHonoured, CopyIsSafe, Memory
<1>4. AcknowledgedCommandsSurvive' BY <1>1, <1>2 DEF StoreInv, AcknowledgedCommandsSurvive, Within
<1> QED BY <1>3, <1>4 DEF StoreInv

(* What is loaded and not served, or not yet.                              *)
LEMMA LoadingEnds ==
  ASSUME StoreInv, LoseShare \/ Serve
  PROVE  StoreInv'
<1>1. /\ mode = "loading" /\ previous' = previous /\ previous = {} /\ Memory' = Memory
      /\ UNCHANGED <<strokes, active, actions, undo, redo, commands, members, revoked, sessions, announced, ended>>
      /\ mode' \in {"serving", "skipped", "lost"}
  BY DEF LoseShare, Serve, StoreInv, ModesAreRight, Memory, vars, pageVars, historyVars, observers
<1>2. /\ disk' \in {disk, Memory}
      /\ mode' = "serving" => disk' = Memory \/ (disk' = disk /\ disk.active = <<>>)
  BY <1>1 DEF LoseShare, Serve, WriteSucceeds, WriteFails, file
<1>3. ModesAreRight' /\ FileIsAShare' /\ CopyIsSafe' /\ LoadedPageIsOnDisk'
  BY <1>1, <1>2 DEF StoreInv, ModesAreRight, FileIsAShare, CopyIsSafe, LoadedPageIsOnDisk
<1>4. RevocationIsStored' /\ SessionsAreHonoured'
  BY <1>1, <1>2, MemoryFields DEF StoreInv, RevocationIsStored, SessionsAreHonoured
<1>5. AcknowledgedCommandsSurvive'
  BY <1>1, <1>2, MemoryFields DEF StoreInv, AcknowledgedCommandsSurvive
<1>6. CommittedPageIsOnDisk'
  BY <1>1, <1>2, MemoryFields DEF StoreInv, LoadedPageIsOnDisk, SamePage, CommittedPageIsOnDisk
<1> QED BY <1>3, <1>4, <1>5, <1>6 DEF StoreInv

-----------------------------------------------------------------------------
(* The theorems.                                                           *)

LEMMA NextHolds == StoreInv /\ [StoreNext]_storeVars => StoreInv'
<1> SUFFICES ASSUME StoreInv, [StoreNext]_storeVars PROVE StoreInv'
  OBVIOUS
<1>1. ASSUME NEW c \in CommandId, ClientCommand(c) \/ RelayCommand(c) PROVE StoreInv'
  BY <1>1, TransientStep, SubmitStep, FinalizeStep, RepairStep DEF ClientCommand, RelayCommand
<1>2. CASE RelayStep
  BY <1>2, SubmissionEnds, FinalizeEnds, LoadingEnds DEF RelayStep
<1>3. CASE PeerStep
  <2>1. ASSUME NEW p \in Participant, Redeem(p) PROVE StoreInv' BY <2>1, RedeemStep
  <2>2. ASSUME NEW k \in Connection, Disconnect(k) PROVE StoreInv' BY <2>2, DisconnectStep
  <2>3. CASE Revoke BY <2>3, RevokeStep
  <2>4. ASSUME NEW p \in Participant, NEW k \in Connection, Connect(k, p) PROVE StoreInv'
    BY <2>4, QuietStep
  <2>5. ASSUME NEW k \in Connection, NEW c \in DOMAIN commands, Redeliver(k, c) PROVE StoreInv'
    BY <2>5, QuietStep
  <2>6. CASE Expire BY <2>6, QuietStep
  <2> QED BY <1>3, <2>1, <2>2, <2>3, <2>4, <2>5, <2>6 DEF PeerStep
<1>4. CASE Restart BY <1>4, RestartStep
<1>5. CASE UNCHANGED storeVars BY <1>5, QuietStep
<1> QED BY <1>1, <1>2, <1>3, <1>4, <1>5 DEF StoreNext

(* The invariant holds of every behaviour.                                 *)
THEOREM StoreInvHolds == StoreSpec => []StoreInv
<1>1. StoreInit => StoreInv BY InitHolds
<1>2. StoreInv /\ [StoreNext]_storeVars => StoreInv' BY NextHolds
<1> QED BY <1>1, <1>2, PTL DEF StoreSpec

(* A durable command that was announced is in the file and in the served   *)
(* share with its answer, whatever writes fail and wherever the relay stops*)
THEOREM AnnouncedCommandsSurvive == StoreSpec => []AcknowledgedCommandsSurvive
<1>1. StoreInv => AcknowledgedCommandsSurvive BY DEF StoreInv
<1> QED BY <1>1, StoreInvHolds, PTL

(* Between handlers the page and its history are the ones in the file.     *)
THEOREM ServedPageIsOnDisk == StoreSpec => []CommittedPageIsOnDisk
<1>1. StoreInv => CommittedPageIsOnDisk BY DEF StoreInv
<1> QED BY <1>1, StoreInvHolds, PTL

(* Whoever was handed a session token is known to the share and to its     *)
(* file, after any failed write and any restart.                           *)
THEOREM SessionsSurvive == StoreSpec => []SessionsAreHonoured
<1>1. StoreInv => SessionsAreHonoured BY DEF StoreInv
<1> QED BY <1>1, StoreInvHolds, PTL

(* Nothing is announced once a revocation was acknowledged.              *)
LEMMA RevokedStepsAreSilent ==
  ASSUME StoreInv, ended, [StoreNext]_storeVars
  PROVE  ended' /\ UNCHANGED <<sessions, announced>>
<1>1. revoked /\ previous = {} /\ mode \notin {"submitting", "finalizing"}
  BY DEF StoreInv, RevocationIsStored, ModesAreRight, CopyIsSafe
<1>2. ASSUME NEW c, ClientCommand(c) \/ RelayCommand(c)
      PROVE  ended' /\ UNCHANGED <<sessions, announced>>
  BY <1>1, <1>2 DEF ClientCommand, RelayCommand, SubmitTransient, SubmitDurable, FinalizeStroke, RepairStroke,
     observers
<1>3. ASSUME NEW p, Redeem(p) PROVE FALSE BY <1>1, <1>3 DEF Redeem, RequireActive
<1>4. CASE PersistSubmission \/ RejectSubmission \/ PersistFinalized \/ AbandonFinalize
  BY <1>1, <1>4 DEF PersistSubmission, RejectSubmission, PersistFinalized, AbandonFinalize
<1>5. CASE LoseShare \/ Serve BY <1>5 DEF LoseShare, Serve, observers
<1>6. ASSUME NEW k, \/ Disconnect(k) \/ \E p : Connect(k, p) \/ \E c : Redeliver(k, c)
      PROVE  ended' /\ UNCHANGED <<sessions, announced>>
  BY <1>6 DEF Disconnect, Connect, Redeliver, observers
<1>7. CASE Revoke \/ Expire \/ Restart BY <1>7 DEF Revoke, Expire, Restart, observers
<1>8. CASE UNCHANGED storeVars BY <1>8 DEF storeVars, observers
<1> QED BY <1>2, <1>3, <1>4, <1>5, <1>6, <1>7, <1>8 DEF StoreNext, RelayStep, PeerStep

(* After a revocation was acknowledged nothing is announced and no session *)
(* is handed out, and the file stays revoked, restarts included.           *)
THEOREM RevocationsAreFinal == StoreSpec => RevocationIsFinal
<1>1. StoreInv /\ StoreInv' /\ [StoreNext]_storeVars =>
        [ended => UNCHANGED <<sessions, announced>> /\ disk'.revoked]_storeVars
  BY RevokedStepsAreSilent DEF StoreInv, RevocationIsStored
<1> QED BY <1>1, StoreInvHolds, PTL DEF StoreSpec, RevocationIsFinal

-----------------------------------------------------------------------------
(* The page in memory and its images: the copy of the handler that holds   *)
(* the lock and the file. Both may become the page again, so that what the *)
(* journal's invariant says of the page holds of them as well, save for    *)
(* the counts of the file, which a restart takes anew. (ids are the stroke *)
(* ids that were ever begun.)                                              *)

ImageTypeOK(m) ==
  /\ m.active \in Seq(Stroke) /\ m.actions \in Seq(Draw \cup Erasure)
  /\ m.undo \in [Participant -> Seq(CommandId)] /\ m.redo \in [Participant -> Seq(CommandId)]
  /\ m.revision \in Nat /\ DOMAIN m.commands \subseteq CommandId
  /\ \A c \in DOMAIN m.commands : m.commands[c] \in Applied

ImageIdsAreFresh(m, ids) ==
  /\ \A i \in DOMAIN m.actions : m.actions[i].id \in DOMAIN m.commands
  /\ \A id \in IdsOf(Baseline) \cup DrawnIn(m.actions) \cup IdsOf(m.active) :
       \E r \in ids : id = OriginalId(r)
  /\ Distinct(m.active)
  /\ \A i \in DOMAIN m.active : m.active[i].id \notin IdsOf(Baseline) \cup DrawnIn(m.actions)

ImageActionsAreValid(acts) ==
  /\ Distinct(acts)
  /\ \A i \in DOMAIN acts : IsDraw(acts[i]) =>
       /\ acts[i].stroke.author = acts[i].actor /\ acts[i].stroke.points # <<>>
       /\ acts[i].stroke.id \notin IdsOf(Baseline)
       /\ \A j \in DOMAIN acts : IsDraw(acts[j]) /\ acts[j].stroke.id = acts[i].stroke.id => i = j
  /\ \A i \in DOMAIN acts : IsErase(acts[i]) =>
       /\ acts[i].targets # {}
       /\ \A id \in acts[i].targets :
            \/ id \in IdsOf(Baseline)
            \/ \E j \in DOMAIN acts : IsDraw(acts[j]) /\ acts[j].stroke.id = id

ImageStacksAreValid(acts, done, undone) ==
  /\ \A p \in Participant :
       /\ \A i \in DOMAIN done[p] : ActionWith(acts, p, done[p][i], TRUE)
       /\ \A i \in DOMAIN undone[p] : ActionWith(acts, p, undone[p][i], FALSE)
       /\ IsInjective(done[p]) /\ IsInjective(undone[p])
  /\ \A i \in DOMAIN acts : acts[i].active =>
       \E j \in DOMAIN done[acts[i].actor] : done[acts[i].actor][j] = acts[i].id

ImageFits(m) ==
  /\ m.strokes = RenderedStrokes(m.actions)
  /\ \A i \in DOMAIN m.active : Len(m.active[i].points) <= MaxStrokePoints
  /\ \A i \in DOMAIN m.actions : IsDraw(m.actions[i]) => Len(m.actions[i].stroke.points) <= MaxStrokePoints
  /\ FitsOnPage(m.strokes, m.active)
  /\ RubsAreFinite(m.actions)
  /\ Len(m.actions) <= MaxActions
  /\ RecordedPoints(m.actions) <= MaxRecordedPoints
  /\ RecordedRubs(m.actions) <= MaxRecordedRubs
  /\ RecordedTargets(m.actions) <= MaxRecordedTargets

ImageRevisions(m) ==
  /\ \A c \in DOMAIN m.commands : m.commands[c].revision \in 1 .. m.revision
  /\ \A n \in 1 .. m.revision : \E c \in DOMAIN m.commands :
       m.commands[c].revision = n /\ \A d \in DOMAIN m.commands \ {c} : m.commands[d].revision # n

ImageOK(m, ids) == ImageTypeOK(m) /\ ImageIdsAreFresh(m, ids) /\ ImageActionsAreValid(m.actions)
                /\ ImageStacksAreValid(m.actions, m.undo, m.redo) /\ ImageFits(m) /\ ImageRevisions(m)

CountsOf(m) == /\ m.strokeCount = Len(m.strokes) + Len(m.active)
               /\ m.pointCount = PointTotal(m.strokes) + PointTotal(m.active)

PagesAreSound ==
  /\ PageInv /\ RevisionInv /\ ImageOK(disk, minted)
  /\ \A m \in previous : ImageOK(m, minted) /\ CountsOf(m)

-----------------------------------------------------------------------------
(* The strokes in progress and the connections that answer for them.       *)

AnsweredFor(stroke) ==
  \/ stroke.id \in leaked
  \/ \E k \in DOMAIN participantOf : /\ participantOf[k] = stroke.author
                                     /\ stroke.id \in connectionStrokes[k]
AllAnsweredFor(begun) == \A i \in DOMAIN begun : AnsweredFor(begun[i])

(* A command is about strokes that were begun, and a stroke that is not in *)
(* progress any more never is again.                                       *)
Over == {"commit", "cancel", "set", "none"}
AnswersAreOver(table, begun, ids) ==
  \A c \in DOMAIN table :
    /\ \A id \in table[c].about : \E r \in ids : id = OriginalId(r)
    /\ table[c].kind \in Over => table[c].about \cap IdsOf(begun) = {}

(* A handler only takes strokes from those that it found in progress.      *)
OnlyFewer ==
  \A m \in previous :
    /\ AllAnsweredFor(m.active)
    /\ \A i \in DOMAIN active : \E j \in DOMAIN m.active :
         m.active[j].id = active[i].id /\ m.active[j].author = active[i].author
    /\ \A c \in DOMAIN commands \ DOMAIN m.commands : mode = "submitting" => commands[c].kind \in Over

TablesAreRight ==
  /\ AnswersAreOver(commands, active, minted) /\ AnswersAreOver(disk.commands, disk.active, minted)
  /\ \A m \in previous : AnswersAreOver(m.commands, m.active, minted)
ServedAreAnswered == mode = "serving" /\ RequireActive => AllAnsweredFor(active)
OrphanInv == TablesAreRight /\ ServedAreAnswered /\ OnlyFewer

-----------------------------------------------------------------------------
(* Types. The handler that holds the lock has one copy, of its connection. *)

LockTypeOK ==
  /\ held \subseteq Connection
  /\ \/ mode \in {"submitting", "finalizing"} /\ \E k \in held, m \in previous : held = {k} /\ previous = {m}
     \/ mode \in {"serving", "loading", "skipped", "lost"} /\ held = {} /\ previous = {}
MembersTypeOK ==
  /\ Owner \in members /\ members \subseteq Participant /\ sessions \subseteq Participant
  /\ Owner \in disk.members /\ disk.members \subseteq Participant
  /\ \A m \in previous : m.members = members
PeersTypeOK ==
  /\ DOMAIN participantOf \subseteq Connection
  /\ \A k \in DOMAIN participantOf : participantOf[k] \in members
  /\ connectionStrokes \in [Connection -> SUBSET StrokeId]
FlagsTypeOK ==
  /\ revoked \in BOOLEAN /\ expired \in BOOLEAN /\ ended \in BOOLEAN /\ torn \in BOOLEAN
  /\ disk.revoked \in BOOLEAN /\ \A m \in previous : m.revoked \in BOOLEAN
ShareTypeOK == LockTypeOK /\ MembersTypeOK /\ PeersTypeOK /\ FlagsTypeOK /\ DOMAIN announced \subseteq CommandId

ShareInv == StoreInv /\ PagesAreSound /\ OrphanInv /\ ShareTypeOK

(* The page is sound exactly if its image is and its counts are right.     *)
LEMMA PageHasImage ==
  ASSUME PageInv, RevisionInv, NEW m,
         m.strokes = strokes, m.active = active, m.revision = revision, m.commands = commands,
         m.actions = actions, m.undo = undo, m.redo = redo
  PROVE  ImageOK(m, minted)
<1>1. HistoryInv /\ StrokesAreShort /\ PageIsRendered /\ PageFits /\ HistoryFits
  BY DEF PageInv, PageBounds
<1>2. ImageTypeOK(m)
  BY <1>1 DEF HistoryInv, HistoryTypeOK, ImageTypeOK
<1>3. ImageIdsAreFresh(m, minted)
  BY <1>1 DEF HistoryInv, IdsAreFresh, DrawnIds, DrawnIn, ImageIdsAreFresh
<1>4. ImageActionsAreValid(m.actions)
  BY <1>1 DEF HistoryInv, HistoryIsValid, ActionIdsAreDistinct, DrawsAreWhole, RootIdsAreDistinct,
     TargetsAreRoots, ImageActionsAreValid
<1>5. ImageStacksAreValid(m.actions, m.undo, m.redo)
  BY <1>1 DEF HistoryInv, HistoryIsValid, StacksMatchActions, NoActionIsStackedTwice,
     ActiveActionsAreStacked, ImageStacksAreValid
<1>6. ImageFits(m)
  BY <1>1 DEF StrokesAreShort, PageIsRendered, PageFits, HistoryFits, HistoryIsWithinLimits, ImageFits
<1>7. ImageRevisions(m)
  BY DEF RevisionInv, EveryRevisionIsOneCommand, ImageRevisions
<1> QED
  BY <1>2, <1>3, <1>4, <1>5, <1>6, <1>7 DEF ImageOK

(* The page is sound when it is taken from a sound image.                *)
LEMMA ImageBecomesPage ==
  ASSUME NEW m, ImageOK(m, minted), CountsOf(m), Restore(m), minted' = minted, minted \subseteq RootId
  PROVE  PageInv' /\ RevisionInv'
<1>1. /\ strokes' = m.strokes /\ active' = m.active /\ revision' = m.revision
      /\ commands' = m.commands /\ actions' = m.actions /\ undo' = m.undo /\ redo' = m.redo
      /\ strokeCount' = m.strokeCount /\ pointCount' = m.pointCount
  BY DEF Restore
<1>2. ImageTypeOK(m) /\ ImageIdsAreFresh(m, minted) /\ ImageActionsAreValid(m.actions)
      /\ ImageStacksAreValid(m.actions, m.undo, m.redo) /\ ImageFits(m) /\ ImageRevisions(m)
  BY DEF ImageOK
<1>3. HistoryTypeOK'
  BY <1>1, <1>2 DEF HistoryTypeOK, ImageTypeOK
<1>4. IdsAreFresh'
  BY <1>1, <1>2 DEF IdsAreFresh, DrawnIds, DrawnIn, ImageIdsAreFresh
<1>5. ActionIdsAreDistinct' /\ DrawsAreWhole' /\ RootIdsAreDistinct' /\ TargetsAreRoots'
  BY <1>1, <1>2 DEF ActionIdsAreDistinct, DrawsAreWhole, RootIdsAreDistinct, TargetsAreRoots,
     ImageActionsAreValid
<1>6. StacksMatchActions' /\ NoActionIsStackedTwice' /\ ActiveActionsAreStacked'
  BY <1>1, <1>2 DEF StacksMatchActions, NoActionIsStackedTwice, ActiveActionsAreStacked, ImageStacksAreValid
<1>7. StrokesAreShort' /\ PageIsRendered' /\ PageFits' /\ HistoryFits'
  BY <1>1, <1>2 DEF StrokesAreShort, PageIsRendered, PageFits, HistoryFits, HistoryIsWithinLimits, ImageFits
<1>8. CountsMatchPage'
  BY <1>1 DEF CountsMatchPage, CountsOf
<1>9. RevisionInv'
  BY <1>1, <1>2 DEF RevisionInv, EveryRevisionIsOneCommand, ImageRevisions, ImageTypeOK
<1> QED
  BY <1>3, <1>4, <1>5, <1>6, <1>7, <1>8, <1>9 DEF PageInv, PageBounds, HistoryInv, HistoryIsValid

(* Ids are only ever added to those that were begun.                       *)
LEMMA ImageKeeps ==
  ASSUME NEW m, NEW ids, NEW more, ids \subseteq more, ImageOK(m, ids)
  PROVE  ImageOK(m, more)
BY DEF ImageOK, ImageIdsAreFresh

(* The ids that were begun are never forgotten.                          *)
LEMMA MintedGrows ==
  ASSUME NEW p, NEW c, Submit(p, c)
  PROVE  minted \subseteq minted'
BY DEF Submit, BeginStroke, AppendStrokePoints, CommitStroke, CancelStroke, Erase, EraseNothing, Undo, Redo

-----------------------------------------------------------------------------
(* A step of the relay submits a command to the journal, leaves the page   *)
(* alone, or goes back to an image. Each keeps the page and its images.    *)

LEMMA JournalKeepsPages ==
  ASSUME PagesAreSound, NEW p \in Participant, NEW c \in CommandId, Submit(p, c),
         disk' = disk, previous' \in {previous, {Memory}}
  PROVE  PagesAreSound'
<1>1. minted \subseteq minted'
  BY MintedGrows
<1>2. PageInv' /\ RevisionInv'
  BY NextBounds, NextRevisions DEF PagesAreSound, Next
<1>3. ImageOK(disk', minted')
  BY <1>1, ImageKeeps DEF PagesAreSound
<1>4. ImageOK(Memory, minted) /\ CountsOf(Memory)
  <2>1. ImageOK(Memory, minted)
    BY MemoryFields, PageHasImage DEF PagesAreSound, Memory
  <2>2. CountsOf(Memory)
    BY DEF PagesAreSound, PageInv, PageBounds, CountsMatchPage, CountsOf, Memory
  <2> QED
    BY <2>1, <2>2
<1>5. \A m \in previous' : ImageOK(m, minted) /\ CountsOf(m)
  BY <1>4 DEF PagesAreSound
<1>6. \A m \in previous' : ImageOK(m, minted') /\ CountsOf(m)
  BY <1>1, <1>5, ImageKeeps
<1> QED
  BY <1>2, <1>3, <1>6 DEF PagesAreSound

(* Steps that leave the page, but may write it or copy it.               *)
LEMMA QuietKeepsPages ==
  ASSUME PagesAreSound, UNCHANGED vars, previous' \in {previous, {}, {Memory}},
         disk' \in {disk, Memory, Memory'}
  PROVE  PagesAreSound'
<1>1. UNCHANGED <<strokes, active, strokeCount, pointCount, actions, undo, redo, revision, commands, minted>>
  BY DEF vars, pageVars, historyVars
<1>2. PageInv' /\ RevisionInv'
  BY NextBounds, NextRevisions DEF PagesAreSound
<1>3. ImageOK(Memory, minted) /\ CountsOf(Memory)
  <2>1. ImageOK(Memory, minted)
    BY MemoryFields, PageHasImage DEF PagesAreSound, Memory
  <2>2. CountsOf(Memory)
    BY DEF PagesAreSound, PageInv, PageBounds, CountsMatchPage, CountsOf, Memory
  <2> QED
    BY <2>1, <2>2
<1>4. ImageOK(Memory', minted)
  BY <1>1, PageHasImage DEF PagesAreSound, Memory
<1>5. ImageOK(disk', minted')
  BY <1>1, <1>3, <1>4 DEF PagesAreSound
<1> QED
  BY <1>1, <1>2, <1>3, <1>5 DEF PagesAreSound

(* Going back to an image.                                               *)
LEMMA RestoreKeepsPages ==
  ASSUME PagesAreSound, NEW m, ImageOK(m, minted), CountsOf(m), Restore(m), minted' = minted,
         previous' = {}, disk' \in {disk, Memory}
  PROVE  PagesAreSound'
<1>1. minted \subseteq RootId
  BY DEF PagesAreSound, PageInv, HistoryInv, HistoryTypeOK
<1>2. PageInv' /\ RevisionInv'
  BY <1>1, ImageBecomesPage
<1>3. ImageOK(Memory, minted)
  BY MemoryFields, PageHasImage DEF PagesAreSound, Memory
<1>4. ImageOK(disk', minted')
  BY <1>3 DEF PagesAreSound
<1> QED
  BY <1>2, <1>4 DEF PagesAreSound

-----------------------------------------------------------------------------
(* Who submits to the journal is a participant: the one of the connection, *)
(* or the author of a stroke that the relay finishes.                      *)

LEMMA StepsOfTheJournal ==
  ASSUME ShareTypeOK, PagesAreSound, NEW k, NEW c,
         SubmitTransient(k, c) \/ SubmitDurable(k, c) \/ FinalizeStroke(c) \/ RepairStroke(c)
  PROVE  \E p \in Participant : Submit(p, c)
<1>1. \A i \in DOMAIN active : active[i].author \in Participant
  BY PageFacts DEF PagesAreSound, Stroke
<1>2. k \in DOMAIN participantOf => participantOf[k] \in Participant
  BY DEF ShareTypeOK, PeersTypeOK, MembersTypeOK
<1>3. ASSUME NEW i \in DOMAIN active, NEW p, p = active[i].author, Finalize(p, c, i)
      PROVE  p \in Participant /\ Submit(p, c)
  BY <1>1, <1>3 DEF Finalize, Submit
<1>4. CASE SubmitTransient(k, c) \/ SubmitDurable(k, c)
  BY <1>2, <1>4 DEF SubmitTransient, SubmitDurable, Submit
<1>5. CASE FinalizeStroke(c)
  <2>1. PICK x \in held : \E i \in Unfinished(x) : Finalize(participantOf[x], c, i)
    BY <1>5 DEF FinalizeStroke
  <2>2. \A i \in Unfinished(x) : i \in DOMAIN active /\ participantOf[x] = active[i].author
    BY DEF Unfinished
  <2> QED
    BY <1>3, <2>1, <2>2
<1>6. CASE RepairStroke(c)
  <2>1. 1 \in DOMAIN active
    BY <1>6, PageFacts DEF PagesAreSound, RepairStroke
  <2> QED
    BY <1>3, <1>6, <2>1 DEF RepairStroke
<1> QED
  BY <1>4, <1>5, <1>6

(* The file as a restart reads it.                                         *)
LEMMA LoadedFields ==
  ASSUME FileIsAShare
  PROVE  /\ LoadedShare.strokes = disk.strokes /\ LoadedShare.active = disk.active
         /\ LoadedShare.revision = disk.revision /\ LoadedShare.commands = disk.commands
         /\ LoadedShare.actions = disk.actions
         /\ LoadedShare.undo = disk.undo /\ LoadedShare.redo = disk.redo
         /\ LoadedShare.members = disk.members /\ LoadedShare.revoked = disk.revoked
         /\ CountsOf(LoadedShare)
BY MemoryFields DEF FileIsAShare, LoadedShare, CountsOf

(* An image is a page of seven fields.                                     *)
LEMMA SameImage ==
  ASSUME NEW m, NEW n, NEW ids, ImageOK(m, ids),
         n.strokes = m.strokes, n.active = m.active, n.revision = m.revision, n.commands = m.commands,
         n.actions = m.actions, n.undo = m.undo, n.redo = m.redo
  PROVE  ImageOK(n, ids)
<1>1. /\ ImageTypeOK(m) /\ ImageIdsAreFresh(m, ids) /\ ImageActionsAreValid(m.actions)
      /\ ImageStacksAreValid(m.actions, m.undo, m.redo) /\ ImageFits(m) /\ ImageRevisions(m)
  BY DEF ImageOK
<1>2. ImageTypeOK(n)
  BY <1>1 DEF ImageTypeOK
<1>3. ImageIdsAreFresh(n, ids) /\ ImageActionsAreValid(n.actions)
  BY <1>1 DEF ImageIdsAreFresh
<1>4. ImageStacksAreValid(n.actions, n.undo, n.redo)
  BY <1>1
<1>5. ImageFits(n)
  BY <1>1 DEF ImageFits
<1>6. ImageRevisions(n)
  BY <1>1 DEF ImageRevisions
<1> QED
  BY <1>2, <1>3, <1>4, <1>5, <1>6 DEF ImageOK

(* What a step does to the page, the copy of it and the file.              *)
GoesOn(m)       == Restore(m) /\ minted' = minted /\ previous' = {} /\ disk' \in {disk, Memory}
LeavesPage      == /\ UNCHANGED vars /\ previous' \in {previous, {}, {Memory}}
                   /\ disk' \in {disk, Memory, Memory'}
SubmitsTo(p, c) == Submit(p, c) /\ disk' = disk /\ previous' \in {previous, {Memory}}

(* Every step is one of these.                                           *)
LEMMA StepsOfThePages ==
  ASSUME StoreInv, ShareTypeOK, PagesAreSound, [StoreNext]_storeVars
  PROVE  \/ \E p \in Participant, c \in CommandId : SubmitsTo(p, c)
         \/ LeavesPage
         \/ \E m \in previous : GoesOn(m)
         \/ Restart
<1> DEFINE Goal == \/ \E p \in Participant, c \in CommandId : SubmitsTo(p, c)
                   \/ LeavesPage
                   \/ \E m \in previous : GoesOn(m)
<1>1. ASSUME NEW c \in CommandId, NEW k,
             SubmitTransient(k, c) \/ SubmitDurable(k, c) \/ FinalizeStroke(c) \/ RepairStroke(c)
      PROVE  Goal
  <2>1. disk' = disk /\ previous' \in {previous, {Memory}}
    BY <1>1 DEF SubmitTransient, SubmitDurable, FinalizeStroke, RepairStroke, Hold, lock, file
  <2> QED
    BY <1>1, <2>1, StepsOfTheJournal DEF SubmitsTo
<1>2. ASSUME RejectSubmission \/ AbandonFinalize
      PROVE  Goal
  <2>1. previous # {} /\ previous' = {} /\ minted' = minted /\ disk' \in {disk, Memory}
        /\ \A m \in previous : Restore(m)
    BY <1>2 DEF RejectSubmission, AbandonFinalize, StoreInv, ModesAreRight, Release, WriteFails, file
  <2> QED
    BY <2>1 DEF GoesOn
<1>3. ASSUME PersistFinalized
      PROVE  Goal
  <2>1. previous # {} /\ previous' = {}
    BY <1>3 DEF PersistFinalized, StoreInv, ModesAreRight, Release
  <2>2. CASE UNCHANGED vars /\ disk' \in {disk, Memory'}
    BY <2>1, <2>2 DEF LeavesPage
  <2>3. CASE WriteFails(Memory) /\ (\A m \in previous : Restore(m)) /\ minted' = minted
    BY <2>1, <2>3 DEF WriteFails, GoesOn
  <2> QED
    BY <1>3, <2>2, <2>3 DEF PersistFinalized, WriteSucceeds, file
<1>4. ASSUME PersistSubmission \/ LoseShare \/ Serve
      PROVE  LeavesPage
  BY <1>4 DEF PersistSubmission, LoseShare, Serve, WriteSucceeds, WriteFails, Release, lock, file, LeavesPage
<1>5. ASSUME NEW p, NEW k, Redeem(p) \/ Connect(k, p) \/ Disconnect(k) \/ Revoke \/ Expire
      PROVE  LeavesPage
  BY <1>5 DEF Redeem, Connect, Disconnect, Revoke, Expire, WriteSucceeds, WriteFails, Hold, lock, file, LeavesPage
<1>6. ASSUME NEW k, NEW c, Redeliver(k, c)
      PROVE  LeavesPage
  BY <1>6 DEF Redeliver, lock, file, LeavesPage
<1>7. UNCHANGED storeVars => LeavesPage
  BY DEF storeVars, lock, file, LeavesPage
<1> QED
  BY <1>1, <1>2, <1>3, <1>4, <1>5, <1>6, <1>7 DEF StoreNext, ClientCommand, RelayCommand, RelayStep, PeerStep

(* Every step of the relay keeps the page and its images sound.            *)
LEMMA PagesNext ==
  ASSUME StoreInv, ShareTypeOK, PagesAreSound, [StoreNext]_storeVars
  PROVE  PagesAreSound'
<1>1. ASSUME NEW p \in Participant, NEW c \in CommandId, SubmitsTo(p, c)
      PROVE  PagesAreSound'
  BY <1>1, JournalKeepsPages DEF SubmitsTo
<1>2. CASE LeavesPage
  BY <1>2, QuietKeepsPages DEF LeavesPage
<1>3. ASSUME NEW m \in previous, GoesOn(m)
      PROVE  PagesAreSound'
  BY <1>3, RestoreKeepsPages DEF PagesAreSound, GoesOn
<1>4. CASE Restart
  <2>1. ImageOK(LoadedShare, minted)
    BY LoadedFields, SameImage DEF StoreInv, PagesAreSound
  <2> QED
    BY <1>4, <2>1, LoadedFields, RestoreKeepsPages DEF StoreInv, Restart
<1> QED
  BY <1>1, <1>2, <1>3, <1>4, StepsOfThePages
-----------------------------------------------------------------------------
(* Types.                                                                  *)

LEMMA LockTypes ==
  ASSUME LockTypeOK, [StoreNext]_storeVars
  PROVE  LockTypeOK'
<1>1. CASE UNCHANGED lock
  BY <1>1 DEF LockTypeOK, lock
<1>2. ASSUME NEW k \in Connection, Hold("submitting", k) \/ Hold("finalizing", k)
      PROVE  LockTypeOK'
  BY <1>2 DEF LockTypeOK, Hold
<1>3. CASE Release
  BY <1>3 DEF LockTypeOK, Release
<1>4. CASE mode = "loading" /\ UNCHANGED <<held, previous>> /\ mode' \in {"serving", "skipped", "lost"}
  BY <1>4 DEF LockTypeOK
<1>5. CASE Restart
  BY <1>5 DEF LockTypeOK, Restart
<1>6. ASSUME NEW c, ClientCommand(c) \/ RelayCommand(c)
      PROVE  LockTypeOK'
  BY <1>1, <1>2, <1>6 DEF ClientCommand, RelayCommand, SubmitTransient, SubmitDurable, FinalizeStroke, RepairStroke
<1>7. CASE RelayStep
  BY <1>3, <1>4, <1>7 DEF RelayStep, PersistSubmission, RejectSubmission, PersistFinalized, AbandonFinalize,
     LoseShare, Serve
<1>8. CASE PeerStep
  BY <1>1, <1>2, <1>8 DEF PeerStep, Redeem, Connect, Disconnect, Redeliver, Revoke, Expire
<1> QED
  BY <1>1, <1>5, <1>6, <1>7, <1>8 DEF StoreNext, storeVars

(* What a step does to the members of the share, its revocation and the    *)
(* images of it.                                                           *)
LEMMA StepsOfTheShare ==
  ASSUME StoreInv, LockTypeOK, [StoreNext]_storeVars
  PROVE  \/ /\ UNCHANGED <<members, revoked>>
            /\ previous' \in {previous, {}, {Memory}} /\ disk' \in {disk, Memory, Memory'}
         \/ /\ \E m \in previous : members' = m.members /\ revoked' = m.revoked
            /\ previous' = {} /\ disk' \in {disk, Memory}
         \/ /\ previous = {} /\ previous' = {} /\ disk' \in {disk, Memory'}
            /\ \E p \in Participant : members' \in {members, members \cup {p}}
            /\ revoked' \in {revoked, TRUE}
         \/ Restart
<1> DEFINE Goal == \/ /\ UNCHANGED <<members, revoked>>
                      /\ previous' \in {previous, {}, {Memory}} /\ disk' \in {disk, Memory, Memory'}
                   \/ /\ \E m \in previous : members' = m.members /\ revoked' = m.revoked
                      /\ previous' = {} /\ disk' \in {disk, Memory}
<1>1. ASSUME NEW c, ClientCommand(c) \/ RelayCommand(c)
      PROVE  Goal
  BY <1>1 DEF ClientCommand, RelayCommand, SubmitTransient, SubmitDurable, FinalizeStroke, RepairStroke, Hold,
     lock, file
<1>2. ASSUME PersistSubmission \/ LoseShare \/ Serve
      PROVE  Goal
  BY <1>2 DEF PersistSubmission, LoseShare, Serve, WriteSucceeds, WriteFails, Release, file
<1>3. ASSUME (\A m \in previous : Restore(m)) /\ previous # {} /\ Release /\ (WriteFails(Memory) \/ disk' = disk)
      PROVE  Goal
  BY <1>3 DEF Restore, Release, WriteFails
<1>4. ASSUME RejectSubmission \/ AbandonFinalize
      PROVE  Goal
  BY <1>3, <1>4 DEF RejectSubmission, AbandonFinalize, StoreInv, ModesAreRight, file
<1>5. ASSUME PersistFinalized
      PROVE  Goal
  <2>1. previous # {} /\ Release
    BY <1>5 DEF PersistFinalized, StoreInv, ModesAreRight
  <2>2. CASE UNCHANGED <<members, revoked>> /\ disk' \in {disk, Memory'}
    BY <2>1, <2>2 DEF Release
  <2>3. CASE WriteFails(Memory) /\ (\A m \in previous : Restore(m))
    BY <1>3, <2>1, <2>3
  <2> QED
    BY <1>5, <2>2, <2>3 DEF PersistFinalized, WriteSucceeds, file
<1>6. ASSUME NEW k, (\E p : Connect(k, p)) \/ Disconnect(k) \/ (\E c : Redeliver(k, c)) \/ Expire
      PROVE  Goal
  BY <1>6 DEF Connect, Disconnect, Redeliver, Expire, Hold, lock, file
<1>7. ASSUME UNCHANGED storeVars
      PROVE  Goal
  BY <1>7 DEF storeVars, lock, file
<1>8. CASE Revoke \/ \E p \in Participant : Redeem(p)
  <2>1. previous = {} /\ previous' = {}
    BY <1>8 DEF Revoke, Redeem, StoreInv, ModesAreRight, lock
  <2>2. Participant # {}
    BY JournalAssumption
  <2> QED
    BY <1>8, <2>1, <2>2 DEF Revoke, Redeem, WriteSucceeds, WriteFails
<1> HIDE DEF Goal
<1>9. Goal \/ Restart \/ Revoke \/ \E p \in Participant : Redeem(p)
  <2>1. CASE RelayStep
    BY <1>2, <1>4, <1>5, <2>1 DEF RelayStep
  <2>2. CASE PeerStep
    BY <1>6, <2>2 DEF PeerStep
  <2> QED
    BY <1>1, <1>7, <2>1, <2>2 DEF StoreNext
<1> QED
  BY <1>8, <1>9 DEF Goal

(* Only participants become members, and none is forgotten.              *)
LEMMA MembersTypes ==
  ASSUME StoreInv, LockTypeOK, MembersTypeOK, [StoreNext]_storeVars
  PROVE  MembersTypeOK'
<1>1. Memory.members = members /\ Memory'.members = members'
  BY DEF Memory
<1>2. sessions' = sessions \/ \E p \in Participant : sessions' = sessions \cup {p}
  BY DEF StoreNext, ClientCommand, RelayCommand, RelayStep, PeerStep, SubmitTransient, SubmitDurable, FinalizeStroke,
     RepairStroke, PersistSubmission, RejectSubmission, PersistFinalized, AbandonFinalize, LoseShare, Serve, Redeem,
     Connect, Disconnect, Redeliver, Revoke, Expire, Restart, observers, storeVars
<1>3. CASE /\ UNCHANGED members
           /\ previous' \in {previous, {}, {Memory}} /\ disk' \in {disk, Memory, Memory'}
  BY <1>1, <1>2, <1>3 DEF MembersTypeOK
<1>4. CASE /\ \E m \in previous : members' = m.members
           /\ previous' = {} /\ disk' \in {disk, Memory}
  BY <1>1, <1>2, <1>4 DEF MembersTypeOK
<1>5. CASE /\ previous' = {} /\ disk' \in {disk, Memory'}
           /\ \E p \in Participant : members' \in {members, members \cup {p}}
  BY <1>1, <1>2, <1>5 DEF MembersTypeOK
<1>6. CASE Restart
  <2>1. members' = disk.members /\ disk' = disk /\ previous' = {} /\ sessions' = sessions
    BY <1>6, LoadedFields DEF StoreInv, Restart, Restore
  <2> QED
    BY <2>1 DEF MembersTypeOK
<1> QED
  BY <1>3, <1>4, <1>5, <1>6, StepsOfTheShare

(* Connections are those of members, and answer for strokes.               *)
LEMMA PeersTypes ==
  ASSUME StoreInv, PagesAreSound, ShareTypeOK, [StoreNext]_storeVars
  PROVE  PeersTypeOK'
<1> USE DEF ShareTypeOK
<1>1. \A c \in DOMAIN commands : commands[c].about \subseteq StrokeId
  BY DEF PagesAreSound, PageInv, HistoryInv, HistoryTypeOK, Applied
<1>2. CASE Restart
  <2>1. participantOf' = <<>> /\ connectionStrokes' = [k \in Connection |-> {}]
    BY <1>2 DEF Restart
  <2>2. DOMAIN participantOf' = {}
    BY <2>1
  <2> QED
    BY <2>1, <2>2 DEF PeersTypeOK
<1>3. ~Restart => members \subseteq members'
  BY StepsOfTheShare DEF MembersTypeOK
<1>4. CASE UNCHANGED peers
  <2>1. ~Restart => PeersTypeOK'
    BY <1>3, <1>4 DEF PeersTypeOK, peers
  <2> QED
    BY <1>2, <2>1
<1>5. ASSUME NEW k \in Connection, Closed(k), ~Restart
      PROVE  PeersTypeOK'
  BY <1>3, <1>5 DEF PeersTypeOK, Closed
<1>6. ASSUME NEW k \in Connection, NEW ids \in SUBSET StrokeId, Begins(k, ids) \/ Finishes(k, ids),
             UNCHANGED participantOf, ~Restart
      PROVE  PeersTypeOK'
  BY <1>3, <1>6 DEF PeersTypeOK, Begins, Finishes
<1>7. ASSUME NEW k \in Connection, NEW c, SubmitTransient(k, c)
      PROVE  PeersTypeOK'
  <2>1. UNCHANGED participantOf /\ UNCHANGED <<members, disk>>
    BY <1>7 DEF SubmitTransient, file
  <2>2. \A r \in RootId : {OriginalId(r)} \subseteq StrokeId
    BY DEF OriginalId, StrokeId
  <2>3. \A i \in DOMAIN active : {active[i].id} \subseteq StrokeId
    BY PageFacts DEF PagesAreSound, Stroke
  <2>4. \/ \E r \in RootId : Begins(k, {OriginalId(r)})
        \/ \E i \in DOMAIN active : Finishes(k, {active[i].id})
        \/ UNCHANGED connectionStrokes
    BY <1>7 DEF SubmitTransient
  <2> QED
    BY <2>1, <2>2, <2>3, <2>4 DEF PeersTypeOK, Begins, Finishes
<1>8. CASE PersistSubmission
  <2>1. PICK k \in Connection : held = {k}
    BY <1>8 DEF LockTypeOK, PersistSubmission
  <2>2. UNCHANGED <<participantOf, members>>
        /\ Finishes(k, UNION {commands[c].about : c \in NewlyApplied})
    BY <1>8, <2>1 DEF PersistSubmission
  <2>3. UNION {commands[c].about : c \in NewlyApplied} \subseteq StrokeId
    BY <1>1, NewlyAppliedIsInTable
  <2> QED
    BY <2>2, <2>3 DEF PeersTypeOK, Finishes
<1>9. ASSUME NEW k \in Connection, NEW c \in DOMAIN commands, Redeliver(k, c)
      PROVE  PeersTypeOK'
  <2>1. UNCHANGED <<participantOf, members>> /\ (Begins(k, commands[c].about) \/ Finishes(k, commands[c].about))
    BY <1>9 DEF Redeliver
  <2> QED
    BY <1>1, <2>1 DEF PeersTypeOK, Begins, Finishes
<1>10. CASE PersistFinalized \/ AbandonFinalize
  <2>1. PICK k \in Connection : Closed(k)
    BY <1>10 DEF PersistFinalized, AbandonFinalize, LockTypeOK
  <2>2. members' = members
    BY <1>10 DEF PersistFinalized, AbandonFinalize, Restore, MembersTypeOK, LockTypeOK
  <2> QED
    BY <2>1, <2>2 DEF PeersTypeOK, Closed
<1>11. ASSUME NEW k \in Connection, Disconnect(k)
       PROVE  PeersTypeOK'
  <2>1. UNCHANGED members /\ (Closed(k) \/ UNCHANGED peers)
    BY <1>11 DEF Disconnect
  <2> QED
    BY <2>1 DEF PeersTypeOK, Closed, peers
<1>12. ASSUME NEW k \in Connection, NEW p, Connect(k, p)
       PROVE  PeersTypeOK'
  BY <1>12 DEF Connect, AuthenticateParticipant, PeersTypeOK
<1>13. ASSUME NEW c, NEW k, SubmitDurable(k, c) \/ RelayCommand(c)
       PROVE  PeersTypeOK'
  BY <1>4, <1>13 DEF SubmitDurable, RelayCommand, FinalizeStroke, RepairStroke
<1>14. CASE RejectSubmission \/ LoseShare \/ Serve
  BY <1>4, <1>14 DEF RejectSubmission, LoseShare, Serve
<1>15. CASE Revoke \/ Expire \/ (\E p \in Participant : Redeem(p)) \/ UNCHANGED storeVars
  BY <1>4, <1>15 DEF Revoke, Expire, Redeem, storeVars
<1>16. CASE RelayStep
  BY <1>8, <1>10, <1>14, <1>16 DEF RelayStep
<1>17. CASE PeerStep
  BY <1>9, <1>11, <1>12, <1>15, <1>17 DEF PeerStep
<1>18. ASSUME NEW c, ClientCommand(c) \/ RelayCommand(c)
       PROVE  PeersTypeOK'
  BY <1>7, <1>13, <1>18 DEF ClientCommand
<1> QED
  BY <1>2, <1>15, <1>16, <1>17, <1>18 DEF StoreNext

(* Flags are set and cleared.                                            *)
LEMMA FlagsTypes ==
  ASSUME StoreInv, LockTypeOK, FlagsTypeOK, [StoreNext]_storeVars
  PROVE  FlagsTypeOK'
<1>1. Memory.revoked = revoked /\ Memory'.revoked = revoked'
  BY DEF Memory
<1>2. revoked' \in BOOLEAN /\ disk'.revoked \in BOOLEAN /\ \A m \in previous' : m.revoked \in BOOLEAN
  <2>1. CASE Restart
    <3>1. revoked' = disk.revoked /\ disk' = disk /\ previous' = {}
      BY <2>1, LoadedFields DEF StoreInv, Restart, Restore
    <3> QED
      BY <3>1 DEF FlagsTypeOK
  <2>2. CASE UNCHANGED revoked /\ previous' \in {previous, {}, {Memory}} /\ disk' \in {disk, Memory, Memory'}
    BY <1>1, <2>2 DEF FlagsTypeOK
  <2>3. CASE (\E m \in previous : revoked' = m.revoked) /\ previous' = {} /\ disk' \in {disk, Memory}
    BY <1>1, <2>3 DEF FlagsTypeOK
  <2>4. CASE previous' = {} /\ disk' \in {disk, Memory'} /\ revoked' \in {revoked, TRUE}
    BY <1>1, <2>4 DEF FlagsTypeOK
  <2> QED
    BY <2>1, <2>2, <2>3, <2>4, StepsOfTheShare
<1>3. /\ torn' \in BOOLEAN
      /\ expired' = expired \/ expired' = TRUE
      /\ ended' = ended \/ ended' = TRUE
  <2> DEFINE Goal == /\ torn' \in BOOLEAN
                     /\ expired' = expired \/ expired' = TRUE
                     /\ ended' = ended \/ ended' = TRUE
  <2>1. ASSUME NEW image, WriteFails(image)
        PROVE  torn' \in BOOLEAN
    BY <2>1 DEF WriteFails
  <2>2. WriteSucceeds \/ UNCHANGED torn => torn' \in BOOLEAN
    BY DEF FlagsTypeOK, WriteSucceeds
  <2>3. ASSUME NEW c, ClientCommand(c) \/ RelayCommand(c)
        PROVE  Goal
    BY <2>2, <2>3 DEF ClientCommand, RelayCommand, SubmitTransient, SubmitDurable, FinalizeStroke, RepairStroke,
       file, observers
  <2>4. ASSUME RelayStep
        PROVE  Goal
    BY <2>1, <2>2, <2>4 DEF RelayStep, PersistSubmission, RejectSubmission, PersistFinalized, AbandonFinalize,
       LoseShare, Serve, file, observers
  <2>5. ASSUME PeerStep
        PROVE  Goal
    BY <2>1, <2>2, <2>5 DEF PeerStep, Redeem, Connect, Disconnect, Redeliver, Revoke, Expire, file, observers
  <2>6. ASSUME Restart \/ UNCHANGED storeVars
        PROVE  Goal
    BY <2>2, <2>6 DEF Restart, storeVars, file, observers
  <2> QED
    BY <2>3, <2>4, <2>5, <2>6 DEF StoreNext
<1> QED
  BY <1>2, <1>3 DEF FlagsTypeOK

(* Only commands of the table are announced.                             *)
LEMMA AnnouncedTypes ==
  ASSUME PagesAreSound, DOMAIN announced \subseteq CommandId, [StoreNext]_storeVars
  PROVE  DOMAIN announced' \subseteq CommandId
<1>1. Announce(NewlyApplied) => DOMAIN announced' \subseteq CommandId
  BY NewlyAppliedIsInTable DEF PagesAreSound, PageInv, HistoryInv, HistoryTypeOK, Announce
<1>2. UNCHANGED announced \/ Announce(NewlyApplied)
  BY DEF StoreNext, ClientCommand, RelayCommand, RelayStep, PeerStep, SubmitTransient, SubmitDurable, FinalizeStroke,
     RepairStroke, PersistSubmission, RejectSubmission, PersistFinalized, AbandonFinalize, LoseShare, Serve, Redeem,
     Connect, Disconnect, Redeliver, Revoke, Expire, Restart, observers, storeVars
<1> QED
  BY <1>1, <1>2


-----------------------------------------------------------------------------
(* What a command is about, and whether that is still in progress.         *)

(* An id is named by one root.                                             *)
LEMMA OneRoot == \A r, s : OriginalId(r) = OriginalId(s) => r = s
BY DEF OriginalId

(* Appending points leaves ids and authors as they are.                    *)
LEMMA ActiveAppends ==
  ASSUME active \in Seq(Stroke), NEW p, NEW c, NEW i \in DOMAIN active, NEW first, NEW batch \in Batch,
         AppendStrokePoints(p, c, i, first, batch)
  PROVE  /\ Record(p, c, "append", {active[i].id}) /\ minted' = minted
         /\ DOMAIN active' = DOMAIN active
         /\ \A j \in DOMAIN active : active'[j].id = active[j].id /\ active'[j].author = active[j].author
<1>1. /\ active' = [active EXCEPT ![i].points = @ \o batch]
      /\ Record(p, c, "append", {active[i].id}) /\ minted' = minted
  BY DEF AppendStrokePoints
<1>2. \A j \in DOMAIN active : active[j] \in Stroke
  BY LenProperties, ElementOfSeq
<1> QED
  BY <1>1, <1>2 DEF Stroke

(* What a submitted command does to the table and the strokes in progress. *)
Answered(c) ==
  /\ c \notin DOMAIN commands /\ DOMAIN commands' = DOMAIN commands \cup {c}
  /\ \A d \in DOMAIN commands : commands'[d] = commands[d]
  /\ minted \subseteq minted'
  /\ \A id \in IdsOf(active') : id \in IdsOf(active) \/ \E r \in minted' \ minted : id = OriginalId(r)
  /\ \A id \in commands'[c].about : \E r \in minted' : id = OriginalId(r)
  /\ commands'[c].kind \in Over => commands'[c].about \cap IdsOf(active') = {}

(* The table gets the answer that is recorded.                             *)
LEMMA RecordedAnswer ==
  ASSUME NEW p, NEW c, NEW kind, NEW about, Record(p, c, kind, about)
  PROVE  /\ c \notin DOMAIN commands /\ DOMAIN commands' = DOMAIN commands \cup {c}
         /\ \A d \in DOMAIN commands : commands'[d] = commands[d]
         /\ commands'[c].kind = kind /\ commands'[c].about = about
BY DEF Record

(* A command that begins, finishes or cancels a stroke is about its id, and *)
(* the others about none.                                                   *)
LEMMA SubmitAnswers ==
  ASSUME PageInv, NEW p \in Participant, NEW c \in CommandId, Submit(p, c)
  PROVE  Answered(c)
<1>1. HistoryInv /\ active \in Seq(Stroke)
  BY PageFacts DEF PageInv
<1>2. \A i \in DOMAIN active : active[i].id \in IdsOf(active)
  BY DEF IdsOf
<1>3. \A id \in IdsOf(active) : \E r \in minted : id = OriginalId(r)
  BY <1>1 DEF HistoryInv, IdsAreFresh
<1>4. ASSUME NEW r \in RootId, BeginStroke(p, c, r)
      PROVE  Answered(c)
  <2> DEFINE new == [id |-> OriginalId(r), author |-> p, points |-> <<>>]
  <2>1. /\ Record(p, c, "begin", {OriginalId(r)}) /\ r \notin minted /\ minted' = minted \cup {r}
        /\ active' = Append(active, new)
    BY <1>4 DEF BeginStroke
  <2>2. new \in Stroke /\ new.id = OriginalId(r)
    BY DEF Stroke, StrokeId, OriginalId
  <2> HIDE DEF new
  <2>3. Range(active') = Range(active) \cup {new}
    BY <1>1, <2>1, <2>2, AppendRange
  <2>4. \A id \in IdsOf(active') : id \in IdsOf(active) \/ id = OriginalId(r)
    BY <2>2, <2>3 DEF IdsOf, Range
  <2>5. r \in minted' \ minted /\ minted \subseteq minted'
    BY <2>1
  <2>6. commands'[c].kind = "begin" /\ commands'[c].about = {OriginalId(r)}
        /\ c \notin DOMAIN commands /\ DOMAIN commands' = DOMAIN commands \cup {c}
        /\ \A d \in DOMAIN commands : commands'[d] = commands[d]
    BY <2>1, RecordedAnswer
  <2>7. "begin" \notin Over
    BY DEF Over
  <2> QED
    BY <2>4, <2>5, <2>6, <2>7 DEF Answered
<1>5. ASSUME NEW i \in DOMAIN active, NEW first, NEW batch \in Batch, AppendStrokePoints(p, c, i, first, batch)
      PROVE  Answered(c)
  <2>1. /\ Record(p, c, "append", {active[i].id}) /\ minted' = minted
        /\ DOMAIN active' = DOMAIN active /\ \A j \in DOMAIN active : active'[j].id = active[j].id
    BY <1>1, <1>5, ActiveAppends
  <2>2. IdsOf(active') = IdsOf(active)
    BY <2>1 DEF IdsOf
  <2> DEFINE about == {active[i].id}
  <2>3. Record(p, c, "append", about)
    BY <2>1
  <2> HIDE DEF about
  <2>4. commands'[c].kind = "append" /\ commands'[c].about = about
        /\ c \notin DOMAIN commands /\ DOMAIN commands' = DOMAIN commands \cup {c}
        /\ \A d \in DOMAIN commands : commands'[d] = commands[d]
    BY <2>3, RecordedAnswer
  <2>5. "append" \notin Over
    BY DEF Over
  <2> QED
    BY <1>2, <1>3, <2>1, <2>2, <2>4, <2>5 DEF Answered, about
<1>6. ASSUME NEW i \in DOMAIN active, CommitStroke(p, c, i) \/ CancelStroke(p, c, i)
      PROVE  Answered(c)
  <2>1. /\ Record(p, c, "commit", {active[i].id}) \/ Record(p, c, "cancel", {active[i].id})
        /\ active' = RemoveAt(active, i) /\ minted' = minted
    BY <1>6 DEF CommitStroke, CancelStroke
  <2>2. IdsOf(active') \subseteq IdsOf(active) \ {active[i].id}
    BY <1>1, <2>1, ActiveShrinks
  <2> DEFINE about == {active[i].id}
  <2>3. PICK kind : Record(p, c, kind, about)
    BY <2>1
  <2> HIDE DEF about
  <2>4. /\ commands'[c].about = about
        /\ c \notin DOMAIN commands /\ DOMAIN commands' = DOMAIN commands \cup {c}
        /\ \A d \in DOMAIN commands : commands'[d] = commands[d]
    BY <2>3, RecordedAnswer
  <2> QED
    BY <1>2, <1>3, <2>1, <2>2, <2>4 DEF Answered, about
<1>7. ASSUME NEW region, Erase(p, c, region) \/ EraseNothing(p, c, region) \/ Undo(p, c) \/ Redo(p, c)
      PROVE  Answered(c)
  <2>1. (\E kind \in {"set", "none"} : Record(p, c, kind, {})) /\ active' = active /\ minted' = minted
    BY <1>7 DEF Erase, EraseNothing, Undo, Redo, SetCommittedStrokes, pageVars
  <2> DEFINE about == {}
  <2>2. PICK kind : Record(p, c, kind, about)
    BY <2>1
  <2> HIDE DEF about
  <2>3. /\ commands'[c].about = about
        /\ c \notin DOMAIN commands /\ DOMAIN commands' = DOMAIN commands \cup {c}
        /\ \A d \in DOMAIN commands : commands'[d] = commands[d]
    BY <2>2, RecordedAnswer
  <2>4. IdsOf(active') = IdsOf(active) /\ minted' = minted
    BY <2>1 DEF IdsOf
  <2> QED
    BY <2>3, <2>4 DEF Answered, about
<1> QED
  BY <1>4, <1>5, <1>6, <1>7 DEF Submit

(* A submitted command keeps the table right.                              *)
LEMMA AnswersStayOver ==
  ASSUME AnswersAreOver(commands, active, minted), NEW c, Answered(c)
  PROVE  AnswersAreOver(commands', active', minted')
<1>1. ASSUME NEW d \in DOMAIN commands
      PROVE  /\ \A id \in commands'[d].about : \E r \in minted' : id = OriginalId(r)
             /\ commands'[d].kind \in Over => commands'[d].about \cap IdsOf(active') = {}
  <2>1. \A id \in commands[d].about : \E r \in minted : id = OriginalId(r)
    BY DEF AnswersAreOver
  <2>2. commands[d].kind \in Over => commands[d].about \cap IdsOf(active) = {}
    BY DEF AnswersAreOver
  <2>3. \A id \in IdsOf(active') : id \in IdsOf(active) \/ id \notin commands[d].about
    BY <2>1, OneRoot DEF Answered
  <2> QED
    BY <2>1, <2>2, <2>3 DEF Answered
<1> QED
  BY <1>1 DEF Answered, AnswersAreOver

(* Ids are only ever added to those that were begun.                       *)
LEMMA AnswersKeep ==
  ASSUME NEW table, NEW begun, NEW ids, NEW more, ids \subseteq more, AnswersAreOver(table, begun, ids)
  PROVE  AnswersAreOver(table, begun, more)
BY DEF AnswersAreOver

(* Every step keeps the tables right, those of the images included.        *)
LEMMA TablesNext ==
  ASSUME StoreInv, ShareTypeOK, PagesAreSound, TablesAreRight, [StoreNext]_storeVars
  PROVE  TablesAreRight'
<1>1. /\ Memory.commands = commands /\ Memory.active = active
      /\ Memory'.commands = commands' /\ Memory'.active = active'
  BY DEF Memory
<1>2. ASSUME NEW p \in Participant, NEW c \in CommandId, SubmitsTo(p, c)
      PROVE  TablesAreRight'
  <2>1. Answered(c) /\ minted \subseteq minted'
    BY <1>2, SubmitAnswers DEF SubmitsTo, PagesAreSound, Answered
  <2>2. AnswersAreOver(commands', active', minted')
    BY <2>1, AnswersStayOver DEF TablesAreRight
  <2>3. disk' = disk /\ previous' \in {previous, {Memory}}
    BY <1>2 DEF SubmitsTo
  <2>4. AnswersAreOver(disk.commands, disk.active, minted')
    BY <2>1, AnswersKeep DEF TablesAreRight
  <2>5. \A m \in previous' : AnswersAreOver(m.commands, m.active, minted)
    BY <1>1, <2>3 DEF TablesAreRight
  <2>6. \A m \in previous' : AnswersAreOver(m.commands, m.active, minted')
    BY <2>1, <2>5, AnswersKeep
  <2> QED
    BY <2>2, <2>3, <2>4, <2>6 DEF TablesAreRight
<1>3. CASE LeavesPage
  <2>1. commands' = commands /\ active' = active /\ minted' = minted
    BY <1>3 DEF LeavesPage, vars, pageVars
  <2>2. AnswersAreOver(commands', active', minted')
    BY <2>1 DEF TablesAreRight
  <2>3. AnswersAreOver(disk'.commands, disk'.active, minted')
    BY <1>1, <1>3, <2>1 DEF TablesAreRight, LeavesPage
  <2>4. \A m \in previous' : AnswersAreOver(m.commands, m.active, minted')
    BY <1>1, <1>3, <2>1 DEF TablesAreRight, LeavesPage
  <2> QED
    BY <2>2, <2>3, <2>4 DEF TablesAreRight
<1>4. ASSUME NEW m, AnswersAreOver(m.commands, m.active, minted), GoesOn(m)
      PROVE  TablesAreRight'
  <2>1. commands' = m.commands /\ active' = m.active /\ minted' = minted /\ previous' = {}
        /\ disk' \in {disk, Memory}
    BY <1>4 DEF GoesOn, Restore
  <2>2. AnswersAreOver(commands', active', minted')
    BY <1>4, <2>1
  <2>3. AnswersAreOver(disk'.commands, disk'.active, minted')
    BY <1>1, <2>1 DEF TablesAreRight
  <2> QED
    BY <2>1, <2>2, <2>3 DEF TablesAreRight
<1>5. CASE Restart
  <2>1. AnswersAreOver(LoadedShare.commands, LoadedShare.active, minted)
    BY LoadedFields DEF StoreInv, TablesAreRight
  <2>2. GoesOn(LoadedShare)
    BY <1>5 DEF Restart, GoesOn
  <2> QED
    BY <1>4, <2>1, <2>2
<1>6. \A m \in previous : AnswersAreOver(m.commands, m.active, minted)
  BY DEF TablesAreRight
<1> QED
  BY <1>2, <1>3, <1>4, <1>5, <1>6, StepsOfThePages

-----------------------------------------------------------------------------
(* Who answers for the strokes in progress.                                *)

(* The page and the table when the invariants hold.                        *)
LEMMA ShareFacts ==
  ASSUME PagesAreSound
  PROVE  HistoryInv /\ PageInv /\ active \in Seq(Stroke) /\ Distinct(active)
BY PageFacts DEF PagesAreSound, PageInv, PageBounds, HistoryInv, IdsAreFresh

(* The strokes that are answered for after a step.                         *)
AllAnsweredAfter(begun) ==
  \A i \in DOMAIN begun :
    \/ begun[i].id \in leaked'
    \/ \E k \in DOMAIN participantOf' : /\ participantOf'[k] = begun[i].author
                                        /\ begun[i].id \in connectionStrokes'[k]

(* Strokes that are answered for are when their connection answers for     *)
(* more, and when connections that do not answer for them close.           *)
LEMMA AnswersMove ==
  ASSUME NEW old, NEW new, AllAnsweredFor(old),
         \A i \in DOMAIN new : \E j \in DOMAIN old : new[i].id = old[j].id /\ new[i].author = old[j].author,
         leaked \subseteq leaked',
         \A i \in DOMAIN new, k \in DOMAIN participantOf :
           participantOf[k] = new[i].author /\ new[i].id \in connectionStrokes[k] =>
             \/ k \in DOMAIN participantOf' /\ participantOf'[k] = participantOf[k]
                /\ new[i].id \in connectionStrokes'[k]
             \/ new[i].id \in leaked'
  PROVE  AllAnsweredAfter(new)
<1> SUFFICES ASSUME NEW i \in DOMAIN new, new[i].id \notin leaked'
             PROVE  \E k \in DOMAIN participantOf' : /\ participantOf'[k] = new[i].author
                                                     /\ new[i].id \in connectionStrokes'[k]
  BY DEF AllAnsweredAfter
<1>1. PICK j \in DOMAIN old : new[i].id = old[j].id /\ new[i].author = old[j].author
  OBVIOUS
<1>2. AnsweredFor(old[j])
  BY DEF AllAnsweredFor
<1>3. PICK k \in DOMAIN participantOf : participantOf[k] = new[i].author /\ new[i].id \in connectionStrokes[k]
  BY <1>1, <1>2 DEF AnsweredFor
<1> QED
  BY <1>3

(* Nothing changes for a stroke whose connections stay.                    *)
LEMMA AnswersStay ==
  ASSUME NEW begun, AllAnsweredFor(begun), leaked' = leaked, UNCHANGED peers
  PROVE  AllAnsweredAfter(begun)
BY DEF AllAnsweredFor, AnsweredFor, AllAnsweredAfter, peers

(* A share that is served again answers for its strokes.                   *)
LEMMA ServedAgain ==
  ASSUME previous' = {}, mode' # "serving" \/ ~RequireActive' \/ AllAnsweredAfter(active')
  PROVE  ServedAreAnswered' /\ OnlyFewer'
<1>1. ServedAreAnswered'
  BY DEF ServedAreAnswered, AllAnsweredFor, AnsweredFor, AllAnsweredAfter
<1>2. OnlyFewer'
  BY DEF OnlyFewer
<1> QED
  BY <1>1, <1>2

(* A handler that starts with answered strokes and drops some.             *)
Fewer(new, old) == \A i \in DOMAIN new : \E j \in DOMAIN old : old[j].id = new[i].id /\ old[j].author = new[i].author

(* It holds one copy and has dropped none but strokes.                   *)
LEMMA HeldNow ==
  ASSUME NEW kind \in {"submitting", "finalizing"}, NEW k, Hold(kind, k), AllAnsweredFor(active),
         leaked' = leaked, UNCHANGED peers, Fewer(active', active),
         kind = "submitting" => \A c \in DOMAIN commands' \ DOMAIN commands : commands'[c].kind \in Over
  PROVE  ServedAreAnswered' /\ OnlyFewer'
<1>1. mode' = kind /\ mode' # "serving" /\ previous' = {Memory}
  BY DEF Hold
<1>2. ServedAreAnswered'
  BY <1>1 DEF ServedAreAnswered
<1>3. Memory.active = active /\ Memory.commands = commands
  BY MemoryFields
<1>4. AllAnsweredAfter(active)
  BY AnswersStay
<1>5. OnlyFewer'
  <2> SUFFICES ASSUME NEW m, m.active = active, m.commands = commands
               PROVE  /\ AllAnsweredFor(m.active)'
                      /\ \A i \in DOMAIN active' : \E j \in DOMAIN m.active :
                           m.active[j].id = active'[i].id /\ m.active[j].author = active'[i].author
                      /\ \A c \in DOMAIN commands' \ DOMAIN m.commands :
                           mode' = "submitting" => commands'[c].kind \in Over
    BY <1>1, <1>3 DEF OnlyFewer
  <2>1. AllAnsweredFor(m.active)'
    BY <1>4 DEF AllAnsweredFor, AnsweredFor, AllAnsweredAfter
  <2>2. \A i \in DOMAIN active' : \E j \in DOMAIN m.active :
           m.active[j].id = active'[i].id /\ m.active[j].author = active'[i].author
    BY DEF Fewer
  <2>3. \A c \in DOMAIN commands' \ DOMAIN m.commands : mode' = "submitting" => commands'[c].kind \in Over
    BY <1>1
  <2> QED
    BY <2>1, <2>2, <2>3
<1> QED
  BY <1>2, <1>5

(* Leaving one out leaves fewer.                                           *)
LEMMA FewerByOne ==
  ASSUME active \in Seq(Stroke), active' = active \/ \E i \in DOMAIN active : active' = RemoveAt(active, i)
  PROVE  Fewer(active', active)
<1>1. CASE active' = active
  BY <1>1 DEF Fewer
<1>2. ASSUME NEW i \in DOMAIN active, active' = RemoveAt(active, i)
      PROVE  Fewer(active', active)
  <2> DEFINE at(j) == IF j < i THEN j ELSE j + 1
  <2>1. \A j \in DOMAIN active' : at(j) \in DOMAIN active /\ active'[j] = active[at(j)]
    BY <1>2, RemoveAtPlaces
  <2> HIDE DEF at
  <2> QED
    BY <2>1 DEF Fewer
<1> QED
  BY <1>1, <1>2

(* The assumptions that the steps share.                                   *)
ShareOK == ShareTypeOK /\ PagesAreSound /\ OrphanInv
NobodyIsOrphaned == ServedAreAnswered /\ OnlyFewer

(* A command that is not written: the connection answers for a stroke that *)
(* it begins and stops to for one that it cancels.                         *)
LEMMA TransientAnswers ==
  ASSUME ShareOK, NEW k \in Connection, NEW c, SubmitTransient(k, c)
  PROVE  NobodyIsOrphaned'
<1>1. /\ mode = "serving" /\ RequireActive /\ k \in DOMAIN participantOf
      /\ UNCHANGED <<lock, revoked, expired, participantOf, leaked>>
  BY DEF SubmitTransient, observers
<1>2. previous' = {} /\ AllAnsweredFor(active)
  BY <1>1 DEF ShareOK, OrphanInv, ServedAreAnswered, ShareTypeOK, LockTypeOK, lock
<1>3. active \in Seq(Stroke) /\ Distinct(active) /\ HistoryInv
  BY ShareFacts DEF ShareOK
<1>4. DOMAIN connectionStrokes = Connection
  BY DEF ShareOK, ShareTypeOK, PeersTypeOK
<1>5. ASSUME NEW r \in RootId, BeginStroke(participantOf[k], c, r), Begins(k, {OriginalId(r)})
      PROVE  AllAnsweredAfter(active')
  <2> DEFINE new == [id |-> OriginalId(r), author |-> participantOf[k], points |-> <<>>]
  <2>1. active' = Append(active, new) /\ connectionStrokes' = [connectionStrokes EXCEPT ![k] = @ \cup {new.id}]
    BY <1>5 DEF BeginStroke, Begins
  <2>2. new \in Stroke /\ new.author = participantOf[k]
    <3>1. participantOf[k] \in Participant
      BY <1>1 DEF ShareOK, ShareTypeOK, PeersTypeOK, MembersTypeOK
    <3> QED
      BY <3>1 DEF Stroke, StrokeId, OriginalId
  <2> HIDE DEF new
  <2>3. Range(active') = Range(active) \cup {new}
    BY <1>3, <2>1, <2>2, AppendRange
  <2>4. ASSUME NEW i \in DOMAIN active', active'[i] = new
        PROVE  \E x \in DOMAIN participantOf' : participantOf'[x] = active'[i].author /\ active'[i].id \in connectionStrokes'[x]
    BY <1>1, <1>4, <2>1, <2>2, <2>4
  <2>5. ASSUME NEW i \in DOMAIN active', active'[i] # new
        PROVE  \/ active'[i].id \in leaked'
               \/ \E x \in DOMAIN participantOf' : participantOf'[x] = active'[i].author /\ active'[i].id \in connectionStrokes'[x]
    <3>1. PICK j \in DOMAIN active : active'[i] = active[j]
      BY <2>3, <2>5 DEF Range
    <3>2. AnsweredFor(active[j])
      BY <1>2 DEF AllAnsweredFor
    <3>3. \A x \in Connection : connectionStrokes[x] \subseteq connectionStrokes'[x]
      BY <1>4, <2>1
    <3>4. DOMAIN participantOf \subseteq Connection
      BY DEF ShareOK, ShareTypeOK, PeersTypeOK
    <3> QED
      BY <1>1, <3>1, <3>2, <3>3, <3>4 DEF AnsweredFor
  <2> QED
    BY <2>4, <2>5 DEF AllAnsweredAfter
<1>6. ASSUME NEW i \in DOMAIN active, NEW first, NEW batch \in Batch, UNCHANGED connectionStrokes,
             AppendStrokePoints(participantOf[k], c, i, first, batch)
      PROVE  AllAnsweredAfter(active')
  <2>1. DOMAIN active' = DOMAIN active
        /\ \A j \in DOMAIN active : active'[j].id = active[j].id /\ active'[j].author = active[j].author
    BY <1>3, <1>6, ActiveAppends
  <2> QED
    BY <1>1, <1>2, <1>6, <2>1 DEF AllAnsweredFor, AnsweredFor, AllAnsweredAfter
<1>7. ASSUME NEW i \in DOMAIN active, CancelStroke(participantOf[k], c, i), Finishes(k, {active[i].id})
      PROVE  AllAnsweredAfter(active')
  <2>1. active' = RemoveAt(active, i) /\ connectionStrokes' = [connectionStrokes EXCEPT ![k] = @ \ {active[i].id}]
    BY <1>7 DEF CancelStroke, Finishes
  <2>2. Fewer(active', active) /\ IdsOf(active') \subseteq IdsOf(active) \ {active[i].id}
    BY <1>3, <2>1, FewerByOne, ActiveShrinks
  <2>3. \A j \in DOMAIN active' : active'[j].id # active[i].id
    BY <2>2 DEF IdsOf
  <2> QED
    BY <1>1, <1>2, <2>1, <2>2, <2>3 DEF AllAnsweredFor, AnsweredFor, AllAnsweredAfter, Fewer
<1> QED
  BY <1>1, <1>2, <1>5, <1>6, <1>7, ServedAgain DEF SubmitTransient, NobodyIsOrphaned

(* A command that will be written finishes strokes, if it is about any.    *)
LEMMA DurableAnswers ==
  ASSUME ShareOK, NEW k, NEW c, SubmitDurable(k, c)
  PROVE  NobodyIsOrphaned'
<1>1. mode = "serving" /\ RequireActive /\ Hold("submitting", k) /\ UNCHANGED peers /\ leaked' = leaked
  BY DEF SubmitDurable, observers
<1>2. AllAnsweredFor(active) /\ active \in Seq(Stroke)
  BY <1>1, ShareFacts DEF ShareOK, OrphanInv, ServedAreAnswered
<1>3. /\ \E p, about : Record(p, c, "commit", about) \/ Record(p, c, "set", about) \/ Record(p, c, "none", about)
      /\ active' = active \/ \E i \in DOMAIN active : active' = RemoveAt(active, i)
  <2> DEFINE p == participantOf[k]
  <2>1. ASSUME NEW i \in DOMAIN active, CommitStroke(p, c, i)
        PROVE  Record(p, c, "commit", {active[i].id}) /\ active' = RemoveAt(active, i)
    BY <2>1 DEF CommitStroke
  <2>2. ASSUME NEW region, Erase(p, c, region)
        PROVE  Record(p, c, "set", {}) /\ active' = active
    BY <2>2 DEF Erase, SetCommittedStrokes
  <2>3. ASSUME NEW region, EraseNothing(p, c, region)
        PROVE  Record(p, c, "none", {}) /\ active' = active
    BY <2>3 DEF EraseNothing, pageVars
  <2>4. ASSUME Undo(p, c) \/ Redo(p, c)
        PROVE  Record(p, c, "set", {}) /\ active' = active
    BY <2>4 DEF Undo, Redo, SetCommittedStrokes
  <2> QED
    BY <2>1, <2>2, <2>3, <2>4 DEF SubmitDurable
<1>4. \A d \in DOMAIN commands' \ DOMAIN commands : commands'[d].kind \in Over
  <2>1. PICK p, about : Record(p, c, "commit", about) \/ Record(p, c, "set", about) \/ Record(p, c, "none", about)
    BY <1>3
  <2>2. PICK kind \in Over : Record(p, c, kind, about)
    BY <2>1 DEF Over
  <2> QED
    BY <2>2, RecordedAnswer
<1>5. Fewer(active', active)
  BY <1>2, <1>3, FewerByOne
<1> QED
  BY <1>1, <1>2, <1>4, <1>5, HeldNow DEF NobodyIsOrphaned

(* The handler finds no stroke in progress that was not there before.      *)
LEMMA CopyAnswers ==
  ASSUME ShareOK, NEW m \in previous
  PROVE  previous = {m} /\ AllAnsweredFor(m.active) /\ Fewer(active, m.active)
BY DEF ShareOK, OrphanInv, OnlyFewer, Fewer, ShareTypeOK, LockTypeOK

(* When the command is written its connection stops to answer for what the *)
(* command is about, which is not in progress any more.                    *)
LEMMA PersistAnswers ==
  ASSUME ShareOK, PersistSubmission
  PROVE  NobodyIsOrphaned'
<1> DEFINE done == UNION {commands[c].about : c \in NewlyApplied}
<1>1. PICK k \in held, m \in previous : held = {k} /\ previous = {m}
  BY DEF PersistSubmission, ShareOK, ShareTypeOK, LockTypeOK
<1>2. /\ mode = "submitting" /\ previous' = {} /\ active' = active /\ leaked' = leaked
      /\ UNCHANGED participantOf /\ Finishes(k, done)
  BY <1>1 DEF PersistSubmission, Release, vars, pageVars
<1>3. AllAnsweredFor(m.active) /\ Fewer(active, m.active)
  BY <1>1, CopyAnswers
<1>4. \A c \in NewlyApplied : c \in DOMAIN commands /\ commands[c].kind \in Over
  BY <1>1, <1>2 DEF NewlyApplied, ShareOK, OrphanInv, OnlyFewer
<1>5. \A c \in NewlyApplied : commands[c].about \cap IdsOf(active) = {}
  BY <1>4 DEF ShareOK, OrphanInv, TablesAreRight, AnswersAreOver
<1>6. \A i \in DOMAIN active : active[i].id \notin done
  BY <1>5 DEF IdsOf
<1> HIDE DEF done
<1>7. AllAnsweredAfter(active')
  <2>1. k \in Connection /\ DOMAIN connectionStrokes = Connection
    BY <1>1 DEF ShareOK, ShareTypeOK, LockTypeOK, PeersTypeOK
  <2>2. connectionStrokes' = [connectionStrokes EXCEPT ![k] = @ \ done]
    BY <1>2 DEF Finishes
  <2>3. \A i \in DOMAIN active : \E j \in DOMAIN m.active :
           active[i].id = m.active[j].id /\ active[i].author = m.active[j].author
    BY <1>3 DEF Fewer
  <2>4. \A i \in DOMAIN active, x \in DOMAIN participantOf :
          active[i].id \in connectionStrokes[x] => active[i].id \in connectionStrokes'[x]
    BY <1>6, <2>1, <2>2
  <2> QED
    BY <1>2, <1>3, <2>3, <2>4, AnswersMove
<1> QED
  BY <1>2, <1>7, ServedAgain DEF NobodyIsOrphaned

(* A refused command leaves the strokes that were in progress before it.   *)
LEMMA RejectAnswers ==
  ASSUME ShareOK, RejectSubmission
  PROVE  NobodyIsOrphaned'
<1>1. PICK m \in previous : previous = {m}
  BY DEF RejectSubmission, ShareOK, ShareTypeOK, LockTypeOK
<1>2. previous' = {} /\ active' = m.active /\ leaked' = leaked /\ UNCHANGED peers
  BY <1>1 DEF RejectSubmission, Release, Restore, observers
<1>3. AllAnsweredAfter(m.active)
  BY <1>1, <1>2, CopyAnswers, AnswersStay
<1> QED
  BY <1>2, <1>3, ServedAgain DEF NobodyIsOrphaned

(* Delivered again, a command adds to what a connection answers for or     *)
(* takes from it what is not in progress any more.                         *)
LEMMA RedeliverAnswers ==
  ASSUME ShareOK, NEW k \in Connection, NEW c \in DOMAIN commands, Redeliver(k, c)
  PROVE  NobodyIsOrphaned'
<1>1. /\ mode = "serving" /\ RequireActive
      /\ active' = active /\ leaked' = leaked /\ UNCHANGED <<lock, participantOf>>
  BY DEF Redeliver, vars, pageVars, observers
<1>2. previous' = {} /\ AllAnsweredFor(active)
  BY <1>1 DEF ShareOK, OrphanInv, ServedAreAnswered, ShareTypeOK, LockTypeOK, lock
<1>3. DOMAIN connectionStrokes = Connection
  BY DEF ShareOK, ShareTypeOK, PeersTypeOK
<1>4. \A i \in DOMAIN active, x \in DOMAIN participantOf :
        active[i].id \in connectionStrokes[x] => active[i].id \in connectionStrokes'[x]
  <2> DEFINE about == commands[c].about
  <2>1. Begins(k, about) \/ (commands[c].kind \in Over /\ Finishes(k, about))
    <3>1. {"commit", "cancel"} \subseteq Over
      BY DEF Over
    <3> QED
      BY <3>1 DEF Redeliver
  <2>2. commands[c].kind \in Over => about \cap IdsOf(active) = {}
    BY DEF ShareOK, OrphanInv, TablesAreRight, AnswersAreOver
  <2> HIDE DEF about
  <2>3. CASE Begins(k, about)
    BY <1>3, <2>3 DEF Begins
  <2>4. CASE commands[c].kind \in Over /\ Finishes(k, about)
    <3>1. \A i \in DOMAIN active : active[i].id \notin about
      BY <2>2, <2>4 DEF IdsOf
    <3> QED
      BY <1>3, <2>4, <3>1 DEF Finishes
  <2> QED
    BY <2>1, <2>3, <2>4
<1>5. AllAnsweredAfter(active')
  <2>1. \A i \in DOMAIN active : \E j \in DOMAIN active :
          active[i].id = active[j].id /\ active[i].author = active[j].author
    OBVIOUS
  <2> QED
    BY <1>1, <1>2, <1>4, <2>1, AnswersMove
<1> QED
  BY <1>2, <1>5, ServedAgain DEF NobodyIsOrphaned

(* A connection closes: only strokes that it answered for, and that are    *)
(* not left as leaked, may not be in progress any more.                    *)
LEMMA ClosedAnswers ==
  ASSUME NEW old, NEW new, AllAnsweredFor(old), Fewer(new, old), NEW k, Closed(k), leaked \subseteq leaked',
         \A i \in DOMAIN new : k \in DOMAIN participantOf /\ participantOf[k] = new[i].author
                               /\ new[i].id \in connectionStrokes[k] => new[i].id \in leaked',
         DOMAIN participantOf \subseteq Connection, DOMAIN connectionStrokes = Connection
  PROVE  AllAnsweredAfter(new)
<1>1. \A x \in DOMAIN participantOf : x # k =>
        x \in DOMAIN participantOf' /\ participantOf'[x] = participantOf[x]
        /\ connectionStrokes'[x] = connectionStrokes[x]
  BY DEF Closed
<1>2. \A i \in DOMAIN new : \E j \in DOMAIN old : new[i].id = old[j].id /\ new[i].author = old[j].author
  BY DEF Fewer
<1> QED
  BY <1>1, <1>2, AnswersMove

(* A connection that closes leaves its strokes to the handler that         *)
(* finishes them; if it has none, nothing changes for the others.          *)
LEMMA DisconnectAnswers ==
  ASSUME ShareOK, NEW k \in Connection, Disconnect(k)
  PROVE  NobodyIsOrphaned'
<1>1. /\ mode = "serving" /\ k \in DOMAIN participantOf /\ previous = {}
      /\ active' = active /\ commands' = commands /\ leaked' = leaked /\ UNCHANGED <<revoked, expired>>
  BY DEF Disconnect, vars, pageVars, observers, ShareOK, ShareTypeOK, LockTypeOK
<1>2. Fewer(active, active)
  BY DEF Fewer
<1>3. CASE connectionStrokes[k] # {} /\ RequireActive
  <2>1. Hold("finalizing", k) /\ UNCHANGED peers
    BY <1>3 DEF Disconnect
  <2>2. AllAnsweredFor(active)
    BY <1>1, <1>3 DEF ShareOK, OrphanInv, ServedAreAnswered
  <2> QED
    BY <1>1, <1>2, <2>1, <2>2, HeldNow DEF NobodyIsOrphaned
<1>4. CASE ~(connectionStrokes[k] # {} /\ RequireActive)
  <2>1. Closed(k) /\ previous' = {}
    BY <1>1, <1>4 DEF Disconnect, lock
  <2>2. CASE ~RequireActive
    <3>1. ~RequireActive'
      BY <1>1, <2>2 DEF RequireActive
    <3> QED
      BY <2>1, <3>1, ServedAgain DEF NobodyIsOrphaned
  <2>3. CASE RequireActive
    <3>1. AllAnsweredFor(active) /\ connectionStrokes[k] = {}
      BY <1>1, <1>4, <2>3 DEF ShareOK, OrphanInv, ServedAreAnswered
    <3>2. DOMAIN participantOf \subseteq Connection /\ DOMAIN connectionStrokes = Connection
      BY DEF ShareOK, ShareTypeOK, PeersTypeOK
    <3>3. AllAnsweredAfter(active)
      BY <1>1, <1>2, <2>1, <3>1, <3>2, ClosedAnswers
    <3> QED
      BY <1>1, <2>1, <3>3, ServedAgain DEF NobodyIsOrphaned
  <2> QED
    BY <2>2, <2>3
<1> QED
  BY <1>3, <1>4

(* Finishing one stroke leaves fewer.                                      *)
LEMMA FinalizeAnswers ==
  ASSUME ShareOK, NEW c, FinalizeStroke(c)
  PROVE  NobodyIsOrphaned'
<1>1. mode = "finalizing" /\ UNCHANGED lock /\ UNCHANGED peers /\ leaked' = leaked
  BY DEF FinalizeStroke, observers
<1>2. PICK m \in previous : previous = {m}
  BY <1>1 DEF ShareOK, ShareTypeOK, LockTypeOK
<1>3. AllAnsweredFor(m.active) /\ Fewer(active, m.active)
  BY <1>2, CopyAnswers
<1>4. Fewer(active', active)
  <2>1. \E i \in DOMAIN active : active' = RemoveAt(active, i)
    BY DEF FinalizeStroke, Unfinished, Finalize, CommitStroke, CancelStroke
  <2> QED
    BY <2>1, FewerByOne, ShareFacts DEF ShareOK
<1>5. AllAnsweredAfter(m.active)
  BY <1>1, <1>3, AnswersStay
<1>6. AllAnsweredFor(m.active)'
  BY <1>5 DEF AllAnsweredFor, AnsweredFor, AllAnsweredAfter
<1>7. Fewer(active', m.active)
  BY <1>3, <1>4 DEF Fewer
<1>8. mode' = "finalizing" /\ previous' = {m}
  BY <1>1, <1>2 DEF lock
<1>9. OnlyFewer'
  <2> SUFFICES ASSUME NEW n, n = m
               PROVE  /\ AllAnsweredFor(n.active)'
                      /\ \A i \in DOMAIN active' : \E j \in DOMAIN n.active :
                           n.active[j].id = active'[i].id /\ n.active[j].author = active'[i].author
                      /\ \A d \in DOMAIN commands' \ DOMAIN n.commands :
                           mode' = "submitting" => commands'[d].kind \in Over
    BY <1>8 DEF OnlyFewer
  <2> QED
    BY <1>6, <1>7, <1>8 DEF Fewer
<1>10. ServedAreAnswered'
  BY <1>8 DEF ServedAreAnswered
<1> QED
  BY <1>9, <1>10 DEF NobodyIsOrphaned

(* The strokes of a closed connection are finished, or given up as leaked. *)
LEMMA FinalizedAnswers ==
  ASSUME ShareOK, PersistFinalized \/ AbandonFinalize
  PROVE  NobodyIsOrphaned'
<1>1. PICK k \in held, m \in previous : held = {k} /\ previous = {m}
  BY DEF PersistFinalized, AbandonFinalize, ShareOK, ShareTypeOK, LockTypeOK
<1>2. previous' = {} /\ Closed(k)
  BY <1>1 DEF PersistFinalized, AbandonFinalize, Release
<1>3. AllAnsweredFor(m.active) /\ Fewer(active, m.active)
  BY <1>1, CopyAnswers
<1>4. DOMAIN participantOf \subseteq Connection /\ DOMAIN connectionStrokes = Connection
  BY DEF ShareOK, ShareTypeOK, PeersTypeOK
<1>5. CASE Restore(m) /\ Leak(k)
  <2>1. active' = m.active /\ leaked' = leaked \cup ({m.active[i].id : i \in DOMAIN m.active} \cap connectionStrokes[k])
    BY <1>1, <1>5 DEF Restore, Leak
  <2>2. leaked \subseteq leaked'
        /\ \A i \in DOMAIN m.active : m.active[i].id \in connectionStrokes[k] => m.active[i].id \in leaked'
    BY <2>1
  <2>3. Fewer(m.active, m.active)
    BY DEF Fewer
  <2>4. AllAnsweredAfter(m.active)
    BY <1>2, <1>3, <1>4, <2>2, <2>3, ClosedAnswers
  <2> QED
    BY <1>2, <2>1, <2>4, ServedAgain DEF NobodyIsOrphaned
<1>6. CASE Unfinished(k) = {} /\ active' = active /\ leaked' = leaked
  <2>1. \A i \in DOMAIN active : ~(participantOf[k] = active[i].author /\ active[i].id \in connectionStrokes[k])
    BY <1>6 DEF Unfinished
  <2>2. AllAnsweredAfter(active)
    BY <1>2, <1>3, <1>4, <1>6, <2>1, ClosedAnswers
  <2> QED
    BY <1>2, <1>6, <2>2, ServedAgain DEF NobodyIsOrphaned
<1>7. CASE PersistFinalized
  BY <1>1, <1>5, <1>6, <1>7 DEF PersistFinalized, vars, pageVars
<1>8. CASE AbandonFinalize
  BY <1>1, <1>5, <1>8 DEF AbandonFinalize
<1> QED
  BY <1>7, <1>8

(* A share that starts again has no connection to answer for its strokes,  *)
(* and is served when they are finished.                                   *)
LEMMA LoadingAnswers ==
  ASSUME ShareOK, NEW c, Restart \/ RepairStroke(c) \/ LoseShare \/ Serve
  PROVE  NobodyIsOrphaned'
<1>1. CASE Restart
  <2>1. previous' = {} /\ mode' # "serving"
    BY <1>1 DEF Restart
  <2> QED
    BY <2>1, ServedAgain DEF NobodyIsOrphaned
<1>2. CASE RepairStroke(c) \/ LoseShare
  <2>1. mode = "loading" /\ previous' = previous /\ mode' # "serving"
    BY <1>2 DEF RepairStroke, LoseShare, lock
  <2>2. previous' = {}
    BY <2>1 DEF ShareOK, ShareTypeOK, LockTypeOK
  <2> QED
    BY <2>1, <2>2, ServedAgain DEF NobodyIsOrphaned
<1>3. CASE Serve
  <2>1. mode = "loading" /\ previous' = previous /\ active' = <<>>
    BY <1>3 DEF Serve, vars, pageVars
  <2>2. previous' = {}
    BY <2>1 DEF ShareOK, ShareTypeOK, LockTypeOK
  <2>3. AllAnsweredAfter(active')
    BY <2>1 DEF AllAnsweredAfter
  <2> QED
    BY <2>2, <2>3, ServedAgain DEF NobodyIsOrphaned
<1> QED
  BY <1>1, <1>2, <1>3

(* Who joins, connects or ends the share leaves those that answer.         *)
LEMMA PeersAnswer ==
  ASSUME ShareOK, NEW k, NEW p, Redeem(p) \/ Connect(k, p) \/ Revoke
  PROVE  NobodyIsOrphaned'
<1>1. mode = "serving" /\ UNCHANGED lock /\ active' = active /\ leaked' = leaked /\ UNCHANGED expired
  BY DEF Redeem, Connect, Revoke, vars, pageVars, observers
<1>2. previous' = {}
  BY <1>1 DEF ShareOK, ShareTypeOK, LockTypeOK, lock
<1>3. CASE Redeem(p)
  <2>1. RequireActive /\ UNCHANGED peers
    BY <1>3 DEF Redeem
  <2>2. AllAnsweredFor(active)
    BY <1>1, <2>1 DEF ShareOK, OrphanInv, ServedAreAnswered
  <2> QED
    BY <1>1, <1>2, <2>1, <2>2, AnswersStay, ServedAgain DEF NobodyIsOrphaned
<1>4. CASE Connect(k, p)
  <2>1. /\ RequireActive /\ UNCHANGED connectionStrokes
        /\ \A x \in DOMAIN participantOf : x \in DOMAIN participantOf' /\ participantOf'[x] = participantOf[x]
    BY <1>4 DEF Connect, AuthenticateParticipant
  <2>2. AllAnsweredFor(active)
    BY <1>1, <2>1 DEF ShareOK, OrphanInv, ServedAreAnswered
  <2>3. \A i \in DOMAIN active : \E j \in DOMAIN active :
          active[i].id = active[j].id /\ active[i].author = active[j].author
    OBVIOUS
  <2>4. AllAnsweredAfter(active)
    BY <1>1, <2>1, <2>2, <2>3, AnswersMove
  <2> QED
    BY <1>1, <1>2, <2>4, ServedAgain DEF NobodyIsOrphaned
<1>5. CASE Revoke
  <2>1. ~RequireActive'
    BY <1>5 DEF Revoke, RequireActive
  <2> QED
    BY <1>2, <2>1, ServedAgain DEF NobodyIsOrphaned
<1> QED
  BY <1>3, <1>4, <1>5

(* Time passes, or nothing happens.                                        *)
LEMMA TimeAnswers ==
  ASSUME ShareOK, Expire \/ UNCHANGED storeVars
  PROVE  NobodyIsOrphaned'
<1>1. /\ mode' = mode /\ previous' = previous /\ active' = active /\ commands' = commands
      /\ leaked' = leaked /\ UNCHANGED peers /\ UNCHANGED revoked /\ (expired' = expired \/ expired' = TRUE)
  BY DEF Expire, storeVars, vars, pageVars, lock, observers
<1>2. OnlyFewer'
  BY <1>1 DEF ShareOK, OrphanInv, OnlyFewer, AllAnsweredFor, AnsweredFor, peers
<1>3. RequireActive' => RequireActive
  BY <1>1 DEF RequireActive
<1>4. ServedAreAnswered'
  BY <1>1, <1>3 DEF ShareOK, OrphanInv, ServedAreAnswered, AllAnsweredFor, AnsweredFor, peers
<1> QED
  BY <1>2, <1>4 DEF NobodyIsOrphaned

(* Every step keeps a stroke in progress answered for.                     *)
LEMMA AnswersNext ==
  ASSUME ShareOK, [StoreNext]_storeVars
  PROVE  NobodyIsOrphaned'
<1>1. ASSUME NEW c, ClientCommand(c)
      PROVE  NobodyIsOrphaned'
  BY <1>1, TransientAnswers, DurableAnswers DEF ClientCommand
<1>2. ASSUME NEW c, RelayCommand(c)
      PROVE  NobodyIsOrphaned'
  BY <1>2, FinalizeAnswers, LoadingAnswers DEF RelayCommand
<1>3. CASE RelayStep
  BY <1>3, PersistAnswers, RejectAnswers, FinalizedAnswers, LoadingAnswers DEF RelayStep
<1>4. CASE Restart
  BY <1>4, LoadingAnswers
<1>5. ASSUME NEW k \in Connection, \/ Disconnect(k) \/ \E c \in DOMAIN commands : Redeliver(k, c)
                                   \/ \E p : Connect(k, p)
      PROVE  NobodyIsOrphaned'
  BY <1>5, DisconnectAnswers, RedeliverAnswers, PeersAnswer
<1>6. CASE Expire \/ UNCHANGED storeVars
  BY <1>6, TimeAnswers
<1>7. CASE Revoke \/ \E p : Redeem(p)
  BY <1>7, PeersAnswer
<1> QED
  BY <1>1, <1>2, <1>3, <1>4, <1>5, <1>6, <1>7 DEF StoreNext, PeerStep

-----------------------------------------------------------------------------
(* The share: its page, who answers for what, and its types.               *)

LEMMA ShareInit == StoreInit => ShareInv
<1> SUFFICES ASSUME StoreInit  PROVE ShareInv
  OBVIOUS
<1>1. /\ Init /\ mode = "serving" /\ held = {} /\ previous = {} /\ members = {Owner} /\ sessions = {Owner}
      /\ disk = Memory /\ DOMAIN participantOf = {} /\ connectionStrokes = [k \in Connection |-> {}]
      /\ DOMAIN announced = {} /\ revoked = FALSE /\ expired = FALSE /\ torn = FALSE /\ ended = FALSE
  BY DEF StoreInit
<1>2. StoreInv
  BY InitHolds
<1>3. PageInv /\ RevisionInv
  <2>1. RevisionInv
    BY <1>1 DEF Init, RevisionInv, EveryRevisionIsOneCommand
  <2> QED
    BY <1>1, <2>1, InitIsValid, InitBounds DEF PageInv
<1>4. PagesAreSound
  <2>1. ImageOK(Memory, minted)
    BY <1>3, MemoryFields, PageHasImage DEF Memory
  <2> QED
    BY <1>1, <1>3, <2>1 DEF PagesAreSound
<1>5. OrphanInv
  <2>1. active = <<>> /\ commands = <<>> /\ Memory.active = <<>> /\ Memory.commands = <<>>
    BY <1>1, MemoryFields DEF Init
  <2>2. TablesAreRight
    BY <1>1, <2>1 DEF TablesAreRight, AnswersAreOver
  <2> QED
    BY <1>1, <2>1, <2>2 DEF OrphanInv, ServedAreAnswered, OnlyFewer, AllAnsweredFor
<1>6. LockTypeOK /\ MembersTypeOK /\ PeersTypeOK /\ FlagsTypeOK
  <2>1. Owner \in Participant
    BY JournalAssumption
  <2> QED
    BY <1>1, <2>1, MemoryFields DEF LockTypeOK, MembersTypeOK, PeersTypeOK, FlagsTypeOK
<1> QED
  BY <1>1, <1>2, <1>4, <1>5, <1>6 DEF ShareInv, ShareTypeOK

(* Every step of the relay keeps all of it.                              *)
LEMMA ShareNext == ShareInv /\ [StoreNext]_storeVars => ShareInv'
<1> SUFFICES ASSUME ShareInv, [StoreNext]_storeVars  PROVE ShareInv'
  OBVIOUS
<1>1. StoreInv /\ PagesAreSound /\ OrphanInv /\ ShareTypeOK
  BY DEF ShareInv
<1>2. StoreInv'
  BY <1>1, NextHolds
<1>3. PagesAreSound'
  BY <1>1, PagesNext
<1>4. OrphanInv'
  BY <1>1, TablesNext, AnswersNext DEF OrphanInv, ShareOK, NobodyIsOrphaned
<1>5. LockTypeOK' /\ MembersTypeOK' /\ PeersTypeOK' /\ FlagsTypeOK' /\ DOMAIN announced' \subseteq CommandId
  BY <1>1, LockTypes, MembersTypes, PeersTypes, FlagsTypes, AnnouncedTypes DEF ShareTypeOK
<1> QED
  BY <1>2, <1>3, <1>4, <1>5 DEF ShareInv, ShareTypeOK

(* The page, its copies, the strokes in progress and the types of a share. *)
THEOREM ShareInvHolds == StoreSpec => []ShareInv
BY ShareInit, ShareNext, PTL DEF StoreSpec

(* The type invariant follows.                                           *)
LEMMA ShareIsTyped == ShareInv => StoreTypeOK
<1> SUFFICES ASSUME ShareInv  PROVE StoreTypeOK
  OBVIOUS
<1>1. TypeOK
  <2>1. PageInv /\ HistoryInv /\ CountsMatchPage
    BY DEF ShareInv, PagesAreSound, PageInv, PageBounds
  <2>2. strokeCount \in Nat /\ pointCount \in Nat
    BY <2>1, PageFacts DEF CountsMatchPage
  <2> QED
    BY <2>1, <2>2, PageFacts DEF TypeOK, HistoryInv
<1>2. LockTypeOK /\ MembersTypeOK /\ PeersTypeOK /\ FlagsTypeOK /\ DOMAIN announced \subseteq CommandId
  BY DEF ShareInv, ShareTypeOK
<1>3. /\ mode \in {"serving", "submitting", "finalizing", "loading", "skipped", "lost"}
      /\ (mode \in {"submitting", "finalizing"}) <=> (held # {})
  BY <1>2 DEF LockTypeOK
<1>4. Cardinality(held) <= 1 /\ Cardinality(previous) = Cardinality(held)
  <2>1. CASE \E k, m : held = {k} /\ previous = {m}
    <3>1. Cardinality(held) = 1 /\ Cardinality(previous) = 1
      BY <2>1, FS_Singleton
    <3> QED
      BY <3>1
  <2>2. CASE held = {} /\ previous = {}
    <3>1. Cardinality(held) = 0 /\ Cardinality(previous) = 0
      BY <2>2, FS_EmptySet
    <3> QED
      BY <3>1
  <2> QED
    BY <1>2, <2>1, <2>2 DEF LockTypeOK
<1> QED
  BY <1>1, <1>2, <1>3, <1>4 DEF StoreTypeOK, LockTypeOK, MembersTypeOK, PeersTypeOK, FlagsTypeOK

(* The share is well typed: the page and its history, at most one handler  *)
(* with one copy, members and their connections.                           *)
THEOREM StoreIsWellTyped == StoreSpec => []StoreTypeOK
BY ShareInvHolds, ShareIsTyped, PTL

(* A stroke in progress of a share that is served always has an open       *)
(* connection of its author to finish it, unless its repair failed.        *)
THEOREM StrokesAreNeverOrphaned == StoreSpec => []NoStrokeIsOrphaned
<1>1. ShareInv => NoStrokeIsOrphaned
  BY DEF ShareInv, OrphanInv, ServedAreAnswered, AllAnsweredFor, AnsweredFor, NoStrokeIsOrphaned
<1> QED
  BY <1>1, ShareInvHolds, PTL

-----------------------------------------------------------------------------
(* What loses a share.                                                     *)

LEMMA ShareReloads == ShareInv => PageIsReloadable
BY PageFacts DEF ShareInv, PagesAreSound, PageInv, PageBounds, HistoryInv, HistoryFits, RevisionInv, PageIsReloadable

(* The page in memory can be reloaded whatever writes failed and wherever  *)
(* the relay stopped, and the file too: a restart never loses the share by *)
(* its page.                                                               *)
THEOREM RestartsRevalidate == StoreSpec => []PageIsReloadable /\ [][Restart => mode' = "loading"]_storeVars
<1>1. PageIsReloadable' => (Restart => mode' = "loading")
  BY DEF Restart
<1> QED
  BY <1>1, ShareReloads, ShareInvHolds, PTL DEF StoreSpec

(* Whoever draws is a member of the share, in memory, in the copy of a     *)
(* handler and in the file.                                                *)
AuthorsAre(begun, who) == \A i \in DOMAIN begun : begun[i].author \in who
MembersDraw == /\ AuthorsAre(active, members) /\ AuthorsAre(disk.active, disk.members)
               /\ \A m \in previous : AuthorsAre(m.active, m.members)

(* A repair moves strokes in progress to the history: what both take       *)
(* together is what the file said.                                         *)
RepairsMoveStrokes ==
  mode = "loading" =>
    /\ Len(actions) + Cardinality(Drawn(active)) = Len(disk.actions) + Cardinality(Drawn(disk.active))
    /\ RecordedPoints(actions) + PointTotal(active) = RecordedPoints(disk.actions) + PointTotal(disk.active)

LossInv == MembersDraw /\ RepairsMoveStrokes /\ SharesWithRoomSurvive

(* Finishing a stroke takes it from those in progress, and no command that *)
(* is written adds one.                                                    *)
LEMMA FinalizeShrinks ==
  ASSUME NEW p, NEW c, NEW i, Finalize(p, c, i)
  PROVE  active' = RemoveAt(active, i)
BY DEF Finalize, CancelStroke, CommitStroke

LEMMA DurableShrinks ==
  ASSUME NEW k, NEW c, SubmitDurable(k, c)
  PROVE  active' = active \/ \E i \in DOMAIN active : active' = RemoveAt(active, i)
<1> DEFINE p == participantOf[k]
<1>1. ASSUME NEW i \in DOMAIN active, CommitStroke(p, c, i)
      PROVE  active' = RemoveAt(active, i)
  BY <1>1 DEF CommitStroke
<1>2. ASSUME NEW region, Erase(p, c, region) \/ EraseNothing(p, c, region)
      PROVE  active' = active
  BY <1>2 DEF Erase, EraseNothing, SetCommittedStrokes, pageVars
<1>3. ASSUME Undo(p, c) \/ Redo(p, c)
      PROVE  active' = active
  BY <1>3 DEF Undo, Redo, SetCommittedStrokes
<1> QED
  BY <1>1, <1>2, <1>3 DEF SubmitDurable

(* Who begins a stroke is the member of the connection.                    *)
LEMMA TransientAuthors ==
  ASSUME ShareInv, AuthorsAre(active, members), NEW k, NEW c, SubmitTransient(k, c)
  PROVE  AuthorsAre(active', members)
<1> DEFINE p == participantOf[k]
<1>1. p \in members /\ active \in Seq(Stroke)
  BY ShareFacts DEF SubmitTransient, ShareInv, ShareTypeOK, PeersTypeOK
<1>2. ASSUME NEW r \in RootId, BeginStroke(p, c, r)
      PROVE  AuthorsAre(active', members)
  <2> DEFINE new == [id |-> OriginalId(r), author |-> p, points |-> <<>>]
  <2>1. active' = Append(active, new) /\ new.author = p
    BY <1>2 DEF BeginStroke
  <2>2. new \in Stroke
    <3>1. p \in Participant
      BY <1>1 DEF ShareInv, ShareTypeOK, MembersTypeOK
    <3> QED
      BY <3>1 DEF Stroke, StrokeId, OriginalId
  <2> HIDE DEF new
  <2>3. Range(active') = Range(active) \cup {new}
    BY <1>1, <2>1, <2>2, AppendRange
  <2> QED
    BY <1>1, <2>1, <2>3 DEF AuthorsAre, Range
<1>3. ASSUME NEW i \in DOMAIN active, NEW first, NEW batch \in Batch, AppendStrokePoints(p, c, i, first, batch)
      PROVE  AuthorsAre(active', members)
  BY <1>1, <1>3, ActiveAppends DEF AuthorsAre
<1>4. ASSUME NEW i \in DOMAIN active, CancelStroke(p, c, i)
      PROVE  AuthorsAre(active', members)
  <2>1. Fewer(active', active)
    BY <1>1, <1>4, FewerByOne DEF CancelStroke
  <2> QED
    BY <2>1 DEF AuthorsAre, Fewer
<1> QED
  BY <1>2, <1>3, <1>4 DEF SubmitTransient

(* The strokes in progress after a step are those of members.              *)
LEMMA ActiveAuthors ==
  ASSUME ShareInv, MembersDraw, [StoreNext]_storeVars, ~Restart
  PROVE  AuthorsAre(active', members) /\ members \subseteq members'
<1>1. \A m \in previous : m.members = members
  BY DEF ShareInv, StoreInv, CopyIsSafe
<1>2. members \subseteq members'
  BY <1>1, StepsOfTheShare DEF ShareInv, ShareTypeOK
<1>3. AuthorsAre(active, members) /\ active \in Seq(Stroke)
  BY ShareFacts DEF MembersDraw, ShareInv
<1>4. ASSUME active' = active \/ \E i \in DOMAIN active : active' = RemoveAt(active, i)
      PROVE  AuthorsAre(active', members)
  <2>1. Fewer(active', active)
    BY <1>3, <1>4, FewerByOne
  <2> QED
    BY <1>3, <2>1 DEF AuthorsAre, Fewer
<1>5. ASSUME NEW c, ClientCommand(c)
      PROVE  AuthorsAre(active', members)
  BY <1>3, <1>4, <1>5, TransientAuthors, DurableShrinks DEF ClientCommand
<1>6. ASSUME NEW c, RelayCommand(c)
      PROVE  AuthorsAre(active', members)
  <2>1. CASE FinalizeStroke(c)
    BY <1>4, <2>1, FinalizeShrinks DEF FinalizeStroke, Unfinished
  <2>2. CASE RepairStroke(c)
    <3>1. 1 \in DOMAIN active
      BY <2>2, PageFacts DEF RepairStroke, ShareInv, PagesAreSound
    <3> QED
      BY <1>4, <2>2, <3>1, FinalizeShrinks DEF RepairStroke
  <2> QED
    BY <1>6, <2>1, <2>2 DEF RelayCommand
<1>7. ASSUME active' = active \/ \E m \in previous : active' = m.active
      PROVE  AuthorsAre(active', members)
  BY <1>1, <1>7 DEF MembersDraw
<1>8. ASSUME RejectSubmission \/ AbandonFinalize \/ PersistFinalized
      PROVE  AuthorsAre(active', members)
  <2>1. previous # {}
    BY <1>8 DEF RejectSubmission, AbandonFinalize, PersistFinalized, ShareInv, StoreInv, ModesAreRight
  <2>2. UNCHANGED vars \/ \A m \in previous : Restore(m)
    BY <1>8 DEF RejectSubmission, AbandonFinalize, PersistFinalized
  <2> QED
    BY <1>7, <2>1, <2>2 DEF Restore, vars, pageVars
<1>9. ASSUME PersistSubmission \/ LoseShare \/ Serve \/ PeerStep \/ UNCHANGED storeVars
      PROVE  AuthorsAre(active', members)
  <2>1. UNCHANGED vars
    BY <1>9 DEF PersistSubmission, LoseShare, Serve, PeerStep, Redeem, Connect, Disconnect, Redeliver, Revoke, Expire,
       storeVars
  <2>2. active' = active
    BY <2>1 DEF vars, pageVars
  <2> QED
    BY <1>7, <2>2
<1> QED
  BY <1>2, <1>5, <1>6, <1>8, <1>9 DEF StoreNext, RelayStep

(* So are those of the copies and of the file.                             *)
LEMMA AuthorsNext ==
  ASSUME ShareInv, MembersDraw, [StoreNext]_storeVars
  PROVE  MembersDraw'
<1>1. CASE Restart
  <2>1. active' = disk.active /\ members' = disk.members /\ disk' = disk /\ previous' = {}
    BY <1>1, LoadedFields DEF ShareInv, StoreInv, Restart, Restore
  <2> QED
    BY <2>1 DEF MembersDraw
<1>2. CASE ~Restart
  <2>1. AuthorsAre(active', members')
    BY <1>2, ActiveAuthors DEF AuthorsAre
  <2>2. AuthorsAre(Memory.active, Memory.members) /\ AuthorsAre(Memory'.active, Memory'.members)
    BY <2>1 DEF MembersDraw, Memory
  <2>3. previous' \in {previous, {}, {Memory}} /\ disk' \in {disk, Memory, Memory'}
    BY <1>2, StepsOfTheShare DEF ShareInv, ShareTypeOK
  <2> QED
    BY <2>1, <2>2, <2>3 DEF MembersDraw
<1> QED
  BY <1>1, <1>2

(* A finished stroke is not drawn any more, and no other one is missing.   *)
LEMMA DrawnWithout ==
  ASSUME PagesAreSound, NEW i \in DOMAIN active, active' = RemoveAt(active, i)
  PROVE  /\ IsFiniteSet(Drawn(active)) /\ Cardinality(Drawn(active)) \in Nat
         /\ Drawn(active') = Drawn(active) \ {active[i]}
         /\ Cardinality(Drawn(active')) =
              IF active[i].points # <<>> THEN Cardinality(Drawn(active)) - 1 ELSE Cardinality(Drawn(active))
<1>1. active \in Seq(Stroke) /\ Distinct(active) /\ DOMAIN active = 1 .. Len(active) /\ Len(active) \in Nat
  BY ShareFacts, LenProperties
<1>2. IsFiniteSet(Range(active))
  <2>1. active \in Surjection(1 .. Len(active), Range(active))
    BY <1>1 DEF Surjection, Range
  <2>2. IsFiniteSet(1 .. Len(active))
    BY <1>1, FS_Interval
  <2> QED
    BY <2>1, <2>2, FS_Surjection
<1>3. IsFiniteSet(Drawn(active)) /\ Cardinality(Drawn(active)) \in Nat
  BY <1>2, FS_Subset, FS_CardinalityType DEF Drawn
<1>4. Range(active') = Range(active) \ {active[i]}
  <2>1. DOMAIN active' = 1 .. Len(active) - 1
        /\ \A j \in 1 .. Len(active) - 1 : active'[j] = IF j < i THEN active[j] ELSE active[j + 1]
    BY <1>1, RemoveAtFacts
  <2>2. \A j, k \in DOMAIN active : active[j] = active[k] => j = k
    BY <1>1 DEF Distinct
  <2>3. ASSUME NEW j \in DOMAIN active'
        PROVE  active'[j] \in Range(active) \ {active[i]}
    BY <1>1, <2>1, <2>2, <2>3 DEF Range
  <2>4. ASSUME NEW k \in DOMAIN active, k # i
        PROVE  active[k] \in Range(active')
    <3> DEFINE j == IF k < i THEN k ELSE k - 1
    <3>1. j \in 1 .. Len(active) - 1 /\ (IF j < i THEN j ELSE j + 1) = k
      BY <1>1, <2>4
    <3> HIDE DEF j
    <3>2. active'[j] = active[k]
      BY <2>1, <3>1
    <3> QED
      BY <2>1, <3>1, <3>2 DEF Range
  <2> QED
    BY <2>3, <2>4 DEF Range
<1>5. Drawn(active') = Drawn(active) \ {active[i]}
  BY <1>4 DEF Drawn
<1>6. active[i] \in Drawn(active) <=> active[i].points # <<>>
  BY DEF Drawn, Range
<1> QED
  BY <1>3, <1>5, <1>6, FS_RemoveElement

(* Finishing a stroke of a loaded share moves it.                          *)
LEMMA RepairMoves ==
  ASSUME ShareInv, NEW c \in CommandId, RepairStroke(c)
  PROVE  /\ Len(actions') + Cardinality(Drawn(active')) = Len(actions) + Cardinality(Drawn(active))
         /\ RecordedPoints(actions') + PointTotal(active') = RecordedPoints(actions) + PointTotal(active)
<1>1. PagesAreSound /\ PageInv
  BY DEF ShareInv, PagesAreSound
<1>2. /\ 1 \in DOMAIN active /\ active[1] \in Stroke /\ Len(active[1].points) \in Nat
      /\ actions \in Seq(Action) /\ PointTotal(active) \in Nat
  BY <1>1, PageFacts DEF RepairStroke
<1>3. Finalize(active[1].author, c, 1) /\ active' = RemoveAt(active, 1)
  BY FinalizeShrinks DEF RepairStroke
<1>4. /\ Cardinality(Drawn(active)) \in Nat
      /\ Cardinality(Drawn(active')) =
           IF active[1].points # <<>> THEN Cardinality(Drawn(active)) - 1 ELSE Cardinality(Drawn(active))
  BY <1>1, <1>2, <1>3, DrawnWithout
<1>5. PointTotal(active') = PointTotal(active) - Len(active[1].points)
  BY <1>1, <1>2, <1>3, ShrunkFacts
<1>6. Len(actions) \in Nat /\ RecordedPoints(actions) \in Nat
  BY <1>2, LenProperties, DrawnPointsSeq
<1>7. CASE active[1].points = <<>>
  <2>1. actions' = actions
    BY <1>3, <1>7 DEF Finalize, CancelStroke, historyVars
  <2>2. Len(active[1].points) = 0
    BY <1>7, EmptySeq
  <2> QED
    BY <1>2, <1>4, <1>5, <1>6, <1>7, <2>1, <2>2
<1>8. CASE active[1].points # <<>>
  <2> DEFINE d == [kind |-> "draw", id |-> c, actor |-> active[1].author, active |-> TRUE, stroke |-> active[1]]
  <2>1. actions' = Append(actions, d)
    BY <1>3, <1>8 DEF Finalize, CommitStroke, RecordAction
  <2>2. d \in Action /\ IsDraw(d) /\ d.stroke = active[1]
    BY <1>2 DEF Action, Draw, IsDraw, Stroke
  <2> HIDE DEF d
  <2>3. Len(actions') = Len(actions) + 1
    BY <1>2, <2>1, <2>2, AppendProperties
  <2>4. RecordedPoints(actions') = RecordedPoints(actions) + Len(active[1].points)
    BY <1>2, <2>1, <2>2, RecordedPointsGrow
  <2>5. Cardinality(Drawn(active')) = Cardinality(Drawn(active)) - 1
    BY <1>4, <1>8
  <2>6. Len(actions') + Cardinality(Drawn(active')) = Len(actions) + Cardinality(Drawn(active))
    BY <1>4, <1>6, <2>3, <2>5
  <2>7. RecordedPoints(actions') + PointTotal(active') = RecordedPoints(actions) + PointTotal(active)
    BY <1>2, <1>5, <1>6, <2>4
  <2> QED
    BY <2>6, <2>7
<1> QED
  BY <1>7, <1>8

(* A stroke that a limit refuses does not fit with the others either.      *)
LEMMA RefusedForLackOfRoom ==
  ASSUME ShareInv, MembersDraw, LoseShare
  PROVE  \/ Len(actions) + Cardinality(Drawn(active)) > MaxActions
         \/ RecordedPoints(actions) + PointTotal(active) > MaxRecordedPoints
<1>1. PagesAreSound /\ PageInv
  BY DEF ShareInv, PagesAreSound
<1>2. /\ 1 \in DOMAIN active /\ active[1] \in Stroke /\ Len(active[1].points) \in Nat /\ active \in Seq(Stroke)
      /\ actions \in Seq(Action) /\ PointTotal(active) \in Nat
  BY <1>1, PageFacts DEF LoseShare
<1>3. ~Accepted(active[1]) /\ active[1].points # <<>>
  BY <1>2 DEF LoseShare, MembersDraw, AuthorsAre, Accepted
<1>4. Len(actions) \in Nat /\ RecordedPoints(actions) \in Nat /\ MaxActions \in Nat /\ MaxRecordedPoints \in Nat
  BY <1>2, LenProperties, DrawnPointsSeq, JournalAssumption
<1>5. Cardinality(Drawn(active)) \in Nat /\ Cardinality(Drawn(active)) # 0
  <2>1. IsFiniteSet(Range(active))
    <3>1. active \in Surjection(1 .. Len(active), Range(active)) /\ Len(active) \in Nat
      BY <1>2, LenProperties DEF Surjection, Range
    <3>2. IsFiniteSet(1 .. Len(active))
      BY <3>1, FS_Interval
    <3> QED
      BY <3>1, <3>2, FS_Surjection
  <2>2. IsFiniteSet(Drawn(active)) /\ Cardinality(Drawn(active)) \in Nat
    BY <2>1, FS_Subset, FS_CardinalityType DEF Drawn
  <2>3. active[1] \in Drawn(active)
    BY <1>2, <1>3 DEF Drawn, Range
  <2> QED
    BY <2>2, <2>3, FS_EmptySet
<1>6. PointTotal(active) >= Len(active[1].points)
  <2>1. PointTotal(RemoveAt(active, 1)) = PointTotal(active) - Len(active[1].points)
    BY <1>2, PointTotalAt
  <2>2. PointTotal(RemoveAt(active, 1)) \in Nat
    BY <1>2, RemoveAtFacts, PointTotalNat
  <2> QED
    BY <1>2, <2>1, <2>2
<1>7. \/ ~(Len(actions) < MaxActions)
      \/ ~(RecordedPoints(actions) + Len(active[1].points) <= MaxRecordedPoints)
  BY <1>3 DEF Accepted
<1>8. CASE ~(Len(actions) < MaxActions)
  BY <1>4, <1>5, <1>8
<1>9. CASE ~(RecordedPoints(actions) + Len(active[1].points) <= MaxRecordedPoints)
  BY <1>2, <1>4, <1>6, <1>9
<1> QED
  BY <1>7, <1>8, <1>9

(* While a share is loaded nothing else happens to it.                     *)
LEMMA LoadingSteps ==
  ASSUME ShareInv, [StoreNext]_storeVars, mode' \in {"loading", "lost"}
  PROVE  \/ Restart \/ LoseShare
         \/ mode = "loading" /\ mode' = "loading" /\ disk' = disk /\ \E c \in CommandId : RepairStroke(c)
         \/ UNCHANGED <<mode, active, actions, disk>>
<1>1. ASSUME NEW c \in CommandId, ClientCommand(c) \/ RelayCommand(c)
      PROVE  \/ mode = "loading" /\ mode' = "loading" /\ disk' = disk /\ RepairStroke(c)
  BY <1>1 DEF ClientCommand, RelayCommand, SubmitTransient, SubmitDurable, FinalizeStroke, RepairStroke, Hold, lock, file
<1>2. ASSUME RelayStep
      PROVE  LoseShare
  BY <1>2 DEF RelayStep, PersistSubmission, RejectSubmission, PersistFinalized, AbandonFinalize, Serve, Release
<1>3. ASSUME PeerStep
      PROVE  UNCHANGED <<mode, active, actions, disk>>
  BY <1>3 DEF PeerStep, Redeem, Connect, Disconnect, Redeliver, Revoke, Expire, Hold, lock, file, vars, pageVars, historyVars
<1>4. UNCHANGED storeVars => UNCHANGED <<mode, active, actions, disk>>
  BY DEF storeVars, lock, file, vars, pageVars, historyVars
<1> QED
  BY <1>1, <1>2, <1>3, <1>4 DEF StoreNext

LEMMA LossNext == ShareInv /\ LossInv /\ [StoreNext]_storeVars /\ PageIsReloadable' => LossInv'
<1> SUFFICES ASSUME ShareInv, LossInv, [StoreNext]_storeVars, PageIsReloadable'  PROVE LossInv'
  OBVIOUS
<1>1. MembersDraw'
  BY AuthorsNext DEF LossInv
<1>2. RepairsMoveStrokes' /\ SharesWithRoomSurvive'
  <2>1. CASE Restart
    <3>1. mode' = "loading"
      BY <2>1 DEF Restart
    <3>2. active' = disk.active /\ actions' = disk.actions /\ disk' = disk
      BY <2>1, LoadedFields DEF ShareInv, StoreInv, Restart, Restore
    <3> QED
      BY <3>1, <3>2 DEF RepairsMoveStrokes, SharesWithRoomSurvive
  <2>2. CASE LoseShare
    <3>1. mode = "loading" /\ mode' = "lost" /\ disk' = disk
      BY <2>2 DEF LoseShare, file
    <3> QED
      BY <2>2, <3>1, RefusedForLackOfRoom DEF LossInv, RepairsMoveStrokes, SharesWithRoomSurvive
  <2>3. ASSUME NEW c \in CommandId, RepairStroke(c), mode = "loading", mode' = "loading", disk' = disk
        PROVE  RepairsMoveStrokes' /\ SharesWithRoomSurvive'
    BY <2>3, RepairMoves DEF LossInv, RepairsMoveStrokes, SharesWithRoomSurvive
  <2>4. CASE UNCHANGED <<mode, active, actions, disk>>
    BY <2>4 DEF LossInv, RepairsMoveStrokes, SharesWithRoomSurvive
  <2>5. CASE mode' \notin {"loading", "lost"}
    BY <2>5 DEF RepairsMoveStrokes, SharesWithRoomSurvive
  <2> QED
    BY <2>1, <2>2, <2>3, <2>4, <2>5, LoadingSteps
<1> QED
  BY <1>1, <1>2 DEF LossInv

(* Whatever writes failed and wherever the relay stopped, a restart only   *)
(* loses a share whose history has no room for the strokes in progress.    *)
THEOREM OnlyFullSharesAreLost == StoreSpec => []SharesWithRoomSurvive
<1>1. StoreInit => LossInv
  <2> SUFFICES ASSUME StoreInit  PROVE LossInv
    OBVIOUS
  <2>1. active = <<>> /\ mode = "serving" /\ previous = {} /\ disk.active = <<>>
    BY MemoryFields DEF StoreInit, Init
  <2> QED
    BY <2>1 DEF LossInv, MembersDraw, AuthorsAre, RepairsMoveStrokes, SharesWithRoomSurvive
<1>2. LossInv => SharesWithRoomSurvive
  BY DEF LossInv
<1> QED
  BY <1>1, <1>2, LossNext, ShareInvHolds, ShareReloads, PTL DEF StoreSpec
=============================================================================
