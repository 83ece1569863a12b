----------------------------- MODULE ShareStore ------------------------------
(***************************************************************************)
(* One share of the page relay, in memory and on disk: which commands are  *)
(* written before they are announced, what a failed write undoes, what a   *)
(* closed connection and a restart do to the strokes left unfinished.      *)
(* (app/page-relay/src/relay.rs, persistence.rs and relay/access.rs)       *)
(*                                                                         *)
(* A handler holds the share's mutex from its first read to its last       *)
(* write, but the process can stop anywhere in it: a durable command takes *)
(* two steps, the change in memory and the write, and the repair of the    *)
(* strokes of a closed connection one step per stroke and one to write.    *)
(* `mode` says what is under way. What is sent to whom is left out, except *)
(* for the durable commands that were announced as Applied.                *)
(***************************************************************************)
EXTENDS PageJournal

CONSTANTS
  Connection,          \* web sockets
  MaxParticipants      \* MAXIMUM_PARTICIPANTS_PER_SHARE

VARIABLES
  mode,                \* "serving", or what the relay is doing with the share
  held,                \* the connection whose handler holds the lock, if one does
  previous,            \* the copy of the share that it goes back to on an error
  members,             \* participants recorded in the share
  revoked, expired,
  participantOf,       \* open connections, each with its participant
  connectionStrokes,   \* connection_strokes of each connection
  disk,                \* the share's file
  sessions,            \* (observer) the participants that were handed a session token
  announced,           \* (observer) durable commands broadcast as Applied, and their answer
  ended,               \* (observer) a revocation was acknowledged
  torn,                \* (observer) a write that was reported failed had taken effect
  leaked               \* (observer) strokes of closed connections whose repair failed

lock      == <<mode, held, previous>>
peers     == <<participantOf, connectionStrokes>>
observers == <<sessions, announced, ended, leaked>>
file      == <<disk, torn>>
storeVars == <<vars, lock, members, revoked, expired, peers, file, observers>>

Memory == [strokes |-> strokes, active |-> active, revision |-> revision,
           strokeCount |-> strokeCount, pointCount |-> pointCount,
           commands |-> commands, actions |-> actions, undo |-> undo, redo |-> redo,
           members |-> members, revoked |-> revoked]

Restore(m) ==
  /\ strokes' = m.strokes /\ active' = m.active /\ revision' = m.revision
  /\ strokeCount' = m.strokeCount /\ pointCount' = m.pointCount
  /\ commands' = m.commands /\ actions' = m.actions /\ undo' = m.undo /\ redo' = m.redo
  /\ members' = m.members /\ revoked' = m.revoked

RequireActive == ~revoked /\ ~expired

(* write_share renames the file into place before it syncs the directory:  *)
(* a write that fails may have taken effect.                               *)
WriteSucceeds     == disk' = Memory' /\ torn' = FALSE
WriteFails(image) == disk' \in {disk, image} /\ torn' = (torn \/ disk' # disk)

Hold(m, k) == mode' = m /\ held' = {k} /\ previous' = {Memory}

ReleaseHeld == mode' = "serving" /\ UNCHANGED <<held, previous>>     \* a mutant
Release     == mode' = "serving" /\ held' = {} /\ previous' = {}

StoreInit ==
  /\ Init
  /\ mode = "serving" /\ held = {} /\ previous = {}
  /\ members = {Owner} /\ revoked = FALSE /\ expired = FALSE
  /\ participantOf = <<>> /\ connectionStrokes = [k \in Connection |-> {}]
  /\ disk = Memory /\ torn = FALSE
  /\ sessions = {Owner} /\ announced = <<>> /\ ended = FALSE /\ leaked = {}

-----------------------------------------------------------------------------
RedeemUnwritten(p) ==                                            \* a mutant
  /\ mode = "serving" /\ RequireActive
  /\ p \notin members /\ Cardinality(members) < MaxParticipants
  /\ members' = members \cup {p}
  /\ UNCHANGED <<vars, revoked>>
  /\ WriteSucceeds \/ WriteFails(Memory')
  /\ sessions' = sessions \cup {p}
  /\ UNCHANGED <<lock, expired, peers, announced, ended, leaked>>

(* The new participant is recorded in memory even if the write fails; the  *)
(* session token is then never sent.                                       *)
Redeem(p) ==
  /\ mode = "serving" /\ RequireActive
  /\ p \notin members /\ Cardinality(members) < MaxParticipants
  /\ members' = members \cup {p}
  /\ UNCHANGED <<vars, revoked>>
  /\ \/ WriteSucceeds /\ sessions' = sessions \cup {p}
     \/ WriteFails(Memory') /\ UNCHANGED sessions
  /\ UNCHANGED <<lock, expired, peers, announced, ended, leaked>>

(* The session's token leads to a participant that the share still knows.  *)
AuthenticateParticipant(p) == RequireActive /\ p \in sessions \cap members

Connect(k, p) ==
  /\ mode = "serving"
  /\ AuthenticateParticipant(p) /\ k \notin DOMAIN participantOf
  /\ participantOf' = [x \in DOMAIN participantOf \cup {k} |->
                         IF x = k THEN p ELSE participantOf[x]]
  /\ UNCHANGED <<vars, lock, members, revoked, expired, connectionStrokes, file, observers>>

BeginsNothing(k, ids) == UNCHANGED connectionStrokes             \* a mutant
Begins(k, ids)   == connectionStrokes' = [connectionStrokes EXCEPT ![k] = @ \cup ids]
Finishes(k, ids) == connectionStrokes' = [connectionStrokes EXCEPT ![k] = @ \ ids]

(* Begin, append and cancel change the page in memory only.                *)
SubmitTransient(k, c) ==
  /\ mode = "serving" /\ RequireActive /\ k \in DOMAIN participantOf
  /\ LET p == participantOf[k]
     IN  \/ \E r \in RootId : BeginStroke(p, c, r) /\ Begins(k, {OriginalId(r)})
         \/ \E i \in DOMAIN active, first \in 0 .. MaxStrokePoints, batch \in Batch :
              AppendStrokePoints(p, c, i, first, batch) /\ UNCHANGED connectionStrokes
         \/ \E i \in DOMAIN active : CancelStroke(p, c, i) /\ Finishes(k, {active[i].id})
  /\ UNCHANGED <<lock, members, revoked, expired, participantOf, file, observers>>

(* Commit, erase, undo and redo change memory first, keeping a copy.       *)
SubmitDurable(k, c) ==
  /\ mode = "serving" /\ RequireActive /\ k \in DOMAIN participantOf
  /\ LET p == participantOf[k]
     IN  \/ \E i \in DOMAIN active : CommitStroke(p, c, i)
         \/ \E region \in Region : Erase(p, c, region) \/ EraseNothing(p, c, region)
         \/ Undo(p, c)
         \/ Redo(p, c)
  /\ Hold("submitting", k)
  /\ UNCHANGED <<members, revoked, expired, peers, file, observers>>

NewlyApplied == UNION {DOMAIN commands \ DOMAIN m.commands : m \in previous}

Announce(new) ==
  announced' = [c \in DOMAIN announced \cup new |->
                  IF c \in new THEN commands[c] ELSE announced[c]]

AnnounceUnwritten ==                                             \* a mutant
  /\ mode = "submitting"
  /\ UNCHANGED <<vars, members, revoked, file>>
  /\ Announce(NewlyApplied)
  /\ \A k \in held : Finishes(k, UNION {commands[c].about : c \in NewlyApplied})
  /\ Release
  /\ UNCHANGED <<expired, participantOf, sessions, ended, leaked>>

PersistSubmission ==
  /\ mode = "submitting"
  /\ UNCHANGED <<vars, members, revoked>>
  /\ WriteSucceeds
  /\ Announce(NewlyApplied)
  /\ \A k \in held : Finishes(k, UNION {commands[c].about : c \in NewlyApplied})
  /\ Release
  /\ UNCHANGED <<expired, participantOf, sessions, ended, leaked>>

RejectKeepingChange ==                                           \* a mutant
  /\ mode = "submitting"
  /\ UNCHANGED <<vars, members, revoked>>
  /\ WriteFails(Memory)
  /\ Release
  /\ UNCHANGED <<expired, peers, observers>>

RejectKeepingHistory ==                                          \* a mutant
  /\ mode = "submitting"
  /\ WriteFails(Memory)
  /\ \A m \in previous : Restore([m EXCEPT !.actions = actions, !.undo = undo])
  /\ Release
  /\ UNCHANGED <<expired, peers, observers, minted>>

RejectSubmission ==
  /\ mode = "submitting"
  /\ WriteFails(Memory)
  /\ \A m \in previous : Restore(m)
  /\ Release
  /\ UNCHANGED <<expired, peers, observers, minted>>

(* A command that was applied is submitted again, perhaps over another     *)
(* connection of its sender: nothing changes but what that connection      *)
(* takes itself to have begun or finished.                                 *)
Redeliver(k, c) ==
  /\ mode = "serving" /\ RequireActive /\ k \in DOMAIN participantOf
  /\ c \in DOMAIN commands /\ commands[c].actor = participantOf[k]
  /\ \/ commands[c].kind = "begin" /\ Begins(k, commands[c].about)
     \/ commands[c].kind \in {"commit", "cancel"} /\ Finishes(k, commands[c].about)
  /\ UNCHANGED <<vars, lock, members, revoked, expired, participantOf, file, observers>>

-----------------------------------------------------------------------------
(* finalize_connection_strokes: the strokes that the closed connection had *)
(* begun are committed, or cancelled when empty, on a copy of the share    *)
(* that replaces it only when all of them were accepted and written. In a  *)
(* share that is not active any more they are left as they are.            *)
Closed(k) ==
  /\ participantOf' = [x \in DOMAIN participantOf \ {k} |-> participantOf[x]]
  /\ connectionStrokes' = [connectionStrokes EXCEPT ![k] = {}]

DisconnectOnly(k) ==                                             \* a mutant
  /\ mode = "serving" /\ k \in DOMAIN participantOf
  /\ Closed(k)
  /\ UNCHANGED <<vars, lock, members, revoked, expired, file, observers>>

Disconnect(k) ==
  /\ mode = "serving" /\ k \in DOMAIN participantOf
  /\ IF connectionStrokes[k] # {} /\ RequireActive
     THEN Hold("finalizing", k) /\ UNCHANGED peers
     ELSE Closed(k) /\ UNCHANGED lock
  /\ UNCHANGED <<vars, members, revoked, expired, file, observers>>

Unfinished(k) == {i \in DOMAIN active : /\ active[i].id \in connectionStrokes[k]
                                        /\ active[i].author = participantOf[k]}

Finalize(p, c, i) ==
  IF active[i].points = <<>> THEN CancelStroke(p, c, i) ELSE CommitStroke(p, c, i)

FinalizeStroke(c) ==
  /\ mode = "finalizing"
  /\ \E k \in held : \E i \in Unfinished(k) : Finalize(participantOf[k], c, i)
  /\ UNCHANGED <<lock, members, revoked, expired, peers, file, observers>>

Accepted(stroke) ==
  stroke.points # <<>> =>
    /\ Len(actions) < MaxActions
    /\ RecordedPoints(actions) + Len(stroke.points) <= MaxRecordedPoints

Leak(k) == leaked' = leaked \cup UNION {{m.active[i].id : i \in DOMAIN m.active} \cap
                                        connectionStrokes[k] : m \in previous}

AnnounceFinalized ==                                             \* a mutant
  /\ mode = "finalizing"
  /\ \E k \in held : Unfinished(k) = {} /\ Closed(k)
  /\ UNCHANGED <<vars, members, revoked, file, leaked>>
  /\ Announce(NewlyApplied)
  /\ Release
  /\ UNCHANGED <<expired, sessions, ended>>

PersistFinalized ==
  /\ mode = "finalizing"
  /\ \E k \in held :
       /\ Unfinished(k) = {}
       /\ Closed(k)
       /\ \/ /\ NewlyApplied = {}
             /\ UNCHANGED <<vars, members, revoked, file, announced, leaked>>
          \/ /\ NewlyApplied # {}
             /\ UNCHANGED <<vars, members, revoked, leaked>>
             /\ WriteSucceeds
             /\ Announce(NewlyApplied)
          \/ /\ NewlyApplied # {}
             /\ WriteFails(Memory)
             /\ \A m \in previous : Restore(m)
             /\ Leak(k)
             /\ UNCHANGED <<announced, minted>>
  /\ Release
  /\ UNCHANGED <<expired, sessions, ended>>

AbandonFinalize ==
  /\ mode = "finalizing"
  /\ \E k \in held :
       /\ \E i \in Unfinished(k) : ~Accepted(active[i])
       /\ Closed(k)
       /\ Leak(k)
  /\ \A m \in previous : Restore(m)
  /\ Release
  /\ UNCHANGED <<expired, file, sessions, announced, ended, minted>>

-----------------------------------------------------------------------------
RevokeUnwritten ==                                               \* a mutant
  /\ mode = "serving"
  /\ revoked' = TRUE /\ ended' = TRUE
  /\ UNCHANGED <<vars, members>>
  /\ WriteSucceeds \/ WriteFails(Memory')
  /\ UNCHANGED <<lock, expired, peers, sessions, announced, leaked>>

(* revoke_share leaves the share revoked in memory when its write fails,   *)
(* and then neither answers the owner nor closes the connections.          *)
Revoke ==
  /\ mode = "serving"
  /\ revoked' = TRUE
  /\ UNCHANGED <<vars, members>>
  /\ \/ WriteSucceeds /\ ended' = TRUE
     \/ WriteFails(Memory') /\ UNCHANGED ended
  /\ UNCHANGED <<lock, expired, peers, sessions, announced, leaked>>

Expire ==
  /\ ~expired
  /\ expired' = TRUE
  /\ UNCHANGED <<vars, lock, members, revoked, peers, file, observers>>

LoadedShare ==
  [disk EXCEPT !.strokeCount = Len(disk.strokes) + Len(disk.active),
               !.pointCount = PointTotal(disk.strokes) + PointTotal(disk.active)]

(* The process stops wherever it is and RelayState::load reads the file:   *)
(* a share that does not revalidate, or whose strokes in progress cannot   *)
(* be finished, is not served.                                             *)
Restart ==
  /\ Restore(LoadedShare)
  /\ UNCHANGED minted
  /\ mode' = IF PageIsReloadable' THEN "loading" ELSE "lost"
  /\ held' = {} /\ previous' = {}
  /\ participantOf' = <<>> /\ connectionStrokes' = [k \in Connection |-> {}]
  /\ torn' = FALSE /\ leaked' = {}
  /\ UNCHANGED <<expired, disk, sessions, announced, ended>>

(* finalize_orphaned_strokes, in the order of active_strokes.              *)
RepairStroke(c) ==
  /\ mode = "loading" /\ active # <<>>
  /\ active[1].author \in members
  /\ Finalize(active[1].author, c, 1)
  /\ UNCHANGED <<lock, members, revoked, expired, peers, file, observers>>

LoseShare ==
  /\ mode = "loading" /\ active # <<>>
  /\ active[1].author \notin members \/ ~Accepted(active[1])
  /\ mode' = "lost"
  /\ UNCHANGED <<vars, held, previous, members, revoked, expired, peers, file, observers>>

(* A repaired share is written before it is served; if that fails it is    *)
(* skipped until the next restart.                                         *)
Serve ==
  /\ mode = "loading" /\ active = <<>>
  /\ UNCHANGED <<vars, members, revoked>>
  /\ \/ disk.active = <<>> /\ mode' = "serving" /\ UNCHANGED file
     \/ disk.active # <<>> /\ mode' = "serving" /\ WriteSucceeds
     \/ disk.active # <<>> /\ mode' = "skipped" /\ WriteFails(Memory)
  /\ UNCHANGED <<held, previous, expired, peers, observers>>

-----------------------------------------------------------------------------
ClientCommand(c) ==
  \E k \in Connection : SubmitTransient(k, c) \/ SubmitDurable(k, c)

RelayCommand(c) == FinalizeStroke(c) \/ RepairStroke(c)

RelayStep ==
  \/ PersistSubmission \/ RejectSubmission
  \/ PersistFinalized \/ AbandonFinalize
  \/ LoseShare \/ Serve

PeerStep ==
  \/ \E p \in Participant : Redeem(p) \/ \E k \in Connection : Connect(k, p)
  \/ \E k \in Connection : Disconnect(k) \/ \E c \in DOMAIN commands : Redeliver(k, c)
  \/ Revoke \/ Expire

StoreNext ==
  \/ \E c \in CommandId : ClientCommand(c) \/ RelayCommand(c)
  \/ RelayStep \/ PeerStep \/ Restart

StoreSpec == StoreInit /\ [][StoreNext]_storeVars

-----------------------------------------------------------------------------
StoreTypeOK ==
  /\ TypeOK
  /\ mode \in {"serving", "submitting", "finalizing", "loading", "skipped", "lost"}
  /\ held \subseteq Connection
  /\ (mode \in {"submitting", "finalizing"}) <=> (held # {})
  /\ Cardinality(held) <= 1 /\ Cardinality(previous) = Cardinality(held)
  /\ Owner \in members /\ members \subseteq Participant /\ sessions \subseteq Participant
  /\ DOMAIN participantOf \subseteq Connection
  /\ \A k \in DOMAIN participantOf : participantOf[k] \in members
  /\ connectionStrokes \in [Connection -> SUBSET StrokeId]
  /\ {revoked, expired, ended, torn} \subseteq BOOLEAN
  /\ DOMAIN announced \subseteq CommandId

(* A durable command that was announced to anyone is never taken back:     *)
(* whatever writes fail and wherever the relay stops, the file keeps it    *)
(* with the revision and the answer it was announced with, and so does the *)
(* share that is served.                                                   *)
AcknowledgedCommandsSurvive ==
  \A c \in DOMAIN announced :
    /\ c \in DOMAIN disk.commands /\ disk.commands[c] = announced[c]
    /\ c \in DOMAIN commands /\ commands[c] = announced[c]

(* Between handlers the committed page and its history are the ones in the *)
(* file, unless a write that was reported failed had taken effect: begin,  *)
(* append and cancel, which are not written, never touch them.             *)
CommittedPageIsOnDisk ==
  mode = "serving" /\ ~torn =>
    /\ disk.strokes = strokes /\ disk.actions = actions
    /\ disk.undo = undo /\ disk.redo = redo

(* A stroke in progress always has someone to finish it: while the share   *)
(* is active, an open connection of its author answers for it, however     *)
(* often commands are delivered again over another connection, unless the  *)
(* write of its repair failed.                                             *)
NoStrokeIsOrphaned ==
  mode = "serving" /\ RequireActive =>
    \A i \in DOMAIN active :
      \/ active[i].id \in leaked
      \/ \E k \in DOMAIN participantOf : /\ participantOf[k] = active[i].author
                                         /\ active[i].id \in connectionStrokes[k]

(* A participant that was handed a session token is known to the share,    *)
(* after any failed write and any restart.                                 *)
SessionsAreHonoured == sessions \subseteq disk.members /\ sessions \subseteq members

(* After a revocation was acknowledged nothing is announced and no session *)
(* is handed out, ever again, restarts included.                           *)
RevocationIsFinal ==
  [][ended => UNCHANGED <<sessions, announced>> /\ disk'.revoked]_storeVars

(* "The relay is its ordered, durable authority for 24 hours"              *)
(* (docs/architecture.md): no restart finds a file that it cannot          *)
(* revalidate or a stroke in progress that it cannot finish.               *)
ShareIsNeverLost == mode # "lost"

(* What loses a share is never more than that: whatever writes failed and  *)
(* wherever the relay stopped, the file is one that can be revalidated, and*)
(* when its history has room for the strokes in progress the restart       *)
(* finishes them and serves the share.                                     *)
Drawn(begun) == {stroke \in Range(begun) : stroke.points # <<>>}
SharesWithRoomSurvive ==
  mode = "lost" =>
    \/ Len(disk.actions) + Cardinality(Drawn(disk.active)) > MaxActions
    \/ RecordedPoints(disk.actions) + PointTotal(disk.active) > MaxRecordedPoints
=============================================================================
