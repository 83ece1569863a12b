------------------------------ MODULE PageRelay -------------------------------
(***************************************************************************)
(* The replication of one shared page: the relay's handlers, one per web   *)
(* socket, the broadcast channel between them, and the clients with their  *)
(* replica of the page and the commands that they have no answer to.       *)
(* (serve_participant and apply_client_message of page-relay/relay.rs, the *)
(* browser's lib.rs and viewer.js, the tablet's notebook_shared_page.rs    *)
(* and shared_page_connection.rs)                                          *)
(*                                                                         *)
(* A page is the sequence of the commands applied to it, and its digest    *)
(* the page: this module is about who sees which commands in which order,  *)
(* and PageJournal about what they make of the page. Points appended to a  *)
(* stroke travel like its begin and are left out. A client has processed   *)
(* what reached it before it notices that its connection broke, and a      *)
(* connection that the relay closes first looks to it like a broken one.   *)
(* The share is active throughout; ShareStore has revocation and expiry,   *)
(* and the restarts after which the relay does not serve the share.        *)
(***************************************************************************)
EXTENDS Integers, Sequences, FiniteSets, SequencesExt

CONSTANTS
  Client,              \* one participant each
  Tablet,              \* those that are the tablet; the others are browsers
  Socket,              \* web sockets
  Capacity,            \* BROADCAST_CAPACITY
  MaxMinted            \* bound: the commands that one client mints

VARIABLES
  log, disk,           \* the journal in memory, and as last written
  serving,             \* sockets that a handler serves
  begun,               \* connection_strokes of each handler, as begin commands
  queue, lagged,       \* each handler's receiver of the broadcast channel
  inbox, wire,         \* messages to the relay and to the client, per socket
  link,                \* each client's socket, if it has one
  welcomed,            \* clients that have processed the Welcome of their socket
  outbox,              \* the tablet's channel to its connection thread
  page, needs,         \* the journal of each replica, and needs_snapshot
  pending,             \* pending_commands
  pen,                 \* the stroke being drawn, 0 if none: local_stroke
  minted,              \* (observer) the commands that each client minted
  refused              \* (observer) commands that their client saw Rejected

share   == <<log, disk>>
relay   == <<serving, begun, queue, lagged>>
traffic == <<inbox, wire>>
replica == <<page, needs>>
editor  == <<pen, minted>>
vars    == <<share, relay, traffic, link, welcomed, outbox, replica, pending, editor, refused>>

Number  == 0 .. MaxMinted          \* 0: minted by the relay, to finish a stroke
Kind    == {"begin", "commit", "cancel", "edit"}
(* A stroke is named for the command that begins it.                       *)
Command == {x \in [from : Client, id : Number, kind : Kind, stroke : Number] :
              x.kind = "begin" => x.id = x.stroke}

ASSUME RelayAssumption ==
  Tablet \subseteq Client /\ Capacity \in Nat \ {0} /\ MaxMinted \in Nat

Durable(x)       == x.kind \in {"commit", "edit"}
Ends(x)          == x.kind \in {"commit", "cancel"}
SameStroke(x, y) == x.from = y.from /\ x.stroke = y.stroke

(* The strokes in progress on a page, as their begin commands.             *)
InProgress(l) == {x \in Range(l) : /\ x.kind = "begin"
                                   /\ ~ \E y \in Range(l) : Ends(y) /\ SameStroke(x, y)}

(* What finalize_connection_strokes and finalize_orphaned_strokes submit.  *)
Finishing(x) == [from |-> x.from, id |-> 0, kind |-> "commit", stroke |-> x.stroke]

Welcome(l)    == [type |-> "Welcome", page |-> l]
Snapshot(l)   == [type |-> "Snapshot", page |-> l]
Digest(l)     == [type |-> "Digest", page |-> l]
Applied(l, n) == [type |-> "Applied", revision |-> n, command |-> l[n]]
Rejected(x)   == [type |-> "Rejected", command |-> x]
Submit(x)     == [type |-> "Submit", command |-> x]
Request       == [type |-> "RequestSnapshot"]

(* Everyone has joined the page that was just shared.                      *)
Init ==
  /\ log = <<>> /\ disk = <<>>
  /\ \E home \in [Client -> Socket] :
       /\ \A c, d \in Client : home[c] = home[d] => c = d
       /\ link = [c \in Client |-> {home[c]}]
       /\ serving = {home[c] : c \in Client}
  /\ begun = [s \in Socket |-> {}]
  /\ queue = [s \in Socket |-> <<>>] /\ lagged = {}
  /\ inbox = [s \in Socket |-> <<>>] /\ wire = [s \in Socket |-> <<>>]
  /\ welcomed = Client
  /\ outbox = [c \in Client |-> <<>>]
  /\ page = [c \in Client |-> <<>>] /\ needs = {}
  /\ pending = [c \in Client |-> <<>>]
  /\ pen = [c \in Client |-> 0]
  /\ minted = [c \in Client |-> <<>>]
  /\ refused = {}

-----------------------------------------------------------------------------
(* The relay.                                                              *)

Linked == UNION {link[c] : c \in Client}

(* A handler writes to its socket; nobody reads a socket that broke.       *)
Reply(s, m) ==
  wire' = IF s \in Linked THEN [wire EXCEPT ![s] = Append(@, m)] ELSE wire

(* Every receiver keeps the last Capacity messages; one that missed some   *)
(* is told so at its next recv.                                            *)
Broadcast(receivers, messages) ==
  LET all(s) == queue[s] \o messages
      tooFar == {s \in receivers : Len(all(s)) > Capacity}
  IN  /\ queue' = [s \in Socket |->
                     IF s \in tooFar THEN SubSeq(all(s), Len(all(s)) - Capacity + 1, Len(all(s)))
                     ELSE IF s \in receivers THEN all(s) ELSE <<>>]
      /\ lagged' = (lagged \cap receivers) \cup tooFar

Take(s) == inbox[s] # <<>> /\ inbox' = [inbox EXCEPT ![s] = Tail(@)]

(* connection_strokes, for a command that is applied or was applied before.*)
Follow(s, x) ==
  begun' = [begun EXCEPT ![s] =
              IF x.kind = "begin" THEN @ \cup {x} ELSE {y \in @ : ~(Ends(x) /\ SameStroke(x, y))}]

(* A commit or a cancel needs its stroke in progress; everything else, the *)
(* limits of the journal and what there is to undo included, may be either *)
(* accepted or refused.                                                    *)
Fits(x) == Ends(x) => \E y \in InProgress(log) : SameStroke(x, y)

AcceptUnwritten(s, x) ==                                         \* a mutant
  /\ x \notin Range(log) /\ Fits(x)
  /\ log' = Append(log, x)
  /\ IF Durable(x) THEN Broadcast(serving, <<Applied(log', Len(log')), Digest(log')>>)
                   ELSE Broadcast(serving, <<Applied(log', Len(log'))>>)
  /\ Follow(s, x)
  /\ UNCHANGED <<disk, serving, wire>>

AcceptSubmission(s, x) ==
  /\ x \notin Range(log) /\ Fits(x)
  /\ log' = Append(log, x)
  /\ IF Durable(x)
     THEN /\ disk' = log'
          /\ Broadcast(serving, <<Applied(log', Len(log')), Digest(log')>>)
     ELSE /\ UNCHANGED disk
          /\ Broadcast(serving, <<Applied(log', Len(log'))>>)
  /\ Follow(s, x)
  /\ UNCHANGED <<serving, wire>>

RepeatAnswer(s, x) ==
  /\ \E n \in DOMAIN log : log[n] = x /\ Reply(s, Applied(log, n))
  /\ Follow(s, x)
  /\ UNCHANGED <<share, serving, queue, lagged>>

RefuseSubmission(s, x) ==
  /\ x \notin Range(log)
  /\ x.kind # "cancel" \/ ~Fits(x)
  /\ Reply(s, Rejected(x))
  /\ UNCHANGED <<share, relay>>

(* The write fails: what is in the file is either the old share or the new.*)
FailSubmission(s, x) ==
  /\ x \notin Range(log) /\ Fits(x) /\ Durable(x)
  /\ disk' \in {disk, Append(log, x)}
  /\ Reply(s, Rejected(x))
  /\ UNCHANGED <<log, relay>>

Process(s) ==
  /\ s \in serving /\ Take(s)
  /\ \/ \E x \in {m.command : m \in {Head(inbox[s])} \ {Request}} :
          AcceptSubmission(s, x) \/ RepeatAnswer(s, x) \/ RefuseSubmission(s, x)
     \/ /\ Head(inbox[s]) = Request
        /\ Reply(s, Snapshot(log))
        /\ UNCHANGED <<share, relay>>
  /\ UNCHANGED <<link, welcomed, outbox, replica, pending, editor, refused>>

FailWrite(s) ==
  /\ s \in serving /\ Take(s) /\ Head(inbox[s]) # Request
  /\ FailSubmission(s, Head(inbox[s]).command)
  /\ UNCHANGED <<link, welcomed, outbox, replica, pending, editor, refused>>

Forward(s) ==
  /\ s \in serving
  /\ \/ /\ s \in lagged
        /\ Reply(s, Snapshot(log))
        /\ lagged' = lagged \ {s}
        /\ UNCHANGED queue
     \/ /\ s \notin lagged /\ queue[s] # <<>>
        /\ Reply(s, Head(queue[s]))
        /\ queue' = [queue EXCEPT ![s] = Tail(@)]
        /\ UNCHANGED lagged
  /\ UNCHANGED <<share, serving, begun, inbox, link, welcomed, outbox, replica, pending,
                 editor, refused>>

Finished(l, order) == l \o [i \in DOMAIN order |-> Finishing(order[i])]

CloseQuietly(s) ==                                               \* a mutant
  /\ s \in serving \ Linked
  /\ serving' = serving \ {s}
  /\ begun' = [begun EXCEPT ![s] = {}]
  /\ inbox' = [inbox EXCEPT ![s] = <<>>]
  /\ \E order \in SetToSeqs(begun[s] \cap InProgress(log)) :
       log' = Finished(log, order) /\ disk' = log'
  /\ Broadcast(serving', <<>>)
  /\ UNCHANGED <<wire, link, welcomed, outbox, replica, pending, editor, refused>>

(* The relay notices that a socket broke. What its connection had begun is *)
(* finished, in the order of the stroke ids, in one write, and announced   *)
(* to the others; or the journal refuses or the write fails, and it stays. *)
Close(s) ==
  /\ s \in serving \ Linked
  /\ serving' = serving \ {s}
  /\ begun' = [begun EXCEPT ![s] = {}]
  /\ inbox' = [inbox EXCEPT ![s] = <<>>]
  /\ \E order \in SetToSeqs(begun[s] \cap InProgress(log)) :
       \/ /\ order # <<>>
          /\ log' = Finished(log, order) /\ disk' = log'
          /\ Broadcast(serving', [i \in DOMAIN order |-> Applied(log', Len(log) + i)]
                                   \o <<Digest(log')>>)
       \/ /\ disk' \in {disk, Finished(log, order)} /\ UNCHANGED log
          /\ Broadcast(serving', <<>>)
  /\ UNCHANGED <<wire, link, welcomed, outbox, replica, pending, editor, refused>>

BegunInOrder(l, order) ==
  \A i, j \in DOMAIN order : i < j =>
    \E a, b \in DOMAIN l : a < b /\ l[a] = order[i] /\ l[b] = order[j]

(* The process stops, every connection with it; the relay loads the file   *)
(* and finishes the strokes in progress.                                   *)
Crash ==
  /\ \E order \in SetToSeqs(InProgress(disk)) :
       BegunInOrder(disk, order) /\ log' = Finished(disk, order)
  /\ disk' = log'
  /\ serving' = {} /\ lagged' = {}
  /\ begun' = [s \in Socket |-> {}]
  /\ queue' = [s \in Socket |-> <<>>]
  /\ inbox' = [s \in Socket |-> <<>>] /\ wire' = [s \in Socket |-> <<>>]
  /\ link' = [c \in Client |-> {}] /\ welcomed' = {}
  /\ UNCHANGED <<outbox, replica, pending, editor, refused>>

-----------------------------------------------------------------------------
(* The connection of a client.                                             *)

(* serve_participant takes the snapshot and subscribes under one lock.     *)
Connect(c, s) ==
  /\ link[c] = {} /\ s \notin serving \cup Linked
  /\ link' = [link EXCEPT ![c] = {s}]
  /\ serving' = serving \cup {s}
  /\ wire' = [wire EXCEPT ![s] = <<Welcome(log)>>]
  /\ UNCHANGED <<share, begun, queue, lagged, inbox, welcomed, outbox, replica, pending,
                 editor, refused>>

(* The connection breaks: what was on its way to the client is lost, and   *)
(* of what was on its way to the relay any end.                            *)
Drop(c) ==
  /\ \E s \in link[c] : \E n \in 0 .. Len(inbox[s]) :
       /\ inbox' = [inbox EXCEPT ![s] = SubSeq(@, 1, n)]
       /\ wire' = [wire EXCEPT ![s] = <<>>]
  /\ link' = [link EXCEPT ![c] = {}]
  /\ welcomed' = welcomed \ {c}
  /\ UNCHANGED <<share, relay, outbox, replica, pending, editor, refused>>

(* A browser sends on an open socket or not at all; the tablet puts its    *)
(* messages in a channel that outlives its connections.                    *)
Send(c, messages) ==
  IF c \in Tablet
  THEN outbox' = [outbox EXCEPT ![c] = @ \o messages] /\ UNCHANGED inbox
  ELSE inbox' = [s \in Socket |-> IF s \in link[c] THEN inbox[s] \o messages ELSE inbox[s]]
       /\ UNCHANGED outbox

Transmit(c) ==
  /\ outbox[c] # <<>>
  /\ \E s \in link[c] : inbox' = [inbox EXCEPT ![s] = Append(@, Head(outbox[c]))]
  /\ outbox' = [outbox EXCEPT ![c] = Tail(@)]
  /\ UNCHANGED <<share, relay, wire, link, welcomed, replica, pending, editor, refused>>

-----------------------------------------------------------------------------
(* The editor of a client.                                                 *)

Mint(c, kind, stroke) == [from |-> c, id |-> Len(minted[c]) + 1, kind |-> kind, stroke |-> stroke]

Issue(c, x) ==
  /\ minted' = [minted EXCEPT ![c] = Append(@, x)]
  /\ pending' = [pending EXCEPT ![c] = Append(@, x)]
  /\ Send(c, <<Submit(x)>>)
  /\ UNCHANGED <<share, relay, wire, link, welcomed, replica, refused>>

(* Room is left to finish the stroke that is being drawn.                  *)
Room(c) == Len(minted[c]) + 1 < MaxMinted

BeginStroke(c) ==
  /\ pen[c] = 0 /\ Room(c)
  /\ Issue(c, Mint(c, "begin", Len(minted[c]) + 1))
  /\ pen' = [pen EXCEPT ![c] = Len(minted[c]) + 1]

EndStroke(c) ==
  /\ pen[c] # 0
  /\ \E kind \in {"commit", "cancel"} : Issue(c, Mint(c, kind, pen[c]))
  /\ pen' = [pen EXCEPT ![c] = 0]

(* Erase, undo and redo.                                                   *)
Edit(c) ==
  /\ IF pen[c] = 0 THEN Len(minted[c]) < MaxMinted ELSE Room(c)
  /\ Issue(c, Mint(c, "edit", 0))
  /\ UNCHANGED pen

-----------------------------------------------------------------------------
(* What a client does with a message of the relay.                         *)

Receive(c, type, m) ==
  /\ \E s \in link[c] : wire[s] # <<>> /\ Head(wire[s]) = m
  /\ m.type = type
  /\ wire' = [s \in Socket |-> IF s \in link[c] THEN Tail(wire[s]) ELSE wire[s]]
  /\ UNCHANGED <<share, relay, link>>

AskIf(condition) == IF condition THEN <<Request>> ELSE <<>>

(* Every replica draws what it is given; here it only knows it.            *)
ReplaceSnapshot(c, snapshot) ==
  /\ page' = [page EXCEPT ![c] = snapshot]
  /\ needs' = needs \ {c}

ForgetStroke(c) == pen' = [pen EXCEPT ![c] = IF c \in Tablet THEN @ ELSE 0]

(* PageJournal::apply: anything but the next revision is refused.          *)
ApplyNext(c, n, x) ==
  page' = IF n = Len(page[c]) + 1 THEN [page EXCEPT ![c] = Append(@, x)] ELSE page

PendingMessages(commands) == [i \in DOMAIN commands |-> Submit(commands[i])]

UnfinishedStrokeCancellation(c) ==
  IF c \in Tablet \/ pen[c] = 0 THEN <<>> ELSE <<Mint(c, "cancel", pen[c])>>

(* No command is pending twice.                                            *)
Without(commands, x) ==
  IF x \in Range(commands) THEN RemoveAt(commands, CHOOSE i \in DOMAIN commands : commands[i] = x)
  ELSE commands
Answered(c, x) == pending' = [pending EXCEPT ![c] = Without(@, x)]

WelcomeWithoutRetry(c, m) ==                                     \* a mutant
  /\ Receive(c, "Welcome", m)
  /\ ReplaceSnapshot(c, m.page) /\ ForgetStroke(c)
  /\ welcomed' = welcomed \cup {c}
  /\ Send(c, <<>>)
  /\ UNCHANGED <<minted, pending, refused>>

(* A browser first cancels the stroke that it was drawing.                 *)
ReceiveWelcome(c, m) ==
  LET cancels == UnfinishedStrokeCancellation(c)
      all     == pending[c] \o cancels
  IN  /\ Receive(c, "Welcome", m)
      /\ minted' = [minted EXCEPT ![c] = @ \o cancels]
      /\ pending' = [pending EXCEPT ![c] = all]
      /\ ReplaceSnapshot(c, m.page) /\ ForgetStroke(c)
      /\ welcomed' = welcomed \cup {c}
      /\ Send(c, PendingMessages(all))
      /\ UNCHANGED refused

ApplyAhead(c, m) ==                                              \* a mutant
  /\ Receive(c, "Applied", m)
  /\ Answered(c, m.command)
  /\ page' = IF m.revision > Len(page[c]) THEN [page EXCEPT ![c] = Append(@, m.command)]
                                          ELSE page
  /\ Send(c, AskIf(c \in needs))
  /\ UNCHANGED <<needs, welcomed, editor, refused>>

(* A command that is not the next one is not applied: an earlier one is    *)
(* ignored, a later one makes the client ask for a snapshot.               *)
ReceiveApplied(c, m) ==
  LET next == Len(page[c]) + 1
  IN  /\ Receive(c, "Applied", m)
      /\ Answered(c, m.command)
      /\ ApplyNext(c, m.revision, m.command)
      /\ Send(c, AskIf(m.revision > next \/ c \in needs))
      /\ UNCHANGED <<needs, welcomed, editor, refused>>

SnapshotForNothing(c, m) ==                                      \* a mutant
  /\ Receive(c, "Snapshot", m)
  /\ needs' = needs \ {c} /\ ForgetStroke(c)
  /\ Send(c, <<>>)
  /\ UNCHANGED <<page, welcomed, pending, minted, refused>>

(* In a browser the stroke that is being drawn is forgotten.               *)
ReceiveSnapshot(c, m) ==
  /\ Receive(c, "Snapshot", m)
  /\ ReplaceSnapshot(c, m.page) /\ ForgetStroke(c)
  /\ Send(c, <<>>)
  /\ UNCHANGED <<welcomed, pending, minted, refused>>

ReceiveDigest(c, m) ==
  /\ Receive(c, "Digest", m)
  /\ needs' = IF m.page = page[c] \/ c \in Tablet THEN needs \ {c} ELSE needs \cup {c}
  /\ Send(c, AskIf(m.page # page[c]))
  /\ UNCHANGED <<page, welcomed, pending, editor, refused>>

ReceiveRejected(c, m) ==
  /\ Receive(c, "Rejected", m)
  /\ Answered(c, m.command)
  /\ refused' = refused \cup {m.command}
  /\ needs' = IF c \in Tablet THEN needs ELSE needs \cup {c}
  /\ Send(c, <<Request>>)
  /\ UNCHANGED <<page, welcomed, editor>>

Arrived(c) == {Head(wire[s]) : s \in {t \in link[c] : wire[t] # <<>>}}

Handle(c) ==
  \E m \in Arrived(c) :
    \/ ReceiveWelcome(c, m) \/ ReceiveApplied(c, m) \/ ReceiveSnapshot(c, m)
    \/ ReceiveDigest(c, m) \/ ReceiveRejected(c, m)

-----------------------------------------------------------------------------
Work ==
  \/ \E s \in Socket : Process(s) \/ Forward(s) \/ Close(s)
  \/ \E c \in Client : Transmit(c) \/ Handle(c) \/ \E s \in Socket : Connect(c, s)

Draw  == \E c \in Client : BeginStroke(c) \/ EndStroke(c) \/ Edit(c)
Fault == Crash \/ (\E c \in Client : Drop(c)) \/ (\E s \in Socket : FailWrite(s))

Next == Work \/ Draw \/ Fault
Spec == Init /\ [][Next]_vars

(* Handlers, connection threads and event loops run, and clients reconnect *)
(* again and again; nothing makes anyone draw and nothing fails by itself. *)
Fairness ==
  /\ \A s \in Socket : WF_vars(Process(s)) /\ WF_vars(Forward(s)) /\ WF_vars(Close(s))
  /\ \A c \in Client : /\ WF_vars(Transmit(c)) /\ WF_vars(Handle(c))
                       /\ WF_vars(\E s \in Socket : Connect(c, s))

-----------------------------------------------------------------------------
(* "Ordered, durable authority" (docs/architecture.md): the relay          *)
(* implements OrderedLog. Whatever overtakes what between the broadcast    *)
(* channel and the direct answers, whatever is lost, sent again or skipped *)
(* by a slow handler, a client that is joined shows a prefix of the log    *)
(* that never shrinks, no command is applied twice, and a restart keeps    *)
(* the durable commands in their order.                                    *)
Ordered == INSTANCE OrderedLog WITH
  view <- [c \in Client |-> IF c \in welcomed THEN {page[c]} ELSE {}]
ImplementsOrderedLog == Ordered!Spec

(* A durable command (commit, erase, undo, redo) that a client issued is   *)
(* never forgotten: it is in the file, or its client still means to send   *)
(* it again, or its client was told that it was refused.                   *)
NoDurableCommandIsForgotten ==
  \A c \in Client : \A x \in Range(minted[c]) :
    Durable(x) => x \in Range(disk) \cup Range(pending[c]) \cup refused

(* Digests, snapshots and retries repair every replica: unless faults go   *)
(* on for ever, from some moment on everyone shows the page of the relay.  *)
Converges ==
  \/ []<><<Fault /\ ~Work>>_vars
  \/ <>[](\A c \in Client : page[c] = log)

(* Every command is answered in the end, unless the answer is among what a *)
(* slow handler skipped.                                                   *)
CommandsAreAnswered ==
  \/ []<><<Fault /\ ~Work>>_vars
  \/ <>(lagged # {})
  \/ <>[](\A c \in Client : pending[c] = <<>>)
=============================================================================
