# Remarque: a verification project

Remarque is a notebook for a reMarkable tablet: a native program on the tablet,
a Telegram bot beside it that imports, exports and shares pages, and a relay on
a server through which a shared page is drawn by several people at once, on the
tablet and in browsers. This directory models the parts of it where order,
failure and concurrency matter, checks the models with TLC on small instances
and proves the central results with TLAPS for every instance.

    cd tla
    tlasany PageJournal.tla                          # parse
    tlc -workers 2 -config MCPageJournal.cfg MCPageJournal
    tlapm PageJournalProofs.tla                      # check the proofs

`PROJECT.json` lists the components, the runs, the mutants, the hazards, the
findings, the theorems, and for every definition the source lines that it
stands for.

## The system

| component | state | operations | talks to |
| --- | --- | --- | --- |
| page journal (`app/page-log`: `journal.rs`, `history.rs`, `page.rs`) | the page (strokes, committed or in progress), the recorded history with an undo and a redo stack per participant, the table of applied commands, a revision | `submit` of begin, append, commit, cancel, erase, undo, redo; `apply` of another journal's operation; `revalidate` of a stored page | is used by the relay, the browser and the tablet |
| relay, share store (`app/page-relay`: `relay.rs`, `persistence.rs`, `relay/access.rs`) | per share: journal, participants, sessions, revocation and expiry, in memory and in one file | create, redeem, connect, submit, close, revoke, expire, restart with repair | HTTP clients, the file system |
| relay, replication (`relay.rs`) | per web socket: a handler, its receiver of the broadcast channel, the strokes its connection began | process a message, forward a broadcast, repair after a close | browsers and the tablet |
| browser client (`app/browser-page-renderer`) | replica of the journal, unanswered commands, stroke being drawn, `needs_snapshot` | draw, erase, undo; five kinds of message; reconnect | relay |
| tablet client (`notebook_shared_page.rs`, `shared_page_connection.rs`) | the same, plus a channel to the thread that owns the socket | the same | relay, library |
| document mailbox (`app/document/src/exchange.rs`, `document_requests.rs`) | request and response files in a directory | submit, take the oldest, complete, take the response | bot and tablet |
| Telegram bot (`app/telegram-bot`) | update offset and shares on disk | poll, apply an update, save | Telegram, mailbox, relay |
| library and edit histories (`notebook.rs`, `document_library.rs`, `page_edit_histories.rs`) | documents, pages and strokes, undo and redo per page, each in a file of its own | edit, undo, insert and turn pages, open, create, import, save, restore | mailbox, shared session |
| tablet main loop and input (`remarque_tablet.rs`, `notebook.rs`, `touch_gesture.rs`, `filter_touch_sequences.rs`, `edge_page_swipe.rs`) | fingers and pen as the devices report them, the gesture and the contact of the pen, the view, the regions of the panel in fast monochrome | one event after the other; requests of the bot; the power button | notebook, display, suspend |
| suspend (`system_suspend.rs`) | the wake lock, the attempt, the count of suspends | read, release, ask, wait, restore | kernel, systemd |
| screen stream (`screen_stream.rs`, `display.rs`, `screen-viewer.html`) | the display buffer and its generation, the newest viewer page, a handler per socket | copy an image, upgrade, tick, send, replace; load, connect, paint, close | main thread, browsers |
| native observer (`reverse-engineering/native-observer`) | the threads that it traces, the words that it patched, what it recorded | attach, install, wait, step over, stop, restore, detach | Xochitl, the kernel |

What is hard in it:

* **Several writers, personal undo.** Undo and redo are per participant, but an
  erasure targets strokes of others, and every recorded action is replayed to
  compute the page. The page that results must pass the checks that a restart
  runs on it, or the relay refuses to serve the share at all.
* **Memory before disk.** The relay changes the share in memory, then writes it,
  then announces it. Writes fail, also after the file was renamed. Commands that
  are not durable are never written at all.
* **Two paths to one socket.** Broadcasts reach a handler through a bounded
  channel; direct answers are written at once and overtake them.
* **At least once.** A client sends unanswered commands again after every
  reconnection; nothing tells it whether the lost ones were applied.
* **Broken connections are noticed late**, on each side separately, and a client
  may be connected again before the relay repairs what its old connection left.
* **Two files for one page.** The tablet writes its library and its histories one
  after the other, and names pages by an index that insertions change.
* **One view, many hands.** Pen, fingers, the power button and the bot act on one
  page, and each may turn it while another is in the middle of something.
* **Two ways to refresh.** Ink and pinches are shown in fast monochrome and must be
  followed by an update in colour; a sleep releases the wake lock and must take it
  back, whatever fails.
* **Threads share what they patch.** A breakpoint is one word for all threads of
  the traced program, and each stops when it likes.
* **Limits** on strokes, points, actions, participants and queued messages, most
  of them counted incrementally.

`PROJECT.json` has the hazards one by one, at the line where each bites.

## The modules

### PageJournal: one page and its history

`PageJournal.tla` is `submit` and everything below it. The state is the page
(`strokes`, committed and in order, and `active`, those in progress), the two
counters `pointCount` and `strokeCount`, the history (the recorded `actions`
with their active flags, the stacks `undo` and `redo` per participant), the
table of `commands` and the `revision`. There is one action per operation:
`BeginStroke`, `AppendStrokePoints`, `CommitStroke`, `CancelStroke`, `Erase`,
`EraseNothing`, `Undo` and `Redo`. A command that was seen before is answered
from the table and changes nothing: it is a stuttering step. `Submit` is the
disjunction of the actions and is what the share store uses.

Points are cells of a small set, so that an eraser can hit some points of a
stroke and split it into pieces; the geometry of the eraser is not modelled,
the pieces and their order are (`RenderStroke`). Identifiers of strokes and
commands are minted at random by the clients; the model gives each command a
fresh one, and a stroke the id that its begin mints. `HistoryIsValid` is
`PageHistory::validate` as a formula and `PageIsReloadable` is what
`revalidate` demands of a stored page, both translated from the code that a
restart runs.

### ShareStore: one share, in memory and in its file

`ShareStore.tla` extends `PageJournal` and adds who may act (participants,
sessions, revocation, expiry), the connections with the strokes that each began,
what was announced, and the file. A durable command is two steps,
`SubmitDurable` and then `PersistSubmission` or `RejectSubmission`, with the
share's mutex held in between, so that a crash can fall between them. A write
that fails may have taken effect (`WriteFails`), because `write_share` renames
the file before it syncs the directory. `Restart` loads the file and commits the
strokes in progress one by one (`RepairStroke`), and drops the share when the
journal refuses one (`LoseShare`). `SharesWithRoomSurvive` says what the file of a
share that was dropped looked like: its history had no room for the strokes that
were in progress. Whatever writes failed before, a restart finds a file that it
can revalidate and strokes of participants that it knows.

### PageRelay and OrderedLog: who sees what

`PageRelay.tla` is the same relay seen from the sockets. Here a page is just the
sequence of the commands applied to it; what a command does to the page is left
to `PageJournal`. The state is the log in memory and on disk, per socket a
handler with its receiver of the broadcast channel and the strokes its
connection began, the messages on their way in both directions, and per client
its replica, its unanswered commands and the stroke it is drawing. The tablet
and the browsers are the same actions with the differences of the code: the
tablet puts messages into a channel that outlives the connection, a browser
sends on an open socket or not at all; a browser cancels its stroke on a
`Welcome` and forgets it on a `Snapshot`, the tablet keeps drawing; the tablet
asks for a snapshot once, a browser until one arrives.

`OrderedLog.tla` is what the relay promises: one sequence of commands, each at
most once, and joined clients that show a prefix of it that only grows; a restart
keeps the durable commands in their order. `PageRelay` implements it
(`ImplementsOrderedLog`), with the view of a client defined as its replica once
it has processed the `Welcome` of its connection: a run checks it and
`PageRelayProofs.tla` also proves it.

### DocumentExchange and TelegramBot: requests, retries and restarts

`DocumentExchange.tla` is the mailbox: the files of requests and responses, and
one operator per call, with `complete` in its two halves because a crash can fall
between them. `TelegramBot.tla` extends it with the two processes that use it and
with the shares that exist at the relay. The operations are the four on documents
(list, open, export, import), `/share` with its three steps and the revocation of
a share; a PDF may be refused before it becomes a request (`RefusePdf`). Updates
that are answered without a request are left out. The bot is a program counter that goes
from `Ready` through the steps of one update to `Advance`, with its state in
memory and in its file; after every error it is `Ready` again with the same
update. The tablet takes the oldest request, carries it out, writes the response
and removes the request; its share session is lost when it stops. Calls fail
before or after they took effect (`FailCall`), both processes stop at any point
(`BotCrash`, `TabletStops`) and the bot gives up waiting (`Timeout`).

### EditHistory and Notebook: pages and their histories on the tablet

`EditHistory.tla` has the operators of the undo and redo histories that the
tablet keeps for pages that are not shared: what an edit remembers of a page
(`Between`), when it can be taken back (`Matches`), the limits, and the shift of
the indices when a page is inserted. `Notebook.tla` is the notebook around them:
the library, the page that is open, the shared session, and the two files. The
process is one thread, so a handler is one step on the memory, followed by
`WriteLibrary` and `WriteHistories`; only a fault comes in between. The eraser
leaves of every stroke itself, nothing, or the pieces that it was cut into
(`Remains`, a set of sequences of strokes; which pieces the geometry yields is left
open). A stroke or an erasure is finished by the pen, or by a request that
comes while the pen draws (`who`). After a failed write the pen's handlers end the
process, which is `Restart`, a request is answered with its error, and a shared
session ends (`FailWrite`). A stroke whose session ended while it was drawn is on the
page and nowhere else (`FinishStrokeOfEndedSession`). The page that the relay sends is
any page at all. A restart reads both files, or the library alone: histories that
cannot be read are ignored, and the next save overwrites them.

Three variables are observers that no action of the code reads: `agreed` is the
library as it was when the histories were last written, `unsaved` says that a
request has failed halfway, and `stale` names the pages whose strokes and
history have parted in one of the ways that the code allows. Properties except
those pages; what happens on them is described under "What the runs found".

### ScreenStream: who may watch the screen

`ScreenStream.tla` is the diagnostic view in a browser. A screen is a function
from tiles to what is drawn on them. The main thread copies an image into the
display buffer under its lock, in two steps (`BeginCopy`, `EndCopy`), because
only the lock keeps readers from seeing half of it. The sockets' runtime has one
thread, so what a handler does between two awaits is one step: `UpgradeWebsocket`
claims the generation of its page, `Tick` takes a delta against what was sent
before, `Send` waits for room in the connection, and `ReplaceHandler` is the
watch channel, which interrupts a tick and a send. A viewer page connects again
by itself unless it was closed with the code 4000. Restarts of the program start
all counters anew, while pages keep the numbers of the program that served them.

### TouchGestures, SystemSuspend and Tablet: the main loop

`Tablet.tla` is the main loop, and extends `TouchGestures.tla` (what a frame of
fingers makes of a gesture, as pure operators) and `SystemSuspend.tla` (the calls
of a sleep, with each that can fail). An event of a device and its handling are one
step: the loop takes what a device has to say before it looks at the next one,
and the order between devices is unknown to it. What is drawn is left to
`Notebook`: here a page is a number, the contact of the pen remembers the page it
was begun on, and the panel is three flags, for a pinch not yet drawn, for ink not
yet submitted, and for regions in fast monochrome. Handlers are operators that say
what becomes of the phase, the editing and the panel (`ShowDocument`,
`FinishPenContact`, `ShowDocumentLibrary`, `ApplyToolbarAction`), and the actions
call them as the code does. Input that arrives while the tablet sleeps is
thrown away; a press of the power button may be ignored, because the time in which
the code ignores one is left open. A finger that was on the glass when the devices
were reset is unseen until it touches again.

The record and the save of an edit may fail. In a request of the bot the error is the
answer and the program goes on: the contact of the pen is taken by then and
the update in colour skipped (`FinishingFails`), or the other page is open and not drawn
(`OpeningFails`). Everywhere else the error ends the program (`SaveFails`).
`forgotten` is an observer: a pinch or a stroke has ended without its colour update,
in one of these ways or because the gesture was dropped.

### NativeObserver: breakpoints in a running program

`NativeObserver.tla` is a ptrace client and the threads that it traces. A thread
runs, comes to a patched instruction and stops, or ends, whenever it is not
stopped; the kernel tells the probe about one stop at a time. The tool attaches
thread by thread, installs its breakpoints and then loops: wait for a thread,
record, lift the breakpoint, step, put it back, continue. The stroke trace does
this until a signal asks it to stop and then stops the threads one after the
other; the counting probes stop at a number of hits and are ended by a signal at
once. Any call may fail (`Abort`), upon which the process exits and the kernel lets
its threads go.

### Mutants

Operators marked `\* a mutant` are not part of the models. Each is a variant of
the action that follows it with a plausible mistake in it, and `PROJECT.json`
names the run and the property that catches it when it takes the place of the
real one.

## The runs

| run | instance | what it shows |
| --- | --- | --- |
| `page_journal` | owner and guest, 7 commands of every kind that run into every limit, one eraser that splits strokes | the history stays valid, a stored page stays loadable, counters are exact at the limits, guests touch only their own strokes, every undo and redo that is offered works |
| `share_store` | two participants, two connections, failing writes, restarts and closed connections at any point, a history with room for one action | announced commands survive, memory and file agree, no stroke without an owner, sessions honoured, revocation final, also where repairs are refused and restarts lose the share; a share is only lost when its history has no room for the strokes in progress |
| `share_store_lost` | a full history and a stroke in progress | *violation*: the restart drops the whole share |
| `page_relay` | the tablet and a browser draw, two commands, a channel of two messages, one crash or failed write | `OrderedLog` is implemented with two authors and skipped broadcasts; no durable command is forgotten |
| `page_relay_live` | a browser, fair, one fault of any kind | when faults end the replica converges and every command is answered |
| `telegram_bot` | two updates of any kind, up to four shares, two faults, fair | no operation is lost, revocations are real, every update is served |
| `telegram_bot_share` | one `/share`, one fault | *violation*: a link is announced whose share the tablet never joins |
| `notebook` | two documents of up to three pages, histories of two edits for two pages, an eraser that cuts a stroke in two, six handlers and two faults, seven together, of them failing writes, stops, and histories lost at a restart | undo and redo give back what was there, histories stay with their pages, every handler ends with everything on disk, no other page changes |
| `notebook_share` | one document, no fault | *violation*: after an insertion the session names another page |
| `screen_stream` | two loads of the viewer, two sockets, two tiles, two changes of the display, one broken connection or restart, fair | viewers show whole screens, a silent stream is current, the newest page holds the stream and ends up with what is on the panel |
| `tablet` | two fingers, pen, power button and bot, saves that fail, two pages, two attempts and two failures of a sleep, fair | a stroke stays on its page, a quiet panel is in colour unless an update was forgotten, an awake program holds its wake lock, every sleep ends |
| `native_observer` | three threads, two breakpoints, one failing call, two signals | a complete capture leaves Xochitl as it was, and hits are hidden only by stepping over the same instruction |

### Bounds, and why they are enough

Seven commands of two participants are the shortest sequences in which a draw of
one is erased by the other, undone, redone and undone again; the counterexamples
of the mutants need at most five. Two cells are enough for an eraser to hit a
part of a stroke, three points on them for it to split one. The limits are set so low that
every one of them is reached. In `PageRelay` both runs have one fault. It costs a
reconnection, which is a `Welcome`, a retry of everything unanswered and the late close
of the old handler; a second fault in the first one's repair is beyond what TLC
does in its time, and is covered by the theorems only, which bound no faults. A second
socket is needed so that a client can be connected again while its old handler
still lives. `Capacity` stands for the 256 messages of the code: at two, a stroke
and its commit are enough to make a slow handler skip.

In `Notebook` six handlers are enough to draw on three pages with two histories,
to edit a page more often than its history remembers, or to share a page, edit
it, leave and undo; two strokes may repeat on a page, so that prefix and suffix
of an edit meet. A page has three strokes at most (`MaxStrokes`), which is one
between two others: the eraser can take it away or cut it in two with a prefix and a
suffix left. The pieces of a cut are two alike; two that differ are an erasure
followed by strokes, and the theorems have any pieces. One of the
two faults can hit the save after the other. The two strokes are interchangeable
(`SYMMETRY`; the run has no liveness property).

In `TelegramBot` two updates let an answer meant for the first reach the second,
and two faults let a retry fail again.

In `ScreenStream` two tiles are enough for a delta that is less than the whole
screen, two pages for one to replace the other, and a connection with room for one
frame for a handler to be stuck in a send. In `Tablet` two fingers make a pinch,
two pages can be turned, and two failures are one in a sleep and one in taking the
lock back after it. In `NativeObserver` one thread can step while a second runs
past the lifted breakpoint and a third hits another; `Requested` is two, so that
a counting probe loops once.

The largest runs are `page_relay` and `notebook`, each with two million states and about
three minutes; no run comes near a bound that is not named in its `.cfg`.

### Fairness

`PageRelay!Fairness` asks of every handler that it processes, forwards and
notices a broken connection (they are tasks of an asynchronous runtime that
wait for exactly these), of every client that it handles what arrives, and of
the connection that it is tried again: both clients reconnect for ever, with a
delay that is bounded by 30 seconds. Nothing makes anyone draw, and no fault is fair. The
liveness properties exclude behaviours in which faults never end.
`CommandsAreAnswered` excuses behaviours in which a slow handler has skipped messages:
the answer may be among them.
`TelegramBot!Fairness` has both processes run their loops. A timeout is a fault
when an answer would still come, and an ordinary step when none can. A bot whose
retries are always faster than the tablet's next frame creates one share after
the other without end; `UpdatesAreServed` leaves such behaviours out by the bound
on the shares (the code pauses for two seconds between attempts).

In `ScreenStream` the tasks of the runtime run, a copy that was begun ends, and the
page that was loaded last reads what it is sent and connects again. Older pages need
not read: that is what replaces a handler in the middle of a send. In `Tablet`
only the sleep is fair: each of its steps is a call that returns or a wait with
a deadline.

## The proofs

Every invariant of a passing run is also a theorem, for all values of the
constants, and so are the action properties and the refinement. Each proof module
begins with the facts about sequences that it needs, and assumes nothing but
the named assumptions about the constants.

### PageJournalProofs

It proves, for every set of participants, commands, cells and every value of the
limits:

* `HistoryIsAlwaysValid`: `Spec => []HistoryIsValid`. Every action has an id of
  its own, draws have fresh roots, erasures target roots of recorded draws, the
  stacks hold recorded actions in the right state. These are the checks that
  `PageHistory::validate` makes before the relay serves a share after a restart.
* `IdsAreAlwaysFresh`: no stroke in progress shares its id with a root of the
  history or with another one in progress.
* `RevisionsAreUnique`: `Spec => []EveryRevisionIsOneCommand`. Every revision up
  to that of the page is the answer to exactly one command. `RevisionInv` adds that
  no answer is ahead of the page.
* `PageIsWellTyped`: `Spec => []TypeOK`.
* `CountsAlwaysMatch`: the counts that are maintained step by step are those of the
  page, so that no decrement underflows.
* `PageIsAlwaysReloadable`: whatever legal commands make of a page, `revalidate`
  accepts it.
* `HistoryOffersAreKept`: only the size of the page can refuse an undo or a redo that
  is offered.
* `GuestsNeverTouchOthers`: no step of a guest changes or reorders the strokes of
  anybody else.

`HistoryIsValid` is not inductive. A redo puts a stroke back, and whether that
is legal depends on the ids in use; a commit records a draw whose root must be
fresh; and an undo entry must still point at an action that is active. The
invariant that is inductive adds that the ids on the page and in the history
were minted by remembered commands (`IdsAreFresh`), that the stacks are without
repetition and disjoint, and the types of what is stored. It is proved with one
step per action.

For the page itself `PageInv` adds `PageBounds`: the page is what rendering
makes of the history (`PageIsRendered`), the counts are its, and strokes, points,
rubs and targets are within their limits. That no two strokes of a page share an id
is then no separate invariant. It follows from the page being a rendering: the parts
of one stroke have different keys, and the parts of two have different roots.
Rendering is a fold over the strokes and the actions; its facts are proved
by induction on sets of numbers: the set of the lengths for which a fact holds
contains 0 and every successor (`InductionOnSets`, from the well-foundedness of
finite subsets).
`BaselineAssumption` says that the page on which a journal starts passes
`validate_snapshot`, which the constructor in the code checks, and that a page's points
fit its history, as the limits of the code do.

`GuestsNeverTouchOthers` needs to know of old actions whose they are: `GuestInv`
adds that the eraser of a guest is recorded for roots of that guest. Undoing or redoing
it then renders the same strokes of everybody else, because an eraser changes only
parts of its targets.

### PageRelayProofs

`NothingDurableIsForgotten`: for any clients, sockets, channel capacity and
number of commands, a durable command that a client issued
is in the file, or its client still means to send it again, or was told that it was
refused. The property speaks about clients and the file; the proof has to go
through the messages between them. `RelayInv` adds the types (`RelayTypeOK`), that
what is durable in memory is in the file (`LogIsDurable`), that an `Applied` in a
receiver or on the wire is about a command of the log (`AnswersAreLogged`:
otherwise the client would stop waiting for a command that nobody has), and the
same promise with the log in the place of the file (`NothingForgotten`).

`RelayImplementsOrderedLog`: `Spec => Ordered!Spec`,
that the relay, its channels and the replicas implement `OrderedLog`, for any
clients, sockets, capacity and number of commands. Every step is shown to be a
step of the log, of one view, or a stutter. `RelayInv` is not enough for that:
`OrderInv` adds that no command is logged twice and the file keeps the
durable commands of memory in their order (`LogsAgree`: a restart goes on from the
file, also after a write that failed and left the new one behind); that an
`Applied` is the command of the log at its revision, and a page that was sent is one
that the log has grown from (`MessagesAgree`); that no message which gets a replica
further than a page is ahead of it on a wire (`PagesAreInOrder`: broadcasts wait in a
receiver while direct answers pass them, but a `Snapshot` is always as new as
anything before it); and that what a joined client shows is a prefix of the log,
with no shorter page on the way to it (`ViewsAgree`). The last two together are why
a view never shrinks.

### ShareStoreProofs

Four of the safety properties of the share store speak about the file:
`AnnouncedCommandsSurvive`, `ServedPageIsOnDisk`,
`SessionsSurvive` and `RevocationsAreFinal`. The inductive invariant has to
follow the mutex. `ModesAreRight` says that a handler has a copy of the share
exactly while it waits for a write; `CopyIsSafe` says that this copy has
every announced command and the page of the file, so that falling back to it
loses nothing, and that a repair which finished no stroke has changed nothing;
`LoadedPageIsOnDisk` does the same for a restart without anything to repair;
`RevocationIsStored` and `FileIsAShare` are about what a restart loads.
Of `PageJournal` this proof uses only that an action adds one command to the
table and that only durable ones change page and history.

Two more, `StoreIsWellTyped` and `StrokesAreNeverOrphaned`, compose the store
with the theorems of the journal. `ShareInv` says that *every image* of the page
satisfies the journal's invariants: the one in memory, the copy that a handler
falls back to, and the one in the file (`PagesAreSound`). Their ids are minted in one
set that no fallback shrinks, so that the commands of one image stay fresh for the others.
`RestartsRevalidate` is the consequence: a restart never fails to revalidate. For the
strokes in progress, `AnswersAreOver` says that the commands which end a stroke are about
ids that are never again in progress, and `OnlyFewer` that a handler which falls
back to its copy finds no stroke there without an open connection.

`OnlyFullSharesAreLost`: `StoreSpec => []SharesWithRoomSurvive`. The journal can refuse the
command of a repair for many reasons: an author who is unknown, an id that was used,
a stroke that is not in progress, one of several limits. `LossInv` rules out all but one:
the strokes in progress are drawn by participants of the share, in memory and in
the file (`MembersDraw`), and a repair takes from the strokes in progress what it
adds to the history (`RepairsMoveStrokes`), so that a history that had room in the
file still has it at the last repair. That the page's own limits never refuse a repair
follows from the counts of the journal.

### TabletProofs

`StrokesKeepTheirPage`, `MonochromeIsCleanedUp`, `WakeLockIsHeld` and
`TabletIsWellTyped` hold for any number of fingers and pages. A quiet panel in colour is not
inductive: `ColourIsDue` says who still owes the update in colour (the stroke that
is being drawn, or the pinch), also for ink that was not submitted and pinches
that were not drawn; it needs to know which gestures exist. `LockIsRestored` says
at which steps of a sleep the lock may be released and that a failed restore
counts as the second failure.

### NativeObserverProofs

Both properties of the probes hold for any number of threads and breakpoints: `CompleteCapturesRestore` and `HitsAreHiddenByStepping`.
What a complete capture leaves behind depends on all that came before it:
`CaptureIsArmed` says that every word is patched but the one that is stepped over,
`NobodyIsFree` that no thread runs untraced while words may be patched, and
`EveryoneIsStopped` and `AllStopped` that, unless there was an error, each thread is
still to be stopped, is stopped, or has ended. Threads are taken in the order of
their numbers, and that a set of numbers has a least one follows from
well-foundedness (`MinFacts`).

### TelegramBotProofs

`OperationsAreNotLost` and `RevocationsHold` are proved for any number of updates
and shares. The offset is the easy half (`UpdatesAreAnswered`,
with a file that is never ahead). That an answer is true has to be followed
from the tablet through the file of the response and the bot to the chat
(`DoneIsDone`), and holds because a request id belongs to one operation of one
update (`RequestsAreNamed`, `RequestIdsAreDistinct`). The same is false of `/share`,
where one id is used for different shares: see `telegram_bot_share` below.

`MailboxIsWellTyped` adds that the files bear names of requests that the bot mints
(`FilesAreNamed`), that the bot works only on updates that were sent
(`UpdatesAreSent`) and that every share the two speak of was created (`SharesExist`).

### NotebookProofs

It proves all that the run `notebook` checks, for any documents, strokes, limits
and pages of the relay: `NotebookIsWellTyped`, `UndoFindsItsPage`,
`HistoriesBelongToPages`, `HandlersSaveEverything`, `EditsAreTakenBack` and
`OnePageChangesAtATime`. The argument has three parts.

* *Edits.* `Between(s, t)` remembers the range in which two pages differ; taking it
  back from `t` gives `s` and doing it again gives `t`, for all pages. A whole history
  fits a page when there is a chain of pages from the oldest edit to the page that is
  there, and one through the redo stack (`FitsWell`). Recording adds a link, undo
  and redo move one from chain to chain, and forgetting the oldest edit cuts one off.
* *Libraries.* Pages are named by document and index. Every page of the model also has
  a name given once, so that inserting a page is seen to move pages and histories
  together, and that only one page changes in a step.
* *Two files.* `NotebookInv` keeps apart the memory, the file, and the library as it
  was when the histories in the file were written (`agreed`): a history in the file
  fits its page in that one (`FileFits`), which a restart needs to know which
  histories to suspect. `InTransit` says what holds between the two writes,
  `PageIsStored` when the page that is open is in the library, and
  `OnePageAhead` that memory and file differ in one page at most, so that a process
  that stops takes back one page at most.

`stale` and `unsaved` are conditions of these theorems as of the properties: they name
the ways in which the code itself lets files and histories part.

### ScreenStreamProofs

`ViewersAreWhole`, `SilentStreamsAreCurrent` and `NewestViewerWins` hold for any
tiles, screens, sockets, pages, and any changes and faults. The invariant that carries
them is an argument by replay (`PagesReplay`): paint every frame that is still on
the wire on the canvas of the page, and the result is what the handler compares the next
screen with. A delta is taken against just that, so it is painted on the screen it
was made for, although the page may be several frames behind its handler. `HandlersAreServed`
says that the number of a screen goes with its pixels, which is why a handler
with the current number has nothing to send; `SocketsAreOwn` that no socket serves two
pages; `PagesClaim` that a page that shows something had claimed the stream.

### What is only model-checked

The liveness properties, because the prover has neither fairness with quantifiers over
processes nor `ENABLED`: `Converges`, `CommandsAreAnswered`,
`UpdatesAreServed`, `ViewersSettle`, `SleepEnds`. And the three violations, which are
counterexamples.

## What the runs found

* `share_store_lost`: a stroke in progress takes no place in the history until it
  is committed. When someone else takes the last place and the relay restarts,
  the repair cannot commit the stroke and the relay drops the whole share.
* `notebook_share`: a blank page is inserted before the shared page; the session
  keeps the index, and what the relay sends overwrites the page that is there now.
* `telegram_bot_share`: a retry of `/share` asks for the connection to another
  share under the same request id, and takes the late answer about the first
  share for its own.

While modelling the notebook, two more ways were found in which an undo is refused, and with
it the process ended, or takes back the wrong edit: when the process stops
between its two writes, and when a page was edited in a session that ended
before its first `Welcome`. The model has both (`UndoIsRefused`), the observer
`stale` names the pages, and no run claims that they do not happen. Another one
is in `PageRelay`: the tablet's channel is drained when its socket opens, before
the `Welcome` that makes it send older commands again, so that its commands may
take effect in another order than they were issued in.

More that the models have as the code does it, without a run of its own:

* `Tablet`: a finger that rested on the library button before the pen came is
  still a tap when it is lifted while the pen draws; the document is closed under
  the stroke, and lifting the pen then fails and ends the program
  (`LibraryTapFails`). A library opened by the pen while a pinch is not drawn yet
  makes the next frame ask for a page that is not there. A gesture that is reset in
  the middle of a pinch leaves its pixels in monochrome, and so does a stroke that
  a request of the bot finishes when its record or save fails: the contact is gone,
  the program goes on, and nothing submits the colour (`forgotten`). A SIGTERM
  during a stroke drops it. After a wake-up a hovering pen is unknown
  until it leaves and returns, and palms are not rejected meanwhile.
* `NativeObserver`: an error between the first patched word and the end of the
  capture leaves the words patched, although `native-observer/README.md` says that
  every patched instruction is restored before detaching. A SIGSTOP that a thread
  has not taken when it is detached halts Xochitl (`halted`).
* Left out of the models and read in the code: `notebook_shared_page.rs` decides
  by `pixels_visible` whether the answer to the tablet's own command is already
  drawn, and an incremental redraw of a remote command in between does not reset
  it, so that an unanswered stroke of the tablet can disappear from the panel
  until the next full redraw. `display.rs` keeps the pixels under the eraser's
  cursor, which a remote redraw does not refresh.

## Not modelled

Pixels, geometry, colours, PDF, the drawing of widgets and the display driver
are pure output or vendor code. The binary encoding of messages is pure. Assets,
the status requests and the rate limit of the relay hold no state that other
operations read. On the tablet, coordinates, pressure and the clocks of gestures
are choices, what a shared page draws by itself is not among the events, and the
measurement of sleeps writes a log line. Of the reverse-engineering tools only
the probes change a running program; the replay and its fixtures are sequential.
A library file that cannot be read is left out of `Notebook`: the program then goes on with
the default notebook and overwrites the file with its next save (`notebook.rs:152`). The
file is renamed whole, so that only a damaged disk or a program of another version
gets there, and every property about stored pages would be void.
Threads that Xochitl starts during a capture, its own signals and its end are left
out of `NativeObserver`.

## The plan

Done, in this order: journal, share store, replication, mailbox and bot, notebook,
screen stream, tablet, native observer; proofs of every safety property of all of
them. What is left:

1. Proofs: the handlers of `Tablet` and `Notebook` are two models of one main loop; a
   theorem that a page turn of the one is a page turn of the other would tie them.
   What the bot is promised by the mailbox (a request is carried out at most
   once for each time that it is written) as an abstract specification.
2. The redraws that a shared page causes on the tablet, with `pixels_visible` and
   the eraser's cursor, as a refinement of the panel of `Tablet`.
