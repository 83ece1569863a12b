---------------------------- MODULE ScreenStream -----------------------------
(* The diagnostic view of the tablet's screen in a browser: the display    *)
(* buffer that the program's main thread copies its image into, the web    *)
(* sockets that read it ten times a second on a thread of their own, and   *)
(* the viewer pages. Only the page that was loaded last may watch.         *)
(* A screen is a function from its tiles to what is drawn on them. The     *)
(* runtime of the sockets has a single thread, so that what a handler does *)
(* between two awaits is one step; the main thread runs beside it.         *)
EXTENDS Naturals, Sequences, FiniteSets

CONSTANTS
  Page,        \* the loads of the viewer page
  Socket,      \* the web sockets
  Tile,        \* the tiles of a screen
  Screen,      \* what the program draws: some functions from Tile
  Blank,       \* the screen that the program starts with
  Buffer,      \* frames that a connection holds while its browser is slow
  MaxChanges,  \* bound: changes of the display since a start of the program
  MaxFaults    \* bound: broken connections and restarts of the program

NoSocket == "none"
ASSUME ScreenAssumption ==
  /\ Blank \in Screen /\ Buffer \in Nat \ {0} /\ MaxChanges \in Nat /\ MaxFaults \in Nat
  /\ \A f \in Screen : f = [t \in Tile |-> f[t]]
  /\ NoSocket \notin Socket

VARIABLES
  pixels,          \* the display buffer
  generation,      \* how often it has changed
  incoming,        \* the screen that is being copied into it, under the lock
  session,         \* the run of the program
  nextViewer,      \* the generation of the viewer page that was loaded last
  activeViewer,    \* the newest generation that has opened a socket
  connection,      \* the value of the watch channel that replaces handlers
  handler,         \* the task of each socket
  wire,            \* what is on its way to the browser
  page,            \* the viewer pages
  faults           \* bound: how many faults there have been

display == <<pixels, generation, incoming>>
viewers == <<session, nextViewer, activeViewer, connection>>
vars == <<display, viewers, handler, wire, page, faults>>

Nothing  == [t \in {} |-> 0]                  \* no tiles
Frame(f) == [code |-> 0, tiles |-> f]
Replaced == [code |-> 4000, tiles |-> Nothing]
Gone     == [code |-> 1006, tiles |-> Nothing] \* a connection that just ends

Idle     == [state |-> "closed", session |-> 0, viewer |-> 0, seen |-> 0,
             previous |-> Nothing, generation |-> 0, frame |-> Nothing]
Unloaded == [state |-> "unloaded", session |-> 0, viewer |-> 0,
             socket |-> NoSocket, canvas |-> Nothing]

Init ==
  /\ pixels = Blank /\ generation = 0 /\ incoming = Nothing
  /\ session = 1 /\ nextViewer = 0 /\ activeViewer = 0 /\ connection = 0
  /\ handler = [s \in Socket |-> Idle]
  /\ wire = [s \in Socket |-> <<>>]
  /\ page = [p \in Page |-> Unloaded]
  /\ faults = 0

-----------------------------------------------------------------------------
(* The display.                                                            *)

ReadableAlways == TRUE \* a mutant: pixels are read without the lock
(* Whether a reader gets the lock of the pixels.                           *)
Readable == incoming = Nothing

(* copy_changed_from copies the pixels that differ, and none if none do.   *)
BeginCopy(f) ==
  /\ Readable /\ f # pixels /\ generation < MaxChanges
  /\ \E T \in SUBSET Tile :
       pixels' = [t \in Tile |-> IF t \in T THEN f[t] ELSE pixels[t]]
  /\ incoming' = f
  /\ UNCHANGED <<generation, viewers, handler, wire, page, faults>>
EndCopy ==
  /\ incoming # Nothing
  /\ pixels' = incoming /\ generation' = generation + 1 /\ incoming' = Nothing
  /\ UNCHANGED <<viewers, handler, wire, page, faults>>

-----------------------------------------------------------------------------
(* The sockets.                                                            *)

(* The tiles that changed, the whole screen if that is more than half of   *)
(* them, and nothing at all if none did.                                   *)
EncodeChangedPixels(previous, current) ==
  LET changed == {t \in Tile : previous[t] # current[t]}
  IN  IF 2 * Cardinality(changed) > Cardinality(Tile) THEN current
      ELSE [t \in changed |-> current[t]]

Connected(s) == \E p \in Page : page[p].state = "open" /\ page[p].socket = s

(* What a handler writes is lost if its connection is broken.              *)
Deliver(s, m) == wire' = [wire EXCEPT ![s] = IF Connected(s) THEN Append(@, m) ELSE <<>>]

ClaimAlways(h) == h.session = session \* a mutant: an old page claims too
(* Any page may claim the generation it was served with, or claim it again;*)
(* an older one may not.                                                   *)
ClaimViewerGeneration(h) == h.session = session /\ h.viewer >= activeViewer

UpgradeWebsocket(s) ==
  LET h == handler[s]
  IN  /\ h.state = "upgrading"
      /\ \/ /\ ~ClaimViewerGeneration(h)
            /\ Deliver(s, Replaced)
            /\ handler' = [handler EXCEPT ![s] = Idle]
            /\ UNCHANGED <<activeViewer, connection>>
         \/ /\ ClaimViewerGeneration(h) /\ Readable
            /\ activeViewer' = h.viewer
            /\ connection' = connection + 1
            /\ handler' = [handler EXCEPT ![s].state = "sending", ![s].seen = connection + 1,
                 ![s].previous = pixels, ![s].generation = generation, ![s].frame = pixels]
            /\ UNCHANGED wire
      /\ UNCHANGED <<display, session, nextViewer, page, faults>>

TickAgainstTheFirstFrame(s) == \* a mutant: previous stays the first frame
  LET h     == handler[s]
      frame == EncodeChangedPixels(h.previous, pixels)
  IN  /\ h.state = "streaming" /\ generation # h.generation /\ Readable
      /\ handler' = [handler EXCEPT ![s].generation = generation,
           ![s].frame = frame, ![s].state = IF frame = Nothing THEN "streaming" ELSE "sending"]
      /\ UNCHANGED <<display, viewers, wire, page, faults>>
(* A tick of the interval, when the display has changed.                   *)
Tick(s) ==
  LET h     == handler[s]
      frame == EncodeChangedPixels(h.previous, pixels)
  IN  /\ h.state = "streaming" /\ generation # h.generation /\ Readable
      /\ handler' = [handler EXCEPT ![s].previous = pixels, ![s].generation = generation,
           ![s].frame = frame, ![s].state = IF frame = Nothing THEN "streaming" ELSE "sending"]
      /\ UNCHANGED <<display, viewers, wire, page, faults>>

(* socket.send returns once the connection has room for the frame.         *)
Send(s) ==
  /\ handler[s].state = "sending" /\ Connected(s) /\ Len(wire[s]) < Buffer
  /\ Deliver(s, Frame(handler[s].frame))
  /\ handler' = [handler EXCEPT ![s].state = "streaming", ![s].frame = Nothing]
  /\ UNCHANGED <<display, viewers, page, faults>>

Running(s) == handler[s].state \in {"sending", "streaming"}

ReplaceHandlerBetweenFrames(s) == \* a mutant: not while a frame waits for room
  /\ handler[s].state = "streaming" /\ handler[s].seen # connection
  /\ Deliver(s, Gone)
  /\ handler' = [handler EXCEPT ![s] = Idle]
  /\ UNCHANGED <<display, viewers, page, faults>>
(* The watch channel has a newer value, also while a frame waits for room. *)
ReplaceHandler(s) ==
  /\ Running(s) /\ handler[s].seen # connection
  /\ Deliver(s, Gone)
  /\ handler' = [handler EXCEPT ![s] = Idle]
  /\ UNCHANGED <<display, viewers, page, faults>>

NoticeClosed(s) ==
  /\ Running(s) /\ ~Connected(s)
  /\ handler' = [handler EXCEPT ![s] = Idle]
  /\ UNCHANGED <<display, viewers, wire, page, faults>>

-----------------------------------------------------------------------------
(* The viewer pages.                                                       *)

LoadPage(p) ==
  /\ page[p].state = "unloaded"
  /\ nextViewer' = nextViewer + 1
  /\ page' = [page EXCEPT ![p].state = "away", ![p].session = session, ![p].viewer = nextViewer + 1]
  /\ UNCHANGED <<display, session, activeViewer, connection, handler, wire, faults>>

Connect(p) ==
  /\ page[p].state = "away"
  /\ \E s \in Socket :
       /\ handler[s].state = "closed" /\ ~Connected(s)
       /\ handler' = [handler EXCEPT ![s] = [Idle EXCEPT !.state = "upgrading",
            !.session = page[p].session, !.viewer = page[p].viewer]]
       /\ wire' = [wire EXCEPT ![s] = <<>>]
       /\ page' = [page EXCEPT ![p].state = "open", ![p].socket = s]
  /\ UNCHANGED <<display, viewers, faults>>

(* Tiles are painted over what the canvas shows.                           *)
Paint(tiles, canvas) ==
  [t \in DOMAIN tiles \cup DOMAIN canvas |-> IF t \in DOMAIN tiles THEN tiles[t] ELSE canvas[t]]

(* A close with the code 4000 is final; after any other the page connects  *)
(* again.                                                                  *)
PaintMessage(p) ==
  LET s == page[p].socket
      m == Head(wire[s])
  IN  /\ page[p].state = "open" /\ wire[s] # <<>>
      /\ wire' = [wire EXCEPT ![s] = Tail(@)]
      /\ page' = CASE m = Replaced -> [page EXCEPT ![p].state = "stopped", ![p].socket = NoSocket]
                   [] m = Gone     -> [page EXCEPT ![p].state = "away", ![p].socket = NoSocket]
                   [] OTHER        -> [page EXCEPT ![p].canvas = Paint(m.tiles, @)]
      /\ UNCHANGED <<display, viewers, handler, faults>>

ClosePage(p) ==
  /\ page[p].state \in {"away", "open", "stopped"}
  /\ wire' = [s \in Socket |-> IF s = page[p].socket THEN <<>> ELSE wire[s]]
  /\ page' = [page EXCEPT ![p].state = "left", ![p].socket = NoSocket]
  /\ UNCHANGED <<display, viewers, handler, faults>>

(* The network breaks a connection: the browser notices at once, and the   *)
(* handler later.                                                          *)
BreakConnection(p) ==
  /\ page[p].state = "open" /\ faults < MaxFaults /\ faults' = faults + 1
  /\ wire' = [wire EXCEPT ![page[p].socket] = <<>>]
  /\ page' = [page EXCEPT ![p].state = "away", ![p].socket = NoSocket]
  /\ UNCHANGED <<display, viewers, handler>>

(* The program ends and is started again, with counters of its own.        *)
RestartProgram ==
  /\ faults < MaxFaults /\ faults' = faults + 1
  /\ pixels' = Blank /\ generation' = 0 /\ incoming' = Nothing
  /\ session' = session + 1 /\ nextViewer' = 0 /\ activeViewer' = 0 /\ connection' = 0
  /\ handler' = [s \in Socket |-> Idle]
  /\ wire' = [s \in Socket |-> <<>>]
  /\ page' = [p \in Page |-> IF page[p].state # "open" THEN page[p]
                             ELSE [page[p] EXCEPT !.state = "away", !.socket = NoSocket]]

HandlerStep(s) == UpgradeWebsocket(s) \/ Tick(s) \/ Send(s) \/ ReplaceHandler(s) \/ NoticeClosed(s)
PageStep(p)    == Connect(p) \/ PaintMessage(p)

Next ==
  \/ \E f \in Screen : BeginCopy(f)
  \/ EndCopy
  \/ \E s \in Socket : HandlerStep(s)
  \/ \E p \in Page : LoadPage(p) \/ PageStep(p) \/ ClosePage(p) \/ BreakConnection(p)
  \/ RestartProgram

(* The page that was loaded last, and may watch.                           *)
Newest(p) == page[p].state # "left" /\ page[p].session = session /\ page[p].viewer = nextViewer

(* The tasks of the runtime run, a copy that was begun ends, and the page  *)
(* that was loaded last reads and connects again. Nobody needs to draw,    *)
(* load or close, and a page that was replaced may be frozen.              *)
Fairness ==
  /\ WF_vars(EndCopy)
  /\ \A s \in Socket : WF_vars(UpgradeWebsocket(s)) /\ WF_vars(Tick(s)) /\ WF_vars(Send(s))
                         /\ WF_vars(ReplaceHandler(s)) /\ WF_vars(NoticeClosed(s))
  /\ \A p \in Page : WF_vars(Newest(p) /\ PageStep(p))

Spec == Init /\ [][Next]_vars /\ Fairness

-----------------------------------------------------------------------------
(* Properties.                                                             *)

(* A viewer shows whole screens that the program drew, never one that was  *)
(* half copied, and never one with old tiles in it: the lock of the pixels *)
(* and the deltas against what was sent before.                            *)
ViewersShowWholeScreens ==
  \A p \in Page : page[p].canvas \in Screen \cup {Nothing}

(* A handler that has nothing to send has sent the display: a generation   *)
(* number that is taken with other pixels than its own would hide a change *)
(* for as long as nothing else is drawn.                                   *)
SilentStreamIsCurrent ==
  \A p \in Page :
    LET s == page[p].socket
    IN  /\ page[p].state = "open" /\ handler[s].state = "streaming" /\ wire[s] = <<>>
        /\ handler[s].generation = generation /\ Readable
        => page[p].canvas = pixels

(* At most one handler has not been told to stop, and once a page has      *)
(* shown something it is not the handler of an older page: one that        *)
(* connects again by itself cannot take the stream back.                   *)
NewestViewerHoldsTheStream ==
  LET current == {s \in Socket : Running(s) /\ handler[s].seen = connection}
  IN  /\ Cardinality(current) <= 1
      /\ \A s \in current, p \in Page :
           page[p].session = session /\ page[p].canvas # Nothing => page[p].viewer <= handler[s].viewer

(* When the display comes to rest, the page that was loaded last shows it, *)
(* and no other has a handler: not an older page that connects again, and  *)
(* not one that has stopped reading and blocks its handler in a send.      *)
ViewersSettle ==
  \A p \in Page : <>[](Newest(p) => /\ page[p].canvas = pixels
                                    /\ \A s \in Socket : Running(s) => handler[s].viewer = page[p].viewer)
=============================================================================
