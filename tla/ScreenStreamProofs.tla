--------------------------- MODULE ScreenStreamProofs --------------------------
(* Theorems of ScreenStream: what a viewer shows, and which viewer holds   *)
(* the stream. They hold for any screens, pages, sockets and buffer.       *)
EXTENDS ScreenStream, SequenceTheorems, FiniteSetTheorems, TLAPS

Patch   == {[t \in T |-> f[t]] : T \in SUBSET Tile, f \in Screen} \cup {Nothing}
Canvas  == Screen \cup {Nothing}
Ending  == {Replaced, Gone}
Message == {Frame(f) : f \in Patch} \cup Ending
Task    == [state : {"closed", "upgrading", "sending", "streaming"},
            session : Nat, viewer : Nat, seen : Nat,
            previous : Canvas, generation : Nat, frame : Patch]
Viewer  == [state : {"unloaded", "away", "open", "stopped", "left"},
            session : Nat, viewer : Nat, socket : Socket \cup {NoSocket}, canvas : Canvas]

(* Half of a copy is no screen: what the pixels are then is not said.      *)
ScreenTypeOK ==
  /\ incoming \in Canvas /\ (Readable => pixels \in Screen)
  /\ {generation, session, nextViewer, activeViewer, connection, faults} \subseteq Nat
  /\ handler \in [Socket -> Task]
  /\ wire \in [Socket -> Seq(Message)]
  /\ page \in [Page -> Viewer]
  /\ \A p \in Page : page[p].state = "unloaded" => page[p].canvas = Nothing

Open(p) == page[p].state = "open"

(* A socket is the connection of one page.                                 *)
SocketsAreOwn ==
  /\ \A p \in Page : Open(p) <=> page[p].socket # NoSocket
  /\ \A p, q \in Page : Open(p) /\ Open(q) /\ page[p].socket = page[q].socket => p = q

(* A handler that runs was given a screen with its number, and the newest  *)
(* one serves the newest page.                                             *)
Served(h) ==
  /\ h.previous \in Screen /\ h.session = session /\ h.viewer <= activeViewer
  /\ h.seen \in 1 .. connection /\ (h.seen = connection => h.viewer = activeViewer)
  /\ h.generation <= generation
  /\ h.generation = generation /\ Readable => h.previous = pixels
HandlersAreServed ==
  /\ \A s \in Socket : Running(s) => Served(handler[s])
  /\ \A s, t \in Socket : Running(s) /\ Running(t) /\ handler[s].seen = handler[t].seen => s = t

(* What a canvas will show, message by message.                            *)
Shows(shown, canvas, w) ==
  /\ shown[0] = canvas
  /\ \A i \in 1 .. Len(w) : w[i] \notin Ending => shown[i] = Paint(w[i].tiles, shown[i - 1])

(* A connection that has ended says so last, and one that has not begun    *)
(* says nothing.                                                           *)
Ends(w, h) ==
  /\ \A i \in 1 .. Len(w) : w[i] \in Ending => i = Len(w) /\ h.state = "closed"
  /\ h.state = "closed" => w # <<>> /\ w[Len(w)] \in Ending
  /\ h.state = "upgrading" => w = <<>>

(* Once every message is painted, the canvas shows what the handler sent.  *)
Agrees(last, h) ==
  /\ h.state = "streaming" => last = h.previous
  /\ h.state = "sending" => Paint(h.frame, last) = h.previous

Replays(canvas, w, h) ==
  /\ Ends(w, h)
  /\ \E shown \in [0 .. Len(w) -> Canvas] : Shows(shown, canvas, w) /\ Agrees(shown[Len(w)], h)
PagesReplay == \A p \in Page : Open(p) =>
  Replays(page[p].canvas, wire[page[p].socket], handler[page[p].socket])

(* Only a page that has claimed its generation is shown anything.          *)
Claimed(p) == page[p].session = session => page[p].viewer <= activeViewer
PagesClaim ==
  /\ \A p \in Page : page[p].session <= session
  /\ \A p \in Page : page[p].canvas # Nothing => Claimed(p)
  /\ \A p \in Page : Open(p) =>
       LET s == page[p].socket
       IN  /\ handler[s].state # "closed" =>
                handler[s].session = page[p].session /\ handler[s].viewer = page[p].viewer
           /\ (\E i \in 1 .. Len(wire[s]) : wire[s][i] \notin Ending) => Claimed(p)

ScreenInv == ScreenTypeOK /\ SocketsAreOwn /\ HandlersAreServed /\ PagesReplay /\ PagesClaim

-----------------------------------------------------------------------------
(* Painting.                                                               *)

(* Screens and canvases, and which frames there are.                       *)
LEMMA ScreenFacts ==
  /\ Screen # {} /\ Canvas # {} /\ Nothing \in Canvas /\ Nothing \in Patch
  /\ \A f \in Screen : f = [t \in Tile |-> f[t]] /\ f \in Canvas /\ f \in Patch
  /\ \A f \in Canvas : f \in Screen \/ f = Nothing
  /\ DOMAIN Nothing = {}
<1>1. \A f \in Screen : f = [t \in Tile |-> f[t]]
  BY ScreenAssumption
<1>2. \A f \in Screen : f \in Patch
  <2> TAKE f \in Screen
  <2>1. [t \in Tile |-> f[t]] \in Patch
    BY DEF Patch
  <2> QED
    BY <1>1, <2>1
<1> QED
  BY <1>1, <1>2, ScreenAssumption DEF Canvas, Patch, Nothing

(* A whole screen hides what was there before.                             *)
LEMMA PaintWhole ==
  ASSUME NEW f \in Screen, NEW g \in Canvas
  PROVE  Paint(f, g) = f
<1>1. f = [t \in Tile |-> f[t]] /\ DOMAIN f = Tile
  BY ScreenFacts
<1>2. DOMAIN g \subseteq Tile
  <2>1. g \in Screen => DOMAIN g = Tile
    BY ScreenFacts
  <2> QED
    BY <2>1, ScreenFacts
<1>3. DOMAIN f \cup DOMAIN g = Tile
  BY <1>1, <1>2
<1>4. Paint(f, g) = [t \in Tile |-> f[t]]
  BY <1>1, <1>3 DEF Paint
<1> QED
  BY <1>1, <1>4

(* The difference of two screens makes the newer one of the older one, and *)
(* it is nothing only if there is none.                                    *)
LEMMA PaintDelta ==
  ASSUME NEW f \in Screen, NEW g \in Screen
  PROVE  LET delta == EncodeChangedPixels(g, f)
         IN  delta \in Patch /\ Paint(delta, g) = f /\ (delta = Nothing => f = g)
<1> DEFINE changed == {t \in Tile : g[t] # f[t]}
           some    == [t \in changed |-> f[t]]
           delta   == EncodeChangedPixels(g, f)
<1>1. f = [t \in Tile |-> f[t]] /\ g = [t \in Tile |-> g[t]] /\ DOMAIN g = Tile /\ DOMAIN f = Tile
  BY ScreenFacts
<1>2. delta = f \/ delta = some
  BY DEF EncodeChangedPixels
<1>3. some \in Patch /\ f \in Patch
  <2>1. \A T \in SUBSET Tile : [t \in T |-> f[t]] \in Patch
    BY DEF Patch
  <2>2. changed \in SUBSET Tile
    OBVIOUS
  <2> HIDE DEF changed
  <2> QED
    BY <2>1, <2>2, ScreenFacts
<1>4. Paint(some, g) = f
  <2>1. Paint(some, g) = [t \in Tile |-> IF t \in changed THEN f[t] ELSE g[t]]
    <3>1. DOMAIN some = changed /\ changed \cup DOMAIN g = Tile
      BY <1>1
    <3>2. Paint(some, g) = [t \in Tile |-> IF t \in DOMAIN some THEN some[t] ELSE g[t]]
      BY <3>1 DEF Paint
    <3> QED
      BY <3>1, <3>2
  <2>2. \A t \in Tile : (IF t \in changed THEN f[t] ELSE g[t]) = f[t]
    OBVIOUS
  <2> QED
    BY <1>1, <2>1, <2>2
<1>5. Paint(f, g) = f
  BY PaintWhole, ScreenFacts
<1>6. delta = Nothing => f = g
  <2> SUFFICES ASSUME delta = Nothing  PROVE f = g
    OBVIOUS
  <2>1. DOMAIN delta = {}
    BY ScreenFacts
  <2>2. CASE delta = f
    <3>1. Tile = {}
      BY <1>1, <2>1, <2>2
    <3> QED
      BY <1>1, <3>1
  <2>3. CASE delta = some
    <3>1. changed = {}
      BY <2>1, <2>3
    <3>2. \A t \in Tile : f[t] = g[t]
      BY <3>1
    <3> QED
      BY <1>1, <3>2
  <2> QED
    BY <1>2, <2>2, <2>3
<1> QED
  BY <1>2, <1>3, <1>4, <1>5, <1>6

(* A frame is no ending.                                                   *)
LEMMA FrameFacts ==
  /\ \A f \in Patch : Frame(f) \in Message /\ Frame(f) \notin Ending /\ Frame(f).tiles = f
  /\ Ending \subseteq Message /\ Replaced # Gone
  BY DEF Message, Ending, Frame, Replaced, Gone

-----------------------------------------------------------------------------
(* What a viewer will show, step by step.                                  *)

(* A connection that begins: the canvas is the one of before.              *)
LEMMA ReplayBegins ==
  ASSUME NEW canvas \in Canvas, NEW h, h.state = "upgrading"
  PROVE  Replays(canvas, <<>>, h)
<1> DEFINE shown == [i \in 0 .. 0 |-> canvas]
<1>1. Len(<<>>) = 0 /\ 1 .. 0 = {}
  OBVIOUS
<1>2. shown \in [0 .. Len(<<>>) -> Canvas] /\ shown[0] = canvas
  BY <1>1
<1> HIDE DEF shown
<1>3. Ends(<<>>, h) /\ Shows(shown, canvas, <<>>) /\ Agrees(shown[Len(<<>>)], h)
  BY <1>1, <1>2 DEF Ends, Shows, Agrees
<1> QED
  BY <1>2, <1>3 DEF Replays

(* A handler may change what it is about to send, if it adds up.           *)
LEMMA ReplayStays ==
  ASSUME NEW canvas, NEW w, NEW g, NEW h, Replays(canvas, w, g),
         g.state # "closed", h.state \in {"sending", "streaming"},
         \A last \in Canvas : Agrees(last, g) => Agrees(last, h),
         Len(w) \in Nat
  PROVE  Replays(canvas, w, h)
<1>1. PICK shown \in [0 .. Len(w) -> Canvas] : Shows(shown, canvas, w) /\ Agrees(shown[Len(w)], g)
  BY DEF Replays
<1>2. shown[Len(w)] \in Canvas
  BY <1>1
<1>3. Agrees(shown[Len(w)], h)
  BY <1>1, <1>2
<1>4. Ends(w, h)
  BY DEF Replays, Ends
<1> QED
  BY <1>1, <1>3, <1>4 DEF Replays

(* A message more: a frame that was being sent, or the end.                *)
LEMMA ReplayGrows ==
  ASSUME NEW canvas, NEW w \in Seq(Message), NEW m \in Message, NEW g, NEW h,
         Replays(canvas, w, g), g.state # "closed",
         \/ /\ m \in Ending /\ h.state = "closed"
         \/ /\ m = Frame(g.frame) /\ g.frame \in Patch /\ g.state = "sending" /\ h.state = "streaming"
            /\ h.previous = g.previous /\ g.previous \in Screen
  PROVE  Replays(canvas, Append(w, m), h)
<1> DEFINE v == Append(w, m)
           n == Len(w)
<1>1. n \in Nat /\ Len(v) = n + 1 /\ v[n + 1] = m /\ v # <<>> /\ \A i \in 1 .. n : v[i] = w[i]
  BY AppendProperties, LenProperties
<1>2. PICK shown \in [0 .. n -> Canvas] : Shows(shown, canvas, w) /\ Agrees(shown[n], g)
  BY DEF Replays
<1>3. \A i \in 1 .. n : w[i] \notin Ending
  BY DEF Replays, Ends
<1> DEFINE last == IF m \in Ending THEN shown[n] ELSE Paint(m.tiles, shown[n])
           more == [i \in 0 .. n + 1 |-> IF i = n + 1 THEN last ELSE shown[i]]
<1>4. last \in Canvas
  <2>1. CASE m \in Ending
    BY <1>1, <1>2, <2>1
  <2>2. CASE m \notin Ending
    <3>1. g.state = "sending" /\ m.tiles = g.frame /\ g.previous \in Canvas
      BY <2>2, FrameFacts, ScreenFacts
    <3> QED
      BY <1>2, <2>2, <3>1 DEF Agrees
  <2> QED
    BY <2>1, <2>2
<1>5. more \in [0 .. Len(v) -> Canvas] /\ more[n + 1] = last /\ more[0] = canvas
      /\ \A i \in 0 .. n : more[i] = shown[i]
  BY <1>1, <1>2, <1>4 DEF Shows
<1> HIDE DEF more
<1>6. Shows(more, canvas, v)
  <2>1. ASSUME NEW i \in 1 .. Len(v), v[i] \notin Ending
        PROVE  more[i] = Paint(v[i].tiles, more[i - 1])
    <3>1. CASE i = n + 1
      <4>1. i - 1 = n /\ n \in 0 .. n
        BY <1>1, <3>1
      <4> QED
        BY <1>1, <1>5, <2>1, <3>1, <4>1
    <3>2. CASE i # n + 1
      <4>1. i \in 1 .. n /\ i \in 0 .. n /\ i - 1 \in 0 .. n
        BY <1>1, <3>2
      <4> QED
        BY <1>1, <1>2, <1>5, <2>1, <4>1 DEF Shows
    <3> QED
      BY <3>1, <3>2
  <2> QED
    BY <1>5, <2>1 DEF Shows
<1>7. Agrees(last, h)
  <2>1. CASE m \in Ending
    BY <2>1, FrameFacts DEF Agrees
  <2>2. CASE m \notin Ending
    <3>1. g.state = "sending" /\ m.tiles = g.frame /\ h.previous = g.previous /\ h.state = "streaming"
      BY <2>2, FrameFacts
    <3> QED
      BY <1>2, <2>2, <3>1 DEF Agrees
  <2> QED
    BY <2>1, <2>2
<1>8. Ends(v, h)
  <2>1. ASSUME NEW i \in 1 .. Len(v), v[i] \in Ending  PROVE i = Len(v) /\ h.state = "closed"
    <3>1. i = n + 1
      BY <1>1, <1>3, <2>1
    <3> QED
      BY <1>1, <2>1, <3>1, FrameFacts
  <2> QED
    BY <1>1, <2>1, FrameFacts DEF Ends
<1>9. Agrees(more[Len(v)], h)
  BY <1>1, <1>5, <1>7
<1> HIDE DEF v, n, last
<1> QED
  BY <1>5, <1>6, <1>8, <1>9 DEF Replays, v

(* The browser paints the first message.                                   *)
LEMMA ReplayPaints ==
  ASSUME NEW canvas, NEW w \in Seq(Message), NEW h, Replays(canvas, w, h), w # <<>>,
         Head(w) \notin Ending
  PROVE  LET next == Paint(Head(w).tiles, canvas)
         IN  next \in Canvas /\ Replays(next, Tail(w), h)
<1> DEFINE next == Paint(Head(w).tiles, canvas)
           v == Tail(w)
           n == Len(v)
<1>1. /\ n \in Nat /\ Len(w) = n + 1 /\ Head(w) = w[1]
      /\ \A i \in 1 .. n : v[i] = w[i + 1]
  <2>1. Len(w) \in Nat \ {0} /\ Len(v) = Len(w) - 1 /\ \A i \in 1 .. Len(v) : v[i] = w[i + 1]
    BY EmptySeq, HeadTailProperties, LenProperties
  <2> QED
    BY <2>1
<1>2. PICK shown \in [0 .. n + 1 -> Canvas] : Shows(shown, canvas, w) /\ Agrees(shown[n + 1], h)
  BY <1>1 DEF Replays
<1>3. shown[1] = next /\ next \in Canvas
  BY <1>1, <1>2 DEF Shows
<1> DEFINE rest == [i \in 0 .. n |-> shown[i + 1]]
<1>4. rest \in [0 .. n -> Canvas] /\ \A i \in 0 .. n : rest[i] = shown[i + 1]
  BY <1>1, <1>2
<1> HIDE DEF rest
<1>5. Shows(rest, next, v)
  <2>1. ASSUME NEW i \in 1 .. n, v[i] \notin Ending
        PROVE  rest[i] = Paint(v[i].tiles, rest[i - 1])
    <3>1. i + 1 \in 1 .. Len(w) /\ v[i] = w[i + 1] /\ (i + 1) - 1 = i
      BY <1>1
    <3>2. shown[i + 1] = Paint(w[i + 1].tiles, shown[i])
      BY <1>2, <2>1, <3>1 DEF Shows
    <3>3. i \in 0 .. n /\ i - 1 \in 0 .. n /\ (i - 1) + 1 = i
      BY <1>1
    <3> QED
      BY <1>4, <3>1, <3>2, <3>3
  <2>2. rest[0] = next
    BY <1>1, <1>3, <1>4
  <2> QED
    BY <2>1, <2>2 DEF Shows
<1>6. Agrees(rest[n], h)
  BY <1>1, <1>2, <1>4
<1>7. Ends(v, h)
  <2> HIDE DEF v, n
  <2>1. /\ \A i \in 1 .. Len(w) : w[i] \in Ending => i = Len(w) /\ h.state = "closed"
        /\ h.state = "closed" => w[Len(w)] \in Ending
        /\ h.state # "upgrading"
    BY DEF Replays, Ends
  <2>2. \A i \in 1 .. n : v[i] \in Ending => i = n /\ h.state = "closed"
    <3> TAKE i \in 1 .. n
    <3>1. i + 1 \in 1 .. Len(w) /\ v[i] = w[i + 1]
      BY <1>1
    <3> QED
      BY <1>1, <2>1, <3>1
  <2>3. h.state = "closed" => n # 0
    <3>1. n = 0 => Len(w) = 1 /\ w[1] \notin Ending
      BY <1>1
    <3> QED
      BY <2>1, <3>1
  <2>4. h.state = "closed" => n \in 1 .. n /\ v[n] = w[Len(w)]
    BY <1>1, <2>3
  <2>5. n # 0 => v # <<>>
    BY EmptySeq DEF n
  <2>6. Len(v) = n
    BY DEF n
  <2> QED
    BY <2>1, <2>2, <2>3, <2>4, <2>5, <2>6 DEF Ends
<1> HIDE DEF v, next, n
<1> QED
  BY <1>3, <1>4, <1>5, <1>6, <1>7 DEF Replays, v, next, n

-----------------------------------------------------------------------------
(* Steps of one socket, and of one page.                                   *)

(* Where the parts of a state lie.                                         *)
LEMMA Places ==
  ASSUME ScreenTypeOK
  PROVE  /\ \A s \in Socket : /\ handler[s] \in Task /\ wire[s] \in Seq(Message)
                              /\ Len(wire[s]) \in Nat
         /\ \A p \in Page : page[p] \in Viewer /\ (Open(p) /\ SocketsAreOwn => page[p].socket \in Socket)
<1>1. \A s \in Socket : handler[s] \in Task /\ wire[s] \in Seq(Message)
  BY DEF ScreenTypeOK
<1>2. \A p \in Page : page[p] \in Viewer
  BY DEF ScreenTypeOK
<1>3. \A p \in Page : page[p].socket \in Socket \cup {NoSocket}
  BY <1>2 DEF Viewer
<1>4. \A p \in Page : Open(p) /\ SocketsAreOwn => page[p].socket \in Socket
  BY <1>3 DEF SocketsAreOwn
<1>5. \A s \in Socket : Len(wire[s]) \in Nat
  BY <1>1, LenProperties
<1> QED
  BY <1>1, <1>2, <1>4, <1>5

(* What a step of one socket must keep up for the page that it serves.     *)
LEMMA SocketStep ==
  ASSUME ScreenInv, NEW s \in Socket,
         page' = page, session' = session, activeViewer' \in Nat, activeViewer <= activeViewer',
         \A t \in Socket \ {s} : handler'[t] = handler[t] /\ wire'[t] = wire[t],
         \A p \in Page : Open(p) /\ page[p].socket = s =>
           /\ Replays(page[p].canvas, wire'[s], handler'[s])
           /\ handler'[s].state # "closed" =>
                handler'[s].session = page[p].session /\ handler'[s].viewer = page[p].viewer
           /\ (\E i \in 1 .. Len(wire'[s]) : wire'[s][i] \notin Ending) => Claimed(p)'
  PROVE  SocketsAreOwn' /\ PagesReplay' /\ PagesClaim'
<1> USE DEF ScreenInv
<1>1. SocketsAreOwn'
  BY DEF SocketsAreOwn, Open
<1>2. \A p \in Page : Open(p)' <=> Open(p)
  BY DEF Open
<1>3. \A p \in Page : Claimed(p) => Claimed(p)'
  <2> TAKE p \in Page
  <2>1. page[p].viewer \in Nat /\ activeViewer \in Nat
    BY Places DEF Viewer, ScreenTypeOK
  <2> QED
    BY <2>1 DEF Claimed
<1>4. \A p \in Page : Open(p) => page[p].socket \in Socket
  BY Places
<1>5. PagesReplay'
  <2> SUFFICES ASSUME NEW p \in Page, Open(p)
               PROVE  Replays(page[p].canvas, wire'[page[p].socket], handler'[page[p].socket])
    BY <1>2 DEF PagesReplay
  <2>1. CASE page[p].socket = s
    BY <2>1
  <2>2. CASE page[p].socket # s
    BY <1>4, <2>2 DEF PagesReplay
  <2> QED
    BY <2>1, <2>2
<1>6. PagesClaim'
  <2>1. \A p \in Page : page'[p].session <= session' /\ (page'[p].canvas # Nothing => Claimed(p)')
    BY <1>3 DEF PagesClaim
  <2>2. ASSUME NEW p \in Page, Open(p), NEW t, t = page[p].socket
        PROVE  /\ handler'[t].state # "closed" =>
                    handler'[t].session = page[p].session /\ handler'[t].viewer = page[p].viewer
               /\ (\E i \in 1 .. Len(wire'[t]) : wire'[t][i] \notin Ending) => Claimed(p)'
    <3>1. CASE t = s
      BY <2>2, <3>1
    <3>2. CASE t # s
      <4>1. handler'[t] = handler[t] /\ wire'[t] = wire[t]
        BY <1>4, <2>2, <3>2
      <4> QED
        BY <1>3, <2>2, <4>1 DEF PagesClaim
    <3> QED
      BY <3>1, <3>2
  <2> QED
    BY <1>2, <2>1, <2>2 DEF PagesClaim
<1> QED
  BY <1>1, <1>5, <1>6

(* What a step of one page must keep up: it may change its own socket and  *)
(* the one it takes.                                                       *)
LEMMA PageChange ==
  ASSUME ScreenInv, NEW p \in Page,
         session' = session, activeViewer' = activeViewer,
         \A q \in Page \ {p} : page'[q] = page[q],
         \A q \in Page \ {p} : Open(q) => page[q].socket # page'[p].socket,
         \A t \in Socket \ {page[p].socket, page'[p].socket} :
           handler'[t] = handler[t] /\ wire'[t] = wire[t],
         Open(p)' <=> page'[p].socket # NoSocket,
         page'[p].session <= session,
         page'[p].canvas # Nothing => Claimed(p)',
         Open(p)' => LET s == page'[p].socket IN
           /\ Replays(page'[p].canvas, wire'[s], handler'[s])
           /\ handler'[s].state # "closed" =>
                handler'[s].session = page'[p].session /\ handler'[s].viewer = page'[p].viewer
           /\ (\E i \in 1 .. Len(wire'[s]) : wire'[s][i] \notin Ending) => Claimed(p)'
  PROVE  SocketsAreOwn' /\ PagesReplay' /\ PagesClaim'
<1> USE DEF ScreenInv
<1>1. \A q \in Page \ {p} : (Open(q)' <=> Open(q)) /\ (Claimed(q)' <=> Claimed(q))
  BY DEF Open, Claimed
<1>2. ASSUME NEW q \in Page \ {p}, Open(q), NEW t, t = page[q].socket
      PROVE  t = page'[q].socket /\ handler'[t] = handler[t] /\ wire'[t] = wire[t]
  <2>1. t \in Socket /\ t # page'[p].socket
    BY <1>2, Places
  <2>2. t # page[p].socket
    BY <1>2 DEF SocketsAreOwn
  <2> QED
    BY <1>2, <2>1, <2>2
<1>3. SocketsAreOwn'
  <2>1. \A q \in Page : Open(q)' <=> page'[q].socket # NoSocket
    BY <1>1 DEF SocketsAreOwn
  <2>2. ASSUME NEW q \in Page, NEW r \in Page, Open(q)', Open(r)', page'[q].socket = page'[r].socket
        PROVE  q = r
    BY <1>1, <2>2 DEF SocketsAreOwn
  <2> QED
    BY <2>1, <2>2 DEF SocketsAreOwn
<1>4. PagesReplay'
  <2> SUFFICES ASSUME NEW q \in Page, Open(q)'
               PROVE  Replays(page'[q].canvas, wire'[page'[q].socket], handler'[page'[q].socket])
    BY DEF PagesReplay
  <2>1. CASE q = p
    BY <2>1
  <2>2. CASE q # p
    BY <1>1, <1>2, <2>2 DEF PagesReplay
  <2> QED
    BY <2>1, <2>2
<1>5. PagesClaim'
  <2>1. \A q \in Page : page'[q].session <= session' /\ (page'[q].canvas # Nothing => Claimed(q)')
    BY <1>1 DEF PagesClaim
  <2>2. ASSUME NEW q \in Page, Open(q)', NEW t, t = page'[q].socket
        PROVE  /\ handler'[t].state # "closed" =>
                    handler'[t].session = page'[q].session /\ handler'[t].viewer = page'[q].viewer
               /\ (\E i \in 1 .. Len(wire'[t]) : wire'[t][i] \notin Ending) => Claimed(q)'
    <3>1. CASE q = p
      BY <2>2, <3>1
    <3>2. CASE q # p
      <4>1. Open(q) /\ t = page[q].socket /\ handler'[t] = handler[t] /\ wire'[t] = wire[t]
            /\ page'[q] = page[q]
        BY <1>1, <1>2, <2>2, <3>2
      <4> QED
        BY <1>1, <3>2, <4>1 DEF PagesClaim
    <3> QED
      BY <3>1, <3>2
  <2> QED
    BY <2>1, <2>2 DEF PagesClaim
<1> QED
  BY <1>3, <1>4, <1>5

(* A step that begins no handler and leaves the display and the counters   *)
(* alone keeps the handlers served.                                        *)
LEMMA ServedStays ==
  ASSUME HandlersAreServed, UNCHANGED <<pixels, generation, incoming, session, activeViewer, connection>>,
         \A s \in Socket : Running(s)' => handler'[s] = handler[s]
  PROVE  HandlersAreServed'
<1>1. \A s \in Socket : Running(s)' => Running(s) /\ handler'[s] = handler[s]
  BY DEF Running
<1>2. \A s \in Socket : Running(s)' => Served(handler[s])'
  BY <1>1 DEF HandlersAreServed, Served, Readable
<1>3. \A s, t \in Socket : Running(s)' /\ Running(t)' /\ handler'[s].seen = handler'[t].seen => s = t
  BY <1>1 DEF HandlersAreServed
<1> QED
  BY <1>2, <1>3 DEF HandlersAreServed

-----------------------------------------------------------------------------
(* The actions: the display.                                               *)

(* The program starts with no viewer and no socket.                        *)
LEMMA InitHolds == Init => ScreenInv
<1> SUFFICES ASSUME Init  PROVE ScreenInv
  OBVIOUS
<1> USE DEF Init
<1>1. ScreenTypeOK
  <2>1. Idle \in Task
    BY ScreenFacts DEF Idle, Task
  <2>2. Unloaded \in Viewer
    BY ScreenFacts DEF Unloaded, Viewer
  <2>3. <<>> \in Seq(Message)
    BY EmptySeq
  <2>4. incoming \in Canvas /\ pixels \in Screen
    BY ScreenFacts, ScreenAssumption
  <2>5. \A p \in Page : page[p].canvas = Nothing
    BY DEF Unloaded
  <2> QED
    BY <2>1, <2>2, <2>3, <2>4, <2>5 DEF ScreenTypeOK
<1>2. \A p \in Page : ~Open(p) /\ page[p].socket = NoSocket /\ page[p].session = 0 /\ page[p].canvas = Nothing
  BY DEF Open, Unloaded
<1>3. \A s \in Socket : ~Running(s)
  BY DEF Running, Idle
<1> QED
  BY <1>1, <1>2, <1>3 DEF ScreenInv, SocketsAreOwn, HandlersAreServed, PagesReplay, PagesClaim

(* While a screen is copied nobody reads the pixels.                       *)
LEMMA BeginCopyHolds ==
  ASSUME ScreenInv, NEW f \in Screen, BeginCopy(f)  PROVE ScreenInv'
<1> USE DEF ScreenInv
<1>1. UNCHANGED <<generation, viewers, handler, wire, page, faults>> /\ incoming' = f
  BY DEF BeginCopy
<1>2. f # Nothing
  <2>1. pixels \in Screen /\ f # pixels
    BY DEF BeginCopy, ScreenTypeOK
  <2>2. f = [t \in Tile |-> f[t]] /\ pixels = [t \in Tile |-> pixels[t]]
    BY <2>1, ScreenFacts
  <2>3. f = Nothing => Tile = {}
    BY <2>2, ScreenFacts
  <2> QED
    BY <2>1, <2>2, <2>3
<1>3. ~Readable'
  BY <1>1, <1>2 DEF Readable
<1>4. ScreenTypeOK'
  <2>1. incoming' \in Canvas
    BY <1>1, ScreenFacts
  <2> QED
    BY <1>1, <1>3, <2>1 DEF ScreenTypeOK, viewers
<1>5. SocketsAreOwn' /\ PagesReplay' /\ PagesClaim'
  BY <1>1 DEF SocketsAreOwn, PagesReplay, PagesClaim, Claimed, Open, viewers
<1>6. HandlersAreServed'
  <2>1. \A s \in Socket : Running(s)' <=> Running(s)
    BY <1>1 DEF Running
  <2>2. \A s \in Socket : Running(s) => Served(handler[s])'
    BY <1>1, <1>3 DEF HandlersAreServed, Served, viewers
  <2> QED
    BY <1>1, <2>1, <2>2 DEF HandlersAreServed
<1> QED
  BY <1>4, <1>5, <1>6

(* The new screen has a number that no handler has seen.                   *)
LEMMA EndCopyHolds ==
  ASSUME ScreenInv, EndCopy  PROVE ScreenInv'
<1> USE DEF ScreenInv
<1>1. UNCHANGED <<viewers, handler, wire, page, faults>> /\ pixels' = incoming
      /\ generation' = generation + 1 /\ incoming' = Nothing /\ incoming # Nothing
  BY DEF EndCopy
<1>2. ScreenTypeOK'
  <2>1. incoming \in Screen
    BY <1>1, ScreenFacts DEF ScreenTypeOK
  <2> QED
    BY <1>1, <2>1, ScreenFacts DEF ScreenTypeOK, viewers
<1>3. SocketsAreOwn' /\ PagesReplay' /\ PagesClaim'
  BY <1>1 DEF SocketsAreOwn, PagesReplay, PagesClaim, Claimed, Open, viewers
<1>4. HandlersAreServed'
  <2>1. \A s \in Socket : Running(s)' <=> Running(s)
    BY <1>1 DEF Running
  <2>2. ASSUME NEW s \in Socket, Running(s)  PROVE Served(handler[s])'
    <3>1. handler[s].generation \in Nat /\ generation \in Nat
      BY Places DEF Task, ScreenTypeOK
    <3>2. handler[s].generation <= generation
      BY <2>2 DEF HandlersAreServed, Served
    <3>3. handler[s].generation <= generation' /\ handler[s].generation # generation'
      BY <1>1, <3>1, <3>2
    <3> QED
      BY <1>1, <2>2, <3>3 DEF HandlersAreServed, Served, viewers
  <2> QED
    BY <1>1, <2>1, <2>2 DEF HandlersAreServed
<1> QED
  BY <1>2, <1>3, <1>4

-----------------------------------------------------------------------------
(* The actions: the sockets.                                               *)

(* What is written to a connection that is open arrives behind the rest.   *)
LEMMA DeliverFacts ==
  ASSUME ScreenInv, NEW s \in Socket, NEW m \in Message, Deliver(s, m)
  PROVE  /\ wire' \in [Socket -> Seq(Message)]
         /\ \A t \in Socket \ {s} : wire'[t] = wire[t]
         /\ \A p \in Page : Open(p) /\ page[p].socket = s => wire'[s] = Append(wire[s], m)
<1> USE DEF ScreenInv
<1>1. wire \in [Socket -> Seq(Message)]
  BY DEF ScreenTypeOK
<1>2. Append(wire[s], m) \in Seq(Message) /\ <<>> \in Seq(Message)
  BY <1>1, AppendProperties, EmptySeq
<1>3. \A p \in Page : Open(p) /\ page[p].socket = s => Connected(s)
  BY DEF Open, Connected
<1> QED
  BY <1>1, <1>2, <1>3 DEF Deliver

(* A handler that stops says so, or is not heard any more.                 *)
LEMMA StopHolds ==
  ASSUME ScreenInv, NEW s \in Socket, NEW m \in Ending, handler[s].state # "closed",
         handler' = [handler EXCEPT ![s] = Idle],
         UNCHANGED <<display, viewers, page, faults>>,
         Deliver(s, m) \/ (~Connected(s) /\ wire' = wire)
  PROVE  ScreenInv'
<1> USE DEF ScreenInv
<1>0. m \in Message
  BY FrameFacts
<1>1. wire' \in [Socket -> Seq(Message)] /\ \A t \in Socket \ {s} : wire'[t] = wire[t]
  BY <1>0, DeliverFacts DEF ScreenTypeOK
<1>2. ScreenTypeOK'
  <2>1. Idle \in Task
    BY ScreenFacts DEF Idle, Task
  <2>2. handler' \in [Socket -> Task]
    BY <2>1 DEF ScreenTypeOK
  <2> QED
    BY <1>1, <2>2 DEF ScreenTypeOK, display, viewers, Readable
<1>3. handler'[s] = Idle /\ \A t \in Socket \ {s} : handler'[t] = handler[t]
  BY DEF ScreenTypeOK
<1>4. Idle.state = "closed"
  BY DEF Idle
<1>5. SocketsAreOwn' /\ PagesReplay' /\ PagesClaim'
  <2>1. ASSUME NEW p \in Page, Open(p), page[p].socket = s
        PROVE  /\ Replays(page[p].canvas, wire'[s], handler'[s])
               /\ (\E i \in 1 .. Len(wire'[s]) : wire'[s][i] \notin Ending) => Claimed(p)'
    <3>1. wire'[s] = Append(wire[s], m)
      BY <1>0, <2>1, DeliverFacts DEF Connected, Open
    <3>2. wire[s] \in Seq(Message) /\ Len(wire[s]) \in Nat
      BY Places
    <3>3. Replays(page[p].canvas, wire[s], handler[s])
      BY <2>1 DEF PagesReplay
    <3>4. Replays(page[p].canvas, Append(wire[s], m), Idle)
      BY <1>0, <1>4, <3>2, <3>3, ReplayGrows
    <3>5. ASSUME NEW i \in 1 .. Len(wire'[s]), wire'[s][i] \notin Ending
          PROVE  Claimed(p)'
      <4>1. i \in 1 .. Len(wire[s]) /\ wire[s][i] \notin Ending
        BY <1>0, <3>1, <3>2, <3>5, AppendProperties
      <4> QED
        BY <2>1, <4>1 DEF PagesClaim, Claimed, viewers
    <3> QED
      BY <1>3, <3>1, <3>4, <3>5
  <2>2. activeViewer' \in Nat /\ activeViewer <= activeViewer' /\ session' = session
    BY DEF ScreenTypeOK, viewers
  <2> QED
    BY <1>1, <1>3, <1>4, <2>1, <2>2, SocketStep
<1>6. HandlersAreServed'
  <2>1. \A t \in Socket : Running(t)' => handler'[t] = handler[t]
    BY <1>3, <1>4 DEF Running
  <2> QED
    BY <2>1, ServedStays DEF display, viewers
<1> QED
  BY <1>2, <1>5, <1>6

(* Whoever may watch is given the screen and its number, and everyone else *)
(* is told to stop.                                                        *)
LEMMA UpgradeHolds ==
  ASSUME ScreenInv, NEW s \in Socket, UpgradeWebsocket(s)  PROVE ScreenInv'
<1> USE DEF ScreenInv
<1> DEFINE h == handler[s]
<1>1. h.state = "upgrading" /\ UNCHANGED <<display, session, nextViewer, page, faults>>
  BY DEF UpgradeWebsocket
<1>2. CASE ~ClaimViewerGeneration(h)
  <2>1. Deliver(s, Replaced) /\ handler' = [handler EXCEPT ![s] = Idle] /\ UNCHANGED viewers
    BY <1>1, <1>2 DEF UpgradeWebsocket, viewers
  <2>2. Replaced \in Ending
    BY DEF Ending
  <2> QED
    BY <1>1, <2>1, <2>2, StopHolds
<1>3. CASE ClaimViewerGeneration(h)
  <2>1. /\ Readable /\ activeViewer' = h.viewer /\ connection' = connection + 1
        /\ handler' = [handler EXCEPT ![s].state = "sending", ![s].seen = connection + 1,
             ![s].previous = pixels, ![s].generation = generation, ![s].frame = pixels]
        /\ UNCHANGED wire
    BY <1>1, <1>3 DEF UpgradeWebsocket
  <2> DEFINE g == [h EXCEPT !.state = "sending", !.seen = connection + 1,
                     !.previous = pixels, !.generation = generation, !.frame = pixels]
  <2>2. pixels \in Screen /\ h \in Task /\ {connection, generation, activeViewer} \subseteq Nat
    BY <2>1, Places DEF ScreenTypeOK
  <2>3. /\ g \in Task /\ g.state = "sending" /\ g.seen = connection + 1 /\ g.previous = pixels
        /\ g.generation = generation /\ g.frame = pixels
        /\ g.session = h.session /\ g.viewer = h.viewer /\ h.viewer \in Nat
    <3>1. connection + 1 \in Nat /\ generation \in Nat /\ pixels \in Canvas /\ pixels \in Patch
      BY <2>2, ScreenFacts
    <3> QED
      BY <2>2, <3>1 DEF Task
  <2>4. handler' = [handler EXCEPT ![s] = g] /\ handler'[s] = g
        /\ \A t \in Socket \ {s} : handler'[t] = handler[t]
    BY <2>1 DEF ScreenTypeOK
  <2> HIDE DEF g
  <2>5. ScreenTypeOK'
    <3>1. handler' \in [Socket -> Task]
      BY <2>3, <2>4 DEF ScreenTypeOK
    <3>2. {generation', session', nextViewer', activeViewer', connection', faults'} \subseteq Nat
      BY <1>1, <2>1, <2>3 DEF ScreenTypeOK, display
    <3> QED
      BY <1>1, <2>1, <3>1, <3>2 DEF ScreenTypeOK, display, Readable
  <2>6. h.session = session /\ activeViewer <= activeViewer' /\ activeViewer' \in Nat
    BY <1>3, <2>1, <2>3 DEF ClaimViewerGeneration
  <2>7. SocketsAreOwn' /\ PagesReplay' /\ PagesClaim'
    <3>1. ASSUME NEW p \in Page, Open(p), page[p].socket = s
          PROVE  /\ Replays(page[p].canvas, wire'[s], handler'[s])
                 /\ g.session = page[p].session /\ g.viewer = page[p].viewer
                 /\ Claimed(p)'
      <4>1. Replays(page[p].canvas, wire[s], h)
        BY <3>1 DEF PagesReplay
      <4>2. \A last \in Canvas : Agrees(last, h) => Agrees(last, g)
        BY <2>2, <2>3, PaintWhole DEF Agrees
      <4>3. Replays(page[p].canvas, wire[s], g)
        BY <1>1, <2>3, <4>1, <4>2, Places, ReplayStays
      <4>4. g.session = page[p].session /\ g.viewer = page[p].viewer
        BY <1>1, <2>3, <3>1 DEF PagesClaim
      <4>5. Claimed(p)'
        BY <1>1, <2>1, <2>3, <4>4 DEF Claimed
      <4> QED
        BY <2>1, <2>4, <4>3, <4>4, <4>5
    <3> QED
      BY <1>1, <2>1, <2>4, <2>6, <3>1, SocketStep
  <2>8. HandlersAreServed'
    <3>1. \A t \in Socket \ {s} : Running(t)' <=> Running(t)
      BY <2>4 DEF Running
    <3>2. Served(handler[s])'
      BY <1>1, <2>1, <2>2, <2>3, <2>4, <2>6 DEF Served, display
    <3>3. ASSUME NEW t \in Socket \ {s}, Running(t)
          PROVE  Served(handler[t])' /\ handler[t].seen # connection + 1
      <4>1. Served(handler[t])
        BY <3>3 DEF HandlersAreServed
      <4>2. handler[t] \in Task
        BY Places
      <4> DEFINE k == handler[t]
      <4>3. k.seen \in Nat /\ k.viewer \in Nat
        BY <4>2 DEF Task
      <4>4. k.seen \in 1 .. connection' /\ k.seen # connection' /\ k.viewer <= activeViewer'
        BY <2>1, <2>2, <2>6, <4>1, <4>3 DEF Served
      <4> QED
        BY <1>1, <2>1, <2>4, <4>1, <4>4 DEF Served, display, Readable
    <3>4. \A t \in Socket : Running(t)' => Served(handler[t])'
      BY <3>1, <3>2, <3>3
    <3>5. \A t, u \in Socket : Running(t)' /\ Running(u)' /\ handler'[t].seen = handler'[u].seen => t = u
      BY <2>3, <2>4, <3>1, <3>3 DEF HandlersAreServed
    <3> QED
      BY <3>4, <3>5 DEF HandlersAreServed
  <2> QED
    BY <2>5, <2>7, <2>8
<1> QED
  BY <1>2, <1>3

(* A tick takes the pixels together with their number, and adds to the     *)
(* frame what makes them of the screen that was sent before.               *)
LEMMA TickHolds ==
  ASSUME ScreenInv, NEW s \in Socket, Tick(s)  PROVE ScreenInv'
<1> USE DEF ScreenInv
<1> DEFINE h == handler[s]
           frame == EncodeChangedPixels(h.previous, pixels)
           g == [h EXCEPT !.previous = pixels, !.generation = generation, !.frame = frame,
                   !.state = IF frame = Nothing THEN "streaming" ELSE "sending"]
<1>1. h.state = "streaming" /\ Readable /\ UNCHANGED <<display, viewers, wire, page, faults>>
      /\ handler' = [handler EXCEPT ![s].previous = pixels, ![s].generation = generation,
           ![s].frame = frame, ![s].state = IF frame = Nothing THEN "streaming" ELSE "sending"]
  BY DEF Tick
<1>2. pixels \in Screen /\ h \in Task /\ generation \in Nat /\ Running(s)
  BY <1>1, Places DEF ScreenTypeOK, Running
<1>3. h.previous \in Screen /\ Served(h)
  BY <1>2 DEF HandlersAreServed, Served
<1>4. frame \in Patch /\ Paint(frame, h.previous) = pixels /\ (frame = Nothing => pixels = h.previous)
  BY <1>2, <1>3, PaintDelta
<1> HIDE DEF frame
<1>5. /\ g \in Task /\ g.previous = pixels /\ g.generation = generation /\ g.frame = frame
      /\ g.state = IF frame = Nothing THEN "streaming" ELSE "sending"
      /\ g.session = h.session /\ g.viewer = h.viewer /\ g.seen = h.seen
  BY <1>2, <1>4, ScreenFacts DEF Task
<1>6. handler' = [handler EXCEPT ![s] = g] /\ handler'[s] = g
      /\ \A t \in Socket \ {s} : handler'[t] = handler[t]
  BY <1>1 DEF ScreenTypeOK
<1> HIDE DEF g
<1>7. ScreenTypeOK'
  <2>1. handler' \in [Socket -> Task]
    BY <1>5, <1>6 DEF ScreenTypeOK
  <2> QED
    BY <1>1, <2>1 DEF ScreenTypeOK, display, viewers, Readable
<1>8. SocketsAreOwn' /\ PagesReplay' /\ PagesClaim'
  <2>1. ASSUME NEW p \in Page, Open(p), page[p].socket = s
        PROVE  /\ Replays(page[p].canvas, wire[s], g)
               /\ g.session = page[p].session /\ g.viewer = page[p].viewer
               /\ (\E i \in 1 .. Len(wire[s]) : wire[s][i] \notin Ending) => Claimed(p)'
    <3>1. Replays(page[p].canvas, wire[s], h)
      BY <2>1 DEF PagesReplay
    <3>2. \A last \in Canvas : Agrees(last, h) => Agrees(last, g)
      BY <1>1, <1>4, <1>5 DEF Agrees
    <3>3. Replays(page[p].canvas, wire[s], g)
      BY <1>1, <1>5, <3>1, <3>2, Places, ReplayStays
    <3>4. h.session = page[p].session /\ h.viewer = page[p].viewer
          /\ ((\E i \in 1 .. Len(wire[s]) : wire[s][i] \notin Ending) => Claimed(p))
      BY <1>1, <2>1 DEF PagesClaim
    <3> QED
      BY <1>1, <1>5, <3>3, <3>4 DEF Claimed, viewers
  <2>2. activeViewer' \in Nat /\ activeViewer <= activeViewer' /\ session' = session
        /\ page' = page /\ wire' = wire
    BY <1>1 DEF ScreenTypeOK, viewers
  <2> QED
    BY <1>6, <2>1, <2>2, SocketStep
<1>9. HandlersAreServed'
  <2>1. \A t \in Socket : Running(t)' <=> Running(t)
    BY <1>1, <1>5, <1>6 DEF Running
  <2>2. Served(handler[s])'
    BY <1>1, <1>2, <1>3, <1>5, <1>6 DEF Served, display, viewers
  <2>3. \A t \in Socket \ {s} : Running(t) => Served(handler[t])'
    BY <1>1, <1>6 DEF HandlersAreServed, Served, display, viewers, Readable
  <2>4. \A t \in Socket : handler'[t].seen = handler[t].seen
    BY <1>5, <1>6
  <2>5. \A t \in Socket : Running(t)' => Served(handler[t])'
    BY <2>1, <2>2, <2>3
  <2> QED
    BY <2>1, <2>4, <2>5 DEF HandlersAreServed
<1> QED
  BY <1>7, <1>8, <1>9

(* The frame is behind what was sent before, and the page that it is for   *)
(* has claimed its generation.                                             *)
LEMMA SendHolds ==
  ASSUME ScreenInv, NEW s \in Socket, Send(s)  PROVE ScreenInv'
<1> USE DEF ScreenInv
<1> DEFINE h == handler[s]
           g == [h EXCEPT !.state = "streaming", !.frame = Nothing]
           m == Frame(h.frame)
<1>1. h.state = "sending" /\ Deliver(s, m) /\ UNCHANGED <<display, viewers, page, faults>>
      /\ handler' = [handler EXCEPT ![s].state = "streaming", ![s].frame = Nothing]
  BY DEF Send
<1>2. h \in Task /\ Running(s)
  BY <1>1, Places DEF Running
<1>3. h.previous \in Screen /\ Served(h)
  BY <1>2 DEF HandlersAreServed, Served
<1>4. h.frame \in Patch /\ m \in Message
  BY <1>2, FrameFacts DEF Task
<1>5. /\ g \in Task /\ g.state = "streaming" /\ g.previous = h.previous
      /\ g.generation = h.generation /\ g.session = h.session /\ g.viewer = h.viewer
      /\ g.seen = h.seen
  BY <1>2, ScreenFacts DEF Task
<1>6. handler' = [handler EXCEPT ![s] = g] /\ handler'[s] = g
      /\ \A t \in Socket \ {s} : handler'[t] = handler[t]
  BY <1>1 DEF ScreenTypeOK
<1> HIDE DEF g
<1>7. /\ wire' \in [Socket -> Seq(Message)]
      /\ \A t \in Socket \ {s} : wire'[t] = wire[t]
      /\ \A p \in Page : Open(p) /\ page[p].socket = s => wire'[s] = Append(wire[s], m)
  BY <1>1, <1>4, DeliverFacts
<1>8. ScreenTypeOK'
  <2>1. handler' \in [Socket -> Task]
    BY <1>5, <1>6 DEF ScreenTypeOK
  <2> QED
    BY <1>1, <1>7, <2>1 DEF ScreenTypeOK, display, viewers, Readable
<1>9. SocketsAreOwn' /\ PagesReplay' /\ PagesClaim'
  <2>1. ASSUME NEW p \in Page, Open(p), page[p].socket = s
        PROVE  /\ Replays(page[p].canvas, wire'[s], g)
               /\ g.session = page[p].session /\ g.viewer = page[p].viewer
               /\ Claimed(p)'
    <3>1. Replays(page[p].canvas, wire[s], h) /\ wire[s] \in Seq(Message)
      BY <2>1, Places DEF PagesReplay
    <3>2. Replays(page[p].canvas, Append(wire[s], m), g)
      <4> HIDE DEF m
      <4>1. m = Frame(h.frame)
        BY DEF m
      <4> QED
        BY <1>1, <1>3, <1>4, <1>5, <3>1, <4>1, ReplayGrows
    <3>3. h.session = page[p].session /\ h.viewer = page[p].viewer
      BY <1>1, <2>1 DEF PagesClaim
    <3>4. Claimed(p)'
      BY <1>1, <1>3, <3>3 DEF Claimed, Served, viewers
    <3> QED
      BY <1>5, <1>7, <2>1, <3>2, <3>3, <3>4
  <2>2. activeViewer' \in Nat /\ activeViewer <= activeViewer' /\ session' = session /\ page' = page
    BY <1>1 DEF ScreenTypeOK, viewers
  <2> QED
    BY <1>6, <1>7, <2>1, <2>2, SocketStep
<1>10. HandlersAreServed'
  <2>1. \A t \in Socket : Running(t)' <=> Running(t)
    BY <1>1, <1>5, <1>6 DEF Running
  <2>2. Served(handler[s])'
    BY <1>1, <1>3, <1>5, <1>6 DEF Served, display, viewers, Readable
  <2>3. \A t \in Socket \ {s} : Running(t) => Served(handler[t])'
    BY <1>1, <1>6 DEF HandlersAreServed, Served, display, viewers, Readable
  <2>4. \A t \in Socket : handler'[t].seen = handler[t].seen
    BY <1>5, <1>6
  <2>5. \A t \in Socket : Running(t)' => Served(handler[t])'
    BY <2>1, <2>2, <2>3
  <2> QED
    BY <2>1, <2>4, <2>5 DEF HandlersAreServed
<1> QED
  BY <1>8, <1>9, <1>10

(* A handler that was replaced ends its connection.                        *)
LEMMA ReplaceHandlerHolds ==
  ASSUME ScreenInv, NEW s \in Socket, ReplaceHandler(s)  PROVE ScreenInv'
<1>1. handler[s].state # "closed" /\ Gone \in Ending
  BY DEF ReplaceHandler, Running, Ending
<1> QED
  BY <1>1, StopHolds DEF ReplaceHandler

(* A handler that nobody listens to ends.                                  *)
LEMMA NoticeClosedHolds ==
  ASSUME ScreenInv, NEW s \in Socket, NoticeClosed(s)  PROVE ScreenInv'
<1>1. handler[s].state # "closed" /\ Gone \in Ending
  BY DEF NoticeClosed, Running, Ending
<1> QED
  BY <1>1, StopHolds DEF NoticeClosed

-----------------------------------------------------------------------------
(* The actions: the pages.                                                 *)

(* A page that is loaded has shown nothing yet.                            *)
LEMMA LoadPageHolds ==
  ASSUME ScreenInv, NEW p \in Page, LoadPage(p)  PROVE ScreenInv'
<1> USE DEF ScreenInv
<1> DEFINE g == [page[p] EXCEPT !.state = "away", !.session = session, !.viewer = nextViewer + 1]
<1>1. /\ page[p].state = "unloaded" /\ nextViewer' = nextViewer + 1
      /\ page' = [page EXCEPT ![p].state = "away", ![p].session = session, ![p].viewer = nextViewer + 1]
      /\ UNCHANGED <<display, session, activeViewer, connection, handler, wire, faults>>
  BY DEF LoadPage
<1>2. session \in Nat /\ nextViewer + 1 \in Nat /\ page[p] \in Viewer
  BY Places DEF ScreenTypeOK
<1>3. page[p].canvas = Nothing /\ page[p].socket = NoSocket
  BY <1>1 DEF ScreenTypeOK, SocketsAreOwn, Open
<1>4. /\ g \in Viewer /\ g.state = "away" /\ g.session = session
      /\ g.socket = NoSocket /\ g.canvas = Nothing
  BY <1>2, <1>3 DEF Viewer
<1>5. page' = [page EXCEPT ![p] = g] /\ page'[p] = g /\ \A q \in Page \ {p} : page'[q] = page[q]
  BY <1>1 DEF ScreenTypeOK
<1> HIDE DEF g
<1>6. ScreenTypeOK'
  <2>1. page' \in [Page -> Viewer] /\ \A q \in Page : page'[q].state = "unloaded" => page'[q].canvas = Nothing
    BY <1>4, <1>5 DEF ScreenTypeOK
  <2> QED
    BY <1>1, <1>2, <2>1 DEF ScreenTypeOK, display, Readable
<1>7. SocketsAreOwn' /\ PagesReplay' /\ PagesClaim'
  <2>1. ~Open(p)'
    BY <1>4, <1>5 DEF Open
  <2>2. \A q \in Page \ {p} : Open(q) => page[q].socket # page'[p].socket
    BY <1>4, <1>5 DEF SocketsAreOwn
  <2>3. page'[p].session <= session
    BY <1>2, <1>4, <1>5
  <2> QED
    BY <1>1, <1>4, <1>5, <2>1, <2>2, <2>3, PageChange
<1>8. HandlersAreServed'
  BY <1>1, ServedStays DEF display
<1> QED
  BY <1>6, <1>7, <1>8

(* A page takes a socket that nobody uses.                                 *)
LEMMA ConnectHolds ==
  ASSUME ScreenInv, NEW p \in Page, Connect(p)  PROVE ScreenInv'
<1> USE DEF ScreenInv
<1>1. page[p].state = "away" /\ UNCHANGED <<display, viewers, faults>>
  BY DEF Connect
<1>2. PICK s \in Socket :
        /\ handler[s].state = "closed" /\ ~Connected(s)
        /\ handler' = [handler EXCEPT ![s] = [Idle EXCEPT !.state = "upgrading",
             !.session = page[p].session, !.viewer = page[p].viewer]]
        /\ wire' = [wire EXCEPT ![s] = <<>>]
        /\ page' = [page EXCEPT ![p].state = "open", ![p].socket = s]
  BY DEF Connect
<1> DEFINE g == [page[p] EXCEPT !.state = "open", !.socket = s]
           h == [Idle EXCEPT !.state = "upgrading", !.session = page[p].session, !.viewer = page[p].viewer]
<1>3. page[p] \in Viewer /\ s # NoSocket
  BY Places, ScreenAssumption
<1>4. /\ g \in Viewer /\ g.state = "open" /\ g.socket = s /\ g.session = page[p].session
      /\ g.viewer = page[p].viewer /\ g.canvas = page[p].canvas /\ g.canvas \in Canvas
  BY <1>3 DEF Viewer
<1>5. /\ h \in Task /\ h.state = "upgrading" /\ h.session = page[p].session
      /\ h.viewer = page[p].viewer
  <2>1. page[p].session \in Nat /\ page[p].viewer \in Nat
    BY <1>3 DEF Viewer
  <2> QED
    BY <2>1, ScreenFacts DEF Task, Idle
<1>6. /\ page' = [page EXCEPT ![p] = g] /\ page'[p] = g /\ \A q \in Page \ {p} : page'[q] = page[q]
      /\ handler' = [handler EXCEPT ![s] = h] /\ handler'[s] = h
      /\ \A t \in Socket \ {s} : handler'[t] = handler[t]
      /\ wire'[s] = <<>> /\ \A t \in Socket \ {s} : wire'[t] = wire[t]
  BY <1>2 DEF ScreenTypeOK
<1> HIDE DEF g, h
<1>7. ScreenTypeOK'
  <2>1. page' \in [Page -> Viewer] /\ \A q \in Page : page'[q].state = "unloaded" => page'[q].canvas = Nothing
    BY <1>4, <1>6 DEF ScreenTypeOK
  <2>2. handler' \in [Socket -> Task]
    BY <1>5, <1>6 DEF ScreenTypeOK
  <2>3. wire' \in [Socket -> Seq(Message)]
    BY <1>2, EmptySeq DEF ScreenTypeOK
  <2> QED
    BY <1>1, <2>1, <2>2, <2>3 DEF ScreenTypeOK, display, viewers, Readable
<1>8. SocketsAreOwn' /\ PagesReplay' /\ PagesClaim'
  <2>1. Open(p)' /\ page'[p].socket = s /\ page'[p].socket # NoSocket
    BY <1>3, <1>4, <1>6 DEF Open
  <2>2. \A q \in Page \ {p} : Open(q) => page[q].socket # page'[p].socket
    BY <1>2, <2>1 DEF Connected, Open
  <2>3. \A t \in Socket \ {page[p].socket, page'[p].socket} : handler'[t] = handler[t] /\ wire'[t] = wire[t]
    BY <1>6, <2>1
  <2>4. page'[p].session <= session /\ (page'[p].canvas # Nothing => Claimed(p)')
    BY <1>1, <1>4, <1>6 DEF PagesClaim, Claimed, viewers
  <2>5. Replays(page'[p].canvas, wire'[s], handler'[s])
    BY <1>4, <1>5, <1>6, ReplayBegins
  <2>6. \A i \in 1 .. Len(wire'[s]) : FALSE
    BY <1>6
  <2> QED
    BY <1>1, <1>4, <1>5, <1>6, <2>1, <2>2, <2>3, <2>4, <2>5, <2>6, PageChange DEF viewers
<1>9. HandlersAreServed'
  <2>1. \A t \in Socket : Running(t)' => handler'[t] = handler[t]
    BY <1>5, <1>6 DEF Running
  <2> QED
    BY <1>1, <2>1, ServedStays DEF display, viewers
<1> QED
  BY <1>7, <1>8, <1>9

(* A page that has no socket any more shows what it has shown.             *)
LEMMA LeaveHolds ==
  ASSUME ScreenInv, NEW p \in Page, NEW state \in {"away", "stopped", "left"},
         page[p].state # "unloaded",
         page' = [page EXCEPT ![p].state = state, ![p].socket = NoSocket],
         wire' \in [Socket -> Seq(Message)],
         \A t \in Socket \ {page[p].socket} : wire'[t] = wire[t],
         UNCHANGED <<display, viewers, handler>>, faults' \in Nat
  PROVE  ScreenInv'
<1> USE DEF ScreenInv
<1> DEFINE g == [page[p] EXCEPT !.state = state, !.socket = NoSocket]
<1>1. page[p] \in Viewer
  BY Places
<1>2. /\ g \in Viewer /\ g.state = state /\ g.socket = NoSocket /\ g.session = page[p].session
      /\ g.viewer = page[p].viewer /\ g.canvas = page[p].canvas
  BY <1>1 DEF Viewer
<1>3. page' = [page EXCEPT ![p] = g] /\ page'[p] = g /\ \A q \in Page \ {p} : page'[q] = page[q]
  BY DEF ScreenTypeOK
<1> HIDE DEF g
<1>4. ScreenTypeOK'
  <2>1. page' \in [Page -> Viewer] /\ \A q \in Page : page'[q].state = "unloaded" => page'[q].canvas = Nothing
    BY <1>2, <1>3 DEF ScreenTypeOK
  <2> QED
    BY <2>1 DEF ScreenTypeOK, display, viewers, Readable
<1>5. SocketsAreOwn' /\ PagesReplay' /\ PagesClaim'
  <2>1. ~Open(p)' /\ page'[p].socket = NoSocket
    BY <1>2, <1>3 DEF Open
  <2>2. \A q \in Page \ {p} : Open(q) => page[q].socket # page'[p].socket
    BY <2>1 DEF SocketsAreOwn
  <2>3. page'[p].session <= session /\ (page'[p].canvas # Nothing => Claimed(p)')
    BY <1>2, <1>3 DEF PagesClaim, Claimed, viewers
  <2> QED
    BY <1>3, <2>1, <2>2, <2>3, PageChange DEF viewers
<1>6. HandlersAreServed'
  BY ServedStays DEF display, viewers
<1> QED
  BY <1>4, <1>5, <1>6

(* The first message is painted over what the canvas shows, or ends the    *)
(* connection.                                                             *)
LEMMA PaintMessageHolds ==
  ASSUME ScreenInv, NEW p \in Page, PaintMessage(p)  PROVE ScreenInv'
<1> USE DEF ScreenInv
<1> DEFINE s == page[p].socket
           w == wire[s]
           m == Head(w)
<1>1. /\ Open(p) /\ w # <<>> /\ wire' = [wire EXCEPT ![s] = Tail(@)]
      /\ UNCHANGED <<display, viewers, handler, faults>>
  BY DEF PaintMessage, Open
<1>2. s \in Socket /\ w \in Seq(Message) /\ page[p] \in Viewer
  BY <1>1, Places
<1>3. Tail(w) \in Seq(Message) /\ m \in Message /\ Len(w) \in Nat \ {0} /\ m = w[1]
      /\ Len(Tail(w)) = Len(w) - 1 /\ \A i \in 1 .. Len(Tail(w)) : Tail(w)[i] = w[i + 1]
  BY <1>1, <1>2, HeadTailProperties, EmptySeq
<1>4. wire' \in [Socket -> Seq(Message)] /\ wire'[s] = Tail(w)
      /\ \A t \in Socket \ {s} : wire'[t] = wire[t]
  BY <1>1, <1>2, <1>3 DEF ScreenTypeOK
<1>5. faults' \in Nat
  BY <1>1 DEF ScreenTypeOK
<1>6. CASE m = Replaced
  <2>1. page' = [page EXCEPT ![p].state = "stopped", ![p].socket = NoSocket]
    BY <1>6, FrameFacts DEF PaintMessage
  <2> QED
    BY <1>1, <1>4, <1>5, <2>1, LeaveHolds DEF Open
<1>7. CASE m = Gone
  <2>1. page' = [page EXCEPT ![p].state = "away", ![p].socket = NoSocket]
    BY <1>7, FrameFacts DEF PaintMessage
  <2> QED
    BY <1>1, <1>4, <1>5, <2>1, LeaveHolds DEF Open
<1>8. CASE m \notin Ending
  <2> DEFINE next == Paint(m.tiles, page[p].canvas)
             g == [page[p] EXCEPT !.canvas = next]
  <2>1. page' = [page EXCEPT ![p].canvas = next]
    BY <1>8 DEF PaintMessage, Ending
  <2>2. Replays(page[p].canvas, w, handler[s])
    BY <1>1 DEF PagesReplay
  <2>3. next \in Canvas /\ Replays(next, Tail(w), handler[s])
    BY <1>1, <1>2, <1>8, <2>2, ReplayPaints
  <2> HIDE DEF next
  <2>4. /\ g \in Viewer /\ g.state = page[p].state /\ g.socket = s /\ g.session = page[p].session
        /\ g.viewer = page[p].viewer /\ g.canvas = next
    BY <1>2, <2>3 DEF Viewer
  <2>5. page' = [page EXCEPT ![p] = g] /\ page'[p] = g /\ \A q \in Page \ {p} : page'[q] = page[q]
    BY <2>1 DEF ScreenTypeOK
  <2> HIDE DEF g
  <2>6. ScreenTypeOK'
    <3>1. page' \in [Page -> Viewer]
      BY <2>4, <2>5 DEF ScreenTypeOK
    <3>2. \A q \in Page : page'[q].state = "unloaded" => page'[q].canvas = Nothing
      BY <1>1, <2>4, <2>5 DEF ScreenTypeOK, Open
    <3> QED
      BY <1>1, <1>4, <3>1, <3>2 DEF ScreenTypeOK, display, viewers, Readable
  <2>7. SocketsAreOwn' /\ PagesReplay' /\ PagesClaim'
    <3>1. Open(p)' /\ page'[p].socket = s /\ s # NoSocket
      BY <1>1, <1>2, <2>4, <2>5, ScreenAssumption DEF Open
    <3>2. \A q \in Page \ {p} : Open(q) => page[q].socket # page'[p].socket
      BY <1>1, <3>1 DEF SocketsAreOwn
    <3>3. Claimed(p)'
      <4>1. 1 \in 1 .. Len(w) /\ w[1] \notin Ending
        BY <1>3, <1>8
      <4>2. Claimed(p)
        BY <1>1, <4>1 DEF PagesClaim
      <4> QED
        BY <1>1, <2>4, <2>5, <4>2 DEF Claimed, viewers
    <3>4. page'[p].session <= session
      BY <2>4, <2>5 DEF PagesClaim
    <3>5. handler[s].state # "closed" =>
            handler[s].session = page'[p].session /\ handler[s].viewer = page'[p].viewer
      BY <1>1, <2>4, <2>5 DEF PagesClaim
    <3>6. Replays(page'[p].canvas, wire'[s], handler'[s])
      BY <1>1, <1>4, <2>3, <2>4, <2>5
    <3> HIDE DEF s, w, m
    <3> QED
      BY <1>1, <1>4, <2>5, <3>1, <3>2, <3>3, <3>4, <3>5, <3>6, PageChange DEF viewers, s
  <2>8. HandlersAreServed'
    BY <1>1, ServedStays DEF display, viewers
  <2> QED
    BY <2>6, <2>7, <2>8
<1> QED
  BY <1>6, <1>7, <1>8 DEF Ending

(* The viewer is closed.                                                   *)
LEMMA ClosePageHolds ==
  ASSUME ScreenInv, NEW p \in Page, ClosePage(p)  PROVE ScreenInv'
<1>1. wire' \in [Socket -> Seq(Message)] /\ faults' \in Nat
  BY EmptySeq DEF ScreenInv, ScreenTypeOK, ClosePage
<1> QED
  BY <1>1, LeaveHolds DEF ClosePage

(* The connection breaks.                                                  *)
LEMMA BreakConnectionHolds ==
  ASSUME ScreenInv, NEW p \in Page, BreakConnection(p)  PROVE ScreenInv'
<1>1. wire' \in [Socket -> Seq(Message)] /\ faults' \in Nat
  <2>1. <<>> \in Seq(Message)
    BY EmptySeq
  <2>2. wire' = [wire EXCEPT ![page[p].socket] = <<>>] /\ faults' = faults + 1
    BY DEF BreakConnection
  <2>3. faults \in Nat /\ wire \in [Socket -> Seq(Message)]
    BY DEF ScreenInv, ScreenTypeOK
  <2>4. faults' \in Nat
    BY <2>2, <2>3
  <2> QED
    BY <2>1, <2>2, <2>3, <2>4
<1>2. \A t \in Socket \ {page[p].socket} : wire'[t] = wire[t]
  BY DEF ScreenInv, ScreenTypeOK, BreakConnection
<1> QED
  BY <1>1, <1>2, LeaveHolds DEF BreakConnection

(* The program forgets its handlers, and the generations of its pages are  *)
(* those of a session that is over.                                        *)
LEMMA RestartProgramHolds ==
  ASSUME ScreenInv, RestartProgram  PROVE ScreenInv'
<1> USE DEF ScreenInv
<1>1. /\ pixels' = Blank /\ generation' = 0 /\ incoming' = Nothing /\ faults' = faults + 1
      /\ session' = session + 1 /\ nextViewer' = 0 /\ activeViewer' = 0 /\ connection' = 0
      /\ handler' = [s \in Socket |-> Idle] /\ wire' = [s \in Socket |-> <<>>]
      /\ page' = [p \in Page |-> IF page[p].state # "open" THEN page[p]
                                 ELSE [page[p] EXCEPT !.state = "away", !.socket = NoSocket]]
  BY DEF RestartProgram
<1>2. ASSUME NEW p \in Page
      PROVE  /\ page'[p] \in Viewer /\ page'[p].session = page[p].session
             /\ page'[p].canvas = page[p].canvas /\ page'[p].socket = NoSocket
             /\ page'[p].state # "open"
             /\ (page'[p].state = "unloaded" => page[p].state = "unloaded")
  <2>1. page[p] \in Viewer
    BY Places
  <2>2. CASE page[p].state # "open"
    BY <1>1, <2>1, <2>2 DEF SocketsAreOwn, Open
  <2>3. CASE page[p].state = "open"
    <3> DEFINE g == [page[p] EXCEPT !.state = "away", !.socket = NoSocket]
    <3>1. page'[p] = g
      BY <1>1, <2>3
    <3>2. g \in Viewer /\ g.state = "away" /\ g.socket = NoSocket /\ g.session = page[p].session
          /\ g.canvas = page[p].canvas
      BY <2>1 DEF Viewer
    <3> QED
      BY <3>1, <3>2
  <2> QED
    BY <2>2, <2>3
<1>3. ScreenTypeOK'
  <2>1. Idle \in Task
    BY ScreenFacts DEF Idle, Task
  <2>2. <<>> \in Seq(Message)
    BY EmptySeq
  <2>3. incoming' \in Canvas /\ pixels' \in Screen
    BY <1>1, ScreenFacts, ScreenAssumption
  <2>4. page' \in [Page -> Viewer] /\ \A p \in Page : page'[p].state = "unloaded" => page'[p].canvas = Nothing
    BY <1>1, <1>2 DEF ScreenTypeOK
  <2>5. session \in Nat /\ faults \in Nat
    BY DEF ScreenTypeOK
  <2>6. {generation', session', nextViewer', activeViewer', connection', faults'} \subseteq Nat
    <3>1. session' \in Nat /\ faults' \in Nat
      <4>1. session' = session + 1 /\ faults' = faults + 1
        BY <1>1
      <4> QED
        BY <2>5, <4>1
    <3>2. generation' \in Nat /\ nextViewer' \in Nat /\ activeViewer' \in Nat /\ connection' \in Nat
      BY <1>1
    <3> QED
      BY <3>1, <3>2
  <2>7. handler' \in [Socket -> Task] /\ wire' \in [Socket -> Seq(Message)]
    BY <1>1, <2>1, <2>2
  <2> QED
    BY <2>3, <2>4, <2>6, <2>7 DEF ScreenTypeOK
<1>4. \A p \in Page : ~Open(p)'
  BY <1>2 DEF Open
<1>5. SocketsAreOwn' /\ PagesReplay'
  BY <1>2, <1>4 DEF SocketsAreOwn, PagesReplay
<1>6. PagesClaim'
  <2>1. \A p \in Page : page'[p].session <= session' /\ page'[p].session # session'
    <3> TAKE p \in Page
    <3>1. page[p].session \in Nat /\ session \in Nat /\ page[p].session <= session
      BY Places DEF Viewer, ScreenTypeOK, PagesClaim
    <3>2. page'[p].session = page[p].session /\ session' = session + 1
      BY <1>1, <1>2
    <3> QED
      BY <3>1, <3>2
  <2> QED
    BY <1>4, <2>1 DEF PagesClaim, Claimed
<1>7. HandlersAreServed'
  <2>1. \A s \in Socket : ~Running(s)'
    BY <1>1 DEF Running, Idle
  <2> QED
    BY <2>1 DEF HandlersAreServed
<1> QED
  BY <1>3, <1>5, <1>6, <1>7

-----------------------------------------------------------------------------
(* The theorems.                                                           *)

(* Every step keeps the invariant.                                         *)
LEMMA NextHolds == ScreenInv /\ [Next]_vars => ScreenInv'
<1> SUFFICES ASSUME ScreenInv, [Next]_vars  PROVE ScreenInv'
  OBVIOUS
<1>1. CASE UNCHANGED vars
  BY <1>1 DEF vars, display, viewers, ScreenInv, ScreenTypeOK, Readable, SocketsAreOwn, Open,
     HandlersAreServed, Running, Served, PagesReplay, PagesClaim, Claimed
<1>2. ASSUME NEW f \in Screen, BeginCopy(f)  PROVE ScreenInv'
  BY <1>2, BeginCopyHolds
<1>3. CASE EndCopy
  BY <1>3, EndCopyHolds
<1>4. ASSUME NEW s \in Socket, HandlerStep(s)  PROVE ScreenInv'
  BY <1>4, UpgradeHolds, TickHolds, SendHolds, ReplaceHandlerHolds, NoticeClosedHolds DEF HandlerStep
<1>5. ASSUME NEW p \in Page, LoadPage(p) \/ PageStep(p) \/ ClosePage(p) \/ BreakConnection(p)
      PROVE  ScreenInv'
  BY <1>5, LoadPageHolds, ConnectHolds, PaintMessageHolds, ClosePageHolds, BreakConnectionHolds
     DEF PageStep
<1>6. CASE RestartProgram
  BY <1>6, RestartProgramHolds
<1> QED
  BY <1>1, <1>2, <1>3, <1>4, <1>5, <1>6 DEF Next

(* The invariant holds in every state.                                     *)
THEOREM ScreenInvariant == Spec => []ScreenInv
  BY InitHolds, NextHolds, PTL DEF Spec

(* A viewer shows whole screens that the program drew: the lock of the     *)
(* pixels keeps half a copy from the handlers, and what the handler has    *)
(* sent, painted in its order, always ends in the screen that it compares  *)
(* the next one with (ScreenBuffer, stream_screen and the viewer's script).*)
THEOREM ViewersAreWhole == Spec => []ViewersShowWholeScreens
<1>1. ScreenInv => ViewersShowWholeScreens
  BY Places DEF ScreenInv, ViewersShowWholeScreens, Viewer, Canvas
<1> QED
  BY <1>1, ScreenInvariant, PTL

(* A handler that waits for a change, with nothing on its way, has brought *)
(* its page to the pixels of the display (stream_screen takes the number   *)
(* of a screen with its pixels).                                           *)
THEOREM SilentStreamsAreCurrent == Spec => []SilentStreamIsCurrent
<1>1. ScreenInv => SilentStreamIsCurrent
  <2> SUFFICES ASSUME ScreenInv, NEW p \in Page, NEW s, s = page[p].socket,
                      Open(p), handler[s].state = "streaming", wire[s] = <<>>,
                      handler[s].generation = generation, Readable
               PROVE  page[p].canvas = pixels
    BY DEF SilentStreamIsCurrent, Open
  <2>1. s \in Socket /\ Running(s)
    BY Places DEF ScreenInv, Running
  <2>2. handler[s].previous = pixels
    BY <2>1 DEF ScreenInv, HandlersAreServed, Served
  <2>3. Replays(page[p].canvas, <<>>, handler[s])
    BY DEF ScreenInv, PagesReplay
  <2>4. PICK shown \in [0 .. Len(<<>>) -> Canvas] :
          Shows(shown, page[p].canvas, <<>>) /\ Agrees(shown[Len(<<>>)], handler[s])
    BY <2>3 DEF Replays
  <2>5. shown[0] = page[p].canvas /\ Len(<<>>) = 0
    BY <2>4 DEF Shows
  <2>6. shown[0] = handler[s].previous
    BY <2>4, <2>5 DEF Agrees
  <2> QED
    BY <2>2, <2>5, <2>6
<1> QED
  BY <1>1, ScreenInvariant, PTL

(* At most one handler is not on its way out, and it serves no page that   *)
(* is older than one that shows something (claim_viewer_generation and the *)
(* watch channel).                                                         *)
THEOREM NewestViewerWins == Spec => []NewestViewerHoldsTheStream
<1>1. ScreenInv => NewestViewerHoldsTheStream
  <2> SUFFICES ASSUME ScreenInv  PROVE NewestViewerHoldsTheStream
    OBVIOUS
  <2> USE DEF ScreenInv
  <2> DEFINE current == {s \in Socket : Running(s) /\ handler[s].seen = connection}
  <2>1. \A s, t \in current : s = t
    BY DEF HandlersAreServed
  <2>2. Cardinality(current) <= 1
    <3>1. CASE current = {}
      BY <3>1, FS_EmptySet
    <3>2. CASE current # {}
      <4>1. PICK s : s \in current
        BY <3>2
      <4>2. current = {s}
        BY <2>1, <4>1
      <4> HIDE DEF current
      <4> QED
        BY <4>2, FS_Singleton
    <3> QED
      BY <3>1, <3>2
  <2>3. ASSUME NEW s \in current, NEW p \in Page, page[p].session = session, page[p].canvas # Nothing
        PROVE  page[p].viewer <= handler[s].viewer
    <3>1. handler[s].viewer = activeViewer
      BY DEF HandlersAreServed, Served
    <3>2. Claimed(p)
      BY <2>3 DEF PagesClaim
    <3> QED
      BY <2>3, <3>1, <3>2 DEF Claimed
  <2> QED
    BY <2>2, <2>3 DEF NewestViewerHoldsTheStream
<1> QED
  BY <1>1, ScreenInvariant, PTL

=============================================================================
