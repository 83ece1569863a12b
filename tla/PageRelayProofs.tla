--------------------------- MODULE PageRelayProofs ---------------------------
(* Theorems of PageRelay: the types of the relay, its channels and its     *)
(* clients, that no durable command is forgotten, and that the relay       *)
(* implements OrderedLog. They hold for any clients, sockets, capacity and *)
(* number of commands.                                                     *)
EXTENDS PageRelay, SequenceTheorems, FiniteSetTheorems, TLAPS

-----------------------------------------------------------------------------
(* Sequences                                                               *)

(* Append keeps what is there and puts the element at the end.             *)
LEMMA AppendFacts ==
  ASSUME NEW S, NEW s \in Seq(S), NEW e \in S
  PROVE  /\ Append(s, e) \in Seq(S)
         /\ Len(Append(s, e)) = Len(s) + 1
         /\ DOMAIN Append(s, e) = 1 .. Len(s) + 1
         /\ \A i \in DOMAIN s : i \in DOMAIN Append(s, e) /\ Append(s, e)[i] = s[i]
         /\ Append(s, e)[Len(s) + 1] = e
  BY AppendProperties, LenProperties

(* RemoveAt drops one element; the ones behind it move up by one.          *)
LEMMA RemoveAtFacts ==
  ASSUME NEW S, NEW s \in Seq(S), NEW i \in DOMAIN s
  PROVE  /\ RemoveAt(s, i) \in Seq(S)
         /\ DOMAIN RemoveAt(s, i) = 1 .. Len(s) - 1
         /\ \A j \in 1 .. Len(s) - 1 :
              RemoveAt(s, i)[j] = IF j < i THEN s[j] ELSE s[j + 1]
<1> DEFINE front == SubSeq(s, 1, i - 1)
           back  == SubSeq(s, i + 1, Len(s))
<1>1. Len(s) \in Nat /\ i \in 1 .. Len(s) /\ \A j \in 1 .. Len(s) : s[j] \in S
  BY LenProperties, ElementOfSeq
<1>2. front \in Seq(S) /\ Len(front) = i - 1 /\ \A j \in 1 .. i - 1 : front[j] = s[j]
  BY <1>1, SubSeqProperties
<1>3. back \in Seq(S) /\ Len(back) = Len(s) - i
      /\ \A j \in 1 .. Len(s) - i : back[j] = s[i + j]
  BY <1>1, SubSeqProperties
<1>4. RemoveAt(s, i) = front \o back
  BY DEF RemoveAt
<1> HIDE DEF front, back
<1>5. /\ front \o back \in Seq(S)
      /\ Len(front \o back) = Len(front) + Len(back)
      /\ \A j \in 1 .. Len(front) + Len(back) : (front \o back)[j] =
           IF j <= Len(front) THEN front[j] ELSE back[j - Len(front)]
  BY <1>2, <1>3, ConcatProperties
<1>6. Len(front) + Len(back) = Len(s) - 1
  BY <1>1, <1>2, <1>3
<1>7. ASSUME NEW j \in 1 .. Len(s) - 1
      PROVE  (front \o back)[j] = IF j < i THEN s[j] ELSE s[j + 1]
  <2>1. CASE j < i
    <3>1. (front \o back)[j] = front[j]
      BY <1>1, <1>2, <1>5, <1>6, <2>1
    <3> QED
      BY <1>1, <1>2, <2>1, <3>1
  <2>2. CASE ~(j < i)
    <3>1. (front \o back)[j] = back[j - (i - 1)]
      BY <1>1, <1>2, <1>5, <1>6, <2>2
    <3>2. j - (i - 1) \in 1 .. Len(s) - i /\ i + (j - (i - 1)) = j + 1
      BY <1>1, <2>2
    <3> QED
      BY <1>3, <2>2, <3>1, <3>2
  <2> QED
    BY <2>1, <2>2
<1>8. DOMAIN (front \o back) = 1 .. Len(s) - 1
  BY <1>5, <1>6, LenProperties
<1> QED
  BY <1>4, <1>5, <1>7, <1>8

(* The elements of what the operators return.                              *)
LEMMA AppendRange ==
  ASSUME NEW S, NEW s \in Seq(S), NEW e \in S
  PROVE  Append(s, e) \in Seq(S) /\ Range(Append(s, e)) = Range(s) \cup {e}
<1>1. Len(s) \in Nat /\ DOMAIN s = 1 .. Len(s)
  BY LenProperties
<1> QED
  BY <1>1, AppendFacts DEF Range

(* The elements of a tail.                                                 *)
LEMMA TailRange ==
  ASSUME NEW S, NEW s \in Seq(S), s # <<>>
  PROVE  /\ Tail(s) \in Seq(S) /\ Range(Tail(s)) \subseteq Range(s)
         /\ Head(s) \in S /\ Head(s) \in Range(s)
<1>1. Len(s) \in Nat \ {0} /\ DOMAIN s = 1 .. Len(s)
  BY LenProperties, EmptySeq
<1>2. DOMAIN Tail(s) = 1 .. Len(s) - 1 /\ \A i \in 1 .. Len(s) - 1 : Tail(s)[i] = s[i + 1]
  BY <1>1, HeadTailProperties, LenProperties
<1>3. Head(s) = s[1]
  BY <1>1
<1> QED
  BY <1>1, <1>2, <1>3, HeadTailProperties DEF Range

(* The elements of a part of a sequence.                                   *)
LEMMA SubSeqRange ==
  ASSUME NEW S, NEW s \in Seq(S), NEW m \in Nat \ {0}, NEW n \in 0 .. Len(s)
  PROVE  SubSeq(s, m, n) \in Seq(S) /\ Range(SubSeq(s, m, n)) \subseteq Range(s)
<1>1. Len(s) \in Nat /\ DOMAIN s = 1 .. Len(s)
  BY LenProperties
<1>2. \A i \in m .. n : s[i] \in Range(s) /\ s[i] \in S
  BY <1>1, ElementOfSeq DEF Range
<1>3. SubSeq(s, m, n) \in Seq(Range(s)) /\ SubSeq(s, m, n) \in Seq(S)
  BY <1>1, <1>2, SubSeqProperties
<1> QED
  BY <1>3, RangeOfSeq

(* The elements that are left when one is removed.                         *)
LEMMA RemoveAtRange ==
  ASSUME NEW S, NEW s \in Seq(S), NEW i \in DOMAIN s
  PROVE  RemoveAt(s, i) \in Seq(S) /\ Range(s) \subseteq Range(RemoveAt(s, i)) \cup {s[i]}
<1> DEFINE t == RemoveAt(s, i)
<1>1. Len(s) \in Nat /\ DOMAIN s = 1 .. Len(s)
  BY LenProperties
<1>2. /\ t \in Seq(S) /\ DOMAIN t = 1 .. Len(s) - 1
      /\ \A j \in 1 .. Len(s) - 1 : t[j] = IF j < i THEN s[j] ELSE s[j + 1]
  BY RemoveAtFacts
<1> HIDE DEF t
<1>3. ASSUME NEW j \in DOMAIN s, j # i
      PROVE  \E k \in DOMAIN t : t[k] = s[j]
  <2>1. CASE j < i
    BY <1>1, <1>2, <2>1
  <2>2. CASE j > i
    <3>1. j - 1 \in 1 .. Len(s) - 1 /\ ~(j - 1 < i) /\ (j - 1) + 1 = j
      BY <1>1, <2>2
    <3> QED
      BY <1>2, <3>1
  <2> QED
    BY <1>1, <1>3, <2>1, <2>2
<1>4. \A e \in Range(s) : \E j \in DOMAIN s : e = s[j]
  BY DEF Range
<1>5. \A k \in DOMAIN t : t[k] \in Range(t)
  BY DEF Range
<1> QED
  BY <1>2, <1>3, <1>4, <1>5 DEF t

(* A sequence has finitely many elements.                                  *)
LEMMA RangeIsFinite ==
  ASSUME NEW S, NEW s \in Seq(S)
  PROVE  IsFiniteSet(Range(s))
<1>1. Len(s) \in Nat /\ DOMAIN s = 1 .. Len(s)
  BY LenProperties
<1>2. s \in [1 .. Len(s) -> Range(s)]
  BY <1>1, LenProperties DEF Range
<1>3. \A e \in Range(s) : \E i \in 1 .. Len(s) : s[i] = e
  BY <1>1 DEF Range
<1>4. ExistsSurjection(1 .. Len(s), Range(s))
  BY <1>2, <1>3 DEF ExistsSurjection, Surjection
<1> QED
  BY <1>1, <1>4, FS_NatSurjection

-----------------------------------------------------------------------------

-----------------------------------------------------------------------------

ToRelay  == [type : {"Submit"}, command : Command] \cup {Request}
ToClient == [type : {"Welcome", "Snapshot", "Digest"}, page : Seq(Command)]
              \cup [type : {"Applied"}, revision : Nat, command : Command]
              \cup [type : {"Rejected"}, command : Command]

(* Commands and messages go where they belong, and a client has at most    *)
(* one connection. While a stroke is drawn                                 *)
(* there is room for the command that ends it.                             *)
ShareTypeOK   == log \in Seq(Command) /\ disk \in Seq(Command)
ChannelTypeOK ==
  /\ queue \in [Socket -> Seq(ToClient)] /\ wire \in [Socket -> Seq(ToClient)]
  /\ inbox \in [Socket -> Seq(ToRelay)] /\ outbox \in [Client -> Seq(ToRelay)]
HandlerTypeOK ==
  /\ serving \subseteq Socket /\ lagged \subseteq Socket
  /\ begun \in [Socket -> SUBSET Command]
  /\ link \in [Client -> SUBSET Socket]
  /\ \A c \in Client : \A s, t \in link[c] : s = t
ClientTypeOK  ==
  /\ page \in [Client -> Seq(Command)]
  /\ pending \in [Client -> Seq(Command)] /\ minted \in [Client -> Seq(Command)]
  /\ pen \in [Client -> Number] /\ refused \subseteq Command
  /\ \A c \in Client : /\ Len(minted[c]) <= MaxMinted
                       /\ pen[c] # 0 => Len(minted[c]) < MaxMinted
RelayTypeOK   == ShareTypeOK /\ ChannelTypeOK /\ HandlerTypeOK /\ ClientTypeOK

(* What the relay knows is durable is in its file; what it announces it    *)
(* knows; and what a client issued is known to the relay, or the client    *)
(* still waits for its answer, or the answer was a refusal.                *)
LogIsDurable     == \A x \in Range(log) : Durable(x) => x \in Range(disk)
AnswersAreLogged ==
  \A s \in Socket : \A m \in Range(queue[s]) \cup Range(wire[s]) :
    m.type = "Applied" => m.command \in Range(log)
NothingForgotten ==
  \A c \in Client : \A x \in Range(minted[c]) :
    Durable(x) => x \in Range(log) \cup Range(pending[c]) \cup refused
RelayInv == RelayTypeOK /\ LogIsDurable /\ AnswersAreLogged /\ NothingForgotten

-----------------------------------------------------------------------------
(* The helpers.                                                            *)

LEMMA NumberFacts == MaxMinted \in Nat /\ 0 \in Number
BY RelayAssumption DEF Number

LEMMA MessageTypes ==
  /\ \A x \in Command : Submit(x) \in ToRelay /\ Rejected(x) \in ToClient
  /\ Request \in ToRelay
  /\ \A l \in Seq(Command) : Welcome(l) \in ToClient /\ Snapshot(l) \in ToClient
                             /\ Digest(l) \in ToClient
  /\ \A l \in Seq(Command) : \A n \in DOMAIN l :
       Applied(l, n) \in ToClient /\ l[n] \in Command
<1>1. ASSUME NEW l \in Seq(Command), NEW n \in DOMAIN l
      PROVE  n \in Nat /\ l[n] \in Command
  BY LenProperties, ElementOfSeq
<1> QED
  BY <1>1 DEF Submit, Rejected, Welcome, Snapshot, Digest, Applied, ToRelay, ToClient

LEMMA FinishingType == \A x \in Command : Finishing(x) \in Command
BY NumberFacts DEF Finishing, Command, Kind

(* Reply adds at most its message, to one socket.                          *)
LEMMA ReplyFacts ==
  ASSUME ChannelTypeOK, NEW s \in Socket, NEW m \in ToClient, Reply(s, m)
  PROVE  /\ wire' \in [Socket -> Seq(ToClient)]
         /\ \A t \in Socket : Range(wire'[t]) \subseteq Range(wire[t]) \cup {m}
         /\ \A t \in Socket \ {s} : wire'[t] = wire[t]
         /\ Range(wire'[s]) \subseteq Range(wire[s]) \cup {m}
<1>1. Append(wire[s], m) \in Seq(ToClient)
      /\ Range(Append(wire[s], m)) = Range(wire[s]) \cup {m}
  BY AppendRange DEF ChannelTypeOK
<1> QED
  BY <1>1 DEF Reply, ChannelTypeOK

(* A receiver gets nothing but the messages, and may lose some.            *)
LEMMA BroadcastFacts ==
  ASSUME ChannelTypeOK, HandlerTypeOK, NEW messages \in Seq(ToClient),
         NEW receivers \in SUBSET Socket, Broadcast(receivers, messages)
  PROVE  /\ queue' \in [Socket -> Seq(ToClient)] /\ lagged' \subseteq Socket
         /\ \A t \in Socket : Range(queue'[t]) \subseteq Range(queue[t]) \cup Range(messages)
<1> DEFINE all(t) == queue[t] \o messages
<1>1. ASSUME NEW t \in Socket
      PROVE  /\ all(t) \in Seq(ToClient)
             /\ Range(all(t)) = Range(queue[t]) \cup Range(messages)
             /\ Len(all(t)) \in Nat
  BY ConcatProperties, RangeConcatenation, LenProperties DEF ChannelTypeOK
<1>2. ASSUME NEW t \in Socket, Len(all(t)) > Capacity
      PROVE  LET kept == SubSeq(all(t), Len(all(t)) - Capacity + 1, Len(all(t)))
             IN  kept \in Seq(ToClient) /\ Range(kept) \subseteq Range(all(t))
  <2>1. Len(all(t)) - Capacity + 1 \in Nat \ {0} /\ Len(all(t)) \in 0 .. Len(all(t))
    BY <1>1, <1>2, RelayAssumption
  <2> QED
    BY <1>1, <2>1, SubSeqRange
<1>3. <<>> \in Seq(ToClient) /\ Range(<<>>) = {}
  BY EmptySeq DEF Range
<1> HIDE DEF all
<1>4. /\ queue' = [t \in Socket |->
                     IF t \in {r \in receivers : Len(all(r)) > Capacity}
                     THEN SubSeq(all(t), Len(all(t)) - Capacity + 1, Len(all(t)))
                     ELSE IF t \in receivers THEN all(t) ELSE <<>>]
      /\ lagged' = (lagged \cap receivers) \cup {r \in receivers : Len(all(r)) > Capacity}
  BY DEF Broadcast, all
<1> QED
  BY <1>1, <1>2, <1>3, <1>4

(* A handler takes a message off the front of what was sent to it.         *)
LEMMA TakeFacts ==
  ASSUME ChannelTypeOK, NEW s \in Socket, Take(s)
  PROVE  /\ inbox' \in [Socket -> Seq(ToRelay)]
         /\ Head(inbox[s]) \in ToRelay
         /\ Head(inbox[s]) # Request => Head(inbox[s]).command \in Command
<1>1. Tail(inbox[s]) \in Seq(ToRelay) /\ Head(inbox[s]) \in ToRelay
  BY TailRange DEF Take, ChannelTypeOK
<1> QED
  BY <1>1 DEF Take, ChannelTypeOK, ToRelay

(* A client sends what it was given, by one way or the other.              *)
LEMMA SendFacts ==
  ASSUME ChannelTypeOK, NEW c \in Client, NEW messages \in Seq(ToRelay), Send(c, messages)
  PROVE  inbox' \in [Socket -> Seq(ToRelay)] /\ outbox' \in [Client -> Seq(ToRelay)]
<1>1. /\ outbox[c] \o messages \in Seq(ToRelay)
      /\ \A s \in Socket : inbox[s] \o messages \in Seq(ToRelay)
  BY ConcatProperties DEF ChannelTypeOK
<1> QED
  BY <1>1 DEF Send, ChannelTypeOK

LEMMA AskIfType == \A condition : AskIf(condition) \in Seq(ToRelay)
<1>1. <<>> \in Seq(ToRelay) /\ <<Request>> \in Seq(ToRelay)
  BY MessageTypes
<1> QED
  BY <1>1 DEF AskIf

(* What is appended to finish strokes is one commit per stroke.            *)
LEMMA FinishedFacts ==
  ASSUME NEW l \in Seq(Command), NEW B \in SUBSET Command, IsFiniteSet(B),
         NEW order \in SetToSeqs(B)
  PROVE  /\ Finished(l, order) \in Seq(Command)
         /\ Range(l) \subseteq Range(Finished(l, order))
         /\ order \in Seq(B)
         /\ Len(Finished(l, order)) = Len(l) + Len(order)
<1> DEFINE n    == Cardinality(B)
           last == [i \in DOMAIN order |-> Finishing(order[i])]
<1>1. n \in Nat
  BY FS_CardinalityType
<1>2. order \in [1 .. n -> B]
  BY DEF SetToSeqs
<1>3. order \in Seq(B) /\ Len(order) = n
  BY <1>1, <1>2
<1>4. last \in [1 .. n -> Command]
  BY <1>2, FinishingType
<1>5. last \in Seq(Command) /\ Len(last) = n
  BY <1>1, <1>4
<1>6. Finished(l, order) = l \o last
  BY DEF Finished
<1> HIDE DEF last, n
<1>7. /\ l \o last \in Seq(Command) /\ Len(l \o last) = Len(l) + Len(last)
      /\ Range(l \o last) = Range(l) \cup Range(last)
  BY <1>5, ConcatProperties, RangeConcatenation
<1> QED
  BY <1>3, <1>5, <1>6, <1>7

(* The strokes in progress on a page are finitely many of its commands.    *)
LEMMA InProgressFacts ==
  ASSUME NEW l \in Seq(Command), NEW B \in SUBSET InProgress(l)
  PROVE  B \subseteq Command /\ IsFiniteSet(B)
<1>1. B \subseteq Range(l)
  BY DEF InProgress
<1> QED
  BY <1>1, RangeIsFinite, RangeOfSeq, FS_Subset

(* An answer takes one command off what is pending.                        *)
LEMMA WithoutFacts ==
  ASSUME NEW commands \in Seq(Command), NEW x
  PROVE  /\ Without(commands, x) \in Seq(Command)
         /\ Range(commands) \subseteq Range(Without(commands, x)) \cup {x}
<1> DEFINE i == CHOOSE j \in DOMAIN commands : commands[j] = x
<1>1. CASE x \in Range(commands)
  <2>1. i \in DOMAIN commands /\ commands[i] = x
    BY <1>1 DEF Range
  <2>2. Without(commands, x) = RemoveAt(commands, i)
    BY <1>1 DEF Without
  <2> HIDE DEF i
  <2> QED
    BY <2>1, <2>2, RemoveAtRange
<1>2. CASE x \notin Range(commands)
  BY <1>2 DEF Without
<1> QED
  BY <1>1, <1>2

(* Answers stay logged if the log grows and what is new is of the log.     *)
LEMMA AnswersStayLogged ==
  ASSUME AnswersAreLogged, Range(log) \subseteq Range(log'), NEW M,
         \A m \in M : m.type = "Applied" => m.command \in Range(log'),
         \A t \in Socket :
           /\ Range(queue'[t]) \subseteq Range(queue[t]) \cup M
           /\ Range(wire'[t]) \subseteq Range(wire[t]) \cup Range(queue[t]) \cup M
  PROVE  AnswersAreLogged'
BY DEF AnswersAreLogged

(* What the clients have and what was refused is not the relay's to lose.  *)
LEMMA NothingForgottenByRelay ==
  ASSUME NothingForgotten, UNCHANGED <<pending, minted, refused>>,
         \A x \in Range(log) : Durable(x) => x \in Range(log')
  PROVE  NothingForgotten'
BY DEF NothingForgotten

-----------------------------------------------------------------------------
(* The handlers of the relay.                                              *)

(* What all of them leave alone.                                           *)
ClientsUnchanged == UNCHANGED <<link, welcomed, outbox, replica, pending, editor, refused>>

LEMMA ClientsStay == ClientTypeOK /\ ClientsUnchanged => ClientTypeOK'
BY DEF ClientTypeOK, ClientsUnchanged, replica, editor

LEMMA FollowFacts ==
  ASSUME HandlerTypeOK, NEW s \in Socket, NEW x \in Command, Follow(s, x)
  PROVE  begun' \in [Socket -> SUBSET Command]
BY DEF Follow, HandlerTypeOK

(* A new command is announced when it is in the log, and in the file if it *)
(* is durable.                                                             *)
LEMMA AcceptKeepsInv ==
  ASSUME RelayInv, NEW s \in Socket, NEW x \in Command,
         inbox' \in [Socket -> Seq(ToRelay)], ClientsUnchanged,
         AcceptSubmission(s, x)
  PROVE  RelayInv'
<1> USE DEF RelayInv, RelayTypeOK
<1>1. /\ log' \in Seq(Command) /\ Range(log') = Range(log) \cup {x}
      /\ Len(log') \in DOMAIN log' /\ log'[Len(log')] = x
  <2>1. log' = Append(log, x) /\ log \in Seq(Command)
    BY DEF AcceptSubmission, ShareTypeOK
  <2>2. Len(log) \in Nat
    BY <2>1, LenProperties
  <2> QED
    BY <2>1, <2>2, AppendRange, AppendFacts
<1>2. /\ Applied(log', Len(log')) \in ToClient /\ Digest(log') \in ToClient
      /\ Applied(log', Len(log')).command = x /\ Digest(log').type = "Digest"
  <2>1. Applied(log', Len(log')) \in ToClient /\ Digest(log') \in ToClient
    BY <1>1, MessageTypes
  <2> QED
    BY <1>1, <2>1 DEF Applied, Digest
<1> DEFINE M == {Applied(log', Len(log')), Digest(log')}
<1>3. PICK messages \in Seq(ToClient) :
        Range(messages) \subseteq M /\ Broadcast(serving, messages)
  <2> DEFINE a == Applied(log', Len(log'))
             d == Digest(log')
  <2>1. a \in ToClient /\ d \in ToClient
    BY <1>2
  <2> HIDE DEF a, d
  <2>2. /\ <<a, d>> \in Seq(ToClient) /\ Range(<<a, d>>) = {a, d}
        /\ <<a>> \in Seq(ToClient) /\ Range(<<a>>) = {a}
    BY <2>1 DEF Range
  <2>3. Broadcast(serving, <<a, d>>) \/ Broadcast(serving, <<a>>)
    BY DEF AcceptSubmission, a, d
  <2>4. M = {a, d}
    BY DEF a, d
  <2> HIDE DEF M
  <2> QED
    BY <2>2, <2>3, <2>4
<1>4. /\ queue' \in [Socket -> Seq(ToClient)] /\ lagged' \subseteq Socket
      /\ \A t \in Socket : Range(queue'[t]) \subseteq Range(queue[t]) \cup Range(messages)
  BY <1>3, BroadcastFacts DEF HandlerTypeOK
<1>5. ShareTypeOK'
  BY <1>1 DEF AcceptSubmission, ShareTypeOK
<1>6. ChannelTypeOK' /\ HandlerTypeOK'
  BY <1>4, FollowFacts DEF AcceptSubmission, ChannelTypeOK, HandlerTypeOK, ClientsUnchanged
<1>7. ClientTypeOK'
  BY ClientsStay
<1>8. LogIsDurable'
  <2>1. CASE Durable(x)
    BY <2>1 DEF AcceptSubmission, LogIsDurable
  <2>2. CASE ~Durable(x)
    BY <1>1, <2>2 DEF AcceptSubmission, LogIsDurable
  <2> QED
    BY <2>1, <2>2
<1>9. AnswersAreLogged'
  <2>1. \A m \in M : m.type = "Applied" => m.command \in Range(log')
    BY <1>1, <1>2
  <2>2. wire' = wire
    BY DEF AcceptSubmission
  <2> HIDE DEF M
  <2> QED
    BY <1>1, <1>3, <1>4, <2>1, <2>2, AnswersStayLogged
<1>10. NothingForgotten'
  BY <1>1, NothingForgottenByRelay DEF ClientsUnchanged, editor
<1> QED
  BY <1>5, <1>6, <1>7, <1>8, <1>9, <1>10

(* A direct answer of a command that is logged, or that is no answer.      *)
LEMMA ReplyKeepsInv ==
  ASSUME RelayInv, NEW s \in Socket, NEW m \in ToClient,
         m.type = "Applied" => m.command \in Range(log), Reply(s, m),
         inbox' \in [Socket -> Seq(ToRelay)], begun' \in [Socket -> SUBSET Command],
         UNCHANGED <<share, serving, queue, lagged>>, ClientsUnchanged
  PROVE  RelayInv'
<1> USE DEF RelayInv, RelayTypeOK
<1>1. /\ wire' \in [Socket -> Seq(ToClient)]
      /\ \A t \in Socket : Range(wire'[t]) \subseteq Range(wire[t]) \cup {m}
  BY ReplyFacts
<1>2. ShareTypeOK' /\ ChannelTypeOK' /\ HandlerTypeOK' /\ ClientTypeOK'
  BY <1>1, ClientsStay
     DEF ShareTypeOK, ChannelTypeOK, HandlerTypeOK, ClientsUnchanged, share
<1>3. LogIsDurable' /\ NothingForgotten'
  BY NothingForgottenByRelay DEF LogIsDurable, ClientsUnchanged, share, editor
<1>4. AnswersAreLogged'
  BY <1>1, AnswersStayLogged DEF share
<1> QED
  BY <1>2, <1>3, <1>4

LEMMA ProcessKeepsInv == ASSUME RelayInv, NEW s \in Socket, Process(s)  PROVE RelayInv'
<1> USE DEF RelayInv, RelayTypeOK
<1>1. /\ inbox' \in [Socket -> Seq(ToRelay)]
      /\ Head(inbox[s]) # Request => Head(inbox[s]).command \in Command
  BY TakeFacts DEF Process
<1>2. ClientsUnchanged
  BY DEF Process, ClientsUnchanged
<1>3. ASSUME NEW x \in Command, AcceptSubmission(s, x)
      PROVE  RelayInv'
  BY <1>1, <1>2, <1>3, AcceptKeepsInv
<1>4. ASSUME NEW x \in Command, RepeatAnswer(s, x)
      PROVE  RelayInv'
  <2>1. PICK n \in DOMAIN log : log[n] = x /\ Reply(s, Applied(log, n))
    BY <1>4 DEF RepeatAnswer
  <2>2. /\ Applied(log, n) \in ToClient /\ Applied(log, n).command = log[n]
        /\ log[n] \in Range(log)
    BY MessageTypes DEF Applied, Range, ShareTypeOK
  <2>3. begun' \in [Socket -> SUBSET Command] /\ UNCHANGED <<share, serving, queue, lagged>>
    BY <1>4, FollowFacts DEF RepeatAnswer
  <2> QED
    BY <1>1, <1>2, <2>1, <2>2, <2>3, ReplyKeepsInv
<1>5. ASSUME NEW x \in Command, RefuseSubmission(s, x)
      PROVE  RelayInv'
  <2>1. Rejected(x) \in ToClient /\ Rejected(x).type # "Applied" /\ Reply(s, Rejected(x))
    BY <1>5, MessageTypes DEF Rejected, RefuseSubmission
  <2>2. begun' \in [Socket -> SUBSET Command] /\ UNCHANGED <<share, serving, queue, lagged>>
    BY <1>5 DEF RefuseSubmission, relay, HandlerTypeOK
  <2> QED
    BY <1>1, <1>2, <2>1, <2>2, ReplyKeepsInv
<1>6. CASE Reply(s, Snapshot(log)) /\ UNCHANGED <<share, relay>>
  <2>1. Snapshot(log) \in ToClient /\ Snapshot(log).type # "Applied"
    BY MessageTypes DEF Snapshot, ShareTypeOK
  <2>2. begun' \in [Socket -> SUBSET Command] /\ UNCHANGED <<share, serving, queue, lagged>>
    BY <1>6 DEF relay, HandlerTypeOK
  <2> QED
    BY <1>1, <1>2, <1>6, <2>1, <2>2, ReplyKeepsInv
<1>7. \/ \E x \in Command : AcceptSubmission(s, x) \/ RepeatAnswer(s, x) \/ RefuseSubmission(s, x)
      \/ Reply(s, Snapshot(log)) /\ UNCHANGED <<share, relay>>
  BY <1>1 DEF Process
<1> QED
  BY <1>3, <1>4, <1>5, <1>6, <1>7

(* A write that fails leaves at least what was in the file.                *)
LEMMA FailWriteKeepsInv == ASSUME RelayInv, NEW s \in Socket, FailWrite(s)  PROVE RelayInv'
<1> USE DEF RelayInv, RelayTypeOK
<1> DEFINE x == Head(inbox[s]).command
<1>1. inbox' \in [Socket -> Seq(ToRelay)] /\ x \in Command
  BY TakeFacts DEF FailWrite
<1> HIDE DEF x
<1>2. FailSubmission(s, x) /\ ClientsUnchanged
  BY DEF FailWrite, ClientsUnchanged, x
<1>3. Rejected(x) \in ToClient /\ Rejected(x).type # "Applied" /\ Reply(s, Rejected(x))
  BY <1>1, <1>2, MessageTypes DEF Rejected, FailSubmission
<1>4. /\ wire' \in [Socket -> Seq(ToClient)]
      /\ \A t \in Socket : Range(wire'[t]) \subseteq Range(wire[t]) \cup {Rejected(x)}
  BY <1>3, ReplyFacts
<1>5. /\ disk' \in Seq(Command) /\ Range(log) \subseteq Range(log')
      /\ Range(disk') = Range(disk) \/ Range(disk') = Range(log) \cup {x}
  <2>1. Append(log, x) \in Seq(Command) /\ Range(Append(log, x)) = Range(log) \cup {x}
    BY <1>1, AppendRange DEF ShareTypeOK
  <2>2. log' = log /\ (disk' = disk \/ disk' = Append(log, x))
    BY <1>2 DEF FailSubmission
  <2> QED
    BY <2>1, <2>2 DEF ShareTypeOK
<1>6. ShareTypeOK' /\ ChannelTypeOK' /\ HandlerTypeOK' /\ ClientTypeOK'
  BY <1>1, <1>2, <1>4, <1>5, ClientsStay
     DEF ShareTypeOK, ChannelTypeOK, HandlerTypeOK, ClientsUnchanged, FailSubmission, relay
<1>7. LogIsDurable'
  BY <1>2, <1>5 DEF LogIsDurable, FailSubmission
<1>8. AnswersAreLogged'
  BY <1>2, <1>3, <1>4, <1>5, AnswersStayLogged DEF FailSubmission, relay
<1>9. NothingForgotten'
  BY <1>2, <1>5, NothingForgottenByRelay DEF ClientsUnchanged, editor
<1> QED
  BY <1>6, <1>7, <1>8, <1>9

(* What a handler forwards was announced.                                  *)
LEMMA ForwardKeepsInv == ASSUME RelayInv, NEW s \in Socket, Forward(s)  PROVE RelayInv'
<1> USE DEF RelayInv, RelayTypeOK
<1>1. ClientsUnchanged /\ UNCHANGED <<share, serving, begun, inbox>>
  BY DEF Forward, ClientsUnchanged
<1>2. \E m \in ToClient :
        /\ Reply(s, m)
        /\ m.type = "Applied" => m.command \in Range(log)
        /\ queue' \in [Socket -> Seq(ToClient)] /\ lagged' \subseteq Socket
        /\ \A t \in Socket : Range(queue'[t]) \subseteq Range(queue[t])
  <2>1. CASE s \in lagged
    <3>1. Snapshot(log) \in ToClient /\ Snapshot(log).type # "Applied"
      BY MessageTypes DEF Snapshot, ShareTypeOK
    <3> QED
      BY <2>1, <3>1 DEF Forward, ChannelTypeOK, HandlerTypeOK
  <2>2. CASE s \notin lagged
    <3>1. queue[s] # <<>> /\ queue[s] \in Seq(ToClient)
      BY <2>2 DEF Forward, ChannelTypeOK
    <3>2. /\ Tail(queue[s]) \in Seq(ToClient) /\ Range(Tail(queue[s])) \subseteq Range(queue[s])
          /\ Head(queue[s]) \in ToClient /\ Head(queue[s]) \in Range(queue[s])
      BY <3>1, TailRange
    <3>3. queue' = [queue EXCEPT ![s] = Tail(@)] /\ lagged' = lagged /\ Reply(s, Head(queue[s]))
      BY <2>2 DEF Forward
    <3>4. Head(queue[s]).type = "Applied" => Head(queue[s]).command \in Range(log)
      BY <3>2 DEF AnswersAreLogged
    <3>5. /\ queue' \in [Socket -> Seq(ToClient)] /\ lagged' \subseteq Socket
          /\ \A t \in Socket : Range(queue'[t]) \subseteq Range(queue[t])
      BY <3>2, <3>3 DEF ChannelTypeOK, HandlerTypeOK
    <3> QED
      BY <3>2, <3>3, <3>4, <3>5
  <2> QED
    BY <2>1, <2>2
<1>3. PICK m \in ToClient :
        /\ Reply(s, m)
        /\ m.type = "Applied" => m.command \in Range(log)
        /\ queue' \in [Socket -> Seq(ToClient)] /\ lagged' \subseteq Socket
        /\ \A t \in Socket : Range(queue'[t]) \subseteq Range(queue[t])
  BY <1>2
<1>4. /\ wire' \in [Socket -> Seq(ToClient)]
      /\ \A t \in Socket : Range(wire'[t]) \subseteq Range(wire[t]) \cup {m}
  BY <1>3, ReplyFacts
<1>5. ShareTypeOK' /\ ChannelTypeOK' /\ HandlerTypeOK' /\ ClientTypeOK'
  BY <1>1, <1>3, <1>4, ClientsStay
     DEF ShareTypeOK, ChannelTypeOK, HandlerTypeOK, ClientsUnchanged, share
<1>6. LogIsDurable' /\ NothingForgotten'
  BY <1>1, NothingForgottenByRelay DEF LogIsDurable, ClientsUnchanged, share, editor
<1>7. AnswersAreLogged'
  BY <1>1, <1>3, <1>4, AnswersStayLogged DEF share
<1> QED
  BY <1>5, <1>6, <1>7

(* The repair of a closed connection is announced when it is in the file.  *)
LEMMA CloseKeepsInv == ASSUME RelayInv, NEW s \in Socket, Close(s)  PROVE RelayInv'
<1> USE DEF RelayInv, RelayTypeOK
<1>1. /\ ClientsUnchanged /\ wire' = wire /\ serving' \in SUBSET Socket
      /\ begun' \in [Socket -> SUBSET Command] /\ inbox' \in [Socket -> Seq(ToRelay)]
  BY EmptySeq DEF Close, ClientsUnchanged, HandlerTypeOK, ChannelTypeOK
<1>2. PICK order \in SetToSeqs(begun[s] \cap InProgress(log)) :
       \/ /\ order # <<>>
          /\ log' = Finished(log, order) /\ disk' = log'
          /\ Broadcast(serving', [i \in DOMAIN order |-> Applied(log', Len(log) + i)]
                                   \o <<Digest(log')>>)
       \/ /\ disk' \in {disk, Finished(log, order)} /\ UNCHANGED log
          /\ Broadcast(serving', <<>>)
  BY DEF Close
<1>3. /\ Finished(log, order) \in Seq(Command)
      /\ Range(log) \subseteq Range(Finished(log, order))
      /\ Len(Finished(log, order)) = Len(log) + Len(order)
      /\ order \in Seq(begun[s] \cap InProgress(log))
  BY InProgressFacts, FinishedFacts DEF ShareTypeOK
<1>4. ShareTypeOK' /\ LogIsDurable' /\ Range(log) \subseteq Range(log')
  BY <1>2, <1>3 DEF ShareTypeOK, LogIsDurable
<1>5. PICK messages \in Seq(ToClient) :
        /\ Broadcast(serving', messages)
        /\ \A m \in Range(messages) : m.type = "Applied" => m.command \in Range(log')
  <2>1. CASE Broadcast(serving', <<>>)
    <3>1. <<>> \in Seq(ToClient) /\ Range(<<>>) = {}
      BY EmptySeq DEF Range
    <3> QED
      BY <2>1, <3>1
  <2>2. CASE /\ log' = Finished(log, order)
             /\ Broadcast(serving', [i \in DOMAIN order |-> Applied(log', Len(log) + i)]
                                      \o <<Digest(log')>>)
    <3> DEFINE first == [i \in DOMAIN order |-> Applied(log', Len(log) + i)]
               d     == Digest(log')
    <3>1. /\ Len(order) \in Nat /\ DOMAIN order = 1 .. Len(order) /\ Len(log) \in Nat
          /\ DOMAIN log' = 1 .. Len(log) + Len(order)
      BY <1>3, <2>2, LenProperties DEF ShareTypeOK
    <3>2. \A i \in 1 .. Len(order) : Len(log) + i \in DOMAIN log'
      BY <3>1
    <3>3. ASSUME NEW i \in 1 .. Len(order)
          PROVE  /\ Applied(log', Len(log) + i) \in ToClient
                 /\ Applied(log', Len(log) + i).command \in Range(log')
      <4>1. Applied(log', Len(log) + i) \in ToClient
        BY <1>4, <3>2, MessageTypes DEF ShareTypeOK
      <4>2. Applied(log', Len(log) + i).command = log'[Len(log) + i]
        BY DEF Applied
      <4> QED
        BY <3>2, <4>1, <4>2 DEF Range
    <3>4. /\ first \in [1 .. Len(order) -> ToClient]
          /\ \A m \in Range(first) : m.command \in Range(log')
      BY <3>1, <3>3 DEF Range
    <3>5. d \in ToClient /\ d.type # "Applied"
      BY <1>4, MessageTypes DEF Digest, ShareTypeOK
    <3> DEFINE second == <<d>>
    <3> HIDE DEF first, d
    <3>6. first \in Seq(ToClient) /\ second \in Seq(ToClient) /\ Range(second) = {d}
      BY <3>1, <3>4, <3>5 DEF Range
    <3>7. Broadcast(serving', first \o second)
      BY <2>2 DEF first, second, d
    <3> HIDE DEF second
    <3>8. first \o second \in Seq(ToClient) /\ Range(first \o second) = Range(first) \cup {d}
      BY <3>6, ConcatProperties, RangeConcatenation
    <3> QED
      BY <3>4, <3>5, <3>7, <3>8
  <2> QED
    BY <1>2, <2>1, <2>2
<1>6. /\ queue' \in [Socket -> Seq(ToClient)] /\ lagged' \subseteq Socket
      /\ \A t \in Socket : Range(queue'[t]) \subseteq Range(queue[t]) \cup Range(messages)
  BY <1>1, <1>5, BroadcastFacts
<1>7. ChannelTypeOK' /\ HandlerTypeOK' /\ ClientTypeOK'
  BY <1>1, <1>6, ClientsStay DEF ChannelTypeOK, HandlerTypeOK, ClientsUnchanged
<1>8. AnswersAreLogged'
  BY <1>1, <1>4, <1>5, <1>6, AnswersStayLogged
<1>9. NothingForgotten'
  BY <1>1, <1>4, NothingForgottenByRelay DEF ClientsUnchanged, editor
<1> QED
  BY <1>4, <1>7, <1>8, <1>9

(* A restart forgets every message, and of the log what is not durable.    *)
LEMMA CrashKeepsInv == ASSUME RelayInv, Crash  PROVE RelayInv'
<1> USE DEF RelayInv, RelayTypeOK
<1>1. /\ disk' = log' /\ log' \in Seq(Command) /\ Range(disk) \subseteq Range(log')
  <2>1. PICK order \in SetToSeqs(InProgress(disk)) : log' = Finished(disk, order)
    BY DEF Crash
  <2>2. disk \in Seq(Command) /\ InProgress(disk) \in SUBSET InProgress(disk)
    BY DEF ShareTypeOK
  <2> QED
    BY <2>1, <2>2, InProgressFacts, FinishedFacts DEF Crash
<1>2. ShareTypeOK' /\ LogIsDurable'
  BY <1>1 DEF ShareTypeOK, LogIsDurable
<1>3. /\ queue' = [t \in Socket |-> <<>>] /\ wire' = [t \in Socket |-> <<>>]
      /\ inbox' = [t \in Socket |-> <<>>] /\ Range(<<>>) = {}
  BY DEF Crash, Range
<1>4. ChannelTypeOK' /\ HandlerTypeOK' /\ AnswersAreLogged'
  BY <1>3, EmptySeq DEF ChannelTypeOK, HandlerTypeOK, AnswersAreLogged, Crash
<1>5. ClientTypeOK'
  BY DEF Crash, ClientTypeOK, replica, editor
<1>6. \A x \in Range(log) : Durable(x) => x \in Range(log')
  BY <1>1 DEF LogIsDurable
<1>7. NothingForgotten'
  BY <1>6, NothingForgottenByRelay DEF Crash, editor
<1> QED
  BY <1>2, <1>4, <1>5, <1>7

-----------------------------------------------------------------------------
(* The connections.                                                        *)

LEMMA ConnectKeepsInv ==
  ASSUME RelayInv, NEW c \in Client, NEW s \in Socket, Connect(c, s)  PROVE RelayInv'
<1> USE DEF RelayInv, RelayTypeOK
<1> DEFINE w == Welcome(log)
<1>1. w \in ToClient /\ w.type # "Applied"
  BY MessageTypes DEF Welcome, ShareTypeOK
<1>2. wire' = [wire EXCEPT ![s] = <<w>>]
  BY DEF Connect
<1> HIDE DEF w
<1>3. <<w>> \in Seq(ToClient) /\ Range(<<w>>) = {w}
  BY <1>1 DEF Range
<1>4. /\ wire' \in [Socket -> Seq(ToClient)]
      /\ \A t \in Socket : Range(wire'[t]) \subseteq Range(wire[t]) \cup {w}
  BY <1>2, <1>3 DEF ChannelTypeOK
<1>5. ShareTypeOK' /\ ChannelTypeOK' /\ HandlerTypeOK' /\ ClientTypeOK'
  BY <1>4 DEF Connect, ShareTypeOK, ChannelTypeOK, HandlerTypeOK, ClientTypeOK,
              share, replica, editor
<1>6. LogIsDurable' /\ NothingForgotten'
  BY NothingForgottenByRelay DEF Connect, LogIsDurable, share, editor
<1>7. AnswersAreLogged'
  BY <1>1, <1>4, AnswersStayLogged DEF Connect, share
<1> QED
  BY <1>5, <1>6, <1>7

LEMMA DropKeepsInv == ASSUME RelayInv, NEW c \in Client, Drop(c)  PROVE RelayInv'
<1> USE DEF RelayInv, RelayTypeOK
<1>1. PICK s \in link[c] : \E n \in 0 .. Len(inbox[s]) :
        /\ inbox' = [inbox EXCEPT ![s] = SubSeq(@, 1, n)]
        /\ wire' = [wire EXCEPT ![s] = <<>>]
  BY DEF Drop
<1>2. s \in Socket
  BY DEF HandlerTypeOK
<1>3. \A n \in 0 .. Len(inbox[s]) : SubSeq(inbox[s], 1, n) \in Seq(ToRelay)
  BY <1>2, SubSeqRange DEF ChannelTypeOK
<1>4. <<>> \in Seq(ToClient) /\ Range(<<>>) = {}
  BY EmptySeq DEF Range
<1>5. /\ wire' \in [Socket -> Seq(ToClient)]
      /\ \A t \in Socket : Range(wire'[t]) \subseteq Range(wire[t])
  BY <1>1, <1>4 DEF ChannelTypeOK
<1>6. ShareTypeOK' /\ ChannelTypeOK' /\ HandlerTypeOK' /\ ClientTypeOK'
  BY <1>1, <1>2, <1>3, <1>5 DEF Drop, ShareTypeOK, ChannelTypeOK, HandlerTypeOK, ClientTypeOK,
              share, relay, replica, editor
<1>7. LogIsDurable' /\ NothingForgotten'
  BY NothingForgottenByRelay DEF Drop, LogIsDurable, share, editor
<1>8. AnswersAreLogged'
  BY <1>5 DEF AnswersAreLogged, Drop, share, relay
<1> QED
  BY <1>6, <1>7, <1>8

LEMMA TransmitKeepsInv == ASSUME RelayInv, NEW c \in Client, Transmit(c)  PROVE RelayInv'
<1> USE DEF RelayInv, RelayTypeOK
<1>1. Tail(outbox[c]) \in Seq(ToRelay) /\ Head(outbox[c]) \in ToRelay
  BY TailRange DEF Transmit, ChannelTypeOK
<1>2. PICK s \in link[c] : inbox' = [inbox EXCEPT ![s] = Append(@, Head(outbox[c]))]
  BY DEF Transmit
<1>3. s \in Socket /\ Append(inbox[s], Head(outbox[c])) \in Seq(ToRelay)
  BY <1>1, AppendRange DEF HandlerTypeOK, ChannelTypeOK
<1>4. ShareTypeOK' /\ ChannelTypeOK' /\ HandlerTypeOK' /\ ClientTypeOK'
  BY <1>1, <1>2, <1>3 DEF Transmit, ShareTypeOK, ChannelTypeOK, HandlerTypeOK, ClientTypeOK,
              share, relay, replica, editor
<1>5. LogIsDurable' /\ NothingForgotten' /\ AnswersAreLogged'
  BY NothingForgottenByRelay DEF Transmit, LogIsDurable, AnswersAreLogged, share, relay, editor
<1> QED
  BY <1>4, <1>5

-----------------------------------------------------------------------------
(* The editor.                                                             *)

(* A command that is issued is pending.                                    *)
LEMMA IssueKeepsInv ==
  ASSUME RelayInv, NEW c \in Client, NEW x \in Command, Issue(c, x),
         Len(minted[c]) < MaxMinted, pen' \in [Client -> Number],
         \A d \in Client \ {c} : pen'[d] = pen[d],
         pen'[c] # 0 => Len(minted[c]) + 1 < MaxMinted
  PROVE  RelayInv'
<1> USE DEF RelayInv, RelayTypeOK
<1>1. /\ Append(minted[c], x) \in Seq(Command)
      /\ Range(Append(minted[c], x)) = Range(minted[c]) \cup {x}
      /\ Len(Append(minted[c], x)) = Len(minted[c]) + 1 /\ Len(minted[c]) \in Nat
      /\ Append(pending[c], x) \in Seq(Command)
      /\ Range(Append(pending[c], x)) = Range(pending[c]) \cup {x}
  BY AppendRange, AppendFacts, LenProperties DEF ClientTypeOK
<1>2. minted' = [minted EXCEPT ![c] = Append(@, x)] /\ pending' = [pending EXCEPT ![c] = Append(@, x)]
  BY DEF Issue
<1>3. <<Submit(x)>> \in Seq(ToRelay)
  <2>1. Submit(x) \in ToRelay
    BY MessageTypes
  <2> QED
    BY <2>1
<1>4. inbox' \in [Socket -> Seq(ToRelay)] /\ outbox' \in [Client -> Seq(ToRelay)]
  BY <1>3, SendFacts DEF Issue
<1>5. ClientTypeOK'
  <2>1. minted' \in [Client -> Seq(Command)] /\ pending' \in [Client -> Seq(Command)]
    BY <1>1, <1>2 DEF ClientTypeOK
  <2>2. ASSUME NEW d \in Client
        PROVE  /\ Len(minted'[d]) <= MaxMinted
               /\ pen'[d] # 0 => Len(minted'[d]) < MaxMinted
    <3>1. CASE d = c
      BY <1>1, <1>2, <3>1, NumberFacts DEF ClientTypeOK
    <3>2. CASE d # c
      BY <1>2, <3>2 DEF ClientTypeOK
    <3> QED
      BY <3>1, <3>2
  <2> QED
    BY <2>1, <2>2 DEF ClientTypeOK, Issue, replica
<1>6. ShareTypeOK' /\ ChannelTypeOK' /\ HandlerTypeOK'
  BY <1>4 DEF Issue, ShareTypeOK, ChannelTypeOK, HandlerTypeOK, share, relay
<1>7. LogIsDurable' /\ AnswersAreLogged'
  BY DEF Issue, LogIsDurable, AnswersAreLogged, share, relay
<1>8. NothingForgotten'
  <2>1. /\ Range(minted'[c]) = Range(minted[c]) \cup {x}
        /\ Range(pending'[c]) = Range(pending[c]) \cup {x}
        /\ \A d \in Client \ {c} : minted'[d] = minted[d] /\ pending'[d] = pending[d]
    BY <1>1, <1>2 DEF ClientTypeOK
  <2> QED
    BY <2>1 DEF NothingForgotten, Issue, share
<1> QED
  BY <1>5, <1>6, <1>7, <1>8

LEMMA MintType ==
  ASSUME ClientTypeOK, NEW c \in Client, Len(minted[c]) < MaxMinted, NEW kind \in Kind,
         NEW stroke \in Number, kind = "begin" => stroke = Len(minted[c]) + 1
  PROVE  Mint(c, kind, stroke) \in Command
<1>1. Len(minted[c]) + 1 \in Number
  BY LenProperties, NumberFacts DEF ClientTypeOK, Number
<1> QED
  BY <1>1 DEF Mint, Command

LEMMA DrawKeepsInv == ASSUME RelayInv, Draw  PROVE RelayInv'
<1> USE DEF RelayInv, RelayTypeOK
<1>1. \A c \in Client : /\ Len(minted[c]) \in Nat /\ MaxMinted \in Nat
                        /\ Room(c) => Len(minted[c]) + 1 < MaxMinted
  BY NumberFacts, LenProperties DEF ClientTypeOK, Room
<1>2. ASSUME NEW c \in Client, BeginStroke(c)
      PROVE  RelayInv'
  <2>1. Len(minted[c]) + 1 \in Number /\ Len(minted[c]) < MaxMinted
    BY <1>1, <1>2 DEF BeginStroke, Number
  <2>2. Mint(c, "begin", Len(minted[c]) + 1) \in Command
    BY <2>1, MintType DEF Kind
  <2> QED
    BY <1>1, <1>2, <2>1, <2>2, IssueKeepsInv DEF BeginStroke, ClientTypeOK
<1>3. ASSUME NEW c \in Client, EndStroke(c)
      PROVE  RelayInv'
  <2>1. PICK kind \in {"commit", "cancel"} : Issue(c, Mint(c, kind, pen[c]))
    BY <1>3 DEF EndStroke
  <2>2. Len(minted[c]) < MaxMinted /\ pen[c] \in Number
    BY <1>3 DEF EndStroke, ClientTypeOK
  <2>3. Mint(c, kind, pen[c]) \in Command
    BY <2>2, MintType DEF Kind
  <2>4. pen' = [pen EXCEPT ![c] = 0]
    BY <1>3 DEF EndStroke
  <2> QED
    BY <2>1, <2>2, <2>3, <2>4, IssueKeepsInv, NumberFacts DEF ClientTypeOK
<1>4. ASSUME NEW c \in Client, Edit(c)
      PROVE  RelayInv'
  <2>1. Len(minted[c]) < MaxMinted /\ (pen[c] # 0 => Len(minted[c]) + 1 < MaxMinted)
    BY <1>1, <1>4 DEF Edit
  <2>2. Mint(c, "edit", 0) \in Command
    BY <2>1, MintType, NumberFacts DEF Kind
  <2> QED
    BY <1>4, <2>1, <2>2, IssueKeepsInv DEF Edit, ClientTypeOK
<1> QED
  BY <1>2, <1>3, <1>4 DEF Draw

-----------------------------------------------------------------------------
(* What a client does with a message of the relay.                         *)

(* The message is one that was sent, and it is gone.                       *)
LEMMA ReceiveFacts ==
  ASSUME RelayInv, NEW c \in Client, NEW type, NEW m, Receive(c, type, m)
  PROVE  /\ m \in ToClient /\ m.type = type
         /\ m.type = "Applied" => m.command \in Range(log)
         /\ wire' \in [Socket -> Seq(ToClient)]
         /\ ShareTypeOK' /\ HandlerTypeOK' /\ LogIsDurable' /\ AnswersAreLogged'
<1> USE DEF RelayInv, RelayTypeOK
<1>1. PICK s \in link[c] : wire[s] # <<>> /\ Head(wire[s]) = m
  BY DEF Receive
<1>2. s \in Socket /\ link[c] = {s}
  BY DEF HandlerTypeOK
<1>3. /\ Tail(wire[s]) \in Seq(ToClient) /\ Range(Tail(wire[s])) \subseteq Range(wire[s])
      /\ m \in ToClient /\ m \in Range(wire[s])
  BY <1>1, <1>2, TailRange DEF ChannelTypeOK
<1>4. wire' = [t \in Socket |-> IF t \in link[c] THEN Tail(wire[t]) ELSE wire[t]]
  BY DEF Receive
<1>5. /\ wire' \in [Socket -> Seq(ToClient)]
      /\ \A t \in Socket : Range(wire'[t]) \subseteq Range(wire[t])
  BY <1>2, <1>3, <1>4 DEF ChannelTypeOK
<1>6. m.type = "Applied" => m.command \in Range(log)
  BY <1>2, <1>3 DEF AnswersAreLogged
<1>7. ShareTypeOK' /\ HandlerTypeOK' /\ LogIsDurable' /\ AnswersAreLogged'
  BY <1>5 DEF Receive, ShareTypeOK, HandlerTypeOK, LogIsDurable, AnswersAreLogged, share, relay
<1> QED
  BY <1>3, <1>5, <1>6, <1>7 DEF Receive

(* So a handler keeps the invariant if its messages are messages and it    *)
(* takes off what is pending no more than what was logged or refused.      *)
LEMMA HandlerKeepsInv ==
  ASSUME RelayInv, NEW c \in Client, NEW type, NEW m, Receive(c, type, m),
         NEW messages \in Seq(ToRelay), Send(c, messages),
         ClientTypeOK', NothingForgotten'
  PROVE  RelayInv'
<1> USE DEF RelayInv, RelayTypeOK
<1>1. /\ wire' \in [Socket -> Seq(ToClient)]
      /\ ShareTypeOK' /\ HandlerTypeOK' /\ LogIsDurable' /\ AnswersAreLogged'
  BY ReceiveFacts
<1>2. inbox' \in [Socket -> Seq(ToRelay)] /\ outbox' \in [Client -> Seq(ToRelay)]
  BY SendFacts
<1>3. ChannelTypeOK'
  BY <1>1, <1>2 DEF ChannelTypeOK, Receive, relay
<1> QED
  BY <1>1, <1>3

LEMMA PendingMessagesType ==
  ASSUME NEW commands \in Seq(Command)
  PROVE  PendingMessages(commands) \in Seq(ToRelay)
<1>1. Len(commands) \in Nat /\ commands \in [1 .. Len(commands) -> Command]
      /\ DOMAIN commands = 1 .. Len(commands)
  BY LenProperties
<1>2. PendingMessages(commands) \in [1 .. Len(commands) -> ToRelay]
  BY <1>1, MessageTypes DEF PendingMessages
<1> QED
  BY <1>1, <1>2

LEMMA WelcomeKeepsInv ==
  ASSUME RelayInv, NEW c \in Client, NEW m, ReceiveWelcome(c, m)  PROVE RelayInv'
<1> USE DEF RelayInv, RelayTypeOK
<1> DEFINE cancels == UnfinishedStrokeCancellation(c)
<1>1. Receive(c, "Welcome", m)
  BY DEF ReceiveWelcome
<1>2. m \in ToClient /\ m.type = "Welcome" /\ UNCHANGED share
  BY <1>1, ReceiveFacts DEF Receive
<1>3. m.page \in Seq(Command)
  BY <1>2 DEF ToClient
<1>4. /\ minted[c] \in Seq(Command) /\ Len(minted[c]) \in Nat /\ pending[c] \in Seq(Command)
      /\ Len(minted[c]) <= MaxMinted /\ (pen[c] # 0 => Len(minted[c]) < MaxMinted)
      /\ pen[c] \in Number
  BY LenProperties DEF ClientTypeOK
<1>5. cancels \in Seq(Command) /\ Len(minted[c]) + Len(cancels) <= MaxMinted
      /\ (c \in Tablet => cancels = <<>>) /\ Len(cancels) \in Nat
  <2>1. CASE c \in Tablet \/ pen[c] = 0
    <3>1. cancels = <<>>
      BY <2>1 DEF UnfinishedStrokeCancellation
    <3> HIDE DEF cancels
    <3>2. cancels \in Seq(Command) /\ Len(cancels) = 0
      BY <3>1, EmptySeq
    <3> QED
      BY <1>4, <3>1, <3>2, NumberFacts
  <2>2. CASE ~(c \in Tablet \/ pen[c] = 0)
    <3> DEFINE x == Mint(c, "cancel", pen[c])
    <3>1. x \in Command
      BY <1>4, <2>2, MintType DEF Kind
    <3>2. cancels = <<x>>
      BY <2>2 DEF UnfinishedStrokeCancellation
    <3> HIDE DEF x, cancels
    <3>3. cancels \in Seq(Command) /\ Len(cancels) = 1
      BY <3>1, <3>2
    <3> QED
      BY <1>4, <2>2, <3>3, NumberFacts
  <2> QED
    BY <2>1, <2>2
<1>6. /\ minted' = [minted EXCEPT ![c] = @ \o cancels]
      /\ pending' = [pending EXCEPT ![c] = @ \o cancels]
      /\ Send(c, PendingMessages(pending[c] \o cancels))
      /\ page' = [page EXCEPT ![c] = m.page] /\ refused' = refused
      /\ pen' = [pen EXCEPT ![c] = IF c \in Tablet THEN @ ELSE 0]
  BY DEF ReceiveWelcome, ReplaceSnapshot, ForgetStroke
<1> HIDE DEF cancels
<1>7. /\ minted[c] \o cancels \in Seq(Command) /\ pending[c] \o cancels \in Seq(Command)
      /\ Len(minted[c] \o cancels) = Len(minted[c]) + Len(cancels)
      /\ Range(minted[c] \o cancels) = Range(minted[c]) \cup Range(cancels)
      /\ Range(pending[c] \o cancels) = Range(pending[c]) \cup Range(cancels)
  BY <1>4, <1>5, ConcatProperties, RangeConcatenation
<1>8. PendingMessages(pending[c] \o cancels) \in Seq(ToRelay)
  BY <1>7, PendingMessagesType
<1>9. ClientTypeOK'
  <2>1. minted' \in [Client -> Seq(Command)] /\ pending' \in [Client -> Seq(Command)]
        /\ page' \in [Client -> Seq(Command)] /\ pen' \in [Client -> Number]
    BY <1>3, <1>6, <1>7, NumberFacts DEF ClientTypeOK
  <2>2. ASSUME NEW d \in Client
        PROVE  /\ Len(minted'[d]) <= MaxMinted
               /\ pen'[d] # 0 => Len(minted'[d]) < MaxMinted
    <3>1. CASE d # c
      BY <1>6, <3>1 DEF ClientTypeOK
    <3>2. CASE d = c
      <4>1. minted'[c] = minted[c] \o cancels /\ pen'[c] = IF c \in Tablet THEN pen[c] ELSE 0
        BY <1>6 DEF ClientTypeOK
      <4>2. Len(minted'[c]) = Len(minted[c]) + Len(cancels)
        BY <1>7, <4>1
      <4>3. c \in Tablet => Len(cancels) = 0
        BY <1>5
      <4> QED
        BY <1>4, <1>5, <3>2, <4>1, <4>2, <4>3
    <3> QED
      BY <3>1, <3>2
  <2> QED
    BY <1>6, <2>1, <2>2 DEF ClientTypeOK
<1>10. NothingForgotten'
  <2>1. /\ Range(minted'[c]) = Range(minted[c]) \cup Range(cancels)
        /\ Range(pending'[c]) = Range(pending[c]) \cup Range(cancels)
        /\ \A d \in Client \ {c} : minted'[d] = minted[d] /\ pending'[d] = pending[d]
    BY <1>6, <1>7 DEF ClientTypeOK
  <2> QED
    BY <1>2, <1>6, <2>1 DEF NothingForgotten, share
<1> QED
  BY <1>1, <1>6, <1>8, <1>9, <1>10, HandlerKeepsInv

(* The commands pending at c but x, which is logged or was refused.        *)
LEMMA AnsweredKeepsInv ==
  ASSUME RelayInv, NEW c \in Client, NEW x, Answered(c, x),
         UNCHANGED <<log, minted>>, x \in Range(log) \cup refused', refused \subseteq refused'
  PROVE  pending' \in [Client -> Seq(Command)] /\ NothingForgotten'
<1> USE DEF RelayInv, RelayTypeOK
<1>1. /\ Without(pending[c], x) \in Seq(Command)
      /\ Range(pending[c]) \subseteq Range(Without(pending[c], x)) \cup {x}
  BY WithoutFacts DEF ClientTypeOK
<1>2. pending' = [pending EXCEPT ![c] = Without(@, x)]
  BY DEF Answered
<1>3. /\ pending' \in [Client -> Seq(Command)]
      /\ Range(pending[c]) \subseteq Range(pending'[c]) \cup {x}
      /\ \A d \in Client \ {c} : pending'[d] = pending[d]
  BY <1>1, <1>2 DEF ClientTypeOK
<1> QED
  BY <1>3 DEF NothingForgotten

LEMMA AppliedKeepsInv ==
  ASSUME RelayInv, NEW c \in Client, NEW m, ReceiveApplied(c, m)  PROVE RelayInv'
<1> USE DEF RelayInv, RelayTypeOK
<1>1. Receive(c, "Applied", m) /\ Answered(c, m.command) /\ UNCHANGED <<editor, refused>>
  BY DEF ReceiveApplied
<1>2. /\ m \in ToClient /\ m.type = "Applied" /\ m.command \in Range(log)
      /\ UNCHANGED <<log, minted, pen>>
  BY <1>1, ReceiveFacts DEF Receive, share, editor
<1>3. m.command \in Command
  BY <1>2 DEF ToClient
<1>4. Append(page[c], m.command) \in Seq(Command)
  BY <1>3, AppendRange DEF ClientTypeOK
<1>5. page' \in [Client -> Seq(Command)]
  BY <1>4 DEF ReceiveApplied, ApplyNext, ClientTypeOK
<1>6. pending' \in [Client -> Seq(Command)] /\ NothingForgotten'
  BY <1>1, <1>2, AnsweredKeepsInv
<1>7. ClientTypeOK'
  BY <1>1, <1>2, <1>5, <1>6 DEF ClientTypeOK
<1>8. PICK messages \in Seq(ToRelay) : Send(c, messages)
  BY AskIfType DEF ReceiveApplied
<1> QED
  BY <1>1, <1>6, <1>7, <1>8, HandlerKeepsInv

LEMMA SnapshotKeepsInv ==
  ASSUME RelayInv, NEW c \in Client, NEW m, ReceiveSnapshot(c, m)  PROVE RelayInv'
<1> USE DEF RelayInv, RelayTypeOK
<1>1. Receive(c, "Snapshot", m) /\ Send(c, <<>>) /\ UNCHANGED <<pending, minted, refused>>
  BY DEF ReceiveSnapshot
<1>2. m \in ToClient /\ m.type = "Snapshot" /\ UNCHANGED log
  BY <1>1, ReceiveFacts DEF Receive, share
<1>3. m.page \in Seq(Command) /\ <<>> \in Seq(ToRelay)
  BY <1>2, EmptySeq DEF ToClient
<1>4. /\ page' = [page EXCEPT ![c] = m.page]
      /\ pen' = [pen EXCEPT ![c] = IF c \in Tablet THEN @ ELSE 0]
  BY DEF ReceiveSnapshot, ReplaceSnapshot, ForgetStroke
<1>5. ClientTypeOK'
  <2>1. page' \in [Client -> Seq(Command)] /\ pen' \in [Client -> Number]
        /\ \A d \in Client : pen'[d] # 0 => pen[d] # 0
    BY <1>3, <1>4, NumberFacts DEF ClientTypeOK
  <2> QED
    BY <1>1, <2>1 DEF ClientTypeOK
<1>6. NothingForgotten'
  BY <1>1, <1>2, NothingForgottenByRelay
<1> QED
  BY <1>1, <1>3, <1>5, <1>6, HandlerKeepsInv

LEMMA DigestKeepsInv ==
  ASSUME RelayInv, NEW c \in Client, NEW m, ReceiveDigest(c, m)  PROVE RelayInv'
<1> USE DEF RelayInv, RelayTypeOK
<1>1. Receive(c, "Digest", m) /\ UNCHANGED <<page, pending, minted, pen, refused, log>>
  BY DEF ReceiveDigest, Receive, editor, share
<1>2. ClientTypeOK' /\ NothingForgotten'
  BY <1>1, NothingForgottenByRelay DEF ClientTypeOK
<1>3. PICK messages \in Seq(ToRelay) : Send(c, messages)
  BY AskIfType DEF ReceiveDigest
<1> QED
  BY <1>1, <1>2, <1>3, HandlerKeepsInv

LEMMA RejectedKeepsInv ==
  ASSUME RelayInv, NEW c \in Client, NEW m, ReceiveRejected(c, m)  PROVE RelayInv'
<1> USE DEF RelayInv, RelayTypeOK
<1>1. /\ Receive(c, "Rejected", m) /\ Answered(c, m.command)
      /\ refused' = refused \cup {m.command} /\ UNCHANGED <<page, pen, minted, log>>
      /\ Send(c, <<Request>>)
  BY DEF ReceiveRejected, Receive, editor, share
<1>2. m \in ToClient /\ m.type = "Rejected"
  BY <1>1, ReceiveFacts
<1>3. m.command \in Command
  BY <1>2 DEF ToClient
<1>4. pending' \in [Client -> Seq(Command)] /\ NothingForgotten'
  BY <1>1, AnsweredKeepsInv
<1>5. ClientTypeOK'
  BY <1>1, <1>3, <1>4 DEF ClientTypeOK
<1>6. <<Request>> \in Seq(ToRelay)
  <2>1. Request \in ToRelay
    BY MessageTypes
  <2> HIDE DEF Request
  <2> QED
    BY <2>1
<1> QED
  BY <1>1, <1>4, <1>5, <1>6, HandlerKeepsInv

-----------------------------------------------------------------------------
LEMMA InitEstablishesInv == Init => RelayInv
<1> SUFFICES ASSUME Init  PROVE RelayInv
  OBVIOUS
<1>1. /\ \A S : <<>> \in Seq(S)
      /\ Len(<<>>) = 0 /\ Range(<<>>) = {}
  BY DEF Range
<1>2. PICK home \in [Client -> Socket] :
        link = [c \in Client |-> {home[c]}] /\ serving = {home[c] : c \in Client}
  BY DEF Init
<1>3. RelayTypeOK
  BY <1>1, <1>2, NumberFacts
     DEF Init, RelayTypeOK, ShareTypeOK, ChannelTypeOK, HandlerTypeOK, ClientTypeOK
<1>4. LogIsDurable /\ AnswersAreLogged /\ NothingForgotten
  BY <1>1 DEF Init, LogIsDurable, AnswersAreLogged, NothingForgotten
<1> QED
  BY <1>3, <1>4 DEF RelayInv

LEMMA NextKeepsInv == RelayInv /\ [Next]_vars => RelayInv'
<1> SUFFICES ASSUME RelayInv, [Next]_vars  PROVE RelayInv'
  OBVIOUS
<1>1. CASE Work
  <2>1. ASSUME NEW s \in Socket, Process(s) \/ Forward(s) \/ Close(s)  PROVE RelayInv'
    BY <2>1, ProcessKeepsInv, ForwardKeepsInv, CloseKeepsInv
  <2>2. ASSUME NEW c \in Client, Transmit(c) \/ \E s \in Socket : Connect(c, s)
        PROVE  RelayInv'
    BY <2>2, TransmitKeepsInv, ConnectKeepsInv
  <2>3. ASSUME NEW c \in Client, Handle(c)  PROVE RelayInv'
    BY <2>3, WelcomeKeepsInv, AppliedKeepsInv, SnapshotKeepsInv, DigestKeepsInv,
       RejectedKeepsInv DEF Handle
  <2> QED
    BY <1>1, <2>1, <2>2, <2>3 DEF Work
<1>2. CASE Draw
  BY <1>2, DrawKeepsInv
<1>3. CASE Fault
  BY <1>3, CrashKeepsInv, DropKeepsInv, FailWriteKeepsInv DEF Fault
<1>4. CASE UNCHANGED vars
  BY <1>4 DEF vars, share, relay, traffic, replica, editor, RelayInv, RelayTypeOK,
     ShareTypeOK, ChannelTypeOK, HandlerTypeOK, ClientTypeOK, LogIsDurable,
     AnswersAreLogged, NothingForgotten
<1> QED
  BY <1>1, <1>2, <1>3, <1>4 DEF Next

(* Everything on its way between the relay and its clients is well formed, *)
(* a client has at most one connection, a client that is drawing can still *)
(* end its stroke, and nothing is announced that the relay does not have.  *)
THEOREM RelayInvHolds == Spec => []RelayInv
BY InitEstablishesInv, NextKeepsInv, PTL DEF Spec

(* A durable command that a client issued is never forgotten, for any      *)
(* number of clients, sockets and commands and any capacity of the         *)
(* broadcast channel, whatever connections break, writes fail and restarts *)
(* happen.                                                                 *)
THEOREM NothingDurableIsForgotten == Spec => []NoDurableCommandIsForgotten
<1>1. RelayInv => NoDurableCommandIsForgotten
  BY DEF RelayInv, LogIsDurable, NothingForgotten, NoDurableCommandIsForgotten
<1> QED
  BY <1>1, RelayInvHolds, PTL

-----------------------------------------------------------------------------
(* PageRelay implements OrderedLog: every client that is joined shows a    *)
(* prefix of one log that only grows under it, and a restart keeps the     *)
(* durable commands in their order.                                        *)

DurableBefore(l, j) == Ordered!DurableBefore(l, j)
KeepsDurable(l, m)  == Ordered!KeepsDurable(l, m)

(* The page l is one that m has grown from.                                *)
Precedes(l, m) == Len(l) <= Len(m) /\ \A i \in DOMAIN l : l[i] = m[i]

Bears(m)  == m.type \in {"Welcome", "Snapshot"}
(* How far a replica gets with a message.                                  *)
Reaches(m) == IF m.type = "Applied" THEN m.revision
              ELSE IF Bears(m) THEN Len(m.page) ELSE 0

-----------------------------------------------------------------------------
(* The inductive invariant.                                                *)

(* No command is logged twice, in memory or in the file, and the file has  *)
(* the durable ones behind the same durable ones.                          *)
LogsAgree == IsInjective(log) /\ IsInjective(disk) /\ KeepsDurable(log, disk)

(* What is announced is what the log has at its revision, and a page that  *)
(* is sent is one that the log has grown from.                             *)
Truthful(m, l) ==
  /\ m.type = "Applied" => m.revision \in DOMAIN l /\ l[m.revision] = m.command
  /\ Bears(m) => Precedes(m.page, l)
MessagesAgree ==
  \A s \in Socket : /\ \A m \in Range(queue[s]) : Truthful(m, log) /\ ~Bears(m)
                    /\ \A m \in Range(wire[s]) : Truthful(m, log)

(* No message overtakes a page that goes further: the relay writes pages   *)
(* to a socket as they are at that moment.                                 *)
NotOvertaken(w) ==
  \A i, j \in DOMAIN w : i < j /\ Bears(w[j]) => Reaches(w[i]) <= Len(w[j].page)
PagesAreInOrder == \A s \in Socket : NotOvertaken(wire[s])

(* What a joined client shows is a page that the log has grown from, and   *)
(* the pages on their way to it go at least as far.                        *)
ViewsAgree ==
  \A c \in welcomed :
    /\ Precedes(page[c], log)
    /\ \A s \in link[c] : \A m \in Range(wire[s]) : Bears(m) => Len(page[c]) <= Len(m.page)

OrderInv == LogsAgree /\ MessagesAgree /\ PagesAreInOrder /\ ViewsAgree
            /\ welcomed \subseteq Client

-----------------------------------------------------------------------------
(* Pages.                                                                  *)

LEMMA SeqFacts ==
  ASSUME NEW S, NEW l \in Seq(S)
  PROVE  Len(l) \in Nat /\ DOMAIN l = 1 .. Len(l) /\ \A i \in DOMAIN l : l[i] \in S
BY LenProperties, ElementOfSeq

LEMMA PrecedesFacts ==
  ASSUME NEW l \in Seq(Command), NEW m \in Seq(Command), NEW n \in Seq(Command)
  PROVE  /\ Precedes(l, l)
         /\ Precedes(l, m) /\ Precedes(m, n) => Precedes(l, n)
BY SeqFacts DEF Precedes

LEMMA AppendPrecedes ==
  ASSUME NEW l \in Seq(Command), NEW x \in Command
  PROVE  /\ Append(l, x) \in Seq(Command) /\ Precedes(l, Append(l, x))
         /\ Len(Append(l, x)) = Len(l) + 1 /\ Append(l, x)[Len(l) + 1] = x
BY AppendFacts, SeqFacts DEF Precedes

(* A page that the log has grown from is a prefix of it.                   *)
LEMMA PrecedesIsPrefix ==
  ASSUME NEW l \in Seq(Command), NEW m \in Seq(Command), Precedes(l, m)
  PROVE  l = SubSeq(m, 1, Len(l)) /\ Len(l) \in 0 .. Len(m) /\ IsPrefix(l, m)
<1>1. /\ Len(l) \in Nat /\ DOMAIN l = 1 .. Len(l) /\ Len(m) \in Nat /\ DOMAIN m = 1 .. Len(m)
      /\ \A i \in DOMAIN m : m[i] \in Command
  BY SeqFacts
<1>2. Len(l) <= Len(m) /\ \A i \in 1 .. Len(l) : l[i] = m[i]
  BY <1>1 DEF Precedes
<1>3. /\ SubSeq(m, 1, Len(l)) \in Seq(Command) /\ Len(SubSeq(m, 1, Len(l))) = Len(l)
      /\ \A i \in 1 .. Len(l) : SubSeq(m, 1, Len(l))[i] = m[i]
  BY <1>1, <1>2, SubSeqProperties
<1>4. l = SubSeq(m, 1, Len(l))
  BY <1>1, <1>2, <1>3, SeqEqual
<1>5. SubSeq(l, 1, Len(l)) = l
  BY <1>1, SubSeqFull
<1> QED
  BY <1>1, <1>2, <1>4, <1>5 DEF IsPrefix

-----------------------------------------------------------------------------
(* Logs.                                                                   *)

LEMMA KeepsDurableDef ==
  \A l, m : KeepsDurable(l, m) <=>
    \A j \in DOMAIN l : Durable(l[j]) =>
      \E k \in DOMAIN m : m[k] = l[j] /\ DurableBefore(m, k) = DurableBefore(l, j)
BY DEF KeepsDurable, DurableBefore, Ordered!KeepsDurable

LEMMA DurableBeforePrecedes ==
  ASSUME NEW l \in Seq(Command), NEW m \in Seq(Command), Precedes(l, m), NEW j \in DOMAIN l
  PROVE  j \in DOMAIN m /\ m[j] = l[j] /\ DurableBefore(m, j) = DurableBefore(l, j)
<1>1. /\ Len(l) \in Nat /\ DOMAIN l = 1 .. Len(l) /\ Len(m) \in Nat /\ DOMAIN m = 1 .. Len(m)
      /\ Len(l) <= Len(m) /\ \A i \in DOMAIN l : l[i] = m[i]
  BY SeqFacts DEF Precedes
<1>2. \A i \in 1 .. j - 1 : m[i] = l[i]
  BY <1>1
<1> QED
  BY <1>1, <1>2 DEF DurableBefore, Ordered!DurableBefore

(* A log that goes on keeps what it had.                                   *)
LEMMA KeepsDurableFurther ==
  ASSUME NEW l \in Seq(Command), NEW m \in Seq(Command), NEW n \in Seq(Command),
         KeepsDurable(l, m), Precedes(m, n)
  PROVE  KeepsDurable(l, n)
BY DurableBeforePrecedes, KeepsDurableDef

LEMMA KeepsDurableItself ==
  ASSUME NEW l \in Seq(Command), NEW m \in Seq(Command), Precedes(l, m)
  PROVE  KeepsDurable(l, m)
BY DurableBeforePrecedes, KeepsDurableDef

(* What is not durable need not be kept.                                   *)
LEMMA KeepsDurableWithout ==
  ASSUME NEW l \in Seq(Command), NEW m \in Seq(Command), KeepsDurable(l, m),
         NEW x \in Command, ~Durable(x)
  PROVE  KeepsDurable(Append(l, x), m)
<1>1. /\ Append(l, x) \in Seq(Command) /\ Precedes(l, Append(l, x))
      /\ DOMAIN Append(l, x) = 1 .. Len(l) + 1 /\ Append(l, x)[Len(l) + 1] = x
  BY AppendPrecedes, SeqFacts
<1>2. Len(l) \in Nat /\ DOMAIN l = 1 .. Len(l)
  BY SeqFacts
<1>3. ASSUME NEW j \in DOMAIN Append(l, x), Durable(Append(l, x)[j])
      PROVE  \E k \in DOMAIN m : /\ m[k] = Append(l, x)[j]
                                 /\ DurableBefore(m, k) = DurableBefore(Append(l, x), j)
  <2>1. j \in DOMAIN l
    BY <1>1, <1>2, <1>3
  <2>2. Append(l, x)[j] = l[j] /\ DurableBefore(Append(l, x), j) = DurableBefore(l, j)
    BY <1>1, <2>1, DurableBeforePrecedes
  <2> QED
    BY <1>3, <2>1, <2>2, KeepsDurableDef
<1> QED
  BY <1>3, KeepsDurableDef

LEMMA AppendInjects ==
  ASSUME NEW l \in Seq(Command), IsInjective(l), NEW x \in Command, x \notin Range(l)
  PROVE  IsInjective(Append(l, x))
<1>1. /\ Len(l) \in Nat /\ DOMAIN l = 1 .. Len(l) /\ DOMAIN Append(l, x) = 1 .. Len(l) + 1
      /\ \A i \in DOMAIN l : Append(l, x)[i] = l[i]
      /\ Append(l, x)[Len(l) + 1] = x
  BY AppendFacts, SeqFacts
<1>2. \A i \in DOMAIN l : l[i] # x
  BY DEF Range
<1> QED
  BY <1>1, <1>2 DEF IsInjective

(* Strokes that are in progress are finished once each.                    *)
LEMMA FinishedIsLonger ==
  ASSUME NEW l \in Seq(Command), IsInjective(l), NEW B \in SUBSET InProgress(l),
         NEW order \in SetToSeqs(B)
  PROVE  /\ Finished(l, order) \in Seq(Command) /\ Precedes(l, Finished(l, order))
         /\ Len(Finished(l, order)) = Len(l) + Len(order) /\ order \in Seq(Command)
         /\ IsInjective(Finished(l, order))
<1> DEFINE last == [i \in DOMAIN order |-> Finishing(order[i])]
<1>1. /\ B \subseteq Command /\ IsFiniteSet(B) /\ order \in Seq(B) /\ order \in Seq(Command)
      /\ Finished(l, order) \in Seq(Command)
      /\ Len(Finished(l, order)) = Len(l) + Len(order)
  <2>1. B \subseteq Command /\ IsFiniteSet(B)
    BY InProgressFacts
  <2> QED
    BY <2>1, FinishedFacts, SeqMonotonic
<1>2. /\ Len(l) \in Nat /\ DOMAIN l = 1 .. Len(l) /\ Len(order) \in Nat
      /\ DOMAIN order = 1 .. Len(order) /\ \A i \in 1 .. Len(order) : order[i] \in B
      /\ \A i \in 1 .. Len(l) : l[i] \in Command
  BY <1>1, SeqFacts
<1>3. \A i, j \in 1 .. Len(order) : order[i] = order[j] => i = j
  <2>1. IsInjective(order)
    BY DEF SetToSeqs, IsInjective
  <2> QED
    BY <1>2, <2>1 DEF IsInjective
<1>4. last \in [1 .. Len(order) -> Command]
  BY <1>1, <1>2, FinishingType
<1>5. last \in Seq(Command) /\ Len(last) = Len(order)
  BY <1>2, <1>4
<1>6. Finished(l, order) = l \o last /\ \A i \in 1 .. Len(order) : last[i] = Finishing(order[i])
  BY <1>2 DEF Finished
<1> HIDE DEF last
<1> DEFINE m == l \o last
<1>7. \A i \in 1 .. Len(l) + Len(order) :
        m[i] = IF i <= Len(l) THEN l[i] ELSE last[i - Len(l)]
  BY <1>5, ConcatProperties DEF m
<1>8. \A i \in 1 .. Len(l), j \in 1 .. Len(order) : l[i] # last[j]
  <2> SUFFICES ASSUME NEW i \in 1 .. Len(l), NEW j \in 1 .. Len(order), l[i] = Finishing(order[j])
               PROVE  FALSE
    BY <1>6
  <2>1. order[j] \in InProgress(l) /\ l[i] \in Range(l)
    BY <1>2 DEF Range
  <2>2. Ends(l[i]) /\ SameStroke(order[j], l[i])
    BY DEF Finishing, Ends, SameStroke
  <2> QED
    BY <2>1, <2>2 DEF InProgress
<1>9. \A i, j \in 1 .. Len(order) : last[i] = last[j] => i = j
  <2> SUFFICES ASSUME NEW i \in 1 .. Len(order), NEW j \in 1 .. Len(order),
                      Finishing(order[i]) = Finishing(order[j])
               PROVE  i = j
    BY <1>6
  <2>1. /\ order[i].kind = "begin" /\ order[j].kind = "begin"
        /\ order[i] \in Command /\ order[j] \in Command
    BY <1>1, <1>2 DEF InProgress
  <2>2. order[i].from = order[j].from /\ order[i].stroke = order[j].stroke
    BY DEF Finishing
  <2>3. order[i] = order[j]
    BY <2>1, <2>2 DEF Command
  <2> QED
    BY <1>3, <2>3
<1>10. DOMAIN m = 1 .. Len(l) + Len(order)
  BY <1>1, <1>6, SeqFacts DEF m
<1> HIDE DEF m
<1>11. Precedes(l, Finished(l, order))
  <2>1. Finished(l, order) = m
    BY <1>6 DEF m
  <2> QED
    BY <1>1, <1>2, <1>7, <1>10, <2>1 DEF Precedes
<1>12. IsInjective(m)
  <2> SUFFICES ASSUME NEW i \in 1 .. Len(l) + Len(order), NEW j \in 1 .. Len(l) + Len(order),
                      m[i] = m[j]
               PROVE  i = j
    BY <1>10 DEF IsInjective
  <2>0. /\ i <= Len(l) => m[i] = l[i] /\ i \in 1 .. Len(l)
        /\ j <= Len(l) => m[j] = l[j] /\ j \in 1 .. Len(l)
        /\ ~(i <= Len(l)) => m[i] = last[i - Len(l)]
        /\ ~(j <= Len(l)) => m[j] = last[j - Len(l)]
    BY <1>2, <1>7
  <2>1. /\ ~(i <= Len(l)) => i - Len(l) \in 1 .. Len(order)
        /\ ~(j <= Len(l)) => j - Len(l) \in 1 .. Len(order)
    BY <1>2
  <2>2. CASE i <= Len(l) /\ j <= Len(l)
    BY <1>2, <2>0, <2>2 DEF IsInjective
  <2>3. CASE ~(i <= Len(l)) /\ ~(j <= Len(l))
    <3>1. last[i - Len(l)] = last[j - Len(l)]
      BY <1>2, <2>0, <2>3
    <3> QED
      BY <1>2, <1>9, <2>1, <2>3, <3>1
  <2>4. CASE i <= Len(l) /\ ~(j <= Len(l))
    <3>1. l[i] = last[j - Len(l)]
      BY <1>2, <2>0, <2>4
    <3> QED
      BY <1>2, <1>8, <2>1, <2>4, <3>1
  <2>5. CASE ~(i <= Len(l)) /\ j <= Len(l)
    <3>1. l[j] = last[i - Len(l)]
      BY <1>2, <2>0, <2>5
    <3> QED
      BY <1>2, <1>8, <2>1, <2>5, <3>1
  <2> QED
    BY <1>2, <2>2, <2>3, <2>4, <2>5
<1> QED
  BY <1>1, <1>6, <1>11, <1>12 DEF m

-----------------------------------------------------------------------------
(* Messages.                                                               *)

LEMMA MessageFacts ==
  ASSUME NEW m \in ToClient
  PROVE  /\ Bears(m) => m.page \in Seq(Command)
         /\ m.type = "Applied" => m.revision \in Nat /\ m.command \in Command
         /\ Reaches(m) \in Nat
<1>1. Bears(m) => m.page \in Seq(Command)
  BY DEF Bears, ToClient
<1>2. m.type = "Applied" => m.revision \in Nat /\ m.command \in Command
  BY DEF ToClient
<1>3. Bears(m) => Len(m.page) \in Nat
  BY <1>1, LenProperties
<1> QED
  BY <1>1, <1>2, <1>3 DEF Reaches

(* What the log has does not change.                                       *)
LEMMA TruthStays ==
  ASSUME NEW m \in ToClient, NEW l \in Seq(Command), NEW n \in Seq(Command),
         Truthful(m, l), Precedes(l, n)
  PROVE  Truthful(m, n)
<1>1. m.type = "Applied" => m.revision \in DOMAIN n /\ n[m.revision] = m.command
  BY SeqFacts DEF Truthful, Precedes
<1>2. Bears(m) => Precedes(m.page, n)
  BY MessageFacts, PrecedesFacts DEF Truthful
<1> QED
  BY <1>1, <1>2 DEF Truthful

LEMMA TruthReaches ==
  ASSUME NEW m \in ToClient, NEW l \in Seq(Command), Truthful(m, l)
  PROVE  Reaches(m) <= Len(l)
<1>1. Len(l) \in Nat /\ DOMAIN l = 1 .. Len(l)
  BY SeqFacts
<1> QED
  BY <1>1 DEF Truthful, Precedes, Reaches

(* A message that is sent is the last one.                                 *)
LEMMA SentInOrder ==
  ASSUME NEW w \in Seq(ToClient), NotOvertaken(w), NEW m \in ToClient,
         Bears(m) => \A x \in Range(w) : Reaches(x) <= Len(m.page)
  PROVE  NotOvertaken(Append(w, m))
<1>1. /\ Len(w) \in Nat /\ DOMAIN w = 1 .. Len(w) /\ DOMAIN Append(w, m) = 1 .. Len(w) + 1
      /\ \A i \in 1 .. Len(w) : Append(w, m)[i] = w[i] /\ w[i] \in Range(w)
      /\ Append(w, m)[Len(w) + 1] = m
  BY AppendFacts, SeqFacts DEF Range
<1> SUFFICES ASSUME NEW i \in DOMAIN Append(w, m), NEW j \in DOMAIN Append(w, m), i < j,
                    Bears(Append(w, m)[j])
             PROVE  Reaches(Append(w, m)[i]) <= Len(Append(w, m)[j].page)
  BY DEF NotOvertaken
<1>2. CASE j <= Len(w)
  BY <1>1, <1>2 DEF NotOvertaken
<1>3. CASE ~(j <= Len(w))
  <2>1. j = Len(w) + 1 /\ i \in 1 .. Len(w)
    BY <1>1, <1>3
  <2> QED
    BY <1>1, <2>1
<1> QED
  BY <1>2, <1>3

(* The first message gets a replica no further than the pages behind it.   *)
LEMMA TakenInOrder ==
  ASSUME NEW w \in Seq(ToClient), w # <<>>, NotOvertaken(w)
  PROVE  /\ NotOvertaken(Tail(w))
         /\ \A x \in Range(Tail(w)) : Bears(x) => Reaches(Head(w)) <= Len(x.page)
<1>1. Len(w) \in Nat \ {0} /\ DOMAIN w = 1 .. Len(w)
  BY LenProperties, EmptySeq
<1>2. DOMAIN Tail(w) = 1 .. Len(w) - 1 /\ \A i \in 1 .. Len(w) - 1 : Tail(w)[i] = w[i + 1]
  BY <1>1, HeadTailProperties, LenProperties
<1>3. Head(w) = w[1]
  BY <1>1
<1> DEFINE t == Tail(w)
           h == Head(w)
<1>4. DOMAIN t = 1 .. Len(w) - 1 /\ (\A i \in 1 .. Len(w) - 1 : t[i] = w[i + 1]) /\ h = w[1]
  BY <1>2, <1>3
<1> HIDE DEF t, h
<1>5. NotOvertaken(t)
  <2> SUFFICES ASSUME NEW i \in DOMAIN t, NEW j \in DOMAIN t, i < j, Bears(t[j])
               PROVE  Reaches(t[i]) <= Len(t[j].page)
    BY DEF NotOvertaken
  <2>1. i + 1 \in DOMAIN w /\ j + 1 \in DOMAIN w /\ i + 1 < j + 1
    BY <1>1, <1>4
  <2> QED
    BY <1>4, <2>1 DEF NotOvertaken
<1>6. ASSUME NEW x \in Range(t), Bears(x)
      PROVE  Reaches(h) <= Len(x.page)
  <2>1. PICK i \in DOMAIN t : x = t[i]
    BY DEF Range
  <2>2. i + 1 \in DOMAIN w /\ 1 \in DOMAIN w /\ 1 < i + 1
    BY <1>1, <1>4
  <2> QED
    BY <1>4, <1>6, <2>1, <2>2 DEF NotOvertaken
<1> QED
  BY <1>5, <1>6 DEF t, h

-----------------------------------------------------------------------------
(* Steps of the abstract specification.                                    *)

Simulates == [Ordered!Next]_(Ordered!vars)

LEMMA StutterSimulates == UNCHANGED <<log, page, welcomed>> => Simulates
BY DEF Simulates, Ordered!vars

LEMMA ApplySimulates ==
  ASSUME log \in Seq(Command), log' \in Seq(Command), Precedes(log, log'), log # log',
         IsInjective(log'), UNCHANGED <<page, welcomed>>
  PROVE  Simulates
<1>1. Ordered!IsStrictPrefix(log, log')
  BY PrecedesIsPrefix DEF IsPrefix, Ordered!IsPrefix, Ordered!IsStrictPrefix
<1>2. Ordered!Range(log') \subseteq Command /\ Ordered!IsInjective(log')
  BY RangeOfSeq DEF Range, IsInjective, Ordered!Range, Ordered!IsInjective
<1>3. Ordered!Apply
  BY <1>1, <1>2 DEF Ordered!Apply
<1> QED
  BY <1>3 DEF Simulates, Ordered!Next

LEMMA ShowSimulates ==
  ASSUME NEW c \in Client, UNCHANGED log, welcomed' \in {welcomed, welcomed \cup {c}},
         log \in Seq(Command), page \in [Client -> Seq(Command)],
         page' \in [Client -> Seq(Command)], \A d \in Client \ {c} : page'[d] = page[d],
         c \in welcomed' => Precedes(page'[c], log),
         c \in welcomed => Len(page[c]) <= Len(page'[c])
  PROVE  Simulates
<1>1. CASE c \in welcomed'
  <2>1. page'[c] = SubSeq(log, 1, Len(page'[c])) /\ Len(page'[c]) \in 0 .. Len(log)
    BY <1>1, PrecedesIsPrefix
  <2> DEFINE v == [d \in Client |-> IF d \in welcomed THEN {page[d]} ELSE {}]
             w == [d \in Client |-> IF d \in welcomed' THEN {page'[d]} ELSE {}]
  <2>2. w = [v EXCEPT ![c] = {SubSeq(log, 1, Len(page'[c]))}]
    BY <1>1, <2>1
  <2>3. \A p \in v[c] : Len(p) <= Len(page'[c])
    OBVIOUS
  <2>4. Ordered!Show(c)
    BY <2>1, <2>2, <2>3 DEF Ordered!Show
  <2> QED
    BY <2>4 DEF Simulates, Ordered!Next
<1>2. CASE c \notin welcomed'
  <2>1. [d \in Client |-> IF d \in welcomed' THEN {page'[d]} ELSE {}]
          = [d \in Client |-> IF d \in welcomed THEN {page[d]} ELSE {}]
    BY <1>2
  <2> QED
    BY <2>1 DEF Simulates, Ordered!vars
<1> QED
  BY <1>1, <1>2

LEMMA PartSimulates ==
  ASSUME NEW c \in Client, UNCHANGED <<log, page>>, welcomed' = welcomed \ {c}
  PROVE  Simulates
<1>1. Ordered!Part(c)
  BY DEF Ordered!Part
<1> QED
  BY <1>1 DEF Simulates, Ordered!Next

LEMMA RestartSimulates ==
  ASSUME log' \in Seq(Command), IsInjective(log'), KeepsDurable(log, log'), welcomed' = {}
  PROVE  Simulates
<1>1. Ordered!Range(log') \subseteq Command /\ Ordered!IsInjective(log')
  BY RangeOfSeq DEF Range, IsInjective, Ordered!Range, Ordered!IsInjective
<1>2. Ordered!Restart
  BY <1>1 DEF Ordered!Restart, KeepsDurable
<1> QED
  BY <1>2 DEF Simulates, Ordered!Next

-----------------------------------------------------------------------------
(* The handlers of the relay.                                              *)

(* A socket is sent at most one message, and a page as it is.              *)
SentWell(s) ==
  \/ wire'[s] = wire[s]
  \/ \E m \in ToClient : /\ wire'[s] = Append(wire[s], m)
                         /\ Truthful(m, log') /\ (Bears(m) => m.page = log')
QueuedWell(s) ==
  \A m \in Range(queue'[s]) : m \in Range(queue[s]) \/ (Truthful(m, log') /\ ~Bears(m))

LEMMA HandlerKeepsOrder ==
  ASSUME RelayInv, OrderInv, RelayInv', LogsAgree', Precedes(log, log'),
         UNCHANGED <<link, welcomed, page>>, \A s \in Socket : SentWell(s) /\ QueuedWell(s)
  PROVE  OrderInv'
<1>1. /\ log \in Seq(Command) /\ log' \in Seq(Command)
      /\ \A s \in Socket : /\ queue[s] \in Seq(ToClient) /\ queue'[s] \in Seq(ToClient)
                           /\ wire[s] \in Seq(ToClient) /\ wire'[s] \in Seq(ToClient)
  BY DEF RelayInv, RelayTypeOK, ShareTypeOK, ChannelTypeOK
<1>2. \A s \in Socket : Range(queue[s]) \subseteq ToClient /\ Range(wire[s]) \subseteq ToClient
  BY <1>1, RangeOfSeq
<1>3. ASSUME NEW s \in Socket, NEW m \in Range(wire[s]) \cup Range(queue[s])
      PROVE  Truthful(m, log') /\ Reaches(m) <= Len(log')
  <2>1. m \in ToClient /\ Truthful(m, log)
    BY <1>2 DEF OrderInv, MessagesAgree
  <2> QED
    BY <1>1, <2>1, TruthStays, TruthReaches
<1>4. ASSUME NEW s \in Socket
      PROVE  /\ \A m \in Range(wire'[s]) : Truthful(m, log')
             /\ NotOvertaken(wire'[s])
             /\ \A m \in Range(wire'[s]) : Bears(m) => m \in Range(wire[s]) \/ m.page = log'
  <2>1. CASE wire'[s] = wire[s]
    BY <1>3, <2>1 DEF OrderInv, PagesAreInOrder
  <2>2. ASSUME NEW m \in ToClient, wire'[s] = Append(wire[s], m), Truthful(m, log'),
               Bears(m) => m.page = log'
        PROVE  /\ \A x \in Range(wire'[s]) : Truthful(x, log')
               /\ NotOvertaken(wire'[s])
               /\ \A x \in Range(wire'[s]) : Bears(x) => x \in Range(wire[s]) \/ x.page = log'
    <3>1. Range(wire'[s]) = Range(wire[s]) \cup {m}
      BY <1>1, <2>2, AppendRange
    <3>2. NotOvertaken(wire'[s])
      BY <1>1, <1>3, <2>2, SentInOrder DEF OrderInv, PagesAreInOrder
    <3> QED
      BY <1>3, <2>2, <3>1, <3>2
  <2> QED
    BY <2>1, <2>2 DEF SentWell
<1>5. MessagesAgree' /\ PagesAreInOrder'
  BY <1>3, <1>4 DEF MessagesAgree, PagesAreInOrder, QueuedWell, OrderInv
<1>6. ViewsAgree'
  <2> SUFFICES ASSUME NEW c \in welcomed
               PROVE  /\ Precedes(page[c], log')
                      /\ \A s \in link[c] : \A m \in Range(wire'[s]) :
                           Bears(m) => Len(page[c]) <= Len(m.page)
    BY DEF ViewsAgree
  <2>1. /\ page[c] \in Seq(Command) /\ link[c] \subseteq Socket
        /\ Precedes(page[c], log)
    BY DEF OrderInv, ViewsAgree, RelayInv, RelayTypeOK, ClientTypeOK, HandlerTypeOK
  <2>2. Precedes(page[c], log')
    BY <1>1, <2>1, PrecedesFacts
  <2> QED
    BY <1>4, <2>1, <2>2 DEF Precedes, OrderInv, ViewsAgree
<1> QED
  BY <1>5, <1>6 DEF OrderInv

LEMMA ReplySendsWell ==
  ASSUME ChannelTypeOK, NEW s \in Socket, NEW m \in ToClient, Reply(s, m),
         Truthful(m, log'), Bears(m) => m.page = log', NEW t \in Socket
  PROVE  SentWell(t)
BY DEF SentWell, Reply, ChannelTypeOK

LEMMA BroadcastQueuesWell ==
  ASSUME ChannelTypeOK, HandlerTypeOK, NEW messages \in Seq(ToClient),
         NEW receivers \in SUBSET Socket, Broadcast(receivers, messages),
         \A m \in Range(messages) : Truthful(m, log') /\ ~Bears(m), NEW t \in Socket
  PROVE  QueuedWell(t)
<1>1. Range(queue'[t]) \subseteq Range(queue[t]) \cup Range(messages)
  BY BroadcastFacts
<1> QED
  BY <1>1 DEF QueuedWell

LEMMA TrueMessages ==
  ASSUME NEW l \in Seq(Command)
  PROVE  /\ \A n \in DOMAIN l : Truthful(Applied(l, n), l) /\ ~Bears(Applied(l, n))
         /\ Truthful(Digest(l), l) /\ ~Bears(Digest(l))
         /\ Truthful(Snapshot(l), l) /\ Snapshot(l).page = l
         /\ Truthful(Welcome(l), l) /\ Welcome(l).page = l
         /\ \A x : Truthful(Rejected(x), l) /\ ~Bears(Rejected(x))
BY PrecedesFacts DEF Truthful, Bears, Applied, Digest, Snapshot, Welcome, Rejected

(* A command that is not in the log goes to its end, and to the end of the *)
(* file with what was not written yet if it is durable.                    *)
LEMMA AcceptInOrder ==
  ASSUME RelayInv, OrderInv, RelayInv', NEW s \in Socket, NEW x \in Command,
         ClientsUnchanged, AcceptSubmission(s, x)
  PROVE  OrderInv' /\ Simulates
<1>1. /\ log \in Seq(Command) /\ disk \in Seq(Command) /\ log' = Append(log, x)
      /\ x \notin Range(log) /\ wire' = wire
      /\ ChannelTypeOK /\ HandlerTypeOK /\ serving \in SUBSET Socket
  BY DEF AcceptSubmission, RelayInv, RelayTypeOK, ShareTypeOK, HandlerTypeOK
<1>2. /\ log' \in Seq(Command) /\ Precedes(log, log') /\ Len(log') = Len(log) + 1
      /\ IsInjective(log') /\ log # log' /\ Len(log') \in DOMAIN log'
  BY <1>1, AppendPrecedes, AppendInjects, SeqFacts DEF OrderInv, LogsAgree
<1>3. LogsAgree'
  <2>1. CASE Durable(x)
    <3>1. disk' = log'
      BY <2>1 DEF AcceptSubmission
    <3>2. KeepsDurable(log', log')
      BY <1>2, PrecedesFacts, KeepsDurableItself
    <3> QED
      BY <1>2, <3>1, <3>2, KeepsDurableDef DEF LogsAgree, OrderInv
  <2>2. CASE ~Durable(x)
    <3>1. disk' = disk
      BY <2>2 DEF AcceptSubmission
    <3>2. KeepsDurable(log', disk)
      BY <1>1, <2>2, KeepsDurableWithout DEF LogsAgree, OrderInv
    <3> QED
      BY <1>2, <3>1, <3>2 DEF LogsAgree, OrderInv
  <2> QED
    BY <2>1, <2>2
<1>4. PICK messages \in Seq(ToClient) :
        /\ Broadcast(serving, messages)
        /\ \A m \in Range(messages) : Truthful(m, log') /\ ~Bears(m)
  <2> DEFINE a == Applied(log', Len(log'))
             d == Digest(log')
  <2>1. a \in ToClient /\ d \in ToClient
    BY <1>2, MessageTypes
  <2>2. Truthful(a, log') /\ ~Bears(a) /\ Truthful(d, log') /\ ~Bears(d)
    BY <1>2, TrueMessages
  <2> HIDE DEF a, d
  <2>3. /\ <<a, d>> \in Seq(ToClient) /\ Range(<<a, d>>) = {a, d}
        /\ <<a>> \in Seq(ToClient) /\ Range(<<a>>) = {a}
    BY <2>1 DEF Range
  <2>4. Broadcast(serving, <<a, d>>) \/ Broadcast(serving, <<a>>)
    BY DEF AcceptSubmission, a, d
  <2> QED
    BY <2>2, <2>3, <2>4
<1>5. \A t \in Socket : SentWell(t) /\ QueuedWell(t)
  BY <1>1, <1>4, BroadcastQueuesWell DEF SentWell
<1>6. UNCHANGED <<link, welcomed, page>>
  BY DEF ClientsUnchanged, replica
<1> QED
  BY <1>1, <1>2, <1>3, <1>5, <1>6, HandlerKeepsOrder, ApplySimulates

(* A direct answer, to whoever asked.                                      *)
LEMMA ReplyInOrder ==
  ASSUME RelayInv, OrderInv, RelayInv', NEW s \in Socket, NEW m \in ToClient,
         Truthful(m, log), Bears(m) => m.page = log, Reply(s, m),
         UNCHANGED <<log, link, welcomed, page>>, LogsAgree',
         \A t \in Socket : QueuedWell(t)
  PROVE  OrderInv' /\ Simulates
<1>1. log \in Seq(Command) /\ ChannelTypeOK
  BY DEF RelayInv, RelayTypeOK, ShareTypeOK
<1>2. \A t \in Socket : SentWell(t)
  BY <1>1, ReplySendsWell
<1>3. Precedes(log, log')
  BY <1>1, PrecedesFacts
<1> QED
  BY <1>2, <1>3, HandlerKeepsOrder, StutterSimulates

LEMMA SameQueue == UNCHANGED queue => \A t \in Socket : QueuedWell(t)
BY DEF QueuedWell

LEMMA SameLogs == OrderInv /\ UNCHANGED share => LogsAgree'
BY DEF OrderInv, LogsAgree, share, KeepsDurable, Ordered!KeepsDurable,
       DurableBefore, Ordered!DurableBefore

LEMMA ProcessInOrder ==
  ASSUME RelayInv, OrderInv, RelayInv', NEW s \in Socket, Process(s)
  PROVE  OrderInv' /\ Simulates
<1>1. /\ Head(inbox[s]) # Request => Head(inbox[s]).command \in Command
      /\ log \in Seq(Command)
  BY TakeFacts DEF Process, RelayInv, RelayTypeOK, ShareTypeOK
<1>2. ClientsUnchanged /\ UNCHANGED <<link, welcomed, page>>
  BY DEF Process, ClientsUnchanged, replica
<1>3. ASSUME NEW x \in Command, AcceptSubmission(s, x)
      PROVE  OrderInv' /\ Simulates
  BY <1>2, <1>3, AcceptInOrder
<1>4. ASSUME NEW x \in Command, RepeatAnswer(s, x)
      PROVE  OrderInv' /\ Simulates
  <2>1. PICK n \in DOMAIN log : Reply(s, Applied(log, n))
    BY <1>4 DEF RepeatAnswer
  <2>2. Applied(log, n) \in ToClient /\ Truthful(Applied(log, n), log) /\ ~Bears(Applied(log, n))
    BY <1>1, MessageTypes, TrueMessages
  <2>3. UNCHANGED <<log, queue>> /\ LogsAgree'
    BY <1>4, SameLogs DEF RepeatAnswer, share
  <2> HIDE DEF Applied
  <2> QED
    BY <1>2, <2>1, <2>2, <2>3, SameQueue, ReplyInOrder
<1>5. ASSUME NEW x \in Command, RefuseSubmission(s, x)
      PROVE  OrderInv' /\ Simulates
  <2>1. /\ Rejected(x) \in ToClient /\ Truthful(Rejected(x), log) /\ ~Bears(Rejected(x))
        /\ Reply(s, Rejected(x))
    BY <1>1, <1>5, MessageTypes, TrueMessages DEF RefuseSubmission
  <2>2. UNCHANGED <<log, queue>> /\ LogsAgree'
    BY <1>5, SameLogs DEF RefuseSubmission, share, relay
  <2> QED
    BY <1>2, <2>1, <2>2, SameQueue, ReplyInOrder
<1>6. CASE Reply(s, Snapshot(log)) /\ UNCHANGED <<share, relay>>
  <2>1. /\ Snapshot(log) \in ToClient /\ Truthful(Snapshot(log), log)
        /\ Snapshot(log).page = log
    BY <1>1, MessageTypes, TrueMessages
  <2>2. UNCHANGED <<log, queue>> /\ LogsAgree'
    BY <1>6, SameLogs DEF share, relay
  <2> QED
    BY <1>2, <1>6, <2>1, <2>2, SameQueue, ReplyInOrder
<1>7. \/ \E x \in Command : AcceptSubmission(s, x) \/ RepeatAnswer(s, x) \/ RefuseSubmission(s, x)
      \/ Reply(s, Snapshot(log)) /\ UNCHANGED <<share, relay>>
  BY <1>1 DEF Process
<1> QED
  BY <1>3, <1>4, <1>5, <1>6, <1>7

(* What a write that fails leaves in the file still agrees with the log.   *)
LEMMA FailWriteInOrder ==
  ASSUME RelayInv, OrderInv, RelayInv', NEW s \in Socket, FailWrite(s)
  PROVE  OrderInv' /\ Simulates
<1> DEFINE x == Head(inbox[s]).command
<1>1. x \in Command /\ log \in Seq(Command)
  BY TakeFacts DEF FailWrite, RelayInv, RelayTypeOK, ShareTypeOK
<1> HIDE DEF x
<1>2. /\ FailSubmission(s, x) /\ UNCHANGED <<log, queue, link, welcomed, page>>
      /\ x \notin Range(log) /\ disk' \in {disk, Append(log, x)}
  BY DEF FailWrite, FailSubmission, relay, replica, x
<1>3. /\ Rejected(x) \in ToClient /\ Truthful(Rejected(x), log) /\ ~Bears(Rejected(x))
      /\ Reply(s, Rejected(x))
  BY <1>1, <1>2, MessageTypes, TrueMessages DEF FailSubmission
<1>4. LogsAgree'
  <2>1. CASE disk' = disk
    BY <1>2, <2>1, SameLogs DEF share
  <2>2. CASE disk' = Append(log, x)
    <3>1. /\ Append(log, x) \in Seq(Command) /\ Precedes(log, Append(log, x))
          /\ IsInjective(Append(log, x))
      BY <1>1, <1>2, AppendPrecedes, AppendInjects DEF OrderInv, LogsAgree
    <3>2. KeepsDurable(log, Append(log, x))
      BY <1>1, <3>1, KeepsDurableItself
    <3> QED
      BY <1>2, <2>2, <3>1, <3>2 DEF OrderInv, LogsAgree
  <2> QED
    BY <1>2, <2>1, <2>2
<1> QED
  BY <1>2, <1>3, <1>4, SameQueue, ReplyInOrder

LEMMA ForwardInOrder ==
  ASSUME RelayInv, OrderInv, RelayInv', NEW s \in Socket, Forward(s)
  PROVE  OrderInv' /\ Simulates
<1>1. /\ UNCHANGED <<log, link, welcomed, page>> /\ LogsAgree' /\ log \in Seq(Command)
      /\ queue \in [Socket -> Seq(ToClient)]
  BY SameLogs DEF Forward, share, replica, RelayInv, RelayTypeOK, ShareTypeOK, ChannelTypeOK
<1>2. CASE Reply(s, Snapshot(log)) /\ UNCHANGED queue
  <2>1. /\ Snapshot(log) \in ToClient /\ Truthful(Snapshot(log), log)
        /\ Snapshot(log).page = log
    BY <1>1, MessageTypes, TrueMessages
  <2> QED
    BY <1>1, <1>2, <2>1, SameQueue, ReplyInOrder
<1>3. CASE /\ queue[s] # <<>> /\ Reply(s, Head(queue[s]))
           /\ queue' = [queue EXCEPT ![s] = Tail(@)]
  <2> DEFINE m == Head(queue[s])
  <2>1. m \in ToClient /\ m \in Range(queue[s]) /\ Range(Tail(queue[s])) \subseteq Range(queue[s])
    BY <1>1, <1>3, TailRange
  <2>2. Truthful(m, log) /\ ~Bears(m)
    BY <2>1 DEF OrderInv, MessagesAgree
  <2>3. \A t \in Socket : QueuedWell(t)
    BY <1>1, <1>3, <2>1 DEF QueuedWell
  <2>4. Reply(s, m)
    BY <1>3
  <2> HIDE DEF m
  <2> QED
    BY <1>1, <2>1, <2>2, <2>3, <2>4, ReplyInOrder
<1> QED
  BY <1>2, <1>3 DEF Forward

(* The strokes of a closed connection are finished at the end of the log,  *)
(* or only in the file, or not at all.                                     *)
LEMMA CloseInOrder ==
  ASSUME RelayInv, OrderInv, RelayInv', NEW s \in Socket, Close(s)
  PROVE  OrderInv' /\ Simulates
<1>1. /\ log \in Seq(Command) /\ IsInjective(log) /\ ChannelTypeOK /\ HandlerTypeOK
      /\ log' \in Seq(Command)
  BY DEF RelayInv, RelayTypeOK, ShareTypeOK, OrderInv, LogsAgree
<1>2. wire' = wire /\ UNCHANGED <<link, welcomed, page>> /\ serving' \in SUBSET Socket
  BY <1>1 DEF Close, replica, HandlerTypeOK
<1>3. PICK order \in SetToSeqs(begun[s] \cap InProgress(log)) :
       \/ /\ order # <<>>
          /\ log' = Finished(log, order) /\ disk' = log'
          /\ Broadcast(serving', [i \in DOMAIN order |-> Applied(log', Len(log) + i)]
                                   \o <<Digest(log')>>)
       \/ /\ disk' \in {disk, Finished(log, order)} /\ UNCHANGED log
          /\ Broadcast(serving', <<>>)
  BY DEF Close
<1>4. /\ Finished(log, order) \in Seq(Command) /\ Precedes(log, Finished(log, order))
      /\ Len(Finished(log, order)) = Len(log) + Len(order) /\ order \in Seq(Command)
      /\ IsInjective(Finished(log, order))
  BY <1>1, FinishedIsLonger
<1>5. CASE /\ order # <<>> /\ log' = Finished(log, order) /\ disk' = log'
           /\ Broadcast(serving', [i \in DOMAIN order |-> Applied(log', Len(log) + i)]
                                    \o <<Digest(log')>>)
  <2> DEFINE first == [i \in DOMAIN order |-> Applied(log', Len(log) + i)]
             d     == Digest(log')
  <2>1. /\ Len(order) \in Nat \ {0} /\ DOMAIN order = 1 .. Len(order) /\ Len(log) \in Nat
        /\ DOMAIN log' = 1 .. Len(log) + Len(order)
    BY <1>1, <1>4, <1>5, LenProperties, EmptySeq
  <2>2. ASSUME NEW i \in 1 .. Len(order)
        PROVE  LET a == Applied(log', Len(log) + i)
               IN  a \in ToClient /\ Truthful(a, log') /\ ~Bears(a)
    <3>1. Len(log) + i \in DOMAIN log'
      BY <2>1
    <3> QED
      BY <1>1, <3>1, MessageTypes, TrueMessages
  <2>3. /\ first \in [1 .. Len(order) -> ToClient]
        /\ \A m \in Range(first) : Truthful(m, log') /\ ~Bears(m)
    BY <2>1, <2>2 DEF Range
  <2>4. d \in ToClient /\ Truthful(d, log') /\ ~Bears(d)
    BY <1>1, MessageTypes, TrueMessages
  <2> DEFINE second == <<d>>
  <2> HIDE DEF first, d
  <2>5. first \in Seq(ToClient) /\ second \in Seq(ToClient) /\ Range(second) = {d}
    BY <2>1, <2>3, <2>4 DEF Range
  <2>6. Broadcast(serving', first \o second)
    BY <1>5 DEF first, second, d
  <2> HIDE DEF second
  <2>7. first \o second \in Seq(ToClient) /\ Range(first \o second) = Range(first) \cup {d}
    BY <2>5, ConcatProperties, RangeConcatenation
  <2>8. \A m \in Range(first \o second) : Truthful(m, log') /\ ~Bears(m)
    BY <2>3, <2>4, <2>7
  <2>9. \A t \in Socket : SentWell(t) /\ QueuedWell(t)
    BY <1>1, <1>2, <2>6, <2>7, <2>8, BroadcastQueuesWell DEF SentWell
  <2>10. LogsAgree'
    <3>1. KeepsDurable(log', log')
      BY <1>1, PrecedesFacts, KeepsDurableItself
    <3> QED
      BY <1>4, <1>5, <3>1, KeepsDurableDef DEF LogsAgree
  <2>11. Precedes(log, log') /\ log # log' /\ IsInjective(log')
    BY <1>1, <1>4, <1>5, <2>1
  <2> QED
    BY <1>1, <1>2, <2>9, <2>10, <2>11, HandlerKeepsOrder, ApplySimulates
<1>6. CASE /\ disk' \in {disk, Finished(log, order)} /\ UNCHANGED log
           /\ Broadcast(serving', <<>>)
  <2>1. LogsAgree'
    <3>1. CASE disk' = disk
      BY <1>6, <3>1, SameLogs DEF share
    <3>2. CASE disk' = Finished(log, order)
      <4>1. KeepsDurable(log, Finished(log, order))
        BY <1>1, <1>4, KeepsDurableItself
      <4> QED
        BY <1>1, <1>4, <1>6, <3>2, <4>1 DEF LogsAgree
    <3> QED
      BY <1>6, <3>1, <3>2
  <2>2. <<>> \in Seq(ToClient) /\ Range(<<>>) = {}
    BY EmptySeq DEF Range
  <2>3. \A t \in Socket : SentWell(t) /\ QueuedWell(t)
    BY <1>1, <1>2, <1>6, <2>2, BroadcastQueuesWell DEF SentWell
  <2>4. Precedes(log, log')
    BY <1>1, <1>6, PrecedesFacts
  <2> QED
    BY <1>2, <1>6, <2>1, <2>3, <2>4, HandlerKeepsOrder, StutterSimulates
<1> QED
  BY <1>3, <1>5, <1>6

(* A restart goes on from the file, which has what was durable.            *)
LEMMA CrashInOrder ==
  ASSUME RelayInv, OrderInv, RelayInv', Crash
  PROVE  OrderInv' /\ Simulates
<1>1. log \in Seq(Command) /\ disk \in Seq(Command) /\ IsInjective(disk) /\ KeepsDurable(log, disk)
  BY DEF RelayInv, RelayTypeOK, ShareTypeOK, OrderInv, LogsAgree
<1>2. PICK order \in SetToSeqs(InProgress(disk)) : log' = Finished(disk, order)
  BY DEF Crash
<1>3. log' \in Seq(Command) /\ Precedes(disk, log') /\ IsInjective(log') /\ disk' = log'
  BY <1>1, <1>2, FinishedIsLonger DEF Crash
<1>4. KeepsDurable(log, log') /\ KeepsDurable(log', log')
  BY <1>1, <1>3, KeepsDurableFurther, KeepsDurableItself, PrecedesFacts
<1>5. LogsAgree'
  BY <1>3, <1>4, KeepsDurableDef DEF LogsAgree
<1>6. /\ \A s \in Socket : queue'[s] = <<>> /\ wire'[s] = <<>>
      /\ Range(<<>>) = {} /\ DOMAIN <<>> = {} /\ welcomed' = {}
  BY DEF Crash, Range
<1>7. MessagesAgree' /\ PagesAreInOrder' /\ ViewsAgree'
  BY <1>6 DEF MessagesAgree, PagesAreInOrder, ViewsAgree, NotOvertaken
<1> QED
  BY <1>3, <1>4, <1>5, <1>6, <1>7, RestartSimulates DEF OrderInv

-----------------------------------------------------------------------------
(* The connections.                                                        *)

(* A connection begins with the page as it is.                             *)
LEMMA ConnectInOrder ==
  ASSUME RelayInv, OrderInv, RelayInv', NEW c \in Client, NEW s \in Socket, Connect(c, s)
  PROVE  OrderInv' /\ Simulates
<1> DEFINE w == Welcome(log)
<1>1. /\ log \in Seq(Command) /\ wire \in [Socket -> Seq(ToClient)]
      /\ link \in [Client -> SUBSET Socket]
  BY DEF RelayInv, RelayTypeOK, ShareTypeOK, ChannelTypeOK, HandlerTypeOK
<1>2. w \in ToClient /\ Truthful(w, log) /\ w.page = log
  BY <1>1, MessageTypes, TrueMessages
<1>3. /\ wire' = [wire EXCEPT ![s] = <<w>>] /\ link' = [link EXCEPT ![c] = {s}]
      /\ UNCHANGED <<log, queue, welcomed, page>> /\ LogsAgree'
      /\ link[c] = {} /\ s \notin Linked
  BY SameLogs DEF Connect, share, replica
<1> HIDE DEF w
<1>4. Range(<<w>>) = {w} /\ DOMAIN <<w>> = {1}
  BY DEF Range
<1>5. MessagesAgree'
  BY <1>1, <1>2, <1>3, <1>4 DEF MessagesAgree, OrderInv
<1>6. PagesAreInOrder'
  <2>1. NotOvertaken(<<w>>)
    BY <1>4 DEF NotOvertaken
  <2> QED
    BY <1>1, <1>3, <2>1 DEF PagesAreInOrder, OrderInv
<1>7. ViewsAgree'
  <2> SUFFICES ASSUME NEW d \in welcomed
               PROVE  /\ Precedes(page[d], log)
                      /\ \A t \in link'[d] : \A m \in Range(wire'[t]) :
                           Bears(m) => Len(page[d]) <= Len(m.page)
    BY <1>3 DEF ViewsAgree
  <2>1. d \in Client /\ Precedes(page[d], log)
    BY DEF OrderInv, ViewsAgree
  <2>2. CASE d = c
    BY <1>1, <1>2, <1>3, <1>4, <2>1, <2>2 DEF Precedes
  <2>3. CASE d # c
    <3>1. link'[d] = link[d] /\ \A t \in link[d] : t \in Socket /\ wire'[t] = wire[t]
      BY <1>1, <1>3, <2>1, <2>3 DEF Linked
    <3> QED
      BY <2>1, <3>1 DEF OrderInv, ViewsAgree
  <2> QED
    BY <2>2, <2>3
<1> QED
  BY <1>3, <1>5, <1>6, <1>7, StutterSimulates DEF OrderInv

LEMMA DropInOrder ==
  ASSUME RelayInv, OrderInv, RelayInv', NEW c \in Client, Drop(c)
  PROVE  OrderInv' /\ Simulates
<1>1. /\ log \in Seq(Command) /\ wire \in [Socket -> Seq(ToClient)]
      /\ link \in [Client -> SUBSET Socket]
  BY DEF RelayInv, RelayTypeOK, ShareTypeOK, ChannelTypeOK, HandlerTypeOK
<1>2. PICK s \in link[c] : wire' = [wire EXCEPT ![s] = <<>>]
  BY DEF Drop
<1>3. /\ link' = [link EXCEPT ![c] = {}] /\ welcomed' = welcomed \ {c}
      /\ UNCHANGED <<log, queue, page>> /\ LogsAgree'
  BY SameLogs DEF Drop, share, relay, replica
<1>4. Range(<<>>) = {} /\ DOMAIN <<>> = {} /\ NotOvertaken(<<>>)
  BY DEF Range, NotOvertaken
<1>5. \A t \in Socket : wire'[t] = wire[t] \/ wire'[t] = <<>>
  BY <1>1, <1>2
<1>6. MessagesAgree' /\ PagesAreInOrder'
  BY <1>3, <1>4, <1>5 DEF MessagesAgree, PagesAreInOrder, OrderInv
<1>7. ViewsAgree'
  <2>1. \A d \in welcomed' : d \in welcomed /\ d \in Client /\ link'[d] = link[d]
    BY <1>1, <1>3 DEF OrderInv
  <2> QED
    BY <1>1, <1>3, <1>4, <1>5, <2>1 DEF ViewsAgree, OrderInv
<1> QED
  BY <1>3, <1>6, <1>7, PartSimulates DEF OrderInv

(* What only moves commands around changes nothing that is shown.          *)
LEMMA QuietInOrder ==
  ASSUME OrderInv, UNCHANGED <<share, queue, wire, link, welcomed, page>>
  PROVE  OrderInv' /\ Simulates
<1>1. LogsAgree' /\ log' = log
  BY SameLogs DEF share
<1> QED
  BY <1>1, StutterSimulates DEF OrderInv, MessagesAgree, PagesAreInOrder, ViewsAgree

LEMMA TransmitAndDrawInOrder ==
  ASSUME OrderInv, (\E c \in Client : Transmit(c)) \/ Draw
  PROVE  OrderInv' /\ Simulates
<1>1. UNCHANGED <<share, queue, wire, link, welcomed, page>>
  BY DEF Transmit, Draw, BeginStroke, EndStroke, Edit, Issue, relay, replica
<1> QED
  BY <1>1, QuietInOrder

-----------------------------------------------------------------------------
(* The clients.                                                            *)

(* A client that takes a message shows what it showed, or a page that the  *)
(* message reaches.                                                        *)
LEMMA ReceiveInOrder ==
  ASSUME RelayInv, OrderInv, RelayInv', NEW c \in Client, NEW type, NEW m, Receive(c, type, m),
         \A d \in Client \ {c} : page'[d] = page[d],
         welcomed' \in {welcomed, welcomed \cup {c}},
         c \in welcomed' =>
           \/ c \in welcomed /\ page'[c] = page[c]
           \/ Truthful(m, log) => /\ Precedes(page'[c], log) /\ Len(page'[c]) = Reaches(m)
                                  /\ Bears(m) \/ Len(page[c]) <= Len(page'[c])
  PROVE  OrderInv' /\ Simulates
<1>1. /\ log \in Seq(Command) /\ wire \in [Socket -> Seq(ToClient)]
      /\ link \in [Client -> SUBSET Socket] /\ \A s, t \in link[c] : s = t
      /\ page \in [Client -> Seq(Command)] /\ page' \in [Client -> Seq(Command)]
  BY DEF RelayInv, RelayTypeOK, ShareTypeOK, ChannelTypeOK, HandlerTypeOK, ClientTypeOK
<1>2. PICK s \in link[c] : wire[s] # <<>> /\ Head(wire[s]) = m
  BY DEF Receive
<1>3. s \in Socket /\ link[c] = {s}
  BY <1>1
<1>4. /\ wire' = [wire EXCEPT ![s] = Tail(@)] /\ UNCHANGED <<log, queue, link>> /\ LogsAgree'
  BY <1>1, <1>3, SameLogs DEF Receive, share, relay
<1>5. /\ Range(Tail(wire[s])) \subseteq Range(wire[s]) /\ m \in Range(wire[s])
      /\ NotOvertaken(Tail(wire[s])) /\ m \in ToClient /\ Truthful(m, log)
      /\ \A x \in Range(Tail(wire[s])) : Bears(x) => Reaches(m) <= Len(x.page)
  <2>1. wire[s] \in Seq(ToClient) /\ NotOvertaken(wire[s])
    BY <1>1, <1>3 DEF OrderInv, PagesAreInOrder
  <2>2. /\ Range(Tail(wire[s])) \subseteq Range(wire[s]) /\ m \in Range(wire[s])
        /\ m \in ToClient
    BY <1>2, <2>1, TailRange
  <2> QED
    BY <1>2, <1>3, <2>1, <2>2, TakenInOrder DEF OrderInv, MessagesAgree
<1>6. \A t \in Socket : Range(wire'[t]) \subseteq Range(wire[t]) /\ NotOvertaken(wire'[t])
  BY <1>1, <1>4, <1>5 DEF OrderInv, PagesAreInOrder
<1>7. MessagesAgree' /\ PagesAreInOrder'
  BY <1>4, <1>6 DEF MessagesAgree, PagesAreInOrder, OrderInv
<1>8. /\ c \in welcomed' => Precedes(page'[c], log)
      /\ c \in welcomed => Len(page[c]) <= Len(page'[c])
      /\ c \in welcomed' => \A x \in Range(Tail(wire[s])) : Bears(x) => Len(page'[c]) <= Len(x.page)
  <2>1. CASE c \in welcomed /\ page'[c] = page[c]
    <3>1. Len(page[c]) <= Len(page'[c])
      BY <1>1, <2>1, SeqFacts
    <3> QED
      BY <1>3, <1>5, <2>1, <3>1 DEF OrderInv, ViewsAgree
  <2>2. CASE /\ Precedes(page'[c], log) /\ Len(page'[c]) = Reaches(m)
             /\ Bears(m) \/ Len(page[c]) <= Len(page'[c])
    <3>1. c \in welcomed => Len(page[c]) <= Len(page'[c])
      <4>1. CASE Bears(m)
        <5>1. Reaches(m) = Len(m.page)
          BY <4>1 DEF Reaches, Bears
        <5> QED
          BY <1>3, <1>5, <2>2, <4>1, <5>1 DEF OrderInv, ViewsAgree
      <4> QED
        BY <2>2, <4>1
    <3> QED
      BY <1>5, <2>2, <3>1
  <2>3. CASE c \notin welcomed'
    BY <2>3
  <2> QED
    BY <1>5, <2>1, <2>2, <2>3
<1>9. ViewsAgree'
  <2> SUFFICES ASSUME NEW d \in welcomed'
               PROVE  /\ Precedes(page'[d], log)
                      /\ \A t \in link[d] : \A x \in Range(wire'[t]) :
                           Bears(x) => Len(page'[d]) <= Len(x.page)
    BY <1>4 DEF ViewsAgree
  <2>1. CASE d = c
    BY <1>1, <1>3, <1>4, <1>8, <2>1
  <2>2. CASE d # c
    <3>1. d \in welcomed /\ d \in Client /\ page'[d] = page[d] /\ link[d] \subseteq Socket
      BY <1>1, <2>2 DEF OrderInv
    <3> QED
      BY <1>6, <3>1 DEF OrderInv, ViewsAgree
  <2> QED
    BY <2>1, <2>2
<1>10. Simulates
  BY <1>1, <1>4, <1>8, ShowSimulates
<1> QED
  BY <1>4, <1>7, <1>9, <1>10 DEF OrderInv

LEMMA HandleInOrder ==
  ASSUME RelayInv, OrderInv, RelayInv', NEW c \in Client, Handle(c)
  PROVE  OrderInv' /\ Simulates
<1>1. page \in [Client -> Seq(Command)] /\ log \in Seq(Command)
  BY DEF RelayInv, RelayTypeOK, ShareTypeOK, ClientTypeOK
<1>2. PICK m \in Arrived(c) :
        \/ ReceiveWelcome(c, m) \/ ReceiveApplied(c, m) \/ ReceiveSnapshot(c, m)
        \/ ReceiveDigest(c, m) \/ ReceiveRejected(c, m)
  BY DEF Handle
<1>3. CASE ReceiveWelcome(c, m)
  <2>1. /\ Receive(c, "Welcome", m) /\ m.type = "Welcome"
        /\ page' = [page EXCEPT ![c] = m.page] /\ welcomed' = welcomed \cup {c}
    BY <1>3 DEF ReceiveWelcome, Receive, ReplaceSnapshot
  <2>2. Bears(m) /\ page'[c] = m.page /\ Reaches(m) = Len(m.page)
    BY <1>1, <2>1 DEF Bears, Reaches
  <2>3. Truthful(m, log) => Precedes(page'[c], log)
    BY <2>2 DEF Truthful
  <2>4. \A d \in Client \ {c} : page'[d] = page[d]
    BY <1>1, <2>1
  <2> QED
    BY <2>1, <2>2, <2>3, <2>4, ReceiveInOrder
<1>4. CASE ReceiveSnapshot(c, m)
  <2>1. /\ Receive(c, "Snapshot", m) /\ m.type = "Snapshot"
        /\ page' = [page EXCEPT ![c] = m.page] /\ welcomed' = welcomed
    BY <1>4 DEF ReceiveSnapshot, Receive, ReplaceSnapshot
  <2>2. Bears(m) /\ page'[c] = m.page /\ Reaches(m) = Len(m.page)
    BY <1>1, <2>1 DEF Bears, Reaches
  <2>3. Truthful(m, log) => Precedes(page'[c], log)
    BY <2>2 DEF Truthful
  <2>4. \A d \in Client \ {c} : page'[d] = page[d]
    BY <1>1, <2>1
  <2> QED
    BY <2>1, <2>2, <2>3, <2>4, ReceiveInOrder
<1>5. CASE ReceiveApplied(c, m)
  <2>1. /\ Receive(c, "Applied", m) /\ m.type = "Applied" /\ welcomed' = welcomed
        /\ page' = IF m.revision = Len(page[c]) + 1
                   THEN [page EXCEPT ![c] = Append(@, m.command)] ELSE page
    BY <1>5 DEF ReceiveApplied, Receive, ApplyNext
  <2>2. CASE page' = page
    BY <2>1, <2>2, ReceiveInOrder
  <2>3. CASE /\ m.revision = Len(page[c]) + 1
             /\ page' = [page EXCEPT ![c] = Append(@, m.command)]
    <3>1. /\ page'[c] = Append(page[c], m.command) /\ Reaches(m) = Len(page[c]) + 1
          /\ \A d \in Client \ {c} : page'[d] = page[d]
      BY <1>1, <2>1, <2>3 DEF Reaches
    <3>2. ASSUME c \in welcomed, Truthful(m, log)
          PROVE  /\ Precedes(page'[c], log) /\ Len(page'[c]) = Reaches(m)
                 /\ Len(page[c]) <= Len(page'[c])
      <4>1. /\ m.revision \in DOMAIN log /\ log[m.revision] = m.command
            /\ Precedes(page[c], log)
        BY <2>1, <3>2 DEF Truthful, OrderInv, ViewsAgree
      <4>2. /\ page[c] \in Seq(Command) /\ Len(page[c]) \in Nat /\ DOMAIN log = 1 .. Len(log)
            /\ Len(log) \in Nat /\ DOMAIN page[c] = 1 .. Len(page[c])
            /\ m.command \in Command
        BY <1>1, <4>1, SeqFacts
      <4> DEFINE p == page[c]
                 q == Append(p, m.command)
      <4>3. /\ Len(q) = Len(p) + 1 /\ DOMAIN q = 1 .. Len(p) + 1
            /\ \A i \in 1 .. Len(p) : q[i] = p[i]
            /\ q[Len(p) + 1] = m.command
        BY <4>2, AppendFacts, AppendPrecedes, SeqFacts
      <4>4. q = page'[c]
        BY <3>1
      <4>5. Len(p) \in Nat /\ DOMAIN p = 1 .. Len(p) /\ m.revision = Len(p) + 1
            /\ Precedes(p, log) /\ Reaches(m) = Len(p) + 1
        BY <2>3, <3>1, <4>1, <4>2
      <4> HIDE DEF p, q
      <4>6. Precedes(q, log)
        BY <4>1, <4>2, <4>3, <4>5 DEF Precedes
      <4>7. Len(q) = Reaches(m) /\ Len(p) <= Len(q)
        BY <4>3, <4>5
      <4> QED
        BY <4>4, <4>6, <4>7 DEF p
    <3> QED
      BY <2>1, <3>1, <3>2, ReceiveInOrder
  <2> QED
    BY <2>1, <2>2, <2>3
<1>6. CASE ReceiveDigest(c, m) \/ ReceiveRejected(c, m)
  <2>1. /\ UNCHANGED <<page, welcomed>>
        /\ Receive(c, "Digest", m) \/ Receive(c, "Rejected", m)
    BY <1>6 DEF ReceiveDigest, ReceiveRejected
  <2> QED
    BY <2>1, ReceiveInOrder
<1> QED
  BY <1>2, <1>3, <1>4, <1>5, <1>6

-----------------------------------------------------------------------------
(* The refinement.                                                         *)

LEMMA InitInOrder == Init => OrderInv /\ Ordered!Init
<1> SUFFICES ASSUME Init  PROVE OrderInv /\ Ordered!Init
  OBVIOUS
<1>1. Range(<<>>) = {} /\ DOMAIN <<>> = {} /\ Len(<<>>) = 0
  BY DEF Range
<1>2. /\ log = <<>> /\ disk = <<>> /\ welcomed = Client
      /\ \A s \in Socket : queue[s] = <<>> /\ wire[s] = <<>>
      /\ \A c \in Client : page[c] = <<>>
      /\ link \in [Client -> SUBSET Socket]
  <2>1. PICK home \in [Client -> Socket] : link = [c \in Client |-> {home[c]}]
    BY DEF Init
  <2>2. link \in [Client -> SUBSET Socket]
    BY <2>1
  <2> QED
    BY <2>2 DEF Init
<1>3. LogsAgree
  BY <1>1, <1>2, KeepsDurableDef DEF LogsAgree, IsInjective
<1>4. MessagesAgree /\ PagesAreInOrder
  BY <1>1, <1>2 DEF MessagesAgree, PagesAreInOrder, NotOvertaken
<1>5. ViewsAgree
  BY <1>1, <1>2 DEF ViewsAgree, Precedes
<1>6. Ordered!Init
  BY <1>2 DEF Ordered!Init
<1> QED
  BY <1>2, <1>3, <1>4, <1>5, <1>6 DEF OrderInv

LEMMA NextInOrder ==
  RelayInv /\ RelayInv' /\ OrderInv /\ [Next]_vars => OrderInv' /\ Simulates
<1> SUFFICES ASSUME RelayInv, RelayInv', OrderInv, [Next]_vars  PROVE OrderInv' /\ Simulates
  OBVIOUS
<1>1. CASE Work
  <2>1. ASSUME NEW s \in Socket, Process(s) \/ Forward(s) \/ Close(s)
        PROVE  OrderInv' /\ Simulates
    BY <2>1, ProcessInOrder, ForwardInOrder, CloseInOrder
  <2>2. ASSUME NEW c \in Client, Transmit(c) \/ Handle(c) \/ \E s \in Socket : Connect(c, s)
        PROVE  OrderInv' /\ Simulates
    BY <2>2, TransmitAndDrawInOrder, HandleInOrder, ConnectInOrder
  <2> QED
    BY <1>1, <2>1, <2>2 DEF Work
<1>2. CASE Draw
  BY <1>2, TransmitAndDrawInOrder
<1>3. CASE Fault
  BY <1>3, CrashInOrder, DropInOrder, FailWriteInOrder DEF Fault
<1>4. CASE UNCHANGED vars
  BY <1>4, QuietInOrder DEF vars, share, relay, traffic, replica
<1> QED
  BY <1>1, <1>2, <1>3, <1>4 DEF Next

(* The relay implements OrderedLog, for any clients, sockets, number of    *)
(* commands and capacity of the broadcast channel: whatever overtakes what *)
(* between the channel and the direct answers of a handler, whatever is    *)
(* lost, sent again, skipped by a slow handler or cut off by a restart, a  *)
(* client that is joined shows a prefix of the log that never shrinks, no  *)
(* command is applied twice, and durable commands keep their order.        *)
THEOREM RelayImplementsOrderedLog == Spec => ImplementsOrderedLog
<1>1. Init => RelayInv /\ OrderInv /\ Ordered!Init
  BY InitEstablishesInv, InitInOrder
<1>2. RelayInv /\ OrderInv /\ [Next]_vars
        => RelayInv' /\ OrderInv' /\ [Ordered!Next]_(Ordered!vars)
  BY NextKeepsInv, NextInOrder DEF Simulates
<1> QED
  BY <1>1, <1>2, PTL DEF Spec, ImplementsOrderedLog, Ordered!Spec
=============================================================================
