--------------------------- MODULE TelegramBotProofs ---------------------------
(* Theorems of TelegramBot: an update that the offset is past was answered, *)
(* one that was answered as done was carried out, and what is called        *)
(* revoked is revoked, whatever fails, times out or restarts. They hold for *)
(* any number of updates and shares.                                        *)
EXTENDS TelegramBot, TLAPS

ShareRecord == [source : Nat, share : Nat, revoked : BOOLEAN]
BotState    == [next : Nat, shares : Seq(ShareRecord)]

(* The states of the bot, in memory and in its file, which is never ahead, *)
(* and the steps of the bot that have a share to register.                 *)
StateTypeOK ==
  /\ state \in BotState /\ stored \in BotState /\ created \in Nat
  /\ stored.next <= state.next
  /\ bot.step \in {"ask", "connect", "register"} => bot.share \in Nat

(* The answer comes before the offset.                                     *)
UpdatesAreAnswered ==
  /\ \A u \in 1 .. state.next - 1 : \E t \in told : t.update = u
  /\ bot.step = "advance" => \E t \in told : t.update = Now

(* Nothing else is asked under the id of a request for documents, by the   *)
(* same update or by another one.                                          *)
IsAbout(id, u) == \E k \in DocumentKind : id = RequestId(u, Suffix[k])
RequestsAreNamed ==
  \A id \in DOMAIN requests : \A u \in Nat :
    /\ \A k \in DocumentKind : requests[id] = OnDocuments(k, u) => IsAbout(id, u)
    /\ IsAbout(id, u) => \E k \in DocumentKind : requests[id] = OnDocuments(k, u)

(* From the tablet through the file of the response and the bot to the     *)
(* chat, what is said to be done is done.                                  *)
DoneIsDone ==
  /\ tablet.step = "respond" /\ tablet.result = "done" =>
       \A u \in Nat : IsAbout(tablet.id, u) => u \in carriedOut
  /\ \A id \in DOMAIN responses : responses[id] = "done" =>
       \A u \in Nat : IsAbout(id, u) => u \in carriedOut
  /\ bot.step = "reply" /\ bot.answer = "done" => Now \in carriedOut
  /\ \A t \in told : t.answer = "done" => t.update \in carriedOut

(* The relay revokes a share before the bot says so.                       *)
MarksAreReal(s) ==
  \A i \in DOMAIN s.shares : s.shares[i].revoked => s.shares[i].share \in revoked
RevokedIsRevoked ==
  /\ bot.step = "mark" => bot.share \in revoked
  /\ bot.step = "reply" /\ bot.answer = "revoked" => bot.share \in revoked
  /\ \A t \in told : t.answer = "revoked" => t.share \in revoked
  /\ MarksAreReal(state) /\ MarksAreReal(stored)

BotInv ==
  /\ StateTypeOK /\ UpdatesAreAnswered /\ RequestsAreNamed /\ DoneIsDone /\ RevokedIsRevoked

(* The files have names of the bot's requests, and the request that the    *)
(* tablet has taken up is still there.                                     *)
RequestIds == {RequestId(u, n) : u \in UpdateId, n \in Range(Suffix)}
FilesAreNamed ==
  /\ DOMAIN requests \cup DOMAIN responses \subseteq RequestIds
  /\ \A id \in DOMAIN responses : responses[id] \in {"done", "failed"}
  /\ tablet.step \in {"respond", "remove"} => tablet.id \in DOMAIN requests
  /\ tablet.step = "respond" => tablet.result \in {"done", "failed"}
  /\ tablet = Down => session.step = "none"

(* Whatever the bot is doing, it does for an update that was sent.         *)
Update == {Document(k) : k \in DocumentKind} \cup {Share} \cup {RevokeOf(s) : s \in Nat}
UpdatesAreSent ==
  /\ sent \in Seq(Update) /\ Len(sent) <= MaxUpdates
  /\ 1 <= stored.next /\ state.next <= Len(sent) + 1
  /\ bot.step # "ready" => Now <= Len(sent)

(* A share has a number only once the relay has created it, wherever that  *)
(* number goes: from the relay through the bot and the tablet, through the *)
(* chat and back.                                                          *)
Has(s, number) == \A i \in DOMAIN s.shares : s.shares[i].share \in number
SharesExist ==
  LET existing == 1 .. created
  IN  /\ revoked \subseteq existing /\ joined \subseteq existing
      /\ bot.step \in {"ask", "connect", "register", "mark"} => bot.share \in existing
      /\ bot.step = "reply" /\ bot.answer = "link" => bot.share \in existing
      /\ \A t \in told : t.answer = "link" => t.share \in existing
      /\ \A i \in DOMAIN sent : sent[i].kind = "revoke" => sent[i].share \in existing
      /\ Has(state, existing) /\ Has(stored, existing)
      /\ \A id \in DOMAIN requests : requests[id].operation = "connect" => requests[id].share \in existing

-----------------------------------------------------------------------------
(* No two requests have the same id: updates are ten apart, and suffixes   *)
(* are different digits.                                                   *)
LEMMA RequestIdsAreDistinct ==
  ASSUME NEW u \in Nat, NEW v \in Nat, NEW k \in DOMAIN Suffix, NEW l \in DOMAIN Suffix,
         RequestId(u, Suffix[k]) = RequestId(v, Suffix[l])
  PROVE  u = v /\ k = l
<1>1. Suffix[k] \in 1 .. 7 /\ Suffix[l] \in 1 .. 7
  BY DEF Suffix
<1>2. u * 10 + Suffix[k] = v * 10 + Suffix[l]
  BY DEF RequestId
<1>3. u = v /\ Suffix[k] = Suffix[l]
  BY <1>1, <1>2
<1> QED
  BY <1>3 DEF Suffix

(* Every request of the bot has its suffix.                                *)
LEMMA DocumentsHaveSuffixes == DocumentKind \cup {"prepare", "connect"} = DOMAIN Suffix
BY DEF DocumentKind, Suffix

(* Nothing was told, asked or revoked yet.                                 *)
LEMMA InitEstablishesBotInv == BotInit => BotInv
BY DEF BotInit, EmptyMailbox, BotInv, StateTypeOK, BotState, UpdatesAreAnswered, RequestsAreNamed,
   DoneIsDone, RevokedIsRevoked, MarksAreReal, Ready, Down, Doing

(* What is registered and marked is a state of the bot again.              *)
LEMMA SharesReplaced ==
  ASSUME NEW old \in BotState, NEW list \in Seq(ShareRecord)
  PROVE  LET s == [old EXCEPT !.shares = list]
         IN  s \in BotState /\ s.next = old.next /\ s.shares = list
BY DEF BotState

LEMMA RegisteredFacts ==
  ASSUME StateTypeOK, NEW s \in Nat
  PROVE  /\ Registered(s) \in BotState /\ Registered(s).next = state.next
         /\ MarksAreReal(state) => MarksAreReal(Registered(s))
<1> DEFINE new  == [source |-> Now, share |-> s, revoked |-> FALSE]
           list == Append(state.shares, new)
<1>1. state \in BotState /\ state.shares \in Seq(ShareRecord) /\ new \in ShareRecord
  BY DEF StateTypeOK, BotState, ShareRecord, Now
<1>2. list \in Seq(ShareRecord)
  BY <1>1
<1>3. \A i \in DOMAIN list : \/ i \in DOMAIN state.shares /\ list[i] = state.shares[i]
                            \/ list[i] = new
  BY <1>1
<1>4. Registered(s) = [state EXCEPT !.shares = list]
  BY DEF Registered
<1>5. ~new.revoked
  OBVIOUS
<1> HIDE DEF list, new
<1>6. Registered(s) \in BotState /\ Registered(s).next = state.next /\ Registered(s).shares = list
  BY <1>1, <1>2, <1>4, SharesReplaced
<1> QED
  BY <1>3, <1>5, <1>6 DEF MarksAreReal

(* Only what has the share's number is marked, so the relay must have      *)
(* revoked just that one.                                                  *)
LEMMA MarkedFacts ==
  ASSUME StateTypeOK, NEW s
  PROVE  /\ Marked(s) \in BotState /\ Marked(s).next = state.next
         /\ MarksAreReal(state) /\ s \in revoked => MarksAreReal(Marked(s))
<1> DEFINE list == [i \in DOMAIN state.shares |->
             IF i \in Position(s) THEN [state.shares[i] EXCEPT !.revoked = TRUE]
                                  ELSE state.shares[i]]
<1>1. state \in BotState /\ state.shares \in Seq(ShareRecord)
  BY DEF StateTypeOK, BotState
<1>2. Marked(s) = [state EXCEPT !.shares = list]
  BY DEF Marked
<1>3. ASSUME NEW i \in DOMAIN state.shares  PROVE list[i] \in ShareRecord
  <2>1. state.shares[i] \in ShareRecord
    BY <1>1
  <2>2. [state.shares[i] EXCEPT !.revoked = TRUE] \in ShareRecord
    BY <2>1 DEF ShareRecord
  <2> QED
    BY <2>1, <2>2
<1>4. \A i \in DOMAIN state.shares : i \in Position(s) => list[i].share = s
  BY <1>1 DEF Position, ShareRecord
<1>5. \A i \in DOMAIN state.shares : i \notin Position(s) => list[i] = state.shares[i]
  OBVIOUS
<1>6. list \in Seq(ShareRecord)
  <2>1. DOMAIN list = 1 .. Len(state.shares) /\ Len(state.shares) \in Nat
    BY <1>1
  <2>2. list \in [1 .. Len(state.shares) -> ShareRecord]
    BY <1>1, <1>3, <2>1
  <2> HIDE DEF list
  <2> QED
    BY <2>1, <2>2
<1>7. DOMAIN list = DOMAIN state.shares
  OBVIOUS
<1> HIDE DEF list
<1>8. Marked(s) \in BotState /\ Marked(s).next = state.next /\ Marked(s).shares = list
  BY <1>1, <1>2, <1>6, SharesReplaced
<1> QED
  BY <1>3, <1>4, <1>5, <1>7, <1>8 DEF MarksAreReal

-----------------------------------------------------------------------------
(* Each part is kept by every step. The steps that can disturb it come     *)
(* first, in groups by what they do to it; the others leave it alone.      *)

(* The steps of the chat and of the tablet, and those of the bot which     *)
(* change nothing but the mailbox, the tablet and what it does next.       *)
AwayFromBot == Send \/ OpenTablet \/ TabletStep \/ TabletStops
QuietStep ==
  \/ \E k \in DocumentKind : AskDocument(k) \/ AnswerDocument(k)
  \/ RefusePdf \/ AnnounceAgain \/ StartShare \/ FinishPrepare \/ RevokeNothing \/ Timeout

LEMMA StepsOfTheBot ==
  ASSUME [Next]_botVars
  PROVE  \/ AwayFromBot \/ QuietStep \/ UNCHANGED botVars
         \/ CreateShare \/ AskToConnect \/ FinishConnect \/ RegisterShare \/ RevokeShare
         \/ MarkRevoked \/ Reply \/ Advance \/ FailCall \/ BotCrash
BY DEF Next, BotStep, Fault, AwayFromBot, QuietStep, SendLibrary, OpenDocument, Export, ImportPdf,
   DocumentKind

LEMMA AwayFacts ==
  ASSUME AwayFromBot \/ UNCHANGED botVars
  PROVE  UNCHANGED <<bot, state, stored, created, revoked, told>>
BY DEF AwayFromBot, TabletStep, Send, OpenTablet, Execute, RespondTablet, RemoveAnswered,
   TabletStops, botVars, memory, atRelay

LEMMA QuietFacts ==
  ASSUME QuietStep
  PROVE  /\ UNCHANGED <<state, stored, created, revoked, told, carriedOut>>
         /\ bot'.step \in {"document", "prepare", "create", "reply", "ready"}
         /\ bot'.step = "reply" => bot'.answer # "revoked"
<1>1. ASSUME NEW k \in DocumentKind, AskDocument(k)  PROVE bot'.step = "document"
  BY <1>1 DEF AskDocument, Ask, Waiting
<1>2. CASE \E k \in DocumentKind : AskDocument(k)
  BY <1>1, <1>2 DEF AskDocument, memory, atRelay
<1>3. ASSUME NEW k \in DocumentKind, AnswerDocument(k)
      PROVE  bot'.step = "reply" /\ bot'.answer \in {"done", "failed"}
  BY <1>3 DEF AnswerDocument, Replying
<1>4. CASE \E k \in DocumentKind : AnswerDocument(k)
  BY <1>3, <1>4 DEF AnswerDocument, memory, atRelay
<1>5. CASE RefusePdf \/ RevokeNothing
  BY <1>5 DEF RefusePdf, RevokeNothing, Replying, memory, atRelay
<1>6. CASE AnnounceAgain
  <2>1. bot'.step = "reply" /\ bot'.answer = "link"
    BY <1>6 DEF AnnounceAgain, Replying
  <2> QED
    BY <1>6, <2>1 DEF AnnounceAgain, memory, atRelay
<1>7. CASE StartShare \/ FinishPrepare \/ Timeout
  BY <1>7 DEF StartShare, FinishPrepare, Timeout, Ask, Replying, Doing, Ready, memory, atRelay
<1> QED
  BY <1>2, <1>4, <1>5, <1>6, <1>7 DEF QuietStep

(* The file of the bot is never ahead of its memory.                       *)
LEMMA StateTypeIsKept == BotInv /\ [Next]_botVars => StateTypeOK'
<1> SUFFICES ASSUME BotInv, [Next]_botVars  PROVE StateTypeOK'
  OBVIOUS
<1> USE DEF BotInv
<1> DEFINE ShareToRegister == bot'.step \in {"ask", "connect", "register"} => bot'.share \in Nat
<1>1. CASE UNCHANGED <<state, stored>> /\ created' \in {created, created + 1} /\ ShareToRegister
  BY <1>1 DEF StateTypeOK
<1>2. CASE /\ bot.step = "register" /\ state' = Registered(bot.share)
           /\ stored' \in {stored, state'} /\ UNCHANGED created /\ ShareToRegister
  BY <1>2, RegisteredFacts DEF StateTypeOK, BotState
<1>3. CASE /\ \E s : state' = Marked(s)
           /\ stored' \in {stored, state'} /\ UNCHANGED created /\ ShareToRegister
  BY <1>3, MarkedFacts DEF StateTypeOK, BotState
<1>4. CASE Advance
  BY <1>4 DEF Advance, atRelay, Ready, StateTypeOK, BotState
<1>5. CASE BotCrash
  BY <1>5 DEF BotCrash, atRelay, Ready, StateTypeOK, BotState
<1>6. CASE RegisterShare \/ MarkRevoked
  BY <1>2, <1>3, <1>6 DEF RegisterShare, MarkRevoked, atRelay, Replying
<1>7. CASE FailCall
  BY <1>1, <1>2, <1>3, <1>7 DEF FailCall, atRelay, memory, Ready
<1>8. CASE CreateShare
  BY <1>1, <1>8 DEF CreateShare, With, StateTypeOK, memory
<1>9. CASE AskToConnect \/ FinishConnect
  BY <1>1, <1>9 DEF AskToConnect, FinishConnect, Ask, With, Ready, memory, atRelay, StateTypeOK
<1>10. CASE RevokeShare \/ Reply
  BY <1>1, <1>10 DEF RevokeShare, Reply, With, Doing, memory, atRelay
<1>11. CASE AwayFromBot \/ UNCHANGED botVars
  BY <1>1, <1>11, AwayFacts DEF StateTypeOK
<1>12. CASE QuietStep
  BY <1>1, <1>12, QuietFacts
<1> QED
  BY <1>4, <1>5, <1>6, <1>7, <1>8, <1>9, <1>10, <1>11, <1>12, StepsOfTheBot

(* The offset moves past an update when its reply was sent, and a bot that *)
(* stops goes back, never forth.                                           *)
LEMMA UpdatesStayAnswered == BotInv /\ [Next]_botVars => UpdatesAreAnswered'
<1> SUFFICES ASSUME BotInv, [Next]_botVars  PROVE UpdatesAreAnswered'
  OBVIOUS
<1>1. /\ state \in BotState /\ stored \in BotState /\ stored.next <= state.next
      /\ state.next \in Nat /\ stored.next \in Nat
      /\ \A u \in 1 .. state.next - 1 : \E t \in told : t.update = u
  BY DEF BotInv, StateTypeOK, BotState, UpdatesAreAnswered
<1>2. CASE state'.next = state.next /\ told \subseteq told' /\ bot'.step # "advance"
  BY <1>1, <1>2 DEF UpdatesAreAnswered
<1>3. CASE Reply
  <2> DEFINE new == [update |-> Now, answer |-> bot.answer, share |-> bot.share]
  <2>1. told' = told \cup {new} /\ new.update = state.next
    BY <1>3 DEF Reply, Now
  <2> HIDE DEF new
  <2>2. told \subseteq told' /\ \E t \in told' : t.update = state.next
    BY <2>1
  <2>3. UNCHANGED state
    BY <1>3 DEF Reply, memory
  <2> QED
    BY <1>1, <2>2, <2>3 DEF UpdatesAreAnswered, Now
<1>4. CASE Advance
  <2>1. state'.next = state.next + 1 /\ bot'.step = "ready" /\ UNCHANGED told
    BY <1>1, <1>4 DEF Advance, Ready, BotState
  <2>2. \E t \in told : t.update = state.next
    BY <1>4 DEF Advance, BotInv, UpdatesAreAnswered, Now
  <2> QED
    BY <1>1, <2>1, <2>2 DEF UpdatesAreAnswered
<1>5. CASE BotCrash
  BY <1>1, <1>5 DEF BotCrash, Ready, UpdatesAreAnswered
<1>6. CASE RegisterShare \/ MarkRevoked
  BY <1>2, <1>6, RegisteredFacts, MarkedFacts
     DEF RegisterShare, MarkRevoked, Replying, BotInv, StateTypeOK
<1>7. CASE FailCall
  BY <1>2, <1>7, RegisteredFacts, MarkedFacts DEF FailCall, Ready, BotInv, StateTypeOK, memory
<1>8. CASE CreateShare \/ AskToConnect \/ FinishConnect \/ RevokeShare
  BY <1>2, <1>8 DEF CreateShare, AskToConnect, FinishConnect, RevokeShare, Ask, With, Ready, memory
<1>9. CASE AwayFromBot \/ UNCHANGED botVars
  BY <1>9, AwayFacts DEF BotInv, UpdatesAreAnswered, Now
<1>10. CASE QuietStep
  BY <1>2, <1>10, QuietFacts
<1> QED
  BY <1>3, <1>4, <1>5, <1>6, <1>7, <1>8, <1>9, <1>10, StepsOfTheBot

(* A request is submitted under an id of its own, and a request that is    *)
(* there already is not replaced.                                          *)
LEMMA RequestsStayNamed == BotInv /\ [Next]_botVars => RequestsAreNamed'
<1> SUFFICES ASSUME BotInv, [Next]_botVars  PROVE RequestsAreNamed'
  OBVIOUS
<1>1. RequestsAreNamed /\ Now \in Nat
  BY DEF BotInv, StateTypeOK, BotState, Now
<1>2. CASE UNCHANGED requests
  BY <1>1, <1>2 DEF RequestsAreNamed
<1>3. CASE \E id : requests' = Remove(requests, id)
  BY <1>1, <1>3 DEF RequestsAreNamed, Remove, Restrict
<1>4. ASSUME NEW k \in DOMAIN Suffix, NEW operation,
             Submit(RequestId(Now, Suffix[k]), operation),
             k \in DocumentKind => operation = OnDocuments(k, Now),
             k \notin DocumentKind => operation.operation \notin DocumentKind
      PROVE  RequestsAreNamed'
  <2> DEFINE id == RequestId(Now, Suffix[k])
  <2>1. CASE UNCHANGED requests
    BY <1>2, <2>1
  <2>2. CASE requests' = Write(requests, id, operation)
    <3>1. ASSUME NEW u \in Nat, NEW l \in DocumentKind, operation = OnDocuments(l, u)
          PROVE  IsAbout(id, u)
      BY <1>4, <3>1 DEF OnDocuments, IsAbout
    <3>2. ASSUME NEW u \in Nat, IsAbout(id, u)
          PROVE  \E l \in DocumentKind : operation = OnDocuments(l, u)
      <4>1. PICK l \in DocumentKind : id = RequestId(u, Suffix[l])
        BY <3>2 DEF IsAbout
      <4>2. Now = u /\ k = l
        BY <1>1, <4>1, RequestIdsAreDistinct, DocumentsHaveSuffixes
      <4> QED
        BY <1>4, <4>2
    <3> HIDE DEF id
    <3> QED
      BY <1>1, <2>2, <3>1, <3>2 DEF RequestsAreNamed, Write
  <2> QED
    BY <1>4, <2>1, <2>2 DEF Submit
<1>5. ASSUME NEW k \in DocumentKind, AskDocument(k)  PROVE RequestsAreNamed'
  BY <1>4, <1>5, DocumentsHaveSuffixes DEF AskDocument, Ask
<1>6. CASE StartShare
  BY <1>4, <1>6, DocumentsHaveSuffixes DEF StartShare, Ask, PreparePageShare, DocumentKind, Suffix
<1>7. CASE AskToConnect
  BY <1>2, <1>4, <1>7, DocumentsHaveSuffixes
     DEF AskToConnect, Ask, ConnectPageShare, DocumentKind, Suffix, mailbox
<1>8. CASE RemoveAnswered
  BY <1>3, <1>8 DEF RemoveAnswered, RemoveRequest
<1>9. CASE UNCHANGED requests
  BY <1>2, <1>9
<1> QED
  BY <1>2, <1>5, <1>6, <1>7, <1>8, StepsOfTheBot
  DEF AwayFromBot, QuietStep, TabletStep, Send, OpenTablet, Execute, RespondTablet, TabletStops,
      Respond, AnswerDocument, TakeResponse, RefusePdf, AnnounceAgain, FinishPrepare, RevokeNothing,
      Timeout, CreateShare, FinishConnect, RegisterShare, RevokeShare, MarkRevoked, Reply, Advance,
      FailCall, BotCrash, botVars, mailbox

(* What is done stays done. An answer is about the update under whose      *)
(* request id it was carried out.                                          *)
LEMMA DoneStaysDone == BotInv /\ [Next]_botVars => DoneIsDone'
<1> SUFFICES ASSUME BotInv, [Next]_botVars  PROVE DoneIsDone'
  OBVIOUS
<1> DEFINE AboutDone(id) == \A u \in Nat : IsAbout(id, u) => u \in carriedOut
           TabletIsDone  ==
             tablet.step = "respond" /\ tablet.result = "done" => AboutDone(tablet.id)
           FilesAreDone  == \A id \in DOMAIN responses : responses[id] = "done" => AboutDone(id)
           BotIsDone     == bot.step = "reply" /\ bot.answer = "done" => Now \in carriedOut
           ChatIsDone    == \A t \in told : t.answer = "done" => t.update \in carriedOut
<1>1. /\ TabletIsDone /\ FilesAreDone /\ BotIsDone /\ ChatIsDone /\ RequestsAreNamed
      /\ Now \in Nat /\ state \in BotState
  BY DEF BotInv, DoneIsDone, StateTypeOK, BotState, Now
<1>2. (TabletIsDone /\ FilesAreDone /\ BotIsDone /\ ChatIsDone)' => DoneIsDone'
  BY DEF DoneIsDone
<1>3. carriedOut \subseteq carriedOut'
  <2>1. CASE Execute
    BY <2>1 DEF Execute, ExecuteDocument, ExecutePrepare, ExecuteConnect
  <2>2. CASE (AwayFromBot /\ ~Execute) \/ UNCHANGED botVars
    BY <2>2 DEF AwayFromBot, TabletStep, Send, OpenTablet, RespondTablet, RemoveAnswered,
       TabletStops, botVars
  <2>3. CASE QuietStep
    BY <2>3, QuietFacts
  <2> QED
    BY <2>1, <2>2, <2>3, StepsOfTheBot DEF CreateShare, AskToConnect, FinishConnect, RegisterShare,
       RevokeShare, MarkRevoked, Reply, Advance, FailCall, BotCrash
<1>4. TabletIsDone'
  <2>1. CASE Execute
    <3>1. PICK id \in DOMAIN requests :
            ExecuteDocument(id) \/ ExecutePrepare(id) \/ ExecuteConnect(id)
      BY <2>1 DEF Execute
    <3>2. CASE tablet' = Holding("respond", id, "failed")
      BY <3>2 DEF Holding
    <3>3. CASE ExecuteDocument(id) /\ tablet' = Holding("respond", id, "done")
      <4>1. PICK u \in UpdateId, k \in DocumentKind :
              requests[id] = OnDocuments(k, u) /\ carriedOut' = carriedOut \cup {u}
        BY <3>3 DEF ExecuteDocument, Holding
      <4>2. ASSUME NEW v \in Nat, IsAbout(id, v)  PROVE v = u
        BY <1>1, <3>1, <4>1, <4>2 DEF RequestsAreNamed, OnDocuments
      <4> QED
        BY <3>3, <4>1, <4>2 DEF Holding
    <3>4. CASE requests[id].operation \in {"prepare", "connect"} /\ tablet'.id = id
      BY <1>1, <3>1, <3>4 DEF RequestsAreNamed, OnDocuments, DocumentKind
    <3> QED
      BY <3>1, <3>2, <3>3, <3>4 DEF ExecuteDocument, ExecutePrepare, ExecuteConnect, Holding,
         PreparePageShare, ConnectPageShare
  <2>2. CASE UNCHANGED tablet
    BY <1>1, <1>3, <2>2
  <2>3. CASE tablet'.step # "respond"
    BY <2>3
  <2> QED
    BY <2>1, <2>2, <2>3, StepsOfTheBot
    DEF AwayFromBot, QuietStep, TabletStep, Send, OpenTablet, RespondTablet, RemoveAnswered,
       TabletStops, Holding, Idle, Down, AskDocument, StartTablet, AnswerDocument, RefusePdf,
       AnnounceAgain, StartShare, FinishPrepare, RevokeNothing, Timeout, CreateShare, AskToConnect,
       FinishConnect, RegisterShare, RevokeShare, MarkRevoked, Reply, Advance, FailCall, BotCrash,
       machine, botVars
<1>5. FilesAreDone'
  <2>1. CASE UNCHANGED responses
    BY <1>1, <1>3, <2>1
  <2>2. CASE \E id : responses' = Remove(responses, id)
    BY <1>1, <1>3, <2>2 DEF Remove, Restrict
  <2>3. CASE RespondTablet
    BY <1>1, <1>3, <2>3 DEF RespondTablet, Respond, Write
  <2> QED
    BY <2>1, <2>2, <2>3, StepsOfTheBot
    DEF AwayFromBot, QuietStep, TabletStep, Send, OpenTablet, Execute, RemoveAnswered, TabletStops,
       RemoveRequest, AskDocument, Ask, Submit, AnswerDocument, TakeResponse, RefusePdf,
       AnnounceAgain, StartShare, FinishPrepare, RevokeNothing, Timeout, CreateShare, AskToConnect,
       FinishConnect, RegisterShare, RevokeShare, MarkRevoked, Reply, Advance, FailCall, BotCrash,
       mailbox, botVars
<1>6. BotIsDone'
  <2>1. CASE UNCHANGED <<bot, state>>
    BY <1>1, <1>3, <2>1 DEF Now
  <2>2. CASE bot'.step # "reply"
    BY <2>2
  <2>3. CASE bot'.answer # "done"
    BY <2>3
  <2>4. ASSUME NEW k \in DocumentKind, AnswerDocument(k)  PROVE BotIsDone'
    <3> DEFINE id == RequestId(Now, Suffix[k])
    <3>1. PICK result \in {"done", "failed"} :
            TakeResponse(id, result) /\ bot' = Replying(result, 0)
      BY <2>4 DEF AnswerDocument
    <3>2. UNCHANGED Now
      BY <2>4 DEF AnswerDocument, memory, Now
    <3>3. IsAbout(id, Now)
      BY DEF IsAbout
    <3>4. result = "done" => Now \in carriedOut
      BY <1>1, <3>1, <3>3 DEF TakeResponse
    <3> QED
      BY <1>3, <3>1, <3>2, <3>4 DEF Replying
  <2>5. CASE QuietStep /\ ~\E k \in DocumentKind : AnswerDocument(k)
    BY <2>2, <2>3, <2>5 DEF QuietStep, AskDocument, Ask, RefusePdf, AnnounceAgain, StartShare,
       FinishPrepare, RevokeNothing, Timeout, Waiting, Replying, Doing, Ready
  <2>6. CASE AwayFromBot \/ UNCHANGED botVars
    BY <2>1, <2>6, AwayFacts
  <2> QED
    BY <2>2, <2>3, <2>4, <2>5, <2>6, StepsOfTheBot
    DEF QuietStep, CreateShare, AskToConnect, Ask, FinishConnect, RegisterShare, RevokeShare,
       MarkRevoked, Reply, Advance, FailCall, BotCrash, With, Replying, Doing, Ready
<1>7. ChatIsDone'
  <2>1. CASE UNCHANGED told
    BY <1>1, <1>3, <2>1
  <2>2. CASE /\ bot.step = "reply"
             /\ told' = told \cup {[update |-> Now, answer |-> bot.answer, share |-> bot.share]}
    BY <1>1, <1>3, <2>2
  <2>3. CASE AwayFromBot \/ UNCHANGED botVars \/ QuietStep
    BY <2>1, <2>3, AwayFacts, QuietFacts
  <2> QED
    BY <2>1, <2>2, <2>3, StepsOfTheBot DEF CreateShare, AskToConnect, FinishConnect, RegisterShare,
       RevokeShare, MarkRevoked, Reply, Advance, FailCall, BotCrash
<1> QED
  BY <1>2, <1>4, <1>5, <1>6, <1>7

(* A share is marked and called revoked after the relay revoked it.        *)
LEMMA RevokedStaysRevoked == BotInv /\ [Next]_botVars => RevokedIsRevoked'
<1> SUFFICES ASSUME BotInv, [Next]_botVars  PROVE RevokedIsRevoked'
  OBVIOUS
<1> DEFINE ChatIsReal == \A t \in told : t.answer = "revoked" => t.share \in revoked
           BotIsReal  ==
             /\ bot.step = "mark" => bot.share \in revoked
             /\ bot.step = "reply" /\ bot.answer = "revoked" => bot.share \in revoked
<1>1. /\ StateTypeOK /\ BotIsReal /\ ChatIsReal /\ MarksAreReal(state) /\ MarksAreReal(stored)
  BY DEF BotInv, RevokedIsRevoked
<1>2. revoked \subseteq revoked'
  <2>1. CASE AwayFromBot \/ UNCHANGED botVars \/ QuietStep
    BY <2>1, AwayFacts, QuietFacts
  <2> QED
    BY <2>1, StepsOfTheBot DEF CreateShare, AskToConnect, FinishConnect, RegisterShare,
       RevokeShare, MarkRevoked, Reply, Advance, FailCall, BotCrash, atRelay
<1>3. CASE UNCHANGED <<state, stored, told>> /\ BotIsReal'
  BY <1>1, <1>2, <1>3 DEF RevokedIsRevoked, MarksAreReal
<1>4. CASE RegisterShare
  BY <1>1, <1>4, RegisteredFacts
  DEF RegisterShare, StateTypeOK, Replying, atRelay, RevokedIsRevoked, MarksAreReal
<1>5. CASE MarkRevoked
  BY <1>1, <1>5, MarkedFacts DEF MarkRevoked, Replying, atRelay, RevokedIsRevoked, MarksAreReal
<1>6. CASE Reply
  BY <1>1, <1>6 DEF Reply, Doing, memory, atRelay, RevokedIsRevoked, MarksAreReal
<1>7. CASE Advance
  BY <1>1, <1>7 DEF Advance, Ready, atRelay, StateTypeOK, BotState, RevokedIsRevoked, MarksAreReal
<1>8. CASE BotCrash
  BY <1>1, <1>8 DEF BotCrash, Ready, atRelay, RevokedIsRevoked, MarksAreReal
<1>9. CASE FailCall
  BY <1>1, <1>2, <1>9, RegisteredFacts, MarkedFacts
  DEF FailCall, Ready, memory, atRelay, StateTypeOK, RevokedIsRevoked, MarksAreReal
<1>10. CASE RevokeShare
  BY <1>3, <1>10 DEF RevokeShare, With, memory
<1>11. CASE CreateShare \/ AskToConnect \/ FinishConnect
  BY <1>3, <1>11 DEF CreateShare, AskToConnect, FinishConnect, Ask, With, Ready, memory
<1>12. CASE QuietStep
  BY <1>3, <1>12, QuietFacts
<1>13. CASE AwayFromBot \/ UNCHANGED botVars
  BY <1>1, <1>3, <1>13, AwayFacts
<1> QED
  BY <1>4, <1>5, <1>6, <1>7, <1>8, <1>9, <1>10, <1>11, <1>12, <1>13, StepsOfTheBot

-----------------------------------------------------------------------------
(* The files, the updates and the numbers of the shares.                   *)

(* The bot works for an update that was sent.                              *)
LEMMA WorkIsNamed ==
  ASSUME BotInv, UpdatesAreSent, NEW k \in DOMAIN Suffix,
         bot.step # "ready" \/ \E l : Applies(l)
  PROVE  Now \in UpdateId /\ RequestId(Now, Suffix[k]) \in RequestIds
<1>1. Now \in Nat /\ 1 <= Now /\ Now <= MaxUpdates
  BY BotAssumption DEF BotInv, StateTypeOK, BotState, UpdatesAreSent, Applies, Now
<1>2. Suffix[k] \in Range(Suffix)
  BY DEF Range
<1> QED
  BY <1>1, <1>2, BotAssumption DEF RequestIds, UpdateId

(* What Submit and TakeResponse leave in the mailbox.                      *)
LEMMA SubmitKeepsFiles ==
  ASSUME FilesAreNamed, NEW id \in RequestIds, NEW operation, Submit(id, operation),
         UNCHANGED session, StartTablet \/ UNCHANGED tablet
  PROVE  FilesAreNamed'
<1>1. tablet' = tablet \/ tablet' = Idle
  BY DEF StartTablet
<1>2. Idle.step = "idle" /\ Idle # Down
  BY DEF Idle, Down
<1>3. DOMAIN requests \subseteq DOMAIN requests' /\ DOMAIN requests' \subseteq DOMAIN requests \cup {id}
  BY DEF Submit, Write
<1>4. responses' = responses
  BY DEF Submit
<1> QED
  BY <1>1, <1>2, <1>3, <1>4 DEF FilesAreNamed

LEMMA TakingKeepsFiles ==
  ASSUME FilesAreNamed, NEW id, NEW result, TakeResponse(id, result), UNCHANGED <<session, tablet>>
  PROVE  FilesAreNamed'
<1>1. DOMAIN responses' = DOMAIN responses \ {id} /\ \A i \in DOMAIN responses' : responses'[i] = responses[i]
  BY DEF TakeResponse, Remove, Restrict
<1>2. requests' = requests
  BY DEF TakeResponse
<1> QED
  BY <1>1, <1>2 DEF FilesAreNamed

(* Files are named, answered and removed under the ids of the bot's        *)
(* requests.                                                               *)
LEMMA FilesStayNamed ==
  BotInv /\ UpdatesAreSent /\ FilesAreNamed /\ [Next]_botVars => FilesAreNamed'
<1> SUFFICES ASSUME BotInv, UpdatesAreSent, FilesAreNamed, [Next]_botVars  PROVE FilesAreNamed'
  OBVIOUS
<1>1. CASE UNCHANGED <<mailbox, machine>>
  BY <1>1 DEF FilesAreNamed, mailbox, machine
<1>2. ASSUME NEW k \in DocumentKind, AskDocument(k)  PROVE FilesAreNamed'
  BY <1>2, WorkIsNamed, SubmitKeepsFiles, DocumentsHaveSuffixes DEF AskDocument, Ask
<1>3. ASSUME NEW k \in DocumentKind, AnswerDocument(k)  PROVE FilesAreNamed'
  BY <1>3, TakingKeepsFiles DEF AnswerDocument, machine
<1>4. CASE StartShare
  <2>1. "prepare" \in DOMAIN Suffix /\ Suffix.prepare = Suffix["prepare"]
    BY DEF Suffix
  <2> QED
    BY <1>4, <2>1, WorkIsNamed, SubmitKeepsFiles DEF StartShare, Ask
<1>5. CASE FinishPrepare
  BY <1>5, TakingKeepsFiles DEF FinishPrepare, machine
<1>6. CASE AskToConnect
  <2>1. "connect" \in DOMAIN Suffix /\ bot.step = "ask" /\ UNCHANGED machine
    BY <1>6 DEF Suffix, AskToConnect
  <2>2. RequestId(Now, Suffix["connect"]) \in RequestIds
    BY <2>1, WorkIsNamed
  <2>3. CASE UNCHANGED mailbox
    BY <1>1, <2>1, <2>3
  <2>4. CASE Ask("connect", ConnectPageShare(bot.share), With("connect", bot.share))
    BY <2>1, <2>2, <2>4, SubmitKeepsFiles DEF Ask, machine
  <2> QED
    BY <1>6, <2>3, <2>4 DEF AskToConnect
<1>7. CASE FinishConnect
  BY <1>7, TakingKeepsFiles DEF FinishConnect, machine
<1>8. CASE Execute
  <2>1. PICK id \in DOMAIN requests :
          ExecuteDocument(id) \/ ExecutePrepare(id) \/ ExecuteConnect(id)
    BY <1>8 DEF Execute
  <2>2. \E result \in {"done", "failed"} : tablet' = Holding("respond", id, result)
    BY <2>1 DEF ExecuteDocument, ExecutePrepare, ExecuteConnect
  <2>3. tablet'.step = "respond" /\ tablet'.id = id /\ tablet'.result \in {"done", "failed"} /\ tablet' # Down
    BY <2>2 DEF Holding, Down
  <2>4. UNCHANGED mailbox
    BY <1>8 DEF Execute
  <2> QED
    BY <2>3, <2>4 DEF FilesAreNamed, mailbox
<1>9. CASE RespondTablet
  <2>1. /\ tablet.step = "respond" /\ responses' = Write(responses, tablet.id, tablet.result)
        /\ tablet' = Holding("remove", tablet.id, tablet.result) /\ UNCHANGED <<requests, session>>
    BY <1>9 DEF RespondTablet, Respond
  <2>2. tablet'.step = "remove" /\ tablet'.id = tablet.id /\ tablet' # Down
    BY <2>1 DEF Holding, Down
  <2>3. DOMAIN responses' = DOMAIN responses \cup {tablet.id}
        /\ \A id \in DOMAIN responses' : responses'[id] = tablet.result \/ (id \in DOMAIN responses /\ responses'[id] = responses[id])
    BY <2>1 DEF Write
  <2> QED
    BY <2>1, <2>2, <2>3 DEF FilesAreNamed
<1>10. CASE RemoveAnswered
  <2>1. DOMAIN requests' \subseteq DOMAIN requests /\ tablet' = Idle /\ UNCHANGED <<responses, session>>
    BY <1>10 DEF RemoveAnswered, RemoveRequest, Remove, Restrict
  <2>2. Idle.step = "idle" /\ Idle # Down
    BY DEF Idle, Down
  <2> QED
    BY <2>1, <2>2 DEF FilesAreNamed
<1>11. CASE OpenTablet \/ TabletStops
  <2>1. UNCHANGED mailbox /\ tablet'.step \in {"idle", "down"} /\ (tablet' = Down => session'.step = "none")
    BY <1>11 DEF OpenTablet, TabletStops, Idle, Down, Doing
  <2> QED
    BY <2>1 DEF FilesAreNamed, mailbox
<1> QED
  BY <1>1, <1>2, <1>3, <1>4, <1>5, <1>6, <1>7, <1>8, <1>9, <1>10, <1>11, StepsOfTheBot
  DEF AwayFromBot, QuietStep, TabletStep, Send, RefusePdf, AnnounceAgain, RevokeNothing, Timeout,
      CreateShare, RegisterShare, RevokeShare, MarkRevoked, Reply, Advance, FailCall, BotCrash, botVars

(* An update is sent before the bot works for it, and the offset moves     *)
(* past it when it did.                                                    *)
LEMMA UpdatesStaySent ==
  BotInv /\ UpdatesAreSent /\ SharesExist /\ [Next]_botVars => UpdatesAreSent'
<1> SUFFICES ASSUME BotInv, UpdatesAreSent, SharesExist, [Next]_botVars  PROVE UpdatesAreSent'
  OBVIOUS
<1>1. /\ state.next \in Nat /\ stored.next \in Nat /\ Len(sent) \in Nat /\ stored.next <= state.next
      /\ sent \in Seq(Update) /\ Len(sent) <= MaxUpdates /\ MaxUpdates \in Nat /\ created \in Nat
      /\ 1 <= stored.next /\ state.next <= Len(sent) + 1
      /\ bot.step # "ready" => state.next <= Len(sent)
      /\ state \in BotState
  BY BotAssumption DEF BotInv, StateTypeOK, BotState, UpdatesAreSent, Now
<1>2. CASE UNCHANGED <<sent, state, stored>> /\ (bot'.step = "ready" \/ state.next <= Len(sent))
  BY <1>1, <1>2 DEF UpdatesAreSent, Now
<1>3. CASE Send
  <2>1. PICK u \in {Document(k) : k \in DocumentKind} \cup {Share} \cup {RevokeOf(s) : s \in Links} :
          sent' = Append(sent, u)
    BY <1>3 DEF Send
  <2>2. \A s \in Links : s \in Nat
    BY <1>1 DEF SharesExist, Links
  <2>3. u \in Update
    BY <2>1, <2>2 DEF Update
  <2>4. Len(sent) < MaxUpdates /\ UNCHANGED <<bot, state, stored>>
    BY <1>3 DEF Send, memory
  <2>5. sent' \in Seq(Update) /\ Len(sent') = Len(sent) + 1
    BY <1>1, <2>1, <2>3
  <2> QED
    BY <1>1, <2>4, <2>5 DEF UpdatesAreSent, Now
<1>4. CASE Advance
  <2>1. bot.step = "advance" /\ state'.next = state.next + 1 /\ stored' = state' /\ bot'.step = "ready"
        /\ UNCHANGED sent
    BY <1>1, <1>4 DEF Advance, Ready, BotState
  <2> QED
    BY <1>1, <2>1 DEF UpdatesAreSent
<1>5. CASE BotCrash
  <2>1. bot'.step = "ready" /\ state' = stored /\ UNCHANGED <<sent, stored>>
    BY <1>5 DEF BotCrash, Ready
  <2> QED
    BY <1>1, <2>1 DEF UpdatesAreSent
<1>6. ASSUME state'.next = state.next, stored'.next \in {stored.next, state.next}, UNCHANGED sent,
             bot'.step = "ready" \/ bot.step # "ready"
      PROVE  UpdatesAreSent'
  BY <1>1, <1>6 DEF UpdatesAreSent, Now
<1>7. CASE RegisterShare
  <2>1. bot.step = "register" /\ bot.share \in Nat /\ state' = Registered(bot.share) /\ stored' = state'
        /\ UNCHANGED sent
    BY <1>7 DEF RegisterShare, BotInv, StateTypeOK
  <2> QED
    BY <1>6, <2>1, RegisteredFacts DEF BotInv
<1>8. CASE MarkRevoked
  BY <1>6, <1>8, MarkedFacts DEF MarkRevoked, BotInv
<1>9. CASE FailCall
  <2>1. bot'.step = "ready" /\ UNCHANGED sent
    BY <1>9 DEF FailCall, Ready
  <2>2. CASE UNCHANGED memory
    BY <1>2, <2>1, <2>2 DEF memory
  <2>3. CASE bot.step = "register" /\ state' = Registered(bot.share) /\ stored' \in {stored, state'}
    <3>1. bot.share \in Nat
      BY <2>3 DEF BotInv, StateTypeOK
    <3> QED
      BY <1>6, <2>1, <2>3, <3>1, RegisteredFacts DEF BotInv
  <2>4. CASE bot.step = "mark" /\ state' = Marked(bot.share) /\ stored' \in {stored, state'}
    BY <1>6, <2>1, <2>4, MarkedFacts DEF BotInv
  <2> QED
    BY <1>9, <2>2, <2>3, <2>4 DEF FailCall, memory
<1>10. ASSUME NEW k, Applies(k)  PROVE state.next <= Len(sent)
  BY <1>10 DEF Applies, Now
<1>11. CASE UNCHANGED <<sent, state, stored, bot>>
  BY <1>1, <1>2, <1>11 DEF UpdatesAreSent, Now
<1>12. CASE QuietStep
  <2>1. UNCHANGED <<sent, state, stored>>
    BY <1>12, QuietFacts DEF QuietStep, AskDocument, AnswerDocument, RefusePdf, AnnounceAgain, StartShare,
       FinishPrepare, RevokeNothing, Timeout
  <2>2. (\E k : Applies(k)) \/ bot.step # "ready"
    <3>1. CASE \E k \in DocumentKind : AskDocument(k)
      BY <3>1 DEF AskDocument
    <3>2. CASE \E k \in DocumentKind : AnswerDocument(k)
      BY <3>2 DEF AnswerDocument, Waiting
    <3>3. CASE RefusePdf \/ AnnounceAgain \/ StartShare \/ RevokeNothing
      BY <3>3 DEF RefusePdf, AnnounceAgain, StartShare, RevokeNothing
    <3>4. CASE FinishPrepare \/ Timeout
      BY <3>4 DEF FinishPrepare, Timeout
    <3> QED
      BY <1>12, <3>1, <3>2, <3>3, <3>4 DEF QuietStep
  <2> QED
    BY <1>1, <1>2, <1>10, <2>1, <2>2
<1>13. CASE CreateShare \/ AskToConnect \/ FinishConnect \/ RevokeShare \/ Reply
  <2>1. UNCHANGED <<sent, state, stored>>
    BY <1>13 DEF CreateShare, AskToConnect, FinishConnect, RevokeShare, Reply, memory
  <2>2. Applies("revoke") \/ bot.step # "ready"
    BY <1>13 DEF CreateShare, AskToConnect, FinishConnect, RevokeShare, Reply
  <2> QED
    BY <1>1, <1>2, <1>10, <2>1, <2>2
<1> QED
  BY <1>3, <1>4, <1>5, <1>7, <1>8, <1>9, <1>11, <1>12, <1>13, StepsOfTheBot
  DEF AwayFromBot, TabletStep, OpenTablet, Execute, RespondTablet, RemoveAnswered, TabletStops, botVars, memory

(* Registering a share and marking it changes no other number.             *)
LEMMA NumbersStay ==
  ASSUME StateTypeOK, NEW S, Has(state, S)
  PROVE  /\ \A s \in S : Has(Registered(s), S)
         /\ \A s : Has(Marked(s), S)
<1>1. state \in BotState /\ state.shares \in Seq(ShareRecord) /\ DOMAIN state.shares = 1 .. Len(state.shares)
      /\ \A i \in DOMAIN state.shares : state.shares[i] \in ShareRecord /\ state.shares[i].share \in S
  BY DEF StateTypeOK, BotState, Has
<1>2. ASSUME NEW s \in S  PROVE Has(Registered(s), S)
  <2> DEFINE new  == [source |-> Now, share |-> s, revoked |-> FALSE]
             list == Append(state.shares, new)
  <2>1. \A i \in DOMAIN list : list[i] = new \/ (i \in DOMAIN state.shares /\ list[i] = state.shares[i])
    BY <1>1
  <2>2. new.share = s
    OBVIOUS
  <2>3. Registered(s).shares = list
    BY <1>1 DEF Registered, BotState
  <2> HIDE DEF new, list
  <2> QED
    BY <1>1, <1>2, <2>1, <2>2, <2>3 DEF Has
<1>3. ASSUME NEW s  PROVE Has(Marked(s), S)
  <2> DEFINE list == [i \in DOMAIN state.shares |->
               IF i \in Position(s) THEN [state.shares[i] EXCEPT !.revoked = TRUE] ELSE state.shares[i]]
  <2>1. Marked(s).shares = list
    BY <1>1 DEF Marked, BotState
  <2>2. \A i \in DOMAIN state.shares : list[i].share = state.shares[i].share
    BY <1>1 DEF ShareRecord
  <2>3. DOMAIN list = DOMAIN state.shares
    OBVIOUS
  <2> HIDE DEF list
  <2> QED
    BY <1>1, <2>1, <2>2, <2>3 DEF Has
<1> QED
  BY <1>2, <1>3

(* A number that the bot gives away is one that it has from the relay, and *)
(* one that comes back from the chat is one that it gave away.             *)
LEMMA SharesStayReal ==
  BotInv /\ UpdatesAreSent /\ SharesExist /\ [Next]_botVars => SharesExist'
<1> SUFFICES ASSUME BotInv, UpdatesAreSent, SharesExist, [Next]_botVars  PROVE SharesExist'
  OBVIOUS
<1> DEFINE existing == 1 .. created
           AtRelay   == revoked \subseteq existing /\ joined \subseteq existing
           WithBot   == /\ bot.step \in {"ask", "connect", "register", "mark"} => bot.share \in existing
                        /\ bot.step = "reply" /\ bot.answer = "link" => bot.share \in existing
           InChat    == \A t \in told : t.answer = "link" => t.share \in existing
           InUpdates == \A i \in DOMAIN sent : sent[i].kind = "revoke" => sent[i].share \in existing
           InStates  == Has(state, existing) /\ Has(stored, existing)
           InFiles   == \A id \in DOMAIN requests :
                          requests[id].operation = "connect" => requests[id].share \in existing
<1>1. /\ AtRelay /\ WithBot /\ InChat /\ InUpdates /\ InStates /\ InFiles
      /\ StateTypeOK /\ created \in Nat /\ sent \in Seq(Update) /\ Now \in Nat \ {0}
  BY DEF SharesExist, BotInv, StateTypeOK, UpdatesAreSent, BotState, Now
<1>2. (AtRelay /\ WithBot /\ InChat /\ InUpdates /\ InStates /\ InFiles)' => SharesExist'
  BY DEF SharesExist
<1>3. created' \in {created, created + 1}
  <2>1. CASE AwayFromBot \/ UNCHANGED botVars \/ QuietStep
    BY <2>1, AwayFacts, QuietFacts
  <2> QED
    BY <1>1, <2>1, StepsOfTheBot DEF CreateShare, AskToConnect, FinishConnect, RegisterShare,
       RevokeShare, MarkRevoked, Reply, Advance, FailCall, BotCrash, atRelay
<1>4. \A s : s \in existing => s \in existing'
  BY <1>1, <1>3
<1>5. Applies("revoke") => sent[Now].share \in existing
  <2>1. Applies("revoke") => Now \in DOMAIN sent /\ sent[Now].kind = "revoke"
    BY <1>1 DEF Applies
  <2> QED
    BY <1>1, <2>1
<1> HIDE DEF existing
<1>6. AtRelay'
  <2>1. revoked' \subseteq existing
    <3>1. CASE FinishConnect
      <4>1. revoked' \subseteq revoked \cup {bot.share} /\ bot.step = "connect"
        BY <3>1 DEF FinishConnect
      <4> QED
        BY <1>1, <4>1
    <3>2. CASE Applies("revoke") /\ revoked' \subseteq revoked \cup {sent[Now].share}
      BY <1>1, <1>5, <3>2
    <3>3. CASE UNCHANGED revoked
      BY <1>1, <3>3
    <3>4. CASE AwayFromBot \/ UNCHANGED botVars \/ QuietStep
      BY <3>3, <3>4, AwayFacts, QuietFacts
    <3>5. CASE RevokeShare \/ FailCall
      BY <3>2, <3>3, <3>5 DEF RevokeShare, FailCall, atRelay
    <3> QED
      BY <3>1, <3>3, <3>4, <3>5, StepsOfTheBot DEF CreateShare, AskToConnect, RegisterShare,
         MarkRevoked, Reply, Advance, BotCrash, atRelay
  <2>2. joined' \subseteq existing
    <3>1. CASE Execute
      <4>1. PICK id \in DOMAIN requests :
              ExecuteDocument(id) \/ ExecutePrepare(id) \/ ExecuteConnect(id)
        BY <3>1 DEF Execute
      <4>2. ASSUME NEW s, requests[id] = ConnectPageShare(s)  PROVE s \in existing
        <5>1. requests[id].operation = "connect" /\ requests[id].share = s
          BY <4>2 DEF ConnectPageShare
        <5> QED
          BY <1>1, <4>1, <5>1
      <4> QED
        BY <1>1, <4>1, <4>2 DEF ExecuteDocument, ExecutePrepare, ExecuteConnect
    <3>2. CASE UNCHANGED joined
      BY <1>1, <3>2
    <3> QED
      BY <3>1, <3>2, StepsOfTheBot
      DEF AwayFromBot, QuietStep, TabletStep, Send, OpenTablet, RespondTablet, RemoveAnswered,
          TabletStops, AskDocument, AnswerDocument, RefusePdf, AnnounceAgain, StartShare, FinishPrepare,
          RevokeNothing, Timeout, CreateShare, AskToConnect, FinishConnect, RegisterShare, RevokeShare,
          MarkRevoked, Reply, Advance, FailCall, BotCrash, botVars
  <2> QED
    BY <1>4, <2>1, <2>2
<1>7. WithBot'
  <2>1. CASE UNCHANGED bot
    BY <1>1, <1>4, <2>1
  <2>2. CASE bot'.step \notin {"ask", "connect", "register", "mark", "reply"}
    BY <2>2
  <2>3. CASE bot'.step = "reply" /\ bot'.answer # "link"
    BY <2>3
  <2>4. ASSUME NEW s \in existing, bot'.share = s  PROVE WithBot'
    BY <1>4, <2>4
  <2>5. CASE CreateShare
    <3>1. bot'.share = created' /\ bot'.step = "ask" /\ created' = created + 1
      BY <2>5 DEF CreateShare, With
    <3>2. created' \in existing'
      BY <1>1, <3>1 DEF existing
    <3> QED
      BY <3>1, <3>2
  <2>6. CASE AskToConnect
    BY <1>1, <2>2, <2>4, <2>6 DEF AskToConnect, Ask, With, Ready
  <2>7. CASE FinishConnect
    BY <1>1, <2>2, <2>4, <2>7 DEF FinishConnect, With, Ready
  <2>8. CASE RegisterShare
    BY <1>1, <2>4, <2>8 DEF RegisterShare, Replying
  <2>9. CASE RevokeShare
    BY <1>5, <2>4, <2>9 DEF RevokeShare, With
  <2>10. CASE MarkRevoked
    BY <2>3, <2>10 DEF MarkRevoked, Replying
  <2>11. CASE Reply \/ Advance \/ FailCall \/ BotCrash \/ Timeout
    BY <2>2, <2>11 DEF Reply, Advance, FailCall, BotCrash, Timeout, Doing, Ready
  <2>12. CASE AnnounceAgain
    <3>1. PICK i \in SharesOf(Now) : bot' = Replying("link", state.shares[i].share)
      BY <2>12 DEF AnnounceAgain
    <3>2. state.shares[i].share \in existing
      BY <1>1 DEF Has, SharesOf
    <3> QED
      BY <2>4, <3>1, <3>2 DEF Replying
  <2>13. ASSUME NEW k \in DocumentKind, AskDocument(k)  PROVE WithBot'
    BY <2>2, <2>13 DEF AskDocument, Ask, Waiting
  <2>14. ASSUME NEW k \in DocumentKind, AnswerDocument(k)  PROVE WithBot'
    BY <2>3, <2>14 DEF AnswerDocument, Replying
  <2>15. CASE RefusePdf \/ RevokeNothing
    BY <2>3, <2>15 DEF RefusePdf, RevokeNothing, Replying
  <2>16. CASE StartShare \/ FinishPrepare
    BY <2>2, <2>3, <2>16 DEF StartShare, FinishPrepare, Ask, Doing, Replying
  <2>17. CASE AwayFromBot \/ UNCHANGED botVars
    BY <2>1, <2>17, AwayFacts
  <2> QED
    BY <2>5, <2>6, <2>7, <2>8, <2>9, <2>10, <2>11, <2>12, <2>13, <2>14, <2>15, <2>16, <2>17, StepsOfTheBot
    DEF QuietStep
<1>8. InChat'
  <2>1. CASE UNCHANGED told
    BY <1>1, <1>4, <2>1
  <2>2. CASE /\ bot.step = "reply"
             /\ told' = told \cup {[update |-> Now, answer |-> bot.answer, share |-> bot.share]}
    BY <1>1, <1>4, <2>2
  <2>3. CASE AwayFromBot \/ UNCHANGED botVars \/ QuietStep
    BY <2>1, <2>3, AwayFacts, QuietFacts
  <2> QED
    BY <2>1, <2>2, <2>3, StepsOfTheBot DEF CreateShare, AskToConnect, FinishConnect, RegisterShare,
       RevokeShare, MarkRevoked, Reply, Advance, FailCall, BotCrash
<1>9. InUpdates'
  <2>1. CASE UNCHANGED sent
    BY <1>1, <1>4, <2>1
  <2>2. CASE Send
    <3>1. PICK u \in {Document(k) : k \in DocumentKind} \cup {Share} \cup {RevokeOf(s) : s \in Links} :
            sent' = Append(sent, u)
      BY <2>2 DEF Send
    <3>2. u.kind = "revoke" => u.share \in existing
      <4>1. CASE u \in {Document(k) : k \in DocumentKind} \cup {Share}
        BY <4>1 DEF Document, DocumentKind, Share
      <4>2. CASE u \in {RevokeOf(s) : s \in Links}
        BY <1>1, <4>2 DEF RevokeOf, Links
      <4> QED
        BY <3>1, <4>1, <4>2
    <3>3. \A s \in Links : s \in Nat
      BY <1>1 DEF Links, existing
    <3>4. u \in Update
      BY <3>1, <3>3 DEF Update
    <3>5. \A i \in DOMAIN sent' : sent'[i] = u \/ (i \in DOMAIN sent /\ sent'[i] = sent[i])
      BY <1>1, <3>1, <3>4
    <3> QED
      BY <1>1, <1>4, <3>2, <3>5
  <2> QED
    BY <2>1, <2>2, StepsOfTheBot
    DEF AwayFromBot, QuietStep, TabletStep, Execute, OpenTablet, RespondTablet, RemoveAnswered,
        TabletStops, AskDocument, AnswerDocument, RefusePdf, AnnounceAgain, StartShare, FinishPrepare,
        RevokeNothing, Timeout, CreateShare, AskToConnect, FinishConnect, RegisterShare, RevokeShare,
        MarkRevoked, Reply, Advance, FailCall, BotCrash, botVars
<1>10. InStates'
  <2>1. \A s : Has(s, existing) => Has(s, existing')
    BY <1>4 DEF Has
  <2>2. ASSUME NEW s, NEW t, Has(s, existing), Has(t, existing), state' = s, stored' = t
        PROVE  InStates'
    BY <2>1, <2>2
  <2>3. CASE UNCHANGED <<state, stored>>
    BY <1>1, <2>2, <2>3
  <2>4. CASE bot.step = "register" /\ state' = Registered(bot.share) /\ stored' \in {stored, state'}
    BY <1>1, <2>2, <2>4, NumbersStay
  <2>5. CASE state' = Marked(bot.share) /\ stored' \in {stored, state'}
    BY <1>1, <2>2, <2>5, NumbersStay
  <2>6. CASE Advance
    <3>1. state'.shares = state.shares /\ stored' = state'
      BY <1>1, <2>6 DEF Advance, StateTypeOK, BotState
    <3> QED
      BY <1>1, <2>2, <3>1 DEF Has
  <2>7. CASE BotCrash
    BY <1>1, <2>2, <2>7 DEF BotCrash
  <2>8. CASE AwayFromBot \/ UNCHANGED botVars \/ QuietStep
    BY <2>3, <2>8, AwayFacts, QuietFacts
  <2> QED
    BY <2>3, <2>4, <2>5, <2>6, <2>7, <2>8, StepsOfTheBot DEF CreateShare, AskToConnect, FinishConnect,
       RegisterShare, RevokeShare, MarkRevoked, Reply, FailCall, memory
<1>11. InFiles'
  <2>1. CASE UNCHANGED requests
    BY <1>1, <1>4, <2>1
  <2>2. CASE \E id : requests' = Remove(requests, id)
    BY <1>1, <1>4, <2>2 DEF Remove, Restrict
  <2>3. ASSUME NEW id, NEW operation, Submit(id, operation),
               operation.operation = "connect" => operation.share \in existing
        PROVE  InFiles'
    BY <1>1, <1>4, <2>3 DEF Submit, Write
  <2>4. ASSUME NEW k \in DocumentKind, AskDocument(k)  PROVE InFiles'
    <3>1. OnDocuments(k, Now).operation # "connect"
      BY DEF OnDocuments, DocumentKind
    <3> QED
      BY <2>3, <2>4, <3>1 DEF AskDocument, Ask
  <2>5. CASE StartShare
    BY <2>3, <2>5 DEF StartShare, Ask, PreparePageShare
  <2>6. CASE AskToConnect
    <3>1. bot.share \in existing /\ ConnectPageShare(bot.share).share = bot.share
      BY <1>1, <2>6 DEF AskToConnect, ConnectPageShare
    <3> QED
      BY <2>1, <2>3, <2>6, <3>1 DEF AskToConnect, Ask, mailbox
  <2>7. CASE RemoveAnswered
    BY <2>2, <2>7 DEF RemoveAnswered, RemoveRequest
  <2> QED
    BY <2>1, <2>4, <2>5, <2>6, <2>7, StepsOfTheBot
    DEF AwayFromBot, QuietStep, TabletStep, Send, OpenTablet, Execute, RespondTablet, TabletStops,
        Respond, AnswerDocument, TakeResponse, RefusePdf, AnnounceAgain, FinishPrepare, RevokeNothing,
        Timeout, CreateShare, FinishConnect, RegisterShare, RevokeShare, MarkRevoked, Reply, Advance,
        FailCall, BotCrash, botVars, mailbox
<1> QED
  BY <1>2, <1>6, <1>7, <1>8, <1>9, <1>10, <1>11

-----------------------------------------------------------------------------
(* The bot, the tablet and the relay keep the invariant, whatever calls    *)
(* fail, which of them stops, and when the bot gives up waiting.           *)
THEOREM BotInvHolds == Spec => []BotInv
<1>1. BotInv /\ [Next]_botVars => BotInv'
  BY StateTypeIsKept, UpdatesStayAnswered, RequestsStayNamed, DoneStaysDone, RevokedStaysRevoked
  DEF BotInv
<1> QED
  BY <1>1, InitEstablishesBotInv, PTL DEF Spec

(* An update that the offset in the bot's file is past was answered, and   *)
(* one that was answered as done was carried out by the tablet, for any    *)
(* number of updates, retries, timeouts, crashes and calls that fail.      *)
THEOREM OperationsAreNotLost == Spec => []NoOperationIsLost
<1>1. BotInv => NoOperationIsLost
  BY DEF BotInv, StateTypeOK, BotState, UpdatesAreAnswered, DoneIsDone, NoOperationIsLost
<1> QED
  BY <1>1, BotInvHolds, PTL

(* A share that the bot calls revoked, in the chat or in its file, is      *)
(* revoked at the relay, whatever failed on the way.                       *)
THEOREM RevocationsHold == Spec => []RevocationsAreReal
<1>1. BotInv => RevocationsAreReal
  BY DEF BotInv, RevokedIsRevoked, MarksAreReal, RevocationsAreReal
<1> QED
  BY <1>1, BotInvHolds, PTL
(* The mailbox holds nothing but requests of updates that were sent and    *)
(* their answers, the request that the tablet works on is still there, and *)
(* no share is joined or revoked that the relay did not create             *)
(* (DocumentExchange, poll_forever).                                       *)
THEOREM MailboxIsWellTyped == Spec => []MailboxTypeOK
<1> DEFINE MailboxInv == BotInv /\ FilesAreNamed /\ UpdatesAreSent /\ SharesExist
<1>1. BotInit => FilesAreNamed /\ UpdatesAreSent /\ SharesExist
  <2> SUFFICES ASSUME BotInit  PROVE FilesAreNamed /\ UpdatesAreSent /\ SharesExist
    OBVIOUS
  <2> USE DEF BotInit, EmptyMailbox, Ready, Down, Doing
  <2>1. FilesAreNamed
    BY DEF FilesAreNamed
  <2>2. UpdatesAreSent
    BY BotAssumption DEF UpdatesAreSent
  <2>3. SharesExist
    BY DEF SharesExist, Has
  <2> QED
    BY <2>1, <2>2, <2>3
<1>2. BotInit => MailboxInv
  BY <1>1, InitEstablishesBotInv
<1>3. MailboxInv /\ [Next]_botVars => MailboxInv'
  BY StateTypeIsKept, UpdatesStayAnswered, RequestsStayNamed, DoneStaysDone, RevokedStaysRevoked,
     FilesStayNamed, UpdatesStaySent, SharesStayReal DEF BotInv
<1>4. MailboxInv => MailboxTypeOK
  BY DEF BotInv, StateTypeOK, FilesAreNamed, UpdatesAreSent, SharesExist, MailboxTypeOK, RequestIds
<1> HIDE DEF MailboxInv
<1> QED
  BY <1>2, <1>3, <1>4, PTL DEF Spec
=============================================================================
