----------------------------- MODULE TelegramBot -----------------------------
(***************************************************************************)
(* The Telegram bot, the tablet that carries out its requests, and the     *)
(* shares that the bot creates at the relay. (telegram-bot/main.rs and     *)
(* page_relay_api.rs, tablet/document_requests.rs, and prepare_page_share  *)
(* and connect_page_share of tablet/notebook_shared_page.rs)               *)
(*                                                                         *)
(* An update is one message of the chat, and its number its update id.     *)
(* The list of documents, an opening, an export and an import are one      *)
(* request, one answer, one reply each. Shares are numbered in the order   *)
(* in which the relay creates them. Updates that are answered without a    *)
(* request, and the expiry of shares, are left out.                        *)
(***************************************************************************)
EXTENDS DocumentExchange, Sequences

CONSTANTS MaxUpdates, MaxShares    \* bounds: the updates sent and the shares created
ASSUME BotAssumption == MaxUpdates \in Nat /\ MaxShares \in Nat

VARIABLES
  sent,                \* the updates of the chat
  bot,                 \* what the bot is doing, if it is not about to apply an update
  state, stored,       \* BotState in memory and in its file
  tablet,              \* what the tablet process is doing, "down" if it is not running
  session,             \* shared_page of the notebook
  created, revoked,    \* the relay: the shares there are, and those revoked
  told,                \* (observer) the replies that reached the chat
  carriedOut,          \* (observer) the updates whose operation the tablet did
  joined               \* (observer) the shares that the tablet was connected to

machine == <<tablet, session>>
memory  == <<state, stored>>
atRelay == <<created, revoked>>
botVars == <<mailbox, sent, bot, memory, machine, atRelay, told, carriedOut, joined>>

UpdateId == 1 .. MaxUpdates
ShareId  == 1 .. MaxShares

DocumentKind == {"list", "open", "export", "import"}
Document(k)  == [kind |-> k]
Share        == [kind |-> "share"]
RevokeOf(s)  == [kind |-> "revoke", share |-> s]

OnDocuments(k, update) == [operation |-> k, update |-> update]
PreparePageShare    == [operation |-> "prepare"]
ConnectPageShare(s) == [operation |-> "connect", share |-> s]

SharedRequestId(update, suffix) == suffix                         \* a mutant

RequestId(update, suffix) == update * 10 + suffix

(* An export of all pages has suffix 4, and is otherwise one of a page.    *)
Suffix == [list |-> 1, open |-> 2, export |-> 3, import |-> 5, prepare |-> 6, connect |-> 7]

Ready           == [step |-> "ready"]
Down            == [step |-> "down"]
Idle            == [step |-> "idle"]
Doing(step)     == [step |-> step]
Waiting(k)      == [step |-> "document", operation |-> k]
With(step, s)   == [step |-> step, share |-> s]
Replying(a, s)  == [step |-> "reply", answer |-> a, share |-> s]

BotInit ==
  /\ EmptyMailbox
  /\ sent = <<>> /\ bot = Ready
  /\ state = [next |-> 1, shares |-> <<>>] /\ stored = state
  /\ tablet = Down /\ session = Doing("none")
  /\ created = 0 /\ revoked = {}
  /\ told = {} /\ carriedOut = {} /\ joined = {}

-----------------------------------------------------------------------------
(* The chat. A share can be revoked by who was shown its link: in the      *)
(* answer to /share, and from then on in the list of the shares.           *)

Links == {t.share : t \in {u \in told : u.answer = "link"}}

Send ==
  /\ Len(sent) < MaxUpdates
  /\ \E u \in {Document(k) : k \in DocumentKind} \cup {Share} \cup {RevokeOf(s) : s \in Links} : sent' = Append(sent, u)
  /\ UNCHANGED <<mailbox, bot, memory, machine, atRelay, told, carriedOut, joined>>

-----------------------------------------------------------------------------
(* The bot. apply_update is tried again from its start after every error.  *)

Now        == state.next
Applies(k) == bot = Ready /\ Now <= Len(sent) /\ sent[Now].kind = k

LeaveTablet == UNCHANGED tablet                                  \* a mutant

(* ensure_tablet_running                                                   *)
StartTablet == tablet' = IF tablet = Down THEN Idle ELSE tablet

Ask(request, operation, waiting) ==
  /\ Submit(RequestId(Now, Suffix[request]), operation)
  /\ bot' = waiting

AskDocument(k) ==
  /\ Applies(k)
  /\ StartTablet
  /\ Ask(k, OnDocuments(k, Now), Waiting(k))
  /\ UNCHANGED <<sent, memory, session, atRelay, told, carriedOut, joined>>

(* The answers are a message with a button per document, the document that *)
(* is open now, the exported file, or why it was not possible.             *)
AnswerDocument(k) ==
  /\ bot = Waiting(k)
  /\ \E result \in {"done", "failed"} :
       /\ TakeResponse(RequestId(Now, Suffix[k]), result)
       /\ bot' = Replying(result, 0)
  /\ UNCHANGED <<sent, memory, machine, atRelay, told, carriedOut, joined>>

SendLibrary  == AskDocument("list") \/ AnswerDocument("list")
OpenDocument == AskDocument("open") \/ AnswerDocument("open")
Export       == AskDocument("export") \/ AnswerDocument("export")

(* What is sent is downloaded first, again at every attempt, and refused   *)
(* if it is not a PDF.                                                     *)
RefusePdf ==
  /\ Applies("import")
  /\ bot' = Replying("refused", 0)
  /\ UNCHANGED <<mailbox, sent, memory, machine, atRelay, told, carriedOut, joined>>
ImportPdf == AskDocument("import") \/ AnswerDocument("import") \/ RefusePdf

SharesOf(update) == {i \in DOMAIN state.shares : /\ state.shares[i].source = update
                                                 /\ ~state.shares[i].revoked}

(* A share that an earlier attempt at the update registered is announced   *)
(* again.                                                                  *)
AnnounceAgain ==
  /\ Applies("share")
  /\ \E i \in SharesOf(Now) :
       /\ \A j \in SharesOf(Now) : i <= j
       /\ bot' = Replying("link", state.shares[i].share)
  /\ UNCHANGED <<mailbox, sent, memory, machine, atRelay, told, carriedOut, joined>>

StartShare ==
  /\ Applies("share") /\ SharesOf(Now) = {}
  /\ StartTablet
  /\ Ask("prepare", PreparePageShare, Doing("prepare"))
  /\ UNCHANGED <<sent, memory, session, atRelay, told, carriedOut, joined>>

FinishPrepare ==
  /\ bot.step = "prepare"
  /\ \/ TakeResponse(RequestId(Now, Suffix.prepare), "done") /\ bot' = Doing("create")
     \/ TakeResponse(RequestId(Now, Suffix.prepare), "failed") /\ bot' = Replying("failed", 0)
  /\ UNCHANGED <<sent, memory, machine, atRelay, told, carriedOut, joined>>

CreateShare ==
  /\ bot.step = "create" /\ created < MaxShares
  /\ created' = created + 1
  /\ bot' = With("ask", created')
  /\ UNCHANGED <<mailbox, sent, memory, machine, revoked, told, carriedOut, joined>>

AskToConnect ==
  /\ bot.step = "ask"
  /\ \/ Ask("connect", ConnectPageShare(bot.share), With("connect", bot.share))
     \/ /\ IsConflict(RequestId(Now, Suffix.connect), ConnectPageShare(bot.share))
        /\ bot' = Ready
        /\ UNCHANGED mailbox
  /\ UNCHANGED <<sent, memory, machine, atRelay, told, carriedOut, joined>>

(* A share that the tablet did not connect to is revoked if the relay can  *)
(* be reached, and the update is tried again.                              *)
FinishConnect ==
  /\ bot.step = "connect"
  /\ \/ /\ TakeResponse(RequestId(Now, Suffix.connect), "done")
        /\ bot' = With("register", bot.share)
        /\ UNCHANGED revoked
     \/ /\ TakeResponse(RequestId(Now, Suffix.connect), "failed")
        /\ bot' = Ready
        /\ revoked' \in {revoked, revoked \cup {bot.share}}
  /\ UNCHANGED <<sent, memory, machine, created, told, carriedOut, joined>>

Registered(s) ==
  [state EXCEPT !.shares = Append(@, [source |-> Now, share |-> s, revoked |-> FALSE])]

RegisterShare ==
  /\ bot.step = "register"
  /\ state' = Registered(bot.share) /\ stored' = state'
  /\ bot' = Replying("link", bot.share)
  /\ UNCHANGED <<mailbox, sent, machine, atRelay, told, carriedOut, joined>>

Position(s) == {i \in DOMAIN state.shares : state.shares[i].share = s /\ ~state.shares[i].revoked}
Marked(s)   == [state EXCEPT !.shares = [i \in DOMAIN @ |->
                  IF i \in Position(s) THEN [@[i] EXCEPT !.revoked = TRUE] ELSE @[i]]]

RevokeNothing ==
  /\ Applies("revoke") /\ Position(sent[Now].share) = {}
  /\ bot' = Replying("inactive", 0)
  /\ UNCHANGED <<mailbox, sent, memory, machine, atRelay, told, carriedOut, joined>>

MarkFirst ==                                                     \* a mutant
  /\ Applies("revoke") /\ Position(sent[Now].share) # {}
  /\ state' = Marked(sent[Now].share) /\ stored' = state'
  /\ bot' = Replying("revoked", sent[Now].share)
  /\ UNCHANGED <<mailbox, sent, machine, atRelay, told, carriedOut, joined>>

RevokeShare ==
  /\ Applies("revoke") /\ Position(sent[Now].share) # {}
  /\ revoked' = revoked \cup {sent[Now].share}
  /\ bot' = With("mark", sent[Now].share)
  /\ UNCHANGED <<mailbox, sent, memory, machine, created, told, carriedOut, joined>>

MarkRevoked ==
  /\ bot.step = "mark"
  /\ state' = Marked(bot.share) /\ stored' = state'
  /\ bot' = Replying("revoked", bot.share)
  /\ UNCHANGED <<mailbox, sent, machine, atRelay, told, carriedOut, joined>>

Reply ==
  /\ bot.step = "reply"
  /\ told' = told \cup {[update |-> Now, answer |-> bot.answer, share |-> bot.share]}
  /\ bot' = Doing("advance")
  /\ UNCHANGED <<mailbox, sent, memory, machine, atRelay, carriedOut, joined>>

Advance ==
  /\ bot.step = "advance"
  /\ state' = [state EXCEPT !.next = @ + 1] /\ stored' = state'
  /\ bot' = Ready
  /\ UNCHANGED <<mailbox, sent, machine, atRelay, told, carriedOut, joined>>

Awaited == RequestId(Now, Suffix[IF bot.step = "document" THEN bot.operation ELSE bot.step])

(* Nobody is there to answer, or what the bot took for its request was     *)
(* removed as one that is answered already.                                *)
InVain == tablet = Down \/ Awaited \notin DOMAIN requests \cup DOMAIN responses

(* request_document gives up.                                              *)
Timeout ==
  /\ bot.step \in {"document", "prepare", "connect"}
  /\ bot' = Ready
  /\ UNCHANGED <<mailbox, sent, memory, machine, atRelay, told, carriedOut, joined>>

(* A call to Telegram or to the relay fails, before or after it took       *)
(* effect, or the state is not written, or only not synced.                *)
FailCall ==
  /\ bot' = Ready
  /\ \/ /\ bot.step = "create" /\ created < MaxShares
        /\ created' \in {created, created + 1}
        /\ UNCHANGED <<revoked, memory, told>>
     \/ /\ Applies("revoke") /\ Position(sent[Now].share) # {}
        /\ revoked' \in {revoked, revoked \cup {sent[Now].share}}
        /\ UNCHANGED <<created, memory, told>>
     \/ /\ \/ bot.step = "register" /\ state' = Registered(bot.share)
           \/ bot.step = "mark" /\ state' = Marked(bot.share)
        /\ stored' \in {stored, state'}
        /\ UNCHANGED <<atRelay, told>>
     \/ /\ bot.step = "reply"
        /\ told' \in {told, told \cup {[update |-> Now, answer |-> bot.answer, share |-> bot.share]}}
        /\ UNCHANGED <<atRelay, memory>>
  /\ UNCHANGED <<mailbox, sent, machine, carriedOut, joined>>

(* The bot stops; systemd starts it again, and it reads its state.         *)
BotCrash ==
  /\ bot' = Ready
  /\ state' = stored
  /\ UNCHANGED <<mailbox, sent, stored, machine, atRelay, told, carriedOut, joined>>

-----------------------------------------------------------------------------
(* The tablet.                                                             *)

Holding(step, id, result) == [step |-> step, id |-> id, result |-> result]

ExecuteDocument(id) ==
  /\ \E u \in UpdateId, k \in DocumentKind :
       /\ requests[id] = OnDocuments(k, u)
       /\ \/ carriedOut' = carriedOut \cup {u} /\ tablet' = Holding("respond", id, "done")
          \/ UNCHANGED carriedOut /\ tablet' = Holding("respond", id, "failed")
  /\ UNCHANGED <<session, joined>>

(* A session of an earlier share is replaced, its connection closed.       *)
ExecutePrepare(id) ==
  /\ requests[id] = PreparePageShare
  /\ \/ session' = Doing("prepared") /\ tablet' = Holding("respond", id, "done")
     \/ UNCHANGED session /\ tablet' = Holding("respond", id, "failed")
  /\ UNCHANGED <<carriedOut, joined>>

ExecuteConnect(id) ==
  /\ \E s \in ShareId :
       /\ requests[id] = ConnectPageShare(s)
       /\ \/ /\ session.step # "none"
             /\ session' = With("connected", s) /\ joined' = joined \cup {s}
             /\ tablet' = Holding("respond", id, "done")
          \/ /\ session.step = "none"
             /\ UNCHANGED <<session, joined>>
             /\ tablet' = Holding("respond", id, "failed")
  /\ UNCHANGED carriedOut

(* apply_oldest_document_request                                           *)
Execute ==
  /\ tablet = Idle
  /\ \E id \in DOMAIN requests :
       /\ IsOldestPending(id)
       /\ ExecuteDocument(id) \/ ExecutePrepare(id) \/ ExecuteConnect(id)
  /\ UNCHANGED <<mailbox, sent, bot, memory, atRelay, told>>

RemoveFirst ==                                                   \* a mutant
  /\ tablet.step = "respond"
  /\ RemoveRequest(tablet.id)
  /\ tablet' = Holding("remove", tablet.id, tablet.result)
  /\ UNCHANGED <<sent, bot, memory, session, atRelay, told, carriedOut, joined>>

(* complete, up to the point where the response is there                   *)
RespondTablet ==
  /\ tablet.step = "respond"
  /\ Respond(tablet.id, tablet.result)
  /\ tablet' = Holding("remove", tablet.id, tablet.result)
  /\ UNCHANGED <<sent, bot, memory, session, atRelay, told, carriedOut, joined>>

(* complete, after that                                                    *)
RemoveAnswered ==
  /\ tablet.step = "remove"
  /\ RemoveRequest(tablet.id)
  /\ tablet' = Idle
  /\ UNCHANGED <<sent, bot, memory, session, atRelay, told, carriedOut, joined>>

(* The user starts the program, or nobody does until the bot needs it.     *)
OpenTablet ==
  /\ tablet = Down /\ tablet' = Idle
  /\ UNCHANGED <<mailbox, sent, bot, memory, session, atRelay, told, carriedOut, joined>>

(* The program ends at any point; the session was in memory only.          *)
TabletStops ==
  /\ tablet # Down /\ tablet' = Down
  /\ session' = Doing("none")
  /\ UNCHANGED <<mailbox, sent, bot, memory, atRelay, told, carriedOut, joined>>

-----------------------------------------------------------------------------
BotStep ==
  \/ SendLibrary \/ OpenDocument \/ Export \/ ImportPdf
  \/ AnnounceAgain \/ StartShare \/ FinishPrepare \/ CreateShare \/ AskToConnect
  \/ FinishConnect \/ RegisterShare
  \/ RevokeNothing \/ RevokeShare \/ MarkRevoked
  \/ Reply \/ Advance
  \/ Timeout /\ InVain

TabletStep == Execute \/ RespondTablet \/ RemoveAnswered

(* A timeout is a fault when an answer would come: the tablet takes a      *)
(* request up in its next frame, unless it is busy for 10 seconds or more. *)
Fault == FailCall \/ BotCrash \/ TabletStops \/ (Timeout /\ ~InVain)

Next == Send \/ OpenTablet \/ BotStep \/ TabletStep \/ Fault
Spec == BotInit /\ [][Next]_botVars

(* (A bot that stops while it waits in vain does what its timeout does.)   *)

(* Both processes run their loops; nobody has to write to the chat or to   *)
(* start the tablet by hand.                                               *)
Fairness == WF_botVars(BotStep) /\ WF_botVars(TabletStep)

-----------------------------------------------------------------------------
MailboxTypeOK ==
  /\ DOMAIN requests \cup DOMAIN responses \subseteq {RequestId(u, n) : u \in UpdateId, n \in Range(Suffix)}
  /\ \A id \in DOMAIN responses : responses[id] \in {"done", "failed"}
  /\ tablet.step \in {"respond", "remove"} => tablet.id \in DOMAIN requests
  /\ tablet = Down => session.step = "none"
  /\ joined \subseteq 1 .. created /\ revoked \subseteq 1 .. created
  /\ stored.next <= state.next /\ state.next <= Len(sent) + 1

(* "A request is removed only after its response is durable, so restarting *)
(* either process cannot silently lose an operation" (document README) and *)
(* "its update offset advances only after the requested effect and Telegram*)
(* reply succeed" (bot README): an update that the offset is past was      *)
(* answered, and one that was answered as done was carried out.            *)
NoOperationIsLost ==
  /\ \A u \in 1 .. stored.next - 1 : \E t \in told : t.update = u
  /\ \A t \in told : t.answer = "done" => t.update \in carriedOut

(* A share that the bot calls revoked, to the user or in its file, is      *)
(* revoked at the relay, whatever failed on the way.                       *)
RevocationsAreReal ==
  /\ \A t \in told : t.answer = "revoked" => t.share \in revoked
  /\ \A i \in DOMAIN stored.shares : stored.shares[i].revoked => stored.shares[i].share \in revoked

(* "/share creates a 24-hour collaborative link for the displayed page and *)
(* connects the tablet as its black owner" (bot README): a link that is    *)
(* announced belongs to a share that the tablet was connected to.          *)
AnnouncedSharesAreJoined ==
  \A t \in told : t.answer = "link" => t.share \in joined

(* Every update is applied in the end and the offset moves past it, unless *)
(* faults go on for ever (or the bound on the shares is reached): a request*)
(* that conflicts with an older attempt, a tablet that is not running and  *)
(* a session that was lost do not stop the bot.                            *)
UpdatesAreServed ==
  \/ []<><<Fault /\ ~BotStep>>_botVars
  \/ <>(created = MaxShares)
  \/ \A u \in UpdateId : [](Len(sent) >= u => <>(stored.next > u))
=============================================================================
