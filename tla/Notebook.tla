------------------------------ MODULE Notebook -------------------------------
(***************************************************************************)
(* The notebook of the tablet: a library of documents, the page that is    *)
(* open, the edit histories, and the shared session whose page the relay   *)
(* overwrites. (tablet/notebook.rs, notebook_history.rs,                   *)
(* notebook_shared_page.rs, document_library.rs)                           *)
(*                                                                         *)
(* Library and histories are two files, and every handler ends with        *)
(* writing them, one after the other: a handler is a step that changes     *)
(* memory, followed by WriteLibrary and WriteHistories. The process is a   *)
(* single thread, so nothing comes in between, except that a write fails   *)
(* or that the process stops.                                              *)
(*                                                                         *)
(* Left out: what is drawn and how, the points of a stroke, the commands   *)
(* that go to the relay (PageRelay has them), titles, and a library file   *)
(* that cannot be read: it is renamed into place when it is whole.         *)
(***************************************************************************)
EXTENDS EditHistory

CONSTANTS
  Document,     \* the ids of documents
  First,        \* FIRST_NOTEBOOK_ID
  Stroke,
  Remains,      \* what the eraser may leave of a stroke, in order (erase_stroke)
  RelayPage,    \* what the journal of a shared page may hold
  MaxPages      \* bound: the pages of a document

NoDocument == "none"

ASSUME NotebookAssumption ==
  /\ First \in Document
  /\ NoDocument \notin Document
  /\ Remains \subseteq Seq(Stroke)
  /\ RelayPage \subseteq Seq(Stroke)
  /\ MaxPages \in Nat \ {0}

VARIABLES
  library,      \* document -> its pages and the index of the current one
  open,         \* the document that is open, or NoDocument
  page,         \* the strokes of the page that is open
  histories,    \* PageEditHistories
  session,      \* the identity of the shared page, or NotShared
  writing,      \* who has the next file written, and which one, or Idle
  file,         \* the two files: library and histories
  agreed,       \* (observer) library and stale pages when the histories were last written
  stale,        \* (observer) pages whose history may not be that of their strokes
  unsaved       \* (observer) a request failed halfway, and nothing was saved since

vars == <<library, open, page, histories, session, writing, file, agreed, stale, unsaved>>

NotShared  == <<"none", 0>>
Idle       == [by |-> "none", next |-> "none"]
ToWrite(who) == [by |-> who, next |-> "library"]

(* A page has a name, for the properties only: its index changes.          *)
BlankPage(n)          == [name |-> n, strokes |-> <<>>]
Store(lib, id, s)     == [lib EXCEPT ![id[1]].pages[id[2]].strokes = s]
IdentitiesIn(lib)     == UNION {{<<d, i>> : i \in DOMAIN lib[d].pages} : d \in DOMAIN lib}
PageAt(lib, id)       == lib[id[1]].pages[id[2]]
NextName              == Cardinality(IdentitiesIn(library)) + 1

NotebookInit ==
  /\ library = [d \in {First} |-> [current |-> 1, pages |-> <<BlankPage(1)>>]]
  /\ open = NoDocument /\ page = <<>>
  /\ histories = <<>>
  /\ session = NotShared
  /\ writing = Idle
  /\ file = [library |-> library, histories |-> histories]
  /\ agreed = [library |-> library, stale |-> {}] /\ stale = {} /\ unsaved = FALSE

Identity   == <<open, library[open].current>>
PageIsOpen == writing = Idle /\ open # NoDocument
IsShared   == session = Identity

(* store_open_document_strokes                                             *)
Stored == IF open = NoDocument THEN library ELSE Store(library, Identity, page)

-----------------------------------------------------------------------------
(* Edits                                                                   *)

(* The page becomes `after': record_current_page_edit, then save_state. An *)
(* edit of the shared page is not recorded. The pen's contact ends by the  *)
(* pen, or by a request, whose answer is then the error of a failed save.  *)
EditWithoutSaving(after, who) ==                                 \* a mutant
  /\ page' = after
  /\ library' = Store(library, Identity, after)
  /\ histories' = IF IsShared THEN histories ELSE Recorded(histories, Identity, page, after)
  /\ stale' = IF IsShared /\ Identity \in Identities(histories)
              THEN stale \cup {PageAt(library, Identity).name} ELSE stale
  /\ UNCHANGED <<open, session, writing, file, agreed, unsaved>>

EditTo(after, who) ==
  /\ page' = after
  /\ library' = Store(library, Identity, after)
  /\ histories' = IF IsShared THEN histories ELSE Recorded(histories, Identity, page, after)
  /\ stale' = IF IsShared /\ Identity \in Identities(histories)
              THEN stale \cup {PageAt(library, Identity).name} ELSE stale
  /\ writing' = ToWrite(who)
  /\ UNCHANGED <<open, session, file, agreed, unsaved>>

Draw(s, who) == PageIsOpen /\ EditTo(Append(page, s), who)

(* erase_stroke leaves of every stroke itself, nothing, or the pieces it   *)
(* was cut into.                                                           *)
ErasedStrokes    == [DOMAIN page -> Remains]
Erase(left, who) == PageIsOpen /\ EditTo(FlattenSeq(left), who)

(* finish_shared_stroke fails: the session ended while its stroke was      *)
(* drawn. The stroke is on the page by then; it is neither recorded nor    *)
(* saved. In a request this is its answer; by the pen it is a Restart.     *)
FinishStrokeOfEndedSession(s) ==
  /\ PageIsOpen /\ IsShared
  /\ session' = NotShared
  /\ page' = Append(page, s)
  /\ stale' = IF Identity \in Identities(histories)
              THEN stale \cup {PageAt(library, Identity).name} ELSE stale
  /\ unsaved' = TRUE
  /\ UNCHANGED <<library, open, histories, writing, file, agreed>>

ReplacePage(after, h) ==
  /\ page' = after
  /\ histories' = Updated(histories, h)
  /\ library' = Store(library, Identity, after)
  /\ writing' = ToWrite("pen")
  /\ UNCHANGED <<open, session, file, agreed, stale, unsaved>>

(* undo_current_page and redo_current_page. Those of the shared page are   *)
(* commands to the relay and change nothing here.                          *)
Undo ==
  LET h == HistoryOf(histories, Identity)
  IN  /\ PageIsOpen /\ ~IsShared
      /\ CanUndo(h, page)
      /\ ReplacePage(Reversed(page, Last(h.undo)), AfterUndo(h))

Redo ==
  LET h == HistoryOf(histories, Identity)
  IN  /\ PageIsOpen /\ ~IsShared
      /\ CanRedo(h, page)
      /\ ReplacePage(Forwarded(page, Last(h.redo)), AfterRedo(h))

-----------------------------------------------------------------------------
(* The library                                                             *)

(* show_document, after store_open_document_strokes and a change `lib'     *)
Show(d, lib, who) ==
  /\ library' = lib
  /\ open' = d
  /\ page' = lib[d].pages[lib[d].current].strokes
  /\ writing' = ToWrite(who)
  /\ UNCHANGED <<session, file, agreed, stale, unsaved>>

InsertBlankPage ==
  LET at == library[open].current + 1
  IN  /\ PageIsOpen /\ Len(library[open].pages) < MaxPages
      /\ Show(open, [Stored EXCEPT ![open].current = at,
                                   ![open].pages = InsertAt(@, at, BlankPage(NextName))], "pen")
      /\ histories' = Shifted(histories, open, at)

ChangePageBeforeStoring(i) ==                                    \* a mutant
  /\ PageIsOpen
  /\ i \in DOMAIN library[open].pages
  /\ i \in {library[open].current - 1, library[open].current + 1}
  /\ Show(open, [Store(library, <<open, i>>, page) EXCEPT ![open].current = i], "pen")
  /\ UNCHANGED histories

(* A swipe turns one page, within the document.                            *)
ChangePage(i) ==
  /\ PageIsOpen
  /\ i \in DOMAIN library[open].pages
  /\ i \in {library[open].current - 1, library[open].current + 1}
  /\ Show(open, [Stored EXCEPT ![open].current = i], "pen")
  /\ UNCHANGED histories

(* By a tap in the library, or by a request: an error of a request is its  *)
(* answer, an error of the pen ends the process.                           *)
OpenDocument(d, who) ==
  /\ writing = Idle /\ d \in DOMAIN library
  /\ who = "request" \/ open = NoDocument
  /\ Show(d, Stored, who)
  /\ UNCHANGED histories

WithDocument(lib, d, pages) ==
  [e \in DOMAIN lib \cup {d} |->
     IF e = d THEN [current |-> 1,
                    pages |-> [i \in 1 .. pages |-> BlankPage(NextName + i - 1)]]
     ELSE lib[e]]

(* By the pen, create_notebook, which has one page; by a request,          *)
(* import_pdf of a document that is new.                                   *)
AddDocument(d, pages, who) ==
  /\ writing = Idle /\ d \notin DOMAIN library
  /\ who = "request" \/ (open = NoDocument /\ pages = 1)
  /\ Show(d, WithDocument(Stored, d, pages), who)
  /\ UNCHANGED histories

(* The first page of the PDF cannot be rendered: the request has failed,   *)
(* but the document is in the library.                                     *)
ImportUnrenderable(d, pages) ==
  /\ writing = Idle /\ d \notin DOMAIN library
  /\ library' = WithDocument(Stored, d, pages)
  /\ unsaved' = TRUE
  /\ UNCHANGED <<open, page, histories, session, writing, file, agreed, stale>>

(* export, and what precedes sleep, save what there is.                    *)
SaveState(who) ==
  /\ writing = Idle
  /\ who = "pen" \/ open # NoDocument
  /\ library' = Stored
  /\ writing' = ToWrite(who)
  /\ UNCHANGED <<open, page, histories, session, file, agreed, stale, unsaved>>

(* show_document_library. The page is closed once it is saved.             *)
ShowLibrary ==
  /\ PageIsOpen
  /\ library' = Stored
  /\ open' = NoDocument /\ page' = <<>>
  /\ writing' = ToWrite("pen")
  /\ UNCHANGED <<histories, session, file, agreed, stale, unsaved>>

-----------------------------------------------------------------------------
(* Sharing                                                                 *)

(* prepare_page_share. Once everything is saved the session begins, and    *)
(* takes the place of an earlier one.                                      *)
PreparePageShare ==
  /\ PageIsOpen
  /\ library' = Stored
  /\ writing' = ToWrite("share")
  /\ UNCHANGED <<open, page, histories, session, file, agreed, stale, unsaved>>

DisconnectPageShare ==
  /\ writing = Idle /\ session # NotShared
  /\ session' = NotShared
  /\ UNCHANGED <<library, open, page, histories, writing, file, agreed, stale, unsaved>>

(* store_shared_page_snapshot: the page of the relay's journal, whatever   *)
(* it is, goes to the library first; the history is cleared, and the page  *)
(* that is open replaced, as its two writes succeed.                       *)
ReceivePage(s) ==
  /\ writing = Idle /\ session # NotShared
  /\ library' = Store(library, session, s)
  /\ writing' = ToWrite("relay")
  /\ UNCHANGED <<open, page, histories, session, file, agreed, stale, unsaved>>

-----------------------------------------------------------------------------
(* The two writes                                                          *)

(* Pages with a history in the file that is not known to be theirs, when   *)
(* the library in the file is `lib'.                                       *)
NotAgreeing(lib, hs) ==
  {PageAt(lib, id).name :
     id \in {i \in Identities(hs) \cap IdentitiesIn(lib) :
               i \notin IdentitiesIn(agreed.library) \/ PageAt(lib, i) # PageAt(agreed.library, i)}}

SaveDocumentLibrary   == file' = [file EXCEPT !.library = library]
SavePageEditHistories == file' = [file EXCEPT !.histories = histories]

WriteLibrary ==
  /\ writing.next = "library"
  /\ SaveDocumentLibrary
  /\ writing' = [writing EXCEPT !.next = "histories"]
  /\ IF writing.by = "relay"
     THEN /\ histories' = Cleared(histories, session)
          /\ stale' = stale \ {PageAt(library, session).name}
     ELSE UNCHANGED <<histories, stale>>
  /\ UNCHANGED <<library, open, page, session, agreed, unsaved>>

WriteHistories ==
  /\ writing.next = "histories"
  /\ SavePageEditHistories
  /\ writing' = Idle
  /\ page' = IF writing.by = "relay" /\ open # NoDocument /\ IsShared
             THEN PageAt(library, session).strokes ELSE page
  /\ session' = IF writing.by = "share" THEN Identity ELSE session
  /\ agreed' = [library |-> file.library, stale |-> stale]
  /\ unsaved' = FALSE
  /\ UNCHANGED <<library, open, histories, stale>>

RestoreDocumentLibrary   == library' = file.library
RestorePageEditHistories == histories' = file.histories

(* The process stops, or the pen's handler returns an error, and is        *)
(* started again: restore_state, whose save writes what was just read. Its *)
(* error is ignored: histories that cannot be read are none, and the next  *)
(* save overwrites them.                                                   *)
Restart ==
  /\ RestoreDocumentLibrary
  /\ \/ RestorePageEditHistories
        /\ stale' = agreed.stale \cup NotAgreeing(file.library, file.histories)
     \/ histories' = <<>> /\ stale' = {}
  /\ unsaved' = (histories' # file.histories)
  /\ open' = NoDocument /\ page' = <<>>
  /\ session' = NotShared
  /\ writing' = Idle
  /\ UNCHANGED <<file, agreed>>

(* replace_matching finds something else: the error ends the process.      *)
UndoIsRefused ==
  LET h == HistoryOf(histories, Identity)
  IN  /\ PageIsOpen /\ ~IsShared
      /\ \/ h.undo # <<>> /\ ~CanUndo(h, page)
         \/ h.redo # <<>> /\ ~CanRedo(h, page)
      /\ Restart

(* A write fails, whether or not the file was renamed. What was in memory  *)
(* stays there: a request is answered with the error, and the shared page  *)
(* is disconnected.                                                        *)
Fail(disconnected) ==
  /\ writing.by \in {"request", "share", "relay"}
  /\ \/ UNCHANGED <<file, agreed>>
     \/ /\ writing.next = "library"
        /\ SaveDocumentLibrary /\ UNCHANGED agreed
     \/ /\ writing.next = "histories"
        /\ SavePageEditHistories
        /\ agreed' = [library |-> file.library, stale |-> stale]
  /\ session' = disconnected
  /\ stale' = IF writing = ToWrite("relay") /\ session \in Identities(histories)
              THEN stale \cup {PageAt(library, session).name} ELSE stale
  /\ unsaved' = TRUE
  /\ UNCHANGED <<library, open, page, histories>>

FailWriteGoingOn ==                                              \* a mutant
  Fail(IF writing.by = "relay" THEN NotShared ELSE session) /\ UNCHANGED writing

FailWrite ==
  Fail(IF writing.by = "relay" THEN NotShared ELSE session) /\ writing' = Idle

-----------------------------------------------------------------------------
Handler ==
  \/ \E who \in {"pen", "request"} :
       \/ \E s \in Stroke : Draw(s, who)
       \/ \E left \in ErasedStrokes : Erase(left, who)
  \/ \E s \in Stroke : FinishStrokeOfEndedSession(s)
  \/ Undo \/ Redo \/ InsertBlankPage \/ ShowLibrary
  \/ \E i \in 1 .. MaxPages : ChangePage(i)
  \/ \E d \in Document, who \in {"pen", "request"} :
       OpenDocument(d, who) \/ \E n \in 1 .. MaxPages : AddDocument(d, n, who)
  \/ \E d \in Document, n \in 1 .. MaxPages : ImportUnrenderable(d, n)
  \/ \E who \in {"pen", "request"} : SaveState(who)
  \/ PreparePageShare \/ DisconnectPageShare
  \/ \E s \in RelayPage : ReceivePage(s)

Fault == Restart \/ FailWrite
Next  == Handler \/ UndoIsRefused \/ WriteLibrary \/ WriteHistories \/ Fault
Spec  == NotebookInit /\ [][Next]_vars

-----------------------------------------------------------------------------
(* Properties                                                              *)

IsReplacement(r) ==
  r.start \in Nat /\ r.removed \in Seq(Stroke) /\ r.inserted \in Seq(Stroke)

(* DocumentLibrary::validate                                               *)
IsLibrary(lib) ==
  /\ DOMAIN lib \subseteq Document /\ DOMAIN lib # {}
  /\ \A d \in DOMAIN lib :
       /\ lib[d].current \in DOMAIN lib[d].pages
       /\ \A i \in DOMAIN lib[d].pages : lib[d].pages[i].strokes \in Seq(Stroke)

(* The types of the state; what the relay writes is written for a session. *)
NotebookTypeOK ==
  /\ IsLibrary(library) /\ IsLibrary(file.library)
  /\ open \in DOMAIN library \cup {NoDocument}
  /\ page \in Seq(Stroke)
  /\ \A k \in DOMAIN histories :
       \A r \in Range(histories[k].undo) \cup Range(histories[k].redo) : IsReplacement(r)
  /\ session \in IdentitiesIn(library) \cup {NotShared}
  /\ writing.by = "relay" => session # NotShared
  /\ writing.by = "share" => open # NoDocument

(* Everything in the history of a page can be taken back and made again,   *)
(* so that undo and redo never end the process with an error. Excepted are *)
(* the pages whose strokes and history parted: the process stopped between *)
(* its two files, or the page was edited as a shared page before anything  *)
(* arrived from the relay. (notebook_history.rs, replace_matching)         *)
HistoriesFitTheirPages ==
  writing = Idle =>
    \A k \in DOMAIN histories :
      LET at == PageAt(Stored, histories[k].identity)
      IN  at.name \notin stale => Fits(at.strokes, histories[k])

(* The histories in memory and in the file pass the validation of save and *)
(* restore, and belong to pages that exist, at whichever point the process *)
(* stops: the library is written first, and pages are only ever added.     *)
HistoriesArePages ==
  /\ HistoriesAreValid(histories) /\ HistoriesAreValid(file.histories)
  /\ Identities(histories) \subseteq IdentitiesIn(library)
  /\ Identities(file.histories) \subseteq IdentitiesIn(file.library)

(* Between two handlers the files are what is in memory: whenever the      *)
(* process stops then, nothing is lost. (save_state at the end of each)    *)
NothingIsUnsaved ==
  writing = Idle /\ ~unsaved => file = [library |-> Stored, histories |-> histories]

TakesBack(h, before, after) ==
  \/ /\ CanUndo(h, after)
     /\ Reversed(after, Last(h.undo)) = before
  \/ /\ CanRedo(h, after)
     /\ Forwarded(after, Last(h.redo)) = before

(* Whatever changed the page that is open, a step of undo or redo gives    *)
(* back exactly what was there: also where an eraser cut one stroke into   *)
(* several and dropped others. (StrokeSequenceReplacement::between,        *)
(* apply_reverse, apply_forward)                                           *)
EditsCanBeTakenBack ==
  [][PageIsOpen /\ ~IsShared /\ open' = open /\ Identity' = Identity /\ page' # page
       => TakesBack(HistoryOf(histories', Identity), page, page')]_vars

StrokesOf(lib, n) ==
  LET ids == {id \in IdentitiesIn(lib) : PageAt(lib, id).name = n}
  IN  IF ids = {} THEN <<>> ELSE PageAt(lib, CHOOSE id \in ids : TRUE).strokes
Changed(before, after) ==
  {n \in {PageAt(before, id).name : id \in IdentitiesIn(before)} :
     StrokesOf(before, n) # StrokesOf(after, n)}

(* The strokes of a page change only while it is the page that is open or  *)
(* the shared one; turning pages, inserting them and opening documents     *)
(* leaves the strokes of every page alone, and a process that stops loses  *)
(* what the handler in progress did to one page. (store_strokes and the    *)
(* order of store_open_document_strokes and change_page)                   *)
PagesChangeOneAtATime ==
  [][unsaved \/ Changed(Stored, Stored') = {}
       \/ /\ Cardinality(Changed(Stored, Stored')) = 1
          /\ \/ open # NoDocument /\ open' = open /\ Identity' = Identity
             \/ session # NotShared
                  /\ Changed(Stored, Stored') = {PageAt(library, session).name}
             \/ library' = file.library]_vars

(* "A shared page is identified independently of the tablet's current      *)
(* view" (docs/architecture.md): as long as a session lasts, its identity  *)
(* is that of one and the same page of the library.                        *)
SharedPageStaysShared ==
  [][session # NotShared /\ session' = session
       => PageAt(library', session).name = PageAt(library, session).name]_vars
=============================================================================
