---------------------------- MODULE InboundSync ----------------------------
(***************************************************************************)
(* Uyumsoft inbound synchronisation.  Pollers (one cycle at a time across   *)
(* processes, by an advisory lock) and manual requests list the provider's  *)
(* inbox page by page, persist metadata, download each document and import  *)
(* it.  One cycle is one database session: the import of an invoice that    *)
(* needs a review commits the session in the middle of the cycle, anything  *)
(* else is committed, or rolled back, when the cycle ends.                  *)
(*                                                                          *)
(* There is no watermark: every cycle lists the whole window again, and     *)
(* invoices that have a receipt or a review are skipped.  Meanwhile         *)
(* invoices arrive and leave the window, so that the pages of a cycle shift.*)
(* A session that inserts a row another open session has inserted waits.    *)
(*                                                                          *)
(* Documents are files outside the database, named by invoice and content:  *)
(* two sessions that store the same document write the same file, and the   *)
(* one whose row is refused deletes it.                                     *)
(***************************************************************************)
EXTENDS Naturals, Sequences, FiniteSets, SequencesExt

CONSTANTS
    Ettns,          \* identities of inbox invoices
    Broken,         \* those that never parse, or name no company of the Hub
    Accepted,       \* those the decision engine accepts without a review
    Pollers,        \* poller processes
    Manual,         \* manual sync requests
    PageSize, MaxPages,
    MaxTroubles,    \* bound: failed calls, deaths, and changes of the window
    MaxManualRuns,  \* bound: manual requests made
    NoWorker

Workers == Pollers \cup Manual

ASSUME InboundAssumption ==
    /\ Broken \subseteq Ettns /\ Accepted \subseteq Ettns
    /\ PageSize \in Nat \ {0} /\ MaxPages \in Nat \ {0}
    /\ MaxTroubles \in Nat /\ MaxManualRuns \in Nat
    /\ Pollers \cap Manual = {} /\ NoWorker \notin Workers
    /\ Cardinality(Ettns) <= PageSize * MaxPages      \* a window is never truncated

VARIABLES
    inbox,      \* what the provider lists for the window, in its order
    arrived,    \* invoices that have appeared there
    content,    \* [Ettns -> version of the document at the provider]
    db,         \* committed: meta, doc (version its row names, 0 none), imported, run
    files,      \* the documents in the storage: [invoice, version]
    lock,       \* the advisory lock of the pollers
    cycle,      \* [Workers -> its cycle and what its session has staged]
    troubles,
    manualRuns

vars == <<inbox, arrived, content, db, files, lock, cycle, troubles, manualRuns>>

RunStatus == {"none", "running", "completed", "failed"}

Idle == [pc |-> "idle", page |-> 1, todo |-> <<>>, last |-> FALSE, selected |-> FALSE,
         bytes |-> 0, run |-> "none", meta |-> {}, doc |-> [i \in Ettns |-> 0], receipts |-> {}]

Init ==
    /\ inbox = <<>>
    /\ arrived = {}
    /\ content = [i \in Ettns |-> 1]
    /\ db = [meta |-> {}, doc |-> [i \in Ettns |-> 0],
             imported |-> [i \in Ettns |-> "none"], run |-> [w \in Workers |-> "none"]]
    /\ files = {}
    /\ lock = NoWorker
    /\ cycle = [w \in Workers |-> Idle]
    /\ troubles = 0
    /\ manualRuns = 0

---------------------------------------------------------------------------
(* The provider                                                             *)

Trouble == troubles < MaxTroubles /\ troubles' = troubles + 1

\* an invoice dated in the window appears, at either end of the provider's order
Arrives(i) ==
    /\ i \notin arrived
    /\ arrived' = arrived \cup {i}
    /\ inbox' \in {<<i>> \o inbox, Append(inbox, i)}
    /\ UNCHANGED <<content, db, files, lock, cycle, troubles, manualRuns>>

\* the lookback window moves past it
LeavesWindow(i) ==
    /\ Trouble
    /\ \E k \in DOMAIN inbox : inbox[k] = i /\ inbox' = RemoveAt(inbox, k)
    /\ UNCHANGED <<arrived, content, db, files, lock, cycle, manualRuns>>

\* the provider serves other bytes for the same document
Reissued(i) ==
    /\ content[i] = 1
    /\ Trouble
    /\ content' = [content EXCEPT ![i] = 2]
    /\ UNCHANGED <<inbox, arrived, db, files, lock, cycle, manualRuns>>

---------------------------------------------------------------------------
(* Sessions                                                                 *)

At(w, pc) == cycle[w].pc = pc

\* what a session reads: the committed rows and its own
Doc(w, i) == IF cycle[w].doc[i] # 0 THEN cycle[w].doc[i] ELSE db.doc[i]
InHistory(w, i) == db.imported[i] # "none" \/ i \in cycle[w].receipts

\* rows another open session has inserted or updated: writing the same key waits for them
MetaHeld(w, i) == \E v \in Workers \ {w} : i \in cycle[v].meta
DocHeld(w, i) == \E v \in Workers \ {w} : cycle[v].doc[i] # 0
ReceiptHeld(w, i) == \E v \in Workers \ {w} : i \in cycle[v].receipts

\* the database after a commit of w's session that also writes `reviews`
SessionCommitted(w, reviews) ==
    [meta |-> db.meta \cup cycle[w].meta,
     doc |-> [i \in Ettns |-> Doc(w, i)],
     imported |-> [i \in Ettns |->
        IF db.imported[i] # "none" THEN db.imported[i]
        ELSE IF i \in reviews THEN "review"
        ELSE IF i \in cycle[w].receipts THEN "receipt" ELSE "none"],
     run |-> [db.run EXCEPT ![w] = cycle[w].run]]

Unstaged(c) == [c EXCEPT !.meta = {}, !.doc = Idle.doc, !.receipts = {}]

Release(w) == lock' = IF lock = w THEN NoWorker ELSE lock

---------------------------------------------------------------------------
(* A cycle                                                                  *)

\* SyncRunRepository.start: the row is only flushed.  The rows of cycles that have ended are
\* not looked at again.
Begun(w) ==
    /\ cycle' = [cycle EXCEPT ![w] = [Idle EXCEPT !.pc = "list", !.run = "running"]]
    /\ db' = [db EXCEPT !.run = [v \in Workers |-> IF At(v, "idle") THEN "none" ELSE db.run[v]]]

\* the scheduler starts the next cycle; without the lock it ends as skipped_locked
StartPoll(w) ==
    /\ w \in Pollers /\ At(w, "idle")
    /\ lock = NoWorker
    /\ lock' = w
    /\ Begun(w)
    /\ UNCHANGED <<inbox, arrived, content, files, troubles, manualRuns>>

\* POST /sync/uyumsoft/invoices: no lock, no check for known invoices
StartManual(w) ==
    /\ w \in Manual /\ At(w, "idle")
    /\ manualRuns < MaxManualRuns
    /\ manualRuns' = manualRuns + 1
    /\ Begun(w)
    /\ UNCHANGED <<inbox, arrived, content, files, lock, troubles>>

\* Mutation: an invoice is known as soon as its metadata is.
KnownByMetadata(w, i) == i \in db.meta

\* KnownInboundInvoiceChecker.is_known, on the session of the cycle
AlreadyImported(w, i) == InHistory(w, i)

Page(n) == SubSeq(inbox, (n - 1) * PageSize + 1, IF n * PageSize < Len(inbox) THEN n * PageSize ELSE Len(inbox))

\* the invoices of the page w lists now, without those a poller knows
Fresh(w) == {i \in Range(Page(cycle[w].page)) : w \in Manual \/ ~AlreadyImported(w, i)}

InOrderOf(page, s) == \A a, b \in DOMAIN s : a < b =>
    \E j, k \in DOMAIN page : j < k /\ page[j] = s[a] /\ page[k] = s[b]

\* the one list of them that keeps the order of the page
Selected(w) ==
    LET fresh == Fresh(w)  page == Page(cycle[w].page) IN
    {s \in [1..Cardinality(fresh) -> fresh] : Range(s) = fresh /\ InOrderOf(page, s)}

\* where a cycle goes on: the next invoice of the page, the next page, or its end
Onward(c) == IF c.todo # <<>> THEN [c EXCEPT !.pc = "import"]
             ELSE IF c.last THEN [c EXCEPT !.pc = "end"]
             ELSE [c EXCEPT !.pc = "list", !.page = @ + 1]

\* whatever the outcome of this invoice
Rest(c) == Onward([c EXCEPT !.todo = Tail(@), !.bytes = 0])

\* persist_invoices: metadata is inserted, or updated when it is there, also after an INSERT
\* that met another session's row
Persisted(meta, todo) == meta \cup Range(todo)

\* the cycle with the list of a page to import
Listed(c, todo, last) ==
    [c EXCEPT !.todo = todo, !.last = last, !.selected = @ \/ todo # <<>>,
              !.meta = Persisted(@, todo)]

\* One page is listed and narrowed to what is not known yet; a short page, or as many
\* invoices seen as the provider counts, is the last, and so is page MaxPages.
ListPage(w) ==
    /\ At(w, "list")
    /\ LET page == Page(cycle[w].page)
           short == Len(page) < PageSize \/ cycle[w].page = MaxPages
           counted == cycle[w].page * PageSize >= Len(inbox)
       IN /\ \A i \in Fresh(w) : ~MetaHeld(w, i)
          /\ \E todo \in Selected(w), last \in {short, short \/ counted} :  \* total_count is optional
               cycle' = [cycle EXCEPT ![w] = Onward(Listed(@, todo, last))]
    /\ UNCHANGED <<inbox, arrived, content, db, files, lock, troubles, manualRuns>>

\* the invoice of the page w is at
AtInvoice(w) == Head(cycle[w].todo)
File(i, version) == [invoice |-> i, version |-> version]

\* parsing the document and resolving exactly one company by the buyer's tax number
Importable(i) == i \notin Broken

\* on with the same invoice, with the bytes fetched for it
Working(c, pc, bytes) == [c EXCEPT !.pc = pc, !.bytes = bytes]

\* _download_one: the provider is asked for the document every time; a stored one with other
\* bytes is a conflict, one with the same bytes is reused, a new one is written to its file
Download(w) ==
    LET i == AtInvoice(w)  c == cycle[w] IN
    /\ At(w, "import")
    /\ cycle' = [cycle EXCEPT ![w] =
         IF Doc(w, i) = 0 THEN Working(c, "insert", content[i])
         ELSE IF Doc(w, i) = content[i] THEN Working(c, "read", 0) ELSE Rest(c)]
    /\ files' = IF Doc(w, i) = 0 THEN files \cup {File(i, content[i])} ELSE files
    /\ UNCHANGED <<inbox, arrived, content, db, lock, troubles, manualRuns>>

\* its row is staged; when the row is there by now, the file is deleted, also when it is the
\* file that row names
Insert(w) ==
    LET i == AtInvoice(w)  c == cycle[w] IN
    /\ At(w, "insert") /\ ~DocHeld(w, i)
    /\ IF db.doc[i] = 0
         THEN /\ cycle' = [cycle EXCEPT ![w] = Working([c EXCEPT !.doc[i] = c.bytes], "read", 0)]
              /\ UNCHANGED files
         ELSE /\ cycle' = [cycle EXCEPT ![w] =
                   IF db.doc[i] = c.bytes THEN Working(c, "read", 0) ELSE Rest(c)]
              /\ files' = files \ {File(i, c.bytes)}
    /\ UNCHANGED <<inbox, arrived, content, db, lock, troubles, manualRuns>>

\* import_invoice up to the decision: the stored document is read and parsed, its company found;
\* what is not imported yet goes through the decision engine
Parse(w) ==
    LET i == AtInvoice(w)  c == cycle[w] IN
    /\ At(w, "read")
    /\ cycle' = [cycle EXCEPT ![w] =
         IF File(i, Doc(w, i)) \notin files \/ ~Importable(i) \/ InHistory(w, i) THEN Rest(c)
         ELSE Working(c, "record", 0)]
    /\ UNCHANGED <<inbox, arrived, content, db, files, lock, troubles, manualRuns>>

\* record_import_result: an invoice in the history has its receipt or review already
ReceiptsWith(w, i) ==
    IF InHistory(w, i) THEN cycle[w].receipts ELSE cycle[w].receipts \cup {i}

\* a receipt is staged; on a concurrent one the session's view of it is returned
RecordReceipt(w) ==
    /\ At(w, "record")
    /\ LET i == AtInvoice(w) IN
         /\ i \in Accepted
         /\ ~ReceiptHeld(w, i)
         /\ cycle' = [cycle EXCEPT ![w] = Rest([@ EXCEPT !.receipts = ReceiptsWith(w, i)])]
    /\ UNCHANGED <<inbox, arrived, content, db, files, lock, troubles, manualRuns>>

\* Mutation: the review is committed by a session of its own.
CreateReviewAlone(w) ==
    /\ At(w, "record")
    /\ LET i == AtInvoice(w) IN
         /\ i \notin Accepted
         /\ db' = [db EXCEPT !.imported[i] = IF @ = "none" THEN "review" ELSE @]
         /\ cycle' = [cycle EXCEPT ![w] = Rest(@)]
    /\ UNCHANGED <<inbox, arrived, content, files, lock, troubles, manualRuns>>

\* the review is created, or the existing one found by its key, and the whole session is
\* committed: the metadata and documents of the page, the receipts, the run row
CreateReview(w) ==
    /\ At(w, "record")
    /\ LET i == AtInvoice(w) IN
         /\ i \notin Accepted
         /\ db' = SessionCommitted(w, {i})
         /\ cycle' = [cycle EXCEPT ![w] = Rest(Unstaged(@))]
    /\ UNCHANGED <<inbox, arrived, content, files, lock, troubles, manualRuns>>

\* the run row is completed; a poll that selected nothing is rolled back
EndCycle(w) ==
    /\ At(w, "end")
    /\ IF w \in Manual \/ cycle[w].selected
         THEN db' = [SessionCommitted(w, {}) EXCEPT !.run[w] = "completed"]
         ELSE UNCHANGED db
    /\ cycle' = [cycle EXCEPT ![w] = Idle]
    /\ Release(w)
    /\ UNCHANGED <<inbox, arrived, content, files, troubles, manualRuns>>

---------------------------------------------------------------------------
(* Trouble                                                                  *)

WithoutFile(w) == files \ {File(AtInvoice(w), cycle[w].bytes)}

\* one invoice fails (download, storage, the insert of its row, which deletes the file, company
\* lookup, decision engine, an unexpected exception caught by IsolatingCanonicalImporter): the
\* next one is tried
InvoiceFails(w) ==
    /\ cycle[w].pc \in {"import", "insert", "read", "record"}
    /\ Trouble
    /\ cycle' = [cycle EXCEPT ![w] = Rest(@)]
    /\ files' \in IF At(w, "insert") THEN {files, WithoutFile(w)} ELSE {files}
    /\ UNCHANGED <<inbox, arrived, content, db, lock, manualRuns>>

\* listing a page fails with a ConnectorError: what is staged is kept, the run has failed
ListFails(w) ==
    /\ At(w, "list")
    /\ Trouble
    /\ db' = [SessionCommitted(w, {}) EXCEPT !.run[w] = "failed"]
    /\ cycle' = [cycle EXCEPT ![w] = Idle]
    /\ Release(w)
    /\ UNCHANGED <<inbox, arrived, content, files, manualRuns>>

\* the sessions that hold a row w is about to write
WaitsFor(w) == {v \in Workers \ {w} :
    \/ At(w, "list") /\ \E i \in Fresh(w) : i \in cycle[v].meta
    \/ At(w, "insert") /\ cycle[v].doc[AtInvoice(w)] # 0
    \/ At(w, "record") /\ AtInvoice(w) \in cycle[v].receipts}

\* Two sessions wait for each other (pages shifted between their lists): PostgreSQL ends one
\* statement.  While a page is persisted the error ends the cycle; inside an import it is
\* caught at the savepoint, only that invoice fails, and the file whose row it was inserting is
\* deleted.
DeadlockVictim(w) ==
    /\ \E v \in WaitsFor(w) : w \in WaitsFor(v)
    /\ cycle' = [cycle EXCEPT ![w] = IF At(w, "list") THEN Idle ELSE Rest(@)]
    /\ IF At(w, "list") THEN Release(w) ELSE UNCHANGED lock
    /\ files' = IF At(w, "insert") THEN WithoutFile(w) ELSE files
    /\ UNCHANGED <<inbox, arrived, content, db, troubles, manualRuns>>

\* any other exception rolls the session back, as does a process that dies
SessionLost(w) ==
    /\ ~At(w, "idle")
    /\ Trouble
    /\ cycle' = [cycle EXCEPT ![w] = Idle]
    /\ Release(w)
    /\ UNCHANGED <<inbox, arrived, content, db, files, manualRuns>>

CycleStep(w) ==
    \/ ListPage(w) \/ Download(w) \/ Insert(w) \/ Parse(w)
    \/ RecordReceipt(w) \/ CreateReview(w) \/ EndCycle(w)

Next ==
    \/ \E i \in Ettns : Arrives(i) \/ LeavesWindow(i) \/ Reissued(i)
    \/ \E w \in Workers : \/ StartPoll(w) \/ StartManual(w) \/ CycleStep(w)
                          \/ InvoiceFails(w) \/ ListFails(w) \/ SessionLost(w) \/ DeadlockVictim(w)

\* The scheduler starts a cycle after the other, also in one of two pollers, and a cycle that
\* can go on does; the database ends a deadlock and grants a row to the session that has
\* waited longest; calls fail and processes die only so often.
Fairness == /\ \A w \in Pollers : WF_vars(CycleStep(w))
            /\ \A w \in Manual : SF_vars(CycleStep(w))
            /\ WF_vars(\E w \in Workers : DeadlockVictim(w))
            /\ WF_vars(\E w \in Pollers : StartPoll(w))

Spec == Init /\ [][Next]_vars
FairSpec == Spec /\ Fairness

---------------------------------------------------------------------------
(* Properties                                                               *)

InboundTypeOK ==
    /\ db.meta \subseteq Ettns
    /\ db.doc \in [Ettns -> 0..2]
    /\ db.imported \in [Ettns -> {"none", "receipt", "review"}]
    /\ db.run \in [Workers -> RunStatus]
    /\ lock \in Pollers \cup {NoWorker}
    /\ \A w \in Workers : cycle[w].page \in 1..MaxPages

(* At most one poll cycle runs across processes, also after one has died    *)
(* and its connection has released the advisory lock.                       *)
OnePollAtATime ==
    \A v, w \in Pollers : ~At(v, "idle") /\ ~At(w, "idle") => v = w

(* An import is never visible without the metadata and the row of the       *)
(* document it was made from, although the commit happens inside one of     *)
(* several imports of a page and the rest of the session may be rolled back *)
(* later.                                                                   *)
ImportedHasItsDocument ==
    \A i \in Ettns : db.imported[i] # "none" => i \in db.meta /\ db.doc[i] # 0

\* the committed row names a document that is no longer in the storage
DocumentLost(i) == db.doc[i] # 0 /\ File(i, db.doc[i]) \notin files

(* What the integration flow promises of a download, a file and its row, is *)
(* kept by the pollers on their own, whatever fails and dies: no session    *)
(* deletes the file of another's row.  It takes a manual run beside a poll. *)
OnlyManualRunsLoseDocuments == \A i \in Ettns : DocumentLost(i) => manualRuns > 0

(* It is not kept in general: the session that comes second deletes the     *)
(* document of the first.                                                   *)
StoredDocumentsRemain == \A i \in Ettns : ~DocumentLost(i)

(* What a session leaves behind when it dies or is rolled back is whole.    *)
ImportsAreWhole ==
    InboundTypeOK /\ OnePollAtATime /\ ImportedHasItsDocument /\ OnlyManualRunsLoseDocuments

(* An invoice is imported once, by one kind of row, and its document row    *)
(* keeps the version it names, whichever sessions race and whatever the     *)
(* provider serves later.                                                   *)
ImportIsFinal ==
    [][\A i \in Ettns :
        /\ db.imported[i] # "none" => db'.imported[i] = db.imported[i]
        /\ db.doc[i] # 0 => db'.doc[i] = db.doc[i]]_vars

(* No import becomes visible without an audit row of the cycle that made    *)
(* it: the commit inside the cycle takes the run row along, still running.  *)
ImportIsAudited ==
    [][\A i \in Ettns : db.imported[i] = "none" /\ db'.imported[i] # "none" =>
        \E w \in Workers : db'.run[w] # "none" /\ ~At(w, "idle")]_vars

(* An importable invoice that stays in the window is imported, although     *)
(* pages shift under a cycle, another invoice always fails, sessions are    *)
(* rolled back and processes die.  It can be stuck in two ways: the stored  *)
(* document is not the one the provider serves now, or its file was deleted *)
(* by a session that stored it too: its row is found for ever, and read for *)
(* ever in vain.  It is imported once, and not without the run row of the   *)
(* cycle that did.                                                          *)
EveryInvoiceIsImported ==
    /\ ImportIsFinal /\ ImportIsAudited
    /\ \A i \in Ettns \ Broken :
          Contains(inbox, i) ~> \/ db.imported[i] # "none"
                                \/ ~Contains(inbox, i)
                                \/ db.doc[i] \notin {0, content[i]} \/ DocumentLost(i)
=============================================================================
