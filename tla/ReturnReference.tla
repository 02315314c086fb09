---------------------------- MODULE ReturnReference ----------------------------
(* The lookup an operator starts for a return invoice: the original invoices *)
(* its stored document refers to, searched by number in the company's own    *)
(* outbox at the provider, first among the active and then among the         *)
(* archived invoices.  The provider keeps issuing, changing and archiving    *)
(* invoices between the two searches; the answer is shown and not stored.    *)
EXTENDS DecisionRules

CONSTANTS
    Originals,         \* the invoices the outbox may hold
    Original,          \* [Originals -> [number, ettn, date, type, buyer, currency]]
    Outbox0,           \* the outbox when the lookup begins
    ReferenceLists,    \* the BillingReference entries a document may carry: [number, gib, date, dated]
    AccountCompanies,  \* the company the provider account may be bound to
    BuyerCompanies,    \* the companies Odoo may know the buyer's tax number for; None: it has none
    PageSize, Window,  \* rows of a page; days around the date that are searched
    MaxOutboxEvents    \* bound: changes at the provider

\* An ETTN names one invoice, and invoices without one differ in number or date.
SameIdentity(o, p) ==
    IF Original[o].ettn # None \/ Original[p].ettn # None
    THEN Original[o].ettn = Original[p].ettn
    ELSE Original[o].number = Original[p].number /\ Original[o].date = Original[p].date

Places == {"none", "active", "archived"}
OutboxStatuses == {"Approved", "Canceled"}

ASSUME OutboxAssumption ==
    /\ IsFiniteSet(Originals)
    /\ \A o, p \in Originals : SameIdentity(o, p) => o = p
    /\ \A o \in Originals : Original[o].date \in Int
    /\ Outbox0 \in [Originals -> [place : Places, status : OutboxStatuses]]
    /\ \A refs \in ReferenceLists :
          refs \in Seq(Range(refs)) /\ \A i \in DOMAIN refs : refs[i].date \in Int \cup {None}
    /\ PageSize \in Nat \ {0} /\ Window \in Nat /\ MaxOutboxEvents \in Nat

VARIABLES
    outbox,      \* the provider: [Originals -> [place, status]]
    stage,       \* "idle", "company", "search", "again", "answered"
    references,  \* of the document, in its order
    first,       \* the outcome of the first search of the pair
    cache,       \* by number and date: [searches, candidates]
    verdicts,    \* of the references so far: [status, candidates]
    answer,      \* [status, verified, references]
    before,      \* history: by number and date, the invoices in the outbox when its search began
    outboxEvents \* changes at the provider so far

returnvars == <<outbox, stage, references, first, cache, verdicts, answer, before, outboxEvents>>

NoAnswer == [status |-> "none", verified |-> FALSE, references |-> <<>>]
NoSearch == [completed |-> FALSE, total |-> None, returned |-> 0, rows |-> {}]

ReturnInit ==
    /\ outbox = Outbox0 /\ stage = "idle" /\ references = <<>> /\ first = NoSearch
    /\ cache = <<>> /\ verdicts = <<>> /\ answer = NoAnswer /\ before = <<>> /\ outboxEvents = 0

ReturnIdle == stage = "idle" /\ outboxEvents = 0

-----------------------------------------------------------------------------
(* The return invoice and its document                                       *)

\* The documents stored for the invoice the review was imported from, by its import key.
OneSourceDocument(inv) == inv.doc.count = 1

SourceContent(inv) == OneSourceDocument(inv) /\ inv.doc.readable /\ inv.doc.hashed

\* What cannot be read, or is another invoice's, carries no reference.
Readable(inv) == SourceContent(inv) /\ inv.doc.valid /\ inv.uuid # None /\ inv.doc.uuid = inv.uuid

\* The invoice documents a readable document refers to, in its order.
ExtractBillingReferences(inv) == IF Readable(inv) THEN ReferenceLists ELSE {<<>>}

FormatIssues(ref) == ref.number = None \/ ~ref.gib \/ ~ref.dated \/ ref.date = None

UnsearchedReference(ref, fallback) ==
    [status |-> IF FormatIssues(ref) THEN "REFERENCE_UNPARSEABLE" ELSE fallback, candidates |-> {}]

-----------------------------------------------------------------------------
(* The search of one partition of the outbox                                 *)

\* External: the rows that answer the query are those of the number, or of the whole window
\* where the provider does not narrow it; a page of them, with or without their count.
Rows(place, shown, stated) ==
    {[id |-> o, status |-> outbox[o].status, archived |-> IF stated THEN place ELSE None] : o \in shown}

InWindow(o, date) == date - Window <= Original[o].date /\ Original[o].date <= date + Window

Listed(place, key) == {o \in Originals : outbox[o].place = place /\ InWindow(o, key[2])}

ExactCandidates(number, rows) == {c \in rows : Original[c.id].number = number}

\* Of the rows that match, those of the first page.
Page(place, key, matching, shown, counted, stated) ==
    [completed |-> TRUE,
     total     |-> IF counted THEN Cardinality(matching) ELSE None,
     returned  |-> Cardinality(shown),
     rows      |-> ExactCandidates(key[1], Rows(place, shown, stated))]

FirstPages(matching) == {s \in SUBSET matching : Cardinality(s) = Min({PageSize, Cardinality(matching)})}

\* The outcomes of one call: it fails, its retries exhausted, or it answers.
SearchPartition(place, key) ==
    {NoSearch} \cup
    UNION {{Page(place, key, matching, shown, counted, stated) :
                shown \in FirstPages(matching), counted \in BOOLEAN, stated \in BOOLEAN} :
           matching \in {Listed(place, key), {o \in Listed(place, key) : Original[o].number = key[1]}}}

\* One entry per invoice: the first seen of those with one ETTN.
DedupKey(c) ==
    IF Original[c.id].ettn # None THEN <<Original[c.id].ettn>>
    ELSE <<Original[c.id].number, Original[c.id].date, c.archived>>

Deduplicate(earlier, later) ==
    earlier \cup {c \in later : \A d \in earlier : DedupKey(d) # DedupKey(c)}

-----------------------------------------------------------------------------
(* The verdicts                                                              *)

Truncated(s) == s.completed /\ s.total # None /\ s.total > s.returned
TotalMissing(s) == s.completed /\ s.total = None /\ s.returned >= PageSize

\* evaluate_candidate: the buyer, the currency, the date, the type and the status; the company
\* was verified before the search.
ChecksPass(c, ref, inv) ==
    LET o == Original[c.id]
    IN  /\ o.buyer # None /\ o.buyer = inv.vat
        /\ o.currency # None /\ o.currency = inv.currency
        /\ o.date = ref.date /\ inv.date # None /\ o.date <= inv.date
        /\ inv.type = "IADE" /\ o.type = "Sales"
        /\ c.status = "Approved"

\* Mutation: a search of which rows are missing counts as one that found nothing.
ReferenceStatusUnpaged(searches, candidates, ref, inv) ==
    IF \E s \in searches : ~s.completed THEN "INCOMPLETE_SEARCH"
    ELSE IF Cardinality(candidates) > 1 THEN "AMBIGUOUS"
    ELSE IF candidates = {} THEN "NOT_FOUND"
    ELSE IF \A c \in candidates : ChecksPass(c, ref, inv) THEN "MATCHED" ELSE "MISMATCH"

ReferenceStatus(searches, candidates, ref, inv) ==
    IF \E s \in searches : ~s.completed THEN "INCOMPLETE_SEARCH"
    ELSE IF Cardinality(candidates) > 1 \/ \E s \in searches : Truncated(s) THEN "AMBIGUOUS"
    ELSE IF \E s \in searches : TotalMissing(s) THEN "INCOMPLETE_SEARCH"
    ELSE IF candidates = {} THEN "NOT_FOUND"
    ELSE IF \A c \in candidates : ChecksPass(c, ref, inv) THEN "MATCHED" ELSE "MISMATCH"

Precedence == <<"COMPANY_UNVERIFIED", "INCOMPLETE_SEARCH", "REFERENCE_UNPARSEABLE",
                "AMBIGUOUS", "MISMATCH", "NOT_FOUND">>

\* The first of these that some reference has, and matched only if they all are.
OverallStatus(list) ==
    LET present == {list[i].status : i \in DOMAIN list}
    IN  IF present = {"MATCHED"} THEN "MATCHED"
        ELSE Precedence[CHOOSE i \in DOMAIN Precedence :
                            Precedence[i] \in present /\ \A j \in 1 .. i - 1 : Precedence[j] \notin present]

\* Outbox data reaches the operator of a verified company only.
Response(status, verified, list) ==
    [status |-> status, verified |-> verified,
     references |-> [i \in DOMAIN list |-> [list[i] EXCEPT !.candidates = IF verified THEN @ ELSE {}]]]

-----------------------------------------------------------------------------
(* One lookup                                                                *)

\* A document that gives nothing to search for is answered without asking anyone.
OpenLookup(inv) ==
    /\ stage = "idle" /\ IsReturn(inv)
    /\ \E refs \in ExtractBillingReferences(inv) :
          LET unsearched == [i \in DOMAIN refs |-> UnsearchedReference(refs[i], "REFERENCE_UNPARSEABLE")]
              status     == IF ~Readable(inv) THEN "REFERENCE_UNPARSEABLE"
                            ELSE IF refs = <<>> THEN "REFERENCE_MISSING" ELSE OverallStatus(unsearched)
          IN  /\ references' = refs
              /\ IF \A i \in DOMAIN refs : FormatIssues(refs[i])
                 THEN stage' = "answered" /\ answer' = Response(status, FALSE, unsearched)
                 ELSE stage' = "company" /\ UNCHANGED answer
    /\ UNCHANGED <<outbox, first, cache, verdicts, before, outboxEvents>>

\* The account is bound to this company and the buyer's tax number is this company's alone.
CompanyOwned(account, companies) == account = Own /\ companies = <<Own>>

\* Nothing is searched for a company that is not verified; if Odoo cannot tell, the request fails.
VerifyCompany ==
    /\ stage = "company"
    /\ \/ stage' = "idle" /\ UNCHANGED answer
       \/ \E account \in AccountCompanies, companies \in BuyerCompanies :
             IF CompanyOwned(account, companies)
             THEN stage' = "search" /\ UNCHANGED answer
             ELSE /\ stage' = "answered"
                  /\ answer' = Response("COMPANY_UNVERIFIED", FALSE,
                                        [i \in DOMAIN references |->
                                            UnsearchedReference(references[i], "COMPANY_UNVERIFIED")])
    /\ UNCHANGED <<outbox, references, first, cache, verdicts, before, outboxEvents>>

\* Mutation: the archive is searched before the active invoices.
PartitionsArchiveFirst == <<"archived", "active">>

\* The order in which the partitions are searched.
Partitions == <<"active", "archived">>

Ref == references[Len(verdicts) + 1]
Key == <<Ref.number, Ref.date>>
Open == Len(verdicts) < Len(references)

Extend(f, k, v) == [x \in DOMAIN f \cup {k} |-> IF x = k THEN v ELSE f[x]]

\* A reference is searched for once; the same number and date again is answered from the cache.
SearchFirst ==
    /\ stage = "search" /\ Open /\ ~FormatIssues(Ref) /\ Key \notin DOMAIN cache
    /\ first' \in SearchPartition(Partitions[1], Key)
    /\ stage' = "again"
    /\ before' = Extend(before, Key, {o \in Originals : outbox[o].place # "none"})
    /\ UNCHANGED <<outbox, references, cache, verdicts, answer, outboxEvents>>

SearchSecond ==
    /\ stage = "again"
    /\ \E second \in SearchPartition(Partitions[2], Key) :
          cache' = Extend(cache, Key, [searches |-> {first, second},
                                       candidates |-> Deduplicate(first.rows, second.rows)])
    /\ stage' = "search" /\ first' = NoSearch
    /\ UNCHANGED <<outbox, references, verdicts, answer, before, outboxEvents>>

ReferenceResult(inv) ==
    /\ stage = "search" /\ Open /\ (FormatIssues(Ref) \/ Key \in DOMAIN cache)
    /\ verdicts' = Append(verdicts,
                          IF FormatIssues(Ref) THEN UnsearchedReference(Ref, "REFERENCE_UNPARSEABLE")
                          ELSE [status     |-> ReferenceStatus(cache[Key].searches, cache[Key].candidates, Ref, inv),
                                candidates |-> cache[Key].candidates])
    /\ UNCHANGED <<outbox, stage, references, first, cache, answer, before, outboxEvents>>

AnswerLookup ==
    /\ stage = "search" /\ ~Open
    /\ stage' = "answered" /\ answer' = Response(OverallStatus(verdicts), TRUE, verdicts)
    /\ UNCHANGED <<outbox, references, first, cache, verdicts, before, outboxEvents>>

\* External: an invoice is issued, changes its status or is archived for good.
OutboxMoves ==
    /\ stage \in {"search", "again"} /\ outboxEvents < MaxOutboxEvents
    /\ outboxEvents' = outboxEvents + 1
    /\ \E o \in Originals :
          \/ outbox[o].place = "none" /\ outbox' = [outbox EXCEPT ![o].place = "active"]
          \/ outbox[o].place = "active" /\ outbox' = [outbox EXCEPT ![o].place = "archived"]
          \/ outbox[o].place # "none" /\ \E s \in OutboxStatuses \ {outbox[o].status} : outbox' = [outbox EXCEPT ![o].status = s]
    /\ UNCHANGED <<stage, references, first, cache, verdicts, answer, before>>

ReturnNext(inv) ==
    \/ OpenLookup(inv) \/ VerifyCompany \/ SearchFirst \/ SearchSecond
    \/ ReferenceResult(inv) \/ AnswerLookup \/ OutboxMoves

-----------------------------------------------------------------------------
(* Properties                                                                *)

Named(ref) == {o \in Originals : Original[o].number = ref.number /\ InWindow(o, ref.date)}

\* An answer about a reference is an answer about the whole outbox: not found means that no
\* invoice of the number was there when its search began, wherever the provider moved it in
\* between and however it paged its answers; matched means that there was no other, and that the
\* one shown is of the reference's date, not younger than the return and from this seller's buyer.
VerdictIsTrue(ref, verdict, inv) ==
    LET there == before[<<ref.number, ref.date>>] \cap Named(ref)
    IN  /\ verdict.status = "NOT_FOUND" => there = {}
        /\ verdict.status = "MATCHED" =>
              \E o \in Named(ref) : /\ there \subseteq {o} /\ {c.id : c \in verdict.candidates} = {o}
                                    /\ Original[o].date = ref.date /\ Original[o].date <= inv.date
                                    /\ Original[o].buyer = inv.vat

\* What the lookup says of the outbox is true of it (application/return_reference/matching.py),
\* the overall status is matched only if every reference is, and a company that is not verified
\* sees nothing of the outbox.
LookupIsTrueFor(inv) ==
    stage = "answered" =>
        /\ answer.status = "MATCHED" => /\ answer.references # <<>>
                                        /\ \A i \in DOMAIN answer.references : answer.references[i].status = "MATCHED"
        /\ \A i \in DOMAIN answer.references :
              /\ ~answer.verified => answer.references[i].candidates = {}
              /\ VerdictIsTrue(references[i], answer.references[i], inv)

=============================================================================
