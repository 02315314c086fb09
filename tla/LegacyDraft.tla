------------------------------ MODULE LegacyDraft ------------------------------
(* The mapping endpoints that came before the workbench: a preview of an     *)
(* invoice, its resolution against Odoo, and a draft created from the        *)
(* reviewed preview the client sends back.  The draft is recorded by ETTN in *)
(* the transaction of the request that creates it: the claim is a flush, and *)
(* others wait for its row until the request ends.                           *)
EXTENDS InvoiceMatching

CONSTANTS
    LegacyRequests,      \* requests for one ETTN, in processes of their own
    Journal,             \* the configured purchase journal: [id, code]
    MaxLegacySends       \* bound: requests sent

VARIABLES
    row,        \* committed: None, or [status, move (0: none), attempts]
    writer,     \* the request whose transaction holds the row, or None
    legacy,     \* [LegacyRequests -> [pc, payload, seen, row]]
    moves,      \* Odoo: the payloads of the drafts created
    sends, failures

legacyvars == <<row, writer, legacy, moves, sends, failures>>

LegacyRows == [status : {"pending", "created", "failed"}, move : Nat, attempts : Nat]

ASSUME LegacyAssumption == None \notin LegacyRequests \cup LegacyRows

-----------------------------------------------------------------------------
(* The mapping preview                                                       *)

TaxCandidates(taxes) == {[rate |-> t.rate, reason |-> t.reason] : t \in ToSet(taxes)}

\* A missing unit price is derived from the amount and the quantity.
PriceKnown(line) == line.price # None \/ (line.qty \notin {None, 0} /\ line.ext # None)

MissingFields(inv) ==
    {f \in {"number", "ettn", "currency", "lines", "partner", "taxes", "line"} :
        \/ f = "number" /\ inv.number = None
        \/ f = "ettn" /\ inv.uuid = None
        \/ f = "currency" /\ inv.currency = None
        \/ f = "lines" /\ inv.lines = <<>>
        \/ f = "partner" /\ inv.vat = None
        \/ f = "taxes" /\ \A i \in DOMAIN inv.lines : inv.lines[i].taxes = <<>>
        \/ f = "line" /\ \E i \in DOMAIN inv.lines :
              LET line == inv.lines[i] IN
              line.desc = None \/ line.qty = None \/ ~PriceKnown(line) \/ line.taxes = <<>>}

MappingReady(inv) == MissingFields(inv) = {}

-----------------------------------------------------------------------------
(* The resolution: by exact key, and only when exactly one record has it     *)

\* 0 where there is none, or a choice
SingleOrDiagnostic(ids) == IF Cardinality(ids) = 1 THEN CHOOSE id \in ids : TRUE ELSE 0

\* By tax number; by name only if nobody has the number.
ResolvePartner(inv, w) ==
    LET active == {p \in w.partners : p.active}
        numbered == {p.id : p \in {q \in active : q.vat = inv.vat}}
        named    == {p.id : p \in {q \in active : q.name = inv.supplier}}
    IN  IF inv.vat # None /\ numbered # {} THEN SingleOrDiagnostic(numbered)
        ELSE IF inv.supplier # None THEN SingleOrDiagnostic(named) ELSE 0

ResolveCurrency(inv, w) == IF inv.currency \in DOMAIN w.precision THEN inv.currency ELSE None

\* A configured id, or else a code; both when both are given.
ResolveJournal(w) ==
    IF Journal.id = None /\ Journal.code = None THEN 0
    ELSE SingleOrDiagnostic({j.id : j \in {k \in w.journals : /\ k.type = "purchase"
                                                              /\ Journal.id \in {None, k.id}
                                                              /\ Journal.code \in {None, k.code}}})

\* The preview knows a product by its name only.
ResolveProduct(line, w) ==
    SingleOrDiagnostic({p.id : p \in {q \in w.products : q.active /\ q.name = line.desc}})

ResolveTax(tax, w) ==
    SingleOrDiagnostic({t.id : t \in {u \in w.taxes : u.active /\ u.use = "purchase" /\ u.plain /\ u.rate = tax.rate}})

ApplyResolutions(inv, w) ==
    [partner  |-> ResolvePartner(inv, w),
     currency |-> ResolveCurrency(inv, w),
     journal  |-> ResolveJournal(w),
     lines    |-> [i \in DOMAIN inv.lines |->
                     [product |-> ResolveProduct(inv.lines[i], w),
                      taxes   |-> {ResolveTax(t, w) : t \in TaxCandidates(inv.lines[i].taxes)} \ {0}]]]

MissingOdooIdentifiers(payload) ==
    \/ payload.partner = 0 \/ payload.currency = None \/ payload.journal = 0
    \/ \E i \in DOMAIN payload.lines : payload.lines[i].product = 0 \/ payload.lines[i].taxes = {}

-----------------------------------------------------------------------------
(* The creation                                                              *)

NoRequest == [pc |-> "idle", payload |-> <<>>, seen |-> None, row |-> None]

LegacyInit ==
    /\ row = None /\ writer = None
    /\ legacy = [r \in LegacyRequests |-> NoRequest]
    /\ moves = <<>> /\ sends = 0 /\ failures = 0

LegacyIdle == sends = 0

\* An ETTN, a ready preview and all identifiers, or the stored result, or a refusal.
SendDraft(r, inv, w) ==
    /\ legacy[r].pc = "idle" /\ sends < MaxLegacySends
    /\ sends' = sends + 1
    /\ LET payload == ApplyResolutions(inv, w)
           stored  == row # None /\ row.status = "created" /\ row.move # 0
           valid   == MappingReady(inv) /\ ~MissingOdooIdentifiers(payload) IN
       legacy' = [legacy EXCEPT ![r] = IF inv.uuid # None /\ ~stored /\ valid
                                       THEN [NoRequest EXCEPT !.pc = "claim", !.payload = payload, !.seen = row]
                                       ELSE NoRequest]
    /\ UNCHANGED <<row, writer, moves, failures>>

Claimed(r) ==
    IF legacy[r].seen = None THEN [status |-> "pending", move |-> 0, attempts |-> 1]
    ELSE [row EXCEPT !.status = "pending", !.attempts = legacy[r].seen.attempts + 1]

\* Mutation: two claims of the same ETTN may both be inserted.
ClaimConflictsIgnored(r) == FALSE

\* the insert meets a row committed since the lookup
ClaimConflicts(r) == legacy[r].seen = None /\ row # None

\* The flush waits for the transaction that holds the row.  A failed row that was read is
\* updated whatever it has become since.
Claim(r) ==
    /\ legacy[r].pc = "claim" /\ writer = None
    /\ IF ClaimConflicts(r)
       THEN legacy' = [legacy EXCEPT ![r] = NoRequest] /\ UNCHANGED writer
       ELSE /\ legacy' = [legacy EXCEPT ![r].pc = "send", ![r].row = Claimed(r)]
            /\ writer' = r
    /\ UNCHANGED <<row, moves, sends, failures>>

CreateMove(r) ==
    /\ legacy[r].pc = "send"
    /\ moves' = Append(moves, legacy[r].payload)
    /\ legacy' = [legacy EXCEPT ![r].pc = "commit", ![r].row.status = "created", ![r].row.move = Len(moves')]
    /\ UNCHANGED <<row, writer, sends, failures>>

\* Refused, or timed out with or without its effect.
CreateMoveFails(r) ==
    /\ legacy[r].pc = "send"
    /\ moves' \in {moves, Append(moves, legacy[r].payload)}
    /\ failures' = failures + 1
    /\ legacy' = [legacy EXCEPT ![r].pc = "commit", ![r].row.status = "failed"]
    /\ UNCHANGED <<row, writer, sends>>

CommitDraft(r) ==
    /\ legacy[r].pc = "commit"
    /\ row' = legacy[r].row /\ writer' = None
    /\ legacy' = [legacy EXCEPT ![r] = NoRequest]
    /\ UNCHANGED <<moves, sends, failures>>

\* The process or the database fails before the commit: Odoo keeps what it has.
DraftLost(r) ==
    /\ legacy[r].pc \in {"send", "commit"}
    /\ writer' = None /\ failures' = failures + 1
    /\ legacy' = [legacy EXCEPT ![r] = NoRequest]
    /\ UNCHANGED <<row, moves, sends>>

LegacyNext(inv, w) ==
    \E r \in LegacyRequests :
        SendDraft(r, inv, w) \/ Claim(r) \/ CreateMove(r) \/ CreateMoveFails(r) \/ CommitDraft(r) \/ DraftLost(r)

-----------------------------------------------------------------------------
(* Properties                                                                *)

\* ETTN idempotency (docs/adr/0005): requests that race for one ETTN create a second draft only
\* after an attempt whose outcome was a failure; the unique claim settles every other race.
SecondDraftNeedsFailure == Len(moves) > 1 => failures > 0

\* A claim ends with its request: no stored record is pending, which every later request for
\* the ETTN would be refused for, and one that says created names a draft that Odoo has, also
\* when a retry overwrote what another request had recorded.
NoClaimOutlivesItsRequest ==
    row # None => row.status # "pending" /\ (row.status = "created" => row.move \in DOMAIN moves)

\* An ETTN gets one draft by this service unless a create of it failed unknown, and its stored
\* claim neither blocks it for ever nor points nowhere.
LegacyDraftsAreOnce == SecondDraftNeedsFailure /\ NoClaimOutlivesItsRequest

=============================================================================
