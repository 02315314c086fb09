# Formal model of the ICT Integration Hub

The Hub imports supplier e-invoices from Uyumsoft, classifies them, lets operators review them in an
Odoo "Workbench" and executes accepted decisions in Odoo, above all by creating a draft Vendor Bill.
Its difficulty is that one request spans PostgreSQL transactions and remote Odoo writes that no
transaction can roll back, while other requests, crashes, time-outs and retries interleave.

This directory holds TLA+ models of that core, TLC configurations that check them on small instances,
and TLAPS proofs for every instance. Paths are relative to `src/app/`.

## Inventory

| component | state it keeps | operations | what is hard | what makes it correct |
|---|---|---|---|---|
| Durable execution runtime (`application/execution/runtime*.py`, `persistence/execution_runtime_repository.py`) | `workflow_executions` row with checkpoint, steps, version and event counter; append-only events | create-or-load, start, step running / completed, failure, completion, resume | concurrent requests for one identity, stale snapshots, a crash between transitions | one strategy at a time; the history replays to the row; only whole attempts become visible |
| Write authorizations (`persistence/write_authorization_repository.py`) | rows with scope, status, consumer, use count | issue, revoke, claim-and-consume, expiry | revocation and expiry racing a write; consumption tied to the claimer's commit | one consumer for ever, an exclusive claim, an honest audit record |
| Vendor Bill execution (`application/execution/`, `erp/write/`) | none of its own; Odoo's drafts | request, claim, preflight, search, create, verify, commit, project | lost or late Odoo answers, a crash after the write, exhausted retries | at most one bill; a completed execution names a verified bill; every write admitted |
| Review queue and decisions (`persistence/workbench_review_repository.py`, `application/workbench/*_use_cases.py`) | review row; per version: Stage-1 evidence, purpose, accounting resolution; reclassifications; decisions with evidence and pin | import, purpose, accounting, reclassify, recover, decide | every request reads, computes and only then writes | versions explained without a gap; a decision rests on the rows of its version |
| Projection and decision ingestion (`projection_sync.py`, `decision_ingestion.py`, `erp/odoo/workbench_*`) | the workbench row and its line rows in Odoo | publish, reconcile, read candidates, submit, acknowledge | no uniqueness and no conditional write in Odoo | a decision is about what was shown; reconciling repairs every mixture |
| Operator request ledger (`operator_request_ingestion.py`) | request rows with attempts | submit, handle, supersede, acknowledge | death between effect, ledger and acknowledgement | applied at most once, answered truthfully and in the end |
| Product remediation (`product_*_use_cases.py`) | reservations, creation records, identity claims; Odoo products and price list rows | reserve, create, link, map, reconcile, recover | two remote writes with a crash between, late creates | one product per identity, none forgotten |
| Supplier remediation, source identity correction | reserved intents, effects; Odoo partners | match, create permanent, one-off vendor, resume, correct | interruption after the partner exists; people editing partners | only the reserved intent writes; the supplier is the invoice's |
| Expense mapping (`operating_expense_mapping_*`) | one mapping per supplier | submit | two commits; requests from two reviews | one active mapping; true answers |
| Uyumsoft sync and poller (`services/uyumsoft_*`) | metadata, documents, receipts, sync runs | poll cycle, manual run, page, download, import | shifting pages, failing invoices, two sessions | imported once, with its document, and in the end |
| Accounting pipeline (`matching/`, `billing/`, `application/execution/vendor_bill_*`) | none: functions of invoice and master data | match, decide, build, reconcile, preview, read back | rounding, rates, accounts that change after the decision | the bill is the invoice; what is shown is what is written |
| Classification rules (`application/rules/`) | evidence per review version | map records, match, order, decide | precedence; rules edited meanwhile | the most specific rule decides, whatever the listing order |
| Plans and other strategies (`application/quotation/`, `execution/planner.py`) | scenario and billing evidence | capture, accept, plan, run | racing captures, several documents per plan | evidence is final; one document per step, in order |
| Advisory suggestions (`advisory/`, `composition/advisory*.py`) | suggestion sets and their display marks | generate, revalidate, retire, show, clear | sets shown by several processes while the catalog moves | stale hints leave Odoo; sets catch up |
| Legacy draft service (`services/odoo_draft_invoice.py`) | audit row per ETTN | preview, resolve, create draft | claim held across a remote write | one draft unless a create failed with unknown outcome |
| Return lookup (`application/return_reference/`) | none: the answer is shown, not stored | read references, verify company, search active then archived outbox, match | the provider issues and archives invoices between the two searches, and pages its answers | a missing reference names no invoice, a matched one exactly one |
| HTTP API, authentication, composition, schemas, parsing | none | wiring, conversion | - | not modelled |

The components meet in the database (review row and version, authorizations, executions) and in Odoo.
A use case reads committed rows, calls Odoo, writes, commits, and projects the result to the workbench
row; the operator acts on that row, and a tick reads it back.

## Modules

Execution
* `ExecutionRuntime`: one execution identity, any number of request handlers. `row`/`log` are committed;
  a handler's uncommitted row is `snap`, its events `out`; `lock` is the holder of the row lock. One
  action per coordinator or repository operation. The read of `persist_transition` and its conditional
  UPDATE are separate steps. `Abort` is a crash, a lost connection or an escaping exception; `Commit`
  may lose its acknowledgement.
* `ExecutionLedger`: the abstract promise (an execution advances by whole attempts).
  `ImplementsLedger` is the refinement.
* `WriteAuthorization`: the authorizations of one review, claimed by sessions.
* `VendorBillExecution`: the runtime and the authorizations (INSTANCE) composed with the workbench
  request, the strategy, the writer and Odoo. `bills` are the drafts with this `invoice_origin`, `late`
  the creates Odoo has still to process although their caller gave up, `strays` counts those it did
  process.
* `ExecutionPlanning` (values) and `DecisionExecution`: billing and scenario evidence, plans of several
  steps, one document per writing step, on top of `ExecutionRuntime`.

Reviews
* `ReviewQueue`: one review from import to decision. `task` is what a request has read and is about to
  write; the other variables are committed rows. A conditional UPDATE or colliding INSERT and its
  COMMIT are one step, since the loser waits for the row and then takes the conflict path.
* `ExpenseMapping`: the mapping requests of one supplier's reviews; `MasterDataWork` runs it beside
  `ProductRemediation` (they share no state; a behaviour takes one of them).
* `ProductRemediation`: the three use cases that compete for one supplier-product identity. A command
  with an authorization locks its row until the session ends; one of the API without any is admitted by
  the environment gate and locks nothing (`Unauthorized`, `linkfree`).
* `SupplierRemediation`: how one review gets its supplier, with `WriteAuthorization` for its writes.
  `late` are the partners Odoo has yet to make for callers that timed out (`TimeOut`, `Arrives`).
* `OperatorRequests`: the three channels, the tick and its ledger.
* `WorkbenchProjection`, with `ProductLines` (line rows), `DecisionCandidate` (what the Hub makes of an
  entered decision) and `OperatorGuidance` (the step the operator is told to take).
* `AdvisorySuggestions` on the engine `ProductSuggestions`. `outrun` only observes: whether a refresh
  has begun since the flow built its rows, and which lines were last written by such a flow.

From invoice to bill
* `InvoiceMatching`, `DecisionRules`, `AccountingPins`, `VendorBillBuild`: matchers, rule engine, pins,
  bill lines, money, exchange rate, readback, as operators on an invoice and a state of the master data.
* `InvoiceToBill`: one review through all of them while the master data changes between any two steps.
* `ClassificationRules`: the authored rules; the verdict each version keeps is in `InvoicePaths`.
* `LegacyDraft`: the mapping endpoints.
* `ReturnReference`: the lookup of the invoice a return refers to. The provider (what a search returns,
  `OutboxMoves`) is external.
* `InvoicePaths`: the Workbench, the classification, the mapping endpoints and the lookup, each from the
  same invoices.

Import: `InboundSync`. `db` is committed, `cycle` holds what a session has staged, `files` is the
document storage outside the database: check, file, row and the loser's delete are separate steps.

`MC*` modules and `*.cfg` files give the constants their values. `*Proofs` hold the theorems: each extends
the module it is about. `ReviewDeskProofs` is about `ReviewQueue` and `OperatorRequests`, `BoundaryProofs`
about `InboundSync` and `WorkbenchProjection`, `InvoicePathsProofs` about `InvoicePaths` and
`AdvisorySuggestions`; `VendorBillProofs` and `DecisionExecutionProofs` rest on the
proofs of the runtime they compose.
Operators commented "Mutation:" are deliberate bugs; nothing uses them. Substituted for the definition
that follows, each shows that a property notices.

## Runs

| run | instance | distinct states | shows |
|---|---|---|---|
| `ExecutionRuntime` | 2 handlers, plans of 2 and 1 steps, policies immediate/2 and never/1 | 15,487 | history, checkpoint, exclusion, durable answers, ledger refinement, every request answered |
| `VendorBill_authorized` | 2 requests, 2 authorizations, gate closed, no late creates | 205,168 | one bill, it is the completed one's, every write admitted, every request ends |
| `VendorBill_recovery` | 1 handler, gate open, late creates | 1,825 | the Hub adds one bill, whatever arrives late; an operator who keeps retrying reaches an end |
| `ReviewQueue` | 2 callers, product-coded and identifier-free invoice, 2 versions and a decision | 1,575,329 | one history, pinned decisions, durable acceptance, immutable rows |
| `ProductRemediation` | 2 API processes and the tick, 5 jobs for one identity; 2 mapping requests, 2 reviews | 1,035,953 | one product, recorded; one mapping, true answers |
| `OperatorRequests` | 7 requests in 3 channels, 2 submissions, 2 troubles | 466,185 | applied once, true answers, all answered |
| `InboundSync` | 3 invoices (one never parses), 2 pollers and a manual run, pages of 2 | 594,788 | imports whole and final, pollers lose no document; every invoice imported |
| `InvoiceToBill` | 15 invoices, 13 states of the master data, 7 rule sets, 2 legacy requests, an outbox that changes twice | 403,237 | the bill is the invoice, shown is written, guidance works, rules decide, one legacy draft, lookups are true |
| `WorkbenchProjection` | 2 processes, 6 entries, 3 versions | 610,884 | decisions as seen; reconciliation converges |
| `SupplierRemediation` | 2 racing requests with a time-out, or 1 disturbed twice | 450,574 | safe writes, one partner, resumption |
| `DecisionExecution` | 2 handlers, 9 decisions, 5 row sets, 3 deployments, 2 scenarios | 223,896 | what is executed is what was accepted; requests end |
| `AdvisorySuggestions` | 1 line, 4 catalogs, tick, sweep, a flow and the clear command | 184,555 | display is true but for outrun flows; hints follow |

A listed property is often a conjunction of named parts, which its definition lists.

Bounds. Two handlers (a lock holder and a waiter) give every pairwise race; two attempts is what
`composition/execution.py` configures and distinguishes retry from exhaustion; two steps distinguish a
completed from a failed one. `MaxBills`, `MaxProducts` and `MaxPartners` are 2, so that a duplicate can
be written. `MaxUses`, `MaxVersion`, `MaxSubmissions`, `MaxEvents`, `MaxTroubles`, `MaxEdits`, `MaxSets`
`MaxLegacySends` and `MaxOutboxEvents` bound counters that the code leaves open; they are guards of the
actions that count. Two versions are one reclassification and a decision on either. In `OperatorRequests`, `LastVersion` bounds how far the
review moves. The lookup searches pages of 2 in a window of one day: a page can be full without its count,
and two changes archive an invoice and issue another between the two searches. `InboundSync` assumes that the window fits the page limit
(the code only warns when it does not). `MaxLateLinks` bounds the link creates that are on their way to
Odoo at a time, and `Budgets` of `SupplierRemediation` gives a run two requests with one time-out, or one
request with two disturbances: the time-out of one with the other's retry is the case that adds a partner.
Runs that may stop (authorizations used up, every request sent, an inbox that no longer changes) do
not check deadlock.

Fairness. A handler that can go on does, and PostgreSQL grants a contended row in arrival order, so a
waiter is not passed over for ever: strong fairness of each handler's steps. Of sessions that wait for each
other it rolls one back (weak fairness of some victim). The scheduler of the poller
process starts cycles and ticks again and again (weak fairness). Calls fail and processes die only so
often: the bound on troubles, or strong fairness of the successful outcome of what is tried again and
again. `RecoverySpec` and `SupplierRemediation` add an operator who retries; `WorkbenchProjection` the
reconcile command. Nothing makes operators act otherwise.

### Simplifications

The workbench reads the snapshot before the claim, and SQLAlchemy's identity map may return that object: an
out-of-date one is rejected by the version check like a snapshot that became stale after `LoadExisting`. The
read-only checks before the writer are one step in `VendorBillExecution` and are modelled in
`InvoiceToBill`. A tick's row shows some committed version in `OperatorRequests`; which one is the subject
of `WorkbenchProjection`. An Odoo call is answered, refused, or lost before or after it took effect, a
create also long after (`VendorBillExecution`, `ProductRemediation`, `SupplierRemediation`; the documents of
`DecisionExecution` and the legacy drafts leave this out). Whether a command of the API names an
authorization is chosen anew at each of its writes in `ProductRemediation`, which allows more than one
command can do. In `InboundSync` the connection of the poll lock breaks only with its process, and a file
that a rolled-back session leaves behind is looked at by nobody once its metadata row got another id; the
HTTP pool is not modelled. Amounts are whole multiples of the price quantum, rates whole numbers.

## Disagreements

Met while modelling; the models follow the code.

* `docs/VENDOR_BILL_FX_RATE_GUARD.md:55`: a retry "finds the same draft [...] so no second bill is
  created". Request 1 sends the create and times out, request 2 searches, finds nothing and creates,
  then Odoo processes the first create: two drafts. `AtMostOneBill` holds, and is proved, without such
  late arrivals, and fails with `LateArrivals = TRUE`. What holds, and is proved, in every case is
  `OneAwaitedBill`: all drafts but one are such late arrivals.
* The same line: "Once the operator has corrected a draft's rate in Odoo, the retry succeeds". Two failed
  attempts exhaust `immediate(max_attempts=2)`; every later request returns the stored failure.
* `application/workbench/ports.py:324`: recovered evidence is inserted "gated on the review still being
  pending review [...] at the moment of insert". The check is an unlocked SELECT; a reclassification may
  commit before the INSERT. No accepted decision uses such a row (`DecisionPinned`).
* `api/routers/workbench.py:955`: a recovery that meets conflicting evidence "fails closed". The loser of
  two concurrent recoveries returns the winner's row uncompared, with `already_applied=false`.
* `supplier_remediation_use_cases.py:495`: a one-off vendor whose request is interrupted after the Odoo
  create is refused on resumption as not owned by the Hub; an operator has to intervene. A permanent
  supplier is resumed (`PermanentSupplierIsResumed`).
* `docs/INTEGRATION_FLOW.md:36`: a document download leaves a "local `UBL_XML` file plus document metadata
  row". Files are named by content. When a manual run and a poll cycle store the same document, the one
  that comes second is refused by the unique constraint and deletes "its" file
  (`services/document_service.py:151`), which is the one the committed row of the first names. Every later
  cycle finds the row, cannot read the file, and never imports the invoice. `docs/UYUMSOFT_INBOUND_POLLER.md`
  says that a concurrent manual sync is "protected only by the existing idempotency and unique constraints".
  TLC refutes `StoredDocumentsRemain` in this way, without any failure (`MaxTroubles = 0`); what holds is
  `OnlyManualRunsLoseDocuments`, and `EveryInvoiceIsImported` excepts an invoice whose file is lost.
* `advisory/suggestion_sets.py:247`: a cleared set "is not shown in Odoo, and no later projection (of any
  flow) can show it again until a successful revalidation moves `validated_at`". A flow that built its rows
  before the set expired, and takes no lock, writes the hint back after the refresh cleared it and marked
  the set; the sweep does not look at it again, and the hint stays until the review is projected. TLC
  refutes `MarkedIsNotShown` in this way; what holds is `OnlyOutrunFlowsShowMarked`.
* `application/workbench/supplier_remediation_use_cases.py:482`: a vendor is found again by its tax number,
  "so a second partner is never created". A create that Odoo processes after its caller timed out is not
  found by the retry, which claims the rolled-back authorization again and creates: two partners.
  `OnePartnerPerWrite` counts those whose caller waited.
* `application/workbench/product_mapping_use_cases.py:19`: "a double-click or resume never creates a second
  mapping". A price list row that Odoo creates after its answer was lost is not found by the resume. And two
  retries of a `CREATE_NEW_PRODUCT` without an authorization wait for nobody between read and create. Such
  rows name the same product (`CreatedLinksAgree`), so the identity stays unambiguous.
* `product_remediation_use_cases.py`: a reservation whose create was refused, or whose process died
  between its identity claim and the attempt, meets its own claim when it is retried and is answered as
  the loser of a race: safe, but it never completes by itself.

One remark from a proof attempt: in a complete allocation set in which every row has a percentage and
some have amounts, `_validate_allocation_totals` (`application/workbench/allocations.py:178-213`) checks
the percentages only, so such amounts may exceed the invoice. `AcceptedAllocationsAreSound` claims what
the code ensures, and one of the entries of the run is of this kind.

## Proofs

`tlapm` checks every proof to the last leaf. A theorem holds for every number of workers, requests,
authorizations, reviews and retries; the bounds of the runs are constants with no value here. None of
the properties is inductive. Each proof module defines the invariant that is, shows that it holds
initially and that every action preserves it (one lemma per action), and derives the properties. TLC
checked each inductive invariant on the run's instance before it was proved.

| theorem | states | run that checks it |
|---|---|---|
| `ExecutionRuntimeProofs!TypeCorrect` | types of the runtime | |
| `...!StrategyExclusion`, `NoStuckExecution`, `AnswersAreDurable` | `OneStrategyAtATime`, `NeverStuckRunning`, `AnswerIsDurable` | `ExecutionRuntime` |
| `...!HistoryReplays`, `CheckpointsResumable` | `HistoryReplaysToRow`, `CheckpointResumable` | `ExecutionRuntime` |
| `...!RuntimeImplementsLedger` | `ImplementsLedger`, the refinement | `ExecutionRuntime` |
| `SupplierRemediationProofs!ClaimsAreExclusive`, `SingleConsumer` | of `WriteAuthorization`: exclusive claims, honest audit columns, one consumer for ever | as parts of `SupplierRemediation` |
| `...!SupplierWritesSafe`, `OnePartnerEach` | `SupplierWritesAreSafe`, `OnePartnerPerWrite` | `SupplierRemediation` |
| `...!SupplierSingleConsumer` | `AuthorizationIsSingleConsumer`, the safety half of `PermanentSupplierIsResumed` | `SupplierRemediation` |
| `VendorBillProofs!CompletedBill`, `AdmittedWrites` | `CompletedHasItsBill`, `WritesAreAdmitted` | `VendorBill_authorized` |
| `...!OneBill` | `OneAwaitedBill`; with `~LateArrivals`, `AtMostOneBill` follows (`OneBillInTime`) | `VendorBill_recovery`, `VendorBill_authorized` |
| `ReviewDeskProofs!OneHistory`, `DecisionsArePinned`, `AcceptanceIsDurable`, `RowsImmutable` | `HistoryIsSound`, `DecisionPinned`, `AcceptedIsDurable`, `RowsAreImmutable` | `ReviewQueue` |
| `MasterDataWorkProofs!MappingTruth` | `MappingIsTrue`: one active mapping, true answers | `ProductRemediation` |
| `...!OneProduct`, `CreationsRecorded` | `OneProductPerIdentity`, `CreationIsRecorded` | `ProductRemediation` |
| `ReviewDeskProofs!RequestsAppliedOnce`, `LedgerIsTrue` | `AppliedOnce`, `AnswersAreTrue` | `OperatorRequests` |
| `...!OutcomesAreFinal` | `LedgerIsFinal`, the safety half of `EverySubmissionIsAnswered` | `OperatorRequests` |
| `BoundaryProofs!WholeInbound` | `ImportsAreWhole` | `InboundSync` |
| `...!FinalInbound`, `AuditedInbound` | `ImportIsFinal`, `ImportIsAudited`, the safety parts of `EveryInvoiceIsImported` | `InboundSync` |
| `BoundaryProofs!DecisionsAreAsSeen` | `ButtonDecisionIsAsSeen` | `WorkbenchProjection` |
| `InvoicePathsProofs!BilledTruth`, `LegacyOnce`, `LookupTruth` | `BilledAsInvoiced`, `LegacyDraftsAreOnce`, `LookupIsTrue` | `InvoiceToBill` |
| `...!CompleteTruth`, `ShownTruth` | `DecisionIsComplete`, `ShownIsWhatIsWritten` | `InvoiceToBill` |
| `...!DisplayTruth` | `DisplayIsTrue` | `AdvisorySuggestions` |
| `DecisionExecutionProofs!ExecutionIsTheDecision` | `ExecutedIsTheDecision` | `DecisionExecution` |
| `...!CommittedEvidenceIsFinal` | `EvidenceIsFinal`, the safety half of `DecisionRequestsEnd` | `DecisionExecution` |

The arguments.

* Runtime. `RuntimeInv` ties the row lock to the point a handler has reached (`LockInv`, `PositionInv`),
  the snapshot's version to the committed one (`VersionInv`), and says what the holder of the lock may
  have changed (`LockedRowInv`). Exclusion alone is not inductive: it needs that a handler past the
  conditional UPDATE holds the lock, and that a snapshot read earlier is refused by its version.
  `StoredInv` adds that the committed events, and those events with the ones the holder has flushed,
  replay to the row and to the snapshot (`HistoryInv`), that both checkpoints are a prefix of the plan
  (`CheckpointInv`), and that the failures counted are the failures recorded (`AttemptInv`). With it a
  commit is one step of `ExecutionLedger` and everything else a stutter.
* Authorizations. `AuthInv` adds to the properties that a flushed claim was admitted for the operation
  its authorization was issued for (`ClaimMatchesOperation`); otherwise the commit of a claim could
  break the audit columns.
* Supplier. `SupplierInv`: a version is left once, and while the review is pending only by a recorded
  event (`Left`); the partners that intents, effects and authorized writes name carry the review's tax
  number (`SameSupplier`), except for intents whose version was left by something else than their own
  remediation (`Blocked`), which no request can finish any more; what an administrator verified stays
  correctable (`Correctable`); and per request what it knows at its point (`RequestFacts`). The delicate
  step is the correction of the tax number under requests in flight: it blocks every version that has
  an intent, and it cannot follow an effect, because an effect whose partner exists reclassifies the
  review to a match and so moves the version the correction is guarded by. `OnePartnerPerWrite` rests
  on the claim: whoever is about to create holds the authorization's row, and the lookup before it saw
  every partner made under that authorization but those Odoo makes late. These are known to nobody: no
  intent, effect or request has their id (`Awaited`).
* Vendor Bill. `BillInv` says what a worker knows about Odoo at each point of its strategy (`Standing`)
  and that what is recorded exists (`Recorded`). `OneBillInv` adds that whoever is past an empty search
  holds the row lock, so nobody else can be between search and create: the bills that appear in between
  are creates whose callers had left, and `strays` counts them. `AdmissionInv` counts: admissions of an
  authorization equal the attempts it covered, of committed and of open transactions.
* Review queue. `ReviewInv` is `RowsSound` (what the stored rows say of each other), `TasksKnown` (what a
  request has read is still true, or its conditional write will fail) and `AnswersDurable`. A relation
  `Advance` between states, which every step satisfies, carries what other requests know (`KnownStays`).
* Expense mapping. `MappingInv`: types, at most one enabled mapping, and what each request knows and was
  told; the frame relation is `MappingAdvance`.
* Product remediation. `RemediationInv` has a shared part (types; the claim row as a barrier in front of
  every create; records and links agree with Odoo), one holder of each lock, and per worker what it knows
  at its point: its claim, its line, the product it found or made, what its flush will write. The
  links of the reservations agree because each names the product of its own reservation, whether or not
  its retry holds a lock; that those of one line with its authorization are one at most rests on the row that
  `claim_and_consume` locks across the link step (`OwnLinks`). Two relations,
  `Monotone` and `Spared`, say what no step takes away from the others.
* Operator requests. `RequestInv`: an effect leaves a mark its use case recognises (`TookEffect`: a version
  that was left, a decided review, an execution with a recorded authorization), every finished entry is
  true (`Entered`), and the tick knows what its request's entry says at each point (`Knows`). `AppliedOnce`
  rests on the marks, since a crash forgets what the tick knew.
* Inbound sync. `InboundInv`: a receipt, or the invoice about to be recorded, has its metadata and
  document staged in the same session or committed before it (`Backed`), so that the commit inside a page
  publishes them together whatever happens to the rest; a document row is staged by one session only and
  never over a stored one (`DocsAreHeld`, `StagedOK`), so that no commit replaces it; a poller that is
  not idle has the lock; a cycle that is going on carries its run row into every commit. `FilesInv`: before
  the first manual run the poller that is not idle is the only session with staged rows, so a file it
  deletes is named by no row.
* Workbench projection. `ProjectionInv`: a row and a line show only what some version of the history has
  (`RowOf`, `LineOf`), a process holds a snapshot of some earlier version (`Taken`) and plans only its
  lines, an ingestion knows which entry and version its candidate is of (`Knows`), and every decision
  was read from an entry (`DecisionOf`, `Submittable`). The history only grows (`Continues`), so that
  whatever a stale writer writes is still committed, and the version compared when the row was read and
  again when the decision is stored is the one shown. Which fields a writer picks, and whether the
  allocations are of a later entry than the label, makes no difference to the argument.
* Decision execution. `DecisionInv`, on top of the `StoredInv` of the runtime, whose actions the composition
  takes over. `AuthorInv`: until a decision is accepted nothing has been planned, and from then on the plan
  is what the planner makes of that decision and its billing instructions. `CaptureInv`: a capture holds
  only contents that some read returned, and a session that is inserting evidence keeps it compared with
  what is committed. `ExecuteInv`: a request is where its runtime is, a writing step that is counted as
  completed has its document (`Backed`), a quotation is executed only with all its evidence, and every step
  has at most one document, made after those of the steps before it (`Documented`). The planner's lemmas
  sort the billing instructions by rank, so that each is at exactly one position of the plan
  (`AcceptedPlan`, `Coverage`).
* From invoice to bill. `BillInv`: a draft exists only under a decision and a decision only when the review
  is no longer pending. The work is in `Execute`: what it checks at the write (`Checked`) implies what
  `BilledAsInvoiced` says of the draft, whatever the master data were before. The lemmas bound rounding at a
  precision and relate sums over sequences, defined by folds, to sums over positions; that such a sum exists
  and is additive is shown by a least counterexample.
* Guidance and decisions. `CompleteInv`: a review's evidence is sound, that is, every reason that is not
  listed any more was answered (`ReviewInv`); a purpose is recorded for a version, a resale only of a
  product-coded invoice (`PurposeInv`); a decision closes the review, is of the version before its own and
  carries that version's purpose and account (`DecidedInv`). What the guidance names is then accepted,
  because a pending review has no decision and guidance and gates read the same version.
* Shown and written. `DisplayInv`, on top of `BillInv`: the preview (`ShownInv`) and the draft (`WrittenInv`)
  carry the lines of the decision, each priced at the precision of its time; a decision pins the accounts of
  one purpose (`PinsInv`); a person edits one line only, and a multiset comparison cannot miss one line that
  differs (`OneLineDiffers`), so a readback without a mismatch saw the decided lines (`ReadInv`).
* Legacy drafts. `LegacyInv`: a request past its claim holds the row (`ClaimInv`), and as long as no attempt
  failed the row is there exactly from the first draft on (`RecordInv`).
* Return lookup. `LookupInv`: what the first search found (`FirstInv`) and what is cached (`CacheInv`) is
  complete for the invoices that were in the outbox when the search began, as invoices only move into the
  archive, which is searched second; the verdicts rest on the cache (`VerdictInv`).
* Suggestions. `AdvisoryInv`: a stored set is what the engine makes of its line, its catalog and its history,
  and is not marked as cleared while it may be shown (`SetsInv`); what Odoo shows, and the rows that a process
  has built but not yet written, name only sets that nobody has marked as gone (`Presentable`). The delicate
  step is the mark at the end of a refresh, which calls every current, unexpired set shown and the others
  cleared: it is true only if nothing else is shown or about to be (`RefreshInv`). Tick and sweep exclude each
  other by the advisory lock (`TaskInv`), sets only age while one of them works, and what either shows is
  current when it marks. The flow takes no lock: only what it built before the refresh began can be older
  than the mark, and `outrun` names the lines it writes such rows to.
  `ClearInv`: once the display is off, only empty rows are on their way, so a clear that succeeded stays
  true. About the engine: the order of the best candidates is total (`AheadIsAnOrder`), so each has a
  rank and a sequence sorted by it exists; the first two are tied unless their scores differ by more than the
  margin, and whoever comes after the second is not closer; a stale price list row is among what the matcher
  finds by the line's present code, as exactly one product.

Assumptions. Only those the modules declare for their constants, and TLC evaluates them on every run: plans
have steps and policies allow an attempt (`PlanAssumption`, `PolicyAssumption`); the values that stand for
"none" are none of the others (`DistinctAssumption`, `NoRowAssumption`, `UnsetAssumption`, parts of
`AuthConstants`, `VendorBillConstants`, `ReviewConstants`, `RemediationAssumption`, `RequestAssumption`,
`SupplierConstants`, `InboundAssumption`, by which also no manual request is a poller); an entry has its
fields, and the total on it is the invoice's (`ProjectionAssumption`). Amounts are integers or absent,
Odoo's ids are unique and it knows the currencies of the invoices (`AmountAssumption`, `WorldAssumption`,
`OutcomeAssumption`, `DriftAssumption`; neither an outcome nor a purpose is "none"); the tax exemption
settings passed their validation (`ConfigAssumption`); the legacy rows are not "none" (`LegacyAssumption`);
an ETTN, or number and date without one, names one invoice of the outbox (`OutboxAssumption`). Allocation
keys are unique and rows finite (`AuthoredAssumption`, what the code rejects otherwise). Catalogs and price
lists are finite, the lines of a review are those with facts, a text has finitely many words and the
similarity of two texts is a number (`CatalogAssumption`, `LineAssumption`, `PolicyAssumption` of
`AdvisorySuggestions`). `Plans` names its plans by their length and has every plan a decision can be
accepted with (`DecisionConstants`, `PlansAssumption`). Bounds are natural numbers; operations, versions and
channels are functions on the identities they are about.

Three things were found by the proofs: without `PlansAssumption` a step could be beyond the plans the model
knows and its document would not follow the plan; a fiscal position is used only when its company may see
it, which `OdooAccounts` did not require at first; and the price that a preview shows is the one written only
while the currency keeps its precision, which `ShownIsWhatIsWritten` now says and one state of the master
data exercises.

### Only model-checked

* Liveness and everything under fairness (`EveryRequestIsAnswered`, `EveryWorkbenchRequestEnds`,
  `RetriesReachAnEnd`, `EverySubmissionIsAnswered` but for its first conjunct, `EveryInvoiceIsImported` but for the first two,
  `ProjectionConverges`, `PermanentSupplierIsResumed` but for its first conjunct, `DecisionRequestsEnd`, `SuggestionsFollow`): the
  prover handles neither fairness nor ENABLED.
* `RulesDecide`, and what the folds and recursive functions of matching, rules and suggestions compute for
  every input: checked on the enumerated invoices, rules and master data.

## Not modelled

The HTTP API, authentication and the composition of the processes; the endpoint that downloads single
documents and the validation command (`api/routers/document_download.py`,
`services/uyumsoft_test_validation.py`), two more writers of `InboundSync`'s documents that race like its
manual run; schemas, mappers and the parsing of documents (a document parses or does not); list and search
queries; dry runs, which write nothing; the SOAP encoding of Uyumsoft; the language model's explanations of
advisory suggestions; the HTTP connection pool. But for those two writers they convert or read, and none
keeps state that the others rely on.
