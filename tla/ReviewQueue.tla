-------------------------------- MODULE ReviewQueue --------------------------------
(***************************************************************************)
(* One review of the import workbench, from the import that creates it to  *)
(* the decision that closes it: the versioned review row, and the rows     *)
(* that are pinned to its versions (Stage-1 execution evidence, purchase   *)
(* purposes, accounting resolutions, reclassification events, the accepted *)
(* decision with the evidence and the accounting pin it was accepted on).  *)
(*                                                                         *)
(* Code: app/persistence/workbench_review_repository.py, the repositories  *)
(* of purposes and accounting resolutions, and the use cases that call     *)
(* them (import_invoice, reclassify_review, effective_decision,            *)
(* purchase_purpose_use_cases, accounting_resolution_use_cases,            *)
(* execution_evidence_recovery_use_cases, decision_use_cases and the       *)
(* decision gates).                                                        *)
(*                                                                         *)
(* A caller is one request with its own database session.  PostgreSQL runs *)
(* at READ COMMITTED: a read sees what is committed, and reads of one      *)
(* request may be separated by commits of another.  The conditional UPDATE *)
(* of the review row locks it until the COMMIT, and a colliding INSERT     *)
(* waits for the other transaction, so a write and its COMMIT are one step *)
(* here; what a request read before its write is in `task'.                *)
(***************************************************************************)
EXTENDS Integers, FiniteSets

CONSTANTS Callers,       \* concurrent requests
          Keys,          \* idempotency keys of decision commands
          Contents,      \* Stage-1 snapshots the matchers can produce
          Facts,         \* facts of selected products, as Odoo answers them
          Invoices,      \* kinds of invoice, [productCoded, contents, keys]: does a line
                         \* carry a product identifier, the snapshots it can get, the
                         \* keys of the decisions submitted on it
          MaxVersion,    \* bound: versions of the review explored
          None

VARIABLES invoice,      \* the invoice under review, one of Invoices
          review,       \* the review row, None before the import
          stage1,       \* Stage-1 execution evidence of each version
          purposes,     \* purchase purpose of each version
          resolutions,  \* accounting resolution of each version
          events,       \* reclassification events
          decisions,    \* accepted decisions
          task,         \* what each caller is doing, and what it has read
          answer        \* the last answer of each caller that a property is about

reviewvars == <<invoice, review, stage1, purposes, resolutions, events, decisions, task, answer>>
rows == <<review, stage1, purposes, resolutions, events, decisions>>

Versions == 1 .. MaxVersion

\* Workflow and manual-review reasons of a classification: "clean" is VENDOR_BILL without
\* reasons, the others are MANUAL_REVIEW: with an operating-expense reason, alone or among
\* others, or only with reasons that no accounting resolution removes.
Classes == {"clean", "opex", "blocked"}
Statuses == {"pending_review", "decision_submitted", "dismissed"}
Purposes == {"resale", "internal_use", "customer_project", "other_operating_expense"}
Treatments == {"expense_account", "capitalize_fixed_asset"}
DecisionKinds == {"vendor_bill", "other_workflow", "dismiss"}

Evidence == [stage1 : Contents, product : Facts]
ProductPins == ({"resale"} \X {None}) \union ({"internal_use"} \X Treatments)
Pins == {None} \union ProductPins
Decisions == [key : Keys, kind : DecisionKinds, before : Versions,
              evidence : Evidence \union {None}, pin : Pins]
Events == [from : Versions, previous : Classes, class : Classes, executable : BOOLEAN]

\* the columns of the review row
Reviews == [version : 1 .. MaxVersion + 1, status : Statuses, class : Classes]

ASSUME ReviewConstants ==
    /\ Invoices \subseteq [productCoded : BOOLEAN, contents : SUBSET Contents,
                    keys : SUBSET Keys]
    /\ MaxVersion \in Nat \ {0}
    /\ None \notin Contents \union Facts \union Keys \union Purposes \union Treatments
    /\ None \notin Reviews \union Evidence \union ProductPins

ReviewInit ==
    /\ invoice \in Invoices
    /\ review = None
    /\ stage1 = [v \in Versions |-> None]
    /\ purposes = [v \in Versions |-> None]
    /\ resolutions = [v \in Versions |-> None]
    /\ events = {}
    /\ decisions = {}
    /\ task = [c \in Callers |-> None]
    /\ answer = [c \in Callers |-> None]

-----------------------------------------------------------------------------
(* Requests *)

\* A new request begins; the caller forgets its previous answer.
Begin(c, t) ==
    /\ task[c] = None
    /\ task' = [task EXCEPT ![c] = t]
    /\ answer' = [answer EXCEPT ![c] = None]
    /\ UNCHANGED rows

\* It goes on, with what it has read.
Continue(c, t) ==
    /\ task' = [task EXCEPT ![c] = t]
    /\ UNCHANGED answer

\* It returns or raises; a says what it answered, where a property depends on it.
Return(c, a) ==
    /\ task' = [task EXCEPT ![c] = None]
    /\ answer' = [answer EXCEPT ![c] = a]

\* An exception or the death of the process before a COMMIT: the session rolls back.
Fail(c) ==
    /\ task[c] # None
    /\ Return(c, None)
    /\ UNCHANGED rows

Pending(v) == review # None /\ review.version = v /\ review.status = "pending_review"

-----------------------------------------------------------------------------
(* Import *)

\* ImportInvoiceUseCase.execute finds no earlier import and awaits the decision engine.
ImportDecided(c) ==
    /\ review = None
    /\ \E class \in Classes, content \in invoice.contents \union {None} :
           Begin(c, [op |-> "import", class |-> class, content |-> content])

\* create_review_item*: INSERT, or the row of a concurrent import of the same invoice.
CreateReviewItem(c) ==
    /\ task[c] # None /\ task[c].op = "import"
    /\ \/ /\ review = None
          /\ review' = [version |-> 1, status |-> "pending_review", class |-> task[c].class]
          /\ stage1' = [stage1 EXCEPT ![1] = task[c].content]
       \/ /\ review # None    \* the same review, a fingerprint conflict, or missing evidence
          /\ UNCHANGED <<review, stage1>>
    /\ Return(c, None)
    /\ UNCHANGED <<purposes, resolutions, events, decisions>>

-----------------------------------------------------------------------------
(* Purchase purpose *)

\* SubmitPurchasePurposeUseCase._require_eligible and the product shape it asks for.
PurposeEligible(p) ==
    \/ p = "resale" /\ invoice.productCoded
    \/ p # "resale" /\ review.class = "opex"
    \/ p = "internal_use" /\ review.class = "clean" /\ invoice.productCoded

\* The checks, all of them before the write.
PurposeChecked(c, v, p) ==
    /\ Pending(v)
    /\ PurposeEligible(p)
    /\ purposes[v] = None
    /\ Begin(c, [op |-> "purpose", version |-> v, purpose |-> p])

\* Mutation: a second statement replaces the first.
ReplacePurpose(c) ==
    /\ task[c] # None /\ task[c].op = "purpose"
    /\ purposes' = [purposes EXCEPT ![task[c].version] = task[c].purpose]
    /\ Return(c, None)
    /\ UNCHANGED <<review, stage1, resolutions, events, decisions>>

\* create_purchase_purpose_resolution: INSERT, the equal row, or a conflict.  The review
\* is not read again.
CreatePurpose(c) ==
    /\ task[c] # None /\ task[c].op = "purpose"
    /\ purposes' = [purposes EXCEPT ![task[c].version] = IF @ = None THEN task[c].purpose ELSE @]
    /\ Return(c, None)
    /\ UNCHANGED <<review, stage1, resolutions, events, decisions>>

-----------------------------------------------------------------------------
(* Accounting resolution, and the reclassification it asks for *)

Supports(p, t) ==
    \/ t = "expense_account" /\ p \in {"internal_use", "other_operating_expense"}
    \/ t = "capitalize_fixed_asset" /\ p = "internal_use"

\* SubmitReviewAccountingResolutionUseCase._execute up to its first write.
ResolutionChecked(c, v, t) ==
    /\ Pending(v)
    /\ \/ review.class = "opex"
       \/ review.class = "clean" /\ purposes[v] = "internal_use" /\ t = "expense_account"
    /\ Supports(purposes[v], t)
    /\ \/ /\ resolutions[v] = None
          /\ Begin(c, [op |-> "resolution", version |-> v, treatment |-> t,
                       unblocked |-> review.class = "clean"])
       \/ /\ resolutions[v] = t    \* an earlier attempt stopped between its two commits
          /\ review.class = "opex"
          /\ Begin(c, [op |-> "resolved", version |-> v])

\* create_accounting_resolution and the first commit.
CreateResolution(c) ==
    /\ task[c] # None /\ task[c].op = "resolution"
    /\ LET v == task[c].version
           t == task[c].treatment
       IN \/ /\ resolutions[v] \in {None, t}
             /\ resolutions' = [resolutions EXCEPT ![v] = t]
             /\ IF task[c].unblocked THEN Return(c, None)
                                     ELSE Continue(c, [op |-> "resolved", version |-> v])
          \/ /\ resolutions[v] \notin {None, t}
             /\ Return(c, None)
             /\ UNCHANGED resolutions
    /\ UNCHANGED <<review, stage1, purposes, events, decisions>>

\* EffectiveDecisionResolver.resolve: the classification against today's master data, where
\* the latest accepted accounting resolution removes an operating-expense reason.  That
\* leaves no reason, or another one, or nothing is removed for want of a known supplier.
Effective(raw) ==
    IF raw = "opex" /\ \E v \in Versions : resolutions[v] # None
    THEN {"clean", "blocked", "opex"} ELSE {raw}

Proposal(v, class, content) ==
    [op |-> "reclassify", version |-> v, class |-> class, content |-> content]

\* ReclassifyWorkbenchReviewUseCase.execute, called by a remediation (supplier, product,
\* expense mapping) or after an accounting resolution.
ReclassificationResolved(c) ==
    \E class \in UNION {Effective(raw) : raw \in Classes}, content \in invoice.contents \union {None} :
        \/ \E v \in Versions :
               /\ Pending(v)
               /\ Begin(c, Proposal(v, class, content))
        \/ /\ task[c] # None /\ task[c].op = "resolved"
           /\ Continue(c, Proposal(task[c].version, class, content))
           /\ UNCHANGED rows

\* The proposal changes workflow, reasons or executability.
Differs(p) ==
    \/ review.class # p.class
    \/ (stage1[p.version] # None) # (p.content # None)

\* What reclassify_review reads before it writes: the event of an earlier attempt, a
\* conflict or nothing to change end it here.
ReclassifyChecked(c) ==
    /\ task[c] # None /\ task[c].op = "reclassify"
    /\ LET p == task[c]
           applies == Pending(p.version) /\ Differs(p)
       IN \/ /\ applies
             /\ p.version < MaxVersion
             /\ Continue(c, [p EXCEPT !.op = "reclassify_write"])
          \/ /\ ~ applies
             /\ Return(c, None)
    /\ UNCHANGED rows

\* The rows of a reclassification: the review row, its event and the evidence of the new
\* version.
Reclassified(p) ==
    /\ review' = [review EXCEPT !.version = p.version + 1, !.class = p.class]
    /\ events' = events \union
           {[from |-> p.version, previous |-> review.class, class |-> p.class,
             executable |-> p.content # None]}
    /\ stage1' = [stage1 EXCEPT ![p.version + 1] = p.content]

\* Mutation: the UPDATE does not ask for the expected version.
ReclassifyAnyVersion(c) ==
    /\ task[c] # None /\ task[c].op = "reclassify_write"
    /\ review.status = "pending_review"
    /\ Reclassified(task[c])
    /\ Return(c, None)
    /\ UNCHANGED <<purposes, resolutions, decisions>>

\* The conditional UPDATE with its rows and the caller's COMMIT, or a conflict.
Reclassify(c) ==
    /\ task[c] # None /\ task[c].op = "reclassify_write"
    /\ \/ /\ Pending(task[c].version)
          /\ Reclassified(task[c])
       \/ /\ ~ Pending(task[c].version)
          /\ UNCHANGED <<review, events, stage1>>
    /\ Return(c, None)
    /\ UNCHANGED <<purposes, resolutions, decisions>>

-----------------------------------------------------------------------------
(* Recovery of Stage-1 evidence *)

\* RebuildReviewExecutionEvidenceUseCase._require_eligible.
RecoveryEligible(v) == Pending(v) /\ review.class = "clean"

\* The review is read, then the effective decision is awaited; it must reproduce the
\* classification the review shows, and must produce a snapshot.
RecoveryResolved(c, v) ==
    /\ RecoveryEligible(v)
    /\ \E content \in invoice.contents :
           /\ \E raw \in Classes : review.class \in Effective(raw)
           /\ Begin(c, [op |-> "recovery", version |-> v, content |-> content])

\* find_execution_evidence, and the SELECT that opens
\* create_execution_evidence_for_current_version.
RecoveryChecked(c) ==
    /\ task[c] # None /\ task[c].op = "recovery"
    /\ LET v == task[c].version
       IN \/ /\ stage1[v] = None /\ Pending(v)
             /\ Continue(c, [task[c] EXCEPT !.op = "recovery_insert"])
          \/ /\ stage1[v] # None \/ ~ Pending(v)    \* already applied, or a conflict
             /\ Return(c, None)
    /\ UNCHANGED rows

\* The INSERT and the COMMIT.  If another request's row is there, the IntegrityError
\* handler returns that row.  The use case answers already_applied = false either way.
RecoveryInserted(c) ==
    /\ task[c] # None /\ task[c].op = "recovery_insert"
    /\ LET v == task[c].version
       IN /\ stage1' = [stage1 EXCEPT ![v] = IF @ = None THEN task[c].content ELSE @]
          /\ Return(c, [op |-> "recovered", version |-> v, content |-> task[c].content])
    /\ UNCHANGED <<review, purposes, resolutions, events, decisions>>

-----------------------------------------------------------------------------
(* Decisions *)

\* SubmitReviewDecisionUseCase.execute reads the Stage-1 evidence of the expected version
\* and applies the products the operator selected; other decisions need no evidence.
DecisionPrepared(c, v, kind, key) ==
    \/ /\ kind = "vendor_bill" /\ stage1[v] # None
       /\ \E f \in Facts :
              Begin(c, [op |-> "decision", version |-> v, kind |-> kind, key |-> key,
                        evidence |-> [stage1 |-> stage1[v], product |-> f]])
    \/ /\ kind # "vendor_bill" /\ review # None
       /\ Begin(c, [op |-> "decision_write", version |-> v, kind |-> kind, key |-> key,
                    evidence |-> None, pin |-> None])

\* _decision_fingerprint_from_model = _decision_fingerprint
SameCommand(d, t) == d.kind = t.kind /\ d.before = t.version

\* has_matching_review_decision
IsReplay(t) == \E d \in decisions : d.key = t.key /\ SameCommand(d, t)

\* The pin for the purpose recorded at u and the accounting resolution recorded at v; none
\* for an invoice without product identifiers.  A gate that returns no pin refuses.
PinsAt(u, v) ==
    CASE ~ invoice.productCoded -> {None}
      [] invoice.productCoded /\ purposes[u] = "resale" -> {<<"resale", None>>}
      [] invoice.productCoded /\ purposes[u] = "internal_use" /\ resolutions[v] = "expense_account" ->
             {<<"internal_use", "expense_account">>}
      [] OTHER -> {}

\* Mutation: a purpose recorded for an earlier version carries over.
CarriedPins(v) == UNION {PinsAt(u, v) : u \in 1 .. v}

\* ProductPurchasePurposeGate, ResaleDecisionGate and InternalUseDecisionGate: only the rows
\* of the version being decided count.
AcceptedPins(v) == PinsAt(v, v)

\* The replay check and, for a fresh decision, the purpose, RESALE and INTERNAL_USE gates.
DecisionGated(c) ==
    /\ task[c] # None /\ task[c].op = "decision"
    /\ \E pin \in (IF IsReplay(task[c]) THEN {None} ELSE AcceptedPins(task[c].version)) :
           Continue(c, [op |-> "decision_write", version |-> task[c].version,
                        kind |-> task[c].kind, key |-> task[c].key,
                        evidence |-> task[c].evidence, pin |-> pin])
    /\ UNCHANGED rows

\* _target_status_for_decision
TargetStatus(kind) == IF kind = "dismiss" THEN "dismissed" ELSE "decision_submitted"
Accepted(t) == [op |-> "accepted", version |-> t.version, kind |-> t.kind, key |-> t.key]

\* Mutation: the staged rows are never committed (the request's session is discarded).
DecisionAppliedUncommitted(t) == Pending(t.version) /\ UNCHANGED <<review, decisions>>

\* The staged write: the conditional UPDATE of the review row, the decision row and its
\* evidence rows, in one transaction.
DecisionApplied(t) ==
    /\ Pending(t.version)
    /\ review' = [review EXCEPT !.version = t.version + 1, !.status = TargetStatus(t.kind)]
    /\ decisions' = decisions \union
           {[key |-> t.key, kind |-> t.kind, before |-> t.version, evidence |-> t.evidence,
             pin |-> t.pin]}

\* submit_review_decision* and _write_and_commit: the decision of an earlier attempt with
\* this key, a conflict, or a new decision.
SubmitDecision(c) ==
    /\ task[c] # None /\ task[c].op = "decision_write"
    /\ LET t == task[c]
           found == {d \in decisions : d.key = t.key}
           replayed == \E d \in found : SameCommand(d, t) /\ d.evidence = t.evidence
       IN \/ /\ found = {}
             /\ DecisionApplied(t)
             /\ Return(c, Accepted(t))
          \/ /\ found # {} \/ ~ Pending(t.version)
             /\ Return(c, IF replayed THEN Accepted(t) ELSE None)
             /\ UNCHANGED <<review, decisions>>
    /\ UNCHANGED <<stage1, purposes, resolutions, events>>

-----------------------------------------------------------------------------

Step(c) ==
    \/ ImportDecided(c) \/ CreateReviewItem(c)
    \/ \E v \in Versions, p \in Purposes : PurposeChecked(c, v, p)
    \/ CreatePurpose(c)
    \/ \E v \in Versions, t \in Treatments : ResolutionChecked(c, v, t)
    \/ CreateResolution(c)
    \/ ReclassificationResolved(c) \/ ReclassifyChecked(c) \/ Reclassify(c)
    \/ \E v \in Versions : RecoveryResolved(c, v)
    \/ RecoveryChecked(c) \/ RecoveryInserted(c)
    \/ \E v \in Versions, kind \in DecisionKinds, key \in invoice.keys :
           DecisionPrepared(c, v, kind, key)
    \/ DecisionGated(c) \/ SubmitDecision(c)
    \/ Fail(c)

ReviewNext == (\E c \in Callers : Step(c)) /\ UNCHANGED invoice

ReviewSpec == ReviewInit /\ [][ReviewNext]_reviewvars

-----------------------------------------------------------------------------
(* Properties *)

\* Every row keeps its type, and rows exist only for versions the review has reached.
ReviewTypeOK ==
    /\ review = None \/ review \in Reviews
    /\ stage1 \in [Versions -> Contents \union {None}]
    /\ purposes \in [Versions -> Purposes \union {None}]
    /\ resolutions \in [Versions -> Treatments \union {None}]
    /\ events \subseteq Events
    /\ decisions \subseteq Decisions
    /\ \A v \in Versions : review = None \/ v > review.version =>
           stage1[v] = None /\ purposes[v] = None /\ resolutions[v] = None

\* The version of a review is explained without a gap: each version before the current one
\* was left either by exactly one reclassification, whose event starts from the
\* classification the event before it ended with, or, the last of them, by the one accepted
\* decision; a pending review has none (workbench_review_repository.py: the conditional
\* UPDATEs of reclassify_review and submit_review_decision*).
VersionChain ==
    IF review = None THEN events = {} /\ decisions = {}
    ELSE /\ \A v \in 1 .. review.version - 1 :
                Cardinality({e \in events : e.from = v})
                  + Cardinality({d \in decisions : d.before = v}) = 1
         /\ \A e \in events : e.from < review.version
         /\ \A d \in decisions : d.before = review.version - 1
                                   /\ review.status = TargetStatus(d.kind)
         /\ review.status = "pending_review" <=> decisions = {}
         /\ \A e, f \in events : f.from = e.from + 1 => f.previous = e.class
         /\ \A e \in events : (\A f \in events : f.from <= e.from) => e.class = review.class

\* A Vendor Bill is decided on what was shown at the decided version: its evidence is the
\* Stage-1 row of that version and, for a product-coded invoice, its pin is of the purpose
\* recorded for that version, with that version's expense account for INTERNAL_USE
\* (decision_use_cases.py: a purpose of another version never carries over).
DecisionPinned ==
    \A d \in decisions : d.kind = "vendor_bill" =>
        /\ d.evidence # None /\ d.evidence.stage1 = stage1[d.before]
        /\ invoice.productCoded =>
               /\ d.pin # None /\ d.pin[1] = purposes[d.before]
               /\ d.pin[1] = "internal_use" => d.pin[2] = resolutions[d.before]

\* Stage-1 evidence that a reclassification did not bring was recovered, and only for a
\* version that had no manual-review reason: recovery never makes an unresolved review
\* ready (execution_evidence_recovery_use_cases.py).
ExecutabilityExplained ==
    \A e \in events :
        /\ e.executable => stage1[e.from + 1] # None
        /\ stage1[e.from + 1] # None => e.executable \/ e.class = "clean"

\* An acknowledged decision is committed, as it was commanded (P0-PROD-15AB: an
\* acknowledgement is not built from staged rows that are never committed).
AcceptedIsDurable ==
    \A c \in Callers :
        answer[c] # None /\ answer[c].op = "accepted" =>
            \E d \in decisions : d.key = answer[c].key /\ d.kind = answer[c].kind
                                   /\ d.before = answer[c].version

\* Rows pinned to a version are written once, histories only grow, the version never goes
\* back, and a decided review stays as it was decided.
RowsAreImmutable ==
    [][/\ \A v \in Versions :
              /\ stage1[v] # None => stage1'[v] = stage1[v]
              /\ purposes[v] # None => purposes'[v] = purposes[v]
              /\ resolutions[v] # None => resolutions'[v] = resolutions[v]
       /\ events \subseteq events' /\ decisions \subseteq decisions'
       /\ review # None =>
              /\ review'.version >= review.version
              /\ review.status # "pending_review" => review' = review]_reviewvars

\* Together: the rows of a review tell one history, of its versions, of the evidence each
\* version has and of where that evidence came from.
HistoryIsSound == ReviewTypeOK /\ VersionChain /\ ExecutabilityExplained

=============================================================================
