------------------------- MODULE WorkbenchProjection -------------------------
(***************************************************************************)
(* The workbench row of one review and everyone who writes it: the import's *)
(* first publication, the full-snapshot synchronizer (after every committed *)
(* transition and from the reconcile command), the republication of a       *)
(* remediated supplier, the projection of an execution result and the       *)
(* acknowledgement of an ingested decision; and the operator, who enters    *)
(* decisions on it.  Odoo has neither uniqueness on (review, company) nor a *)
(* conditional write: every writer reads, decides, and writes later.        *)
(***************************************************************************)
EXTENDS ProductLines, DecisionCandidate, OperatorGuidance

CONSTANTS
    Syncers,      \* processes that run a use case or a reconcile
    Ticker,       \* the one that has just imported, and then ingests and executes
    Reconciler,   \* the one that classifies again, and runs the reconcile command
    Invoices,     \* per invoice, the facts a classification of it can record
    Entries,      \* what an operator can enter on the row
    Erp,          \* the records of Odoo allocations refer to
    Company,      \* the company of the review
    InvoiceTotal, \* the total of the invoice, in cents; 0: not known
    MaxVersion,   \* bound: review versions
    MaxEvents     \* bound: reclassifications, entries, executions and failures, together

ASSUME ProjectionAssumption ==
    /\ Ticker \in Syncers /\ Reconciler \in Syncers
    /\ MaxVersion \in Nat \ {0} /\ MaxEvents \in Nat
    /\ InvoiceTotal \in Nat
    \* what an entry consists of; the total on the row is the one that was projected
    /\ \A e \in Entries : /\ DOMAIN e = {"decision", "label", "completeness", "total",
                                         "currency", "allocations", "lines"}
                           /\ e.total = InvoiceTotal

VARIABLES
    hub,       \* committed: [invoice, review: one record per version, execution]
    rows,      \* Odoo: the parent rows of the review, in the order they were created
    lines,     \* Odoo: its product line rows
    task,      \* [Syncers -> what the process is doing]
    events     \* reclassifications, entries, executions and failures so far

projvars == <<hub, rows, lines, task, events>>

NoDecision == [ok |-> FALSE]
NoCandidate == [ok |-> FALSE]
Now == Len(hub.review)
Current == hub.review[Now]
Pending(r) == r.status = "PENDING_REVIEW"

---------------------------------------------------------------------------
(* What the row should show                                                 *)

\* effective_resolutions: one treatment of the whole invoice (a fixed asset, an expense
\* account), else per line the account or the product of the decision, or the match
Resolutions(r) ==
    LET chosen == IF r.decision.ok THEN ToSet(r.decision.candidate.lines) ELSE {}
        matched == {n \in DOMAIN r.facts.evidence : r.facts.evidence[n].status = "MATCHED"} IN
    IF r.status # "DECISION_SUBMITTED" THEN <<>>
    ELSE [n \in ToSet(r.facts.numbers) |->
            CASE r.facts.treatment # "" -> [kind |-> r.facts.treatment, product |-> 0]
              [] \E c \in chosen : c.line = n ->
                    LET choice == CHOOSE c \in chosen : c.line = n IN
                    IF choice.accountOnly THEN [kind |-> "account_only", product |-> 0]
                    ELSE [kind |-> "product", product |-> choice.product]
              [] n \in matched -> [kind |-> "product", product |-> r.facts.evidence[n].product]
              [] OTHER -> [kind |-> "unresolved", product |-> 0]]

HadProductReasons(review) ==
    \E v \in DOMAIN review : Codes(review[v].facts) \cap PRODUCT_REVIEW_REASON_CODES # {}

DecisionWorkflow(r) == IF r.decision.ok THEN r.decision.candidate.workflow ELSE ""

\* _build_projection, read from committed state only.  Execution facts belong to the decision.
Snapshot(review, execution) ==
    LET r == review[Len(review)]
        workflow == DecisionWorkflow(r) IN
    [row |-> [version |-> Len(review),
              status |-> r.status,
              workflow |-> IF workflow # "" THEN workflow ELSE r.facts.workflow,
              action |-> NextAction(r.status, Codes(r.facts), r.facts.guidance, workflow, execution = "COMPLETED"),
              executed |-> execution = "COMPLETED",
              message |-> execution],
     lines |-> ProductLineRows([r.facts EXCEPT !.supplier = IF r.status = "DISMISSED" THEN 0 ELSE @],
                   HadProductReasons(review), Len(review), Pending(r), Resolutions(r))]

Fields == {"version", "status", "workflow", "action", "executed", "message"}
Shown(row) == [f \in Fields |-> row[f]]

\* the fields each writer sets
PublishFields == {"version", "status", "workflow"}
ExecutionFields == {"executed", "message"}

---------------------------------------------------------------------------
(* Processes                                                                *)

Free == [pc |-> "free", how |-> "", snap |-> <<>>, found |-> <<>>, todo |-> {}, row |-> 0,
         candidate |-> NoCandidate, entry |-> <<>>, via |-> ""]

Doing(w, pc) == task[w].pc = pc
Move(w, pc) == task' = [task EXCEPT ![w].pc = pc]
EndTask(w) == task' = [task EXCEPT ![w] = Free]

Event == events < MaxEvents /\ events' = events + 1

\* after the projection: an ingestion acknowledges its decision, everyone else is done
AfterSync(w) == IF task[w].via = "legacy" THEN Move(w, "acknowledge") ELSE EndTask(w)

ProjectionInit ==
    /\ \E invoice \in Invoices, how \in {"publish", "sync"} : \E facts \in invoice :
         /\ hub = [invoice |-> invoice, execution |-> "none",
                   review |-> <<[status |-> "PENDING_REVIEW", facts |-> facts, decision |-> NoDecision]>>]
         /\ task = [w \in Syncers |-> IF w = Ticker THEN [Free EXCEPT !.pc = "build", !.how = how] ELSE Free]
    /\ rows = <<>>
    /\ lines = <<>>
    /\ events = 0

\* the projection is read after the commit it follows, in a session of its own
Build(w) ==
    /\ Doing(w, "build")
    /\ task' = [task EXCEPT ![w].pc = "lookup", ![w].snap = Snapshot(hub.review, hub.execution)]
    /\ UNCHANGED <<hub, rows, lines, events>>

\* cli/reconcile_workbench_projection --apply, for this review
Reconcile(w) ==
    /\ w = Reconciler /\ Doing(w, "free")
    /\ task' = [task EXCEPT ![w] = [Free EXCEPT !.pc = "build", !.how = "sync"]]
    /\ UNCHANGED <<hub, rows, lines, events>>

\* Mutation: a row of the same version is taken for an up-to-date one.
StaleReasonSameVersion(row, snap) == row.version >= snap.version

\* _stale_reason: a newer row, or execution facts that the snapshot does not have
StaleReason(row, snap) ==
    \/ row.version > snap.version
    \/ row.version = snap.version /\ row.executed /\ ~snap.executed

\* _lookup reads at most two rows; two are ambiguous for every writer, for ever
Lookup(w) ==
    /\ Doing(w, "lookup")
    /\ LET t == task[w] IN
       \/ /\ Len(rows) > 1
          /\ AfterSync(w)
       \/ /\ rows = <<>>
          /\ IF t.how \in {"sync", "publish"} THEN Move(w, "create") ELSE EndTask(w)
       \/ /\ Len(rows) = 1
          /\ IF t.how = "sync" /\ StaleReason(rows[1], t.snap.row) THEN AfterSync(w)
             ELSE task' = [task EXCEPT ![w].found = Shown(rows[1]),
                     ![w].pc = IF t.how = "sync" /\ Shown(rows[1]) = t.snap.row THEN "lines" ELSE "write"]
    /\ UNCHANGED <<hub, rows, lines, events>>

NewRow(t) ==
    LET s == t.snap.row  whole == t.how # "publish" IN
    [version |-> s.version, status |-> s.status, workflow |-> s.workflow,
     action |-> IF whole THEN s.action ELSE "", executed |-> whole /\ s.executed,
     message |-> IF whole THEN s.message ELSE "none",
     ready |-> FALSE, entry |-> <<>>, seen |-> 0, key |-> NoCandidate, taken |-> NoCandidate]

CreateRow(w) ==
    /\ Doing(w, "create")
    /\ rows' = Append(rows, NewRow(task[w]))
    /\ IF task[w].how = "sync" THEN Move(w, "lines") ELSE EndTask(w)
    /\ UNCHANGED <<hub, lines, events>>

\* the synchronizer writes the fields that differed from what it had read
WrittenFields(t) ==
    CASE t.how = "sync" -> {f \in Fields : t.snap.row[f] # t.found[f]}
      [] t.how = "execution" -> ExecutionFields
      [] OTHER -> PublishFields

\* a projected result always says executed: it is projected for a success only
RowValues(t) == IF t.how = "execution" THEN [t.snap.row EXCEPT !.executed = TRUE] ELSE t.snap.row

WrittenRow(row, t) == [f \in DOMAIN row |-> IF f \in WrittenFields(t) THEN RowValues(t)[f] ELSE row[f]]

WriteRow(w) ==
    /\ Doing(w, "write")
    /\ rows' = [rows EXCEPT ![1] = WrittenRow(@, task[w])]
    /\ IF task[w].how = "sync" THEN Move(w, "lines") ELSE EndTask(w)
    /\ UNCHANGED <<hub, lines, events>>

---------------------------------------------------------------------------
(* Product lines: read the child rows, plan, apply one by one               *)

LineFields == {"version", "supplier", "state", "product", "hints"}
OfKey(k) == {i \in DOMAIN lines : lines[i].key = k}
Keys(set) == {line.key : line \in set}

\* rows that are no longer current and show no hints need nothing
Deactivated(line) == [line EXCEPT !.current = FALSE, !.hints = {}]
Surplus(desired) == {i \in DOMAIN lines : lines[i].key \notin Keys(desired) /\ lines[i].current}
Differs(line, i) == ~lines[i].current \/ \E f \in LineFields : lines[i][f] # line[f]

PlanLines(desired) ==
    {[op |-> "create", line |-> d, at |-> 0] : d \in {e \in desired : OfKey(e.key) = {}}}
    \cup (UNION {{[op |-> "update", line |-> d, at |-> i] : i \in {j \in OfKey(d.key) : Differs(d, j)}} : d \in desired})
    \cup {[op |-> "deactivate", line |-> lines[i], at |-> i] : i \in Surplus(desired)}

ReadLines(w) ==
    /\ Doing(w, "lines")
    /\ LET wanted == task[w].snap.lines
           duplicated == \E i, j \in DOMAIN lines : i # j /\ lines[i].key = lines[j].key IN
       IF ~wanted.ok \/ duplicated \/ PlanLines(wanted.rows) = {} THEN AfterSync(w)
       ELSE task' = [task EXCEPT ![w].pc = "line", ![w].todo = PlanLines(wanted.rows)]
    /\ UNCHANGED <<hub, rows, lines, events>>

LineWritten(step) ==
    IF step.op = "deactivate" THEN Deactivated(lines[step.at])
    ELSE [key |-> step.line.key, version |-> step.line.version, supplier |-> step.line.supplier,
          state |-> step.line.state, product |-> step.line.product, hints |-> step.line.hints,
          current |-> TRUE]

ApplyLine(w) ==
    /\ Doing(w, "line")
    /\ \E step \in task[w].todo :
         /\ IF step.op = "create" THEN lines' = Append(lines, LineWritten(step))
            ELSE lines' = [lines EXCEPT ![step.at] = LineWritten(step)]
         /\ IF task[w].todo # {step} THEN task' = [task EXCEPT ![w].todo = @ \ {step}] ELSE AfterSync(w)
    /\ UNCHANGED <<hub, rows, events>>

---------------------------------------------------------------------------
(* Decisions entered on the row                                             *)

\* The operator fills in the row and marks it ready; the button records the version shown.
Enter(i, e) ==
    /\ rows[i].version > 0
    /\ Event
    /\ rows' = [rows EXCEPT ![i].ready = TRUE, ![i].entry = e, ![i].seen = rows[i].version,
                            ![i].taken = NoCandidate]
    /\ UNCHANGED <<hub, lines, task>>

\* Mutation: the button's version is not compared with the row's.
VersionSeenUnchecked(row, via) == row.ready

\* DecisionRequestHandler compares, the ready-decision scan takes the row's version as it is
VersionSeen(row, via) == via = "legacy" \/ row.version = row.seen

\* get_ready_decision, or one record of list_ready_decision_results
IngestRead(w, via) ==
    /\ w = Ticker /\ Doing(w, "free")
    /\ \E i \in DOMAIN rows :
         /\ via = "request" => Len(rows) = 1
         /\ rows[i].ready /\ VersionSeen(rows[i], via)
         /\ task' = [task EXCEPT ![w] = [Free EXCEPT !.pc = "allocations", !.row = i, !.via = via,
                        !.entry = [rows[i].entry EXCEPT !.allocations = <<>>],
                        !.candidate = [version |-> rows[i].version, seen |-> rows[i].seen]]]
    /\ UNCHANGED <<hub, rows, lines, events>>

\* the allocation rows are read by a call of their own, after the parent row
IngestAllocations(w) ==
    /\ Doing(w, "allocations")
    /\ LET t == task[w]
           c == Candidate(t.entry, t.candidate.version, rows[t.row].entry.allocations) IN
       IF c.ok /\ ReferencesValid(c, Erp, Company)
       THEN task' = [task EXCEPT ![w].pc = "submit", ![w].candidate = c,
                                 ![w].entry = [label |-> t.entry.label, seen |-> t.candidate.seen]]
       ELSE EndTask(w)
    /\ UNCHANGED <<hub, rows, lines, events>>

DecidedBy(key) == {v \in DOMAIN hub.review : hub.review[v].decision.ok /\ DecisionKey(hub.review[v].decision.candidate) = key}

\* A replay writes nothing.  A new decision needs the pending review at its version; the
\* gates that may still refuse it are those of ReviewQueue and InvoiceToBill.
Submit(w) ==
    /\ Doing(w, "submit")
    /\ LET t == task[w]
           replay == DecidedBy(DecisionKey(t.candidate)) # {} IN
       \/ EndTask(w) /\ UNCHANGED <<hub, rows>>
       \/ /\ replay
          /\ task' = [task EXCEPT ![w].pc = "build", ![w].how = "sync"]
          /\ UNCHANGED <<hub, rows>>
       \/ /\ ~replay
          /\ t.via = "request" => V1Supported(t.candidate)
          /\ Pending(Current) /\ t.candidate.version = Now /\ Now < MaxVersion
          /\ hub' = [hub EXCEPT !.review = Append(@,
                 [status |-> IF t.candidate.decision = "dismiss" THEN "DISMISSED" ELSE "DECISION_SUBMITTED",
                  facts |-> Current.facts,
                  decision |-> [ok |-> TRUE, candidate |-> t.candidate, via |-> t.via,
                                label |-> t.entry.label, seen |-> t.entry.seen]])]
          /\ rows' = [rows EXCEPT ![t.row].taken = IF t.via = "legacy" THEN t.candidate ELSE rows[t.row].taken]
          /\ task' = [task EXCEPT ![w].pc = "build", ![w].how = "sync"]
    /\ UNCHANGED <<lines, events>>

\* acknowledge_decision: status and version of the decision, its key, ready cleared
Acknowledge(w) ==
    /\ Doing(w, "acknowledge")
    /\ LET t == task[w] IN
       \E v \in DecidedBy(DecisionKey(t.candidate)) :
         rows' = [rows EXCEPT ![t.row].version = v, ![t.row].status = hub.review[v].status,
                              ![t.row].key = DecisionKey(t.candidate), ![t.row].ready = FALSE,
                              ![t.row].taken = NoCandidate]
    /\ EndTask(w)
    /\ UNCHANGED <<hub, lines, events>>

---------------------------------------------------------------------------
(* Committed transitions that are projected                                 *)

\* a purpose, a resolution, a mapping or a remediation classifies the invoice again
Reclassified(w) ==
    /\ w = Reconciler /\ Doing(w, "free")
    /\ Pending(Current) /\ Now < MaxVersion
    /\ \E facts \in hub.invoice \ {Current.facts}, how \in {"sync", "republish"} :
         /\ hub' = [hub EXCEPT !.review = Append(@, [Current EXCEPT !.facts = facts])]
         /\ task' = [task EXCEPT ![w] = [Free EXCEPT !.pc = "build", !.how = how]]
    /\ Event
    /\ UNCHANGED <<rows, lines>>

\* only a success is projected as a result
ResultToProject(state) == IF state = "COMPLETED" THEN "execution" ELSE "sync"

\* an execution of the accepted bill ends
Executed(w) ==
    /\ w = Ticker /\ Doing(w, "free")
    /\ Current.status = "DECISION_SUBMITTED" /\ DecisionWorkflow(Current) = "VENDOR_BILL"
    /\ hub.execution # "COMPLETED"
    /\ \E state \in {"FAILED", "COMPLETED"} \ {hub.execution} :
         /\ hub' = [hub EXCEPT !.execution = state]
         /\ task' = [task EXCEPT ![w] =
               [Free EXCEPT !.pc = "build", !.how = ResultToProject(state)]]
    /\ Event
    /\ UNCHANGED <<rows, lines>>

\* A call to Odoo fails or the process dies.  The synchronizer never raises: an ingestion
\* whose projection failed still acknowledges.
ProjectionFails(w) ==
    /\ Event
    /\ \/ ~Doing(w, "free") /\ EndTask(w)
       \/ task[w].pc \in {"lookup", "create", "write", "lines", "line"}
          /\ task[w].via = "legacy" /\ Move(w, "acknowledge")
    /\ UNCHANGED <<hub, rows, lines>>

---------------------------------------------------------------------------
SyncStep(w) ==
    Build(w) \/ Lookup(w) \/ CreateRow(w) \/ WriteRow(w) \/ ReadLines(w) \/ ApplyLine(w)

IngestStep(w) == IngestAllocations(w) \/ Submit(w) \/ Acknowledge(w)

ProjectionNext ==
    \/ \E w \in Syncers :
         \/ SyncStep(w) \/ IngestStep(w)
         \/ Reconcile(w) \/ Reclassified(w) \/ Executed(w) \/ ProjectionFails(w)
         \/ \E via \in {"legacy", "request"} : IngestRead(w, via)
    \/ \E i \in DOMAIN rows, e \in Entries : Enter(i, e)

\* The reconcile command is run again and again and each run goes on to its end; nothing is
\* assumed of the other processes, which may stop anywhere.
ProjectionSpec ==
    /\ ProjectionInit /\ [][ProjectionNext]_projvars
    /\ WF_projvars(SyncStep(Reconciler)) /\ WF_projvars(Reconcile(Reconciler))

---------------------------------------------------------------------------
(* Properties                                                               *)

ProjectionTypeOK ==
    /\ Now \in 1..MaxVersion /\ hub.execution \in {"none", "FAILED", "COMPLETED"}
    /\ \A i \in DOMAIN rows :
         /\ rows[i].version \in 0..MaxVersion /\ rows[i].action \in NextActions \cup {""}
         /\ {rows[i].ready, rows[i].executed} \subseteq BOOLEAN
    /\ \A i \in DOMAIN lines : lines[i].state \in ProductLineMatchState
    /\ \A w \in Syncers : task[w].how \in {"", "sync", "publish", "republish", "execution"}
    /\ events \in 0..MaxEvents

(* Whatever writers overlap and whichever of them fail, the row never shows *)
(* a version, a status, a bill or an acknowledged decision that the Hub has *)
(* not committed, and a line row never a product the Hub did not have for   *)
(* that version: every writer projects committed state                      *)
(* (projection_sync.py _build_projection, acknowledge after commit).        *)
RowIsCommitted ==
    /\ \A i \in DOMAIN rows :
         /\ rows[i].version <= Now
         /\ rows[i].status = "" \/ \E v \in DOMAIN hub.review : hub.review[v].status = rows[i].status
         /\ rows[i].executed => hub.execution = "COMPLETED"
         /\ rows[i].key.ok => DecidedBy(rows[i].key) # {}
    /\ \A i \in DOMAIN lines : lines[i].version <= Now
         /\ lines[i].current => \E line \in Snapshot(SubSeq(hub.review, 1, lines[i].version), "none").lines.rows :
               [f \in LineFields |-> line[f]] = [f \in LineFields |-> lines[i][f]]

(* A decision taken through the workbench button is about the version its   *)
(* operator was looking at: however many reclassifications and projections  *)
(* run between the press and the commit, either the review is still the one *)
(* that was shown or the decision is refused (DecisionRequestHandler).      *)
DecisionIsOfTheVersionSeen ==
    \A v \in DOMAIN hub.review :
        (hub.review[v].decision.ok /\ hub.review[v].decision.via = "request") =>
            hub.review[v].decision.seen = v - 1

(* "The pair identifies Direct Vendor Bill exactly": a Vendor Bill decision *)
(* accepted through the button was entered as a direct bill, though the     *)
(* candidate carries no label and its allocations are read by a later call  *)
(* than the label (_require_v1_supported_workflow).                         *)
ButtonBillIsDirect ==
    \A v \in DOMAIN hub.review :
        LET d == hub.review[v].decision IN
        (d.ok /\ d.via = "request" /\ d.candidate.workflow = "VENDOR_BILL") => d.label = "direct_bill"

(* An accepted decision that calls itself complete distributes the invoice  *)
(* exactly, by amounts or by percentages, a partial one never more than the *)
(* invoice, and none names an order of another company, although label,     *)
(* totals and allocations come from two reads of a row the operator can     *)
(* still edit (BusinessContextAllocationSet, WorkbenchErpReferenceValidator).*)
(* Amounts are checked by nobody in a complete set of percentages, nor in a *)
(* partial one of an invoice whose total is not known.                      *)
AcceptedAllocationsAreSound ==
    \A v \in DOMAIN hub.review :
        LET d == hub.review[v].decision IN
        (d.ok /\ d.candidate.allocations # <<>>) =>
            /\ IF d.candidate.completeness = "complete"
               THEN \/ AmountTotal(d.candidate.allocations) = InvoiceTotal
                    \/ PercentageTotal(d.candidate.allocations) = 100
               ELSE /\ InvoiceTotal > 0 => AmountTotal(d.candidate.allocations) <= InvoiceTotal
                    /\ PercentageTotal(d.candidate.allocations) <= 100
            /\ \A n \in DOMAIN d.candidate.allocations :
                  LET order == d.candidate.allocations[n].purchaseOrder IN
                  order # 0 => Erp.purchaseOrders[order].company = Company

(* Once the Hub is quiet and calls stop failing, a row that is the only one *)
(* shows the committed review, decision and execution, whatever stale       *)
(* publications, mixed field writes and skipped synchronizations came       *)
(* before: some reconcile repairs it.                                       *)
RowConverges ==
    <>[](/\ rows # <<>>
         /\ Len(rows) = 1 => Shown(rows[1]) = Snapshot(hub.review, hub.execution).row)

(* And so do its product lines: every line of a product review has one      *)
(* current row with the product, supplier and hints of the current version, *)
(* and a line that is not projected any more has no current row and no      *)
(* hints, unless two creations gave a line two rows.                        *)
LinesConverge ==
    <>[](LET wanted == Snapshot(hub.review, hub.execution).lines IN
         (Len(rows) = 1 /\ wanted.ok /\ \A i, j \in DOMAIN lines : lines[i].key = lines[j].key => i = j) =>
            /\ {[f \in LineFields \cup {"key"} |-> lines[i][f]] : i \in {j \in DOMAIN lines : lines[j].current}} = wanted.rows
            /\ \A i \in DOMAIN lines : ~lines[i].current => lines[i].hints = {})

(* What the Hub accepts through the button is the decision the operator     *)
(* entered on what he saw, and what he sees is committed.                   *)
ButtonDecisionIsAsSeen ==
    /\ ProjectionTypeOK /\ RowIsCommitted
    /\ DecisionIsOfTheVersionSeen /\ ButtonBillIsDirect /\ AcceptedAllocationsAreSound

(* The workbench comes to show the review as it is, row and product lines.  *)
ProjectionConverges == RowConverges /\ LinesConverge

=============================================================================
