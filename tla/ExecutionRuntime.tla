------------------------------ MODULE ExecutionRuntime ------------------------------
(***************************************************************************)
(* The durable execution runtime of the Integration Hub for ONE execution  *)
(* identity: the row of workflow_executions (with its step rows) and the   *)
(* append-only workflow_execution_events, driven by concurrent requests.   *)
(*                                                                         *)
(* Code: app/application/execution/{runtime,runtime_service}.py,           *)
(* app/persistence/execution_runtime_repository.py and the transaction     *)
(* boundary of accepted_decision_use_cases.py.                             *)
(*                                                                         *)
(* Every request runs in one database transaction: the repositories only   *)
(* flush, and RunAcceptedDecisionExecutionUseCase commits once, at the     *)
(* end, or rolls back.  A worker's uncommitted row is therefore its        *)
(* snapshot `snap' and its uncommitted events are `out'; `row' and `log'   *)
(* are what every other transaction can read (READ COMMITTED).  The first  *)
(* INSERT or UPDATE takes the PostgreSQL row lock (for the INSERT: the     *)
(* pending unique-index entry) and keeps it until commit or rollback.      *)
(*                                                                         *)
(* Abstracted: step keys are the plan's sequence numbers, an event id is   *)
(* its sequence number, results and failures are success or the failing    *)
(* step.  The completed_step_keys tuple is a set: the code only tests      *)
(* membership.                                                             *)
(***************************************************************************)
EXTENDS Integers, FiniteSets, Sequences

CONSTANTS Workers,        \* concurrent request handlers, each with its own session
          Plans,          \* plan signatures a request may carry for this identity
          PlanLength,     \* number of steps of each plan
          RetryPolicies,  \* [policy_type, max_attempts] a request may carry
          NoWorker, NoRow, NoStep

ASSUME PlanAssumption == PlanLength \in [Plans -> Nat \ {0}]

ASSUME PolicyAssumption ==
    RetryPolicies \subseteq [policy_type : {"never", "immediate", "later", "exponential_backoff"},
                             max_attempts : Nat \ {0}]

ASSUME DistinctAssumption == NoWorker \notin Workers /\ NoStep \notin Nat

VARIABLES row,    \* the committed row, or NoRow
          log,    \* the committed events
          lock,   \* the worker whose open transaction has written the row
          pc,     \* where each worker is in its request
          req,    \* the plan and retry policy of each worker's request
          snap,   \* each worker's ExecutionSnapshot (its own row once it holds the lock)
          out,    \* the events each worker has flushed and not committed
          todo,   \* the pending steps the coordinator's loop has still to run
          reply   \* what each worker's last request was answered

rtvars == <<row, log, lock, pc, req, snap, out, todo, reply>>

ExecutionState == {"planned", "running", "waiting_retry", "completed", "failed"}
TerminalStates == {"completed", "failed"}
StepState == {"pending", "running", "waiting_retry", "completed", "failed"}
EventType == {"execution_created", "planning_completed", "execution_started", "step_started",
              "step_completed", "step_failed", "retry_scheduled", "execution_completed",
              "execution_failed"}
Replies == {"none", "executed", "failed", "planned", "conflict", "error"}

Steps(p) == 1 .. PlanLength[p]

\* workflow_executions with its step rows and its checkpoint, for plan p
RowsOf(p) ==
    [plan : {p}, policy : RetryPolicies, state : ExecutionState,
     step : [Steps(p) -> StepState], retries : [Steps(p) -> Nat],
     completed : SUBSET Steps(p), failed : Steps(p) \union {NoStep},
     current : Steps(p) \union {NoStep}, retry_count : Nat,
     failure : Steps(p) \union {NoStep}, last_event : Nat, version : Nat \ {0},
     next_seq : Nat \ {0}]

IsRow(r) == \E p \in Plans : r \in RowsOf(p)

ASSUME NoRowAssumption == ~ IsRow(NoRow)

-----------------------------------------------------------------------------
(* The snapshot and its transitions, as values. *)

\* Mutation: an execution waiting for a retry may not run again.
LegalTransitionWithoutRetry(current, target) ==
    \/ current = "planned" /\ target = "running"
    \/ current = "running" /\ target \in {"waiting_retry", "completed", "failed"}

LegalTransition(current, target) ==
    \/ current = "planned" /\ target = "running"
    \/ current = "running" /\ target \in {"waiting_retry", "completed", "failed"}
    \/ current = "waiting_retry" /\ target \in {"running", "failed"}

SnapshotFromPlan(p, pol) ==
    [plan |-> p, policy |-> pol, state |-> "planned",
     step |-> [s \in Steps(p) |-> "pending"], retries |-> [s \in Steps(p) |-> 0],
     completed |-> {}, failed |-> NoStep, current |-> 1, retry_count |-> 0,
     failure |-> NoStep, last_event |-> 2, version |-> 1, next_seq |-> 3]

Draft(type, state, step) == [type |-> type, state |-> state, step |-> step]

\* _assign_event_sequences: consecutive numbers from the row's counter
AssignSequences(first, drafts) ==
    {[seq |-> first + i - 1, type |-> drafts[i].type, state |-> drafts[i].state,
      step |-> drafts[i].step] : i \in DOMAIN drafts}

CreationEvents ==
    AssignSequences(1, <<Draft("execution_created", "new", NoStep),
                         Draft("planning_completed", "planned", NoStep)>>)

PendingSteps(r) == {s \in Steps(r.plan) : s \notin r.completed /\ r.step[s] # "completed"}

IsNext(s, steps) == s \in steps /\ \A t \in steps : s <= t

\* the key after a completed step, or NoStep (checkpoint.current_step_key)
NextStepKey(r, done) ==
    IF Steps(r.plan) \subseteq done THEN NoStep
    ELSE CHOOSE s \in Steps(r.plan) \ done : IsNext(s, Steps(r.plan) \ done)

ShouldRetry(pol, count) == pol.policy_type # "never" /\ count < pol.max_attempts

\* _start: RUNNING, the checkpoint untouched
Started(r) == [r EXCEPT !.state = "running"]

\* _mark_step_running: the failed_step_key of an earlier attempt is forgotten
StepRunning(r, s) ==
    [r EXCEPT !.step[s] = "running", !.current = s, !.failed = NoStep]

StepDone(r, s) ==
    [r EXCEPT !.step[s] = "completed", !.completed = @ \union {s},
              !.current = NextStepKey(r, r.completed \union {s}), !.failed = NoStep]

\* Mutation: the checkpoint does not say which step failed.
StepLostForgetsFailedKey(r, s) ==
    LET count  == r.retries[s] + 1
        target == IF ShouldRetry(r.policy, count) THEN "waiting_retry" ELSE "failed"
    IN  [r EXCEPT !.state = target, !.step[s] = target, !.retries[s] = count,
                  !.retry_count = count, !.current = s, !.failure = s]

\* _handle_failure: scheduled for a retry while the policy allows, terminal otherwise
StepLost(r, s) ==
    LET count  == r.retries[s] + 1
        target == IF ShouldRetry(r.policy, count) THEN "waiting_retry" ELSE "failed"
    IN  [r EXCEPT !.state = target, !.step[s] = target, !.retries[s] = count,
                  !.retry_count = count, !.current = s, !.failed = s, !.failure = s]

FailureDrafts(r, s) ==
    IF ShouldRetry(r.policy, r.retries[s] + 1)
    THEN <<Draft("step_failed", "running", s), Draft("retry_scheduled", "waiting_retry", s)>>
    ELSE <<Draft("step_failed", "running", s), Draft("execution_failed", "failed", s)>>

Finished(r) == [r EXCEPT !.state = "completed", !.current = NoStep]

\* _execution_status: what the caller is told of a snapshot
StatusOf(r) == CASE r.state = "completed" -> "executed"
                 [] r.state = "failed"    -> "failed"
                 [] OTHER                 -> "planned"

-----------------------------------------------------------------------------
(* One transaction. *)

\* the row version this worker's SELECT or UPDATE sees: its own write, or the committed one
VisibleVersion(w) == IF lock = w THEN snap[w].version ELSE row.version

\* Mutation: the event counter moves on by one, however many events were written.
PersistTransitionCountsOne(w, next, drafts) ==
    /\ snap' = [snap EXCEPT ![w] = [next EXCEPT !.version = @ + 1, !.next_seq = @ + 1,
                                                !.last_event = next.next_seq]]
    /\ out' = [out EXCEPT ![w] = @ \union AssignSequences(next.next_seq, drafts)]
    /\ lock' = w

\* persist_transition, past its version checks: the row with the next version, the events
\* numbered from its counter, both flushed under the row lock
PersistTransition(w, next, drafts) ==
    /\ snap' = [snap EXCEPT ![w] = [next EXCEPT !.version = @ + 1,
                                                !.next_seq = @ + Len(drafts),
                                                !.last_event = next.next_seq + Len(drafts) - 1]]
    /\ out' = [out EXCEPT ![w] = @ \union AssignSequences(next.next_seq, drafts)]
    /\ lock' = w

\* Mutation: the connection goes back to the pool with its transaction still open.
RollBackKeepsLock(w, answer) ==
    /\ pc' = [pc EXCEPT ![w] = "idle"]
    /\ snap' = [snap EXCEPT ![w] = NoRow]
    /\ out' = [out EXCEPT ![w] = {}]
    /\ todo' = [todo EXCEPT ![w] = {}]
    /\ reply' = [reply EXCEPT ![w] = answer]
    /\ UNCHANGED <<row, log, lock, req>>

\* the transaction is over, rolled back: nothing of it remains
RollBack(w, answer) ==
    /\ pc' = [pc EXCEPT ![w] = "idle"]
    /\ snap' = [snap EXCEPT ![w] = NoRow]
    /\ out' = [out EXCEPT ![w] = {}]
    /\ todo' = [todo EXCEPT ![w] = {}]
    /\ lock' = IF lock = w THEN NoWorker ELSE lock
    /\ reply' = [reply EXCEPT ![w] = answer]
    /\ UNCHANGED <<row, log, req>>

Goto(w, label) == pc' = [pc EXCEPT ![w] = label]

RuntimeInit ==
    /\ row = NoRow
    /\ log = {}
    /\ lock = NoWorker
    /\ pc = [w \in Workers |-> "idle"]
    /\ req \in [Workers -> [plan : Plans, policy : RetryPolicies]]
    /\ snap = [w \in Workers |-> NoRow]
    /\ out = [w \in Workers |-> {}]
    /\ todo = [w \in Workers |-> {}]
    /\ reply = [w \in Workers |-> "none"]

\* a caller asks for the execution: the use case has planned it and chosen the retry policy
Request(w) ==
    /\ pc[w] = "idle"
    /\ \E p \in Plans, pol \in RetryPolicies :
           req' = [req EXCEPT ![w] = [plan |-> p, policy |-> pol]]
    /\ Goto(w, "lookup")
    /\ reply' = [reply EXCEPT ![w] = "none"]
    /\ UNCHANGED <<row, log, lock, snap, out, todo>>

\* create_from_plan: no committed row under this idempotency key
LookupMiss(w) ==
    /\ pc[w] = "lookup"
    /\ row = NoRow
    /\ Goto(w, "insert")
    /\ UNCHANGED <<row, log, lock, req, snap, out, todo, reply>>

\* create_from_plan: the first lookup finds the row, or the INSERT waited for another
\* transaction, met its unique-key violation and looked the row up again
LoadExisting(w) ==
    /\ \/ pc[w] = "lookup"
       \/ pc[w] = "insert" /\ lock = NoWorker
    /\ row # NoRow
    /\ row.plan = req[w].plan
    /\ snap' = [snap EXCEPT ![w] = row]
    /\ Goto(w, "execute")
    /\ UNCHANGED <<row, log, lock, req, out, todo, reply>>

\* ... and it was created for another plan: ExecutionIdempotencyConflictError
PlanConflict(w) ==
    /\ \/ pc[w] = "lookup"
       \/ pc[w] = "insert" /\ lock = NoWorker
    /\ row # NoRow
    /\ row.plan # req[w].plan
    /\ RollBack(w, "conflict")

\* create_from_plan: the INSERT of the row, its steps and its first two events
InsertExecution(w) ==
    /\ pc[w] = "insert"
    /\ lock = NoWorker
    /\ row = NoRow
    /\ snap' = [snap EXCEPT ![w] = SnapshotFromPlan(req[w].plan, req[w].policy)]
    /\ out' = [out EXCEPT ![w] = CreationEvents]
    /\ lock' = w
    /\ Goto(w, "execute")
    /\ UNCHANGED <<row, log, req, todo, reply>>

\* execute on a terminal snapshot returns the stored result: no step runs again
ReturnStored(w) ==
    /\ pc[w] = "execute"
    /\ snap[w].state \in TerminalStates
    /\ Goto(w, "commit")
    /\ UNCHANGED <<row, log, lock, req, snap, out, todo, reply>>

\* _start: persist_transition re-reads the row and compares its version
StartRead(w) ==
    /\ pc[w] = "execute"
    /\ LegalTransition(snap[w].state, "running")
    /\ VisibleVersion(w) = snap[w].version
    /\ Goto(w, "start")
    /\ UNCHANGED <<row, log, lock, req, snap, out, todo, reply>>

\* Mutation: a read and a write without the row lock of a conditional UPDATE.
StartWithoutLock(w) ==
    /\ pc[w] = "start"
    /\ VisibleVersion(w) = snap[w].version
    /\ PersistTransition(w, Started(snap[w]), <<Draft("execution_started", "running", NoStep)>>)
    /\ todo' = [todo EXCEPT ![w] = PendingSteps(snap[w])]
    /\ Goto(w, "step")
    /\ UNCHANGED <<row, log, req, reply>>

\* ... then the UPDATE ... WHERE runtime_version = expected, once the row lock is free
Start(w) ==
    /\ pc[w] = "start"
    /\ lock \in {NoWorker, w}
    /\ VisibleVersion(w) = snap[w].version
    /\ PersistTransition(w, Started(snap[w]), <<Draft("execution_started", "running", NoStep)>>)
    /\ todo' = [todo EXCEPT ![w] = PendingSteps(snap[w])]
    /\ Goto(w, "step")
    /\ UNCHANGED <<row, log, req, reply>>

\* ExecutionConcurrencyConflictError, from the re-read or from rowcount 0
StaleSnapshot(w) ==
    /\ \/ pc[w] = "execute" /\ snap[w].state \notin TerminalStates
       \/ pc[w] = "start" /\ lock \in {NoWorker, w}
    /\ VisibleVersion(w) # snap[w].version
    /\ RollBack(w, "conflict")

\* Mutation: the transition is committed before the remote call.
MarkStepRunningCommits(w) ==
    /\ pc[w] = "step"
    /\ \E s \in todo[w] :
        /\ IsNext(s, todo[w])
        /\ PersistTransition(w, StepRunning(snap[w], s), <<Draft("step_started", "running", s)>>)
        /\ todo' = [todo EXCEPT ![w] = @ \ {s}]
    /\ row' = snap'[w]
    /\ log' = log \union out'[w]
    /\ Goto(w, "strategy")
    /\ UNCHANGED <<req, reply>>

\* the next pending step, in plan order, is marked running
MarkStepRunning(w) ==
    /\ pc[w] = "step"
    /\ \E s \in todo[w] :
        /\ IsNext(s, todo[w])
        /\ PersistTransition(w, StepRunning(snap[w], s), <<Draft("step_started", "running", s)>>)
        /\ todo' = [todo EXCEPT ![w] = @ \ {s}]
    /\ Goto(w, "strategy")
    /\ UNCHANGED <<row, log, req, reply>>

\* the step's strategy returned a result that is not a failure
MarkStepCompleted(w) ==
    /\ pc[w] = "strategy"
    /\ LET s == snap[w].current IN
        PersistTransition(w, StepDone(snap[w], s), <<Draft("step_completed", "running", s)>>)
    /\ Goto(w, IF todo[w] = {} THEN "complete" ELSE "step")
    /\ UNCHANGED <<row, log, req, todo, reply>>

\* Mutation: an immediate retry runs inside the transaction of the failed attempt.
HandleFailureRetriesInLoop(w) ==
    /\ pc[w] = "strategy"
    /\ LET s == snap[w].current IN
        PersistTransition(w, StepLost(snap[w], s), FailureDrafts(snap[w], s))
    /\ Goto(w, IF snap'[w].state = "waiting_retry" THEN "execute" ELSE "commit")
    /\ UNCHANGED <<row, log, req, todo, reply>>

\* the strategy returned FAILED or UNSUPPORTED: the loop stops here
HandleFailure(w) ==
    /\ pc[w] = "strategy"
    /\ LET s == snap[w].current IN
        PersistTransition(w, StepLost(snap[w], s), FailureDrafts(snap[w], s))
    /\ Goto(w, "commit")
    /\ UNCHANGED <<row, log, req, todo, reply>>

\* after the loop: every step completed
Complete(w) ==
    /\ pc[w] = "complete"
    /\ \A s \in Steps(snap[w].plan) : snap[w].step[s] = "completed"
    /\ PersistTransition(w, Finished(snap[w]),
                         <<Draft("execution_completed", "completed", NoStep)>>)
    /\ Goto(w, "commit")
    /\ UNCHANGED <<row, log, req, todo, reply>>

\* Mutation: the request is answered without its commit.
CommitForgotten(w) ==
    /\ pc[w] = "commit"
    /\ RollBack(w, StatusOf(snap[w]))

\* unit_of_work.commit(): the row, the steps and the events become visible together.  A
\* commit whose acknowledgement is lost is committed all the same, and answered "error".
Commit(w) ==
    /\ pc[w] = "commit"
    /\ \E answer \in {StatusOf(snap[w]), "error"} : reply' = [reply EXCEPT ![w] = answer]
    /\ row' = IF lock = w THEN snap[w] ELSE row
    /\ log' = log \union out[w]
    /\ lock' = IF lock = w THEN NoWorker ELSE lock
    /\ pc' = [pc EXCEPT ![w] = "idle"]
    /\ snap' = [snap EXCEPT ![w] = NoRow]
    /\ out' = [out EXCEPT ![w] = {}]
    /\ todo' = [todo EXCEPT ![w] = {}]
    /\ UNCHANGED req

\* the process dies, the connection drops, a query or the commit fails, a strategy raises
Abort(w) ==
    /\ pc[w] # "idle"
    /\ RollBack(w, "error")

\* what a worker does before its strategy is called, and after it returned
BeforeStrategy(w) ==
    \/ LookupMiss(w) \/ LoadExisting(w) \/ PlanConflict(w) \/ InsertExecution(w)
    \/ ReturnStored(w) \/ StartRead(w) \/ Start(w) \/ StaleSnapshot(w) \/ MarkStepRunning(w)

RuntimeNext ==
    \E w \in Workers :
        \/ Request(w) \/ BeforeStrategy(w) \/ MarkStepCompleted(w) \/ HandleFailure(w)
        \/ Complete(w) \/ Commit(w) \/ Abort(w)

RuntimeSpec == RuntimeInit /\ [][RuntimeNext]_rtvars

(* Fairness.  A request handler that can go on does go on; PostgreSQL grants a contended  *)
(* row lock in arrival order, so a waiting INSERT or UPDATE is not passed over for ever.  *)
(* Nothing makes callers send requests or transactions abort.                             *)
Progress(w) == BeforeStrategy(w) \/ MarkStepCompleted(w) \/ HandleFailure(w) \/ Complete(w) \/ Commit(w)

RuntimeFairness == \A w \in Workers : SF_rtvars(Progress(w))

RuntimeFairSpec == RuntimeSpec /\ RuntimeFairness

-----------------------------------------------------------------------------
(* Properties. *)

Answering == {"insert", "lookup", "execute", "start", "step", "strategy", "complete", "commit"}

Events == [seq : Nat \ {0}, type : EventType, state : ExecutionState \union {"new"},
           step : Nat \union {NoStep}]

\* The types of the committed state and of every worker's transaction.
TypeOK ==
    /\ row = NoRow \/ IsRow(row)
    /\ log \subseteq Events
    /\ lock \in Workers \union {NoWorker}
    /\ pc \in [Workers -> Answering \union {"idle"}]
    /\ req \in [Workers -> [plan : Plans, policy : RetryPolicies]]
    /\ snap = [w \in Workers |-> snap[w]]
    /\ \A w \in Workers : snap[w] = NoRow \/ IsRow(snap[w])
    /\ out \in [Workers -> SUBSET Events]
    /\ todo \in [Workers -> SUBSET Nat]
    /\ reply \in [Workers -> Replies]

\* The event history numbers events 1, 2, 3 ... without a gap or a duplicate, and replaying
\* it gives the row: its last event carries the row's state, a step has a STEP_COMPLETED
\* event iff the row counts it completed, and as many STEP_FAILED events as retries.
HistoryMatches(r, evs) ==
    /\ \A d, e \in evs : d.seq = e.seq => d = e
    /\ {e.seq : e \in evs} = 1 .. r.next_seq - 1
    /\ r.last_event = r.next_seq - 1
    /\ \A e \in evs : e.seq = r.last_event => e.state = r.state
    /\ \A s \in Steps(r.plan) : s \in r.completed
           <=> \E e \in evs : e.type = "step_completed" /\ e.step = s
    /\ \A s \in Steps(r.plan) :
           r.retries[s] = Cardinality({e \in evs : e.type = "step_failed" /\ e.step = s})

\* persist_transition numbers events from a counter it read before the UPDATE, and several
\* transitions of several requests interleave: the committed history still replays.
HistoryReplaysToRow ==
    IF row = NoRow THEN log = {} ELSE HistoryMatches(row, log)

\* A crash, a rollback or a lost commit acknowledgement between any two transitions never
\* leaves an execution that claims to be running: RUNNING (row or step) and PLANNED are
\* never committed, so every committed execution can be retried or is over.
NeverStuckRunning ==
    row # NoRow =>
        /\ row.state \in {"waiting_retry", "completed", "failed"}
        /\ \A s \in Steps(row.plan) : row.step[s] # "running"

\* Steps are completed in plan order, also across retries, and the checkpoint, the step
\* rows and the state tell the same story.
CheckpointConsistent ==
    row # NoRow =>
        /\ row.completed = {s \in Steps(row.plan) : row.step[s] = "completed"}
        /\ \A s \in row.completed, t \in Steps(row.plan) : t < s => t \in row.completed
        /\ row.state = "completed" <=> row.completed = Steps(row.plan)
        /\ row.state = "completed" => row.failed = NoStep /\ row.current = NoStep
        /\ row.state \in {"waiting_retry", "failed"} =>
              /\ row.failed = row.current
              /\ IsNext(row.failed, Steps(row.plan) \ row.completed)
              /\ row.step[row.failed] = row.state

\* No step is attempted more often than the stored policy allows, whatever policy later
\* requests carry; the execution fails exactly when a step's attempts are used up.
AttemptsBounded ==
    row # NoRow =>
        /\ \A s \in Steps(row.plan) :
              row.retries[s] <= row.policy.max_attempts
        /\ \A s \in Steps(row.plan) :
              ~ ShouldRetry(row.policy, row.retries[s]) /\ row.retries[s] > 0
                  <=> row.state = "failed" /\ row.failed = s

\* Two requests for the same execution are never inside a strategy (the remote ERP write)
\* at the same time: the row lock taken by the first transition is held until commit.
OneStrategyAtATime ==
    \A v, w \in Workers : pc[v] = "strategy" /\ pc[w] = "strategy" => v = w

\* What a caller was told is durable: "executed" and "failed" answers are in the database.
AnswerIsDurable ==
    \A w \in Workers :
        /\ reply[w] = "executed" => row # NoRow /\ row.state = "completed"
        /\ reply[w] = "failed" => row # NoRow /\ row.state = "failed"

\* A terminal execution never changes again, and committed events are never changed or
\* removed: every commit only appends events with higher sequence numbers.
LedgerIsAppendOnly ==
    [][/\ log \subseteq log'
       /\ \A e \in log' \ log, d \in log : d.seq < e.seq
       /\ row # NoRow /\ row.state \in TerminalStates => row' = row /\ log' = log
       /\ row # NoRow /\ row' # row => row'.version > row.version
                                      /\ row.completed \subseteq row'.completed]_rtvars

\* The runtime implements ExecutionLedger: what other sessions can read changes only by
\* whole attempts, of which the event history keeps every event.
Ledger == INSTANCE ExecutionLedger WITH
    NoPlan   <- NoRow,
    plan     <- IF row = NoRow THEN NoRow ELSE [plan |-> row.plan, policy |-> row.policy],
    phase    <- IF row = NoRow THEN "absent" ELSE row.state,
    done     <- IF row = NoRow THEN 0 ELSE Cardinality(row.completed),
    failures <- IF row = NoRow THEN <<>> ELSE row.retries

ImplementsLedger == Ledger!LedgerSpec /\ LedgerIsAppendOnly

\* Every request is answered: no worker waits for ever for a lock or in the step loop.
EveryRequestIsAnswered ==
    \A w \in Workers : pc[w] # "idle" ~> pc[w] = "idle"

\* What a crashed or failed attempt leaves is a record that a retry can continue from: well
\* typed, a checkpoint at the first step that is not completed, and attempts left if and only if
\* it waits for a retry (_handle_failure, _complete, SnapshotFromPlan).
CheckpointResumable == TypeOK /\ CheckpointConsistent /\ AttemptsBounded

=============================================================================
