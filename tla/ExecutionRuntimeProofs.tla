--------------------------- MODULE ExecutionRuntimeProofs ---------------------------
(***************************************************************************)
(* Proofs about ExecutionRuntime, for every number of workers, every set   *)
(* of plans and every set of retry policies.                               *)
(***************************************************************************)
EXTENDS ExecutionRuntime, TLAPS, NaturalsInduction, WellFoundedInduction,
        FiniteSetTheorems

(* The inductive invariant. *)

InTransaction == {"execute", "start", "step", "strategy", "complete", "commit"}

\* Who holds the row lock, and what a worker without it may have: a snapshot at most.
LockInv ==
    \A w \in Workers :
        /\ pc[w] \in InTransaction <=> snap[w] # NoRow
        /\ pc[w] \in {"step", "strategy", "complete"} => lock = w
        /\ lock = w => pc[w] \in InTransaction
        /\ lock # w => out[w] = {}

\* The state of a worker's snapshot at each point of its request.
PositionInv ==
    \A w \in Workers :
        /\ lock = w =>
              /\ pc[w] \in {"execute", "start"} => snap[w].state = "planned"
              /\ pc[w] \in {"step", "strategy", "complete"} =>
                    snap[w].state = "running" /\ todo[w] \subseteq Steps(snap[w].plan)
              /\ pc[w] = "commit" => snap[w].state \in {"waiting_retry", "completed", "failed"}
        /\ pc[w] = "start" => snap[w].state \in {"planned", "waiting_retry"}
        /\ pc[w] = "commit" /\ lock # w => snap[w].state \in TerminalStates
        /\ pc[w] = "strategy" => snap[w].current \in Steps(snap[w].plan)
        /\ snap[w] # NoRow => \A s \in Steps(snap[w].plan) :
              snap[w].step[s] = "running" => pc[w] = "strategy" /\ s = snap[w].current

\* How far a snapshot may be from the committed row: an older version of it, or the same
\* one, or, under the lock, a newer one; terminal snapshots are never out of date.
VersionInv ==
    \A w \in Workers : snap[w] # NoRow =>
        /\ lock # w =>
              /\ row # NoRow
              /\ snap[w].version <= row.version
              /\ snap[w].version = row.version => snap[w] = row
              /\ snap[w].state \in TerminalStates => snap[w] = row
        /\ lock = w /\ row # NoRow => snap[w].version > row.version

\* Only an execution that waits for a retry is ever locked again.
LockedRowInv == lock # NoWorker /\ row # NoRow => row.state = "waiting_retry"

RuntimeInv == TypeOK /\ LockInv /\ PositionInv /\ VersionInv /\ LockedRowInv
              /\ NeverStuckRunning /\ AnswerIsDurable

-----------------------------------------------------------------------------
(* Facts about the values the transitions build. *)

\* what persist_transition writes for the snapshot `next' and n events
Written(next, n) == [next EXCEPT !.version = @ + 1, !.next_seq = @ + n,
                                 !.last_event = next.next_seq + n - 1]

\* Every non-empty set of step keys has a first one.
LEMMA FirstExists ==
    ASSUME NEW S \in SUBSET Nat, S # {}
    PROVE  \E s \in S : IsNext(s, S)
<1>1. PICK s \in S : \A t \in S : <<t, s>> \notin OpToRel(<, Nat)
  BY NatLessThanWellFounded, WFMin
<1>2. ASSUME NEW t \in S PROVE s <= t
  <2>1. <<t, s>> \in Nat \X Nat /\ <<t, s>>[1] = t /\ <<t, s>>[2] = s
    OBVIOUS
  <2>2. t < s => <<t, s>> \in OpToRel(<, Nat)
    BY <2>1 DEF OpToRel
  <2>3. ~ (t < s)
    BY <1>1, <2>2
  <2>4. QED
    BY <2>3
<1>3. QED
  BY <1>2 DEF IsNext

\* _next_step_key answers a step of the plan, or None.
LEMMA NextStepKeyType ==
    ASSUME NEW p \in Plans, NEW r \in RowsOf(p), NEW D
    PROVE  NextStepKey(r, D) \in Steps(p) \union {NoStep}
<1> DEFINE Rest == Steps(r.plan) \ D
<1>1. r.plan = p
  BY DEF RowsOf
<1>2. CASE Steps(r.plan) \subseteq D
  BY <1>2 DEF NextStepKey
<1>3. CASE ~ (Steps(r.plan) \subseteq D)
  <2>1. Rest \in SUBSET Nat /\ Rest # {}
    BY <1>1, <1>3, PlanAssumption DEF Steps
  <2>2. \E s \in Rest : IsNext(s, Rest)
    BY <2>1, FirstExists
  <2>3. (CHOOSE s \in Rest : IsNext(s, Rest)) \in Rest
    BY <2>2
  <2>4. QED
    BY <1>1, <1>3, <2>3 DEF NextStepKey
<1>4. QED
  BY <1>2, <1>3

\* The transitions of the coordinator map rows of a plan to rows of that plan.
LEMMA WrittenType ==
    ASSUME NEW p \in Plans, NEW r \in RowsOf(p), NEW n \in Nat \ {0}
    PROVE  Written(r, n) \in RowsOf(p)
<1>1. /\ r.version \in Nat \ {0} /\ r.next_seq \in Nat \ {0}
      /\ r.version + 1 \in Nat \ {0} /\ r.next_seq + n \in Nat \ {0}
      /\ r.next_seq + n - 1 \in Nat
  BY DEF RowsOf
<1>2. QED
  BY <1>1 DEF Written, RowsOf

\* A snapshot that a worker may hold is a row of its plan.
LEMMA SnapshotType ==
    ASSUME NEW p \in Plans, NEW pol \in RetryPolicies
    PROVE  SnapshotFromPlan(p, pol) \in RowsOf(p)
<1>1. PlanLength[p] \in Nat \ {0} /\ 1 \in Steps(p)
  BY PlanAssumption DEF Steps
<1>2. QED
  BY <1>1 DEF SnapshotFromPlan, RowsOf, ExecutionState, StepState

\* start (coordinator) maps a row of a plan to a row of that plan.
LEMMA StartedType ==
    ASSUME NEW p \in Plans, NEW r \in RowsOf(p)
    PROVE  Started(r) \in RowsOf(p)
BY DEF Started, RowsOf, ExecutionState

\* mark_step_running maps a row of a plan to a row of that plan.
LEMMA StepRunningType ==
    ASSUME NEW p \in Plans, NEW r \in RowsOf(p), NEW s \in Steps(p)
    PROVE  StepRunning(r, s) \in RowsOf(p)
BY DEF StepRunning, RowsOf, StepState

\* mark_step_completed maps a row of a plan to a row of that plan.
LEMMA StepDoneType ==
    ASSUME NEW p \in Plans, NEW r \in RowsOf(p), NEW s \in Steps(p)
    PROVE  StepDone(r, s) \in RowsOf(p)
<1>1. NextStepKey(r, r.completed \union {s}) \in Steps(p) \union {NoStep}
  BY NextStepKeyType
<1>2. QED
  BY <1>1 DEF StepDone, RowsOf, StepState

\* The failure transition maps a row of a plan to a row of that plan.
LEMMA StepLostType ==
    ASSUME NEW p \in Plans, NEW r \in RowsOf(p), NEW s \in Steps(p)
    PROVE  StepLost(r, s) \in RowsOf(p)
<1> DEFINE count  == r.retries[s] + 1
           target == IF ShouldRetry(r.policy, count) THEN "waiting_retry" ELSE "failed"
<1>1. count \in Nat /\ target \in ExecutionState /\ target \in StepState
  BY DEF RowsOf, ExecutionState, StepState
<1> DEFINE r1 == [r EXCEPT !.state = target, !.step[s] = target]
           r2 == [r1 EXCEPT !.retries[s] = count, !.retry_count = count]
           r3 == [r2 EXCEPT !.current = s, !.failed = s, !.failure = s]
<1>2. StepLost(r, s) = r3
  BY DEF StepLost, RowsOf
<1> HIDE DEF count, target
<1>3. r1 \in RowsOf(p)
  BY <1>1 DEF RowsOf
<1> HIDE DEF r1
<1>4. r2 \in RowsOf(p)
  BY <1>1, <1>3 DEF RowsOf
<1> HIDE DEF r2
<1>5. r3 \in RowsOf(p)
  BY <1>4 DEF RowsOf
<1>6. QED
  BY <1>2, <1>5

\* complete maps a row of a plan to a row of that plan.
LEMMA FinishedType ==
    ASSUME NEW p \in Plans, NEW r \in RowsOf(p)
    PROVE  Finished(r) \in RowsOf(p)
BY DEF Finished, RowsOf, ExecutionState

\* Numbered events are well-formed whatever the counter.
EventDrafts == [type : EventType, state : ExecutionState \union {"new"}, step : Nat \union {NoStep}]

\* _assign_sequences turns the drafts of a transition into numbered events.
LEMMA AssignType ==
    ASSUME NEW first \in Nat \ {0}, NEW drafts \in Seq(EventDrafts)
    PROVE  AssignSequences(first, drafts) \subseteq Events
<1> SUFFICES ASSUME NEW e \in AssignSequences(first, drafts)
             PROVE  e \in Events
  OBVIOUS
<1>1. PICK i \in DOMAIN drafts :
          e = [seq |-> first + i - 1, type |-> drafts[i].type, state |-> drafts[i].state,
               step |-> drafts[i].step]
  BY DEF AssignSequences
<1>2. first + i - 1 \in Nat \ {0} /\ drafts[i] \in EventDrafts
  OBVIOUS
<1>3. QED
  BY <1>1, <1>2 DEF EventDrafts, Events

\* The draft row create_from_plan inserts is a row of its plan.
LEMMA DraftType ==
    ASSUME NEW type \in EventType, NEW state \in ExecutionState \union {"new"},
           NEW s \in Nat \union {NoStep}
    PROVE  Draft(type, state, s) \in EventDrafts
BY DEF Draft, EventDrafts

\* The transitions keep everything the invariant reads, but for what they are for.
LEMMA WrittenFields ==
    ASSUME NEW p \in Plans, NEW r \in RowsOf(p), NEW n \in Nat \ {0}
    PROVE  /\ Written(r, n).plan = p /\ Written(r, n).state = r.state
           /\ Written(r, n).step = r.step /\ Written(r, n).current = r.current
           /\ Written(r, n).version = r.version + 1
           /\ r.version \in Nat /\ r.plan = p
BY DEF Written, RowsOf

\* What start leaves in the fields the invariant reads.
LEMMA StartedFields ==
    ASSUME NEW p \in Plans, NEW r \in RowsOf(p)
    PROVE  /\ Started(r).state = "running" /\ Started(r).step = r.step
           /\ Started(r).version = r.version
BY DEF Started, RowsOf

\* What mark_step_running leaves in the fields the invariant reads.
LEMMA StepRunningFields ==
    ASSUME NEW p \in Plans, NEW r \in RowsOf(p), NEW s \in Steps(p)
    PROVE  /\ StepRunning(r, s).state = r.state /\ StepRunning(r, s).current = s
           /\ \A t \in Steps(p) : t # s => StepRunning(r, s).step[t] = r.step[t]
           /\ StepRunning(r, s).version = r.version
BY DEF StepRunning, RowsOf

\* What mark_step_completed leaves in the fields the invariant reads.
LEMMA StepDoneFields ==
    ASSUME NEW p \in Plans, NEW r \in RowsOf(p), NEW s \in Steps(p)
    PROVE  /\ StepDone(r, s).state = r.state
           /\ StepDone(r, s).step[s] = "completed"
           /\ \A t \in Steps(p) : t # s => StepDone(r, s).step[t] = r.step[t]
           /\ StepDone(r, s).version = r.version
BY DEF StepDone, RowsOf

\* What the failure transition leaves in the fields the invariant reads.
LEMMA StepLostFields ==
    ASSUME NEW p \in Plans, NEW r \in RowsOf(p), NEW s \in Steps(p)
    PROVE  /\ StepLost(r, s).state \in {"waiting_retry", "failed"}
           /\ StepLost(r, s).step[s] = StepLost(r, s).state
           /\ \A t \in Steps(p) : t # s => StepLost(r, s).step[t] = r.step[t]
           /\ StepLost(r, s).version = r.version
BY DEF StepLost, RowsOf

\* What complete leaves in the fields the invariant reads.
LEMMA FinishedFields ==
    ASSUME NEW p \in Plans, NEW r \in RowsOf(p)
    PROVE  /\ Finished(r).state = "completed" /\ Finished(r).step = r.step
           /\ Finished(r).version = r.version
BY DEF Finished, RowsOf

-----------------------------------------------------------------------------
(* Every step preserves the invariant. *)

\* The part of a transition that all of them share.
LEMMA PersistEffect ==
    ASSUME TypeOK, NEW w \in Workers, NEW p \in Plans, NEW next \in RowsOf(p),
           NEW drafts \in Seq(EventDrafts), Len(drafts) > 0,
           PersistTransition(w, next, drafts)
    PROVE  /\ snap' = [snap EXCEPT ![w] = Written(next, Len(drafts))]
           /\ lock' = w
           /\ out' \in [Workers -> SUBSET Events]
           /\ \A v \in Workers : v # w => out'[v] = out[v] /\ snap'[v] = snap[v]
           /\ snap'[w] = Written(next, Len(drafts))
           /\ snap' = [v \in Workers |-> snap'[v]]
           /\ Written(next, Len(drafts)) \in RowsOf(p)
<1>1. next.next_seq \in Nat \ {0} /\ Len(drafts) \in Nat \ {0}
  BY DEF RowsOf
<1>2. AssignSequences(next.next_seq, drafts) \subseteq Events
  BY <1>1, AssignType
<1>3. Written(next, Len(drafts)) \in RowsOf(p)
  BY <1>1, WrittenType
<1>4. /\ snap' = [snap EXCEPT ![w] = Written(next, Len(drafts))]
      /\ out' = [out EXCEPT ![w] = @ \union AssignSequences(next.next_seq, drafts)]
      /\ lock' = w
  BY DEF PersistTransition, Written
<1>5. QED
  BY <1>2, <1>3, <1>4 DEF TypeOK

\* The empty database and the idle workers satisfy the invariant.
LEMMA InitInv == RuntimeInit => RuntimeInv
BY DistinctAssumption DEF RuntimeInit, RuntimeInv, TypeOK, LockInv, PositionInv, VersionInv, LockedRowInv,
       NeverStuckRunning, AnswerIsDurable, InTransaction, Answering, Replies, Events

\* Steps of a worker that touch neither its transaction nor the database.
LEMMA MoveInv ==
    ASSUME RuntimeInv, NEW w \in Workers,
           Request(w) \/ LookupMiss(w) \/ ReturnStored(w) \/ StartRead(w)
    PROVE  RuntimeInv'
<1> USE DEF RuntimeInv
<1>1. CASE Request(w)
  BY <1>1 DEF Request, Goto, TypeOK, LockInv, PositionInv, VersionInv, LockedRowInv,
       NeverStuckRunning, AnswerIsDurable, InTransaction, Answering, Replies
<1>2. CASE LookupMiss(w)
  BY <1>2 DEF LookupMiss, Goto, TypeOK, LockInv, PositionInv, VersionInv, LockedRowInv,
       NeverStuckRunning, AnswerIsDurable, InTransaction, Answering, Replies
<1>3. CASE ReturnStored(w)
  BY <1>3 DEF ReturnStored, Goto, TypeOK, LockInv, PositionInv, VersionInv, LockedRowInv,
       NeverStuckRunning, AnswerIsDurable, InTransaction, Answering, Replies, TerminalStates
<1>4. CASE StartRead(w)
  BY <1>4 DEF StartRead, LegalTransition, Goto, TypeOK, LockInv, PositionInv, VersionInv, LockedRowInv,
       NeverStuckRunning, AnswerIsDurable, InTransaction, Answering, Replies
<1>5. QED
  BY <1>1, <1>2, <1>3, <1>4

\* create_from_plan finds the committed row.
LEMMA LoadInv ==
    ASSUME RuntimeInv, NEW w \in Workers, LoadExisting(w)
    PROVE  RuntimeInv'
<1> USE DEF RuntimeInv
<1>1. TypeOK'
  BY DEF LoadExisting, Goto, TypeOK, Answering
<1>2. lock # w
  BY DistinctAssumption DEF LoadExisting, LockInv, InTransaction
<1>3. LockInv'
  BY <1>2 DEF LoadExisting, Goto, TypeOK, LockInv, InTransaction
<1>4. PositionInv'
  BY <1>2 DEF LoadExisting, Goto, TypeOK, PositionInv, NeverStuckRunning
<1>5. row.version <= row.version
  BY DEF LoadExisting, TypeOK, IsRow, RowsOf
<1>6. VersionInv'
  BY <1>2, <1>5 DEF LoadExisting, Goto, TypeOK, VersionInv
<1>7. (LockedRowInv /\ NeverStuckRunning /\ AnswerIsDurable)'
  BY DEF LoadExisting, LockedRowInv, NeverStuckRunning, AnswerIsDurable
<1>8. QED
  BY <1>1, <1>3, <1>4, <1>6, <1>7

\* The creation draft events and the fields of a new row.
LEMMA InsertInv ==
    ASSUME RuntimeInv, NEW w \in Workers, InsertExecution(w)
    PROVE  RuntimeInv'
<1> USE DEF RuntimeInv
<1> DEFINE p == req[w].plan
           new == SnapshotFromPlan(req[w].plan, req[w].policy)
<1>1. p \in Plans /\ req[w].policy \in RetryPolicies
  BY DEF TypeOK
<1>2. new \in RowsOf(p) /\ IsRow(new) /\ new # NoRow
  BY <1>1, SnapshotType, NoRowAssumption DEF IsRow
<1>3. /\ new.plan = p /\ new.state = "planned" /\ new.current = 1
      /\ \A s \in Steps(p) : new.step[s] = "pending"
  BY DEF SnapshotFromPlan
<1>4. CreationEvents \subseteq Events
  <2> DEFINE d1 == Draft("execution_created", "new", NoStep)
             d2 == Draft("planning_completed", "planned", NoStep)
  <2>1. d1 \in EventDrafts /\ d2 \in EventDrafts
    BY DraftType DEF EventType, ExecutionState
  <2> HIDE DEF d1, d2
  <2> DEFINE both == <<d1, d2>>
  <2>2. both \in Seq(EventDrafts)
    BY <2>1
  <2> HIDE DEF both
  <2>3. AssignSequences(1, both) \subseteq Events
    BY <2>2, AssignType
  <2>4. QED
    BY <2>3 DEF CreationEvents, both, d1, d2
<1>5. /\ snap' = [snap EXCEPT ![w] = new] /\ out' = [out EXCEPT ![w] = CreationEvents]
      /\ lock' = w /\ pc' = [pc EXCEPT ![w] = "execute"] /\ UNCHANGED <<row, log, req, todo, reply>>
      /\ lock = NoWorker /\ row = NoRow /\ pc[w] = "insert"
  BY DEF InsertExecution, Goto
<1> HIDE DEF new, p
<1>6. TypeOK'
  BY <1>2, <1>4, <1>5 DEF TypeOK, Answering
<1>7. \A v \in Workers : snap[v] = NoRow
  BY <1>5, DistinctAssumption DEF VersionInv
<1>8. LockInv'
  BY <1>2, <1>5, <1>7, DistinctAssumption DEF TypeOK, LockInv, InTransaction
<1>9. PositionInv'
  BY <1>2, <1>3, <1>5, <1>7 DEF TypeOK, PositionInv, LockInv, InTransaction
<1>10. (VersionInv /\ LockedRowInv /\ NeverStuckRunning /\ AnswerIsDurable)'
  BY <1>2, <1>5, <1>7 DEF TypeOK, VersionInv, LockedRowInv, NeverStuckRunning, AnswerIsDurable
<1>11. QED
  BY <1>6, <1>8, <1>9, <1>10

\* A transition of a worker that holds the lock or finds it free.  `next' is what the
\* coordinator built from the snapshot, `label' where the worker goes.
LEMMA PersistInv ==
    ASSUME RuntimeInv, NEW w \in Workers, NEW p \in Plans, NEW next \in RowsOf(p),
           NEW drafts \in Seq(EventDrafts), Len(drafts) > 0, NEW label,
           PersistTransition(w, next, drafts), Goto(w, label),
           UNCHANGED <<row, log, req, reply>>,
           todo' \in [Workers -> SUBSET Nat], \A v \in Workers : v # w => todo'[v] = todo[v],
           lock \in {NoWorker, w}, pc[w] \in InTransaction, snap[w] \in RowsOf(p),
           next.version = snap[w].version,
           lock = NoWorker => row = snap[w] /\ row.state = "waiting_retry",
           label \in {"step", "strategy", "complete", "commit"},
           label \in {"step", "strategy", "complete"} =>
               next.state = "running" /\ todo'[w] \subseteq Steps(p),
           label = "commit" => next.state \in {"waiting_retry", "completed", "failed"},
           label = "strategy" => next.current \in Steps(p),
           \A s \in Steps(p) : next.step[s] = "running" =>
               label = "strategy" /\ s = next.current
    PROVE  RuntimeInv'
<1> DEFINE new == Written(next, Len(drafts))
<1>1. /\ snap' = [snap EXCEPT ![w] = new] /\ lock' = w /\ out' \in [Workers -> SUBSET Events]
      /\ \A v \in Workers : v # w => out'[v] = out[v] /\ snap'[v] = snap[v]
      /\ snap'[w] = new /\ snap' = [v \in Workers |-> snap'[v]] /\ new \in RowsOf(p)
  BY PersistEffect DEF RuntimeInv
<1>2. /\ new.plan = p /\ new.state = next.state /\ new.step = next.step
      /\ new.current = next.current /\ new.version = snap[w].version + 1
      /\ snap[w].version \in Nat
  <2>1. Len(drafts) \in Nat \ {0} /\ snap[w].version \in Nat
    BY DEF RowsOf
  <2>2. QED
    BY <2>1, WrittenFields
<1>3. IsRow(new) /\ new # NoRow /\ IsRow(snap[w]) /\ snap[w] # NoRow
  BY <1>1, NoRowAssumption DEF IsRow
<1>4. pc' = [pc EXCEPT ![w] = label]
  BY DEF Goto
<1> HIDE DEF new
<1> USE DEF RuntimeInv
<1>5. TypeOK'
  BY <1>1, <1>3, <1>4 DEF TypeOK, Answering
<1>6. LockInv'
  BY <1>1, <1>3, <1>4, DistinctAssumption DEF TypeOK, LockInv, InTransaction
<1>7. PositionInv'
  <2> SUFFICES ASSUME NEW v \in Workers PROVE PositionInv!(v)'
    BY DEF PositionInv
  <2>1. CASE v = w
    BY <2>1, <1>1, <1>2, <1>4 DEF TypeOK, PositionInv
  <2>2. CASE v # w
    BY <2>2, <1>1, <1>4, DistinctAssumption DEF TypeOK, LockInv, PositionInv
  <2>3. QED
    BY <2>1, <2>2
<1>8. VersionInv'
  <2>1. row # NoRow => row.version \in Nat
    BY DEF TypeOK, IsRow, RowsOf
  <2>2. row # NoRow => snap[w].version >= row.version
    BY <1>2, <1>3, <2>1 DEF VersionInv
  <2>3. QED
    BY <1>1, <1>2, <1>3, <2>1, <2>2, DistinctAssumption DEF TypeOK, VersionInv
<1>9. (LockedRowInv /\ NeverStuckRunning /\ AnswerIsDurable)'
  BY <1>1, DistinctAssumption DEF LockedRowInv, NeverStuckRunning, AnswerIsDurable
<1>10. QED
  BY <1>5, <1>6, <1>7, <1>8, <1>9

\* A worker in a transaction has a row of some plan.
LEMMA SnapshotOfPlan ==
    ASSUME TypeOK, LockInv, NEW w \in Workers, pc[w] \in InTransaction
    PROVE  \E p \in Plans : snap[w] \in RowsOf(p) /\ snap[w].plan = p
<1>1. snap[w] # NoRow /\ IsRow(snap[w])
  BY DEF TypeOK, LockInv
<1>2. QED
  BY <1>1 DEF IsRow, RowsOf

\* The start transition keeps the invariant.
LEMMA StartInv ==
    ASSUME RuntimeInv, NEW w \in Workers, Start(w)
    PROVE  RuntimeInv'
<1>1. PICK p \in Plans : snap[w] \in RowsOf(p) /\ snap[w].plan = p
  BY SnapshotOfPlan DEF RuntimeInv, Start, InTransaction
<1> DEFINE next == Started(snap[w])
           drafts == <<Draft("execution_started", "running", NoStep)>>
<1>2. next \in RowsOf(p)
  BY <1>1, StartedType
<1>3. drafts \in Seq(EventDrafts) /\ Len(drafts) > 0
  <2>1. Draft("execution_started", "running", NoStep) \in EventDrafts
    BY DraftType DEF EventType, ExecutionState
  <2>2. QED
    BY <2>1
<1>4. /\ PersistTransition(w, next, drafts) /\ Goto(w, "step")
      /\ UNCHANGED <<row, log, req, reply>> /\ lock \in {NoWorker, w} /\ pc[w] = "start"
      /\ todo' = [todo EXCEPT ![w] = PendingSteps(snap[w])]
      /\ lock # w => row.version = snap[w].version
  BY DEF Start, VisibleVersion
<1>5. PendingSteps(snap[w]) \subseteq Steps(p) /\ Steps(p) \subseteq Nat
  BY <1>1, PlanAssumption DEF PendingSteps, Steps
<1>6. /\ todo' \in [Workers -> SUBSET Nat] /\ todo'[w] \subseteq Steps(p)
      /\ \A v \in Workers : v # w => todo'[v] = todo[v]
  BY <1>4, <1>5 DEF RuntimeInv, TypeOK
<1>7. next.version = snap[w].version /\ next.state = "running" /\ next.step = snap[w].step
  BY <1>1, StartedFields
<1>8. \A s \in Steps(p) : next.step[s] # "running"
  BY <1>1, <1>4, <1>7, NoRowAssumption DEF RuntimeInv, PositionInv, LockInv, InTransaction
<1>9. lock = NoWorker => row = snap[w] /\ row.state = "waiting_retry"
  BY <1>4, DistinctAssumption
     DEF RuntimeInv, LockInv, InTransaction, VersionInv, PositionInv, NeverStuckRunning
<1> HIDE DEF next, drafts
<1>10. pc[w] \in InTransaction
  BY <1>4 DEF InTransaction
<1>11. QED
  BY <1>1, <1>2, <1>3, <1>4, <1>6, <1>7, <1>8, <1>9, <1>10, PersistInv

\* Marking the next step running keeps the invariant.
LEMMA MarkStepRunningInv ==
    ASSUME RuntimeInv, NEW w \in Workers, MarkStepRunning(w)
    PROVE  RuntimeInv'
<1>1. PICK p \in Plans : snap[w] \in RowsOf(p) /\ snap[w].plan = p
  BY SnapshotOfPlan DEF RuntimeInv, MarkStepRunning, InTransaction
<1>2. PICK s \in todo[w] :
          /\ PersistTransition(w, StepRunning(snap[w], s), <<Draft("step_started", "running", s)>>)
          /\ todo' = [todo EXCEPT ![w] = @ \ {s}]
  BY DEF MarkStepRunning
<1>3. /\ Goto(w, "strategy") /\ UNCHANGED <<row, log, req, reply>> /\ pc[w] = "step"
      /\ lock = w /\ snap[w].state = "running" /\ todo[w] \subseteq Steps(p)
      /\ pc[w] \in InTransaction
  BY <1>1 DEF MarkStepRunning, RuntimeInv, LockInv, PositionInv, InTransaction
<1> DEFINE next == StepRunning(snap[w], s)
           drafts == <<Draft("step_started", "running", s)>>
<1>4. next \in RowsOf(p)
  BY <1>1, <1>3, StepRunningType
<1>5. drafts \in Seq(EventDrafts) /\ Len(drafts) > 0
  <2>1. Draft("step_started", "running", s) \in EventDrafts
    BY <1>3, PlanAssumption, DraftType DEF EventType, ExecutionState, Steps
  <2>2. QED
    BY <2>1
<1>6. /\ todo' \in [Workers -> SUBSET Nat] /\ todo'[w] \subseteq Steps(p)
      /\ \A v \in Workers : v # w => todo'[v] = todo[v]
  BY <1>2, <1>3 DEF RuntimeInv, TypeOK
<1>7. /\ next.state = "running" /\ next.current = s /\ next.version = snap[w].version
      /\ \A t \in Steps(p) : t # s => next.step[t] = snap[w].step[t]
  BY <1>1, <1>3, StepRunningFields
<1>8. \A t \in Steps(p) : next.step[t] = "running" => t = next.current
  BY <1>1, <1>3, <1>7, NoRowAssumption DEF RuntimeInv, PositionInv, LockInv
<1>9. PersistTransition(w, next, drafts) /\ s \in Steps(p) /\ lock # NoWorker
  BY <1>2, <1>3, DistinctAssumption
<1> HIDE DEF next, drafts
<1>10. QED
  BY <1>1, <1>3, <1>4, <1>5, <1>6, <1>7, <1>8, <1>9, PersistInv

\* Marking the running step completed keeps the invariant.
LEMMA MarkStepCompletedInv ==
    ASSUME RuntimeInv, NEW w \in Workers, MarkStepCompleted(w)
    PROVE  RuntimeInv'
<1>1. PICK p \in Plans : snap[w] \in RowsOf(p) /\ snap[w].plan = p
  BY SnapshotOfPlan DEF RuntimeInv, MarkStepCompleted, InTransaction
<1> DEFINE s == snap[w].current
           label == IF todo[w] = {} THEN "complete" ELSE "step"
           next == StepDone(snap[w], s)
           drafts == <<Draft("step_completed", "running", s)>>
<1>2. /\ PersistTransition(w, next, drafts) /\ Goto(w, label) /\ UNCHANGED <<row, log, req, todo, reply>>
      /\ pc[w] = "strategy" /\ lock = w /\ lock # NoWorker /\ snap[w].state = "running"
      /\ todo[w] \subseteq Steps(p) /\ s \in Steps(p) /\ pc[w] \in InTransaction
  BY <1>1, DistinctAssumption
     DEF MarkStepCompleted, RuntimeInv, LockInv, PositionInv, InTransaction
<1>3. next \in RowsOf(p)
  BY <1>1, <1>2, StepDoneType
<1>4. drafts \in Seq(EventDrafts) /\ Len(drafts) > 0
  <2>1. Draft("step_completed", "running", s) \in EventDrafts
    BY <1>2, PlanAssumption, DraftType DEF EventType, ExecutionState, Steps
  <2>2. QED
    BY <2>1
<1>5. /\ next.state = "running" /\ next.version = snap[w].version
      /\ next.step[s] = "completed"
      /\ \A t \in Steps(p) : t # s => next.step[t] = snap[w].step[t]
  BY <1>1, <1>2, StepDoneFields
<1>6. \A t \in Steps(p) : next.step[t] # "running"
  BY <1>1, <1>2, <1>5, NoRowAssumption DEF RuntimeInv, PositionInv, LockInv
<1>7. todo' \in [Workers -> SUBSET Nat] /\ todo' = todo
  BY <1>2 DEF RuntimeInv, TypeOK
<1>8. label \in {"step", "complete"}
  OBVIOUS
<1> HIDE DEF next, drafts, label
<1>9. QED
  BY <1>1, <1>2, <1>3, <1>4, <1>5, <1>6, <1>7, <1>8, PersistInv

\* Recording a failed or retryable step keeps the invariant.
LEMMA HandleFailureInv ==
    ASSUME RuntimeInv, NEW w \in Workers, HandleFailure(w)
    PROVE  RuntimeInv'
<1>1. PICK p \in Plans : snap[w] \in RowsOf(p) /\ snap[w].plan = p
  BY SnapshotOfPlan DEF RuntimeInv, HandleFailure, InTransaction
<1> DEFINE s == snap[w].current
           next == StepLost(snap[w], s)
           drafts == FailureDrafts(snap[w], s)
<1>2. /\ PersistTransition(w, next, drafts) /\ Goto(w, "commit") /\ UNCHANGED <<row, log, req, todo, reply>>
      /\ pc[w] = "strategy" /\ lock = w /\ lock # NoWorker
      /\ s \in Steps(p) /\ pc[w] \in InTransaction
  BY <1>1, DistinctAssumption
     DEF HandleFailure, RuntimeInv, LockInv, PositionInv, InTransaction
<1>3. next \in RowsOf(p)
  BY <1>1, <1>2, StepLostType
<1>4. drafts \in Seq(EventDrafts) /\ Len(drafts) > 0
  <2>1. /\ Draft("step_failed", "running", s) \in EventDrafts
        /\ Draft("retry_scheduled", "waiting_retry", s) \in EventDrafts
        /\ Draft("execution_failed", "failed", s) \in EventDrafts
    BY <1>2, PlanAssumption, DraftType DEF EventType, ExecutionState, Steps
  <2>2. QED
    BY <2>1 DEF FailureDrafts
<1>5. /\ next.state \in {"waiting_retry", "failed"} /\ next.version = snap[w].version
      /\ next.step[s] = next.state
      /\ \A t \in Steps(p) : t # s => next.step[t] = snap[w].step[t]
  BY <1>1, <1>2, StepLostFields
<1>6. \A t \in Steps(p) : next.step[t] # "running"
  BY <1>1, <1>2, <1>5, NoRowAssumption DEF RuntimeInv, PositionInv, LockInv
<1>7. todo' \in [Workers -> SUBSET Nat] /\ todo' = todo
  BY <1>2 DEF RuntimeInv, TypeOK
<1> HIDE DEF next, drafts
<1>8. QED
  BY <1>1, <1>2, <1>3, <1>4, <1>5, <1>6, <1>7, PersistInv

\* Completing the execution keeps the invariant.
LEMMA CompleteInv ==
    ASSUME RuntimeInv, NEW w \in Workers, Complete(w)
    PROVE  RuntimeInv'
<1>1. PICK p \in Plans : snap[w] \in RowsOf(p) /\ snap[w].plan = p
  BY SnapshotOfPlan DEF RuntimeInv, Complete, InTransaction
<1> DEFINE next == Finished(snap[w])
           drafts == <<Draft("execution_completed", "completed", NoStep)>>
<1>2. /\ PersistTransition(w, next, drafts) /\ Goto(w, "commit") /\ UNCHANGED <<row, log, req, todo, reply>>
      /\ pc[w] = "complete" /\ lock = w /\ lock # NoWorker /\ pc[w] \in InTransaction
  BY <1>1, DistinctAssumption DEF Complete, RuntimeInv, LockInv, InTransaction
<1>3. next \in RowsOf(p)
  BY <1>1, FinishedType
<1>4. drafts \in Seq(EventDrafts) /\ Len(drafts) > 0
  <2>1. Draft("execution_completed", "completed", NoStep) \in EventDrafts
    BY DraftType DEF EventType, ExecutionState
  <2>2. QED
    BY <2>1
<1>5. next.state = "completed" /\ next.version = snap[w].version /\ next.step = snap[w].step
  BY <1>1, FinishedFields
<1>6. \A t \in Steps(p) : next.step[t] # "running"
  BY <1>1, <1>2, <1>5 DEF RuntimeInv, PositionInv, LockInv
<1>7. todo' \in [Workers -> SUBSET Nat] /\ todo' = todo
  BY <1>2 DEF RuntimeInv, TypeOK
<1> HIDE DEF next, drafts
<1>8. QED
  BY <1>1, <1>2, <1>3, <1>4, <1>5, <1>6, <1>7, PersistInv

\* The COMMIT of a transaction keeps the invariant.
LEMMA CommitInv ==
    ASSUME RuntimeInv, NEW w \in Workers, Commit(w)
    PROVE  RuntimeInv'
<1> USE DEF RuntimeInv
<1>1. snap[w] # NoRow /\ IsRow(snap[w]) /\ pc[w] = "commit" /\ w # NoWorker
  BY DistinctAssumption DEF Commit, LockInv, InTransaction, TypeOK
<1>2. StatusOf(snap[w]) \in {"executed", "failed", "planned"}
  BY DEF StatusOf
<1>3. TypeOK'
  BY <1>1, <1>2 DEF Commit, TypeOK, Replies
<1>4. LockInv'
  BY <1>1, DistinctAssumption DEF Commit, TypeOK, LockInv, InTransaction
<1>5. PositionInv'
  <2> SUFFICES ASSUME NEW v \in Workers PROVE PositionInv!(v)'
    BY DEF PositionInv
  <2>1. CASE v = w
    BY <2>1, <1>1 DEF Commit, TypeOK
  <2>2. CASE v # w
    BY <2>2, <1>1, DistinctAssumption DEF Commit, TypeOK, LockInv, PositionInv, InTransaction
  <2>3. QED
    BY <2>1, <2>2
<1>6. VersionInv'
  <2>1. \A v \in Workers : snap[v] # NoRow => snap[v].version \in Nat
    BY DEF TypeOK, IsRow, RowsOf
  <2>2. row # NoRow => row.version \in Nat
    BY DEF TypeOK, IsRow, RowsOf
  <2>3. lock = w /\ row # NoRow => row.state = "waiting_retry"
    BY <1>1 DEF LockedRowInv
  <2>4. QED
    BY <1>1, <2>1, <2>2, <2>3, DistinctAssumption DEF Commit, TypeOK, VersionInv, TerminalStates
<1>7. LockedRowInv'
  BY <1>1 DEF Commit, LockedRowInv
<1>8. NeverStuckRunning'
  <2>1. CASE lock = w
    <3>1. /\ row' = snap[w]
          /\ snap[w].state \in {"waiting_retry", "completed", "failed"}
          /\ \A s \in Steps(snap[w].plan) : snap[w].step[s] # "running"
      BY <2>1, <1>1 DEF Commit, PositionInv
    <3>2. QED
      BY <3>1 DEF NeverStuckRunning, Steps
  <2>2. CASE lock # w
    BY <2>2 DEF Commit, NeverStuckRunning
  <2>3. QED
    BY <2>1, <2>2
<1>9. AnswerIsDurable'
  <2>1. row' # NoRow /\ (StatusOf(snap[w]) \in {"executed", "failed"} => row' = snap[w])
    BY <1>1 DEF Commit, VersionInv, PositionInv
  <2>2. QED
    BY <1>1, <1>2, <2>1 DEF Commit, AnswerIsDurable, StatusOf, LockedRowInv, TypeOK
<1>10. QED
  BY <1>3, <1>4, <1>5, <1>6, <1>7, <1>8, <1>9

\* A crash or an exception that rolls the transaction back keeps the invariant.
LEMMA RollBackInv ==
    ASSUME RuntimeInv, NEW w \in Workers, NEW answer \in {"conflict", "error"},
           RollBack(w, answer)
    PROVE  RuntimeInv'
<1> USE DEF RuntimeInv
<1>1. TypeOK'
  BY DEF RollBack, TypeOK, Replies
<1>2. LockInv'
  BY DistinctAssumption DEF RollBack, TypeOK, LockInv, InTransaction
<1>3. PositionInv'
  BY DistinctAssumption DEF RollBack, TypeOK, PositionInv, LockInv
<1>4. VersionInv'
  BY DistinctAssumption DEF RollBack, TypeOK, VersionInv
<1>5. (LockedRowInv /\ NeverStuckRunning /\ AnswerIsDurable)'
  BY DEF RollBack, TypeOK, LockedRowInv, NeverStuckRunning, AnswerIsDurable
<1>6. QED
  BY <1>1, <1>2, <1>3, <1>4, <1>5

\* Every step of the runtime, or a stutter, keeps the invariant.
LEMMA NextInv == RuntimeInv /\ [RuntimeNext]_rtvars => RuntimeInv'
<1> SUFFICES ASSUME RuntimeInv, [RuntimeNext]_rtvars PROVE RuntimeInv'
  OBVIOUS
<1>1. CASE UNCHANGED rtvars
  BY <1>1 DEF rtvars, RuntimeInv, TypeOK, LockInv, PositionInv, VersionInv, LockedRowInv,
       NeverStuckRunning, AnswerIsDurable
<1>2. ASSUME NEW w \in Workers, BeforeStrategy(w) PROVE RuntimeInv'
  BY <1>2, MoveInv, LoadInv, InsertInv, StartInv, MarkStepRunningInv, RollBackInv
     DEF BeforeStrategy, PlanConflict, StaleSnapshot
<1>3. ASSUME NEW w \in Workers, Request(w) \/ Commit(w) \/ Abort(w) PROVE RuntimeInv'
  BY <1>3, MoveInv, CommitInv, RollBackInv DEF Abort
<1>4. ASSUME NEW w \in Workers, MarkStepCompleted(w) \/ HandleFailure(w) \/ Complete(w)
      PROVE  RuntimeInv'
  BY <1>4, MarkStepCompletedInv, HandleFailureInv, CompleteInv
<1>5. QED
  BY <1>1, <1>2, <1>3, <1>4 DEF RuntimeNext

-----------------------------------------------------------------------------
(* The theorems. *)

\* The inductive invariant holds in every reachable state of the runtime.
THEOREM RuntimeInvariance == RuntimeSpec => []RuntimeInv
BY InitInv, NextInv, PTL DEF RuntimeSpec

\* The committed row, every flushed row and every event keep their types.
THEOREM TypeCorrect == RuntimeSpec => []TypeOK
<1>1. RuntimeInv => TypeOK
  BY DEF RuntimeInv
<1>2. QED
  BY <1>1, RuntimeInvariance, PTL

\* However many requests race, at most one is inside the remote ERP write: the row lock of
\* the first UPDATE (or INSERT) is held until the transaction ends.
THEOREM StrategyExclusion == RuntimeSpec => []OneStrategyAtATime
<1>1. RuntimeInv => OneStrategyAtATime
  BY DEF RuntimeInv, LockInv, OneStrategyAtATime
<1>2. QED
  BY <1>1, RuntimeInvariance, PTL

\* No crash, rollback or lost acknowledgement leaves an execution committed as running.
THEOREM NoStuckExecution == RuntimeSpec => []NeverStuckRunning
<1>1. RuntimeInv => NeverStuckRunning
  BY DEF RuntimeInv
<1>2. QED
  BY <1>1, RuntimeInvariance, PTL

\* A caller that was told "executed" or "failed" was told what the database holds.
THEOREM AnswersAreDurable == RuntimeSpec => []AnswerIsDurable
<1>1. RuntimeInv => AnswerIsDurable
  BY DEF RuntimeInv
<1>2. QED
  BY <1>1, RuntimeInvariance, PTL

-----------------------------------------------------------------------------
(***************************************************************************)
(* What the runtime stores: the event history replays to the row, the      *)
(* checkpoint can be resumed, attempts stay within the stored policy, the  *)
(* history is append-only, and the runtime implements ExecutionLedger.     *)
(* The invariants below extend RuntimeInv from the committed row to the    *)
(* row that the holder of the lock is writing.                             *)
(***************************************************************************)

\* The failures that a history records for a step.
FailuresOf(evs, s) == {e \in evs : e.type = "step_failed" /\ e.step = s}

\* The row and a history that explains it.
Replays(r, evs) == IsFiniteSet(evs) /\ evs \subseteq Events /\ HistoryMatches(r, evs)

\* What is committed replays, and so does what the holder of the lock has flushed on top of it.
HistoryInv ==
    /\ IF row = NoRow THEN log = {} ELSE Replays(row, log)
    /\ \A w \in Workers : lock = w => Replays(snap[w], log \union out[w])

\* Steps are completed in plan order.
Ordered(r) ==
    /\ r.completed = {s \in Steps(r.plan) : r.step[s] = "completed"}
    /\ \A s \in r.completed, t \in Steps(r.plan) : t < s => t \in r.completed

\* No step has used up its attempts.
Affordable(r) ==
    \A s \in Steps(r.plan) : r.retries[s] > 0 => ShouldRetry(r.policy, r.retries[s])

\* CheckpointConsistent and AttemptsBounded, of any row.
Resumable(r) ==
    /\ Ordered(r)
    /\ r.state = "completed" <=> r.completed = Steps(r.plan)
    /\ r.state = "completed" => r.failed = NoStep /\ r.current = NoStep
    /\ r.state \in {"waiting_retry", "failed"} =>
          /\ r.failed = r.current
          /\ IsNext(r.failed, Steps(r.plan) \ r.completed)
          /\ r.step[r.failed] = r.state
    /\ \A s \in Steps(r.plan) :
          /\ r.retries[s] <= r.policy.max_attempts
          /\ ~ ShouldRetry(r.policy, r.retries[s]) /\ r.retries[s] > 0
                <=> r.state = "failed" /\ r.failed = s

\* The row r of an attempt whose request is at `label', with the steps `left' to run: the loop
\* of the coordinator works off the steps that are not completed, in plan order.
Advancing(r, label, left) ==
    LET rest == Steps(r.plan) \ r.completed IN
    /\ Ordered(r)
    /\ label # "commit" => Affordable(r)
    /\ label \in {"execute", "start"} => r.completed = {}
    /\ label = "step" => left = rest
    /\ label = "strategy" => left = rest \ {r.current} /\ IsNext(r.current, rest)
    /\ label = "complete" => rest = {} /\ r.failed = NoStep
    /\ label = "commit" => Resumable(r)

CheckpointInv ==
    /\ row # NoRow => Resumable(row)
    /\ \A w \in Workers : lock = w => Advancing(snap[w], pc[w], todo[w])

\* The failures that were charged before the attempt that has written r on top of base.
Charged(base, r) == IF base = NoRow THEN [s \in Steps(r.plan) |-> 0] ELSE base.retries

\* An attempt belongs to the committed execution and charges at most one failure, at its end.
Attempting(base, r, label) ==
    /\ base # NoRow => /\ r.plan = base.plan /\ r.policy = base.policy
                       /\ base.completed \subseteq r.completed
    /\ r.retries = IF label = "commit" /\ r.state # "completed"
                   THEN [Charged(base, r) EXCEPT ![r.failed] = @ + 1]
                   ELSE Charged(base, r)

AttemptInv == \A w \in Workers : lock = w => Attempting(row, snap[w], pc[w])

StoredInv == RuntimeInv /\ HistoryInv /\ CheckpointInv /\ AttemptInv

-----------------------------------------------------------------------------
(* The event history. *)

\* The row after one more event: counters, state, and what the event says of its step.
LEMMA ReplaysOne ==
    ASSUME NEW p \in Plans, NEW r \in RowsOf(p), NEW evs, Replays(r, evs),
           NEW e \in Events, e.seq = r.next_seq,
           NEW new \in RowsOf(p), new.next_seq = r.next_seq + 1, new.last_event = r.next_seq,
           new.state = e.state,
           \A s \in Steps(p) : s \in new.completed
              <=> s \in r.completed \/ (e.type = "step_completed" /\ e.step = s),
           \A s \in Steps(p) : new.retries[s] =
              IF e.type = "step_failed" /\ e.step = s THEN r.retries[s] + 1 ELSE r.retries[s]
    PROVE  Replays(new, evs \union {e})
<1> DEFINE all == evs \union {e}
<1>1. /\ r.plan = p /\ new.plan = p /\ r.next_seq \in Nat \ {0}
      /\ evs \subseteq Events /\ IsFiniteSet(evs) /\ HistoryMatches(r, evs)
  BY DEF Replays, RowsOf
<1>2. \A d \in evs : d.seq \in 1 .. r.next_seq - 1
  BY <1>1 DEF HistoryMatches
<1>3. e \notin evs
  BY <1>1, <1>2
<1>4. \A d \in evs : d.seq # e.seq
  BY <1>1, <1>2
<1>5. \A c, d \in all : c.seq = d.seq => c = d
  BY <1>1, <1>4 DEF HistoryMatches
<1>6. {d.seq : d \in all} = 1 .. new.next_seq - 1
  <2>1. {d.seq : d \in all} = {d.seq : d \in evs} \union {r.next_seq}
    OBVIOUS
  <2>2. {d.seq : d \in evs} = 1 .. r.next_seq - 1
    BY <1>1 DEF HistoryMatches
  <2>3. (1 .. r.next_seq - 1) \union {r.next_seq} = 1 .. new.next_seq - 1
    BY <1>1
  <2>4. QED
    BY <2>1, <2>2, <2>3
<1>7. \A d \in all : d.seq = new.last_event => d.state = new.state
  BY <1>4
<1>8. \A s \in Steps(p) : s \in new.completed <=> \E d \in all : d.type = "step_completed" /\ d.step = s
  BY <1>1 DEF HistoryMatches
<1>9. ASSUME NEW s \in Steps(p)
      PROVE  new.retries[s] = Cardinality({d \in all : d.type = "step_failed" /\ d.step = s})
  <2>1. r.retries[s] = Cardinality(FailuresOf(evs, s))
    BY <1>1 DEF HistoryMatches, FailuresOf
  <2>2. /\ FailuresOf(evs, s) \subseteq evs /\ IsFiniteSet(FailuresOf(evs, s))
        /\ e \notin FailuresOf(evs, s)
    BY <1>1, <1>3, FS_Subset DEF FailuresOf
  <2>3. CASE e.type = "step_failed" /\ e.step = s
    <3>1. FailuresOf(all, s) = FailuresOf(evs, s) \union {e}
      BY <2>3 DEF FailuresOf
    <3>2. Cardinality(FailuresOf(evs, s) \union {e}) = Cardinality(FailuresOf(evs, s)) + 1
      BY <2>2, FS_AddElement
    <3>3. new.retries[s] = r.retries[s] + 1
      BY <2>3
    <3>4. new.retries[s] = Cardinality(FailuresOf(all, s))
      BY <2>1, <3>1, <3>2, <3>3
    <3>5. QED
      BY <3>4 DEF FailuresOf
  <2>4. CASE ~ (e.type = "step_failed" /\ e.step = s)
    <3>1. FailuresOf(all, s) = FailuresOf(evs, s)
      BY <2>4 DEF FailuresOf
    <3>2. new.retries[s] = r.retries[s]
      BY <2>4
    <3>3. new.retries[s] = Cardinality(FailuresOf(all, s))
      BY <2>1, <3>1, <3>2
    <3>4. QED
      BY <3>3 DEF FailuresOf
  <2>5. QED
    BY <2>3, <2>4
<1>10. IsFiniteSet(all) /\ all \subseteq Events
  BY <1>1, <1>3, FS_AddElement
<1>11. new.last_event = new.next_seq - 1
  BY <1>1
<1> HIDE DEF all
<1>12. HistoryMatches(new, all)
  BY <1>1, <1>5, <1>6, <1>7, <1>8, <1>9, <1>11 DEF HistoryMatches
<1>13. QED
  BY <1>10, <1>12 DEF Replays, all

\* A transition with one event (_start, _mark_step_running, _mark_step_completed, _complete).
LEMMA AssignOne ==
    ASSUME NEW first \in Nat \ {0}, NEW d
    PROVE  AssignSequences(first, <<d>>) =
              {[seq |-> first, type |-> d.type, state |-> d.state, step |-> d.step]}
<1>1. DOMAIN <<d>> = {1} /\ <<d>>[1] = d /\ first + 1 - 1 = first
  OBVIOUS
<1>2. QED
  BY <1>1 DEF AssignSequences

\* A transition with two events (create_from_plan, _handle_failure).
LEMMA AssignTwo ==
    ASSUME NEW first \in Nat \ {0}, NEW c, NEW d
    PROVE  AssignSequences(first, <<c, d>>) =
              {[seq |-> first, type |-> c.type, state |-> c.state, step |-> c.step]} \union
              {[seq |-> first + 1, type |-> d.type, state |-> d.state, step |-> d.step]}
<1>1. /\ DOMAIN <<c, d>> = {1, 2} /\ <<c, d>>[1] = c /\ <<c, d>>[2] = d
      /\ first + 1 - 1 = first /\ first + 2 - 1 = first + 1
  OBVIOUS
<1>2. QED
  BY <1>1 DEF AssignSequences

\* The first two events replay to the row that create_from_plan inserts.
LEMMA CreationReplays ==
    ASSUME NEW p \in Plans, NEW pol \in RetryPolicies
    PROVE  Replays(SnapshotFromPlan(p, pol), CreationEvents)
<1> DEFINE r  == SnapshotFromPlan(p, pol)
           c  == Draft("execution_created", "new", NoStep)
           d  == Draft("planning_completed", "planned", NoStep)
           e1 == [seq |-> 1, type |-> "execution_created", state |-> "new", step |-> NoStep]
           e2 == [seq |-> 2, type |-> "planning_completed", state |-> "planned", step |-> NoStep]
<1>1. CreationEvents = {e1, e2}
  <2>1. /\ c.type = "execution_created" /\ c.state = "new" /\ c.step = NoStep
        /\ d.type = "planning_completed" /\ d.state = "planned" /\ d.step = NoStep
    BY DEF Draft
  <2>2. CreationEvents = AssignSequences(1, <<c, d>>)
    BY DEF CreationEvents
  <2> HIDE DEF c, d
  <2>3. AssignSequences(1, <<c, d>>) =
           {[seq |-> 1, type |-> c.type, state |-> c.state, step |-> c.step]} \union
           {[seq |-> 1 + 1, type |-> d.type, state |-> d.state, step |-> d.step]}
    BY AssignTwo
  <2>4. QED
    BY <2>1, <2>2, <2>3
<1>2. {e1, e2} \subseteq Events
  BY DEF Events, EventType, ExecutionState
<1>3. IsFiniteSet({e1, e2})
  <2>1. IsFiniteSet({e1})
    BY FS_Singleton
  <2>2. IsFiniteSet({e1} \union {e2})
    BY <2>1, FS_AddElement
  <2>3. {e1} \union {e2} = {e1, e2}
    OBVIOUS
  <2>4. QED
    BY <2>2, <2>3
<1>4. /\ r.plan = p /\ r.state = "planned" /\ r.completed = {} /\ r.last_event = 2 /\ r.next_seq = 3
      /\ r.retries = [s \in Steps(p) |-> 0]
  BY DEF SnapshotFromPlan
<1>5. {e.seq : e \in {e1, e2}} = 1 .. r.next_seq - 1
  <2>1. {e.seq : e \in {e1, e2}} = {1, 2}
    OBVIOUS
  <2>2. QED
    BY <2>1, <1>4
<1>6. \A s \in Steps(p) :
         r.retries[s] = Cardinality({e \in {e1, e2} : e.type = "step_failed" /\ e.step = s})
  <2>1. \A s \in Steps(p) : {e \in {e1, e2} : e.type = "step_failed" /\ e.step = s} = {}
    OBVIOUS
  <2>2. QED
    BY <1>4, <2>1, FS_EmptySet
<1>7. \A e \in {e1, e2} : e.seq = r.last_event => e.state = r.state
  BY <1>4
<1>8. \A s \in Steps(p) : s \in r.completed
         <=> \E e \in {e1, e2} : e.type = "step_completed" /\ e.step = s
  BY <1>4
<1>9. r.last_event = r.next_seq - 1 /\ \A x, y \in {e1, e2} : x.seq = y.seq => x = y
  BY <1>4
<1> HIDE DEF r, e1, e2
<1>10. HistoryMatches(r, {e1, e2})
  BY <1>4, <1>5, <1>6, <1>7, <1>8, <1>9 DEF HistoryMatches
<1>11. QED
  BY <1>1, <1>2, <1>3, <1>10 DEF Replays, r

\* The worker that takes or holds the row lock writes on top of a row that replays.
Based(w) ==
    \/ lock = w
    \/ lock = NoWorker /\ row # NoRow /\ snap[w] = row

\* persist_transition starts from a row and a history that agree.
LEMMA BasisReplays ==
    ASSUME RuntimeInv, HistoryInv, NEW w \in Workers, Based(w)
    PROVE  Replays(snap[w], log \union out[w])
<1>1. CASE lock = w
  BY <1>1 DEF HistoryInv
<1>2. CASE lock = NoWorker /\ row # NoRow /\ snap[w] = row
  <2>1. out[w] = {}
    BY <1>2, DistinctAssumption DEF RuntimeInv, LockInv
  <2>2. QED
    BY <1>2, <2>1 DEF HistoryInv
<1>3. QED
  BY <1>1, <1>2 DEF Based

\* A transition with one event that charges no failure keeps the history.
LEMMA OneEventHistory ==
    ASSUME RuntimeInv, HistoryInv, NEW w \in Workers, Based(w),
           NEW p \in Plans, snap[w] \in RowsOf(p), NEW next \in RowsOf(p),
           NEW type \in EventType \ {"step_failed"}, NEW state \in ExecutionState,
           NEW s \in Nat \union {NoStep},
           PersistTransition(w, next, <<Draft(type, state, s)>>), UNCHANGED <<row, log>>,
           next.next_seq = snap[w].next_seq, next.state = state, next.retries = snap[w].retries,
           \A t \in Steps(p) : t \in next.completed
              <=> t \in snap[w].completed \/ (type = "step_completed" /\ s = t)
    PROVE  HistoryInv'
<1> DEFINE r    == snap[w]
           d    == Draft(type, state, s)
           e    == [seq |-> r.next_seq, type |-> type, state |-> state, step |-> s]
           new  == Written(next, 1)
           evs  == log \union out[w]
<1>1. d \in EventDrafts /\ <<d>> \in Seq(EventDrafts) /\ Len(<<d>>) = 1
  <2>1. d \in EventDrafts
    BY DraftType
  <2> HIDE DEF d
  <2>2. QED
    BY <2>1
<1>2. snap'[w] = new /\ lock' = w /\ new \in RowsOf(p)
  <2>1. snap' = [snap EXCEPT ![w] = new] /\ lock' = w
    BY <1>1 DEF PersistTransition, Written
  <2>2. snap = [v \in Workers |-> snap[v]]
    BY DEF RuntimeInv, TypeOK
  <2>3. new \in RowsOf(p)
    BY WrittenType
  <2> HIDE DEF new
  <2>4. QED
    BY <2>1, <2>2, <2>3
<1>3. out'[w] = out[w] \union {e}
  <2>1. r.next_seq \in Nat \ {0}
    BY DEF RowsOf
  <2>2. d.type = type /\ d.state = state /\ d.step = s
    BY DEF Draft
  <2>3. out' = [out EXCEPT ![w] = @ \union AssignSequences(r.next_seq, <<d>>)]
    BY DEF PersistTransition
  <2>4. AssignSequences(r.next_seq, <<d>>) =
           {[seq |-> r.next_seq, type |-> d.type, state |-> d.state, step |-> d.step]}
    <3> HIDE DEF d
    <3>1. QED
      BY <2>1, AssignOne
  <2>5. w \in DOMAIN out
    BY DEF RuntimeInv, TypeOK
  <2>6. QED
    BY <2>2, <2>3, <2>4, <2>5
<1>4. Replays(r, evs) /\ r \in RowsOf(p)
  BY BasisReplays
<1>5. /\ new.next_seq = r.next_seq + 1 /\ new.last_event = r.next_seq /\ new.state = state
      /\ new.retries = r.retries /\ new.completed = next.completed
  BY DEF Written, RowsOf
<1>6. e \in Events /\ e.seq = r.next_seq /\ e.type = type /\ e.state = state /\ e.step = s
  BY DEF Events, RowsOf
<1>7. Replays(new, evs \union {e})
  <2> HIDE DEF r, e, new, evs
  <2>1. /\ \A t \in Steps(p) : t \in new.completed <=> t \in r.completed \/ (e.type = "step_completed" /\ e.step = t)
        /\ \A t \in Steps(p) : new.retries[t] =
              IF e.type = "step_failed" /\ e.step = t THEN r.retries[t] + 1 ELSE r.retries[t]
    BY <1>5, <1>6 DEF r
  <2>2. QED
    BY <1>2, <1>4, <1>5, <1>6, <2>1, ReplaysOne
<1>8. log' \union out'[w] = evs \union {e}
  BY <1>3
<1>9. row' # NoRow => Replays(row', log')
  <2>1. row # NoRow => Replays(row, log)
    BY DEF HistoryInv
  <2>2. QED
    BY <2>1
<1>10. row' = NoRow => log' = {}
  BY DEF HistoryInv
<1>11. ASSUME NEW v \in Workers, lock' = v PROVE Replays(snap'[v], log' \union out'[v])
  <2>1. v = w
    BY <1>2, <1>11
  <2> HIDE DEF new, evs, e
  <2>2. Replays(snap'[w], log' \union out'[w])
    BY <1>2, <1>7, <1>8
  <2>3. QED
    BY <2>1, <2>2
<1>12. QED
  BY <1>9, <1>10, <1>11 DEF HistoryInv

\* _handle_failure writes two events: the step failed, and what becomes of the execution.
LEMMA HandleFailureHistory ==
    ASSUME RuntimeInv, HistoryInv, NEW w \in Workers, HandleFailure(w)
    PROVE  HistoryInv'
<1>1. PICK p \in Plans : snap[w] \in RowsOf(p) /\ snap[w].plan = p
  BY SnapshotOfPlan DEF RuntimeInv, HandleFailure, InTransaction
<1> DEFINE r    == snap[w]
           s    == r.current
           next == StepLost(r, s)
           kind == IF next.state = "waiting_retry" THEN "retry_scheduled" ELSE "execution_failed"
           c    == Draft("step_failed", "running", s)
           d    == Draft(kind, next.state, s)
           e1   == [seq |-> r.next_seq, type |-> "step_failed", state |-> "running", step |-> s]
           e2   == [seq |-> r.next_seq + 1, type |-> kind, state |-> next.state, step |-> s]
           mid  == [r EXCEPT !.state = "running", !.retries = next.retries,
                             !.next_seq = @ + 1, !.last_event = r.next_seq]
           new  == Written(next, 2)
           evs  == log \union out[w]
<1>2. /\ s \in Steps(p) /\ s \in Nat /\ lock = w /\ PersistTransition(w, next, FailureDrafts(r, s))
      /\ UNCHANGED <<row, log>> /\ r.next_seq \in Nat \ {0} /\ r.retries \in [Steps(p) -> Nat]
  BY <1>1, PlanAssumption
     DEF HandleFailure, RuntimeInv, LockInv, PositionInv, InTransaction, Steps, RowsOf
<1>3. next \in RowsOf(p)
  BY <1>1, <1>2, StepLostType
<1>4. /\ next.state = IF ShouldRetry(r.policy, r.retries[s] + 1) THEN "waiting_retry" ELSE "failed"
      /\ next.retries = [r.retries EXCEPT ![s] = @ + 1]
      /\ next.next_seq = r.next_seq /\ next.completed = r.completed
      /\ next.last_event = r.last_event
  BY <1>1, <1>2 DEF StepLost, RowsOf
<1>5. FailureDrafts(r, s) = <<c, d>>
  BY <1>4 DEF FailureDrafts
<1>6. /\ c.type = "step_failed" /\ c.state = "running" /\ c.step = s
      /\ d.type = kind /\ d.state = next.state /\ d.step = s
  BY DEF Draft
<1>7. snap'[w] = new /\ lock' = w /\ new \in RowsOf(p)
  <2>1. Len(FailureDrafts(r, s)) = 2
    BY <1>5
  <2>2. snap' = [snap EXCEPT ![w] = new] /\ lock' = w
    BY <1>2, <2>1 DEF PersistTransition, Written
  <2>3. snap = [v \in Workers |-> snap[v]]
    BY DEF RuntimeInv, TypeOK
  <2>4. new \in RowsOf(p)
    BY <1>3, WrittenType
  <2> HIDE DEF new
  <2>5. QED
    BY <2>2, <2>3, <2>4
<1>8. out'[w] = out[w] \union {e1} \union {e2}
  <2>1. out' = [out EXCEPT ![w] = @ \union AssignSequences(r.next_seq, <<c, d>>)]
    BY <1>2, <1>4, <1>5 DEF PersistTransition
  <2>2. AssignSequences(r.next_seq, <<c, d>>) =
           {[seq |-> r.next_seq, type |-> c.type, state |-> c.state, step |-> c.step]} \union
           {[seq |-> r.next_seq + 1, type |-> d.type, state |-> d.state, step |-> d.step]}
    <3> HIDE DEF c, d
    <3>1. QED
      BY <1>2, AssignTwo
  <2>3. AssignSequences(r.next_seq, <<c, d>>) = {e1} \union {e2}
    BY <1>6, <2>2
  <2>4. w \in DOMAIN out
    BY DEF RuntimeInv, TypeOK
  <2> HIDE DEF e1, e2, c, d
  <2>5. QED
    BY <2>1, <2>3, <2>4
<1>9. Replays(r, evs) /\ r \in RowsOf(p)
  <2>1. lock = w
    BY <1>2
  <2>2. Replays(snap[w], log \union out[w])
    BY <2>1 DEF HistoryInv
  <2>3. QED
    BY <1>1, <2>2
<1>10. /\ e1 \in Events /\ e1.seq = r.next_seq /\ e1.type = "step_failed" /\ e1.state = "running"
       /\ e1.step = s
  BY <1>2 DEF Events, EventType, ExecutionState
<1>11. /\ e2 \in Events /\ e2.seq = r.next_seq + 1 /\ e2.state = next.state
       /\ e2.type \notin {"step_failed", "step_completed"}
  <2>1. kind \in EventType /\ kind \notin {"step_failed", "step_completed"}
    BY DEF EventType
  <2>2. next.state \in ExecutionState
    BY <1>3 DEF RowsOf
  <2> HIDE DEF kind, next
  <2>3. QED
    BY <1>2, <2>1, <2>2 DEF Events
<1>12. /\ mid \in RowsOf(p) /\ mid.next_seq = r.next_seq + 1 /\ mid.last_event = r.next_seq
       /\ mid.state = "running" /\ mid.completed = r.completed /\ mid.retries = next.retries
  <2>1. next.retries \in [Steps(p) -> Nat]
    BY <1>3 DEF RowsOf
  <2> HIDE DEF next
  <2>2. r.next_seq + 1 \in Nat \ {0} /\ r.next_seq \in Nat /\ "running" \in ExecutionState
    BY <1>2 DEF ExecutionState
  <2> DEFINE m1 == [r EXCEPT !.state = "running", !.retries = next.retries]
  <2>3. /\ m1 \in RowsOf(p) /\ m1.state = "running" /\ m1.completed = r.completed
        /\ m1.retries = next.retries /\ m1.next_seq = r.next_seq
    BY <1>1, <2>1, <2>2 DEF RowsOf
  <2>4. mid = [m1 EXCEPT !.next_seq = r.next_seq + 1, !.last_event = r.next_seq]
    BY <1>1 DEF RowsOf
  <2> HIDE DEF m1, mid
  <2>5. QED
    BY <2>2, <2>3, <2>4 DEF RowsOf
<1>13. /\ new.next_seq = mid.next_seq + 1 /\ new.last_event = mid.next_seq /\ new.state = next.state
       /\ new.completed = mid.completed /\ new.retries = mid.retries
  <2>1. /\ new.next_seq = next.next_seq + 2 /\ new.last_event = next.next_seq + 2 - 1
        /\ new.state = next.state /\ new.completed = next.completed /\ new.retries = next.retries
    BY <1>3 DEF Written, RowsOf
  <2> HIDE DEF new, mid, next
  <2>2. QED
    BY <1>2, <1>4, <1>12, <2>1
<1> HIDE DEF next, mid, new, evs, e1, e2, kind, c, d
<1>14. Replays(mid, evs \union {e1})
  <2>1. /\ \A t \in Steps(p) : t \in mid.completed
              <=> t \in r.completed \/ (e1.type = "step_completed" /\ e1.step = t)
        /\ \A t \in Steps(p) : mid.retries[t] =
              IF e1.type = "step_failed" /\ e1.step = t THEN r.retries[t] + 1 ELSE r.retries[t]
    BY <1>2, <1>4, <1>10, <1>12
  <2> HIDE DEF r, s
  <2>2. QED
    BY <1>9, <1>10, <1>12, <2>1, ReplaysOne
<1>15. Replays(new, evs \union {e1} \union {e2})
  <2>1. /\ \A t \in Steps(p) : t \in new.completed
              <=> t \in mid.completed \/ (e2.type = "step_completed" /\ e2.step = t)
        /\ \A t \in Steps(p) : new.retries[t] =
              IF e2.type = "step_failed" /\ e2.step = t THEN mid.retries[t] + 1 ELSE mid.retries[t]
    BY <1>11, <1>13
  <2>2. e2.seq = mid.next_seq /\ new.state = e2.state
    BY <1>11, <1>12, <1>13
  <2>3. QED
    BY <1>7, <1>11, <1>12, <1>13, <1>14, <2>1, <2>2, ReplaysOne
<1>16. ASSUME NEW v \in Workers, lock' = v PROVE Replays(snap'[v], log' \union out'[v])
  <2>1. v = w
    BY <1>7, <1>16
  <2>2. log' \union out'[w] = evs \union {e1} \union {e2}
    BY <1>2, <1>8 DEF evs
  <2>3. QED
    BY <1>7, <1>15, <2>1, <2>2
<1>17. (row' = NoRow => log' = {}) /\ (row' # NoRow => Replays(row', log'))
  <2>1. (row = NoRow => log = {}) /\ (row # NoRow => Replays(row, log))
    BY DEF HistoryInv
  <2>2. QED
    BY <1>2, <2>1
<1>18. QED
  BY <1>16, <1>17 DEF HistoryInv

\* What the transitions of the coordinator change of a checkpoint and its counters.
LEMMA StartedCheckpoint ==
    ASSUME NEW p \in Plans, NEW r \in RowsOf(p)
    PROVE  LET x == Started(r) IN
           /\ x.plan = p /\ x.policy = r.policy /\ x.next_seq = r.next_seq /\ x.retries = r.retries
           /\ x.completed = r.completed /\ x.failed = r.failed /\ x.current = r.current
BY DEF Started, RowsOf

\* Marking a step running keeps plan, policy, counters and the completed steps, and clears failed_step_key.
LEMMA StepRunningCheckpoint ==
    ASSUME NEW p \in Plans, NEW r \in RowsOf(p), NEW s \in Steps(p)
    PROVE  LET x == StepRunning(r, s) IN
           /\ x.plan = p /\ x.policy = r.policy /\ x.next_seq = r.next_seq /\ x.retries = r.retries
           /\ x.completed = r.completed /\ x.failed = NoStep /\ x.step[s] = "running"
BY DEF StepRunning, RowsOf

\* Completing a step records it in completed_step_keys and keeps the retry counters.
LEMMA StepDoneCheckpoint ==
    ASSUME NEW p \in Plans, NEW r \in RowsOf(p), NEW s \in Steps(p)
    PROVE  LET x == StepDone(r, s) IN
           /\ x.plan = p /\ x.policy = r.policy /\ x.next_seq = r.next_seq /\ x.retries = r.retries
           /\ x.completed = r.completed \union {s} /\ x.failed = NoStep
BY DEF StepDone, RowsOf

\* A failed step is both the failed and the current one, costs one retry, and ends the attempt waiting or failed.
LEMMA StepLostCheckpoint ==
    ASSUME NEW p \in Plans, NEW r \in RowsOf(p), NEW s \in Steps(p)
    PROVE  LET x == StepLost(r, s) IN
           /\ x.plan = p /\ x.policy = r.policy /\ x.completed = r.completed
           /\ x.failed = s /\ x.current = s
           /\ x.retries = [r.retries EXCEPT ![s] = @ + 1]
           /\ x.state = IF ShouldRetry(r.policy, r.retries[s] + 1) THEN "waiting_retry" ELSE "failed"
BY DEF StepLost, RowsOf

\* Completing the execution clears current_step_key and keeps the rest of the checkpoint.
LEMMA FinishedCheckpoint ==
    ASSUME NEW p \in Plans, NEW r \in RowsOf(p)
    PROVE  LET x == Finished(r) IN
           /\ x.plan = p /\ x.policy = r.policy /\ x.next_seq = r.next_seq /\ x.retries = r.retries
           /\ x.completed = r.completed /\ x.failed = r.failed /\ x.current = NoStep
BY DEF Finished, RowsOf

\* persist_transition changes the version and the event counter of what it is given, nothing else.
LEMMA WrittenCheckpoint ==
    ASSUME NEW p \in Plans, NEW r \in RowsOf(p), NEW n \in Nat \ {0}
    PROVE  LET x == Written(r, n) IN
           /\ x.plan = p /\ x.policy = r.policy /\ x.completed = r.completed /\ x.step = r.step
           /\ x.failed = r.failed /\ x.current = r.current /\ x.retries = r.retries
           /\ x.state = r.state
BY DEF Written, RowsOf

\* The snapshot that _start writes is the committed row, or the row that the worker inserted.
LEMMA StartIsBased ==
    ASSUME RuntimeInv, NEW w \in Workers, Start(w)
    PROVE  /\ Based(w)
           /\ lock # w => row = snap[w] /\ row # NoRow /\ lock = NoWorker /\ row.state = "waiting_retry"
<1>1. /\ lock \in {NoWorker, w} /\ pc[w] = "start"
      /\ lock # w => row.version = snap[w].version
  BY DEF Start, VisibleVersion
<1>2. snap[w] # NoRow
  BY <1>1 DEF RuntimeInv, LockInv, InTransaction
<1>3. lock # w => row # NoRow /\ (snap[w].version = row.version => snap[w] = row)
  BY <1>2 DEF RuntimeInv, VersionInv
<1>4. lock # w => row = snap[w] /\ row # NoRow /\ lock = NoWorker
  BY <1>1, <1>3
<1>5. lock # w => row.state = "waiting_retry"
  BY <1>1, <1>4 DEF RuntimeInv, PositionInv, NeverStuckRunning
<1>6. QED
  BY <1>4, <1>5 DEF Based

\* The event of _start keeps the history replaying to the snapshot of the running attempt.
LEMMA StartHistory ==
    ASSUME RuntimeInv, HistoryInv, NEW w \in Workers, Start(w)
    PROVE  HistoryInv'
<1>1. PICK p \in Plans : snap[w] \in RowsOf(p) /\ snap[w].plan = p
  BY SnapshotOfPlan DEF RuntimeInv, Start, InTransaction
<1> DEFINE next == Started(snap[w])
<1>2. next \in RowsOf(p) /\ next.state = "running"
  BY <1>1, StartedType, StartedFields
<1>3. /\ next.next_seq = snap[w].next_seq /\ next.retries = snap[w].retries
      /\ next.completed = snap[w].completed
  BY <1>1, StartedCheckpoint
<1>4. PersistTransition(w, next, <<Draft("execution_started", "running", NoStep)>>) /\ UNCHANGED <<row, log>>
  BY DEF Start
<1>5. Based(w)
  BY StartIsBased
<1>6. "execution_started" \in EventType \ {"step_failed"} /\ "running" \in ExecutionState
  BY DEF EventType, ExecutionState
<1>7. \A t \in Steps(p) : t \in next.completed
         <=> t \in snap[w].completed \/ ("execution_started" = "step_completed" /\ NoStep = t)
  BY <1>3
<1> HIDE DEF next
<1>8. QED
  BY <1>1, <1>2, <1>3, <1>4, <1>5, <1>6, <1>7, OneEventHistory

\* The event of _mark_step_running keeps the history replaying to the snapshot.
LEMMA MarkStepRunningHistory ==
    ASSUME RuntimeInv, HistoryInv, NEW w \in Workers, MarkStepRunning(w)
    PROVE  HistoryInv'
<1>1. PICK p \in Plans : snap[w] \in RowsOf(p) /\ snap[w].plan = p
  BY SnapshotOfPlan DEF RuntimeInv, MarkStepRunning, InTransaction
<1>2. PICK s \in todo[w] :
          PersistTransition(w, StepRunning(snap[w], s), <<Draft("step_started", "running", s)>>)
  BY DEF MarkStepRunning
<1>3. /\ pc[w] = "step" /\ lock = w /\ snap[w].state = "running" /\ todo[w] \subseteq Steps(p)
      /\ UNCHANGED <<row, log>>
  BY <1>1 DEF MarkStepRunning, RuntimeInv, LockInv, PositionInv, InTransaction
<1>4. s \in Steps(p) /\ s \in Nat /\ Based(w)
  BY <1>3, PlanAssumption DEF Steps, Based
<1> DEFINE next == StepRunning(snap[w], s)
<1>5. next \in RowsOf(p) /\ next.state = "running"
  BY <1>1, <1>3, <1>4, StepRunningType, StepRunningFields
<1>6. /\ next.next_seq = snap[w].next_seq /\ next.retries = snap[w].retries
      /\ next.completed = snap[w].completed
  BY <1>1, <1>4, StepRunningCheckpoint
<1>7. "step_started" \in EventType \ {"step_failed"} /\ "running" \in ExecutionState
  BY DEF EventType, ExecutionState
<1>8. \A t \in Steps(p) : t \in next.completed
         <=> t \in snap[w].completed \/ ("step_started" = "step_completed" /\ s = t)
  BY <1>6
<1>9. PersistTransition(w, next, <<Draft("step_started", "running", s)>>)
  BY <1>2
<1> HIDE DEF next
<1>10. QED
  BY <1>1, <1>3, <1>4, <1>5, <1>6, <1>7, <1>8, <1>9, OneEventHistory

\* The event of _mark_step_completed keeps the history replaying to the snapshot.
LEMMA MarkStepCompletedHistory ==
    ASSUME RuntimeInv, HistoryInv, NEW w \in Workers, MarkStepCompleted(w)
    PROVE  HistoryInv'
<1>1. PICK p \in Plans : snap[w] \in RowsOf(p) /\ snap[w].plan = p
  BY SnapshotOfPlan DEF RuntimeInv, MarkStepCompleted, InTransaction
<1> DEFINE s == snap[w].current
           next == StepDone(snap[w], s)
<1>2. /\ PersistTransition(w, next, <<Draft("step_completed", "running", s)>>) /\ UNCHANGED <<row, log>>
      /\ lock = w /\ snap[w].state = "running" /\ s \in Steps(p)
  BY <1>1 DEF MarkStepCompleted, RuntimeInv, LockInv, PositionInv
<1>3. s \in Nat /\ Based(w)
  BY <1>2, PlanAssumption DEF Steps, Based
<1>4. next \in RowsOf(p) /\ next.state = "running"
  BY <1>1, <1>2, StepDoneType, StepDoneFields
<1>5. /\ next.next_seq = snap[w].next_seq /\ next.retries = snap[w].retries
      /\ next.completed = snap[w].completed \union {s}
  BY <1>1, <1>2, StepDoneCheckpoint
<1>6. "step_completed" \in EventType \ {"step_failed"} /\ "running" \in ExecutionState
  BY DEF EventType, ExecutionState
<1> HIDE DEF next, s
<1>7. \A t \in Steps(p) : t \in next.completed
         <=> t \in snap[w].completed \/ ("step_completed" = "step_completed" /\ s = t)
  BY <1>5
<1>8. QED
  BY <1>1, <1>2, <1>3, <1>4, <1>5, <1>6, <1>7, OneEventHistory

\* The event of _complete keeps the history replaying to the snapshot.
LEMMA CompleteHistory ==
    ASSUME RuntimeInv, HistoryInv, NEW w \in Workers, Complete(w)
    PROVE  HistoryInv'
<1>1. PICK p \in Plans : snap[w] \in RowsOf(p) /\ snap[w].plan = p
  BY SnapshotOfPlan DEF RuntimeInv, Complete, InTransaction
<1> DEFINE next == Finished(snap[w])
<1>2. /\ PersistTransition(w, next, <<Draft("execution_completed", "completed", NoStep)>>)
      /\ UNCHANGED <<row, log>> /\ Based(w)
  BY DEF Complete, RuntimeInv, LockInv, Based
<1>3. next \in RowsOf(p) /\ next.state = "completed"
  BY <1>1, FinishedType, FinishedFields
<1>4. /\ next.next_seq = snap[w].next_seq /\ next.retries = snap[w].retries
      /\ next.completed = snap[w].completed
  BY <1>1, FinishedCheckpoint
<1>5. "execution_completed" \in EventType \ {"step_failed"} /\ "completed" \in ExecutionState
  BY DEF EventType, ExecutionState
<1>6. \A t \in Steps(p) : t \in next.completed
         <=> t \in snap[w].completed \/ ("execution_completed" = "step_completed" /\ NoStep = t)
  BY <1>4
<1> HIDE DEF next
<1>7. QED
  BY <1>1, <1>2, <1>3, <1>4, <1>5, <1>6, OneEventHistory

\* The creation events of a new execution replay to its first snapshot.
LEMMA InsertHistory ==
    ASSUME RuntimeInv, HistoryInv, NEW w \in Workers, InsertExecution(w)
    PROVE  HistoryInv'
<1> DEFINE r == SnapshotFromPlan(req[w].plan, req[w].policy)
<1>1. req[w].plan \in Plans /\ req[w].policy \in RetryPolicies
  BY DEF RuntimeInv, TypeOK
<1>2. Replays(r, CreationEvents)
  BY <1>1, CreationReplays
<1>3. /\ row = NoRow /\ log = {} /\ UNCHANGED <<row, log>> /\ lock' = w
      /\ snap' = [snap EXCEPT ![w] = r] /\ out' = [out EXCEPT ![w] = CreationEvents]
  BY DEF InsertExecution, HistoryInv
<1>4. w \in DOMAIN out /\ snap = [v \in Workers |-> snap[v]]
  BY DEF RuntimeInv, TypeOK
<1> HIDE DEF r
<1>5. snap'[w] = r /\ out'[w] = CreationEvents
  BY <1>3, <1>4
<1>6. ASSUME NEW v \in Workers, lock' = v PROVE Replays(snap'[v], log' \union out'[v])
  <2>1. v = w /\ log' \union out'[w] = CreationEvents
    BY <1>3, <1>5, <1>6
  <2>2. QED
    BY <1>2, <1>5, <2>1
<1>7. QED
  BY <1>3, <1>6 DEF HistoryInv

\* What a worker without the row lock does is invisible to the history.
Elsewhere(w) ==
    /\ UNCHANGED <<row, log, lock>>
    /\ \A v \in Workers : lock = v => snap'[v] = snap[v] /\ out'[v] = out[v]

\* A step that touches no transaction's snapshot, events or log keeps every history.
LEMMA ElsewhereHistory ==
    ASSUME HistoryInv, NEW w \in Workers, Elsewhere(w)
    PROVE  HistoryInv'
<1>1. ASSUME NEW v \in Workers, lock' = v PROVE Replays(snap'[v], log' \union out'[v])
  <2>1. lock = v /\ snap'[v] = snap[v] /\ out'[v] = out[v] /\ log' = log
    BY <1>1 DEF Elsewhere
  <2>2. Replays(snap[v], log \union out[v])
    BY <2>1 DEF HistoryInv
  <2>3. QED
    BY <2>1, <2>2
<1>2. /\ row' = NoRow => log' = {}
      /\ row' # NoRow => Replays(row', log')
  <2>1. row' = row /\ log' = log
    BY DEF Elsewhere
  <2>2. (row = NoRow => log = {}) /\ (row # NoRow => Replays(row, log))
    BY DEF HistoryInv
  <2>3. QED
    BY <2>1, <2>2
<1>3. QED
  BY <1>1, <1>2 DEF HistoryInv

\* The moves of a request, the load of a committed row and the ends of a failed transaction.
LEMMA MoveElsewhere ==
    ASSUME RuntimeInv, NEW w \in Workers,
           \/ Request(w) \/ LookupMiss(w) \/ ReturnStored(w) \/ StartRead(w) \/ LoadExisting(w)
    PROVE  Elsewhere(w)
<1>1. CASE Request(w) \/ LookupMiss(w) \/ ReturnStored(w) \/ StartRead(w)
  BY <1>1 DEF Request, LookupMiss, ReturnStored, StartRead, Elsewhere
<1>2. CASE LoadExisting(w)
  <2>1. lock # w
    BY <1>2, DistinctAssumption DEF LoadExisting, RuntimeInv, LockInv, InTransaction
  <2>2. QED
    BY <1>2, <2>1 DEF LoadExisting, Elsewhere, RuntimeInv, TypeOK
<1>3. QED
  BY <1>1, <1>2

\* Nothing of a transaction remains after its ROLLBACK.
LEMMA RollBackHistory ==
    ASSUME RuntimeInv, HistoryInv, NEW w \in Workers, NEW answer, RollBack(w, answer)
    PROVE  HistoryInv'
<1>1. CASE lock = w
  <2>1. UNCHANGED <<row, log>> /\ \A v \in Workers : lock' # v
    BY <1>1, DistinctAssumption DEF RollBack
  <2>2. (row = NoRow => log = {}) /\ (row # NoRow => Replays(row, log))
    BY DEF HistoryInv
  <2>3. (row' = NoRow => log' = {}) /\ (row' # NoRow => Replays(row', log'))
    BY <2>1, <2>2
  <2>4. QED
    BY <2>1, <2>3 DEF HistoryInv
<1>2. CASE lock # w
  <2>1. Elsewhere(w)
    BY <1>2 DEF RollBack, Elsewhere, RuntimeInv, TypeOK
  <2>2. QED
    BY <2>1, ElsewhereHistory
<1>3. QED
  BY <1>1, <1>2

\* COMMIT makes the row and its events visible together.
LEMMA CommitHistory ==
    ASSUME RuntimeInv, HistoryInv, NEW w \in Workers, Commit(w)
    PROVE  HistoryInv'
<1>1. CASE lock = w
  <2>1. row' = snap[w] /\ log' = log \union out[w] /\ lock' = NoWorker
    BY <1>1 DEF Commit
  <2>2. snap[w] # NoRow
    BY <1>1 DEF RuntimeInv, LockInv
  <2>3. Replays(snap[w], log \union out[w])
    BY <1>1 DEF HistoryInv
  <2>4. row' # NoRow /\ Replays(row', log')
    BY <2>1, <2>2, <2>3
  <2>5. \A v \in Workers : lock' # v
    BY <2>1, DistinctAssumption
  <2>6. QED
    BY <2>4, <2>5 DEF HistoryInv
<1>2. CASE lock # w
  <2>1. out[w] = {}
    BY <1>2 DEF RuntimeInv, LockInv
  <2>2. UNCHANGED <<row, log, lock>>
    BY <1>2, <2>1 DEF Commit
  <2>3. Elsewhere(w)
    BY <1>2, <2>2 DEF Commit, Elsewhere, RuntimeInv, TypeOK
  <2>4. QED
    BY <2>3, ElsewhereHistory
<1>3. QED
  BY <1>1, <1>2

\* Every step of the runtime keeps the history and the row in agreement.
LEMMA NextHistory ==
    ASSUME RuntimeInv, HistoryInv, [RuntimeNext]_rtvars
    PROVE  HistoryInv'
<1>1. CASE UNCHANGED rtvars
  <2>1. row' = row /\ log' = log /\ lock' = lock /\ snap' = snap /\ out' = out
    BY <1>1 DEF rtvars
  <2>2. \A w \in Workers : lock' = w => Replays(snap'[w], log' \union out'[w])
    BY <2>1 DEF HistoryInv
  <2>3. (row' = NoRow => log' = {}) /\ (row' # NoRow => Replays(row', log'))
    <3>1. (row = NoRow => log = {}) /\ (row # NoRow => Replays(row, log))
      BY DEF HistoryInv
    <3>2. QED
      BY <2>1, <3>1
  <2>4. QED
    BY <2>2, <2>3 DEF HistoryInv
<1>2. ASSUME NEW w \in Workers, BeforeStrategy(w) PROVE HistoryInv'
  BY <1>2, MoveElsewhere, ElsewhereHistory, InsertHistory, StartHistory, MarkStepRunningHistory,
     RollBackHistory DEF BeforeStrategy, PlanConflict, StaleSnapshot
<1>3. ASSUME NEW w \in Workers, Request(w) \/ Commit(w) \/ Abort(w) PROVE HistoryInv'
  BY <1>3, MoveElsewhere, ElsewhereHistory, CommitHistory, RollBackHistory DEF Abort
<1>4. ASSUME NEW w \in Workers, MarkStepCompleted(w) \/ HandleFailure(w) \/ Complete(w)
      PROVE  HistoryInv'
  BY <1>4, MarkStepCompletedHistory, HandleFailureHistory, CompleteHistory
<1>5. QED
  BY <1>1, <1>2, <1>3, <1>4 DEF RuntimeNext

-----------------------------------------------------------------------------
(* The checkpoint, and what an attempt may add to it. *)

\* A row with the same completed steps as an ordered one is ordered.
LEMMA SameOrdered ==
    ASSUME NEW p \in Plans, NEW r \in RowsOf(p), Ordered(r), NEW x,
           x.plan = p, x.completed = r.completed,
           \A s \in Steps(p) : x.step[s] = "completed" <=> r.step[s] = "completed"
    PROVE  Ordered(x)
BY DEF Ordered, RowsOf

\* Completing the first open step keeps the plan order.
LEMMA NextOrdered ==
    ASSUME NEW p \in Plans, NEW r \in RowsOf(p), Ordered(r), NEW s \in Steps(p),
           IsNext(s, Steps(p) \ r.completed), NEW x, x.plan = p,
           x.completed = r.completed \union {s}, x.step[s] = "completed",
           \A t \in Steps(p) : t # s => x.step[t] = r.step[t]
    PROVE  Ordered(x)
<1>1. r.plan = p /\ r.completed = {t \in Steps(p) : r.step[t] = "completed"} /\ s \notin r.completed
  BY DEF RowsOf, Ordered, IsNext
<1>2. x.completed = {t \in Steps(p) : x.step[t] = "completed"}
  BY <1>1
<1>3. \A t \in Steps(p) : t < s => t \in r.completed
  BY PlanAssumption DEF IsNext, Steps
<1>4. \A t \in x.completed, u \in Steps(p) : u < t => u \in x.completed
  BY <1>1, <1>3 DEF Ordered
<1>5. QED
  BY <1>2, <1>4 DEF Ordered

\* The holder of the lock has advanced; nobody else has a row to answer for.
LEMMA HolderAdvances ==
    ASSUME CheckpointInv, NEW w \in Workers, row' = row, lock' = w,
           Advancing(snap'[w], pc'[w], todo'[w]), Attempting(row, snap'[w], pc'[w])
    PROVE  CheckpointInv' /\ AttemptInv'
<1>1. row' # NoRow => Resumable(row')
  BY DEF CheckpointInv
<1>2. ASSUME NEW v \in Workers, lock' = v
      PROVE  Advancing(snap'[v], pc'[v], todo'[v]) /\ Attempting(row', snap'[v], pc'[v])
  <2>1. v = w
    BY <1>2
  <2>2. QED
    BY <2>1
<1>3. QED
  BY <1>1, <1>2 DEF CheckpointInv, AttemptInv

\* What persist_transition leaves in the snapshot of the worker.
LEMMA PersistSnapshot ==
    ASSUME TypeOK, NEW w \in Workers, NEW next, NEW drafts, NEW label,
           PersistTransition(w, next, drafts), Goto(w, label)
    PROVE  snap'[w] = Written(next, Len(drafts)) /\ lock' = w /\ pc'[w] = label
BY DEF PersistTransition, Written, Goto, TypeOK

\* _start resumes a stored checkpoint without losing a completed step or a retry counter.
LEMMA StartCheckpoint ==
    ASSUME RuntimeInv, CheckpointInv, AttemptInv, NEW w \in Workers, Start(w)
    PROVE  CheckpointInv' /\ AttemptInv'
<1> DEFINE r    == snap[w]
           next == Started(r)
           new  == Written(next, 1)
<1>1. PICK p \in Plans : r \in RowsOf(p) /\ r.plan = p
  BY SnapshotOfPlan DEF RuntimeInv, Start, InTransaction
<1>2. next \in RowsOf(p) /\ next.step = r.step
  BY <1>1, StartedType, StartedFields
<1>3. snap'[w] = new /\ lock' = w /\ pc'[w] = "step" /\ row' = row
  <2> DEFINE drafts == <<Draft("execution_started", "running", NoStep)>>
  <2>1. PersistTransition(w, next, drafts) /\ Goto(w, "step") /\ row' = row /\ TypeOK /\ Len(drafts) = 1
    BY DEF Start, RuntimeInv
  <2> HIDE DEF drafts, next
  <2>2. QED
    BY <2>1, PersistSnapshot
<1>4. /\ new.plan = p /\ new.policy = r.policy /\ new.completed = r.completed /\ new.step = r.step
      /\ new.retries = r.retries
  <2>1. /\ next.plan = p /\ next.policy = r.policy /\ next.completed = r.completed
        /\ next.retries = r.retries
    BY <1>1, StartedCheckpoint
  <2>2. /\ new.plan = p /\ new.policy = next.policy /\ new.completed = next.completed
        /\ new.step = next.step /\ new.retries = next.retries
    <3> HIDE DEF next
    <3>1. QED
      BY <1>2, WrittenCheckpoint
  <2> HIDE DEF next, new
  <2>3. QED
    BY <1>2, <2>1, <2>2
<1>5. Ordered(r) /\ Affordable(r)
  <2>1. CASE lock = w
    BY <2>1 DEF CheckpointInv, Advancing, Start
  <2>2. CASE lock # w
    <3>1. row = r /\ row # NoRow /\ row.state = "waiting_retry"
      BY <2>2, StartIsBased
    <3>2. Resumable(r)
      BY <3>1 DEF CheckpointInv
    <3>3. QED
      BY <3>1, <3>2 DEF Resumable, Affordable
  <2>3. QED
    BY <2>1, <2>2
<1>6. todo'[w] = Steps(p) \ r.completed
  <2>1. todo'[w] = PendingSteps(r)
    BY DEF Start, RuntimeInv, TypeOK
  <2>2. PendingSteps(r) = Steps(p) \ r.completed
    BY <1>1, <1>5 DEF PendingSteps, Ordered
  <2>3. QED
    BY <2>1, <2>2
<1>7. Attempting(row, new, "step")
  <2>1. CASE lock = w
    <3>1. Attempting(row, r, "start")
      BY <2>1 DEF AttemptInv, Start
    <3> HIDE DEF new
    <3>2. QED
      BY <1>1, <1>4, <3>1 DEF Attempting, Charged
  <2>2. CASE lock # w
    <3>1. row = r /\ row # NoRow
      BY <2>2, StartIsBased
    <3> HIDE DEF new
    <3>2. QED
      BY <1>1, <1>4, <3>1 DEF Attempting, Charged
  <2>3. QED
    BY <2>1, <2>2
<1> HIDE DEF new, next
<1>8. Ordered(new) /\ Affordable(new)
  <2>1. Ordered(new)
    BY <1>1, <1>4, <1>5, SameOrdered
  <2>2. Affordable(new)
    BY <1>1, <1>4, <1>5 DEF Affordable
  <2>3. QED
    BY <2>1, <2>2
<1>9. Advancing(new, "step", todo'[w])
  BY <1>4, <1>6, <1>8 DEF Advancing
<1>10. QED
  BY <1>3, <1>7, <1>9, HolderAdvances

\* _mark_step_running keeps the attempt a continuation of the stored checkpoint.
LEMMA MarkStepRunningCheckpoint ==
    ASSUME RuntimeInv, CheckpointInv, AttemptInv, NEW w \in Workers, MarkStepRunning(w)
    PROVE  CheckpointInv' /\ AttemptInv'
<1> DEFINE r == snap[w]
<1>1. PICK p \in Plans : r \in RowsOf(p) /\ r.plan = p
  BY SnapshotOfPlan DEF RuntimeInv, MarkStepRunning, InTransaction
<1>2. PICK s \in todo[w] :
          /\ IsNext(s, todo[w])
          /\ PersistTransition(w, StepRunning(r, s), <<Draft("step_started", "running", s)>>)
          /\ todo' = [todo EXCEPT ![w] = @ \ {s}]
  BY DEF MarkStepRunning
<1> DEFINE next == StepRunning(r, s)
           new  == Written(next, 1)
           rest == Steps(p) \ r.completed
<1>3. pc[w] = "step" /\ lock = w /\ row' = row
  BY DEF MarkStepRunning, RuntimeInv, LockInv
<1>4. Advancing(r, "step", todo[w]) /\ Attempting(row, r, "step")
  BY <1>3 DEF CheckpointInv, AttemptInv
<1>5. todo[w] = rest /\ s \in rest /\ s \in Steps(p) /\ IsNext(s, rest) /\ Ordered(r) /\ Affordable(r)
  BY <1>1, <1>2, <1>4 DEF Advancing
<1>6. snap'[w] = new /\ lock' = w /\ pc'[w] = "strategy"
  <2> DEFINE drafts == <<Draft("step_started", "running", s)>>
  <2>1. PersistTransition(w, next, drafts) /\ Goto(w, "strategy") /\ TypeOK /\ Len(drafts) = 1
    BY <1>2 DEF MarkStepRunning, RuntimeInv
  <2> HIDE DEF drafts, next
  <2>2. QED
    BY <2>1, PersistSnapshot
<1>7. todo'[w] = rest \ {s}
  BY <1>2, <1>5 DEF RuntimeInv, TypeOK
<1>8. /\ next.completed = r.completed /\ next.retries = r.retries /\ next.policy = r.policy
      /\ next.current = s /\ next.step[s] = "running"
      /\ \A t \in Steps(p) : t # s => next.step[t] = r.step[t]
  BY <1>1, <1>5, StepRunningCheckpoint, StepRunningFields
<1>9. /\ new.plan = p /\ new.policy = r.policy /\ new.completed = r.completed /\ new.step = next.step
      /\ new.retries = r.retries /\ new.current = s
  <2>1. next \in RowsOf(p)
    BY <1>1, <1>5, StepRunningType
  <2>2. /\ new.plan = p /\ new.policy = next.policy /\ new.completed = next.completed
        /\ new.step = next.step /\ new.retries = next.retries /\ new.current = next.current
    <3> HIDE DEF next
    <3>1. QED
      BY <2>1, WrittenCheckpoint
  <2> HIDE DEF next, new
  <2>3. QED
    BY <1>8, <2>2
<1> HIDE DEF new, next
<1>10. Ordered(new)
  <2>1. r.step[s] # "completed"
    BY <1>1, <1>5 DEF Ordered
  <2>2. \A t \in Steps(p) : new.step[t] = "completed" <=> r.step[t] = "completed"
    BY <1>8, <1>9, <2>1
  <2>3. QED
    BY <1>1, <1>5, <1>9, <2>2, SameOrdered
<1>11. Affordable(new)
  BY <1>1, <1>5, <1>9 DEF Affordable
<1>12. Advancing(new, "strategy", todo'[w])
  BY <1>5, <1>7, <1>9, <1>10, <1>11 DEF Advancing
<1>13. Attempting(row, new, "strategy")
  BY <1>1, <1>4, <1>9 DEF Attempting, Charged
<1>14. QED
  BY <1>3, <1>6, <1>12, <1>13, HolderAdvances

\* _mark_step_completed keeps the attempt a continuation of the stored checkpoint.
LEMMA MarkStepCompletedCheckpoint ==
    ASSUME RuntimeInv, CheckpointInv, AttemptInv, NEW w \in Workers, MarkStepCompleted(w)
    PROVE  CheckpointInv' /\ AttemptInv'
<1> DEFINE r == snap[w]
           s == r.current
           next == StepDone(r, s)
           new  == Written(next, 1)
           label == IF todo[w] = {} THEN "complete" ELSE "step"
<1>1. PICK p \in Plans : r \in RowsOf(p) /\ r.plan = p
  BY SnapshotOfPlan DEF RuntimeInv, MarkStepCompleted, InTransaction
<1> DEFINE rest == Steps(p) \ r.completed
<1>2. pc[w] = "strategy" /\ lock = w /\ row' = row /\ todo' = todo /\ s \in Steps(p)
  BY <1>1 DEF MarkStepCompleted, RuntimeInv, LockInv, PositionInv
<1>3. Advancing(r, "strategy", todo[w]) /\ Attempting(row, r, "strategy")
  BY <1>2 DEF CheckpointInv, AttemptInv
<1>4. todo[w] = rest \ {s} /\ IsNext(s, rest) /\ Ordered(r) /\ Affordable(r)
  BY <1>1, <1>3 DEF Advancing
<1>5. snap'[w] = new /\ lock' = w /\ pc'[w] = label
  <2> DEFINE drafts == <<Draft("step_completed", "running", s)>>
  <2>1. PersistTransition(w, next, drafts) /\ Goto(w, label) /\ TypeOK /\ Len(drafts) = 1
    BY DEF MarkStepCompleted, RuntimeInv
  <2> HIDE DEF drafts, next, label
  <2>2. QED
    BY <2>1, PersistSnapshot
<1>6. /\ next.completed = r.completed \union {s} /\ next.retries = r.retries
      /\ next.policy = r.policy /\ next.failed = NoStep /\ next.step[s] = "completed"
      /\ \A t \in Steps(p) : t # s => next.step[t] = r.step[t]
  BY <1>1, <1>2, StepDoneCheckpoint, StepDoneFields
<1>7. /\ new.plan = p /\ new.policy = r.policy /\ new.completed = r.completed \union {s}
      /\ new.step = next.step /\ new.retries = r.retries /\ new.failed = NoStep
  <2>1. next \in RowsOf(p)
    BY <1>1, <1>2, StepDoneType
  <2>2. /\ new.plan = p /\ new.policy = next.policy /\ new.completed = next.completed
        /\ new.step = next.step /\ new.retries = next.retries /\ new.failed = next.failed
    <3> HIDE DEF next
    <3>1. QED
      BY <2>1, WrittenCheckpoint
  <2> HIDE DEF next, new
  <2>3. QED
    BY <1>6, <2>2
<1> HIDE DEF new, next, s
<1>8. Ordered(new)
  BY <1>1, <1>2, <1>4, <1>6, <1>7, NextOrdered
<1>9. Affordable(new)
  BY <1>1, <1>4, <1>7 DEF Affordable
<1>10. todo'[w] = Steps(p) \ new.completed
  BY <1>2, <1>4, <1>7
<1>11. Advancing(new, label, todo'[w])
  BY <1>2, <1>7, <1>8, <1>9, <1>10 DEF Advancing
<1>12. Attempting(row, new, label)
  BY <1>1, <1>3, <1>7 DEF Attempting, Charged
<1> HIDE DEF label
<1>13. QED
  BY <1>2, <1>5, <1>11, <1>12, HolderAdvances

\* A failed attempt leaves a checkpoint at the step that failed, with its attempts counted.
LEMMA HandleFailureCheckpoint ==
    ASSUME RuntimeInv, CheckpointInv, AttemptInv, NEW w \in Workers, HandleFailure(w)
    PROVE  CheckpointInv' /\ AttemptInv'
<1> DEFINE r == snap[w]
           s == r.current
           next == StepLost(r, s)
           new  == Written(next, Len(FailureDrafts(r, s)))
<1>1. PICK p \in Plans : r \in RowsOf(p) /\ r.plan = p
  BY SnapshotOfPlan DEF RuntimeInv, HandleFailure, InTransaction
<1> DEFINE rest == Steps(p) \ r.completed
<1>2. pc[w] = "strategy" /\ lock = w /\ row' = row /\ todo' = todo /\ s \in Steps(p)
  BY <1>1 DEF HandleFailure, RuntimeInv, LockInv, PositionInv
<1>3. Advancing(r, "strategy", todo[w]) /\ Attempting(row, r, "strategy")
  BY <1>2 DEF CheckpointInv, AttemptInv
<1>4. IsNext(s, rest) /\ s \in rest /\ Ordered(r) /\ Affordable(r)
  BY <1>1, <1>3 DEF Advancing, IsNext
<1>5. snap'[w] = new /\ lock' = w /\ pc'[w] = "commit"
  BY PersistSnapshot DEF HandleFailure, RuntimeInv
<1>6. /\ next.completed = r.completed /\ next.policy = r.policy /\ next.failed = s /\ next.current = s
      /\ next.retries = [r.retries EXCEPT ![s] = @ + 1]
      /\ next.state = IF ShouldRetry(r.policy, r.retries[s] + 1) THEN "waiting_retry" ELSE "failed"
      /\ next.step[s] = next.state
      /\ \A t \in Steps(p) : t # s => next.step[t] = r.step[t]
  BY <1>1, <1>2, StepLostCheckpoint, StepLostFields
<1>7. /\ new.plan = p /\ new.policy = r.policy /\ new.completed = r.completed /\ new.step = next.step
      /\ new.failed = s /\ new.current = s /\ new.retries = next.retries /\ new.state = next.state
  <2>1. next \in RowsOf(p)
    BY <1>1, <1>2, StepLostType
  <2>2. Len(FailureDrafts(r, s)) \in Nat \ {0}
    BY DEF FailureDrafts
  <2>3. /\ new.plan = p /\ new.policy = next.policy /\ new.completed = next.completed
        /\ new.step = next.step /\ new.failed = next.failed /\ new.current = next.current
        /\ new.retries = next.retries /\ new.state = next.state
    <3> HIDE DEF next
    <3>1. QED
      BY <2>1, <2>2, WrittenCheckpoint
  <2> HIDE DEF next, new
  <2>4. QED
    BY <1>6, <2>3
<1>8. r.retries \in [Steps(p) -> Nat] /\ r.policy.max_attempts \in Nat \ {0}
  BY <1>1, PolicyAssumption DEF RowsOf
<1> HIDE DEF new, next, s
<1>9. Ordered(new)
  <2>1. \A t \in Steps(p) : new.step[t] = "completed" <=> r.step[t] = "completed"
    BY <1>1, <1>4, <1>6, <1>7 DEF Ordered
  <2>2. QED
    BY <1>1, <1>4, <1>7, <2>1, SameOrdered
<1>10. \A t \in Steps(p) :
          /\ new.retries[t] <= new.policy.max_attempts
          /\ ~ ShouldRetry(new.policy, new.retries[t]) /\ new.retries[t] > 0
                <=> new.state = "failed" /\ new.failed = t
  <2> SUFFICES ASSUME NEW t \in Steps(p)
               PROVE  /\ new.retries[t] <= r.policy.max_attempts
                      /\ ~ ShouldRetry(r.policy, new.retries[t]) /\ new.retries[t] > 0
                            <=> new.state = "failed" /\ s = t
    BY <1>7
  <2>1. r.retries[t] > 0 => ShouldRetry(r.policy, r.retries[t])
    BY <1>1, <1>4 DEF Affordable
  <2>2. CASE t # s
    <3>1. new.retries[t] = r.retries[t]
      BY <1>6, <1>7, <1>8, <2>2
    <3>2. QED
      BY <1>8, <2>1, <2>2, <3>1 DEF ShouldRetry
  <2>3. CASE t = s
    <3>1. new.retries[t] = r.retries[t] + 1
      BY <1>2, <1>6, <1>7, <1>8, <2>3
    <3>2. QED
      BY <1>6, <1>7, <1>8, <2>1, <2>3, <3>1 DEF ShouldRetry
  <2>4. QED
    BY <2>2, <2>3
<1>11. Resumable(new)
  <2>1. new.completed # Steps(p)
    BY <1>4, <1>7
  <2>2. new.state \in {"waiting_retry", "failed"} /\ new.step[s] = new.state
    BY <1>6, <1>7
  <2>3. QED
    BY <1>4, <1>7, <1>9, <1>10, <2>1, <2>2 DEF Resumable
<1>12. Advancing(new, "commit", todo'[w])
  BY <1>9, <1>11 DEF Advancing
<1>13. Attempting(row, new, "commit")
  <2>1. new.state # "completed"
    BY <1>6, <1>7
  <2>2. r.retries = Charged(row, r) /\ Charged(row, new) = Charged(row, r)
    BY <1>1, <1>3, <1>7 DEF Attempting, Charged
  <2>3. new.retries = [Charged(row, new) EXCEPT ![new.failed] = @ + 1]
    BY <1>6, <1>7, <2>2
  <2>4. QED
    BY <1>1, <1>3, <1>7, <2>1, <2>3 DEF Attempting
<1>14. QED
  BY <1>2, <1>5, <1>12, <1>13, HolderAdvances

\* _complete leaves a checkpoint with every step completed.
LEMMA CompleteCheckpoint ==
    ASSUME RuntimeInv, CheckpointInv, AttemptInv, NEW w \in Workers, Complete(w)
    PROVE  CheckpointInv' /\ AttemptInv'
<1> DEFINE r == snap[w]
           next == Finished(r)
           new  == Written(next, 1)
<1>1. PICK p \in Plans : r \in RowsOf(p) /\ r.plan = p
  BY SnapshotOfPlan DEF RuntimeInv, Complete, InTransaction
<1>2. pc[w] = "complete" /\ lock = w /\ row' = row
  BY DEF Complete, RuntimeInv, LockInv
<1>3. Advancing(r, "complete", todo[w]) /\ Attempting(row, r, "complete")
  BY <1>2 DEF CheckpointInv, AttemptInv
<1>4. r.completed = Steps(p) /\ r.failed = NoStep /\ Ordered(r) /\ Affordable(r)
  BY <1>1, <1>3 DEF Advancing, RowsOf
<1>5. snap'[w] = new /\ lock' = w /\ pc'[w] = "commit"
  <2> DEFINE drafts == <<Draft("execution_completed", "completed", NoStep)>>
  <2>1. PersistTransition(w, next, drafts) /\ Goto(w, "commit") /\ TypeOK /\ Len(drafts) = 1
    BY DEF Complete, RuntimeInv
  <2> HIDE DEF drafts, next
  <2>2. QED
    BY <2>1, PersistSnapshot
<1>6. /\ next.completed = r.completed /\ next.retries = r.retries /\ next.policy = r.policy
      /\ next.failed = r.failed /\ next.current = NoStep /\ next.step = r.step
      /\ next.state = "completed"
  BY <1>1, FinishedCheckpoint, FinishedFields
<1>7. /\ new.plan = p /\ new.policy = r.policy /\ new.completed = r.completed /\ new.step = r.step
      /\ new.retries = r.retries /\ new.failed = NoStep /\ new.current = NoStep
      /\ new.state = "completed"
  <2>1. next \in RowsOf(p)
    BY <1>1, FinishedType
  <2>2. /\ new.plan = p /\ new.policy = next.policy /\ new.completed = next.completed
        /\ new.step = next.step /\ new.failed = next.failed /\ new.current = next.current
        /\ new.retries = next.retries /\ new.state = next.state
    <3> HIDE DEF next
    <3>1. QED
      BY <2>1, WrittenCheckpoint
  <2> HIDE DEF next, new
  <2>3. QED
    BY <1>4, <1>6, <2>2
<1>8. r.retries \in [Steps(p) -> Nat] /\ r.policy.max_attempts \in Nat \ {0}
  BY <1>1, PolicyAssumption DEF RowsOf
<1> HIDE DEF new, next
<1>9. Ordered(new)
  BY <1>1, <1>4, <1>7, SameOrdered
<1>10. \A t \in Steps(p) :
          /\ new.retries[t] <= new.policy.max_attempts
          /\ ~ (~ ShouldRetry(new.policy, new.retries[t]) /\ new.retries[t] > 0)
  <2> SUFFICES ASSUME NEW t \in Steps(p)
               PROVE  /\ r.retries[t] <= r.policy.max_attempts
                      /\ ~ (~ ShouldRetry(r.policy, r.retries[t]) /\ r.retries[t] > 0)
    BY <1>7
  <2>1. r.retries[t] > 0 => ShouldRetry(r.policy, r.retries[t])
    BY <1>1, <1>4 DEF Affordable
  <2>2. QED
    BY <1>8, <2>1 DEF ShouldRetry
<1>11. Resumable(new)
  BY <1>4, <1>7, <1>9, <1>10 DEF Resumable
<1>12. Advancing(new, "commit", todo'[w])
  BY <1>9, <1>11 DEF Advancing
<1>13. Attempting(row, new, "commit")
  BY <1>1, <1>3, <1>7 DEF Attempting, Charged
<1>14. QED
  BY <1>2, <1>5, <1>12, <1>13, HolderAdvances

\* A newly inserted execution is a resumable checkpoint with nothing done.
LEMMA InsertCheckpoint ==
    ASSUME RuntimeInv, CheckpointInv, AttemptInv, NEW w \in Workers, InsertExecution(w)
    PROVE  CheckpointInv' /\ AttemptInv'
<1> DEFINE p == req[w].plan
           r == SnapshotFromPlan(p, req[w].policy)
<1>1. r.plan = p /\ r.completed = {} /\ r.retries = [s \in Steps(p) |-> 0]
      /\ r.step = [s \in Steps(p) |-> "pending"]
  BY DEF SnapshotFromPlan
<1>2. row = NoRow /\ row' = row /\ lock' = w /\ pc'[w] = "execute" /\ snap'[w] = r
  BY DEF InsertExecution, Goto, RuntimeInv, TypeOK
<1> HIDE DEF r
<1>3. Ordered(r) /\ Affordable(r)
  BY <1>1 DEF Ordered, Affordable
<1>4. Advancing(r, "execute", todo'[w])
  BY <1>1, <1>3 DEF Advancing
<1>5. Attempting(row, r, "execute")
  BY <1>1, <1>2 DEF Attempting, Charged
<1>6. QED
  BY <1>2, <1>4, <1>5, HolderAdvances

\* What a worker without the row lock does leaves the attempt of the holder alone.
Apart(w) ==
    /\ UNCHANGED <<row, lock>>
    /\ \A v \in Workers : lock = v => snap'[v] = snap[v] /\ pc'[v] = pc[v] /\ todo'[v] = todo[v]

\* A step of a worker without the row lock, which leaves the row alone, keeps the checkpoints.
LEMMA ApartCheckpoint ==
    ASSUME CheckpointInv, AttemptInv, NEW w \in Workers, Apart(w)
    PROVE  CheckpointInv' /\ AttemptInv'
<1>1. row' # NoRow => Resumable(row')
  BY DEF CheckpointInv, Apart
<1>2. ASSUME NEW v \in Workers, lock' = v
      PROVE  Advancing(snap'[v], pc'[v], todo'[v]) /\ Attempting(row', snap'[v], pc'[v])
  <2>1. /\ lock = v /\ row' = row
        /\ snap'[v] = snap[v] /\ pc'[v] = pc[v] /\ todo'[v] = todo[v]
    BY <1>2 DEF Apart
  <2>2. Advancing(snap[v], pc[v], todo[v]) /\ Attempting(row, snap[v], pc[v])
    BY <2>1 DEF CheckpointInv, AttemptInv
  <2>3. QED
    BY <2>1, <2>2
<1>3. QED
  BY <1>1, <1>2 DEF CheckpointInv, AttemptInv

\* Requests, lookups and reads keep the checkpoints.
LEMMA MoveCheckpoint ==
    ASSUME RuntimeInv, CheckpointInv, AttemptInv, NEW w \in Workers,
           \/ Request(w) \/ LookupMiss(w) \/ ReturnStored(w) \/ StartRead(w) \/ LoadExisting(w)
    PROVE  CheckpointInv' /\ AttemptInv'
<1>1. CASE lock = w
  <2>1. pc[w] \in InTransaction /\ (pc[w] = "execute" => snap[w].state = "planned")
    BY <1>1 DEF RuntimeInv, LockInv, PositionInv
  <2>2. StartRead(w) /\ pc[w] = "execute" /\ lock # NoWorker
    BY <1>1, <2>1, DistinctAssumption
       DEF Request, LookupMiss, ReturnStored, LoadExisting, StartRead, InTransaction, TerminalStates
  <2>3. row' = row /\ lock' = w /\ snap'[w] = snap[w] /\ todo'[w] = todo[w] /\ pc'[w] = "start"
    BY <1>1, <2>2 DEF StartRead, Goto, RuntimeInv, TypeOK
  <2>4. Advancing(snap[w], "execute", todo[w]) /\ Attempting(row, snap[w], "execute")
    BY <1>1, <2>2 DEF CheckpointInv, AttemptInv
  <2>5. Advancing(snap[w], "start", todo[w]) /\ Attempting(row, snap[w], "start")
    BY <2>4 DEF Advancing, Attempting
  <2>6. Advancing(snap'[w], pc'[w], todo'[w]) /\ Attempting(row, snap'[w], pc'[w])
    BY <2>3, <2>5
  <2>7. QED
    BY <2>3, <2>6, HolderAdvances
<1>2. CASE lock # w
  <2>1. Apart(w)
    BY <1>2 DEF Request, LookupMiss, ReturnStored, StartRead, LoadExisting, Goto, Apart, RuntimeInv, TypeOK
  <2>2. QED
    BY <2>1, ApartCheckpoint
<1>3. QED
  BY <1>1, <1>2

\* A rollback leaves the stored checkpoint as it was.
LEMMA RollBackCheckpoint ==
    ASSUME RuntimeInv, CheckpointInv, AttemptInv, NEW w \in Workers, NEW answer, RollBack(w, answer)
    PROVE  CheckpointInv' /\ AttemptInv'
<1>1. CASE lock = w
  <2>1. row' = row /\ \A v \in Workers : lock' # v
    BY <1>1, DistinctAssumption DEF RollBack
  <2>2. QED
    BY <2>1 DEF CheckpointInv, AttemptInv
<1>2. CASE lock # w
  <2>1. Apart(w)
    BY <1>2 DEF RollBack, Apart, RuntimeInv, TypeOK
  <2>2. QED
    BY <2>1, ApartCheckpoint
<1>3. QED
  BY <1>1, <1>2

\* A commit stores a checkpoint that can be resumed.
LEMMA CommitCheckpoint ==
    ASSUME RuntimeInv, CheckpointInv, AttemptInv, NEW w \in Workers, Commit(w)
    PROVE  CheckpointInv' /\ AttemptInv'
<1>1. CASE lock = w
  <2>1. row' = snap[w] /\ pc[w] = "commit" /\ \A v \in Workers : lock' # v
    BY <1>1, DistinctAssumption DEF Commit
  <2>2. Resumable(row')
    BY <1>1, <2>1 DEF CheckpointInv, Advancing
  <2>3. QED
    BY <2>1, <2>2 DEF CheckpointInv, AttemptInv
<1>2. CASE lock # w
  <2>1. Apart(w)
    BY <1>2 DEF Commit, Apart, RuntimeInv, TypeOK
  <2>2. QED
    BY <2>1, ApartCheckpoint
<1>3. QED
  BY <1>1, <1>2

\* Every step keeps the checkpoint resumable and the attempt within the policy.
LEMMA NextCheckpoint ==
    ASSUME RuntimeInv, CheckpointInv, AttemptInv, [RuntimeNext]_rtvars
    PROVE  CheckpointInv' /\ AttemptInv'
<1>1. CASE UNCHANGED rtvars
  BY <1>1 DEF rtvars, CheckpointInv, AttemptInv
<1>2. ASSUME NEW w \in Workers, BeforeStrategy(w) PROVE CheckpointInv' /\ AttemptInv'
  BY <1>2, MoveCheckpoint, InsertCheckpoint, StartCheckpoint, MarkStepRunningCheckpoint,
     RollBackCheckpoint DEF BeforeStrategy, PlanConflict, StaleSnapshot
<1>3. ASSUME NEW w \in Workers, Request(w) \/ Commit(w) \/ Abort(w)
      PROVE  CheckpointInv' /\ AttemptInv'
  BY <1>3, MoveCheckpoint, CommitCheckpoint, RollBackCheckpoint DEF Abort
<1>4. ASSUME NEW w \in Workers, MarkStepCompleted(w) \/ HandleFailure(w) \/ Complete(w)
      PROVE  CheckpointInv' /\ AttemptInv'
  BY <1>4, MarkStepCompletedCheckpoint, HandleFailureCheckpoint, CompleteCheckpoint
<1>5. QED
  BY <1>1, <1>2, <1>3, <1>4 DEF RuntimeNext

-----------------------------------------------------------------------------
(* The theorems. *)

\* What is stored stays explained by its history, resumable and within its retry policy.
THEOREM StoredInvariance == RuntimeSpec => []StoredInv
<1>1. RuntimeInit => StoredInv
  <2>1. RuntimeInit => RuntimeInv
    BY InitInv
  <2>2. RuntimeInit => HistoryInv /\ CheckpointInv /\ AttemptInv
    BY DistinctAssumption DEF RuntimeInit, HistoryInv, CheckpointInv, AttemptInv
  <2>3. QED
    BY <2>1, <2>2 DEF StoredInv
<1>2. StoredInv /\ [RuntimeNext]_rtvars => StoredInv'
  BY NextInv, NextHistory, NextCheckpoint DEF StoredInv
<1>3. QED
  BY <1>1, <1>2, PTL DEF RuntimeSpec

\* persist_transition numbers events from a counter it read before the UPDATE, and several
\* transitions of several requests interleave: the committed history still replays to the row.
THEOREM HistoryReplays == RuntimeSpec => []HistoryReplaysToRow
<1>1. StoredInv => HistoryReplaysToRow
  BY DEF StoredInv, HistoryInv, Replays, HistoryReplaysToRow
<1>2. QED
  BY <1>1, StoredInvariance, PTL

\* Whatever fails, the committed checkpoint is a place to continue from, and no step is ever
\* attempted more often than the policy stored with the execution allows.
THEOREM CheckpointsResumable == RuntimeSpec => []CheckpointResumable
<1>1. StoredInv => CheckpointResumable
  BY DEF StoredInv, RuntimeInv, CheckpointInv, Resumable, Ordered, CheckpointResumable,
         CheckpointConsistent, AttemptsBounded
<1>2. QED
  BY <1>1, StoredInvariance, PTL

-----------------------------------------------------------------------------
(* The ledger that readers of the database see. *)

\* Only the COMMIT of the worker that holds the row lock changes what others can read.
LEMMA OnlyCommits ==
    ASSUME StoredInv, [RuntimeNext]_rtvars
    PROVE  \/ UNCHANGED <<row, log>>
           \/ \E w \in Workers : lock = w /\ pc[w] = "commit" /\ row' = snap[w] /\ log' = log \union out[w]
<1>1. CASE UNCHANGED rtvars
  BY <1>1 DEF rtvars
<1>2. ASSUME NEW w \in Workers,
             \/ Request(w) \/ BeforeStrategy(w) \/ MarkStepCompleted(w) \/ HandleFailure(w)
             \/ Complete(w) \/ Abort(w)
      PROVE  UNCHANGED <<row, log>>
  BY <1>2 DEF Request, BeforeStrategy, LookupMiss, LoadExisting, PlanConflict, InsertExecution,
     ReturnStored, StartRead, Start, StaleSnapshot, MarkStepRunning, MarkStepCompleted,
     HandleFailure, Complete, Abort, RollBack
<1>3. ASSUME NEW w \in Workers, Commit(w)
      PROVE  \/ UNCHANGED <<row, log>>
             \/ lock = w /\ pc[w] = "commit" /\ row' = snap[w] /\ log' = log \union out[w]
  <2>1. CASE lock = w
    BY <1>3, <2>1 DEF Commit
  <2>2. CASE lock # w
    <3>1. out[w] = {}
      BY <2>2 DEF StoredInv, RuntimeInv, LockInv
    <3>2. QED
      BY <1>3, <2>2, <3>1 DEF Commit
  <2>3. QED
    BY <2>1, <2>2
<1>4. QED
  BY <1>1, <1>2, <1>3 DEF RuntimeNext

\* The events of an attempt are numbered after all those that were committed before it.
LEMMA NewEventsAreLater ==
    ASSUME NEW r, NEW old, Replays(r, old), r.next_seq \in Nat \ {0},
           NEW x, NEW new, Replays(x, new), old \subseteq new
    PROVE  \A e \in new \ old, d \in old : d.seq < e.seq
<1> SUFFICES ASSUME NEW e \in new, e \notin old, NEW d \in old
             PROVE  d.seq < e.seq
  OBVIOUS
<1>1. e.seq \in Nat /\ d.seq \in 1 .. r.next_seq - 1
  BY DEF Replays, HistoryMatches, Events
<1>2. ASSUME e.seq \in 1 .. r.next_seq - 1 PROVE FALSE
  <2>1. PICK c \in old : c.seq = e.seq
    BY <1>2 DEF Replays, HistoryMatches
  <2>2. c = e
    BY <2>1 DEF Replays, HistoryMatches
  <2>3. QED
    BY <2>2
<1>3. e.seq \in Nat \ {0}
  BY DEF Replays, Events
<1>4. QED
  BY <1>1, <1>2, <1>3

\* The action property of LedgerIsAppendOnly.
Appends ==
    /\ log \subseteq log'
    /\ \A e \in log' \ log, d \in log : d.seq < e.seq
    /\ row # NoRow /\ row.state \in TerminalStates => row' = row /\ log' = log
    /\ row # NoRow /\ row' # row => row'.version > row.version
                                   /\ row.completed \subseteq row'.completed

\* Whatever the workers do, the stored history only grows and the stored version follows it.
LEMMA NextAppends ==
    ASSUME StoredInv, [RuntimeNext]_rtvars
    PROVE  Appends
<1>1. CASE UNCHANGED <<row, log>>
  BY <1>1 DEF Appends
<1>2. ASSUME NEW w \in Workers, lock = w, pc[w] = "commit", row' = snap[w], log' = log \union out[w]
      PROVE  Appends
  <2>1. log \subseteq log'
    BY <1>2
  <2>2. row # NoRow => row.state = "waiting_retry"
    BY <1>2, DistinctAssumption DEF StoredInv, RuntimeInv, LockedRowInv
  <2>3. \A e \in log' \ log, d \in log : d.seq < e.seq
    <3>1. CASE row = NoRow
      BY <3>1 DEF StoredInv, HistoryInv
    <3>2. CASE row # NoRow
      <4>1. Replays(row, log) /\ Replays(snap[w], log')
        BY <1>2, <3>2 DEF StoredInv, HistoryInv
      <4>2. row.next_seq \in Nat \ {0}
        BY <3>2 DEF StoredInv, RuntimeInv, TypeOK, IsRow, RowsOf
      <4>3. QED
        BY <2>1, <4>1, <4>2, NewEventsAreLater
    <3>3. QED
      BY <3>1, <3>2
  <2>4. row # NoRow => row'.version > row.version
    BY <1>2 DEF StoredInv, RuntimeInv, VersionInv, LockInv, InTransaction
  <2>5. row # NoRow => row.completed \subseteq row'.completed
    BY <1>2 DEF StoredInv, AttemptInv, Attempting
  <2>6. QED
    BY <2>1, <2>2, <2>3, <2>4, <2>5 DEF Appends, TerminalStates
<1>3. QED
  BY <1>1, <1>2, OnlyCommits

\* The completed steps of a checkpoint are the first ones of the plan.
LEMMA CompletedPrefix ==
    ASSUME NEW p \in Plans, NEW r \in RowsOf(p), Ordered(r), NEW s, IsNext(s, Steps(p) \ r.completed)
    PROVE  r.completed = 1 .. s - 1 /\ Cardinality(r.completed) = s - 1 /\ s \in Steps(p)
<1>1. r.plan = p /\ s \in Steps(p) /\ s \in Nat \ {0} /\ PlanLength[p] \in Nat \ {0} /\ s \notin r.completed
  BY PlanAssumption DEF RowsOf, IsNext, Steps
<1>2. r.completed \subseteq 1 .. s - 1
  <2> SUFFICES ASSUME NEW t \in r.completed PROVE t \in 1 .. s - 1
    OBVIOUS
  <2>1. t \in Steps(p) /\ t \in Nat \ {0}
    BY PlanAssumption DEF RowsOf, Steps
  <2>2. ~ (s < t)
    BY <1>1 DEF Ordered
  <2>3. t # s
    BY <1>1
  <2>4. QED
    BY <1>1, <2>1, <2>2, <2>3
<1>3. 1 .. s - 1 \subseteq r.completed
  <2> SUFFICES ASSUME NEW t \in 1 .. s - 1 PROVE t \in r.completed
    OBVIOUS
  <2>1. t \in Steps(p) /\ t < s
    BY <1>1 DEF Steps
  <2>2. QED
    BY <1>1, <2>1 DEF IsNext, Steps
<1>4. r.completed = 1 .. s - 1
  BY <1>2, <1>3
<1>5. Cardinality(1 .. s - 1) = s - 1
  <2> DEFINE m == s - 1
  <2>1. m \in Nat /\ 1 \in Int /\ m \in Int
    BY <1>1
  <2> HIDE DEF m
  <2>2. Cardinality(1 .. m) = IF 1 > m THEN 0 ELSE m - 1 + 1
    BY <2>1, FS_Interval
  <2>3. Cardinality(1 .. m) = m
    BY <2>1, <2>2
  <2>4. QED
    BY <2>3 DEF m
<1>6. QED
  BY <1>1, <1>4, <1>5

\* The committed attempt of w, read as an attempt of ExecutionLedger from failures f and d steps.
LEMMA CommitIsAttempt ==
    ASSUME StoredInv, NEW w \in Workers, lock = w, pc[w] = "commit", row' = snap[w],
           NEW d \in Nat, NEW f, f = Charged(row, snap[w]),
           d <= Cardinality(snap[w].completed)
    PROVE  /\ row' # NoRow
           /\ [plan |-> row'.plan, policy |-> row'.policy] \in [plan : Plans, policy : RetryPolicies]
           /\ \/ /\ row'.state = "completed"
                 /\ Cardinality(row'.completed) = PlanLength[row'.plan]
                 /\ row'.retries = f
              \/ \E s \in d + 1 .. PlanLength[row'.plan] :
                    /\ Cardinality(row'.completed) = s - 1
                    /\ row'.retries = [f EXCEPT ![s] = @ + 1]
                    /\ row'.state = IF row'.policy.policy_type = "never" \/ f[s] + 1 >= row'.policy.max_attempts
                                    THEN "failed" ELSE "waiting_retry"
<1> DEFINE r == snap[w]
<1>1. PICK p \in Plans : r \in RowsOf(p) /\ r.plan = p
  BY SnapshotOfPlan DEF StoredInv, RuntimeInv, InTransaction
<1>2. row' = r /\ r # NoRow
  BY DEF StoredInv, RuntimeInv, LockInv, InTransaction
<1>3. /\ PlanLength[p] \in Nat \ {0} /\ r.policy \in RetryPolicies
      /\ r.policy.max_attempts \in Nat \ {0} /\ r.retries \in [Steps(p) -> Nat]
  BY <1>1, PlanAssumption, PolicyAssumption DEF RowsOf
<1>4. Resumable(r) /\ Attempting(row, r, "commit")
  BY DEF StoredInv, CheckpointInv, Advancing, AttemptInv
<1>5. r.state \in {"waiting_retry", "completed", "failed"}
  BY DEF StoredInv, RuntimeInv, PositionInv
<1>6. [plan |-> r.plan, policy |-> r.policy] \in [plan : Plans, policy : RetryPolicies]
  BY <1>1, <1>3
<1>7. CASE r.state = "completed"
  <2>1. r.completed = 1 .. PlanLength[p]
    BY <1>1, <1>4, <1>7 DEF Resumable, Steps
  <2> DEFINE m == PlanLength[p]
  <2>2. m \in Nat \ {0} /\ 1 \in Int /\ m \in Int
    BY <1>3
  <2> HIDE DEF m
  <2>3. Cardinality(1 .. m) = IF 1 > m THEN 0 ELSE m - 1 + 1
    BY <2>2, FS_Interval
  <2>4. Cardinality(1 .. m) = m
    BY <2>2, <2>3
  <2>5. Cardinality(r.completed) = PlanLength[r.plan]
    BY <1>1, <2>1, <2>4 DEF m
  <2>6. r.retries = f
    BY <1>4, <1>7 DEF Attempting
  <2>7. QED
    BY <1>2, <1>6, <1>7, <2>5, <2>6
<1>8. CASE r.state # "completed"
  <2> DEFINE s == r.failed
  <2>1. /\ IsNext(s, Steps(p) \ r.completed) /\ Ordered(r)
        /\ ~ ShouldRetry(r.policy, r.retries[s]) /\ r.retries[s] > 0 <=> r.state = "failed"
    <3>1. IsNext(s, Steps(p) \ r.completed) /\ Ordered(r)
      BY <1>1, <1>4, <1>5, <1>8 DEF Resumable
    <3>2. s \in Steps(p)
      BY <3>1 DEF IsNext
    <3>3. QED
      BY <1>1, <1>4, <3>1, <3>2 DEF Resumable
  <2>2. Cardinality(r.completed) = s - 1 /\ s \in Steps(p) /\ s \in Nat
    <3> HIDE DEF s
    <3>1. Cardinality(r.completed) = s - 1 /\ s \in Steps(p)
      BY <1>1, <2>1, CompletedPrefix
    <3>2. QED
      BY <3>1, <1>3 DEF Steps
  <2>3. s \in d + 1 .. PlanLength[p]
    BY <1>3, <2>2 DEF Steps
  <2>4. r.retries = [f EXCEPT ![s] = @ + 1]
    BY <1>4, <1>8 DEF Attempting
  <2>5. f[s] \in Nat /\ r.retries[s] = f[s] + 1
    <3>1. DOMAIN f = Steps(p) /\ f[s] \in Nat
      <4>1. CASE row = NoRow
        BY <1>1, <2>2, <4>1 DEF Charged
      <4>2. CASE row # NoRow
        <5>1. row.plan = p /\ IsRow(row)
          BY <1>1, <1>4, <4>2 DEF Attempting, StoredInv, RuntimeInv, TypeOK
        <5>2. row.retries \in [Steps(p) -> Nat]
          BY <5>1 DEF IsRow, RowsOf
        <5>3. QED
          BY <2>2, <4>2, <5>2 DEF Charged
      <4>3. QED
        BY <4>1, <4>2
    <3>2. QED
      BY <2>2, <2>4, <3>1
  <2>6. r.state = IF r.policy.policy_type = "never" \/ f[s] + 1 >= r.policy.max_attempts
                  THEN "failed" ELSE "waiting_retry"
    BY <1>3, <1>5, <1>8, <2>1, <2>5 DEF ShouldRetry
  <2> HIDE DEF s
  <2>7. QED
    BY <1>1, <1>2, <1>6, <2>2, <2>3, <2>4, <2>6
<1>9. QED
  BY <1>7, <1>8

\* What other sessions read changes by an attempt of ExecutionLedger, or not at all.
LEMMA NextIsLedgerStep ==
    ASSUME StoredInv, [RuntimeNext]_rtvars
    PROVE  [Ledger!LedgerNext]_Ledger!ledger
<1>1. CASE UNCHANGED <<row, log>>
  BY <1>1 DEF Ledger!ledger
<1>2. ASSUME NEW w \in Workers, lock = w, pc[w] = "commit", row' = snap[w], log' = log \union out[w]
      PROVE  Ledger!LedgerNext
  <2>1. PICK p \in Plans : snap[w] \in RowsOf(p) /\ snap[w].plan = p
    BY <1>2, SnapshotOfPlan DEF StoredInv, RuntimeInv, InTransaction
  <2>2. Attempting(row, snap[w], "commit")
    BY <1>2 DEF StoredInv, AttemptInv
  <2>3. IsFiniteSet(snap[w].completed) /\ Cardinality(snap[w].completed) \in Nat
    <3>1. IsFiniteSet(Steps(p))
      BY PlanAssumption, FS_Interval DEF Steps
    <3>2. snap[w].completed \subseteq Steps(p)
      BY <2>1 DEF RowsOf
    <3>3. QED
      BY <3>1, <3>2, FS_Subset, FS_CardinalityType
  <2>4. CASE row = NoRow
    <3> DEFINE f == Charged(row, snap[w])
    <3>1. /\ row' # NoRow
          /\ [plan |-> row'.plan, policy |-> row'.policy] \in [plan : Plans, policy : RetryPolicies]
          /\ \/ /\ row'.state = "completed"
                /\ Cardinality(row'.completed) = PlanLength[row'.plan]
                /\ row'.retries = f
             \/ \E s \in 0 + 1 .. PlanLength[row'.plan] :
                   /\ Cardinality(row'.completed) = s - 1
                   /\ row'.retries = [f EXCEPT ![s] = @ + 1]
                   /\ row'.state = IF row'.policy.policy_type = "never" \/ f[s] + 1 >= row'.policy.max_attempts
                                   THEN "failed" ELSE "waiting_retry"
      BY <1>2, <2>3, CommitIsAttempt
    <3>2. f = [s \in 1 .. PlanLength[row'.plan] |-> 0]
      BY <1>2, <2>4 DEF Charged, Steps
    <3> HIDE DEF f
    <3>3. Ledger!FirstAttempt
      BY <2>4, <3>1, <3>2 DEF Ledger!FirstAttempt, Ledger!AttemptFrom, Ledger!Exhausted
    <3>4. QED
      BY <3>3 DEF Ledger!LedgerNext
  <2>5. CASE row # NoRow
    <3> DEFINE f == Charged(row, snap[w])
               d == Cardinality(row.completed)
    <3>1. d \in Nat /\ d <= Cardinality(snap[w].completed)
      BY <2>2, <2>3, <2>5, FS_Subset, FS_CardinalityType DEF Attempting
    <3> HIDE DEF d
    <3>2. /\ row' # NoRow
          /\ [plan |-> row'.plan, policy |-> row'.policy] \in [plan : Plans, policy : RetryPolicies]
          /\ \/ /\ row'.state = "completed"
                /\ Cardinality(row'.completed) = PlanLength[row'.plan]
                /\ row'.retries = f
             \/ \E s \in d + 1 .. PlanLength[row'.plan] :
                   /\ Cardinality(row'.completed) = s - 1
                   /\ row'.retries = [f EXCEPT ![s] = @ + 1]
                   /\ row'.state = IF row'.policy.policy_type = "never" \/ f[s] + 1 >= row'.policy.max_attempts
                                   THEN "failed" ELSE "waiting_retry"
      BY <1>2, <3>1, CommitIsAttempt
    <3>3. f = row.retries /\ row'.plan = row.plan /\ row'.policy = row.policy
      BY <1>2, <2>2, <2>5 DEF Attempting, Charged
    <3>4. row.state = "waiting_retry"
      BY <1>2, <2>5, DistinctAssumption DEF StoredInv, RuntimeInv, LockedRowInv
    <3> HIDE DEF f
    <3>5. Ledger!RetryAttempt
      BY <2>5, <3>2, <3>3, <3>4 DEF d, Ledger!RetryAttempt, Ledger!AttemptFrom, Ledger!Exhausted
    <3>6. QED
      BY <3>5 DEF Ledger!LedgerNext
  <2>6. QED
    BY <2>4, <2>5
<1>3. QED
  BY <1>1, <1>2, OnlyCommits

\* The runtime implements ExecutionLedger, and every commit only appends to the history and
\* never changes an execution that is over (persist_transition, get_by_idempotency_key).
THEOREM RuntimeImplementsLedger == RuntimeSpec => ImplementsLedger
<1>1. RuntimeInit => Ledger!LedgerInit
  BY DEF RuntimeInit, Ledger!LedgerInit
<1>2. StoredInv /\ [RuntimeNext]_rtvars => [Ledger!LedgerNext]_Ledger!ledger
  BY NextIsLedgerStep
<1>3. StoredInv /\ [RuntimeNext]_rtvars => [Appends]_rtvars
  BY NextAppends
<1>4. RuntimeSpec => Ledger!LedgerSpec
  BY <1>1, <1>2, StoredInvariance, PTL DEF RuntimeSpec, Ledger!LedgerSpec
<1>5. RuntimeSpec => LedgerIsAppendOnly
  <2>1. RuntimeSpec => [][Appends]_rtvars
    BY <1>3, StoredInvariance, PTL DEF RuntimeSpec
  <2>2. QED
    BY <2>1 DEF LedgerIsAppendOnly, Appends
<1>6. QED
  BY <1>4, <1>5 DEF ImplementsLedger

-----------------------------------------------------------------------------
(* What the modules that compose the runtime use. *)

\* What a step of w leaves of the other requests.
RuntimeFrame(w) ==
    \A v \in Workers \ {w} : pc'[v] = pc[v] /\ snap'[v] = snap[v] /\ (lock' = v => lock = v)

\* A step of the runtime for w touches no other worker's transaction.
LEMMA RuntimeFrames ==
    ASSUME TypeOK, NEW w \in Workers,
           \/ UNCHANGED rtvars
           \/ Request(w) \/ BeforeStrategy(w) \/ MarkStepCompleted(w) \/ HandleFailure(w)
           \/ Complete(w) \/ Commit(w) \/ Abort(w)
    PROVE  RuntimeFrame(w)
<1> USE DistinctAssumption DEF TypeOK, RuntimeFrame
<1>1. CASE UNCHANGED rtvars
  BY <1>1 DEF rtvars
<1>2. CASE Request(w) \/ LookupMiss(w) \/ ReturnStored(w) \/ StartRead(w) \/ LoadExisting(w)
           \/ InsertExecution(w)
  BY <1>2 DEF Request, LookupMiss, ReturnStored, StartRead, LoadExisting, InsertExecution, Goto
<1>3. ASSUME NEW answer, RollBack(w, answer) PROVE RuntimeFrame(w)
  BY <1>3 DEF RollBack
<1>4. CASE PlanConflict(w) \/ StaleSnapshot(w) \/ Abort(w)
  BY <1>3, <1>4 DEF PlanConflict, StaleSnapshot, Abort
<1>5. ASSUME NEW next, NEW drafts, NEW label, PersistTransition(w, next, drafts), Goto(w, label)
      PROVE  RuntimeFrame(w)
  BY <1>5 DEF PersistTransition, Goto
<1>6. CASE Start(w)
  BY <1>5, <1>6 DEF Start
<1>7. CASE MarkStepRunning(w)
  BY <1>5, <1>7 DEF MarkStepRunning
<1>8. CASE MarkStepCompleted(w)
  BY <1>5, <1>8 DEF MarkStepCompleted
<1>9. CASE HandleFailure(w)
  BY <1>5, <1>9 DEF HandleFailure
<1>10. CASE Complete(w)
  BY <1>5, <1>10 DEF Complete
<1>11. CASE Commit(w)
  BY <1>11 DEF Commit
<1> QED
  BY <1>1, <1>2, <1>4, <1>6, <1>7, <1>8, <1>9, <1>10, <1>11 DEF BeforeStrategy

=============================================================================
