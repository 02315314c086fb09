----------------------------- MODULE VendorBillProofs -----------------------------
(***************************************************************************)
(* Proofs about VendorBillExecution, for every number of concurrent        *)
(* requests, authorizations, attempts and bills.                           *)
(*                                                                         *)
(* The composition is first shown to drive the runtime and the             *)
(* authorizations only through their own operations, so that everything    *)
(* proved of RuntimeSpec holds inside it; the invariants about Odoo and    *)
(* about the claims are then proved on top of those.                       *)
(***************************************************************************)
EXTENDS VendorBillExecution, ExecutionRuntimeProofs

-----------------------------------------------------------------------------
(* The composition implements its parts. *)

\* The requests carry the id of an authorization, or none.
WantInv == want \in [Workers -> Auths \union {NoAuth}]

LEMMA WantNext == WantInv /\ [Next]_vars => WantInv'
<1> SUFFICES ASSUME WantInv, [Next]_vars PROVE WantInv'
  OBVIOUS
<1>1. \/ want' = want
      \/ \E w \in Workers, a \in Auths \union {NoAuth} : want' = [want EXCEPT ![w] = a]
  BY DEF Next, vars, avars, ovars, RequestStep, WorkerStep, GateStep, StrategyStep, OperatorStep,
     AlreadyExecuted, ExecuteRequest, ClaimAuthorization, ClaimDenied, PreflightPasses,
     PreflightFails, RuntimeStep, RuntimeConflict, BeginStrategy, ChecksPass, ChecksFail,
     SearchFindsBill, SearchFindsNone, SearchFails, SendCreate, CreateRefused, OdooCreates,
     CreateAnswered, CreateTimesOut, Verified, VerificationFails, CommitExecution,
     ProjectResult, AbortExecution, IssueAuthorization, RevokeAuthorization,
     ExpireAuthorization, CorrectRate, LateCreate, StepFails, Leave
<1> QED BY <1>1 DEF WantInv

\* Every step of the composition is a step of the runtime, or leaves it alone.
LEMMA NextIsRuntimeStep == [Next]_vars => [RuntimeNext]_rtvars
<1> SUFFICES ASSUME [Next]_vars PROVE [RuntimeNext]_rtvars
  OBVIOUS
<1>1. ASSUME NEW w \in Workers, RequestStep(w) PROVE UNCHANGED rtvars
  BY <1>1 DEF RequestStep, AlreadyExecuted, ExecuteRequest
<1>2. ASSUME NEW w \in Workers, GateStep(w) PROVE UNCHANGED rtvars \/ Request(w)
  BY <1>2 DEF GateStep, ClaimAuthorization, ClaimDenied, PreflightPasses, PreflightFails
<1>3. ASSUME NEW w \in Workers, RuntimeStep(w) \/ RuntimeConflict(w)
      PROVE  BeforeStrategy(w) \/ Complete(w)
  BY <1>3 DEF RuntimeStep, RuntimeConflict, BeforeStrategy
<1>4. ASSUME NEW w \in Workers, StrategyStep(w)
      PROVE  UNCHANGED rtvars \/ BeforeStrategy(w) \/ MarkStepCompleted(w) \/ HandleFailure(w)
  BY <1>4 DEF StrategyStep, BeforeStrategy, BeginStrategy, ChecksPass, ChecksFail, SearchFindsBill,
     SearchFindsNone, SearchFails, SendCreate, CreateRefused, OdooCreates, CreateAnswered,
     CreateTimesOut, Verified, VerificationFails, StepFails
<1>5. ASSUME NEW w \in Workers, CommitExecution(w) \/ ProjectResult(w) \/ AbortExecution(w)
      PROVE  UNCHANGED rtvars \/ Commit(w) \/ Abort(w)
  BY <1>5 DEF CommitExecution, ProjectResult, AbortExecution
<1>6. ASSUME OperatorStep \/ LateCreate PROVE UNCHANGED rtvars
  BY <1>6 DEF OperatorStep, IssueAuthorization, RevokeAuthorization, ExpireAuthorization,
              CorrectRate, LateCreate
<1>7. CASE UNCHANGED vars
  BY <1>7 DEF vars
<1> QED
  BY <1>1, <1>2, <1>3, <1>4, <1>5, <1>6, <1>7 DEF Next, WorkerStep, RuntimeNext

\* Every step of the composition is a step of the authorizations, or leaves them alone.
LEMMA NextIsAuthStep == WantInv /\ [Next]_vars => [WA!AuthNext]_(WA!authvars)
<1> SUFFICES ASSUME WantInv, [Next]_vars PROVE [WA!AuthNext]_(WA!authvars)
  OBVIOUS
<1>0. avars = WA!authvars /\ avars' = (WA!authvars)'
  BY DEF avars, WA!authvars
<1>1. ASSUME NEW w \in Workers, DropClaim(w) PROVE UNCHANGED avars \/ WA!AuthNext
  BY <1>1 DEF DropClaim, WA!AuthNext
<1>2. ASSUME NEW w \in Workers, RequestStep(w) PROVE UNCHANGED avars
  BY <1>2 DEF RequestStep, AlreadyExecuted, ExecuteRequest
<1>3. ASSUME NEW w \in Workers, GateStep(w) PROVE UNCHANGED avars \/ WA!AuthNext
  <2>1. CASE ClaimAuthorization(w)
    <3>1. CASE want[w] = NoAuth
      BY <2>1, <3>1 DEF ClaimAuthorization
    <3>2. CASE want[w] # NoAuth
      <4>1. WA!Claim(w, want[w], ThisExecution, 1) /\ want[w] \in Auths /\ 1 \in 1 .. 1
        BY <2>1, <3>2 DEF ClaimAuthorization, WantInv
      <4> QED BY <4>1 DEF WA!AuthNext
    <3> QED BY <3>1, <3>2
  <2>2. CASE ClaimDenied(w) \/ PreflightPasses(w)
    BY <2>2 DEF ClaimDenied, PreflightPasses
  <2>3. CASE PreflightFails(w)
    BY <2>3, <1>1 DEF PreflightFails
  <2> QED BY <1>3, <2>1, <2>2, <2>3 DEF GateStep
<1>4. ASSUME NEW w \in Workers, RuntimeStep(w) \/ RuntimeConflict(w)
      PROVE  UNCHANGED avars \/ WA!AuthNext
  BY <1>1, <1>4 DEF RuntimeStep, RuntimeConflict
<1>5. ASSUME NEW w \in Workers, StrategyStep(w) PROVE UNCHANGED avars
  BY <1>5 DEF StrategyStep, BeginStrategy, ChecksPass, ChecksFail, SearchFindsBill,
     SearchFindsNone, SearchFails, SendCreate, CreateRefused, OdooCreates, CreateAnswered,
     CreateTimesOut, Verified, VerificationFails, StepFails
<1>6. ASSUME NEW w \in Workers, CommitExecution(w) \/ ProjectResult(w) \/ AbortExecution(w)
      PROVE  UNCHANGED avars \/ WA!AuthNext
  BY <1>1, <1>6 DEF CommitExecution, ProjectResult, AbortExecution, WA!AuthNext
<1>7. ASSUME OperatorStep PROVE UNCHANGED avars \/ WA!AuthNext
  <2>1. ASSUME NEW a \in Auths, IssueAuthorization(a) PROVE WA!AuthNext
    <3>1. "EXECUTE_VENDOR_BILL" \in {"EXECUTE_VENDOR_BILL"} /\ 1 \in 1 .. 1
      OBVIOUS
    <3> QED BY <2>1, <3>1 DEF IssueAuthorization, WA!AuthNext
  <2>2. ASSUME NEW a \in Auths, RevokeAuthorization(a) \/ ExpireAuthorization(a) PROVE WA!AuthNext
    BY <2>2 DEF RevokeAuthorization, ExpireAuthorization, WA!AuthNext
  <2>3. ASSUME NEW i \in DOMAIN bills, CorrectRate(i) PROVE UNCHANGED avars
    BY <2>3 DEF CorrectRate
  <2> QED BY <1>7, <2>1, <2>2, <2>3 DEF OperatorStep
<1>8. ASSUME LateCreate \/ UNCHANGED vars PROVE UNCHANGED avars
  BY <1>8 DEF LateCreate, vars
<1> QED
  BY <1>0, <1>2, <1>3, <1>4, <1>5, <1>6, <1>7, <1>8 DEF Next, WorkerStep

\* The workbench drives the runtime and the authorizations only through their own operations
\* (workbench_vendor_bill, accepted_decision_use_cases): what is proved of either holds here.
LEMMA PartsImplemented == Spec => RuntimeSpec /\ WA!AuthSpec
<1>1. Init => RuntimeInit /\ WA!AuthInit /\ WantInv
  BY DEF Init, WantInv
<1> QED
  BY <1>1, WantNext, NextIsRuntimeStep, NextIsAuthStep, PTL
  DEF Spec, RuntimeSpec, WA!AuthSpec

-----------------------------------------------------------------------------
(* The bill that a completed execution names. *)

Outside == {"none", "claim", "preflight", "project"}
Executed == {"executed", "already_executed"}
Answers == Executed \union {"none", "execution_disabled", "execution_failed", "error"}

RowDone == row # NoRow /\ row.state = "completed"

\* The lock holder has completed its step: what it commits next says that the bill exists.
Finishing(w) ==
    lock = w /\ (pc[w] = "complete" \/ (pc[w] = "commit" /\ snap[w].state = "completed"))

OdooTypes ==
    /\ at \in [Workers -> Places]
    /\ found \in [Workers -> Nat]
    /\ told \in [Workers -> Answers]
    /\ bills \in Seq({"right", "wrong"}) /\ Len(bills) <= MaxBills
    /\ late \in 0 .. MaxBills
    /\ artifact \in 0 .. Len(bills)

\* One request: its two program counters agree, and it knows the bill that its writer found or
\* created, which has the right rate once the step is completed.
Standing(w) ==
    /\ at[w] \in WriterPlaces <=> pc[w] = "strategy"
    /\ at[w] \in Outside <=> pc[w] = "idle"
    /\ found[w] <= Len(bills)
    /\ at[w] \in {"created", "verify"} => found[w] # 0
    /\ Finishing(w) => found[w] # 0 /\ bills[found[w]] = "right"
    /\ at[w] = "project" \/ told[w] \in Executed => RowDone

\* The committed step result and the workbench record.
Recorded ==
    /\ RowDone => artifact # 0 /\ bills[artifact] = "right"
    /\ artifact # 0 => RowDone
    /\ projected \in {0, artifact}

BillInv == OdooTypes /\ Recorded /\ \A w \in Workers : Standing(w)

\* EventDrafts are only added, or their rate corrected.
Grows == /\ Len(bills) <= Len(bills')
         /\ \A i \in 1 .. Len(bills) : bills[i] = "right" => bills'[i] = "right"

\* What a step of w leaves of the other requests around the runtime.
RequestFrame(w) ==
    \A v \in Workers \ {w} : at'[v] = at[v] /\ found'[v] = found[v] /\ told'[v] = told[v]

\* A request that does not move keeps what it knows, while drafts are only added and corrected
\* and a completed execution stays completed.
LEMMA OthersStand ==
    ASSUME BillInv, Grows, RowDone => RowDone', NEW v \in Workers,
           at'[v] = at[v], found'[v] = found[v], told'[v] = told[v],
           pc'[v] = pc[v], snap'[v] = snap[v], lock' = v => lock = v,
           bills' \in Seq({"right", "wrong"})
    PROVE  Standing(v)'
<1>1. Standing(v) /\ found[v] \in Nat /\ Len(bills) \in Nat /\ Len(bills') \in Nat
  BY DEF BillInv, OdooTypes
<1>2. Finishing(v)' => Finishing(v)
  BY DEF Finishing
<1>3. found[v] <= Len(bills')
  BY <1>1 DEF Standing, Grows
<1>4. Finishing(v) => found[v] # 0 /\ bills'[found[v]] = "right"
  BY <1>1 DEF Standing, Grows
<1> QED BY <1>1, <1>2, <1>3, <1>4 DEF Standing

\* So a step of one request has only that request to look at.
LEMMA OneStands ==
    ASSUME BillInv, OdooTypes', Grows, RowDone => RowDone', Recorded', NEW w \in Workers,
           Standing(w)', RuntimeFrame(w), RequestFrame(w)
    PROVE  BillInv'
<1>1. bills' \in Seq({"right", "wrong"})
  BY DEF OdooTypes
<1>2. \A v \in Workers \ {w} : Standing(v)'
  BY <1>1, OthersStand DEF RuntimeFrame, RequestFrame
<1> QED BY <1>2 DEF BillInv

\* A request that moves without the runtime, the bills or what is recorded.
LEMMA QuietStep ==
    ASSUME BillInv, NEW w \in Workers, UNCHANGED <<rtvars, ovars, artifact, projected>>,
           at' \in [Workers -> Places], found' \in [Workers -> Nat], told' \in [Workers -> Answers],
           RequestFrame(w),
           at'[w] \in WriterPlaces <=> at[w] \in WriterPlaces,
           at'[w] \in Outside <=> at[w] \in Outside,
           found'[w] <= Len(bills),
           at'[w] \in {"created", "verify"} => found'[w] # 0,
           at[w] \notin WriterPlaces \union Outside => found'[w] = found[w],
           at'[w] = "project" \/ told'[w] \in Executed => RowDone
    PROVE  BillInv'
<1>1. UNCHANGED <<row, log, lock, pc, snap, bills, late, artifact, projected>>
  BY DEF rtvars, ovars
<1>2. OdooTypes' /\ Recorded' /\ Grows /\ (RowDone => RowDone') /\ RuntimeFrame(w)
  BY <1>1 DEF BillInv, OdooTypes, Recorded, Grows, RowDone, RuntimeFrame
<1>3. Finishing(w)' => Finishing(w) /\ at[w] \notin WriterPlaces \union Outside
  BY <1>1 DEF Finishing, BillInv, Standing
<1>4. Standing(w)'
  BY <1>1, <1>3 DEF BillInv, Standing, RowDone
<1> QED BY <1>2, <1>4, OneStands

\* The steps of a request outside the runtime, and the reads of its writer.
LEMMA QuietSteps ==
    ASSUME BillInv, NEW w \in Workers,
           \/ RequestStep(w) \/ ClaimAuthorization(w) \/ ClaimDenied(w) \/ PreflightFails(w)
           \/ ChecksPass(w) \/ SearchFindsBill(w) \/ SearchFindsNone(w) \/ SendCreate(w)
           \/ CreateAnswered(w)
    PROVE  BillInv'
<1>1. /\ at \in [Workers -> Places] /\ found \in [Workers -> Nat] /\ told \in [Workers -> Answers]
      /\ Len(bills) \in Nat /\ found[w] <= Len(bills) /\ Standing(w)
  BY DEF BillInv, OdooTypes, Standing
<1>2. ASSUME NEW place \in Outside, NEW answer \in Answers, at[w] \in Outside,
             \/ UNCHANGED found
             \/ found' = [found EXCEPT ![w] = 0],
             \/ UNCHANGED told
             \/ Tell(w, answer) /\ (answer \in Executed => RowDone),
             Move(w, place), place = "project" => RowDone,
             UNCHANGED <<rtvars, ovars, artifact, projected>>
      PROVE  BillInv'
  <2>1. /\ at' \in [Workers -> Places] /\ at'[w] = place /\ told' \in [Workers -> Answers]
        /\ found' \in [Workers -> Nat] /\ found'[w] \in {0, found[w]} /\ RequestFrame(w)
    BY <1>1, <1>2 DEF Move, Tell, Outside, Places, RequestFrame
  <2>2. told'[w] \in Executed => RowDone
    BY <1>1, <1>2 DEF Tell, Standing
  <2>3. /\ at[w] \notin WriterPlaces /\ at'[w] \notin WriterPlaces /\ at'[w] \in Outside
        /\ at'[w] \notin {"created", "verify"} /\ found'[w] <= Len(bills)
        /\ at[w] \notin WriterPlaces \union Outside => found'[w] = found[w]
    BY <1>1, <1>2, <2>1 DEF Outside, WriterPlaces
  <2>4. at'[w] = "project" \/ told'[w] \in Executed => RowDone
    BY <1>2, <2>1, <2>2
  <2> QED BY <1>2, <2>1, <2>3, <2>4, QuietStep
<1>3. ASSUME NEW place \in WriterPlaces, at[w] \in WriterPlaces, Move(w, place), UNCHANGED told,
             \/ UNCHANGED found
             \/ found' = [found EXCEPT ![w] = 1] /\ Len(bills) = 1,
             place \in {"created", "verify"} => found'[w] # 0,
             UNCHANGED <<rtvars, ovars, artifact, projected>>
      PROVE  BillInv'
  <2>1. at' \in [Workers -> Places] /\ at'[w] = place /\ told' \in [Workers -> Answers]
    BY <1>1, <1>3 DEF Move, WriterPlaces, Places
  <2>2. found' \in [Workers -> Nat] /\ found'[w] <= Len(bills)
    <3>1. CASE UNCHANGED found
      BY <1>1, <3>1
    <3>2. CASE found' = [found EXCEPT ![w] = 1] /\ Len(bills) = 1
      <4>1. found' \in [Workers -> Nat] /\ found'[w] = 1
        BY <1>1, <3>2
      <4> QED BY <3>2, <4>1
    <3> QED BY <1>3, <3>1, <3>2
  <2>3. RequestFrame(w)
    BY <1>1, <1>3 DEF Move, RequestFrame
  <2>4. /\ at'[w] \in WriterPlaces /\ at'[w] \notin Outside /\ at[w] \notin Outside
        /\ at'[w] \in {"created", "verify"} => found'[w] # 0
        /\ at[w] \notin WriterPlaces \union Outside => found'[w] = found[w]
    BY <1>1, <1>3, <2>1 DEF Outside, WriterPlaces
  <2>5. at'[w] = "project" \/ told'[w] \in Executed => RowDone
    BY <1>1, <1>3, <2>4 DEF Outside, Standing
  <2> QED BY <1>3, <2>1, <2>2, <2>3, <2>4, <2>5, QuietStep
<1>4. CASE RequestStep(w)
  BY <1>2, <1>4 DEF RequestStep, AlreadyExecuted, ExecuteRequest, RowDone, Outside, Answers, Executed
<1>5. CASE ClaimAuthorization(w)
  BY <1>2, <1>5 DEF ClaimAuthorization, Outside, Answers
<1>6. CASE ClaimDenied(w)
  BY <1>2, <1>6 DEF ClaimDenied, Leave, Outside, Answers, Executed
<1>7. CASE PreflightFails(w)
  <2> DEFINE answer == IF claim[w] # NoAuth /\ want[w] \in expired
                       THEN "execution_disabled" ELSE "error"
  <2>1. answer \in Answers \ Executed
    BY DEF Answers, Executed
  <2>2. Tell(w, answer)
    BY <1>7 DEF PreflightFails
  <2> HIDE DEF answer
  <2> QED BY <1>2, <1>7, <2>1, <2>2 DEF PreflightFails, Leave, Outside
<1>8. CASE ChecksPass(w) \/ SearchFindsNone(w) \/ SendCreate(w)
  BY <1>3, <1>8 DEF ChecksPass, SearchFindsNone, SendCreate, WriterPlaces
<1>9. CASE SearchFindsBill(w)
  BY <1>1, <1>3, <1>9 DEF SearchFindsBill, WriterPlaces
<1>10. CASE CreateAnswered(w)
  BY <1>1, <1>3, <1>10 DEF CreateAnswered, WriterPlaces, Standing
<1> QED BY <1>4, <1>5, <1>6, <1>7, <1>8, <1>9, <1>10

\* A completed execution is never written again.
LEMMA DoneStays ==
    ASSUME StoredInv, [Next]_vars
    PROVE  RowDone => row' = row /\ RowDone'
<1>1. Appends
  BY NextIsRuntimeStep, NextAppends
<1> QED BY <1>1 DEF Appends, RowDone, TerminalStates

\* EventDrafts that appear in Odoo.
LEMMA AppendedBill ==
    ASSUME bills \in Seq({"right", "wrong"}), NEW rate \in {"right", "wrong"},
           bills' = Append(bills, rate)
    PROVE  /\ Grows /\ bills' \in Seq({"right", "wrong"}) /\ Len(bills') = Len(bills) + 1
           /\ Len(bills) \in Nat
BY DEF Grows

\* Odoo's own steps and the operator's: no request moves.
LEMMA OdooSteps ==
    ASSUME BillInv, OperatorStep \/ LateCreate \/ UNCHANGED vars
    PROVE  BillInv'
<1>1. UNCHANGED rtvars /\ UNCHANGED <<at, found, told, artifact, projected>>
  BY DEF OperatorStep, LateCreate, vars, IssueAuthorization, RevokeAuthorization,
         ExpireAuthorization, CorrectRate
<1>2. \/ UNCHANGED ovars
      \/ \E i \in DOMAIN bills : bills[i] = "wrong" /\ bills' = [bills EXCEPT ![i] = "right"]
                                 /\ late' = late
      \/ \E rate \in {"right", "wrong"} : bills' = Append(bills, rate) /\ Len(bills) < MaxBills
                                          /\ late > 0 /\ late' = late - 1
  BY DEF OperatorStep, LateCreate, vars, IssueAuthorization, RevokeAuthorization,
         ExpireAuthorization, CorrectRate
<1>3. Grows /\ bills' \in Seq({"right", "wrong"}) /\ Len(bills') <= MaxBills /\ late' \in 0 .. MaxBills
  <2>0. bills \in Seq({"right", "wrong"}) /\ Len(bills) <= MaxBills /\ late \in 0 .. MaxBills
        /\ MaxBills \in Nat
    BY VendorBillConstants DEF BillInv, OdooTypes
  <2>1. CASE UNCHANGED ovars
    BY <2>0, <2>1 DEF ovars, Grows
  <2>2. CASE \E i \in DOMAIN bills : bills[i] = "wrong" /\ bills' = [bills EXCEPT ![i] = "right"]
                                     /\ late' = late
    BY <2>0, <2>2 DEF Grows
  <2>3. CASE \E rate \in {"right", "wrong"} : bills' = Append(bills, rate) /\ Len(bills) < MaxBills
                                              /\ late > 0 /\ late' = late - 1
    BY <2>0, <2>3, AppendedBill
  <2> QED BY <1>2, <2>1, <2>2, <2>3
<1>4. /\ UNCHANGED <<row, lock, pc, snap>> /\ (RowDone => RowDone')
  BY <1>1 DEF rtvars, RowDone
<1>5. \A v \in Workers : Standing(v)'
  BY <1>1, <1>3, <1>4, OthersStand
<1>6. artifact \in 0 .. Len(bills') /\ (artifact # 0 /\ bills[artifact] = "right" => bills'[artifact] = "right")
  BY <1>3 DEF BillInv, OdooTypes, Grows
<1>7. OdooTypes' /\ Recorded'
  BY <1>1, <1>3, <1>4, <1>6 DEF BillInv, OdooTypes, Recorded, RowDone
<1> QED BY <1>5, <1>7 DEF BillInv

\* The committed record is untouched by a step that commits nothing.
LEMMA StillRecorded ==
    ASSUME BillInv, UNCHANGED <<row, artifact, projected>>, Grows, bills' \in Seq({"right", "wrong"})
    PROVE  Recorded' /\ artifact' \in 0 .. Len(bills') /\ (RowDone => RowDone')
<1>1. artifact \in 0 .. Len(bills') /\ (artifact # 0 /\ bills[artifact] = "right" => bills'[artifact] = "right")
  BY DEF BillInv, OdooTypes, Grows
<1> QED BY <1>1 DEF BillInv, Recorded, RowDone

\* The runtime's own steps: w stays inside the runtime, and finishes only what was finished.
LEMMA RuntimeStepEffect ==
    ASSUME StoredInv, NEW w \in Workers,
           \/ LookupMiss(w) \/ LoadExisting(w) \/ InsertExecution(w) \/ ReturnStored(w)
           \/ StartRead(w) \/ Start(w) \/ Complete(w)
    PROVE  /\ pc'[w] \in {"insert", "execute", "commit", "start", "step"}
           /\ Finishing(w)' => Finishing(w)
           /\ row' = row
<1>0. TypeOK /\ LockInv /\ PositionInv
  BY DEF StoredInv, RuntimeInv
<1>1. CASE LookupMiss(w) \/ LoadExisting(w) \/ InsertExecution(w) \/ StartRead(w)
  BY <1>0, <1>1 DEF LookupMiss, LoadExisting, InsertExecution, StartRead, Goto, TypeOK, Finishing
<1>2. CASE ReturnStored(w)
  BY <1>0, <1>2 DEF ReturnStored, Goto, TypeOK, PositionInv, TerminalStates, Finishing
<1>3. CASE Start(w)
  BY <1>0, <1>3 DEF Start, Goto, TypeOK, Finishing
<1>4. CASE Complete(w)
  BY <1>0, <1>4 DEF Complete, Goto, TypeOK, LockInv, Finishing
<1> QED BY <1>1, <1>2, <1>3, <1>4

\* A step that failed leaves an execution that is not completed.
LEMMA FailureEffect ==
    ASSUME StoredInv, NEW w \in Workers, HandleFailure(w)
    PROVE  pc'[w] = "commit" /\ ~ Finishing(w)' /\ row' = row
<1>1. PICK p \in Plans : snap[w] \in RowsOf(p) /\ snap[w].plan = p
  BY SnapshotOfPlan DEF StoredInv, RuntimeInv, HandleFailure, InTransaction
<1> DEFINE s == snap[w].current
           next == StepLost(snap[w], s)
           n == Len(FailureDrafts(snap[w], s))
<1>2. s \in Steps(p) /\ TypeOK
  BY <1>1 DEF HandleFailure, StoredInv, RuntimeInv, PositionInv
<1>3. next \in RowsOf(p) /\ next.state # "completed"
  <2>1. next \in RowsOf(p)
    BY <1>1, <1>2, StepLostType
  <2>2. next.state \in {"waiting_retry", "failed"}
    BY <1>1, <1>2, StepLostFields
  <2> HIDE DEF next
  <2> QED BY <2>1, <2>2
<1>4. n = 2
  BY DEF FailureDrafts
<1>5. snap'[w] = Written(next, n) /\ pc'[w] = "commit"
  BY <1>2, PersistSnapshot DEF HandleFailure
<1> HIDE DEF next, n
<1>6. snap'[w].state = next.state
  BY <1>3, <1>4, <1>5, WrittenCheckpoint
<1> QED BY <1>3, <1>5, <1>6 DEF Finishing, HandleFailure

\* The strategy starts.
LEMMA BeginEffect ==
    ASSUME StoredInv, NEW w \in Workers, MarkStepRunning(w)
    PROVE  pc'[w] = "strategy" /\ ~ Finishing(w)' /\ row' = row
BY DEF StoredInv, RuntimeInv, TypeOK, MarkStepRunning, Goto, Finishing

\* The steps of a request inside the runtime that commit nothing and leave the bills alone.
LEMMA InnerSteps ==
    ASSUME BillInv, StoredInv, NEW w \in Workers,
           \/ PreflightPasses(w) \/ RuntimeStep(w) \/ RuntimeConflict(w) \/ BeginStrategy(w)
           \/ ChecksFail(w) \/ SearchFails(w) \/ CreateRefused(w) \/ CreateTimesOut(w)
           \/ VerificationFails(w) \/ Verified(w) \/ AbortExecution(w)
    PROVE  BillInv'
<1>1. /\ at \in [Workers -> Places] /\ found \in [Workers -> Nat] /\ told \in [Workers -> Answers]
      /\ bills \in Seq({"right", "wrong"}) /\ Len(bills) \in Nat /\ Standing(w) /\ TypeOK
      /\ late \in 0 .. MaxBills /\ MaxBills \in Nat
  BY VendorBillConstants DEF BillInv, OdooTypes, StoredInv, RuntimeInv
<1>2. \A places : Abandoned(w, places) \in 0 .. MaxBills
  BY <1>1 DEF Abandoned
<1>3. /\ UNCHANGED <<bills, artifact, projected>> /\ late' \in 0 .. MaxBills
      /\ RuntimeFrame(w)
  BY <1>1, <1>2, RuntimeFrames DEF ovars, StepFails, BeforeStrategy, PreflightPasses, RuntimeStep,
     RuntimeConflict, BeginStrategy, ChecksFail, SearchFails, CreateRefused, CreateTimesOut,
     VerificationFails, Verified, AbortExecution
<1>4. Grows
  BY <1>3 DEF Grows
<1>5. ASSUME NEW place \in Places, row' = row, Move(w, place),
             UNCHANGED found, UNCHANGED told, pc'[w] \notin {"idle"}, place \notin Outside,
             place \in WriterPlaces <=> pc'[w] = "strategy",
             place \notin {"created", "verify"},
             Finishing(w)' => Finishing(w) \/ (found[w] # 0 /\ bills[found[w]] = "right")
      PROVE  BillInv'
  <2>1. OdooTypes' /\ Recorded' /\ (RowDone => RowDone')
    BY <1>1, <1>3, <1>4, <1>5, StillRecorded DEF BillInv, OdooTypes, Move
  <2>2. RequestFrame(w) /\ at'[w] = place
    BY <1>1, <1>5 DEF RequestFrame, Move
  <2>3. Standing(w)'
    BY <1>1, <1>3, <1>5, <2>1, <2>2 DEF Standing, Outside
  <2> QED BY <1>3, <1>4, <2>1, <2>2, <2>3, OneStands
<1>6. ASSUME NEW answer \in Answers \ Executed, row' = row, Leave(w), Tell(w, answer), pc'[w] = "idle"
      PROVE  BillInv'
  <2>1. OdooTypes' /\ Recorded' /\ (RowDone => RowDone')
    BY <1>1, <1>3, <1>4, <1>6, StillRecorded DEF BillInv, OdooTypes, Leave, Move, Tell, Places
  <2>2. RequestFrame(w) /\ at'[w] = "none" /\ found'[w] = 0 /\ told'[w] = answer
    BY <1>1, <1>6 DEF RequestFrame, Leave, Move, Tell
  <2>3. Standing(w)'
    BY <1>1, <1>3, <1>6, <2>1, <2>2 DEF Standing, Outside, WriterPlaces, Finishing
  <2> QED BY <1>3, <1>4, <2>1, <2>2, <2>3, OneStands
<1>7. CASE PreflightPasses(w)
  <2>1. pc'[w] = "lookup" /\ row' = row /\ ~ Finishing(w)'
    BY <1>1, <1>7 DEF PreflightPasses, Request, Goto, TypeOK, Finishing
  <2> QED BY <1>5, <1>7, <2>1 DEF PreflightPasses, Places, Outside, WriterPlaces
<1>8. CASE RuntimeStep(w)
  <2>1. /\ pc'[w] \in {"insert", "execute", "commit", "start", "step"} /\ row' = row
        /\ Finishing(w)' => Finishing(w)
    BY <1>8, RuntimeStepEffect DEF RuntimeStep
  <2>2. at' = at /\ at[w] = "runtime" /\ Move(w, "runtime") /\ UNCHANGED found /\ UNCHANGED told
    BY <1>1, <1>8 DEF RuntimeStep, Move
  <2> QED BY <1>5, <2>1, <2>2 DEF Places, Outside, WriterPlaces
<1>9. CASE RuntimeConflict(w)
  <2>1. pc'[w] = "idle" /\ row' = row
    BY <1>1, <1>9 DEF RuntimeConflict, StaleSnapshot, RollBack, TypeOK
  <2> QED BY <1>6, <1>9, <2>1 DEF RuntimeConflict, Answers, Executed
<1>10. CASE BeginStrategy(w)
  <2>1. pc'[w] = "strategy" /\ ~ Finishing(w)' /\ row' = row
    BY <1>10, BeginEffect DEF BeginStrategy
  <2> QED BY <1>5, <1>10, <2>1 DEF BeginStrategy, Places, Outside, WriterPlaces
<1>11. CASE ChecksFail(w) \/ SearchFails(w) \/ CreateRefused(w) \/ CreateTimesOut(w)
            \/ VerificationFails(w)
  <2>1. StepFails(w)
    BY <1>11 DEF ChecksFail, SearchFails, CreateRefused, CreateTimesOut, VerificationFails
  <2>2. pc'[w] = "commit" /\ ~ Finishing(w)' /\ row' = row
    BY <2>1, FailureEffect DEF StepFails
  <2> QED BY <1>5, <2>1, <2>2 DEF StepFails, Places, Outside, WriterPlaces
<1>12. CASE Verified(w)
  <2>1. pc'[w] \in {"complete", "step"} /\ row' = row
    BY <1>1, <1>12 DEF Verified, MarkStepCompleted, Goto, TypeOK
  <2>2. found[w] # 0 /\ bills[found[w]] = "right"
    BY <1>1, <1>12 DEF Verified, Standing
  <2> QED BY <1>5, <1>12, <2>1, <2>2 DEF Verified, Places, Outside, WriterPlaces
<1>13. CASE AbortExecution(w)
  <2>1. pc'[w] = "idle" /\ row' = row
    BY <1>1, <1>13 DEF AbortExecution, Abort, RollBack, TypeOK
  <2> QED BY <1>6, <1>13, <2>1 DEF AbortExecution, Answers, Executed
<1> QED BY <1>7, <1>8, <1>9, <1>10, <1>11, <1>12, <1>13

\* Odoo commits the draft of the request that waits for it.
LEMMA CreateStep ==
    ASSUME BillInv, NEW w \in Workers, OdooCreates(w)
    PROVE  BillInv'
<1>1. /\ at \in [Workers -> Places] /\ found \in [Workers -> Nat] /\ told \in [Workers -> Answers]
      /\ bills \in Seq({"right", "wrong"}) /\ Len(bills) \in Nat /\ Standing(w) /\ MaxBills \in Nat
  BY VendorBillConstants DEF BillInv, OdooTypes
<1>2. PICK rate \in {"right", "wrong"} : bills' = Append(bills, rate)
  BY DEF OdooCreates
<1>3. Grows /\ bills' \in Seq({"right", "wrong"}) /\ Len(bills') = Len(bills) + 1
  BY <1>1, <1>2, AppendedBill
<1>4. /\ UNCHANGED <<row, lock, pc, snap, late, artifact, projected, told>>
      /\ at[w] = "sent" /\ at' = [at EXCEPT ![w] = "created"] /\ Len(bills) < MaxBills
      /\ found' = [found EXCEPT ![w] = Len(bills) + 1]
  BY DEF OdooCreates, rtvars, Move
<1>5. Recorded' /\ artifact' \in 0 .. Len(bills') /\ (RowDone => RowDone')
  BY <1>3, <1>4, StillRecorded
<1>6. OdooTypes'
  BY <1>1, <1>3, <1>4, <1>5 DEF BillInv, OdooTypes, Places
<1>7. RequestFrame(w) /\ RuntimeFrame(w)
  BY <1>1, <1>4 DEF RequestFrame, RuntimeFrame
<1>8. at'[w] = "created" /\ found'[w] = Len(bills')
  BY <1>1, <1>3, <1>4
<1>9. ~ Finishing(w)'
  BY <1>1, <1>4 DEF Finishing, Standing, WriterPlaces
<1>10. Standing(w)'
  BY <1>1, <1>3, <1>4, <1>5, <1>8, <1>9 DEF Standing, WriterPlaces, Outside
<1> QED BY <1>3, <1>5, <1>6, <1>7, <1>10, OneStands

\* The published projection shows the recorded bill, or what it showed before.
LEMMA ProjectStep ==
    ASSUME BillInv, NEW w \in Workers, ProjectResult(w)
    PROVE  BillInv'
<1>1. /\ at \in [Workers -> Places] /\ found \in [Workers -> Nat] /\ told \in [Workers -> Answers]
      /\ Len(bills) \in Nat /\ Standing(w)
  BY DEF BillInv, OdooTypes
<1>2. /\ UNCHANGED <<row, lock, pc, snap, bills, late, artifact, told>> /\ at[w] = "project"
      /\ at' = [at EXCEPT ![w] = "none"] /\ found' = [found EXCEPT ![w] = 0]
      /\ projected' \in {artifact, projected}
  BY DEF ProjectResult, rtvars, ovars, Leave, Move
<1>3. OdooTypes' /\ Recorded' /\ Grows /\ (RowDone => RowDone')
  BY <1>1, <1>2 DEF BillInv, OdooTypes, Recorded, Grows, RowDone, Places
<1>4. RequestFrame(w) /\ RuntimeFrame(w) /\ at'[w] = "none" /\ found'[w] = 0
  BY <1>1, <1>2 DEF RequestFrame, RuntimeFrame
<1>5. ~ Finishing(w)'
  BY <1>1, <1>2 DEF Finishing, Standing, Outside
<1>6. Standing(w)'
  BY <1>1, <1>2, <1>3, <1>4, <1>5 DEF Standing, WriterPlaces, Outside, RowDone
<1> QED BY <1>3, <1>4, <1>6, OneStands

\* The commit records the bill of the step that it completes.
LEMMA CommitStep ==
    ASSUME BillInv, StoredInv, StoredInv', [Next]_vars, NEW w \in Workers, CommitExecution(w)
    PROVE  BillInv'
<1>1. /\ at \in [Workers -> Places] /\ found \in [Workers -> Nat] /\ told \in [Workers -> Answers]
      /\ bills \in Seq({"right", "wrong"}) /\ Len(bills) \in Nat /\ Standing(w) /\ TypeOK
      /\ AnswerIsDurable'
  BY DEF BillInv, OdooTypes, StoredInv, RuntimeInv
<1> DEFINE place == IF reply'[w] = "executed" THEN "project" ELSE "none"
           answer == CASE reply'[w] = "executed" -> "executed"
                       [] reply'[w] = "error"    -> "error"
                       [] OTHER                  -> "execution_failed"
<1>2. /\ UNCHANGED <<bills, late, projected>> /\ at[w] = "runtime" /\ pc[w] = "commit"
      /\ at' = [at EXCEPT ![w] = place] /\ found' = [found EXCEPT ![w] = 0]
      /\ told' = [told EXCEPT ![w] = answer] /\ pc'[w] = "idle"
      /\ artifact' = IF lock = w /\ snap[w].state = "completed" THEN found[w] ELSE artifact
      /\ row' = IF lock = w THEN snap[w] ELSE row
  BY <1>1 DEF CommitExecution, ovars, Move, Tell, Commit, TypeOK
<1>3. /\ place \in {"project", "none"} /\ answer \in Answers /\ place \in Places /\ place \in Outside
      /\ place = "project" \/ answer \in Executed => reply'[w] = "executed"
  BY DEF Answers, Executed, Places, Outside
<1>4. reply'[w] = "executed" => RowDone'
  BY <1>1 DEF AnswerIsDurable, RowDone
<1> HIDE DEF place, answer
<1>5. Grows
  BY <1>2 DEF Grows
<1>6. RowDone => row' = row /\ RowDone'
  BY DoneStays
<1>7. artifact' \in 0 .. Len(bills) /\ Recorded'
  <2>1. CASE lock = w /\ snap[w].state = "completed"
    <3>1. Finishing(w)
      BY <1>2, <2>1 DEF Finishing
    <3>2. found[w] \in 1 .. Len(bills) /\ bills[found[w]] = "right"
      BY <1>1, <3>1 DEF Standing
    <3>3. snap[w] # NoRow /\ ~ RowDone
      BY <1>2, <2>1, DistinctAssumption
      DEF StoredInv, RuntimeInv, LockInv, LockedRowInv, InTransaction, RowDone
    <3>4. projected = 0
      BY <3>3 DEF BillInv, Recorded
    <3> QED BY <1>2, <2>1, <3>2, <3>3, <3>4 DEF Recorded, RowDone
  <2>2. CASE lock = w /\ snap[w].state # "completed"
    <3>1. ~ RowDone /\ row' = snap[w]
      BY <1>2, <2>2, DistinctAssumption DEF StoredInv, RuntimeInv, LockedRowInv, RowDone
    <3> QED BY <1>2, <2>2, <3>1 DEF BillInv, OdooTypes, Recorded, RowDone
  <2>3. CASE lock # w
    BY <1>2, <2>3 DEF BillInv, OdooTypes, Recorded, RowDone
  <2> QED BY <2>1, <2>2, <2>3
<1>8. OdooTypes'
  BY <1>1, <1>2, <1>3, <1>7 DEF BillInv, OdooTypes
<1>9. RuntimeFrame(w)
  BY <1>1, RuntimeFrames DEF CommitExecution
<1>10. RequestFrame(w) /\ at'[w] = place /\ found'[w] = 0 /\ told'[w] = answer
  BY <1>1, <1>2 DEF RequestFrame
<1>11. Standing(w)'
  BY <1>1, <1>2, <1>3, <1>4, <1>10 DEF Standing, WriterPlaces, Outside, Finishing
<1> QED BY <1>5, <1>6, <1>7, <1>8, <1>9, <1>10, <1>11, OneStands

\* Every step keeps the bill of a completed execution in place.
LEMMA BillNext == BillInv /\ StoredInv /\ StoredInv' /\ [Next]_vars => BillInv'
<1> SUFFICES ASSUME BillInv, StoredInv, StoredInv', [Next]_vars PROVE BillInv'
  OBVIOUS
<1>1. ASSUME NEW w \in Workers, RequestStep(w) \/ WorkerStep(w) \/ AbortExecution(w) PROVE BillInv'
  BY <1>1, QuietSteps, InnerSteps, CreateStep, ProjectStep, CommitStep
  DEF WorkerStep, GateStep, StrategyStep
<1>2. CASE OperatorStep \/ LateCreate \/ UNCHANGED vars
  BY <1>2, OdooSteps
<1> QED BY <1>1, <1>2 DEF Next

\* Nothing is asked, found or recorded at the start.
LEMMA BillStart == Init => BillInv
<1> SUFFICES ASSUME Init PROVE BillInv
  OBVIOUS
<1>1. OdooTypes /\ Recorded
  BY VendorBillConstants DEF Init, OdooTypes, Recorded, RowDone, RuntimeInit, Places, Answers
<1>2. \A w \in Workers : Standing(w)
  BY DistinctAssumption
  DEF Init, Standing, RuntimeInit, WriterPlaces, Outside, Finishing, Executed
<1> QED BY <1>1, <1>2 DEF BillInv

\* What is proved of the runtime holds in the composition, and the bills are accounted for.
LEMMA BillInvariance == Spec => [](StoredInv /\ BillInv)
<1>1. Spec => []StoredInv
  BY PartsImplemented, StoredInvariance, PTL
<1> QED BY <1>1, BillStart, BillNext, PTL DEF Spec

\* A completed execution names a bill that exists in Odoo and was verified, whichever attempt
\* created it; the workbench shows no other bill and answers executed of no other execution.
THEOREM CompletedBill == Spec => []CompletedHasItsBill
<1>1. BillInv => CompletedHasItsBill
  <2> SUFFICES ASSUME BillInv PROVE CompletedHasItsBill
    OBVIOUS
  <2>1. artifact # 0 => artifact \in DOMAIN bills
    BY DEF BillInv, OdooTypes
  <2> QED BY <2>1 DEF BillInv, Recorded, Standing, CompletedHasItsBill, RowDone, Executed
<1> QED BY <1>1, BillInvariance, PTL

-----------------------------------------------------------------------------
(* One bill of the Hub's own. *)

\* The search that found no bill is still right when the draft is created, but for the creates
\* that Odoo processed in between although their callers had left: the writers that are still
\* there exclude each other.
OneBillInv ==
    /\ strays \in 0 .. Len(bills)
    /\ Len(bills) <= 1 + strays
    /\ \A w \in Workers : at[w] \in {"create", "sent"} => Len(bills) <= strays
    /\ ~ LateArrivals => late = 0 /\ strays = 0

\* One step.
LEMMA OneBillNext ==
    OneBillInv /\ BillInv /\ StoredInv /\ [Next]_vars => OneBillInv'
<1> SUFFICES ASSUME OneBillInv, BillInv, StoredInv, [Next]_vars PROVE OneBillInv'
  OBVIOUS
<1>0. /\ bills \in Seq({"right", "wrong"}) /\ Len(bills) \in Nat /\ at \in [Workers -> Places]
      /\ late \in Nat /\ strays \in Nat /\ strays <= Len(bills) /\ Len(bills) <= 1 + strays
      /\ ~ LateArrivals => late = 0 /\ strays = 0
  BY VendorBillConstants DEF BillInv, OdooTypes, OneBillInv
<1>1. ASSUME NEW w \in Workers, OdooCreates(w) PROVE OneBillInv'
  <2>1. /\ at[w] = "sent" /\ Len(bills) <= strays /\ UNCHANGED <<late, strays>>
        /\ at' = [at EXCEPT ![w] = "created"]
    BY <1>1 DEF OdooCreates, OneBillInv, Move
  <2>2. Len(bills') = Len(bills) + 1
    BY <1>0, <1>1, AppendedBill DEF OdooCreates
  <2>3. \A v \in Workers : at[v] \in {"create", "sent"} => v = w
    BY <2>1, DistinctAssumption
    DEF BillInv, Standing, WriterPlaces, StoredInv, RuntimeInv, LockInv
  <2> QED BY <1>0, <2>1, <2>2, <2>3 DEF OneBillInv
<1>2. ASSUME UNCHANGED bills, strays' = strays, ~ LateArrivals => late' = late,
             \A v \in Workers : at'[v] \in {"create", "sent"} =>
                 at[v] \in {"create", "sent"} \/ Len(bills) = 0
      PROVE  OneBillInv'
  BY <1>0, <1>2 DEF OneBillInv
<1>3. ~ LateArrivals => \A w, places : Abandoned(w, places) = late
  BY DEF Abandoned
<1>4. ASSUME NEW w \in Workers, RequestStep(w) \/ WorkerStep(w) \/ AbortExecution(w), ~ OdooCreates(w)
      PROVE  UNCHANGED <<bills, strays>> /\ (~ LateArrivals => late' = late)
  BY <1>3, <1>4 DEF RequestStep, WorkerStep, GateStep, StrategyStep, ovars,
     AlreadyExecuted, ExecuteRequest, ClaimAuthorization, ClaimDenied, PreflightPasses,
     PreflightFails, RuntimeStep, RuntimeConflict, BeginStrategy, ChecksPass, ChecksFail,
     SearchFindsBill, SearchFindsNone, SearchFails, SendCreate, CreateRefused,
     CreateAnswered, CreateTimesOut, Verified, VerificationFails, CommitExecution,
     ProjectResult, AbortExecution
<1>5. ASSUME NEW w \in Workers, RequestStep(w) \/ WorkerStep(w) \/ AbortExecution(w), ~ OdooCreates(w)
      PROVE  \A v \in Workers : at'[v] \in {"create", "sent"} =>
                 at[v] \in {"create", "sent"} \/ Len(bills) = 0
  <2>1. ASSUME NEW place, Move(w, place), place \notin {"create", "sent"}
        PROVE  \A v \in Workers : at'[v] \in {"create", "sent"} => at[v] \in {"create", "sent"}
    BY <1>0, <2>1 DEF Move
  <2>2. CASE SearchFindsNone(w) \/ SendCreate(w)
    BY <1>0, <2>2 DEF SearchFindsNone, SendCreate, Move
  <2>3. CASE RuntimeStep(w)
    BY <2>3 DEF RuntimeStep
  <2>4. CASE RequestStep(w) \/ ClaimAuthorization(w) \/ ClaimDenied(w) \/ PreflightPasses(w)
             \/ PreflightFails(w) \/ RuntimeConflict(w) \/ BeginStrategy(w) \/ ChecksPass(w)
    BY <2>1, <2>4 DEF RequestStep, AlreadyExecuted, ExecuteRequest, ClaimAuthorization,
       ClaimDenied, PreflightPasses, PreflightFails, RuntimeConflict, BeginStrategy, ChecksPass, Leave
  <2>5. CASE ChecksFail(w) \/ SearchFindsBill(w) \/ SearchFails(w) \/ CreateRefused(w)
             \/ CreateAnswered(w) \/ CreateTimesOut(w) \/ Verified(w) \/ VerificationFails(w)
    BY <2>1, <2>5 DEF ChecksFail, SearchFindsBill, SearchFails, CreateRefused, CreateAnswered,
       CreateTimesOut, Verified, VerificationFails, StepFails
  <2>6. CASE CommitExecution(w)
    <3> DEFINE place == IF reply'[w] = "executed" THEN "project" ELSE "none"
    <3>1. Move(w, place) /\ place \notin {"create", "sent"}
      BY <2>6 DEF CommitExecution
    <3> HIDE DEF place
    <3> QED BY <2>1, <3>1
  <2>7. CASE ProjectResult(w) \/ AbortExecution(w)
    BY <2>1, <2>7 DEF ProjectResult, AbortExecution, Leave
  <2> QED
    BY <1>5, <2>2, <2>3, <2>4, <2>5, <2>6, <2>7 DEF WorkerStep, GateStep, StrategyStep
<1>6. ASSUME OperatorStep \/ UNCHANGED vars PROVE OneBillInv'
  <2>1. at' = at /\ UNCHANGED <<late, strays>> /\ Len(bills') = Len(bills)
    <3>1. ASSUME NEW i \in DOMAIN bills, CorrectRate(i)
          PROVE  at' = at /\ UNCHANGED <<late, strays>> /\ Len(bills') = Len(bills)
      BY <1>0, <3>1 DEF CorrectRate
    <3> QED
      BY <1>6, <3>1 DEF OperatorStep, vars, ovars, IssueAuthorization, RevokeAuthorization,
         ExpireAuthorization
  <2> QED BY <1>0, <2>1 DEF OneBillInv
<1>7. ASSUME LateCreate PROVE OneBillInv'
  <2>1. /\ at' = at /\ strays' = strays + 1 /\ Len(bills') = Len(bills) + 1
        /\ LateArrivals
    BY <1>0, <1>7, AppendedBill DEF LateCreate
  <2> QED BY <1>0, <2>1 DEF OneBillInv
<1> QED BY <1>1, <1>2, <1>4, <1>5, <1>6, <1>7 DEF Next

LEMMA OneBillInvariance == Spec => []OneBillInv
<1>1. Init => OneBillInv
  BY DEF Init, OneBillInv
<1> QED BY <1>1, OneBillNext, BillInvariance, PTL DEF Spec

\* However many requests race, crash, lose their answers or their commits and are repeated, the
\* Hub adds one draft for the decision at most: the row lock is held across the search and the
\* create.  Every other draft is a create that Odoo processed after its caller had given up.
THEOREM OneBill == Spec => []OneAwaitedBill
<1>1. OneBillInv => OneAwaitedBill
  BY DEF OneBillInv, OneAwaitedBill
<1> QED BY <1>1, OneBillInvariance, PTL

\* In particular there is one draft at most as long as Odoo processes no such create.
LEMMA OneBillInTime == Spec => [](~ LateArrivals => AtMostOneBill)
<1>1. BillInv /\ OneBillInv => (~ LateArrivals => AtMostOneBill)
  BY DEF BillInv, OdooTypes, OneBillInv, AtMostOneBill
<1> QED BY <1>1, BillInvariance, OneBillInvariance, PTL

-----------------------------------------------------------------------------
(* The authorizations inside the composition. *)

\* The types of the authorizations, and that a claim has its row to itself.
AuthPart == WA!AuthTypeOK /\ WA!ClaimIsExclusive

\* The row of an authorization after one more use by this execution.
LEMMA ConsumedHere ==
    ASSUME NEW r \in WA!AuthRows
    PROVE  LET x == WA!ConsumedRow(r, ThisExecution) IN
           x \in WA!AuthRows /\ x # NoAuth /\ x.uses = r.uses + 1
<1> DEFINE r1 == [r EXCEPT !.status = "consumed"]
           r2 == [r1 EXCEPT !.consumer = ThisExecution]
           r3 == [r2 EXCEPT !.uses = @ + 1]
<1>1. r1 \in WA!AuthRows /\ r1.uses = r.uses
  BY DEF WA!AuthRows
<1> HIDE DEF r1
<1>2. r2 \in WA!AuthRows /\ r2.uses = r.uses
  BY <1>1 DEF WA!AuthRows
<1> HIDE DEF r2
<1>3. r3 \in WA!AuthRows /\ r3.uses = r.uses + 1
  BY <1>2 DEF WA!AuthRows
<1> HIDE DEF r3
<1>4. WA!ConsumedRow(r, ThisExecution) = r3
  BY DEF WA!ConsumedRow, r1, r2, r3
<1> QED BY <1>3, <1>4, VendorBillConstants

\* A step of the authorizations keeps their types and the exclusion of claims.  (The general
\* theorem, for any operations and consumers, is ClaimsAreExclusive of WriteAuthorizationProofs;
\* here every consumer is this execution.)
LEMMA AuthPartNext == AuthPart /\ [WA!AuthNext]_(WA!authvars) => AuthPart'
<1> SUFFICES ASSUME AuthPart, [WA!AuthNext]_(WA!authvars) PROVE AuthPart'
  OBVIOUS
<1> USE VendorBillConstants, DistinctAssumption
<1>0. /\ auth \in [Auths -> WA!AuthRows \union {NoAuth}] /\ expired \subseteq Auths
      /\ version \in Nat \ {0} /\ authLock \in [Auths -> Workers \union {NoWorker}]
      /\ claim \in [Workers -> WA!Claims \union {NoAuth}]
  BY DEF AuthPart, WA!AuthTypeOK
<1>1. \A x \in Workers : claim[x] # NoAuth =>
          claim[x].auth \in Auths /\ claim[x].consumer = ThisExecution
  BY <1>0 DEF WA!Claims
<1>2. ASSUME NEW a \in Auths, NEW r \in WA!AuthRows, auth' = [auth EXCEPT ![a] = r],
             expired' \subseteq Auths, UNCHANGED <<version, authLock, claim>>,
             authLock[a] = NoWorker \/ auth[a] = NoAuth
      PROVE  AuthPart'
  <2>1. WA!AuthTypeOK'
    BY <1>0, <1>2 DEF WA!AuthTypeOK
  <2>2. \A x \in Workers : claim[x] # NoAuth => claim[x].auth # a
    BY <1>2 DEF AuthPart, WA!ClaimIsExclusive
  <2>3. WA!ClaimIsExclusive'
    BY <1>0, <1>1, <1>2, <2>2 DEF AuthPart, WA!ClaimIsExclusive
  <2> QED BY <2>1, <2>3 DEF AuthPart
<1>3. ASSUME NEW a \in Auths, NEW op \in {"EXECUTE_VENDOR_BILL"}, NEW v \in 1 .. 1, WA!Issue(a, op, v)
      PROVE  AuthPart'
  <2>1. WA!IssuedRow(op, v) \in WA!AuthRows
    BY DEF WA!IssuedRow, WA!AuthRows
  <2> QED BY <1>0, <1>2, <1>3, <2>1 DEF WA!Issue
<1>4. ASSUME NEW a \in Auths, WA!Revoke(a) PROVE AuthPart'
  <2> DEFINE r == [auth[a] EXCEPT !.status = "revoked"]
  <2>1. r \in WA!AuthRows
    BY <1>0, <1>4 DEF WA!Revoke, WA!AuthRows
  <2>2. auth' = [auth EXCEPT ![a] = r] /\ UNCHANGED <<expired, version, authLock, claim>>
        /\ authLock[a] = NoWorker
    BY <1>4 DEF WA!Revoke
  <2> HIDE DEF r
  <2> QED BY <1>0, <1>2, <2>1, <2>2
<1>5. CASE (\E a \in Auths : WA!Expire(a)) \/ WA!AdvanceReview \/ UNCHANGED (WA!authvars)
  <2>1. UNCHANGED <<auth, authLock, claim>> /\ expired' \subseteq Auths /\ version' \in Nat \ {0}
    BY <1>0, <1>5 DEF WA!Expire, WA!AdvanceReview, WA!authvars
  <2> QED BY <2>1 DEF AuthPart, WA!AuthTypeOK, WA!ClaimIsExclusive
<1>6. ASSUME NEW x \in Workers, NEW a \in Auths, NEW c \in {ThisExecution}, NEW v \in 1 .. 1,
             WA!Claim(x, a, c, v)
      PROVE  AuthPart'
  <2> DEFINE k == [auth |-> a, consumer |-> c]
  <2>1. k \in WA!Claims /\ k # NoAuth /\ k.auth = a /\ k.consumer = c /\ c = ThisExecution
    BY DEF WA!Claims
  <2>2. /\ claim' = [claim EXCEPT ![x] = k] /\ authLock' = [authLock EXCEPT ![a] = x]
        /\ UNCHANGED <<auth, expired, version>>
        /\ auth[a] # NoAuth /\ auth[a].status # "revoked" /\ authLock[a] = NoWorker
    BY <1>6 DEF WA!Claim, WA!Admits
  <2> HIDE DEF k
  <2>3. WA!AuthTypeOK'
    BY <1>0, <2>1, <2>2 DEF WA!AuthTypeOK
  <2>4. \A y \in Workers : claim[y] # NoAuth => claim[y].auth # a
    BY <2>2 DEF AuthPart, WA!ClaimIsExclusive
  <2>5. auth[a].consumer \in {NoConsumer, ThisExecution}
    BY <1>0, <2>2 DEF WA!AuthRows
  <2>6. WA!ClaimIsExclusive'
    BY <1>0, <1>1, <2>1, <2>2, <2>4, <2>5 DEF AuthPart, WA!ClaimIsExclusive
  <2> QED BY <2>3, <2>6 DEF AuthPart
<1>7. ASSUME NEW x \in Workers, WA!RollBackClaim(x) \/ WA!CommitClaim(x) PROVE AuthPart'
  <2> DEFINE a == claim[x].auth
  <2>1. claim[x] # NoAuth /\ a \in Auths /\ auth[a] \in WA!AuthRows
    BY <1>0, <1>1, <1>7 DEF WA!RollBackClaim, WA!CommitClaim, WA!Consume, AuthPart, WA!ClaimIsExclusive
  <2>2. /\ authLock' = [authLock EXCEPT ![a] = NoWorker] /\ claim' = [claim EXCEPT ![x] = NoAuth]
        /\ UNCHANGED <<expired, version>>
    BY <1>7 DEF WA!RollBackClaim, WA!CommitClaim, WA!Consume
  <2>3. \/ auth' = auth
        \/ auth' = [auth EXCEPT ![a] = WA!ConsumedRow(auth[a], ThisExecution)]
    BY <1>0, <1>1, <1>7, <2>1 DEF WA!RollBackClaim, WA!CommitClaim, WA!Consume
  <2>4. WA!ConsumedRow(auth[a], ThisExecution) \in WA!AuthRows
    BY <2>1, ConsumedHere
  <2>5. \A y \in Workers : y # x /\ claim[y] # NoAuth => claim[y].auth # a
    BY <2>1 DEF AuthPart, WA!ClaimIsExclusive
  <2> HIDE DEF a
  <2>6. WA!AuthTypeOK' /\ \A b \in Auths : b # a => auth'[b] = auth[b] /\ authLock'[b] = authLock[b]
    BY <1>0, <2>1, <2>2, <2>3, <2>4 DEF WA!AuthTypeOK
  <2>7. WA!ClaimIsExclusive'
    BY <1>0, <1>1, <2>1, <2>2, <2>5, <2>6 DEF AuthPart, WA!ClaimIsExclusive
  <2> QED BY <2>6, <2>7 DEF AuthPart
<1> QED
  BY <1>3, <1>4, <1>5, <1>6, <1>7 DEF WA!AuthNext

\* A request past its claim holds one, unless it asked for none under the environment gate; a
\* held claim is within the explored admissions.
ClaimStanding(w) ==
    /\ at[w] \in {"none", "claim", "project"} => claim[w] = NoAuth
    /\ at[w] \notin {"none", "project"} /\ want[w] = NoAuth => ExecuteEnabled
    /\ at[w] \notin {"none", "claim", "project"} => (claim[w] = NoAuth <=> want[w] = NoAuth)
    /\ claim[w] # NoAuth => auth[claim[w].auth].uses < MaxUses

ClaimInv == \A w \in Workers : ClaimStanding(w)

\* What a step of w leaves of the other requests' claims, and of the use counts they rest on.
ClaimFrame(w) ==
    \A v \in Workers \ {w} :
        /\ at'[v] = at[v] /\ want'[v] = want[v] /\ claim'[v] = claim[v]
        /\ claim[v] # NoAuth => auth'[claim[v].auth].uses = auth[claim[v].auth].uses

\* So a step of one request has only that request to look at.
LEMMA OneClaimStands ==
    ASSUME ClaimInv, NEW w \in Workers, ClaimStanding(w)', ClaimFrame(w)
    PROVE  ClaimInv'
<1>1. \A v \in Workers \ {w} : ClaimStanding(v)'
  BY DEF ClaimInv, ClaimStanding, ClaimFrame
<1> QED BY <1>1 DEF ClaimInv

\* Claims are taken, committed and dropped with their request.
LEMMA ClaimNext == AuthPart /\ BillInv /\ WantInv /\ ClaimInv /\ [Next]_vars => ClaimInv'
<1> SUFFICES ASSUME AuthPart, BillInv, WantInv, ClaimInv, [Next]_vars PROVE ClaimInv'
  OBVIOUS
<1>0. /\ at \in [Workers -> Places] /\ want \in [Workers -> Auths \union {NoAuth}]
      /\ auth \in [Auths -> WA!AuthRows \union {NoAuth}]
      /\ claim \in [Workers -> WA!Claims \union {NoAuth}]
      /\ NoAuth \notin Auths /\ NoAuth \notin WA!Claims
      /\ \A v \in Workers : claim[v] # NoAuth =>
            /\ claim[v].auth \in Auths /\ auth[claim[v].auth] # NoAuth
            /\ authLock[claim[v].auth] = v
  BY VendorBillConstants
  DEF BillInv, OdooTypes, WantInv, AuthPart, WA!AuthTypeOK, WA!ClaimIsExclusive, WA!Claims
\* the claim stays: the request goes on, keeping or losing nothing but its place
<1>1. ASSUME NEW w \in Workers, NEW place, Move(w, place), UNCHANGED want, UNCHANGED <<auth, claim>>,
             \/ at[w] \notin {"none", "claim", "project"} /\ place \notin {"none", "claim", "project"}
             \/ at[w] = "none" /\ place = "project"
      PROVE  ClaimInv'
  <2>1. ClaimFrame(w) /\ at'[w] = place
    BY <1>0, <1>1 DEF ClaimFrame, Move
  <2>2. ClaimStanding(w)'
    BY <1>1, <2>1 DEF ClaimInv, ClaimStanding
  <2> QED BY <2>1, <2>2, OneClaimStands
\* the request is over, and so is its claim
<1>2. ASSUME NEW w \in Workers, NEW place \in {"none", "project"}, Move(w, place),
             want' = [want EXCEPT ![w] = NoAuth], ClaimFrame(w), claim'[w] = NoAuth
      PROVE  ClaimInv'
  <2>1. at'[w] = place
    BY <1>0, <1>2 DEF Move
  <2>2. ClaimStanding(w)'
    BY <1>2, <2>1 DEF ClaimStanding
  <2> QED BY <1>2, <2>2, OneClaimStands
<1>3. ASSUME NEW w \in Workers, DropClaim(w), Leave(w) PROVE ClaimInv'
  <2>1. UNCHANGED auth /\ claim'[w] = NoAuth /\ \A v \in Workers \ {w} : claim'[v] = claim[v]
    BY <1>0, <1>3 DEF DropClaim, WA!RollBackClaim, avars
  <2>2. ClaimFrame(w)
    BY <1>0, <1>3, <2>1 DEF ClaimFrame, Leave, Move
  <2> QED BY <1>2, <1>3, <2>1, <2>2 DEF Leave
<1>4. ASSUME NEW w \in Workers, RequestStep(w) PROVE ClaimInv'
  <2>1. CASE AlreadyExecuted(w)
    BY <1>1, <2>1 DEF AlreadyExecuted, avars
  <2>2. ASSUME NEW a \in Auths \union {NoAuth}, ExecuteRequest(w, a) PROVE ClaimInv'
    <3>1. /\ at' = [at EXCEPT ![w] = "claim"] /\ want' = [want EXCEPT ![w] = a] /\ at[w] = "none"
          /\ UNCHANGED <<auth, claim>> /\ (a = NoAuth => ExecuteEnabled)
      BY <2>2 DEF ExecuteRequest, Move, avars
    <3>2. ClaimFrame(w) /\ at'[w] = "claim" /\ want'[w] = a
      BY <1>0, <3>1 DEF ClaimFrame
    <3>3. ClaimStanding(w)'
      BY <3>1, <3>2 DEF ClaimInv, ClaimStanding
    <3> QED BY <3>2, <3>3, OneClaimStands
  <2> QED BY <1>4, <2>1, <2>2 DEF RequestStep
<1>5. ASSUME NEW w \in Workers, GateStep(w) PROVE ClaimInv'
  <2>1. CASE ClaimAuthorization(w) /\ want[w] = NoAuth
    <3>1. /\ at' = [at EXCEPT ![w] = "preflight"] /\ at[w] = "claim" /\ UNCHANGED <<auth, claim, want>>
      BY <2>1 DEF ClaimAuthorization, Move, avars
    <3>2. ClaimFrame(w) /\ at'[w] = "preflight"
      BY <1>0, <3>1 DEF ClaimFrame
    <3>3. ClaimStanding(w)'
      BY <2>1, <3>1, <3>2 DEF ClaimInv, ClaimStanding
    <3> QED BY <3>2, <3>3, OneClaimStands
  <2>2. CASE ClaimAuthorization(w) /\ want[w] # NoAuth
    <3> DEFINE k == [auth |-> want[w], consumer |-> ThisExecution]
    <3>1. k.auth = want[w] /\ k # NoAuth /\ want[w] \in Auths
      BY <1>0, <2>2 DEF WA!Claims
    <3>2. /\ at' = [at EXCEPT ![w] = "preflight"] /\ at[w] = "claim" /\ UNCHANGED <<auth, want>>
          /\ claim' = [claim EXCEPT ![w] = k] /\ auth[want[w]].uses < MaxUses
      BY <2>2 DEF ClaimAuthorization, Move, WA!Claim
    <3> HIDE DEF k
    <3>3. ClaimFrame(w) /\ at'[w] = "preflight" /\ claim'[w] = k
      BY <1>0, <3>2 DEF ClaimFrame
    <3>4. ClaimStanding(w)'
      BY <2>2, <3>1, <3>2, <3>3 DEF ClaimInv, ClaimStanding
    <3> QED BY <3>3, <3>4, OneClaimStands
  <2>3. CASE ClaimDenied(w)
    <3>1. UNCHANGED <<auth, claim>> /\ claim[w] = NoAuth
      BY <2>3 DEF ClaimDenied, avars, ClaimInv, ClaimStanding
    <3>2. ClaimFrame(w)
      BY <1>0, <2>3, <3>1 DEF ClaimDenied, Leave, Move, ClaimFrame
    <3> QED BY <1>2, <2>3, <3>1, <3>2 DEF ClaimDenied, Leave
  <2>4. CASE PreflightPasses(w)
    BY <1>1, <2>4 DEF PreflightPasses, avars
  <2>5. CASE PreflightFails(w)
    BY <1>3, <2>5 DEF PreflightFails
  <2> QED BY <1>5, <2>1, <2>2, <2>3, <2>4, <2>5 DEF GateStep
<1>6. ASSUME NEW w \in Workers, RuntimeStep(w) PROVE ClaimInv'
  <2>1. UNCHANGED <<at, want, auth, claim>>
    BY <1>6 DEF RuntimeStep, avars
  <2> QED BY <2>1 DEF ClaimInv, ClaimStanding
<1>7. ASSUME NEW w \in Workers, RuntimeConflict(w) PROVE ClaimInv'
  BY <1>3, <1>7 DEF RuntimeConflict
<1>8. ASSUME NEW w \in Workers, StrategyStep(w) PROVE ClaimInv'
  <2>1. ASSUME StepFails(w), at[w] \in WriterPlaces PROVE ClaimInv'
    BY <1>1, <2>1 DEF StepFails, avars, WriterPlaces
  <2>2. CASE ChecksFail(w) \/ SearchFails(w) \/ CreateRefused(w) \/ CreateTimesOut(w)
             \/ VerificationFails(w)
    BY <2>1, <2>2 DEF ChecksFail, SearchFails, CreateRefused, CreateTimesOut, VerificationFails,
       WriterPlaces
  <2>3. CASE BeginStrategy(w) \/ ChecksPass(w) \/ SearchFindsBill(w) \/ SearchFindsNone(w)
             \/ SendCreate(w) \/ OdooCreates(w) \/ CreateAnswered(w) \/ Verified(w)
    BY <1>1, <2>3 DEF BeginStrategy, ChecksPass, SearchFindsBill, SearchFindsNone, SendCreate,
       OdooCreates, CreateAnswered, Verified, avars
  <2> QED BY <1>8, <2>2, <2>3 DEF StrategyStep
<1>9. ASSUME NEW w \in Workers, CommitExecution(w) PROVE ClaimInv'
  <2> DEFINE place == IF reply'[w] = "executed" THEN "project" ELSE "none"
  <2>1. /\ Move(w, place) /\ place \in {"none", "project"}
        /\ want' = [want EXCEPT ![w] = NoAuth]
    BY <1>9 DEF CommitExecution
  <2> HIDE DEF place
  <2>2. claim'[w] = NoAuth /\ \A v \in Workers \ {w} : claim'[v] = claim[v]
    BY <1>0, <1>9 DEF CommitExecution, WA!CommitClaim, WA!Consume, avars
  <2>3. \A v \in Workers \ {w} : claim[v] # NoAuth => auth'[claim[v].auth] = auth[claim[v].auth]
    <3>1. CASE claim[w] = NoAuth
      BY <1>9, <3>1 DEF CommitExecution, avars
    <3>2. CASE claim[w] # NoAuth
      <4>1. \A v \in Workers \ {w} : claim[v] # NoAuth => claim[v].auth # claim[w].auth
        BY <1>0, <3>2
      <4>2. auth' = [auth EXCEPT ![claim[w].auth] = WA!ConsumedRow(auth[claim[w].auth], claim[w].consumer)]
        BY <1>0, <1>9, <3>2 DEF CommitExecution, WA!CommitClaim, WA!Consume
      <4> QED BY <1>0, <4>1, <4>2
    <3> QED BY <3>1, <3>2
  <2>4. ClaimFrame(w)
    BY <1>0, <2>1, <2>2, <2>3 DEF ClaimFrame, Move
  <2> QED BY <1>2, <2>1, <2>2, <2>4
<1>10. ASSUME NEW w \in Workers, ProjectResult(w) PROVE ClaimInv'
  <2>1. UNCHANGED <<auth, claim>> /\ claim[w] = NoAuth
    BY <1>10 DEF ProjectResult, avars, ClaimInv, ClaimStanding
  <2>2. ClaimFrame(w)
    BY <1>0, <1>10, <2>1 DEF ProjectResult, Leave, Move, ClaimFrame
  <2> QED BY <1>2, <1>10, <2>1, <2>2 DEF ProjectResult, Leave
<1>11. ASSUME NEW w \in Workers, AbortExecution(w) PROVE ClaimInv'
  BY <1>3, <1>11 DEF AbortExecution
<1>12. ASSUME OperatorStep \/ LateCreate \/ UNCHANGED vars PROVE ClaimInv'
  <2>1. UNCHANGED <<at, want, claim>>
    BY <1>12 DEF OperatorStep, IssueAuthorization, RevokeAuthorization, ExpireAuthorization,
       CorrectRate, LateCreate, vars, avars, WA!Issue, WA!Revoke, WA!Expire
  <2>2. \A b \in Auths : auth[b] # NoAuth => auth'[b].uses = auth[b].uses
    <3>1. ASSUME NEW a \in Auths, WA!Issue(a, "EXECUTE_VENDOR_BILL", 1)
          PROVE  \A b \in Auths : auth[b] # NoAuth => auth'[b].uses = auth[b].uses
      BY <1>0, <3>1 DEF WA!Issue
    <3>2. ASSUME NEW a \in Auths, WA!Revoke(a)
          PROVE  \A b \in Auths : auth[b] # NoAuth => auth'[b].uses = auth[b].uses
      BY <1>0, <3>2 DEF WA!Revoke, WA!AuthRows
    <3>3. ASSUME NEW a \in Auths, WA!Expire(a) PROVE UNCHANGED auth
      BY <3>3 DEF WA!Expire
    <3> QED
      BY <1>12, <3>1, <3>2, <3>3 DEF OperatorStep, IssueAuthorization, RevokeAuthorization,
         ExpireAuthorization, CorrectRate, LateCreate, vars, avars
  <2>3. ASSUME NEW v \in Workers PROVE ClaimStanding(v)'
    BY <1>0, <2>1, <2>2 DEF ClaimInv, ClaimStanding
  <2> QED BY <2>3 DEF ClaimInv
<1> QED
  BY <1>4, <1>5, <1>6, <1>7, <1>8, <1>9, <1>10, <1>11, <1>12 DEF Next, WorkerStep

-----------------------------------------------------------------------------
(* Every committed attempt is covered by a counted use. *)

StartsIn(evs) == {e \in evs : e.type = "execution_started"}

UsesMade == {use \in Auths \X (1 .. MaxUses) :
                auth[use[1]] # NoAuth /\ use[2] <= auth[use[1]].uses}

\* A transaction starts the execution at most once.
StartsOnce(w) ==
    /\ pc[w] \in {"execute", "start"} => StartsIn(out[w]) = {}
    /\ \A d, e \in StartsIn(out[w]) : d = e

\* The types of numbered events are those of the drafts.
LEMMA AssignedTypes ==
    ASSUME NEW first, NEW drafts, NEW e \in AssignSequences(first, drafts)
    PROVE  \E i \in DOMAIN drafts : e.type = drafts[i].type
BY DEF AssignSequences

\* A transition that does not start the execution keeps a transaction's count of starts.
LEMMA OtherEvents ==
    ASSUME TypeOK, NEW w \in Workers, NEW next, NEW drafts, PersistTransition(w, next, drafts),
           \A i \in DOMAIN drafts : drafts[i].type # "execution_started"
    PROVE  StartsIn(out'[w]) = StartsIn(out[w]) /\ \A v \in Workers \ {w} : out'[v] = out[v]
<1> DEFINE new == AssignSequences(next.next_seq, drafts)
<1>1. out' = [out EXCEPT ![w] = @ \union new]
  BY DEF PersistTransition
<1>2. StartsIn(new) = {}
  BY AssignedTypes DEF StartsIn
<1> HIDE DEF new
<1> QED BY <1>1, <1>2 DEF TypeOK, StartsIn

\* Every step of the runtime keeps the transactions at one start each.
LEMMA StartsOnceNext ==
    ASSUME StoredInv, \A w \in Workers : StartsOnce(w), [RuntimeNext]_rtvars
    PROVE  \A w \in Workers : StartsOnce(w)'
<1>0. TypeOK /\ LockInv /\ out \in [Workers -> SUBSET Events] /\ pc \in [Workers -> Answering \union {"idle"}]
  BY DEF StoredInv, RuntimeInv, TypeOK
<1>1. ASSUME NEW w \in Workers, NEW label, Goto(w, label), StartsIn(out'[w]) = StartsIn(out[w]),
             label \in {"execute", "start"} => pc[w] \in {"execute", "start"} \/ out[w] = {},
             \A v \in Workers \ {w} : out'[v] = out[v]
      PROVE  \A v \in Workers : StartsOnce(v)'
  <2>1. pc'[w] = label /\ \A v \in Workers \ {w} : pc'[v] = pc[v]
    BY <1>0, <1>1 DEF Goto
  <2>2. StartsOnce(w)'
    BY <1>1, <2>1 DEF StartsOnce, StartsIn
  <2>3. \A v \in Workers \ {w} : StartsOnce(v)'
    BY <1>1, <2>1 DEF StartsOnce
  <2> QED BY <2>2, <2>3
<1>2. ASSUME NEW w \in Workers, pc' = [pc EXCEPT ![w] = "idle"], out' = [out EXCEPT ![w] = {}]
      PROVE  \A v \in Workers : StartsOnce(v)'
  BY <1>0, <1>2 DEF StartsOnce, StartsIn
<1>3. \A w \in Workers : pc[w] \in {"idle", "lookup", "insert"} => out[w] = {}
  BY <1>0 DEF LockInv, InTransaction
<1>4. ASSUME NEW w \in Workers, Request(w) \/ LookupMiss(w) \/ LoadExisting(w) \/ ReturnStored(w)
                                \/ StartRead(w)
      PROVE  \A v \in Workers : StartsOnce(v)'
  <2>1. UNCHANGED out
    BY <1>4 DEF Request, LookupMiss, LoadExisting, ReturnStored, StartRead
  <2>2. \E label : Goto(w, label) /\ (label \in {"execute", "start"} =>
                                         pc[w] \in {"execute", "lookup", "insert"})
    BY <1>4 DEF Request, LookupMiss, LoadExisting, ReturnStored, StartRead
  <2> QED BY <1>1, <1>3, <2>1, <2>2
<1>5. ASSUME NEW w \in Workers, InsertExecution(w) PROVE \A v \in Workers : StartsOnce(v)'
  <2>1. StartsIn(CreationEvents) = {}
    <3> DEFINE c == Draft("execution_created", "new", NoStep)
               d == Draft("planning_completed", "planned", NoStep)
    <3>1. c.type # "execution_started" /\ d.type # "execution_started"
      BY DEF Draft
    <3>2. CreationEvents = AssignSequences(1, <<c, d>>)
      BY DEF CreationEvents
    <3> HIDE DEF c, d
    <3>3. \A e \in AssignSequences(1, <<c, d>>) : \E i \in DOMAIN <<c, d>> : e.type = <<c, d>>[i].type
      BY AssignedTypes
    <3>4. \A i \in DOMAIN <<c, d>> : <<c, d>>[i].type # "execution_started"
      BY <3>1
    <3> QED BY <3>2, <3>3, <3>4 DEF StartsIn
  <2>2. /\ out' = [out EXCEPT ![w] = CreationEvents] /\ Goto(w, "execute") /\ out[w] = {}
    BY <1>3, <1>5 DEF InsertExecution
  <2>3. out'[w] = CreationEvents /\ \A v \in Workers \ {w} : out'[v] = out[v]
    BY <1>0, <2>2
  <2>4. StartsIn(out'[w]) = StartsIn(out[w])
    BY <2>1, <2>2, <2>3 DEF StartsIn
  <2> QED BY <1>1, <2>2, <2>3, <2>4
<1>6. ASSUME NEW w \in Workers, Start(w) PROVE \A v \in Workers : StartsOnce(v)'
  <2> DEFINE next == Started(snap[w])
             d == Draft("execution_started", "running", NoStep)
             new == AssignSequences(next.next_seq, <<d>>)
  <2>1. out' = [out EXCEPT ![w] = @ \union new] /\ pc' = [pc EXCEPT ![w] = "step"] /\ pc[w] = "start"
    BY <1>6 DEF Start, PersistTransition, Goto
  <2>2. StartsIn(out[w]) = {}
    BY <2>1 DEF StartsOnce
  <2>3. \A e, f \in new : e = f
    <3>1. DOMAIN <<d>> = {1}
      OBVIOUS
    <3> HIDE DEF d
    <3> QED BY <3>1 DEF AssignSequences
  <2> HIDE DEF new, next
  <2>4. out'[w] = out[w] \union new /\ pc'[w] = "step"
        /\ \A v \in Workers \ {w} : out'[v] = out[v] /\ pc'[v] = pc[v]
    BY <1>0, <2>1
  <2>5. StartsOnce(w)'
    BY <2>2, <2>3, <2>4 DEF StartsOnce, StartsIn
  <2>6. \A v \in Workers \ {w} : StartsOnce(v)'
    BY <2>4 DEF StartsOnce
  <2> QED BY <2>5, <2>6
<1>7. ASSUME NEW w \in Workers, NEW next, NEW drafts, NEW label, PersistTransition(w, next, drafts),
             Goto(w, label), label \notin {"execute", "start"},
             \A i \in DOMAIN drafts : drafts[i].type # "execution_started"
      PROVE  \A v \in Workers : StartsOnce(v)'
  BY <1>0, <1>1, <1>7, OtherEvents
<1>8. ASSUME NEW w \in Workers, NEW next, NEW type, type # "execution_started", NEW state, NEW s,
             NEW label, PersistTransition(w, next, <<Draft(type, state, s)>>),
             Goto(w, label), label \notin {"execute", "start"}
      PROVE  \A v \in Workers : StartsOnce(v)'
  <2> DEFINE d == Draft(type, state, s)
  <2>1. d.type # "execution_started"
    BY <1>8 DEF Draft
  <2> HIDE DEF d
  <2>2. \A i \in DOMAIN <<d>> : <<d>>[i].type # "execution_started"
    BY <2>1
  <2> QED BY <1>7, <1>8, <2>2 DEF d
<1>9. ASSUME NEW w \in Workers, MarkStepRunning(w) PROVE \A v \in Workers : StartsOnce(v)'
  BY <1>8, <1>9 DEF MarkStepRunning
<1>10. ASSUME NEW w \in Workers, MarkStepCompleted(w) PROVE \A v \in Workers : StartsOnce(v)'
  <2> DEFINE label == IF todo[w] = {} THEN "complete" ELSE "step"
  <2>1. Goto(w, label) /\ label \notin {"execute", "start"}
    BY <1>10 DEF MarkStepCompleted
  <2> HIDE DEF label
  <2> QED BY <1>8, <1>10, <2>1 DEF MarkStepCompleted
<1>11. ASSUME NEW w \in Workers, HandleFailure(w) PROVE \A v \in Workers : StartsOnce(v)'
  <2> DEFINE drafts == FailureDrafts(snap[w], snap[w].current)
  <2>1. \A i \in DOMAIN drafts : drafts[i].type # "execution_started"
    BY DEF FailureDrafts, Draft
  <2>2. PersistTransition(w, StepLost(snap[w], snap[w].current), drafts) /\ Goto(w, "commit")
    BY <1>11 DEF HandleFailure
  <2> HIDE DEF drafts
  <2> QED BY <1>7, <2>1, <2>2
<1>12. ASSUME NEW w \in Workers, Complete(w) PROVE \A v \in Workers : StartsOnce(v)'
  BY <1>8, <1>12 DEF Complete
<1>13. ASSUME NEW w \in Workers, Commit(w) \/ Abort(w) \/ PlanConflict(w) \/ StaleSnapshot(w)
       PROVE  \A v \in Workers : StartsOnce(v)'
  BY <1>2, <1>13 DEF Commit, Abort, PlanConflict, StaleSnapshot, RollBack
<1>14. CASE UNCHANGED rtvars
  BY <1>14 DEF rtvars, StartsOnce
<1> QED
  BY <1>4, <1>5, <1>6, <1>9, <1>10, <1>11, <1>12, <1>13, <1>14 DEF RuntimeNext, BeforeStrategy

\* How often an authorization was used.
UsedTimes(a) == IF auth[a] = NoAuth THEN 0 ELSE auth[a].uses

CountInv ==
    /\ IsFiniteSet(UsesMade)
    /\ ~ ExecuteEnabled => Cardinality(StartsIn(log)) <= Cardinality(UsesMade)
    /\ (\E a \in Auths : auth[a] # NoAuth /\ auth[a].uses > 0) => row # NoRow

AdmissionInv ==
    /\ WantInv /\ AuthPart /\ ClaimInv /\ CountInv
    /\ \A w \in Workers : StartsOnce(w)

\* The uses that were made, read from the use counts.
LEMMA UsesOf ==
    ASSUME auth \in [Auths -> WA!AuthRows \union {NoAuth}]
    PROVE  /\ UsesMade = {use \in Auths \X (1 .. MaxUses) : use[2] <= UsedTimes(use[1])}
           /\ \A a \in Auths : UsedTimes(a) \in Nat
           /\ (\E a \in Auths : auth[a] # NoAuth /\ auth[a].uses > 0)
                 <=> \E a \in Auths : UsedTimes(a) > 0
<1>1. \A a \in Auths : UsedTimes(a) \in Nat
  BY DEF UsedTimes, WA!AuthRows
<1>2. \A use \in Auths \X (1 .. MaxUses) :
          use[1] \in Auths /\ use[2] \in 1 .. MaxUses
  OBVIOUS
<1>3. \A a \in Auths, n \in 1 .. MaxUses :
          (auth[a] # NoAuth /\ n <= auth[a].uses) <=> n <= UsedTimes(a)
  BY VendorBillConstants DEF UsedTimes
<1>4. UsesMade = {use \in Auths \X (1 .. MaxUses) : use[2] <= UsedTimes(use[1])}
  BY <1>2, <1>3 DEF UsesMade
<1>5. (\E a \in Auths : auth[a] # NoAuth /\ auth[a].uses > 0) <=> \E a \in Auths : UsedTimes(a) > 0
  BY DEF UsedTimes
<1> QED BY <1>1, <1>4, <1>5

\* Only the commit of a request counts a use or adds to the history.
LEMMA OnlyCommitCounts ==
    ASSUME AuthPart, [Next]_vars, \A w \in Workers : ~ CommitExecution(w)
    PROVE  /\ \A b \in Auths : UsedTimes(b)' = UsedTimes(b)
           /\ UNCHANGED <<row, log>>
<1>0. auth \in [Auths -> WA!AuthRows \union {NoAuth}]
  BY DEF AuthPart, WA!AuthTypeOK
<1>1. ASSUME NEW w \in Workers, \/ Request(w) \/ BeforeStrategy(w) \/ MarkStepCompleted(w)
                                \/ HandleFailure(w) \/ Complete(w) \/ Abort(w) \/ UNCHANGED rtvars
      PROVE  UNCHANGED <<row, log>>
  BY <1>1 DEF Request, BeforeStrategy, LookupMiss, LoadExisting, PlanConflict, InsertExecution,
     ReturnStored, StartRead, Start, StaleSnapshot, MarkStepRunning, MarkStepCompleted,
     HandleFailure, Complete, Abort, RollBack, rtvars
<1>2. ASSUME UNCHANGED auth PROVE \A b \in Auths : UsedTimes(b)' = UsedTimes(b)
  BY <1>2 DEF UsedTimes
<1>3. ASSUME NEW w \in Workers, DropClaim(w) PROVE UNCHANGED auth
  BY <1>3 DEF DropClaim, avars, WA!RollBackClaim
<1>4. ASSUME NEW w \in Workers, RequestStep(w) \/ WorkerStep(w) \/ AbortExecution(w)
      PROVE  UNCHANGED auth /\ UNCHANGED <<row, log>>
  <2>1. CASE RequestStep(w)
    BY <1>1, <2>1 DEF RequestStep, AlreadyExecuted, ExecuteRequest, avars
  <2>2. CASE GateStep(w)
    BY <1>1, <1>3, <2>2 DEF GateStep, ClaimAuthorization, ClaimDenied, PreflightPasses,
       PreflightFails, avars, WA!Claim
  <2>3. CASE RuntimeStep(w) \/ RuntimeConflict(w)
    BY <1>1, <1>3, <2>3 DEF RuntimeStep, RuntimeConflict, BeforeStrategy, avars
  <2>4. CASE StrategyStep(w)
    BY <1>1, <2>4 DEF StrategyStep, BeforeStrategy, BeginStrategy, ChecksPass, ChecksFail,
       SearchFindsBill, SearchFindsNone, SearchFails, SendCreate, CreateRefused, OdooCreates,
       CreateAnswered, CreateTimesOut, Verified, VerificationFails, StepFails, avars
  <2>5. CASE ProjectResult(w) \/ AbortExecution(w)
    BY <1>1, <1>3, <2>5 DEF ProjectResult, AbortExecution, avars
  <2> QED BY <1>4, <2>1, <2>2, <2>3, <2>4, <2>5 DEF WorkerStep
<1>5. ASSUME OperatorStep \/ LateCreate \/ UNCHANGED vars
      PROVE  UNCHANGED <<row, log>> /\ \A b \in Auths : UsedTimes(b)' = UsedTimes(b)
  <2>1. UNCHANGED <<row, log>>
    BY <1>5 DEF OperatorStep, IssueAuthorization, RevokeAuthorization, ExpireAuthorization,
       CorrectRate, LateCreate, vars, rtvars
  <2>2. ASSUME NEW a \in Auths, WA!Issue(a, "EXECUTE_VENDOR_BILL", 1)
        PROVE  \A b \in Auths : UsedTimes(b)' = UsedTimes(b)
    BY <1>0, <2>2 DEF WA!Issue, WA!IssuedRow, UsedTimes
  <2>3. ASSUME NEW a \in Auths, WA!Revoke(a)
        PROVE  \A b \in Auths : UsedTimes(b)' = UsedTimes(b)
    <3> DEFINE r == [auth[a] EXCEPT !.status = "revoked"]
    <3>1. r \in WA!AuthRows /\ r.uses = auth[a].uses /\ r # NoAuth /\ auth[a] # NoAuth
      BY <1>0, <2>3, VendorBillConstants DEF WA!Revoke, WA!AuthRows
    <3>2. auth' = [auth EXCEPT ![a] = r]
      BY <2>3 DEF WA!Revoke
    <3> HIDE DEF r
    <3> QED BY <1>0, <3>1, <3>2 DEF UsedTimes
  <2>4. ASSUME NEW a \in Auths, WA!Expire(a) PROVE UNCHANGED auth
    BY <2>4 DEF WA!Expire
  <2> QED
    BY <1>2, <1>5, <2>1, <2>2, <2>3, <2>4 DEF OperatorStep, IssueAuthorization, RevokeAuthorization,
       ExpireAuthorization, CorrectRate, LateCreate, vars, avars
<1> QED BY <1>2, <1>4, <1>5 DEF Next

\* The commit of a request that holds a claim counts one use more, of an authorization of its own.
LEMMA CommitCounts ==
    ASSUME AdmissionInv, NEW w \in Workers, WA!CommitClaim(w), AuthPart'
    PROVE  \E use : use \notin UsesMade /\ UsesMade' = UsesMade \union {use}
<1>0. /\ auth \in [Auths -> WA!AuthRows \union {NoAuth}]
      /\ auth' \in [Auths -> WA!AuthRows \union {NoAuth}]
      /\ claim \in [Workers -> WA!Claims \union {NoAuth}]
  BY DEF AdmissionInv, AuthPart, WA!AuthTypeOK
<1>a. claim[w] # NoAuth /\ claim[w].auth \in Auths /\ claim[w].consumer = ThisExecution
  BY <1>0 DEF WA!CommitClaim, WA!Consume, WA!Claims
<1>1. PICK a \in Auths : a = claim[w].auth
  BY <1>a
<1>2. auth[a] # NoAuth /\ auth[a] \in WA!AuthRows
  BY <1>0, <1>a, <1>1 DEF AdmissionInv, AuthPart, WA!ClaimIsExclusive
<1>3. auth[a].uses \in Nat /\ auth[a].uses < MaxUses /\ MaxUses \in Nat
  BY <1>a, <1>1, <1>2, VendorBillConstants DEF AdmissionInv, ClaimInv, ClaimStanding, WA!AuthRows
<1>4. auth' = [auth EXCEPT ![a] = WA!ConsumedRow(auth[a], ThisExecution)]
  BY <1>0, <1>a, <1>1 DEF WA!CommitClaim, WA!Consume
<1>b. PICK n \in Nat : n = auth[a].uses + 1
  BY <1>3
<1>5. UsedTimes(a) = auth[a].uses /\ UsedTimes(a)' = auth[a].uses + 1
  BY <1>0, <1>1, <1>2, <1>4, ConsumedHere DEF UsedTimes
<1>6. \A b \in Auths : b # a => UsedTimes(b)' = UsedTimes(b)
  BY <1>0, <1>4 DEF UsedTimes
<1>7. UsesMade = {use \in Auths \X (1 .. MaxUses) : use[2] <= UsedTimes(use[1])}
      /\ \A b \in Auths : UsedTimes(b) \in Nat
  BY <1>0, UsesOf
<1>8. UsesMade' = {use \in Auths \X (1 .. MaxUses) : use[2] <= UsedTimes(use[1])'}
  <2>1. \A b \in Auths, m \in 1 .. MaxUses :
          (auth'[b] # NoAuth /\ m <= auth'[b].uses) <=> m <= UsedTimes(b)'
    BY <1>0, VendorBillConstants DEF UsedTimes
  <2>2. \A use \in Auths \X (1 .. MaxUses) : use[1] \in Auths /\ use[2] \in 1 .. MaxUses
    OBVIOUS
  <2> QED BY <2>1, <2>2 DEF UsesMade
<1>9. n \in 1 .. MaxUses /\ <<a, n>> \in Auths \X (1 .. MaxUses)
  BY <1>3, <1>b
<1>10. ASSUME NEW use \in Auths \X (1 .. MaxUses)
       PROVE  use[2] <= UsedTimes(use[1])' <=> use[2] <= UsedTimes(use[1]) \/ use = <<a, n>>
  <2>1. use = <<use[1], use[2]>> /\ use[1] \in Auths /\ use[2] \in 1 .. MaxUses
    OBVIOUS
  <2> DEFINE b == use[1]
             m == use[2]
  <2> HIDE DEF b, m
  <2>2. CASE b # a
    <3>1. use # <<a, n>>
      BY <2>1, <2>2 DEF b, m
    <3> QED BY <1>6, <2>1, <2>2, <3>1 DEF b, m
  <2>3. CASE b = a
    <3>1. use = <<a, n>> <=> m = n
      BY <2>1, <2>3 DEF b, m
    <3>2. m \in Nat /\ UsedTimes(a) \in Nat /\ n = UsedTimes(a) + 1 /\ UsedTimes(a)' = n
      BY <1>3, <1>b, <1>5, <2>1 DEF m
    <3>3. m <= n <=> m <= UsedTimes(a) \/ m = n
      BY <3>2
    <3>4. m <= UsedTimes(b)' <=> m <= UsedTimes(b) \/ use = <<a, n>>
      BY <2>3, <3>1, <3>2, <3>3
    <3> QED BY <3>4 DEF b, m
  <2> QED BY <2>2, <2>3
<1>11. <<a, n>> \notin UsesMade
  <2>1. ~ (n <= UsedTimes(a))
    BY <1>3, <1>b, <1>5
  <2> QED BY <1>7, <2>1
<1>12. UsesMade' = UsesMade \union {<<a, n>>}
  BY <1>7, <1>8, <1>9, <1>10
<1> QED BY <1>11, <1>12

\* Every step keeps the counts: a committed attempt brings its own counted use.
LEMMA CountNext ==
    ASSUME AdmissionInv, AuthPart', BillInv, StoredInv, StoredInv', [Next]_vars
    PROVE  CountInv'
<1>0. /\ auth \in [Auths -> WA!AuthRows \union {NoAuth}]
      /\ auth' \in [Auths -> WA!AuthRows \union {NoAuth}] /\ CountInv
  BY DEF AdmissionInv, AuthPart, WA!AuthTypeOK
<1>1. CASE \A w \in Workers : ~ CommitExecution(w)
  <2>1. (\A b \in Auths : UsedTimes(b)' = UsedTimes(b)) /\ row' = row /\ log' = log
    BY <1>1, OnlyCommitCounts DEF AdmissionInv
  <2>2. \A b \in Auths, m \in 1 .. MaxUses :
          (auth'[b] # NoAuth /\ m <= auth'[b].uses) <=> (auth[b] # NoAuth /\ m <= auth[b].uses)
    BY <1>0, <2>1, VendorBillConstants DEF UsedTimes
  <2>3. \A use \in Auths \X (1 .. MaxUses) : use[1] \in Auths /\ use[2] \in 1 .. MaxUses
    OBVIOUS
  <2>4. UsesMade' = UsesMade
    BY <2>2, <2>3 DEF UsesMade
  <2>5. (\E a \in Auths : auth'[a] # NoAuth /\ auth'[a].uses > 0)
            => \E a \in Auths : auth[a] # NoAuth /\ auth[a].uses > 0
    BY <2>1 DEF UsedTimes
  <2> QED BY <1>0, <2>1, <2>4, <2>5 DEF CountInv
<1>2. ASSUME NEW w \in Workers, CommitExecution(w) PROVE CountInv'
  <2>1. /\ at[w] = "runtime" /\ pc[w] = "commit" /\ log' = log \union out[w]
        /\ row' = IF lock = w THEN snap[w] ELSE row
        /\ claim[w] = NoAuth => UNCHANGED auth
        /\ claim[w] # NoAuth => WA!CommitClaim(w)
    BY <1>2 DEF CommitExecution, Commit, avars
  <2>2. row' # NoRow
    BY <2>1 DEF StoredInv, RuntimeInv, LockInv, VersionInv, InTransaction
  <2>3. IsFiniteSet(StartsIn(log)) /\ Cardinality(StartsIn(log)) \in Nat
    <3>1. IsFiniteSet(log)
      BY FS_EmptySet DEF StoredInv, HistoryInv, Replays
    <3>2. StartsIn(log) \in SUBSET log
      BY DEF StartsIn
    <3> QED BY <3>1, <3>2, FS_Subset, FS_CardinalityType
  <2>4. CASE claim[w] = NoAuth
    <3>1. ExecuteEnabled
      BY <2>1, <2>4 DEF AdmissionInv, ClaimInv, ClaimStanding
    <3>2. UsesMade' = UsesMade
      BY <2>1, <2>4 DEF UsesMade
    <3> QED BY <1>0, <2>2, <3>1, <3>2 DEF CountInv
  <2>5. CASE claim[w] # NoAuth
    <3>1. PICK use : use \notin UsesMade /\ UsesMade' = UsesMade \union {use}
      BY <2>1, <2>5, CommitCounts
    <3>2. /\ IsFiniteSet(UsesMade') /\ Cardinality(UsesMade') = Cardinality(UsesMade) + 1
          /\ Cardinality(UsesMade) \in Nat
      BY <1>0, <3>1, FS_AddElement, FS_CardinalityType DEF CountInv
    <3>3. Cardinality(StartsIn(log')) \in Nat /\ Cardinality(StartsIn(log')) <= Cardinality(StartsIn(log)) + 1
      <4>1. StartsIn(log') = StartsIn(log) \union StartsIn(out[w])
        BY <2>1 DEF StartsIn
      <4>2. CASE StartsIn(out[w]) = {}
        <5>1. StartsIn(log') = StartsIn(log)
          BY <4>1, <4>2
        <5> QED BY <2>3, <5>1
      <4>3. CASE StartsIn(out[w]) # {}
        <5>1. PICK e \in StartsIn(out[w]) : TRUE
          BY <4>3
        <5>2. StartsIn(out[w]) = {e}
          BY <5>1 DEF AdmissionInv, StartsOnce
        <5>3. Cardinality(StartsIn(log) \union {e})
                 = IF e \in StartsIn(log) THEN Cardinality(StartsIn(log)) ELSE Cardinality(StartsIn(log)) + 1
          BY <2>3, FS_AddElement
        <5> QED BY <2>3, <4>1, <5>2, <5>3
      <4> QED BY <4>2, <4>3
    <3>4. ~ ExecuteEnabled => Cardinality(StartsIn(log')) <= Cardinality(UsesMade')
      BY <1>0, <2>3, <3>2, <3>3 DEF CountInv
    <3> QED BY <2>2, <3>2, <3>4 DEF CountInv
  <2> QED BY <2>4, <2>5
<1> QED BY <1>1, <1>2

\* Every step keeps the admissions in order.
LEMMA AdmissionNext ==
    AdmissionInv /\ BillInv /\ StoredInv /\ StoredInv' /\ [Next]_vars => AdmissionInv'
<1> SUFFICES ASSUME AdmissionInv, BillInv, StoredInv, StoredInv', [Next]_vars PROVE AdmissionInv'
  OBVIOUS
<1>1. WantInv'
  BY WantNext DEF AdmissionInv
<1>2. AuthPart'
  BY NextIsAuthStep, AuthPartNext DEF AdmissionInv
<1>3. ClaimInv'
  BY ClaimNext DEF AdmissionInv
<1>4. CountInv'
  BY <1>2, CountNext
<1>5. \A w \in Workers : StartsOnce(w)'
  BY NextIsRuntimeStep, StartsOnceNext DEF AdmissionInv
<1> QED BY <1>1, <1>2, <1>3, <1>4, <1>5 DEF AdmissionInv

\* No authorization is issued and nothing is counted at the start.
LEMMA AdmissionStart == Init => AdmissionInv
<1> SUFFICES ASSUME Init PROVE AdmissionInv
  OBVIOUS
<1>1. WantInv /\ ClaimInv
  BY DEF Init, WA!AuthInit, WantInv, ClaimInv, ClaimStanding
<1>2. AuthPart
  BY DEF Init, WA!AuthInit, AuthPart, WA!AuthTypeOK, WA!ClaimIsExclusive
<1>3. \A w \in Workers : StartsOnce(w)
  BY DEF Init, RuntimeInit, StartsOnce, StartsIn
<1>4. CountInv
  <2>1. UsesMade = {} /\ StartsIn(log) = {}
    BY DEF Init, RuntimeInit, WA!AuthInit, UsesMade, StartsIn
  <2>2. Cardinality({}) <= Cardinality({}) /\ IsFiniteSet({})
    BY FS_EmptySet
  <2>3. ~ \E a \in Auths : auth[a] # NoAuth
    BY DEF Init, WA!AuthInit
  <2> QED BY <2>1, <2>2, <2>3 DEF CountInv
<1> QED BY <1>1, <1>2, <1>3, <1>4 DEF AdmissionInv

\* Whatever is written to Odoo was admitted: with the environment gate closed, a request inside
\* the writer holds a claimed authorization that is not revoked, and every committed attempt is
\* covered by a counted use that became durable in the same commit.
THEOREM AdmittedWrites == Spec => []WritesAreAdmitted
<1>1. AdmissionInv /\ BillInv /\ OneBillInv /\ StoredInv => WritesAreAdmitted
  <2> SUFFICES ASSUME AdmissionInv, BillInv, OneBillInv, StoredInv PROVE WritesAreAdmitted
    OBVIOUS
  <2>1. VendorBillTypeOK
    <3>1. TypeOK /\ WA!AuthTypeOK /\ want \in [Workers -> Auths \union {NoAuth}]
      BY DEF StoredInv, RuntimeInv, AdmissionInv, AuthPart, WantInv
    <3>2. MaxBills \in Nat /\ bills \in Seq({"right", "wrong"}) /\ Len(bills) \in Nat
          /\ Len(bills) <= MaxBills
      BY VendorBillConstants DEF BillInv, OdooTypes
    <3>3. found \in [Workers -> 0 .. MaxBills]
      <4>1. \A w \in Workers : found[w] \in 0 .. MaxBills
        BY <3>2 DEF BillInv, OdooTypes, Standing
      <4> QED BY <4>1 DEF BillInv, OdooTypes
    <3>4. artifact \in 0 .. MaxBills /\ projected \in 0 .. MaxBills
      BY <3>2 DEF BillInv, OdooTypes, Recorded
    <3>5. /\ at \in [Workers -> Places] /\ late \in 0 .. MaxBills /\ strays \in 0 .. Len(bills)
          /\ \A w \in Workers : at[w] \in WriterPlaces <=> pc[w] = "strategy"
      BY DEF BillInv, OdooTypes, OneBillInv, Standing
    <3> QED BY <3>1, <3>2, <3>3, <3>4, <3>5 DEF VendorBillTypeOK
  <2>2. WriteIsAuthorized
    <3> SUFFICES ASSUME NEW w \in Workers, at[w] \in WriterPlaces, ~ ExecuteEnabled
                 PROVE  /\ claim[w] # NoAuth
                        /\ auth[claim[w].auth].status # "revoked"
                        /\ authLock[claim[w].auth] = w
      BY DEF WriteIsAuthorized
    <3>1. claim[w] # NoAuth
      BY DEF AdmissionInv, ClaimInv, ClaimStanding, WriterPlaces
    <3> QED BY <3>1 DEF AdmissionInv, AuthPart, WA!ClaimIsExclusive
  <2>3. AdmissionsCoverAttempts
    BY DEF AdmissionInv, CountInv, AdmissionsCoverAttempts, StartsIn, UsesMade
  <2> QED BY <2>1, <2>2, <2>3 DEF WritesAreAdmitted
<1> QED
  BY <1>1, AdmissionStart, AdmissionNext, BillInvariance, OneBillInvariance, PTL DEF Spec

=============================================================================
