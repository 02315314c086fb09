-------------------------- MODULE InvoicePathsProofs --------------------------
(***************************************************************************)
(* Proofs about InvoicePaths, for every invoice and every master data, and *)
(* about AdvisorySuggestions, for every line, catalog and price list.      *)
(***************************************************************************)
EXTENDS InvoicePaths, AdvisorySuggestions, TLAPS, NaturalsInduction, WellFoundedInduction, FiniteSetTheorems,
        SequenceTheorems

allvars == <<vars, rulevars, legacyvars, returnvars>>

\* The invoice and the master data are always among the ones there are.
PlaceInv == source \in DOMAIN Invoices /\ now \in DOMAIN Worlds

LEMMA PlaceInit == ASSUME PathsInit PROVE PlaceInv
  BY DEF PathsInit, PipelineInit, PlaceInv

LEMMA PlaceStep == ASSUME PlaceInv, [PathsNext]_allvars PROVE PlaceInv'
<1>1. CASE MasterDataChanges
  <2>1. PICK drift \in Drifts : drift[1] = now /\ now' = drift[2]
    BY <1>1 DEF MasterDataChanges
  <2> DEFINE W == DOMAIN Worlds
  <2>2. drift \in W \X W
    BY DriftAssumption
  <2>3. drift[2] \in W
    <3> HIDE DEF W
    <3> QED BY <2>2
  <2>4. QED
    BY <1>1, <2>1, <2>3 DEF MasterDataChanges, PlaceInv
<1>2. CASE UNCHANGED <<source, now>>
  BY <1>2 DEF PlaceInv
<1>3. MasterDataChanges \/ UNCHANGED <<source, now>>
  BY DEF allvars, PathsNext, vars, PipelineNext, RulesNext, EditRules, Reclassify, SupplierRemediated,
         SubmitPurpose, SubmitResolution, Accept, Preview, Execute, Readback, DraftEdited
<1>4. QED
  BY <1>1, <1>2, <1>3

-----------------------------------------------------------------------------
(* The drafts of the mapping endpoints.                                    *)

\* What a request may carry.
Payloads ==
    {<<>>} \cup {ApplyResolutions(Invoices[s], Worlds[n]) : s \in DOMAIN Invoices, n \in DOMAIN Worlds}

LegacyTypes ==
    /\ moves \in Seq(Payloads) /\ sends \in Nat /\ failures \in Nat
    /\ row \in LegacyRows \cup {None} /\ writer \in LegacyRequests \cup {None}
    /\ legacy \in [LegacyRequests -> [pc : {"idle", "claim", "send", "commit"}, payload : Payloads,
                                      seen : LegacyRows \cup {None}, row : LegacyRows \cup {None}]]

\* A request past its claim holds the row, and what it is about to record is true; as long as no
\* attempt has failed, nobody else has written anything since its lookup.
ClaimInv ==
    \A r \in LegacyRequests :
        LET q == legacy[r]
        IN  /\ q.pc \in {"send", "commit"} => writer = r /\ q.row # None
            /\ q.pc = "claim" /\ q.seen # None => row # None
            /\ q.pc = "commit" => /\ q.row.status \in {"created", "failed"}
                                  /\ q.row.status = "created" => q.row.move \in 1 .. Len(moves)
            /\ failures = 0 =>
                  /\ q.pc = "claim" => q.seen = None
                  /\ q.pc = "send" => row = None /\ moves = <<>>
                  /\ q.pc = "commit" => row = None /\ Len(moves) = 1 /\ q.row.status = "created"

\* The stored record; without failures it is there exactly from the first draft on.
RecordInv ==
    /\ row # None => /\ row.status \in {"created", "failed"}
                     /\ row.status = "created" => row.move \in 1 .. Len(moves)
    /\ failures = 0 => /\ Len(moves) <= 1
                       /\ row # None => row.status = "created"
                       /\ row = None /\ writer = None => moves = <<>>

LegacyInv == LegacyTypes /\ ClaimInv /\ RecordInv

LEMMA LegacyInitial == ASSUME LegacyInit PROVE LegacyInv
<1>1. <<>> \in Payloads
  BY DEF Payloads
<1>2. <<>> \in Seq(Payloads) /\ Len(<<>>) = 0
  OBVIOUS
<1>3. NoRequest \in [pc : {"idle", "claim", "send", "commit"}, payload : Payloads,
                     seen : LegacyRows \cup {None}, row : LegacyRows \cup {None}]
  BY <1>1 DEF NoRequest
<1>4. QED
  BY <1>2, <1>3, LegacyAssumption DEF LegacyInit, LegacyInv, LegacyTypes, ClaimInv, RecordInv, NoRequest

LegacyStates ==
    [pc : {"idle", "claim", "send", "commit"}, payload : Payloads,
     seen : LegacyRows \cup {None}, row : LegacyRows \cup {None}]

LEMMA NoRequestType == NoRequest \in LegacyStates
<1>1. <<>> \in Payloads
  BY DEF Payloads
<1>2. QED
  BY <1>1 DEF NoRequest, LegacyStates

LEMMA LegacySend ==
    ASSUME LegacyInv, PlaceInv, NEW r \in LegacyRequests, SendDraft(r, inv, w) PROVE LegacyInv'
<1> DEFINE payload == ApplyResolutions(inv, w)
           sent == [NoRequest EXCEPT !.pc = "claim", !.payload = payload, !.seen = row]
<1>1. payload \in Payloads
  BY DEF PlaceInv, Payloads, inv, w
<1>2. sent \in LegacyStates /\ sent.pc = "claim" /\ sent.seen = row
  <2> HIDE DEF payload
  <2>1. row \in LegacyRows \cup {None}
    BY DEF LegacyInv, LegacyTypes
  <2>2. QED
    BY <1>1, <2>1, NoRequestType DEF LegacyStates
<1>3. \/ legacy' = [legacy EXCEPT ![r] = sent] /\ ~(row # None /\ row.status = "created" /\ row.move # 0)
      \/ legacy' = [legacy EXCEPT ![r] = NoRequest]
  BY DEF SendDraft
<1>4. UNCHANGED <<row, writer, moves, failures>> /\ sends' \in Nat
  BY DEF SendDraft, LegacyInv, LegacyTypes
<1> HIDE DEF payload, sent
<1>5. LegacyTypes'
  BY <1>2, <1>3, <1>4, NoRequestType DEF LegacyInv, LegacyTypes, LegacyStates
<1>6. RecordInv'
  BY <1>4 DEF LegacyInv, RecordInv
<1>7. failures = 0 /\ row # None => row.status = "created" /\ row.move # 0
  BY DEF LegacyInv, RecordInv
<1>8. ClaimInv'
  <2>1. CASE legacy' = [legacy EXCEPT ![r] = NoRequest]
    BY <1>4, <2>1 DEF LegacyInv, LegacyTypes, ClaimInv, NoRequest
  <2>2. CASE legacy' = [legacy EXCEPT ![r] = sent] /\ ~(row # None /\ row.status = "created" /\ row.move # 0)
    BY <1>2, <1>4, <1>7, <2>2 DEF LegacyInv, LegacyTypes, ClaimInv
  <2>3. QED
    BY <1>3, <2>1, <2>2
<1>9. QED
  BY <1>5, <1>6, <1>8 DEF LegacyInv

LEMMA LegacyClaim ==
    ASSUME LegacyInv, NEW r \in LegacyRequests, Claim(r) PROVE LegacyInv'
<1>1. UNCHANGED <<row, moves, sends, failures>> /\ legacy[r].pc = "claim" /\ writer = None
  BY DEF Claim
<1>2. \A s \in LegacyRequests : legacy[s].pc \notin {"send", "commit"}
  BY <1>1, LegacyAssumption DEF LegacyInv, ClaimInv
<1>3. CASE ClaimConflicts(r)
  <2>1. legacy' = [legacy EXCEPT ![r] = NoRequest] /\ UNCHANGED writer
    BY <1>3 DEF Claim
  <2>2. LegacyTypes'
    BY <1>1, <2>1, NoRequestType DEF LegacyInv, LegacyTypes, LegacyStates
  <2>3. ClaimInv' /\ RecordInv'
    BY <1>1, <2>1 DEF LegacyInv, LegacyTypes, ClaimInv, RecordInv, NoRequest
  <2>4. QED
    BY <2>2, <2>3 DEF LegacyInv
<1>4. CASE ~ClaimConflicts(r)
  <2> DEFINE claimed == Claimed(r)
  <2>1. legacy' = [legacy EXCEPT ![r].pc = "send", ![r].row = claimed] /\ writer' = r
    BY <1>4 DEF Claim
  <2>2. claimed \in LegacyRows
    <3>1. CASE legacy[r].seen = None
      BY <3>1 DEF Claimed, LegacyRows
    <3>2. CASE legacy[r].seen # None
      <4>1. row \in LegacyRows /\ legacy[r].seen \in LegacyRows
        BY <1>1, <3>2 DEF LegacyInv, LegacyTypes, ClaimInv
      <4>2. claimed = [row EXCEPT !.status = "pending", !.attempts = legacy[r].seen.attempts + 1]
        BY <3>2 DEF Claimed
      <4>3. legacy[r].seen.attempts + 1 \in Nat
        BY <4>1 DEF LegacyRows
      <4>4. QED
        BY <4>1, <4>2, <4>3 DEF LegacyRows
    <3>3. QED
      BY <3>1, <3>2
  <2> HIDE DEF claimed
  <2>3. LegacyTypes'
    BY <1>1, <2>1, <2>2 DEF LegacyInv, LegacyTypes
  <2>4. failures = 0 => legacy[r].seen = None /\ row = None /\ moves = <<>>
    BY <1>1, <1>4 DEF LegacyInv, ClaimInv, RecordInv, ClaimConflicts
  <2>5. /\ legacy'[r].pc = "send" /\ legacy'[r].row = claimed /\ claimed # None
        /\ \A s \in LegacyRequests \ {r} : legacy'[s] = legacy[s]
    BY <2>1, <2>2, LegacyAssumption DEF LegacyInv, LegacyTypes
  <2>6. ClaimInv'
    BY <1>1, <1>2, <2>1, <2>4, <2>5 DEF LegacyInv, ClaimInv
  <2>7. RecordInv'
    BY <1>1, <2>1, LegacyAssumption DEF LegacyInv, RecordInv
  <2>8. QED
    BY <2>3, <2>6, <2>7 DEF LegacyInv
<1>5. QED
  BY <1>3, <1>4

LEMMA LegacyCreate ==
    ASSUME LegacyInv, NEW r \in LegacyRequests, CreateMove(r) \/ CreateMoveFails(r) PROVE LegacyInv'
<1>1. legacy[r].pc = "send" /\ writer = r /\ UNCHANGED <<row, writer, sends>>
  BY DEF CreateMove, CreateMoveFails, LegacyInv, ClaimInv
<1>2. legacy[r].payload \in Payloads /\ moves \in Seq(Payloads) /\ Len(moves) \in Nat
      /\ legacy[r].row \in LegacyRows
  BY <1>1 DEF LegacyInv, LegacyTypes, ClaimInv
<1> DEFINE more == Append(moves, legacy[r].payload)
<1>3. more \in Seq(Payloads) /\ Len(more) = Len(moves) + 1
  BY <1>2
<1> HIDE DEF more
<1>4. \A s \in LegacyRequests \ {r} : legacy[s].pc \notin {"send", "commit"}
  BY <1>1 DEF LegacyInv, ClaimInv
<1>5a. failures = 0 => Len(moves) = 0 /\ row = None
  BY <1>1 DEF LegacyInv, ClaimInv
<1>5. CASE CreateMove(r)
  <2>1. /\ moves' = more /\ failures' = failures
        /\ legacy' = [legacy EXCEPT ![r].pc = "commit", ![r].row.status = "created", ![r].row.move = Len(more)]
    BY <1>5 DEF CreateMove, more
  <2>2. /\ legacy'[r] \in LegacyStates /\ legacy'[r].pc = "commit"
        /\ legacy'[r].row.status = "created" /\ legacy'[r].row.move = Len(moves) + 1
        /\ legacy'[r].row # None
    <3> DEFINE written == [legacy[r].row EXCEPT !.status = "created", !.move = Len(more)]
    <3>1. written \in LegacyRows /\ written.status = "created" /\ written.move = Len(moves) + 1
      <4>1. ASSUME NEW n \in Nat, NEW x \in LegacyRows
            PROVE  LET y == [x EXCEPT !.status = "created", !.move = n]
                   IN  y \in LegacyRows /\ y.status = "created" /\ y.move = n
        BY DEF LegacyRows
      <4>2. legacy[r].row \in LegacyRows /\ Len(more) \in Nat /\ Len(more) = Len(moves) + 1
        BY <1>2, <1>3
      <4>3. written \in LegacyRows /\ written.status = "created" /\ written.move = Len(more)
        BY <4>1, <4>2
      <4>4. QED
        BY <4>2, <4>3
    <3> HIDE DEF written
    <3>2. legacy[r] \in LegacyStates
      BY DEF LegacyInv, LegacyTypes, LegacyStates
    <3>3. legacy'[r] = [legacy[r] EXCEPT !.pc = "commit", !.row = written]
      BY <2>1, <3>2 DEF LegacyInv, LegacyTypes, LegacyStates, written
    <3>4. QED
      BY <3>1, <3>2, <3>3, LegacyAssumption DEF LegacyStates
  <2>3. legacy' \in [LegacyRequests -> LegacyStates] /\ \A s \in LegacyRequests \ {r} : legacy'[s] = legacy[s]
    BY <2>1, <2>2 DEF LegacyInv, LegacyTypes, LegacyStates
  <2>4. LegacyTypes'
    BY <1>1, <1>3, <2>1, <2>3 DEF LegacyInv, LegacyTypes, LegacyStates
  <2>5. ClaimInv'
    <3>1. Len(moves') = Len(moves) + 1 /\ Len(moves') \in 1 .. Len(moves')
      BY <1>2, <1>3, <2>1
    <3>2. SUFFICES ASSUME NEW s \in LegacyRequests PROVE ClaimInv!(s)'
      BY DEF ClaimInv
    <3>3. CASE s = r
      BY <1>1, <1>2, <1>5a, <2>1, <2>2, <3>1, <3>3
    <3>4. CASE s # r
      BY <1>1, <1>4, <2>1, <2>3, <3>4 DEF LegacyInv, ClaimInv
    <3>5. QED
      BY <3>3, <3>4
  <2>6. RecordInv'
    BY <1>1, <1>2, <1>3, <2>1, LegacyAssumption DEF LegacyInv, ClaimInv, RecordInv
  <2>7. QED
    BY <2>4, <2>5, <2>6 DEF LegacyInv
<1>6. CASE CreateMoveFails(r)
  <2>1. /\ moves' \in {moves, more} /\ failures' = failures + 1 /\ failures' # 0
        /\ legacy' = [legacy EXCEPT ![r].pc = "commit", ![r].row.status = "failed"]
    BY <1>6 DEF CreateMoveFails, more, LegacyInv, LegacyTypes
  <2>2. /\ legacy'[r] \in LegacyStates /\ legacy'[r].pc = "commit"
        /\ legacy'[r].row.status = "failed" /\ legacy'[r].row # None
    BY <1>2, <2>1, LegacyAssumption DEF LegacyInv, LegacyTypes, LegacyRows, LegacyStates
  <2>3. legacy' \in [LegacyRequests -> LegacyStates] /\ \A s \in LegacyRequests \ {r} : legacy'[s] = legacy[s]
    BY <2>1, <2>2 DEF LegacyInv, LegacyTypes, LegacyStates
  <2>4. LegacyTypes'
    BY <1>1, <1>2, <1>3, <2>1, <2>3 DEF LegacyInv, LegacyTypes, LegacyStates
  <2>5. ClaimInv'
    BY <1>1, <1>2, <1>3, <1>4, <2>1, <2>2, <2>3 DEF LegacyInv, ClaimInv
  <2>6. RecordInv'
    BY <1>1, <1>2, <1>3, <2>1 DEF LegacyInv, LegacyTypes, RecordInv, LegacyRows
  <2>7. QED
    BY <2>4, <2>5, <2>6 DEF LegacyInv
<1>7. QED
  BY <1>5, <1>6

LEMMA LegacyCommit ==
    ASSUME LegacyInv, NEW r \in LegacyRequests, CommitDraft(r) \/ DraftLost(r) PROVE LegacyInv'
<1>1. /\ legacy[r].pc \in {"send", "commit"} /\ writer' = None
      /\ legacy' = [legacy EXCEPT ![r] = NoRequest] /\ UNCHANGED <<moves, sends>>
  BY DEF CommitDraft, DraftLost
<1>2. \A s \in LegacyRequests \ {r} : legacy[s].pc \notin {"send", "commit"} /\ legacy'[s] = legacy[s]
  BY <1>1 DEF LegacyInv, LegacyTypes, ClaimInv
<1>3. legacy' \in [LegacyRequests -> LegacyStates] /\ legacy'[r].pc = "idle" /\ legacy[r].row \in LegacyRows
  BY <1>1, NoRequestType DEF LegacyInv, LegacyTypes, LegacyStates, ClaimInv, NoRequest
<1>4. CASE CommitDraft(r)
  <2>1. row' = legacy[r].row /\ row' # None /\ failures' = failures /\ legacy[r].pc = "commit"
    BY <1>3, <1>4, LegacyAssumption DEF CommitDraft
  <2>2. LegacyTypes'
    BY <1>1, <1>3, <2>1 DEF LegacyInv, LegacyTypes, LegacyStates
  <2>3. ClaimInv'
    BY <1>1, <1>2, <1>3, <2>1 DEF LegacyInv, ClaimInv
  <2>4. RecordInv'
    BY <1>1, <1>3, <2>1 DEF LegacyInv, ClaimInv, RecordInv
  <2>5. QED
    BY <2>2, <2>3, <2>4 DEF LegacyInv
<1>5. CASE DraftLost(r)
  <2>1. row' = row /\ failures' = failures + 1 /\ failures' \in Nat /\ failures' # 0
    BY <1>5 DEF DraftLost, LegacyInv, LegacyTypes
  <2>2. LegacyTypes'
    BY <1>1, <1>3, <2>1 DEF LegacyInv, LegacyTypes, LegacyStates
  <2>3. ClaimInv'
    BY <1>1, <1>2, <1>3, <2>1 DEF LegacyInv, ClaimInv
  <2>4. RecordInv'
    BY <1>1, <2>1 DEF LegacyInv, RecordInv
  <2>5. QED
    BY <2>2, <2>3, <2>4 DEF LegacyInv
<1>6. QED
  BY <1>4, <1>5

LEMMA LegacyStep == ASSUME LegacyInv, PlaceInv, [PathsNext]_allvars PROVE LegacyInv'
<1>1. CASE LegacyNext(inv, w)
  BY <1>1, LegacySend, LegacyClaim, LegacyCreate, LegacyCommit DEF LegacyNext
<1>2. CASE UNCHANGED legacyvars
  BY <1>2 DEF LegacyInv, LegacyTypes, ClaimInv, RecordInv, legacyvars
<1>3. QED
  BY <1>1, <1>2 DEF PathsNext, allvars

LEMMA LegacyInvariant == PathsSpec => []LegacyInv
<1>1. PathsInit => PlaceInv /\ LegacyInv
  BY PlaceInit, LegacyInitial DEF PathsInit
<1>2. PlaceInv /\ LegacyInv /\ [PathsNext]_allvars => PlaceInv' /\ LegacyInv'
  BY PlaceStep, LegacyStep
<1>3. QED
  BY <1>1, <1>2, PTL DEF PathsSpec, allvars

\* Requests that race for one ETTN (invoice_draft_service.py) create a second draft only after a
\* failed attempt, and the record one leaves is never pending and never names a draft there is not.
THEOREM LegacyOnce == PathsSpec => []LegacyDraftsAreOnce
<1>1. LegacyInv => LegacyDraftsAreOnce
  BY DEF LegacyInv, LegacyTypes, RecordInv, LegacyDraftsAreOnce, SecondDraftNeedsFailure, NoClaimOutlivesItsRequest
<1>2. QED
  BY <1>1, LegacyInvariant, PTL

-----------------------------------------------------------------------------
(* The lookup of the invoice that a return refers to.                      *)

\* The invoices a number and a date may mean.
Found(k) == {o \in Originals : Original[o].number = k[1] /\ InWindow(o, k[2])}

Ids(rows) == {c.id : c \in rows}

CandidateRows == [id : Originals, status : OutboxStatuses, archived : Places \cup {None}]

RowsFor(k, rows) == IsFiniteSet(rows) /\ Ids(rows) \subseteq Found(k)

\* A search nothing is missing from.
Whole(s) == s.completed /\ ~Truncated(s) /\ ~TotalMissing(s)

KeyOf(ref) == <<ref.number, ref.date>>

VerdictStatuses == {"MATCHED", "COMPANY_UNVERIFIED", "INCOMPLETE_SEARCH", "REFERENCE_UNPARSEABLE",
                    "AMBIGUOUS", "MISMATCH", "NOT_FOUND"}

Verdicts == [status : VerdictStatuses, candidates : SUBSET CandidateRows]

LookupTypes ==
    /\ outbox \in [Originals -> [place : Places, status : OutboxStatuses]]
    /\ references \in ReferenceLists \cup {<<>>}
    /\ verdicts \in Seq(Verdicts) /\ Len(verdicts) <= Len(references)
    /\ DOMAIN cache \subseteq DOMAIN before
    /\ stage \in {"idle", "company"} => verdicts = <<>> /\ cache = <<>>
    /\ stage \in {"company", "search", "again"} => \E i \in DOMAIN references : ~FormatIssues(references[i])

\* What was there when the first of two searches began is among its rows, or archived by now.
FirstInv ==
    stage = "again" =>
        /\ Open /\ ~FormatIssues(Ref) /\ Key \notin DOMAIN cache /\ Key \in DOMAIN before
        /\ RowsFor(Key, first.rows) /\ first.rows \in SUBSET CandidateRows
        /\ Whole(first) => \A o \in before[Key] \cap Found(Key) : o \in Ids(first.rows) \/ outbox[o].place = "archived"

\* Two whole searches saw all that was there.
CacheInv ==
    \A k \in DOMAIN cache :
        /\ RowsFor(k, cache[k].candidates)
        /\ cache[k].candidates \in SUBSET CandidateRows
        /\ (\A s \in cache[k].searches : Whole(s)) => before[k] \cap Found(k) \subseteq Ids(cache[k].candidates)

VerdictInv ==
    \A i \in DOMAIN verdicts :
        /\ verdicts[i].status \in {"NOT_FOUND", "MATCHED"} => KeyOf(references[i]) \in DOMAIN cache
        /\ VerdictIsTrue(references[i], verdicts[i], inv)

LookupInv == LookupTypes /\ FirstInv /\ CacheInv /\ VerdictInv /\ LookupIsTrue

LEMMA MinOfTwo ==
    ASSUME NEW a \in Nat, NEW b \in Nat PROVE Min({a, b}) = IF a <= b THEN a ELSE b
<1>1. PICK m \in {a, b} : \A y \in {a, b} : m <= y
  BY Z3
<1>2. Min({a, b}) \in {a, b} /\ \A y \in {a, b} : Min({a, b}) <= y
  BY <1>1 DEF Min
<1>3. QED
  BY <1>2

\* A page of all rows that match shows every one of them.
LEMMA WholePage ==
    ASSUME NEW matching, IsFiniteSet(matching), NEW shown \in FirstPages(matching),
           \/ Cardinality(shown) >= Cardinality(matching)
           \/ Cardinality(shown) < PageSize
    PROVE  shown = matching
<1>1. shown \subseteq matching /\ Cardinality(shown) = Min({PageSize, Cardinality(matching)})
  BY DEF FirstPages
<1>2. Cardinality(matching) \in Nat /\ IsFiniteSet(shown) /\ Cardinality(shown) \in Nat
  BY <1>1, FS_Subset, FS_CardinalityType
<1>3. Cardinality(shown) = IF PageSize <= Cardinality(matching) THEN PageSize ELSE Cardinality(matching)
  BY <1>1, <1>2, MinOfTwo, OutboxAssumption
<1>4. Cardinality(shown) = Cardinality(matching)
  BY <1>2, <1>3, OutboxAssumption
<1>5. QED
  BY <1>1, <1>2, <1>4, FS_Subset

\* The call _search_partition: its rows are of the reference, and a whole answer has all of them.
LEMMA SearchOutcome ==
    ASSUME LookupTypes, NEW place \in Places, NEW k, NEW s \in SearchPartition(place, k)
    PROVE  /\ RowsFor(k, s.rows) /\ s.rows \in SUBSET CandidateRows
           /\ Whole(s) => \A o \in Found(k) : outbox[o].place = place => o \in Ids(s.rows)
<1>1. CASE s = NoSearch
  <2>1. s.rows = {} /\ ~s.completed
    BY <1>1 DEF NoSearch
  <2>2. QED
    BY <2>1, FS_EmptySet DEF RowsFor, Ids, Whole
<1>2. CASE s # NoSearch
  <2>0. PICK matching \in {Listed(place, k), {o \in Listed(place, k) : Original[o].number = k[1]}} :
                s \in {Page(place, k, matching, shown, counted, stated) :
                            shown \in FirstPages(matching), counted \in BOOLEAN, stated \in BOOLEAN}
    BY <1>2 DEF SearchPartition
  <2>1. PICK shown \in FirstPages(matching), counted \in BOOLEAN, stated \in BOOLEAN :
                s = Page(place, k, matching, shown, counted, stated)
    BY <2>0
  <2>2. matching \subseteq Listed(place, k) /\ IsFiniteSet(matching) /\ shown \subseteq matching
    <3>1. matching \in SUBSET Originals /\ matching \subseteq Listed(place, k)
      BY DEF Listed
    <3>2. QED
      BY <3>1, FS_Subset, OutboxAssumption DEF FirstPages
  <2>3. IsFiniteSet(shown)
    BY <2>2, FS_Subset
  <2> DEFINE line(o) == [id |-> o, status |-> outbox[o].status, archived |-> IF stated THEN place ELSE None]
             all == {line(o) : o \in shown}
  <2>4. s.rows = {c \in all : Original[c.id].number = k[1]}
    BY <2>1 DEF Page, ExactCandidates, Rows
  <2>5. IsFiniteSet(all)
    <3> HIDE DEF line
    <3>1. [o \in shown |-> line(o)] \in Surjection(shown, all)
      BY DEF Surjection
    <3>2. QED
      BY <2>3, <3>1, FS_Surjection
  <2>6. all \in SUBSET CandidateRows
    BY <2>2 DEF Listed, CandidateRows, LookupTypes
  <2>7. \A c \in all : c.id \in shown
    OBVIOUS
  <2>8. \A o \in shown : line(o) \in all /\ line(o).id = o
    OBVIOUS
  <2> HIDE DEF all, line
  <2>9. RowsFor(k, s.rows) /\ s.rows \in SUBSET CandidateRows
    <3>1. s.rows \in SUBSET all
      BY <2>4
    <3>2. IsFiniteSet(s.rows)
      BY <3>1, <2>5, FS_Subset
    <3>3. Ids(s.rows) \subseteq Found(k)
      BY <2>2, <2>4, <2>7 DEF Ids, Found, Listed
    <3>4. QED
      BY <3>1, <3>2, <3>3, <2>6 DEF RowsFor
  <2>10. ASSUME Whole(s), NEW o \in Found(k), outbox[o].place = place PROVE o \in Ids(s.rows)
    <3>1. o \in matching
      BY <2>10 DEF Found, Listed
    <3>2. s.total = (IF counted THEN Cardinality(matching) ELSE None) /\ s.returned = Cardinality(shown)
      BY <2>1 DEF Page
    <3>3. s.completed /\ ~(s.total # None /\ s.total > s.returned) /\ ~(s.total = None /\ s.returned >= PageSize)
      BY <2>10 DEF Whole, Truncated, TotalMissing
    <3>4. Cardinality(matching) \in Nat /\ Cardinality(shown) \in Nat
      BY <2>2, <2>3, FS_CardinalityType
    <3>5. Cardinality(shown) >= Cardinality(matching) \/ Cardinality(shown) < PageSize
      BY <3>2, <3>3, <3>4, OutboxAssumption
    <3>6. o \in shown
      BY <3>1, <3>5, <2>2, WholePage
    <3>7. line(o) \in s.rows
      BY <3>6, <2>4, <2>8, <2>10 DEF Found
    <3>8. QED
      BY <3>6, <3>7, <2>8 DEF Ids
  <2>11. QED
    BY <2>9, <2>10
<1>3. QED
  BY <1>1, <1>2

\* Deduplicate loses no invoice: two of one key are one.
LEMMA DeduplicateKeeps ==
    ASSUME NEW A \in SUBSET CandidateRows, NEW B \in SUBSET CandidateRows
    PROVE  Deduplicate(A, B) \subseteq A \cup B /\ Ids(Deduplicate(A, B)) = Ids(A) \cup Ids(B)
<1>1. Deduplicate(A, B) \subseteq A \cup B /\ A \subseteq Deduplicate(A, B)
  BY DEF Deduplicate
<1>2. ASSUME NEW c \in B, c \notin Deduplicate(A, B) PROVE c.id \in Ids(A)
  <2>1. PICK d \in A : DedupKey(d) = DedupKey(c)
    BY <1>2 DEF Deduplicate
  <2>2. c.id \in Originals /\ d.id \in Originals
    BY DEF CandidateRows
  <2>3. \A a, b, x, y : <<x>> # <<a, b, y>>
    OBVIOUS
  <2>4. SameIdentity(d.id, c.id)
    <3>1. CASE Original[c.id].ettn # None /\ Original[d.id].ettn # None
      BY <2>1, <3>1 DEF DedupKey, SameIdentity
    <3>2. CASE Original[c.id].ettn = None /\ Original[d.id].ettn = None
      BY <2>1, <3>2 DEF DedupKey, SameIdentity
    <3>3. CASE (Original[c.id].ettn = None) # (Original[d.id].ettn = None)
      BY <2>1, <2>3, <3>3 DEF DedupKey
    <3>4. QED
      BY <3>1, <3>2, <3>3
  <2>5. d.id = c.id
    BY <2>2, <2>4, OutboxAssumption
  <2>6. QED
    BY <2>5 DEF Ids
<1>3. QED
  BY <1>1, <1>2 DEF Ids

\* The cached answer for a reference is of that reference, and complete if its searches are, given
\* what was there before.
EntryTrue(ref, entry, B) ==
    /\ RowsFor(KeyOf(ref), entry.candidates)
    /\ (\A s \in entry.searches : Whole(s)) => B \cap Found(KeyOf(ref)) \subseteq Ids(entry.candidates)

StatusTrue(ref, entry, B, status) ==
    /\ status \in VerdictStatuses
    /\ status = "NOT_FOUND" => B \cap Found(KeyOf(ref)) = {}
    /\ status = "MATCHED" =>
          \E o \in Found(KeyOf(ref)) :
              /\ B \cap Found(KeyOf(ref)) \subseteq {o} /\ Ids(entry.candidates) = {o}
              /\ Original[o].date = ref.date /\ Original[o].date <= inv.date
              /\ Original[o].buyer = inv.vat

\* _reference_status: what it answers is true of the outbox when the cached searches are.
LEMMA StatusIsTrue ==
    ASSUME NEW ref, NEW entry, NEW B, EntryTrue(ref, entry, B)
    PROVE  StatusTrue(ref, entry, B, ReferenceStatus(entry.searches, entry.candidates, ref, inv))
<1> DEFINE status == ReferenceStatus(entry.searches, entry.candidates, ref, inv)
<1> USE DEF EntryTrue
<1> DEFINE C == entry.candidates
<1>1. status \in VerdictStatuses
  BY DEF ReferenceStatus, VerdictStatuses
<1>2. ASSUME status \in {"NOT_FOUND", "MATCHED"}
      PROVE  /\ B \cap Found(KeyOf(ref)) \subseteq Ids(C) /\ ~(Cardinality(C) > 1)
             /\ status = "NOT_FOUND" => C = {}
             /\ status = "MATCHED" => C # {} /\ \A c \in C : ChecksPass(c, ref, inv)
  BY <1>2 DEF ReferenceStatus, Whole
<1>3. status = "NOT_FOUND" => B \cap Found(KeyOf(ref)) = {}
  BY <1>2 DEF Ids
<1>4. ASSUME status = "MATCHED"
      PROVE  \E o \in Found(KeyOf(ref)) :
                    /\ B \cap Found(KeyOf(ref)) \subseteq {o} /\ Ids(C) = {o}
                    /\ Original[o].date = ref.date /\ Original[o].date <= inv.date
                    /\ Original[o].buyer = inv.vat
  <2>1. PICK c \in C : TRUE
    BY <1>2, <1>4
  <2>2. C = {c}
    <3>1. IsFiniteSet(C) /\ {c} \in SUBSET C /\ Cardinality(C) \in Nat
      BY <2>1, FS_CardinalityType DEF RowsFor
    <3>2. Cardinality({c}) = 1 /\ Cardinality({c}) <= Cardinality(C)
      BY <3>1, FS_Subset, FS_Singleton
    <3>3. Cardinality(C) = 1
      BY <1>2, <1>4, <3>1, <3>2
    <3>4. QED
      BY <3>1, <3>2, <3>3, FS_Subset
  <2>3. Ids(C) = {c.id} /\ c.id \in Found(KeyOf(ref))
    BY <2>2 DEF Ids, RowsFor
  <2>4. ChecksPass(c, ref, inv)
    BY <1>2, <1>4
  <2>5. QED
    BY <1>2, <1>4, <2>3, <2>4 DEF ChecksPass
<1>5. QED
  BY <1>1, <1>3, <1>4 DEF StatusTrue

\* Only a pair of searches changes what is known; the rest keep the invariant by its parts.
LEMMA SourceFixed == ASSUME [PathsNext]_allvars PROVE source' = source /\ inv' = inv
<1>1. source' = source
  BY DEF allvars, PathsNext, vars, PipelineNext, RulesNext, EditRules, Reclassify, SupplierRemediated,
         SubmitPurpose, SubmitResolution, Accept, Preview, Execute, Readback, MasterDataChanges, DraftEdited
<1>2. QED
  BY <1>1 DEF inv

LEMMA ReferencesType ==
    ASSUME LookupTypes PROVE Len(references) \in Nat /\ DOMAIN references = 1 .. Len(references)
                             /\ \A refs \in ReferenceLists : DOMAIN refs = 1 .. Len(refs) /\ Len(refs) \in Nat
<1>1. \A refs \in ReferenceLists : DOMAIN refs = 1 .. Len(refs) /\ Len(refs) \in Nat
  <2>1. ASSUME NEW refs \in ReferenceLists PROVE DOMAIN refs = 1 .. Len(refs) /\ Len(refs) \in Nat
    <3>1. PICK S : refs \in Seq(S)
      BY OutboxAssumption
    <3>2. QED
      BY <3>1
  <2>2. QED
    BY <2>1
<1>2. QED
  BY <1>1 DEF LookupTypes

\* Among several verdicts the overall status is never matched unless they all are.
LEMMA OverallMatched ==
    ASSUME NEW n \in Nat, NEW list, DOMAIN list = 1 .. n, n > 0,
           \A i \in 1 .. n : list[i].status \in VerdictStatuses,
           OverallStatus(list) = "MATCHED"
    PROVE  \A i \in 1 .. n : list[i].status = "MATCHED"
<1> DEFINE present == {list[i].status : i \in DOMAIN list}
           Is(i) == Precedence[i] \in present /\ \A j \in 1 .. i - 1 : Precedence[j] \notin present
<1>1. CASE present = {"MATCHED"}
  BY <1>1
<1>2. CASE present # {"MATCHED"}
  <2>1. 1 \in 1 .. n /\ present # {} /\ present \subseteq VerdictStatuses
    OBVIOUS
  <2>2. /\ DOMAIN Precedence = 1 .. 6
        /\ Precedence[1] = "COMPANY_UNVERIFIED" /\ Precedence[2] = "INCOMPLETE_SEARCH"
        /\ Precedence[3] = "REFERENCE_UNPARSEABLE" /\ Precedence[4] = "AMBIGUOUS"
        /\ Precedence[5] = "MISMATCH" /\ Precedence[6] = "NOT_FOUND"
    BY DEF Precedence
  <2>3. \E i \in 1 .. 6 : Precedence[i] \in present
    <3>1. PICK x \in present : x # "MATCHED"
      BY <1>2, <2>1
    <3> HIDE DEF present
    <3>2. QED
      BY <2>1, <2>2, <3>1 DEF VerdictStatuses
  <2>4. \E i \in DOMAIN Precedence : Is(i)
    <3> HIDE DEF present
    <3>1. CASE Precedence[1] \in present
      BY <2>2, <3>1
    <3>2. CASE Precedence[1] \notin present /\ Precedence[2] \in present
      BY <2>2, <3>2
    <3>3. CASE Precedence[1] \notin present /\ Precedence[2] \notin present /\ Precedence[3] \in present
      BY <2>2, <3>3
    <3>4. CASE /\ Precedence[1] \notin present /\ Precedence[2] \notin present /\ Precedence[3] \notin present
               /\ Precedence[4] \in present
      BY <2>2, <3>4
    <3>5. CASE /\ Precedence[1] \notin present /\ Precedence[2] \notin present /\ Precedence[3] \notin present
               /\ Precedence[4] \notin present /\ Precedence[5] \in present
      BY <2>2, <3>5
    <3>6. CASE /\ Precedence[1] \notin present /\ Precedence[2] \notin present /\ Precedence[3] \notin present
               /\ Precedence[4] \notin present /\ Precedence[5] \notin present
      <4>1. Precedence[6] \in present /\ 6 \in DOMAIN Precedence
        <5>1. PICK i \in 1 .. 6 : Precedence[i] \in present
          BY <2>3
        <5>2. i = 6
          BY <3>6, <5>1
        <5>3. QED
          BY <2>2, <5>1, <5>2
      <4>2. \A j \in 1 .. 5 : Precedence[j] \notin present
        BY <3>6
      <4>3. Is(6)
        BY <4>1, <4>2
      <4>4. QED
        BY <4>1, <4>3
    <3>7. QED
      BY <3>1, <3>2, <3>3, <3>4, <3>5, <3>6
  <2>5. PICK i \in DOMAIN Precedence : OverallStatus(list) = Precedence[i]
    <3>1. OverallStatus(list) = Precedence[CHOOSE i \in DOMAIN Precedence : Is(i)]
      BY <1>2 DEF OverallStatus
    <3>2. (CHOOSE i \in DOMAIN Precedence : Is(i)) \in DOMAIN Precedence
      <4> HIDE DEF Is
      <4> QED BY <2>4
    <3>3. QED
      BY <3>1, <3>2
  <2>6. Precedence[i] # "MATCHED"
    BY <2>2
  <2>7. QED
    BY <2>5, <2>6
<1>3. QED
  BY <1>1, <1>2

LEMMA LookupInitial == ASSUME ReturnInit PROVE LookupInv
<1>1. <<>> \in Seq(Verdicts) /\ Len(<<>>) = 0 /\ DOMAIN <<>> = {}
  OBVIOUS
<1>2. QED
  BY <1>1, OutboxAssumption
     DEF ReturnInit, LookupInv, LookupTypes, FirstInv, CacheInv, VerdictInv, LookupIsTrue, LookupIsTrueFor

\* Of a reference that was not searched for.
LEMMA Unsearched ==
    ASSUME NEW ref, NEW fallback \in {"REFERENCE_UNPARSEABLE", "COMPANY_UNVERIFIED"}
    PROVE  LET u == UnsearchedReference(ref, fallback)
           IN  /\ u \in Verdicts /\ u.candidates = {} /\ u.status \in {"REFERENCE_UNPARSEABLE", fallback}
               /\ VerdictIsTrue(ref, u, inv)
<1>1. LET u == UnsearchedReference(ref, fallback)
      IN  /\ u \in Verdicts /\ u.candidates = {} /\ u.status \in {"REFERENCE_UNPARSEABLE", fallback}
  BY DEF UnsearchedReference, Verdicts, VerdictStatuses
<1>2. QED
  BY <1>1 DEF VerdictIsTrue

LEMMA LookupOpens == ASSUME LookupInv, inv' = inv, OpenLookup(inv) PROVE LookupInv'
<1>1. PICK refs \in ExtractBillingReferences(inv) : OpenLookup(inv)!2!(refs)
  BY DEF OpenLookup
<1> DEFINE unsearched == [i \in DOMAIN refs |-> UnsearchedReference(refs[i], "REFERENCE_UNPARSEABLE")]
           status     == IF ~Readable(inv) THEN "REFERENCE_UNPARSEABLE"
                         ELSE IF refs = <<>> THEN "REFERENCE_MISSING" ELSE OverallStatus(unsearched)
<1>2. /\ references' = refs
      /\ IF \A i \in DOMAIN refs : FormatIssues(refs[i])
         THEN stage' = "answered" /\ answer' = Response(status, FALSE, unsearched)
         ELSE stage' = "company" /\ UNCHANGED answer
  BY <1>1 DEF OpenLookup
<1>3. /\ stage = "idle" /\ verdicts = <<>> /\ cache = <<>>
      /\ UNCHANGED <<outbox, first, cache, verdicts, before, outboxEvents>>
  BY DEF OpenLookup, LookupInv, LookupTypes
<1>4. refs \in ReferenceLists \cup {<<>>} /\ Len(refs) \in Nat /\ DOMAIN refs = 1 .. Len(refs)
  <2>1. refs \in ReferenceLists \cup {<<>>}
    BY DEF ExtractBillingReferences
  <2>2. QED
    BY <2>1, ReferencesType DEF LookupInv
<1>5. <<>> \in Seq(Verdicts) /\ Len(<<>>) = 0 /\ DOMAIN <<>> = {}
  OBVIOUS
<1>6. LookupTypes' /\ FirstInv' /\ CacheInv' /\ VerdictInv'
  <2> HIDE DEF status, unsearched
  <2>1. /\ references' = refs /\ stage' \in {"answered", "company"}
        /\ stage' = "company" => \E i \in DOMAIN refs : ~FormatIssues(refs[i])
    BY <1>2
  <2>2. LookupTypes'
    BY <1>3, <1>4, <1>5, <2>1 DEF LookupInv, LookupTypes, FormatIssues
  <2>3. QED
    BY <1>3, <1>5, <2>1, <2>2 DEF FirstInv, CacheInv, VerdictInv
<1>7. \A i \in DOMAIN refs : /\ unsearched[i].status = "REFERENCE_UNPARSEABLE"
                             /\ unsearched[i] \in Verdicts /\ unsearched[i].candidates = {}
  BY Unsearched DEF Verdicts
<1>8. CASE stage' = "answered"
  <2>1. answer' = Response(status, FALSE, unsearched)
    BY <1>2, <1>8
  <2>2. status # "MATCHED"
    <3>1. CASE ~Readable(inv) \/ refs = <<>>
      BY <3>1
    <3>2. CASE Readable(inv) /\ refs # <<>>
      <4>1. Len(refs) > 0 /\ 1 \in DOMAIN refs
        BY <1>4, <3>2
      <4>2. status = OverallStatus(unsearched)
        BY <3>2
      <4> HIDE DEF unsearched, status
      <4>3. DOMAIN unsearched = 1 .. Len(refs) /\ \A i \in 1 .. Len(refs) : unsearched[i].status \in VerdictStatuses
        BY <1>4, <1>7 DEF VerdictStatuses, unsearched
      <4>4. unsearched[1].status # "MATCHED"
        BY <1>7, <4>1
      <4>5. QED
        BY <1>4, <4>1, <4>2, <4>3, <4>4, OverallMatched
    <3>3. QED
      BY <3>1, <3>2
  <2>3. /\ answer'.status = status /\ DOMAIN answer'.references = DOMAIN refs
        /\ \A i \in DOMAIN refs : /\ answer'.references[i].candidates = {}
                                  /\ answer'.references[i].status = "REFERENCE_UNPARSEABLE"
    <3> HIDE DEF status
    <3>1. DOMAIN unsearched = DOMAIN refs
      OBVIOUS
    <3> HIDE DEF unsearched
    <3>2. QED
      BY <1>7, <2>1, <3>1 DEF Response, Verdicts
  <2>4. QED
    BY <1>2, <1>6, <2>2, <2>3 DEF LookupInv, LookupIsTrue, LookupIsTrueFor, VerdictIsTrue
<1>9. CASE stage' # "answered"
  BY <1>6, <1>9 DEF LookupInv, LookupIsTrue, LookupIsTrueFor
<1>10. QED
  BY <1>8, <1>9

LEMMA CompanyAnswers == ASSUME LookupInv, inv' = inv, VerifyCompany PROVE LookupInv'
<1>1. /\ stage = "company" /\ UNCHANGED <<outbox, references, first, cache, verdicts, before, outboxEvents>>
      /\ stage' \in {"idle", "search", "answered"}
  BY DEF VerifyCompany
<1>2. LookupTypes' /\ FirstInv' /\ CacheInv'
  BY <1>1 DEF LookupInv, LookupTypes, FirstInv, CacheInv
<1>3. VerdictInv'
  BY <1>1 DEF LookupInv, LookupTypes, VerdictInv
<1>4. CASE stage' = "answered"
  <2> DEFINE list == [i \in DOMAIN references |-> UnsearchedReference(references[i], "COMPANY_UNVERIFIED")]
  <2>1. answer' = Response("COMPANY_UNVERIFIED", FALSE, list)
    BY <1>4 DEF VerifyCompany
  <2>2. DOMAIN list = DOMAIN references
    OBVIOUS
  <2>3. \A i \in DOMAIN references : list[i] \in Verdicts /\ list[i].status \notin {"NOT_FOUND", "MATCHED"}
    BY Unsearched
  <2> HIDE DEF list
  <2>4. /\ answer'.status = "COMPANY_UNVERIFIED" /\ DOMAIN answer'.references = DOMAIN references
        /\ \A i \in DOMAIN references : /\ answer'.references[i].candidates = {}
                                        /\ answer'.references[i].status \notin {"NOT_FOUND", "MATCHED"}
    BY <2>1, <2>2, <2>3 DEF Response, Verdicts
  <2>5. QED
    BY <1>1, <1>2, <1>3, <2>4 DEF LookupInv, LookupIsTrue, LookupIsTrueFor, VerdictIsTrue
<1>5. CASE stage' # "answered"
  BY <1>2, <1>3, <1>5 DEF LookupInv, LookupIsTrue, LookupIsTrueFor
<1>6. QED
  BY <1>4, <1>5

LEMMA FirstSearch == ASSUME LookupInv, inv' = inv, SearchFirst PROVE LookupInv'
<1>1. /\ stage = "search" /\ stage' = "again" /\ Open /\ ~FormatIssues(Ref) /\ Key \notin DOMAIN cache
      /\ first' \in SearchPartition("active", Key)
      /\ UNCHANGED <<outbox, references, cache, verdicts, answer, outboxEvents>>
  BY DEF SearchFirst, Partitions
<1>2. /\ before' = Extend(before, Key, {o \in Originals : outbox[o].place # "none"})
      /\ DOMAIN before' = DOMAIN before \cup {Key}
      /\ \A k \in DOMAIN before : k # Key => before'[k] = before[k]
      /\ before'[Key] = {o \in Originals : outbox[o].place # "none"}
  BY DEF SearchFirst, Extend
<1>3. Key' = Key /\ Ref' = Ref /\ Open' = Open
  BY <1>1 DEF Key, Ref, Open
<1>4. LookupTypes'
  BY <1>1, <1>2 DEF LookupInv, LookupTypes
<1>5. \A k \in DOMAIN cache : k \in DOMAIN before /\ before'[k] = before[k]
  BY <1>1, <1>2 DEF LookupInv, LookupTypes
<1>6. CacheInv'
  BY <1>1, <1>5 DEF LookupInv, CacheInv, RowsFor, Ids, Found, InWindow
<1>7. FirstInv'
  <2>1. /\ RowsFor(Key, first'.rows) /\ first'.rows \in SUBSET CandidateRows
        /\ Whole(first') => \A o \in Found(Key) : outbox[o].place = "active" => o \in Ids(first'.rows)
    BY <1>1, SearchOutcome DEF LookupInv, Places
  <2>2. \A o \in before'[Key] : outbox[o].place \in {"active", "archived"}
    BY <1>2 DEF LookupInv, LookupTypes, Places
  <2>3. Key \notin DOMAIN cache' /\ Key \in DOMAIN before' /\ outbox' = outbox
    BY <1>1, <1>2
  <2>4. (Open /\ ~FormatIssues(Ref))'
    BY <1>1, <1>3 DEF FormatIssues
  <2>5. (Whole(first) => \A o \in before[Key] \cap Found(Key) : o \in Ids(first.rows) \/ outbox[o].place = "archived")'
    BY <1>3, <2>1, <2>2, <2>3 DEF Whole, Truncated, TotalMissing, Found, Ids, InWindow
  <2>6. QED
    BY <1>3, <2>1, <2>3, <2>4, <2>5 DEF FirstInv, RowsFor, Found, Ids, InWindow
<1>8. VerdictInv'
  <2>1. ASSUME NEW i \in DOMAIN verdicts PROVE VerdictInv!(i)'
    <3>1. VerdictInv!(i)
      BY DEF LookupInv, VerdictInv
    <3>2. CASE verdicts[i].status \in {"NOT_FOUND", "MATCHED"}
      <4>1. before'[KeyOf(references[i])] = before[KeyOf(references[i])]
        BY <1>5, <3>1, <3>2
      <4>2. QED
        BY <1>1, <3>1, <4>1 DEF VerdictIsTrue, KeyOf, Named, InWindow
    <3>3. CASE verdicts[i].status \notin {"NOT_FOUND", "MATCHED"}
      BY <1>1, <3>3 DEF VerdictIsTrue, KeyOf
    <3>4. QED
      BY <3>2, <3>3
  <2>2. QED
    BY <1>1, <2>1 DEF VerdictInv
<1>9. QED
  BY <1>1, <1>4, <1>6, <1>7, <1>8 DEF LookupInv, LookupIsTrue, LookupIsTrueFor

LEMMA SecondSearch == ASSUME LookupInv, inv' = inv, SearchSecond PROVE LookupInv'
<1>1. /\ stage = "again" /\ stage' = "search" /\ UNCHANGED <<outbox, references, verdicts, answer, before, outboxEvents>>
      /\ Open /\ ~FormatIssues(Ref) /\ Key \notin DOMAIN cache /\ Key \in DOMAIN before
      /\ RowsFor(Key, first.rows) /\ first.rows \in SUBSET CandidateRows
      /\ Whole(first) => \A o \in before[Key] \cap Found(Key) : o \in Ids(first.rows) \/ outbox[o].place = "archived"
  BY DEF SearchSecond, LookupInv, FirstInv
<1>2. PICK second \in SearchPartition("archived", Key) :
        cache' = Extend(cache, Key, [searches |-> {first, second},
                                     candidates |-> Deduplicate(first.rows, second.rows)])
  BY DEF SearchSecond, Partitions
<1> DEFINE C == Deduplicate(first.rows, second.rows)
<1>3. /\ RowsFor(Key, second.rows) /\ second.rows \in SUBSET CandidateRows
      /\ Whole(second) => \A o \in Found(Key) : outbox[o].place = "archived" => o \in Ids(second.rows)
  BY <1>2, SearchOutcome DEF LookupInv, Places
<1>4. C \subseteq first.rows \cup second.rows /\ Ids(C) = Ids(first.rows) \cup Ids(second.rows)
  BY <1>1, <1>3, DeduplicateKeeps
<1> HIDE DEF C
<1>5. /\ DOMAIN cache' = DOMAIN cache \cup {Key}
      /\ \A k \in DOMAIN cache : cache'[k] = cache[k]
      /\ cache'[Key].searches = {first, second} /\ cache'[Key].candidates = C
  BY <1>1, <1>2 DEF Extend, C
<1>6. LookupTypes'
  BY <1>1, <1>5 DEF LookupInv, LookupTypes
<1>7. FirstInv'
  BY <1>1 DEF FirstInv
<1>8. CacheInv'
  <2>1. IsFiniteSet(C)
    <3>1. IsFiniteSet(first.rows \cup second.rows)
      BY <1>1, <1>3, FS_Union DEF RowsFor
    <3>2. QED
      BY <1>4, <3>1, FS_Subset
  <2>2. RowsFor(Key, C) /\ C \in SUBSET CandidateRows
    BY <1>1, <1>3, <1>4, <2>1 DEF RowsFor
  <2>3. Whole(first) /\ Whole(second) => before[Key] \cap Found(Key) \subseteq Ids(C)
    BY <1>1, <1>3, <1>4
  <2>4. SUFFICES ASSUME NEW k \in DOMAIN cache' PROVE CacheInv!(k)'
    BY DEF CacheInv
  <2>5. CASE k = Key
    BY <1>1, <1>5, <2>2, <2>3, <2>5 DEF RowsFor, Ids, Found, InWindow
  <2>6. CASE k # Key
    BY <1>1, <1>5, <2>6 DEF LookupInv, CacheInv, RowsFor, Ids, Found, InWindow
  <2>7. QED
    BY <2>5, <2>6
<1>9. VerdictInv'
  BY <1>1, <1>5 DEF LookupInv, VerdictInv, VerdictIsTrue, Named, InWindow, KeyOf
<1>10. QED
  BY <1>1, <1>6, <1>7, <1>8, <1>9 DEF LookupInv, LookupIsTrue, LookupIsTrueFor

LEMMA ReferenceAnswers == ASSUME LookupInv, inv' = inv, ReferenceResult(inv) PROVE LookupInv'
<1> DEFINE n == Len(verdicts) + 1
           new == IF FormatIssues(Ref) THEN UnsearchedReference(Ref, "REFERENCE_UNPARSEABLE")
                  ELSE [status     |-> ReferenceStatus(cache[Key].searches, cache[Key].candidates, Ref, inv),
                        candidates |-> cache[Key].candidates]
<1>1. /\ stage = "search" /\ Open /\ (FormatIssues(Ref) \/ Key \in DOMAIN cache)
      /\ verdicts' = Append(verdicts, new)
      /\ UNCHANGED <<outbox, stage, references, first, cache, answer, before, outboxEvents>>
  BY DEF ReferenceResult
<1>2. /\ Len(verdicts) \in Nat /\ verdicts \in Seq(Verdicts) /\ Len(references) \in Nat
      /\ Ref = references[n] /\ Key = KeyOf(Ref)
  BY ReferencesType DEF LookupInv, LookupTypes, Ref, Key, KeyOf
<1>3. /\ new \in Verdicts /\ VerdictIsTrue(Ref, new, inv)
      /\ new.status \in {"NOT_FOUND", "MATCHED"} => Key \in DOMAIN cache
  <2>1. CASE FormatIssues(Ref)
    BY <2>1, Unsearched
  <2>2. CASE ~FormatIssues(Ref)
    <3> DEFINE status == ReferenceStatus(cache[Key].searches, cache[Key].candidates, Ref, inv)
    <3>1. new = [status |-> status, candidates |-> cache[Key].candidates] /\ Key \in DOMAIN cache
      BY <1>1, <2>2
    <3>2. /\ RowsFor(Key, cache[Key].candidates) /\ cache[Key].candidates \in SUBSET CandidateRows
          /\ (\A s \in cache[Key].searches : Whole(s)) => before[Key] \cap Found(Key) \subseteq Ids(cache[Key].candidates)
      BY <3>1 DEF LookupInv, CacheInv
    <3>3. /\ status \in VerdictStatuses
          /\ status = "NOT_FOUND" => before[Key] \cap Found(KeyOf(Ref)) = {}
          /\ status = "MATCHED" =>
                \E o \in Found(KeyOf(Ref)) :
                    /\ before[Key] \cap Found(KeyOf(Ref)) \subseteq {o} /\ Ids(cache[Key].candidates) = {o}
                    /\ Original[o].date = Ref.date /\ Original[o].date <= inv.date
                    /\ Original[o].buyer = inv.vat
      <4>1. EntryTrue(Ref, cache[Key], before[Key])
        BY <1>2, <3>2 DEF EntryTrue
      <4>2. StatusTrue(Ref, cache[Key], before[Key], status)
        BY <4>1, StatusIsTrue
      <4>3. QED
        BY <4>2 DEF StatusTrue
    <3>4. Named(Ref) = Found(KeyOf(Ref))
      BY DEF Named, Found, KeyOf
    <3> HIDE DEF status, new
    <3>5. new.status = status /\ new.candidates = cache[Key].candidates /\ new \in Verdicts
      BY <3>1, <3>2, <3>3 DEF Verdicts
    <3>6. VerdictIsTrue(Ref, new, inv)
      <4>1. before[<<Ref.number, Ref.date>>] = before[Key] /\ Ids(new.candidates) = {c.id : c \in new.candidates}
        BY DEF Key, Ids
      <4>2. QED
        BY <3>3, <3>4, <3>5, <4>1 DEF VerdictIsTrue
    <3>7. QED
      BY <3>1, <3>5, <3>6
  <2>3. QED
    BY <2>1, <2>2
<1> HIDE DEF new
<1>4. /\ verdicts' \in Seq(Verdicts) /\ Len(verdicts') = n /\ verdicts'[n] = new
      /\ \A i \in 1 .. Len(verdicts) : verdicts'[i] = verdicts[i]
      /\ DOMAIN verdicts' = 1 .. n /\ DOMAIN verdicts = 1 .. Len(verdicts)
  BY <1>1, <1>2, <1>3
<1>5. n <= Len(references)
  BY <1>1, <1>2 DEF Open
<1>6. LookupTypes' /\ CacheInv' /\ FirstInv'
  BY <1>1, <1>4, <1>5 DEF LookupInv, LookupTypes, CacheInv, FirstInv, RowsFor, Ids, Found, InWindow
<1>7. VerdictInv'
  <2>1. SUFFICES ASSUME NEW i \in 1 .. n PROVE VerdictInv!(i)'
    BY <1>4 DEF VerdictInv
  <2>2. CASE i = n
    BY <1>1, <1>2, <1>3, <1>4, <2>2 DEF VerdictIsTrue, Named, InWindow
  <2>3. CASE i # n
    <3>1. i \in 1 .. Len(verdicts)
      BY <1>2, <2>3
    <3>2. verdicts'[i] = verdicts[i] /\ VerdictInv!(i)
      BY <1>4, <3>1 DEF LookupInv, VerdictInv
    <3>3. QED
      BY <1>1, <3>2 DEF VerdictIsTrue, Named, InWindow
  <2>4. QED
    BY <2>2, <2>3
<1>8. QED
  BY <1>1, <1>6, <1>7 DEF LookupInv, LookupIsTrue, LookupIsTrueFor

LEMMA LookupAnswers == ASSUME LookupInv, inv' = inv, AnswerLookup PROVE LookupInv'
<1>1. /\ stage = "search" /\ ~Open /\ stage' = "answered"
      /\ answer' = Response(OverallStatus(verdicts), TRUE, verdicts)
      /\ UNCHANGED <<outbox, references, first, cache, verdicts, before, outboxEvents>>
  BY DEF AnswerLookup
<1>2. /\ Len(verdicts) = Len(references) /\ Len(verdicts) \in Nat /\ Len(verdicts) > 0
      /\ DOMAIN verdicts = 1 .. Len(verdicts) /\ \A i \in DOMAIN verdicts : verdicts[i] \in Verdicts
  BY <1>1, ReferencesType DEF LookupInv, LookupTypes, Open
<1>3. LookupTypes' /\ FirstInv' /\ CacheInv' /\ VerdictInv'
  BY <1>1 DEF LookupInv, LookupTypes, FirstInv, CacheInv, VerdictInv, VerdictIsTrue, Named, RowsFor, Ids, Found, InWindow
<1>4. /\ answer'.status = OverallStatus(verdicts) /\ answer'.verified = TRUE
      /\ DOMAIN answer'.references = DOMAIN verdicts
      /\ \A i \in DOMAIN verdicts : answer'.references[i] = verdicts[i]
  <2>1. ASSUME NEW v \in Verdicts PROVE [v EXCEPT !.candidates = @] = v
    BY DEF Verdicts
  <2>2. QED
    BY <1>1, <1>2, <2>1 DEF Response
<1>5. OverallStatus(verdicts) = "MATCHED" => \A i \in DOMAIN verdicts : verdicts[i].status = "MATCHED"
  <2>1. \A i \in DOMAIN verdicts : verdicts[i].status \in VerdictStatuses
    BY <1>2 DEF Verdicts
  <2>2. QED
    BY <1>2, <2>1, OverallMatched
<1>6. answer'.references # <<>>
  BY <1>2, <1>4
<1>7. LookupIsTrue'
  BY <1>1, <1>2, <1>3, <1>4, <1>5, <1>6 DEF LookupIsTrue, LookupIsTrueFor, VerdictInv
<1>8. QED
  BY <1>3, <1>7 DEF LookupInv

LEMMA OutboxChanges == ASSUME LookupInv, inv' = inv, OutboxMoves PROVE LookupInv'
<1>1. UNCHANGED <<stage, references, first, cache, verdicts, answer, before>>
  BY DEF OutboxMoves
<1>2. /\ outbox' \in [Originals -> [place : Places, status : OutboxStatuses]]
      /\ \A o \in Originals : outbox[o].place = "archived" => outbox'[o].place = "archived"
  <2>1. PICK o \in Originals :
          \/ outbox[o].place = "none" /\ outbox' = [outbox EXCEPT ![o].place = "active"]
          \/ outbox[o].place = "active" /\ outbox' = [outbox EXCEPT ![o].place = "archived"]
          \/ \E s \in OutboxStatuses : outbox' = [outbox EXCEPT ![o].status = s]
    BY DEF OutboxMoves
  <2>2. outbox \in [Originals -> [place : Places, status : OutboxStatuses]] /\ {"active", "archived"} \subseteq Places
    BY DEF LookupInv, LookupTypes, Places
  <2>3. QED
    BY <2>1, <2>2
<1>3. LookupTypes' /\ CacheInv' /\ VerdictInv'
  BY <1>1, <1>2 DEF LookupInv, LookupTypes, CacheInv, VerdictInv, VerdictIsTrue, Named, RowsFor, Ids, Found, InWindow
<1>4. FirstInv'
  <2>1. Key' = Key /\ Ref' = Ref /\ Open' = Open
    BY <1>1 DEF Key, Ref, Open
  <2>2. QED
    BY <1>1, <1>2, <2>1
       DEF LookupInv, FirstInv, RowsFor, Ids, Found, InWindow, Whole, Truncated, TotalMissing, FormatIssues
<1>5. QED
  BY <1>1, <1>3, <1>4 DEF LookupInv, LookupIsTrue, LookupIsTrueFor, VerdictIsTrue, Named, InWindow

LEMMA LookupStep == ASSUME LookupInv, [PathsNext]_allvars PROVE LookupInv'
<1>1. inv' = inv
  BY SourceFixed
<1>2. CASE ReturnNext(inv)
  BY <1>1, <1>2, LookupOpens, CompanyAnswers, FirstSearch, SecondSearch, ReferenceAnswers, LookupAnswers,
     OutboxChanges DEF ReturnNext
<1>3. CASE UNCHANGED returnvars
  <2>1. UNCHANGED <<outbox, stage, references, first, cache, verdicts, answer, before, outboxEvents>>
    BY <1>3 DEF returnvars
  <2>2. LookupTypes' /\ CacheInv' /\ VerdictInv'
    BY <1>1, <2>1 DEF LookupInv, LookupTypes, CacheInv, VerdictInv, VerdictIsTrue, Named, RowsFor, Ids, Found, InWindow
  <2>3. FirstInv'
    BY <2>1 DEF LookupInv, FirstInv, Key, Ref, Open, RowsFor, Ids, Found, InWindow, Whole, Truncated, TotalMissing, FormatIssues
  <2>4. LookupIsTrue'
    BY <1>1, <2>1 DEF LookupInv, LookupIsTrue, LookupIsTrueFor, VerdictIsTrue, Named, InWindow
  <2>5. QED
    BY <2>2, <2>3, <2>4 DEF LookupInv
<1>4. QED
  BY <1>2, <1>3 DEF PathsNext, allvars

\* What a lookup answers of the company's outbox (return_reference/matching.py) is true of it:
\* however the provider pages its answers, and whatever it archives, issues or cancels between the
\* searches, for every outbox, page size, window and list of references.
THEOREM LookupTruth == PathsSpec => []LookupIsTrue
<1>1. PathsInit => LookupInv
  BY LookupInitial DEF PathsInit
<1>2. LookupInv /\ [PathsNext]_allvars => LookupInv'
  BY LookupStep
<1>3. LookupInv => LookupIsTrue
  BY DEF LookupInv
<1>4. QED
  BY <1>1, <1>2, <1>3, PTL DEF PathsSpec, allvars

-----------------------------------------------------------------------------
(* Sums and rounding.                                                      *)

\* Every non-empty set of numbers has a least one.
LEMMA LeastNat ==
    ASSUME NEW S \in SUBSET Nat, S # {}
    PROVE  \E s \in S : \A t \in S : s <= t
<1>1. PICK s \in S : \A t \in S : <<t, s>> \notin OpToRel(<, Nat)
  BY NatLessThanWellFounded, WFMin
<1>2. ASSUME NEW t \in S PROVE s <= t
  <2>1. <<t, s>> \in Nat \X Nat /\ <<t, s>>[1] = t /\ <<t, s>>[2] = s
    OBVIOUS
  <2>2. t < s => <<t, s>> \in OpToRel(<, Nat)
    BY <2>1 DEF OpToRel
  <2>3. ~ (t < s)
    BY <1>1, <2>2
  <2>4. QED
    BY <2>3
<1>3. QED
  BY <1>2

\* one element of a non-empty set
Some(t) == CHOOSE x \in t : TRUE

\* SumSeq is the value of a recursive function on sets of positions ...
LEMMA SumSeqUnfolds ==
    ASSUME NEW s
    PROVE  SumSeq(s) = (CHOOSE it : it = [t \in SUBSET (DOMAIN s) |->
                            IF t = {} THEN 0 ELSE s[Some(t)] + it[t \ {Some(t)}]])[DOMAIN s]
  BY DEF SumSeq, FoldSeq, FoldFunction, FoldFunctionOnSet, MapThenFoldSet, Some

\* what a sum over the members of a set of positions is, in terms of smaller sets
SumStep(s, it, t) == IF t = {} THEN 0 ELSE s[Some(t)] + it[t \ {Some(t)}]

\* ... which exists, because the sets get smaller ...
LEMMA SumExists ==
    ASSUME NEW s, IsFiniteSet(DOMAIN s)
    PROVE  \E it : it = [t \in SUBSET (DOMAIN s) |-> SumStep(s, it, t)]
<1> DEFINE D == DOMAIN s
           Upto(m) == {t \in SUBSET D : Cardinality(t) <= m}
           Defined(m) == \E g : g = [t \in Upto(m) |-> SumStep(s, g, t)]
<1>1. \A t \in SUBSET D : IsFiniteSet(t) /\ Cardinality(t) \in Nat /\ Cardinality(t) <= Cardinality(D)
  BY FS_Subset, FS_CardinalityType
<1>2. \A t \in SUBSET D : t # {} => /\ Some(t) \in t /\ t \ {Some(t)} \in SUBSET D
                                    /\ Cardinality(t \ {Some(t)}) = Cardinality(t) - 1
  <2>1. ASSUME NEW t \in SUBSET D, t # {} PROVE Some(t) \in t
    BY <2>1 DEF Some
  <2>2. ASSUME NEW t \in SUBSET D, t # {} PROVE Cardinality(t \ {Some(t)}) = Cardinality(t) - 1
    BY <1>1, <2>1, <2>2, FS_RemoveElement
  <2>3. QED
    BY <2>1, <2>2
<1>3. Defined(0)
  <2>1. \A t \in Upto(0) : t = {}
    BY <1>1, FS_EmptySet
  <2> DEFINE g == [t \in Upto(0) |-> 0]
  <2>2. g = [t \in Upto(0) |-> SumStep(s, g, t)]
    BY <2>1 DEF SumStep
  <2>3. QED
    BY <2>2
<1>4. ASSUME NEW m \in Nat, Defined(m) PROVE Defined(m + 1)
  <2>1. PICK g : g = [t \in Upto(m) |-> SumStep(s, g, t)]
    BY <1>4
  <2> DEFINE h == [t \in Upto(m + 1) |-> SumStep(s, g, t)]
  <2>2. \A t \in Upto(m) : t \in Upto(m + 1) /\ h[t] = g[t]
    <3>1. ASSUME NEW t \in Upto(m) PROVE t \in Upto(m + 1)
      BY <1>1
    <3>2. ASSUME NEW t \in Upto(m) PROVE g[t] = SumStep(s, g, t)
      BY <2>1
    <3>3. QED
      BY <3>1, <3>2
  <2>3. ASSUME NEW t \in Upto(m + 1) PROVE SumStep(s, g, t) = SumStep(s, h, t)
    <3>1. CASE t = {}
      BY <3>1 DEF SumStep
    <3>2. CASE t # {}
      <4>1. t \ {Some(t)} \in Upto(m)
        BY <1>1, <1>2, <3>2
      <4>2. h[t \ {Some(t)}] = g[t \ {Some(t)}]
        BY <2>2, <4>1
      <4> HIDE DEF h
      <4>3. QED
        BY <4>2 DEF SumStep
    <3>3. QED
      BY <3>1, <3>2
  <2>4. h = [t \in Upto(m + 1) |-> SumStep(s, h, t)]
    <3>1. ASSUME NEW f, NEW k, NEW U, f = [t \in U |-> SumStep(s, k, t)], \A t \in U : SumStep(s, k, t) = SumStep(s, f, t)
          PROVE  f = [t \in U |-> SumStep(s, f, t)]
      BY <3>1
    <3> HIDE DEF Upto
    <3>2. h = [t \in Upto(m + 1) |-> SumStep(s, g, t)]
      OBVIOUS
    <3> HIDE DEF h
    <3>3. QED
      BY <2>3, <3>1, <3>2
  <2>5. QED
    BY <2>4
<1>5. \A m \in Nat : Defined(m)
  <2> HIDE DEF Defined
  <2> DEFINE Bad == {m \in Nat : ~Defined(m)}
  <2>1. SUFFICES ASSUME Bad # {} PROVE FALSE
    OBVIOUS
  <2>2. PICK m \in Bad : \A k \in Bad : m <= k
    BY <2>1, LeastNat
  <2>3. m # 0 /\ m \in Nat
    BY <1>3, <2>2
  <2>4. m - 1 \in Nat /\ m - 1 \notin Bad
    BY <2>2, <2>3
  <2>5. Defined((m - 1) + 1)
    BY <1>4, <2>4
  <2>6. QED
    BY <2>2, <2>3, <2>5
<1>6. Upto(Cardinality(D)) = SUBSET D
  BY <1>1
<1>7. Defined(Cardinality(D))
  <2>1. Cardinality(D) \in Nat
    BY FS_CardinalityType
  <2>2. QED
    BY <1>5, <2>1
<1>8. QED
  BY <1>6, <1>7

\* ... and which is an integer if what it sums is.
LEMMA SumIsInteger ==
    ASSUME NEW s, IsFiniteSet(DOMAIN s), \A i \in DOMAIN s : s[i] \in Int
    PROVE  SumSeq(s) \in Int
<1> DEFINE D == DOMAIN s
           it == CHOOSE f : f = [t \in SUBSET D |-> SumStep(s, f, t)]
<1>1. it = [t \in SUBSET D |-> SumStep(s, it, t)]
  BY SumExists
<1>2. SumSeq(s) = it[D]
  BY SumSeqUnfolds DEF SumStep
<1> HIDE DEF it
<1>3. \A t \in SUBSET D : IsFiniteSet(t) /\ Cardinality(t) \in Nat
  BY FS_Subset, FS_CardinalityType
<1> DEFINE Bad == {Cardinality(t) : t \in {u \in SUBSET D : it[u] \notin Int}}
<1>4. SUFFICES ASSUME Bad # {} PROVE FALSE
  BY <1>2
<1>5. Bad \in SUBSET Nat
  BY <1>3
<1>6. PICK m \in Bad : \A k \in Bad : m <= k
  BY <1>4, <1>5, LeastNat
<1>7. PICK t \in SUBSET D : it[t] \notin Int /\ m = Cardinality(t)
  BY <1>6
<1>8. it[t] = SumStep(s, it, t)
  BY <1>1
<1>9. t # {}
  BY <1>7, <1>8 DEF SumStep
<1>10. Some(t) \in t /\ it[t] = s[Some(t)] + it[t \ {Some(t)}]
  BY <1>8, <1>9 DEF SumStep, Some
<1>11. Cardinality(t \ {Some(t)}) = Cardinality(t) - 1
  BY <1>3, <1>10, FS_RemoveElement
<1>12. it[t \ {Some(t)}] \in Int
  <2>1. t \ {Some(t)} \in SUBSET D
    OBVIOUS
  <2>2. CASE it[t \ {Some(t)}] \notin Int
    <3>1. Cardinality(t \ {Some(t)}) \in Bad
      BY <2>1, <2>2
    <3>2. QED
      BY <1>3, <1>6, <1>7, <1>11, <3>1
  <2>3. QED
    BY <2>2
<1>13. QED
  BY <1>7, <1>10, <1>12

LEMMA RoundType ==
    ASSUME NEW n \in Int, NEW d \in Nat \ {0} PROVE RoundHalfUp(n, d) \in Int
<1>1. 2 * d \in Nat \ {0} /\ 2 * n + d \in Int /\ 2 * (-n) + d \in Int
  OBVIOUS
<1>2. (2 * n + d) \div (2 * d) \in Int /\ (2 * (-n) + d) \div (2 * d) \in Int
  BY <1>1
<1>3. QED
  BY <1>2 DEF RoundHalfUp

LEMMA RoundBounds ==
    ASSUME NEW n \in Int, NEW d \in Nat \ {0}
    PROVE  /\ RoundHalfUp(n, d) * d \in Int
           /\ 2 * n - d <= 2 * (RoundHalfUp(n, d) * d) /\ 2 * (RoundHalfUp(n, d) * d) <= 2 * n + d
<1>1. ASSUME NEW m \in Nat
      PROVE  LET q == (2 * m + d) \div (2 * d) IN q \in Int /\ 2 * m - d <= 2 * (q * d) /\ 2 * (q * d) <= 2 * m + d
  <2> DEFINE x == 2 * m + d
             y == 2 * d
             q == x \div y
  <2>1. x \in Nat /\ y \in Nat \ {0}
    OBVIOUS
  <2> HIDE DEF x, y
  <2>2. q \in Int /\ y * q <= x /\ x < y * q + y
    BY <2>1
  <2> HIDE DEF q
  <2>3. y * q = 2 * (q * d)
    BY <2>2 DEF y
  <2>4. QED
    BY <2>2, <2>3 DEF x, y, q
<1>2. CASE n >= 0
  <2>1. n \in Nat /\ RoundHalfUp(n, d) = (2 * n + d) \div (2 * d)
    BY <1>2 DEF RoundHalfUp
  <2>2. QED
    BY <1>1, <2>1
<1>3. CASE n < 0
  <2> DEFINE q == (2 * (-n) + d) \div (2 * d)
  <2>1. -n \in Nat /\ RoundHalfUp(n, d) = -q
    BY <1>3 DEF RoundHalfUp
  <2>2. q \in Int /\ 2 * (-n) - d <= 2 * (q * d) /\ 2 * (q * d) <= 2 * (-n) + d
    BY <1>1, <2>1
  <2> HIDE DEF q
  <2>3. (-q) * d = -(q * d) /\ q * d \in Int
    BY <2>2
  <2>4. QED
    BY <2>1, <2>2, <2>3
<1>4. QED
  BY <1>2, <1>3

\* Amounts that round to the same multiple of a precision differ by no more than it.
LEMMA EqualAtPrecision ==
    ASSUME NEW a \in Int, NEW b \in Int, NEW p \in Nat \ {0}, MonetaryEqual(a, b, p)
    PROVE  Abs(a - b) <= p
<1>1. RoundHalfUp(a, p) * p = RoundHalfUp(b, p) * p
  BY DEF MonetaryEqual, CurrencyRound
<1> DEFINE x == RoundHalfUp(a, p) * p
<1>2. x \in Int /\ 2 * a - p <= 2 * x /\ 2 * x <= 2 * a + p
  BY RoundBounds
<1>3. 2 * b - p <= 2 * x /\ 2 * x <= 2 * b + p
  BY <1>1, RoundBounds
<1> HIDE DEF x
<1>4. a - b <= p /\ b - a <= p
  BY <1>2, <1>3
<1>5. QED
  BY <1>4 DEF Abs

-----------------------------------------------------------------------------
(* The bill.                                                               *)

\* The positions of a sequence are finitely many.
LEMMA SequenceDomain ==
    ASSUME NEW S, NEW q \in Seq(S) PROVE IsFiniteSet(DOMAIN q) /\ Len(q) \in Nat /\ DOMAIN q = 1 .. Len(q)
<1>1. Len(q) \in Nat /\ DOMAIN q = 1 .. Len(q)
  OBVIOUS
<1>2. QED
  BY <1>1, FS_Interval

\* The amounts of an invoice are integers where they are given.
LEMMA InvoiceData ==
    ASSUME PlaceInv
    PROVE  /\ IsFiniteSet(DOMAIN inv.lines) /\ DOMAIN inv.lines = 1 .. Len(inv.lines)
           /\ IsAmount(inv.totals.exclusive) /\ IsAmount(inv.totals.inclusive)
           /\ \A i \in DOMAIN inv.lines :
                /\ IsAmount(inv.lines[i].qty) /\ IsAmount(inv.lines[i].price) /\ IsAmount(inv.lines[i].ext)
                /\ IsFiniteSet(DOMAIN inv.lines[i].discounts) /\ IsFiniteSet(DOMAIN inv.lines[i].taxes)
                /\ \A k \in DOMAIN inv.lines[i].discounts : IsAmount(inv.lines[i].discounts[k].amount)
                /\ \A k \in DOMAIN inv.lines[i].taxes : IsAmount(inv.lines[i].taxes[k].rate)
<1>1. source \in DOMAIN Invoices /\ inv = Invoices[source]
  BY DEF PlaceInv, inv
<1>2. inv.lines \in Seq(Range(inv.lines)) /\ IsAmount(inv.totals.exclusive) /\ IsAmount(inv.totals.inclusive)
  BY <1>1, AmountAssumption
<1>3. ASSUME NEW i \in DOMAIN inv.lines
      PROVE  LET line == inv.lines[i]
             IN  /\ IsAmount(line.qty) /\ IsAmount(line.price) /\ IsAmount(line.ext)
                 /\ line.discounts \in Seq(Range(line.discounts)) /\ line.taxes \in Seq(Range(line.taxes))
                 /\ \A k \in DOMAIN line.discounts : IsAmount(line.discounts[k].amount)
                 /\ \A k \in DOMAIN line.taxes : IsAmount(line.taxes[k].rate)
  BY <1>1, AmountAssumption
<1>4. QED
  BY <1>2, <1>3, SequenceDomain

\* What LineErrors leaves of a line.
LEMMA LineAmounts ==
    ASSUME PlaceInv, NEW o, ~LineErrors(inv, o), NEW i \in DOMAIN inv.lines
    PROVE  LET line == inv.lines[i]
           IN  /\ line.qty \in Nat \ {0} /\ line.price \in Int
               /\ LineNet(line) \in Int /\ LineTax(line) \in Int
               /\ \A p \in Nat \ {0} : NetUnitPrice(line, p) \in Int
<1> DEFINE line == inv.lines[i]
<1>1. line.qty \in Nat \ {0} /\ line.price \in Int
  <2>1. IsAmount(line.qty) /\ IsAmount(line.price)
    BY InvoiceData
  <2>2. line.qty # None /\ line.price # None /\ ~(line.qty <= 0)
    BY DEF LineErrors
  <2>3. QED
    BY <2>1, <2>2 DEF IsAmount
<1>2. LineDiscount(line) \in Int
  <2> DEFINE ds == [k \in DOMAIN line.discounts |->
              IF k \in EconomicDiscounts(line) /\ line.discounts[k].amount # None THEN line.discounts[k].amount ELSE 0]
  <2>1. \A k \in DOMAIN ds : ds[k] \in Int
    BY InvoiceData DEF IsAmount
  <2>2. IsFiniteSet(DOMAIN ds)
    BY InvoiceData
  <2> HIDE DEF ds
  <2>3. SumSeq(ds) \in Int
    BY <2>1, <2>2, SumIsInteger
  <2>4. QED
    BY <2>3 DEF LineDiscount, ds
<1>3. LineNet(line) \in Int
  <2>1. line.ext \in Int \cup {None} /\ line.qty * line.price \in Int
    BY <1>1, InvoiceData DEF IsAmount
  <2>2. QED
    BY <1>2, <2>1 DEF LineNet, LineGross
<1>4. LineTax(line) \in Int
  <2> DEFINE ts == [k \in DOMAIN line.taxes |-> IF line.taxes[k].rate = None THEN 0 ELSE LineNet(line) * line.taxes[k].rate]
  <2>1. \A k \in DOMAIN ts : ts[k] \in Int
    <3>1. \A k \in DOMAIN line.taxes : line.taxes[k].rate \in Int \cup {None}
      BY InvoiceData DEF IsAmount
    <3>2. QED
      BY <1>3, <3>1
  <2>2. IsFiniteSet(DOMAIN ts)
    BY InvoiceData
  <2> HIDE DEF ts
  <2>3. SumSeq(ts) \in Int
    BY <2>1, <2>2, SumIsInteger
  <2>4. QED
    BY <2>3 DEF LineTax, ts
<1>5. \A p \in Nat \ {0} : NetUnitPrice(line, p) \in Int
  <2>1. RoundHalfUp(LineNet(line), line.qty) \in Int
    BY <1>1, <1>3, RoundType
  <2>2. QED
    BY <1>1, <2>1 DEF NetUnitPrice
<1>6. QED
  BY <1>1, <1>3, <1>4, <1>5

LineFields == {"product", "account", "qty", "price", "taxes", "depreciated"}

\* Whatever a line books, it books the source's quantity at the net unit price.
LEMMA BuiltLine ==
    ASSUME NEW d, NEW o, NEW i \in DOMAIN inv.lines
    PROVE  LET l == BuildLine(inv, d, o, i)
           IN  /\ l.qty = inv.lines[i].qty /\ l.price = NetUnitPrice(inv.lines[i], o.precision)
               /\ l.taxes = TaxIds(d, i) /\ DOMAIN l = LineFields
<1> DEFINE l == BuildLine(inv, d, o, i)
           price == NetUnitPrice(inv.lines[i], o.precision)
           taxes == TaxIds(d, i)
<1>1. \E product, account, flag :
         l = [product |-> product, account |-> account, qty |-> inv.lines[i].qty,
              price |-> price, taxes |-> taxes, depreciated |-> flag]
  <2> HIDE DEF price, taxes
  <2>1. \/ \E account : l = FixedAssetLine(inv.lines[i], account, taxes, o.precision)
        \/ \E account : l = ExpenseLine(inv.lines[i], account, taxes, o.precision)
        \/ \E product, account : l = ProductLine(inv.lines[i], product, account, taxes, o.precision)
    BY DEF BuildLine, taxes
  <2>2. QED
    BY <2>1 DEF FixedAssetLine, ExpenseLine, ProductLine, price
<1> HIDE DEF l, price, taxes
<1>2. l.qty = inv.lines[i].qty /\ l.price = price /\ l.taxes = taxes
      /\ DOMAIN l = LineFields
  BY <1>1 DEF LineFields
<1>3. QED
  BY <1>2 DEF l, price, taxes

\* The money of a bill depends on the quantities and prices of its lines only.
LEMMA SameMoney ==
    ASSUME NEW a, NEW b, NEW p, DOMAIN a.lines = DOMAIN b.lines,
           \A i \in DOMAIN a.lines : a.lines[i].qty = b.lines[i].qty /\ a.lines[i].price = b.lines[i].price
    PROVE  BillMoney(inv, a, p) = BillMoney(inv, b, p)
<1>1. [i \in DOMAIN a.lines |-> CurrencyRound(Subtotal(a.lines[i]), p)]
      = [i \in DOMAIN b.lines |-> CurrencyRound(Subtotal(b.lines[i]), p)]
  BY DEF Subtotal
<1>2. QED
  BY <1>1 DEF BillMoney

\* vendor_bill_monetary_errors: a bill it passes charges what the invoice charges.
LEMMA MoneyChecked ==
    ASSUME PlaceInv, NEW o, ~LineErrors(inv, o), NEW p \in Nat \ {0}, NEW bill,
           ~MonetaryErrors(inv, bill, p),
           \A i \in DOMAIN inv.lines : bill.lines[i].qty = inv.lines[i].qty
                                       /\ bill.lines[i].price = NetUnitPrice(inv.lines[i], p)
    PROVE  /\ DOMAIN bill.lines = DOMAIN inv.lines
           /\ \A i \in DOMAIN inv.lines : Abs(Subtotal(bill.lines[i]) - LineNet(inv.lines[i])) <= p
           /\ LET money == BillMoney(inv, bill, p)
              IN  /\ inv.totals.exclusive # None => Abs(money.untaxed - inv.totals.exclusive) <= p
                  /\ inv.totals.inclusive # None => Abs(money.total - inv.totals.inclusive) <= p
<1>1. ~LineMismatches(inv, bill, p)
  BY DEF MonetaryErrors
<1>2. /\ DOMAIN bill.lines = DOMAIN inv.lines
      /\ \A i \in DOMAIN inv.lines : MonetaryEqual(Subtotal(bill.lines[i]), LineNet(inv.lines[i]), p)
  BY <1>1 DEF LineMismatches
<1>3. \A i \in DOMAIN inv.lines : Subtotal(bill.lines[i]) \in Int /\ LineNet(inv.lines[i]) \in Int
                                  /\ LineTax(inv.lines[i]) \in Int
  <2>1. ASSUME NEW i \in DOMAIN inv.lines
        PROVE  Subtotal(bill.lines[i]) \in Int /\ LineNet(inv.lines[i]) \in Int /\ LineTax(inv.lines[i]) \in Int
    <3>1. /\ inv.lines[i].qty \in Nat \ {0} /\ NetUnitPrice(inv.lines[i], p) \in Int
          /\ LineNet(inv.lines[i]) \in Int /\ LineTax(inv.lines[i]) \in Int
      BY LineAmounts
    <3>2. QED
      BY <3>1 DEF Subtotal
  <2>2. QED
    BY <2>1
<1> DEFINE rounded == [i \in DOMAIN bill.lines |-> CurrencyRound(Subtotal(bill.lines[i]), p)]
           taxes   == [i \in DOMAIN inv.lines |-> LineTax(inv.lines[i])]
           money   == BillMoney(inv, bill, p)
<1>4. SumSeq(rounded) \in Int /\ SumSeq(taxes) \in Int
  <2>1. \A i \in DOMAIN rounded : rounded[i] \in Int
    <3>1. ASSUME NEW i \in DOMAIN inv.lines PROVE CurrencyRound(Subtotal(bill.lines[i]), p) \in Int
      BY <1>3, RoundBounds DEF CurrencyRound
    <3>2. QED
      BY <1>2, <3>1
  <2>2. \A i \in DOMAIN taxes : taxes[i] \in Int
    BY <1>3
  <2>3. IsFiniteSet(DOMAIN rounded) /\ IsFiniteSet(DOMAIN taxes)
    BY <1>2, InvoiceData
  <2> HIDE DEF rounded, taxes
  <2>4. QED
    BY <2>1, <2>2, <2>3, SumIsInteger
<1>5. /\ money.untaxed = SumSeq(rounded)
      /\ money.total = SumSeq(rounded) + RoundHalfUp(SumSeq(taxes), 100 * p) * p
  BY DEF BillMoney
<1> HIDE DEF rounded, taxes, money
<1>6. money.untaxed \in Int /\ money.total \in Int
  <2>1. 100 * p \in Nat \ {0}
    OBVIOUS
  <2>2. RoundHalfUp(SumSeq(taxes), 100 * p) \in Int
    BY <1>4, <2>1, RoundType
  <2>3. RoundHalfUp(SumSeq(taxes), 100 * p) * p \in Int
    BY <2>2
  <2>4. QED
    BY <1>4, <1>5, <2>3
<1>7. /\ inv.totals.exclusive # None => MonetaryEqual(money.untaxed, inv.totals.exclusive, p)
      /\ inv.totals.inclusive # None => MonetaryEqual(money.total, inv.totals.inclusive, p)
  <2> DEFINE src == SourceTotals(inv)
  <2>1. \A f \in DOMAIN src : src[f] # None => ~AmountMismatch(money[f], src[f], p)
    BY DEF MonetaryErrors, money
  <2>2. /\ "untaxed" \in DOMAIN src /\ src.untaxed = inv.totals.exclusive
        /\ "total" \in DOMAIN src /\ src.total = inv.totals.inclusive
    BY DEF SourceTotals
  <2> HIDE DEF src
  <2>3. QED
    BY <2>1, <2>2 DEF AmountMismatch
<1>8. IsAmount(inv.totals.exclusive) /\ IsAmount(inv.totals.inclusive)
  BY InvoiceData
<1>9. QED
  BY <1>2, <1>3, <1>6, <1>7, <1>8, EqualAtPrecision DEF IsAmount, money

\* A create: what execution had checked, and what Odoo then has.
DraftFields == {"supplier", "currency", "rate", "lines", "state", "at", "edited"}

Checked ==
    /\ SourceTaxAllowed(inv, decision.evidence.tax, w, ExemptionConfig)
    /\ PinsHold
    /\ ~BillInputErrors(inv, decision.evidence, FullOptions)
    /\ ~MonetaryErrors(inv, Build(inv, decision.evidence, FullOptions), w.precision[inv.currency])

Plan == PlanRate(inv, Build(inv, decision.evidence, FullOptions), w, w.precision[inv.currency])

Created == OdooCreates([Build(inv, decision.evidence, FullOptions) EXCEPT !.rate = Plan.rate])

\* Execute: the draft is left alone, or one is created; and it is reported only if it was verified.
LEMMA ExecuteCases ==
    ASSUME Execute
    PROVE  /\ decision # None /\ outcome # "executed"
           /\ UNCHANGED <<source, now, effect, purposes, resolutions, review, decision, preview, readback, changes>>
           /\ \/ draft' = draft /\ (draft # None \/ outcome' # "executed")
              \/ draft = None /\ Checked /\ Created
           /\ outcome' = "executed" => ~FxBlocked(Plan) /\ FxVerified(Plan, draft')
<1> DEFINE p    == w.precision[inv.currency]
           bill == Build(inv, decision.evidence, FullOptions)
           plan == PlanRate(inv, bill, w, p)
           ok   == /\ SourceTaxAllowed(inv, decision.evidence.tax, w, ExemptionConfig)
                   /\ PinsHold
                   /\ ~BillInputErrors(inv, decision.evidence, FullOptions)
                   /\ ~MonetaryErrors(inv, bill, p)
                   /\ ~FxBlocked(plan)
<1>1. /\ decision # None /\ outcome # "executed"
      /\ UNCHANGED <<source, now, effect, purposes, resolutions, review, decision, preview, readback, changes>>
      /\ \/ ~ok /\ outcome' = "failed" /\ UNCHANGED draft
         \/ /\ ok /\ WriteBill([bill EXCEPT !.rate = plan.rate])
            /\ outcome' = IF FxVerified(plan, draft') THEN "executed" ELSE "failed"
  BY DEF Execute
<1>2. plan = Plan
  BY DEF Plan
<1>3. CASE ok /\ WriteBill([bill EXCEPT !.rate = plan.rate]) /\ draft = None
  <2>1. OdooCreates([bill EXCEPT !.rate = plan.rate])
    <3> HIDE DEF bill, plan, p
    <3> QED BY <1>3 DEF WriteBill
  <2>2. Created
    BY <1>2, <2>1 DEF Created
  <2> HIDE DEF bill, plan, p
  <2>3. QED
    BY <1>1, <1>2, <1>3, <2>2 DEF Checked, p, bill
<1>4. CASE ok /\ WriteBill([bill EXCEPT !.rate = plan.rate]) /\ draft # None
  <2> HIDE DEF p, bill, plan
  <2> QED BY <1>1, <1>2, <1>4 DEF WriteBill
<1>5. CASE ~ok
  <2> HIDE DEF p, bill, plan
  <2> QED BY <1>1, <1>2, <1>5
<1>6. QED
  <2> HIDE DEF p, bill, plan, ok
  <2> QED BY <1>1, <1>3, <1>4, <1>5

\* The lines of a created draft: what was built, but for an account Odoo moved.
LEMMA CreatedLines ==
    ASSUME Created
    PROVE  /\ DOMAIN draft' = DraftFields /\ draft'.at = now /\ draft'.edited = FALSE
           /\ draft'.supplier = decision.evidence.partner.id
           /\ DOMAIN draft'.lines = DOMAIN inv.lines
           /\ \A i \in DOMAIN inv.lines :
                LET l == BuildLine(inv, decision.evidence, FullOptions, i)
                IN  /\ draft'.lines[i].qty = l.qty /\ draft'.lines[i].price = l.price
                    /\ draft'.lines[i].taxes = l.taxes /\ draft'.lines[i].product = l.product
                    /\ DOMAIN draft'.lines[i] = LineFields
                    /\ OdooAccounts(decision.evidence.partner.id, l.account) = {} => draft'.lines[i].account = l.account
<1> DEFINE L(i) == BuildLine(inv, decision.evidence, FullOptions, i)
           P == decision.evidence.partner.id
           b == [Build(inv, decision.evidence, FullOptions) EXCEPT !.rate = Plan.rate]
<1>0. /\ b.supplier = P /\ DOMAIN b.lines = DOMAIN inv.lines
      /\ \A i \in DOMAIN inv.lines : b.lines[i] = L(i)
  BY DEF Build
<1> HIDE DEF b
<1>1. PICK r \in OdooRates(b.rate),
           moved \in SUBSET {i \in DOMAIN b.lines : OdooAccounts(b.supplier, b.lines[i].account) # {}} :
        draft' = [supplier |-> b.supplier, currency |-> b.currency, rate |-> r,
                  lines |-> [i \in DOMAIN b.lines |->
                                IF i \notin moved THEN b.lines[i]
                                ELSE [b.lines[i] EXCEPT !.account =
                                        CHOOSE a \in OdooAccounts(b.supplier, @) : TRUE]],
                  state |-> "draft", at |-> now, edited |-> FALSE]
  BY DEF Created, OdooCreates, b
<1>2. \A i \in DOMAIN inv.lines : DOMAIN L(i) = LineFields
  BY BuiltLine
<1> HIDE DEF L, P
<1>3. /\ DOMAIN draft' = DraftFields /\ draft'.at = now /\ draft'.edited = FALSE
      /\ draft'.supplier = P /\ DOMAIN draft'.lines = DOMAIN inv.lines
  BY <1>0, <1>1 DEF DraftFields
<1>4. ASSUME NEW i \in DOMAIN inv.lines
      PROVE  /\ draft'.lines[i].qty = L(i).qty /\ draft'.lines[i].price = L(i).price
             /\ draft'.lines[i].taxes = L(i).taxes /\ draft'.lines[i].product = L(i).product
             /\ DOMAIN draft'.lines[i] = LineFields
             /\ OdooAccounts(P, L(i).account) = {} => draft'.lines[i].account = L(i).account
  <2>1. draft'.lines[i] = IF i \notin moved THEN b.lines[i]
                          ELSE [b.lines[i] EXCEPT !.account = CHOOSE a \in OdooAccounts(b.supplier, @) : TRUE]
    BY <1>0, <1>1
  <2>2. CASE i \notin moved
    BY <1>0, <1>2, <2>1, <2>2
  <2>3. CASE i \in moved
    <3>1. OdooAccounts(P, L(i).account) # {}
      BY <1>0, <2>3
    <3>2. QED
      BY <1>0, <1>2, <2>1, <2>3, <3>1 DEF LineFields
  <2>4. QED
    BY <2>2, <2>3
<1>5. QED
  BY <1>3, <1>4 DEF L, P

\* No line error is left in a bill that passed validate_vendor_bill_inputs.
LEMMA InputLines == ASSUME NEW d, NEW o, ~BillInputErrors(inv, d, o) PROVE ~LineErrors(inv, o)
<1>1. CASE d.asset # None
  <2>1. ~FixedAssetErrors(inv, d, o)
    BY <1>1 DEF BillInputErrors
  <2>2. QED
    BY <2>1 DEF FixedAssetErrors
<1>2. CASE d.asset = None
  <2>1. ~StructureErrors(inv, d, o)
    BY <1>2 DEF BillInputErrors
  <2>2. QED
    BY <2>1 DEF StructureErrors
<1>3. QED
  BY <1>1, <1>2

LEMMA CreatedMoney ==
    ASSUME PlaceInv, inv' = inv, Checked, Created PROVE MoneyIsConserved'
<1> DEFINE p    == w.precision[inv.currency]
           bill == Build(inv, decision.evidence, FullOptions)
           L(i) == BuildLine(inv, decision.evidence, FullOptions, i)
<1>1. p \in Nat \ {0} /\ FullOptions.precision = p
  BY WorldAssumption DEF PlaceInv, inv, w, FullOptions, Options
<1>2. ~LineErrors(inv, FullOptions) /\ ~MonetaryErrors(inv, bill, p)
  BY InputLines DEF Checked
<1>3. DOMAIN bill.lines = DOMAIN inv.lines /\ \A i \in DOMAIN inv.lines : bill.lines[i] = L(i)
  BY DEF Build
<1>4. \A i \in DOMAIN inv.lines : L(i).qty = inv.lines[i].qty /\ L(i).price = NetUnitPrice(inv.lines[i], p)
  BY <1>1, BuiltLine
<1> HIDE DEF p, bill, L
<1>5. /\ \A i \in DOMAIN inv.lines : Abs(Subtotal(bill.lines[i]) - LineNet(inv.lines[i])) <= p
      /\ LET money == BillMoney(inv, bill, p)
         IN  /\ inv.totals.exclusive # None => Abs(money.untaxed - inv.totals.exclusive) <= p
             /\ inv.totals.inclusive # None => Abs(money.total - inv.totals.inclusive) <= p
  BY <1>1, <1>2, <1>3, <1>4, MoneyChecked
<1> DEFINE d == draft'
<1>6. /\ d.at = now /\ DOMAIN d.lines = DOMAIN inv.lines
      /\ \A i \in DOMAIN inv.lines : d.lines[i].qty = L(i).qty /\ d.lines[i].price = L(i).price
  BY CreatedLines DEF L
<1> HIDE DEF d
<1>7. BillMoney(inv, d, p) = BillMoney(inv, bill, p)
  BY <1>3, <1>6, SameMoney
<1>8. \A i \in DOMAIN inv.lines : Subtotal(d.lines[i]) = Subtotal(bill.lines[i])
  BY <1>3, <1>6 DEF Subtotal
<1>9. /\ \A i \in DOMAIN inv.lines : Abs(Subtotal(d.lines[i]) - LineNet(inv.lines[i])) <= p
      /\ inv.totals.exclusive # None => Abs(BillMoney(inv, d, p).untaxed - inv.totals.exclusive) <= p
      /\ inv.totals.inclusive # None => Abs(BillMoney(inv, d, p).total - inv.totals.inclusive) <= p
  BY <1>5, <1>7, <1>8
<1>10. Worlds[d.at].precision[inv.currency] = p
  BY <1>6 DEF p, w
<1>11. QED
  BY <1>9, <1>10 DEF MoneyIsConserved, d

LEMMA CreatedExemption ==
    ASSUME inv' = inv, decision' = decision, Checked, Created PROVE ExemptTaxIsProven'
<1> DEFINE tax  == decision.evidence.tax
           code == ExemptionCode(inv)
           id   == ConfiguredTax(ExemptionConfig, code)
<1>1. SUFFICES ASSUME ExemptionPinned(tax, ExemptionConfig)
               PROVE  /\ code # None
                      /\ \A i \in DOMAIN draft'.lines : \A k \in DOMAIN draft'.lines[i].taxes :
                            \E t \in Worlds[draft'.at].taxes : /\ t.id = draft'.lines[i].taxes[k]
                                                               /\ t.active /\ t.rate = 0 /\ t.token = code
  BY DEF ExemptTaxIsProven
<1>2. /\ code # None /\ DOMAIN tax.results = DOMAIN inv.lines
      /\ \A r \in TaxResults(tax) : r = ExemptionResult(code, id)
      /\ ExemptionTaxValid(w, id, code)
  BY <1>1 DEF Checked, SourceTaxAllowed, ExemptionStillProven
<1> HIDE DEF code, id
<1>3. PICK t \in w.taxes : t.id = id /\ t.active /\ t.rate = 0 /\ t.token = code
  BY <1>2 DEF ExemptionTaxValid
<1>4. ASSUME NEW i \in DOMAIN inv.lines, NEW k \in DOMAIN draft'.lines[i].taxes PROVE draft'.lines[i].taxes[k] = id
  <2>1. draft'.lines[i].taxes = TaxIds(decision.evidence, i)
    BY CreatedLines, BuiltLine
  <2>2. k \in DOMAIN tax.results[i] /\ draft'.lines[i].taxes[k] = tax.results[i][k].id
    BY <1>4, <2>1 DEF TaxIds
  <2>3. tax.results[i][k] \in TaxResults(tax)
    BY <1>2, <2>2 DEF TaxResults, Range
  <2>4. QED
    BY <1>2, <2>2, <2>3 DEF ExemptionResult, TaxResult
<1>5. DOMAIN draft'.lines = DOMAIN inv.lines /\ Worlds[draft'.at] = w
  BY CreatedLines DEF w
<1>6. QED
  BY <1>2, <1>3, <1>4, <1>5

\* A pin that still holds names an account Odoo has and has not deprecated.
LEMMA PinnedAccountValid ==
    ASSUME PlaceInv, NEW pin, NoDrift(w, pin)
    PROVE  \E a \in w.accounts : a.id = pin.account /\ a.code = pin.code /\ ~a.deprecated
<1> DEFINE p == CHOOSE q \in DiscoverProduct(w, pin.product) : TRUE
           id == PurchaseAccount(w, p).id
           a == Account(w, id)
<1>1. PICK q \in DiscoverProduct(w, pin.product) :
         /\ PurchaseAccount(w, q) # None /\ PurchaseAccount(w, q).source = "category"
  BY DEF NoDrift, ResaleEligible
<1>2. p = q
  <2>1. p \in DiscoverProduct(w, pin.product)
    BY <1>1
  <2> HIDE DEF p
  <2>2. p \in w.products /\ q \in w.products /\ p.id = q.id
    BY <1>1, <2>1 DEF DiscoverProduct
  <2>3. QED
    BY <2>2, WorldAssumption DEF PlaceInv, w
<1>3. AccountStatus(w, id) = "valid"
  <2> HIDE DEF p
  <2>1. PurchaseAccount(w, p) # None /\ PurchaseAccount(w, p).source = "category"
    BY <1>1, <1>2
  <2> DEFINE cat == CHOOSE c \in Categories(w, p.category) : TRUE
  <2>2. /\ AccountStatus(w, p.override) = "not_configured" /\ Categories(w, p.category) # {}
        /\ AccountStatus(w, cat.account) = "valid"
        /\ PurchaseAccount(w, p) = [source |-> "category", id |-> cat.account]
    BY <2>1 DEF PurchaseAccount
  <2> HIDE DEF cat
  <2>3. QED
    BY <2>2
<1> HIDE DEF p, id
<1>4. a \in w.accounts /\ a.id = id /\ ~a.deprecated
  <2> DEFINE found == {x \in w.accounts : x.id = id /\ x.company = Own}
             b == CHOOSE x \in found : TRUE
  <2>1. found # {} /\ ~b.deprecated
    BY <1>3 DEF AccountStatus
  <2>2. b \in found
    BY <2>1
  <2>3. \E x \in w.accounts : x.id = id /\ x.company = Own
    BY <2>1
  <2>4. a \in w.accounts /\ a.id = id
    BY <2>3 DEF Account
  <2> HIDE DEF a
  <2>5. b \in w.accounts /\ b.id = id
    BY <2>2
  <2> HIDE DEF b
  <2>6. a = b
    BY <2>4, <2>5, WorldAssumption DEF PlaceInv, w
  <2>7. QED
    BY <2>1, <2>4, <2>6
<1>5. pin.account = a.id /\ pin.code = a.code
  <2>1. ResaleLinePin(w, pin.product) = pin
    BY DEF NoDrift
  <2>2. ResaleLinePin(w, pin.product) = [product |-> pin.product, category |-> p.category, account |-> a.id, code |-> a.code, type |-> a.type]
    BY DEF ResaleLinePin, p, id
  <2> HIDE DEF a
  <2>3. QED
    BY <2>1, <2>2
<1>6. QED
  BY <1>4, <1>5

LEMMA CreatedResale ==
    ASSUME PlaceInv, inv' = inv, decision' = decision, Checked, Created PROVE ResaleKeepsItsAccounts'
<1> DEFINE d == decision.evidence
           o == FullOptions
           pins == decision.resale
<1>1. SUFFICES ASSUME pins # None, NEW i \in DOMAIN inv.lines
               PROVE  LET pin == pins[inv.lines[i].num]
                      IN  /\ draft'.lines[i].product = pin.product
                          /\ draft'.lines[i].account = pin.account
                          /\ \E a \in Worlds[draft'.at].accounts : a.id = pin.account /\ a.code = pin.code /\ ~a.deprecated
  BY DEF ResaleKeepsItsAccounts
<1> DEFINE num == inv.lines[i].num
           pin == pins[num]
<1>2. o.resale = pins
  BY DEF FullOptions, Options
<1>3. /\ d.asset = None /\ ~ExpenseMode(inv, d) /\ o.accountOnly = {}
      /\ num \in DOMAIN pins /\ d.product[i].id = pin.product
  <2>1. ~BillInputErrors(inv, d, o)
    BY DEF Checked
  <2>2. d.asset = None
    <3>1. d.asset # None => ~FixedAssetErrors(inv, d, o)
      BY <2>1 DEF BillInputErrors
    <3>2. QED
      BY <1>1, <1>2, <3>1 DEF FixedAssetErrors
  <2>3. ~LineAccountErrors(inv, d, pins, IF ExpenseMode(inv, d) THEN {} ELSE o.accountOnly)
    BY <1>1, <1>2, <2>1, <2>2 DEF BillInputErrors
  <2>4. ~ExpenseMode(inv, d) /\ o.accountOnly = {} /\ DOMAIN pins = NumsOf(inv)
    BY <2>3 DEF LineAccountErrors
  <2>5. num \in DOMAIN pins
    BY <2>4 DEF NumsOf
  <2>6. QED
    BY <2>2, <2>3, <2>4, <2>5 DEF LineAccountErrors
<1> DEFINE L == BuildLine(inv, d, o, i)
<1>4. L.product = pin.product /\ L.account = pin.account
  <2>1. L = ProductLine(inv.lines[i], d.product[i].id, PinnedAccount(o, num), TaxIds(d, i), o.precision)
    BY <1>3 DEF BuildLine
  <2>2. PinnedAccount(o, num) = pin.account
    BY <1>1, <1>2 DEF PinnedAccount
  <2>3. QED
    BY <1>3, <2>1, <2>2 DEF ProductLine
<1>5. /\ NoDrift(w, pin) /\ pin.account \in PinnedAccounts(pins)
      /\ FiscalSafety(w, d.partner.id, PinnedAccounts(pins))
  <2>1. PinsHold
    BY DEF Checked
  <2>2. QED
    BY <1>1, <1>3, <2>1 DEF PinsHold, PinnedAccounts
<1>6. OdooAccounts(d.partner.id, pin.account) = {}
  <2>1. PICK q \in w.partners : /\ q.id = d.partner.id
                                /\ \A f \in ConsideredPositions(w, q) : f.maps \cap PinnedAccounts(pins) = {}
    BY <1>5 DEF FiscalSafety
  <2>2. \A f \in ConsideredPositions(w, q) : pin.account \notin f.maps
    BY <1>5, <2>1
  <2>3. \A g \in w.fiscal : (\E s \in w.partners : s.id = d.partner.id /\ s.fiscal = g.id) => g \in ConsideredPositions(w, q)
    <3>1. \A s \in w.partners : s.id = d.partner.id => s = q
      BY <2>1, WorldAssumption DEF PlaceInv, w
    <3>2. QED
      BY <3>1 DEF ConsideredPositions
  <2>4. \A g \in w.fiscal : g.auto /\ g.active /\ Visible(g.company) => g \in ConsideredPositions(w, q)
    BY DEF ConsideredPositions
  <2>5. QED
    BY <2>2, <2>3, <2>4 DEF OdooAccounts
<1>7. draft'.lines[i].product = L.product /\ draft'.lines[i].account = L.account
  <2>1. OdooAccounts(d.partner.id, L.account) = {}
    BY <1>4, <1>6
  <2>2. QED
    BY <2>1, CreatedLines
<1>8. Worlds[draft'.at] = w
  BY CreatedLines DEF w
<1>9. QED
  BY <1>4, <1>5, <1>7, <1>8, PinnedAccountValid

\* A rate that is not blocked is the one pricing rate of the verified document, and the invoice's own.
LEMMA SelectedRate ==
    ASSUME ~FxBlocked(Plan), inv.currency # CompanyCurrency
    PROVE  /\ Plan.status = "source_rate_selected" /\ Plan.rate = inv.rate
           /\ SourceVerified(inv)
           /\ \E k \in DOMAIN inv.doc.rates : /\ inv.doc.rates[k].element = "PricingExchangeRate"
                                              /\ inv.doc.rates[k].from = inv.currency
                                              /\ inv.doc.rates[k].rate = inv.rate
<1> DEFINE bill == Build(inv, decision.evidence, FullOptions)
           p    == w.precision[inv.currency]
           subs == [i \in DOMAIN bill.lines |-> CurrencyRound(Subtotal(bill.lines[i]), p)]
           tax  == BillMoney(inv, bill, p).tax
<1>1. Plan = SelectRate(inv, w, subs, tax)
  BY DEF Plan, PlanRate
<1> HIDE DEF subs, tax
<1> DEFINE pricing == StatedRates(inv, "PricingExchangeRate")
           k0      == CHOOSE k \in pricing : TRUE
           stated  == inv.doc.rates[k0]
           total   == SumSeq([i \in DOMAIN subs |-> ConvertToCompany(subs[i], stated.rate, w.companyPrecision)])
                      + ConvertToCompany(tax, stated.rate, w.companyPrecision)
           contradicted ==
               \E k \in DOMAIN inv.doc.rates : /\ inv.doc.rates[k].from = inv.currency
                                               /\ inv.doc.rates[k].to = CompanyCurrency
                                               /\ inv.doc.rates[k].rate # stated.rate
           none(status) == FxPlan(status, None, None)
<1>2. Plan = IF inv.currency = CompanyCurrency THEN none("not_applicable")
             ELSE IF ~FxFactsVerified(inv) THEN none("unverified_source_document")
             ELSE IF inv.doc.currency # inv.currency THEN none("source_rate_contradictory")
             ELSE IF pricing = {} THEN none("source_rate_missing")
             ELSE IF Cardinality(pricing) > 1 THEN none("source_rate_contradictory")
             ELSE IF stated.from # inv.currency \/ stated.to # CompanyCurrency
                  THEN none("source_rate_direction_invalid")
             ELSE IF stated.rate = None THEN none("source_rate_invalid")
             ELSE IF stated.rate <= 0 THEN none("source_rate_invalid")
             ELSE IF inv.rate # stated.rate \/ contradicted THEN none("source_rate_contradictory")
             ELSE FxPlan("source_rate_selected", stated.rate, total)
  BY <1>1 DEF SelectRate
<1>3. \A status : none(status).status = status
  BY DEF FxPlan
<1>4. k0 \in pricing <=> pricing # {}
  OBVIOUS
<1> HIDE DEF pricing, k0, total, contradicted, none
<1>5. /\ FxFactsVerified(inv) /\ pricing # {} /\ stated.from = inv.currency /\ inv.rate = stated.rate
      /\ Plan = FxPlan("source_rate_selected", stated.rate, total)
  BY <1>2, <1>3 DEF FxBlocked
<1>6. Plan.status = "source_rate_selected" /\ Plan.rate = inv.rate
  BY <1>5 DEF FxPlan
<1>7. k0 \in DOMAIN inv.doc.rates /\ stated.element = "PricingExchangeRate"
  BY <1>4, <1>5 DEF pricing, StatedRates
<1>8. QED
  BY <1>5, <1>6, <1>7 DEF FxFactsVerified

LEMMA ExecutedRate ==
    ASSUME inv' = inv, outcome' = "executed" => ~FxBlocked(Plan) /\ FxVerified(Plan, draft')
    PROVE  RateIsTheDocuments'
<1>1. SUFFICES ASSUME outcome' = "executed", inv.currency # CompanyCurrency
               PROVE  /\ SourceVerified(inv)
                      /\ \E k \in DOMAIN inv.doc.rates : /\ inv.doc.rates[k].element = "PricingExchangeRate"
                                                         /\ inv.doc.rates[k].from = inv.currency
                                                         /\ inv.doc.rates[k].rate = inv.rate
                      /\ draft'.edited \/ draft'.rate = inv.rate
  BY DEF RateIsTheDocuments
<1>2. ~FxBlocked(Plan) /\ FxVerified(Plan, draft')
  BY <1>1
<1>3. Plan.status = "source_rate_selected" /\ Plan.rate = inv.rate
  BY <1>1, <1>2, SelectedRate
<1> DEFINE p == w.precision[inv.currency]
<1>4. ~FxMismatches(Plan, draft', CompanyAmounts(draft', OdooMoney(draft', p).tax, w, p), w.companyPrecision)
  BY <1>2, <1>3 DEF FxVerified
<1>5. draft'.rate = Plan.rate
  BY <1>4 DEF FxMismatches
<1>6. QED
  BY <1>1, <1>2, <1>3, <1>5, SelectedRate

\* A draft exists only under a decision, a decision only once the review is no longer pending.
BillInv ==
    /\ PlaceInv
    /\ "pending" \in DOMAIN review
    /\ decision # None => ~review.pending
    /\ draft # None => decision # None /\ DOMAIN draft = DraftFields
    /\ BilledAsInvoiced

\* The parts of BilledAsInvoiced speak of the invoice, the decision, the draft and the outcome alone.
LEMMA SameBill ==
    ASSUME BilledAsInvoiced, inv' = inv, draft' = draft, outcome' = outcome,
           decision' = decision \/ draft = None
    PROVE  BilledAsInvoiced'
<1>1. MoneyIsConserved' /\ RateIsTheDocuments'
  BY DEF BilledAsInvoiced, MoneyIsConserved, RateIsTheDocuments
<1>2. ExemptTaxIsProven' /\ ResaleKeepsItsAccounts'
  <2>1. CASE draft = None
    BY <2>1 DEF ExemptTaxIsProven, ResaleKeepsItsAccounts
  <2>2. CASE decision' = decision
    BY <2>2 DEF BilledAsInvoiced, ExemptTaxIsProven, ResaleKeepsItsAccounts
  <2>3. QED
    BY <2>1, <2>2
<1>3. QED
  BY <1>1, <1>2 DEF BilledAsInvoiced

LEMMA BillInitial == ASSUME PathsInit PROVE BillInv
<1>1. /\ review = Classified(1) /\ decision = None /\ draft = None /\ outcome = None
  BY DEF PathsInit, PipelineInit
<1>2. "pending" \in DOMAIN review
  BY <1>1 DEF Classified, Recorded
<1>3. outcome # "executed"
  BY <1>1, OutcomeAssumption
<1>4. BilledAsInvoiced
  BY <1>1, <1>3 DEF BilledAsInvoiced, MoneyIsConserved, RateIsTheDocuments, ExemptTaxIsProven, ResaleKeepsItsAccounts
<1>5. QED
  BY <1>1, <1>2, <1>4, PlaceInit DEF BillInv

\* Only an execution creates a draft, and none is executed that does not bill what was invoiced.
LEMMA ExecuteBills == ASSUME BillInv, inv' = inv, Execute PROVE BillInv'
<1>1. /\ decision # None /\ outcome # "executed"
      /\ UNCHANGED <<source, now, review, decision>>
      /\ draft' = draft \/ (draft = None /\ Checked /\ Created)
      /\ outcome' = "executed" => ~FxBlocked(Plan) /\ FxVerified(Plan, draft')
  BY ExecuteCases
<1>2. PlaceInv' /\ PlaceInv
  BY <1>1 DEF BillInv, PlaceInv
<1>3. RateIsTheDocuments'
  BY <1>1, ExecutedRate
<1>4. CASE draft' = draft
  <2>1. MoneyIsConserved'
    BY <1>4 DEF BillInv, BilledAsInvoiced, MoneyIsConserved
  <2>2. ExemptTaxIsProven' /\ ResaleKeepsItsAccounts'
    BY <1>1, <1>4 DEF BillInv, BilledAsInvoiced, ExemptTaxIsProven, ResaleKeepsItsAccounts
  <2>3. QED
    BY <1>1, <1>2, <1>3, <1>4, <2>1, <2>2 DEF BillInv, BilledAsInvoiced
<1>5. CASE Checked /\ Created
  <2>1. MoneyIsConserved' /\ ExemptTaxIsProven' /\ ResaleKeepsItsAccounts'
    BY <1>1, <1>2, <1>5, CreatedMoney, CreatedExemption, CreatedResale
  <2>2. DOMAIN draft' = DraftFields
    BY <1>5, CreatedLines
  <2>3. QED
    BY <1>1, <1>2, <1>3, <2>1, <2>2 DEF BillInv, BilledAsInvoiced
<1>6. QED
  BY <1>1, <1>4, <1>5

LEMMA EditBills == ASSUME BillInv, inv' = inv, DraftEdited PROVE BillInv'
<1>1. draft # None /\ UNCHANGED <<source, now, review, decision, outcome>>
  BY DEF DraftEdited
<1>2. DOMAIN draft = DraftFields /\ decision # None
  BY <1>1 DEF BillInv
<1>3. PlaceInv'
  BY <1>1 DEF BillInv, PlaceInv
<1>4. CASE draft'.edited /\ DOMAIN draft' = DraftFields
  <2>1. RateIsTheDocuments'
    BY <1>1, <1>4 DEF BillInv, BilledAsInvoiced, RateIsTheDocuments
  <2>2. MoneyIsConserved' /\ ExemptTaxIsProven' /\ ResaleKeepsItsAccounts'
    BY <1>4 DEF MoneyIsConserved, ExemptTaxIsProven, ResaleKeepsItsAccounts
  <2>3. QED
    BY <1>1, <1>2, <1>3, <1>4, <2>1, <2>2 DEF BillInv, BilledAsInvoiced
<1>5. CASE draft' = [draft EXCEPT !.rate = inv.rate]
  <2>1. /\ DOMAIN draft' = DraftFields /\ draft'.rate = inv.rate /\ draft'.edited = draft.edited
        /\ draft'.lines = draft.lines /\ draft'.at = draft.at
    BY <1>2, <1>5 DEF DraftFields
  <2>2. RateIsTheDocuments'
    BY <1>1, <2>1 DEF BillInv, BilledAsInvoiced, RateIsTheDocuments
  <2>3. BillMoney(inv, draft', Worlds[draft.at].precision[inv.currency])
        = BillMoney(inv, draft, Worlds[draft.at].precision[inv.currency])
    BY <2>1 DEF BillMoney
  <2>4. MoneyIsConserved'
    BY <1>1, <2>1, <2>3 DEF BillInv, BilledAsInvoiced, MoneyIsConserved
  <2>5. ExemptTaxIsProven' /\ ResaleKeepsItsAccounts'
    BY <1>1, <2>1 DEF BillInv, BilledAsInvoiced, ExemptTaxIsProven, ResaleKeepsItsAccounts
  <2>6. QED
    BY <1>1, <1>2, <1>3, <2>1, <2>2, <2>4, <2>5 DEF BillInv, BilledAsInvoiced
<1>6. CASE draft' = [draft EXCEPT !.lines[1].price = @ + 1, !.edited = TRUE]
  BY <1>2, <1>4, <1>6 DEF DraftFields
<1>7. CASE \E a \in Accounts : draft' = [draft EXCEPT !.lines[1].account = a, !.edited = TRUE]
  BY <1>2, <1>4, <1>7 DEF DraftFields
<1>8. QED
  BY <1>5, <1>6, <1>7 DEF DraftEdited

LEMMA BillStep == ASSUME BillInv, [PathsNext]_allvars PROVE BillInv'
<1>1. inv' = inv /\ PlaceInv'
  BY SourceFixed, PlaceStep DEF BillInv
<1>2. CASE UNCHANGED <<decision, draft, outcome, review>>
  <2>1. BilledAsInvoiced'
    BY <1>1, <1>2, SameBill DEF BillInv
  <2>2. QED
    BY <1>1, <1>2, <2>1 DEF BillInv
<1>3. CASE Reclassify
  <2>1. review.pending /\ UNCHANGED <<decision, draft, outcome>> /\ review' = Classified(review.version + 1)
    BY <1>3 DEF Reclassify
  <2>2. decision = None /\ "pending" \in DOMAIN review'
    BY <2>1 DEF BillInv, Classified, Recorded
  <2>3. BilledAsInvoiced'
    BY <1>1, <2>1, SameBill DEF BillInv
  <2>4. QED
    BY <1>1, <2>1, <2>2, <2>3 DEF BillInv
<1>4. CASE Accept
  <2>1. /\ review.pending /\ UNCHANGED <<draft, outcome>>
        /\ review' = [review EXCEPT !.version = review.version + 1, !.pending = FALSE]
    BY <1>4 DEF Accept
  <2>2. draft = None /\ "pending" \in DOMAIN review' /\ ~review'.pending
    BY <2>1 DEF BillInv
  <2>3. BilledAsInvoiced'
    BY <1>1, <2>1, <2>2, SameBill DEF BillInv
  <2>4. QED
    BY <1>1, <2>1, <2>2, <2>3 DEF BillInv
<1>5. CASE Execute
  BY <1>1, <1>5, ExecuteBills
<1>6. CASE DraftEdited
  BY <1>1, <1>6, EditBills
<1>7. CASE SupplierRemediated \/ SubmitPurpose \/ SubmitResolution \/ Preview \/ Readback \/ MasterDataChanges
  BY <1>2, <1>7 DEF SupplierRemediated, SubmitPurpose, SubmitResolution, Preview, Readback, MasterDataChanges
<1>8. CASE EditRules \/ UNCHANGED vars
  BY <1>2, <1>8 DEF EditRules, vars
<1>9. QED
  BY <1>3, <1>4, <1>5, <1>6, <1>7, <1>8 DEF PathsNext, PipelineNext, RulesNext, allvars

\* Whatever the invoices, the states Odoo's master data goes through and the order of the steps:
\* a bill charges what the invoice charges to the currency's precision, line by line and in total
\* (builder.py), is reported as executed in another currency only at the one rate its verified
\* document states (vendor_bill_strategy.py _verify_created_fx), carries a zero tax only where the
\* exemption was proven at the write (source_tax/exemption.py), and books a resale on the accounts
\* that were accepted (resale_execution_accounting.py, resale_fiscal_position.py).
THEOREM BilledTruth == PathsSpec => []BilledAsInvoiced
<1>1. PathsInit => BillInv
  BY BillInitial
<1>2. BillInv /\ [PathsNext]_allvars => BillInv'
  BY BillStep
<1>3. BillInv => BilledAsInvoiced
  BY DEF BillInv
<1>4. QED
  BY <1>1, <1>2, <1>3, PTL DEF PathsSpec, allvars

-----------------------------------------------------------------------------
(* Classification: a review without a reason has what a bill needs.         *)

\* What an answer of the operator can strike from the reasons.
Answerable ==
    {"SUPPLIER_AMBIGUOUS", "OPERATING_EXPENSE_MAPPING_REQUIRED",
     "OPERATING_EXPENSE_MAPPING_AMBIGUOUS", "AMBIGUOUS_COMMERCIAL_PURCHASE"}

ExpenseCodes == {"OPERATING_EXPENSE_MAPPING_REQUIRED", "OPERATING_EXPENSE_MAPPING_AMBIGUOUS"}

\* Match results as the matchers give them: statuses of the enumeration, an expense only for a
\* matched supplier and never for an ambiguous purchase.
Results(x, p, q, t, m) ==
    /\ p.status \in MatchStatus
    /\ DOMAIN q = DOMAIN x.lines /\ \A i \in DOMAIN q : q[i].status \in MatchStatus
    /\ \A r \in TaxResults(t) : r.status \in MatchStatus
    /\ m.status = "MATCHED" => p.status = "MATCHED" /\ ~AmbiguousCommercial(x)

\* ByCount answers with a status of the enumeration.
LEMMA CountStatus == ASSUME NEW ids PROVE ByCount(ids).status \in MatchStatus
  BY DEF ByCount, Matched, Unmatched, MatchStatus

\* PartnerMatch does.
LEMMA PartnerStatus == ASSUME NEW x, NEW u PROVE PartnerMatch(x, u).status \in MatchStatus
<1>1. ByCount(GroupByCommercialPartner(FindByTaxNumber(u, x.vat))).status \in MatchStatus
  BY CountStatus
<1>2. Unmatched("INVALID_INPUT").status \in MatchStatus /\ Unmatched("MULTIPLE_MATCHES").status \in MatchStatus
  BY DEF Unmatched, MatchStatus
<1>3. QED
  BY <1>1, <1>2 DEF PartnerMatch

\* Every line has a product result.
LEMMA ProductStatus ==
    ASSUME NEW x, NEW u, NEW s
    PROVE  /\ DOMAIN ProductMatch(x, u, s) = DOMAIN x.lines
           /\ \A i \in DOMAIN x.lines : ProductMatch(x, u, s)[i].status \in MatchStatus
<1>1. \A l, c : MatchLine(u, l, c).status \in MatchStatus
  <2>1. \A o : CombinedResult(o).status \in MatchStatus
    BY CountStatus DEF CombinedResult, Unmatched, MatchStatus
  <2>2. QED
    BY <2>1 DEF MatchLine, Unmatched, MatchStatus
<1>2. QED
  BY <1>1 DEF ProductMatch

\* So has every tax, whether an exemption replaced it or not.
LEMMA TaxStatus ==
    ASSUME NEW x, NEW u, NEW c
    PROVE  \A r \in TaxResults(MapExemption(x, TaxMatch(x, u), u, c)) : r.status \in MatchStatus
<1> DEFINE m == TaxMatch(x, u)
           e == MapExemption(x, m, u, c)
<1>1. \A l, t : MapTax(u, l, t).status \in MatchStatus
  BY CountStatus DEF MapTax, TaxResult, MatchStatus
<1>2. \A i \in DOMAIN m.results : \A k \in DOMAIN m.results[i] : m.results[i][k].status \in MatchStatus
  BY <1>1 DEF TaxMatch
<1>3. \A code, id : ExemptionResult(code, id).status \in MatchStatus
  BY DEF ExemptionResult, TaxResult, MatchStatus
<1>4. DOMAIN m = {"errors", "results"}
  BY DEF TaxMatch
<1> HIDE DEF m
<1>5. \A i \in DOMAIN e.results : \A k \in DOMAIN e.results[i] : e.results[i][k].status \in MatchStatus
  BY <1>2, <1>3, <1>4 DEF MapExemption
<1> HIDE DEF e
<1>6. QED
  BY <1>5 DEF TaxResults, Range, m, e

\* What is in the reasons of a verdict none of which is beyond the operator.
Answered(x, v, p, q, t, m) ==
    /\ ~IsReturn(x)
    /\ \A r \in TaxResults(t) : r.status = "MATCHED"
    /\ p.status = "MATCHED" \/ \E r \in v.reasons : r.code = "SUPPLIER_AMBIGUOUS"
    /\ \/ \A i \in DOMAIN x.lines : q[i].status = "MATCHED"
       \/ m.status = "MATCHED"
       \/ \E r \in v.reasons : r.code \in ExpenseCodes

\* DecisionEngine: a verdict whose reasons an operator can answer lacks nothing else.
LEMMA VerdictAnswerable ==
    ASSUME NEW x, NEW p, NEW q, NEW t, NEW m, Results(x, p, q, t, m),
           \A r \in VerdictOf(x, p, q, t, m).reasons : r.code \in Answerable
    PROVE  Answered(x, VerdictOf(x, p, q, t, m), p, q, t, m)
<1> DEFINE v == VerdictOf(x, p, q, t, m)
           ps == PartnerReasons(p)
           qs == ProductReasons(x, q)
           ts == TaxReasons(x, t)
           ss == {Reason(c, None) : c \in SourceTaxReasons(x)}
           Strange(r) == r.code \notin Answerable
           billable == /\ ps \cup ts \cup ss = {}
                       /\ \/ qs = {}
                          \/ InvoiceIdentifierFree(x) /\ m.status = "MATCHED" /\ ~AmbiguousCommercial(x)
<1>1. \A c, l : Reason(c, l).code = c
  BY DEF Reason
<1>2. v.reasons = CASE IsReturn(x) -> {Reason("RETURN_INVOICE_NOT_SUPPORTED", None)}
                    [] ~IsReturn(x) /\ billable -> {}
                    [] OTHER -> ss \cup ManualReviewReasons(x, ps, qs, ts, m)
                                \cup When(AmbiguousCommercial(x), "AMBIGUOUS_COMMERCIAL_PURCHASE")
  BY DEF VerdictOf, Verdict
<1>3. \A r \in ts : Strange(r)
  <2>1. \A r \in TaxResults(t) : r.status # "MATCHED" => TaxReasonCode[r.status] \notin Answerable
    BY DEF Results, MatchStatus, TaxReasonCode, Answerable
  <2>2. \A r \in ts : r.code = "TAX_MAPPING_INCOMPLETE"
                      \/ \E y \in TaxResults(t) : y.status # "MATCHED" /\ r.code = TaxReasonCode[y.status]
    BY <1>1 DEF TaxReasons, TaxResults, When
  <2>3. QED
    BY <2>1, <2>2 DEF Answerable
<1>4. ts = {} => \A r \in TaxResults(t) : r.status = "MATCHED"
  BY DEF TaxReasons, TaxResults
<1>5. \A r \in qs : Strange(r)
  <2>1. \A i \in DOMAIN q : q[i].status # "MATCHED" => ProductReasonCode[q[i].status] \notin Answerable
    BY DEF Results, MatchStatus, ProductReasonCode, Answerable
  <2>2. \A r \in qs : r.code = "UNSUPPORTED_INVOICE_CONTENT"
                      \/ \E i \in DOMAIN q : q[i].status # "MATCHED" /\ r.code = ProductReasonCode[q[i].status]
    BY <1>1 DEF ProductReasons, When
  <2>3. QED
    BY <2>1, <2>2 DEF Answerable
<1>6. qs = {} => \A i \in DOMAIN x.lines : q[i].status = "MATCHED"
  BY DEF ProductReasons, Results
<1>7. p.status = "MATCHED" \/ \E r \in ps : r.code = "SUPPLIER_AMBIGUOUS" \/ Strange(r)
  BY <1>1 DEF PartnerReasons, Results, MatchStatus, Answerable
<1>8. ps = {} => p.status = "MATCHED"
  BY DEF PartnerReasons, Results, MatchStatus
<1>9. ExpenseReason(m).code \in ExpenseCodes
  BY <1>1 DEF ExpenseReason, ExpenseCodes
<1> HIDE DEF ps, qs, ts, ss, v
<1>10. CASE IsReturn(x)
  <2>1. Reason("RETURN_INVOICE_NOT_SUPPORTED", None) \in v.reasons
    BY <1>2, <1>10
  <2>2. QED
    BY <1>1, <2>1 DEF v, Answerable
<1>11. CASE ~IsReturn(x) /\ billable
  BY <1>4, <1>6, <1>8, <1>11 DEF Answered
<1>12. CASE ~IsReturn(x) /\ ~billable
  <2>1. ManualReviewReasons(x, ps, qs, ts, m) \subseteq v.reasons
    BY <1>2, <1>12
  <2>2. ps \subseteq v.reasons /\ ts \subseteq v.reasons
    BY <2>1 DEF ManualReviewReasons
  <2>3. ts = {}
    BY <1>3, <2>2 DEF v
  <2>4. p.status = "MATCHED" \/ \E r \in v.reasons : r.code = "SUPPLIER_AMBIGUOUS"
    BY <1>7, <2>2 DEF v
  <2>5. CASE InvoiceIdentifierFree(x)
    <3>1. m.status = "MATCHED" \/ ExpenseReason(m) \in v.reasons
      BY <2>1, <2>3, <2>5 DEF ManualReviewReasons
    <3>2. QED
      BY <1>4, <1>9, <1>12, <2>3, <2>4, <3>1 DEF Answered, v
  <2>6. CASE ~InvoiceIdentifierFree(x)
    <3>1. qs \subseteq v.reasons
      BY <2>1, <2>6 DEF ManualReviewReasons
    <3>2. qs = {}
      BY <1>5, <3>1 DEF v
    <3>3. QED
      BY <1>4, <1>6, <1>12, <2>3, <2>4, <3>2 DEF Answered, v
  <2>7. QED
    BY <2>5, <2>6
<1>13. QED
  BY <1>10, <1>11, <1>12

\* What GuidedStepIsAccepted and UnblockedIsComplete need of a classification.
Sound(x, e) ==
    /\ e.workflow \in {"VENDOR_BILL", "MANUAL_REVIEW"}
    /\ e.reasons = {} =>
          /\ e.workflow = "VENDOR_BILL"
          /\ e.partner.status = "MATCHED"
          /\ \A r \in TaxResults(e.tax) : r.status = "MATCHED"
          /\ ~IsReturn(x)
          /\ \/ \A i \in DOMAIN x.lines : e.product[i].status = "MATCHED"
             \/ e.asset # None
             \/ e.expense.status = "MATCHED"

\* effective_decision.py: what is struck from the reasons was answered, and the answer is in the
\* evidence.
LEMMA EffectiveSound ==
    ASSUME NEW x, NEW p, NEW q, NEW t, NEW m, Results(x, p, q, t, m),
           NEW accepted, NEW asset, NEW expense,
           expense # None => expense.status = "MATCHED" \/ p.status # "MATCHED"
    PROVE  Sound(x, Effective(VerdictOf(x, p, q, t, m), accepted, asset, expense))
<1> DEFINE raw == VerdictOf(x, p, q, t, m)
           e == Effective(raw, accepted, asset, expense)
           Struck == StrippedCodes(accepted, expense, asset)
<1>1. raw.partner = p /\ raw.product = q /\ raw.tax = t /\ raw.expense = m
      /\ raw.workflow \in {"VENDOR_BILL", "MANUAL_REVIEW"}
  BY DEF VerdictOf, Verdict
<1>2. /\ e.workflow \in {"VENDOR_BILL", "MANUAL_REVIEW"} /\ (e.reasons = {} => e.workflow = "VENDOR_BILL")
      /\ e.partner = EffectivePartnerMatch(p, accepted) /\ e.product = q /\ e.tax = t /\ e.asset = asset
      /\ e.reasons = {r \in raw.reasons : r.code \notin Struck}
      /\ asset = None => e.expense = IF expense # None THEN expense ELSE m
  BY <1>1 DEF Effective
<1>3. /\ Struck \subseteq Answerable
      /\ "SUPPLIER_AMBIGUOUS" \in Struck => accepted # None
      /\ \A c \in ExpenseCodes : c \in Struck => asset # None \/ (expense # None /\ expense.status = "MATCHED")
  BY DEF StrippedCodes, Answerable, ExpenseCodes
<1> HIDE DEF raw, e, Struck
<1>4. SUFFICES ASSUME e.reasons = {} PROVE Sound(x, e)
  BY <1>2 DEF Sound, e, raw
<1>5. \A r \in raw.reasons : r.code \in Struck
  BY <1>2, <1>4
<1>6. Answered(x, raw, p, q, t, m)
  BY <1>3, <1>5, VerdictAnswerable DEF raw
<1>7. e.partner.status = "MATCHED"
  <2>1. p.status = "MATCHED" \/ accepted # None
    BY <1>3, <1>5, <1>6 DEF Answered
  <2>2. QED
    BY <1>2, <2>1 DEF EffectivePartnerMatch, EffectiveSupplier, Matched
<1>8. \/ \A i \in DOMAIN x.lines : e.product[i].status = "MATCHED"
      \/ e.asset # None
      \/ e.expense.status = "MATCHED"
  <2>1. CASE m.status = "MATCHED"
    BY <1>2, <2>1 DEF Results
  <2>2. CASE \E r \in raw.reasons : r.code \in ExpenseCodes
    BY <1>2, <1>3, <1>5, <2>2
  <2>3. QED
    BY <1>2, <1>6, <2>1, <2>2 DEF Answered
<1>9. QED
  BY <1>2, <1>4, <1>6, <1>7, <1>8 DEF Sound, Answered

\* Every classification is sound, whatever the master data, the supplier an operator accepted and
\* the accounting treatment that was recorded.
LEMMA ClassificationSound ==
    ASSUME NEW x, NEW u, NEW cfg, NEW eff, NEW res
    PROVE  Sound(x, EffectiveDecision(x, u, cfg, eff, res))
<1> DEFINE Raw(a) == Evaluate(x, u, cfg, a)
           p == PartnerMatch(x, u)
           q(a) == ProductMatch(x, u, EffectivePartnerMatch(p, a))
           t == MapExemption(x, TaxMatch(x, u), u, cfg)
           m == IF AmbiguousCommercial(x) THEN NoExpense("NOT_FOUND") ELSE OperatingExpenseMatch(u, p)
<1>1. \A a : Raw(a) = VerdictOf(x, p, q(a), t, m)
  BY DEF Evaluate, EvaluateWith
<1>2. m.status = "MATCHED" => p.status = "MATCHED" /\ ~AmbiguousCommercial(x)
  BY DEF OperatingExpenseMatch, NoExpense, ExpenseResult
<1>3. \A a : Results(x, p, q(a), t, m)
  BY <1>2, PartnerStatus, ProductStatus, TaxStatus DEF Results
<1>4. \A a : Raw(a).partner = p
  BY <1>1 DEF VerdictOf, Verdict
<1> HIDE DEF Raw, p, q, t, m
<1>5. \A a, acc, asset, expense :
         (expense # None => expense.status = "MATCHED" \/ p.status # "MATCHED")
            => Sound(x, Effective(Raw(a), acc, asset, expense))
  BY <1>1, <1>3, EffectiveSound
<1>6. \A a, acc, s : Sound(x, Treated(x, u, Raw(a), acc, res, s))
  <2> TAKE a, acc, s
  <2>1. Sound(x, Effective(Raw(a), acc, res.account, None))
    BY <1>5
  <2>2. Sound(x, Effective(Raw(a), acc, None, ExpenseResult("MATCHED", res.account, "review")))
    <3>1. ExpenseResult("MATCHED", res.account, "review").status = "MATCHED"
      BY DEF ExpenseResult
    <3>2. QED
      BY <1>5, <3>1
  <2>3. Sound(x, Effective(Raw(a), acc, None, EffectiveExpense(x, u, Raw(a), acc)))
    <3>1. EffectiveExpense(x, u, Raw(a), acc) # None => p.status # "MATCHED"
      BY <1>4 DEF EffectiveExpense
    <3>2. QED
      BY <1>5, <3>1
  <2>4. QED
    BY <2>1, <2>2, <2>3 DEF Treated
<1>7. QED
  BY <1>6 DEF EffectiveDecision, EffectiveAfter, WithAcceptedSupplier, Raw

-----------------------------------------------------------------------------
(* The guidance, the purposes and the decision.                             *)

\* The review row; its classification is sound.
ReviewInv ==
    /\ DOMAIN review = {"version", "e", "evidence", "pending"}
    /\ review.version \in Versions
    /\ Sound(inv, review.e)

\* A purpose is recorded for a version, for a resale only of a product-coded invoice.
PurposeInv ==
    /\ purposes \in [Versions -> Purposes \cup {None}]
    /\ DOMAIN resolutions = Versions
    /\ \A v \in Versions : resolutions[v] # None => resolutions[v].account \in Accounts \cup AssetAccounts
    /\ \A v \in Versions : purposes[v] = "resale" => ProductShaped

\* A decision closes the review and is of the version before its own; a draft stays a draft.
DecidedInv ==
    /\ decision # None => ~review.pending /\ decision.version = review.version /\ decision.version - 1 \in Versions
    /\ draft # None => DOMAIN draft = DraftFields /\ draft.state = "draft"
    /\ outcome \in {None, "failed", "executed"}
    /\ outcome = "executed" => draft.state = "draft"
    /\ PurposeIsCurrent

CompleteInv == PlaceInv /\ ReviewInv /\ PurposeInv /\ DecidedInv

\* A classified review, at any version.
LEMMA ClassifiedSound ==
    ASSUME NEW v \in Versions
    PROVE  /\ DOMAIN Classified(v) = {"version", "e", "evidence", "pending"}
           /\ Classified(v).version = v /\ Sound(inv, Classified(v).e)
<1>1. Sound(inv, EffectiveDecision(inv, w, ExemptionConfig, effect, LatestResolution))
  BY ClassificationSound
<1>2. QED
  BY <1>1 DEF Classified, Recorded

LEMMA CompleteInitial == ASSUME PathsInit PROVE CompleteInv
<1>1. /\ purposes = [v \in Versions |-> None] /\ resolutions = [v \in Versions |-> None]
      /\ review = Classified(1) /\ decision = None /\ draft = None /\ outcome = None
  BY DEF PathsInit, PipelineInit
<1>2. 1 \in Versions
  BY BoundAssumption DEF Versions
<1>3. ReviewInv
  BY <1>1, <1>2, ClassifiedSound DEF ReviewInv
<1>4. PurposeInv
  BY <1>1, OutcomeAssumption DEF PurposeInv, Purposes
<1>5. DecidedInv
  BY <1>1, OutcomeAssumption DEF DecidedInv, PurposeIsCurrent
<1>6. QED
  BY <1>3, <1>4, <1>5, PlaceInit DEF CompleteInv

\* What an accepted decision is.
LEMMA AcceptedDecision ==
    ASSUME CompleteInv, inv' = inv, Accept
    PROVE  /\ ReviewInv' /\ PurposeInv' /\ DecidedInv'
<1> DEFINE v == review.version
<1>1. PICK choice \in LineChoices :
        LET d == WithSelectedProducts(review.evidence, choice)
        IN  /\ review.pending /\ v < MaxVersion /\ PurposeGate(v) /\ InternalUseGate(d, choice, v)
            /\ decision' = [version |-> v + 1, evidence |-> d, choice |-> choice,
                            resale |-> ResalePin(d, v), internal |-> InternalPin(d, v)]
            /\ review' = [review EXCEPT !.version = v + 1, !.pending = FALSE]
            /\ UNCHANGED <<source, now, effect, purposes, resolutions, draft, outcome>>
  BY DEF Accept
<1> DEFINE d == WithSelectedProducts(review.evidence, choice)
<1>2. v \in Versions /\ v + 1 \in Versions /\ (v + 1) - 1 = v
  BY <1>1, BoundAssumption DEF CompleteInv, ReviewInv, Versions
<1>3. /\ DOMAIN review' = DOMAIN review /\ review'.version = v + 1 /\ ~review'.pending /\ review'.e = review.e
  BY <1>1 DEF CompleteInv, ReviewInv
<1>4. ReviewInv'
  BY <1>1, <1>2, <1>3 DEF CompleteInv, ReviewInv
<1>5. ProductShaped' = ProductShaped /\ NumsOf(inv)' = NumsOf(inv)
  BY DEF ProductShaped
<1>6. PurposeInv'
  BY <1>1, <1>5 DEF CompleteInv, PurposeInv, Versions
<1>7. PurposeIsCurrent'
  <2>1. /\ decision'.version - 1 = v /\ decision'.resale = ResalePin(d, v) /\ decision'.internal = InternalPin(d, v)
        /\ purposes' = purposes /\ resolutions' = resolutions
    BY <1>1, <1>2
  <2>2. CASE purposes[v] = "resale" /\ ProductShaped
    <3>1. DOMAIN ResalePin(d, v) = NumsOf(inv) /\ InternalPin(d, v) = None
      BY <2>2 DEF ResalePin, InternalPin
    <3>2. QED
      BY <1>5, <2>1, <2>2, <3>1 DEF PurposeIsCurrent
  <2>3. CASE purposes[v] = "internal_use" /\ ProductShaped
    <3>1. /\ ResalePin(d, v) = None /\ DOMAIN InternalPin(d, v) = NumsOf(inv)
          /\ \A num \in NumsOf(inv) : InternalPin(d, v)[num].account = resolutions[v].account
      BY <2>3 DEF ResalePin, InternalPin, InternalUsePin
    <3>2. QED
      BY <1>5, <2>1, <2>3, <3>1 DEF PurposeIsCurrent
  <2>4. ProductShaped => purposes[v] \in {"resale", "internal_use"}
    BY <1>1 DEF PurposeGate
  <2>5. QED
    BY <1>5, <2>2, <2>3, <2>4 DEF PurposeIsCurrent
<1>8. DecidedInv'
  <2>1. decision'.version = v + 1
    BY <1>1
  <2>2. draft' = draft /\ outcome' = outcome
    BY <1>1
  <2>3. QED
    BY <1>2, <1>3, <1>7, <2>1, <2>2 DEF CompleteInv, DecidedInv, Versions
<1>9. QED
  BY <1>4, <1>6, <1>8

\* A draft that an execution makes or finds, and one that a person edits, is a draft.
LEMMA DraftStays ==
    ASSUME CompleteInv, Execute \/ DraftEdited
    PROVE  /\ draft' # None => DOMAIN draft' = DraftFields /\ draft'.state = "draft"
           /\ outcome' \in {None, "failed", "executed"}
           /\ outcome' = "executed" => draft'.state = "draft"
<1>1. draft # None => DOMAIN draft = DraftFields /\ draft.state = "draft"
  BY DEF CompleteInv, DecidedInv
<1>2. CASE Execute
  <2>1. \A bill : OdooCreates(bill) => DOMAIN draft' = DraftFields /\ draft'.state = "draft"
    BY DEF OdooCreates, DraftFields
  <2>2. \/ draft' = draft /\ outcome' = "failed"
        \/ /\ (draft # None /\ draft' = draft) \/ (\E bill : OdooCreates(bill))
           /\ outcome' \in {"failed", "executed"}
    BY <1>2 DEF Execute, WriteBill
  <2>3. QED
    BY <1>1, <2>1, <2>2, OutcomeAssumption
<1>3. CASE DraftEdited
  <2>1. draft # None /\ outcome' = outcome /\ outcome \in {None, "failed", "executed"}
    BY <1>3 DEF DraftEdited, CompleteInv, DecidedInv
  <2>2. DOMAIN draft' = DraftFields /\ draft'.state = "draft"
    BY <1>1, <1>3, <2>1 DEF DraftEdited, DraftFields
  <2>3. QED
    BY <2>1, <2>2
<1>4. QED
  BY <1>2, <1>3

\* The pipeline's steps beside these.
LEMMA CompleteStep == ASSUME CompleteInv, [PathsNext]_allvars PROVE CompleteInv'
<1>1. inv' = inv /\ PlaceInv'
  BY SourceFixed, PlaceStep DEF CompleteInv
<1>2. ProductShaped' = ProductShaped /\ NumsOf(inv)' = NumsOf(inv)
  BY <1>1 DEF ProductShaped
<1>3. UNCHANGED <<review, purposes, resolutions, decision>> => ReviewInv' /\ PurposeInv' /\ PurposeIsCurrent'
  <2> HAVE UNCHANGED <<review, purposes, resolutions, decision>>
  <2>1. ReviewInv'
    BY <1>1 DEF CompleteInv, ReviewInv, Versions
  <2>2. PurposeInv'
    BY <1>2 DEF CompleteInv, PurposeInv, Versions
  <2>3. PurposeIsCurrent'
    BY <1>2 DEF CompleteInv, DecidedInv, PurposeIsCurrent
  <2>4. QED
    BY <2>1, <2>2, <2>3
<1>4. UNCHANGED <<review, decision, draft, outcome>> /\ PurposeIsCurrent' => DecidedInv'
  BY DEF CompleteInv, DecidedInv, Versions
<1>5. CASE UNCHANGED <<review, purposes, resolutions, decision, draft, outcome>>
  BY <1>1, <1>3, <1>4, <1>5 DEF CompleteInv
<1>6. CASE Reclassify
  <2>1. /\ review.pending /\ review.version < MaxVersion /\ review' = Classified(review.version + 1)
        /\ UNCHANGED <<source, now, effect, purposes, resolutions, decision, draft, outcome>>
    BY <1>6 DEF Reclassify
  <2>2. review.version + 1 \in Versions
    BY <2>1, BoundAssumption DEF CompleteInv, ReviewInv, Versions
  <2>3. ReviewInv'
    BY <1>1, <2>1, <2>2, ClassifiedSound DEF ReviewInv, Versions
  <2>4. decision = None
    BY <2>1 DEF CompleteInv, DecidedInv
  <2>5. PurposeInv'
    BY <1>2, <2>1 DEF CompleteInv, PurposeInv, Versions
  <2>6. DecidedInv'
    BY <2>1, <2>4 DEF CompleteInv, DecidedInv, PurposeIsCurrent
  <2>7. QED
    BY <1>1, <2>3, <2>5, <2>6 DEF CompleteInv
<1>7. CASE SubmitPurpose
  <2>1. PICK p \in Purposes : PurposeAccepted(p) /\ purposes' = [purposes EXCEPT ![review.version] = p]
    BY <1>7 DEF SubmitPurpose
  <2>2. UNCHANGED <<resolutions, review, decision, draft, outcome>>
    BY <1>7 DEF SubmitPurpose
  <2>3. decision = None
    BY <2>1 DEF PurposeAccepted, CompleteInv, DecidedInv
  <2>4. p = "resale" => ProductShaped
    BY <2>1 DEF PurposeAccepted
  <2>5. PurposeInv'
    BY <1>2, <2>1, <2>2, <2>4 DEF CompleteInv, PurposeInv, ReviewInv, Versions
  <2>6. ReviewInv'
    BY <1>1, <2>2 DEF CompleteInv, ReviewInv, Versions
  <2>7. PurposeIsCurrent'
    BY <2>2, <2>3 DEF PurposeIsCurrent
  <2>8. QED
    BY <1>1, <1>4, <2>2, <2>5, <2>6, <2>7 DEF CompleteInv
<1>8. CASE SubmitResolution
  <2>1. PICK t \in Treatments, a \in Accounts \cup AssetAccounts :
           ResolutionAccepted(t, a)
           /\ resolutions' = [resolutions EXCEPT ![review.version] = [treatment |-> t, account |-> a]]
    BY <1>8 DEF SubmitResolution
  <2>2. UNCHANGED <<purposes, review, decision, draft, outcome>>
    BY <1>8 DEF SubmitResolution
  <2>3. decision = None
    BY <2>1 DEF ResolutionAccepted, CompleteInv, DecidedInv
  <2>4. PurposeInv'
    BY <1>2, <2>1, <2>2 DEF CompleteInv, PurposeInv, ReviewInv, Versions
  <2>5. ReviewInv'
    BY <1>1, <2>2 DEF CompleteInv, ReviewInv, Versions
  <2>6. PurposeIsCurrent'
    BY <2>2, <2>3 DEF PurposeIsCurrent
  <2>7. QED
    BY <1>1, <1>4, <2>2, <2>4, <2>5, <2>6 DEF CompleteInv
<1>9. CASE Accept
  BY <1>1, <1>9, AcceptedDecision DEF CompleteInv
<1>10. CASE Execute \/ DraftEdited
  <2>1. UNCHANGED <<review, purposes, resolutions, decision>>
    BY <1>10 DEF Execute, DraftEdited
  <2>2. DecidedInv'
    BY <1>3, <1>10, <2>1, DraftStays DEF CompleteInv, DecidedInv, Versions
  <2>3. QED
    BY <1>1, <1>3, <2>1, <2>2 DEF CompleteInv
<1>11. CASE SupplierRemediated \/ Preview \/ Readback \/ MasterDataChanges
  BY <1>5, <1>11 DEF SupplierRemediated, Preview, Readback, MasterDataChanges
<1>12. CASE EditRules \/ UNCHANGED vars
  BY <1>5, <1>12 DEF EditRules, vars
<1>13. QED
  BY <1>6, <1>7, <1>8, <1>9, <1>10, <1>11, <1>12 DEF PathsNext, PipelineNext, RulesNext, allvars

\* The step the guidance names is accepted: guidance and gates read the same facts.
LEMMA GuidanceAccepted == ASSUME CompleteInv PROVE GuidedStepIsAccepted
<1> DEFINE v == review.version
           codes == {r.code : r \in review.e.reasons}
<1>1. SUFFICES ASSUME review.pending PROVE GuidedStepIsAccepted
  BY DEF GuidedStepIsAccepted
<1>2. v \in Versions /\ purposes[v] \in Purposes \cup {None}
  BY DEF CompleteInv, ReviewInv, PurposeInv
<1>3. Guided = IF codes # {} THEN BlockedAction(codes, GuidanceFacts) ELSE UnblockedAction(GuidanceFacts)
  BY <1>1 DEF Guided, NextAction
<1>4. /\ GuidanceFacts.purpose = purposes[v] /\ GuidanceFacts.coded = ProductShaped
      /\ GuidanceFacts.accounted = (resolutions[v] # None)
  BY DEF GuidanceFacts
<1>5. codes \cap OperatingExpenseCodes # {} => HasReason(ExpenseReasons)
  BY DEF OperatingExpenseCodes, HasReason, ExpenseReasons
<1>6. codes = {} => Unblocked
  BY DEF CompleteInv, ReviewInv, Sound, Unblocked
<1>7. Guided = "PURPOSE" => purposes[v] = None /\ (HasReason(ExpenseReasons) \/ ProductShaped)
  BY <1>2, <1>3, <1>4, <1>5 DEF BlockedAction, UnblockedAction, AllPurposes, Purposes
<1>8. Guided = "PURPOSE" => \E p \in Purposes : PurposeAccepted(p)
  BY <1>1, <1>7 DEF PurposeAccepted, Purposes
<1>9. Guided = "ACCOUNTING" =>
         \/ purposes[v] \in {"internal_use", "other_operating_expense"} /\ HasReason(ExpenseReasons)
         \/ purposes[v] = "internal_use" /\ Unblocked
  BY <1>2, <1>3, <1>4, <1>5, <1>6 DEF BlockedAction, UnblockedAction
<1>10. ASSUME Guided = "ACCOUNTING", resolutions[v] = None, \E a \in Accounts : EligibleExpenseAccount(w, a)
       PROVE  \E t \in Treatments, a \in Accounts \cup AssetAccounts : ResolutionAccepted(t, a)
  <2>1. PICK a \in Accounts : EligibleExpenseAccount(w, a)
    BY <1>10
  <2>2. ResolutionAccepted("expense_account", a)
    BY <1>1, <1>9, <1>10, <2>1 DEF ResolutionAccepted, PurposeSupports, EligibleAccount
  <2>3. QED
    BY <2>1, <2>2 DEF Treatments
<1>11. Guided = "DECISION" =>
         /\ codes = {}
         /\ ProductShaped => purposes[v] \in {"resale", "internal_use"}
         /\ purposes[v] = "internal_use" => resolutions[v] # None
  BY <1>2, <1>3, <1>4 DEF BlockedAction, UnblockedAction
<1>12. Guided = "DECISION" => PurposeGate(v) /\ (purposes[v] = "internal_use" => resolutions[v] # None)
  <2> HAVE Guided = "DECISION"
  <2>1. CASE ProductShaped
    BY <1>11, <2>1, OutcomeAssumption DEF PurposeGate, Purposes
  <2>2. CASE ~ProductShaped
    BY <1>11, <2>2 DEF PurposeGate, CompleteInv, PurposeInv
  <2>3. QED
    BY <2>1, <2>2
<1>13. QED
  BY <1>8, <1>10, <1>12 DEF GuidedStepIsAccepted

\* Whatever the invoices, the master data and what operators answer: the step the Workbench names
\* is one the Hub accepts (operator_guidance.py against the gates of purchase_purpose,
\* accounting_resolution and decision use cases), a review without a reason has everything a bill
\* needs (effective_decision.py), and a product-coded invoice is decided under the purpose of its
\* own version, with that purpose's pins.
THEOREM CompleteTruth == PathsSpec => []DecisionIsComplete
<1>1. PathsInit => CompleteInv
  BY CompleteInitial
<1>2. CompleteInv /\ [PathsNext]_allvars => CompleteInv'
  BY CompleteStep
<1>3. CompleteInv => DecisionIsComplete
  <2> HAVE CompleteInv
  <2>1. PipelineTypeOK
    BY DEF CompleteInv, PlaceInv, ReviewInv, Sound, PurposeInv, DecidedInv, PipelineTypeOK
  <2>2. UnblockedIsComplete
    BY DEF CompleteInv, ReviewInv, Sound, UnblockedIsComplete, Unblocked
  <2>3. PurposeIsCurrent
    BY DEF CompleteInv, DecidedInv
  <2>4. QED
    BY <2>1, <2>2, <2>3, GuidanceAccepted DEF DecisionIsComplete
<1>4. QED
  BY <1>1, <1>2, <1>3, PTL DEF PathsSpec, allvars

-----------------------------------------------------------------------------
(* The draft before and after the write: what the operator is shown.        *)

\* The product a line books: none when the line is an asset, an expense or account-only.
BookedProduct(d, accountOnly, i) ==
    IF d.asset # None \/ ExpenseMode(inv, d) \/ inv.lines[i].num \in accountOnly THEN None ELSE d.product[i].id

LEMMA BuiltProduct ==
    ASSUME NEW d, NEW o, NEW i \in DOMAIN inv.lines
    PROVE  BuildLine(inv, d, o, i).product = BookedProduct(d, o.accountOnly, i)
<1>1. CASE d.asset # None
  BY <1>1 DEF BuildLine, FixedAssetLine, ExpenseLine, BookedProduct
<1>2. CASE d.asset = None /\ ExpenseMode(inv, d)
  BY <1>2 DEF BuildLine, ExpenseLine, BookedProduct
<1>3. CASE d.asset = None /\ ~ExpenseMode(inv, d) /\ inv.lines[i].num \in o.accountOnly
  BY <1>3 DEF BuildLine, ExpenseLine, BookedProduct
<1>4. CASE ~(d.asset # None \/ ExpenseMode(inv, d) \/ inv.lines[i].num \in o.accountOnly)
  BY <1>4 DEF BuildLine, ProductLine, BookedProduct
<1>5. QED
  BY <1>1, <1>2, <1>3, <1>4

\* A line carries what the accepted decision books for line i, but for its price and account.
Carries(l, i) ==
    /\ l.product = BookedProduct(decision.evidence, AccountOnlyLines(decision.choice), i)
    /\ l.qty = inv.lines[i].qty
    /\ l.taxes = TaxIds(decision.evidence, i)

\* The pins do not change what else a line books.
LEMMA DecisionLine ==
    ASSUME NEW resale, NEW internal, NEW p, NEW i \in DOMAIN inv.lines
    PROVE  LET o == Options(decision.evidence, decision.choice, resale, internal, p)
               l == BuildLine(inv, decision.evidence, o, i)
           IN  /\ Carries(l, i) /\ l.price = NetUnitPrice(inv.lines[i], p)
               /\ DOMAIN l = LineFields
<1> DEFINE o == Options(decision.evidence, decision.choice, resale, internal, p)
           l == BuildLine(inv, decision.evidence, o, i)
<1>1. o.accountOnly = AccountOnlyLines(decision.choice) /\ o.precision = p
  BY DEF Options
<1> HIDE DEF o
<1>2. l.product = BookedProduct(decision.evidence, o.accountOnly, i)
  BY BuiltProduct
<1>3. /\ l.qty = inv.lines[i].qty /\ l.price = NetUnitPrice(inv.lines[i], o.precision)
      /\ l.taxes = TaxIds(decision.evidence, i) /\ DOMAIN l = LineFields
  BY BuiltLine
<1> HIDE DEF l
<1>4. Carries(l, i) /\ l.price = NetUnitPrice(inv.lines[i], p) /\ DOMAIN l = LineFields
  BY <1>1, <1>2, <1>3 DEF Carries
<1>5. QED
  BY <1>4 DEF l, o

\* A decision pins the accounts of one purpose.
PinsInv == decision # None => decision.resale = None \/ decision.internal = None

\* The draft has the decided lines, edited at most in the account and in the price of the first, and
\* names the product of every pin; a bill reported as executed is such a draft.
WrittenInv ==
    draft # None \/ outcome = "executed" =>
        /\ decision # None
        /\ DOMAIN draft = DraftFields
        /\ draft.supplier = decision.evidence.partner.id
        /\ DOMAIN draft.lines = DOMAIN inv.lines
        /\ \A i \in DOMAIN inv.lines :
              /\ DOMAIN draft.lines[i] = LineFields
              /\ Carries(draft.lines[i], i)
              /\ i # 1 \/ ~draft.edited => draft.lines[i].price = NetUnitPrice(inv.lines[i], WrittenPrecision(draft))
              /\ \A pins \in {decision.resale, decision.internal} \ {None} :
                    /\ inv.lines[i].num \in DOMAIN pins
                    /\ draft.lines[i].product = pins[inv.lines[i].num].product

\* The preview has the decided lines, priced at the precision it was taken at.
ShownInv ==
    preview # None =>
        /\ decision # None
        /\ preview.supplier = decision.evidence.partner.id
        /\ \A i \in DOMAIN inv.lines :
              /\ Carries(preview.lines[i], i)
              /\ preview.lines[i].price = NetUnitPrice(inv.lines[i], preview.precision)
              /\ decision.resale # None => preview.lines[i].account = decision.resale[inv.lines[i].num].account

ReadInv == readback # None => decision # None /\ ReadbackMissesNothing

DisplayInv == BillInv /\ PinsInv /\ WrittenInv /\ ShownInv /\ ReadInv

LEMMA PreviewedLines ==
    /\ Previewed.supplier = decision.evidence.partner.id /\ Previewed.precision = w.precision[inv.currency]
    /\ DOMAIN Previewed.lines = DOMAIN inv.lines
    /\ \A i \in DOMAIN inv.lines :
          /\ Carries(Previewed.lines[i], i)
          /\ Previewed.lines[i].price = NetUnitPrice(inv.lines[i], w.precision[inv.currency])
          /\ decision.resale # None =>
                Previewed.lines[i].account = decision.resale[inv.lines[i].num].account
<1> DEFINE p     == w.precision[inv.currency]
           bill  == Build(inv, decision.evidence, PlainOptions)
           L(i)  == BuildLine(inv, decision.evidence, PlainOptions, i)
           shown == [i \in DOMAIN bill.lines |->
                      IF decision.resale = None /\ decision.internal = None THEN bill.lines[i]
                      ELSE [bill.lines[i] EXCEPT !.account = PinnedAccount(FullOptions, inv.lines[i].num)]]
<1>1. Previewed.supplier = bill.supplier /\ Previewed.precision = p /\ Previewed.lines = shown
  BY DEF Previewed
<1>2. /\ bill.supplier = decision.evidence.partner.id /\ DOMAIN bill.lines = DOMAIN inv.lines
      /\ \A i \in DOMAIN inv.lines : bill.lines[i] = L(i)
  BY DEF Build
<1>3. \A i \in DOMAIN inv.lines :
         Carries(L(i), i) /\ L(i).price = NetUnitPrice(inv.lines[i], p) /\ DOMAIN L(i) = LineFields
  BY DecisionLine DEF PlainOptions
<1>4. decision.resale # None => \A num : PinnedAccount(FullOptions, num) = decision.resale[num].account
  BY DEF PinnedAccount, FullOptions, Options
<1> HIDE DEF bill, L, p
<1>5. ASSUME NEW i \in DOMAIN inv.lines
      PROVE  /\ Carries(shown[i], i) /\ shown[i].price = NetUnitPrice(inv.lines[i], p)
             /\ decision.resale # None => shown[i].account = decision.resale[inv.lines[i].num].account
  <2>1. CASE decision.resale = None /\ decision.internal = None
    <3>1. shown[i] = L(i)
      BY <1>2, <2>1
    <3>2. QED
      BY <1>3, <2>1, <3>1
  <2>2. CASE ~(decision.resale = None /\ decision.internal = None)
    <3>1. shown[i] = [L(i) EXCEPT !.account = PinnedAccount(FullOptions, inv.lines[i].num)]
      BY <1>2, <2>2
    <3>2. /\ shown[i].product = L(i).product /\ shown[i].qty = L(i).qty /\ shown[i].taxes = L(i).taxes
          /\ shown[i].price = L(i).price
          /\ shown[i].account = PinnedAccount(FullOptions, inv.lines[i].num)
      BY <1>3, <3>1 DEF LineFields
    <3>3. QED
      BY <1>3, <1>4, <3>2 DEF Carries
  <2>3. QED
    BY <2>1, <2>2
<1>6. DOMAIN shown = DOMAIN inv.lines
  BY <1>2
<1> HIDE DEF shown
<1>7. QED
  BY <1>1, <1>2, <1>5, <1>6 DEF p

\* What a create writes is what was decided.
LEMMA CreatedDraft ==
    ASSUME PlaceInv, inv' = inv, decision # None, decision' = decision, Checked, Created
    PROVE  WrittenInv'
<1> DEFINE d == draft'
           L(i) == BuildLine(inv, decision.evidence, FullOptions, i)
<1>1. /\ DOMAIN d = DraftFields /\ d.at = now /\ d.supplier = decision.evidence.partner.id
      /\ DOMAIN d.lines = DOMAIN inv.lines
      /\ \A i \in DOMAIN inv.lines :
            /\ d.lines[i].qty = L(i).qty /\ d.lines[i].price = L(i).price
            /\ d.lines[i].taxes = L(i).taxes /\ d.lines[i].product = L(i).product
            /\ DOMAIN d.lines[i] = LineFields
  BY CreatedLines
<1>2. \A i \in DOMAIN inv.lines : Carries(L(i), i) /\ L(i).price = NetUnitPrice(inv.lines[i], w.precision[inv.currency])
  BY DecisionLine DEF FullOptions
<1>3. ASSUME NEW pins \in {decision.resale, decision.internal} \ {None}, NEW i \in DOMAIN inv.lines
      PROVE  inv.lines[i].num \in DOMAIN pins /\ L(i).product = pins[inv.lines[i].num].product
  <2> DEFINE e == decision.evidence
             o == FullOptions
  <2>1. ~BillInputErrors(inv, e, o)
    BY DEF Checked
  <2>2. o.resale = decision.resale /\ o.internal = decision.internal
    BY DEF FullOptions, Options
  <2>3. e.asset = None
    <3>1. e.asset # None => ~FixedAssetErrors(inv, e, o)
      BY <2>1 DEF BillInputErrors
    <3>2. QED
      BY <2>2, <3>1 DEF FixedAssetErrors
  <2>4. ~LineAccountErrors(inv, e, pins, IF ExpenseMode(inv, e) THEN {} ELSE o.accountOnly)
    <3>1. CASE pins = decision.resale
      BY <2>1, <2>2, <2>3, <3>1 DEF BillInputErrors
    <3>2. CASE pins = decision.internal
      BY <2>1, <2>2, <2>3, <3>2 DEF BillInputErrors
    <3>3. QED
      BY <3>1, <3>2
  <2>5. ~ExpenseMode(inv, e) /\ o.accountOnly = {} /\ DOMAIN pins = NumsOf(inv)
    BY <2>4 DEF LineAccountErrors
  <2>6. inv.lines[i].num \in DOMAIN pins
    BY <2>5 DEF NumsOf
  <2>7. e.product[i].id = pins[inv.lines[i].num].product
    BY <2>4, <2>5, <2>6 DEF LineAccountErrors
  <2>8. L(i).product = e.product[i].id
    BY <2>3, <2>5, BuiltProduct DEF BookedProduct
  <2>9. QED
    BY <2>6, <2>7, <2>8
<1> HIDE DEF L
<1>4. d.at = now => WrittenPrecision(d) = w.precision[inv.currency]
  BY DEF WrittenPrecision, w
<1> HIDE DEF d
<1>5. \A i \in DOMAIN inv.lines :
         /\ DOMAIN d.lines[i] = LineFields /\ Carries(d.lines[i], i)
         /\ d.lines[i].price = NetUnitPrice(inv.lines[i], WrittenPrecision(d))
         /\ \A pins \in {decision.resale, decision.internal} \ {None} :
               inv.lines[i].num \in DOMAIN pins /\ d.lines[i].product = pins[inv.lines[i].num].product
  BY <1>1, <1>2, <1>3, <1>4 DEF Carries
<1>6. QED
  BY <1>1, <1>5 DEF WrittenInv, d, Carries, WrittenPrecision, BookedProduct

\* A person edits the account or the price of the first line, or the rate.
LEMMA EditedDraft ==
    ASSUME WrittenInv, inv' = inv, DraftEdited
    PROVE  WrittenInv'
<1>1. draft # None /\ UNCHANGED <<decision, outcome>>
  BY DEF DraftEdited
<1>2. /\ decision # None /\ DOMAIN draft = DraftFields /\ draft.supplier = decision.evidence.partner.id
      /\ DOMAIN draft.lines = DOMAIN inv.lines
      /\ \A i \in DOMAIN inv.lines :
            /\ DOMAIN draft.lines[i] = LineFields /\ Carries(draft.lines[i], i)
            /\ i # 1 \/ ~draft.edited => draft.lines[i].price = NetUnitPrice(inv.lines[i], WrittenPrecision(draft))
            /\ \A pins \in {decision.resale, decision.internal} \ {None} :
                  inv.lines[i].num \in DOMAIN pins /\ draft.lines[i].product = pins[inv.lines[i].num].product
  BY <1>1 DEF WrittenInv
<1>3. /\ DOMAIN draft' = DraftFields /\ draft'.supplier = draft.supplier /\ draft'.at = draft.at
      /\ DOMAIN draft'.lines = DOMAIN draft.lines
      /\ \A i \in DOMAIN inv.lines :
            /\ DOMAIN draft'.lines[i] = LineFields
            /\ draft'.lines[i].product = draft.lines[i].product /\ draft'.lines[i].qty = draft.lines[i].qty
            /\ draft'.lines[i].taxes = draft.lines[i].taxes
            /\ i # 1 \/ ~draft'.edited => draft'.lines[i].price = draft.lines[i].price
      /\ ~draft'.edited => ~draft.edited
  <2>1. CASE draft' = [draft EXCEPT !.rate = inv.rate]
    <3>1. draft'.lines = draft.lines
      BY <1>2, <2>1 DEF DraftFields
    <3>2. QED
      BY <1>2, <2>1, <3>1 DEF DraftFields
  <2>2. CASE draft' = [draft EXCEPT !.lines[1].price = @ + 1, !.edited = TRUE]
    <3>1. draft'.edited /\ draft'.lines = [draft.lines EXCEPT ![1].price = draft.lines[1].price + 1]
      BY <1>2, <2>2 DEF DraftFields
    <3>2. QED
      BY <1>2, <2>2, <3>1 DEF DraftFields, LineFields
  <2>3. CASE \E a \in Accounts : draft' = [draft EXCEPT !.lines[1].account = a, !.edited = TRUE]
    <3>1. PICK a \in Accounts : draft' = [draft EXCEPT !.lines[1].account = a, !.edited = TRUE]
      BY <2>3
    <3>2. draft'.edited /\ draft'.lines = [draft.lines EXCEPT ![1].account = a]
      BY <1>2, <3>1 DEF DraftFields
    <3>3. QED
      BY <1>2, <3>1, <3>2 DEF DraftFields, LineFields
  <2>4. QED
    BY <2>1, <2>2, <2>3 DEF DraftEdited
<1>4. WrittenPrecision(draft') = WrittenPrecision(draft)
  BY <1>3 DEF WrittenPrecision
<1> DEFINE d == draft'
<1>5. /\ DOMAIN d = DraftFields /\ d.supplier = decision.evidence.partner.id /\ DOMAIN d.lines = DOMAIN inv.lines
      /\ \A i \in DOMAIN inv.lines :
            /\ DOMAIN d.lines[i] = LineFields /\ Carries(d.lines[i], i)
            /\ i # 1 \/ ~d.edited => d.lines[i].price = NetUnitPrice(inv.lines[i], WrittenPrecision(d))
            /\ \A pins \in {decision.resale, decision.internal} \ {None} :
                  inv.lines[i].num \in DOMAIN pins /\ d.lines[i].product = pins[inv.lines[i].num].product
  BY <1>2, <1>3, <1>4 DEF Carries
<1> HIDE DEF d
<1>6. QED
  BY <1>1, <1>2, <1>5 DEF WrittenInv, d, Carries, WrittenPrecision, BookedProduct

\* A comparison as a multiset misses no line when one line alone may differ.
LEMMA OneLineDiffers ==
    ASSUME NEW found, NEW expected, SameLines(found, expected),
           IsFiniteSet(DOMAIN found), DOMAIN expected = DOMAIN found,
           \A i \in DOMAIN found : i # 1 => LineKey(found[i]) = LineKey(expected[i])
    PROVE  \A i \in DOMAIN found : LineKey(found[i]) = LineKey(expected[i])
<1>1. SUFFICES ASSUME 1 \in DOMAIN found, LineKey(found[1]) # LineKey(expected[1]) PROVE FALSE
  OBVIOUS
<1> DEFINE k == LineKey(found[1])
           others == {i \in DOMAIN expected : LineKey(expected[i]) = k}
           mine   == {i \in DOMAIN found : LineKey(found[i]) = k}
<1>2. IsFiniteSet(others) /\ 1 \notin others
  BY <1>1, FS_Subset
<1>3. mine = others \cup {1}
  BY <1>1
<1>4. Cardinality(mine) <= Cardinality(others)
  BY <1>1 DEF SameLines
<1> HIDE DEF others, mine
<1>5. Cardinality(others) \in Nat /\ Cardinality(mine) = Cardinality(others) + 1
  BY <1>2, <1>3, FS_AddElement, FS_CardinalityType
<1>6. QED
  BY <1>4, <1>5

\* get_vendor_bill_readback: a readback without a mismatch saw the decided lines and accounts.
LEMMA ReadDraft == ASSUME DisplayInv, inv' = inv, Readback PROVE ReadInv'
<1> DEFINE p    == w.precision[inv.currency]
           pins0 == IF decision.resale # None THEN decision.resale ELSE decision.internal
<1>1. /\ outcome = "executed" /\ UNCHANGED <<decision, draft>>
      /\ readback'.money = (CanPreview /\ ~MoneyMismatches(inv, Previewed, draft, OdooMoney(draft, p), p))
      /\ readback'.pins = (pins0 = None \/ ~PinMismatches(pins0, draft))
      /\ readback'.draft = draft /\ readback'.precision = p
  BY DEF Readback
<1>2. /\ decision # None /\ DOMAIN draft.lines = DOMAIN inv.lines
      /\ \A i \in DOMAIN inv.lines :
            /\ Carries(draft.lines[i], i)
            /\ i # 1 => draft.lines[i].price = NetUnitPrice(inv.lines[i], WrittenPrecision(draft))
            /\ \A pins \in {decision.resale, decision.internal} \ {None} :
                  inv.lines[i].num \in DOMAIN pins /\ draft.lines[i].product = pins[inv.lines[i].num].product
  BY <1>1 DEF DisplayInv, WrittenInv
<1> HIDE DEF p
<1>3. ASSUME readback'.money, p = WrittenPrecision(draft), NEW i \in DOMAIN inv.lines
      PROVE  LineKey(draft.lines[i]) = LineKey(DecidedLine(i, p))
  <2>1. SameLines(draft.lines, Previewed.lines)
    BY <1>1, <1>3 DEF MoneyMismatches
  <2>2. /\ DOMAIN Previewed.lines = DOMAIN inv.lines
        /\ \A j \in DOMAIN inv.lines :
              Carries(Previewed.lines[j], j) /\ Previewed.lines[j].price = NetUnitPrice(inv.lines[j], p)
    BY PreviewedLines DEF p
  <2>3. \A j \in DOMAIN inv.lines : j # 1 => LineKey(draft.lines[j]) = LineKey(Previewed.lines[j])
    BY <1>2, <1>3, <2>2 DEF LineKey, Carries
  <2>4. IsFiniteSet(DOMAIN draft.lines)
    BY <1>2, InvoiceData DEF DisplayInv, BillInv
  <2>5. LineKey(draft.lines[i]) = LineKey(Previewed.lines[i])
    BY <1>2, <2>1, <2>2, <2>3, <2>4, OneLineDiffers
  <2>6. Carries(DecidedLine(i, p), i) /\ DecidedLine(i, p).price = NetUnitPrice(inv.lines[i], p)
    BY DecisionLine DEF DecidedLine
  <2>7. QED
    BY <2>2, <2>5, <2>6 DEF LineKey, Carries
<1>4. ASSUME readback'.pins, NEW pins \in {decision.resale, decision.internal} \ {None}, NEW i \in DOMAIN inv.lines
      PROVE  draft.lines[i].account = pins[inv.lines[i].num].account
  <2>1. pins0 = pins
    BY <1>2 DEF DisplayInv, PinsInv
  <2>2. ~PinMismatches(pins, draft)
    BY <1>1, <1>4, <2>1
  <2>3. QED
    BY <1>2, <2>2 DEF PinMismatches
<1>5. QED
  BY <1>1, <1>2, <1>3, <1>4 DEF ReadInv, ReadbackMissesNothing, WrittenPrecision, DecidedLine

LEMMA DisplayInitial == ASSUME PathsInit PROVE DisplayInv
<1>1. decision = None /\ draft = None /\ outcome = None /\ preview = None /\ readback = None
  BY DEF PathsInit, PipelineInit
<1>2. outcome # "executed"
  BY <1>1, OutcomeAssumption
<1>3. QED
  BY <1>1, <1>2, BillInitial DEF DisplayInv, PinsInv, WrittenInv, ShownInv, ReadInv

\* The parts that a step leaves alone.
LEMMA SameWritten ==
    ASSUME inv' = inv, UNCHANGED <<decision, draft, outcome>>, WrittenInv PROVE WrittenInv'
BY DEF WrittenInv, Carries, WrittenPrecision, BookedProduct

LEMMA SameShown ==
    ASSUME inv' = inv, UNCHANGED <<decision, preview>>, ShownInv PROVE ShownInv'
BY DEF ShownInv, Carries, BookedProduct

LEMMA SameRead ==
    ASSUME inv' = inv, UNCHANGED <<decision, readback>>, ReadInv PROVE ReadInv'
BY DEF ReadInv, ReadbackMissesNothing, WrittenPrecision, DecidedLine

LEMMA DisplayStep == ASSUME DisplayInv, [PathsNext]_allvars PROVE DisplayInv'
<1>1. inv' = inv /\ BillInv' /\ PlaceInv
  BY SourceFixed, BillStep DEF DisplayInv, BillInv
<1>2. decision' = decision => PinsInv'
  BY DEF DisplayInv, PinsInv
<1>3. CASE UNCHANGED <<decision, draft, outcome, preview, readback>>
  BY <1>1, <1>2, <1>3, SameWritten, SameShown, SameRead DEF DisplayInv
<1>4. CASE Accept
  <2> DEFINE v == review.version
  <2>1. PICK choice \in LineChoices :
          LET d == WithSelectedProducts(review.evidence, choice)
          IN  /\ review.pending
              /\ decision' = [version |-> v + 1, evidence |-> d, choice |-> choice,
                              resale |-> ResalePin(d, v), internal |-> InternalPin(d, v)]
    BY <1>4 DEF Accept
  <2>2. UNCHANGED <<draft, outcome, preview, readback>>
    BY <1>4 DEF Accept
  <2>3. decision = None
    BY <2>1 DEF DisplayInv, BillInv
  <2>4. draft' = None /\ outcome' # "executed" /\ preview' = None /\ readback' = None
    BY <2>2, <2>3 DEF DisplayInv, WrittenInv, ShownInv, ReadInv
  <2>5. decision'.resale = None \/ decision'.internal = None
    BY <2>1 DEF ResalePin, InternalPin
  <2>6. QED
    BY <1>1, <2>4, <2>5 DEF DisplayInv, PinsInv, WrittenInv, ShownInv, ReadInv
<1>5. CASE Preview
  <2>1. decision # None /\ preview' = Previewed /\ UNCHANGED <<decision, draft, outcome, readback>>
    BY <1>5 DEF Preview
  <2>2. ShownInv'
    BY <1>1, <2>1, PreviewedLines DEF ShownInv, Carries, BookedProduct
  <2>3. QED
    BY <1>1, <1>2, <2>1, <2>2, SameWritten, SameRead DEF DisplayInv
<1>6. CASE Execute
  <2>1. /\ decision # None /\ outcome # "executed" /\ UNCHANGED <<decision, preview, readback>>
        /\ \/ draft' = draft /\ (draft # None \/ outcome' # "executed")
           \/ draft = None /\ Checked /\ Created
    BY <1>6, ExecuteCases
  <2>2. CASE draft' = draft /\ (draft # None \/ outcome' # "executed")
    <3>1. draft # None => WrittenInv'
      BY <1>1, <2>1, <2>2 DEF DisplayInv, WrittenInv, Carries, WrittenPrecision, BookedProduct
    <3>2. draft = None => WrittenInv'
      BY <2>2 DEF WrittenInv
    <3>3. QED
      BY <1>1, <1>2, <2>1, <3>1, <3>2, SameShown, SameRead DEF DisplayInv
  <2>3. CASE Checked /\ Created
    BY <1>1, <1>2, <2>1, <2>3, CreatedDraft, SameShown, SameRead DEF DisplayInv
  <2>4. QED
    BY <2>1, <2>2, <2>3
<1>7. CASE Readback
  <2>1. UNCHANGED <<decision, draft, outcome, preview>>
    BY <1>7 DEF Readback
  <2>2. QED
    BY <1>1, <1>2, <1>7, <2>1, ReadDraft, SameWritten, SameShown DEF DisplayInv
<1>8. CASE DraftEdited
  <2>1. UNCHANGED <<decision, preview, readback>>
    BY <1>8 DEF DraftEdited
  <2>2. QED
    BY <1>1, <1>2, <1>8, <2>1, EditedDraft, SameShown, SameRead DEF DisplayInv
<1>9. CASE Reclassify \/ SupplierRemediated \/ SubmitPurpose \/ SubmitResolution \/ MasterDataChanges
  BY <1>3, <1>9 DEF Reclassify, SupplierRemediated, SubmitPurpose, SubmitResolution, MasterDataChanges
<1>10. CASE EditRules \/ UNCHANGED vars
  BY <1>3, <1>10 DEF EditRules, vars
<1>11. QED
  BY <1>4, <1>5, <1>6, <1>7, <1>8, <1>9, <1>10 DEF PathsNext, PipelineNext, RulesNext, allvars

\* The preview and the draft have the same decided lines, priced at the precision of their time.
LEMMA PreviewKept == ASSUME DisplayInv PROVE PreviewIsWhatIsWritten
<1>1. SUFFICES ASSUME preview # None, draft # None, ~draft.edited, NEW i \in DOMAIN draft.lines
               PROVE  LET shown == preview.lines[i]
                          line  == draft.lines[i]
                      IN  /\ shown.product = line.product /\ shown.qty = line.qty /\ shown.taxes = line.taxes
                          /\ preview.precision = WrittenPrecision(draft) => shown.price = line.price
                          /\ decision.resale # None => shown.account = line.account
  <2>1. preview # None /\ draft # None => preview.supplier = draft.supplier
    BY DEF DisplayInv, WrittenInv, ShownInv
  <2>2. QED
    BY <2>1 DEF PreviewIsWhatIsWritten
<1>2. /\ i \in DOMAIN inv.lines /\ Carries(draft.lines[i], i)
      /\ draft.lines[i].price = NetUnitPrice(inv.lines[i], WrittenPrecision(draft))
  BY <1>1 DEF DisplayInv, WrittenInv
<1>3. /\ Carries(preview.lines[i], i)
      /\ preview.lines[i].price = NetUnitPrice(inv.lines[i], preview.precision)
      /\ decision.resale # None => preview.lines[i].account = decision.resale[inv.lines[i].num].account
  BY <1>1, <1>2 DEF DisplayInv, ShownInv
<1>4. decision.resale # None => draft.lines[i].account = decision.resale[inv.lines[i].num].account
  BY <1>1, <1>2 DEF DisplayInv, BillInv, BilledAsInvoiced, ResaleKeepsItsAccounts
<1>5. QED
  BY <1>2, <1>3, <1>4 DEF Carries

\* Whatever Odoo's users change between the steps: what the operator was shown before the write is
\* what is written, supplier, products, quantities, taxes, resale accounts and, while the currency
\* keeps its precision, prices (vendor_bill_preview.py); and a readback that reports no mismatch saw
\* the lines and the accounts that were decided, although it compares lines as a multiset
\* (vendor_bill_readback.py).
THEOREM ShownTruth == PathsSpec => []ShownIsWhatIsWritten
<1>1. PathsInit => DisplayInv
  BY DisplayInitial
<1>2. DisplayInv /\ [PathsNext]_allvars => DisplayInv'
  BY DisplayStep
<1>3. DisplayInv => ShownIsWhatIsWritten
  <2>1. ASSUME DisplayInv PROVE ReadbackMissesNothing
    <3>1. readback = None => ReadbackMissesNothing
      BY DEF ReadbackMissesNothing
    <3>2. QED
      BY <2>1, <3>1 DEF DisplayInv, ReadInv
  <2>2. QED
    BY <2>1, PreviewKept DEF ShownIsWhatIsWritten
<1>4. QED
  BY <1>1, <1>2, <1>3, PTL DEF PathsSpec, allvars

-----------------------------------------------------------------------------
(* What the engine suggests.                                                *)

\* Candidates that can be compared.
Comparables(all) ==
    IsFiniteSet(all) /\ \A c \in all : c.tier \in Int /\ c.score \in Int /\ c.product \in Int

\* Among the best candidates of their products, one is always ahead of the other.
LEMMA AheadIsAnOrder ==
    ASSUME NEW all, Comparables(all)
    PROVE  /\ IsFiniteSet(Best(all)) /\ Best(all) \subseteq all
           /\ \A b \in Best(all) : ~Ahead(b, b)
           /\ \A b, c \in Best(all) : b # c => Ahead(b, c) \/ Ahead(c, b)
           /\ \A b, c, d \in Best(all) : Ahead(b, c) /\ Ahead(c, d) => Ahead(b, d)
<1> DEFINE B == Best(all)
<1>1. IsFiniteSet(B) /\ B \subseteq all
  <2>1. B \in SUBSET all
    BY DEF Best
  <2>2. QED
    BY <2>1, FS_Subset DEF Comparables
<1>2. \A c \in B : c.tier \in Int /\ c.score \in Int /\ c.product \in Int
  BY <1>1 DEF Comparables
<1>3. \A b, c \in B : b # c => b.product # c.product
  <2>1. SUFFICES ASSUME NEW b \in B, NEW c \in B, b # c, b.product = c.product PROVE FALSE
    OBVIOUS
  <2>2. Better(b, c) /\ Better(c, b)
    BY <2>1 DEF Best
  <2>3. QED
    BY <1>2, <2>2 DEF Better
<1> HIDE DEF B
<1>4. \A b \in B : ~Ahead(b, b)
  BY <1>2 DEF Ahead, Better
<1>5. \A b, c \in B : b # c => Ahead(b, c) \/ Ahead(c, b)
  BY <1>2, <1>3 DEF Ahead, Better
<1>6. \A b, c, d \in B : Ahead(b, c) /\ Ahead(c, d) => Ahead(b, d)
  BY <1>2 DEF Ahead, Better
<1>7. QED
  BY <1>1, <1>4, <1>5, <1>6 DEF B

\* Those of B that are ahead of b.
AheadOf(B, b) == {d \in B : Ahead(d, b)}

\* In any part of them one has the fewest ahead of it, and then it has none of that part.
LEMMA FrontRunner ==
    ASSUME NEW all, Comparables(all), NEW S \in SUBSET Best(all), S # {}
    PROVE  \E b \in S : AheadOf(Best(all), b) \cap S = {}
<1> DEFINE B == Best(all)
           n(b) == Cardinality(AheadOf(B, b))
           N == {n(b) : b \in S}
<1>1. /\ IsFiniteSet(B) /\ \A b \in B : ~Ahead(b, b)
      /\ \A b, c, d \in B : Ahead(b, c) /\ Ahead(c, d) => Ahead(b, d)
  BY AheadIsAnOrder
<1>2. \A b \in B : IsFiniteSet(AheadOf(B, b)) /\ n(b) \in Nat
  <2>1. SUFFICES ASSUME NEW b \in B PROVE IsFiniteSet(AheadOf(B, b)) /\ n(b) \in Nat
    OBVIOUS
  <2>2. AheadOf(B, b) \in SUBSET B
    BY DEF AheadOf
  <2>3. QED
    BY <1>1, <2>2, FS_Subset, FS_CardinalityType
<1>3. N \in SUBSET Nat /\ N # {}
  BY <1>2
<1>4. PICK m \in N : \A k \in N : m <= k
  BY <1>3, LeastNat
<1>5. PICK b \in S : n(b) = m
  BY <1>4
<1>6. ASSUME NEW c \in AheadOf(B, b) \cap S PROVE FALSE
  <2>1. b \in B /\ c \in B /\ Ahead(c, b)
    BY <1>6 DEF AheadOf
  <2>2. AheadOf(B, c) \in SUBSET AheadOf(B, b) /\ c \in AheadOf(B, b) /\ c \notin AheadOf(B, c)
    BY <1>1, <2>1 DEF AheadOf
  <2>3. /\ Cardinality(AheadOf(B, c)) <= Cardinality(AheadOf(B, b))
        /\ Cardinality(AheadOf(B, b)) = Cardinality(AheadOf(B, c)) => AheadOf(B, b) = AheadOf(B, c)
    BY <1>2, <2>1, <2>2, FS_Subset
  <2>4. n(c) < n(b)
    BY <1>2, <2>1, <2>2, <2>3
  <2>5. m <= n(c)
    BY <1>4, <1>6
  <2>6. QED
    BY <1>2, <1>5, <2>1, <2>4, <2>5
<1>7. QED
  BY <1>6

\* The first is ahead of every other, and the second of every other but the first.
LEMMA FirstAndSecond ==
    ASSUME NEW all, Comparables(all)
    PROVE  /\ Best(all) # {} =>
                 /\ Ordered(all)[1] \in Best(all)
                 /\ \A c \in Best(all) : c # Ordered(all)[1] => Ahead(Ordered(all)[1], c)
           /\ \A c \in Best(all) : c # Ordered(all)[1] =>
                 /\ Cardinality(Best(all)) >= 2
                 /\ Ordered(all)[2] \in Best(all) /\ Ordered(all)[2] # Ordered(all)[1]
                 /\ c = Ordered(all)[2] \/ Ahead(Ordered(all)[2], c)
<1> DEFINE B == Best(all)
           seq == Ordered(all)
           N == Cardinality(B)
<1>1. /\ IsFiniteSet(B) /\ (\A b \in B : ~Ahead(b, b))
      /\ \A b, c \in B : b # c => Ahead(b, c) \/ Ahead(c, b)
  BY AheadIsAnOrder
<1>2. \A b \in B : IsFiniteSet(AheadOf(B, b)) /\ Cardinality(AheadOf(B, b)) \in Nat
  <2>1. SUFFICES ASSUME NEW b \in B PROVE IsFiniteSet(AheadOf(B, b)) /\ Cardinality(AheadOf(B, b)) \in Nat
    OBVIOUS
  <2>2. AheadOf(B, b) \in SUBSET B
    BY DEF AheadOf
  <2>3. QED
    BY <1>1, <2>2, FS_Subset, FS_CardinalityType
<1>3. N \in Nat
  BY <1>1, FS_CardinalityType
<1>4. \A i \in 1 .. N : seq[i] = CHOOSE c \in B : Cardinality(AheadOf(B, c)) = i - 1
  BY DEF Ordered, AheadOf
<1> HIDE DEF seq
<1>5. ASSUME B # {} PROVE N >= 1 /\ seq[1] \in B /\ \A c \in B : c # seq[1] => Ahead(seq[1], c)
  <2>1. N >= 1
    BY <1>1, <1>3, <1>5, FS_EmptySet
  <2>2. PICK b \in B : AheadOf(B, b) \cap B = {}
    BY <1>5, FrontRunner
  <2>3. AheadOf(B, b) = {}
    BY <2>2 DEF AheadOf
  <2>4. Cardinality(AheadOf(B, b)) = 1 - 1
    BY <2>3, FS_EmptySet
  <2>5. seq[1] \in B /\ Cardinality(AheadOf(B, seq[1])) = 1 - 1
    BY <1>3, <1>4, <2>1, <2>4
  <2>6. AheadOf(B, seq[1]) = {}
    BY <1>2, <2>5, FS_EmptySet
  <2>7. QED
    BY <1>1, <2>1, <2>5, <2>6 DEF AheadOf
<1>6. ASSUME NEW c \in B, c # seq[1]
      PROVE  N >= 2 /\ seq[2] \in B /\ seq[2] # seq[1] /\ (c = seq[2] \/ Ahead(seq[2], c))
  <2>1. seq[1] \in B /\ (\A d \in B : d # seq[1] => Ahead(seq[1], d)) /\ AheadOf(B, seq[1]) = {}
    <3>1. seq[1] \in B /\ \A d \in B : d # seq[1] => Ahead(seq[1], d)
      BY <1>5
    <3>2. PICK b \in B : AheadOf(B, b) \cap B = {}
      BY FrontRunner
    <3>3. b = seq[1]
      BY <3>1, <3>2 DEF AheadOf
    <3>4. QED
      BY <3>1, <3>2, <3>3 DEF AheadOf
  <2> DEFINE rest == B \ {seq[1]}
  <2>2. N >= 2
    <3>1. IsFiniteSet(rest) /\ Cardinality(rest) = N - 1
      BY <1>1, <2>1, FS_RemoveElement
    <3>2. Cardinality(rest) # 0 /\ Cardinality(rest) \in Nat
      <4>1. rest # {}
        BY <1>6
      <4>2. QED
        BY <3>1, <4>1, FS_EmptySet, FS_CardinalityType
    <3>3. QED
      BY <1>3, <3>1, <3>2
  <2>3. PICK b \in rest : AheadOf(B, b) \cap rest = {}
    <3>1. rest \in SUBSET B /\ rest # {}
      BY <1>6
    <3> HIDE DEF rest
    <3>2. QED
      BY <3>1, FrontRunner
  <2>4. AheadOf(B, b) = {seq[1]}
    BY <2>1, <2>3 DEF AheadOf
  <2>5. Cardinality(AheadOf(B, b)) = 2 - 1
    BY <2>4, FS_Singleton
  <2>6. seq[2] \in B /\ Cardinality(AheadOf(B, seq[2])) = 2 - 1
    <3>1. 2 \in 1 .. N /\ b \in B
      BY <1>3, <2>2
    <3>2. QED
      BY <1>4, <2>5, <3>1
  <2>7. PICK x : AheadOf(B, seq[2]) = {x}
    <3>1. IsFiniteSet(AheadOf(B, seq[2])) /\ Cardinality(AheadOf(B, seq[2])) = 1
      BY <1>2, <2>6
    <3>2. QED
      BY <3>1, FS_Singleton
  <2>8. seq[2] # seq[1]
    BY <2>1, <2>7
  <2>9. AheadOf(B, seq[2]) = {seq[1]}
    BY <2>1, <2>6, <2>7, <2>8 DEF AheadOf
  <2>10. c = seq[2] \/ Ahead(seq[2], c)
    BY <1>1, <1>6, <2>6, <2>9 DEF AheadOf
  <2>11. QED
    BY <2>2, <2>6, <2>8, <2>10
<1>7. QED
  BY <1>5, <1>6 DEF seq

\* the rank of a position, once that of the one before it is known
RankStep(seq, rank, i) == IF i > 1 /\ Tied(seq, rank[i - 1], i) THEN rank[i - 1] ELSE i

\* Ranks exist: each is known when the one before it is.
LEMMA RanksExist ==
    ASSUME NEW seq, NEW n \in Nat
    PROVE  \E rank : rank = [i \in 1 .. n |-> RankStep(seq, rank, i)]
<1> DEFINE Defined(m) == \E g : g = [i \in 1 .. m |-> RankStep(seq, g, i)]
<1>1. Defined(0)
  <2> DEFINE g == [i \in 1 .. 0 |-> 0]
  <2>1. g = [i \in 1 .. 0 |-> RankStep(seq, g, i)]
    OBVIOUS
  <2>2. QED
    BY <2>1
<1>2. ASSUME NEW m \in Nat, Defined(m) PROVE Defined(m + 1)
  <2>1. PICK g : g = [i \in 1 .. m |-> RankStep(seq, g, i)]
    BY <1>2
  <2> DEFINE h == [i \in 1 .. m + 1 |-> RankStep(seq, g, i)]
  <2>2. \A i \in 1 .. m : i \in 1 .. m + 1 /\ h[i] = g[i]
    <3>1. ASSUME NEW i \in 1 .. m PROVE g[i] = RankStep(seq, g, i)
      BY <2>1
    <3>2. QED
      BY <3>1
  <2>3. ASSUME NEW i \in 1 .. m + 1 PROVE RankStep(seq, g, i) = RankStep(seq, h, i)
    <3>1. CASE i = 1
      BY <3>1 DEF RankStep
    <3>2. CASE i # 1
      <4>1. i - 1 \in 1 .. m
        BY <3>2
      <4>2. h[i - 1] = g[i - 1]
        BY <2>2, <4>1
      <4> HIDE DEF h
      <4>3. QED
        BY <4>2 DEF RankStep
    <3>3. QED
      BY <3>1, <3>2
  <2>4. h = [i \in 1 .. m + 1 |-> RankStep(seq, h, i)]
    <3>1. ASSUME NEW f, NEW k, NEW U, f = [i \in U |-> RankStep(seq, k, i)],
                 \A i \in U : RankStep(seq, k, i) = RankStep(seq, f, i)
          PROVE  f = [i \in U |-> RankStep(seq, f, i)]
      BY <3>1
    <3>2. h = [i \in 1 .. m + 1 |-> RankStep(seq, g, i)]
      OBVIOUS
    <3> HIDE DEF h
    <3>3. QED
      BY <2>3, <3>1, <3>2
  <2>5. QED
    BY <2>4
<1>3. \A m \in Nat : Defined(m)
  <2> HIDE DEF Defined
  <2> DEFINE Bad == {m \in Nat : ~Defined(m)}
  <2>1. SUFFICES ASSUME Bad # {} PROVE FALSE
    OBVIOUS
  <2>2. PICK m \in Bad : \A k \in Bad : m <= k
    BY <2>1, LeastNat
  <2>3. m # 0 /\ m \in Nat
    BY <1>1, <2>2
  <2>4. m - 1 \in Nat /\ m - 1 \notin Bad
    BY <2>2, <2>3
  <2>5. Defined((m - 1) + 1)
    BY <1>2, <2>4
  <2>6. QED
    BY <2>2, <2>3, <2>5
<1>4. QED
  BY <1>3

\* A second that ties with the first has its rank.
LEMMA RanksOfTwo ==
    ASSUME NEW seq, Len(seq) \in Nat, Len(seq) >= 2, Tied(seq, 1, 2)
    PROVE  DOMAIN Ranks(seq) = 1 .. Len(seq) /\ Ranks(seq)[1] = 1 /\ Ranks(seq)[2] = 1
<1> DEFINE rank == CHOOSE f : f = [i \in 1 .. Len(seq) |-> IF i > 1 /\ Tied(seq, f[i - 1], i) THEN f[i - 1] ELSE i]
<1>1. Ranks(seq) = [i \in 1 .. Len(seq) |-> rank[i]]
  BY DEF Ranks
<1>2. \E f : f = [i \in 1 .. Len(seq) |-> IF i > 1 /\ Tied(seq, f[i - 1], i) THEN f[i - 1] ELSE i]
  <2>1. \E f : f = [i \in 1 .. Len(seq) |-> RankStep(seq, f, i)]
    BY RanksExist
  <2>2. QED
    BY <2>1 DEF RankStep
<1>3. rank = [i \in 1 .. Len(seq) |-> IF i > 1 /\ Tied(seq, rank[i - 1], i) THEN rank[i - 1] ELSE i]
  BY <1>2
<1> HIDE DEF rank
<1>4. 1 \in 1 .. Len(seq) /\ 2 \in 1 .. Len(seq)
  OBVIOUS
<1>5. rank[1] = 1
  BY <1>3, <1>4
<1>6. rank[2] = IF 2 > 1 /\ Tied(seq, rank[2 - 1], 2) THEN rank[2 - 1] ELSE 2
  BY <1>3, <1>4
<1>7. rank[2] = 1
  BY <1>5, <1>6
<1>8. QED
  BY <1>1, <1>4, <1>5, <1>7

LEMMA OrderedIsSeq ==
    ASSUME NEW all, Comparables(all)
    PROVE  Len(Ordered(all)) = Cardinality(Best(all)) /\ Cardinality(Best(all)) \in Nat
<1> DEFINE n == Cardinality(Best(all))
           e(i) == CHOOSE c \in Best(all) : Cardinality({d \in Best(all) : Ahead(d, c)}) = i - 1
           S == {e(i) : i \in 1 .. n}
<1>1. n \in Nat
  BY AheadIsAnOrder, FS_CardinalityType
<1>2. Ordered(all) = [i \in 1 .. n |-> e(i)]
  BY DEF Ordered
<1>3. \A i \in 1 .. n : e(i) \in S
  OBVIOUS
<1> HIDE DEF n, e, S
<1>4. Ordered(all) \in Seq(S)
  <2>1. [i \in 1 .. n |-> e(i)] \in Seq(S)
    BY <1>1, <1>3, IsASeq
  <2>2. QED
    BY <1>2, <2>1
<1>5. DOMAIN Ordered(all) = 1 .. Len(Ordered(all)) /\ Len(Ordered(all)) \in Nat
  BY <1>4, LenProperties
<1>6. DOMAIN Ordered(all) = 1 .. n
  BY <1>2
<1>7. Len(Ordered(all)) = n
  <2> DEFINE m == Len(Ordered(all))
  <2>1. 1 .. m = 1 .. n /\ m \in Nat
    BY <1>5, <1>6
  <2> HIDE DEF m
  <2>2. ~(m < n)
    <3>1. m < n => n \in 1 .. n /\ n \notin 1 .. m
      BY <1>1, <2>1
    <3>2. QED
      BY <2>1, <3>1
  <2>3. ~(n < m)
    <3>1. n < m => m \in 1 .. m /\ m \notin 1 .. n
      BY <1>1, <2>1
    <3>2. QED
      BY <2>1, <3>1
  <2>4. QED
    BY <1>1, <2>1, <2>2, <2>3 DEF m
<1>8. QED
  BY <1>1, <1>7 DEF n

\* What is not flagged as ambiguous is clearly the best.
LEMMA ClearTop ==
    ASSUME NEW all, Comparables(all), Rank(all).suggestions # <<>>, ~Rank(all).ambiguous
    PROVE  LET top == Rank(all).suggestions[1]
           IN  \A c \in Best(all) : c.product = top.product \/ c.tier > top.tier \/ top.score - c.score > TieMargin
<1> DEFINE seq == Ordered(all)
           B == Best(all)
           ranks == Ranks(seq)
           shown == Min({Len(seq), MaxSuggestions})
           top == Rank(all).suggestions[1]
<1>1. Len(seq) = Cardinality(B) /\ Len(seq) \in Nat /\ IsFiniteSet(B)
  BY OrderedIsSeq, AheadIsAnOrder
<1>2. /\ Rank(all).suggestions = [i \in 1 .. shown |->
             [product |-> seq[i].product, tier |-> seq[i].tier, score |-> seq[i].score, rank |-> ranks[i]]]
      /\ Rank(all).ambiguous <=> Cardinality({i \in DOMAIN ranks : ranks[i] = 1}) > 1
  BY DEF Rank
<1>3. shown \in Nat /\ shown <= Len(seq)
  BY <1>1, MinOfTwo, PolicyAssumption
<1> HIDE DEF seq, B, ranks, shown
<1>4. shown >= 1
  <2>1. shown # 0
    BY <1>2
  <2>2. QED
    BY <1>3, <2>1
<1>5. top.product = seq[1].product /\ top.tier = seq[1].tier /\ top.score = seq[1].score
  BY <1>2, <1>3, <1>4
<1> HIDE DEF top
<1>6. B # {}
  BY <1>1, <1>3, <1>4, FS_EmptySet
<1>7. \A c \in B : c.tier \in Int /\ c.score \in Int
  BY AheadIsAnOrder DEF Comparables, B
<1>8. seq[1] \in B
  BY <1>6, FirstAndSecond DEF seq, B
<1>9. SUFFICES ASSUME NEW c \in B, c # seq[1] PROVE c.tier > seq[1].tier \/ seq[1].score - c.score > TieMargin
  BY <1>5 DEF B, top
<1>10. /\ Len(seq) >= 2 /\ seq[2] \in B /\ seq[2] # seq[1]
       /\ c = seq[2] \/ Ahead(seq[2], c)
  BY <1>1, <1>9, FirstAndSecond DEF seq, B
<1>11. Ahead(seq[1], seq[2])
  BY <1>6, <1>10, FirstAndSecond DEF seq, B
<1>12. ~Tied(seq, 1, 2)
  <2>1. SUFFICES ASSUME Tied(seq, 1, 2) PROVE FALSE
    OBVIOUS
  <2>2. DOMAIN ranks = 1 .. Len(seq) /\ ranks[1] = 1 /\ ranks[2] = 1
    BY <1>1, <1>10, <2>1, RanksOfTwo DEF ranks
  <2> DEFINE leaders == {i \in DOMAIN ranks : ranks[i] = 1}
  <2>3. leaders \in SUBSET (1 .. Len(seq)) /\ {1, 2} \in SUBSET leaders
    BY <1>1, <1>10, <2>2
  <2> HIDE DEF leaders
  <2>4. IsFiniteSet(leaders) /\ Cardinality(leaders) \in Nat
    <3>1. 1 \in Int /\ Len(seq) \in Int
      BY <1>1
    <3>2. IsFiniteSet(1 .. Len(seq))
      BY <3>1, FS_Interval
    <3>3. IsFiniteSet(leaders)
      BY <2>3, <3>2, FS_Subset
    <3>4. QED
      BY <3>3, FS_CardinalityType
  <2>5. Cardinality({1, 2}) = 2
    <3>1. ASSUME NEW b \in Int, b = 2 PROVE Cardinality({1, b}) = 2
      <4>1. 1 \in Int /\ ~(1 > b) /\ b - 1 + 1 = 2
        BY <3>1
      <4>2. Cardinality(1 .. b) = IF 1 > b THEN 0 ELSE b - 1 + 1
        BY FS_Interval, <4>1
      <4>3. 1 .. b = {1, b}
        BY <3>1
      <4>4. QED
        BY <4>1, <4>2, <4>3
    <3>2. QED
      BY <3>1
  <2>6. Cardinality({1, 2}) <= Cardinality(leaders)
    BY <2>3, <2>4, FS_Subset
  <2>7. QED
    BY <1>2, <2>4, <2>5, <2>6 DEF leaders
<1>13. QED
  BY <1>7, <1>8, <1>10, <1>11, <1>12, PolicyAssumption DEF Tied, Ahead, Better

-----------------------------------------------------------------------------

LEMMA FiniteImage ==
    ASSUME NEW S, IsFiniteSet(S), NEW f, f = [x \in S |-> f[x]]
    PROVE  IsFiniteSet({f[x] : x \in S})
<1>1. f \in Surjection(S, {f[x] : x \in S})
  BY DEF Surjection
<1>2. QED
  BY <1>1, FS_Surjection

LEMMA ScoreIsInteger ==
    ASSUME NEW text, NEW name, IsText(text), IsText(name), Ratio(text, name) \in Int,
           text.meaningful \cap name.meaningful # {}
    PROVE  Score(text, name) \in Int
<1> DEFINE all == Cardinality(text.words \cup name.words)
           both == Cardinality(text.words \cap name.words)
           parts == 6000 * both + 40 * Ratio(text, name) * all
<1>1. IsFiniteSet(text.words) /\ IsFiniteSet(name.words) /\ text.words \cup name.words # {}
  BY DEF IsText
<1>2. IsFiniteSet(text.words \cup name.words) /\ IsFiniteSet(text.words \cap name.words)
  <2>1. text.words \cap name.words \in SUBSET text.words
    OBVIOUS
  <2>2. QED
    BY <1>1, <2>1, FS_Union, FS_Subset
<1>3. all \in Nat /\ both \in Nat /\ all # 0
  BY <1>1, <1>2, FS_CardinalityType, FS_EmptySet
<1> DEFINE ratio == Ratio(text, name)
<1>4. ratio \in Int
  OBVIOUS
<1>5. Score(text, name) = (2 * (6000 * both + 40 * ratio * all) + 100 * all) \div (200 * all)
  BY DEF Score
<1> HIDE DEF all, both, ratio
<1>6. ratio * all \in Int
  BY <1>3, <1>4
<1>7. 40 * ratio * all \in Int /\ 200 * all \in Int /\ 200 * all > 0
  BY <1>3, <1>4, <1>6
<1>8. 2 * (6000 * both + 40 * ratio * all) + 100 * all \in Int
  BY <1>3, <1>7
<1>9. QED
  BY <1>5, <1>7, <1>8

\* The candidates of a line can be compared.
LEMMA CandidatesCompare ==
    ASSUME NEW c \in DOMAIN Catalogs, NEW l \in LineSet, NEW priors
    PROVE  Comparables(Candidates(Catalogs[c], Facts[l], Supplier, priors))
<1> DEFINE cat == Catalogs[c]
           line == Facts[l]
           exact == {q \in Eligible(cat) : \E code \in Identifiers(line) : SameKey(code, q.code)}
           known == {q \in Eligible(cat) :
                       /\ ~IdentifierConflict(line, q) /\ ~Conflicts(line.text, q.name)
                       /\ \E prior \in priors : /\ prior.supplier = Supplier /\ prior.product = q.id
                                                /\ SameLine(line, prior)}
           named == {q \in Comparable(cat, line, Supplier) \ Rejected(cat, line, Supplier) :
                       Score(line.text, q.name) >= Threshold}
           score(p) == Score(line.text, p.name)
<1>1. IsFiniteSet(Eligible(cat)) /\ \A p \in Eligible(cat) : p.id \in Int /\ IsText(p.name) /\ p \in cat.products
  <2>1. Eligible(cat) \in SUBSET cat.products
    BY DEF Eligible
  <2>2. QED
    BY <2>1, CatalogAssumption, FS_Subset
<1>2. PICK i \in DOMAIN Lines : l = Lines[i]
  BY DEF LineSet, ToSet
<1>3. line.text # None => IsText(line.text) /\ \A p \in cat.products : Ratio(line.text, p.name) \in Int
  BY <1>2, LineAssumption
<1>4. exact \in SUBSET Eligible(cat) /\ known \in SUBSET Eligible(cat) /\ named \in SUBSET Eligible(cat)
  BY DEF Comparable
<1>5. \A p \in named : score(p) \in Int
  <2>1. SUFFICES ASSUME NEW p \in named PROVE score(p) \in Int
    OBVIOUS
  <2>2. line.text # None /\ line.text.meaningful \cap p.name.meaningful # {}
    BY DEF Comparable
  <2>3. QED
    BY <1>1, <1>3, <1>4, <2>2, ScoreIsInteger
<1>6. /\ ExactIdentifiers(cat, line) = {Candidate(p, 1, 100) : p \in exact}
      /\ PriorMappings(cat, line, Supplier, priors) = {Candidate(p, 2, 90) : p \in known}
      /\ NameSimilarity(cat, line, Supplier) = {Candidate(p, 3, score(p)) : p \in named}
  BY DEF ExactIdentifiers, PriorMappings, NameSimilarity
<1> HIDE DEF cat, line, exact, known, named, score
<1>7. \A S \in SUBSET Eligible(cat) : IsFiniteSet(S)
  BY <1>1, FS_Subset
<1>8. ASSUME NEW S \in SUBSET Eligible(cat), NEW f, f = [p \in S |-> f[p]],
             \A p \in S : f[p].tier \in Int /\ f[p].score \in Int /\ f[p].product \in Int
      PROVE  Comparables({f[p] : p \in S})
  <2>1. IsFiniteSet({f[p] : p \in S})
    BY <1>7, <1>8, FiniteImage
  <2>2. QED
    BY <1>8, <2>1 DEF Comparables
<1>9. Comparables({Candidate(p, 1, 100) : p \in exact})
  <2> DEFINE f == [p \in exact |-> Candidate(p, 1, 100)]
  <2>1. \A p \in exact : f[p].tier \in Int /\ f[p].score \in Int /\ f[p].product \in Int
    BY <1>1, <1>4 DEF Candidate
  <2>2. f = [p \in exact |-> f[p]] /\ {Candidate(p, 1, 100) : p \in exact} = {f[p] : p \in exact}
    OBVIOUS
  <2> HIDE DEF f
  <2>3. QED
    BY <1>4, <1>8, <2>1, <2>2
<1>10. Comparables({Candidate(p, 2, 90) : p \in known})
  <2> DEFINE f == [p \in known |-> Candidate(p, 2, 90)]
  <2>1. \A p \in known : f[p].tier \in Int /\ f[p].score \in Int /\ f[p].product \in Int
    BY <1>1, <1>4 DEF Candidate
  <2>2. f = [p \in known |-> f[p]] /\ {Candidate(p, 2, 90) : p \in known} = {f[p] : p \in known}
    OBVIOUS
  <2> HIDE DEF f
  <2>3. QED
    BY <1>4, <1>8, <2>1, <2>2
<1>11. Comparables({Candidate(p, 3, score(p)) : p \in named})
  <2> DEFINE f == [p \in named |-> Candidate(p, 3, score(p))]
  <2>1. \A p \in named : f[p].tier \in Int /\ f[p].score \in Int /\ f[p].product \in Int
    BY <1>1, <1>4, <1>5 DEF Candidate
  <2>2. f = [p \in named |-> f[p]] /\ {Candidate(p, 3, score(p)) : p \in named} = {f[p] : p \in named}
    OBVIOUS
  <2> HIDE DEF f
  <2>3. QED
    BY <1>4, <1>8, <2>1, <2>2
<1>12. ASSUME NEW S, NEW T, Comparables(S), Comparables(T) PROVE Comparables(S \cup T)
  BY <1>12, FS_Union DEF Comparables
<1>13. QED
  BY <1>6, <1>9, <1>10, <1>11, <1>12 DEF Candidates, cat, line

\* The one product of the price list row the line's code has by now is what the matcher finds.
LEMMA StaleIsFound ==
    ASSUME NEW cat, IsFiniteSet(cat.supplierinfo), NEW line,
           StaleSupplierinfo(cat, line, Supplier) # {}
    PROVE  StaleSupplierinfo(cat, line, Supplier) \subseteq SupplierProductOutcome(cat, line, Supplier).ids
<1> DEFINE rows == SupplierInfos(cat, Supplier, line.seller)
           found == UNION {SingleVariant(cat, one) : one \in rows}
<1>1. /\ line.seller # None /\ Supplier # None
      /\ StaleRows(cat, line, Supplier) = rows /\ Cardinality(rows) = 1
      /\ StaleSupplierinfo(cat, line, Supplier) = {p.id : p \in found}
  <2>1. Cardinality(StaleRows(cat, line, Supplier)) = 1
    BY DEF StaleSupplierinfo
  <2>2. StaleRows(cat, line, Supplier) # {}
    BY <2>1, FS_EmptySet
  <2>3. line.seller # None /\ Supplier # None /\ StaleRows(cat, line, Supplier) = rows
    BY <2>2 DEF StaleRows
  <2>4. QED
    BY <2>1, <2>3 DEF StaleSupplierinfo
<1>2. PICK one : rows = {one}
  <2>1. rows \in SUBSET cat.supplierinfo
    BY DEF SupplierInfos
  <2> HIDE DEF rows
  <2>2. IsFiniteSet(rows)
    BY <2>1, FS_Subset
  <2>3. QED
    BY <1>1, <2>2, FS_Singleton
<1> HIDE DEF rows
<1>3. SupplierProductOutcome(cat, line, Supplier).ids = TemplateVariants(cat, one)
  <2>1. (CHOOSE s \in rows : TRUE) = one
    BY <1>2
  <2>2. QED
    BY <1>1, <2>1 DEF SupplierProductOutcome, Outcome, rows
<1>4. found = SingleVariant(cat, one)
  BY <1>2
<1>5. \A p \in SingleVariant(cat, one) : p.id \in TemplateVariants(cat, one)
  BY DEF SingleVariant, Eligible, TemplateVariants
<1> HIDE DEF found
<1>6. QED
  BY <1>1, <1>3, <1>4, <1>5

\* A recommended reclassification, and what is not flagged, are what they look like.
LEMMA SuggestionsAreTrue ==
    ASSUME NEW c \in DOMAIN Catalogs, NEW l \in LineSet, NEW priors,
           NEW result, result = SuggestProducts(Catalogs[c], Facts[l], Supplier, priors)
    PROVE  /\ result.reclassify =>
                 result.suggestions[1].product \in SupplierProductOutcome(Catalogs[c], Facts[l], Supplier).ids
           /\ result.suggestions # <<>> /\ ~result.ambiguous /\ ~result.reclassify =>
                 LET top == result.suggestions[1]
                 IN  \A d \in Best(Candidates(Catalogs[c], Facts[l], Supplier, priors)) :
                        d.product = top.product \/ d.tier > top.tier \/ top.score - d.score > TieMargin
<1> DEFINE stale == StaleSupplierinfo(Catalogs[c], Facts[l], Supplier)
           all == Candidates(Catalogs[c], Facts[l], Supplier, priors)
           ranked == Rank(all)
           stated == [product |-> CHOOSE p \in stale : TRUE, tier |-> 0, score |-> 100, rank |-> 1]
<1>1. Comparables(all)
  BY CandidatesCompare
<1>2. CASE stale # {}
  <2>1. result.suggestions = <<stated>> /\ result.reclassify = TRUE
    BY <1>2 DEF SuggestProducts
  <2>2. stated.product \in stale
    BY <1>2
  <2>3. stale \subseteq SupplierProductOutcome(Catalogs[c], Facts[l], Supplier).ids
    BY <1>2, CatalogAssumption, StaleIsFound
  <2> HIDE DEF stated, stale
  <2>4. result.suggestions[1] = stated
    BY <2>1
  <2>5. QED
    BY <2>1, <2>2, <2>3, <2>4
<1>3. CASE stale = {}
  <2>1. result.suggestions = ranked.suggestions /\ result.ambiguous = ranked.ambiguous /\ result.reclassify = FALSE
    BY <1>3 DEF SuggestProducts
  <2> HIDE DEF all, ranked
  <2>2. QED
    BY <1>1, <2>1, ClearTop DEF ranked, all
<1>4. QED
  BY <1>2, <1>3

-----------------------------------------------------------------------------
(* What Odoo shows of the suggestions.                                      *)

SetFields ==
    {"line", "version", "input", "catalog", "history", "engine", "result", "status", "reason", "age", "marker"}

SuggestedFor(c, l, history) == SuggestProducts(Catalogs[c], Facts[l], Supplier, KnownPriors(history))

\* A stored set is what the engine made of its line, and is not marked as cleared while it may be shown.
SetOK(s) ==
    /\ DOMAIN s = SetFields
    /\ s.line \in LineSet /\ s.catalog \in DOMAIN Catalogs /\ s.history \in BOOLEAN
    /\ s.input = Facts[s.line] /\ s.result = SuggestedFor(s.catalog, s.line, s.history)
    /\ s.status \in {"current", "superseded", "invalidated"}
    /\ (s.status = "current") = (s.reason = "")
    /\ s.marker \in {"none", "shown", "cleared"} /\ s.age \in 0 .. Cutoff + 1
    /\ s.status = "current" /\ s.marker = "cleared" => s.age > Cutoff

SetsInv ==
    /\ \E n \in Nat : DOMAIN sets = 1 .. n
    /\ \A id \in DOMAIN sets : SetOK(sets[id])

StateInv ==
    /\ DOMAIN committed = {"version", "pending", "open"}
    /\ committed.pending \in BOOLEAN /\ committed.open \subseteq LineSet
    /\ catalog \in DOMAIN Catalogs
    /\ DOMAIN odoo = {"version", "shown"} /\ DOMAIN odoo.shown = LineSet
    /\ shows \in {{}, Showers} /\ DOMAIN outrun = {"flow", "lines"} /\ outrun.lines \subseteq LineSet
    /\ DOMAIN engine = {"version", "suggest"}
    /\ engine.suggest =
         [c \in DOMAIN Catalogs |-> [l \in LineSet |-> [history \in BOOLEAN |-> SuggestedFor(c, l, history)]]]

TaskFields ==
    {"pc", "snap", "catalog", "history", "todo", "ids", "ages", "hints", "waiting", "outcome"}

\* Who is where, and with the advisory lock.
TaskInv ==
    /\ DOMAIN task = Actors
    /\ \A a \in Actors : DOMAIN task[a] = TaskFields
    /\ task[Tick].pc \in {"idle", "catalog", "lines", "display", "build", "write", "mark"}
    /\ task[Sweep].pc \in {"idle", "display", "build", "write", "mark"}
    /\ task[Flow].pc \in {"idle", "build", "write"}
    /\ task[Cleaner].pc \in {"idle", "clear", "verify", "settle"}
    /\ lock \in Actors \cup {NoOne}
    /\ \A a \in {Tick, Sweep} : ~At(a, "idle") => lock = a
    /\ At(Cleaner, "clear") \/ At(Cleaner, "verify") => lock = Cleaner
    /\ At(Tick, "catalog") \/ At(Tick, "lines") => task[Tick].todo \subseteq DOMAIN Lines
    /\ At(Tick, "lines") => task[Tick].catalog \in DOMAIN Catalogs /\ task[Tick].history \in BOOLEAN

OfLine(id, l) == id \in DOMAIN sets /\ sets[id].line = l

\* A set that Odoo may show of line l: never one that is marked as gone.
Presentable(id, l) ==
    /\ OfLine(id, l)
    /\ sets[id].marker # "cleared" /\ (sets[id].status # "current" => sets[id].marker = "none")

\* where a flow that a refresh outran wrote, a set of the line, but perhaps one that is gone
SuggestionsShownInv ==
    \A l \in LineSet : odoo.shown[l] # 0 =>
        OfLine(odoo.shown[l], l) /\ (l \notin outrun.lines => Presentable(odoo.shown[l], l))

\* a refresh has begun since a built its rows
Outrun(a) == a = Flow /\ outrun.flow

HintsOK(a) ==
    /\ DOMAIN task[a].hints = LineSet
    /\ \A l \in LineSet : task[a].hints[l] # 0 =>
          OfLine(task[a].hints[l], l) /\ (~Outrun(a) => Presentable(task[a].hints[l], l))

HintsInv == \A a \in Showers : At(a, "write") => HintsOK(a)

\* Current, and not yet expired when a's refresh began: what its mark takes for shown.
Vivid(a, id) == id \in DOMAIN sets /\ Current(id) /\ task[a].ages[id] <= Cutoff

\* While a refresh is under way, its sets only age, and whatever is shown or about to be, but
\* by a flow that it outran, is vivid.
Refreshing(a) == task[a].pc \in {"build", "write", "mark"}
VividHints(a, b) == \A l \in LineSet : task[b].hints[l] # 0 => Vivid(a, task[b].hints[l])
VividShown(a) == \A l \in LineSet \ outrun.lines : odoo.shown[l] # 0 => Vivid(a, odoo.shown[l])
OnlyAgeing(a) ==
    /\ DOMAIN task[a].ages = DOMAIN sets
    /\ \A id \in DOMAIN sets : task[a].ages[id] \in Int /\ task[a].ages[id] <= sets[id].age

RefreshInv ==
    \A a \in {Tick, Sweep} : Refreshing(a) =>
        /\ OnlyAgeing(a)
        /\ At(a, "write") => VividHints(a, a)
        /\ At(Flow, "write") /\ ~outrun.flow => VividHints(a, Flow)
        /\ At(a, "mark") => VividShown(a)

\* With the display off nothing is about to be shown, and a clear that succeeded left nothing.
ClearInv ==
    /\ ~At(Cleaner, "idle") => shows = {}
    /\ shows = {} => \A a \in Showers : At(a, "write") => \A l \in LineSet : task[a].hints[l] = 0
    /\ task[Cleaner].outcome = "cleared" => shows = {} /\ \A l \in LineSet : odoo.shown[l] = 0

AdvisoryInv == SetsInv /\ StateInv /\ TaskInv /\ SuggestionsShownInv /\ HintsInv /\ RefreshInv /\ ClearInv

LEMMA AdvisoryInitial == ASSUME AdvisoryInit PROVE AdvisoryInv
<1>1. /\ committed = [version |-> 1, pending |-> TRUE, open |-> LineSet] /\ catalog = 1 /\ sets = <<>>
      /\ odoo = [version |-> 1, shown |-> [l \in LineSet |-> 0]]
      /\ task = [a \in Actors |-> Idle] /\ lock = NoOne /\ shows = Showers
      /\ outrun = [flow |-> FALSE, lines |-> {}]
  BY DEF AdvisoryInit
<1>2. SetsInv
  <2>1. DOMAIN sets = 1 .. 0 /\ 0 \in Nat
    BY <1>1
  <2>2. QED
    BY <2>1 DEF SetsInv
<1>3. StateInv
  BY <1>1, CatalogAssumption DEF StateInv, AdvisoryInit, SuggestedFor
<1>4. \A a \in Actors : task[a] = Idle /\ task[a].pc = "idle" /\ task[a].outcome = ""
  BY <1>1 DEF Idle
<1>5. TaskInv
  BY <1>1, <1>4 DEF TaskInv, At, TaskFields, Idle, Actors, Tick, Sweep, Flow, Cleaner
<1>6. SuggestionsShownInv /\ HintsInv /\ RefreshInv
  BY <1>1, <1>4 DEF SuggestionsShownInv, HintsInv, RefreshInv, Refreshing, At, Actors, Showers, Tick, Sweep, Flow, Cleaner
<1>7. ClearInv
  BY <1>1, <1>4 DEF ClearInv, At, Actors, Showers, Tick, Sweep, Flow, Cleaner
<1>8. QED
  BY <1>2, <1>3, <1>5, <1>6, <1>7 DEF AdvisoryInv

\* What a shower builds, writes or marks is what it was.
SameWork(a) ==
    task'[a].pc \in {"write", "mark"} \/ (a # Flow /\ task'[a].pc = "build") =>
        task'[a].pc = task[a].pc /\ task'[a].hints = task[a].hints /\ task'[a].ages = task[a].ages

\* A step that leaves the sets and Odoo alone, and the work of every shower.
LEMMA CalmStep ==
    ASSUME AdvisoryInv, TaskInv', StateInv', UNCHANGED <<sets, odoo, shows, outrun>>,
           \A a \in Showers : SameWork(a),
           task'[Cleaner].pc # "idle" => shows = {},
           task'[Cleaner].outcome = "cleared" =>
                task[Cleaner].outcome = "cleared" \/ (shows = {} /\ \A l \in LineSet : odoo.shown[l] = 0)
    PROVE  AdvisoryInv'
<1>1. SetsInv' /\ SuggestionsShownInv'
  BY DEF AdvisoryInv, SetsInv, SetOK, SuggestionsShownInv, Presentable, OfLine
<1>2. HintsInv'
  <2>1. SUFFICES ASSUME NEW a \in Showers, At(a, "write")' PROVE HintsOK(a)'
    BY DEF HintsInv
  <2>2. At(a, "write") /\ task'[a].hints = task[a].hints
    BY <2>1 DEF SameWork, At
  <2>3. HintsOK(a)
    BY <2>2 DEF AdvisoryInv, HintsInv
  <2>4. QED
    BY <2>2, <2>3 DEF HintsOK, Presentable, OfLine, Outrun
<1>3. RefreshInv'
  <2>1. SUFFICES ASSUME NEW a \in {Tick, Sweep}, Refreshing(a)'
                 PROVE  /\ OnlyAgeing(a)'
                        /\ At(a, "write")' => VividHints(a, a)'
                        /\ At(Flow, "write")' /\ ~outrun'.flow => VividHints(a, Flow)'
                        /\ At(a, "mark")' => VividShown(a)'
    BY DEF RefreshInv
  <2>2. Refreshing(a) /\ task'[a].pc = task[a].pc /\ task'[a].hints = task[a].hints /\ task'[a].ages = task[a].ages
    BY <2>1 DEF SameWork, Refreshing, Showers, Tick, Sweep, Flow
  <2>3. At(Flow, "write")' => At(Flow, "write") /\ task'[Flow].hints = task[Flow].hints
    BY DEF SameWork, At, Showers
  <2>4. /\ OnlyAgeing(a)
        /\ At(a, "write") => VividHints(a, a)
        /\ At(Flow, "write") /\ ~outrun.flow => VividHints(a, Flow)
        /\ At(a, "mark") => VividShown(a)
    BY <2>2 DEF AdvisoryInv, RefreshInv
  <2>5. OnlyAgeing(a)'
    BY <2>2, <2>4 DEF OnlyAgeing
  <2>6. QED
    BY <2>2, <2>3, <2>4, <2>5 DEF At, VividHints, VividShown, Vivid, Current
<1>4. ClearInv'
  <2>1. \A a \in Showers : At(a, "write")' => At(a, "write") /\ task'[a].hints = task[a].hints
    BY DEF SameWork, At
  <2>2. QED
    BY <2>1 DEF AdvisoryInv, ClearInv, At
<1>5. QED
  BY <1>1, <1>2, <1>3, <1>4 DEF AdvisoryInv

\* What one actor turns to, while the others go on.
LEMMA OneTask ==
    ASSUME TaskInv, NEW a \in Actors, NEW r, task' = [task EXCEPT ![a] = r]
    PROVE  DOMAIN task' = Actors /\ task'[a] = r /\ \A b \in Actors : b # a => task'[b] = task[b]
  BY DEF TaskInv

LEMMA IdleFields ==
    /\ DOMAIN Idle = TaskFields /\ Idle.pc = "idle" /\ Idle.outcome = "" /\ Idle.hints = <<>> /\ Idle.ages = <<>>
    /\ \A v : DOMAIN [Idle EXCEPT !.waiting = v] = TaskFields
    /\ \A v : [Idle EXCEPT !.waiting = v].pc = "idle" /\ [Idle EXCEPT !.waiting = v].outcome = ""
  BY DEF Idle, TaskFields

\* A process that only moves on keeps what it had read.
LEMMA MovesOn ==
    ASSUME TaskInv, NEW a \in Actors, NEW pc, Goto(a, pc)
    PROVE  /\ DOMAIN task' = Actors /\ \A b \in Actors : b # a => task'[b] = task[b]
           /\ DOMAIN task'[a] = TaskFields /\ task'[a].pc = pc
           /\ \A f \in TaskFields \ {"pc"} : task'[a][f] = task[a][f]
<1> DEFINE r == [task[a] EXCEPT !.pc = pc]
<1>1. task' = [task EXCEPT ![a] = r]
  BY DEF Goto
<1>2. DOMAIN task[a] = TaskFields
  BY DEF TaskInv
<1>3. r.pc = pc /\ DOMAIN r = TaskFields /\ \A f \in TaskFields \ {"pc"} : r[f] = task[a][f]
  BY <1>2 DEF TaskFields
<1>4. QED
  BY <1>1, <1>3, OneTask

LEMMA SafeWork ==
    ASSUME TaskInv, NEW a \in Actors, \A b \in Actors : b # a => task'[b] = task[b],
           a \in Showers => SameWork(a)
    PROVE  \A b \in Showers : SameWork(b)
  BY DEF SameWork, Showers, Actors

LEMMA ReadCatalogStep == ASSUME AdvisoryInv, ReadCatalog PROVE AdvisoryInv'
<1>1. PICK history \in BOOLEAN :
        task' = [task EXCEPT ![Tick].pc = "lines", ![Tick].catalog = catalog, ![Tick].history = history]
  BY DEF ReadCatalog
<1> DEFINE r == [task[Tick] EXCEPT !.pc = "lines", !.catalog = catalog, !.history = history]
<1>2. task' = [task EXCEPT ![Tick] = r]
  BY <1>1
<1>3. TaskInv /\ StateInv /\ Tick \in Actors /\ DOMAIN task[Tick] = TaskFields /\ task[Tick].pc = "catalog"
  BY DEF ReadCatalog, At, AdvisoryInv, TaskInv, Actors
<1>4. /\ r.pc = "lines" /\ r.catalog = catalog /\ r.history = history /\ DOMAIN r = TaskFields
      /\ r.todo = task[Tick].todo
  BY <1>3 DEF TaskFields
<1> HIDE DEF r
<1>5. DOMAIN task' = Actors /\ task'[Tick] = r /\ \A b \in Actors : b # Tick => task'[b] = task[b]
  BY <1>2, <1>3, OneTask
<1>6. TaskInv'
  BY <1>3, <1>4, <1>5 DEF ReadCatalog, TaskInv, StateInv, At, Actors, Tick, Sweep, Flow, Cleaner
<1>7. StateInv'
  BY <1>3 DEF ReadCatalog, StateInv
<1>8. \A a \in Showers : SameWork(a)
  BY <1>3, <1>4, <1>5, SafeWork DEF SameWork
<1>9. QED
  BY <1>5, <1>6, <1>7, <1>8, CalmStep
     DEF ReadCatalog, AdvisoryInv, ClearInv, At, Actors, Tick, Cleaner

\* The tick goes on with no refresh under way.
LEMMA TickCalm ==
    ASSUME AdvisoryInv, lock = Tick, NEW r, DOMAIN r = TaskFields,
           task' = [task EXCEPT ![Tick] = r],
           \/ r.pc = "idle" /\ lock' = NoOne
           \/ r.pc = "display" /\ lock' = lock
           \/ /\ r.pc = "lines" /\ lock' = lock
              /\ r.todo \subseteq DOMAIN Lines /\ r.catalog \in DOMAIN Catalogs /\ r.history \in BOOLEAN,
           UNCHANGED <<committed, catalog, sets, odoo, shows, engine, outrun>>
    PROVE  AdvisoryInv'
<1>1. TaskInv /\ StateInv /\ Tick \in Actors
  BY DEF AdvisoryInv, Actors
<1>2. DOMAIN task' = Actors /\ task'[Tick] = r /\ \A b \in Actors : b # Tick => task'[b] = task[b]
  BY <1>1, OneTask
<1>3. TaskInv'
  BY <1>1, <1>2 DEF TaskInv, At, NoOne, Actors, Tick, Sweep, Flow, Cleaner
<1>4. StateInv'
  BY <1>1 DEF StateInv
<1>5. \A a \in Showers : SameWork(a)
  BY <1>1, <1>2, SafeWork DEF SameWork
<1>6. QED
  BY <1>2, <1>3, <1>4, <1>5, CalmStep DEF AdvisoryInv, ClearInv, At, Actors, Tick, Cleaner

LEMMA TickHolds ==
    ASSUME AdvisoryInv, ~At(Tick, "idle")
    PROVE  lock = Tick /\ DOMAIN task[Tick] = TaskFields /\ At(Sweep, "idle")
  BY DEF AdvisoryInv, TaskInv, Actors, Tick, Sweep

LEMMA AnewFields ==
    ASSUME NEW a, NEW pc PROVE DOMAIN Anew(a, pc) = TaskFields /\ Anew(a, pc).pc = pc
  BY DEF Anew, Idle, TaskFields

LEMMA CatalogFailsStep == ASSUME AdvisoryInv, CatalogFails PROVE AdvisoryInv'
<1>1. lock = Tick
  BY TickHolds DEF CatalogFails, At
<1>2. task' = [task EXCEPT ![Tick] = Anew(Tick, "display")] /\ lock' = lock
  BY DEF CatalogFails
<1>3. UNCHANGED <<committed, catalog, sets, odoo, shows, engine, outrun>>
  BY DEF CatalogFails
<1>4. QED
  BY <1>1, <1>2, <1>3, AnewFields, TickCalm

\* Each line of the tick is done once.
LEMMA LineStep ==
    ASSUME AdvisoryInv, At(Tick, "lines"), NEW r, DOMAIN r = TaskFields, r.pc = "lines",
           r.todo = LineDone(task[Tick].todo), r.catalog = task[Tick].catalog, r.history = task[Tick].history,
           task' = [task EXCEPT ![Tick] = r],
           UNCHANGED <<committed, catalog, sets, odoo, lock, shows, engine, outrun>>
    PROVE  AdvisoryInv'
<1>1. lock = Tick
  BY TickHolds DEF At
<1>2. r.todo \subseteq DOMAIN Lines /\ r.catalog \in DOMAIN Catalogs /\ r.history \in BOOLEAN
  BY DEF AdvisoryInv, TaskInv, LineDone
<1>3. QED
  BY <1>1, <1>2, TickCalm

LEMMA KeepLineStep == ASSUME AdvisoryInv, KeepLine PROVE AdvisoryInv'
<1> DEFINE ages == task[Tick].ages \o SetToSeq(Existing(NextLine))
           r == [task[Tick] EXCEPT !.todo = LineDone(task[Tick].todo), !.ages = ages]
<1>1. At(Tick, "lines") /\ UNCHANGED <<committed, catalog, sets, odoo, lock, shows, engine, outrun>>
  BY DEF KeepLine
<1>2. DOMAIN task[Tick] = TaskFields
  BY <1>1, TickHolds DEF At
<1>3. task' = [task EXCEPT ![Tick] = r]
  BY <1>2 DEF KeepLine, TaskFields
<1> HIDE DEF ages
<1>4. /\ DOMAIN r = TaskFields /\ r.pc = "lines" /\ r.todo = LineDone(task[Tick].todo)
      /\ r.catalog = task[Tick].catalog /\ r.history = task[Tick].history
  BY <1>1, <1>2 DEF TaskFields, At
<1> HIDE DEF r
<1>5. QED
  BY <1>1, <1>3, <1>4, LineStep

LEMMA LineFailsStep == ASSUME AdvisoryInv, LineFails PROVE AdvisoryInv'
<1> DEFINE r == [task[Tick] EXCEPT !.todo = LineDone(task[Tick].todo)]
<1>1. At(Tick, "lines") /\ UNCHANGED <<committed, catalog, sets, odoo, lock, shows, engine, outrun>>
  BY DEF LineFails
<1>2. DOMAIN task[Tick] = TaskFields
  BY <1>1, TickHolds DEF At
<1>3. task' = [task EXCEPT ![Tick] = r]
  BY <1>2 DEF LineFails, TaskFields
<1>4. /\ DOMAIN r = TaskFields /\ r.pc = "lines" /\ r.todo = LineDone(task[Tick].todo)
      /\ r.catalog = task[Tick].catalog /\ r.history = task[Tick].history
  BY <1>1, <1>2 DEF TaskFields, At
<1> HIDE DEF r
<1>5. QED
  BY <1>1, <1>3, <1>4, LineStep

LEMMA EndTickStep == ASSUME AdvisoryInv, EndTick PROVE AdvisoryInv'
<1>1. lock = Tick
  BY TickHolds DEF EndTick, At
<1>2. lock' = NoOne /\ task' = [task EXCEPT ![Tick] = [Idle EXCEPT !.waiting = task[Tick].waiting]]
  BY DEF EndTick, Release
<1>3. UNCHANGED <<committed, catalog, sets, odoo, shows, engine, outrun>>
  BY DEF EndTick
<1>4. QED
  BY <1>1, <1>2, <1>3, IdleFields, TickCalm

LEMMA StartSweepStep == ASSUME AdvisoryInv, StartSweep PROVE AdvisoryInv'
<1>1. TaskInv /\ StateInv /\ Sweep \in Actors
  BY DEF AdvisoryInv, Actors
<1>2. /\ DOMAIN task' = Actors /\ (\A b \in Actors : b # Sweep => task'[b] = task[b])
      /\ DOMAIN task'[Sweep] = TaskFields /\ task'[Sweep].pc = "display"
  BY <1>1, MovesOn DEF StartSweep
<1>3. At(Tick, "idle") /\ lock' = Sweep /\ ~At(Cleaner, "clear") /\ ~At(Cleaner, "verify")
  BY <1>1 DEF StartSweep, TaskInv, NoOne, Tick, Sweep, Cleaner
<1>4. TaskInv'
  BY <1>1, <1>2, <1>3 DEF TaskInv, At, Actors, Tick, Sweep, Flow, Cleaner
<1>5. StateInv'
  BY <1>1 DEF StateInv, StartSweep
<1>6. \A a \in Showers : SameWork(a)
  BY <1>1, <1>2, SafeWork DEF SameWork
<1>7. QED
  BY <1>2, <1>4, <1>5, <1>6, CalmStep DEF StartSweep, AdvisoryInv, ClearInv, At, Actors, Sweep, Cleaner

\* Of the two that refresh, only one is at work.
LEMMA RefresherHolds ==
    ASSUME AdvisoryInv, NEW a \in {Tick, Sweep}, ~At(a, "idle")
    PROVE  /\ lock = a /\ DOMAIN task[a] = TaskFields /\ a \in Actors /\ a \in Showers /\ a # Flow /\ a # Cleaner
           /\ \A b \in {Tick, Sweep} : b # a => At(b, "idle")
           /\ ~At(Cleaner, "clear") /\ ~At(Cleaner, "verify")
  BY DEF AdvisoryInv, TaskInv, Actors, Showers, Tick, Sweep, Flow, Cleaner

\* Only those two refresh the display.
LEMMA OnlyRefreshers ==
    ASSUME AdvisoryInv, NEW a \in Showers, At(a, "display") \/ At(a, "mark")
    PROVE  a \in {Tick, Sweep}
  BY DEF AdvisoryInv, TaskInv, At, Showers, Tick, Sweep, Flow

\* A refresher lets go of the lock.
LEMMA ReleaseTask ==
    ASSUME AdvisoryInv, NEW a \in {Tick, Sweep}, ~At(a, "idle"), NEW failed, Release(a, failed)
    PROVE  /\ DOMAIN task' = Actors /\ task'[a] = [Idle EXCEPT !.waiting = failed]
           /\ (\A b \in Actors : b # a => task'[b] = task[b])
           /\ TaskInv'
<1>1. TaskInv /\ a \in Actors
  BY DEF AdvisoryInv, Actors
<1>2. /\ DOMAIN task' = Actors /\ task'[a] = [Idle EXCEPT !.waiting = failed]
      /\ (\A b \in Actors : b # a => task'[b] = task[b])
  BY <1>1, OneTask DEF Release
<1>3. DOMAIN task'[a] = TaskFields /\ task'[a].pc = "idle"
  BY <1>2, IdleFields
<1>4. lock' = NoOne
  BY DEF Release
<1>5. TaskInv'
  BY <1>1, <1>2, <1>3, <1>4, RefresherHolds DEF TaskInv, At, NoOne, Actors, Tick, Sweep, Flow, Cleaner
<1>6. QED
  BY <1>2, <1>5

LEMMA NothingToRefreshStep ==
    ASSUME AdvisoryInv, NEW a \in Showers, NothingToRefresh(a) PROVE AdvisoryInv'
<1>1. a \in {Tick, Sweep} /\ ~At(a, "idle")
  BY OnlyRefreshers DEF NothingToRefresh, At
<1>2. Release(a, task[a].waiting) /\ UNCHANGED <<committed, catalog, sets, odoo, shows, engine, outrun>>
  BY DEF NothingToRefresh
<1>3. /\ TaskInv' /\ task'[a] = [Idle EXCEPT !.waiting = task[a].waiting]
      /\ \A b \in Actors : b # a => task'[b] = task[b]
  BY <1>1, <1>2, ReleaseTask
<1>4. StateInv'
  BY <1>2 DEF AdvisoryInv, StateInv
<1>5. \A b \in Showers : SameWork(b)
  BY <1>1, <1>3, IdleFields, SafeWork, RefresherHolds DEF AdvisoryInv, SameWork
<1>6. task'[Cleaner] = task[Cleaner]
  BY <1>1, <1>3, RefresherHolds DEF Actors
<1>7. QED
  BY <1>2, <1>3, <1>4, <1>5, <1>6, CalmStep DEF AdvisoryInv, ClearInv, At

LEMMA BackoffEndsStep ==
    ASSUME AdvisoryInv, NEW a \in Showers, BackoffEnds(a) PROVE AdvisoryInv'
<1> DEFINE r == [task[a] EXCEPT !.waiting = FALSE]
<1>1. TaskInv /\ StateInv /\ a \in Actors /\ DOMAIN task[a] = TaskFields
  BY DEF AdvisoryInv, TaskInv, Actors, Showers
<1>2. task' = [task EXCEPT ![a] = r] /\ UNCHANGED <<committed, catalog, sets, odoo, lock, shows, engine, outrun>>
  BY DEF BackoffEnds
<1>3. DOMAIN r = TaskFields /\ \A f \in TaskFields : f # "waiting" => r[f] = task[a][f]
  BY <1>1 DEF TaskFields
<1> HIDE DEF r
<1>4. DOMAIN task' = Actors /\ task'[a] = r /\ \A b \in Actors : b # a => task'[b] = task[b]
  BY <1>1, <1>2, OneTask
<1>5. /\ r.pc = task[a].pc /\ r.todo = task[a].todo /\ r.catalog = task[a].catalog /\ r.history = task[a].history
      /\ r.hints = task[a].hints /\ r.ages = task[a].ages
  BY <1>3 DEF TaskFields
<1>6. TaskInv'
  BY <1>1, <1>2, <1>3, <1>4, <1>5 DEF TaskInv, At, Actors, Showers, Tick, Sweep, Flow, Cleaner
<1>7. StateInv'
  BY <1>1, <1>2 DEF StateInv
<1>8. \A b \in Showers : SameWork(b)
  BY <1>1, <1>4, <1>5, SafeWork DEF SameWork
<1>9. task'[Cleaner] = task[Cleaner]
  BY <1>4 DEF Actors, Showers, Tick, Sweep, Flow, Cleaner
<1>10. QED
  BY <1>2, <1>6, <1>7, <1>8, <1>9, CalmStep DEF AdvisoryInv, ClearInv, At

\* A flow that starts has read nothing yet.
LEMMA FlowStarts ==
    ASSUME AdvisoryInv, Goto(Flow, "build"), UNCHANGED <<catalog, sets, odoo, lock, shows, engine, outrun>>, StateInv'
    PROVE  AdvisoryInv'
<1>1. TaskInv /\ Flow \in Actors
  BY DEF AdvisoryInv, Actors
<1>2. /\ DOMAIN task' = Actors /\ (\A b \in Actors : b # Flow => task'[b] = task[b])
      /\ DOMAIN task'[Flow] = TaskFields /\ task'[Flow].pc = "build"
  BY <1>1, MovesOn
<1>3. TaskInv'
  BY <1>1, <1>2 DEF TaskInv, At, Actors, Tick, Sweep, Flow, Cleaner
<1>4. \A a \in Showers : SameWork(a)
  BY <1>1, <1>2, SafeWork DEF SameWork
<1>5. task'[Cleaner] = task[Cleaner]
  BY <1>2 DEF Actors, Flow, Cleaner
<1>6. QED
  BY <1>3, <1>4, <1>5, CalmStep DEF AdvisoryInv, ClearInv, At

LEMMA FlowStep ==
    ASSUME AdvisoryInv, ReviewChanges \/ Project PROVE AdvisoryInv'
<1>1. CASE ReviewChanges
  <2>1. StateInv'
    BY <1>1 DEF ReviewChanges, AdvisoryInv, StateInv
  <2>2. QED
    BY <1>1, <2>1, FlowStarts DEF ReviewChanges
<1>2. CASE Project
  <2>1. StateInv'
    BY <1>2 DEF Project, AdvisoryInv, StateInv
  <2>2. QED
    BY <1>2, <2>1, FlowStarts DEF Project
<1>3. QED
  BY <1>1, <1>2

LEMMA CatalogChangesStep == ASSUME AdvisoryInv, CatalogChanges PROVE AdvisoryInv'
<1>1. UNCHANGED <<committed, sets, odoo, task, lock, shows, engine, outrun>> /\ catalog' \in DOMAIN Catalogs
  BY DEF CatalogChanges
<1>2. StateInv' /\ TaskInv'
  BY <1>1 DEF AdvisoryInv, StateInv, TaskInv, At
<1>3. \A a \in Showers : SameWork(a)
  BY <1>1 DEF SameWork
<1>4. QED
  BY <1>1, <1>2, <1>3, CalmStep DEF AdvisoryInv, ClearInv, At

-----------------------------------------------------------------------------

LEMMA SetsKept == ASSUME SetsInv, UNCHANGED sets PROVE SetsInv'
  BY DEF SetsInv, SetOK

LEMMA StartClearStep == ASSUME AdvisoryInv, StartClear PROVE AdvisoryInv'
<1> DEFINE r == [Idle EXCEPT !.pc = "clear"]
<1>1. TaskInv /\ StateInv /\ Cleaner \in Actors
  BY DEF AdvisoryInv, Actors
<1>2. DOMAIN r = TaskFields /\ r.pc = "clear" /\ r.outcome = ""
  BY DEF Idle, TaskFields
<1>3. task' = [task EXCEPT ![Cleaner] = r] /\ lock' = Cleaner /\ shows = {}
  BY DEF StartClear
<1> HIDE DEF r
<1>4. DOMAIN task' = Actors /\ task'[Cleaner] = r /\ \A b \in Actors : b # Cleaner => task'[b] = task[b]
  BY <1>1, <1>3, OneTask
<1>5. At(Tick, "idle") /\ At(Sweep, "idle")
  BY <1>1 DEF StartClear, TaskInv, NoOne, Tick, Sweep
<1>6. TaskInv'
  BY <1>1, <1>2, <1>3, <1>4, <1>5 DEF TaskInv, At, Actors, Tick, Sweep, Flow, Cleaner
<1>7. StateInv'
  BY <1>1 DEF StartClear, StateInv
<1>8. \A b \in Showers : SameWork(b)
  BY <1>1, <1>4, SafeWork DEF Showers, Tick, Sweep, Flow, Cleaner
<1>9. QED
  BY <1>2, <1>3, <1>4, <1>6, <1>7, <1>8, CalmStep DEF StartClear

LEMMA ClearIncompleteStep == ASSUME AdvisoryInv, ClearIncomplete PROVE AdvisoryInv'
<1> DEFINE r == [Idle EXCEPT !.outcome = "incomplete"]
<1>1. TaskInv /\ StateInv /\ Cleaner \in Actors
  BY DEF AdvisoryInv, Actors
<1>2. DOMAIN r = TaskFields /\ r.pc = "idle" /\ r.outcome = "incomplete"
  BY DEF Idle, TaskFields
<1>3. /\ task' = [task EXCEPT ![Cleaner] = r]
      /\ \/ At(Cleaner, "verify") /\ lock' = NoOne
         \/ At(Cleaner, "settle") /\ lock' = lock
  BY DEF ClearIncomplete
<1> HIDE DEF r
<1>4. DOMAIN task' = Actors /\ task'[Cleaner] = r /\ \A b \in Actors : b # Cleaner => task'[b] = task[b]
  BY <1>1, <1>3, OneTask
<1>5. TaskInv'
  BY <1>1, <1>2, <1>3, <1>4 DEF TaskInv, At, NoOne, Actors, Tick, Sweep, Flow, Cleaner
<1>6. StateInv'
  BY <1>1 DEF ClearIncomplete, StateInv
<1>7. \A b \in Showers : SameWork(b)
  BY <1>1, <1>4, SafeWork DEF Showers, Tick, Sweep, Flow, Cleaner
<1>8. QED
  BY <1>2, <1>4, <1>5, <1>6, <1>7, CalmStep DEF ClearIncomplete

LEMMA ConfirmStep == ASSUME AdvisoryInv, Confirm PROVE AdvisoryInv'
<1>1. TaskInv /\ StateInv /\ Cleaner \in Actors
  BY DEF AdvisoryInv, Actors
<1>2. PICK verdict \in {"repopulated", "cleared"} :
        /\ task' = [task EXCEPT ![Cleaner] = [Idle EXCEPT !.outcome = verdict]]
        /\ verdict = "cleared" => Shown = {}
  BY DEF Confirm
<1> DEFINE r == [Idle EXCEPT !.outcome = verdict]
<1>3. DOMAIN r = TaskFields /\ r.pc = "idle" /\ r.outcome = verdict
  BY DEF Idle, TaskFields
<1> HIDE DEF r
<1>4. DOMAIN task' = Actors /\ task'[Cleaner] = r /\ \A b \in Actors : b # Cleaner => task'[b] = task[b]
  BY <1>1, <1>2, OneTask DEF r
<1>5. TaskInv'
  BY <1>1, <1>3, <1>4 DEF Confirm, TaskInv, At, Actors, Tick, Sweep, Flow, Cleaner
<1>6. StateInv'
  BY <1>1 DEF Confirm, StateInv
<1>7. \A b \in Showers : SameWork(b)
  BY <1>1, <1>4, SafeWork DEF Showers, Tick, Sweep, Flow, Cleaner
<1>8. shows = {} /\ (Shown = {} => \A l \in LineSet : odoo.shown[l] = 0)
  BY DEF Confirm, AdvisoryInv, ClearInv, At, Shown
<1>9. QED
  BY <1>2, <1>3, <1>4, <1>5, <1>6, <1>7, <1>8, CalmStep DEF Confirm

\* A step on Odoo only removes what it shows.
LEMMA ClearRowsStep == ASSUME AdvisoryInv, ClearRows PROVE AdvisoryInv'
<1>1. TaskInv /\ StateInv /\ Cleaner \in Actors
  BY DEF AdvisoryInv, Actors
<1>2. PICK cleared \in SUBSET Shown :
        odoo' = [odoo EXCEPT !.shown = [l \in LineSet |-> IF l \in cleared THEN 0 ELSE odoo.shown[l]]]
  BY DEF ClearRows
<1>3. /\ DOMAIN odoo' = {"version", "shown"} /\ DOMAIN odoo'.shown = LineSet
      /\ \A l \in LineSet : odoo'.shown[l] # 0 => odoo'.shown[l] = odoo.shown[l]
  BY <1>1, <1>2 DEF StateInv
<1>4. /\ DOMAIN task' = Actors /\ (\A b \in Actors : b # Cleaner => task'[b] = task[b])
      /\ DOMAIN task'[Cleaner] = TaskFields /\ task'[Cleaner].pc = "verify"
      /\ task'[Cleaner].outcome = task[Cleaner].outcome
  <2>1. Goto(Cleaner, "verify")
    BY DEF ClearRows
  <2>2. "outcome" \in TaskFields \ {"pc"}
    BY DEF TaskFields
  <2>3. QED
    BY <1>1, <2>1, <2>2, MovesOn
<1>5. UNCHANGED <<committed, catalog, sets, lock, shows, engine, outrun>>
  BY DEF ClearRows
<1>6. SetsInv' /\ StateInv'
  <2>1. SetsInv'
    BY <1>5, SetsKept DEF AdvisoryInv
  <2>2. StateInv'
    BY <1>1, <1>3, <1>5 DEF StateInv
  <2>3. QED
    BY <2>1, <2>2
<1>7. TaskInv'
  BY <1>1, <1>4, <1>5 DEF ClearRows, TaskInv, At, Actors, Tick, Sweep, Flow, Cleaner
<1>8. \A b \in Showers : task'[b] = task[b]
  BY <1>4 DEF Actors, Showers, Tick, Sweep, Flow, Cleaner
<1>9. SuggestionsShownInv'
  BY <1>3, <1>5 DEF AdvisoryInv, SuggestionsShownInv, Presentable, OfLine
<1>10. HintsInv'
  BY <1>5, <1>8 DEF AdvisoryInv, HintsInv, HintsOK, Presentable, OfLine, Outrun, At
<1>11. RefreshInv'
  BY <1>3, <1>5, <1>8 DEF AdvisoryInv, RefreshInv, Refreshing, OnlyAgeing, VividHints, VividShown, Vivid, Current,
         At, Showers
<1>12. ClearInv'
  <2>1. shows = {}
    BY DEF ClearRows, AdvisoryInv, ClearInv, At
  <2>2. QED
    BY <1>3, <1>4, <1>5, <1>8, <2>1 DEF AdvisoryInv, ClearInv, At
<1>13. QED
  BY <1>6, <1>7, <1>9, <1>10, <1>11, <1>12 DEF AdvisoryInv

\* Whatever was under way is forgotten.
LEMMA RestartStep == ASSUME AdvisoryInv, Restart PROVE AdvisoryInv'
<1>1. TaskInv /\ StateInv /\ ClearInv
  BY DEF AdvisoryInv
<1>2. /\ shows' \in {{}, Showers}
      /\ DOMAIN engine' = {"version", "suggest"} /\ engine'.suggest = engine.suggest
  BY <1>1 DEF Restart, StateInv
<1>3. /\ UNCHANGED <<committed, catalog, sets, odoo>>
      /\ DOMAIN outrun' = {"flow", "lines"} /\ outrun'.lines = outrun.lines /\ outrun.lines \subseteq LineSet
  BY DEF Restart, AdvisoryInv, StateInv
<1>4. \A b \in Showers : task'[b] = Idle
  BY DEF Restart, Actors, Showers, Tick, Sweep, Flow, Cleaner
<1>5. DOMAIN task' = Actors
  BY DEF Restart
<1>6. /\ DOMAIN task'[Cleaner] = TaskFields /\ task'[Cleaner].pc = task[Cleaner].pc
      /\ task'[Cleaner].outcome = "cleared" => shows' = {} /\ task[Cleaner].outcome = "cleared"
  <2> DEFINE verdict == IF shows' = {} THEN task[Cleaner].outcome ELSE ""
  <2>1. DOMAIN task[Cleaner] = TaskFields
    BY <1>1 DEF TaskInv, Actors
  <2>2. task'[Cleaner] = [task[Cleaner] EXCEPT !.outcome = verdict]
    BY DEF Restart, Actors
  <2>3. task'[Cleaner].outcome = verdict /\ task'[Cleaner].pc = task[Cleaner].pc /\ DOMAIN task'[Cleaner] = TaskFields
    BY <2>1, <2>2 DEF TaskFields
  <2>4. QED
    BY <2>3
<1>7. \A b \in Showers : task'[b].pc = "idle" /\ DOMAIN task'[b] = TaskFields
  BY <1>4, IdleFields
<1>8. SetsInv' /\ StateInv' /\ SuggestionsShownInv'
  <2>1. SetsInv'
    BY <1>3, SetsKept DEF AdvisoryInv
  <2>2. StateInv'
    BY <1>1, <1>2, <1>3 DEF StateInv
  <2>3. SuggestionsShownInv'
    BY <1>3 DEF AdvisoryInv, SuggestionsShownInv, Presentable, OfLine
  <2>4. QED
    BY <2>1, <2>2, <2>3
<1>9. TaskInv'
  BY <1>1, <1>5, <1>6, <1>7 DEF Restart, TaskInv, At, NoOne, Actors, Showers, Tick, Sweep, Flow, Cleaner
<1>10. HintsInv' /\ RefreshInv'
  BY <1>7 DEF HintsInv, RefreshInv, Refreshing, At, Showers
<1>11. ClearInv'
  <2>1. ~At(Cleaner, "idle")' => shows' = {}
    BY <1>6 DEF Restart, At
  <2>2. task[Cleaner].outcome = "cleared" => \A l \in LineSet : odoo.shown[l] = 0
    BY <1>1 DEF ClearInv
  <2>3. QED
    BY <1>3, <1>6, <1>7, <2>1, <2>2 DEF ClearInv, At
<1>12. QED
  BY <1>8, <1>9, <1>10, <1>11 DEF AdvisoryInv

-----------------------------------------------------------------------------

LEMMA SetAge ==
    ASSUME NEW s, SetOK(s)
    PROVE  s.age \in Int /\ (s.status = "current" /\ s.age <= Cutoff => s.marker # "cleared")
<1>1. s.age \in 0 .. Cutoff + 1 /\ (s.status = "current" /\ s.marker = "cleared" => s.age > Cutoff)
  BY DEF SetOK
<1>2. Cutoff \in Int
  BY AdvisoryAssumption
<1> HIDE DEF SetOK
<1>3. QED
  BY <1>1, <1>2

LEMMA StartRefreshStep ==
    ASSUME AdvisoryInv, NEW a \in Showers, StartRefresh(a) PROVE AdvisoryInv'
<1> DEFINE ages == [id \in DOMAIN sets |-> sets[id].age]
           r == [task[a] EXCEPT !.pc = "build", !.ids = Due, !.ages = ages]
<1>1. a \in {Tick, Sweep} /\ ~At(a, "idle")
  BY OnlyRefreshers DEF StartRefresh, At
<1>2. /\ TaskInv /\ StateInv /\ a \in Actors /\ DOMAIN task[a] = TaskFields /\ a # Cleaner /\ a # Flow /\ lock = a
      /\ \A b \in {Tick, Sweep} : b # a => At(b, "idle")
  BY <1>1, RefresherHolds DEF AdvisoryInv
<1>3. /\ task' = [task EXCEPT ![a] = r] /\ outrun' = [outrun EXCEPT !.flow = At(Flow, "write")]
      /\ UNCHANGED <<committed, catalog, sets, odoo, lock, shows, engine>>
  BY DEF StartRefresh
<1>15. outrun'.lines = outrun.lines /\ outrun'.flow = At(Flow, "write") /\ DOMAIN outrun' = {"flow", "lines"}
  BY <1>2, <1>3 DEF StateInv
<1> HIDE DEF ages
<1>4. DOMAIN r = TaskFields /\ r.pc = "build" /\ r.ages = ages
  BY <1>2 DEF TaskFields
<1> HIDE DEF r
<1>5. DOMAIN task' = Actors /\ task'[a] = r /\ \A b \in Actors : b # a => task'[b] = task[b]
  BY <1>2, <1>3, OneTask
<1>6. TaskInv'
  BY <1>1, <1>2, <1>3, <1>4, <1>5 DEF TaskInv, At, Actors, Tick, Sweep, Flow, Cleaner
<1>7. SetsInv' /\ StateInv'
  BY <1>2, <1>3, <1>15, SetsKept DEF AdvisoryInv, StateInv
<1>8. SuggestionsShownInv'
  BY <1>3, <1>15 DEF AdvisoryInv, SuggestionsShownInv, Presentable, OfLine
<1>9. \A b \in Showers : At(b, "write")' => b # a /\ task'[b] = task[b]
  BY <1>4, <1>5 DEF At, Showers, Actors
<1>10. HintsInv'
  <2>1. SUFFICES ASSUME NEW b \in Showers, At(b, "write")' PROVE HintsOK(b)'
    BY DEF HintsInv
  <2>2. task'[b] = task[b] /\ At(b, "write")
    BY <1>9, <2>1 DEF At
  <2>3. HintsOK(b)
    BY <2>2 DEF AdvisoryInv, HintsInv
  <2>4. QED
    BY <1>3, <1>15, <2>2, <2>3 DEF HintsOK, Presentable, OfLine, Outrun
<1>11. OnlyAgeing(a)'
  <2>1. DOMAIN ages = DOMAIN sets /\ \A id \in DOMAIN sets : ages[id] = sets[id].age
    BY DEF ages
  <2>2. \A id \in DOMAIN sets : sets[id].age \in Int
    BY SetAge DEF AdvisoryInv, SetsInv
  <2>3. QED
    BY <1>3, <1>4, <1>5, <2>1, <2>2 DEF OnlyAgeing
<1>12. RefreshInv'
  <2>1. \A b \in {Tick, Sweep} : Refreshing(b)' => b = a
    BY <1>2, <1>5 DEF Refreshing, At, Actors
  <2>2. At(a, "build")'
    BY <1>4, <1>5 DEF At
  <2>3. At(Flow, "write")' => outrun'.flow
    BY <1>9, <1>15 DEF At, Showers
  <2>4. QED
    BY <1>11, <2>1, <2>2, <2>3 DEF RefreshInv, At
<1>13. ClearInv'
  BY <1>2, <1>3, <1>5, <1>9 DEF AdvisoryInv, ClearInv, At, Actors
<1>14. QED
  BY <1>6, <1>7, <1>8, <1>10, <1>12, <1>13 DEF AdvisoryInv

\* What a line is made to show is current, and fresh now.
LEMMA HintIs ==
    ASSUME NEW a, NEW l
    PROVE  \/ Hint(a, l) = 0
           \/ a \in shows /\ Hint(a, l) \in DOMAIN sets /\ Displayable(Hint(a, l), l)
<1> DEFINE ids == {id \in DOMAIN sets : Displayable(id, l)}
<1>1. CASE a \in shows /\ Cardinality(ids) = 1
  <2>1. ids # {}
    BY <1>1, FS_EmptySet
  <2>2. Hint(a, l) = CHOOSE id \in ids : TRUE
    BY <1>1 DEF Hint
  <2>3. Hint(a, l) \in ids
    BY <2>1, <2>2
  <2>4. QED
    BY <1>1, <2>3
<1>2. CASE ~(a \in shows /\ Cardinality(ids) = 1)
  BY <1>2 DEF Hint
<1>3. QED
  BY <1>1, <1>2

LEMMA DisplayablePresents ==
    ASSUME SetsInv, NEW id \in DOMAIN sets, NEW l, Displayable(id, l)
    PROVE  Presentable(id, l) /\ Current(id) /\ sets[id].age <= Cutoff
<1>1. SetOK(sets[id]) /\ sets[id].line = l /\ Current(id) /\ sets[id].age <= Cutoff
  BY DEF SetsInv, Displayable, Fresh
<1>2. sets[id].marker # "cleared"
  BY <1>1, SetAge DEF Current
<1>3. QED
  BY <1>1, <1>2 DEF Presentable, OfLine, Current

LEMMA BuildRowsStep ==
    ASSUME AdvisoryInv, NEW a \in Showers, BuildRows(a) PROVE AdvisoryInv'
<1> DEFINE hints == [l \in LineSet |-> Hint(a, l)]
           r == [task[a] EXCEPT !.pc = "write", !.snap = committed, !.hints = hints]
<1>1. /\ TaskInv /\ StateInv /\ SetsInv /\ a \in Actors /\ DOMAIN task[a] = TaskFields /\ a # Cleaner
      /\ task[a].pc = "build"
  BY DEF AdvisoryInv, TaskInv, BuildRows, At, Actors, Showers, Tick, Sweep, Flow, Cleaner
<1>2. task' = [task EXCEPT ![a] = r] /\ UNCHANGED <<committed, catalog, sets, odoo, lock, shows, engine, outrun>>
  BY DEF BuildRows
<1>3. /\ DOMAIN hints = LineSet
      /\ \A l \in LineSet : hints[l] # 0 =>
            a \in shows /\ Presentable(hints[l], l) /\ Current(hints[l]) /\ sets[hints[l]].age <= Cutoff
            /\ hints[l] \in DOMAIN sets
  BY <1>1, HintIs, DisplayablePresents
<1> HIDE DEF hints
<1>4. DOMAIN r = TaskFields /\ r.pc = "write" /\ r.hints = hints /\ r.ages = task[a].ages
  BY <1>1 DEF TaskFields
<1> HIDE DEF r
<1>5. DOMAIN task' = Actors /\ task'[a] = r /\ \A b \in Actors : b # a => task'[b] = task[b]
  BY <1>1, <1>2, OneTask
<1>6. TaskInv'
  BY <1>1, <1>2, <1>4, <1>5 DEF TaskInv, At, Actors, Showers, Tick, Sweep, Flow, Cleaner
<1>7. SetsInv' /\ StateInv'
  BY <1>1, <1>2, SetsKept DEF StateInv
<1>8. SuggestionsShownInv'
  BY <1>2 DEF AdvisoryInv, SuggestionsShownInv, Presentable, OfLine
<1>9. HintsInv'
  <2>1. SUFFICES ASSUME NEW b \in Showers, At(b, "write")' PROVE HintsOK(b)'
    BY DEF HintsInv
  <2>2. CASE b = a
    BY <1>2, <1>3, <1>4, <1>5, <2>2 DEF HintsOK, Presentable, OfLine, Outrun
  <2>3. CASE b # a
    <3>1. task'[b] = task[b]
      BY <1>5, <2>3 DEF Actors, Showers
    <3>2. HintsOK(b)
      BY <2>1, <3>1 DEF AdvisoryInv, HintsInv, At
    <3>3. QED
      BY <1>2, <3>1, <3>2 DEF HintsOK, Presentable, OfLine, Outrun
  <2>4. QED
    BY <2>2, <2>3
<1>10. RefreshInv'
  <2>1. SUFFICES ASSUME NEW b \in {Tick, Sweep}, Refreshing(b)'
                 PROVE  /\ OnlyAgeing(b)'
                        /\ At(b, "write")' => VividHints(b, b)'
                        /\ At(Flow, "write")' /\ ~outrun'.flow => VividHints(b, Flow)'
                        /\ At(b, "mark")' => VividShown(b)'
    BY DEF RefreshInv
  <2>2. /\ Refreshing(b) /\ task'[b].ages = task[b].ages
        /\ b # a => task'[b] = task[b]
    BY <1>1, <1>4, <1>5, <2>1 DEF Refreshing, Actors
  <2>3. /\ OnlyAgeing(b)
        /\ At(b, "write") => VividHints(b, b)
        /\ At(Flow, "write") /\ ~outrun.flow => VividHints(b, Flow)
        /\ At(b, "mark") => VividShown(b)
    BY <2>2 DEF AdvisoryInv, RefreshInv
  <2>4. OnlyAgeing(b)'
    BY <1>2, <2>2, <2>3 DEF OnlyAgeing
  <2>5. \A l \in LineSet : hints[l] # 0 => Vivid(b, hints[l])
    <3>1. SUFFICES ASSUME NEW l \in LineSet, hints[l] # 0 PROVE Vivid(b, hints[l])
      OBVIOUS
    <3>2. hints[l] \in DOMAIN sets /\ Current(hints[l]) /\ sets[hints[l]].age <= Cutoff
      BY <1>3, <3>1
    <3>3. task[b].ages[hints[l]] \in Int /\ task[b].ages[hints[l]] <= sets[hints[l]].age
      BY <2>3, <3>2 DEF OnlyAgeing
    <3>4. sets[hints[l]].age \in Int
      BY <1>1, <3>2, SetAge DEF SetsInv
    <3>5. QED
      BY <3>2, <3>3, <3>4, AdvisoryAssumption DEF Vivid
  <2>6. \A id : Vivid(b, id) => Vivid(b, id)'
    BY <1>2, <2>2 DEF Vivid, Current
  <2>7. CASE b = a
    <3>1. VividHints(b, b)'
      BY <1>4, <1>5, <2>5, <2>6, <2>7 DEF VividHints
    <3>2. At(Flow, "write")' /\ ~outrun'.flow => VividHints(b, Flow)'
      <4>1. a # Flow /\ task'[Flow] = task[Flow]
        BY <1>5, <2>7 DEF Actors, Tick, Sweep, Flow
      <4>2. QED
        BY <1>2, <2>3, <2>6, <4>1 DEF VividHints, At
    <3>3. ~At(b, "mark")'
      BY <1>4, <1>5, <2>7 DEF At
    <3>4. QED
      BY <2>4, <3>1, <3>2, <3>3
  <2>8. CASE b # a
    <3>1. At(b, "write")' => VividHints(b, b)'
      BY <2>2, <2>3, <2>6, <2>8 DEF VividHints, At
    <3>2. At(b, "mark")' => VividShown(b)'
      BY <1>2, <2>2, <2>3, <2>6, <2>8 DEF VividShown, At
    <3>3. At(Flow, "write")' /\ ~outrun'.flow => VividHints(b, Flow)'
      <4>1. CASE a = Flow
        BY <1>4, <1>5, <2>5, <2>6, <4>1 DEF VividHints
      <4>2. CASE a # Flow
        <5>1. task'[Flow] = task[Flow]
          BY <1>5, <4>2 DEF Actors
        <5>2. QED
          BY <1>2, <2>2, <2>3, <2>6, <2>8, <5>1 DEF VividHints, At
      <4>3. QED
        BY <4>1, <4>2
    <3>4. QED
      BY <2>4, <3>1, <3>2, <3>3
  <2>9. QED
    BY <2>7, <2>8
<1>11. ClearInv'
  <2>1. shows = {} => \A l \in LineSet : hints[l] = 0
    BY <1>3
  <2>2. task'[Cleaner] = task[Cleaner]
    BY <1>1, <1>5 DEF Actors
  <2>3. \A b \in Showers : At(b, "write")' /\ shows = {} => \A l \in LineSet : task'[b].hints[l] = 0
    BY <1>4, <1>5, <2>1 DEF AdvisoryInv, ClearInv, At, Showers, Actors
  <2>4. QED
    BY <1>2, <2>2, <2>3 DEF AdvisoryInv, ClearInv, At
<1>12. QED
  BY <1>6, <1>7, <1>8, <1>9, <1>10, <1>11 DEF AdvisoryInv

\* A shower writes some of its rows, or none; a refresher that wrote them all goes on to mark,
\* any other process is done.
LEMMA WritingStep ==
    ASSUME AdvisoryInv, NEW a \in Showers, At(a, "write"),
           DOMAIN odoo' = {"version", "shown"}, DOMAIN odoo'.shown = LineSet,
           DOMAIN outrun' = {"flow", "lines"}, outrun'.lines \subseteq LineSet, a # Flow => outrun'.flow = outrun.flow,
           \A l \in LineSet :
                \/ odoo'.shown[l] = odoo.shown[l] /\ (l \notin outrun'.lines => l \notin outrun.lines)
                \/ odoo'.shown[l] = task[a].hints[l] /\ (l \notin outrun'.lines => ~Outrun(a)),
           DOMAIN task' = Actors, \A b \in Actors : b # a => task'[b] = task[b],
           DOMAIN task'[a] = TaskFields, task'[a].ages = task[a].ages \/ task'[a].pc = "idle",
           \/ task'[a].pc = "idle" /\ (IF a = Flow THEN lock' = lock ELSE lock' = NoOne)
           \/ /\ task'[a].pc = "mark" /\ a # Flow /\ lock' = lock
              /\ \A l \in LineSet : odoo'.shown[l] = task[a].hints[l],
           UNCHANGED <<committed, catalog, sets, shows, engine>>
    PROVE  AdvisoryInv'
<1>1. TaskInv /\ StateInv /\ SetsInv /\ a \in Actors /\ a # Cleaner /\ HintsOK(a)
  BY DEF AdvisoryInv, HintsInv, Actors, Showers, Tick, Sweep, Flow, Cleaner
<1>2. SetsInv' /\ StateInv'
  BY <1>1, SetsKept DEF StateInv
<1>3. a # Flow => lock = a /\ \A b \in {Tick, Sweep} : b # a => At(b, "idle")
  <2>1. a # Flow => a \in {Tick, Sweep} /\ ~At(a, "idle")
    BY DEF At, Showers
  <2>2. QED
    BY <2>1, RefresherHolds
<1>4. TaskInv'
  <2>1. CASE a = Flow
    BY <1>1, <2>1 DEF TaskInv, At, Actors, Tick, Sweep, Flow, Cleaner
  <2>2. CASE a # Flow
    <3>1. ~At(Cleaner, "clear") /\ ~At(Cleaner, "verify") /\ a \in {Tick, Sweep}
      BY <1>1, <1>3, <2>2 DEF TaskInv, At, Showers, Tick, Sweep, Flow, Cleaner
    <3>2. QED
      BY <1>1, <1>3, <2>2, <3>1 DEF TaskInv, At, NoOne, Actors, Tick, Sweep, Flow, Cleaner
  <2>3. QED
    BY <2>1, <2>2
<1>5. SuggestionsShownInv'
  <2>1. \A l \in LineSet : odoo'.shown[l] # 0 =>
          OfLine(odoo'.shown[l], l) /\ (l \notin outrun'.lines => Presentable(odoo'.shown[l], l))
    BY <1>1 DEF AdvisoryInv, SuggestionsShownInv, HintsOK
  <2>2. QED
    BY <2>1 DEF SuggestionsShownInv, Presentable, OfLine
<1>6. \A b \in Showers : At(b, "write")' => b # a /\ task'[b] = task[b] /\ At(b, "write")
  BY DEF At, Showers, Actors
<1>7. HintsInv'
  <2>1. SUFFICES ASSUME NEW b \in Showers, At(b, "write")' PROVE HintsOK(b)'
    BY DEF HintsInv
  <2>2. task'[b] = task[b] /\ HintsOK(b)
    BY <1>6, <2>1 DEF AdvisoryInv, HintsInv
  <2>3. QED
    BY <1>6, <2>1, <2>2 DEF HintsOK, Presentable, OfLine, Outrun
<1>8. RefreshInv'
  <2>1. SUFFICES ASSUME NEW b \in {Tick, Sweep}, Refreshing(b)'
                 PROVE  /\ OnlyAgeing(b)'
                        /\ At(b, "write")' => VividHints(b, b)'
                        /\ At(Flow, "write")' /\ ~outrun'.flow => VividHints(b, Flow)'
                        /\ At(b, "mark")' => VividShown(b)'
    BY DEF RefreshInv
  <2>2. Refreshing(b) /\ task'[b].ages = task[b].ages /\ (b # a => task'[b] = task[b])
    BY <2>1 DEF Refreshing, At, Actors
  <2>3. /\ OnlyAgeing(b)
        /\ At(b, "write") => VividHints(b, b)
        /\ At(Flow, "write") /\ ~outrun.flow => VividHints(b, Flow)
        /\ At(b, "mark") => VividShown(b)
    BY <2>2 DEF AdvisoryInv, RefreshInv
  <2>4. OnlyAgeing(b)'
    BY <2>2, <2>3 DEF OnlyAgeing
  <2>5. \A id : Vivid(b, id) => Vivid(b, id)'
    BY <2>2 DEF Vivid, Current
  <2>6. CASE b = a
    <3>1. task'[b].pc = "mark" /\ \A l \in LineSet : odoo'.shown[l] = task[a].hints[l]
      BY <2>1, <2>6 DEF Refreshing
    <3>2. VividHints(b, b)
      BY <2>3, <2>6 DEF At
    <3>3. VividShown(b)'
      BY <2>5, <2>6, <3>1, <3>2 DEF VividHints, VividShown
    <3>4. b # Flow
      BY DEF Tick, Sweep, Flow
    <3>5. At(Flow, "write")' /\ ~outrun'.flow => VividHints(b, Flow)'
      <4>1. At(Flow, "write")' => At(Flow, "write") /\ task'[Flow] = task[Flow]
        BY <1>6 DEF Showers
      <4>2. QED
        BY <2>3, <2>5, <2>6, <3>4, <4>1 DEF VividHints
    <3>6. QED
      BY <2>4, <3>1, <3>3, <3>5 DEF At
  <2>7. CASE b # a
    <3>1. task'[b] = task[b] /\ a = Flow
      BY <1>3, <2>2, <2>7 DEF Refreshing, At
    <3>2. ~At(Flow, "write")'
      BY <1>6, <3>1
    <3>3. At(b, "write")' => VividHints(b, b)'
      BY <2>3, <2>5, <3>1 DEF VividHints, At
    <3>4. At(b, "mark")' => VividShown(b)'
      <4>1. SUFFICES ASSUME At(b, "mark")' PROVE VividShown(b)'
        OBVIOUS
      <4>2. VividShown(b) /\ (~outrun.flow => VividHints(b, Flow))
        BY <2>3, <3>1, <4>1 DEF At
      <4>3. QED
        BY <2>5, <3>1, <4>2 DEF VividShown, VividHints, Outrun
    <3>5. QED
      BY <2>4, <3>2, <3>3, <3>4
  <2>8. QED
    BY <2>6, <2>7
<1>9. ClearInv'
  <2>1. task'[Cleaner] = task[Cleaner]
    BY <1>1 DEF Actors
  <2>2. shows = {} => \A l \in LineSet : task[a].hints[l] = 0
    BY DEF AdvisoryInv, ClearInv
  <2>3. QED
    BY <1>6, <2>1, <2>2 DEF AdvisoryInv, ClearInv, At
<1>10. QED
  BY <1>2, <1>4, <1>5, <1>7, <1>8, <1>9 DEF AdvisoryInv

LEMMA WrittenRows ==
    ASSUME StateInv, NEW a, NEW lines \in SUBSET LineSet, Written(a, lines)
    PROVE  /\ DOMAIN odoo' = {"version", "shown"} /\ DOMAIN odoo'.shown = LineSet
           /\ \A l \in LineSet : odoo'.shown[l] = IF l \in lines THEN task[a].hints[l] ELSE odoo.shown[l]
           /\ DOMAIN outrun' = {"flow", "lines"} /\ outrun'.lines \subseteq LineSet
           /\ a # Flow => outrun'.flow = outrun.flow
           /\ \A l \in LineSet :
                \/ odoo'.shown[l] = odoo.shown[l] /\ (l \notin outrun'.lines => l \notin outrun.lines)
                \/ odoo'.shown[l] = task[a].hints[l] /\ (l \notin outrun'.lines => ~Outrun(a))
<1>1. /\ DOMAIN odoo' = {"version", "shown"} /\ DOMAIN odoo'.shown = LineSet
      /\ \A l \in LineSet : odoo'.shown[l] = IF l \in lines THEN task[a].hints[l] ELSE odoo.shown[l]
  BY DEF Written
<1>2. CASE a = Flow
  <2>1. /\ DOMAIN outrun' = {"flow", "lines"}
        /\ outrun'.lines = IF outrun.flow THEN outrun.lines \cup lines ELSE outrun.lines \ lines
    BY <1>2 DEF Written
  <2>2. QED
    BY <1>1, <1>2, <2>1 DEF Outrun, StateInv
<1>3. CASE a # Flow
  <2>1. /\ DOMAIN outrun' = {"flow", "lines"} /\ outrun'.flow = outrun.flow
        /\ outrun'.lines = outrun.lines \ lines
    BY <1>3 DEF Written, StateInv
  <2>2. QED
    BY <1>1, <1>3, <2>1 DEF Outrun, StateInv
<1>4. QED
  BY <1>2, <1>3, <1>1

LEMMA WriteStep == ASSUME AdvisoryInv, NEW a \in Showers, Write(a) PROVE AdvisoryInv'
<1>1. StateInv /\ TaskInv /\ a \in Actors
  BY DEF AdvisoryInv, Actors, Showers
<1>2. Written(a, LineSet) /\ At(a, "write") /\ UNCHANGED <<committed, catalog, sets, lock, shows, engine>>
  BY DEF Write
<1>3. /\ DOMAIN odoo' = {"version", "shown"} /\ DOMAIN odoo'.shown = LineSet
      /\ \A l \in LineSet : odoo'.shown[l] = task[a].hints[l]
      /\ DOMAIN outrun' = {"flow", "lines"} /\ outrun'.lines \subseteq LineSet
      /\ a # Flow => outrun'.flow = outrun.flow
      /\ \A l \in LineSet :
           \/ odoo'.shown[l] = odoo.shown[l] /\ (l \notin outrun'.lines => l \notin outrun.lines)
           \/ odoo'.shown[l] = task[a].hints[l] /\ (l \notin outrun'.lines => ~Outrun(a))
  BY <1>1, <1>2, WrittenRows
<1>4. CASE a = Flow
  <2>1. DOMAIN task' = Actors /\ task'[a] = Idle /\ \A b \in Actors : b # a => task'[b] = task[b]
    BY <1>1, <1>4, OneTask DEF Write
  <2>2. QED
    BY <1>2, <1>3, <1>4, <2>1, IdleFields, WritingStep
<1>5. CASE a # Flow
  <2>1. Goto(a, "mark") /\ "ages" \in TaskFields \ {"pc"}
    BY <1>5 DEF Write, TaskFields
  <2>2. /\ DOMAIN task' = Actors /\ (\A b \in Actors : b # a => task'[b] = task[b])
        /\ DOMAIN task'[a] = TaskFields /\ task'[a].pc = "mark" /\ task'[a].ages = task[a].ages
    BY <1>1, <2>1, MovesOn
  <2>3. QED
    BY <1>2, <1>3, <1>5, <2>2, WritingStep
<1>6. QED
  BY <1>4, <1>5

LEMMA WriteFailsStep == ASSUME AdvisoryInv, NEW a \in Showers, WriteFails(a) PROVE AdvisoryInv'
<1>1. StateInv /\ TaskInv /\ a \in Actors
  BY DEF AdvisoryInv, Actors, Showers
<1>2. At(a, "write") /\ UNCHANGED <<committed, catalog, sets, shows, engine>>
  BY DEF WriteFails
<1>3. /\ DOMAIN odoo' = {"version", "shown"} /\ DOMAIN odoo'.shown = LineSet
      /\ DOMAIN outrun' = {"flow", "lines"} /\ outrun'.lines \subseteq LineSet
      /\ a # Flow => outrun'.flow = outrun.flow
      /\ \A l \in LineSet :
           \/ odoo'.shown[l] = odoo.shown[l] /\ (l \notin outrun'.lines => l \notin outrun.lines)
           \/ odoo'.shown[l] = task[a].hints[l] /\ (l \notin outrun'.lines => ~Outrun(a))
  <2>1. CASE UNCHANGED odoo /\ outrun' = IF a = Flow THEN [outrun EXCEPT !.flow = FALSE] ELSE outrun
    <3>1. DOMAIN outrun' = {"flow", "lines"} /\ outrun'.lines = outrun.lines
      BY <1>1, <2>1 DEF StateInv
    <3>2. a # Flow => outrun'.flow = outrun.flow
      BY <1>1, <2>1 DEF StateInv
    <3>3. QED
      BY <1>1, <2>1, <3>1, <3>2 DEF StateInv
  <2>2. CASE \E lines \in SUBSET LineSet : Written(a, lines)
    BY <1>1, <2>2, WrittenRows
  <2>3. QED
    BY <2>1, <2>2 DEF WriteFails
<1>4. CASE a = Flow
  <2>1. DOMAIN task' = Actors /\ task'[a] = Idle /\ \A b \in Actors : b # a => task'[b] = task[b]
    BY <1>1, <1>4, OneTask DEF WriteFails, AfterFailure
  <2>2. lock' = lock
    BY <1>4 DEF WriteFails, AfterFailure
  <2>3. QED
    BY <1>2, <1>3, <1>4, <2>1, <2>2, IdleFields, WritingStep
<1>5. CASE a # Flow
  <2>1. Release(a, TRUE) /\ a \in {Tick, Sweep} /\ ~At(a, "idle")
    BY <1>2, <1>5 DEF WriteFails, AfterFailure, Showers, At
  <2>2. /\ DOMAIN task' = Actors /\ task'[a] = [Idle EXCEPT !.waiting = TRUE]
        /\ (\A b \in Actors : b # a => task'[b] = task[b])
    BY <2>1, ReleaseTask
  <2>3. lock' = NoOne
    BY <2>1 DEF Release
  <2>4. DOMAIN task'[a] = TaskFields /\ task'[a].pc = "idle"
    BY <2>2, IdleFields
  <2>5. QED
    BY <1>2, <1>3, <1>5, <2>2, <2>3, <2>4, WritingStep
<1>6. QED
  BY <1>4, <1>5

-----------------------------------------------------------------------------

LEMMA SetOKIs ==
    ASSUME NEW s, SetOK(s), NEW t, DOMAIN t = SetFields, t.line = s.line, t.catalog = s.catalog,
           t.history = s.history, t.input = s.input, t.result = s.result,
           t.status \in {"current", "superseded", "invalidated"}, (t.status = "current") = (t.reason = ""),
           t.marker \in {"none", "shown", "cleared"}, t.age \in 0 .. Cutoff + 1,
           t.status = "current" /\ t.marker = "cleared" => t.age > Cutoff
    PROVE  SetOK(t)
  BY DEF SetOK

LEMMA Zero == 0 \in 0 .. Cutoff + 1
<1>1. Cutoff \in Nat
  BY AdvisoryAssumption
<1>2. QED
  BY <1>1

LEMMA RetiredIs ==
    ASSUME NEW s, SetOK(s), NEW status \in {"superseded", "invalidated"}, NEW reason, reason # ""
    PROVE  /\ SetOK(Retired(s, <<status, reason>>)) /\ Retired(s, <<status, reason>>).line = s.line
           /\ s.marker # "cleared" => Retired(s, <<status, reason>>).marker = "none"
<1> DEFINE m == IF s.marker = "cleared" THEN s.marker ELSE "none"
           t == [s EXCEPT !.status = status, !.reason = reason, !.age = 0, !.marker = m]
<1>1. DOMAIN s = SetFields /\ s.marker \in {"none", "shown", "cleared"}
  BY DEF SetOK
<1>2. Retired(s, <<status, reason>>) = t
  BY <1>1 DEF Retired, SetFields
<1>3. m \in {"none", "shown", "cleared"} /\ (s.marker # "cleared" => m = "none")
  BY <1>1
<1> HIDE DEF m
<1>4. /\ DOMAIN t = SetFields /\ t.line = s.line /\ t.catalog = s.catalog /\ t.history = s.history
      /\ t.input = s.input /\ t.result = s.result /\ t.status = status /\ t.reason = reason /\ t.age = 0 /\ t.marker = m
  BY <1>1 DEF SetFields
<1> HIDE DEF t
<1>5. SetOK(t)
  BY <1>3, <1>4, Zero, SetOKIs
<1>6. QED
  BY <1>2, <1>3, <1>4, <1>5

LEMMA RevalidatedIs ==
    ASSUME NEW s, SetOK(s), s.status = "current"
    PROVE  /\ SetOK(Revalidated(s)) /\ Revalidated(s).line = s.line /\ Revalidated(s).status = "current"
           /\ Revalidated(s).marker # "cleared"
<1> DEFINE m == IF s.marker = "cleared" THEN "none" ELSE s.marker
           t == [s EXCEPT !.age = 0, !.marker = m]
<1>1. DOMAIN s = SetFields /\ s.marker \in {"none", "shown", "cleared"} /\ ((s.status = "current") = (s.reason = ""))
  BY DEF SetOK
<1>2. Revalidated(s) = t
  BY <1>1 DEF Revalidated, SetFields
<1>3. m \in {"none", "shown", "cleared"} /\ m # "cleared"
  BY <1>1
<1> HIDE DEF m
<1>4. /\ DOMAIN t = SetFields /\ t.line = s.line /\ t.catalog = s.catalog /\ t.history = s.history
      /\ t.input = s.input /\ t.result = s.result /\ t.status = s.status /\ t.reason = s.reason /\ t.age = 0 /\ t.marker = m
  BY <1>1 DEF SetFields
<1> HIDE DEF t
<1>5. SetOK(t)
  BY <1>1, <1>3, <1>4, Zero, SetOKIs
<1>6. QED
  BY <1>2, <1>3, <1>4, <1>5

LEMMA MarkedIs ==
    ASSUME NEW s, SetOK(s), NEW m \in {"none", "shown", "cleared"}, s.status = "current" /\ m = "cleared" => s.age > Cutoff
    PROVE  /\ SetOK([s EXCEPT !.marker = m]) /\ [s EXCEPT !.marker = m].line = s.line
           /\ [s EXCEPT !.marker = m].status = s.status /\ [s EXCEPT !.marker = m].marker = m
           /\ [s EXCEPT !.marker = m].age = s.age
<1> DEFINE t == [s EXCEPT !.marker = m]
<1>1. /\ DOMAIN s = SetFields /\ s.status \in {"current", "superseded", "invalidated"}
      /\ (s.status = "current") = (s.reason = "") /\ s.age \in 0 .. Cutoff + 1
  BY DEF SetOK
<1>2. /\ DOMAIN t = SetFields /\ t.line = s.line /\ t.catalog = s.catalog /\ t.history = s.history
      /\ t.input = s.input /\ t.result = s.result /\ t.status = s.status /\ t.reason = s.reason /\ t.age = s.age /\ t.marker = m
  BY <1>1 DEF SetFields
<1> HIDE DEF t
<1>3. SetOK(t)
  BY <1>1, <1>2, SetOKIs
<1>4. QED
  BY <1>2, <1>3 DEF t

LEMMA AgedIs ==
    ASSUME NEW s, SetOK(s), s.status = "current", s.age <= Cutoff
    PROVE  /\ SetOK([s EXCEPT !.age = s.age + 1]) /\ [s EXCEPT !.age = s.age + 1].line = s.line
           /\ [s EXCEPT !.age = s.age + 1].status = s.status /\ [s EXCEPT !.age = s.age + 1].marker = s.marker
           /\ [s EXCEPT !.age = s.age + 1].age = s.age + 1
<1> DEFINE n == s.age + 1
           t == [s EXCEPT !.age = n]
<1>1. /\ DOMAIN s = SetFields /\ s.marker \in {"none", "shown", "cleared"}
      /\ (s.status = "current") = (s.reason = "") /\ s.age \in 0 .. Cutoff + 1
  BY DEF SetOK
<1>2. n \in 0 .. Cutoff + 1
  <2>1. Cutoff \in Nat
    BY AdvisoryAssumption
  <2>2. s.age \in 0 .. Cutoff + 1 /\ s.age <= Cutoff
    BY <1>1
  <2>3. QED
    BY <2>1, <2>2
<1> HIDE DEF n
<1>3. /\ DOMAIN t = SetFields /\ t.line = s.line /\ t.catalog = s.catalog /\ t.history = s.history
      /\ t.input = s.input /\ t.result = s.result /\ t.status = s.status /\ t.reason = s.reason /\ t.age = n /\ t.marker = s.marker
  BY <1>1 DEF SetFields
<1> HIDE DEF t
<1>4. s.marker # "cleared"
  BY SetAge
<1>5. SetOK(t)
  BY <1>1, <1>2, <1>3, <1>4, SetOKIs
<1>6. QED
  BY <1>3, <1>5 DEF t, n

\* A step on the sets while no refresh is under way, that takes nothing from what may be shown.
LEMMA SetsStep ==
    ASSUME AdvisoryInv, SetsInv', StateInv', TaskInv', UNCHANGED <<odoo, shows, outrun>>,
           \A id, l : (Presentable(id, l) => Presentable(id, l)') /\ (OfLine(id, l) => OfLine(id, l)'),
           \A a \in {Tick, Sweep} : ~Refreshing(a)',
           task'[Flow] = task[Flow],
           task'[Cleaner].pc # "idle" => shows = {},
           task'[Cleaner].outcome = "cleared" => task[Cleaner].outcome = "cleared"
    PROVE  AdvisoryInv'
<1>1. SuggestionsShownInv'
  <2>1. SUFFICES ASSUME NEW l \in LineSet, odoo.shown[l] # 0
                 PROVE  OfLine(odoo.shown[l], l)' /\ (l \notin outrun.lines => Presentable(odoo.shown[l], l)')
    BY DEF SuggestionsShownInv
  <2>2. OfLine(odoo.shown[l], l) /\ (l \notin outrun.lines => Presentable(odoo.shown[l], l))
    BY <2>1 DEF AdvisoryInv, SuggestionsShownInv
  <2>3. QED
    BY <2>2
<1>2. \A a \in Showers : At(a, "write")' => a = Flow /\ At(a, "write")
  BY DEF Refreshing, At, Showers
<1>3. HintsInv'
  BY <1>2 DEF AdvisoryInv, HintsInv, HintsOK, Outrun
<1>4. RefreshInv'
  BY DEF RefreshInv
<1>5. ClearInv'
  BY <1>2 DEF AdvisoryInv, ClearInv, At
<1>6. QED
  BY <1>1, <1>3, <1>4, <1>5 DEF AdvisoryInv

\* Sets that are changed one by one, none of them gone.
LEMMA SetsOneByOne ==
    ASSUME SetsInv, DOMAIN sets' = DOMAIN sets, \A id \in DOMAIN sets : SetOK(sets'[id])
    PROVE  SetsInv'
<1>1. \A id \in DOMAIN sets' : SetOK(sets'[id])
  OBVIOUS
<1>2. \E n \in Nat : DOMAIN sets' = 1 .. n
  BY DEF SetsInv
<1>3. QED
  BY <1>1, <1>2 DEF SetsInv, SetOK

LEMMA RevalidateStep == ASSUME AdvisoryInv, RevalidateUnchanged PROVE AdvisoryInv'
<1> DEFINE kept == ToSet(task[Tick].ages)
           r == Anew(Tick, "display")
<1>1. lock = Tick /\ TaskInv /\ StateInv /\ SetsInv /\ Tick \in Actors /\ At(Sweep, "idle")
  BY TickHolds DEF RevalidateUnchanged, At, AdvisoryInv, Actors
<1>2. /\ sets' = [id \in DOMAIN sets |-> IF id \in kept /\ Current(id) THEN Revalidated(sets[id]) ELSE sets[id]]
      /\ task' = [task EXCEPT ![Tick] = r] /\ UNCHANGED <<committed, catalog, odoo, lock, shows, engine, outrun>>
  BY DEF RevalidateUnchanged
<1>3. DOMAIN r = TaskFields /\ r.pc = "display"
  BY AnewFields
<1> HIDE DEF r, kept
<1>4. DOMAIN task' = Actors /\ task'[Tick] = r /\ \A b \in Actors : b # Tick => task'[b] = task[b]
  BY <1>1, <1>2, OneTask
<1>5. TaskInv'
  BY <1>1, <1>2, <1>3, <1>4 DEF TaskInv, At, Actors, Tick, Sweep, Flow, Cleaner
<1>6. \A id \in DOMAIN sets :
        /\ SetOK(sets'[id]) /\ sets'[id].line = sets[id].line /\ sets'[id].status = sets[id].status
        /\ sets[id].marker # "cleared" /\ sets[id].status = "current" => sets'[id].marker # "cleared"
        /\ sets[id].status # "current" => sets'[id].marker = sets[id].marker
  <2>1. SUFFICES ASSUME NEW id \in DOMAIN sets
                 PROVE  /\ SetOK(sets'[id]) /\ sets'[id].line = sets[id].line /\ sets'[id].status = sets[id].status
                        /\ sets[id].marker # "cleared" /\ sets[id].status = "current" => sets'[id].marker # "cleared"
                        /\ sets[id].status # "current" => sets'[id].marker = sets[id].marker
    OBVIOUS
  <2>2. SetOK(sets[id])
    BY <1>1 DEF SetsInv
  <2>3. CASE Current(id) /\ sets'[id] = Revalidated(sets[id])
    BY <2>2, <2>3, RevalidatedIs DEF Current
  <2>4. CASE sets'[id] = sets[id]
    BY <2>2, <2>4
  <2>5. QED
    BY <1>2, <2>3, <2>4
<1>7. SetsInv'
  BY <1>1, <1>2, <1>6, SetsOneByOne
<1>8. StateInv'
  BY <1>1, <1>2 DEF StateInv
<1>9. \A id, l : (Presentable(id, l) => Presentable(id, l)') /\ (OfLine(id, l) => OfLine(id, l)')
  BY <1>2, <1>6 DEF Presentable, OfLine, Outrun
<1>10. /\ \A a \in {Tick, Sweep} : ~Refreshing(a)'
       /\ task'[Flow] = task[Flow] /\ task'[Cleaner] = task[Cleaner]
  BY <1>1, <1>3, <1>4 DEF Refreshing, At, Actors, Tick, Sweep, Flow, Cleaner
<1>11. QED
  BY <1>2, <1>5, <1>7, <1>8, <1>9, <1>10, SetsStep DEF AdvisoryInv, ClearInv, At

LEMMA VerifyClearedStep == ASSUME AdvisoryInv, VerifyCleared PROVE AdvisoryInv'
<1>1. TaskInv /\ StateInv /\ SetsInv /\ Cleaner \in Actors /\ shows = {} /\ lock = Cleaner
  BY DEF VerifyCleared, At, AdvisoryInv, ClearInv, TaskInv, Actors
<1>2. /\ sets' = [id \in DOMAIN sets |-> IF Current(id) THEN [sets[id] EXCEPT !.marker = "none"] ELSE sets[id]]
      /\ lock' = NoOne /\ Goto(Cleaner, "settle") /\ UNCHANGED <<committed, catalog, odoo, shows, engine, outrun>>
  BY DEF VerifyCleared
<1>3. /\ DOMAIN task' = Actors /\ (\A b \in Actors : b # Cleaner => task'[b] = task[b])
      /\ DOMAIN task'[Cleaner] = TaskFields /\ task'[Cleaner].pc = "settle"
      /\ task'[Cleaner].outcome = task[Cleaner].outcome
  <2>1. "outcome" \in TaskFields \ {"pc"}
    BY DEF TaskFields
  <2>2. QED
    BY <1>1, <1>2, <2>1, MovesOn
<1>4. At(Tick, "idle") /\ At(Sweep, "idle")
  BY <1>1 DEF TaskInv, Tick, Sweep, Cleaner
<1>5. TaskInv'
  BY <1>1, <1>2, <1>3, <1>4 DEF TaskInv, At, NoOne, Actors, Tick, Sweep, Flow, Cleaner
<1>6. \A id \in DOMAIN sets :
        /\ SetOK(sets'[id]) /\ sets'[id].line = sets[id].line /\ sets'[id].status = sets[id].status
        /\ sets[id].marker # "cleared" => sets'[id].marker # "cleared"
        /\ sets[id].status # "current" => sets'[id].marker = sets[id].marker
  <2>1. SUFFICES ASSUME NEW id \in DOMAIN sets
                 PROVE  /\ SetOK(sets'[id]) /\ sets'[id].line = sets[id].line /\ sets'[id].status = sets[id].status
                        /\ sets[id].marker # "cleared" => sets'[id].marker # "cleared"
                        /\ sets[id].status # "current" => sets'[id].marker = sets[id].marker
    OBVIOUS
  <2>2. SetOK(sets[id])
    BY <1>1 DEF SetsInv
  <2>3. CASE Current(id)
    <3>1. sets'[id] = [sets[id] EXCEPT !.marker = "none"]
      BY <1>2, <2>3
    <3>2. /\ SetOK([sets[id] EXCEPT !.marker = "none"]) /\ [sets[id] EXCEPT !.marker = "none"].line = sets[id].line
          /\ [sets[id] EXCEPT !.marker = "none"].status = sets[id].status
          /\ [sets[id] EXCEPT !.marker = "none"].marker = "none"
      BY <2>2, MarkedIs
    <3>3. QED
      BY <2>3, <3>1, <3>2 DEF Current
  <2>4. CASE ~Current(id)
    BY <1>2, <2>2, <2>4
  <2>5. QED
    BY <2>3, <2>4
<1>7. SetsInv'
  BY <1>1, <1>2, <1>6, SetsOneByOne
<1>8. StateInv'
  BY <1>1, <1>2 DEF StateInv
<1>9. \A id, l : (Presentable(id, l) => Presentable(id, l)') /\ (OfLine(id, l) => OfLine(id, l)')
  BY <1>2, <1>6 DEF Presentable, OfLine, Outrun
<1>10. /\ \A a \in {Tick, Sweep} : ~Refreshing(a)'
       /\ task'[Flow] = task[Flow]
  BY <1>1, <1>3, <1>4 DEF Refreshing, At, Actors, Tick, Sweep, Flow, Cleaner
<1>11. QED
  BY <1>1, <1>2, <1>3, <1>5, <1>7, <1>8, <1>9, <1>10, SetsStep

LEMMA RetirementIs ==
    ASSUME NEW s, NEW snap
    PROVE  \E status, reason :
                status \in {"superseded", "invalidated"} /\ reason # "" /\ Retirement(s, snap) = <<status, reason>>
<1>1. \/ Retirement(s, snap) = <<"invalidated", "review_not_pending">>
      \/ Retirement(s, snap) = <<"superseded", "review_version_changed">>
      \/ Retirement(s, snap) = <<"invalidated", "line_resolved">>
  BY DEF Retirement
<1> HIDE DEF Retirement
<1>2. QED
  BY <1>1

LEMMA StartTickStep == ASSUME AdvisoryInv, StartTick PROVE AdvisoryInv'
<1>1. PICK readable \in BOOLEAN :
        LET open == IF readable /\ committed.pending THEN committed.open ELSE {}
            snap == [committed EXCEPT !.open = open] IN
        /\ Retire(snap)
        /\ task' = [task EXCEPT ![Tick] = [@ EXCEPT
               !.pc = IF open = {} THEN "display" ELSE "catalog", !.snap = IF open = {} THEN <<>> ELSE snap,
               !.todo = {i \in DOMAIN Lines : Lines[i] \in open},
               !.ids = {id \in CurrentIds : sets[id].version = snap.version /\ sets[id].line \in open}]]
  BY DEF StartTick
<1> DEFINE open == IF readable /\ committed.pending THEN committed.open ELSE {}
           snap == [committed EXCEPT !.open = open]
           pc == IF open = {} THEN "display" ELSE "catalog"
           read == IF open = {} THEN <<>> ELSE snap
           todo == {i \in DOMAIN Lines : Lines[i] \in open}
           ids == {id \in CurrentIds : sets[id].version = snap.version /\ sets[id].line \in open}
           r == [task[Tick] EXCEPT !.pc = pc, !.snap = read, !.todo = todo, !.ids = ids]
<1>2. TaskInv /\ StateInv /\ SetsInv /\ Tick \in Actors /\ DOMAIN task[Tick] = TaskFields
  BY DEF AdvisoryInv, TaskInv, Actors
<1>3. At(Sweep, "idle") /\ ~At(Cleaner, "clear") /\ ~At(Cleaner, "verify") /\ lock' = Tick
  BY <1>2 DEF StartTick, TaskInv, NoOne, Tick, Sweep, Cleaner
<1>4. Retire(snap) /\ task' = [task EXCEPT ![Tick] = r]
  BY <1>1, <1>2
<1>5. pc \in {"display", "catalog"} /\ todo \subseteq DOMAIN Lines
  OBVIOUS
<1>6. UNCHANGED <<committed, catalog, odoo, shows, engine, outrun>>
  BY DEF StartTick
<1> HIDE DEF pc, read, todo, ids, snap
<1>7. DOMAIN r = TaskFields /\ r.pc = pc /\ r.todo = todo
  BY <1>2 DEF TaskFields
<1> HIDE DEF r
<1>8. DOMAIN task' = Actors /\ task'[Tick] = r /\ \A b \in Actors : b # Tick => task'[b] = task[b]
  BY <1>2, <1>4, OneTask
<1>9. TaskInv'
  BY <1>2, <1>3, <1>5, <1>7, <1>8 DEF TaskInv, At, Actors, Tick, Sweep, Flow, Cleaner
<1>10. DOMAIN sets' = DOMAIN sets
  BY <1>4 DEF Retire
<1>11. \A id \in DOMAIN sets :
        /\ SetOK(sets'[id]) /\ sets'[id].line = sets[id].line
        /\ sets[id].marker # "cleared" => sets'[id].marker # "cleared"
        /\ sets'[id] = sets[id] \/ (sets[id].marker # "cleared" => sets'[id].marker = "none")
  <2>1. SUFFICES ASSUME NEW id \in DOMAIN sets
                 PROVE  /\ SetOK(sets'[id]) /\ sets'[id].line = sets[id].line
                        /\ sets[id].marker # "cleared" => sets'[id].marker # "cleared"
                        /\ sets'[id] = sets[id] \/ (sets[id].marker # "cleared" => sets'[id].marker = "none")
    OBVIOUS
  <2>2. SetOK(sets[id])
    BY <1>2 DEF SetsInv
  <2>3. CASE sets'[id] = Retired(sets[id], Retirement(sets[id], snap))
    <3>1. PICK status, reason :
                status \in {"superseded", "invalidated"} /\ reason # ""
                /\ Retirement(sets[id], snap) = <<status, reason>>
      BY RetirementIs
    <3>2. sets'[id] = Retired(sets[id], <<status, reason>>)
      BY <2>3, <3>1
    <3>3. /\ SetOK(Retired(sets[id], <<status, reason>>))
          /\ Retired(sets[id], <<status, reason>>).line = sets[id].line
          /\ sets[id].marker # "cleared" => Retired(sets[id], <<status, reason>>).marker = "none"
      BY <2>2, <3>1, RetiredIs
    <3>4. QED
      BY <3>2, <3>3
  <2>4. CASE sets'[id] = sets[id]
    BY <2>2, <2>4
  <2>5. QED
    BY <1>4, <2>3, <2>4 DEF Retire
<1>12. SetsInv'
  BY <1>2, <1>10, <1>11, SetsOneByOne
<1>13. StateInv'
  BY <1>2, <1>6 DEF StateInv
<1>14. \A id, l : (Presentable(id, l) => Presentable(id, l)') /\ (OfLine(id, l) => OfLine(id, l)')
  BY <1>10, <1>11 DEF Presentable, OfLine, Outrun
<1>15. /\ \A a \in {Tick, Sweep} : ~Refreshing(a)'
       /\ task'[Flow] = task[Flow] /\ task'[Cleaner] = task[Cleaner]
  BY <1>3, <1>5, <1>7, <1>8 DEF Refreshing, At, Actors, Tick, Sweep, Flow, Cleaner
<1>16. QED
  BY <1>6, <1>9, <1>12, <1>13, <1>14, <1>15, SetsStep DEF AdvisoryInv, ClearInv, At

\* The line that is next is one of the invoice.
LEMMA NextLineIs ==
    ASSUME task[Tick].todo \subseteq DOMAIN Lines, task[Tick].todo # {}
    PROVE  NextLine \in LineSet
<1> DEFINE todo == task[Tick].todo
<1>1. DOMAIN Lines = 1 .. Len(Lines) /\ Len(Lines) \in Nat
  BY LineAssumption
<1>2. todo \in SUBSET Nat /\ todo # {}
  BY <1>1
<1> HIDE DEF todo
<1>3. PICK m \in todo : \A i \in todo : m <= i
  BY <1>2, LeastNat
<1>4. Min(todo) \in todo
  BY <1>3 DEF Min
<1>5. Min(todo) \in DOMAIN Lines
  BY <1>4 DEF todo
<1>6. QED
  BY <1>5 DEF NextLine, LineSet, ToSet, todo

LEMMA NewSetIs ==
    ASSUME StateInv, NEW line \in LineSet, NEW version, NEW read \in DOMAIN Catalogs, NEW history \in BOOLEAN
    PROVE  SetOK(NewSet(line, version, read, history))
<1> DEFINE s == NewSet(line, version, read, history)
<1>1. engine.suggest[read][line][history] = SuggestedFor(read, line, history)
  BY DEF StateInv
<1>2. /\ DOMAIN s = SetFields /\ s.line = line /\ s.catalog = read /\ s.history = history
      /\ s.input = Facts[line] /\ s.result = SuggestedFor(read, line, history) /\ s.status = "current"
      /\ s.reason = "" /\ s.age = 0 /\ s.marker = "none"
  BY <1>1 DEF NewSet, SetFields
<1> HIDE DEF s
<1>3. /\ s.status \in {"current", "superseded", "invalidated"} /\ (s.status = "current") = (s.reason = "")
      /\ s.marker \in {"none", "shown", "cleared"} /\ s.age \in 0 .. Cutoff + 1
      /\ (s.status = "current" /\ s.marker = "cleared" => s.age > Cutoff)
  BY <1>2, Zero
<1>4. /\ s.line \in LineSet /\ s.catalog \in DOMAIN Catalogs /\ s.history \in BOOLEAN
      /\ s.input = Facts[s.line] /\ s.result = SuggestedFor(s.catalog, s.line, s.history)
  BY <1>2
<1>5. DOMAIN s = SetFields
  BY <1>2
<1>6. SetOK(s)
  BY <1>3, <1>4, <1>5 DEF SetOK
<1>7. QED
  BY <1>6 DEF s

LEMMA Appended ==
    ASSUME NEW n \in Nat, NEW k, k = [i \in 1 .. n |-> k[i]], NEW x
    PROVE  /\ DOMAIN Append(k, x) = 1 .. n + 1
           /\ (\A i \in 1 .. n : Append(k, x)[i] = k[i]) /\ Append(k, x)[n + 1] = x
<1> DEFINE S == {k[i] : i \in 1 .. n} \cup {x}
<1> DEFINE e(i) == k[i]
<1>1. [i \in 1 .. n |-> e(i)] \in Seq(S)
  <2>1. \A i \in 1 .. n : e(i) \in S
    OBVIOUS
  <2> HIDE DEF e, S
  <2>2. QED
    BY <2>1, IsASeq
<1>2. k \in Seq(S)
  BY <1>1
<1>3. Len(k) = n
  <2>1. DOMAIN k = 1 .. n /\ DOMAIN k = 1 .. Len(k) /\ Len(k) \in Nat
    BY <1>2, LenProperties
  <2>2. QED
    BY <2>1
<1>4. QED
  BY <1>2, <1>3

\* The new set is appended; the old ones only leave.
LEMMA RegenerateStep == ASSUME AdvisoryInv, Regenerate PROVE AdvisoryInv'
<1> DEFINE t == task[Tick]
           line == NextLine
           old == {id \in Existing(line) : Current(id)}
           why(id) == ReplacementReason(sets[id], line, t.catalog)
           kept == [id \in DOMAIN sets |-> IF id \in old THEN Retired(sets[id], <<"superseded", why(id)>>) ELSE sets[id]]
           new == NewSet(line, t.snap.version, t.catalog, t.history)
           r == [task[Tick] EXCEPT !.todo = LineDone(task[Tick].todo)]
<1>1. /\ At(Tick, "lines") /\ t.todo # {} /\ ~Unchanged(line) /\ sets' = Append(kept, new)
      /\ UNCHANGED <<committed, catalog, odoo, lock, shows, engine, outrun>>
  BY DEF Regenerate
<1>2. /\ TaskInv /\ StateInv /\ SetsInv /\ Tick \in Actors
      /\ lock = Tick /\ DOMAIN task[Tick] = TaskFields /\ At(Sweep, "idle")
  BY <1>1, TickHolds DEF AdvisoryInv, Actors, At
<1>3. t.todo \subseteq DOMAIN Lines /\ t.catalog \in DOMAIN Catalogs /\ t.history \in BOOLEAN
  BY <1>1, <1>2 DEF TaskInv
<1>4. line \in LineSet
  BY <1>1, <1>3, NextLineIs
<1>5. SetOK(new)
  <2> HIDE DEF line
  <2>1. QED
    BY <1>2, <1>3, <1>4, NewSetIs
<1>6. task' = [task EXCEPT ![Tick] = r]
  BY <1>2 DEF Regenerate, TaskFields
<1>7. DOMAIN r = TaskFields /\ r.pc = "lines" /\ r.todo \subseteq DOMAIN Lines /\ r.catalog = t.catalog /\ r.history = t.history
  BY <1>1, <1>2, <1>3 DEF TaskFields, At, LineDone
<1> HIDE DEF r, new
<1>8. DOMAIN task' = Actors /\ task'[Tick] = r /\ \A b \in Actors : b # Tick => task'[b] = task[b]
  BY <1>2, <1>6, OneTask
<1>9. TaskInv'
  BY <1>1, <1>2, <1>3, <1>7, <1>8 DEF TaskInv, At, Actors, Tick, Sweep, Flow, Cleaner
<1>10. \A id \in DOMAIN sets :
        /\ SetOK(kept[id]) /\ kept[id].line = sets[id].line
        /\ kept[id] = sets[id] \/ (sets[id].marker # "cleared" => kept[id].marker = "none")
  <2>1. SUFFICES ASSUME NEW id \in DOMAIN sets
                 PROVE  /\ SetOK(kept[id]) /\ kept[id].line = sets[id].line
                        /\ kept[id] = sets[id] \/ (sets[id].marker # "cleared" => kept[id].marker = "none")
    OBVIOUS
  <2>2. SetOK(sets[id])
    BY <1>2 DEF SetsInv
  <2>3. CASE id \in old
    <3>1. why(id) # ""
      BY <1>1, <2>3 DEF Unchanged, Existing
    <3>2. kept[id] = Retired(sets[id], <<"superseded", why(id)>>)
      BY <2>3
    <3> DEFINE reason == why(id)
               s == Retired(sets[id], <<"superseded", reason>>)
    <3> HIDE DEF reason
    <3>3. SetOK(s) /\ s.line = sets[id].line /\ (sets[id].marker # "cleared" => s.marker = "none")
      <4>1. reason # "" /\ "superseded" \in {"superseded", "invalidated"}
        BY <3>1 DEF reason
      <4>2. QED
        BY <2>2, <4>1, RetiredIs
    <3>4. kept[id] = s
      BY <3>2 DEF reason
    <3> HIDE DEF s, kept
    <3>5. QED
      BY <3>3, <3>4
  <2>4. CASE id \notin old
    BY <2>2, <2>4
  <2>5. QED
    BY <2>3, <2>4
<1>11. PICK n \in Nat : DOMAIN sets = 1 .. n
  BY <1>2 DEF SetsInv
<1>12. /\ DOMAIN sets' = 1 .. n + 1
       /\ (\A i \in 1 .. n : sets'[i] = kept[i]) /\ sets'[n + 1] = new
  <2>1. kept = [i \in 1 .. n |-> kept[i]]
    BY <1>11
  <2> HIDE DEF kept
  <2>2. QED
    BY <1>1, <2>1, Appended
<1> HIDE DEF kept
<1>13. SetsInv'
  <2>1. \A i \in 1 .. n + 1 : i \in 1 .. n \/ i = n + 1
    OBVIOUS
  <2>2. \A i \in DOMAIN sets' : SetOK(sets'[i])
    BY <1>5, <1>10, <1>11, <1>12, <2>1
  <2>3. \E m \in Nat : DOMAIN sets' = 1 .. m
    BY <1>12
  <2>4. QED
    BY <2>2, <2>3 DEF SetsInv, SetOK
<1>14. StateInv'
  BY <1>1, <1>2 DEF StateInv
<1>15. \A id, l : (Presentable(id, l) => Presentable(id, l)') /\ (OfLine(id, l) => OfLine(id, l)')
  <2>1. SUFFICES ASSUME NEW id, NEW l, OfLine(id, l) PROVE OfLine(id, l)' /\ (Presentable(id, l) => Presentable(id, l)')
    BY DEF Presentable
  <2>2. id \in 1 .. n /\ id \in 1 .. n + 1
    BY <1>11, <2>1 DEF OfLine
  <2>3. sets'[id] = kept[id]
    BY <1>12, <2>2
  <2>4. kept[id].line = sets[id].line /\ (kept[id] = sets[id] \/ (sets[id].marker # "cleared" => kept[id].marker = "none"))
    BY <1>10, <1>11, <2>2
  <2>5. QED
    BY <1>12, <2>1, <2>2, <2>3, <2>4 DEF Presentable, OfLine, Outrun
<1>16. /\ \A a \in {Tick, Sweep} : ~Refreshing(a)'
       /\ task'[Flow] = task[Flow] /\ task'[Cleaner] = task[Cleaner]
  BY <1>2, <1>7, <1>8 DEF Refreshing, At, Actors, Tick, Sweep, Flow, Cleaner
<1>17. QED
  BY <1>1, <1>9, <1>13, <1>14, <1>15, <1>16, SetsStep DEF AdvisoryInv, ClearInv, At

\* A set that grows older stays current until it is retired.
LEMMA TimePassesStep == ASSUME AdvisoryInv, TimePasses PROVE AdvisoryInv'
<1> DEFINE aged(id) == [sets[id] EXCEPT !.age = sets[id].age + 1]
<1>1. /\ UNCHANGED <<committed, catalog, odoo, task, lock, shows, engine, outrun>>
      /\ sets' = [id \in DOMAIN sets |-> IF Current(id) /\ Fresh(id) THEN [sets[id] EXCEPT !.age = @ + 1] ELSE sets[id]]
  BY DEF TimePasses, CurrentIds
<1>2. SetsInv /\ StateInv /\ TaskInv
  BY DEF AdvisoryInv
<1>3. \A id \in DOMAIN sets :
        /\ SetOK(sets'[id]) /\ sets'[id].line = sets[id].line /\ sets'[id].status = sets[id].status
        /\ sets'[id].marker = sets[id].marker
        /\ sets[id].age \in Int /\ sets'[id].age \in Int /\ sets[id].age <= sets'[id].age
  <2>1. SUFFICES ASSUME NEW id \in DOMAIN sets
                 PROVE  /\ SetOK(sets'[id]) /\ sets'[id].line = sets[id].line /\ sets'[id].status = sets[id].status
                        /\ sets'[id].marker = sets[id].marker
                        /\ sets[id].age \in Int /\ sets'[id].age \in Int /\ sets[id].age <= sets'[id].age
    OBVIOUS
  <2>2. SetOK(sets[id]) /\ sets[id].age \in Int
    BY <1>2, SetAge DEF SetsInv
  <2>3. CASE Current(id) /\ Fresh(id)
    <3>1. DOMAIN sets[id] = SetFields
      BY <2>2 DEF SetOK
    <3>2. sets'[id] = aged(id)
      BY <1>1, <2>3, <3>1 DEF SetFields
    <3>3. /\ SetOK(aged(id)) /\ aged(id).line = sets[id].line /\ aged(id).status = sets[id].status
          /\ aged(id).marker = sets[id].marker /\ aged(id).age = sets[id].age + 1
      <4>1. sets[id].status = "current" /\ sets[id].age <= Cutoff
        BY <2>3 DEF Current, Fresh
      <4>2. QED
        BY <2>2, <4>1, AgedIs
    <3> HIDE DEF aged
    <3>4. QED
      BY <2>2, <3>2, <3>3
  <2>4. CASE ~(Current(id) /\ Fresh(id))
    BY <1>1, <2>2, <2>4
  <2>5. QED
    BY <2>3, <2>4
<1>4. DOMAIN sets' = DOMAIN sets
  BY <1>1
<1>5. SetsInv'
  BY <1>2, <1>3, <1>4, SetsOneByOne
<1>6. StateInv' /\ TaskInv'
  BY <1>1, <1>2 DEF StateInv, TaskInv, At
<1>7. \A id, l : (Presentable(id, l) => Presentable(id, l)') /\ (OfLine(id, l) => OfLine(id, l)')
  BY <1>3, <1>4 DEF Presentable, OfLine, Outrun
<1>8. SuggestionsShownInv' /\ HintsInv'
  <2>1. ASSUME NEW l \in LineSet, odoo.shown[l] # 0
        PROVE  OfLine(odoo.shown[l], l)' /\ (l \notin outrun.lines => Presentable(odoo.shown[l], l)')
    <3>1. OfLine(odoo.shown[l], l) /\ (l \notin outrun.lines => Presentable(odoo.shown[l], l))
      BY <2>1 DEF AdvisoryInv, SuggestionsShownInv
    <3>2. QED
      BY <1>1, <1>7, <3>1
  <2>2. ASSUME NEW a \in Showers, At(a, "write") PROVE HintsOK(a)'
    <3>1. HintsOK(a)
      BY <2>2 DEF AdvisoryInv, HintsInv
    <3>2. QED
      BY <1>1, <1>7, <3>1 DEF HintsOK, Outrun
  <2>3. QED
    BY <1>1, <2>1, <2>2 DEF SuggestionsShownInv, HintsInv, At
<1>9. RefreshInv'
  <2>1. SUFFICES ASSUME NEW a \in {Tick, Sweep}, Refreshing(a)
                 PROVE  /\ OnlyAgeing(a)'
                        /\ At(a, "write") => VividHints(a, a)'
                        /\ At(Flow, "write") /\ ~outrun.flow => VividHints(a, Flow)'
                        /\ At(a, "mark") => VividShown(a)'
    BY <1>1 DEF RefreshInv, Refreshing, At
  <2>2. /\ OnlyAgeing(a)
        /\ At(a, "write") => VividHints(a, a)
        /\ At(Flow, "write") /\ ~outrun.flow => VividHints(a, Flow)
        /\ At(a, "mark") => VividShown(a)
    BY <2>1 DEF AdvisoryInv, RefreshInv
  <2>3. OnlyAgeing(a)'
    BY <1>1, <1>3, <1>4, <2>2 DEF OnlyAgeing
  <2>4. \A id : Vivid(a, id) => Vivid(a, id)'
    BY <1>1, <1>3, <1>4 DEF Vivid, Current
  <2>5. QED
    BY <1>1, <2>2, <2>3, <2>4 DEF VividHints, VividShown
<1>10. ClearInv'
  BY <1>1 DEF AdvisoryInv, ClearInv, At
<1>11. QED
  BY <1>5, <1>6, <1>8, <1>9, <1>10 DEF AdvisoryInv

\* What the mark takes for shown is shown, and stays presentable; what it takes for gone is not.
LEMMA MarkStep == ASSUME AdvisoryInv, NEW a \in Showers, Mark(a) PROVE AdvisoryInv'
<1> DEFINE t == task[a]
           still(id) == id \in t.ids /\ sets[id].age >= t.ages[id]
           m(id) == IF t.ages[id] > Cutoff THEN "cleared" ELSE "shown"
<1>1. a \in {Tick, Sweep} /\ At(a, "mark") /\ ~At(a, "idle") /\ Refreshing(a)
  BY OnlyRefreshers DEF Mark, At, Refreshing
<1>2. /\ sets' = [id \in DOMAIN sets |-> IF still(id) THEN [sets[id] EXCEPT !.marker = m(id)] ELSE sets[id]]
      /\ Release(a, FALSE) /\ UNCHANGED <<committed, catalog, odoo, shows, engine, outrun>>
  BY DEF Mark
<1>3. SetsInv /\ StateInv /\ TaskInv /\ OnlyAgeing(a) /\ VividShown(a)
  BY <1>1 DEF AdvisoryInv, RefreshInv
<1>4. At(Flow, "write") /\ ~outrun.flow => VividHints(a, Flow)
  BY <1>1 DEF AdvisoryInv, RefreshInv, At
<1>5. /\ TaskInv' /\ task'[a] = [Idle EXCEPT !.waiting = FALSE]
      /\ \A b \in Actors : b # a => task'[b] = task[b]
  BY <1>1, <1>2, ReleaseTask
<1>6. \A id \in DOMAIN sets :
        /\ SetOK(sets'[id]) /\ sets'[id].line = sets[id].line /\ sets'[id].status = sets[id].status
        /\ Vivid(a, id) => sets'[id].marker \in {sets[id].marker, "shown"}
  <2>1. SUFFICES ASSUME NEW id \in DOMAIN sets
                 PROVE  /\ SetOK(sets'[id]) /\ sets'[id].line = sets[id].line /\ sets'[id].status = sets[id].status
                        /\ Vivid(a, id) => sets'[id].marker \in {sets[id].marker, "shown"}
    OBVIOUS
  <2>2. SetOK(sets[id]) /\ sets[id].age \in Int
    BY <1>3, SetAge DEF SetsInv
  <2>3. t.ages[id] \in Int /\ t.ages[id] <= sets[id].age /\ Cutoff \in Int
    BY <1>3, AdvisoryAssumption DEF OnlyAgeing
  <2>4. CASE still(id)
    <3> DEFINE marker == m(id)
               s == [sets[id] EXCEPT !.marker = marker]
    <3>1. marker \in {"none", "shown", "cleared"} /\ (marker = "cleared" => sets[id].age > Cutoff)
      BY <2>2, <2>3
    <3>2. Vivid(a, id) => marker = "shown"
      BY <2>3 DEF Vivid
    <3>3. sets'[id] = s
      BY <1>2, <2>4
    <3> HIDE DEF marker, m
    <3>4. SetOK(s) /\ s.line = sets[id].line /\ s.status = sets[id].status /\ s.marker = marker
      BY <2>2, <3>1, MarkedIs
    <3> HIDE DEF s
    <3>5. QED
      BY <3>2, <3>3, <3>4
  <2>5. CASE ~still(id)
    BY <1>2, <2>2, <2>5
  <2>6. QED
    BY <2>4, <2>5
<1>7. DOMAIN sets' = DOMAIN sets
  BY <1>2
<1>8. SetsInv'
  BY <1>3, <1>6, <1>7, SetsOneByOne
<1>9. StateInv'
  BY <1>2, <1>3 DEF StateInv
<1>10. \A id, l : (OfLine(id, l) => OfLine(id, l)') /\ (Presentable(id, l) /\ Vivid(a, id) => Presentable(id, l)')
  BY <1>6, <1>7 DEF Presentable, OfLine, Outrun, Vivid, Current
<1>11. SuggestionsShownInv'
  <2>1. SUFFICES ASSUME NEW l \in LineSet, odoo.shown[l] # 0
                 PROVE  OfLine(odoo.shown[l], l)' /\ (l \notin outrun.lines => Presentable(odoo.shown[l], l)')
    BY <1>2 DEF SuggestionsShownInv
  <2>2. /\ OfLine(odoo.shown[l], l)
        /\ l \notin outrun.lines => Presentable(odoo.shown[l], l) /\ Vivid(a, odoo.shown[l])
    BY <1>3, <2>1 DEF AdvisoryInv, SuggestionsShownInv, VividShown
  <2>3. QED
    BY <1>2, <1>10, <2>2
<1>12. \A b \in {Tick, Sweep} : task'[b].pc = "idle"
  <2>1. task'[a].pc = "idle"
    BY <1>5, IdleFields
  <2>2. \A b \in {Tick, Sweep} : b # a => task[b].pc = "idle" /\ b \in Actors
    BY <1>1, RefresherHolds DEF At, Actors
  <2>3. QED
    BY <1>5, <2>1, <2>2
<1>13. a # Flow /\ task'[Flow] = task[Flow] /\ task'[Cleaner] = task[Cleaner]
  BY <1>1, <1>5 DEF Actors, Tick, Sweep, Flow, Cleaner
<1>14. HintsInv'
  <2>1. SUFFICES ASSUME At(Flow, "write") PROVE HintsOK(Flow)'
    BY <1>12, <1>13 DEF HintsInv, At, Showers
  <2>2. HintsOK(Flow) /\ (~outrun.flow => VividHints(a, Flow))
    BY <1>4, <2>1 DEF AdvisoryInv, HintsInv, Showers
  <2>3. \A l \in LineSet : task[Flow].hints[l] # 0 =>
          OfLine(task[Flow].hints[l], l)' /\ (~Outrun(Flow) => Presentable(task[Flow].hints[l], l)')
    BY <1>10, <1>13, <2>2 DEF HintsOK, VividHints, Outrun
  <2>4. QED
    BY <1>2, <1>13, <2>2, <2>3 DEF HintsOK, Outrun
<1>15. RefreshInv'
  BY <1>12 DEF RefreshInv, Refreshing
<1>16. ClearInv'
  <2>1. \A b \in Showers : At(b, "write")' => b = Flow /\ At(Flow, "write")
    BY <1>12, <1>13 DEF At, Showers
  <2>2. QED
    BY <1>2, <1>13, <2>1 DEF AdvisoryInv, ClearInv, At
<1>17. QED
  BY <1>5, <1>8, <1>9, <1>11, <1>14, <1>15, <1>16 DEF AdvisoryInv

LEMMA AdvisoryStep == ASSUME AdvisoryInv, [AdvisoryNext]_advvars PROVE AdvisoryInv'
<1>1. CASE TickStep
  BY <1>1, StartTickStep, ReadCatalogStep, CatalogFailsStep, KeepLineStep, RegenerateStep, LineFailsStep,
     RevalidateStep, EndTickStep DEF TickStep
<1>2. CASE StartSweep
  BY <1>2, StartSweepStep
<1>3. ASSUME NEW a \in Showers, RefreshStep(a) PROVE AdvisoryInv'
  BY <1>3, NothingToRefreshStep, StartRefreshStep, BuildRowsStep, WriteStep, WriteFailsStep, MarkStep,
     BackoffEndsStep DEF RefreshStep
<1>4. CASE ReviewChanges \/ Project \/ CatalogChanges \/ TimePasses \/ Restart \/ StartClear
  BY <1>4, FlowStep, CatalogChangesStep, TimePassesStep, RestartStep, StartClearStep
<1>5. CASE ClearStep
  BY <1>5, ClearRowsStep, VerifyClearedStep, ClearIncompleteStep, ConfirmStep DEF ClearStep
<1>6. CASE UNCHANGED advvars
  <2>1. UNCHANGED <<committed, catalog, sets, odoo, task, lock, shows, engine, outrun>>
    BY <1>6 DEF advvars
  <2>2. StateInv' /\ TaskInv'
    BY <2>1 DEF AdvisoryInv, StateInv, TaskInv, At
  <2>3. \A a \in Showers : SameWork(a)
    BY <2>1 DEF SameWork
  <2>4. QED
    BY <2>1, <2>2, <2>3, CalmStep DEF AdvisoryInv, ClearInv, At
<1>7. QED
  BY <1>1, <1>2, <1>3, <1>4, <1>5, <1>6 DEF AdvisoryNext

-----------------------------------------------------------------------------

\* What Odoo shows and what the Hub believes it shows agree, and a suggestion is shown for what
\* it is: for every invoice line, catalog, price list, cutoff and number of sets, however the
\* flows that project the review without the lock interleave with the refreshes.  A set that will
\* never be refreshed again is shown only where a flow wrote what a refresh had outrun.
THEOREM DisplayTruth == AdvisorySpec => []DisplayIsTrue
<1>1. AdvisoryInit => AdvisoryInv
  BY AdvisoryInitial
<1>2. AdvisoryInv /\ [AdvisoryNext]_advvars => AdvisoryInv'
  BY AdvisoryStep
<1>3. ASSUME AdvisoryInv PROVE DisplayIsTrue
  <2>1. SetsInv /\ StateInv /\ TaskInv /\ SuggestionsShownInv /\ ClearInv
    BY <1>3 DEF AdvisoryInv
  <2>2. AdvisoryTypeOK
    <3>1. \A id \in DOMAIN sets :
            /\ sets[id].status \in {"current", "superseded", "invalidated"}
            /\ (sets[id].status = "current") = (sets[id].reason = "")
            /\ sets[id].marker \in {"none", "shown", "cleared"} /\ sets[id].age \in 0 .. Cutoff + 1
      BY <2>1 DEF SetsInv, SetOK
    <3>2. \A l \in LineSet : odoo.shown[l] # 0 => sets[odoo.shown[l]].line = l
      BY <2>1 DEF SuggestionsShownInv, Presentable, OfLine
    <3>3. /\ committed.pending \in BOOLEAN /\ committed.open \subseteq LineSet /\ catalog \in DOMAIN Catalogs
          /\ lock \in Actors \cup {NoOne} /\ outrun.lines \subseteq LineSet
          /\ \A a \in {Tick, Sweep} : ~At(a, "idle") => lock = a
      BY <2>1 DEF StateInv, TaskInv
    <3>4. QED
      BY <3>1, <3>2, <3>3 DEF AdvisoryTypeOK
  <2>3. OnlyOutrunFlowsShowMarked
    BY <2>1 DEF SuggestionsShownInv, Presentable, Done, OnlyOutrunFlowsShowMarked
  <2>4. ClearReportIsTrue
    BY <2>1 DEF ClearInv, ClearReportIsTrue
  <2>5. ASSUME NEW id \in DOMAIN sets
        PROVE  LET s == sets[id] IN
               /\ s.line \in LineSet /\ s.catalog \in DOMAIN Catalogs /\ s.input = Facts[s.line]
               /\ s.result = SuggestProducts(Catalogs[s.catalog], Facts[s.line], Supplier, KnownPriors(s.history))
    BY <2>1, <2>5 DEF SetsInv, SetOK, SuggestedFor
  <2>6. ReclassificationFindsIt
    <3>1. SUFFICES ASSUME NEW id \in DOMAIN sets, sets[id].result.reclassify
                   PROVE  sets[id].result.suggestions[1].product \in
                            SupplierProductOutcome(Catalogs[sets[id].catalog], sets[id].input, Supplier).ids
      BY DEF ReclassificationFindsIt
    <3>2. QED
      BY <2>5, <3>1, SuggestionsAreTrue
  <2>7. UnflaggedTopIsClear
    <3>1. SUFFICES ASSUME NEW id \in DOMAIN sets,
                          sets[id].result.suggestions # <<>>, ~sets[id].result.ambiguous, ~sets[id].result.reclassify,
                          NEW c \in Best(Candidates(Catalogs[sets[id].catalog], sets[id].input, Supplier,
                                                    KnownPriors(sets[id].history)))
                   PROVE  \/ c.product = sets[id].result.suggestions[1].product
                          \/ c.tier > sets[id].result.suggestions[1].tier
                          \/ sets[id].result.suggestions[1].score - c.score > TieMargin
      BY DEF UnflaggedTopIsClear
    <3>2. QED
      BY <2>5, <3>1, SuggestionsAreTrue
  <2>8. QED
    BY <2>2, <2>3, <2>4, <2>6, <2>7 DEF DisplayIsTrue
<1>4. QED
  BY <1>1, <1>2, <1>3, PTL DEF AdvisorySpec

=============================================================================
