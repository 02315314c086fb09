---------------------------- MODULE ReviewDeskProofs ----------------------------
(***************************************************************************)
(* Proofs about ReviewQueue, for every number of concurrent requests, keys *)
(* and snapshots and every number of versions: the rows of a review are    *)
(* written once, tell one history, and an accepted decision is pinned to   *)
(* what its version showed.                                                *)
(*                                                                         *)
(* A request decides on what it read and writes later, so the invariant    *)
(* has to say what a request still knows when it writes (Known); that the  *)
(* knowledge survives the commits of the others is the lemma KnownStays,   *)
(* from the one-way motion of the rows (Advance).                          *)
(*                                                                         *)
(* And about OperatorRequests, the ledger the operators' requests come     *)
(* through, for every set of requests, channels and kinds, every number of *)
(* attempts, versions and submissions, and every pattern of failed calls   *)
(* and deaths of the tick.                                                 *)
(***************************************************************************)
EXTENDS ReviewQueue, OperatorRequests, TLAPS, FiniteSetTheorems

Proposals == [op : {"reclassify", "reclassify_write"}, version : Versions, class : Classes,
              content : Contents \union {None}]
Recoveries == [op : {"recovery", "recovery_insert"}, version : Versions, content : Contents]

\* The version a request works on is one the review has reached.
Reached(v) == v \in Versions /\ review # None /\ v <= review.version

\* The pin is of the purpose of version v, and of its accounting resolution.
PinHolds(pin, v) ==
    invoice.productCoded =>
        /\ pin # None /\ pin[1] = purposes[v]
        /\ pin[1] = "internal_use" => pin[2] = resolutions[v]

KnownImport(t) == t.class \in Classes /\ t.content \in Contents \union {None}
KnownPurpose(t) == Reached(t.version) /\ t.purpose \in Purposes
KnownResolution(t) == Reached(t.version) /\ t.treatment \in Treatments
KnownProposal(t) ==
    /\ t \in Proposals /\ Reached(t.version)
    /\ t.op = "reclassify_write" => t.version < MaxVersion
KnownRecovery(t) ==
    /\ t \in Recoveries /\ Reached(t.version)
    /\ \A e \in events : e.from + 1 = t.version => e.class = "clean"
KnownEvidence(t) ==
    /\ t.evidence \in Evidence /\ Reached(t.version)
    /\ t.evidence.stage1 = stage1[t.version]
KnownDecision(t) ==
    /\ t.version \in Versions /\ t.key \in Keys /\ t.kind \in DecisionKinds
    /\ t.kind = "vendor_bill" => KnownEvidence(t)
KnownWrite(t) ==
    /\ t.pin \in Pins /\ t.evidence \in Evidence \union {None}
    /\ t.kind = "vendor_bill" =>
           PinHolds(t.pin, t.version) \/ \E d \in decisions : d.key = t.key

\* What a request knows, from its reads, of the rows as they are now.
Known(t) ==
    /\ t.op = "import" => KnownImport(t)
    /\ t.op = "purpose" => KnownPurpose(t)
    /\ t.op = "resolution" => KnownResolution(t)
    /\ t.op = "resolved" => Reached(t.version)
    /\ t.op \in {"reclassify", "reclassify_write"} => KnownProposal(t)
    /\ t.op \in {"recovery", "recovery_insert"} => KnownRecovery(t)
    /\ t.op = "decision" => KnownDecision(t) /\ t.kind = "vendor_bill"
    /\ t.op = "decision_write" => KnownDecision(t) /\ KnownWrite(t)

RowsSound ==
    /\ ReviewTypeOK /\ VersionChain /\ ExecutabilityExplained /\ DecisionPinned
    /\ invoice \in Invoices
    /\ \A e \in events : e.from < MaxVersion

TasksKnown ==
    /\ task = [c \in Callers |-> task[c]]
    /\ \A c \in Callers : task[c] # None => Known(task[c])

AnswersDurable == answer = [c \in Callers |-> answer[c]] /\ AcceptedIsDurable

\* The inductive invariant.
ReviewInv == RowsSound /\ TasksKnown /\ AnswersDurable

-----------------------------------------------------------------------------
(* The rows move one way. *)

Advance ==
    /\ invoice' = invoice
    /\ \A v \in Versions :
           /\ stage1[v] # None => stage1'[v] = stage1[v]
           /\ purposes[v] # None => purposes'[v] = purposes[v]
           /\ resolutions[v] # None => resolutions'[v] = resolutions[v]
    /\ events \subseteq events' /\ decisions \subseteq decisions'
    /\ review # None =>
           /\ review' # None /\ review'.version >= review.version
           /\ review.status # "pending_review" => review' = review
           /\ \A e \in events' : e \in events \/ e.from >= review.version

\* The two conditional UPDATEs of the review row, column by column.
ReclassifiedRow(r, v, k) == [r EXCEPT !.version = v, !.class = k]
DecidedRow(r, v, s) == [r EXCEPT !.version = v, !.status = s]

LEMMA ReviewRecords ==
  ASSUME NEW r \in Reviews, NEW v \in 1 .. MaxVersion + 1, NEW k \in Classes, NEW s \in Statuses
  PROVE  /\ ReclassifiedRow(r, v, k) \in Reviews
         /\ ReclassifiedRow(r, v, k).version = v
         /\ ReclassifiedRow(r, v, k).class = k
         /\ ReclassifiedRow(r, v, k).status = r.status
         /\ DecidedRow(r, v, s) \in Reviews
         /\ DecidedRow(r, v, s).version = v
         /\ DecidedRow(r, v, s).class = r.class
         /\ DecidedRow(r, v, s).status = s
<1> DEFINE r1 == [r EXCEPT !.version = v]
<1>1. r1 \in Reviews /\ r1.version = v /\ r1.class = r.class /\ r1.status = r.status
  BY DEF Reviews
<1>2. /\ ReclassifiedRow(r, v, k) = [r1 EXCEPT !.class = k]
      /\ DecidedRow(r, v, s) = [r1 EXCEPT !.status = s]
  BY DEF ReclassifiedRow, DecidedRow
<1> HIDE DEF r1
<1>3. /\ [r1 EXCEPT !.class = k] \in Reviews /\ [r1 EXCEPT !.class = k].class = k
      /\ [r1 EXCEPT !.class = k].version = r1.version
      /\ [r1 EXCEPT !.class = k].status = r1.status
  BY <1>1 DEF Reviews
<1>4. /\ [r1 EXCEPT !.status = s] \in Reviews /\ [r1 EXCEPT !.status = s].status = s
      /\ [r1 EXCEPT !.status = s].version = r1.version
      /\ [r1 EXCEPT !.status = s].class = r1.class
  BY <1>1 DEF Reviews
<1> QED BY <1>1, <1>2, <1>3, <1>4

\* What a request knows stays known when others commit.
LEMMA KnownStays ==
  ASSUME NEW t, RowsSound, RowsSound', Advance, Known(t)
  PROVE  Known(t)'
<1> USE ReviewConstants
<1>t. /\ stage1 \in [Versions -> Contents \union {None}]
      /\ purposes \in [Versions -> Purposes \union {None}]
      /\ resolutions \in [Versions -> Treatments \union {None}]
      /\ events \subseteq Events /\ events' \subseteq Events
      /\ review = None \/ review \in Reviews
      /\ review' = None \/ review' \in Reviews
  BY DEF RowsSound, ReviewTypeOK
<1>1. ASSUME NEW v, Reached(v) PROVE Reached(v)'
  BY <1>1, <1>t DEF Reached, Advance, Versions, Reviews
<1>2. ASSUME KnownRecovery(t) PROVE KnownRecovery(t)'
  <2>1. t \in Recoveries /\ Reached(t.version)' /\ review # None /\ t.version <= review.version
        /\ t.version \in Versions
    BY <1>1, <1>2 DEF KnownRecovery, Reached
  <2>2. ASSUME NEW e \in events', e.from + 1 = t.version PROVE e.class = "clean"
    <3>1. review.version \in Int /\ t.version \in Int /\ e.from \in Int
      BY <1>t, <2>1 DEF Reviews, Events, Versions
    <3>2. e \in events
      BY <2>1, <2>2, <3>1 DEF Advance
    <3> QED BY <1>2, <2>2, <3>2 DEF KnownRecovery
  <2> QED BY <2>1, <2>2 DEF KnownRecovery
<1>3. ASSUME KnownDecision(t) PROVE KnownDecision(t)'
  <2>1. ASSUME KnownEvidence(t) PROVE KnownEvidence(t)'
    <3>1. t.version \in Versions /\ stage1[t.version] # None
      BY <2>1, <1>t DEF KnownEvidence, Reached, Evidence
    <3> QED BY <2>1, <3>1, <1>1 DEF KnownEvidence, Advance
  <2> QED BY <1>3, <2>1 DEF KnownDecision
<1>4. ASSUME KnownWrite(t), t.version \in Versions PROVE KnownWrite(t)'
  <2>1. ASSUME PinHolds(t.pin, t.version) PROVE PinHolds(t.pin, t.version)'
    <3>1. CASE invoice.productCoded
      <4>1. t.pin \in Pins /\ t.pin # None /\ t.pin[1] = purposes[t.version]
            /\ (t.pin[1] = "internal_use" => t.pin[2] = resolutions[t.version])
        BY <1>4, <2>1, <3>1 DEF PinHolds, KnownWrite
      <4>2. CASE t.pin[1] = "internal_use"
        <5>1. t.pin[2] \in Treatments
          BY <4>1, <4>2 DEF Pins, ProductPins
        <5>2. purposes[t.version] # None /\ resolutions[t.version] # None
          BY <4>1, <4>2, <5>1 DEF Purposes
        <5> QED BY <1>4, <4>1, <4>2, <5>2 DEF PinHolds, Advance
      <4>3. CASE t.pin[1] # "internal_use"
        <5>1. t.pin[1] = "resale"
          BY <4>1, <4>3 DEF Pins, ProductPins
        <5>2. purposes[t.version] # None
          BY <4>1, <5>1 DEF Purposes
        <5> QED BY <1>4, <4>1, <4>3, <5>2 DEF PinHolds, Advance
      <4> QED BY <4>2, <4>3
    <3>2. CASE ~ invoice.productCoded
      BY <3>2 DEF PinHolds, Advance
    <3> QED BY <3>1, <3>2
  <2>2. (\E d \in decisions : d.key = t.key) => \E d \in decisions' : d.key = t.key
    BY DEF Advance
  <2> QED BY <1>4, <2>1, <2>2 DEF KnownWrite
<1>5. KnownDecision(t) => t.version \in Versions
  BY DEF KnownDecision
<1> QED
  BY <1>1, <1>2, <1>3, <1>4, <1>5
  DEF Known, KnownImport, KnownPurpose, KnownResolution, KnownProposal

-----------------------------------------------------------------------------
(* Every write keeps the rows sound and moves them one way. *)

\* The writes of the operations, for a request that knows t.
ImportWrites(t) ==
    /\ review = None
    /\ review' = [version |-> 1, status |-> "pending_review", class |-> t.class]
    /\ stage1' = [stage1 EXCEPT ![1] = t.content]
    /\ UNCHANGED <<invoice, purposes, resolutions, events, decisions>>
PurposeWrites(t) ==
    /\ purposes' = [purposes EXCEPT ![t.version] = IF @ = None THEN t.purpose ELSE @]
    /\ UNCHANGED <<invoice, review, stage1, resolutions, events, decisions>>
ResolutionWrites(t) ==
    /\ resolutions[t.version] \in {None, t.treatment}
    /\ resolutions' = [resolutions EXCEPT ![t.version] = t.treatment]
    /\ UNCHANGED <<invoice, review, stage1, purposes, events, decisions>>
ReclassificationWrites(t) ==
    /\ Pending(t.version) /\ Reclassified(t)
    /\ UNCHANGED <<invoice, purposes, resolutions, decisions>>
RecoveryWrites(t) ==
    /\ stage1' = [stage1 EXCEPT ![t.version] = IF @ = None THEN t.content ELSE @]
    /\ UNCHANGED <<invoice, review, purposes, resolutions, events, decisions>>
DecisionWrites(t) ==
    /\ {d \in decisions : d.key = t.key} = {}
    /\ DecisionApplied(t)
    /\ UNCHANGED <<invoice, stage1, purposes, resolutions, events>>

\* A decision stays pinned when the rows of its version stay as they are.
LEMMA PinsStay ==
  ASSUME RowsSound, Advance, decisions' = decisions PROVE DecisionPinned'
<1> USE ReviewConstants
<1> SUFFICES ASSUME NEW d \in decisions, d.kind = "vendor_bill"
             PROVE  /\ d.evidence # None /\ d.evidence.stage1 = stage1'[d.before]
                    /\ invoice'.productCoded =>
                           /\ d.pin # None /\ d.pin[1] = purposes'[d.before]
                           /\ d.pin[1] = "internal_use" => d.pin[2] = resolutions'[d.before]
  BY DEF DecisionPinned
<1>1. /\ d.before \in Versions /\ d.evidence \in Evidence /\ d.pin \in Pins
      /\ d.evidence.stage1 = stage1[d.before]
      /\ invoice.productCoded =>
             /\ d.pin # None /\ d.pin[1] = purposes[d.before]
             /\ d.pin[1] = "internal_use" => d.pin[2] = resolutions[d.before]
  BY DEF RowsSound, DecisionPinned, ReviewTypeOK, Decisions
<1>2. d.evidence.stage1 \in Contents /\ d.evidence # None
  BY <1>1 DEF Evidence
<1>3. stage1'[d.before] = stage1[d.before]
  BY <1>1, <1>2 DEF Advance
<1>4. ASSUME d.pin # None PROVE d.pin[1] \in Purposes
  BY <1>1, <1>4 DEF Pins, ProductPins, Purposes
<1>5. ASSUME d.pin # None, d.pin[1] = "internal_use" PROVE d.pin[2] \in Treatments
  BY <1>1, <1>5 DEF Pins, ProductPins
<1> QED BY <1>1, <1>2, <1>3, <1>4, <1>5 DEF Advance

LEMMA ImportSound ==
  ASSUME RowsSound, NEW t, KnownImport(t), ImportWrites(t) PROVE RowsSound' /\ Advance
<1> USE ReviewConstants
<1>0. 1 \in Versions /\ stage1 \in [Versions -> Contents \union {None}] /\ stage1[1] = None
      /\ events = {} /\ decisions = {} /\ MaxVersion \in Nat
  BY DEF RowsSound, ReviewTypeOK, VersionChain, ImportWrites, Versions
<1>1. Advance
  BY <1>0 DEF Advance, ImportWrites
<1>2. ReviewTypeOK'
  <2>1. review' \in Reviews /\ review' # None /\ review'.version = 1
    BY <1>0 DEF ImportWrites, Reviews, KnownImport, Statuses
  <2>2. stage1' \in [Versions -> Contents \union {None}]
    BY <1>0 DEF ImportWrites, KnownImport
  <2>3. \A v \in Versions : v > 1 => stage1'[v] = None
    BY <1>0 DEF RowsSound, ReviewTypeOK, ImportWrites, Versions
  <2> QED BY <2>1, <2>2, <2>3 DEF RowsSound, ReviewTypeOK, ImportWrites
<1>3. VersionChain'
  <2>1. review' # None /\ review'.version = 1 /\ review'.status = "pending_review"
    BY <1>0 DEF ImportWrites, Reviews, KnownImport, Statuses
  <2>2. 1 .. review'.version - 1 = {} /\ events' = {} /\ decisions' = {}
    BY <1>0, <2>1 DEF ImportWrites
  <2> QED BY <2>1, <2>2 DEF VersionChain
<1> QED
  BY <1>0, <1>1, <1>2, <1>3 DEF RowsSound, ImportWrites, ExecutabilityExplained, DecisionPinned

LEMMA PurposeSound ==
  ASSUME RowsSound, NEW t, KnownPurpose(t), PurposeWrites(t) PROVE RowsSound' /\ Advance
<1> USE ReviewConstants
<1>0. /\ t.version \in Versions /\ t.purpose \in Purposes /\ t.version <= review.version
      /\ review # None /\ review \in Reviews
      /\ purposes \in [Versions -> Purposes \union {None}]
  BY DEF RowsSound, ReviewTypeOK, KnownPurpose, Reached
<1>1. Advance
  BY <1>0 DEF Advance, PurposeWrites, Reviews
<1>2. ReviewTypeOK'
  <2>1. purposes' \in [Versions -> Purposes \union {None}]
    BY <1>0 DEF PurposeWrites
  <2>2. ASSUME NEW v \in Versions, v > review.version PROVE purposes'[v] = None
    BY <1>0, <2>2 DEF PurposeWrites, RowsSound, ReviewTypeOK, Versions, Reviews
  <2> QED BY <1>0, <2>1, <2>2 DEF RowsSound, ReviewTypeOK, PurposeWrites
<1>3. VersionChain' /\ ExecutabilityExplained'
  BY DEF RowsSound, VersionChain, ExecutabilityExplained, PurposeWrites
<1>4. DecisionPinned'
  BY <1>1, PinsStay DEF PurposeWrites
<1> QED BY <1>1, <1>2, <1>3, <1>4 DEF RowsSound, PurposeWrites

LEMMA ResolutionSound ==
  ASSUME RowsSound, NEW t, KnownResolution(t), ResolutionWrites(t) PROVE RowsSound' /\ Advance
<1> USE ReviewConstants
<1>0. /\ t.version \in Versions /\ t.treatment \in Treatments /\ t.version <= review.version
      /\ review # None /\ review \in Reviews
      /\ resolutions \in [Versions -> Treatments \union {None}]
  BY DEF RowsSound, ReviewTypeOK, KnownResolution, Reached
<1>1. Advance
  BY <1>0 DEF Advance, ResolutionWrites, Reviews
<1>2. ReviewTypeOK'
  <2>1. resolutions' \in [Versions -> Treatments \union {None}]
    BY <1>0 DEF ResolutionWrites
  <2>2. ASSUME NEW v \in Versions, v > review.version PROVE resolutions'[v] = None
    BY <1>0, <2>2 DEF ResolutionWrites, RowsSound, ReviewTypeOK, Versions, Reviews
  <2> QED BY <1>0, <2>1, <2>2 DEF RowsSound, ReviewTypeOK, ResolutionWrites
<1>3. VersionChain' /\ ExecutabilityExplained'
  BY DEF RowsSound, VersionChain, ExecutabilityExplained, ResolutionWrites
<1>4. DecisionPinned'
  BY <1>1, PinsStay DEF ResolutionWrites
<1> QED BY <1>1, <1>2, <1>3, <1>4 DEF RowsSound, ResolutionWrites

LEMMA RecoverySound ==
  ASSUME RowsSound, NEW t, KnownRecovery(t), RecoveryWrites(t) PROVE RowsSound' /\ Advance
<1> USE ReviewConstants
<1>0. /\ t.version \in Versions /\ t.content \in Contents /\ t.version <= review.version
      /\ review # None /\ review \in Reviews
      /\ stage1 \in [Versions -> Contents \union {None}]
  BY DEF RowsSound, ReviewTypeOK, KnownRecovery, Reached, Recoveries
<1>1. Advance
  BY <1>0 DEF Advance, RecoveryWrites, Reviews
<1>2. ReviewTypeOK'
  <2>1. stage1' \in [Versions -> Contents \union {None}]
    BY <1>0 DEF RecoveryWrites
  <2>2. ASSUME NEW v \in Versions, v > review.version PROVE stage1'[v] = None
    BY <1>0, <2>2 DEF RecoveryWrites, RowsSound, ReviewTypeOK, Versions, Reviews
  <2> QED BY <1>0, <2>1, <2>2 DEF RowsSound, ReviewTypeOK, RecoveryWrites
<1>3. VersionChain'
  BY DEF RowsSound, VersionChain, RecoveryWrites
<1>4. ExecutabilityExplained'
  <2> SUFFICES ASSUME NEW e \in events
               PROVE  /\ e.executable => stage1'[e.from + 1] # None
                      /\ stage1'[e.from + 1] # None => e.executable \/ e.class = "clean"
    BY DEF ExecutabilityExplained, RecoveryWrites
  <2>1. e.from + 1 \in Versions
    BY DEF RowsSound, ReviewTypeOK, Events, Versions
  <2>2. CASE e.from + 1 = t.version
    BY <1>0, <2>1, <2>2 DEF KnownRecovery, RecoveryWrites, RowsSound, ExecutabilityExplained
  <2>3. CASE e.from + 1 # t.version
    BY <1>0, <2>1, <2>3 DEF RecoveryWrites, RowsSound, ExecutabilityExplained
  <2> QED BY <2>2, <2>3
<1>5. DecisionPinned'
  BY <1>1, PinsStay DEF RecoveryWrites
<1> QED BY <1>1, <1>2, <1>3, <1>4, <1>5 DEF RowsSound, RecoveryWrites

\* What a version chain says of a pending review: no decision, and no event leaves it.
LEMMA PendingFacts ==
  ASSUME RowsSound, NEW v, Pending(v)
  PROVE  /\ review # None /\ review \in Reviews /\ review.version = v /\ v \in Int
         /\ review.status = "pending_review" /\ decisions = {}
         /\ \A e \in events : e.from \in Int /\ e.from < v
         /\ \A w \in 1 .. v - 1 : Cardinality({e \in events : e.from = w})
                                    + Cardinality({d \in decisions : d.before = w}) = 1
<1>1. /\ review # None /\ review \in Reviews /\ review.version = v /\ v \in Int
      /\ review.status = "pending_review" /\ decisions = {}
      /\ \A e \in events : e.from \in Int /\ e.from < v
  BY DEF RowsSound, VersionChain, ReviewTypeOK, Pending, Reviews, Events, Versions
<1> QED BY <1>1 DEF RowsSound, VersionChain

LEMMA ReclassificationSound ==
  ASSUME RowsSound, NEW t, KnownProposal(t), t.op = "reclassify_write", ReclassificationWrites(t)
  PROVE  RowsSound' /\ Advance
<1> USE ReviewConstants
<1> DEFINE v == t.version
           new == [from |-> v, previous |-> review.class, class |-> t.class,
                   executable |-> t.content # None]
<1>0. /\ v \in Versions /\ v < MaxVersion /\ t.class \in Classes /\ v + 1 \in Versions
      /\ t.content \in Contents \union {None}
      /\ stage1 \in [Versions -> Contents \union {None}] /\ MaxVersion \in Nat /\ v \in Nat
  BY DEF RowsSound, ReviewTypeOK, KnownProposal, Proposals, Versions
<1>1. /\ review # None /\ review \in Reviews /\ review.version = v
      /\ review.status = "pending_review" /\ decisions = {}
      /\ \A e \in events : e.from \in Int /\ e.from < v
      /\ \A w \in 1 .. v - 1 : Cardinality({e \in events : e.from = w})
                                 + Cardinality({d \in decisions : d.before = w}) = 1
  BY PendingFacts DEF ReclassificationWrites
<1>2. /\ review' \in Reviews /\ review'.version = v + 1 /\ review'.class = t.class
      /\ review'.status = "pending_review" /\ review' # None
  <2>1. v + 1 \in 1 .. MaxVersion + 1
    BY <1>0
  <2>2. review' = ReclassifiedRow(review, v + 1, t.class)
    BY DEF ReclassificationWrites, Reclassified, ReclassifiedRow
  <2>3. review.status \in Statuses
    BY <1>1 DEF Reviews
  <2> QED BY <1>0, <1>1, <2>1, <2>2, <2>3, ReviewRecords
<1>3. /\ events' = events \union {new} /\ decisions' = {} /\ new \in Events
      /\ new.from = v /\ new.previous = review.class /\ new.class = t.class
      /\ new.executable = (t.content # None)
  BY <1>0, <1>1 DEF ReclassificationWrites, Reclassified, Events, Reviews
<1>4. /\ stage1' \in [Versions -> Contents \union {None}] /\ stage1'[v + 1] = t.content
      /\ stage1[v + 1] = None
      /\ \A w \in Versions : w # v + 1 => stage1'[w] = stage1[w]
  BY <1>0, <1>1 DEF ReclassificationWrites, Reclassified, RowsSound, ReviewTypeOK
<1> HIDE DEF new, v
<1>5. Advance
  BY <1>0, <1>1, <1>2, <1>3, <1>4 DEF Advance, ReclassificationWrites
<1>6. ReviewTypeOK'
  <2>1. ASSUME NEW w \in Versions, w > v + 1
        PROVE stage1'[w] = None /\ purposes'[w] = None /\ resolutions'[w] = None
    <3>1. w > review.version
      BY <1>0, <1>1, <2>1 DEF Versions
    <3>2. stage1[w] = None /\ purposes[w] = None /\ resolutions[w] = None
      BY <3>1 DEF RowsSound, ReviewTypeOK
    <3> QED BY <1>0, <1>4, <2>1, <3>2 DEF ReclassificationWrites, Versions
  <2> QED BY <1>2, <1>3, <1>4, <2>1 DEF RowsSound, ReviewTypeOK, ReclassificationWrites
<1>7. VersionChain'
  <2>1. ASSUME NEW w \in 1 .. review'.version - 1
        PROVE  Cardinality({e \in events' : e.from = w})
                 + Cardinality({d \in decisions' : d.before = w}) = 1
    <3>1. CASE w = v
      <4>1. {e \in events' : e.from = w} = {new} /\ {d \in decisions' : d.before = w} = {}
        BY <1>1, <1>3, <3>1
      <4>2. Cardinality({e \in events' : e.from = w}) = 1
            /\ Cardinality({d \in decisions' : d.before = w}) = 0
        BY <4>1, FS_Singleton, FS_EmptySet
      <4> QED BY <4>2
    <3>2. CASE w # v
      <4>1. /\ {e \in events' : e.from = w} = {e \in events : e.from = w}
            /\ {d \in decisions' : d.before = w} = {d \in decisions : d.before = w}
        BY <1>1, <1>3, <3>2
      <4>2. w \in 1 .. v - 1
        BY <1>0, <1>2, <3>2
      <4> QED BY <1>1, <4>1, <4>2
    <3> QED BY <3>1, <3>2
  <2>2. \A e \in events' : e.from < review'.version
    BY <1>0, <1>1, <1>2, <1>3
  <2>3. ASSUME NEW e \in events', NEW f \in events', f.from = e.from + 1
        PROVE  f.previous = e.class
    <3>1. CASE f \in events /\ e \in events
      BY <2>3, <3>1, <1>1 DEF RowsSound, VersionChain
    <3>2. CASE f = new /\ e \in events
      <4>1. \A g \in events : g.from <= e.from
        BY <1>0, <1>1, <1>3, <2>3, <3>2
      <4>2. e.class = review.class
        BY <1>1, <3>2, <4>1 DEF RowsSound, VersionChain
      <4> QED BY <1>3, <3>2, <4>2
    <3>3. CASE e = new
      BY <1>0, <1>1, <1>3, <2>3, <3>3
    <3> QED BY <1>3, <3>1, <3>2, <3>3
  <2>4. ASSUME NEW e \in events', \A f \in events' : f.from <= e.from
        PROVE  e.class = review'.class
    <3>1. new.from <= e.from
      BY <1>3, <2>4
    <3>2. e = new
      BY <1>0, <1>1, <1>3, <3>1
    <3> QED BY <1>2, <1>3, <3>2
  <2> QED BY <1>2, <1>3, <2>1, <2>2, <2>3, <2>4 DEF VersionChain
<1>8. ExecutabilityExplained'
  <2> SUFFICES ASSUME NEW e \in events'
               PROVE  /\ e.executable => stage1'[e.from + 1] # None
                      /\ stage1'[e.from + 1] # None => e.executable \/ e.class = "clean"
    BY DEF ExecutabilityExplained
  <2>1. CASE e = new
    BY <1>3, <1>4, <2>1
  <2>2. CASE e \in events
    <3>1. e.from + 1 \in Versions /\ e.from + 1 # v + 1
      BY <1>0, <1>1, <2>2 DEF RowsSound, ReviewTypeOK, Events, Versions
    <3> QED BY <1>4, <2>2, <3>1 DEF RowsSound, ExecutabilityExplained
  <2> QED BY <1>3, <2>1, <2>2
<1>9. DecisionPinned'
  BY <1>3 DEF DecisionPinned
<1>10. \A e \in events' : e.from < MaxVersion
  BY <1>0, <1>3 DEF RowsSound
<1> QED
  BY <1>5, <1>6, <1>7, <1>8, <1>9, <1>10 DEF RowsSound, ReclassificationWrites

LEMMA DecisionSound ==
  ASSUME RowsSound, NEW t, KnownDecision(t), KnownWrite(t), DecisionWrites(t)
  PROVE  RowsSound' /\ Advance
<1> USE ReviewConstants
<1> DEFINE v == t.version
           new == [key |-> t.key, kind |-> t.kind, before |-> v, evidence |-> t.evidence,
                   pin |-> t.pin]
<1>0. /\ v \in Versions /\ v \in Nat /\ MaxVersion \in Nat /\ v <= MaxVersion
      /\ TargetStatus(t.kind) \in Statuses /\ TargetStatus(t.kind) # "pending_review"
  BY DEF KnownDecision, TargetStatus, Statuses, Versions
<1>1. /\ review # None /\ review \in Reviews /\ review.version = v
      /\ review.status = "pending_review" /\ decisions = {}
      /\ \A e \in events : e.from \in Int /\ e.from < v
      /\ \A w \in 1 .. v - 1 : Cardinality({e \in events : e.from = w})
                                 + Cardinality({d \in decisions : d.before = w}) = 1
  BY PendingFacts DEF DecisionWrites, DecisionApplied
<1>2. /\ review' \in Reviews /\ review'.version = v + 1 /\ review'.class = review.class
      /\ review'.status = TargetStatus(t.kind) /\ review' # None
  <2>1. v + 1 \in 1 .. MaxVersion + 1 /\ review.class \in Classes
    BY <1>0, <1>1 DEF Reviews
  <2>2. review' = DecidedRow(review, v + 1, TargetStatus(t.kind))
    BY DEF DecisionWrites, DecisionApplied, DecidedRow
  <2> QED BY <1>0, <1>1, <2>1, <2>2, ReviewRecords
<1>3. /\ decisions' = {new} /\ events' = events /\ new \in Decisions
      /\ new.before = v /\ new.kind = t.kind /\ new.evidence = t.evidence /\ new.pin = t.pin
  BY <1>0, <1>1 DEF DecisionWrites, DecisionApplied, Decisions, KnownDecision, KnownWrite
<1> HIDE DEF new, v
<1>4. Advance
  BY <1>0, <1>1, <1>2, <1>3 DEF Advance, DecisionWrites
<1>5. ReviewTypeOK'
  <2>1. ASSUME NEW w \in Versions, w > v + 1
        PROVE stage1'[w] = None /\ purposes'[w] = None /\ resolutions'[w] = None
    <3>1. w > review.version
      BY <1>0, <1>1, <2>1 DEF Versions
    <3> QED BY <3>1 DEF RowsSound, ReviewTypeOK, DecisionWrites
  <2> QED BY <1>2, <1>3, <2>1 DEF RowsSound, ReviewTypeOK, DecisionWrites
<1>6. VersionChain'
  <2>1. ASSUME NEW w \in 1 .. review'.version - 1
        PROVE  Cardinality({e \in events' : e.from = w})
                 + Cardinality({d \in decisions' : d.before = w}) = 1
    <3>1. CASE w = v
      <4>1. {d \in decisions' : d.before = w} = {new} /\ {e \in events' : e.from = w} = {}
        BY <1>1, <1>3, <3>1
      <4>2. Cardinality({d \in decisions' : d.before = w}) = 1
            /\ Cardinality({e \in events' : e.from = w}) = 0
        BY <4>1, FS_Singleton, FS_EmptySet
      <4> QED BY <4>2
    <3>2. CASE w # v
      <4>1. /\ {e \in events' : e.from = w} = {e \in events : e.from = w}
            /\ {d \in decisions' : d.before = w} = {d \in decisions : d.before = w}
        BY <1>1, <1>3, <3>2
      <4>2. w \in 1 .. v - 1
        BY <1>0, <1>2, <3>2
      <4> QED BY <1>1, <4>1, <4>2
    <3> QED BY <3>1, <3>2
  <2>2. \A e \in events' : e.from < review'.version
    BY <1>0, <1>1, <1>2, <1>3
  <2>3. \A d \in decisions' : d.before = review'.version - 1 /\ review'.status = TargetStatus(d.kind)
    BY <1>0, <1>2, <1>3
  <2>4. /\ \A e, f \in events' : f.from = e.from + 1 => f.previous = e.class
        /\ \A e \in events' : (\A f \in events' : f.from <= e.from) => e.class = review'.class
    BY <1>1, <1>2, <1>3 DEF RowsSound, VersionChain
  <2>5. review'.status = "pending_review" <=> decisions' = {}
    BY <1>0, <1>2, <1>3
  <2> QED BY <1>2, <2>1, <2>2, <2>3, <2>4, <2>5 DEF VersionChain
<1>7. ExecutabilityExplained'
  BY <1>3 DEF RowsSound, ExecutabilityExplained, DecisionWrites
<1>8. DecisionPinned'
  <2>1. ASSUME t.kind = "vendor_bill"
        PROVE  /\ t.evidence # None /\ t.evidence.stage1 = stage1[t.version]
               /\ PinHolds(t.pin, t.version)
    <3>1. t.evidence \in Evidence /\ t.evidence.stage1 = stage1[t.version]
      BY <2>1 DEF KnownDecision, KnownEvidence
    <3>2. ~ \E d \in decisions : d.key = t.key
      BY <1>1
    <3> QED BY <2>1, <3>1, <3>2 DEF KnownWrite
  <2> QED BY <1>3, <2>1 DEF DecisionPinned, PinHolds, DecisionWrites, v
<1>9. \A e \in events' : e.from < MaxVersion
  BY <1>3 DEF RowsSound
<1> QED BY <1>4, <1>5, <1>6, <1>7, <1>8, <1>9 DEF RowsSound, DecisionWrites

LEMMA UnchangedSound ==
  ASSUME RowsSound, invoice' = invoice, UNCHANGED rows PROVE RowsSound' /\ Advance
<1>1. /\ review' = review /\ stage1' = stage1 /\ purposes' = purposes
      /\ resolutions' = resolutions /\ events' = events /\ decisions' = decisions
  BY DEF rows
<1>2. RowsSound'
  BY <1>1 DEF RowsSound, ReviewTypeOK, VersionChain, ExecutabilityExplained, DecisionPinned
<1>3. review # None => review'.version >= review.version
  BY <1>1 DEF RowsSound, ReviewTypeOK, Reviews
<1> QED BY <1>1, <1>2, <1>3 DEF Advance

-----------------------------------------------------------------------------
(* What a step of one request does to the rows, to its task and to its answer. *)

\* An acknowledgement that the decisions, after the step, bear out.
Borne(a) ==
    a # None /\ a.op = "accepted" =>
        \E d \in decisions' : d.key = a.key /\ d.kind = a.kind /\ d.before = a.version

GoesOn(c) ==
    /\ RowsSound' /\ Advance
    /\ \E n : task' = [task EXCEPT ![c] = n] /\ (n # None => Known(n))
    /\ answer' = answer \/ \E a : answer' = [answer EXCEPT ![c] = a] /\ Borne(a)

LEMMA BeginGoesOn ==
  ASSUME RowsSound, NEW c, NEW t, Known(t), Begin(c, t), invoice' = invoice PROVE GoesOn(c)
<1>1. RowsSound' /\ Advance
  BY UnchangedSound DEF Begin
<1>2. answer' = [answer EXCEPT ![c] = None] /\ Borne(None)
  BY DEF Begin, Borne
<1> QED BY <1>1, <1>2 DEF GoesOn, Begin

LEMMA ContinueGoesOn ==
  ASSUME NEW c, NEW t, Known(t), Continue(c, t), RowsSound', Advance PROVE GoesOn(c)
BY DEF Continue, GoesOn

LEMMA ReturnGoesOn ==
  ASSUME NEW c, NEW a, Borne(a), Return(c, a), RowsSound', Advance PROVE GoesOn(c)
BY DEF Return, GoesOn

LEMMA NoAnswerIsBorne == Borne(None)
BY DEF Borne

LEMMA ReachedPending == ASSUME RowsSound, NEW v \in Versions, Pending(v) PROVE Reached(v)
BY DEF Pending, Reached, Versions

LEMMA ImportGoesOn ==
  ASSUME ReviewInv, NEW c \in Callers, invoice' = invoice, ImportDecided(c) \/ CreateReviewItem(c)
  PROVE  GoesOn(c)
<1> USE ReviewConstants
<1>0. RowsSound
  BY DEF ReviewInv
<1>1. CASE ImportDecided(c)
  <2>1. PICK class \in Classes, content \in invoice.contents \union {None} :
            Begin(c, [op |-> "import", class |-> class, content |-> content])
    BY <1>1 DEF ImportDecided
  <2> DEFINE t == [op |-> "import", class |-> class, content |-> content]
  <2>2. invoice.contents \subseteq Contents
    BY DEF ReviewInv, RowsSound
  <2>3. Known(t)
    BY <2>2 DEF Known, KnownImport
  <2> HIDE DEF t
  <2>4. Begin(c, t)
    BY <2>1 DEF t
  <2> QED BY <1>0, <2>3, <2>4, BeginGoesOn
<1>2. CASE CreateReviewItem(c)
  <2>1. PICK t : t = task[c]
    OBVIOUS
  <2>2. KnownImport(t)
    BY <1>2, <2>1 DEF CreateReviewItem, ReviewInv, TasksKnown, Known
  <2>3. RowsSound' /\ Advance
    <3>1. CASE review = None
      <4>1. ImportWrites(t)
        BY <1>2, <2>1, <3>1 DEF CreateReviewItem, ImportWrites
      <4> QED BY <1>0, <2>2, <4>1, ImportSound
    <3>2. CASE review # None
      BY <1>0, <1>2, <3>2, UnchangedSound DEF CreateReviewItem, rows
    <3> QED BY <3>1, <3>2
  <2> QED BY <1>2, <2>3, ReturnGoesOn, NoAnswerIsBorne DEF CreateReviewItem
<1> QED BY <1>1, <1>2

LEMMA PurposeGoesOn ==
  ASSUME ReviewInv, NEW c \in Callers, invoice' = invoice,
         \/ \E v \in Versions, p \in Purposes : PurposeChecked(c, v, p)
         \/ CreatePurpose(c)
  PROVE  GoesOn(c)
<1>0. RowsSound
  BY DEF ReviewInv
<1>1. ASSUME NEW v \in Versions, NEW p \in Purposes, PurposeChecked(c, v, p) PROVE GoesOn(c)
  <2> DEFINE t == [op |-> "purpose", version |-> v, purpose |-> p]
  <2>1. Reached(v)
    BY <1>0, <1>1, ReachedPending DEF PurposeChecked
  <2>2. Known(t)
    BY <2>1 DEF Known, KnownPurpose
  <2> HIDE DEF t
  <2>3. Begin(c, t)
    BY <1>1 DEF t, PurposeChecked
  <2> QED BY <1>0, <2>2, <2>3, BeginGoesOn
<1>2. CASE CreatePurpose(c)
  <2>1. PICK t : t = task[c]
    OBVIOUS
  <2>2. KnownPurpose(t)
    BY <1>2, <2>1 DEF CreatePurpose, ReviewInv, TasksKnown, Known
  <2>3. PurposeWrites(t)
    BY <1>2, <2>1 DEF CreatePurpose, PurposeWrites
  <2>4. RowsSound' /\ Advance
    BY <1>0, <2>2, <2>3, PurposeSound
  <2> QED BY <1>2, <2>4, ReturnGoesOn, NoAnswerIsBorne DEF CreatePurpose
<1> QED BY <1>1, <1>2

LEMMA ResolutionGoesOn ==
  ASSUME ReviewInv, NEW c \in Callers, invoice' = invoice,
         \/ \E v \in Versions, t \in Treatments : ResolutionChecked(c, v, t)
         \/ CreateResolution(c)
  PROVE  GoesOn(c)
<1>0. RowsSound
  BY DEF ReviewInv
<1>1. ASSUME NEW v \in Versions, NEW p \in Treatments, ResolutionChecked(c, v, p) PROVE GoesOn(c)
  <2> DEFINE t == [op |-> "resolution", version |-> v, treatment |-> p,
                   unblocked |-> review.class = "clean"]
             u == [op |-> "resolved", version |-> v]
  <2>1. Reached(v)
    BY <1>0, <1>1, ReachedPending DEF ResolutionChecked
  <2>2. Known(t) /\ Known(u)
    BY <2>1 DEF Known, KnownResolution
  <2> HIDE DEF t, u
  <2>3. Begin(c, t) \/ Begin(c, u)
    BY <1>1 DEF t, u, ResolutionChecked
  <2>4. PICK t1 : t1 = t
    OBVIOUS
  <2> QED BY <1>0, <2>2, <2>3, <2>4, BeginGoesOn
<1>2. CASE CreateResolution(c)
  <2>1. PICK t : t = task[c]
    OBVIOUS
  <2>2. KnownResolution(t)
    BY <1>2, <2>1 DEF CreateResolution, ReviewInv, TasksKnown, Known
  <2>3. CASE resolutions[t.version] \in {None, t.treatment}
    <3>1. ResolutionWrites(t)
      BY <1>2, <2>1, <2>3 DEF CreateResolution, ResolutionWrites
    <3>2. RowsSound' /\ Advance
      BY <1>0, <2>2, <3>1, ResolutionSound
    <3> DEFINE u == [op |-> "resolved", version |-> t.version]
    <3>3. Known(u)
      BY <2>2 DEF Known, KnownResolution
    <3> HIDE DEF u
    <3>4. Return(c, None) \/ Continue(c, u)
      BY <1>2, <2>1, <2>3 DEF CreateResolution, u
    <3> QED BY <3>2, <3>3, <3>4, ReturnGoesOn, NoAnswerIsBorne, ContinueGoesOn
  <2>4. CASE resolutions[t.version] \notin {None, t.treatment}
    <3>1. UNCHANGED rows /\ Return(c, None)
      BY <1>2, <2>1, <2>4 DEF CreateResolution, rows
    <3> QED BY <1>0, <3>1, UnchangedSound, ReturnGoesOn, NoAnswerIsBorne
  <2> QED BY <2>3, <2>4
<1> QED BY <1>1, <1>2

\* Whatever the master data say, a classification is one of Classes.
LEMMA EffectiveClasses == UNION {Effective(raw) : raw \in Classes} \subseteq Classes
BY DEF Effective, Classes

LEMMA ReclassificationGoesOn ==
  ASSUME ReviewInv, NEW c \in Callers, invoice' = invoice,
         ReclassificationResolved(c) \/ ReclassifyChecked(c) \/ Reclassify(c)
  PROVE  GoesOn(c)
<1> USE ReviewConstants
<1>0. RowsSound
  BY DEF ReviewInv
<1>1. PICK t : t = task[c]
  OBVIOUS
<1>2. t # None => Known(t)
  BY <1>1 DEF ReviewInv, TasksKnown
<1>3. CASE ReclassificationResolved(c)
  <2>1. PICK class \in UNION {Effective(raw) : raw \in Classes},
             content \in invoice.contents \union {None} :
          \/ \E v \in Versions : Pending(v) /\ Begin(c, Proposal(v, class, content))
          \/ /\ task[c] # None /\ task[c].op = "resolved"
             /\ Continue(c, Proposal(task[c].version, class, content))
             /\ UNCHANGED rows
    BY <1>3 DEF ReclassificationResolved
  <2>2. invoice.contents \subseteq Contents /\ class \in Classes
    BY EffectiveClasses DEF ReviewInv, RowsSound
  <2>3. ASSUME NEW v, Reached(v) PROVE Known(Proposal(v, class, content))
    BY <2>2, <2>3 DEF Known, KnownProposal, Proposal, Proposals, Reached
  <2>4. ASSUME NEW v \in Versions, Pending(v), Begin(c, Proposal(v, class, content))
        PROVE  GoesOn(c)
    <3>1. Known(Proposal(v, class, content))
      BY <1>0, <2>3, <2>4, ReachedPending
    <3> QED BY <1>0, <2>4, <3>1, BeginGoesOn
  <2>5. ASSUME t # None, t.op = "resolved", Continue(c, Proposal(t.version, class, content)),
               UNCHANGED rows
        PROVE  GoesOn(c)
    <3>1. Known(Proposal(t.version, class, content))
      BY <1>2, <2>3, <2>5 DEF Known
    <3> QED BY <1>0, <2>5, <3>1, UnchangedSound, ContinueGoesOn
  <2> QED BY <1>1, <2>1, <2>4, <2>5
<1>4. CASE ReclassifyChecked(c)
  <2>1. RowsSound' /\ Advance
    BY <1>0, <1>4, UnchangedSound DEF ReclassifyChecked
  <2>2. KnownProposal(t)
    BY <1>1, <1>2, <1>4 DEF ReclassifyChecked, Known
  <2> DEFINE u == [t EXCEPT !.op = "reclassify_write"]
  <2>3. u \in Proposals /\ u.op = "reclassify_write" /\ u.version = t.version
    BY <2>2 DEF KnownProposal, Proposals
  <2> HIDE DEF u
  <2>4. t.version < MaxVersion => Known(u)
    BY <2>2, <2>3 DEF Known, KnownProposal
  <2>5. Return(c, None) \/ (Continue(c, u) /\ t.version < MaxVersion)
    BY <1>1, <1>4 DEF ReclassifyChecked, u
  <2> QED BY <2>1, <2>4, <2>5, ReturnGoesOn, NoAnswerIsBorne, ContinueGoesOn
<1>5. CASE Reclassify(c)
  <2>1. KnownProposal(t) /\ t.op = "reclassify_write"
    BY <1>1, <1>2, <1>5 DEF Reclassify, Known
  <2>2. RowsSound' /\ Advance
    <3>1. CASE Pending(t.version)
      <4>1. ReclassificationWrites(t)
        BY <1>1, <1>5, <3>1 DEF Reclassify, ReclassificationWrites
      <4> QED BY <1>0, <2>1, <4>1, ReclassificationSound
    <3>2. CASE ~ Pending(t.version)
      BY <1>0, <1>1, <1>5, <3>2, UnchangedSound DEF Reclassify, rows
    <3> QED BY <3>1, <3>2
  <2> QED BY <1>5, <2>2, ReturnGoesOn, NoAnswerIsBorne DEF Reclassify
<1> QED BY <1>3, <1>4, <1>5

LEMMA RecoveryGoesOn ==
  ASSUME ReviewInv, NEW c \in Callers, invoice' = invoice,
         \/ \E v \in Versions : RecoveryResolved(c, v)
         \/ RecoveryChecked(c) \/ RecoveryInserted(c)
  PROVE  GoesOn(c)
<1> USE ReviewConstants
<1>0. RowsSound
  BY DEF ReviewInv
<1>1. PICK t : t = task[c]
  OBVIOUS
<1>2. t # None => Known(t)
  BY <1>1 DEF ReviewInv, TasksKnown
<1>3. ASSUME NEW v \in Versions, RecoveryResolved(c, v) PROVE GoesOn(c)
  <2>1. PICK content \in invoice.contents :
          Begin(c, [op |-> "recovery", version |-> v, content |-> content])
    BY <1>3 DEF RecoveryResolved
  <2> DEFINE u == [op |-> "recovery", version |-> v, content |-> content]
  <2>2. content \in Contents
    BY DEF ReviewInv, RowsSound
  <2>3. Pending(v) /\ review.class = "clean"
    BY <1>3 DEF RecoveryResolved, RecoveryEligible
  <2>4. ASSUME NEW e \in events, e.from + 1 = v PROVE e.class = "clean"
    <3>1. \A f \in events : f.from \in Int /\ f.from < v
      BY <1>0, <2>3, PendingFacts
    <3>2. \A f \in events : f.from <= e.from
      BY <2>4, <3>1
    <3>3. e.class = review.class
      BY <1>0, <2>3, <3>2 DEF RowsSound, VersionChain, Pending
    <3> QED BY <2>3, <3>3
  <2>5. Reached(v)
    BY <1>0, <2>3, ReachedPending
  <2>6. u \in Recoveries /\ u.op = "recovery" /\ u.version = v
    BY <2>2 DEF Recoveries
  <2> HIDE DEF u
  <2>7. Known(u)
    BY <2>4, <2>5, <2>6 DEF Known, KnownRecovery
  <2>8. Begin(c, u)
    BY <2>1 DEF u
  <2> QED BY <1>0, <2>7, <2>8, BeginGoesOn
<1>4. CASE RecoveryChecked(c)
  <2>1. RowsSound' /\ Advance
    BY <1>0, <1>4, UnchangedSound DEF RecoveryChecked
  <2>2. KnownRecovery(t)
    BY <1>1, <1>2, <1>4 DEF RecoveryChecked, Known
  <2> DEFINE u == [t EXCEPT !.op = "recovery_insert"]
  <2>3. u \in Recoveries /\ u.op = "recovery_insert" /\ u.version = t.version
    BY <2>2 DEF KnownRecovery, Recoveries
  <2> HIDE DEF u
  <2>4. Known(u)
    BY <2>2, <2>3 DEF Known, KnownRecovery
  <2>5. Return(c, None) \/ Continue(c, u)
    BY <1>1, <1>4 DEF RecoveryChecked, u
  <2> QED BY <2>1, <2>4, <2>5, ReturnGoesOn, NoAnswerIsBorne, ContinueGoesOn
<1>5. CASE RecoveryInserted(c)
  <2>1. KnownRecovery(t)
    BY <1>1, <1>2, <1>5 DEF RecoveryInserted, Known
  <2>2. RecoveryWrites(t)
    BY <1>1, <1>5 DEF RecoveryInserted, RecoveryWrites
  <2>3. RowsSound' /\ Advance
    BY <1>0, <2>1, <2>2, RecoverySound
  <2> DEFINE a == [op |-> "recovered", version |-> t.version, content |-> t.content]
  <2>4. Borne(a)
    BY DEF Borne
  <2> HIDE DEF a
  <2>5. Return(c, a)
    BY <1>1, <1>5 DEF RecoveryInserted, a
  <2> QED BY <2>3, <2>4, <2>5, ReturnGoesOn
<1> QED BY <1>3, <1>4, <1>5

\* A pin the gates accept is of the rows of the version they were asked about.
LEMMA PinsAccepted ==
  ASSUME RowsSound, NEW v \in Versions, NEW pin \in AcceptedPins(v)
  PROVE  pin \in Pins /\ PinHolds(pin, v)
<1> USE ReviewConstants
<1>0. <<"resale", None>> \in Pins /\ <<"internal_use", "expense_account">> \in Pins /\ None \in Pins
  BY DEF Pins, ProductPins, Treatments
<1>1. CASE ~ invoice.productCoded
  <2>1. pin = None
    BY <1>1 DEF AcceptedPins, PinsAt
  <2> QED BY <1>0, <1>1, <2>1 DEF PinHolds
<1>2. CASE invoice.productCoded /\ purposes[v] = "resale"
  <2>1. pin = <<"resale", None>>
    BY <1>2 DEF AcceptedPins, PinsAt
  <2>2. <<"resale", None>> # None
    BY DEF ProductPins
  <2> QED BY <1>0, <1>2, <2>1, <2>2 DEF PinHolds
<1>3. CASE /\ invoice.productCoded /\ purposes[v] # "resale"
           /\ purposes[v] = "internal_use" /\ resolutions[v] = "expense_account"
  <2>1. pin = <<"internal_use", "expense_account">>
    BY <1>3 DEF AcceptedPins, PinsAt
  <2>2. <<"internal_use", "expense_account">> # None
    BY DEF ProductPins, Treatments
  <2> QED BY <1>0, <1>3, <2>1, <2>2 DEF PinHolds
<1>4. CASE /\ invoice.productCoded /\ purposes[v] # "resale"
           /\ ~ (purposes[v] = "internal_use" /\ resolutions[v] = "expense_account")
  <2>1. AcceptedPins(v) = {}
    BY <1>4 DEF AcceptedPins, PinsAt
  <2> QED BY <2>1
<1> QED BY <1>1, <1>2, <1>3, <1>4

LEMMA DecisionGoesOn ==
  ASSUME ReviewInv, NEW c \in Callers, invoice' = invoice,
         \/ \E v \in Versions, kind \in DecisionKinds, key \in invoice.keys :
                DecisionPrepared(c, v, kind, key)
         \/ DecisionGated(c) \/ SubmitDecision(c)
  PROVE  GoesOn(c)
<1> USE ReviewConstants
<1>0. RowsSound /\ invoice.keys \subseteq Keys
  BY DEF ReviewInv, RowsSound
<1>1. PICK t : t = task[c]
  OBVIOUS
<1>2. t # None => Known(t)
  BY <1>1 DEF ReviewInv, TasksKnown
<1>3. ASSUME NEW v \in Versions, NEW kind \in DecisionKinds, NEW key \in invoice.keys,
             DecisionPrepared(c, v, kind, key)
      PROVE  GoesOn(c)
  <2>1. CASE kind = "vendor_bill"
    <3>1. stage1[v] # None
      BY <1>3, <2>1 DEF DecisionPrepared
    <3>2. PICK f \in Facts :
            Begin(c, [op |-> "decision", version |-> v, kind |-> kind, key |-> key,
                      evidence |-> [stage1 |-> stage1[v], product |-> f]])
      BY <1>3, <2>1 DEF DecisionPrepared
    <3>3. PICK s : s = stage1[v]
      OBVIOUS
    <3> DEFINE e == [stage1 |-> s, product |-> f]
               u == [op |-> "decision", version |-> v, kind |-> kind, key |-> key, evidence |-> e]
    <3>4. Reached(v) /\ s \in Contents
      <4>1. /\ review = None \/ review \in Reviews
            /\ stage1 \in [Versions -> Contents \union {None}]
            /\ review # None /\ ~ v > review.version
        BY <1>0, <3>1 DEF RowsSound, ReviewTypeOK
      <4> QED BY <3>1, <3>3, <4>1 DEF Reached, Reviews, Versions
    <3>5. e \in Evidence /\ e.stage1 = stage1[v]
      BY <3>3, <3>4 DEF Evidence
    <3> HIDE DEF e
    <3>6. KnownDecision(u) /\ u.op = "decision" /\ u.kind = "vendor_bill"
      BY <1>0, <2>1, <3>4, <3>5 DEF KnownDecision, KnownEvidence
    <3> HIDE DEF u
    <3>7. Known(u)
      BY <3>6 DEF Known
    <3>8. Begin(c, u)
      BY <3>2, <3>3 DEF u, e
    <3> QED BY <1>0, <3>7, <3>8, BeginGoesOn
  <2>2. CASE kind # "vendor_bill"
    <3> DEFINE u == [op |-> "decision_write", version |-> v, kind |-> kind, key |-> key,
                     evidence |-> None, pin |-> None]
    <3>1. KnownDecision(u) /\ KnownWrite(u) /\ u.op = "decision_write"
      BY <1>0, <2>2 DEF KnownDecision, KnownWrite, Pins, ProductPins
    <3> HIDE DEF u
    <3>2. Known(u)
      BY <3>1 DEF Known
    <3>3. Begin(c, u)
      BY <1>3, <2>2 DEF u, DecisionPrepared
    <3> QED BY <1>0, <3>2, <3>3, BeginGoesOn
  <2> QED BY <2>1, <2>2
<1>4. CASE DecisionGated(c)
  <2>1. RowsSound' /\ Advance
    BY <1>0, <1>4, UnchangedSound DEF DecisionGated
  <2>2. KnownDecision(t) /\ t.kind = "vendor_bill"
    BY <1>1, <1>2, <1>4 DEF DecisionGated, Known
  <2>3. PICK pin : /\ pin \in (IF IsReplay(t) THEN {None} ELSE AcceptedPins(t.version))
                   /\ Continue(c, [op |-> "decision_write", version |-> t.version,
                                   kind |-> t.kind, key |-> t.key, evidence |-> t.evidence,
                                   pin |-> pin])
    BY <1>1, <1>4 DEF DecisionGated
  <2> DEFINE u == [op |-> "decision_write", version |-> t.version, kind |-> t.kind,
                   key |-> t.key, evidence |-> t.evidence, pin |-> pin]
  <2>4. pin \in Pins /\ (PinHolds(pin, t.version) \/ \E d \in decisions : d.key = t.key)
    <3>1. CASE IsReplay(t)
      BY <2>3, <3>1 DEF IsReplay, Pins, ProductPins
    <3>2. CASE ~ IsReplay(t)
      BY <1>0, <2>2, <2>3, <3>2, PinsAccepted DEF KnownDecision
    <3> QED BY <3>1, <3>2
  <2>5. /\ u.op = "decision_write" /\ u.version = t.version /\ u.kind = t.kind /\ u.key = t.key
        /\ u.evidence = t.evidence /\ u.pin = pin
    OBVIOUS
  <2> HIDE DEF u
  <2>6. KnownDecision(u) /\ KnownWrite(u)
    BY <2>2, <2>4, <2>5 DEF KnownDecision, KnownWrite, KnownEvidence
  <2>7. Known(u)
    BY <2>5, <2>6 DEF Known
  <2>8. Continue(c, u)
    BY <2>3 DEF u
  <2> QED BY <2>1, <2>7, <2>8, ContinueGoesOn
<1>5. CASE SubmitDecision(c)
  <2>1. KnownDecision(t) /\ KnownWrite(t)
    BY <1>1, <1>2, <1>5 DEF SubmitDecision, Known
  <2> DEFINE found == {d \in decisions : d.key = t.key}
             replayed == \E d \in found : SameCommand(d, t) /\ d.evidence = t.evidence
             a == Accepted(t)
  <2>2. a.op = "accepted" /\ a.key = t.key /\ a.kind = t.kind /\ a.version = t.version
    BY DEF Accepted
  <2>3. \/ /\ found = {} /\ DecisionApplied(t) /\ Return(c, a)
           /\ UNCHANGED <<stage1, purposes, resolutions, events>>
        \/ /\ Return(c, IF replayed THEN a ELSE None)
           /\ UNCHANGED <<review, decisions, stage1, purposes, resolutions, events>>
    BY <1>1, <1>5 DEF SubmitDecision
  <2> HIDE DEF a
  <2>4. CASE /\ found = {} /\ DecisionApplied(t) /\ Return(c, a)
             /\ UNCHANGED <<stage1, purposes, resolutions, events>>
    <3>1. DecisionWrites(t)
      BY <2>4 DEF DecisionWrites
    <3>2. RowsSound' /\ Advance
      BY <1>0, <2>1, <3>1, DecisionSound
    <3> DEFINE new == [key |-> t.key, kind |-> t.kind, before |-> t.version,
                       evidence |-> t.evidence, pin |-> t.pin]
    <3>3. new \in decisions' /\ new.key = t.key /\ new.kind = t.kind /\ new.before = t.version
      BY <2>4 DEF DecisionApplied
    <3> HIDE DEF new
    <3>4. Borne(a)
      BY <2>2, <3>3 DEF Borne
    <3> QED BY <2>4, <3>2, <3>4, ReturnGoesOn
  <2>5. CASE /\ Return(c, IF replayed THEN a ELSE None)
             /\ UNCHANGED <<review, decisions, stage1, purposes, resolutions, events>>
    <3>1. RowsSound' /\ Advance
      BY <1>0, <2>5, UnchangedSound DEF rows
    <3>2. ASSUME replayed PROVE Borne(a)
      BY <2>2, <2>5, <3>2 DEF Borne, SameCommand
    <3> QED BY <2>5, <3>1, <3>2, ReturnGoesOn, NoAnswerIsBorne
  <2> QED BY <2>3, <2>4, <2>5
<1> QED BY <1>3, <1>4, <1>5

LEMMA StepGoesOn ==
  ASSUME ReviewInv, NEW c \in Callers, Step(c), invoice' = invoice PROVE GoesOn(c)
<1>1. CASE Fail(c)
  <2>1. RowsSound
    BY DEF ReviewInv
  <2> QED BY <1>1, <2>1, UnchangedSound, ReturnGoesOn, NoAnswerIsBorne DEF Fail
<1> QED
  BY <1>1, ImportGoesOn, PurposeGoesOn, ResolutionGoesOn, ReclassificationGoesOn, RecoveryGoesOn,
     DecisionGoesOn DEF Step

-----------------------------------------------------------------------------
(* The invariant, and what follows from it. *)

LEMMA ReviewInvInit == ReviewInit => ReviewInv
<1> SUFFICES ASSUME ReviewInit PROVE ReviewInv
  OBVIOUS
<1>1. ReviewTypeOK /\ VersionChain /\ ExecutabilityExplained /\ DecisionPinned
  BY ReviewConstants
  DEF ReviewInit, ReviewTypeOK, VersionChain, ExecutabilityExplained, DecisionPinned
<1>2. TasksKnown /\ AnswersDurable
  BY DEF ReviewInit, TasksKnown, AnswersDurable, AcceptedIsDurable
<1> QED BY <1>1, <1>2 DEF ReviewInit, ReviewInv, RowsSound

LEMMA ReviewInvNext == ReviewInv /\ [ReviewNext]_reviewvars => ReviewInv' /\ (Advance \/ UNCHANGED reviewvars)
<1> SUFFICES ASSUME ReviewInv, [ReviewNext]_reviewvars
             PROVE  ReviewInv' /\ (Advance \/ UNCHANGED reviewvars)
  OBVIOUS
<1>1. CASE UNCHANGED reviewvars
  BY <1>1 DEF reviewvars, ReviewInv, RowsSound, ReviewTypeOK, VersionChain,
     ExecutabilityExplained, DecisionPinned, TasksKnown, AnswersDurable, AcceptedIsDurable,
     Known, KnownImport, KnownPurpose, KnownResolution, KnownProposal, KnownRecovery,
     KnownEvidence, KnownDecision, KnownWrite, PinHolds, Reached
<1>2. ASSUME NEW c \in Callers, Step(c), invoice' = invoice PROVE ReviewInv' /\ Advance
  <2>0. RowsSound /\ TasksKnown /\ AnswersDurable
    BY DEF ReviewInv
  <2>1. /\ RowsSound' /\ Advance
        /\ \E n : task' = [task EXCEPT ![c] = n] /\ (n # None => Known(n))
        /\ answer' = answer \/ \E a : answer' = [answer EXCEPT ![c] = a] /\ Borne(a)
    BY <1>2, StepGoesOn DEF GoesOn
  <2>2. TasksKnown'
    <3>1. PICK n : task' = [task EXCEPT ![c] = n] /\ (n # None => Known(n))
      BY <2>1
    <3>2. task' = [x \in Callers |-> task'[x]]
      BY <2>0, <3>1 DEF TasksKnown
    <3>3. ASSUME NEW x \in Callers, task'[x] # None PROVE Known(task[x])'
      <4>1. PICK m : m = task'[x]
        OBVIOUS
      <4>2. m # None /\ Known(m)
        BY <2>0, <3>1, <3>3, <4>1 DEF TasksKnown
      <4>3. Known(m)'
        BY <2>0, <2>1, <4>2, KnownStays
      <4> QED BY <4>1, <4>3
    <3> QED BY <3>2, <3>3 DEF TasksKnown
  <2>3. AnswersDurable'
    <3>1. ASSUME NEW x \in Callers PROVE Borne(answer[x])
      BY <2>0, <2>1, <3>1 DEF AnswersDurable, AcceptedIsDurable, Borne, Advance
    <3>2. answer' = [x \in Callers |-> answer'[x]] /\ \A x \in Callers : Borne(answer'[x])
      <4>1. CASE answer' = answer
        BY <2>0, <3>1, <4>1 DEF AnswersDurable
      <4>2. ASSUME NEW a, answer' = [answer EXCEPT ![c] = a], Borne(a)
            PROVE  answer' = [x \in Callers |-> answer'[x]] /\ \A x \in Callers : Borne(answer'[x])
        BY <2>0, <3>1, <4>2 DEF AnswersDurable
      <4> QED BY <2>1, <4>1, <4>2
    <3> QED BY <3>2 DEF AnswersDurable, AcceptedIsDurable, Borne
  <2> QED BY <2>1, <2>2, <2>3 DEF ReviewInv
<1> QED BY <1>1, <1>2 DEF ReviewNext

(* The inductive invariant holds in every reachable state of a review. *)
THEOREM ReviewInvariance == ReviewSpec => []ReviewInv
BY ReviewInvInit, ReviewInvNext, PTL DEF ReviewSpec

\* At every state of every interleaving of requests the rows of a review tell one history:
\* no version is left twice or unexplained, and Stage-1 evidence came with the
\* reclassification or was recovered for a clean review (workbench_review_repository.py,
\* execution_evidence_recovery_use_cases.py).
THEOREM OneHistory == ReviewSpec => []HistoryIsSound
<1>1. ReviewInv => HistoryIsSound
  BY DEF ReviewInv, RowsSound, HistoryIsSound
<1> QED BY <1>1, ReviewInvariance, PTL

\* A Vendor Bill is decided on the evidence, the purpose and the accounting resolution of
\* the version the decision names, although each of them is read by a separate statement
\* before the decision is written (decision_use_cases.py and the decision gates).
THEOREM DecisionsArePinned == ReviewSpec => []DecisionPinned
<1>1. ReviewInv => DecisionPinned
  BY DEF ReviewInv, RowsSound
<1> QED BY <1>1, ReviewInvariance, PTL

\* An acknowledged decision is in the decision table, as it was commanded
\* (submit_review_decision* and its replay branches).
THEOREM AcceptanceIsDurable == ReviewSpec => []AcceptedIsDurable
<1>1. ReviewInv => AcceptedIsDurable
  BY DEF ReviewInv, AnswersDurable
<1> QED BY <1>1, ReviewInvariance, PTL

\* No step of any request changes a row pinned to a version, drops history, takes the
\* version back or reopens a decided review.
THEOREM RowsImmutable == ReviewSpec => RowsAreImmutable
<1>1. /\ ReviewInv /\ [ReviewNext]_reviewvars
      => [/\ \A v \in Versions :
                 /\ stage1[v] # None => stage1'[v] = stage1[v]
                 /\ purposes[v] # None => purposes'[v] = purposes[v]
                 /\ resolutions[v] # None => resolutions'[v] = resolutions[v]
          /\ events \subseteq events' /\ decisions \subseteq decisions'
          /\ review # None =>
                 /\ review'.version >= review.version
                 /\ review.status # "pending_review" => review' = review]_reviewvars
  BY ReviewInvNext DEF Advance
<1> QED BY <1>1, ReviewInvariance, PTL DEF ReviewSpec, RowsAreImmutable

-----------------------------------------------------------------------------
(* The ledger of the operators' requests                                     *)

HandlePcs == {"handle", "authorize", "recordauth", "dispatch"}
TickPcs == HandlePcs \cup {"off", "scan", "process", "close", "ackread", "ackwrite"}

Hubs == [version : Nat \ {0}, decided : BOOLEAN, executed : BOOLEAN]
Forms == [ready : BOOLEAN, req : Requests \cup {NoRequest}, result : Terminal \cup {"none"}]
Entries == [status : Terminal \cup {"none", "in_progress"}, attempts : 0..MaxAttempts,
            authorized : BOOLEAN]
Ticks == [pc : TickPcs, channel : 1..3, req : Requests \cup {NoRequest},
          outcome : Terminal \cup {"none", "unread"}]

Types ==
    /\ hub \in Hubs
    /\ form \in [ChannelNames -> Forms]
    /\ expected \in [Requests -> Nat]
    /\ ledger \in [Requests -> Entries]
    /\ effects \in [Requests -> Nat]
    /\ tick \in Ticks

-----------------------------------------------------------------------------
(* The inductive invariant. *)

\* What an effect leaves behind, by which its use case recognises it: a review that has left the
\* version asked about, a decided review, an execution under a recorded authorization.
TookEffect(r) ==
    /\ expected[r] # 0
    /\ KindOf[r] # "execute" => hub.version > expected[r]
    /\ KindOf[r] = "decide" => hub.decided
    /\ KindOf[r] = "execute" => hub.executed /\ ledger[r].authorized

Effects ==
    /\ hub.executed => hub.decided
    /\ \A r \in Requests : effects[r] \in {0, 1} /\ (effects[r] = 1 => TookEffect(r))
    /\ \A c \in ChannelNames : /\ form[c].ready => form[c].req \in Requests
                               /\ form[c].req \in Requests => expected[form[c].req] # 0

\* CompletedIsTrue of one request.
Carried(r) ==
    \/ effects[r] = 1
    \/ KindOf[r] = "execute" /\ hub.executed
    \/ KindOf[r] = "decide" /\ hub.decided

\* What an outcome says of its request.
Truthful(r, outcome) ==
    /\ outcome = "completed" => Carried(r)
    /\ outcome = "stale" /\ KindOf[r] = "resolve" => effects[r] = 0

Entered == \A r \in Requests : Truthful(r, ledger[r].status)

\* What the tick knows about the request it works on.
Knows(t) ==
    /\ t.pc \notin {"off", "scan"} => t.req \in Requests /\ expected[t.req] # 0
    /\ t.pc \in HandlePcs => ledger[t.req].status = "in_progress"
    /\ t.pc \in {"authorize", "recordauth", "dispatch"} => KindOf[t.req] = "execute"
    /\ t.pc = "dispatch" => ledger[t.req].authorized
    /\ t.pc = "close" => /\ ledger[t.req].status \notin Terminal
                         /\ t.outcome \in Terminal
                         /\ Truthful(t.req, t.outcome)
    /\ t.pc \in {"ackread", "ackwrite"} =>
          t.outcome = "unread" \/ (t.outcome \in Terminal /\ ledger[t.req].status = t.outcome)

RequestInv == Types /\ Effects /\ Entered /\ Knows(tick)

-----------------------------------------------------------------------------
(* How the model moves the tick. *)

LEMMA ThreeChannels ==
    /\ Len(Channels) = 3 /\ DOMAIN Channels = 1..3
    /\ \A i \in 1..3 : Channels[i] \in ChannelNames
    /\ "parent" \in ChannelNames /\ "product_line" \in ChannelNames
<1>1. Len(Channels) = 3 /\ DOMAIN Channels = 1..3
  BY DEF Channels
<1>2. \A i \in 1..3 : Channels[i] \in ChannelNames
  BY <1>1 DEF ChannelNames
<1>3. Channels[1] = "product_line" /\ Channels[3] = "parent"
  BY DEF Channels
<1> QED BY <1>1, <1>2, <1>3

LEMMA AnswerMoves ==
    ASSUME Types, NEW outcome \in Terminal \cup {"none", "unread"}, NEW pc \in TickPcs,
           Answer(outcome, pc)
    PROVE  /\ tick' \in Ticks /\ tick'.pc = pc /\ tick'.outcome = outcome /\ tick'.req = tick.req
<1> DEFINE a == [tick EXCEPT !.pc = pc]
<1>1. a \in Ticks /\ a.pc = pc /\ a.req = tick.req
  BY DEF Types, Ticks
<1>2. tick' = [a EXCEPT !.outcome = outcome]
  BY DEF Answer, Types, Ticks
<1> HIDE DEF a
<1> QED BY <1>1, <1>2 DEF Ticks

LEMMA GoMoves ==
    ASSUME Types, NEW pc \in TickPcs, TickGo(pc)
    PROVE  tick' \in Ticks /\ tick'.pc = pc /\ tick'.req = tick.req /\ tick'.outcome = tick.outcome
BY DEF Types, Ticks, TickGo

\* Between two channels, and after the last one, the tick knows nothing.
LEMMA Unbound ==
    ASSUME NEW t, t.pc \in {"off", "scan"}
    PROVE  Knows(t)
BY DEF Knows, HandlePcs

LEMMA OffTick == Off \in Ticks /\ Off.pc = "off"
BY DEF Off, Ticks, TickPcs

LEMMA ScanTick ==
    ASSUME NEW n \in 1..3
    PROVE  /\ [Off EXCEPT !.pc = "scan", !.channel = n] \in Ticks
           /\ [Off EXCEPT !.pc = "scan", !.channel = n].pc = "scan"
<1> DEFINE a == [Off EXCEPT !.pc = "scan"]
           b == [Off EXCEPT !.pc = "scan", !.channel = n]
<1>1. a \in Ticks /\ a.pc = "scan"
  BY OffTick DEF Off, Ticks, TickPcs
<1>2. b = [a EXCEPT !.channel = n]
  BY DEF Off
<1> HIDE DEF a, b
<1>3. b \in Ticks /\ b.pc = "scan"
  BY <1>1, <1>2 DEF Ticks
<1> QED BY <1>3 DEF b

LEMMA LeaveMoves ==
    ASSUME Types, Leave
    PROVE  tick' \in Ticks /\ tick'.pc \in {"off", "scan"}
<1>1. CASE tick.channel < 3
  <2>1. tick.channel + 1 \in 1..3
    BY <1>1 DEF Types, Ticks
  <2>2. tick' = [Off EXCEPT !.pc = "scan", !.channel = tick.channel + 1]
    BY <1>1, ThreeChannels DEF Leave, NextChannel
  <2> QED BY <2>1, <2>2, ScanTick
<1>2. CASE ~(tick.channel < 3)
  BY <1>2, ThreeChannels, OffTick DEF Leave, NextChannel
<1> QED BY <1>1, <1>2

\* A step that moves the tick alone.
LEMMA TickOnly ==
    ASSUME RequestInv, UNCHANGED <<hub, form, expected, ledger, effects>>, tick' \in Ticks,
           NEW t, t = tick', Knows(t)
    PROVE  RequestInv'
<1>1. Types'
  BY DEF RequestInv, Types
<1>2. Effects' /\ Entered'
  BY DEF RequestInv, Effects, TookEffect, Entered, Truthful, Carried
<1>3. Knows(tick)'
  BY DEF Knows, Truthful, Carried
<1> QED BY <1>1, <1>2, <1>3 DEF RequestInv

LEMMA LeaveStep ==
    ASSUME RequestInv, UNCHANGED <<hub, form, expected, ledger, effects>>, Leave
    PROVE  RequestInv'
<1>1. tick' \in Ticks /\ tick'.pc \in {"off", "scan"}
  BY LeaveMoves DEF RequestInv
<1>2. Knows(tick')
  BY <1>1, Unbound
<1> QED BY <1>1, <1>2, TickOnly

\* A step that keeps the request and answers it, or only goes on with it.
LEMMA AnswerStep ==
    ASSUME RequestInv, UNCHANGED <<hub, form, expected, ledger, effects>>,
           tick.req \in Requests, expected[tick.req] # 0,
           ledger[tick.req].status \notin Terminal,
           NEW outcome \in Terminal, Truthful(tick.req, outcome), Answer(outcome, "close")
    PROVE  RequestInv'
<1>1. tick' \in Ticks /\ tick'.pc = "close" /\ tick'.outcome = outcome /\ tick'.req = tick.req
  BY AnswerMoves DEF RequestInv, TickPcs
<1>2. Knows(tick')
  BY <1>1 DEF Knows, HandlePcs
<1> QED BY <1>1, <1>2, TickOnly

LEMMA TickStartsStep ==
    ASSUME RequestInv, TickStarts
    PROVE  RequestInv'
<1>1. tick' \in Ticks /\ tick'.pc = "scan"
  BY OffTick DEF TickStarts, Ticks, TickPcs
<1>2. Knows(tick')
  BY <1>1, Unbound
<1> QED BY <1>1, <1>2, TickOnly DEF TickStarts

LEMMA ScanStep ==
    ASSUME RequestInv, Scan
    PROVE  RequestInv'
<1> DEFINE c == Channels[tick.channel]
           f == form[c]
           pc == IF Read(c, f.req) THEN "process" ELSE "ackread"
           outcome == IF Read(c, f.req) THEN "none" ELSE "unread"
           a == [tick EXCEPT !.pc = pc]
           b == [a EXCEPT !.req = f.req]
<1>1. c \in ChannelNames
  BY ThreeChannels DEF RequestInv, Types, Ticks
<1>2. f \in Forms
  BY <1>1 DEF RequestInv, Types
<1>3. UNCHANGED <<hub, form, expected, ledger, effects>>
  BY DEF Scan
<1>4. CASE ~f.ready
  BY <1>3, <1>4, LeaveStep DEF Scan
<1>5. CASE f.ready
  <2>1. f.req \in Requests /\ expected[f.req] # 0
    BY <1>1, <1>5 DEF RequestInv, Effects
  <2>2. tick' = [b EXCEPT !.outcome = outcome]
    BY <1>5 DEF Scan, RequestInv, Types, Ticks
  <2>3. tick \in Ticks
    BY DEF RequestInv, Types
  <2>4. pc \in {"process", "ackread"} /\ pc \in TickPcs /\ outcome \in {"none", "unread"}
        /\ (pc = "ackread" => outcome = "unread")
    BY DEF TickPcs
  <2> HIDE DEF pc, outcome
  <2>5. a \in Ticks /\ a.pc = pc
    BY <2>3, <2>4 DEF Ticks
  <2> HIDE DEF a
  <2>6. b \in Ticks /\ b.pc = pc /\ b.req = f.req
    BY <2>1, <2>5 DEF Ticks
  <2> HIDE DEF b
  <2>7. tick' \in Ticks /\ tick'.pc = pc /\ tick'.req = f.req /\ tick'.outcome = outcome
    BY <2>2, <2>4, <2>6 DEF Ticks
  <2>8. Knows(tick')
    BY <2>1, <2>4, <2>7 DEF Knows, HandlePcs
  <2> QED BY <1>3, <2>7, <2>8, TickOnly
<1> QED BY <1>4, <1>5

LEMMA AuthorizeStep ==
    ASSUME RequestInv, Authorize
    PROVE  RequestInv'
<1>1. tick' \in Ticks /\ tick'.pc = "recordauth" /\ tick'.req = tick.req
  BY GoMoves DEF Authorize, RequestInv, TickPcs, HandlePcs
<1>2. Knows(tick')
  BY <1>1 DEF Authorize, TickAt, RequestInv, Knows, HandlePcs
<1> QED BY <1>1, <1>2, TickOnly DEF Authorize

LEMMA AckReadStep ==
    ASSUME RequestInv, AckRead
    PROVE  RequestInv'
<1>1. UNCHANGED <<hub, form, expected, ledger, effects>>
  BY DEF AckRead
<1>2. CASE Leave
  BY <1>1, <1>2, LeaveStep
<1>3. CASE TickGo("ackwrite")
  <2>1. tick' \in Ticks /\ tick'.pc = "ackwrite" /\ tick'.req = tick.req
        /\ tick'.outcome = tick.outcome
    BY <1>3, GoMoves DEF RequestInv, TickPcs
  <2>2. Knows(tick')
    BY <2>1 DEF AckRead, TickAt, RequestInv, Knows, HandlePcs
  <2> QED BY <1>1, <2>1, <2>2, TickOnly
<1> QED BY <1>2, <1>3 DEF AckRead

\* A failed call, a failed acknowledgement and a death end the work on the request.
LEMMA TroubleStep ==
    ASSUME RequestInv, ChannelFails \/ AckFails \/ Crash
    PROVE  RequestInv'
<1>1. UNCHANGED <<hub, form, expected, ledger, effects>>
  BY DEF ChannelFails, AckFails, Crash
<1>2. CASE Leave
  BY <1>1, <1>2, LeaveStep
<1>3. CASE tick' = Off
  <2>1. Knows(tick')
    BY <1>3, OffTick, Unbound
  <2> QED BY <1>1, <1>3, <2>1, OffTick, TickOnly
<1> QED BY <1>2, <1>3 DEF ChannelFails, AckFails, Crash

LEMMA RefusedStep ==
    ASSUME RequestInv, Refused
    PROVE  RequestInv'
<1>1. tick.req \in Requests /\ expected[tick.req] # 0 /\ ledger[tick.req].status \notin Terminal
  BY DEF Refused, RequestInv, Knows, HandlePcs, Terminal
<1>2. Truthful(tick.req, "rejected")
  BY DEF Truthful
<1> QED BY <1>1, <1>2, AnswerStep DEF Refused, Terminal

-----------------------------------------------------------------------------
(* The steps that write the ledger. *)

\* A new entry of one request that keeps its authorization and whose status is true.
LEMMA EntryStep ==
    ASSUME RequestInv, UNCHANGED <<hub, form, expected, effects>>, tick' \in Ticks,
           NEW r \in Requests, NEW e \in Entries, ledger' = [ledger EXCEPT ![r] = e],
           ledger[r].authorized => e.authorized, Truthful(r, e.status)
    PROVE  Types' /\ Effects' /\ Entered'
<1>1. Types'
  BY DEF RequestInv, Types
<1>2. \A q \in Requests : ledger[q].authorized => ledger'[q].authorized
  BY DEF RequestInv, Types
<1>3. Effects'
  BY <1>2 DEF RequestInv, Effects, TookEffect
<1>4. \A q \in Requests : Truthful(q, ledger'[q].status)
  BY DEF RequestInv, Types, Entered
<1>5. Entered'
  BY <1>4 DEF Entered, Truthful, Carried
<1> QED BY <1>1, <1>3, <1>5

LEMMA ProcessStep ==
    ASSUME RequestInv, Process
    PROVE  RequestInv'
<1> DEFINE r == tick.req
<1>1. r \in Requests /\ expected[r] # 0
  BY DEF Process, TickAt, RequestInv, Knows
<1>2. UNCHANGED <<hub, form, expected, effects>>
  BY DEF Process
<1>3. CASE ledger[r].status \in Terminal
  <2>1. Answer(ledger[r].status, "ackread") /\ UNCHANGED ledger
    BY <1>3 DEF Process
  <2>2. tick' \in Ticks /\ tick'.pc = "ackread" /\ tick'.outcome = ledger[r].status
        /\ tick'.req = r
    BY <1>3, <2>1, AnswerMoves DEF RequestInv, TickPcs
  <2>3. Knows(tick')
    BY <1>1, <1>3, <2>2 DEF Knows, HandlePcs
  <2> QED BY <1>2, <2>1, <2>2, <2>3, TickOnly
<1>4. CASE ledger[r].status \notin Terminal /\ r \in Unpermitted
  <2>1. Answer("unauthorized", "close") /\ UNCHANGED ledger
    BY <1>4 DEF Process
  <2>2. Truthful(r, "unauthorized")
    BY DEF Truthful
  <2> QED BY <1>1, <1>2, <1>4, <2>1, <2>2, AnswerStep DEF Terminal
<1>5. CASE ledger[r].status \notin Terminal /\ r \notin Unpermitted
  <2> DEFINE e == Started(r)
  <2>1. TickGo("handle") /\ ledger' = [ledger EXCEPT ![r] = e]
    BY <1>5 DEF Process
  <2>2. ledger[r] \in Entries
    BY <1>1 DEF RequestInv, Types
  <2>3. e \in Entries /\ e.status = "in_progress" /\ e.authorized = ledger[r].authorized
    BY <1>5, <2>2 DEF Started, Entries
  <2> HIDE DEF e
  <2>4. tick' \in Ticks /\ tick'.pc = "handle" /\ tick'.req = r
    BY <2>1, GoMoves DEF RequestInv, TickPcs, HandlePcs
  <2>5. Truthful(r, e.status)
    BY <2>3 DEF Truthful
  <2>6. Types' /\ Effects' /\ Entered'
    BY <1>1, <1>2, <2>1, <2>3, <2>4, <2>5, EntryStep
  <2>7. ledger'[r] = e
    BY <1>1, <2>1 DEF RequestInv, Types
  <2>8. Knows(tick)'
    BY <1>1, <1>2, <2>3, <2>4, <2>7 DEF Knows, HandlePcs
  <2> QED BY <2>6, <2>8 DEF RequestInv
<1> QED BY <1>3, <1>4, <1>5

LEMMA RecordAuthorizationStep ==
    ASSUME RequestInv, RecordAuthorization
    PROVE  RequestInv'
<1> DEFINE r == tick.req
           e == [ledger[r] EXCEPT !.authorized = TRUE]
<1>1. /\ r \in Requests /\ expected[r] # 0
      /\ ledger[r].status = "in_progress" /\ KindOf[r] = "execute"
  BY DEF RecordAuthorization, TickAt, RequestInv, Knows, HandlePcs
<1>2. UNCHANGED <<hub, form, expected, effects>> /\ TickGo("dispatch")
  BY DEF RecordAuthorization
<1>3. ledger' = [ledger EXCEPT ![r] = e] /\ ledger[r] \in Entries
  BY <1>1 DEF RecordAuthorization, RequestInv, Types
<1>4. e \in Entries /\ e.status = "in_progress" /\ e.authorized
  BY <1>1, <1>3 DEF Entries
<1> HIDE DEF e
<1>5. tick' \in Ticks /\ tick'.pc = "dispatch" /\ tick'.req = r
  BY <1>2, GoMoves DEF RequestInv, TickPcs, HandlePcs
<1>6. Truthful(r, e.status)
  BY <1>4 DEF Truthful
<1>7. Types' /\ Effects' /\ Entered'
  BY <1>1, <1>2, <1>3, <1>4, <1>5, <1>6, EntryStep
<1>8. ledger'[r] = e
  BY <1>1, <1>3 DEF RequestInv, Types
<1>9. Knows(tick)'
  BY <1>1, <1>2, <1>4, <1>5, <1>8 DEF Knows, HandlePcs
<1> QED BY <1>7, <1>9 DEF RequestInv

LEMMA RetryLaterStep ==
    ASSUME RequestInv, RetryLater
    PROVE  RequestInv'
<1> DEFINE r == tick.req
           n == IF ledger[r].attempts < MaxAttempts THEN ledger[r].attempts + 1
                ELSE ledger[r].attempts
           e == [ledger[r] EXCEPT !.attempts = n]
<1>1. r \in Requests /\ expected[r] # 0 /\ ledger[r].status = "in_progress"
  BY DEF RetryLater, RequestInv, Knows, HandlePcs
<1>2. UNCHANGED <<hub, form, expected, effects>>
  BY DEF RetryLater
<1>3. ledger' = [ledger EXCEPT ![r] = e] /\ ledger[r] \in Entries
  BY <1>1 DEF RetryLater, RequestInv, Types
<1>4. n \in 0..MaxAttempts
  BY <1>3, RequestAssumption DEF Entries
<1> HIDE DEF n
<1>5. e \in Entries /\ e.status = "in_progress" /\ e.authorized = ledger[r].authorized
  BY <1>1, <1>3, <1>4 DEF Entries
<1> HIDE DEF e
<1>6. Truthful(r, e.status) /\ Truthful(r, "failed")
  BY <1>5 DEF Truthful
<1>7. ledger'[r] = e
  BY <1>1, <1>3 DEF RequestInv, Types
<1>8. CASE Leave
  <2>1. tick' \in Ticks /\ tick'.pc \in {"off", "scan"}
    BY <1>8, LeaveMoves DEF RequestInv
  <2>2. Types' /\ Effects' /\ Entered'
    BY <1>1, <1>2, <1>3, <1>5, <1>6, <2>1, EntryStep
  <2>3. Knows(tick)'
    BY <2>1 DEF Knows, HandlePcs
  <2> QED BY <2>2, <2>3 DEF RequestInv
<1>9. CASE Answer("failed", "close")
  <2>1. tick' \in Ticks /\ tick'.pc = "close" /\ tick'.outcome = "failed" /\ tick'.req = r
    BY <1>9, AnswerMoves DEF RequestInv, TickPcs, Terminal
  <2>2. Types' /\ Effects' /\ Entered'
    BY <1>1, <1>2, <1>3, <1>5, <1>6, <2>1, EntryStep
  <2>3. Knows(tick)'
    BY <1>1, <1>2, <1>5, <1>7, <2>1 DEF Knows, HandlePcs, Terminal, Truthful
  <2> QED BY <2>2, <2>3 DEF RequestInv
<1> QED BY <1>8, <1>9 DEF RetryLater

LEMMA CloseStep ==
    ASSUME RequestInv, Close
    PROVE  RequestInv'
<1> DEFINE r == tick.req
           e == [ledger[r] EXCEPT !.status = tick.outcome]
<1>1. /\ r \in Requests /\ expected[r] # 0
      /\ tick.outcome \in Terminal /\ Truthful(r, tick.outcome)
  BY DEF Close, TickAt, RequestInv, Knows, HandlePcs
<1>2. UNCHANGED <<hub, form, expected, effects>> /\ TickGo("ackread")
  BY DEF Close
<1>3. ledger' = [ledger EXCEPT ![r] = e] /\ ledger[r] \in Entries
  BY <1>1 DEF Close, RequestInv, Types
<1>4. e \in Entries /\ e.status = tick.outcome /\ e.authorized = ledger[r].authorized
  BY <1>1, <1>3 DEF Entries
<1> HIDE DEF e
<1>5. tick' \in Ticks /\ tick'.pc = "ackread" /\ tick'.req = r /\ tick'.outcome = tick.outcome
  BY <1>2, GoMoves DEF RequestInv, TickPcs
<1>6. Types' /\ Effects' /\ Entered'
  BY <1>1, <1>2, <1>3, <1>4, <1>5, EntryStep
<1>7. ledger'[r] = e
  BY <1>1, <1>3 DEF RequestInv, Types
<1>8. Knows(tick)'
  BY <1>1, <1>2, <1>4, <1>5, <1>7 DEF Knows, HandlePcs
<1> QED BY <1>6, <1>8 DEF RequestInv

-----------------------------------------------------------------------------
(* The steps that change the Hub. *)

\* The review never goes back: later versions, a decision and an execution that stay.
Later(h) ==
    /\ h \in Hubs
    /\ h.version >= hub.version
    /\ hub.decided => h.decided
    /\ hub.executed => h.executed
    /\ h.executed => h.decided

\* A use case commits the effect of c, for the first time, on behalf of the tick's request.
LEMMA AppliedStep ==
    ASSUME RequestInv, UNCHANGED <<form, expected, ledger>>,
           tick.req \in Requests, expected[tick.req] # 0,
           ledger[tick.req].status = "in_progress",
           NEW c \in Requests, effects[c] = 0, NEW h, Later(h), Applied(c, h),
           c = tick.req \/ (KindOf[c] = "decide" /\ KindOf[tick.req] = "decide"),
           expected[c] # 0,
           KindOf[c] # "execute" => h.version > expected[c],
           KindOf[c] = "decide" => h.decided,
           KindOf[c] = "execute" => h.executed /\ ledger[c].authorized
    PROVE  RequestInv'
<1>1. hub' = h /\ effects' = [effects EXCEPT ![c] = @ + 1]
  BY DEF Applied
<1>2. /\ tick' \in Ticks /\ tick'.pc = "close"
      /\ tick'.outcome = "completed" /\ tick'.req = tick.req
  BY AnswerMoves DEF Applied, RequestInv, TickPcs, Terminal
<1>3. effects'[c] = 1 /\ (\A r \in Requests : r # c => effects'[r] = effects[r])
  BY <1>1 DEF RequestInv, Types
<1>4. Types'
  BY <1>1, <1>2 DEF RequestInv, Types, Later
<1>5. hub'.executed => hub'.decided
  BY <1>1 DEF Later
<1>6. ASSUME NEW r \in Requests
      PROVE  effects'[r] \in {0, 1} /\ (effects'[r] = 1 => TookEffect(r)')
  <2>1. CASE r = c
    BY <1>1, <1>3, <2>1 DEF TookEffect
  <2>2. CASE r # c
    <3>1. effects[r] \in {0, 1} /\ (effects[r] = 1 => TookEffect(r))
      BY DEF RequestInv, Effects
    <3>2. TookEffect(r) => TookEffect(r)'
      <4>1. expected[r] \in Nat /\ hub.version \in Nat /\ h.version \in Nat
            /\ h.version >= hub.version
        BY DEF RequestInv, Types, Hubs, Later
      <4>2. hub.version > expected[r] => h.version > expected[r]
        BY <4>1
      <4> QED BY <1>1, <4>2 DEF TookEffect, Later
    <3> QED BY <1>3, <2>2, <3>1, <3>2
  <2> QED BY <2>1, <2>2
<1>7. Effects'
  BY <1>5, <1>6 DEF RequestInv, Effects
<1>8. ASSUME NEW r \in Requests, NEW outcome, Truthful(r, outcome), r # c \/ KindOf[r] # "resolve"
      PROVE  Truthful(r, outcome)'
  BY <1>1, <1>3, <1>8 DEF Truthful, Carried, Later
<1>9. ASSUME NEW r \in Requests
      PROVE  Truthful(r, ledger[r].status)'
  <2>1. CASE r # c \/ KindOf[r] # "resolve"
    BY <1>8, <2>1 DEF RequestInv, Entered
  <2>2. CASE r = c /\ KindOf[r] = "resolve"
    <3>1. ledger'[r].status = "in_progress"
      BY <2>2
    <3> QED BY <3>1 DEF Truthful
  <2> QED BY <2>1, <2>2
<1>10. Entered'
  BY <1>9 DEF Entered
<1>11. Truthful(tick.req, "completed")'
  BY <1>1, <1>2, <1>3 DEF Truthful, Carried
<1>12. Knows(tick)'
  BY <1>2, <1>11 DEF Knows, HandlePcs, Terminal, Truthful, Carried
<1> QED BY <1>4, <1>7, <1>10, <1>12 DEF RequestInv

\* The use case moves the review one version on, and may decide it.
LEMMA MovesOn ==
    ASSUME RequestInv, ~hub.decided, NEW d \in BOOLEAN,
           NEW h, h = [hub EXCEPT !.version = @ + 1, !.decided = d]
    PROVE  Later(h) /\ h.version = hub.version + 1 /\ h.decided = d
<1> DEFINE a == [hub EXCEPT !.version = @ + 1]
<1>1. hub \in Hubs /\ (hub.executed => hub.decided)
  BY DEF RequestInv, Types, Effects
<1>2. a \in Hubs /\ a.version = hub.version + 1 /\ a.executed = hub.executed
  BY <1>1 DEF Hubs
<1>3. h = [a EXCEPT !.decided = d]
  BY <1>1 DEF Hubs
<1> HIDE DEF a
<1>4. h \in Hubs /\ h.version = hub.version + 1 /\ h.decided = d /\ h.executed = hub.executed
  BY <1>2, <1>3 DEF Hubs
<1>5. h.version >= hub.version
  BY <1>1, <1>4 DEF Hubs
<1> QED BY <1>1, <1>4, <1>5 DEF Later

LEMMA MovesOnUndecided ==
    ASSUME RequestInv, ~hub.decided
    PROVE  LET h == [hub EXCEPT !.version = @ + 1] IN
           Later(h) /\ h.version = hub.version + 1
<1> DEFINE h == [hub EXCEPT !.version = @ + 1]
<1>1. hub \in Hubs /\ (hub.executed => hub.decided)
  BY DEF RequestInv, Types, Effects
<1>2. h \in Hubs /\ h.version = hub.version + 1 /\ h.executed = hub.executed
      /\ h.decided = hub.decided
  BY <1>1 DEF Hubs
<1>3. h.version >= hub.version
  BY <1>1, <1>2 DEF Hubs
<1> HIDE DEF h
<1>4. Later(h) /\ h.version = hub.version + 1
  BY <1>1, <1>2, <1>3 DEF Later
<1> QED BY <1>4 DEF h

\* A request whose version the review still has was not applied, unless it is an execution.
LEMMA CurrentIsUnapplied ==
    ASSUME RequestInv, NEW r \in Requests, Current(r), KindOf[r] # "execute"
    PROVE  /\ effects[r] = 0 /\ ~hub.decided /\ expected[r] # 0
           /\ hub.version = expected[r] /\ hub.version + 1 > expected[r]
<1>1. hub.version \in Nat \ {0} /\ expected[r] \in Nat /\ hub.version = expected[r]
  BY DEF RequestInv, Types, Hubs, Current
<1>2. ~(hub.version > expected[r]) /\ hub.version + 1 > expected[r] /\ expected[r] # 0
  BY <1>1
<1>3. effects[r] \in {0, 1} /\ (effects[r] = 1 => TookEffect(r))
  BY DEF RequestInv, Effects
<1>4. effects[r] = 0
  BY <1>2, <1>3 DEF TookEffect
<1> QED BY <1>1, <1>2, <1>4 DEF Current

\* The tick's request is answered without a change.
LEMMA UnappliedStep ==
    ASSUME RequestInv, UNCHANGED <<form, expected, ledger>>, tick.pc \in HandlePcs,
           NEW outcome \in Terminal, Truthful(tick.req, outcome), Unapplied(outcome)
    PROVE  RequestInv'
<1>1. tick.req \in Requests /\ expected[tick.req] # 0 /\ ledger[tick.req].status \notin Terminal
  BY DEF RequestInv, Knows, HandlePcs, Terminal
<1> QED BY <1>1, AnswerStep DEF Unapplied

\* What the tick knows of its request when the use case runs.
LEMMA Handling ==
    ASSUME RequestInv, tick.pc \in HandlePcs
    PROVE  /\ tick.req \in Requests /\ expected[tick.req] # 0
           /\ ledger[tick.req].status = "in_progress"
           /\ effects[tick.req] \in {0, 1}
<1>1. tick.req \in Requests /\ expected[tick.req] # 0 /\ ledger[tick.req].status = "in_progress"
  BY DEF RequestInv, Knows, HandlePcs
<1> QED BY <1>1 DEF RequestInv, Effects

\* Resolve and Map of a current request: the review moves on.
LEMMA MoveStep ==
    ASSUME RequestInv, UNCHANGED <<form, expected, ledger>>, tick.pc \in HandlePcs,
           KindOf[tick.req] \in {"resolve", "map"}, Current(tick.req),
           Applied(tick.req, [hub EXCEPT !.version = @ + 1])
    PROVE  RequestInv'
<1> DEFINE r == tick.req
           h == [hub EXCEPT !.version = @ + 1]
<1>1. r \in Requests /\ expected[r] # 0 /\ ledger[r].status = "in_progress"
  BY Handling
<1>2. effects[r] = 0 /\ ~hub.decided /\ hub.version + 1 > expected[r]
  BY <1>1, CurrentIsUnapplied
<1>3. Later(h) /\ h.version = hub.version + 1
  BY <1>2, MovesOnUndecided
<1>4. KindOf[r] # "execute" /\ KindOf[r] # "decide"
  OBVIOUS
<1>5. Applied(r, h)
  OBVIOUS
<1> HIDE DEF h
<1>6. h.version > expected[r]
  BY <1>2, <1>3
<1> HIDE DEF r
<1> QED BY <1>1, <1>2, <1>3, <1>4, <1>5, <1>6, AppliedStep DEF r

LEMMA ResolveStep ==
    ASSUME RequestInv, UNCHANGED <<form, expected, ledger>>, tick.pc \in HandlePcs,
           KindOf[tick.req] = "resolve", Resolve(tick.req)
    PROVE  RequestInv'
<1> DEFINE r == tick.req
<1>1. effects[r] \in {0, 1}
  BY Handling
<1>2. CASE effects[r] > 0
  <2>1. effects[r] = 1
    BY <1>1, <1>2
  <2>2. Truthful(r, "completed")
    BY <2>1 DEF Truthful, Carried
  <2> QED BY <1>2, <2>2, UnappliedStep DEF Resolve, Terminal
<1>3. CASE ~(effects[r] > 0) /\ Current(r)
  BY <1>3, MoveStep DEF Resolve
<1>4. CASE ~(effects[r] > 0) /\ ~Current(r)
  <2>1. effects[r] = 0
    BY <1>1, <1>4
  <2>2. Truthful(r, "stale")
    BY <2>1 DEF Truthful
  <2> QED BY <1>4, <2>2, UnappliedStep DEF Resolve, Terminal
<1> QED BY <1>2, <1>3, <1>4

LEMMA MapStep ==
    ASSUME RequestInv, UNCHANGED <<form, expected, ledger>>, tick.pc \in HandlePcs,
           KindOf[tick.req] = "map", Map(tick.req)
    PROVE  RequestInv'
<1>1. CASE Current(tick.req)
  BY <1>1, MoveStep DEF Map
<1>2. CASE ~Current(tick.req)
  <2>1. Truthful(tick.req, "stale")
    BY DEF Truthful
  <2> QED BY <1>2, <2>1, UnappliedStep DEF Map, Terminal
<1> QED BY <1>1, <1>2

\* The decision of the row may be another one than the request's: it is applied, or found
\* applied, and the review is decided either way.
LEMMA DecideStep ==
    ASSUME RequestInv, UNCHANGED <<form, expected, ledger>>, tick.pc \in HandlePcs,
           KindOf[tick.req] = "decide", Decide(tick.req)
    PROVE  RequestInv'
<1> DEFINE r == tick.req
           c == form["parent"].req
           h == [hub EXCEPT !.version = @ + 1, !.decided = TRUE]
<1>1. r \in Requests /\ expected[r] # 0 /\ ledger[r].status = "in_progress"
  BY Handling
<1>2. Truthful(r, "stale") /\ Truthful(r, "rejected")
  BY DEF Truthful
<1>3. CASE c = NoRequest \/ ~form["parent"].ready \/ KindOf[c] # "decide"
  BY <1>2, <1>3, UnappliedStep DEF Decide, Terminal
<1>4. CASE ~(c = NoRequest \/ ~form["parent"].ready \/ KindOf[c] # "decide")
  <2>1. c \in Requests /\ KindOf[c] = "decide"
    BY <1>4, ThreeChannels DEF RequestInv, Effects
  <2>2. effects[c] \in {0, 1} /\ (effects[c] = 1 => TookEffect(c))
    BY <2>1 DEF RequestInv, Effects
  <2>3. CASE expected[c] # expected[r]
    BY <1>2, <1>4, <2>3, UnappliedStep DEF Decide, Terminal
  <2>4. CASE expected[c] = expected[r] /\ effects[c] > 0
    <3>1. effects[c] = 1
      BY <2>2, <2>4
    <3>2. hub.decided
      BY <2>1, <2>2, <3>1 DEF TookEffect
    <3>3. Truthful(r, "completed")
      BY <3>2 DEF Truthful, Carried
    <3> QED BY <1>4, <2>4, <3>3, UnappliedStep DEF Decide, Terminal
  <2>5. CASE expected[c] = expected[r] /\ ~(effects[c] > 0) /\ ~Current(c)
    BY <1>2, <1>4, <2>5, UnappliedStep DEF Decide, Terminal
  <2>6. CASE expected[c] = expected[r] /\ ~(effects[c] > 0) /\ Current(c)
    <3>1. Applied(c, h)
      BY <1>4, <2>6 DEF Decide
    <3>2. effects[c] = 0 /\ ~hub.decided /\ expected[c] # 0 /\ hub.version + 1 > expected[c]
      BY <2>1, <2>6, CurrentIsUnapplied
    <3> HIDE DEF c
    <3>3. Later(h) /\ h.version = hub.version + 1 /\ h.decided = TRUE
      BY <3>2, MovesOn
    <3> HIDE DEF h
    <3>4. h.version > expected[c]
      BY <3>2, <3>3
    <3>5. KindOf[c] = "decide" /\ KindOf[r] = "decide"
      BY <2>1
    <3> QED BY <1>1, <2>1, <3>1, <3>2, <3>3, <3>4, <3>5, AppliedStep
  <2> QED BY <2>3, <2>4, <2>5, <2>6
<1> QED BY <1>3, <1>4

LEMMA ProbeStep ==
    ASSUME RequestInv, UNCHANGED <<form, expected, ledger>>, tick.pc \in HandlePcs,
           KindOf[tick.req] = "execute", Probe(tick.req)
    PROVE  RequestInv'
<1> DEFINE r == tick.req
<1>1. r \in Requests /\ expected[r] # 0 /\ ledger[r].status = "in_progress"
  BY Handling
<1>2. CASE Unapplied("completed") /\ hub.executed
  <2>1. Truthful(r, "completed")
    BY <1>2 DEF Truthful, Carried
  <2> QED BY <1>2, <2>1, UnappliedStep DEF Terminal
<1>3. CASE Unapplied("stale")
  <2>1. Truthful(r, "stale")
    BY DEF Truthful
  <2> QED BY <1>3, <2>1, UnappliedStep DEF Terminal
<1>4. CASE ledger[r].authorized /\ TickGo("dispatch") /\ UNCHANGED <<hub, effects>>
  <2>1. tick' \in Ticks /\ tick'.pc = "dispatch" /\ tick'.req = r
    BY <1>4, GoMoves DEF RequestInv, TickPcs, HandlePcs
  <2>2. Knows(tick')
    BY <1>1, <1>4, <2>1 DEF Knows, HandlePcs
  <2> QED BY <1>4, <2>1, <2>2, TickOnly
<1>5. CASE TickGo("authorize") /\ UNCHANGED <<hub, effects>>
  <2>1. tick' \in Ticks /\ tick'.pc = "authorize" /\ tick'.req = r
    BY <1>5, GoMoves DEF RequestInv, TickPcs, HandlePcs
  <2>2. Knows(tick')
    BY <1>1, <2>1 DEF Knows, HandlePcs
  <2> QED BY <1>5, <2>1, <2>2, TickOnly
<1> QED BY <1>2, <1>3, <1>4, <1>5 DEF Probe

LEMMA HandleStep ==
    ASSUME RequestInv, Handle
    PROVE  RequestInv'
<1>1. UNCHANGED <<form, expected, ledger>> /\ tick.pc \in HandlePcs
  BY DEF Handle, TickAt, HandlePcs
<1> QED BY <1>1, ResolveStep, MapStep, DecideStep, ProbeStep DEF Handle

\* An execution is carried out once: the review it executed says so.
LEMMA DispatchStep ==
    ASSUME RequestInv, Dispatch
    PROVE  RequestInv'
<1> DEFINE r == tick.req
           h == [hub EXCEPT !.executed = TRUE]
<1>1. UNCHANGED <<form, expected, ledger>> /\ tick.pc \in HandlePcs
  BY DEF Dispatch, TickAt, HandlePcs
<1>2. r \in Requests /\ expected[r] # 0 /\ ledger[r].status = "in_progress"
      /\ effects[r] \in {0, 1}
  BY <1>1, Handling
<1>3. KindOf[r] = "execute" /\ ledger[r].authorized
  BY DEF Dispatch, TickAt, RequestInv, Knows
<1>4. CASE Unapplied("completed") /\ hub.executed
  <2>1. Truthful(r, "completed")
    BY <1>3, <1>4 DEF Truthful, Carried
  <2> QED BY <1>1, <1>4, <2>1, UnappliedStep DEF Terminal
<1>5. CASE Unapplied("stale")
  <2>1. Truthful(r, "stale")
    BY <1>3 DEF Truthful
  <2> QED BY <1>1, <1>5, <2>1, UnappliedStep DEF Terminal
<1>6. CASE ~hub.executed /\ hub.decided /\ Applied(r, h)
  <2>1. effects[r] = 0
    BY <1>2, <1>3, <1>6 DEF RequestInv, Effects, TookEffect
  <2>2. hub \in Hubs
    BY DEF RequestInv, Types
  <2>3. h \in Hubs /\ h.version = hub.version /\ h.decided = hub.decided /\ h.executed
    BY <2>2 DEF Hubs
  <2>4. h.version >= hub.version
    BY <2>2, <2>3 DEF Hubs
  <2>5. Applied(r, h)
    BY <1>6
  <2> HIDE DEF h
  <2>6. Later(h)
    BY <1>6, <2>3, <2>4 DEF Later
  <2> QED BY <1>1, <1>2, <1>3, <2>1, <2>3, <2>5, <2>6, AppliedStep
<1> QED BY <1>4, <1>5, <1>6 DEF Dispatch

\* The review is moved, decided or executed by somebody else.
LEMMA HubMovesStep ==
    ASSUME RequestInv, HubMoves
    PROVE  RequestInv'
<1>1. UNCHANGED <<form, expected, ledger, effects, tick>>
  BY DEF HubMoves
<1>2. Later(hub')
  <2>1. CASE ~hub.decided /\ \E d \in BOOLEAN : hub' = [hub EXCEPT !.version = @ + 1, !.decided = d]
    BY <2>1, MovesOn
  <2>2. CASE hub.decided /\ ~hub.executed /\ hub' = [hub EXCEPT !.executed = TRUE]
    <3>1. hub \in Hubs
      BY DEF RequestInv, Types
    <3>2. hub' \in Hubs /\ hub'.version = hub.version /\ hub'.decided = hub.decided /\ hub'.executed
      BY <2>2, <3>1 DEF Hubs
    <3>3. hub'.version >= hub.version
      BY <3>1, <3>2 DEF Hubs
    <3> QED BY <2>2, <3>2, <3>3 DEF Later
  <2> QED BY <2>1, <2>2 DEF HubMoves
<1>3. Types'
  BY <1>1, <1>2 DEF RequestInv, Types, Later
<1>4. ASSUME NEW r \in Requests
      PROVE  effects'[r] \in {0, 1} /\ (effects'[r] = 1 => TookEffect(r)')
  <2>1. effects[r] \in {0, 1} /\ (effects[r] = 1 => TookEffect(r))
    BY DEF RequestInv, Effects
  <2>2. expected[r] \in Nat /\ hub.version \in Nat /\ hub'.version \in Nat
        /\ hub'.version >= hub.version
    BY <1>2 DEF RequestInv, Types, Hubs, Later
  <2>3. hub.version > expected[r] => hub'.version > expected[r]
    BY <2>2
  <2> QED BY <1>1, <1>2, <2>1, <2>3 DEF TookEffect, Later
<1>5. Effects'
  BY <1>1, <1>2, <1>4 DEF RequestInv, Effects, Later
<1>6. ASSUME NEW r, NEW outcome, Truthful(r, outcome)
      PROVE  Truthful(r, outcome)'
  BY <1>1, <1>2, <1>6 DEF Truthful, Carried, Later
<1>7. Entered'
  BY <1>1, <1>6 DEF RequestInv, Entered
<1>8. Knows(tick)'
  BY <1>1, <1>6 DEF RequestInv, Knows
<1> QED BY <1>3, <1>5, <1>7, <1>8 DEF RequestInv

-----------------------------------------------------------------------------
(* The steps that write the row in Odoo. *)

LEMMA SubmitStep ==
    ASSUME RequestInv, NEW r \in Requests, Submit(r)
    PROVE  RequestInv'
<1> DEFINE f == [ready |-> TRUE, req |-> r, result |-> "none"]
           ch == ChannelOf[r]
<1>1. UNCHANGED <<hub, ledger, effects, tick>> /\ expected[r] = 0
  BY DEF Submit
<1>2. PICK shown \in 1..hub.version : expected' = [expected EXCEPT ![r] = shown]
  BY DEF Submit
<1>3. shown \in Nat /\ shown # 0
  BY <1>2 DEF RequestInv, Types, Hubs
<1>4. form' = [form EXCEPT ![ch] = f] /\ ch \in ChannelNames
  BY RequestAssumption DEF Submit
<1>5. f \in Forms
  BY DEF Forms
<1>6. Types'
  BY <1>1, <1>2, <1>3, <1>4, <1>5 DEF RequestInv, Types
<1>7. expected'[r] # 0 /\ (\A q \in Requests : q # r => expected'[q] = expected[q])
  BY <1>2, <1>3 DEF RequestInv, Types
<1>8. \A q \in Requests : expected[q] # 0 => expected'[q] = expected[q]
  BY <1>1, <1>7
<1>9. ASSUME NEW q \in Requests
      PROVE  effects'[q] \in {0, 1} /\ (effects'[q] = 1 => TookEffect(q)')
  BY <1>1, <1>8 DEF RequestInv, Effects, TookEffect
<1>10. ASSUME NEW c \in ChannelNames
       PROVE  /\ form'[c].ready => form'[c].req \in Requests
              /\ form'[c].req \in Requests => expected'[form'[c].req] # 0
  <2>1. CASE c = ch
    <3>1. form'[c] = f
      BY <1>4, <2>1 DEF RequestInv, Types
    <3> QED BY <1>7, <3>1
  <2>2. CASE c # ch
    <3>1. form'[c] = form[c]
      BY <1>4, <2>2 DEF RequestInv, Types
    <3> QED BY <1>8, <3>1 DEF RequestInv, Effects
  <2> QED BY <2>1, <2>2
<1>11. Effects'
  BY <1>1, <1>9, <1>10 DEF RequestInv, Effects
<1>12. Entered'
  BY <1>1 DEF RequestInv, Entered, Truthful, Carried
<1>13. Knows(tick)'
  BY <1>1, <1>8 DEF RequestInv, Knows, Truthful, Carried
<1> QED BY <1>6, <1>11, <1>12, <1>13 DEF RequestInv

\* What the acknowledgement writes, and where.
LEMMA AckWritten ==
    ASSUME RequestInv, AckWrite
    PROVE  LET result == IF tick.outcome = "unread" THEN "rejected" ELSE tick.outcome
               ch == ChannelOf[tick.req] IN
           /\ ch \in ChannelNames /\ result \in Terminal
           /\ form' \in [ChannelNames -> Forms]
           /\ form'[ch].result = result /\ ~form'[ch].ready /\ form'[ch].req = form[ch].req
           /\ \A c \in ChannelNames : c # ch => form'[c] = form[c]
<1> DEFINE result == IF tick.outcome = "unread" THEN "rejected" ELSE tick.outcome
           ch == ChannelOf[tick.req]
           a == [form[ch] EXCEPT !.ready = FALSE]
           b == [a EXCEPT !.result = result]
<1>1. tick.req \in Requests /\ (tick.outcome = "unread" \/ tick.outcome \in Terminal)
  BY DEF AckWrite, TickAt, RequestInv, Knows
<1>2. ch \in ChannelNames /\ result \in Terminal
  BY <1>1, RequestAssumption DEF Terminal
<1>3. form[ch] \in Forms /\ form \in [ChannelNames -> Forms]
  BY <1>2 DEF RequestInv, Types
<1>4. form' = [[form EXCEPT ![ch].ready = FALSE] EXCEPT ![ch].result = result]
  BY DEF AckWrite
<1> HIDE DEF ch, result
<1>5. form' = [form EXCEPT ![ch] = b]
  BY <1>2, <1>3, <1>4
<1>6. a \in Forms /\ ~a.ready /\ a.req = form[ch].req
  BY <1>3 DEF Forms
<1> HIDE DEF a
<1>7. b \in Forms /\ ~b.ready /\ b.req = form[ch].req /\ b.result = result
  BY <1>2, <1>6 DEF Forms
<1> HIDE DEF b
<1>8. form' \in [ChannelNames -> Forms] /\ form'[ch] = b
      /\ \A c \in ChannelNames : c # ch => form'[c] = form[c]
  BY <1>2, <1>3, <1>5, <1>7
<1> QED BY <1>2, <1>7, <1>8 DEF ch, result

LEMMA AckWriteStep ==
    ASSUME RequestInv, AckWrite
    PROVE  RequestInv'
<1>1. UNCHANGED <<hub, expected, ledger, effects>> /\ Leave
  BY DEF AckWrite
<1>2. tick' \in Ticks /\ tick'.pc \in {"off", "scan"}
  BY <1>1, LeaveMoves DEF RequestInv
<1>3. /\ form' \in [ChannelNames -> Forms]
      /\ \A c \in ChannelNames : /\ form'[c].req = form[c].req
                                 /\ form'[c].ready => form[c].ready
  BY AckWritten
<1>4. Types'
  BY <1>1, <1>2, <1>3 DEF RequestInv, Types
<1>5. Effects'
  BY <1>1, <1>3 DEF RequestInv, Effects, TookEffect
<1>6. Entered'
  BY <1>1 DEF RequestInv, Entered, Truthful, Carried
<1>7. Knows(tick)'
  BY <1>2 DEF Knows, HandlePcs
<1> QED BY <1>4, <1>5, <1>6, <1>7 DEF RequestInv

-----------------------------------------------------------------------------
(* The theorems. *)

LEMMA InitRequests ==
    ASSUME Init
    PROVE  RequestInv
<1>1. Types
  <2>1. hub \in Hubs
    BY DEF Init, Hubs
  <2>2. form \in [ChannelNames -> Forms]
    BY DEF Init, Forms
  <2>3. expected \in [Requests -> Nat] /\ effects \in [Requests -> Nat]
    BY DEF Init
  <2>4. ledger \in [Requests -> Entries]
    BY RequestAssumption DEF Init, Entries
  <2>5. tick \in Ticks
    BY OffTick DEF Init
  <2> QED BY <2>1, <2>2, <2>3, <2>4, <2>5 DEF Types
<1>2. Effects
  BY RequestAssumption DEF Init, Effects
<1>3. Entered
  BY DEF Init, Entered, Truthful
<1>4. Knows(tick)
  BY OffTick, Unbound DEF Init
<1> QED BY <1>1, <1>2, <1>3, <1>4 DEF RequestInv

LEMMA RequestStutter ==
    ASSUME RequestInv, UNCHANGED vars
    PROVE  RequestInv'
<1>1. UNCHANGED <<hub, form, expected, ledger, effects>> /\ tick' = tick
  BY DEF vars
<1>2. tick' \in Ticks /\ Knows(tick')
  BY <1>1 DEF RequestInv, Types
<1> QED BY <1>1, <1>2, TickOnly

(* RequestInv is inductive: the marks an effect leaves in the Hub and in the ledger, the    *)
(* truth of every finished entry, and what the tick knows of the request in its hands hold  *)
(* in every state OperatorRequestTick, its handlers and the operators can reach.            *)
THEOREM RequestInvariance == Spec => []RequestInv
<1>1. Init => RequestInv
  BY InitRequests
<1>2. RequestInv /\ [Next]_vars => RequestInv'
  <2> SUFFICES ASSUME RequestInv, [Next]_vars PROVE RequestInv'
    OBVIOUS
  <2>1. CASE TickStarts
    BY <2>1, TickStartsStep
  <2>2. CASE Scan
    BY <2>2, ScanStep
  <2>3. CASE Process
    BY <2>3, ProcessStep
  <2>4. CASE Handle
    BY <2>4, HandleStep
  <2>5. CASE Authorize
    BY <2>5, AuthorizeStep
  <2>6. CASE RecordAuthorization
    BY <2>6, RecordAuthorizationStep
  <2>7. CASE Dispatch
    BY <2>7, DispatchStep
  <2>8. CASE Close
    BY <2>8, CloseStep
  <2>9. CASE AckRead
    BY <2>9, AckReadStep
  <2>10. CASE AckWrite
    BY <2>10, AckWriteStep
  <2>11. CASE ChannelFails \/ AckFails \/ Crash
    BY <2>11, TroubleStep
  <2>12. CASE Refused
    BY <2>12, RefusedStep
  <2>13. CASE RetryLater
    BY <2>13, RetryLaterStep
  <2>14. CASE HubMoves
    BY <2>14, HubMovesStep
  <2>15. CASE \E r \in Requests : Submit(r)
    BY <2>15, SubmitStep
  <2>16. CASE UNCHANGED vars
    BY <2>16, RequestStutter
  <2> QED BY <2>1, <2>2, <2>3, <2>4, <2>5, <2>6, <2>7, <2>8, <2>9, <2>10, <2>11, <2>12, <2>13,
             <2>14, <2>15, <2>16 DEF Next, TickStep, TickTrouble
<1> QED BY <1>1, <1>2, PTL DEF Spec

(* However often a tick dies after the use case's commit, or finds the row ready again, no  *)
(* submission changes the Hub twice: Resolve, Map, Decide and Dispatch each recognise what  *)
(* an earlier run of theirs committed.                                                      *)
THEOREM RequestsAppliedOnce == Spec => []AppliedOnce
<1>1. RequestInv => AppliedOnce
  BY DEF RequestInv, Effects, AppliedOnce
<1> QED BY <1>1, RequestInvariance, PTL

(* Every finished entry of the ledger says what was done: completed requests were carried   *)
(* out, a resumable one is never stale to its own work, and no execution rests on an        *)
(* authorization the ledger has not recorded.                                               *)
THEOREM LedgerIsTrue == Spec => []AnswersAreTrue
<1>1. RequestInv => AnswersAreTrue
  <2> SUFFICES ASSUME RequestInv PROVE AnswersAreTrue
    OBVIOUS
  <2>1. RequestTypeOK
    <3>1. hub.version \in Nat \ {0}
      BY DEF RequestInv, Types, Hubs
    <3>2. \A c \in ChannelNames : form[c] \in Forms
      BY DEF RequestInv, Types
    <3>3. \A r \in Requests : ledger[r] \in Entries
      BY DEF RequestInv, Types
    <3>4. tick.channel \in DOMAIN Channels
      BY ThreeChannels DEF RequestInv, Types, Ticks
    <3> QED BY <3>1, <3>2, <3>3, <3>4 DEF RequestTypeOK, Forms, Entries
  <2>2. CompletedIsTrue
    BY DEF RequestInv, Entered, Truthful, Carried, CompletedIsTrue
  <2>3. ResumeIsRecognised
    BY DEF RequestInv, Entered, Truthful, ResumeIsRecognised
  <2>4. AuthorizationIsRecorded
    BY DEF RequestInv, Effects, TookEffect, AuthorizationIsRecorded
  <2> QED BY <2>1, <2>2, <2>3, <2>4 DEF AnswersAreTrue
<1> QED BY <1>1, RequestInvariance, PTL

\* A step keeps the outcomes, and tells Odoo only the one that is recorded.
FinalStep ==
    /\ \A r \in Requests : ledger[r].status \in Terminal => ledger'[r].status = ledger[r].status
    /\ \A c \in ChannelNames :
         form'[c].result # form[c].result /\ form'[c].result # "none" =>
             \/ form'[c].result = ledger[tick.req].status
             \/ tick.outcome = "unread"

LEMMA OutcomesKept ==
    ASSUME RequestInv, Next
    PROVE  \A r \in Requests : ledger[r].status \in Terminal => ledger'[r].status = ledger[r].status
<1> DEFINE q == tick.req
<1>1. CASE UNCHANGED ledger
  BY <1>1
<1>2. CASE Process /\ ~UNCHANGED ledger
  <2>1. ledger' = [ledger EXCEPT ![q] = Started(q)] /\ ledger[q].status \notin Terminal
    BY <1>2 DEF Process
  <2> QED BY <2>1 DEF RequestInv, Types
<1>3. CASE RecordAuthorization
  <2>1. ledger' = [ledger EXCEPT ![q] = [ledger[q] EXCEPT !.authorized = TRUE]]
    BY <1>3 DEF RecordAuthorization
  <2>2. \A r \in Requests : ledger[r] \in Entries
    BY DEF RequestInv, Types
  <2>3. q \in Requests /\ ledger[q].status \notin Terminal
    BY <1>3 DEF RecordAuthorization, TickAt, RequestInv, Knows, HandlePcs, Terminal
  <2> QED BY <2>1, <2>2, <2>3 DEF RequestInv, Types
<1>4. CASE RetryLater
  <2>1. PICK e : ledger' = [ledger EXCEPT ![q] = e]
    BY <1>4 DEF RetryLater
  <2>2. q \in Requests /\ ledger[q].status \notin Terminal
    BY <1>4 DEF RetryLater, RequestInv, Knows, HandlePcs, Terminal
  <2> QED BY <2>1, <2>2 DEF RequestInv, Types
<1>5. CASE Close
  <2>1. ledger' = [ledger EXCEPT ![q] = [ledger[q] EXCEPT !.status = tick.outcome]]
    BY <1>5 DEF Close
  <2>2. q \in Requests /\ ledger[q].status \notin Terminal
    BY <1>5 DEF Close, TickAt, RequestInv, Knows, HandlePcs
  <2> QED BY <2>1, <2>2 DEF RequestInv, Types
<1> QED BY <1>1, <1>2, <1>3, <1>4, <1>5
       DEF Next, TickStep, TickTrouble, TickStarts, Scan, Handle, Authorize, Dispatch, AckRead,
           AckWrite, ChannelFails, Refused, AckFails, Crash, HubMoves, Submit

LEMMA OdooToldTheOutcome ==
    ASSUME RequestInv, Next, NEW c \in ChannelNames,
           form'[c].result # form[c].result, form'[c].result # "none"
    PROVE  form'[c].result = ledger[tick.req].status \/ tick.outcome = "unread"
<1>1. CASE UNCHANGED form
  BY <1>1
<1>2. CASE AckWrite
  <2>1. tick.outcome = "unread" \/ ledger[tick.req].status = tick.outcome
    BY <1>2 DEF AckWrite, TickAt, RequestInv, Knows
  <2> QED BY <1>2, <2>1, AckWritten
<1>3. CASE \E r \in Requests : Submit(r)
  <2>1. PICK r \in Requests : Submit(r)
    BY <1>3
  <2>2. form' = [form EXCEPT ![ChannelOf[r]] = [ready |-> TRUE, req |-> r, result |-> "none"]]
    BY <2>1 DEF Submit
  <2> QED BY <2>2 DEF RequestInv, Types
<1> QED BY <1>1, <1>2, <1>3
       DEF Next, TickStep, TickTrouble, TickStarts, Scan, Process, Handle, Authorize,
           RecordAuthorization, Dispatch, Close, AckRead, ChannelFails, Refused, RetryLater,
           AckFails, Crash, HubMoves

(* What the ledger has finished keeps its outcome, and acknowledge_same_request writes that *)
(* outcome and no other to the row, except for a row that could not be read.                *)
THEOREM OutcomesAreFinal == Spec => LedgerIsFinal
<1>1. RequestInv /\ [Next]_vars => [FinalStep]_vars
  BY OutcomesKept, OdooToldTheOutcome DEF FinalStep
<1> QED BY <1>1, RequestInvariance, PTL DEF Spec, LedgerIsFinal, FinalStep

=============================================================================
