------------------------- MODULE ProductRemediation -------------------------
(***************************************************************************)
(* Giving a PRODUCT_NOT_FOUND invoice line a product in Odoo.  Three use    *)
(* cases compete for ONE supplier-product identity (company, supplier,      *)
(* seller item code):                                                       *)
(*   - CreateNewProductUseCase (API): reservation row, identity claim,      *)
(*     product.template create, then product.supplierinfo create;           *)
(*   - CreateLineProductUseCase (operator request tick): creation row and   *)
(*     claim in one commit, then one create that carries the supplierinfo;  *)
(*   - MapExistingProductUseCase (the tick): supplierinfo for a product     *)
(*     that exists already.                                                 *)
(* A job is one command: one line of one review at one review version.      *)
(* Every Hub step is one commit, every Odoo call is one step; a process may *)
(* die between any two, and an Odoo create whose answer is lost may land    *)
(* later.                                                                   *)
(***************************************************************************)
EXTENDS Naturals, Sequences, FiniteSets

CONSTANTS
    ApiWorkers,     \* API processes: they run the NewJobs
    Tick,           \* the single-flight operator request tick: the other jobs
    NewJobs,        \* CREATE_NEW_PRODUCT commands
    LineJobs,       \* product_line_create requests
    MapJobs,        \* product_mapping requests
    ReviewOf,       \* [Jobs -> reviews]: two LineJobs of one review share its line
    VersionOf,      \* [Jobs -> Nat]: the expected_version of the command
    MaxVersion,     \* bound: review versions
    MaxProducts,    \* bound: product.template records Odoo can be asked for
    MaxLateLinks,   \* bound: supplierinfo creates whose answer is lost
    NoOne           \* no worker, no claim owner

Jobs == NewJobs \cup LineJobs \cup MapJobs
Workers == ApiWorkers \cup {Tick}
Reviews == {ReviewOf[j] : j \in Jobs}

ASSUME RemediationAssumption ==
    /\ NoOne \notin Jobs \cup Workers
    /\ Tick \notin ApiWorkers
    /\ NewJobs \cap LineJobs = {} /\ NewJobs \cap MapJobs = {} /\ LineJobs \cap MapJobs = {}
    /\ VersionOf \in [Jobs -> 1..MaxVersion]
    /\ MaxProducts \in Nat \ {0} /\ MaxLateLinks \in Nat

ReservationStatus == {"none", "reserved", "create_attempted", "product_created",
                      "completed", "reused_existing_product", "needs_reconciliation"}
CreationStatus == {"none", "create_attempted", "product_created", "completed",
                   "needs_reconciliation"}

VARIABLES
    version,    \* [Reviews -> Nat]: the committed review version
    row,        \* [NewJobs \cup LineJobs -> [status, product]]: reservation / creation row
    late,       \* creation attempts older than the outcome grace
    claim,      \* the owner of the supplier-product identity, or NoOne
    products,   \* Odoo: product.template records, each the job that made it
    infos,      \* Odoo: product.supplierinfo rows of the identity, [product, by, guarded]
    inflight,   \* creates whose answer was lost and that may still land in Odoo
    latelinks,  \* the supplierinfo rows whose answer was lost, likewise
    authLock,   \* [Jobs -> worker]: the authorization row locked by claim_and_consume, if any
    proc        \* [Workers -> [pc, job, to, product, next]]

vars == <<version, row, late, claim, products, infos, inflight, latelinks, authLock, proc>>

Idle == [pc |-> "idle", job |-> NoOne, to |-> "none", product |-> 0, next |-> "idle"]
Catalog == MaxProducts + 1      \* the product an operator maps a line to

MadeBy(j) == {i \in DOMAIN products : products[i] = j}

Init ==
    /\ version = [r \in Reviews |-> 1]
    /\ row = [j \in NewJobs \cup LineJobs |-> [status |-> "none", product |-> 0]]
    /\ late = {}
    /\ claim = NoOne
    /\ products = <<>>
    /\ infos = <<>>
    /\ inflight = {}
    /\ latelinks = {}
    /\ authLock = [j \in Jobs |-> NoOne]
    /\ proc = [w \in Workers |-> Idle]

At(w, pc) == proc[w].pc = pc
Go(w, pc) == proc' = [proc EXCEPT ![w].pc = pc]
GoWith(w, pc, p) == proc' = [proc EXCEPT ![w].pc = pc, ![w].product = p]
\* a use case returns or raises: its session ends and releases its row lock
Leave(w) == proc' = [proc EXCEPT ![w] = Idle]
Unlock(w) == authLock' = [j \in Jobs |-> IF authLock[j] = w THEN NoOne ELSE authLock[j]]

\* the advance() of both repositories: a read that checks the status ...
Advance(w, from, to, product, next) ==
    IF row[proc[w].job].status = from
      THEN proc' = [proc EXCEPT ![w] = [pc |-> "flush", job |-> @.job, to |-> to,
                                        product |-> product, next |-> next]]
      ELSE Leave(w)

\* ... and an UPDATE by primary key, committed: no condition on the status again
Flush(w) ==
    /\ At(w, "flush")
    /\ LET p == proc[w] IN
        /\ row' = [row EXCEPT ![p.job] =
                     [status |-> p.to, product |-> IF p.product = 0 THEN @.product ELSE p.product]]
        /\ IF p.next = "idle" THEN Leave(w)
           ELSE proc' = [proc EXCEPT ![w] = [Idle EXCEPT !.pc = p.next, !.job = p.job,
                                                         !.product = p.product]]
        /\ version' = IF p.job \in LineJobs /\ p.to = "completed"
                        THEN [version EXCEPT ![ReviewOf[p.job]] = @ + 1] ELSE version
    /\ Unlock(w)
    /\ UNCHANGED <<late, claim, products, infos, inflight, latelinks>>

\* Mutation: claim_and_consume takes the row without waiting for its holder.
TakeLockAnyway(w) == authLock' = [authLock EXCEPT ![proc[w].job] = w]

\* claim_and_consume locks the authorization row until the session ends
TakeLock(w) ==
    /\ authLock[proc[w].job] \in {NoOne, w}
    /\ authLock' = [authLock EXCEPT ![proc[w].job] = w]

\* _claim_write_authorization: a command of the API may name no authorization; the gate of the
\* environment admits its write and nothing is locked.  An operator request always has one.
Unauthorized(w) == proc[w].job \in NewJobs /\ UNCHANGED authLock

LockAuth(w) == TakeLock(w) \/ Unauthorized(w)

Eligible(j) == version[ReviewOf[j]] = VersionOf[j]

---------------------------------------------------------------------------
(* CreateNewProductUseCase                                                  *)

\* execute(): an existing reservation is resumed by its status, a new command is checked
ResumeAt(status) ==
    CASE status = "reserved" -> "precheck"
      [] status = "create_attempted" -> "reconcile"
      [] status = "product_created" -> "link"
      [] OTHER -> "idle"

SubmitNew(w, j) ==
    /\ At(w, "idle")
    /\ row[j].status # "none" \/ Eligible(j)
    /\ LET pc == IF row[j].status = "none" THEN "reserve" ELSE ResumeAt(row[j].status) IN
        /\ pc # "idle"
        /\ proc' = [proc EXCEPT ![w] = [Idle EXCEPT !.pc = pc, !.job = j, !.product = row[j].product]]
    /\ UNCHANGED <<version, row, late, claim, products, infos, inflight, latelinks, authLock>>

\* reserve(): the INSERT of the line's row; the loser of a race continues from the winner's
Reserve(w) ==
    /\ At(w, "reserve")
    /\ LET j == proc[w].job IN
        IF row[j].status = "none"
          THEN /\ row' = [row EXCEPT ![j] = [status |-> "reserved", product |-> 0]]
               /\ Go(w, "precheck")
          ELSE /\ UNCHANGED row
               /\ IF ResumeAt(row[j].status) = "idle" THEN Leave(w)
                  ELSE GoWith(w, ResumeAt(row[j].status), row[j].product)
    /\ UNCHANGED <<version, late, claim, products, infos, inflight, latelinks, authLock>>

\* _find_existing_supplier_info: reuse one row, refuse an ambiguous identity
Precheck(w) ==
    /\ At(w, "precheck")
    /\ CASE Len(infos) = 0 -> Go(w, "claim")
         [] Len(infos) = 1 -> GoWith(w, "reuse", infos[1].product)
         [] OTHER -> Leave(w)
    /\ UNCHANGED <<version, row, late, claim, products, infos, inflight, latelinks, authLock>>

\* claim(): a plain INSERT; every collision, with one's own earlier claim too, is a race
Claim(w) ==
    /\ At(w, "claim")
    /\ IF claim = NoOne
         THEN claim' = proc[w].job /\ Go(w, "attempt")
         ELSE UNCHANGED claim /\ Go(w, "race")
    /\ UNCHANGED <<version, row, late, products, infos, inflight, latelinks, authLock>>

\* _resolve_identity_race: reuse the product of the owner's reservation, else retry later
ResolveRace(w) ==
    /\ At(w, "race")
    /\ IF claim \in NewJobs /\ row[claim].product # 0
         THEN Advance(w, "reserved", "reused_existing_product", row[claim].product, "idle")
         ELSE Leave(w)
    /\ UNCHANGED <<version, row, late, claim, products, infos, inflight, latelinks, authLock>>

\* _reuse: the claim is best effort, the reservation records the existing product
Reuse(w) ==
    /\ At(w, "reuse")
    /\ claim' = IF claim = NoOne THEN proc[w].job ELSE claim
    /\ Advance(w, "reserved", "reused_existing_product", proc[w].product, "idle")
    /\ UNCHANGED <<version, row, late, products, infos, inflight, latelinks, authLock>>

\* CREATE_ATTEMPTED is committed before the Odoo call
Attempt(w) ==
    /\ At(w, "attempt")
    /\ Advance(w, "reserved", "create_attempted", 0, "create")
    /\ UNCHANGED <<version, row, late, claim, products, infos, inflight, latelinks, authLock>>

\* the product.template create, answered
Create(w) ==
    /\ At(w, "create")
    /\ Len(products) < MaxProducts
    /\ LockAuth(w)
    /\ products' = Append(products, proc[w].job)
    /\ GoWith(w, "created", Len(products) + 1)
    /\ UNCHANGED <<version, row, late, claim, infos, inflight, latelinks>>

\* _CERTAIN_NO_WRITE_EXCEPTIONS: the gate, the validation or the login refused
CreateRefused(w) ==
    /\ At(w, "create")
    /\ Go(w, "revert")
    /\ UNCHANGED <<version, row, late, claim, products, infos, inflight, latelinks, authLock>>

\* any other failure: the outcome is unknown, the create may land later
CreateLost(w) ==
    /\ At(w, "create") \/ At(w, "createline")
    /\ inflight' = inflight \cup {proc[w].job}
    /\ Leave(w) /\ Unlock(w)
    /\ UNCHANGED <<version, row, late, claim, products, infos, latelinks>>

RecordCreated(w) ==
    /\ At(w, "created")
    /\ Advance(w, "create_attempted", "product_created", proc[w].product,
               IF proc[w].job \in NewJobs THEN "link" ELSE "complete")
    /\ IF proc'[w] = Idle THEN Unlock(w) ELSE UNCHANGED authLock
    /\ UNCHANGED <<version, row, late, claim, products, infos, inflight, latelinks>>

RevertAttempt(w) ==
    /\ At(w, "revert")
    /\ Advance(w, "create_attempted", "reserved", 0, "idle")
    /\ UNCHANGED <<version, row, late, claim, products, infos, inflight, latelinks, authLock>>

\* Mutation: a resume that finds CREATE_ATTEMPTED tries the create again.
ReconcileByRetrying(w) ==
    /\ At(w, "reconcile")
    /\ Go(w, "create")
    /\ UNCHANGED <<version, row, late, claim, products, infos, inflight, latelinks, authLock>>

\* _reconcile_uncertain_create: a resume never tries the create again
Reconcile(w) ==
    /\ At(w, "reconcile")
    /\ Advance(w, "create_attempted", "needs_reconciliation", 0, "idle")
    /\ UNCHANGED <<version, row, late, claim, products, infos, inflight, latelinks, authLock>>

\* _create_supplierinfo: the writer reads the identity before it writes, under the
\* authorization lock if the command has one
Link(w) ==
    /\ At(w, "link")
    /\ CASE Len(infos) = 0 -> \/ TakeLock(w) /\ Go(w, "linkwrite")
                              \/ Unauthorized(w) /\ Go(w, "linkfree")
         [] Len(infos) = 1 /\ infos[1].product = proc[w].product -> LockAuth(w) /\ Go(w, "linked")
         [] OTHER -> Leave(w) /\ Unlock(w)
    /\ UNCHANGED <<version, row, late, claim, products, infos, inflight, latelinks>>

LinkWrite(w) ==
    /\ At(w, "linkwrite") \/ At(w, "linkfree")
    /\ infos' = Append(infos, [product |-> proc[w].product, by |-> proc[w].job,
                              guarded |-> At(w, "linkwrite")])
    /\ Go(w, "verify")
    /\ UNCHANGED <<version, row, late, claim, products, inflight, latelinks, authLock>>

\* its answer is lost, or the process dies after sending it: the row stays
\* PRODUCT_CREATED, a retry reads the identity again
LinkLost(w) ==
    /\ At(w, "linkwrite") \/ At(w, "linkfree")
    /\ Cardinality(latelinks) < MaxLateLinks
    /\ latelinks' = latelinks \cup {[product |-> proc[w].product, by |-> proc[w].job,
                                    guarded |-> FALSE]}
    /\ Leave(w) /\ Unlock(w)
    /\ UNCHANGED <<version, row, late, claim, products, infos, inflight>>

\* the post-create query: more than one row is a duplicate race, never a success
VerifyLink(w) ==
    /\ At(w, "verify")
    /\ IF Len(infos) = 1 THEN Go(w, "linked") /\ UNCHANGED authLock
       ELSE Leave(w) /\ Unlock(w)
    /\ UNCHANGED <<version, row, late, claim, products, infos, inflight, latelinks>>

\* the reservation completes; a mapping reclassifies its review instead
Linked(w) ==
    /\ At(w, "linked")
    /\ IF proc[w].job \in NewJobs
         THEN /\ Advance(w, "product_created", "completed", 0, "idle")
              /\ IF proc'[w] = Idle THEN Unlock(w) ELSE UNCHANGED authLock
              /\ UNCHANGED version
         ELSE /\ version' = IF Eligible(proc[w].job)
                              THEN [version EXCEPT ![ReviewOf[proc[w].job]] = @ + 1] ELSE version
              /\ Leave(w) /\ Unlock(w)
    /\ UNCHANGED <<row, late, claim, products, infos, inflight, latelinks>>

---------------------------------------------------------------------------
(* CreateLineProductUseCase                                                 *)

\* execute(): resume by the record's status, or start
SubmitLine(j) ==
    /\ At(Tick, "idle")
    /\ LET s == row[j].status
           pc == CASE s = "none" -> "start"
                   [] s = "create_attempted" -> "recover"
                   [] s = "product_created" -> "complete"
                   [] OTHER -> "idle" IN
        /\ pc # "idle"
        /\ proc' = [proc EXCEPT ![Tick] = [Idle EXCEPT !.pc = pc, !.job = j, !.product = row[j].product]]
    /\ UNCHANGED <<version, row, late, claim, products, infos, inflight, latelinks, authLock>>

\* an unresolved attempt of the same line at an older version, past its grace
OwnStaleAttempt(j) ==
    /\ claim \in LineJobs
    /\ ReviewOf[claim] = ReviewOf[j]
    /\ row[claim].status = "create_attempted"
    /\ claim \in late

\* _discard: the row of an unresolved attempt and its claim, in one commit
Discarded(j) == [row EXCEPT ![j] = [status |-> "none", product |-> 0]]

\* _start: eligible, no supplier mapping, the identity free (or freed from the line's own
\* stale attempt)
Start ==
    /\ At(Tick, "start")
    /\ LET j == proc[Tick].job IN
        IF Eligible(j) /\ infos = <<>> /\ (claim = NoOne \/ OwnStaleAttempt(j))
          THEN /\ row' = IF claim = NoOne THEN row ELSE Discarded(claim)
               /\ claim' = NoOne
               /\ late' = late \ {claim}
               /\ Go(Tick, "insert")
          ELSE Leave(Tick) /\ UNCHANGED <<row, claim, late>>
    /\ UNCHANGED <<version, products, infos, inflight, latelinks, authLock>>

\* one commit before the Odoo call: the claim, the consumed authorization, the record
InsertAttempt ==
    /\ At(Tick, "insert")
    /\ LET j == proc[Tick].job IN
        IF claim = NoOne
          THEN /\ claim' = j
               /\ row' = [row EXCEPT ![j] = [status |-> "create_attempted", product |-> 0]]
               /\ Go(Tick, "createline")
          ELSE Leave(Tick) /\ UNCHANGED <<claim, row>>
    /\ UNCHANGED <<version, late, products, infos, inflight, latelinks, authLock>>

\* one create command: template, variant and supplierinfo commit together in Odoo
LandLine(j) ==
    /\ products' = Append(products, j)
    /\ infos' = Append(infos, [product |-> Len(products) + 1, by |-> j, guarded |-> TRUE])

CreateLine ==
    /\ At(Tick, "createline")
    /\ Len(products) < MaxProducts
    /\ LandLine(proc[Tick].job)
    /\ GoWith(Tick, "created", Len(products) + 1)
    /\ UNCHANGED <<version, row, late, claim, inflight, latelinks, authLock>>

CreateLineRefused ==
    /\ At(Tick, "createline")
    /\ GoWith(Tick, "discard", 0)
    /\ UNCHANGED <<version, row, late, claim, products, infos, inflight, latelinks, authLock>>

\* _discard after a proven no-write: discard_attempt insists on an unresolved attempt; a
\* recovery runs the fresh path again
Discard ==
    /\ At(Tick, "discard")
    /\ LET j == proc[Tick].job IN
        IF row[j].status = "create_attempted"
          THEN /\ row' = Discarded(j)
               /\ claim' = IF claim = j THEN NoOne ELSE claim
               /\ late' = late \ {j}
               /\ IF j \in late THEN Go(Tick, "start") ELSE Leave(Tick)
          ELSE Leave(Tick) /\ UNCHANGED <<row, claim, late>>
    /\ UNCHANGED <<version, products, infos, inflight, latelinks, authLock>>

\* _recover: adopt the one mapping whose template matches the intent, reconcile anything
\* else, and take its absence as a proof only after the grace
Recover ==
    /\ At(Tick, "recover")
    /\ LET j == proc[Tick].job IN
        CASE infos = <<>> -> IF j \in late THEN Go(Tick, "discard") ELSE Leave(Tick)
          [] Len(infos) = 1 /\ infos[1].product \in MadeBy(j) ->
                Advance(Tick, "create_attempted", "product_created", infos[1].product, "complete")
          [] OTHER -> Advance(Tick, "create_attempted", "needs_reconciliation", 0, "idle")
    /\ UNCHANGED <<version, row, late, claim, products, infos, inflight, latelinks, authLock>>

\* _complete: the mapping is read back, then one commit with the reclassification; a review
\* that moved on makes the reclassifier refuse
CompleteLine ==
    /\ At(Tick, "complete")
    /\ LET j == proc[Tick].job IN
        IF Len(infos) = 1 /\ infos[1].product = row[j].product
          THEN IF Eligible(j) THEN Advance(Tick, "product_created", "completed", 0, "idle")
               ELSE Leave(Tick)
          ELSE Advance(Tick, "product_created", "needs_reconciliation", 0, "idle")
    /\ UNCHANGED <<version, row, late, claim, products, infos, inflight, latelinks, authLock>>

---------------------------------------------------------------------------
(* MapExistingProductUseCase, Odoo, and the environment                     *)

\* eligible, and no create owns the identity
SubmitMap(j) ==
    /\ At(Tick, "idle")
    /\ Eligible(j)
    /\ claim = NoOne
    /\ proc' = [proc EXCEPT ![Tick] = [Idle EXCEPT !.pc = "link", !.job = j, !.product = Catalog]]
    /\ UNCHANGED <<version, row, late, claim, products, infos, inflight, latelinks, authLock>>

\* a create whose answer was lost lands in Odoo after all ...
Land(j) ==
    /\ j \in inflight
    /\ Len(products) < MaxProducts
    /\ inflight' = inflight \ {j}
    /\ IF j \in LineJobs THEN LandLine(j)
       ELSE products' = Append(products, j) /\ UNCHANGED infos
    /\ UNCHANGED <<version, row, late, claim, latelinks, authLock, proc>>

LandLink(link) ==
    /\ latelinks' = latelinks \ {link}
    /\ infos' = Append(infos, link)
    /\ UNCHANGED <<version, row, late, claim, products, inflight, authLock, proc>>

\* ... or never reached it
Vanish(lost) ==
    /\ inflight' = inflight \ {lost}
    /\ latelinks' = latelinks \ {lost}
    /\ UNCHANGED <<version, row, late, claim, products, infos, authLock, proc>>

\* DEFAULT_CREATE_OUTCOME_GRACE passes: far above the time limit of an Odoo worker
GracePasses(j) ==
    /\ row[j].status = "create_attempted"
    /\ j \notin late \cup inflight
    /\ ~ \E w \in Workers : proc[w].job = j
    /\ late' = late \cup {j}
    /\ UNCHANGED <<version, row, claim, products, infos, inflight, latelinks, authLock, proc>>

\* another transition of the review (a decision, a reclassification) moves its version
ReviewMoves(r) ==
    /\ version[r] < MaxVersion
    /\ version' = [version EXCEPT ![r] = @ + 1]
    /\ UNCHANGED <<row, late, claim, products, infos, inflight, latelinks, authLock, proc>>

\* a process dies: its transaction is rolled back, a create it had sent may still land
Crash(w) ==
    /\ proc[w] # Idle
    /\ inflight' = IF proc[w].pc \in {"create", "createline"}
                     THEN inflight \cup {proc[w].job} ELSE inflight
    /\ Leave(w) /\ Unlock(w)
    /\ UNCHANGED <<version, row, late, claim, products, infos, latelinks>>

WorkerStep(w) ==
    \/ Flush(w) \/ Create(w) \/ CreateLost(w) \/ RecordCreated(w)
    \/ Link(w) \/ LinkWrite(w) \/ LinkLost(w) \/ VerifyLink(w) \/ Linked(w)

ApiStep(w) ==
    \/ Reserve(w) \/ Precheck(w) \/ Claim(w) \/ ResolveRace(w) \/ Reuse(w) \/ Attempt(w)
    \/ CreateRefused(w) \/ RevertAttempt(w) \/ Reconcile(w)
    \/ \E j \in NewJobs : SubmitNew(w, j)

TickStep ==
    \/ Start \/ InsertAttempt \/ CreateLine \/ CreateLineRefused \/ Discard \/ Recover
    \/ CompleteLine
    \/ \E j \in LineJobs : SubmitLine(j)
    \/ \E j \in MapJobs : SubmitMap(j)

Environment ==
    \/ \E j \in Jobs : Land(j)
    \/ \E link \in latelinks : LandLink(link)
    \/ \E lost \in inflight \cup latelinks : Vanish(lost)
    \/ \E j \in LineJobs : GracePasses(j)
    \/ \E r \in Reviews : ReviewMoves(r)
    \/ \E w \in Workers : Crash(w)

Next ==
    \/ \E w \in Workers : WorkerStep(w)
    \/ \E w \in ApiWorkers : ApiStep(w)
    \/ TickStep
    \/ Environment

Spec == Init /\ [][Next]_vars

---------------------------------------------------------------------------
(* Properties                                                               *)

RemediationTypeOK ==
    /\ version \in [Reviews -> Nat]
    /\ \A j \in NewJobs : row[j].status \in ReservationStatus
    /\ \A j \in LineJobs : row[j].status \in CreationStatus
    /\ \A j \in NewJobs \cup LineJobs : row[j].product \in 0..Catalog
    /\ late \subseteq LineJobs
    /\ claim \in NewJobs \cup LineJobs \cup {NoOne}
    /\ products \in Seq(NewJobs \cup LineJobs)
    /\ inflight \subseteq NewJobs \cup LineJobs
    /\ \A link \in latelinks : link.by \in NewJobs \cup MapJobs
    /\ authLock \in [Jobs -> Workers \cup {NoOne}]

(* However many requests, crashes, lost answers and review versions there   *)
(* are, the supplier-product identity gets at most one new product in Odoo: *)
(* the claim is the cross-process barrier of both create use cases.         *)
OneProductPerIdentity ==
    Len(products) + Cardinality(inflight) <= 1

(* A completed creation is what it says: its product exists, was made by    *)
(* this line, and a supplierinfo row of the identity links to it.           *)
CompletedIsLinked ==
    \A j \in NewJobs \cup LineJobs :
        row[j].status = "completed" =>
            /\ row[j].product \in MadeBy(j)
            /\ \E i \in DOMAIN infos : infos[i].product = row[j].product

(* A product that exists in Odoo is never forgotten: its maker still owns   *)
(* the identity and its row is past RESERVED, so no retry can create again. *)
ProductIsRemembered ==
    \A j \in NewJobs \cup LineJobs :
        MadeBy(j) # {} => claim = j /\ row[j].status \notin {"none", "reserved"}

(* The rows that the links of the reservations add all name the product that *)
(* was created, so that two of them never send one supplier code to two      *)
(* products.  And the retries that hold the authorization of their line add  *)
(* one row at most, as the row that claim_and_consume locks serialises them: *)
(* another is added by a retry that needed no authorization, and so waited   *)
(* for nobody, or by a create that landed after its answer was lost.         *)
CreatedLinksAgree ==
    LET Created == {i \in DOMAIN infos : infos[i].by \notin MapJobs} IN
    /\ \A i \in Created : infos[i].product \in MadeBy(infos[i].by)
    /\ Cardinality({i \in Created : infos[i].guarded}) <= 1

(* What the Hub has recorded about a creation is true of Odoo, and nothing  *)
(* that Odoo has is missing from the record.                                *)
CreationIsRecorded ==
    RemediationTypeOK /\ ProductIsRemembered /\ CompletedIsLinked /\ CreatedLinksAgree

=============================================================================
