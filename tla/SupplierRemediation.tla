------------------------- MODULE SupplierRemediation -------------------------
(***************************************************************************)
(* One review whose supplier Odoo does not know, and the ways it gets one: *)
(* an operator matches an existing partner, lets the Hub create a permanent*)
(* or a one-off vendor, or records a one-off supplier; an administrator    *)
(* corrects the tax number the review was imported with; a master data     *)
(* change reclassifies it.                                                 *)
(*                                                                         *)
(* A request reserves its intent for the review's version in a transaction *)
(* of its own, writes to Odoo, and records effect, reclassification and    *)
(* the consumed write authorization in a second transaction.  A crash or a *)
(* failure anywhere rolls back what is not committed; the partner created  *)
(* in Odoo stays, and the same request is sent again.  Odoo may also make a*)
(* partner long after its caller has timed out or died.                    *)
(*                                                                         *)
(* The write authorizations are those of WriteAuthorization: a session is  *)
(* a request, `version' the version of the review.                         *)
(***************************************************************************)
EXTENDS WriteAuthorization, FiniteSets, FiniteSetsExt

CONSTANTS None, Own,
          GateOpen,     \* supplier_remediation_write_enabled, and the production switches
          LegacyVat,    \* the tax number the parser once read from this document
          DocumentVat,  \* the tax number the document really carries
          MaxPartners,  \* bound: partners of this supplier
          Budgets       \* bounds: how many requests meet how many disturbances (failures, edits
                        \* in Odoo, revocations and expiries) and how many late partners

Matching == INSTANCE InvoiceMatching WITH Approved <- {}, Generic0 <- None

SupplierResolutionMode ==
    {"match_existing", "create_permanent_supplier", "one_off_vendor", "use_one_off_supplier"}
PartnerCreatingModes == {"create_permanent_supplier", "one_off_vendor"}
Versions == 1 .. MaxVersion
PartnerIds == 1 .. MaxPartners

\* the rows of the review's tables, and who made a partner
Intents == [mode : SupplierResolutionMode, chosen : PartnerIds \union {None}]
EffectRows == [mode : SupplierResolutionMode \ {"use_one_off_supplier"}, partner : PartnerIds,
               write : {"created", "already_exists", "selected"}]
EventRows == [trigger : {"supplier_resolution", "source_identity_corrected", "master_data_changed"},
              supplier : Matching!MatchStatus]
Makers == [mode : PartnerCreatingModes \union {"user"}, at : Versions \union {0},
           auth : Auths \union {NoAuth}, late : BOOLEAN]
AcceptedSuppliers == [origin : Matching!AcceptedOrigins, partner : PartnerIds]

ASSUME SupplierConstants ==
    /\ MaxPartners \in Nat
    /\ None \notin PartnerIds \union Intents \union EffectRows \union EventRows \union Makers
                   \union AcceptedSuppliers \union {LegacyVat, DocumentVat}
    /\ [version : Versions, mode : PartnerCreatingModes] \subseteq Consumers

VARIABLES
    odoo,      \* the supplier's partners in Odoo
    late,      \* those Odoo has yet to create, for callers that no longer wait
    made,      \* of each partner id: who made it, and whether its caller still waited
    review,    \* status, supplier reason and tax number of the review
    intents,   \* the reserved resolution of each version
    effects,   \* the remediation effect of each version
    events,    \* the reclassification from each version: its trigger and outcome
    hubOwned,  \* partners other reviews recorded as their one-off vendor
    correction,\* the version the source identity was corrected from, 0: never
    req,       \* the request each session is working on
    corrector, \* the version an administrator's run has verified, 0: none
    answered,  \* the remediations reported as applied
    budget     \* what is left of the bounds

supplierVars == <<odoo, late, made, review, intents, effects, events, hubOwned, correction,
                  req, corrector, answered, budget>>
vars == <<authvars, supplierVars>>

-----------------------------------------------------------------------------
(* The partners, as the Hub's queries see them.                              *)

\* find_by_exact_vat: archived partners too, of this company or shared
FindByExactVat(vat) == {p \in odoo : p.vat = vat /\ Matching!Visible(p.company)}

\* an active company of the same name whose tax number is absent or no tax number:
\* most likely the supplier, so nothing is created beside it
ProbableExisting(vat) ==
    {p \in odoo : p.active /\ p.vat # vat /\ p.vat \notin {LegacyVat, DocumentVat}
                  /\ Matching!Visible(p.company)}

\* what MATCH_EXISTING requires of the chosen partner
ValidMatch(id, vat) ==
    \E p \in odoo : /\ p.id = id
                    /\ Matching!CanonicalPartnerId(p) = id
                    /\ p.active
                    /\ Matching!Visible(p.company)
                    /\ p.vat = vat

LatestEffect(e) ==
    LET recorded == {v \in Versions : e[v] # None}
    IN  IF recorded = {} THEN None ELSE e[Max(recorded)]

\* The supplier reason a classification yields for tax number `vat' with effects `e':
\* the deterministic match, else the proven partner of the latest effect.
Classified(vat, e) ==
    LET world == [partners |-> odoo]
        match == Matching!EffectivePartnerMatch(
                    Matching!PartnerMatch([vat |-> vat], world),
                    Matching!AcceptedSupplier(LatestEffect(e), world))
    IN  match.status

-----------------------------------------------------------------------------
NoReq == [pc |-> "idle"]

InFlight(s) == req[s] # NoReq

Init ==
    /\ AuthInit
    /\ odoo = {}
    /\ late = {}
    /\ made = [i \in PartnerIds |-> None]
    /\ review \in [status : {"pending"}, supplier : {"NOT_FOUND"}, vat : {LegacyVat, DocumentVat}]
    /\ intents = [v \in Versions |-> None]
    /\ effects = [v \in Versions |-> None]
    /\ events = [v \in Versions |-> None]
    /\ hubOwned = {}
    /\ correction = 0
    /\ req = [s \in Sessions |-> NoReq]
    /\ corrector = 0
    /\ answered = {}
    /\ budget \in Budgets

Disturb ==
    /\ budget.disturbances > 0
    /\ budget' = [budget EXCEPT !.disturbances = @ - 1]

FreshId == CHOOSE i \in PartnerIds : made[i] = None
RoomForPartner == \E i \in PartnerIds : made[i] = None

Partner(id, vat) == [id |-> id, vat |-> vat, active |-> TRUE, company |-> None, commercial |-> None]

\* The next reclassification from the current version to outcome `new': nothing at all
\* when the classification is unchanged.
Reclassify(trigger, new) ==
    IF new = review.supplier
    THEN UNCHANGED <<review, version, events>>
    ELSE /\ version < MaxVersion
         /\ review' = [review EXCEPT !.supplier = new]
         /\ version' = version + 1
         /\ events' = [events EXCEPT ![version] = [trigger |-> trigger, supplier |-> new]]

-----------------------------------------------------------------------------
(* One request: ResolveWorkbenchSupplierUseCase.execute.                     *)

\* The session ends without the changes it had not committed.
Abort(s) ==
    /\ req' = [req EXCEPT ![s] = NoReq]
    /\ IF claim[s] # NoAuth THEN RollBackClaim(s) ELSE UNCHANGED authvars
    /\ UNCHANGED <<review, intents, effects, events, hubOwned, correction, corrector, answered>>

Refuse(s) == Abort(s) /\ UNCHANGED <<odoo, late, made>>

GoTo(s, pc) == req' = [req EXCEPT ![s].pc = pc]

\* The request arrives for the version the operator saw, and reads the review.
Begin(s, mode, id, v, a) ==
    /\ ~InFlight(s)
    /\ v \in {version, version - 1}
    /\ mode = "match_existing" <=> id # None
    /\ mode \notin PartnerCreatingModes => a = NoAuth
    /\ req' = [req EXCEPT ![s] =
         [pc |-> "look", mode |-> mode, chosen |-> id, at |-> v, auth |-> a,
          seen |-> [version |-> version, status |-> review.status, supplier |-> review.supplier],
          vat |-> None, partner |-> None, write |-> None]]
    /\ UNCHANGED <<authvars, odoo, late, made, review, intents, effects, events, hubOwned,
                   correction, corrector, answered>>

Submit(s, mode, id, v, a) ==
    /\ budget.requests > 0
    /\ a # NoAuth => auth[a] # NoAuth
    /\ budget' = [budget EXCEPT !.requests = @ - 1]
    /\ Begin(s, mode, id, v, a)

\* ... or the operator, who has seen every earlier request end, sends the one recorded for
\* this version again
Resubmit(s) ==
    /\ \A t \in Sessions : ~InFlight(t)
    /\ intents[version] # None
    /\ Begin(s, intents[version].mode, intents[version].chosen, version, NoAuth)
    /\ UNCHANGED budget

\* _require_pending_supplier_not_found, on the review as it was read
Remediable(r) ==
    /\ r.seen.status = "pending"
    /\ r.seen.version = r.at
    /\ \/ r.seen.supplier = "NOT_FOUND"
       \/ r.seen.supplier = "MULTIPLE_MATCHES" /\ r.mode = "match_existing"

MatchesIntent(r) == intents[r.at].mode = r.mode /\ intents[r.at].chosen = r.chosen

Answer(s, v, partner) ==
    /\ answered' = answered \union {[at |-> v, partner |-> partner]}
    /\ req' = [req EXCEPT ![s] = NoReq]

AfterIntent(mode) == IF mode \in PartnerCreatingModes THEN "authorize" ELSE "finish"

\* the duplicate guard in front of the reservation
NoProbableExisting(r) ==
    r.mode \in PartnerCreatingModes => ProbableExisting(review.vat) = {}

\* No intent is recorded for the version: the review must need a supplier.
LookFresh(s) ==
    /\ req[s].pc = "look"
    /\ intents[req[s].at] = None
    /\ Remediable(req[s])
    /\ NoProbableExisting(req[s])
    /\ req' = [req EXCEPT ![s].pc = "reserve", ![s].vat = review.vat, ![s].seen = None]
    /\ UNCHANGED <<authvars, odoo, late, made, review, intents, effects, events, hubOwned,
                   correction, corrector, answered, budget>>

\* The same intent is recorded and the review still at its version: the interrupted work
\* is resumed where its effect says it stopped.
LookResume(s) ==
    /\ req[s].pc = "look"
    /\ intents[req[s].at] # None
    /\ MatchesIntent(req[s])
    /\ req[s].mode # "use_one_off_supplier"
    /\ req[s].seen.version <= req[s].at
    /\ Remediable(req[s])
    /\ req' = [req EXCEPT ![s].pc = IF effects[req[s].at] = None THEN AfterIntent(req[s].mode)
                                                                 ELSE "reclassify",
                          ![s].vat = review.vat, ![s].seen = None]
    /\ UNCHANGED <<authvars, odoo, late, made, review, intents, effects, events, hubOwned,
                   correction, corrector, answered, budget>>

\* The review advanced and the effect is there: the remediation was already applied.
LookApplied(s) ==
    /\ req[s].pc = "look"
    /\ intents[req[s].at] # None
    /\ MatchesIntent(req[s])
    /\ req[s].mode # "use_one_off_supplier"
    /\ req[s].seen.version > req[s].at
    /\ effects[req[s].at] # None
    /\ Answer(s, req[s].at, effects[req[s].at].partner)
    /\ UNCHANGED <<authvars, odoo, late, made, review, intents, effects, events, hubOwned,
                   correction, corrector, budget>>

\* Everything else is refused, or answered without a change: another intent is recorded, the
\* one-off decision is already recorded, the review is not pending, has another version or
\* needs no supplier, it advanced without an effect.
LookRefused(s) ==
    /\ req[s].pc = "look"
    /\ IF intents[req[s].at] = None
       THEN ~(Remediable(req[s]) /\ NoProbableExisting(req[s]))
       ELSE \/ ~MatchesIntent(req[s])
            \/ req[s].mode = "use_one_off_supplier"
            \/ req[s].seen.version > req[s].at /\ effects[req[s].at] = None
            \/ req[s].seen.version <= req[s].at /\ ~Remediable(req[s])
    /\ Refuse(s)
    /\ UNCHANGED budget

\* Mutation: the loser of the INSERT race goes on.
ReserveWins(v, intent) == TRUE

\* reserve_supplier_resolution: the INSERT succeeds for one request of a version, a loser
\* never goes on, whether its intent is the same or not.
ReservationWins(v, intent) == intents[v] = None

Intent(r) == [mode |-> r.mode, chosen |-> r.chosen]

\* _reserve_intent (and _resolve_one_off, which ends here): committed before any Odoo write
Reserve(s) ==
    /\ req[s].pc = "reserve"
    /\ IF /\ req[s].mode = "match_existing" => ValidMatch(req[s].chosen, review.vat)
          /\ ReservationWins(req[s].at, Intent(req[s]))
       THEN /\ intents' = [intents EXCEPT ![req[s].at] = Intent(req[s])]
            /\ IF req[s].mode = "use_one_off_supplier"
               THEN req' = [req EXCEPT ![s] = NoReq]
               ELSE GoTo(s, AfterIntent(req[s].mode))
            /\ UNCHANGED <<authvars, odoo, late, made, review, effects, events, hubOwned,
                           correction, corrector, answered>>
       ELSE Refuse(s)
    /\ UNCHANGED budget

Consumer(r) == [version |-> r.at, mode |-> r.mode]

\* Mutation: the consumption is committed at once, in front of the write.
AuthorizedAtOnce(s) ==
    IF req[s].auth = NoAuth
    THEN GateOpen /\ UNCHANGED authvars
    ELSE /\ Admits(req[s].auth, Consumer(req[s]), req[s].at)
         /\ auth[req[s].auth].uses < MaxUses
         /\ auth' = [auth EXCEPT ![req[s].auth] = ConsumedRow(@, Consumer(req[s]))]
         /\ UNCHANGED <<expired, version, authLock, claim>>

\* _claim_supplier_write_authorization and the writer's policy: an authorization is claimed
\* and its row stays locked, without one the gate must be open.
Authorized(s) ==
    IF req[s].auth = NoAuth
    THEN GateOpen /\ UNCHANGED authvars
    ELSE Claim(s, req[s].auth, Consumer(req[s]), req[s].at)

AuthorizationRefused(r) ==
    IF r.auth = NoAuth
    THEN ~GateOpen
    ELSE authLock[r.auth] = NoSession /\ ~Admits(r.auth, Consumer(r), r.at)

-----------------------------------------------------------------------------
(* OdooSupplierPartnerWriter.create_supplier.                                *)

\* find_one_off_vendor_effect_by_partner_id: some review's effect names it as a one-off
OneOffOwned(id) ==
    \/ id \in hubOwned
    \/ \E v \in Versions : /\ effects[v] # None
                           /\ effects[v].mode = "one_off_vendor"
                           /\ effects[v].partner = id

\* Mutation: a partner left by an interrupted request is not taken back.
UsableOwned(r, p) == p.active /\ OneOffOwned(p.id)

\* the partner found is used: active, re-validated for a permanent supplier, owned by the
\* Hub for a one-off vendor
Usable(r, p) ==
    /\ p.active
    /\ r.mode = "one_off_vendor" => OneOffOwned(p.id)
    /\ r.mode = "create_permanent_supplier" => ValidMatch(p.id, review.vat)

\* The authorization, then the exact-VAT lookup: it finds nobody, nor a probable duplicate ...
FindNone(s) ==
    /\ req[s].pc = "authorize"
    /\ FindByExactVat(req[s].vat) = {}
    /\ ProbableExisting(req[s].vat) = {}
    /\ Authorized(s)
    /\ GoTo(s, "create")
    /\ UNCHANGED <<odoo, late, made, review, intents, effects, events, hubOwned,
                   correction, corrector, answered, budget>>

\* ... or exactly one partner, that can be used ...
FindOne(s) ==
    /\ req[s].pc = "authorize"
    /\ \E p \in odoo :
         /\ FindByExactVat(req[s].vat) = {p}
         /\ Usable(req[s], p)
         /\ req' = [req EXCEPT ![s].pc = "finish", ![s].partner = p.id, ![s].write = "already_exists"]
    /\ Authorized(s)
    /\ UNCHANGED <<odoo, late, made, review, intents, effects, events, hubOwned,
                   correction, corrector, answered, budget>>

\* ... or several, an archived one, one that is not the Hub's, a probable duplicate.
FindRefused(s) ==
    /\ req[s].pc = "authorize"
    /\ LET found == FindByExactVat(req[s].vat)
       IN  \/ AuthorizationRefused(req[s])
           \/ found = {} /\ ProbableExisting(req[s].vat) # {}
           \/ Cardinality(found) > 1
           \/ Cardinality(found) = 1 /\ \A p \in found : ~Usable(req[s], p)
    /\ Refuse(s)
    /\ UNCHANGED budget

MadeFor(r, isLate) == [mode |-> r.mode, at |-> r.at, auth |-> r.auth, late |-> isLate]

Create(s) ==
    /\ req[s].pc = "create"
    /\ RoomForPartner
    /\ odoo' = odoo \union {Partner(FreshId, req[s].vat)}
    /\ made' = [made EXCEPT ![FreshId] = MadeFor(req[s], FALSE)]
    /\ req' = [req EXCEPT ![s].pc = "recheck", ![s].partner = FreshId, ![s].write = "created"]
    /\ UNCHANGED <<authvars, late, review, intents, effects, events, hubOwned,
                   correction, corrector, answered, budget>>

\* The lookup once more: only the created partner may answer.
Recheck(s) ==
    /\ req[s].pc = "recheck"
    /\ IF /\ {p.id : p \in FindByExactVat(req[s].vat)} = {req[s].partner}
          /\ req[s].mode = "create_permanent_supplier" => ValidMatch(req[s].partner, review.vat)
       THEN /\ GoTo(s, "finish")
            /\ UNCHANGED <<authvars, odoo, late, made, review, intents, effects, events, hubOwned,
                           correction, corrector, answered>>
       ELSE Refuse(s)
    /\ UNCHANGED budget

-----------------------------------------------------------------------------
(* The second transaction.                                                   *)

Effect(r) ==
    [mode |-> r.mode,
     partner |-> IF r.mode = "match_existing" THEN r.chosen ELSE r.partner,
     write |-> IF r.mode = "match_existing" THEN "selected" ELSE r.write]

\* create_remediation_effect: the first one of a version, or the same one again
EffectAccepted(r) == effects[r.at] \in {None, Effect(r)}

\* reclassify_review: pending at the expected version, or the same reclassification recorded
Reclassifiable(v, new) ==
    IF events[v] # None
    THEN events[v] = [trigger |-> "supplier_resolution", supplier |-> new]
    ELSE review.status = "pending" /\ version = v

\* _complete's end, or the resumed reclassification of a recorded effect: effect,
\* reclassification and consumed authorization commit together, or not at all.
Finish(s) ==
    /\ req[s].pc \in {"finish", "reclassify"}
    /\ LET r    == req[s]
           e    == IF r.pc = "finish" THEN [effects EXCEPT ![r.at] = Effect(r)] ELSE effects
           new  == Classified(review.vat, e)
           done == events[r.at] # None
       IN  /\ r.pc = "finish" => EffectAccepted(r)
           /\ Reclassifiable(r.at, new)
           /\ effects' = e
           /\ IF done THEN UNCHANGED <<review, version, events>>
                      ELSE Reclassify("supplier_resolution", new)
           /\ IF claim[s] = NoAuth THEN UNCHANGED <<auth, authLock, claim>> ELSE Consume(s)
           /\ Answer(s, r.at, e[r.at].partner)
    /\ UNCHANGED <<expired, odoo, late, made, intents, hubOwned, correction, corrector, budget>>

FinishRefused(s) ==
    /\ req[s].pc \in {"finish", "reclassify"}
    /\ LET r == req[s]
           e == IF r.pc = "finish" THEN [effects EXCEPT ![r.at] = Effect(r)] ELSE effects
       IN  \/ r.pc = "finish" /\ ~EffectAccepted(r)
           \/ ~Reclassifiable(r.at, Classified(review.vat, e))
    /\ Refuse(s)
    /\ UNCHANGED budget

\* The process dies, the connection breaks, Odoo does not answer: rollback.  What was sent is
\* done, see Create, or lost ...
Fail(s) ==
    /\ InFlight(s)
    /\ Disturb
    /\ Abort(s)
    /\ UNCHANGED <<odoo, late, made>>

\* ... or Odoo does it after the caller has stopped waiting (ConnectorTimeoutError): the partner
\* is still to come
TimeOut(s) ==
    /\ req[s].pc = "create"
    /\ RoomForPartner
    /\ budget.timeouts > 0
    /\ budget' = [budget EXCEPT !.timeouts = @ - 1]
    /\ Abort(s)
    /\ late' = late \union {Partner(FreshId, req[s].vat)}
    /\ made' = [made EXCEPT ![FreshId] = MadeFor(req[s], TRUE)]
    /\ UNCHANGED odoo

\* Odoo gets to it
Arrives(p) ==
    /\ odoo' = odoo \union {p}
    /\ late' = late \ {p}
    /\ UNCHANGED <<authvars, made, review, intents, effects, events, hubOwned, correction, req,
                   corrector, answered, budget>>

-----------------------------------------------------------------------------
(* CorrectReviewSourceIdentityUseCase.                                       *)

\* downstream_state_counts, the tables this module has: no authorization, resolution, effect
NothingDownstream ==
    /\ review.status = "pending"
    /\ \A a \in Auths : auth[a] = NoAuth
    /\ \A v \in Versions : intents[v] = None /\ effects[v] = None

\* the legacy rule, replayed on the stored document, yields what the review holds
HistoricalValueMatches == review.vat = LegacyVat

\* The dry run, or the checks of --apply: the stored document yields another tax number, the
\* review holds the one the old parser rule yields, nothing was built on it.
Verify ==
    /\ corrector = 0
    /\ correction = 0
    /\ NothingDownstream
    /\ HistoricalValueMatches
    /\ corrector' = version
    /\ UNCHANGED <<authvars, odoo, late, made, review, intents, effects, events, hubOwned,
                   correction, req, answered, budget>>

\* apply_source_invoice_correction: the UPDATE is guarded by status, version and old value
ApplyCorrection ==
    /\ corrector # 0
    /\ review.status = "pending" /\ version = corrector /\ review.vat = LegacyVat   \* the guards
    /\ version < MaxVersion
    /\ review' = [review EXCEPT !.vat = DocumentVat, !.supplier = Classified(DocumentVat, effects)]
    /\ version' = version + 1
    /\ events' = [events EXCEPT ![version] =
                    [trigger |-> "source_identity_corrected", supplier |-> review'.supplier]]
    /\ correction' = version
    /\ corrector' = 0
    /\ UNCHANGED <<auth, expired, authLock, claim, odoo, late, made, intents, effects, hubOwned,
                   req, answered, budget>>

\* the UPDATE matches no row, or the operator ends the dry run
CorrectionRefused ==
    /\ corrector # 0
    /\ corrector' = 0
    /\ UNCHANGED <<authvars, odoo, late, made, review, intents, effects, events, hubOwned,
                   correction, req, answered, budget>>

-----------------------------------------------------------------------------
(* What else happens to the review, its authorizations and the partners.     *)

\* a reclassification after a master data change
MasterDataChanged ==
    /\ review.status = "pending"
    /\ Classified(review.vat, effects) # review.supplier
    /\ Reclassify("master_data_changed", Classified(review.vat, effects))
    /\ UNCHANGED <<auth, expired, authLock, claim, odoo, late, made, intents, effects, hubOwned,
                   correction, req, corrector, answered, budget>>

\* the review with its supplier is decided
Decide ==
    /\ review.status = "pending"
    /\ review.supplier = "MATCHED"
    /\ version < MaxVersion
    /\ review' = [review EXCEPT !.status = "decided"]
    /\ version' = version + 1
    /\ UNCHANGED <<auth, expired, authLock, claim, odoo, late, made, intents, effects, events,
                   hubOwned, correction, req, corrector, answered, budget>>

Authorizations ==
    /\ \/ \E a \in Auths, op \in Operations :
             review.status = "pending" /\ Issue(a, op, version) /\ UNCHANGED budget
       \/ \E a \in Auths : Revoke(a) /\ Disturb
       \/ \E a \in Auths : Expire(a) /\ Disturb
    /\ UNCHANGED <<odoo, late, made, review, intents, effects, events, hubOwned, correction,
                   req, corrector, answered>>

MadeElsewhere(mode) == [mode |-> mode, at |-> 0, auth |-> NoAuth, late |-> FALSE]

OdooEdit ==
    /\ Disturb
    /\ UNCHANGED <<authvars, late, review, intents, effects, events, correction, req,
                   corrector, answered>>

\* An Odoo user enters a partner of the supplier, with or without its tax number ...
UserCreates(vat) ==
    /\ OdooEdit
    /\ RoomForPartner
    /\ odoo' = odoo \union {Partner(FreshId, vat)}
    /\ made' = [made EXCEPT ![FreshId] = MadeElsewhere("user")]
    /\ UNCHANGED hubOwned

\* ... archives or deletes one
UserArchives(p) ==
    /\ OdooEdit
    /\ p.active
    /\ odoo' = (odoo \ {p}) \union {[p EXCEPT !.active = FALSE]}
    /\ UNCHANGED <<made, hubOwned>>

UserDeletes(p) ==
    /\ OdooEdit
    /\ odoo' = odoo \ {p}
    /\ UNCHANGED <<made, hubOwned>>

\* Another review of the same supplier has been given its one-off vendor.
OtherReview ==
    /\ OdooEdit
    /\ RoomForPartner
    /\ FindByExactVat(DocumentVat) = {} /\ ProbableExisting(DocumentVat) = {}
    /\ odoo' = odoo \union {Partner(FreshId, DocumentVat)}
    /\ made' = [made EXCEPT ![FreshId] = MadeElsewhere("one_off_vendor")]
    /\ hubOwned' = hubOwned \union {FreshId}

-----------------------------------------------------------------------------
SessionStep(s) ==
    \/ LookFresh(s) \/ LookResume(s) \/ LookApplied(s) \/ LookRefused(s)
    \/ Reserve(s)
    \/ FindNone(s) \/ FindOne(s) \/ FindRefused(s) \/ Create(s) \/ Recheck(s)
    \/ Finish(s) \/ FinishRefused(s)

Next ==
    \/ \E s \in Sessions, mode \in SupplierResolutionMode, id \in PartnerIds \union {None},
          v \in Versions, a \in Auths \union {NoAuth} : Submit(s, mode, id, v, a)
    \/ \E s \in Sessions : Resubmit(s) \/ SessionStep(s) \/ Fail(s) \/ TimeOut(s)
    \/ Verify \/ ApplyCorrection \/ CorrectionRefused
    \/ MasterDataChanged \/ Decide \/ Authorizations
    \/ \E vat \in {None, DocumentVat} : UserCreates(vat)
    \/ \E p \in odoo : UserArchives(p) \/ UserDeletes(p)
    \/ OtherReview
    \/ \E p \in late : Arrives(p)

\* A request that was admitted runs to its end; the operator sends an interrupted one again.
Fairness == WF_vars(\E s \in Sessions : SessionStep(s) \/ Resubmit(s))

Spec == Init /\ [][Next]_vars /\ Fairness

-----------------------------------------------------------------------------
(* Properties.                                                               *)

\* The review, its recorded intents and effects and the partners have their types, and only
\* a matched partner is `selected'.
SupplierTypeOK ==
    /\ \A p \in odoo \union late : p.id \in PartnerIds /\ made[p.id] # None
    /\ \A p, q \in odoo \union late : p.id = q.id => p = q
    /\ review.supplier \in Matching!MatchStatus
    /\ intents \in [Versions -> Intents \union {None}]
    /\ effects \in [Versions -> EffectRows \union {None}]
    /\ \A v \in Versions : effects[v] # None =>
         (effects[v].write = "selected" <=> effects[v].mode = "match_existing")
    /\ corrector \in 0 .. MaxVersion

\* Every effect, and every partner the Hub created for this review, belongs to the intent
\* committed for that version: the losers of the reservation (_reserve_intent's comment)
\* never reach Odoo and never record anything.
EveryWriteHasItsIntent ==
    /\ \A v \in Versions : effects[v] # None =>
         /\ intents[v] # None
         /\ intents[v].mode = effects[v].mode
         /\ intents[v].chosen \in {None, effects[v].partner}
    /\ \A i \in PartnerIds : made[i] # None /\ made[i].at # 0 =>
         intents[made[i].at] # None /\ intents[made[i].at].mode = made[i].mode

\* The partner the review's latest effect names, as long as Odoo has it, carries the tax
\* number the review has now, through every correction of its source identity.
AcceptedSupplierIsTheInvoices ==
    LET e == LatestEffect(effects)
    IN  e # None => \A p \in odoo : p.id = e.partner => p.vat = review.vat

\* A one-off vendor is one the Hub created as such, in this review or another; a partner
\* somebody else made is never taken over (_create_or_reuse_one_off_vendor_partner).
OneOffVendorIsTheHubs ==
    \A v \in Versions : effects[v] # None /\ effects[v].mode = "one_off_vendor" =>
        made[effects[v].partner].mode = "one_off_vendor"

\* Of the partners that exist, a write authorization has made at most one while its caller
\* waited for it, however often the attempt is interrupted, repeated or raced: the row lock is
\* held across the Odoo write, and the next attempt finds the partner.  What Odoo creates after
\* its caller has given up comes on top of that: the claim is rolled back and nobody looks again.
OnePartnerPerAuthorization ==
    \A p, q \in odoo :
        made[p.id].auth # NoAuth /\ made[p.id].auth = made[q.id].auth =>
            p = q \/ made[p.id].late \/ made[q.id].late

\* A remediation that was reported as applied has its effect, with that partner, for ever.
AnsweredIsRecorded ==
    \A x \in answered : effects[x.at] # None /\ effects[x.at].partner = x.partner

\* the review waits for an interrupted creation, and no partner (nor a bound) stands in its
\* way
Interrupted(mode) ==
    /\ intents[version] = [mode |-> mode, chosen |-> None]
    /\ effects[version] = None
    /\ GateOpen
    /\ Cardinality(FindByExactVat(review.vat)) <= 1
    /\ \A p \in odoo : p.active
    /\ ProbableExisting(review.vat) = {}
    /\ version < MaxVersion
    /\ RoomForPartner

\* A reserved permanent supplier is completed by sending the request again, whatever was
\* interrupted, unless partners that other people edit, or that were created twice, stand in the
\* way (the resume of _resume_or_return_applied); no other consumer takes over the authorization
\* of the attempt.
PermanentSupplierIsResumed ==
    AuthorizationIsSingleConsumer /\ []<>~Interrupted("create_permanent_supplier")

\* What the Hub writes, records and answers about the supplier of a review agrees: the writes
\* with the intents, the effects with the partners, the answers with the effects.
SupplierWritesAreSafe ==
    /\ SupplierTypeOK /\ EveryWriteHasItsIntent /\ AcceptedSupplierIsTheInvoices
    /\ OneOffVendorIsTheHubs /\ AnsweredIsRecorded

\* An authorization admits one consumer and one write at a time, which makes one partner.
OnePartnerPerWrite ==
    AuthTypeOK /\ ClaimIsExclusive /\ AuditConsistent /\ OnePartnerPerAuthorization

=============================================================================
