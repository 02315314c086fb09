------------------------- MODULE SupplierRemediationProofs -------------------------
(***************************************************************************)
(* Proofs about WriteAuthorization, for every number of sessions,          *)
(* authorizations, operations and write attempts, and about                *)
(* SupplierRemediation, whose requests claim them, for every number of     *)
(* requests, partners, versions and disturbances.                          *)
(***************************************************************************)
EXTENDS SupplierRemediation, TLAPS


(* The inductive invariant.  ClaimIsExclusive alone is not inductive: nothing in it says *)
(* that a claim was admitted for the operation its authorization was issued for, which   *)
(* AuditConsistent needs when the claim is committed.                                    *)

\* A flushed claim is for the operation the authorization was issued for (claim_and_consume
\* compares them before it flushes).
ClaimMatchesOperation ==
    \A x \in Sessions : claim[x] # NoAuth =>
        OperationOf[claim[x].consumer] = auth[claim[x].auth].operation

AuthInv == AuthTypeOK /\ ClaimIsExclusive /\ AuditConsistent /\ ClaimMatchesOperation

\* The rows an authorization goes through are rows, whatever the consumer.
LEMMA AuthRowTypes ==
    ASSUME NEW r \in AuthRows, NEW c \in Consumers
    PROVE  /\ ConsumedRow(r, c) \in AuthRows
           /\ ConsumedRow(r, c).operation = r.operation
           /\ ConsumedRow(r, c).target = r.target
           /\ ConsumedRow(r, c).status = "consumed"
           /\ ConsumedRow(r, c).consumer = c
           /\ ConsumedRow(r, c).uses = r.uses + 1
           /\ ConsumedRow(r, c) # NoAuth
<1> DEFINE r1 == [r EXCEPT !.status = "consumed"]
           r2 == [r1 EXCEPT !.consumer = c]
           r3 == [r2 EXCEPT !.uses = @ + 1]
<1>1. /\ r1 \in AuthRows /\ r1.operation = r.operation /\ r1.target = r.target
      /\ r1.status = "consumed" /\ r1.uses = r.uses
  BY DEF AuthRows
<1> HIDE DEF r1
<1>2. /\ r2 \in AuthRows /\ r2.operation = r.operation /\ r2.target = r.target
      /\ r2.status = "consumed" /\ r2.uses = r.uses /\ r2.consumer = c
  BY <1>1 DEF AuthRows
<1> HIDE DEF r2
<1>3. /\ r3 \in AuthRows /\ r3.operation = r.operation /\ r3.target = r.target
      /\ r3.status = "consumed" /\ r3.uses = r.uses + 1 /\ r3.consumer = c
  BY <1>2 DEF AuthRows
<1> HIDE DEF r3
<1>4. ConsumedRow(r, c) = r3
  BY DEF ConsumedRow, r1, r2, r3
<1> QED BY <1>3, <1>4, AuthConstants

\* No authorization is issued, locked or claimed at the start.
LEMMA AuthInitInv == AuthInit => AuthInv
  BY AuthConstants DEF AuthInit, AuthInv, AuthTypeOK, ClaimIsExclusive, AuditConsistent,
                       ClaimMatchesOperation

\* The commit of a claim keeps the invariant, also with a later version of the review.
LEMMA ConsumeKeeps ==
    ASSUME AuthInv, NEW x \in Sessions, Consume(x), expired' = expired,
           version' \in Nat, version' >= version
    PROVE  AuthInv'
<1> DEFINE a == claim[x].auth
           r == ConsumedRow(auth[a], claim[x].consumer)
<1>1. claim[x] # NoAuth /\ a \in Auths /\ claim[x].consumer \in Consumers
  BY DEF AuthInv, AuthTypeOK, Consume, Claims
<1>2. auth[a] \in AuthRows
  BY <1>1 DEF AuthInv, AuthTypeOK, ClaimIsExclusive
<1>3. /\ r \in AuthRows /\ r # NoAuth /\ r.operation = auth[a].operation
      /\ r.target = auth[a].target /\ r.consumer = claim[x].consumer
      /\ r.uses = auth[a].uses + 1 /\ r.status = "consumed" /\ auth[a].uses \in Nat
  BY <1>1, <1>2, AuthRowTypes DEF AuthRows
<1>4. /\ auth' = [auth EXCEPT ![a] = r] /\ authLock' = [authLock EXCEPT ![a] = NoSession]
      /\ claim' = [claim EXCEPT ![x] = NoAuth] /\ expired' = expired
  BY <1>1 DEF Consume, AuthInv, AuthTypeOK
<1>5. OperationOf[claim[x].consumer] = auth[a].operation
  BY <1>1, <1>2 DEF AuthInv, ClaimMatchesOperation, AuditConsistent
<1>6. \A y \in Sessions : y # x /\ claim[y] # NoAuth => claim[y].auth # a /\ claim[y].auth \in Auths
  BY <1>1 DEF AuthInv, AuthTypeOK, ClaimIsExclusive, Claims
<1>7. claim[x].consumer # NoConsumer
  BY <1>1, AuthConstants
<1>0. \A b \in Auths : auth[b] # NoAuth => auth[b].target <= version'
  <2>1. \A b \in Auths : auth[b] # NoAuth => auth[b].target \in Nat /\ auth[b].target <= version
    BY DEF AuthInv, AuthTypeOK, AuthRows, AuditConsistent
  <2> QED BY <2>1 DEF AuthInv, AuthTypeOK
<1> HIDE DEF r, a
<1>8. AuthTypeOK'
  <2>1. version' \in Nat \ {0}
    BY DEF AuthInv, AuthTypeOK
  <2> QED BY <1>1, <1>3, <1>4, <2>1, AuthConstants DEF AuthInv, AuthTypeOK
<1>9. AuditConsistent'
  <2> SUFFICES ASSUME NEW b \in Auths, auth'[b] # NoAuth
               PROVE  /\ auth'[b].uses = 0 <=> auth'[b].consumer = NoConsumer
                      /\ auth'[b].status = "pending" => auth'[b].uses = 0
                      /\ auth'[b].status = "consumed" => auth'[b].uses > 0
                      /\ auth'[b].consumer # NoConsumer =>
                           OperationOf[auth'[b].consumer] = auth'[b].operation
                      /\ auth'[b].target <= version'
    BY DEF AuditConsistent
  <2>1. CASE b = a
    <3>1. auth'[b] = r
      BY <1>1, <1>4, <2>1 DEF AuthInv, AuthTypeOK
    <3>2. r.uses # 0 /\ r.uses > 0
      BY <1>3
    <3>3. auth[a] # NoAuth
      BY <1>2, AuthConstants
    <3>4. r.target <= version'
      BY <1>0, <1>1, <1>3, <3>3
    <3> QED BY <1>3, <1>5, <1>7, <3>1, <3>2, <3>4
  <2>2. CASE b # a
    <3>1. auth'[b] = auth[b]
      BY <1>4, <2>2 DEF AuthInv, AuthTypeOK
    <3> QED BY <1>0, <3>1 DEF AuthInv, AuditConsistent
  <2> QED BY <2>1, <2>2
<1>10. ClaimIsExclusive' /\ ClaimMatchesOperation'
  BY <1>1, <1>4, <1>6, AuthConstants DEF AuthInv, AuthTypeOK, ClaimIsExclusive, ClaimMatchesOperation
<1> QED BY <1>8, <1>9, <1>10 DEF AuthInv

\* Every step of an authorization keeps the invariant.
LEMMA AuthNextInv == AuthInv /\ [AuthNext]_authvars => AuthInv'
<1> SUFFICES ASSUME AuthInv, [AuthNext]_authvars PROVE AuthInv'
  OBVIOUS
<1> USE AuthConstants
<1>1. ASSUME NEW a \in Auths, NEW op \in Operations, NEW v \in 1 .. MaxVersion, Issue(a, op, v)
      PROVE  AuthInv'
  <2>1. IssuedRow(op, v) \in AuthRows
    BY <1>1 DEF IssuedRow, AuthRows
  <2>2. AuthTypeOK'
    BY <1>1, <2>1 DEF AuthInv, AuthTypeOK, Issue
  <2>3. ClaimIsExclusive' /\ ClaimMatchesOperation'
    BY <1>1 DEF AuthInv, AuthTypeOK, ClaimIsExclusive, ClaimMatchesOperation, Issue, Claims
  <2>4. AuditConsistent'
    BY <1>1 DEF AuthInv, AuthTypeOK, AuditConsistent, Issue, IssuedRow
  <2> QED BY <2>2, <2>3, <2>4 DEF AuthInv
<1>2. ASSUME NEW a \in Auths, Revoke(a) PROVE AuthInv'
  <2>1. auth[a] \in AuthRows
    BY <1>2 DEF AuthInv, AuthTypeOK, Revoke
  <2> DEFINE r == [auth[a] EXCEPT !.status = "revoked"]
  <2>2. /\ r \in AuthRows /\ r # NoAuth /\ r.operation = auth[a].operation
        /\ r.target = auth[a].target /\ r.consumer = auth[a].consumer
        /\ r.uses = auth[a].uses /\ r.status = "revoked"
    BY <2>1 DEF AuthRows
  <2>3. auth' = [auth EXCEPT ![a] = r] /\ UNCHANGED <<expired, version, authLock, claim>>
    BY <1>2 DEF Revoke
  <2> HIDE DEF r
  <2>4. AuthTypeOK'
    BY <2>2, <2>3 DEF AuthInv, AuthTypeOK
  <2>5. ClaimIsExclusive' /\ ClaimMatchesOperation'
    BY <1>2, <2>2, <2>3 DEF AuthInv, AuthTypeOK, ClaimIsExclusive, ClaimMatchesOperation,
                            Revoke, Claims
  <2>6. AuditConsistent'
    BY <2>2, <2>3, <1>2 DEF AuthInv, AuthTypeOK, AuditConsistent, Revoke
  <2> QED BY <2>4, <2>5, <2>6 DEF AuthInv
<1>3. ASSUME NEW a \in Auths, Expire(a) PROVE AuthInv'
  BY <1>3 DEF AuthInv, AuthTypeOK, ClaimIsExclusive, AuditConsistent, ClaimMatchesOperation, Expire
<1>4. ASSUME AdvanceReview PROVE AuthInv'
  <2>1. AuthTypeOK' /\ ClaimIsExclusive' /\ ClaimMatchesOperation'
    BY <1>4 DEF AuthInv, AuthTypeOK, ClaimIsExclusive, ClaimMatchesOperation, AdvanceReview
  <2>2. \A a \in Auths : auth[a] # NoAuth => auth[a].target \in Nat
    BY DEF AuthInv, AuthTypeOK, AuthRows
  <2>3. AuditConsistent'
    BY <1>4, <2>2 DEF AuthInv, AuthTypeOK, AuditConsistent, AdvanceReview
  <2> QED BY <2>1, <2>3 DEF AuthInv
<1>5. ASSUME NEW x \in Sessions, NEW a \in Auths, NEW c \in Consumers, NEW v \in 1 .. MaxVersion,
             Claim(x, a, c, v)
      PROVE  AuthInv'
  <2> DEFINE k == [auth |-> a, consumer |-> c]
  <2>1. k \in Claims /\ k # NoAuth /\ k.auth = a /\ k.consumer = c
    BY DEF Claims
  <2>2. /\ claim' = [claim EXCEPT ![x] = k] /\ authLock' = [authLock EXCEPT ![a] = x]
        /\ UNCHANGED <<auth, expired, version>>
    BY <1>5 DEF Claim
  <2> HIDE DEF k
  <2>3. AuthTypeOK'
    BY <2>1, <2>2 DEF AuthInv, AuthTypeOK
  <2>4. AuditConsistent'
    BY <2>2 DEF AuthInv, AuditConsistent
  <2>5. \A y \in Sessions : claim[y] # NoAuth => claim[y].auth # a /\ claim[y].auth \in Auths
    BY <1>5 DEF AuthInv, AuthTypeOK, ClaimIsExclusive, Claim, Claims
  <2>6. auth[a] # NoAuth /\ auth[a].status # "revoked" /\ auth[a].consumer \in {NoConsumer, c}
        /\ auth[a].operation = OperationOf[c]
    BY <1>5 DEF AuthInv, AuthTypeOK, AuthRows, AuditConsistent, Claim, Admits
  <2>7. ClaimIsExclusive'
    BY <2>1, <2>2, <2>5, <2>6 DEF AuthInv, AuthTypeOK, ClaimIsExclusive
  <2>8. ClaimMatchesOperation'
    BY <2>1, <2>2, <2>6 DEF AuthInv, AuthTypeOK, ClaimMatchesOperation
  <2> QED BY <2>3, <2>4, <2>7, <2>8 DEF AuthInv
<1>6. ASSUME NEW x \in Sessions, CommitClaim(x) PROVE AuthInv'
  BY <1>6, ConsumeKeeps DEF CommitClaim, AuthInv, AuthTypeOK
<1>7. ASSUME NEW x \in Sessions, RollBackClaim(x) PROVE AuthInv'
  <2>1. claim[x] # NoAuth /\ claim[x].auth \in Auths
    BY <1>7 DEF AuthInv, AuthTypeOK, RollBackClaim, Claims
  <2>2. AuthTypeOK' /\ AuditConsistent' /\ ClaimMatchesOperation'
    BY <1>7, <2>1 DEF AuthInv, AuthTypeOK, AuditConsistent, ClaimMatchesOperation, RollBackClaim
  <2>3. \A y \in Sessions : y # x /\ claim[y] # NoAuth => claim[y].auth # claim[x].auth
    BY <2>1 DEF AuthInv, ClaimIsExclusive
  <2>4. ClaimIsExclusive'
    BY <1>7, <2>1, <2>3 DEF AuthInv, AuthTypeOK, ClaimIsExclusive, RollBackClaim, Claims
  <2> QED BY <2>2, <2>4 DEF AuthInv
<1>8. CASE UNCHANGED authvars
  BY <1>8 DEF authvars, AuthInv, AuthTypeOK, ClaimIsExclusive, AuditConsistent, ClaimMatchesOperation
<1> QED
  BY <1>1, <1>2, <1>3, <1>4, <1>5, <1>6, <1>7, <1>8 DEF AuthNext

\* An authorization is claimed by one write attempt at a time, its claim is never revoked under
\* that attempt, and its audit fields agree with each other (claim_and_consume, revoke).
THEOREM ClaimsAreExclusive ==
    AuthSpec => [](AuthTypeOK /\ ClaimIsExclusive /\ AuditConsistent)
<1>1. AuthInv => AuthTypeOK /\ ClaimIsExclusive /\ AuditConsistent
  BY DEF AuthInv
<1> QED BY <1>1, AuthInitInv, AuthNextInv, PTL DEF AuthSpec

\* What a step does to the rows that are issued: the row's scope and its consumer stay, a revoked
\* one is left alone.
RowMoves(b) ==
    /\ auth'[b] # NoAuth
    /\ auth'[b].target = auth[b].target /\ auth'[b].operation = auth[b].operation
    /\ auth[b].consumer # NoConsumer => auth'[b].consumer = auth[b].consumer
    /\ auth[b].status = "revoked" => auth'[b] = auth[b]
    /\ auth'[b].uses \in {auth[b].uses, auth[b].uses + 1}

LEMMA ConsumeMovesOn ==
    ASSUME AuthInv, NEW x \in Sessions, Consume(x), NEW b \in Auths, auth[b] # NoAuth
    PROVE  RowMoves(b)
<1>0. auth[b] \in AuthRows /\ auth \in [Auths -> AuthRows \union {NoAuth}]
  BY DEF AuthInv, AuthTypeOK
<1>1. claim[x] # NoAuth /\ claim[x].auth \in Auths /\ claim[x].consumer \in Consumers
  BY DEF AuthInv, AuthTypeOK, Consume, Claims
<1>2. auth' = [auth EXCEPT ![claim[x].auth] = ConsumedRow(auth[claim[x].auth], claim[x].consumer)]
  BY <1>0, <1>1 DEF Consume
<1>3. CASE claim[x].auth = b
  <2>1. auth[b].status # "revoked" /\ auth[b].consumer \in {NoConsumer, claim[x].consumer}
    BY <1>1, <1>3 DEF AuthInv, ClaimIsExclusive
  <2>2. auth'[b] = ConsumedRow(auth[b], claim[x].consumer)
    BY <1>0, <1>2, <1>3
  <2> QED BY <1>0, <1>1, <2>1, <2>2, AuthRowTypes DEF RowMoves
<1>4. CASE claim[x].auth # b
  BY <1>0, <1>2, <1>4 DEF RowMoves
<1> QED BY <1>3, <1>4

LEMMA RowsMoveOn ==
    ASSUME AuthInv, [AuthNext]_authvars, NEW b \in Auths, auth[b] # NoAuth
    PROVE  RowMoves(b)
<1>0. auth[b] \in AuthRows /\ auth \in [Auths -> AuthRows \union {NoAuth}]
  BY DEF AuthInv, AuthTypeOK
<1>1. CASE \E a \in Auths, op \in Operations, v \in 1 .. MaxVersion : Issue(a, op, v)
  BY <1>0, <1>1 DEF Issue, RowMoves
<1>2. ASSUME NEW a \in Auths, Revoke(a) PROVE RowMoves(b)
  <2>1. auth'[b] = auth[b] \/ (auth[b].status # "revoked"
                               /\ auth'[b] = [auth[b] EXCEPT !.status = "revoked"])
    BY <1>0, <1>2 DEF Revoke
  <2> QED BY <1>0, <2>1, AuthConstants DEF AuthRows, RowMoves
<1>3. ASSUME NEW x \in Sessions, CommitClaim(x) PROVE RowMoves(b)
  BY <1>3, ConsumeMovesOn DEF CommitClaim
<1>4. CASE UNCHANGED auth
  BY <1>4 DEF RowMoves
<1> QED
  BY <1>1, <1>2, <1>3, <1>4 DEF AuthNext, authvars, Expire, AdvanceReview, Claim, RollBackClaim

\* Whoever committed the first use of an authorization owns it for ever, its scope never
\* changes and a revoked one is never used again (claim_and_consume, revoke).
THEOREM SingleConsumer == AuthSpec => AuthorizationIsSingleConsumer
<1>1. AuthInv /\ [AuthNext]_authvars =>
        [\A a \in Auths : auth[a] # NoAuth =>
          /\ auth'[a] # NoAuth
          /\ auth'[a].target = auth[a].target /\ auth'[a].operation = auth[a].operation
          /\ auth[a].consumer # NoConsumer => auth'[a].consumer = auth[a].consumer
          /\ auth[a].status = "revoked" => auth'[a] = auth[a]
          /\ auth'[a].uses \in {auth[a].uses, auth[a].uses + 1}]_authvars
  BY RowsMoveOn DEF RowMoves
<1> QED
  BY <1>1, AuthInitInv, AuthNextInv, PTL DEF AuthSpec, AuthorizationIsSingleConsumer

-----------------------------------------------------------------------------
(* The supplier of a review: the inductive invariant.                        *)

VatNumbers == {None, LegacyVat, DocumentVat}
Partners == [id : PartnerIds, vat : VatNumbers, active : BOOLEAN, company : {None},
             commercial : {None}]
Reviews == [status : {"pending", "decided"}, supplier : Matching!MatchStatus,
            vat : {LegacyVat, DocumentVat}]
SeenReviews == [version : Versions, status : {"pending", "decided"},
                supplier : Matching!MatchStatus]
RequestPcs == {"look", "reserve", "authorize", "create", "recheck", "finish", "reclassify"}
SupplierRequests ==
    [pc : RequestPcs, mode : SupplierResolutionMode, chosen : PartnerIds \union {None},
     at : Versions, auth : Auths \union {NoAuth}, seen : SeenReviews \union {None},
     vat : VatNumbers, partner : PartnerIds \union {None},
     write : {None, "created", "already_exists"}]

SupplierTypes ==
    /\ odoo \subseteq Partners
    /\ late \subseteq Partners
    /\ made \in [PartnerIds -> Makers \union {None}]
    /\ review \in Reviews
    /\ version \in Versions
    /\ intents \in [Versions -> Intents \union {None}]
    /\ effects \in [Versions -> EffectRows \union {None}]
    /\ events \in [Versions -> EventRows \union {None}]
    /\ hubOwned \subseteq PartnerIds
    /\ req \in [Sessions -> SupplierRequests \union {NoReq}]
    /\ corrector \in 0 .. MaxVersion

\* A partner id is assigned once, to a partner of a known maker; what the Hub names exists, or
\* existed.
Registered ==
    /\ \A p \in odoo : made[p.id] # None
    /\ \A p, q \in odoo : p.id = q.id => p = q
    /\ \A i \in hubOwned : made[i] # None /\ made[i].mode = "one_off_vendor"
    /\ \A v \in Versions : intents[v] # None /\ intents[v].chosen # None =>
         made[intents[v].chosen] # None
    /\ \A v \in Versions : effects[v] # None =>
         /\ made[effects[v].partner] # None
         /\ effects[v].mode = "one_off_vendor" => made[effects[v].partner].mode = "one_off_vendor"

\* A version is left once, and while the review is pending only by a recorded event; one of the
\* effects is the latest.
Left ==
    /\ \A v \in Versions : v >= version => events[v] = None
    /\ review.status = "pending" => \A v \in Versions : v < version => events[v] # None
    /\ \A v \in Versions : intents[v] # None => v <= version
    /\ corrector <= version
    /\ \A v \in Versions :
         events[v] # None /\ events[v].trigger = "supplier_resolution" => effects[v] # None
    /\ (\E v \in Versions : effects[v] # None) =>
          \E v \in Versions : /\ effects[v] # None
                              /\ \A w \in Versions : w > v => effects[w] = None

\* The version was left by something else than its own remediation: no request for it can
\* finish.
Blocked(v) == events[v] # None /\ events[v].trigger # "supplier_resolution"

\* The partners that intents, effects and authorized writes are about carry the tax number of
\* the review.
SameSupplier ==
    /\ \A v \in Versions, p \in odoo :
         effects[v] # None /\ p.id = effects[v].partner => p.vat = review.vat
    /\ \A v \in Versions, p \in odoo :
         intents[v] # None /\ intents[v].chosen = p.id => p.vat = review.vat \/ Blocked(v)
    /\ \A p \in odoo : made[p.id].auth # NoAuth =>
         /\ auth[made[p.id].auth] # NoAuth
         /\ auth[made[p.id].auth].target = made[p.id].at
         /\ version = made[p.id].at => p.vat = review.vat

\* A partner still to come is known to nobody: no intent, effect or partner in Odoo has its id.
Unknown(ids) ==
    /\ \A p \in odoo : p.id \notin ids
    /\ \A v \in Versions : intents[v] # None => intents[v].chosen \notin ids
    /\ \A v \in Versions : effects[v] # None => effects[v].partner \notin ids

\* The partners Odoo has yet to create, for callers that gave up.
Awaited ==
    /\ \A p \in late : made[p.id] # None /\ made[p.id].late
    /\ \A p, q \in late : p.id = q.id => p = q
    /\ Unknown({p.id : p \in late})
    /\ \A p \in late : made[p.id].auth # NoAuth =>
         /\ auth[made[p.id].auth] # NoAuth
         /\ auth[made[p.id].auth].target = made[p.id].at
         /\ version = made[p.id].at => p.vat = review.vat

\* While the version that an administrator verified is current, the correction may still be
\* applied: no supplier was settled for any version.
Correctable ==
    corrector # 0 /\ version = corrector =>
        /\ \A v \in Versions :
             events[v] # None => events[v].trigger # "supplier_resolution"
        /\ \A v \in Versions, p \in odoo : effects[v] # None => p.id # effects[v].partner

\* What a request r of session s knows, at each point of it.
KnowsReview(r) ==
    /\ r.at <= version
    /\ r.mode = "match_existing" <=> r.chosen # None
    /\ r.pc = "look" => /\ r.seen \in SeenReviews
                        /\ r.seen.version <= version
                        /\ r.seen.version = version => r.seen.supplier = review.supplier
    /\ r.pc # "look" => /\ version = r.at => review.supplier \in {"NOT_FOUND", "MULTIPLE_MATCHES"}
                        /\ ~Blocked(r.at) => r.vat = review.vat

KnowsIntent(r) ==
    /\ r.pc \notin {"look", "reserve"} => intents[r.at] = Intent(r) /\ r.mode # "use_one_off_supplier"
    /\ r.pc \in {"authorize", "create", "recheck"} => r.mode \in PartnerCreatingModes
    /\ r.pc = "reclassify" => effects[r.at] # None

KnowsPartner(r) ==
    r.pc = "recheck" \/ (r.pc = "finish" /\ r.mode \in PartnerCreatingModes) =>
        /\ r.partner # None /\ r.write \in {"created", "already_exists"}
        /\ made[r.partner] # None
        /\ r.mode = "one_off_vendor" => made[r.partner].mode = "one_off_vendor"
        /\ \A p \in odoo : p.id = r.partner => p.vat = r.vat
        /\ \A p \in late : p.id # r.partner

HoldsClaim(s, r) ==
    r.pc = "create" /\ r.auth # NoAuth =>
        /\ claim[s] # NoAuth /\ claim[s].auth = r.auth
        /\ auth[r.auth] # NoAuth /\ auth[r.auth].target = r.at
        /\ \A p \in odoo : made[p.id].auth = r.auth => made[p.id].late

RequestFacts(s, r) == KnowsReview(r) /\ KnowsIntent(r) /\ KnowsPartner(r) /\ HoldsClaim(s, r)

AnswersStand == AnsweredIsRecorded /\ \A x \in answered : x.at \in Versions

SupplierShared ==
    SupplierTypes /\ Registered /\ Left /\ SameSupplier /\ Awaited /\ Correctable

SupplierInv ==
    /\ AuthInv
    /\ SupplierShared
    /\ EveryWriteHasItsIntent /\ AnswersStand /\ OnePartnerPerAuthorization
    /\ \A v \in Versions : effects[v] # None =>
         (effects[v].write = "selected" <=> effects[v].mode = "match_existing")
    /\ \A s \in Sessions : req[s] # NoReq => RequestFacts(s, req[s])

-----------------------------------------------------------------------------
(* What every step leaves to the requests that do not take it.               *)

\* A later version of the review alone.
LEMMA AuthStays ==
    ASSUME AuthInv, UNCHANGED <<auth, expired, authLock, claim>>, version' \in Nat,
           version' >= version
    PROVE  AuthInv'
<1>1. version \in Nat \ {0} /\ version' \in Nat \ {0}
  BY DEF AuthInv, AuthTypeOK
<1>2. \A a \in Auths : auth[a] # NoAuth => auth[a].target <= version'
  <2>1. \A a \in Auths : auth[a] # NoAuth => auth[a].target \in Nat /\ auth[a].target <= version
    BY DEF AuthInv, AuthTypeOK, AuthRows, AuditConsistent
  <2> QED BY <1>1, <2>1
<1>3. AuthTypeOK' /\ ClaimIsExclusive' /\ ClaimMatchesOperation'
  BY <1>1 DEF AuthInv, AuthTypeOK, ClaimIsExclusive, ClaimMatchesOperation
<1>4. AuditConsistent'
  BY <1>2 DEF AuthInv, AuditConsistent
<1> QED BY <1>3, <1>4 DEF AuthInv

\* Rows, partner ids and authorizations stay; the review moves only with its version, and its
\* tax number only past versions that are blocked by that.
TargetsStay ==
    \A a \in Auths : auth[a] # NoAuth => auth'[a] # NoAuth /\ auth'[a].target = auth[a].target

RowsStay ==
    \A v \in Versions : /\ intents[v] # None => intents'[v] = intents[v]
                        /\ effects[v] # None => effects'[v] = effects[v]
                        /\ events[v] # None => events'[v] = events[v]

PartnersStay ==
    /\ \A i \in PartnerIds : made[i] # None => made'[i] = made[i]
    /\ \A p \in odoo' : made[p.id] # None =>
         \E q \in odoo \union late : q.id = p.id /\ q.vat = p.vat
    /\ \A p \in late' : made[p.id] # None => p \in late

ReviewAdvances ==
    /\ version' >= version
    /\ version' = version => review'.supplier = review.supplier /\ review'.vat = review.vat
    /\ review'.vat # review.vat => \A v \in Versions : v <= version => Blocked(v)'

SupplierAdvance == TargetsStay /\ RowsStay /\ PartnersStay /\ ReviewAdvances

\* The partners still to come, in a step that adds none to them.
LEMMA AwaitedStays ==
    ASSUME SupplierInv, late' = late, TargetsStay, version' \in Nat, version' >= version,
           version' = version => review'.vat = review.vat,
           \A i \in PartnerIds : made[i] # None => made'[i] = made[i],
           \A p \in late : /\ \A q \in odoo' : q.id # p.id
                          /\ \A v \in Versions :
                               /\ intents'[v] # None => intents'[v].chosen # p.id
                               /\ effects'[v] # None => effects'[v].partner # p.id
    PROVE  Awaited'
<1>0. /\ Awaited /\ AuthInv /\ late \subseteq Partners
      /\ made \in [PartnerIds -> Makers \union {None}]
  BY DEF SupplierInv, SupplierShared, SupplierTypes
<1>1. \A p \in late : /\ p.id \in PartnerIds /\ made[p.id] # None /\ made'[p.id] = made[p.id]
                     /\ made[p.id] \in Makers
  BY <1>0 DEF Awaited, Partners
<1>2. /\ \A p \in late' : made'[p.id] # None /\ made'[p.id].late
      /\ \A p, q \in late' : p.id = q.id => p = q
  BY <1>0, <1>1 DEF Awaited
<1>3. Unknown({p.id : p \in late})'
  BY DEF Unknown
<1>4. ASSUME NEW p \in late, made[p.id].auth # NoAuth
      PROVE  /\ auth'[made[p.id].auth] # NoAuth
             /\ auth'[made[p.id].auth].target = made[p.id].at
             /\ version' = made[p.id].at => p.vat = review'.vat
  <2>1. made[p.id].auth \in Auths /\ auth[made[p.id].auth] # NoAuth
    BY <1>0, <1>1, <1>4 DEF Awaited, Makers
  <2>2. auth[made[p.id].auth] \in AuthRows
    BY <1>0, <2>1 DEF AuthInv, AuthTypeOK
  <2>3. /\ made[p.id].at \in Nat /\ made[p.id].at <= version /\ version \in Nat
        /\ auth[made[p.id].auth].target = made[p.id].at
        /\ version = made[p.id].at => p.vat = review.vat
    BY <1>0, <1>4, <2>1, <2>2 DEF Awaited, AuthInv, AuthTypeOK, AuditConsistent, AuthRows
  <2>4. auth'[made[p.id].auth] # NoAuth /\ auth'[made[p.id].auth].target = made[p.id].at
    BY <2>1, <2>3 DEF TargetsStay
  <2>5. version' = made[p.id].at => version' = version
    BY <2>3
  <2> QED BY <2>3, <2>4, <2>5
<1> QED BY <1>1, <1>2, <1>3, <1>4 DEF Awaited

\* What a request knows survives the steps of the others, unless one of them makes a partner
\* under its authorization.
LEMMA FactsStay ==
    ASSUME SupplierTypes, \A p \in late : made[p.id].late,
           version' \in Nat, odoo' \subseteq Partners, late' \subseteq Partners, SupplierAdvance,
           NEW s \in Sessions, NEW r \in SupplierRequests, RequestFacts(s, r),
           claim'[s] = claim[s],
           r.pc = "create" /\ r.auth # NoAuth =>
               \A p \in odoo' : made[p.id] = None => made'[p.id].auth # r.auth
    PROVE  RequestFacts(s, r)'
<1>1. r.at \in Versions /\ r.at \in Nat /\ version \in Nat /\ version' \in Nat /\ version' >= version
  BY DEF SupplierTypes, SupplierRequests, Versions, SupplierAdvance, ReviewAdvances
<1>2. r.at <= version /\ r.at <= version' /\ (version' = r.at => version' = version)
  BY <1>1 DEF RequestFacts, KnowsReview
<1>3. Blocked(r.at) => Blocked(r.at)'
  BY <1>1 DEF Blocked, SupplierAdvance, RowsStay
<1>4. KnowsReview(r)'
  <2>1. CASE r.pc = "look"
    <3>1. r.seen \in SeenReviews /\ r.seen.version \in Nat /\ r.seen.version <= version
      BY <2>1 DEF RequestFacts, KnowsReview, SupplierRequests, SeenReviews, Versions
    <3>2. r.seen.version <= version' /\ (r.seen.version = version' => version' = version)
      BY <1>1, <3>1
    <3> QED BY <1>2, <2>1, <3>2 DEF RequestFacts, KnowsReview, SupplierAdvance, ReviewAdvances
  <2>2. CASE r.pc # "look"
    <3>1. ~Blocked(r.at)' => r.vat = review'.vat
      BY <1>1, <1>2, <1>3, <2>2 DEF RequestFacts, KnowsReview, SupplierAdvance, ReviewAdvances
    <3> QED BY <1>2, <2>2, <3>1 DEF RequestFacts, KnowsReview, SupplierAdvance, ReviewAdvances
  <2> QED BY <2>1, <2>2
<1>5. Intent(r) # None
  BY SupplierConstants DEF Intent, Intents, SupplierRequests
<1>6. KnowsIntent(r)'
  BY <1>1, <1>5 DEF RequestFacts, KnowsIntent, SupplierAdvance, RowsStay, Intent
<1>7. KnowsPartner(r)'
  <2> SUFFICES ASSUME r.pc = "recheck" \/ (r.pc = "finish" /\ r.mode \in PartnerCreatingModes)
               PROVE  KnowsPartner(r)'
    BY DEF KnowsPartner
  <2>1. /\ r.partner # None /\ r.write \in {"created", "already_exists"}
        /\ made[r.partner] # None /\ r.partner \in PartnerIds /\ made'[r.partner] = made[r.partner]
        /\ r.mode = "one_off_vendor" => made[r.partner].mode = "one_off_vendor"
    BY DEF RequestFacts, KnowsPartner, SupplierRequests, SupplierAdvance, PartnersStay
  <2>2. \A p \in odoo' : p.id = r.partner => p.vat = r.vat
    <3> SUFFICES ASSUME NEW p \in odoo', p.id = r.partner PROVE p.vat = r.vat
      OBVIOUS
    <3>1. PICK q \in odoo \union late : q.id = p.id /\ q.vat = p.vat
      BY <2>1 DEF SupplierAdvance, PartnersStay
    <3> QED BY <3>1 DEF RequestFacts, KnowsPartner
  <2>3. \A p \in late' : p.id # r.partner
    BY <2>1 DEF RequestFacts, KnowsPartner, SupplierAdvance, PartnersStay
  <2> QED BY <2>1, <2>2, <2>3 DEF KnowsPartner
<1>8. HoldsClaim(s, r)'
  <2> SUFFICES ASSUME r.pc = "create", r.auth # NoAuth PROVE HoldsClaim(s, r)'
    BY DEF HoldsClaim
  <2>1. r.auth \in Auths
    BY DEF SupplierRequests
  <2>2. \A p \in odoo' : p.id \in PartnerIds
    BY DEF Partners
  <2>3. \A p \in odoo' : made'[p.id].auth = r.auth => made'[p.id].late
    <3> SUFFICES ASSUME NEW p \in odoo', made'[p.id].auth = r.auth PROVE made'[p.id].late
      OBVIOUS
    <3>1. made[p.id] # None /\ made'[p.id] = made[p.id]
      BY <2>2 DEF SupplierAdvance, PartnersStay
    <3>2. PICK q \in odoo \union late : q.id = p.id
      BY <3>1 DEF SupplierAdvance, PartnersStay
    <3> QED BY <3>1, <3>2 DEF RequestFacts, HoldsClaim
  <2> QED BY <2>1, <2>3 DEF RequestFacts, HoldsClaim, SupplierAdvance, TargetsStay
<1> QED BY <1>4, <1>6, <1>7, <1>8 DEF RequestFacts

\* No request is idle, and the rows are not None.
LEMMA RequestIsNotIdle == NoReq \notin SupplierRequests
<1>1. NoReq.pc = "idle"
  BY DEF NoReq
<1> QED BY <1>1 DEF SupplierRequests, RequestPcs

LEMMA FactsOf ==
    ASSUME NEW s \in Sessions, NEW r, r = req'[s], RequestFacts(s, r)'
    PROVE  RequestFacts(s, req[s])'
BY DEF RequestFacts, KnowsReview, KnowsIntent, KnowsPartner, HoldsClaim, Blocked, Intent

\* The requests outside M take no part in the step.
LEMMA SessionsKnow ==
    ASSUME SupplierInv, version' \in Nat, odoo' \subseteq Partners, late' \subseteq Partners,
           SupplierAdvance, NEW M \in SUBSET Sessions,
           \A s \in M : req'[s] # NoReq => RequestFacts(s, req[s])',
           \A t \in Sessions \ M : req'[t] = req[t] /\ claim'[t] = claim[t],
           \A t \in Sessions \ M : \A p \in odoo' :
              req[t] # NoReq /\ req[t].pc = "create" /\ req[t].auth # NoAuth /\ made[p.id] = None
                 => made'[p.id].auth # req[t].auth
    PROVE  \A t \in Sessions : req'[t] # NoReq => RequestFacts(t, req[t])'
<1> SUFFICES ASSUME NEW t \in Sessions, t \notin M, req'[t] # NoReq
             PROVE  RequestFacts(t, req[t])'
  OBVIOUS
<1>1. req'[t] = req[t] /\ claim'[t] = claim[t] /\ req[t] # NoReq
  OBVIOUS
<1>2. req[t] \in SupplierRequests /\ SupplierTypes /\ RequestFacts(t, req[t])
  BY <1>1 DEF SupplierInv, SupplierShared, SupplierTypes
<1> PICK r : r = req[t]
  OBVIOUS
<1>3. r \in SupplierRequests /\ RequestFacts(t, r) /\ r = req'[t]
  BY <1>1, <1>2
<1>4. r.pc = "create" /\ r.auth # NoAuth =>
         \A p \in odoo' : made[p.id] = None => made'[p.id].auth # r.auth
  BY <1>1
<1>5. \A p \in late : made[p.id].late
  BY DEF SupplierInv, SupplierShared, Awaited
<1>6. RequestFacts(t, r)'
  BY <1>1, <1>2, <1>3, <1>4, <1>5, FactsStay
<1> QED BY <1>3, <1>6, FactsOf

\* The rows the requests share, when none of them is written.
LEMMA SharedStays ==
    ASSUME SupplierInv, TargetsStay, req' \in [Sessions -> SupplierRequests \union {NoReq}],
           UNCHANGED <<version, odoo, late, made, review, intents, effects, events, hubOwned,
                       corrector>>
    PROVE  /\ SupplierShared' /\ EveryWriteHasItsIntent' /\ OnePartnerPerAuthorization'
           /\ \A v \in Versions : effects'[v] # None =>
                (effects'[v].write = "selected" <=> effects'[v].mode = "match_existing")
           /\ SupplierAdvance
<1>0. SupplierShared /\ SupplierTypes
  BY DEF SupplierInv, SupplierShared
<1>1. SupplierTypes'
  BY <1>0 DEF SupplierTypes
<1>2. Registered' /\ Left' /\ Correctable'
  BY <1>0 DEF SupplierShared, Registered, Left, Correctable
<1>3. SameSupplier'
  <2>1. \A p \in odoo : made[p.id] \in Makers
    BY <1>0 DEF SupplierTypes, SupplierShared, Registered, Partners
  <2>2. \A p \in odoo : made[p.id].auth # NoAuth => made[p.id].auth \in Auths
    BY <2>1 DEF Makers
  <2> QED BY <1>0, <2>2 DEF SupplierShared, SameSupplier, TargetsStay, Blocked
<1>4. EveryWriteHasItsIntent' /\ OnePartnerPerAuthorization'
  BY DEF SupplierInv, EveryWriteHasItsIntent, OnePartnerPerAuthorization
<1>5. SupplierAdvance
  <2>1. version' >= version
    BY <1>0 DEF SupplierTypes, Versions
  <2> QED BY <2>1 DEF SupplierAdvance, RowsStay, PartnersStay, ReviewAdvances
<1>6. \A v \in Versions : effects'[v] # None =>
                (effects'[v].write = "selected" <=> effects'[v].mode = "match_existing")
  BY DEF SupplierInv
<1>7. Awaited'
  <2>1. version' \in Nat /\ version' >= version
    BY <1>0 DEF SupplierTypes, Versions
  <2> QED BY <1>0, <2>1, AwaitedStays DEF SupplierShared, Awaited, Unknown
<1> QED BY <1>1, <1>2, <1>3, <1>4, <1>5, <1>6, <1>7 DEF SupplierShared

\* A step of one request that writes no row.
LEMMA QuietStep ==
    ASSUME SupplierInv, NEW s \in Sessions, AuthInv', TargetsStay,
           \A t \in Sessions \ {s} : claim'[t] = claim[t],
           UNCHANGED <<version, odoo, late, made, review, intents, effects, events, hubOwned,
                       corrector>>,
           NEW r \in SupplierRequests \union {NoReq}, req' = [req EXCEPT ![s] = r],
           r # NoReq => RequestFacts(s, r)',
           AnswersStand'
    PROVE  SupplierInv'
<1>0. SupplierTypes
  BY DEF SupplierInv, SupplierShared
<1>1. /\ req' \in [Sessions -> SupplierRequests \union {NoReq}] /\ req'[s] = r
      /\ \A t \in Sessions \ {s} : req'[t] = req[t]
  BY <1>0 DEF SupplierTypes
<1>2. /\ SupplierShared' /\ EveryWriteHasItsIntent' /\ OnePartnerPerAuthorization'
      /\ \A v \in Versions : effects'[v] # None =>
           (effects'[v].write = "selected" <=> effects'[v].mode = "match_existing")
      /\ SupplierAdvance
  BY <1>1, SharedStays
<1>3. version' \in Nat /\ odoo' \subseteq Partners /\ late' \subseteq Partners
  BY <1>0 DEF SupplierTypes, Versions
<1>4. \A p \in odoo' : made[p.id] # None
  BY DEF SupplierInv, SupplierShared, Registered
<1>5. req'[s] # NoReq => RequestFacts(s, req[s])'
  BY <1>1, FactsOf
<1>6. \A t \in Sessions : req'[t] # NoReq => RequestFacts(t, req[t])'
  BY <1>1, <1>2, <1>3, <1>4, <1>5, SessionsKnow, {s} \in SUBSET Sessions
<1> QED BY <1>2, <1>6 DEF SupplierInv

-----------------------------------------------------------------------------
(* The steps of a request that write no row.                                 *)

\* A request ends, and what it had claimed is claimed no more.
LEMMA AbortAuth ==
    ASSUME SupplierInv, NEW s \in Sessions, Abort(s)
    PROVE  /\ AuthInv' /\ TargetsStay /\ version' = version /\ auth' = auth
           /\ \A t \in Sessions \ {s} : claim'[t] = claim[t]
<1>1. AuthInv /\ claim \in [Sessions -> Claims \union {NoAuth}]
  BY DEF SupplierInv, AuthInv, AuthTypeOK
<1>2. CASE claim[s] # NoAuth
  <2>1. RollBackClaim(s)
    BY <1>2 DEF Abort
  <2>2. AuthInv'
    BY <1>1, <2>1, AuthNextInv DEF AuthNext
  <2> QED BY <1>1, <2>1, <2>2 DEF RollBackClaim, TargetsStay
<1>3. CASE claim[s] = NoAuth
  <2>1. UNCHANGED authvars
    BY <1>3 DEF Abort
  <2> QED BY <1>1, <2>1, AuthNextInv DEF authvars, TargetsStay
<1> QED BY <1>2, <1>3

LEMMA RefuseKeeps ==
    ASSUME SupplierInv, NEW s \in Sessions, Refuse(s)
    PROVE  SupplierInv'
<1>1. /\ AuthInv' /\ TargetsStay /\ version' = version
      /\ \A t \in Sessions \ {s} : claim'[t] = claim[t]
  BY AbortAuth DEF Refuse
<1>2. AnswersStand'
  BY DEF SupplierInv, AnswersStand, AnsweredIsRecorded, Refuse, Abort
<1> QED BY <1>1, <1>2, QuietStep DEF Refuse, Abort

\* A request that goes on to another point, with the authorizations as they are.
LEMMA MoveKeeps ==
    ASSUME SupplierInv, NEW s \in Sessions, NEW r \in SupplierRequests,
           req' = [req EXCEPT ![s] = r], RequestFacts(s, r)',
           UNCHANGED <<authvars, odoo, late, made, review, intents, effects, events, hubOwned,
                       corrector, answered>>
    PROVE  SupplierInv'
<1>1. AuthInv' /\ TargetsStay /\ version' = version /\ claim' = claim
  BY AuthNextInv DEF SupplierInv, authvars, TargetsStay
<1>2. AnswersStand'
  BY DEF SupplierInv, AnswersStand, AnsweredIsRecorded
<1> QED BY <1>1, <1>2, QuietStep

\* The facts a request knows, when nothing they are about changes.
LEMMA FactsUnchanged ==
    ASSUME NEW s \in Sessions, NEW r, RequestFacts(s, r),
           UNCHANGED <<authvars, odoo, late, made, review, intents, effects, events>>
    PROVE  RequestFacts(s, r)'
BY DEF RequestFacts, KnowsReview, KnowsIntent, KnowsPartner, HoldsClaim, Blocked, authvars, Intent

LEMMA BeginKeeps ==
    ASSUME SupplierInv, NEW s \in Sessions, NEW mode \in SupplierResolutionMode,
           NEW id \in PartnerIds \union {None}, NEW v \in Versions, NEW a \in Auths \union {NoAuth},
           Begin(s, mode, id, v, a)
    PROVE  SupplierInv'
<1> PICK r : r = [pc |-> "look", mode |-> mode, chosen |-> id, at |-> v, auth |-> a,
                  seen |-> [version |-> version, status |-> review.status,
                            supplier |-> review.supplier],
                  vat |-> None, partner |-> None, write |-> None]
  OBVIOUS
<1>1. /\ r.pc = "look" /\ r.mode = mode /\ r.chosen = id /\ r.at = v /\ r.auth = a
      /\ r.seen = [version |-> version, status |-> review.status, supplier |-> review.supplier]
  OBVIOUS
<1>2. review \in Reviews /\ version \in Versions
  BY DEF SupplierInv, SupplierShared, SupplierTypes
<1>3. /\ r.seen \in SeenReviews /\ r.seen.version = version
      /\ r.seen.supplier = review.supplier
  BY <1>1, <1>2 DEF Reviews, SeenReviews
<1>4. r \in SupplierRequests
  BY <1>3 DEF SupplierRequests, RequestPcs, VatNumbers
<1>5. v <= version
  BY <1>2 DEF Begin, Versions
<1>6. RequestFacts(s, r)
  <2>1. version <= version
    BY <1>2 DEF Versions
  <2>2. KnowsReview(r)
    BY <1>1, <1>3, <1>5, <2>1 DEF KnowsReview, Begin
  <2> QED BY <1>1, <2>2 DEF RequestFacts, KnowsIntent, KnowsPartner, HoldsClaim
<1>7. req' = [req EXCEPT ![s] = r]
  BY DEF Begin
<1> QED BY <1>4, <1>6, <1>7, MoveKeeps, FactsUnchanged DEF Begin

\* A request past its look at the review.
Looked(q, pc, vat) == [q EXCEPT !.pc = pc, !.vat = vat, !.seen = None]

LEMMA LookMoves ==
    ASSUME NEW q \in SupplierRequests, NEW pc \in RequestPcs, NEW vat \in VatNumbers, NEW r,
           r = Looked(q, pc, vat)
    PROVE  /\ r \in SupplierRequests /\ r.pc = pc /\ r.vat = vat
           /\ r.mode = q.mode /\ r.chosen = q.chosen /\ r.at = q.at /\ r.auth = q.auth
           /\ r.partner = q.partner /\ r.write = q.write
<1> DEFINE r1 == [q EXCEPT !.pc = pc]
           r2 == [r1 EXCEPT !.vat = vat]
           r3 == [r2 EXCEPT !.seen = None]
<1>1. r1 \in SupplierRequests /\ r1.pc = pc /\ r1.mode = q.mode /\ r1.chosen = q.chosen
      /\ r1.at = q.at /\ r1.auth = q.auth /\ r1.partner = q.partner /\ r1.write = q.write
  BY DEF SupplierRequests
<1> HIDE DEF r1
<1>2. r2 \in SupplierRequests /\ r2.pc = pc /\ r2.mode = q.mode /\ r2.chosen = q.chosen
      /\ r2.at = q.at /\ r2.auth = q.auth /\ r2.partner = q.partner /\ r2.write = q.write
      /\ r2.vat = vat
  BY <1>1 DEF SupplierRequests
<1> HIDE DEF r2
<1>3. r3 \in SupplierRequests /\ r3.pc = pc /\ r3.mode = q.mode /\ r3.chosen = q.chosen
      /\ r3.at = q.at /\ r3.auth = q.auth /\ r3.partner = q.partner /\ r3.write = q.write
      /\ r3.vat = vat
  BY <1>2 DEF SupplierRequests
<1>4. r = r3
  BY DEF r1, r2, r3, Looked
<1> QED BY <1>3, <1>4

\* A request that has looked and goes on: the review it saw is the current one, unless its
\* version was left since.
LEMMA LookOnKeeps ==
    ASSUME SupplierInv, NEW s \in Sessions, req[s].pc = "look", Remediable(req[s]),
           NEW pc \in {"reserve", "authorize", "finish", "reclassify"},
           req' = [req EXCEPT ![s].pc = pc, ![s].vat = review.vat, ![s].seen = None],
           pc # "reserve" => intents[req[s].at] = Intent(req[s])
                             /\ req[s].mode # "use_one_off_supplier",
           pc = "authorize" => req[s].mode \in PartnerCreatingModes,
           pc = "finish" => req[s].mode \notin PartnerCreatingModes,
           pc = "reclassify" => effects[req[s].at] # None,
           UNCHANGED <<authvars, odoo, late, made, review, intents, effects, events, hubOwned,
                       corrector, answered>>
    PROVE  SupplierInv'
<1>0. /\ SupplierTypes /\ Left /\ req \in [Sessions -> SupplierRequests \union {NoReq}]
      /\ review \in Reviews
  BY DEF SupplierInv, SupplierShared, SupplierTypes
<1>1. req[s] # NoReq
  BY DEF NoReq
<1>2. req[s] \in SupplierRequests /\ RequestFacts(s, req[s])
  BY <1>0, <1>1 DEF SupplierInv
<1>3. review.vat \in VatNumbers /\ pc \in RequestPcs
  BY <1>0 DEF Reviews, VatNumbers, RequestPcs
<1> PICK q : q = req[s]
  OBVIOUS
<1> PICK vat : vat = review.vat
  OBVIOUS
<1> PICK r : r = Looked(q, pc, vat)
  OBVIOUS
<1>4. /\ r \in SupplierRequests /\ r.pc = pc /\ r.vat = review.vat
      /\ r.mode = q.mode /\ r.chosen = q.chosen /\ r.at = q.at /\ r.auth = q.auth
  <2>1. q \in SupplierRequests /\ vat \in VatNumbers /\ pc \in RequestPcs
    BY <1>2, <1>3
  <2>2. /\ r \in SupplierRequests /\ r.pc = pc /\ r.vat = vat
        /\ r.mode = q.mode /\ r.chosen = q.chosen /\ r.at = q.at /\ r.auth = q.auth
    BY <2>1, LookMoves
  <2> QED BY <2>2
<1>5. req' = [req EXCEPT ![s] = r]
  BY <1>0 DEF Looked
<1>6. KnowsReview(r)
  <2>1. q.seen.version = q.at /\ q.seen.supplier \in {"NOT_FOUND", "MULTIPLE_MATCHES"}
    BY DEF Remediable
  <2>2. /\ q.at <= version /\ (q.mode = "match_existing" <=> q.chosen # None)
        /\ q.seen.version = version => q.seen.supplier = review.supplier
    BY <1>2 DEF RequestFacts, KnowsReview
  <2> QED BY <1>4, <2>1, <2>2 DEF KnowsReview
<1>7. KnowsIntent(r) /\ KnowsPartner(r) /\ HoldsClaim(s, r)
  BY <1>4 DEF KnowsIntent, KnowsPartner, HoldsClaim, Intent
<1> QED BY <1>4, <1>5, <1>6, <1>7, MoveKeeps, FactsUnchanged DEF RequestFacts

LEMMA LookKeeps ==
    ASSUME SupplierInv, NEW s \in Sessions,
           LookFresh(s) \/ LookResume(s) \/ LookApplied(s) \/ LookRefused(s)
    PROVE  SupplierInv'
<1>0. /\ SupplierTypes /\ req \in [Sessions -> SupplierRequests \union {NoReq}]
      /\ intents \in [Versions -> Intents \union {None}]
      /\ effects \in [Versions -> EffectRows \union {None}]
  BY DEF SupplierInv, SupplierShared, SupplierTypes
<1>1. req[s].pc = "look" /\ req[s] # NoReq
  BY DEF LookFresh, LookResume, LookApplied, LookRefused, NoReq
<1>2. req[s] \in SupplierRequests /\ RequestFacts(s, req[s]) /\ req[s].at \in Versions
  BY <1>0, <1>1 DEF SupplierInv, SupplierRequests
<1>3. CASE LookFresh(s)
  BY <1>3, LookOnKeeps, "reserve" \in {"reserve", "authorize", "finish", "reclassify"} DEF LookFresh
<1>4. CASE LookResume(s)
  <2> PICK pc : pc = IF effects[req[s].at] = None THEN AfterIntent(req[s].mode) ELSE "reclassify"
    OBVIOUS
  <2>1. /\ pc \in {"reserve", "authorize", "finish", "reclassify"} /\ pc # "reserve"
        /\ pc = "authorize" => req[s].mode \in PartnerCreatingModes
        /\ pc = "finish" => req[s].mode \notin PartnerCreatingModes
        /\ pc = "reclassify" => effects[req[s].at] # None
    BY DEF AfterIntent
  <2>2. intents[req[s].at] \in Intents
    BY <1>0, <1>2, <1>4 DEF LookResume
  <2>3. intents[req[s].at] = Intent(req[s])
    BY <1>4, <2>2 DEF LookResume, MatchesIntent, Intent, Intents
  <2>4. req' = [req EXCEPT ![s].pc = pc, ![s].vat = review.vat, ![s].seen = None]
    BY <1>4 DEF LookResume
  <2> QED BY <1>1, <1>4, <2>1, <2>3, <2>4, LookOnKeeps DEF LookResume
<1>5. CASE LookApplied(s)
  <2>1. AuthInv' /\ TargetsStay /\ version' = version /\ claim' = claim
    BY <1>5, AuthNextInv DEF SupplierInv, authvars, TargetsStay, LookApplied
  <2>2. AnswersStand'
    BY <1>2, <1>5 DEF SupplierInv, AnswersStand, AnsweredIsRecorded, LookApplied, Answer
  <2> QED BY <1>5, <2>1, <2>2, QuietStep DEF LookApplied, Answer
<1>6. CASE LookRefused(s)
  BY <1>6, RefuseKeeps DEF LookRefused
<1> QED BY <1>3, <1>4, <1>5, <1>6

\* The request goes on at `pc', knowing what it knew.
LEMMA GoToMoves ==
    ASSUME NEW q \in SupplierRequests, NEW pc \in RequestPcs, NEW r, r = [q EXCEPT !.pc = pc]
    PROVE  /\ r \in SupplierRequests /\ r.pc = pc
           /\ r.mode = q.mode /\ r.chosen = q.chosen /\ r.at = q.at /\ r.auth = q.auth
           /\ r.partner = q.partner /\ r.write = q.write /\ r.vat = q.vat
BY DEF SupplierRequests

LEMMA RecheckKeeps ==
    ASSUME SupplierInv, NEW s \in Sessions, Recheck(s)
    PROVE  SupplierInv'
<1>0. req \in [Sessions -> SupplierRequests \union {NoReq}]
  BY DEF SupplierInv, SupplierShared, SupplierTypes
<1>1. req[s].pc = "recheck" /\ req[s] # NoReq
  BY DEF Recheck, NoReq
<1>2. req[s] \in SupplierRequests /\ RequestFacts(s, req[s])
  BY <1>0, <1>1 DEF SupplierInv
<1>3. CASE Refuse(s)
  BY <1>3, RefuseKeeps
<1>4. CASE ~Refuse(s)
  <2>1. GoTo(s, "finish")
        /\ UNCHANGED <<authvars, odoo, late, made, review, intents, effects, events, hubOwned,
                       corrector, answered>>
    BY <1>4 DEF Recheck
  <2> PICK q : q = req[s]
    OBVIOUS
  <2> PICK r : r = [q EXCEPT !.pc = "finish"]
    OBVIOUS
  <2>2. /\ r \in SupplierRequests /\ r.pc = "finish"
        /\ r.mode = q.mode /\ r.chosen = q.chosen /\ r.at = q.at /\ r.auth = q.auth
        /\ r.partner = q.partner /\ r.write = q.write /\ r.vat = q.vat
    BY <1>2, GoToMoves DEF RequestPcs
  <2>3. req' = [req EXCEPT ![s] = r]
    BY <1>0, <2>1 DEF GoTo
  <2>4. RequestFacts(s, r)
    BY <1>1, <1>2, <2>2 DEF RequestFacts, KnowsReview, KnowsIntent, KnowsPartner, HoldsClaim, Intent
  <2> QED BY <2>1, <2>2, <2>3, <2>4, MoveKeeps, FactsUnchanged
<1> QED BY <1>3, <1>4

\* The authorization of a write: claimed for the review's current version, or the gate.
LEMMA AuthorizedClaims ==
    ASSUME SupplierInv, NEW s \in Sessions, NEW q \in SupplierRequests, q = req[s],
           q.mode \in PartnerCreatingModes, Authorized(s)
    PROVE  /\ AuthInv' /\ auth' = auth /\ version' = version
           /\ \A t \in Sessions \ {s} : claim'[t] = claim[t]
           /\ q.auth # NoAuth =>
                /\ q.auth \in Auths /\ claim'[s] # NoAuth /\ claim'[s].auth = q.auth
                /\ auth[q.auth] # NoAuth /\ auth[q.auth].target = q.at /\ version = q.at
<1>0. AuthInv /\ claim \in [Sessions -> Claims \union {NoAuth}]
  BY DEF SupplierInv, AuthInv, AuthTypeOK
<1>1. CASE q.auth = NoAuth
  <2>1. UNCHANGED authvars
    BY <1>1 DEF Authorized
  <2> QED BY <1>0, <1>1, <2>1, AuthNextInv DEF authvars
<1>2. CASE q.auth # NoAuth
  <2>1. q.auth \in Auths /\ q.at \in 1 .. MaxVersion
    BY <1>2 DEF SupplierRequests, Versions
  <2> PICK c : c = Consumer(q)
    OBVIOUS
  <2>2. c \in Consumers
    BY SupplierConstants DEF Consumer, SupplierRequests
  <2>3. Claim(s, q.auth, c, q.at)
    BY <1>2 DEF Authorized
  <2>4. AuthInv'
    BY <1>0, <2>1, <2>2, <2>3, AuthNextInv DEF AuthNext
  <2> PICK k : k = [auth |-> q.auth, consumer |-> c]
    OBVIOUS
  <2>5. k \in Claims /\ k.auth = q.auth /\ k # NoAuth
    BY <2>1, <2>2, AuthConstants DEF Claims
  <2>6. claim' = [claim EXCEPT ![s] = k] /\ auth' = auth /\ version' = version
    BY <2>3 DEF Claim
  <2>7. auth[q.auth] # NoAuth /\ auth[q.auth].target = q.at /\ version = q.at
    BY <2>3 DEF Claim, Admits
  <2> QED BY <1>0, <2>1, <2>4, <2>5, <2>6, <2>7
<1> QED BY <1>1, <1>2

\* While the version a request is about is current, its tax number is the review's.
LEMMA CurrentVat ==
    ASSUME SupplierInv, NEW s \in Sessions, NEW q \in SupplierRequests, RequestFacts(s, q),
           q.pc # "look", version = q.at
    PROVE  q.vat = review.vat
<1>1. version \in Versions /\ version >= version
  BY DEF SupplierInv, SupplierShared, SupplierTypes, Versions
<1>2. events[version] = None
  BY <1>1 DEF SupplierInv, SupplierShared, Left
<1> QED BY <1>2 DEF RequestFacts, KnowsReview, Blocked

\* A partner in Odoo is one the Hub's queries see.
LEMMA PartnersAreVisible ==
    ASSUME SupplierInv, NEW p \in odoo
    PROVE  Matching!Visible(p.company) /\ p.id \in PartnerIds /\ made[p.id] \in Makers
<1>1. p \in Partners /\ made[p.id] # None /\ made \in [PartnerIds -> Makers \union {None}]
  BY DEF SupplierInv, SupplierShared, SupplierTypes, Registered
<1> QED BY <1>1 DEF Partners, Matching!Visible

LEMMA FindNoneKeeps ==
    ASSUME SupplierInv, NEW s \in Sessions, FindNone(s)
    PROVE  SupplierInv'
<1>0. req \in [Sessions -> SupplierRequests \union {NoReq}]
  BY DEF SupplierInv, SupplierShared, SupplierTypes
<1> PICK q : q = req[s]
  OBVIOUS
<1>1. q.pc = "authorize" /\ req[s] # NoReq
  BY DEF FindNone, NoReq
<1>2. q \in SupplierRequests /\ RequestFacts(s, q)
  BY <1>0, <1>1 DEF SupplierInv
<1>3. q.mode \in PartnerCreatingModes
  BY <1>1, <1>2 DEF RequestFacts, KnowsIntent
<1>4. /\ AuthInv' /\ auth' = auth /\ version' = version
      /\ \A t \in Sessions \ {s} : claim'[t] = claim[t]
      /\ q.auth # NoAuth =>
           /\ q.auth \in Auths /\ claim'[s] # NoAuth /\ claim'[s].auth = q.auth
           /\ auth[q.auth] # NoAuth /\ auth[q.auth].target = q.at /\ version = q.at
  BY <1>2, <1>3, AuthorizedClaims DEF FindNone
<1> PICK r : r = [q EXCEPT !.pc = "create"]
  OBVIOUS
<1>5. /\ r \in SupplierRequests /\ r.pc = "create"
      /\ r.mode = q.mode /\ r.chosen = q.chosen /\ r.at = q.at /\ r.auth = q.auth
      /\ r.partner = q.partner /\ r.write = q.write /\ r.vat = q.vat
  BY <1>2, GoToMoves DEF RequestPcs
<1>6. q.auth # NoAuth => \A p \in odoo : made[p.id].auth = q.auth => made[p.id].late
  <2> SUFFICES ASSUME q.auth # NoAuth, NEW p \in odoo, made[p.id].auth = q.auth PROVE FALSE
    OBVIOUS
  <2>1. q.vat = review.vat
    BY <1>1, <1>2, <1>4, CurrentVat
  <2>2. p.vat = review.vat
    BY <1>4 DEF SupplierInv, SupplierShared, SameSupplier
  <2>3. p \in FindByExactVat(q.vat)
    BY <2>1, <2>2, PartnersAreVisible DEF FindByExactVat
  <2> QED BY <2>3 DEF FindNone
<1>7. RequestFacts(s, r)'
  <2>1. UNCHANGED <<version, review, intents, effects, events, made, odoo, late, auth>>
    BY <1>4 DEF FindNone
  <2>2. KnowsReview(r)' /\ KnowsIntent(r)' /\ KnowsPartner(r)'
    BY <1>1, <1>2, <1>3, <1>5, <2>1 DEF RequestFacts, KnowsReview, KnowsIntent, KnowsPartner, Intent, Blocked
  <2>3. HoldsClaim(s, r)'
    BY <1>4, <1>5, <1>6, <2>1 DEF HoldsClaim
  <2> QED BY <2>2, <2>3 DEF RequestFacts
<1>8. req' = [req EXCEPT ![s] = r]
  BY <1>0 DEF FindNone, GoTo
<1>9. TargetsStay /\ AnswersStand'
  BY <1>4 DEF TargetsStay, FindNone, SupplierInv, AnswersStand, AnsweredIsRecorded
<1> QED BY <1>4, <1>5, <1>7, <1>8, <1>9, QuietStep DEF FindNone

\* The request has a partner: found, or made.
WithPartner(q, pc, id, write) == [q EXCEPT !.pc = pc, !.partner = id, !.write = write]

LEMMA PartnerMoves ==
    ASSUME NEW q \in SupplierRequests, NEW pc \in RequestPcs, NEW id \in PartnerIds,
           NEW w \in {"created", "already_exists"}, NEW r, r = WithPartner(q, pc, id, w)
    PROVE  /\ r \in SupplierRequests /\ r.pc = pc /\ r.partner = id /\ r.write = w
           /\ r.mode = q.mode /\ r.chosen = q.chosen /\ r.at = q.at /\ r.auth = q.auth
           /\ r.vat = q.vat
<1> DEFINE r1 == [q EXCEPT !.pc = pc]
           r2 == [r1 EXCEPT !.partner = id]
           r3 == [r2 EXCEPT !.write = w]
<1>1. r1 \in SupplierRequests /\ r1.pc = pc /\ r1.mode = q.mode /\ r1.chosen = q.chosen
      /\ r1.at = q.at /\ r1.auth = q.auth /\ r1.vat = q.vat
  BY DEF SupplierRequests
<1> HIDE DEF r1
<1>2. r2 \in SupplierRequests /\ r2.pc = pc /\ r2.mode = q.mode /\ r2.chosen = q.chosen
      /\ r2.at = q.at /\ r2.auth = q.auth /\ r2.vat = q.vat /\ r2.partner = id
  BY <1>1 DEF SupplierRequests
<1> HIDE DEF r2
<1>3. r3 \in SupplierRequests /\ r3.pc = pc /\ r3.mode = q.mode /\ r3.chosen = q.chosen
      /\ r3.at = q.at /\ r3.auth = q.auth /\ r3.vat = q.vat /\ r3.partner = id /\ r3.write = w
  BY <1>2 DEF SupplierRequests
<1>4. r = r3
  BY DEF r1, r2, r3, WithPartner
<1> QED BY <1>3, <1>4

LEMMA FindOneKeeps ==
    ASSUME SupplierInv, NEW s \in Sessions, FindOne(s)
    PROVE  SupplierInv'
<1>0. req \in [Sessions -> SupplierRequests \union {NoReq}]
  BY DEF SupplierInv, SupplierShared, SupplierTypes
<1> PICK q : q = req[s]
  OBVIOUS
<1>1. q.pc = "authorize" /\ req[s] # NoReq
  BY DEF FindOne, NoReq
<1>2. q \in SupplierRequests /\ RequestFacts(s, q)
  BY <1>0, <1>1 DEF SupplierInv
<1>3. q.mode \in PartnerCreatingModes
  BY <1>1, <1>2 DEF RequestFacts, KnowsIntent
<1>4. /\ AuthInv' /\ auth' = auth /\ version' = version
      /\ \A t \in Sessions \ {s} : claim'[t] = claim[t]
  BY <1>2, <1>3, AuthorizedClaims DEF FindOne
<1>5. PICK p \in odoo :
         /\ FindByExactVat(q.vat) = {p}
         /\ Usable(q, p)
         /\ req' = [req EXCEPT ![s].pc = "finish", ![s].partner = p.id,
                               ![s].write = "already_exists"]
  BY DEF FindOne
<1>6. p.id \in PartnerIds /\ made[p.id] # None /\ p.vat = q.vat
  <2>1. p \in FindByExactVat(q.vat)
    BY <1>5
  <2> QED BY <2>1, PartnersAreVisible DEF FindByExactVat, SupplierInv, SupplierShared, Registered
<1> PICK id : id = p.id
  OBVIOUS
<1> PICK r : r = WithPartner(q, "finish", id, "already_exists")
  OBVIOUS
<1>7. /\ r \in SupplierRequests /\ r.pc = "finish" /\ r.partner = id /\ r.write = "already_exists"
      /\ r.mode = q.mode /\ r.chosen = q.chosen /\ r.at = q.at /\ r.auth = q.auth
      /\ r.vat = q.vat
  <2>1. q \in SupplierRequests /\ id \in PartnerIds /\ "finish" \in RequestPcs
        /\ "already_exists" \in {"created", "already_exists"}
    BY <1>2, <1>6 DEF RequestPcs
  <2> QED BY <2>1, PartnerMoves
<1>8. req' = [req EXCEPT ![s] = r]
  BY <1>0, <1>5 DEF WithPartner
<1>9. q.mode = "one_off_vendor" => made[id].mode = "one_off_vendor"
  BY <1>5 DEF Usable, OneOffOwned, SupplierInv, SupplierShared, Registered
<1>10. UNCHANGED <<version, review, intents, effects, events, made, odoo, late, auth>>
  BY <1>4 DEF FindOne
<1>11. KnowsPartner(r)'
  <2>1. None # id
    BY <1>6, SupplierConstants
  <2>2. \A x \in odoo : x.id = id => x.vat = q.vat
    BY <1>6 DEF SupplierInv, SupplierShared, Registered
  <2>3. \A x \in late : x.id # id
    BY DEF SupplierInv, SupplierShared, Awaited, Unknown
  <2> QED BY <1>6, <1>7, <1>9, <1>10, <2>1, <2>2, <2>3 DEF KnowsPartner
<1>12. KnowsReview(r)' /\ KnowsIntent(r)' /\ HoldsClaim(s, r)'
  BY <1>1, <1>2, <1>3, <1>7, <1>10
     DEF RequestFacts, KnowsReview, KnowsIntent, HoldsClaim, Intent, Blocked, PartnerCreatingModes
<1>13. TargetsStay /\ AnswersStand'
  BY <1>4 DEF TargetsStay, FindOne, SupplierInv, AnswersStand, AnsweredIsRecorded
<1> QED BY <1>4, <1>7, <1>8, <1>11, <1>12, <1>13, QuietStep DEF FindOne, RequestFacts

-----------------------------------------------------------------------------
(* The steps that write a row.                                               *)

LEMMA ReserveKeeps ==
    ASSUME SupplierInv, NEW s \in Sessions, Reserve(s)
    PROVE  SupplierInv'
<1>0. /\ SupplierTypes /\ Registered /\ Left /\ SameSupplier /\ Awaited /\ Correctable
      /\ req \in [Sessions -> SupplierRequests \union {NoReq}]
      /\ intents \in [Versions -> Intents \union {None}] /\ version \in Nat
  BY DEF SupplierInv, SupplierShared, SupplierTypes, Versions
<1> PICK q : q = req[s]
  OBVIOUS
<1>1. q.pc = "reserve" /\ req[s] # NoReq
  BY DEF Reserve, NoReq
<1>2. q \in SupplierRequests /\ RequestFacts(s, q)
  BY <1>0, <1>1 DEF SupplierInv
<1>3. CASE Refuse(s)
  BY <1>3, RefuseKeeps
<1>4. CASE ~Refuse(s)
  <2> PICK i : i = Intent(q)
    OBVIOUS
  <2>1. /\ intents[q.at] = None
        /\ q.mode = "match_existing" => ValidMatch(q.chosen, review.vat)
        /\ intents' = [intents EXCEPT ![q.at] = i]
        /\ UNCHANGED <<authvars, odoo, late, made, review, effects, events, hubOwned, corrector,
                       answered>>
        /\ IF q.mode = "use_one_off_supplier"
           THEN req' = [req EXCEPT ![s] = NoReq]
           ELSE GoTo(s, AfterIntent(q.mode))
    BY <1>4 DEF Reserve, ReservationWins
  <2>2. i \in Intents /\ i # None /\ i.mode = q.mode /\ i.chosen = q.chosen /\ q.at \in Versions
    BY <1>2, SupplierConstants DEF Intent, Intents, SupplierRequests
  <2>3. /\ q.at <= version /\ (q.mode = "match_existing" <=> q.chosen # None)
    BY <1>2 DEF RequestFacts, KnowsReview
  <2>4. /\ intents' \in [Versions -> Intents \union {None}] /\ intents'[q.at] = i
        /\ \A v \in Versions \ {q.at} : intents'[v] = intents[v]
    BY <1>0, <2>1, <2>2
  <2>5. q.chosen # None => \E p \in odoo : p.id = q.chosen /\ p.vat = review.vat
    BY <2>1, <2>3 DEF ValidMatch
  <2>6. q.chosen # None => /\ made[q.chosen] # None
                           /\ \A p \in odoo : p.id = q.chosen => p.vat = review.vat
    BY <1>0, <2>5 DEF Registered
  <2>7. PICK r \in SupplierRequests \union {NoReq} :
          /\ req' = [req EXCEPT ![s] = r]
          /\ r # NoReq =>
               /\ r.pc = AfterIntent(q.mode) /\ q.mode # "use_one_off_supplier"
               /\ r.mode = q.mode /\ r.chosen = q.chosen /\ r.at = q.at /\ r.auth = q.auth
               /\ r.partner = q.partner /\ r.write = q.write /\ r.vat = q.vat
    <3>1. CASE q.mode = "use_one_off_supplier"
      BY <2>1, <3>1
    <3>2. CASE q.mode # "use_one_off_supplier"
      <4> PICK pc : pc = AfterIntent(q.mode)
        OBVIOUS
      <4> PICK r : r = [q EXCEPT !.pc = pc]
        OBVIOUS
      <4>1. pc \in RequestPcs
        BY DEF AfterIntent, RequestPcs
      <4>2. /\ r \in SupplierRequests /\ r.pc = pc
            /\ r.mode = q.mode /\ r.chosen = q.chosen /\ r.at = q.at /\ r.auth = q.auth
            /\ r.partner = q.partner /\ r.write = q.write /\ r.vat = q.vat
        BY <1>2, <4>1, GoToMoves
      <4>3. req' = [req EXCEPT ![s] = r]
        BY <1>0, <2>1, <3>2 DEF GoTo
      <4> QED BY <3>2, <4>2, <4>3
    <3> QED BY <3>1, <3>2
  <2>8. AuthInv' /\ TargetsStay /\ version' = version /\ claim' = claim
    BY <2>1, AuthNextInv DEF SupplierInv, authvars, TargetsStay
  <2>9. /\ req' \in [Sessions -> SupplierRequests \union {NoReq}] /\ req'[s] = r
        /\ \A t \in Sessions \ {s} : req'[t] = req[t]
    BY <1>0, <2>7
  <2>10. SupplierTypes'
    BY <1>0, <2>1, <2>4, <2>8, <2>9 DEF SupplierTypes
  <2>11. Registered' /\ Left' /\ Correctable'
    BY <1>0, <2>1, <2>2, <2>3, <2>4, <2>6, <2>8 DEF Registered, Left, Correctable
  <2>12. SameSupplier'
    <3>2. \A p \in odoo : p.id # None
      BY PartnersAreVisible, SupplierConstants
    <3>3. ASSUME NEW v \in Versions, NEW p \in odoo, intents'[v] # None, intents'[v].chosen = p.id
          PROVE  p.vat = review.vat \/ Blocked(v)
      <4>1. CASE v = q.at
        BY <2>2, <2>4, <2>6, <3>2, <3>3, <4>1
      <4>2. CASE v # q.at
        BY <1>0, <2>4, <3>3, <4>2 DEF SameSupplier
      <4> QED BY <4>1, <4>2
    <3>4. \A v \in Versions : Blocked(v)' <=> Blocked(v)
      BY <2>1 DEF Blocked
    <3>5. UNCHANGED <<auth, version, odoo, made, review, effects>>
      BY <2>1 DEF authvars
    <3> QED BY <1>0, <3>3, <3>4, <3>5 DEF SameSupplier
  <2>13. EveryWriteHasItsIntent' /\ OnePartnerPerAuthorization' /\ AnswersStand'
    <3>1. \A v \in Versions : effects[v] # None => v # q.at
      BY <2>1 DEF SupplierInv, EveryWriteHasItsIntent
    <3>2. \A k \in PartnerIds : made[k] # None /\ made[k].at # 0 =>
             made[k].at \in Versions /\ made[k].at # q.at
      BY <1>0, <2>1 DEF SupplierInv, EveryWriteHasItsIntent, SupplierTypes, Makers
    <3> QED BY <2>1, <2>4, <3>1, <3>2
            DEF SupplierInv, EveryWriteHasItsIntent, OnePartnerPerAuthorization, AnswersStand, AnsweredIsRecorded
  <2>14. SupplierAdvance
    <3>1. version' >= version
      BY <1>0, <2>8
    <3> QED BY <2>1, <2>4, <2>8, <3>1
            DEF SupplierAdvance, RowsStay, PartnersStay, ReviewAdvances
  <2>15. r # NoReq => RequestFacts(s, r)'
    <3> SUFFICES ASSUME r # NoReq PROVE RequestFacts(s, r)'
      OBVIOUS
    <3>1. UNCHANGED <<version, review, effects, events, made, odoo, late>>
      BY <2>1, <2>8
    <3>2. KnowsReview(r)'
      BY <1>1, <1>2, <2>7, <3>1 DEF RequestFacts, KnowsReview, Blocked, AfterIntent
    <3>3. KnowsIntent(r)' /\ KnowsPartner(r)' /\ HoldsClaim(s, r)'
      BY <2>2, <2>4, <2>7, <3>1 DEF KnowsIntent, KnowsPartner, HoldsClaim, AfterIntent, Intent
    <3> QED BY <3>2, <3>3 DEF RequestFacts
  <2>16. \A t \in Sessions : req'[t] # NoReq => RequestFacts(t, req[t])'
    <3>1. req'[s] # NoReq => RequestFacts(s, req[s])'
      BY <2>9, <2>15, FactsOf
    <3>2. /\ version' \in Nat /\ odoo' \subseteq Partners /\ late' \subseteq Partners
          /\ \A p \in odoo' : made[p.id] # None
      BY <1>0, <2>1, <2>8 DEF SupplierTypes, Registered
    <3> QED BY <2>8, <2>9, <2>14, <3>1, <3>2, SessionsKnow, {s} \in SUBSET Sessions
  <2>17. \A v \in Versions : effects'[v] # None =>
                (effects'[v].write = "selected" <=> effects'[v].mode = "match_existing")
    BY <2>1 DEF SupplierInv
  <2>18. Awaited'
    <3>1. \A p \in late : p.id # q.chosen
      <4>1. \A p \in late : p.id # None
        BY <1>0, SupplierConstants DEF SupplierTypes, Partners
      <4> QED BY <1>0, <2>5, <4>1 DEF Awaited, Unknown
    <3>2. \A p \in late : /\ \A x \in odoo' : x.id # p.id
                         /\ \A v \in Versions :
                              /\ intents'[v] # None => intents'[v].chosen # p.id
                              /\ effects'[v] # None => effects'[v].partner # p.id
      BY <1>0, <2>1, <2>2, <2>4, <3>1 DEF Awaited, Unknown
    <3>3. version' \in Nat /\ version' >= version
      BY <1>0, <2>8
    <3> QED BY <2>1, <2>8, <3>2, <3>3, AwaitedStays
  <2> QED BY <2>8, <2>10, <2>11, <2>12, <2>13, <2>16, <2>17, <2>18 DEF SupplierInv, SupplierShared
<1> QED BY <1>3, <1>4

\* A partner id that was never assigned.
LEMMA FreshIsFree ==
    ASSUME RoomForPartner
    PROVE  FreshId \in PartnerIds /\ made[FreshId] = None
<1>1. \E i \in PartnerIds : made[i] = None
  BY DEF RoomForPartner
<1> QED BY <1>1 DEF FreshId

\* Somebody makes a partner, or sends a create that Odoo will get to: the requests M, or nobody
\* who is working on a request here.  A partner made under an authorization while its caller waits
\* is the only one made like that, and the sessions outside M are not about to make one.
PartnerAddition(id, vat, m, M) ==
    /\ id \in PartnerIds /\ made[id] = None /\ vat \in VatNumbers /\ m \in Makers
    /\ odoo' = IF m.late THEN odoo ELSE odoo \union {Partner(id, vat)}
    /\ late' = IF m.late THEN late \union {Partner(id, vat)} ELSE late
    /\ made' = [made EXCEPT ![id] = m]
    /\ hubOwned' \in {hubOwned, hubOwned \union {id}}
    /\ hubOwned' # hubOwned => m.mode = "one_off_vendor"
    /\ AuthInv' /\ UNCHANGED <<version, auth>>
    /\ UNCHANGED <<review, intents, effects, events, corrector, answered>>
    /\ m.at # 0 => intents[m.at] # None /\ intents[m.at].mode = m.mode
    /\ m.auth # NoAuth =>
          /\ auth[m.auth] # NoAuth /\ auth[m.auth].target = m.at
          /\ version = m.at => vat = review.vat
          /\ ~m.late => \A p \in odoo : made[p.id].auth = m.auth => made[p.id].late
    /\ req' \in [Sessions -> SupplierRequests \union {NoReq}]
    /\ M \in SUBSET Sessions
    /\ \A t \in Sessions \ M :
          /\ req'[t] = req[t] /\ claim'[t] = claim[t]
          /\ ~m.late /\ req[t] # NoReq /\ req[t].pc = "create" /\ req[t].auth # NoAuth
                => m.auth # req[t].auth

LEMMA PartnerAdded ==
    ASSUME SupplierInv, NEW id, NEW vat, NEW m, NEW M, PartnerAddition(id, vat, m, M),
           \A s \in M : req'[s] # NoReq => RequestFacts(s, req[s])'
    PROVE  SupplierInv'
<1> USE DEF PartnerAddition
<1>0. /\ SupplierTypes /\ Registered /\ Left /\ SameSupplier /\ Awaited /\ Correctable
      /\ odoo \subseteq Partners /\ late \subseteq Partners
      /\ made \in [PartnerIds -> Makers \union {None}] /\ version \in Nat
  BY DEF SupplierInv, SupplierShared, SupplierTypes, Versions
<1> PICK p0 : p0 = Partner(id, vat)
  OBVIOUS
<1>1. /\ p0 \in Partners /\ p0.id = id /\ p0.vat = vat
      /\ \A p \in odoo' : p \in odoo \/ (p = p0 /\ ~m.late)
      /\ \A p \in late' : p \in late \/ (p = p0 /\ m.late)
  BY DEF Partner, Partners
<1>2. m # None
  BY SupplierConstants
<1>3. /\ made' \in [PartnerIds -> Makers \union {None}] /\ made'[id] = m
      /\ \A i \in PartnerIds \ {id} : made'[i] = made[i]
  BY <1>0
<1>4. \A p \in odoo : p.id \in PartnerIds /\ made[p.id] # None /\ p.id # id /\ made'[p.id] = made[p.id]
  BY <1>0, <1>3 DEF Partners, Registered
<1>5. AuthInv' /\ TargetsStay /\ version' = version /\ auth' = auth
  BY DEF TargetsStay
<1>6. \A v \in Versions : effects[v] # None => effects[v].partner \in PartnerIds /\ effects[v].partner # id
                                               /\ made'[effects[v].partner] = made[effects[v].partner]
  <2>1. \A v \in Versions : effects[v] # None => effects[v] \in EffectRows
    BY <1>0 DEF SupplierTypes
  <2>2. \A v \in Versions : effects[v] # None => effects[v].partner \in PartnerIds
    BY <2>1 DEF EffectRows
  <2> QED BY <1>0, <1>3, <2>2 DEF Registered
<1>7. \A v \in Versions : intents[v] # None /\ intents[v].chosen # None =>
         /\ intents[v].chosen \in PartnerIds /\ intents[v].chosen # id
         /\ made'[intents[v].chosen] = made[intents[v].chosen]
  <2>1. \A v \in Versions : intents[v] # None => intents[v] \in Intents
    BY <1>0 DEF SupplierTypes
  <2>2. \A v \in Versions : intents[v] # None /\ intents[v].chosen # None =>
           intents[v].chosen \in PartnerIds
    BY <2>1 DEF Intents
  <2> QED BY <1>0, <1>3, <2>2 DEF Registered
<1>8. SupplierTypes'
  BY <1>0, <1>1, <1>3, <1>5 DEF SupplierTypes
<1>9. Registered'
  <2>1. \A i \in hubOwned' : made'[i] # None /\ made'[i].mode = "one_off_vendor"
    <3>1. \A i \in hubOwned : i \in PartnerIds /\ i # id
      BY <1>0 DEF SupplierTypes, Registered
    <3> QED BY <1>0, <1>2, <1>3, <3>1 DEF Registered
  <2>2. /\ \A p \in odoo' : made'[p.id] # None
        /\ \A p, q \in odoo' : p.id = q.id => p = q
    BY <1>0, <1>1, <1>2, <1>3, <1>4 DEF Registered
  <2>3. /\ \A v \in Versions : intents'[v] # None /\ intents'[v].chosen # None =>
             made'[intents'[v].chosen] # None
        /\ \A v \in Versions : effects'[v] # None =>
             /\ made'[effects'[v].partner] # None
             /\ effects'[v].mode = "one_off_vendor" => made'[effects'[v].partner].mode = "one_off_vendor"
    BY <1>0, <1>6, <1>7 DEF Registered
  <2> QED BY <2>1, <2>2, <2>3 DEF Registered
<1>10. Left' /\ Correctable'
  BY <1>0, <1>1, <1>5, <1>6 DEF Left, Correctable
<1>11. SameSupplier'
  <2>1. \A v \in Versions : Blocked(v)' <=> Blocked(v)
    BY DEF Blocked
  <2>2. \A v \in Versions, p \in odoo' :
           effects'[v] # None /\ p.id = effects'[v].partner => p.vat = review'.vat
    BY <1>0, <1>1, <1>6 DEF SameSupplier
  <2>3. \A v \in Versions, p \in odoo' :
           intents'[v] # None /\ intents'[v].chosen = p.id => p.vat = review'.vat \/ Blocked(v)'
    <3>1. id # None
      BY SupplierConstants
    <3>2. \A v \in Versions : intents'[v] # None => intents'[v].chosen # id
      BY <1>7, <3>1
    <3> QED BY <1>0, <1>1, <2>1, <3>2 DEF SameSupplier
  <2>4. \A p \in odoo' : made'[p.id].auth # NoAuth =>
           /\ auth'[made'[p.id].auth] # NoAuth
           /\ auth'[made'[p.id].auth].target = made'[p.id].at
           /\ version' = made'[p.id].at => p.vat = review'.vat
    <3> SUFFICES ASSUME NEW p \in odoo', made'[p.id].auth # NoAuth
                 PROVE  /\ auth[made'[p.id].auth] # NoAuth
                        /\ auth[made'[p.id].auth].target = made'[p.id].at
                        /\ version = made'[p.id].at => p.vat = review.vat
      BY <1>5
    <3>1. CASE p \in odoo
      BY <1>0, <1>4, <3>1 DEF SameSupplier
    <3>2. CASE p = p0
      BY <1>1, <1>3, <3>2
    <3> QED BY <1>1, <3>1, <3>2
  <2> QED BY <2>2, <2>3, <2>4 DEF SameSupplier
<1>12. EveryWriteHasItsIntent'
  BY <1>2, <1>3 DEF SupplierInv, EveryWriteHasItsIntent
<1>13. OnePartnerPerAuthorization'
  <2> SUFFICES ASSUME NEW p \in odoo', NEW q \in odoo', made'[p.id].auth # NoAuth,
                      made'[p.id].auth = made'[q.id].auth
               PROVE  p = q \/ made'[p.id].late \/ made'[q.id].late
    BY DEF OnePartnerPerAuthorization
  <2>1. CASE p \in odoo /\ q \in odoo
    BY <1>4, <2>1 DEF SupplierInv, OnePartnerPerAuthorization
  <2>2. CASE p \in odoo /\ q = p0 /\ ~m.late
    BY <1>1, <1>3, <1>4, <2>2
  <2>3. CASE p = p0 /\ q \in odoo /\ ~m.late
    BY <1>1, <1>3, <1>4, <2>3
  <2> QED BY <1>1, <2>1, <2>2, <2>3
<1>14. AnswersStand' /\ \A v \in Versions : effects'[v] # None =>
                (effects'[v].write = "selected" <=> effects'[v].mode = "match_existing")
  BY DEF SupplierInv, AnswersStand, AnsweredIsRecorded
<1>15. SupplierAdvance
  <2>1. version' >= version
    BY <1>0, <1>5
  <2>2. PartnersStay
    <3>1. \A i \in PartnerIds : made[i] # None => made'[i] = made[i]
      BY <1>3
    <3>2. \A p \in odoo' : made[p.id] # None => p \in odoo
      BY <1>1
    <3>3. \A p \in late' : made[p.id] # None => p \in late
      BY <1>1
    <3> QED BY <3>1, <3>2, <3>3 DEF PartnersStay
  <2> QED BY <1>5, <2>1, <2>2 DEF SupplierAdvance, RowsStay, ReviewAdvances
<1>16. \A t \in Sessions : req'[t] # NoReq => RequestFacts(t, req[t])'
  <2>1. \A t \in Sessions \ M : \A p \in odoo' :
           req[t] # NoReq /\ req[t].pc = "create" /\ req[t].auth # NoAuth /\ made[p.id] = None
              => made'[p.id].auth # req[t].auth
    BY <1>1, <1>3, <1>4
  <2>2. version' \in Nat /\ odoo' \subseteq Partners /\ late' \subseteq Partners
    BY <1>0, <1>1, <1>5
  <2> QED BY <1>5, <1>15, <2>1, <2>2, SessionsKnow
<1>17. Awaited'
  <2>1. \A p \in late : /\ p.id \in PartnerIds /\ made[p.id] # None /\ p.id # id
                       /\ made'[p.id] = made[p.id]
    BY <1>0, <1>3 DEF Awaited, Partners
  <2>2. \A p \in late' : made'[p.id] # None /\ made'[p.id].late
    BY <1>0, <1>1, <1>2, <1>3, <2>1 DEF Awaited
  <2>3. \A p, q \in late' : p.id = q.id => p = q
    BY <1>0, <1>1, <2>1 DEF Awaited
  <2>4. ASSUME NEW p \in late'
        PROVE  /\ \A q \in odoo' : q.id # p.id
               /\ \A v \in Versions : intents'[v] # None => intents'[v].chosen # p.id
               /\ \A v \in Versions : effects'[v] # None => effects'[v].partner # p.id
    <3>1. CASE p \in late
      BY <1>0, <1>1, <2>1, <3>1 DEF Awaited, Unknown
    <3>2. CASE p = p0 /\ m.late
      <4>1. id # None
        BY SupplierConstants
      <4> QED BY <1>1, <1>4, <1>6, <1>7, <3>2, <4>1
    <3> QED BY <1>1, <3>1, <3>2
  <2>5. Unknown({p.id : p \in late})'
    BY <2>4 DEF Unknown
  <2>6. ASSUME NEW p \in late', made'[p.id].auth # NoAuth
        PROVE  /\ auth[made'[p.id].auth] # NoAuth
               /\ auth[made'[p.id].auth].target = made'[p.id].at
               /\ version = made'[p.id].at => p.vat = review.vat
    <3>1. CASE p \in late
      BY <1>0, <2>1, <2>6, <3>1 DEF Awaited
    <3>2. CASE p = p0
      BY <1>1, <1>3, <2>6, <3>2
    <3> QED BY <1>1, <3>1, <3>2
  <2> QED BY <1>5, <2>2, <2>3, <2>5, <2>6 DEF Awaited
<1> QED
  BY <1>5, <1>8, <1>9, <1>10, <1>11, <1>12, <1>13, <1>14, <1>16, <1>17 DEF SupplierInv, SupplierShared

LEMMA CreateKeeps ==
    ASSUME SupplierInv, NEW s \in Sessions, Create(s)
    PROVE  SupplierInv'
<1>0. req \in [Sessions -> SupplierRequests \union {NoReq}] /\ version \in Nat
  BY DEF SupplierInv, SupplierShared, SupplierTypes, Versions
<1> PICK q : q = req[s]
  OBVIOUS
<1>1. q.pc = "create" /\ req[s] # NoReq
  BY DEF Create, NoReq
<1>2. q \in SupplierRequests /\ RequestFacts(s, q)
  BY <1>0, <1>1 DEF SupplierInv
<1>3. /\ intents[q.at] = Intent(q) /\ q.mode \in PartnerCreatingModes /\ HoldsClaim(s, q)
      /\ q.at \in Versions /\ q.vat \in VatNumbers /\ q.auth \in Auths \union {NoAuth}
  BY <1>1, <1>2 DEF RequestFacts, KnowsIntent, SupplierRequests
<1> PICK id : id = FreshId
  OBVIOUS
<1>4. id \in PartnerIds /\ made[id] = None
  BY FreshIsFree DEF Create
<1> PICK m : m = MadeFor(q, FALSE)
  OBVIOUS
<1>5. m \in Makers /\ m.mode = q.mode /\ m.at = q.at /\ m.auth = q.auth /\ m.late = FALSE
  BY <1>3 DEF Makers, MadeFor
<1> PICK r : r = WithPartner(q, "recheck", id, "created")
  OBVIOUS
<1>6. /\ r \in SupplierRequests /\ r.pc = "recheck" /\ r.partner = id /\ r.write = "created"
      /\ r.mode = q.mode /\ r.chosen = q.chosen /\ r.at = q.at /\ r.auth = q.auth
      /\ r.vat = q.vat
  <2>1. q \in SupplierRequests /\ id \in PartnerIds /\ "recheck" \in RequestPcs
        /\ "created" \in {"created", "already_exists"}
    BY <1>2, <1>4 DEF RequestPcs
  <2> QED BY <2>1, PartnerMoves
<1>7. /\ odoo' = odoo \union {Partner(id, q.vat)} /\ made' = [made EXCEPT ![id] = m]
      /\ req' = [req EXCEPT ![s] = r]
      /\ UNCHANGED <<authvars, late, review, intents, effects, events, hubOwned, corrector,
                     answered>>
  BY <1>0 DEF Create, WithPartner
<1>8. /\ req' \in [Sessions -> SupplierRequests \union {NoReq}] /\ req'[s] = r
      /\ \A t \in Sessions \ {s} : req'[t] = req[t]
  BY <1>0, <1>6, <1>7
<1>9. q.at # 0 /\ intents[m.at] # None /\ intents[m.at].mode = m.mode
  <2>1. Intent(q) # None /\ Intent(q).mode = q.mode /\ q.at # 0
    BY <1>2, <1>3, SupplierConstants DEF Versions, Intent, Intents, SupplierRequests
  <2> QED BY <1>3, <1>5, <2>1
<1>10. m.auth # NoAuth =>
          /\ auth[m.auth] # NoAuth /\ auth[m.auth].target = m.at
          /\ version = m.at => q.vat = review.vat
          /\ \A p \in odoo : made[p.id].auth = m.auth => made[p.id].late
  BY <1>1, <1>2, <1>3, <1>5, CurrentVat DEF HoldsClaim
<1>11. \A t \in Sessions \ {s} :
          req[t] # NoReq /\ req[t].pc = "create" /\ req[t].auth # NoAuth => m.auth # req[t].auth
  <2> SUFFICES ASSUME NEW t \in Sessions \ {s}, req[t] # NoReq, req[t].pc = "create",
                      req[t].auth # NoAuth, m.auth = req[t].auth
               PROVE  FALSE
    OBVIOUS
  <2>1. claim[t] # NoAuth /\ claim[t].auth = req[t].auth
    BY DEF SupplierInv, RequestFacts, HoldsClaim
  <2>2. claim[s] # NoAuth /\ claim[s].auth = q.auth
    BY <1>1, <1>3, <1>5 DEF HoldsClaim
  <2> QED BY <1>5, <2>1, <2>2 DEF SupplierInv, AuthInv, ClaimIsExclusive
<1>12. RequestFacts(s, r)'
  <2>1. UNCHANGED <<version, review, intents, effects, events>> /\ made'[id] = m
    BY <1>4, <1>7 DEF authvars, SupplierInv, SupplierShared, SupplierTypes
  <2>2. KnowsReview(r)' /\ KnowsIntent(r)' /\ HoldsClaim(s, r)'
    BY <1>1, <1>2, <1>3, <1>6, <2>1
       DEF RequestFacts, KnowsReview, KnowsIntent, HoldsClaim, Intent, Blocked
  <2>3. /\ \A p \in odoo' : p.id = id => p.vat = q.vat
        /\ \A p \in late' : p.id # id
    <3>1. (\A p \in odoo : made[p.id] # None) /\ \A p \in late : made[p.id] # None
      BY DEF SupplierInv, SupplierShared, Registered, Awaited
    <3> QED BY <1>4, <1>7, <3>1 DEF Partner
  <2>4. id # None /\ m # None
    BY <1>4, <1>5, SupplierConstants
  <2>5. KnowsPartner(r)'
    BY <1>5, <1>6, <2>1, <2>3, <2>4 DEF KnowsPartner
  <2> QED BY <2>2, <2>5 DEF RequestFacts
<1>13. req'[s] # NoReq => RequestFacts(s, req[s])'
  BY <1>8, <1>12, FactsOf
<1> PICK vat : vat = q.vat
  OBVIOUS
<1>14. PartnerAddition(id, vat, m, {s})
  <2>1. /\ vat \in VatNumbers /\ odoo' = odoo \union {Partner(id, vat)} /\ late' = late
        /\ hubOwned' = hubOwned
        /\ version = m.at /\ m.auth # NoAuth => vat = review.vat
        /\ AuthInv' /\ UNCHANGED <<version, auth, claim>>
    BY <1>3, <1>7, <1>10, AuthNextInv DEF SupplierInv, authvars
  <2> QED BY <1>4, <1>5, <1>7, <1>8, <1>9, <1>10, <1>11, <2>1 DEF PartnerAddition
<1> QED BY <1>13, <1>14, PartnerAdded

\* The caller gives up, Odoo will get to its create.
LEMMA TimeOutKeeps ==
    ASSUME SupplierInv, NEW s \in Sessions, TimeOut(s)
    PROVE  SupplierInv'
<1>0. req \in [Sessions -> SupplierRequests \union {NoReq}] /\ version \in Nat
  BY DEF SupplierInv, SupplierShared, SupplierTypes, Versions
<1> PICK q : q = req[s]
  OBVIOUS
<1>1. q.pc = "create" /\ req[s] # NoReq
  BY DEF TimeOut, NoReq
<1>2. q \in SupplierRequests /\ RequestFacts(s, q)
  BY <1>0, <1>1 DEF SupplierInv
<1>3. /\ intents[q.at] = Intent(q) /\ q.mode \in PartnerCreatingModes /\ HoldsClaim(s, q)
      /\ q.at \in Versions /\ q.vat \in VatNumbers /\ q.auth \in Auths \union {NoAuth}
  BY <1>1, <1>2 DEF RequestFacts, KnowsIntent, SupplierRequests
<1> PICK id : id = FreshId
  OBVIOUS
<1>4. id \in PartnerIds /\ made[id] = None
  BY FreshIsFree DEF TimeOut
<1> PICK m : m = MadeFor(q, TRUE)
  OBVIOUS
<1>5. m \in Makers /\ m.mode = q.mode /\ m.at = q.at /\ m.auth = q.auth /\ m.late = TRUE
  BY <1>3 DEF Makers, MadeFor
<1> PICK vat : vat = q.vat
  OBVIOUS
<1>6. /\ odoo' = odoo /\ late' = late \union {Partner(id, vat)}
      /\ made' = [made EXCEPT ![id] = m] /\ hubOwned' = hubOwned
      /\ UNCHANGED <<review, intents, effects, events, corrector, answered>>
  BY DEF TimeOut, Abort
<1>7. /\ req' \in [Sessions -> SupplierRequests \union {NoReq}] /\ req'[s] = NoReq
      /\ \A t \in Sessions \ {s} : req'[t] = req[t]
  BY <1>0 DEF TimeOut, Abort
<1>8. /\ AuthInv' /\ UNCHANGED <<version, auth>>
      /\ \A t \in Sessions \ {s} : claim'[t] = claim[t]
  BY AbortAuth DEF TimeOut
<1>9. intents[m.at] # None /\ intents[m.at].mode = m.mode
  <2>1. Intent(q) # None /\ Intent(q).mode = q.mode /\ q.at # 0
    BY <1>2, <1>3, SupplierConstants DEF Versions, Intent, Intents, SupplierRequests
  <2> QED BY <1>3, <1>5, <2>1
<1>10. m.auth # NoAuth =>
          /\ auth[m.auth] # NoAuth /\ auth[m.auth].target = m.at
          /\ version = m.at => vat = review.vat
  BY <1>1, <1>2, <1>3, <1>5, CurrentVat DEF HoldsClaim
<1>11. PartnerAddition(id, vat, m, {s})
  BY <1>3, <1>4, <1>5, <1>6, <1>7, <1>8, <1>9, <1>10 DEF PartnerAddition
<1> QED BY <1>7, <1>11, PartnerAdded

-----------------------------------------------------------------------------
(* What other people do to the partners.                                     *)

LEMMA OthersCreateKeeps ==
    ASSUME SupplierInv, OtherReview \/ \E vat \in {None, DocumentVat} : UserCreates(vat)
    PROVE  SupplierInv'
<1> PICK id : id = FreshId
  OBVIOUS
<1>1. id \in PartnerIds /\ made[id] = None
  BY FreshIsFree DEF OtherReview, UserCreates
<1>2. req' = req /\ req \in [Sessions -> SupplierRequests \union {NoReq}]
  BY DEF OtherReview, UserCreates, OdooEdit, SupplierInv, SupplierShared, SupplierTypes
<1>3. \A t \in Sessions \ {} :
         req[t] # NoReq /\ req[t].pc = "create" /\ req[t].auth # NoAuth => NoAuth # req[t].auth
  OBVIOUS
<1>4. \A s \in {} : req'[s] # NoReq => RequestFacts(s, req[s])'
  OBVIOUS
<1>5. CASE OtherReview
  <2> PICK m : m = MadeElsewhere("one_off_vendor")
    OBVIOUS
  <2>1. m \in Makers /\ m.at = 0 /\ m.auth = NoAuth /\ m.mode = "one_off_vendor"
        /\ m.late = FALSE
    BY DEF Makers, PartnerCreatingModes, MadeElsewhere
  <2>2. PartnerAddition(id, DocumentVat, m, {})
    <3>1. /\ odoo' = odoo \union {Partner(id, DocumentVat)} /\ made' = [made EXCEPT ![id] = m]
          /\ hubOwned' = hubOwned \union {id} /\ DocumentVat \in VatNumbers
          /\ UNCHANGED <<authvars, late, review, intents, effects, events, corrector, answered>>
          /\ AuthInv'
      BY <1>5, AuthNextInv DEF OtherReview, OdooEdit, VatNumbers, SupplierInv
    <3> QED BY <1>1, <1>2, <1>3, <2>1, <3>1 DEF PartnerAddition, authvars
  <2> QED BY <1>4, <2>2, PartnerAdded
<1>6. ASSUME NEW vat \in {None, DocumentVat}, UserCreates(vat) PROVE SupplierInv'
  <2> PICK m : m = MadeElsewhere("user")
    OBVIOUS
  <2>1. m \in Makers /\ m.at = 0 /\ m.auth = NoAuth /\ m.mode = "user"
        /\ m.late = FALSE
    BY DEF Makers, MadeElsewhere
  <2>2. PartnerAddition(id, vat, m, {})
    <3>1. /\ odoo' = odoo \union {Partner(id, vat)} /\ made' = [made EXCEPT ![id] = m]
          /\ hubOwned' = hubOwned /\ vat \in VatNumbers
          /\ UNCHANGED <<authvars, late, review, intents, effects, events, corrector, answered>>
          /\ AuthInv'
      BY <1>6, AuthNextInv DEF UserCreates, OdooEdit, VatNumbers, SupplierInv
    <3> QED BY <1>1, <1>2, <1>3, <2>1, <3>1 DEF PartnerAddition, authvars
  <2> QED BY <1>4, <2>2, PartnerAdded
<1> QED BY <1>5, <1>6

\* Partners that stay keep their ids and tax numbers.
LEMMA PartnersEdited ==
    ASSUME SupplierInv, odoo' \subseteq Partners,
           \A p \in odoo' : \E q \in odoo : q.id = p.id /\ q.vat = p.vat,
           \A p, q \in odoo' : p.id = q.id => p = q,
           UNCHANGED <<authvars, late, made, review, intents, effects, events, hubOwned, req,
                       corrector, answered>>
    PROVE  SupplierInv'
<1>0. /\ SupplierTypes /\ Registered /\ Left /\ SameSupplier /\ Awaited /\ Correctable
      /\ version \in Nat
  BY DEF SupplierInv, SupplierShared, SupplierTypes, Versions
<1>1. AuthInv' /\ TargetsStay /\ version' = version /\ claim' = claim /\ auth' = auth
  BY AuthNextInv DEF SupplierInv, authvars, TargetsStay
<1>2. SupplierTypes'
  BY <1>0, <1>1 DEF SupplierTypes
<1>3. Registered' /\ Left'
  BY <1>0, <1>1 DEF Registered, Left
<1>4. Correctable'
  BY <1>0, <1>1 DEF Correctable
<1>5. SameSupplier'
  <2>1. \A v \in Versions : Blocked(v)' <=> Blocked(v)
    BY DEF Blocked
  <2> QED BY <1>0, <1>1, <2>1 DEF SameSupplier
<1>6. EveryWriteHasItsIntent' /\ AnswersStand' /\ \A v \in Versions : effects'[v] # None =>
                (effects'[v].write = "selected" <=> effects'[v].mode = "match_existing")
  BY DEF SupplierInv, EveryWriteHasItsIntent, AnswersStand, AnsweredIsRecorded
<1>7. OnePartnerPerAuthorization'
  BY DEF SupplierInv, OnePartnerPerAuthorization
<1>8. SupplierAdvance
  <2>1. version' >= version
    BY <1>0, <1>1
  <2> QED BY <1>1, <2>1 DEF SupplierAdvance, RowsStay, PartnersStay, ReviewAdvances
<1>9. \A t \in Sessions : req'[t] # NoReq => RequestFacts(t, req[t])'
  <2>1. (\A p \in odoo' : made[p.id] # None) /\ late' \subseteq Partners
    BY <1>0 DEF Registered, SupplierTypes
  <2> QED BY <1>0, <1>1, <1>8, <2>1, SessionsKnow, {} \in SUBSET Sessions
<1>10. Awaited'
  <2>1. \A p \in late : \A q \in odoo' : q.id # p.id
    <3>1. \A p \in late, q \in odoo : q.id # p.id
      BY <1>0 DEF Awaited, Unknown
    <3> SUFFICES ASSUME NEW p \in late, NEW x \in odoo', x.id = p.id PROVE FALSE
      OBVIOUS
    <3>2. PICK q \in odoo : q.id = x.id /\ q.vat = x.vat
      OBVIOUS
    <3> QED BY <3>1, <3>2
  <2>2. Unknown({p.id : p \in late})'
    <3>1. \A p \in odoo' : p.id \notin {x.id : x \in late}
      BY <2>1, Zenon
    <3>2. \A v \in Versions :
             /\ intents[v] # None => intents[v].chosen \notin {x.id : x \in late}
             /\ effects[v] # None => effects[v].partner \notin {x.id : x \in late}
      BY <1>0 DEF Awaited, Unknown
    <3> QED BY <3>1, <3>2, Zenon DEF Unknown
  <2>3. /\ \A p \in late' : made'[p.id] # None /\ made'[p.id].late
        /\ \A p, q \in late' : p.id = q.id => p = q
        /\ \A p \in late' : made'[p.id].auth # NoAuth =>
             /\ auth'[made'[p.id].auth] # NoAuth
             /\ auth'[made'[p.id].auth].target = made'[p.id].at
             /\ version' = made'[p.id].at => p.vat = review'.vat
    BY <1>0, <1>1 DEF Awaited
  <2> QED BY <2>2, <2>3 DEF Awaited
<1> QED BY <1>1, <1>2, <1>3, <1>4, <1>5, <1>6, <1>7, <1>9, <1>10 DEF SupplierInv, SupplierShared

\* Odoo gets to a create nobody waits for.
LEMMA ArrivesKeeps ==
    ASSUME SupplierInv, NEW p \in late, Arrives(p)
    PROVE  SupplierInv'
<1>0. /\ SupplierTypes /\ Registered /\ Left /\ SameSupplier /\ Awaited /\ Correctable
      /\ version \in Nat /\ p \in Partners /\ made[p.id] # None /\ made[p.id].late
  BY DEF SupplierInv, SupplierShared, SupplierTypes, Versions, Awaited
<1>1. /\ odoo' = odoo \union {p} /\ late' = late \ {p}
      /\ UNCHANGED <<authvars, made, review, intents, effects, events, hubOwned, req, corrector,
                     answered>>
  BY DEF Arrives
<1>2. AuthInv' /\ TargetsStay /\ version' = version /\ claim' = claim /\ auth' = auth
  BY <1>1, AuthNextInv DEF SupplierInv, authvars, TargetsStay
<1>3. /\ \A q \in odoo : q.id # p.id
      /\ \A v \in Versions : /\ intents[v] # None => intents[v].chosen # p.id
                             /\ effects[v] # None => effects[v].partner # p.id
  BY <1>0 DEF Awaited, Unknown
<1>4. SupplierTypes' /\ Left'
  BY <1>0, <1>1, <1>2 DEF SupplierTypes, Left
<1>5. Registered'
  BY <1>0, <1>1, <1>3 DEF Registered
<1>6. Correctable'
  BY <1>0, <1>1, <1>2, <1>3 DEF Correctable
<1>7. SameSupplier'
  <2>1. \A v \in Versions : Blocked(v)' <=> Blocked(v)
    BY <1>1 DEF Blocked
  <2> QED BY <1>0, <1>1, <1>2, <1>3, <2>1 DEF SameSupplier, Awaited
<1>8. Awaited'
  <2>1. \A q \in late' : q \in late /\ q.id # p.id
    BY <1>0, <1>1 DEF Awaited
  <2>2. Unknown({q.id : q \in late})'
    BY <1>0, <1>1, <2>1 DEF Awaited, Unknown
  <2> QED BY <1>0, <1>1, <1>2, <2>1, <2>2 DEF Awaited
<1>9. EveryWriteHasItsIntent' /\ AnswersStand' /\ \A v \in Versions : effects'[v] # None =>
                (effects'[v].write = "selected" <=> effects'[v].mode = "match_existing")
  BY <1>1 DEF SupplierInv, EveryWriteHasItsIntent, AnswersStand, AnsweredIsRecorded
<1>10. OnePartnerPerAuthorization'
  BY <1>0, <1>1 DEF SupplierInv, OnePartnerPerAuthorization
<1>11. SupplierAdvance
  <2>1. version' >= version
    BY <1>0, <1>2
  <2> QED BY <1>1, <1>2, <2>1 DEF SupplierAdvance, RowsStay, PartnersStay, ReviewAdvances
<1>12. \A t \in Sessions : req'[t] # NoReq => RequestFacts(t, req[t])'
  <2>1. (\A q \in odoo' : made[q.id] # None) /\ odoo' \subseteq Partners /\ late' \subseteq Partners
    BY <1>0, <1>1 DEF Registered, SupplierTypes
  <2> QED BY <1>0, <1>1, <1>2, <1>11, <2>1, SessionsKnow, {} \in SUBSET Sessions
<1> QED BY <1>2, <1>4, <1>5, <1>6, <1>7, <1>8, <1>9, <1>10, <1>12 DEF SupplierInv, SupplierShared

LEMMA OthersEditKeeps ==
    ASSUME SupplierInv, NEW p \in odoo, UserArchives(p) \/ UserDeletes(p)
    PROVE  SupplierInv'
<1>0. odoo \subseteq Partners /\ \A x, y \in odoo : x.id = y.id => x = y
  BY DEF SupplierInv, SupplierShared, SupplierTypes, Registered
<1>1. UNCHANGED <<authvars, late, made, review, intents, effects, events, hubOwned, req, corrector,
                  answered>>
  BY DEF UserArchives, UserDeletes, OdooEdit
<1>2. CASE UserArchives(p)
  <2> PICK p0 : p0 = [p EXCEPT !.active = FALSE]
    OBVIOUS
  <2>1. p0 \in Partners /\ p0.id = p.id /\ p0.vat = p.vat
    BY <1>0 DEF Partners
  <2>2. odoo' = (odoo \ {p}) \union {p0}
    BY <1>2 DEF UserArchives
  <2>3. /\ odoo' \subseteq Partners
        /\ \A x \in odoo' : \E y \in odoo : y.id = x.id /\ y.vat = x.vat
        /\ \A x, y \in odoo' : x.id = y.id => x = y
    <3>1. \A x \in odoo' : x = p0 \/ (x \in odoo /\ x # p)
      BY <2>2
    <3>2. \A x \in odoo' : \E y \in odoo : y.id = x.id /\ y.vat = x.vat
      BY <2>1, <3>1, Zenon
    <3>3. odoo' \subseteq Partners
      BY <1>0, <2>1, <3>1
    <3>4. \A x \in odoo : x # p => x.id # p.id
      BY <1>0
    <3>5. \A x, y \in odoo' : x.id = y.id => x = y
      BY <1>0, <2>1, <3>1, <3>4
    <3> QED BY <3>2, <3>3, <3>5
  <2> QED BY <1>1, <2>3, PartnersEdited
<1>3. CASE UserDeletes(p)
  <2>1. odoo' = odoo \ {p}
    BY <1>3 DEF UserDeletes
  <2>2. \A x \in odoo' : x \in odoo
    BY <2>1
  <2>3. \A x \in odoo' : \E y \in odoo : y.id = x.id /\ y.vat = x.vat
    BY <2>2, Zenon
  <2>4. odoo' \subseteq Partners /\ \A x, y \in odoo' : x.id = y.id => x = y
    BY <1>0, <2>2
  <2> QED BY <1>1, <2>3, <2>4, PartnersEdited
<1> QED BY <1>2, <1>3

-----------------------------------------------------------------------------
(* What else happens to the review.                                          *)

\* The counts of matching partners, and with them a classification, are match states.
LEMMA CountStatus ==
    ASSUME NEW ids
    PROVE  Matching!ByCount(ids).status \in Matching!MatchStatus
BY DEF Matching!ByCount, Matching!Matched, Matching!Unmatched, Matching!MatchStatus

LEMMA MatchStatusOf ==
    ASSUME NEW inv, NEW w
    PROVE  Matching!PartnerMatch(inv, w).status \in Matching!MatchStatus
<1> PICK found : found = Matching!ByCount(Matching!GroupByCommercialPartner(
                                            Matching!FindByTaxNumber(w, inv.vat)))
  OBVIOUS
<1>1. found.status \in Matching!MatchStatus
  BY CountStatus
<1>2. Matching!PartnerMatch(inv, w) \in
        {Matching!Unmatched("INVALID_INPUT"), Matching!Unmatched("MULTIPLE_MATCHES"), found}
  BY DEF Matching!PartnerMatch
<1> QED BY <1>1, <1>2 DEF Matching!Unmatched, Matching!MatchStatus

LEMMA ClassifiedStatus ==
    ASSUME NEW vat, NEW e
    PROVE  Classified(vat, e) \in Matching!MatchStatus
<1> PICK raw : raw = Matching!PartnerMatch([vat |-> vat], [partners |-> odoo])
  OBVIOUS
<1> PICK acc : acc = Matching!AcceptedSupplier(LatestEffect(e), [partners |-> odoo])
  OBVIOUS
<1>1. raw.status \in Matching!MatchStatus
  BY MatchStatusOf
<1>2. Classified(vat, e) = Matching!EffectivePartnerMatch(raw, acc).status
  BY DEF Classified
<1> QED BY <1>1, <1>2 DEF Matching!EffectivePartnerMatch, Matching!Matched, Matching!MatchStatus

\* Every authorization is for a version the review has reached.
LEMMA TargetsReached ==
    ASSUME SupplierInv, NEW p \in odoo, made[p.id].auth # NoAuth
    PROVE  made[p.id].at \in Nat /\ made[p.id].at <= version
<1>1. made[p.id] \in Makers /\ made[p.id].auth \in Auths
  BY PartnersAreVisible DEF Makers
<1>2. auth[made[p.id].auth] # NoAuth /\ auth[made[p.id].auth].target = made[p.id].at
  BY DEF SupplierInv, SupplierShared, SameSupplier
<1>3. auth[made[p.id].auth] \in AuthRows
  BY <1>1, <1>2 DEF SupplierInv, AuthInv, AuthTypeOK
<1> QED BY <1>1, <1>2, <1>3 DEF SupplierInv, AuthInv, AuditConsistent, AuthRows

\* The review leaves its version for review R, by something else than a remediation.
VersionLeft(R) ==
    /\ UNCHANGED <<auth, expired, authLock, claim, odoo, late, made, intents, effects, hubOwned,
                   req, answered>>
    /\ version < MaxVersion /\ version' = version + 1
    /\ R \in Reviews /\ review' = R /\ review.status = "pending"
    /\ corrector' \in {0, corrector}
    /\ events' \in [Versions -> EventRows \union {None}]
    /\ \A v \in Versions \ {version} : events'[v] = events[v]
    /\ events'[version] # None => events'[version].trigger # "supplier_resolution"
    /\ R.status = "pending" => events'[version] # None
    /\ R.vat # review.vat =>
         /\ \A v \in Versions : v <= version => Blocked(v)'
         /\ \A v \in Versions, p \in odoo : effects[v] # None => p.id # effects[v].partner

LEMMA VersionLeftKeeps ==
    ASSUME SupplierInv, NEW R, VersionLeft(R)
    PROVE  SupplierInv'
<1> USE DEF VersionLeft
<1>0. /\ SupplierTypes /\ Registered /\ Left /\ SameSupplier /\ Awaited /\ Correctable
      /\ version \in Nat /\ version \in Versions /\ corrector \in Nat
      /\ MaxVersion \in Nat
  BY AuthConstants DEF SupplierInv, SupplierShared, SupplierTypes, Versions
<1>1. version' \in Versions /\ version' \in Nat /\ version' >= version /\ version' # version
  BY <1>0 DEF Versions
<1>2. AuthInv' /\ TargetsStay
  BY <1>1, AuthStays DEF SupplierInv, TargetsStay
<1>3. events[version] = None
  <2>1. version >= version
    BY <1>0
  <2> QED BY <1>0, <2>1 DEF Left
<1>4. SupplierTypes'
  BY <1>0, <1>1 DEF SupplierTypes
<1>5. Registered'
  BY <1>0 DEF Registered
<1>6. Left'
  <2>1. \A v \in Versions : v >= version' => v # version /\ v >= version
    BY <1>0 DEF Versions
  <2>2. \A v \in Versions : v < version' => v = version \/ v < version
    BY <1>0 DEF Versions
  <2>3. \A v \in Versions : v <= version => v <= version'
    BY <1>0 DEF Versions
  <2>4. corrector' <= version'
    BY <1>0 DEF Left
  <2>5. \A v \in Versions : v >= version' => events'[v] = None
    BY <1>0, <2>1 DEF Left
  <2>6. R.status = "pending" => \A v \in Versions : v < version' => events'[v] # None
    BY <1>0, <2>2 DEF Left
  <2>7. \A v \in Versions :
           events'[v] # None /\ events'[v].trigger = "supplier_resolution" => effects'[v] # None
    BY <1>0 DEF Left
  <2>8. \A v \in Versions : intents'[v] # None => v <= version'
    BY <1>0, <2>3 DEF Left
  <2>9. (\E v \in Versions : effects'[v] # None) =>
           \E v \in Versions : /\ effects'[v] # None
                               /\ \A w \in Versions : w > v => effects'[w] = None
    BY <1>0 DEF Left
  <2> QED BY <2>4, <2>5, <2>6, <2>7, <2>8, <2>9 DEF Left
<1>7. Correctable'
  <2>1. corrector' # 0 => version' # corrector'
    BY <1>0 DEF Left
  <2> QED BY <2>1 DEF Correctable
<1>8. RowsStay
  BY <1>3 DEF RowsStay
<1>9. SameSupplier'
  <2>1. \A v \in Versions : Blocked(v) => Blocked(v)'
    BY <1>3 DEF Blocked
  <2>2. \A v \in Versions, p \in odoo' :
           effects'[v] # None /\ p.id = effects'[v].partner => p.vat = review'.vat
    BY <1>0 DEF SameSupplier
  <2>3. \A v \in Versions, p \in odoo' :
           intents'[v] # None /\ intents'[v].chosen = p.id => p.vat = review'.vat \/ Blocked(v)'
    <3>1. \A v \in Versions : intents[v] # None => v <= version
      BY <1>0 DEF Left
    <3> QED BY <1>0, <2>1, <3>1 DEF SameSupplier
  <2>4. \A p \in odoo' : made'[p.id].auth # NoAuth =>
           /\ auth'[made'[p.id].auth] # NoAuth
           /\ auth'[made'[p.id].auth].target = made'[p.id].at
           /\ version' # made'[p.id].at
    <3>1. \A p \in odoo : made[p.id].auth # NoAuth => version + 1 # made[p.id].at
      BY <1>0, TargetsReached
    <3> QED BY <1>0, <3>1 DEF SameSupplier
  <2> QED BY <2>2, <2>3, <2>4 DEF SameSupplier
<1>10. EveryWriteHasItsIntent' /\ AnswersStand' /\ OnePartnerPerAuthorization'
       /\ \A v \in Versions : effects'[v] # None =>
                (effects'[v].write = "selected" <=> effects'[v].mode = "match_existing")
  BY DEF SupplierInv, EveryWriteHasItsIntent, AnswersStand, AnsweredIsRecorded, OnePartnerPerAuthorization
<1>11. SupplierAdvance
  BY <1>1, <1>2, <1>8 DEF SupplierAdvance, PartnersStay, ReviewAdvances
<1>12. \A t \in Sessions : req'[t] # NoReq => RequestFacts(t, req[t])'
  <2>1. /\ \A p \in odoo' : made[p.id] # None
        /\ odoo' \subseteq Partners /\ late' \subseteq Partners
    BY <1>0 DEF Registered, SupplierTypes
  <2> QED BY <1>1, <1>11, <2>1, SessionsKnow, {} \in SUBSET Sessions
<1>13. Awaited'
  BY <1>0, <1>1, <1>2, AwaitedStays DEF Awaited, Unknown
<1> QED BY <1>2, <1>4, <1>5, <1>6, <1>7, <1>9, <1>10, <1>12, <1>13 DEF SupplierInv, SupplierShared

LEMMA CorrectorKeeps ==
    ASSUME SupplierInv, Verify \/ CorrectionRefused
    PROVE  SupplierInv'
<1>0. /\ SupplierTypes /\ Registered /\ Left /\ SameSupplier /\ Awaited /\ Correctable
      /\ version \in Nat /\ version \in Versions
  BY DEF SupplierInv, SupplierShared, SupplierTypes, Versions
<1>1. UNCHANGED <<authvars, odoo, late, made, review, intents, effects, events, hubOwned, req,
                  answered>>
  BY DEF Verify, CorrectionRefused
<1>2. AuthInv' /\ TargetsStay /\ version' = version /\ claim' = claim /\ auth' = auth
  BY <1>1, AuthNextInv DEF SupplierInv, authvars, TargetsStay
<1>3. corrector' \in 0 .. MaxVersion /\ corrector' <= version
  BY <1>0, AuthConstants DEF Verify, CorrectionRefused, Versions
<1>4. SupplierTypes' /\ Registered'
  BY <1>0, <1>1, <1>2, <1>3 DEF SupplierTypes, Registered
<1>5. Left'
  BY <1>0, <1>1, <1>2, <1>3 DEF Left
<1>6. SameSupplier'
  <2>1. \A v \in Versions : Blocked(v)' <=> Blocked(v)
    BY <1>1 DEF Blocked
  <2> QED BY <1>0, <1>1, <1>2, <2>1 DEF SameSupplier
<1>7. Correctable'
  <2>1. CASE Verify
    <3>1. \A v \in Versions : effects[v] = None
      BY <2>1 DEF Verify, NothingDownstream
    <3>2. \A v \in Versions : events[v] # None => events[v].trigger # "supplier_resolution"
      BY <1>0, <3>1 DEF Left
    <3> QED BY <1>1, <3>1, <3>2 DEF Correctable
  <2>2. CASE CorrectionRefused
    BY <2>2 DEF CorrectionRefused, Correctable
  <2> QED BY <2>1, <2>2
<1>8. EveryWriteHasItsIntent' /\ AnswersStand' /\ OnePartnerPerAuthorization'
      /\ \A v \in Versions : effects'[v] # None =>
                (effects'[v].write = "selected" <=> effects'[v].mode = "match_existing")
  BY <1>1 DEF SupplierInv, EveryWriteHasItsIntent, AnswersStand, AnsweredIsRecorded, OnePartnerPerAuthorization
<1>9. SupplierAdvance
  <2>1. version' >= version
    BY <1>0, <1>2
  <2> QED BY <1>1, <1>2, <2>1 DEF SupplierAdvance, RowsStay, PartnersStay, ReviewAdvances
<1>10. \A t \in Sessions : req'[t] # NoReq => RequestFacts(t, req[t])'
  <2>1. /\ \A p \in odoo' : made[p.id] # None
        /\ odoo' \subseteq Partners /\ late' \subseteq Partners
    BY <1>0, <1>1 DEF Registered, SupplierTypes
  <2> QED BY <1>0, <1>1, <1>2, <1>9, <2>1, SessionsKnow, {} \in SUBSET Sessions
<1>11. Awaited'
  <2>1. version' \in Nat /\ version' >= version
    BY <1>0, <1>2
  <2> QED BY <1>0, <1>1, <1>2, <2>1, AwaitedStays DEF Awaited, Unknown
<1> QED BY <1>2, <1>4, <1>5, <1>6, <1>7, <1>8, <1>10, <1>11 DEF SupplierInv, SupplierShared

\* The event of a version and the classification it records.
LEMMA EventTypes ==
    ASSUME NEW t \in {"supplier_resolution", "source_identity_corrected", "master_data_changed"},
           NEW new \in Matching!MatchStatus, NEW e, e = [trigger |-> t, supplier |-> new]
    PROVE  e \in EventRows /\ e # None /\ e.trigger = t /\ e.supplier = new
BY SupplierConstants DEF EventRows

LEMMA CorrectionKeeps ==
    ASSUME SupplierInv, ApplyCorrection
    PROVE  SupplierInv'
<1>0. /\ SupplierTypes /\ Left /\ Correctable /\ review \in Reviews
      /\ events \in [Versions -> EventRows \union {None}]
      /\ version \in Nat /\ version \in Versions
  BY DEF SupplierInv, SupplierShared, SupplierTypes, Versions
<1> PICK new : new = Classified(DocumentVat, effects)
  OBVIOUS
<1>1. new \in Matching!MatchStatus
  BY ClassifiedStatus
<1> PICK R1 : R1 = [review EXCEPT !.vat = DocumentVat]
  OBVIOUS
<1>2. R1 \in Reviews /\ R1.status = review.status /\ R1.vat = DocumentVat
  BY <1>0 DEF Reviews
<1> PICK R : R = [R1 EXCEPT !.supplier = new]
  OBVIOUS
<1>3. R \in Reviews /\ R.status = review.status /\ R.vat = DocumentVat /\ R.supplier = new
  BY <1>1, <1>2 DEF Reviews
<1>4. review' = R /\ review.status = "pending"
  BY DEF ApplyCorrection
<1> PICK e : e = [trigger |-> "source_identity_corrected", supplier |-> new]
  OBVIOUS
<1>5. e \in EventRows /\ e # None /\ e.trigger = "source_identity_corrected"
  BY <1>1, EventTypes
<1>6. events' = [events EXCEPT ![version] = e]
  BY <1>3, <1>4 DEF ApplyCorrection
<1>7. /\ events' \in [Versions -> EventRows \union {None}] /\ events'[version] = e
      /\ \A v \in Versions \ {version} : events'[v] = events[v]
  BY <1>0, <1>5, <1>6
<1>8. \A v \in Versions : v <= version => Blocked(v)'
  <2>1. \A v \in Versions : v <= version => v = version \/ v < version
    BY <1>0 DEF Versions
  <2>2. \A v \in Versions : events[v] # None => events[v].trigger # "supplier_resolution"
    BY <1>0 DEF Correctable, ApplyCorrection
  <2> QED BY <1>0, <1>4, <1>5, <1>7, <2>1, <2>2 DEF Left, Blocked
<1>9. \A v \in Versions, p \in odoo : effects[v] # None => p.id # effects[v].partner
  BY <1>0 DEF Correctable, ApplyCorrection
<1>10. VersionLeft(R)
  BY <1>3, <1>4, <1>5, <1>7, <1>8, <1>9 DEF VersionLeft, ApplyCorrection
<1> QED BY <1>10, VersionLeftKeeps

LEMMA MasterDataKeeps ==
    ASSUME SupplierInv, MasterDataChanged
    PROVE  SupplierInv'
<1>0. /\ review \in Reviews /\ events \in [Versions -> EventRows \union {None}]
      /\ version \in Versions
  BY DEF SupplierInv, SupplierShared, SupplierTypes, Versions
<1> PICK new : new = Classified(review.vat, effects)
  OBVIOUS
<1>1. new \in Matching!MatchStatus
  BY ClassifiedStatus
<1> PICK R : R = [review EXCEPT !.supplier = new]
  OBVIOUS
<1>2. R \in Reviews /\ R.status = review.status /\ R.vat = review.vat
  BY <1>0, <1>1 DEF Reviews
<1> PICK e : e = [trigger |-> "master_data_changed", supplier |-> new]
  OBVIOUS
<1>3. e \in EventRows /\ e # None /\ e.trigger = "master_data_changed"
  BY <1>1, EventTypes
<1>4. review' = R /\ version < MaxVersion /\ version' = version + 1 /\ review.status = "pending"
      /\ events' = [events EXCEPT ![version] = e]
  BY DEF MasterDataChanged, Reclassify
<1>5. /\ events' \in [Versions -> EventRows \union {None}] /\ events'[version] = e
      /\ \A v \in Versions \ {version} : events'[v] = events[v]
  BY <1>0, <1>3, <1>4
<1>6. VersionLeft(R)
  BY <1>2, <1>3, <1>4, <1>5 DEF VersionLeft, MasterDataChanged
<1> QED BY <1>6, VersionLeftKeeps

LEMMA DecideKeeps ==
    ASSUME SupplierInv, Decide
    PROVE  SupplierInv'
<1>0. /\ review \in Reviews /\ events \in [Versions -> EventRows \union {None}]
      /\ version \in Versions /\ version \in Nat /\ Left
  BY DEF SupplierInv, SupplierShared, SupplierTypes, Versions
<1> PICK R : R = [review EXCEPT !.status = "decided"]
  OBVIOUS
<1>2. R \in Reviews /\ R.status = "decided" /\ R.vat = review.vat
  BY <1>0 DEF Reviews
<1>3. events[version] = None
  <2>1. version >= version
    BY <1>0
  <2> QED BY <1>0, <2>1 DEF Left
<1>4. VersionLeft(R)
  BY <1>0, <1>2, <1>3 DEF VersionLeft, Decide
<1> QED BY <1>4, VersionLeftKeeps

LEMMA AuthorizationsKeep ==
    ASSUME SupplierInv, Authorizations
    PROVE  SupplierInv'
<1>0. /\ SupplierTypes /\ version \in 1 .. MaxVersion /\ version \in Nat /\ Registered
      /\ req \in [Sessions -> SupplierRequests \union {NoReq}] /\ odoo \subseteq Partners
  BY DEF SupplierInv, SupplierShared, SupplierTypes, Versions
<1>1. AuthNext /\ version' = version /\ claim' = claim
  <2>1. CASE \E a \in Auths, op \in Operations : Issue(a, op, version)
    BY <1>0, <2>1 DEF AuthNext, Issue
  <2>2. CASE \E a \in Auths : Revoke(a)
    BY <2>2 DEF AuthNext, Revoke
  <2>3. CASE \E a \in Auths : Expire(a)
    BY <2>3 DEF AuthNext, Expire
  <2> QED BY <2>1, <2>2, <2>3 DEF Authorizations
<1>2. AuthInv' /\ TargetsStay
  BY <1>1, AuthNextInv, RowsMoveOn DEF SupplierInv, TargetsStay, RowMoves
<1>3. UNCHANGED <<version, odoo, late, made, review, intents, effects, events, hubOwned, corrector,
                  req, answered>>
  BY <1>1 DEF Authorizations
<1>4. /\ SupplierShared' /\ EveryWriteHasItsIntent' /\ OnePartnerPerAuthorization'
      /\ \A v \in Versions : effects'[v] # None =>
           (effects'[v].write = "selected" <=> effects'[v].mode = "match_existing")
      /\ SupplierAdvance
  BY <1>0, <1>2, <1>3, SharedStays
<1>5. \A t \in Sessions : req'[t] # NoReq => RequestFacts(t, req[t])'
  <2>1. /\ \A p \in odoo' : made[p.id] # None
        /\ odoo' \subseteq Partners /\ late' \subseteq Partners
    BY <1>0, <1>3 DEF Registered, SupplierTypes
  <2> QED BY <1>0, <1>1, <1>3, <1>4, <2>1, SessionsKnow, {} \in SUBSET Sessions
<1>6. AnswersStand'
  BY <1>3 DEF SupplierInv, AnswersStand, AnsweredIsRecorded
<1> QED BY <1>2, <1>4, <1>5, <1>6 DEF SupplierInv

-----------------------------------------------------------------------------
(* The second transaction of a request.                                      *)

\* The latest effect is the one no version has a later one than.
LEMMA LatestIs ==
    ASSUME NEW e, NEW v \in Versions, e[v] # None, \A w \in Versions : w > v => e[w] = None
    PROVE  LatestEffect(e) = e[v]
<1> PICK recorded : recorded = {w \in Versions : e[w] # None}
  OBVIOUS
<1>1. v \in recorded /\ recorded \subseteq Versions /\ \A w \in recorded : ~(w > v)
  OBVIOUS
<1>2. Versions \subseteq Int
  BY DEF Versions
<1>3. \A w \in recorded : v >= w
  BY <1>1, <1>2
<1>4. Max(recorded) \in recorded /\ \A w \in recorded : Max(recorded) >= w
  BY <1>1, <1>3 DEF Max
<1>5. Max(recorded) = v
  <2> PICK m : m = Max(recorded)
    OBVIOUS
  <2>1. m \in Int /\ v \in Int /\ m >= v /\ v >= m
    BY <1>1, <1>2, <1>3, <1>4
  <2>2. m = v
    BY <2>1
  <2> QED BY <2>2
<1> QED BY <1>1, <1>5 DEF LatestEffect

\* A classification with a latest effect whose partner Odoo has is a match.
LEMMA AcceptedMatches ==
    ASSUME SupplierInv, NEW e \in [Versions -> EffectRows \union {None}], NEW v \in Versions,
           e[v] # None, \A w \in Versions : w > v => e[w] = None,
           NEW p \in odoo, p.id = e[v].partner, NEW vat
    PROVE  Classified(vat, e) = "MATCHED"
<1> PICK world : world = [partners |-> odoo]
  OBVIOUS
<1> PICK raw : raw = Matching!PartnerMatch([vat |-> vat], world)
  OBVIOUS
<1> PICK f : f = e[v]
  OBVIOUS
<1> PICK acc : acc = Matching!AcceptedSupplier(f, world)
  OBVIOUS
<1>1. LatestEffect(e) = f
  BY LatestIs
<1>2. f \in EffectRows /\ f # None /\ f.mode \in Matching!AcceptedOrigins /\ f.partner \in PartnerIds
  BY DEF EffectRows, SupplierResolutionMode, Matching!AcceptedOrigins
<1>3. p \in Matching!FindByIdsIncludingArchived(world, {f.partner})
  BY DEF Matching!FindByIdsIncludingArchived
<1>4. Matching!CanonicalPartnerId(p) = p.id /\ Matching!Visible(p.company)
  <2>1. p \in Partners
    BY DEF SupplierInv, SupplierShared, SupplierTypes
  <2> QED BY <2>1 DEF Partners, Matching!CanonicalPartnerId, Matching!Visible
<1>5. acc = [origin |-> f.mode, partner |-> f.partner]
  BY <1>2, <1>3, <1>4 DEF Matching!AcceptedSupplier
<1>6. acc # None
  <2>1. acc \in AcceptedSuppliers
    BY <1>2, <1>5 DEF AcceptedSuppliers
  <2> QED BY <2>1, SupplierConstants
<1>7. Classified(vat, e) = Matching!EffectivePartnerMatch(raw, acc).status
  BY <1>1 DEF Classified
<1>8. CASE raw.status = "MATCHED"
  BY <1>7, <1>8 DEF Matching!EffectivePartnerMatch, Matching!Matched
<1>9. CASE raw.status # "MATCHED"
  <2>1. Matching!EffectiveSupplier(raw, acc) = acc
    BY <1>6, <1>9 DEF Matching!EffectiveSupplier
  <2> QED BY <1>6, <1>7, <2>1 DEF Matching!EffectivePartnerMatch, Matching!Matched
<1> QED BY <1>8, <1>9

\* The effect E of version v: what the invariant asks of a recorded one.
GoodEffect(v, E) ==
    /\ E \in EffectRows /\ E # None
    /\ made[E.partner] # None
    /\ E.mode = "one_off_vendor" => made[E.partner].mode = "one_off_vendor"
    /\ \A p \in odoo : p.id = E.partner => p.vat = review.vat
    /\ \A p \in late : p.id # E.partner
    /\ intents[v] # None /\ intents[v].mode = E.mode /\ intents[v].chosen \in {None, E.partner}
    /\ E.write = "selected" <=> E.mode = "match_existing"

\* The effect of a request that may finish.
LEMMA FinishedEffect ==
    ASSUME SupplierInv, NEW s \in Sessions, NEW q \in SupplierRequests, RequestFacts(s, q),
           q.pc = "finish", ~Blocked(q.at)
    PROVE  GoodEffect(q.at, Effect(q))
<1>0. /\ Registered /\ SameSupplier /\ Awaited /\ q.at \in Versions
      /\ intents[q.at] = Intent(q) /\ Intent(q) # None /\ q.mode # "use_one_off_supplier"
      /\ (q.mode = "match_existing" <=> q.chosen # None) /\ q.vat = review.vat
      /\ q.mode \in SupplierResolutionMode
  BY SupplierConstants
     DEF SupplierInv, SupplierShared, RequestFacts, KnowsReview, KnowsIntent, SupplierRequests,
         Intent, Intents
<1> PICK E : E = Effect(q)
  OBVIOUS
<1> PICK i : i = Intent(q)
  OBVIOUS
<1>1. i.mode = q.mode /\ i.chosen = q.chosen
  BY DEF Intent
<1>2. CASE q.mode = "match_existing"
  <2>1. E.mode = "match_existing" /\ E.partner = q.chosen /\ E.write = "selected"
    BY <1>2 DEF Effect
  <2>2. q.chosen \in PartnerIds
    BY <1>0, <1>2 DEF SupplierRequests
  <2>3. E \in EffectRows /\ E # None
    BY <1>2, <2>2, SupplierConstants DEF Effect, EffectRows, SupplierResolutionMode
  <2>4. /\ made[E.partner] # None /\ \A p \in odoo : p.id = E.partner => p.vat = review.vat
        /\ \A p \in late : p.id # E.partner
    BY <1>0, <1>1, <1>2, <2>1 DEF Registered, SameSupplier, Awaited, Unknown
  <2>5. intents[q.at] # None /\ intents[q.at].mode = E.mode /\ intents[q.at].chosen = E.partner
    BY <1>0, <1>1, <1>2, <2>1
  <2>6. GoodEffect(q.at, E)
    BY <2>1, <2>3, <2>4, <2>5 DEF GoodEffect
  <2> QED BY <2>6
<1>3. CASE q.mode # "match_existing"
  <2>1. q.mode \in PartnerCreatingModes
    BY <1>0, <1>3 DEF SupplierResolutionMode, PartnerCreatingModes
  <2>2. E.mode = q.mode /\ E.partner = q.partner /\ E.write = q.write
    BY <1>3 DEF Effect
  <2>3. /\ q.partner \in PartnerIds /\ q.write \in {"created", "already_exists"}
        /\ made[q.partner] # None
        /\ q.mode = "one_off_vendor" => made[q.partner].mode = "one_off_vendor"
        /\ \A p \in odoo : p.id = q.partner => p.vat = q.vat
        /\ \A p \in late : p.id # q.partner
    BY <2>1 DEF RequestFacts, KnowsPartner, SupplierRequests
  <2>4. E \in EffectRows /\ E # None
    BY <1>0, <1>3, <2>3, SupplierConstants DEF Effect, EffectRows, SupplierResolutionMode
  <2>5. E.write = "selected" <=> E.mode = "match_existing"
    BY <1>3, <2>2, <2>3
  <2>6. intents[q.at] # None /\ intents[q.at].mode = E.mode /\ intents[q.at].chosen = None
    BY <1>0, <1>1, <1>3, <2>2
  <2>7. /\ made[E.partner] # None
        /\ E.mode = "one_off_vendor" => made[E.partner].mode = "one_off_vendor"
        /\ \A p \in odoo : p.id = E.partner => p.vat = review.vat
        /\ \A p \in late : p.id # E.partner
    BY <1>0, <2>2, <2>3
  <2>8. GoodEffect(q.at, E)
    BY <2>4, <2>5, <2>6, <2>7 DEF GoodEffect
  <2> QED BY <2>8
<1> QED BY <1>2, <1>3

\* The effect that a version has recorded.
LEMMA RecordedEffect ==
    ASSUME SupplierInv, NEW v \in Versions, effects[v] # None
    PROVE  GoodEffect(v, effects[v])
BY DEF SupplierInv, SupplierShared, SupplierTypes, Registered, SameSupplier, Awaited, Unknown,
       EveryWriteHasItsIntent, GoodEffect

\* What a finishing request does to the authorizations: its claim is committed, if it has one.
LEMMA FinishAuth ==
    ASSUME SupplierInv, NEW s \in Sessions, expired' = expired, version' \in Nat,
           version' >= version,
           IF claim[s] = NoAuth THEN UNCHANGED <<auth, authLock, claim>> ELSE Consume(s)
    PROVE  AuthInv' /\ TargetsStay /\ \A t \in Sessions \ {s} : claim'[t] = claim[t]
<1>0. AuthInv /\ auth \in [Auths -> AuthRows \union {NoAuth}]
      /\ claim \in [Sessions -> Claims \union {NoAuth}]
  BY DEF SupplierInv, AuthInv, AuthTypeOK
<1>1. CASE claim[s] = NoAuth
  BY <1>0, <1>1, AuthStays DEF TargetsStay
<1>2. CASE claim[s] # NoAuth
  <2>1. Consume(s)
    BY <1>2
  <2>2. AuthInv'
    BY <1>0, <2>1, ConsumeKeeps
  <2>3. claim[s].auth \in Auths /\ claim[s].consumer \in Consumers /\ auth[claim[s].auth] \in AuthRows
    BY <1>0, <1>2 DEF AuthInv, ClaimIsExclusive, Claims
  <2>4. auth' = [auth EXCEPT ![claim[s].auth] = ConsumedRow(auth[claim[s].auth], claim[s].consumer)]
        /\ claim' = [claim EXCEPT ![s] = NoAuth]
    BY <1>0, <2>1, <2>3 DEF Consume
  <2>5. TargetsStay
    BY <1>0, <2>3, <2>4, AuthRowTypes DEF TargetsStay
  <2> QED BY <1>0, <2>2, <2>4, <2>5
<1> QED BY <1>1, <1>2

\* Effects e instead of the recorded ones: the same, and a good one of version v if it had none.
EffectRecorded(v, e) ==
    /\ e \in [Versions -> EffectRows \union {None}]
    /\ \A w \in Versions \ {v} : e[w] = effects[w]
    /\ e[v] # None
    /\ effects[v] # None => e = effects
    /\ GoodEffect(v, e[v])

\* The rest of a finishing step, once the review's own part is known.
LEMMA FinishShared ==
    ASSUME SupplierInv, NEW s \in Sessions, NEW v \in Versions, NEW e, EffectRecorded(v, e),
           effects' = e, Left', Correctable', SameSupplier', AuthInv', TargetsStay, ReviewAdvances,
           \A t \in Sessions \ {s} : claim'[t] = claim[t],
           version' \in Versions, review' \in Reviews, events' \in [Versions -> EventRows \union {None}],
           \A w \in Versions : events[w] # None => events'[w] = events[w],
           req' = [req EXCEPT ![s] = NoReq],
           answered' = answered \union {[at |-> v, partner |-> e[v].partner]},
           UNCHANGED <<odoo, late, made, intents, hubOwned, corrector>>
    PROVE  SupplierInv'
<1> USE DEF EffectRecorded
<1>0. /\ SupplierTypes /\ Registered /\ Awaited /\ req \in [Sessions -> SupplierRequests \union {NoReq}]
  BY DEF SupplierInv, SupplierShared, SupplierTypes, Versions
<1>1. /\ req' \in [Sessions -> SupplierRequests \union {NoReq}] /\ req'[s] = NoReq
      /\ \A t \in Sessions \ {s} : req'[t] = req[t]
  BY <1>0
<1>2. SupplierTypes'
  BY <1>0, <1>1 DEF SupplierTypes
<1>3. Registered'
  BY <1>0 DEF Registered, GoodEffect
<1>4. EveryWriteHasItsIntent' /\ OnePartnerPerAuthorization'
      /\ \A w \in Versions : effects'[w] # None =>
           (effects'[w].write = "selected" <=> effects'[w].mode = "match_existing")
  BY DEF SupplierInv, EveryWriteHasItsIntent, OnePartnerPerAuthorization, GoodEffect
<1>5. AnswersStand'
  <2> SUFFICES ASSUME NEW x \in answered'
               PROVE  e[x.at] # None /\ e[x.at].partner = x.partner /\ x.at \in Versions
    BY DEF AnswersStand, AnsweredIsRecorded
  <2>1. CASE x \in answered
    <3>1. effects[x.at] # None /\ effects[x.at].partner = x.partner /\ x.at \in Versions
      BY <2>1 DEF SupplierInv, AnswersStand, AnsweredIsRecorded
    <3> QED BY <3>1
  <2>2. CASE x = [at |-> v, partner |-> e[v].partner]
    BY <2>2
  <2> QED BY <2>1, <2>2
<1>6. SupplierAdvance
  <2>1. RowsStay
    BY DEF RowsStay
  <2>2. PartnersStay
    BY DEF PartnersStay
  <2> QED BY <2>1, <2>2 DEF SupplierAdvance
<1>7. \A t \in Sessions : req'[t] # NoReq => RequestFacts(t, req[t])'
  <2>1. /\ \A p \in odoo' : made[p.id] # None
        /\ odoo' \subseteq Partners /\ late' \subseteq Partners /\ version' \in Nat
    BY <1>0 DEF Registered, SupplierTypes, Versions
  <2> QED BY <1>1, <1>6, <2>1, SessionsKnow, {s} \in SUBSET Sessions
<1>8. Awaited'
  <2>1. \A p \in late : /\ \A q \in odoo' : q.id # p.id
                       /\ \A w \in Versions :
                            /\ intents'[w] # None => intents'[w].chosen # p.id
                            /\ effects'[w] # None => effects'[w].partner # p.id
    BY <1>0 DEF Awaited, Unknown, GoodEffect
  <2>2. version' \in Nat /\ version' >= version /\ (version' = version => review'.vat = review.vat)
    BY DEF ReviewAdvances, Versions
  <2> QED BY <2>1, <2>2, AwaitedStays
<1> QED BY <1>2, <1>3, <1>4, <1>5, <1>7, <1>8 DEF SupplierInv, SupplierShared

LEMMA FinishKeeps ==
    ASSUME SupplierInv, NEW s \in Sessions, Finish(s)
    PROVE  SupplierInv'
<1>0. /\ SupplierTypes /\ Registered /\ Left /\ SameSupplier /\ Awaited /\ Correctable
      /\ req \in [Sessions -> SupplierRequests \union {NoReq}] /\ review \in Reviews
      /\ effects \in [Versions -> EffectRows \union {None}]
      /\ events \in [Versions -> EventRows \union {None}]
      /\ version \in Nat /\ version \in Versions /\ corrector \in Nat /\ MaxVersion \in Nat
  BY AuthConstants DEF SupplierInv, SupplierShared, SupplierTypes, Versions
<1> PICK q : q = req[s]
  OBVIOUS
<1>1. q.pc \in {"finish", "reclassify"} /\ req[s] # NoReq
  BY DEF Finish, NoReq
<1>2. q \in SupplierRequests /\ RequestFacts(s, q)
  BY <1>0, <1>1 DEF SupplierInv
<1> PICK v : v = q.at
  OBVIOUS
<1> PICK e : e = IF q.pc = "finish" THEN [effects EXCEPT ![v] = Effect(q)] ELSE effects
  OBVIOUS
<1> PICK new : new = Classified(review.vat, e)
  OBVIOUS
<1>3. /\ q.pc = "finish" => effects[v] \in {None, Effect(q)}
      /\ Reclassifiable(v, new)
      /\ effects' = e
      /\ IF events[v] # None THEN UNCHANGED <<review, version, events>>
                             ELSE Reclassify("supplier_resolution", new)
      /\ IF claim[s] = NoAuth THEN UNCHANGED <<auth, authLock, claim>> ELSE Consume(s)
      /\ answered' = answered \union {[at |-> v, partner |-> e[v].partner]}
      /\ req' = [req EXCEPT ![s] = NoReq]
      /\ UNCHANGED <<expired, odoo, late, made, intents, hubOwned, corrector>>
  BY DEF Finish, Answer, EffectAccepted
<1>4. /\ v \in Versions /\ v \in Nat /\ v <= version
      /\ version = v => review.supplier \in {"NOT_FOUND", "MULTIPLE_MATCHES"}
      /\ q.pc = "reclassify" => effects[v] # None
  BY <1>1, <1>2 DEF RequestFacts, KnowsReview, KnowsIntent, SupplierRequests, Versions
<1>5. ~Blocked(v)
  BY <1>3 DEF Reclassifiable, Blocked
<1>6. events[v] # None => effects[v] # None
  BY <1>0, <1>4, <1>5 DEF Left, Blocked
<1>7. events[v] = None => version = v /\ review.status = "pending"
  BY <1>3 DEF Reclassifiable
<1>8. EffectRecorded(v, e)
  <2>1. CASE effects[v] # None
    <3>1. e = effects
      BY <1>0, <1>3, <1>4, <2>1
    <3> QED BY <1>0, <1>4, <2>1, <3>1, RecordedEffect DEF EffectRecorded
  <2>2. CASE effects[v] = None
    <3>1. q.pc = "finish" /\ e = [effects EXCEPT ![v] = Effect(q)]
      BY <1>1, <1>4, <2>2
    <3>2. GoodEffect(v, Effect(q))
      BY <1>2, <1>5, <3>1, FinishedEffect
    <3>3. e[v] = Effect(q) /\ e \in [Versions -> EffectRows \union {None}] /\ e[v] # None
      BY <1>0, <1>4, <3>1, <3>2 DEF GoodEffect
    <3>4. \A w \in Versions \ {v} : e[w] = effects[w]
      BY <1>0, <3>1
    <3>5. GoodEffect(v, e[v])
      BY <3>2, <3>3
    <3> QED BY <2>2, <3>3, <3>4, <3>5 DEF EffectRecorded
  <2> QED BY <2>1, <2>2
<1>9. effects[v] = None => version = v /\ \A w \in Versions : w > v => e[w] = None
  <2> SUFFICES ASSUME effects[v] = None, NEW w \in Versions, w > v PROVE version = v /\ e[w] = None
    BY <1>6, <1>7
  <2>1. version = v
    BY <1>6, <1>7
  <2>2. ~(w <= version) /\ w # v
    BY <1>0, <1>4, <2>1 DEF Versions
  <2>3. intents[w] = None
    BY <1>0, <2>2 DEF Left
  <2>4. effects[w] = None
    BY <2>3 DEF SupplierInv, EveryWriteHasItsIntent
  <2> QED BY <1>8, <2>1, <2>2, <2>4 DEF EffectRecorded
<1>10. (\E w \in Versions : effects'[w] # None) =>
          \E w \in Versions : /\ effects'[w] # None
                              /\ \A x \in Versions : x > w => effects'[x] = None
  <2>1. CASE effects[v] # None
    <3>1. effects' = effects
      BY <1>3, <1>8, <2>1 DEF EffectRecorded
    <3> QED BY <1>0, <3>1 DEF Left
  <2>2. CASE effects[v] = None
    BY <1>3, <1>4, <1>8, <1>9, <2>2 DEF EffectRecorded
  <2> QED BY <2>1, <2>2
<1>11. \A w \in Versions, p \in odoo :
          effects'[w] # None /\ p.id = effects'[w].partner => p.vat = review.vat
  BY <1>0, <1>3, <1>8 DEF EffectRecorded, GoodEffect, SameSupplier
<1>12. \A w \in Versions : effects[w] # None => effects'[w] # None
  BY <1>3, <1>8 DEF EffectRecorded
<1>13. CASE UNCHANGED <<review, version, events>> /\ (events[v] = None => new = review.supplier)
  <2>1. version' \in Nat /\ version' >= version
    BY <1>0, <1>13
  <2>2. AuthInv' /\ TargetsStay /\ \A t \in Sessions \ {s} : claim'[t] = claim[t]
    BY <1>3, <2>1, FinishAuth
  <2>3. Left'
    <3>1. \A w \in Versions :
             events'[w] # None /\ events'[w].trigger = "supplier_resolution" => effects'[w] # None
      BY <1>0, <1>12, <1>13 DEF Left
    <3>2. /\ \A w \in Versions : w >= version' => events'[w] = None
          /\ review'.status = "pending" => \A w \in Versions : w < version' => events'[w] # None
          /\ \A w \in Versions : intents'[w] # None => w <= version'
          /\ corrector' <= version'
      BY <1>0, <1>3, <1>13 DEF Left
    <3> QED BY <1>10, <3>1, <3>2 DEF Left
  <2>4. Correctable'
    <3> SUFFICES ASSUME corrector # 0, version = corrector, NEW w \in Versions, NEW p \in odoo,
                        effects'[w] # None, p.id = effects'[w].partner
                 PROVE  FALSE
      BY <1>0, <1>3, <1>13 DEF Correctable
    <3>1. effects[w] # None => effects'[w] = effects[w]
      BY <1>3, <1>8 DEF EffectRecorded
    <3>2. effects[w] = None
      BY <1>0, <3>1 DEF Correctable
    <3>3. w = v
      BY <1>3, <1>8, <3>2 DEF EffectRecorded
    <3>4. version = v /\ \A x \in Versions : x > v => e[x] = None
      BY <1>9, <3>2, <3>3
    <3>5. new = "MATCHED"
      <4>1. e[v] # None /\ p.id = e[v].partner /\ e \in [Versions -> EffectRows \union {None}]
        BY <1>3, <1>8, <3>3 DEF EffectRecorded
      <4> QED BY <1>4, <3>4, <4>1, AcceptedMatches
    <3>6. new = review.supplier
      BY <1>6, <1>13, <3>2, <3>3
    <3> QED BY <1>4, <3>4, <3>5, <3>6
  <2>5. SameSupplier'
    <3>1. \A w \in Versions : Blocked(w)' <=> Blocked(w)
      BY <1>13 DEF Blocked
    <3>2. \A p \in odoo : made[p.id].auth # NoAuth =>
             /\ made[p.id].auth \in Auths
             /\ auth[made[p.id].auth] # NoAuth
             /\ auth[made[p.id].auth].target = made[p.id].at
      BY <1>0, PartnersAreVisible DEF Makers, SameSupplier
    <3>3. \A p \in odoo : made[p.id].auth # NoAuth =>
             /\ auth'[made[p.id].auth] # NoAuth
             /\ auth'[made[p.id].auth].target = made[p.id].at
      BY <2>2, <3>2 DEF TargetsStay
    <3> QED BY <1>0, <1>3, <1>11, <1>13, <3>1, <3>3 DEF SameSupplier
  <2>6. ReviewAdvances
    BY <1>13, <2>1 DEF ReviewAdvances
  <2> QED BY <1>0, <1>3, <1>4, <1>8, <1>13, <2>2, <2>3, <2>4, <2>5, <2>6, FinishShared
<1>14. CASE ~(UNCHANGED <<review, version, events>> /\ (events[v] = None => new = review.supplier))
  <2> PICK ev : ev = [trigger |-> "supplier_resolution", supplier |-> new]
    OBVIOUS
  <2> PICK R : R = [review EXCEPT !.supplier = new]
    OBVIOUS
  <2>0. /\ version = v /\ review.status = "pending" /\ events[v] = None
        /\ version < MaxVersion /\ review' = R /\ version' = version + 1
        /\ events' = [events EXCEPT ![v] = ev]
    BY <1>3, <1>7, <1>14 DEF Reclassify
  <2>1. /\ version' \in Nat /\ version' >= version /\ version' # version /\ version' \in Versions
    BY <1>0, <2>0 DEF Versions
  <2>2. AuthInv' /\ TargetsStay /\ \A t \in Sessions \ {s} : claim'[t] = claim[t]
    BY <1>3, <2>1, FinishAuth
  <2>3. new \in Matching!MatchStatus
    BY ClassifiedStatus
  <2>4. ev \in EventRows /\ ev # None /\ ev.trigger = "supplier_resolution"
    BY <2>3, EventTypes
  <2>5. R \in Reviews /\ R.status = review.status /\ R.vat = review.vat
    BY <1>0, <2>3 DEF Reviews
  <2>6. /\ events' \in [Versions -> EventRows \union {None}] /\ events'[v] = ev
        /\ \A w \in Versions \ {v} : events'[w] = events[w]
    BY <1>0, <1>4, <2>0, <2>4
  <2>7. Left'
    <3>1. \A w \in Versions : w >= version' => w # v /\ w >= version
      BY <1>0, <2>0 DEF Versions
    <3>2. \A w \in Versions : w < version' => w = v \/ w < version
      BY <1>0, <2>0 DEF Versions
    <3>3. \A w \in Versions : w <= version => w <= version'
      BY <1>0, <2>0 DEF Versions
    <3>4. corrector' <= version'
      BY <1>0, <1>3, <2>0 DEF Left
    <3>5. \A w \in Versions : w >= version' => events'[w] = None
      BY <1>0, <2>6, <3>1 DEF Left
    <3>6. \A w \in Versions : w < version' => events'[w] # None
      BY <1>0, <2>0, <2>4, <2>6, <3>2 DEF Left
    <3>7. \A w \in Versions :
             events'[w] # None /\ events'[w].trigger = "supplier_resolution" => effects'[w] # None
      BY <1>0, <1>3, <1>8, <1>12, <2>6 DEF Left, EffectRecorded
    <3>8. \A w \in Versions : intents'[w] # None => w <= version'
      BY <1>0, <1>3, <3>3 DEF Left
    <3> QED BY <1>10, <3>4, <3>5, <3>6, <3>7, <3>8 DEF Left
  <2>8. Correctable'
    <3>1. version' # corrector'
      BY <1>0, <1>3, <2>0 DEF Left
    <3> QED BY <3>1 DEF Correctable
  <2>9. SameSupplier'
    <3>1. \A w \in Versions : Blocked(w) => Blocked(w)'
      BY <1>5, <2>6 DEF Blocked
    <3>2. \A p \in odoo : made[p.id].auth # NoAuth =>
             /\ made[p.id].auth \in Auths
             /\ auth[made[p.id].auth] # NoAuth
             /\ auth[made[p.id].auth].target = made[p.id].at
      BY <1>0, PartnersAreVisible DEF Makers, SameSupplier
    <3>3. \A p \in odoo : made[p.id].auth # NoAuth =>
             /\ auth'[made[p.id].auth] # NoAuth
             /\ auth'[made[p.id].auth].target = made[p.id].at
      BY <2>2, <3>2 DEF TargetsStay
    <3>4. \A p \in odoo : made[p.id].auth # NoAuth => version + 1 # made[p.id].at
      BY <1>0, TargetsReached
    <3>5. \A w \in Versions, p \in odoo : intents[w] # None /\ intents[w].chosen = p.id =>
             p.vat = R.vat \/ Blocked(w)'
      BY <1>0, <2>5, <3>1 DEF SameSupplier
    <3> QED BY <1>3, <1>11, <2>0, <2>5, <3>3, <3>4, <3>5 DEF SameSupplier
  <2>10. ReviewAdvances
    BY <2>0, <2>1, <2>5 DEF ReviewAdvances
  <2>11. \A w \in Versions : events[w] # None => events'[w] = events[w]
    BY <2>0, <2>6
  <2>12. review' \in Reviews
    BY <2>0, <2>5
  <2> QED BY <1>3, <1>4, <1>8, <2>1, <2>2, <2>6, <2>7, <2>8, <2>9, <2>10, <2>11, <2>12, FinishShared
<1> QED BY <1>13, <1>14

-----------------------------------------------------------------------------
(* The theorems.                                                             *)

LEMMA SupplierInitInv == Init => SupplierInv
<1> SUFFICES ASSUME Init PROVE SupplierInv
  OBVIOUS
<1>1. AuthInv /\ version = 1 /\ 1 \in Versions /\ auth = [a \in Auths |-> NoAuth]
  BY AuthInitInv, AuthConstants DEF Init, AuthInit, Versions
<1>2. review \in Reviews
  BY DEF Init, Reviews, Matching!MatchStatus
<1>3. SupplierTypes
  BY <1>1, <1>2, AuthConstants DEF Init, SupplierTypes
<1>4. Registered /\ SameSupplier /\ Awaited /\ Correctable
  BY DEF Init, Registered, SameSupplier, Awaited, Unknown, Correctable
<1>5. Left
  <2>1. \A v \in Versions : ~(v < 1)
    BY DEF Versions
  <2> QED BY <1>1, <2>1 DEF Init, Left
<1>6. EveryWriteHasItsIntent /\ AnswersStand /\ OnePartnerPerAuthorization
      /\ \A v \in Versions : effects[v] # None =>
           (effects[v].write = "selected" <=> effects[v].mode = "match_existing")
  BY DEF Init, EveryWriteHasItsIntent, AnswersStand, AnsweredIsRecorded, OnePartnerPerAuthorization
<1>7. \A s \in Sessions : req[s] = NoReq
  BY DEF Init
<1> QED BY <1>1, <1>3, <1>4, <1>5, <1>6, <1>7 DEF SupplierInv, SupplierShared

\* A step of a request keeps the invariant.
LEMMA SessionStepKeeps ==
    ASSUME SupplierInv, NEW s \in Sessions, SessionStep(s)
    PROVE  SupplierInv'
<1>1. CASE LookFresh(s) \/ LookResume(s) \/ LookApplied(s) \/ LookRefused(s)
  BY <1>1, LookKeeps
<1>2. CASE Reserve(s)
  BY <1>2, ReserveKeeps
<1>3. CASE FindNone(s)
  BY <1>3, FindNoneKeeps
<1>4. CASE FindOne(s)
  BY <1>4, FindOneKeeps
<1>5. CASE FindRefused(s)
  BY <1>5, RefuseKeeps DEF FindRefused
<1>6. CASE Create(s)
  BY <1>6, CreateKeeps
<1>7. CASE Recheck(s)
  BY <1>7, RecheckKeeps
<1>8. CASE Finish(s)
  BY <1>8, FinishKeeps
<1>9. CASE FinishRefused(s)
  BY <1>9, RefuseKeeps DEF FinishRefused
<1> QED BY <1>1, <1>2, <1>3, <1>4, <1>5, <1>6, <1>7, <1>8, <1>9 DEF SessionStep

LEMMA SupplierNextInv == SupplierInv /\ [Next]_vars => SupplierInv'
<1> SUFFICES ASSUME SupplierInv, [Next]_vars PROVE SupplierInv'
  OBVIOUS
<1>1. ASSUME NEW s \in Sessions, NEW mode \in SupplierResolutionMode,
             NEW id \in PartnerIds \union {None}, NEW v \in Versions,
             NEW a \in Auths \union {NoAuth}, Submit(s, mode, id, v, a)
      PROVE  SupplierInv'
  BY <1>1, BeginKeeps DEF Submit
<1>2. ASSUME NEW s \in Sessions, Resubmit(s) PROVE SupplierInv'
  <2>1. version \in Versions /\ intents[version] \in Intents
    BY <1>2 DEF Resubmit, SupplierInv, SupplierShared, SupplierTypes
  <2>2. /\ intents[version].mode \in SupplierResolutionMode
        /\ intents[version].chosen \in PartnerIds \union {None}
    BY <2>1 DEF Intents
  <2> QED BY <1>2, <2>1, <2>2, BeginKeeps DEF Resubmit
<1>3. ASSUME NEW s \in Sessions, SessionStep(s) PROVE SupplierInv'
  BY <1>3, SessionStepKeeps
<1>4. ASSUME NEW s \in Sessions, Fail(s) PROVE SupplierInv'
  BY <1>4, RefuseKeeps DEF Fail, Refuse
<1>13. ASSUME NEW s \in Sessions, TimeOut(s) PROVE SupplierInv'
  BY <1>13, TimeOutKeeps
<1>14. ASSUME NEW p \in late, Arrives(p) PROVE SupplierInv'
  BY <1>14, ArrivesKeeps
<1>5. CASE Verify \/ CorrectionRefused
  BY <1>5, CorrectorKeeps
<1>6. CASE ApplyCorrection
  BY <1>6, CorrectionKeeps
<1>7. CASE MasterDataChanged
  BY <1>7, MasterDataKeeps
<1>8. CASE Decide
  BY <1>8, DecideKeeps
<1>9. CASE Authorizations
  BY <1>9, AuthorizationsKeep
<1>10. CASE OtherReview \/ \E vat \in {None, DocumentVat} : UserCreates(vat)
  BY <1>10, OthersCreateKeeps
<1>11. ASSUME NEW p \in odoo, UserArchives(p) \/ UserDeletes(p) PROVE SupplierInv'
  BY <1>11, OthersEditKeeps
<1>12. CASE UNCHANGED vars
  <2>1. UNCHANGED <<authvars, late, made, review, intents, effects, events, hubOwned, req,
                    corrector, answered>> /\ odoo' = odoo
    BY <1>12 DEF vars, supplierVars
  <2>2. /\ odoo' \subseteq Partners /\ \A p, q \in odoo' : p.id = q.id => p = q
        /\ \A p \in odoo' : \E q \in odoo : q.id = p.id /\ q.vat = p.vat
    BY <2>1 DEF SupplierInv, SupplierShared, SupplierTypes, Registered
  <2> QED BY <2>1, <2>2, PartnersEdited
<1> QED
  BY <1>1, <1>2, <1>3, <1>4, <1>5, <1>6, <1>7, <1>8, <1>9, <1>10, <1>11, <1>12, <1>13, <1>14 DEF Next

\* The latest of the recorded effects is one of them.
LEMMA LatestIsRecorded ==
    ASSUME SupplierInv, LatestEffect(effects) # None
    PROVE  \E v \in Versions : effects[v] # None /\ LatestEffect(effects) = effects[v]
<1>1. \E v \in Versions : effects[v] # None
  BY DEF LatestEffect
<1>2. PICK v \in Versions : effects[v] # None /\ \A w \in Versions : w > v => effects[w] = None
  BY <1>1 DEF SupplierInv, SupplierShared, Left
<1> QED BY <1>2, LatestIs

\* Every effect and every partner the Hub made has its committed intent, the supplier an effect
\* names carries the review's tax number, a one-off vendor is one the Hub made, and an answered
\* remediation stays recorded: whatever requests, crashes, corrections, reclassifications and
\* edits in Odoo interleave (ResolveWorkbenchSupplierUseCase, CorrectReviewSourceIdentityUseCase).
THEOREM SupplierWritesSafe == Spec => []SupplierWritesAreSafe
<1>1. SupplierInv => SupplierWritesAreSafe
  <2> SUFFICES ASSUME SupplierInv PROVE SupplierWritesAreSafe
    OBVIOUS
  <2>1. SupplierTypes /\ Registered /\ SameSupplier /\ Awaited
    BY DEF SupplierInv, SupplierShared
  <2>2. SupplierTypeOK
    BY <2>1 DEF SupplierInv, SupplierTypeOK, SupplierTypes, Registered, Awaited, Unknown, Partners,
                Reviews
  <2>3. AcceptedSupplierIsTheInvoices
    BY <2>1, LatestIsRecorded DEF AcceptedSupplierIsTheInvoices, SameSupplier
  <2>4. OneOffVendorIsTheHubs
    BY <2>1 DEF OneOffVendorIsTheHubs, Registered
  <2> QED BY <2>2, <2>3, <2>4 DEF SupplierInv, SupplierWritesAreSafe, AnswersStand
<1> QED BY <1>1, SupplierInitInv, SupplierNextInv, PTL DEF Spec

\* Of the partners that exist, an authorization has made at most one while its caller waited for it,
\* whatever times out and whatever Odoo creates after that, and its claims and audit fields stay
\* consistent, inside the supplier's write path: claim_and_consume's row lock is held from the
\* lookup to the commit.
THEOREM OnePartnerEach == Spec => []OnePartnerPerWrite
<1>1. SupplierInv => OnePartnerPerWrite
  BY DEF SupplierInv, AuthInv, OnePartnerPerWrite
<1> QED BY <1>1, SupplierInitInv, SupplierNextInv, PTL DEF Spec

\* What a step of the review does to the authorizations: those of WriteAuthorization, or a commit
\* together with the review's next version.
LEMMA SupplierRowsMoveOn ==
    ASSUME SupplierInv, [Next]_vars, NEW b \in Auths, auth[b] # NoAuth
    PROVE  RowMoves(b)
<1>0. AuthInv
  BY DEF SupplierInv
<1>1. CASE auth' = auth
  <2>1. auth[b].uses \in Nat
    BY <1>0 DEF AuthInv, AuthTypeOK, AuthRows
  <2> QED BY <1>1, <2>1 DEF RowMoves
<1>2. ASSUME NEW s \in Sessions, Finish(s) PROVE RowMoves(b)
  <2>1. CASE Consume(s)
    BY <1>0, <2>1, ConsumeMovesOn
  <2>2. CASE ~Consume(s)
    BY <1>1, <1>2, <2>2 DEF Finish
  <2> QED BY <2>1, <2>2
<1>3. CASE Authorizations
  <2>1. version \in 1 .. MaxVersion
    BY DEF SupplierInv, SupplierShared, SupplierTypes, Versions
  <2>2. AuthNext
    BY <1>3, <2>1 DEF AuthNext, Authorizations
  <2> QED BY <1>0, <2>2, RowsMoveOn
<1>4. ASSUME NEW s \in Sessions, Abort(s) PROVE auth' = auth
  BY <1>4 DEF Abort, RollBackClaim, authvars
<1>5. ASSUME NEW s \in Sessions, Authorized(s) PROVE auth' = auth
  BY <1>5 DEF Authorized, Claim, authvars
<1>6. ASSUME NEW s \in Sessions, SessionStep(s), ~Finish(s) PROVE auth' = auth
  BY <1>4, <1>5, <1>6 DEF SessionStep, LookFresh, LookResume, LookApplied, LookRefused, Reserve,
        FindNone, FindOne, FindRefused, Create, Recheck, FinishRefused, Refuse, authvars
<1>7. ASSUME NEW s \in Sessions, Resubmit(s) \/ Fail(s) \/ TimeOut(s) PROVE auth' = auth
  BY <1>4, <1>7 DEF Resubmit, Begin, Fail, TimeOut, authvars
<1> QED
  BY <1>1, <1>2, <1>3, <1>6, <1>7
     DEF Next, vars, authvars, Submit, Begin, Verify, ApplyCorrection, CorrectionRefused,
         MasterDataChanged, Decide, UserCreates, UserArchives, UserDeletes, OtherReview, OdooEdit,
         Arrives

\* The consumer of an authorization never changes while requests claim, abort, commit and are
\* resumed (_claim_supplier_write_authorization, claim_and_consume): the safety part of
\* PermanentSupplierIsResumed.
THEOREM SupplierSingleConsumer == Spec => AuthorizationIsSingleConsumer
<1>1. SupplierInv /\ [Next]_vars =>
        [\A a \in Auths : auth[a] # NoAuth =>
          /\ auth'[a] # NoAuth
          /\ auth'[a].target = auth[a].target /\ auth'[a].operation = auth[a].operation
          /\ auth[a].consumer # NoConsumer => auth'[a].consumer = auth[a].consumer
          /\ auth[a].status = "revoked" => auth'[a] = auth[a]
          /\ auth'[a].uses \in {auth[a].uses, auth[a].uses + 1}]_authvars
  BY SupplierRowsMoveOn DEF RowMoves
<1> QED
  BY <1>1, SupplierInitInv, SupplierNextInv, PTL DEF Spec, AuthorizationIsSingleConsumer

=============================================================================
