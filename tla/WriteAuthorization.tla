----------------------------- MODULE WriteAuthorization -----------------------------
(***************************************************************************)
(* Narrow write authorizations of one review: an operator issues one for   *)
(* an operation at the review's current version, a write attempt claims it *)
(* inside its own transaction, an operator may revoke it, and fifteen      *)
(* minutes after issue it has expired.                                     *)
(*                                                                         *)
(* Code: app/persistence/write_authorization_repository.py,                *)
(* app/application/workbench/{write_authorization,                         *)
(* write_authorization_use_cases}.py.                                      *)
(*                                                                         *)
(* Issue and revoke are transactions of their own.  claim_and_consume only *)
(* flushes: SELECT ... FOR UPDATE locks the row, and the consumption       *)
(* becomes visible, or disappears, with the claimer's transaction.  A      *)
(* consumer is the deterministic identity of one write attempt.            *)
(***************************************************************************)
EXTENDS Integers

CONSTANTS Sessions,     \* transactions that claim authorizations
          Auths,        \* authorization ids
          Operations,   \* operation types
          Consumers,    \* identities of write attempts
          OperationOf,  \* the operation a consumer performs
          MaxVersion,   \* bound: review versions explored
          MaxUses,      \* bound: admissions of one authorization explored
          NoSession, NoAuth, NoConsumer

\* the rows of write_authorizations, and what a session flushes for one
AuthRows == [operation : Operations, target : Nat \ {0},
             status : {"pending", "consumed", "revoked"},
             consumer : Consumers \union {NoConsumer}, uses : Nat]

Claims == [auth : Auths, consumer : Consumers]

ASSUME AuthConstants ==
    /\ OperationOf \in [Consumers -> Operations]
    /\ MaxVersion \in Nat \ {0}
    /\ MaxUses \in Nat \ {0}
    /\ NoSession \notin Sessions
    /\ NoAuth \notin Auths \union AuthRows \union Claims
    /\ NoConsumer \notin Consumers

VARIABLES auth,      \* the committed authorization rows, NoAuth before they are issued
          expired,   \* the authorizations whose expires_at has passed
          version,   \* the review's committed version
          authLock,  \* the session that locked each row
          claim      \* the claim each session has flushed: [auth, consumer], or NoAuth

authvars == <<auth, expired, version, authLock, claim>>

IssuedRow(op, v) ==
    [operation |-> op, target |-> v, status |-> "pending", consumer |-> NoConsumer, uses |-> 0]

\* the row after the conditional UPDATE of claim_and_consume
ConsumedRow(r, c) == [r EXCEPT !.status = "consumed", !.consumer = c, !.uses = @ + 1]

AuthInit ==
    /\ auth = [a \in Auths |-> NoAuth]
    /\ expired = {}
    /\ version = 1
    /\ authLock = [a \in Auths |-> NoSession]
    /\ claim = [x \in Sessions |-> NoAuth]

\* CreateWriteAuthorizationUseCase: for the review's current version, as its own read saw
\* it; another transaction may have advanced the review since
Issue(a, op, v) ==
    /\ auth[a] = NoAuth
    /\ v <= version
    /\ auth' = [auth EXCEPT ![a] = IssuedRow(op, v)]
    /\ UNCHANGED <<expired, version, authLock, claim>>

\* revoke: waits for the row lock; an expired authorization is not revocable, one already
\* revoked is left as it is
Revoke(a) ==
    /\ auth[a] # NoAuth
    /\ authLock[a] = NoSession
    /\ auth[a].status # "revoked"
    /\ a \notin expired
    /\ auth' = [auth EXCEPT ![a].status = "revoked"]
    /\ UNCHANGED <<expired, version, authLock, claim>>

\* the clock passes expires_at (nothing is written: expiry is derived)
Expire(a) ==
    /\ auth[a] # NoAuth
    /\ a \notin expired
    /\ expired' = expired \union {a}
    /\ UNCHANGED <<auth, version, authLock, claim>>

\* a decision or a reclassification commits a new review version
AdvanceReview ==
    /\ version < MaxVersion
    /\ version' = version + 1
    /\ UNCHANGED <<auth, expired, authLock, claim>>

\* claim_and_consume admits consumer c, which asks for version v, on row r
Admits(a, c, v) ==
    /\ auth[a].operation = OperationOf[c]
    /\ auth[a].target = v
    /\ version = v
    /\ auth[a].status # "revoked"
    /\ a \notin expired
    /\ auth[a].status = "consumed" => auth[a].consumer = c

\* the admitted claim: the row stays locked until the session commits or rolls back
Claim(x, a, c, v) ==
    /\ claim[x] = NoAuth
    /\ auth[a] # NoAuth
    /\ authLock[a] = NoSession
    /\ auth[a].uses < MaxUses
    /\ Admits(a, c, v)
    /\ authLock' = [authLock EXCEPT ![a] = x]
    /\ claim' = [claim EXCEPT ![x] = [auth |-> a, consumer |-> c]]
    /\ UNCHANGED <<auth, expired, version>>

\* the claimer's transaction commits: the consumption is visible, the lock is released
Consume(x) ==
    /\ claim[x] # NoAuth
    /\ LET a == claim[x].auth IN
        /\ auth' = [auth EXCEPT ![a] = ConsumedRow(@, claim[x].consumer)]
        /\ authLock' = [authLock EXCEPT ![a] = NoSession]
    /\ claim' = [claim EXCEPT ![x] = NoAuth]

CommitClaim(x) == Consume(x) /\ UNCHANGED <<expired, version>>

\* ... or rolls back (an exception, a crash): the consumption never happened
RollBackClaim(x) ==
    /\ claim[x] # NoAuth
    /\ authLock' = [authLock EXCEPT ![claim[x].auth] = NoSession]
    /\ claim' = [claim EXCEPT ![x] = NoAuth]
    /\ UNCHANGED <<auth, expired, version>>

AuthNext ==
    \/ \E a \in Auths, op \in Operations, v \in 1 .. MaxVersion : Issue(a, op, v)
    \/ \E a \in Auths : Revoke(a)
    \/ \E a \in Auths : Expire(a)
    \/ AdvanceReview
    \/ \E x \in Sessions, a \in Auths, c \in Consumers, v \in 1 .. MaxVersion : Claim(x, a, c, v)
    \/ \E x \in Sessions : CommitClaim(x)
    \/ \E x \in Sessions : RollBackClaim(x)

AuthSpec == AuthInit /\ [][AuthNext]_authvars

-----------------------------------------------------------------------------
(* Properties. *)

\* Types of the authorization rows, their locks and the flushed claims.
AuthTypeOK ==
    /\ auth \in [Auths -> AuthRows \union {NoAuth}]
    /\ expired \subseteq Auths
    /\ version \in Nat \ {0}
    /\ authLock \in [Auths -> Sessions \union {NoSession}]
    /\ claim \in [Sessions -> Claims \union {NoAuth}]

\* claim_and_consume: while a write attempt is running on an authorization, no other
\* attempt and no revocation gets at it, and it may not be taken from its consumer.
ClaimIsExclusive ==
    \A x \in Sessions : claim[x] # NoAuth =>
        LET a == claim[x].auth IN
            /\ authLock[a] = x
            /\ auth[a] # NoAuth
            /\ auth[a].status # "revoked"
            /\ auth[a].consumer \in {NoConsumer, claim[x].consumer}
            /\ \A y \in Sessions : claim[y] # NoAuth /\ claim[y].auth = a => y = x

\* The audit fields agree: an authorization has a consumer exactly when it was used, the
\* consumer performs the operation it was issued for, and a pending one was never used.
AuditConsistent ==
    \A a \in Auths : auth[a] # NoAuth =>
        /\ auth[a].uses = 0 <=> auth[a].consumer = NoConsumer
        /\ auth[a].status = "pending" => auth[a].uses = 0
        /\ auth[a].status = "consumed" => auth[a].uses > 0
        /\ auth[a].consumer # NoConsumer => OperationOf[auth[a].consumer] = auth[a].operation
        /\ auth[a].target <= version

\* One canonical consumer: whoever committed the first use owns the authorization for
\* ever; a revoked one is never used again; its scope never changes.
AuthorizationIsSingleConsumer ==
    [][\A a \in Auths : auth[a] # NoAuth =>
          /\ auth'[a] # NoAuth
          /\ auth'[a].target = auth[a].target /\ auth'[a].operation = auth[a].operation
          /\ auth[a].consumer # NoConsumer => auth'[a].consumer = auth[a].consumer
          /\ auth[a].status = "revoked" => auth'[a] = auth[a]
          /\ auth'[a].uses \in {auth[a].uses, auth[a].uses + 1}]_authvars

=============================================================================
