---------------------------- MODULE MasterDataWorkProofs ----------------------------
(* Proofs about MasterDataWork: of its product remediation, for every set of API processes, *)
(* commands and reviews and every number of versions and lost answers, and of its expense   *)
(* mapping, for every set of requests, reviews and accounts and every number of versions.   *)
EXTENDS MasterDataWork, FiniteSetTheorems, TLAPS

-----------------------------------------------------------------------------
(* Product remediation. *)

Creators == NewJobs \cup LineJobs

\* The create of a job is the one that Odoo carried out; it made the first product.
Made(j) == products = <<j>>

\* No create has reached Odoo, and none is on its way.
Uncreated == products = <<>> /\ inflight = {}

Attempted(j) == row[j].status \notin {"none", "reserved"}

LinkedFirst == infos # <<>> /\ infos[1].product = 1

\* Why a reservation may name a product that it did not make: another command owns the
\* identity, or the supplier had a price list row for another product.
Hampered(j) ==
    \/ claim \in NewJobs /\ claim # j
    \/ products # <<>> /\ claim # j
    \/ infos # <<>> /\ infos[1].product # 1

\* The supplierinfo rows that CreatedLinksAgree counts.
OwnLinks == {i \in DOMAIN infos : infos[i].by \notin MapJobs /\ infos[i].guarded}

\* A row that a creation adds names the product that was created.
Agrees(e) == e.by \notin MapJobs => Made(e.by) /\ e.product = 1

-----------------------------------------------------------------------------
(* The inductive invariant. *)

LinkPcs == {"link", "linkwrite", "linkfree", "verify", "linked"}
ApiPcs == LinkPcs \cup {"reserve", "precheck", "claim", "race", "reuse", "attempt", "create",
                        "revert", "reconcile", "created", "flush"}
LinePcs == {"start", "insert", "createline", "discard", "recover", "complete", "created", "flush"}

Rows == [status : ReservationStatus, product : 0..Catalog]
Infos == [product : 0..Catalog, by : Jobs, guarded : BOOLEAN]
Procs == [pc : {"idle"} \cup ApiPcs \cup LinePcs, job : Jobs \cup {NoOne}, to : ReservationStatus,
          product : 0..Catalog, next : {"idle", "create", "link", "complete"}]

Types ==
    /\ version \in [Reviews -> Nat]
    /\ row \in [Creators -> Rows]
    /\ \A j \in LineJobs : row[j].status \in CreationStatus
    /\ late \subseteq LineJobs
    /\ claim \in Creators \cup {NoOne}
    /\ products \in Seq(Creators)
    /\ infos \in Seq(Infos)
    /\ inflight \subseteq Creators
    /\ latelinks \subseteq Infos
    /\ \A e \in latelinks : e.by \in NewJobs \cup MapJobs /\ ~e.guarded
    /\ authLock \in [Jobs -> Workers \cup {NoOne}]
    /\ proc \in [Workers -> Procs]

\* The claim is the barrier: only its owner can have created or be creating.
Barrier ==
    /\ products # <<>> => claim \in Creators /\ Made(claim)
    /\ inflight # {} => claim \in Creators /\ inflight = {claim} /\ products = <<>>
    /\ ~Uncreated => Attempted(claim)
    /\ late \cap inflight = {}
    /\ \A j \in late : row[j].status # "none"
    /\ claim \in LineJobs /\ products # <<>> => infos # <<>>

\* What the rows of the Hub say of Odoo.
Records ==
    \A j \in Creators :
        /\ row[j].status = "product_created" => Made(j) /\ row[j].product = 1
        /\ row[j].status = "completed" => Made(j) /\ row[j].product = 1 /\ LinkedFirst
        /\ j \in NewJobs /\ row[j].product # 0 => (Made(j) /\ row[j].product = 1) \/ Hampered(j)

\* What the supplierinfo rows of Odoo say of the products.
Links ==
    /\ \A i \in DOMAIN infos : infos[i].product = 1 => products # <<>>
    /\ OwnLinks # {} => products # <<>>
    /\ \A i, k \in OwnLinks : i = k
    /\ \A i \in DOMAIN infos : Agrees(infos[i])
    /\ \A e \in latelinks : Agrees(e) /\ (e.product = 1 => products # <<>>)

\* A process that may still send a create; there is one at most.
Holds(p) ==
    \/ p.pc \in {"attempt", "create", "createline", "revert"}
    \/ p.pc = "flush" /\ (p.next = "create" \/ p.to = "reserved")

OneHolder == \A w, x \in Workers : Holds(proc[w]) /\ Holds(proc[x]) => w = x

Position(w, p) ==
    \/ p.pc = "idle" /\ p.job = NoOne
    \/ w # Tick /\ p.job \in NewJobs /\ p.pc \in ApiPcs
    \/ w = Tick /\ p.job \in LineJobs /\ p.pc \in LinePcs
    \/ w = Tick /\ p.job \in MapJobs /\ p.pc \in LinkPcs

KnowsClaim(p) ==
    /\ Holds(p) => claim = p.job /\ Uncreated
    /\ p.pc \in {"create", "createline"} => Attempted(p.job)

KnowsLine(p) ==
    /\ p.pc \in {"start", "insert"} => row[p.job].status = "none"
    /\ p.pc = "createline" => p.job \notin late
    /\ p.pc = "discard" /\ claim = p.job => Uncreated

HasProduct(p) ==
    \/ p.pc = "created"
    \/ p.pc \in LinkPcs /\ p.job \in NewJobs
    \/ p.pc = "flush" /\ p.to = "product_created"

KnowsProduct(p) ==
    /\ HasProduct(p) => Made(p.job) /\ p.product = 1
    /\ p.job \in MapJobs => p.product = Catalog
    /\ p.pc = "reuse" => infos # <<>> /\ p.product = infos[1].product

\* The row that a flush is about to write holds whatever the status has become since.
KnowsFlush(p) ==
    p.pc = "flush" =>
        /\ p.to # "none"
        /\ p.job \in LineJobs => p.to \in CreationStatus
        /\ p.to = "completed" =>
              Made(p.job) /\ p.product = 0 /\ row[p.job].product = 1 /\ LinkedFirst
        /\ p.to = "reused_existing_product" => Hampered(p.job)
        /\ p.to \in {"create_attempted", "needs_reconciliation", "reserved"} => p.product = 0
        /\ p.next = "create" => p.to = "create_attempted" /\ p.job \in NewJobs
        /\ p.next = "link" => p.to = "product_created" /\ p.job \in NewJobs
        /\ p.next = "complete" => p.to = "product_created" /\ p.job \in LineJobs
        /\ p.to = "reserved" => p.next = "idle"

KnowsLink(p) ==
    p.job \in NewJobs =>
        /\ p.pc = "verify" => \E i \in DOMAIN infos : infos[i].product = 1
        /\ p.pc = "linked" => LinkedFirst
        /\ p.pc = "linkwrite" => OwnLinks = {}

Facts(w, p) ==
    /\ Position(w, p)
    /\ KnowsClaim(p)
    /\ KnowsLine(p)
    /\ KnowsProduct(p)
    /\ KnowsFlush(p)
    /\ KnowsLink(p)

\* The authorization row serialises the processes that link for one reservation.
KnowsLock(w, p) == p.pc = "linkwrite" /\ p.job \in NewJobs => authLock[p.job] = w

SharedInv == Types /\ Barrier /\ Records /\ Links

RemediationInv ==
    /\ SharedInv
    /\ OneHolder
    /\ \A w \in Workers : Facts(w, proc[w]) /\ KnowsLock(w, proc[w])

-----------------------------------------------------------------------------
(* What a step leaves alone. *)

\* A product is never taken back, price list rows are only added, and a reason to reuse stays.
Monotone ==
    /\ products # <<>> => products' = products
    /\ infos # <<>> => infos' # <<>> /\ infos'[1] = infos[1]
    /\ \A i \in DOMAIN infos : i \in DOMAIN infos' /\ infos'[i] = infos[i]
    /\ \A j \in NewJobs : Hampered(j) => Hampered(j)'

\* A step of others does not touch what a process relies on.
Spared(x) ==
    LET p == proc[x] IN
    /\ Holds(p) => claim' = claim /\ Uncreated' /\ (Attempted(p.job) => Attempted(p.job)')
    /\ p.job \in LineJobs =>
          /\ row'[p.job] = row[p.job]
          /\ p.job \in late' => p.job \in late
          /\ claim' = p.job => claim = p.job
          /\ p.pc = "discard" /\ claim = p.job /\ Uncreated => Uncreated'
    /\ p.job \in Creators /\ Made(p.job) /\ LinkedFirst /\ row[p.job].product = 1 =>
          row'[p.job].product = 1
    /\ p.pc = "linkwrite" /\ p.job \in NewJobs /\ OwnLinks = {} => OwnLinks' = {}
    /\ p.pc = "linkwrite" /\ p.job \in NewJobs /\ authLock[p.job] = x => authLock'[p.job] = x

\* So it still knows what it knew.
LEMMA FactsStay ==
    ASSUME NEW x \in Workers, Types, Facts(x, proc[x]), KnowsLock(x, proc[x]),
           Monotone, Spared(x), proc'[x] = proc[x]
    PROVE  (Facts(x, proc[x]) /\ KnowsLock(x, proc[x]))'
<1> PICK p \in Procs : p = proc[x]
  BY DEF Types
<1>0. proc[x] = p /\ proc'[x] = p
  OBVIOUS
<1>1. Position(x, p)'
  BY <1>0 DEF Facts, Position
<1>2. KnowsClaim(p)'
  BY <1>0 DEF Facts, KnowsClaim, Spared, Holds
<1>3. Made(p.job) => Made(p.job)'
  BY DEF Made, Monotone
<1>4. LinkedFirst => LinkedFirst'
  BY DEF LinkedFirst, Monotone
<1>5. KnowsLine(p)'
  <2>1. p.pc \in {"start", "insert", "createline", "discard"} => p.job \in LineJobs
    BY <1>0 DEF Facts, Position, LinePcs, LinkPcs, ApiPcs
  <2> QED BY <1>0, <2>1 DEF Facts, KnowsLine, Spared
<1>6. KnowsProduct(p)'
  BY <1>0, <1>3 DEF Facts, KnowsProduct, HasProduct, Monotone
<1>7. KnowsFlush(p)'
  <2>1. p.pc = "flush" => p.job \in Creators
    BY <1>0 DEF Facts, Position, LinePcs, LinkPcs, ApiPcs, Creators
  <2>2. p.pc = "flush" /\ p.to = "reused_existing_product" => p.job \in NewJobs
    BY <1>0, <2>1 DEF Facts, KnowsFlush, CreationStatus, Creators
  <2>3. p.pc = "flush" /\ p.to = "completed" => row'[p.job].product = 1
    BY <1>0, <2>1 DEF Facts, KnowsFlush, Spared
  <2>4. p.pc = "flush" /\ p.to = "reused_existing_product" => Hampered(p.job)'
    BY <1>0, <2>2 DEF Facts, KnowsFlush, Monotone
  <2> QED BY <1>0, <1>3, <1>4, <2>3, <2>4 DEF Facts, KnowsFlush
<1>8. KnowsLink(p)'
  BY <1>0, <1>4 DEF Facts, KnowsLink, Monotone, Spared
<1>9. KnowsLock(x, p)'
  BY <1>0 DEF KnowsLock, Spared
<1> QED BY <1>0, <1>1, <1>2, <1>5, <1>6, <1>7, <1>8, <1>9 DEF Facts, Position, KnowsClaim,
      KnowsLine, KnowsProduct, KnowsFlush, KnowsLink, KnowsLock, Holds, HasProduct

\* A step of one process: its own facts, and the rest spared.
LEMMA WorkerMoves ==
    ASSUME RemediationInv, SharedInv', Monotone, NEW w \in Workers,
           \A x \in Workers \ {w} : proc'[x] = proc[x] /\ Spared(x),
           Facts(w, proc[w])', KnowsLock(w, proc[w])',
           Holds(proc'[w]) => \A x \in Workers \ {w} : ~Holds(proc[x])
    PROVE  RemediationInv'
<1>1. \A x \in Workers \ {w} : (Facts(x, proc[x]) /\ KnowsLock(x, proc[x]))'
  BY FactsStay DEF RemediationInv, SharedInv
<1>2. OneHolder'
  BY DEF RemediationInv, OneHolder
<1> QED BY <1>1, <1>2 DEF RemediationInv

\* A step of Odoo or of time: no process moves.
LEMMA WorldMoves ==
    ASSUME RemediationInv, SharedInv', Monotone, UNCHANGED proc, \A x \in Workers : Spared(x)
    PROVE  RemediationInv'
<1>1. \A x \in Workers : (Facts(x, proc[x]) /\ KnowsLock(x, proc[x]))'
  BY FactsStay DEF RemediationInv, SharedInv
<1>2. OneHolder'
  BY DEF RemediationInv, OneHolder
<1> QED BY <1>1, <1>2 DEF RemediationInv


\* Each process keeps the authorization rows that it has locked.
AuthKept(w) ==
    /\ authLock' \in [Jobs -> Workers \cup {NoOne}]
    /\ \A x \in Workers \ {w}, j \in Jobs : authLock[j] = x => authLock'[j] = x

\* The record of one process changes.
Moves(w, q) ==
    /\ proc' \in [Workers -> Procs]
    /\ q = proc'[w]
    /\ \A x \in Workers \ {w} : proc'[x] = proc[x]

shared == <<row, late, claim, products, infos, inflight, latelinks>>

LEMMA QuietShared ==
    ASSUME SharedInv, UNCHANGED shared, version' \in [Reviews -> Nat],
           authLock' \in [Jobs -> Workers \cup {NoOne}], proc' \in [Workers -> Procs]
    PROVE  SharedInv' /\ Monotone
<1> USE DEF shared
<1>1. Types'
  BY DEF SharedInv, Types
<1>2. Barrier'
  BY DEF SharedInv, Barrier, Made, Uncreated, Attempted
<1>3. Records'
  BY DEF SharedInv, Records, Made, LinkedFirst, Hampered
<1>4. Links'
  BY DEF SharedInv, Links, OwnLinks, Agrees, Made
<1>5. Monotone
  BY DEF Monotone, Hampered
<1> QED BY <1>1, <1>2, <1>3, <1>4, <1>5 DEF SharedInv

\* A step that changes nothing but the record of the process, its locks and review versions.
LEMMA QuietStep ==
    ASSUME RemediationInv, UNCHANGED shared, version' \in [Reviews -> Nat],
           NEW w \in Workers, AuthKept(w), NEW q, Moves(w, q), Facts(w, q), KnowsLock(w, q)',
           Holds(q) => Holds(proc[w])
    PROVE  RemediationInv'
<1>1. SharedInv' /\ Monotone
  BY QuietShared DEF RemediationInv, AuthKept, Moves
<1>2. Facts(w, q)'
  BY DEF shared, Facts, Position, KnowsClaim, KnowsLine, KnowsProduct, KnowsFlush, KnowsLink, Made,
         Uncreated, Attempted, LinkedFirst, Hampered, OwnLinks
<1>3. ASSUME NEW x \in Workers \ {w} PROVE Spared(x)
  <2> DEFINE p == proc[x]
  <2>1. Holds(p) => claim' = claim /\ Uncreated' /\ (Attempted(p.job) => Attempted(p.job)')
    BY DEF shared, Uncreated, Attempted, RemediationInv, Facts, KnowsClaim, Moves
  <2>2. p.job \in NewJobs /\ authLock[p.job] = x => authLock'[p.job] = x
    BY DEF AuthKept, Jobs
  <2>3. OwnLinks' = OwnLinks /\ Uncreated' = Uncreated
    BY DEF shared, OwnLinks, Uncreated
  <2> QED BY <2>1, <2>2, <2>3 DEF Spared, shared
<1>4. Facts(w, proc[w])' /\ KnowsLock(w, proc[w])'
  BY <1>2 DEF Moves, Facts, Position, KnowsClaim, KnowsLine, KnowsProduct, KnowsFlush, KnowsLink,
              KnowsLock, Holds, HasProduct
<1>5. Holds(proc'[w]) => \A x \in Workers \ {w} : ~Holds(proc[x])
  BY DEF Moves, RemediationInv, OneHolder
<1> QED BY <1>1, <1>3, <1>4, <1>5, WorkerMoves DEF Moves

-----------------------------------------------------------------------------
(* How the model moves the record of a process. *)

\* The assumptions on the constants that the proofs use.
LEMMA Constants ==
    /\ NoOne \notin Jobs /\ NoOne \notin Workers /\ Tick \in Workers
    /\ Creators \subseteq Jobs
    /\ Catalog \in Nat /\ Catalog > 1
    /\ \A j \in NewJobs : j \notin LineJobs /\ j \notin MapJobs
    /\ \A j \in LineJobs : j \notin NewJobs /\ j \notin MapJobs
BY RemediationAssumption DEF Jobs, Workers, Creators, Catalog

\* A sequence of one element, and one more element.
LEMMA Single ==
    ASSUME NEW S, NEW s \in Seq(S), Len(s) = 1
    PROVE  s # <<>> /\ s[1] \in S /\ DOMAIN s = {1}
OBVIOUS

LEMMA OneMore ==
    ASSUME NEW S, NEW s \in Seq(S), NEW e \in S, NEW t, t = Append(s, e)
    PROVE  /\ t \in Seq(S) /\ t # <<>>
           /\ DOMAIN t = DOMAIN s \cup {Len(s) + 1}
           /\ t[Len(s) + 1] = e
           /\ \A i \in DOMAIN s : t[i] = s[i]
           /\ s = <<>> => t = <<e>> /\ t[1] = e
           /\ s # <<>> => t[1] = s[1]
<1>1. t \in Seq(S) /\ t # <<>> /\ Len(t) = Len(s) + 1
  OBVIOUS
<1>2. t[Len(s) + 1] = e /\ \A i \in DOMAIN s : t[i] = s[i]
  OBVIOUS
<1>3. DOMAIN t = DOMAIN s \cup {Len(s) + 1}
  BY <1>1
<1>4. s = <<>> => t = <<e>> /\ t[1] = e
  OBVIOUS
<1>5. s # <<>> => 1 \in DOMAIN s
  OBVIOUS
<1> QED BY <1>1, <1>2, <1>3, <1>4, <1>5

LEMMA IdleMoves ==
    ASSUME Types, NEW w \in Workers, Leave(w)
    PROVE  Moves(w, Idle) /\ Facts(w, Idle) /\ KnowsLock(w, Idle)' /\ ~Holds(Idle)
<1>1. Idle \in Procs
  BY Constants DEF Idle, Procs, ReservationStatus, Catalog
<1>2. Moves(w, Idle)
  BY <1>1 DEF Types, Leave, Moves
<1>3. Idle.pc = "idle" /\ Idle.job = NoOne
  BY DEF Idle
<1>4. NoOne \notin NewJobs /\ NoOne \notin MapJobs /\ NoOne \notin LineJobs
  BY Constants DEF Jobs
<1>5. ~Holds(Idle)
  BY <1>3 DEF Holds
<1>6. Facts(w, Idle)
  BY <1>3, <1>4, <1>5 DEF Facts, Position, KnowsClaim, KnowsLine, KnowsProduct, KnowsFlush, KnowsLink,
       HasProduct, LinkPcs
<1> QED BY <1>2, <1>3, <1>5, <1>6 DEF KnowsLock

\* A record that has moved to another position, maybe with a product.
Moved(w, q, pc, product) ==
    /\ q.pc = pc /\ q.job = proc[w].job /\ q.product = product
    /\ q.to = proc[w].to /\ q.next = proc[w].next

LEMMA GoMoves ==
    ASSUME Types, NEW w \in Workers, NEW pc \in {"idle"} \cup ApiPcs \cup LinePcs, Go(w, pc)
    PROVE  Moves(w, proc'[w]) /\ Moved(w, proc'[w], pc, proc[w].product)
<1>1. proc[w] \in Procs
  BY DEF Types
<1>2. [proc[w] EXCEPT !.pc = pc] \in Procs
  BY <1>1 DEF Procs
<1>3. proc' = [proc EXCEPT ![w] = [proc[w] EXCEPT !.pc = pc]]
  BY DEF Go
<1> QED BY <1>1, <1>2, <1>3 DEF Moves, Moved, Types, Procs

LEMMA GoWithMoves ==
    ASSUME Types, NEW w \in Workers, NEW pc \in {"idle"} \cup ApiPcs \cup LinePcs,
           NEW product \in 0..Catalog, GoWith(w, pc, product)
    PROVE  Moves(w, proc'[w]) /\ Moved(w, proc'[w], pc, product)
<1>1. proc[w] \in Procs
  BY DEF Types
<1>2. [[proc[w] EXCEPT !.pc = pc] EXCEPT !.product = product] \in Procs
  BY <1>1 DEF Procs
<1>3. proc' = [proc EXCEPT ![w] = [[proc[w] EXCEPT !.pc = pc] EXCEPT !.product = product]]
  BY <1>1 DEF GoWith, Types
<1> QED BY <1>1, <1>2, <1>3 DEF Moves, Moved, Types, Procs

\* advance() has read the expected status and is about to write, or it gives up.
Advanced(w, q, to, product, next) ==
    /\ q.pc = "flush" /\ q.job = proc[w].job /\ q.to = to /\ q.product = product /\ q.next = next

LEMMA AdvanceMoves ==
    ASSUME Types, NEW w \in Workers, NEW from, NEW to \in ReservationStatus,
           NEW product \in 0..Catalog, NEW next \in {"idle", "create", "link", "complete"},
           Advance(w, from, to, product, next)
    PROVE  \/ Leave(w)
           \/ /\ row[proc[w].job].status = from
              /\ Moves(w, proc'[w])
              /\ Advanced(w, proc'[w], to, product, next)
<1> SUFFICES ASSUME row[proc[w].job].status = from
             PROVE  Moves(w, proc'[w]) /\ Advanced(w, proc'[w], to, product, next)
  BY DEF Advance
<1> DEFINE q == [pc |-> "flush", job |-> proc[w].job, to |-> to, product |-> product, next |-> next]
<1>1. q \in Procs
  BY DEF Types, Procs, LinePcs
<1>2. proc' = [proc EXCEPT ![w] = q]
  BY DEF Advance
<1> QED BY <1>1, <1>2 DEF Types, Moves, Advanced

\* A use case starts, or goes on after a flush.
Begun(q, pc, j, product) ==
    /\ q.pc = pc /\ q.job = j /\ q.product = product /\ q.to = "none" /\ q.next = "idle"

LEMMA BeginMoves ==
    ASSUME Types, NEW w \in Workers, NEW pc \in {"idle"} \cup ApiPcs \cup LinePcs, NEW j \in Jobs,
           NEW product \in 0..Catalog,
           proc' = [proc EXCEPT ![w] = [Idle EXCEPT !.pc = pc, !.job = j, !.product = product]]
    PROVE  Moves(w, proc'[w]) /\ Begun(proc'[w], pc, j, product)
<1> DEFINE q == [Idle EXCEPT !.pc = pc, !.job = j, !.product = product]
<1>1. q = [pc |-> pc, job |-> j, to |-> "none", product |-> product, next |-> "idle"]
  <2> DEFINE a == [Idle EXCEPT !.pc = pc]
             b == [a EXCEPT !.job = j]
  <2>1. a = [pc |-> pc, job |-> NoOne, to |-> "none", product |-> 0, next |-> "idle"]
    BY DEF Idle
  <2>2. b = [pc |-> pc, job |-> j, to |-> "none", product |-> 0, next |-> "idle"]
    <3> HIDE DEF a
    <3> QED BY <2>1
  <2>3. q = [b EXCEPT !.product = product]
    BY DEF Idle
  <2> HIDE DEF b, q
  <2> QED BY <2>2, <2>3
<1>2. q \in Procs
  BY <1>1 DEF Procs, ReservationStatus
<1> QED BY <1>1, <1>2 DEF Types, Moves, Begun

LEMMA UnlockKeeps ==
    ASSUME Types, NEW w \in Workers, Unlock(w)
    PROVE  AuthKept(w)
BY DEF Types, Unlock, AuthKept

LEMMA LockKeeps ==
    ASSUME Types, NEW w \in Workers, proc[w].job \in Jobs, TakeLock(w)
    PROVE  AuthKept(w) /\ authLock'[proc[w].job] = w
BY Constants DEF Types, TakeLock, AuthKept

LEMMA SameAuth == ASSUME Types, NEW w \in Workers, UNCHANGED authLock PROVE AuthKept(w)
BY DEF Types, AuthKept

LEMMA AuthorizedKeeps ==
    ASSUME Types, NEW w \in Workers, proc[w].job \in Jobs, LockAuth(w)
    PROVE  AuthKept(w)
BY LockKeeps, SameAuth DEF LockAuth, Unauthorized


-----------------------------------------------------------------------------
(* What the positions claim, one kind at a time. *)

LEMMA PlainFacts ==
    ASSUME NEW w \in Workers, NEW q, Position(w, q), q.job \in Creators,
           q.pc \in {"reserve", "precheck", "claim", "race", "reconcile", "recover", "complete"}
    PROVE  Facts(w, q) /\ KnowsLock(w, q)' /\ ~Holds(q)
<1>1. q.job \notin MapJobs
  BY Constants DEF Creators
<1>2. ~Holds(q) /\ ~HasProduct(q)
  BY DEF Holds, HasProduct, LinkPcs
<1> QED BY <1>1, <1>2 DEF Facts, KnowsClaim, KnowsLine, KnowsProduct, KnowsFlush, KnowsLink, KnowsLock

LEMMA FlushFacts ==
    ASSUME NEW w \in Workers, NEW q, Position(w, q), q.pc = "flush", q.job \in Creators,
           Holds(q) => claim = q.job /\ Uncreated,
           q.to = "product_created" => Made(q.job) /\ q.product = 1,
           KnowsFlush(q)
    PROVE  Facts(w, q) /\ KnowsLock(w, q)'
<1>1. q.job \notin MapJobs
  BY Constants DEF Creators
<1>2. HasProduct(q) => q.to = "product_created"
  BY DEF HasProduct, LinkPcs
<1> QED BY <1>1, <1>2 DEF Facts, KnowsClaim, KnowsLine, KnowsProduct, KnowsLink, KnowsLock

LEMMA LinkFacts ==
    ASSUME NEW w \in Workers, NEW q, Position(w, q), q.pc \in LinkPcs,
           q.job \in NewJobs => Made(q.job) /\ q.product = 1,
           q.job \in MapJobs => q.product = Catalog,
           KnowsLink(q)
    PROVE  Facts(w, q) /\ ~Holds(q)
<1>1. ~Holds(q)
  BY DEF Holds, LinkPcs
<1>2. HasProduct(q) => q.job \in NewJobs
  BY DEF HasProduct, LinkPcs
<1> QED BY <1>1, <1>2 DEF Facts, KnowsClaim, KnowsLine, KnowsProduct, KnowsFlush, LinkPcs

\* Whose job a process has.
LEMMA ApiJob ==
    ASSUME RemediationInv, NEW w \in ApiWorkers, proc[w].pc # "idle"
    PROVE  w \in Workers /\ w # Tick /\ proc[w].job \in NewJobs /\ proc[w].pc \in ApiPcs
<1>1. w \in Workers /\ w # Tick
  BY RemediationAssumption DEF Workers
<1> QED BY <1>1 DEF RemediationInv, Facts, Position

LEMMA TickJob ==
    ASSUME RemediationInv,
           proc[Tick].pc \in {"start", "insert", "createline", "discard", "recover", "complete"}
    PROVE  proc[Tick].job \in LineJobs
BY Constants DEF RemediationInv, Facts, Position, LinkPcs

LEMMA WorkerJob ==
    ASSUME RemediationInv, NEW w \in Workers, proc[w].pc # "idle"
    PROVE  proc[w].job \in Jobs
BY DEF RemediationInv, Facts, Position, Jobs

\* A use case that gives up.
LEMMA LeaveStep ==
    ASSUME RemediationInv, NEW w \in Workers, Leave(w), UNCHANGED shared, AuthKept(w),
           version' \in [Reviews -> Nat]
    PROVE  RemediationInv'
<1>1. Moves(w, Idle) /\ Facts(w, Idle) /\ KnowsLock(w, Idle)' /\ ~Holds(Idle)
  BY IdleMoves DEF RemediationInv, SharedInv
<1> QED BY <1>1, QuietStep

LEMMA SameVersion == ASSUME RemediationInv, UNCHANGED version PROVE version' \in [Reviews -> Nat]
BY DEF RemediationInv, SharedInv, Types

\* A use case that calls advance().
LEMMA AdvanceStep ==
    ASSUME RemediationInv, NEW w \in Workers, NEW from, NEW to \in ReservationStatus,
           NEW product \in 0..Catalog, NEW next \in {"idle", "create", "link", "complete"},
           Advance(w, from, to, product, next), UNCHANGED shared, AuthKept(w),
           version' \in [Reviews -> Nat],
           proc[w].job \in Creators,
           w # Tick => proc[w].job \in NewJobs,
           w = Tick => proc[w].job \in LineJobs,
           row[proc[w].job].status = from =>
              \A q : Advanced(w, q, to, product, next) =>
                        /\ KnowsFlush(q)
                        /\ Holds(q) => Holds(proc[w])
                        /\ to = "product_created" => Made(proc[w].job) /\ product = 1
    PROVE  RemediationInv'
<1>1. CASE Leave(w)
  BY <1>1, LeaveStep
<1>2. CASE row[proc[w].job].status = from /\ Moves(w, proc'[w])
           /\ Advanced(w, proc'[w], to, product, next)
  <2> PICK q : q = proc'[w]
    OBVIOUS
  <2>1. Moves(w, q) /\ Advanced(w, q, to, product, next)
    BY <1>2 DEF Moves
  <2>2. /\ q.pc = "flush" /\ q.job = proc[w].job /\ q.to = to /\ q.product = product
        /\ KnowsFlush(q) /\ (Holds(q) => Holds(proc[w]))
        /\ q.to = "product_created" => Made(q.job) /\ q.product = 1
    BY <1>2, <2>1 DEF Advanced
  <2>3. Position(w, q)
    BY <2>2 DEF Position, ApiPcs, LinePcs
  <2>4. Holds(q) => claim = q.job /\ Uncreated
    BY <2>2 DEF RemediationInv, Facts, KnowsClaim
  <2>5. Facts(w, q) /\ KnowsLock(w, q)'
    BY <2>2, <2>3, <2>4, FlushFacts
  <2> QED BY <2>1, <2>2, <2>5, QuietStep
<1> QED BY <1>1, <1>2, AdvanceMoves DEF RemediationInv, SharedInv


-----------------------------------------------------------------------------
(* Steps that only decide what to do next: CreateNewProductUseCase. *)

\* A step that leaves everything but proc alone.
LEMMA Silent ==
    ASSUME RemediationInv, NEW w \in Workers,
           UNCHANGED <<version, row, late, claim, products, infos, inflight, latelinks, authLock>>
    PROVE  UNCHANGED shared /\ AuthKept(w) /\ version' \in [Reviews -> Nat]
BY DEF shared, AuthKept, RemediationInv, SharedInv, Types

LEMMA PlainStep ==
    ASSUME RemediationInv, NEW w \in Workers, UNCHANGED shared, AuthKept(w),
           version' \in [Reviews -> Nat], NEW q, Moves(w, q), Position(w, q), q.job \in Creators,
           q.pc \in {"reserve", "precheck", "claim", "race", "reconcile", "recover", "complete"}
    PROVE  RemediationInv'
BY PlainFacts, QuietStep

\* What a resume by status needs to know.
LEMMA ResumeFacts ==
    ASSUME RemediationInv, NEW w \in Workers, w # Tick, NEW j \in NewJobs,
           NEW q, q.pc = ResumeAt(row[j].status), q.job = j, q.product = row[j].product,
           q.pc # "idle"
    PROVE  Facts(w, q) /\ KnowsLock(w, q)' /\ ~Holds(q)
<1>1. q.pc \in {"precheck", "reconcile"} \/ (q.pc = "link" /\ row[j].status = "product_created")
  BY DEF ResumeAt
<1>2. Position(w, q)
  BY <1>1 DEF Position, ApiPcs, LinkPcs
<1>3. CASE q.pc \in {"precheck", "reconcile"}
  BY <1>2, <1>3, PlainFacts DEF Creators
<1>4. CASE q.pc = "link" /\ row[j].status = "product_created"
  <2>1. Made(j) /\ q.product = 1
    BY <1>4 DEF RemediationInv, SharedInv, Records, Creators
  <2> QED BY <1>2, <1>4, <2>1, LinkFacts, Constants DEF LinkPcs, KnowsLink, KnowsLock
<1> QED BY <1>1, <1>3, <1>4

LEMMA SubmitNewStep ==
    ASSUME RemediationInv, NEW w \in ApiWorkers, NEW j \in NewJobs, SubmitNew(w, j)
    PROVE  RemediationInv'
<1>1. w \in Workers /\ w # Tick
  BY RemediationAssumption DEF Workers
<1> PICK pc : pc = IF row[j].status = "none" THEN "reserve" ELSE ResumeAt(row[j].status)
  OBVIOUS
<1>2. /\ pc # "idle"
      /\ proc' = [proc EXCEPT ![w] = [Idle EXCEPT !.pc = pc, !.job = j, !.product = row[j].product]]
  BY DEF SubmitNew
<1>3. pc \in ApiPcs /\ j \in Jobs /\ row[j].product \in 0..Catalog
  BY <1>2 DEF ResumeAt, ApiPcs, LinkPcs, Jobs, RemediationInv, SharedInv, Types, Rows, Creators
<1> PICK q : q = proc'[w]
  OBVIOUS
<1>4. Moves(w, q) /\ Begun(q, pc, j, row[j].product)
  <2>1. Types
    BY DEF RemediationInv, SharedInv
  <2> QED BY <1>1, <1>2, <1>3, <2>1, BeginMoves
<1>5. Facts(w, q) /\ KnowsLock(w, q)' /\ ~Holds(q)
  <2>1. q.pc = pc /\ q.job = j /\ q.product = row[j].product
    BY <1>4 DEF Begun
  <2>2. CASE row[j].status = "none"
    <3>1. Position(w, q)
      BY <1>1, <2>1, <2>2 DEF Position, ApiPcs
    <3> QED BY <1>1, <2>1, <2>2, <3>1, PlainFacts DEF Creators
  <2>3. CASE row[j].status # "none"
    BY <1>1, <1>2, <2>1, <2>3, ResumeFacts
  <2> QED BY <2>2, <2>3
<1>6. UNCHANGED shared /\ AuthKept(w) /\ version' \in [Reviews -> Nat]
  BY <1>1, Silent DEF SubmitNew
<1> QED BY <1>1, <1>4, <1>5, <1>6, QuietStep

LEMMA PrecheckStep ==
    ASSUME RemediationInv, NEW w \in ApiWorkers, Precheck(w)
    PROVE  RemediationInv'
<1>1. w \in Workers /\ w # Tick /\ proc[w].job \in NewJobs
  BY ApiJob DEF Precheck, At
<1>2. UNCHANGED shared /\ AuthKept(w) /\ version' \in [Reviews -> Nat]
  BY <1>1, Silent DEF Precheck
<1>3. Types
  BY DEF RemediationInv, SharedInv
<1>4. CASE Go(w, "claim")
  <2> PICK q : q = proc'[w]
    OBVIOUS
  <2>1. Moves(w, q) /\ Moved(w, q, "claim", proc[w].product)
    BY <1>1, <1>3, <1>4, GoMoves DEF ApiPcs
  <2>2. q.pc = "claim" /\ q.job \in NewJobs
    BY <1>1, <2>1 DEF Moved
  <2>3. Position(w, q)
    BY <1>1, <2>2 DEF Position, ApiPcs
  <2> QED BY <1>1, <1>2, <2>1, <2>2, <2>3, PlainStep DEF Creators
<1>5. CASE Len(infos) = 1 /\ GoWith(w, "reuse", infos[1].product)
  <2>0. infos # <<>> /\ infos[1] \in Infos
    BY <1>3, <1>5, Single DEF Types
  <2>1. infos[1].product \in 0..Catalog
    BY <2>0 DEF Infos
  <2> PICK q : q = proc'[w]
    OBVIOUS
  <2>2. Moves(w, q) /\ Moved(w, q, "reuse", infos[1].product)
    BY <1>1, <1>3, <1>5, <2>1, GoWithMoves DEF ApiPcs
  <2>3. q.pc = "reuse" /\ q.job \in NewJobs /\ q.product = infos[1].product
    BY <1>1, <2>2 DEF Moved
  <2>4. Position(w, q)
    BY <1>1, <2>3 DEF Position, ApiPcs
  <2>5. ~Holds(q) /\ ~HasProduct(q) /\ q.job \notin MapJobs
    BY <2>3, Constants DEF Holds, HasProduct, LinkPcs
  <2>6. Facts(w, q) /\ KnowsLock(w, q)'
    BY <2>0, <2>3, <2>4, <2>5 DEF Facts, KnowsClaim, KnowsLine, KnowsProduct, KnowsFlush, KnowsLink, KnowsLock
  <2> QED BY <1>1, <1>2, <2>2, <2>5, <2>6, QuietStep
<1>6. CASE Leave(w)
  BY <1>1, <1>2, <1>6, LeaveStep
<1> QED BY <1>4, <1>5, <1>6 DEF Precheck

LEMMA ResolveRaceStep ==
    ASSUME RemediationInv, NEW w \in ApiWorkers, ResolveRace(w)
    PROVE  RemediationInv'
<1>1. w \in Workers /\ w # Tick /\ proc[w].job \in NewJobs
  BY ApiJob DEF ResolveRace, At
<1>2. UNCHANGED shared /\ AuthKept(w) /\ version' \in [Reviews -> Nat]
  BY <1>1, Silent DEF ResolveRace
<1>3. CASE Leave(w)
  BY <1>1, <1>2, <1>3, LeaveStep
<1>4. CASE /\ claim \in NewJobs /\ row[claim].product # 0
           /\ Advance(w, "reserved", "reused_existing_product", row[claim].product, "idle")
  <2>1. row[claim].product \in 0..Catalog
    BY <1>4 DEF RemediationInv, SharedInv, Types, Rows, Creators
  <2>2. row[proc[w].job].status = "reserved" => Hampered(proc[w].job)
    <3> SUFFICES ASSUME row[proc[w].job].status = "reserved", claim = proc[w].job
                 PROVE  Hampered(proc[w].job)
      BY <1>4 DEF Hampered
    <3>1. ~Made(claim)
      BY DEF RemediationInv, SharedInv, Barrier, Uncreated, Attempted, Made
    <3> QED BY <1>4, <3>1 DEF RemediationInv, SharedInv, Records, Creators
  <2>3. ASSUME row[proc[w].job].status = "reserved", NEW q,
               Advanced(w, q, "reused_existing_product", row[claim].product, "idle")
        PROVE  KnowsFlush(q) /\ ~Holds(q)
    <3>1. /\ q.pc = "flush" /\ q.job = proc[w].job /\ q.to = "reused_existing_product"
          /\ q.next = "idle"
      BY <2>3 DEF Advanced
    <3> QED BY <1>1, <2>2, <2>3, <3>1, Constants DEF KnowsFlush, Holds
  <2> HIDE DEF Hampered
  <2> QED BY <1>1, <1>2, <1>4, <2>1, <2>3, AdvanceStep DEF Creators, ReservationStatus
<1> QED BY <1>3, <1>4 DEF ResolveRace


LEMMA AttemptStep ==
    ASSUME RemediationInv, NEW w \in ApiWorkers, Attempt(w)
    PROVE  RemediationInv'
<1>1. w \in Workers /\ w # Tick /\ proc[w].job \in NewJobs
  BY ApiJob DEF Attempt, At
<1>2. UNCHANGED shared /\ AuthKept(w) /\ version' \in [Reviews -> Nat]
  BY <1>1, Silent DEF Attempt
<1>3. Holds(proc[w])
  BY DEF Attempt, At, Holds
<1>4. ASSUME NEW q, Advanced(w, q, "create_attempted", 0, "create")
      PROVE  KnowsFlush(q)
  <2>1. /\ q.pc = "flush" /\ q.job = proc[w].job /\ q.to = "create_attempted"
        /\ q.product = 0 /\ q.next = "create"
    BY <1>4 DEF Advanced
  <2> QED BY <1>1, <2>1, Constants DEF KnowsFlush
<1>5. Advance(w, "reserved", "create_attempted", 0, "create")
  BY DEF Attempt
<1>6. 0 \in 0..Catalog
  BY Constants
<1> QED BY <1>1, <1>2, <1>3, <1>4, <1>5, <1>6, AdvanceStep DEF Creators, ReservationStatus

LEMMA RevertAttemptStep ==
    ASSUME RemediationInv, NEW w \in ApiWorkers, RevertAttempt(w)
    PROVE  RemediationInv'
<1>1. w \in Workers /\ w # Tick /\ proc[w].job \in NewJobs
  BY ApiJob DEF RevertAttempt, At
<1>2. UNCHANGED shared /\ AuthKept(w) /\ version' \in [Reviews -> Nat]
  BY <1>1, Silent DEF RevertAttempt
<1>3. Holds(proc[w])
  BY DEF RevertAttempt, At, Holds
<1>4. ASSUME NEW q, Advanced(w, q, "reserved", 0, "idle")
      PROVE  KnowsFlush(q)
  <2>1. /\ q.pc = "flush" /\ q.job = proc[w].job /\ q.to = "reserved"
        /\ q.product = 0 /\ q.next = "idle"
    BY <1>4 DEF Advanced
  <2> QED BY <1>1, <2>1, Constants DEF KnowsFlush
<1>5. Advance(w, "create_attempted", "reserved", 0, "idle")
  BY DEF RevertAttempt
<1>6. 0 \in 0..Catalog
  BY Constants
<1> QED BY <1>1, <1>2, <1>3, <1>4, <1>5, <1>6, AdvanceStep DEF Creators, ReservationStatus

LEMMA ReconcileStep ==
    ASSUME RemediationInv, NEW w \in ApiWorkers, Reconcile(w)
    PROVE  RemediationInv'
<1>1. w \in Workers /\ w # Tick /\ proc[w].job \in NewJobs
  BY ApiJob DEF Reconcile, At
<1>2. UNCHANGED shared /\ AuthKept(w) /\ version' \in [Reviews -> Nat]
  BY <1>1, Silent DEF Reconcile
<1>4. ASSUME NEW q, Advanced(w, q, "needs_reconciliation", 0, "idle")
      PROVE  KnowsFlush(q) /\ ~Holds(q)
  <2>1. /\ q.pc = "flush" /\ q.job = proc[w].job /\ q.to = "needs_reconciliation"
        /\ q.product = 0 /\ q.next = "idle"
    BY <1>4 DEF Advanced
  <2> QED BY <1>1, <2>1, Constants DEF KnowsFlush, Holds
<1>5. Advance(w, "create_attempted", "needs_reconciliation", 0, "idle")
  BY DEF Reconcile
<1>6. 0 \in 0..Catalog
  BY Constants
<1> QED BY <1>1, <1>2, <1>4, <1>5, <1>6, AdvanceStep DEF Creators, ReservationStatus

LEMMA CreateRefusedStep ==
    ASSUME RemediationInv, NEW w \in ApiWorkers, CreateRefused(w)
    PROVE  RemediationInv'
<1>1. w \in Workers /\ w # Tick /\ proc[w].job \in NewJobs
  BY ApiJob DEF CreateRefused, At
<1>2. UNCHANGED shared /\ AuthKept(w) /\ version' \in [Reviews -> Nat]
  BY <1>1, Silent DEF CreateRefused
<1>3. Holds(proc[w]) /\ claim = proc[w].job /\ Uncreated
  BY <1>1 DEF CreateRefused, At, Holds, RemediationInv, Facts, KnowsClaim
<1> PICK q : q = proc'[w]
  OBVIOUS
<1>4. Moves(w, q) /\ Moved(w, q, "revert", proc[w].product)
  <2>1. Types /\ Go(w, "revert")
    BY DEF RemediationInv, SharedInv, CreateRefused
  <2> QED BY <1>1, <2>1, GoMoves DEF ApiPcs
<1>5. q.pc = "revert" /\ q.job = proc[w].job
  BY <1>4 DEF Moved
<1>6. Position(w, q)
  BY <1>1, <1>5 DEF Position, ApiPcs
<1>7. Facts(w, q) /\ KnowsLock(w, q)'
  BY <1>1, <1>3, <1>5, <1>6, Constants DEF Facts, KnowsClaim, KnowsLine, KnowsProduct, KnowsFlush,
     KnowsLink, KnowsLock, HasProduct, LinkPcs
<1> QED BY <1>1, <1>2, <1>3, <1>4, <1>7, QuietStep

\* The product of a create that Odoo answered is recorded by both use cases.
LEMMA RecordCreatedStep ==
    ASSUME RemediationInv, NEW w \in Workers, RecordCreated(w)
    PROVE  RemediationInv'
<1>1. /\ proc[w].job \in Creators
      /\ w # Tick => proc[w].job \in NewJobs
      /\ w = Tick => proc[w].job \in LineJobs
  BY DEF RecordCreated, At, RemediationInv, Facts, Position, LinkPcs, Creators
<1>2. Made(proc[w].job) /\ proc[w].product = 1 /\ 1 \in 0..Catalog
  BY Constants DEF RecordCreated, At, RemediationInv, Facts, KnowsProduct, HasProduct
<1>3. UNCHANGED shared /\ AuthKept(w) /\ version' \in [Reviews -> Nat]
  <2>1. AuthKept(w)
    BY UnlockKeeps, SameAuth DEF RecordCreated, RemediationInv, SharedInv
  <2> QED BY <2>1, SameVersion DEF RecordCreated, shared
<1> PICK next \in {"link", "complete"} : next = IF proc[w].job \in NewJobs THEN "link" ELSE "complete"
  OBVIOUS
<1>4. ASSUME NEW q, Advanced(w, q, "product_created", 1, next)
      PROVE  KnowsFlush(q) /\ ~Holds(q)
  <2>1. /\ q.pc = "flush" /\ q.job = proc[w].job /\ q.to = "product_created"
        /\ q.product = 1 /\ q.next = next
    BY <1>4 DEF Advanced
  <2> QED BY <1>1, <2>1, Constants DEF KnowsFlush, Holds, Creators, CreationStatus
<1>5. Advance(w, "create_attempted", "product_created", 1, next)
  BY <1>2 DEF RecordCreated
<1> QED BY <1>1, <1>2, <1>3, <1>4, <1>5, AdvanceStep DEF ReservationStatus


-----------------------------------------------------------------------------
(* Steps that only decide what to do next: the supplierinfo writer. *)

\* What a process in the writer knows.
LEMMA LinkJob ==
    ASSUME RemediationInv, NEW w \in Workers, proc[w].pc \in LinkPcs
    PROVE  /\ proc[w].job \in Jobs
           /\ proc[w].job \in NewJobs =>
                 w # Tick /\ Made(proc[w].job) /\ proc[w].product = 1
           /\ proc[w].job \notin NewJobs =>
                 w = Tick /\ proc[w].job \in MapJobs /\ proc[w].product = Catalog
           /\ proc[w].product \in 0..Catalog
<1>1. Position(w, proc[w]) /\ proc[w].pc \notin LinePcs /\ proc[w].pc # "idle"
  BY DEF RemediationInv, Facts, LinkPcs, LinePcs
<1>2. \/ w # Tick /\ proc[w].job \in NewJobs
      \/ w = Tick /\ proc[w].job \in MapJobs
  BY <1>1 DEF Position
<1>3. proc[w].job \in MapJobs => proc[w].job \notin NewJobs
  BY Constants
<1>4. KnowsProduct(proc[w])
  BY DEF RemediationInv, Facts
<1>5. proc[w].product \in 0..Catalog
  BY DEF RemediationInv, SharedInv, Types, Procs
<1> QED BY <1>2, <1>3, <1>4, <1>5 DEF KnowsProduct, HasProduct, Jobs

LEMMA LinkMoveFacts ==
    ASSUME RemediationInv, NEW w \in Workers, proc[w].pc \in LinkPcs, NEW q, NEW pc \in LinkPcs,
           Moved(w, q, pc, proc[w].product), KnowsLink(q)
    PROVE  Facts(w, q) /\ ~Holds(q)
<1>1. q.pc = pc /\ q.job = proc[w].job /\ q.product = proc[w].product
  BY DEF Moved
<1>2. Position(w, q)
  BY <1>1, LinkJob DEF Position, ApiPcs
<1> QED BY <1>1, <1>2, LinkJob, LinkFacts, Constants

LEMMA LinkStep ==
    ASSUME RemediationInv, NEW w \in Workers, Link(w)
    PROVE  RemediationInv'
<1>0. Types /\ proc[w].pc = "link" /\ proc[w].pc \in LinkPcs
  BY DEF RemediationInv, SharedInv, Link, At, LinkPcs
<1>1. UNCHANGED shared /\ version' \in [Reviews -> Nat]
  BY SameVersion DEF Link, shared
<1>2. CASE Leave(w) /\ Unlock(w)
  BY <1>0, <1>1, <1>2, LeaveStep, UnlockKeeps
<1>3. CASE Len(infos) = 0 /\ TakeLock(w) /\ Go(w, "linkwrite")
  <2> PICK q : q = proc'[w]
    OBVIOUS
  <2>1. Moves(w, q) /\ Moved(w, q, "linkwrite", proc[w].product)
    BY <1>0, <1>3, GoMoves DEF ApiPcs, LinkPcs
  <2>2. q.pc = "linkwrite" /\ q.job = proc[w].job
    BY <2>1 DEF Moved
  <2>3. OwnLinks = {}
    BY <1>0, <1>3 DEF Types, OwnLinks
  <2>4. Facts(w, q) /\ ~Holds(q)
    BY <1>0, <2>1, <2>2, <2>3, LinkMoveFacts DEF KnowsLink, LinkPcs
  <2>5. AuthKept(w) /\ authLock'[proc[w].job] = w
    BY <1>0, <1>3, LockKeeps, LinkJob
  <2>6. KnowsLock(w, q)'
    BY <2>2, <2>5 DEF KnowsLock
  <2> QED BY <1>1, <2>1, <2>4, <2>5, <2>6, QuietStep
<1>5. CASE Len(infos) = 0 /\ Unauthorized(w) /\ Go(w, "linkfree")
  <2> PICK q : q = proc'[w]
    OBVIOUS
  <2>1. Moves(w, q) /\ Moved(w, q, "linkfree", proc[w].product)
    BY <1>0, <1>5, GoMoves DEF ApiPcs, LinkPcs
  <2>2. q.pc = "linkfree" /\ q.job = proc[w].job
    BY <2>1 DEF Moved
  <2>3. Facts(w, q) /\ ~Holds(q)
    BY <1>0, <2>1, <2>2, LinkMoveFacts DEF KnowsLink, LinkPcs
  <2>4. AuthKept(w) /\ KnowsLock(w, q)'
    BY <1>0, <1>5, <2>2, SameAuth DEF Unauthorized, KnowsLock
  <2> QED BY <1>1, <2>1, <2>3, <2>4, QuietStep
<1>4. CASE Len(infos) = 1 /\ infos[1].product = proc[w].product /\ LockAuth(w) /\ Go(w, "linked")
  <2> PICK q : q = proc'[w]
    OBVIOUS
  <2>1. Moves(w, q) /\ Moved(w, q, "linked", proc[w].product)
    BY <1>0, <1>4, GoMoves DEF ApiPcs, LinkPcs
  <2>2. q.pc = "linked" /\ q.job = proc[w].job
    BY <2>1 DEF Moved
  <2>3. q.job \in NewJobs => LinkedFirst
    BY <1>0, <1>4, <2>2, Single, LinkJob DEF Types, LinkedFirst
  <2>4. Facts(w, q) /\ ~Holds(q)
    BY <1>0, <2>1, <2>2, <2>3, LinkMoveFacts DEF KnowsLink, LinkPcs
  <2>5. AuthKept(w)
    BY <1>0, <1>4, AuthorizedKeeps, LinkJob
  <2>6. KnowsLock(w, q)'
    BY <2>2 DEF KnowsLock
  <2> QED BY <1>1, <2>1, <2>4, <2>5, <2>6, QuietStep
<1> QED BY <1>2, <1>3, <1>4, <1>5 DEF Link

LEMMA VerifyLinkStep ==
    ASSUME RemediationInv, NEW w \in Workers, VerifyLink(w)
    PROVE  RemediationInv'
<1>0. Types /\ proc[w].pc = "verify" /\ proc[w].pc \in LinkPcs
  BY DEF RemediationInv, SharedInv, VerifyLink, At, LinkPcs
<1>1. UNCHANGED shared /\ version' \in [Reviews -> Nat]
  BY SameVersion DEF VerifyLink, shared
<1>2. CASE Leave(w) /\ Unlock(w)
  BY <1>0, <1>1, <1>2, LeaveStep, UnlockKeeps
<1>3. CASE Len(infos) = 1 /\ Go(w, "linked") /\ UNCHANGED authLock
  <2> PICK q : q = proc'[w]
    OBVIOUS
  <2>1. Moves(w, q) /\ Moved(w, q, "linked", proc[w].product)
    BY <1>0, <1>3, GoMoves DEF ApiPcs, LinkPcs
  <2>2. q.pc = "linked" /\ q.job = proc[w].job
    BY <2>1 DEF Moved
  <2>3. q.job \in NewJobs => LinkedFirst
    <3>1. q.job \in NewJobs => \E i \in DOMAIN infos : infos[i].product = 1
      BY <1>0, <2>2 DEF RemediationInv, Facts, KnowsLink
    <3>2. infos # <<>> /\ DOMAIN infos = {1}
      BY <1>0, <1>3, Single DEF Types
    <3> QED BY <3>1, <3>2 DEF LinkedFirst
  <2>4. Facts(w, q) /\ ~Holds(q)
    BY <1>0, <2>1, <2>2, <2>3, LinkMoveFacts DEF KnowsLink, LinkPcs
  <2>6. KnowsLock(w, q)'
    BY <2>2 DEF KnowsLock
  <2> QED BY <1>0, <1>1, <1>3, <2>1, <2>4, <2>6, QuietStep, SameAuth
<1> QED BY <1>2, <1>3 DEF VerifyLink

LEMMA LinkedStep ==
    ASSUME RemediationInv, NEW w \in Workers, Linked(w)
    PROVE  RemediationInv'
<1>0. Types /\ proc[w].pc = "linked" /\ proc[w].pc \in LinkPcs
  BY DEF RemediationInv, SharedInv, Linked, At, LinkPcs
<1>1. UNCHANGED shared
  BY DEF Linked, shared
<1>2. CASE proc[w].job \in NewJobs
  <2>1. AuthKept(w)
    BY <1>0, <1>2, UnlockKeeps, SameAuth DEF Linked
  <2>2. Made(proc[w].job) /\ LinkedFirst
    BY <1>0, <1>2, LinkJob DEF RemediationInv, Facts, KnowsLink
  <2>3. ASSUME row[proc[w].job].status = "product_created", NEW q, Advanced(w, q, "completed", 0, "idle")
        PROVE  KnowsFlush(q) /\ ~Holds(q)
    <3>1. /\ q.pc = "flush" /\ q.job = proc[w].job /\ q.to = "completed"
          /\ q.product = 0 /\ q.next = "idle"
      BY <2>3 DEF Advanced
    <3>2. row[proc[w].job].product = 1
      BY <1>2, <2>3 DEF RemediationInv, SharedInv, Records, Creators
    <3> QED BY <1>2, <2>2, <3>1, <3>2, Constants DEF KnowsFlush, Holds
  <2>4. Advance(w, "product_created", "completed", 0, "idle") /\ version' \in [Reviews -> Nat]
    BY <1>2, SameVersion DEF Linked
  <2>5. 0 \in 0..Catalog /\ w # Tick
    BY <1>0, <1>2, Constants, LinkJob
  <2> QED BY <1>1, <1>2, <2>1, <2>3, <2>4, <2>5, AdvanceStep DEF Creators, ReservationStatus
<1>3. CASE proc[w].job \notin NewJobs
  <2>1. Leave(w) /\ Unlock(w)
    BY <1>3 DEF Linked
  <2>2. version' \in [Reviews -> Nat]
    <3>1. ReviewOf[proc[w].job] \in Reviews
      BY <1>0, LinkJob DEF Reviews
    <3> QED BY <1>0, <1>3, <3>1 DEF Linked, Types
  <2> QED BY <1>0, <1>1, <2>1, <2>2, LeaveStep, UnlockKeeps
<1> QED BY <1>2, <1>3


-----------------------------------------------------------------------------
(* Steps that only decide what to do next: the tick's use cases. *)

LEMMA SubmitLineStep ==
    ASSUME RemediationInv, NEW j \in LineJobs, SubmitLine(j)
    PROVE  RemediationInv'
<1>1. Tick \in Workers /\ Types
  BY Constants DEF RemediationInv, SharedInv
<1> PICK pc : pc = CASE row[j].status = "none" -> "start"
                     [] row[j].status = "create_attempted" -> "recover"
                     [] row[j].status = "product_created" -> "complete"
                     [] OTHER -> "idle"
  OBVIOUS
<1>2. /\ pc # "idle"
      /\ proc' = [proc EXCEPT ![Tick] = [Idle EXCEPT !.pc = pc, !.job = j, !.product = row[j].product]]
  BY DEF SubmitLine
<1>3. pc \in {"start", "recover", "complete"} /\ (pc = "start" => row[j].status = "none")
  BY <1>2
<1>4. pc \in LinePcs /\ j \in Jobs /\ row[j].product \in 0..Catalog
  BY <1>1, <1>3 DEF LinePcs, Jobs, Types, Rows, Creators
<1> PICK q : q = proc'[Tick]
  OBVIOUS
<1>5. Moves(Tick, q) /\ Begun(q, pc, j, row[j].product)
  BY <1>1, <1>2, <1>4, BeginMoves
<1>6. q.pc = pc /\ q.job = j
  BY <1>5 DEF Begun
<1>7. Position(Tick, q)
  BY <1>4, <1>6 DEF Position
<1>8. Facts(Tick, q) /\ KnowsLock(Tick, q)' /\ ~Holds(q)
  <2>1. CASE pc \in {"recover", "complete"}
    BY <1>1, <1>6, <1>7, <2>1, PlainFacts DEF Creators
  <2>2. CASE pc = "start"
    <3>1. ~Holds(q) /\ ~HasProduct(q)
      BY <1>6, <2>2 DEF Holds, HasProduct, LinkPcs
    <3> QED BY <1>3, <1>6, <1>7, <2>2, <3>1, Constants DEF Facts, KnowsClaim, KnowsLine,
            KnowsProduct, KnowsFlush, KnowsLink, KnowsLock
  <2> QED BY <1>3, <2>1, <2>2
<1>9. UNCHANGED shared /\ AuthKept(Tick) /\ version' \in [Reviews -> Nat]
  BY <1>1, Silent DEF SubmitLine
<1> QED BY <1>1, <1>5, <1>8, <1>9, QuietStep

LEMMA SubmitMapStep ==
    ASSUME RemediationInv, NEW j \in MapJobs, SubmitMap(j)
    PROVE  RemediationInv'
<1>1. Tick \in Workers /\ Types
  BY Constants DEF RemediationInv, SharedInv
<1>2. proc' = [proc EXCEPT ![Tick] = [Idle EXCEPT !.pc = "link", !.job = j, !.product = Catalog]]
  BY DEF SubmitMap
<1>4. "link" \in ApiPcs /\ j \in Jobs /\ Catalog \in 0..Catalog
  BY Constants DEF ApiPcs, LinkPcs, Jobs
<1> PICK q : q = proc'[Tick]
  OBVIOUS
<1>5. Moves(Tick, q) /\ Begun(q, "link", j, Catalog)
  BY <1>1, <1>2, <1>4, BeginMoves
<1>6. q.pc = "link" /\ q.job = j /\ q.product = Catalog
  BY <1>5 DEF Begun
<1>7. Position(Tick, q)
  BY <1>4, <1>6 DEF Position, LinkPcs
<1>8. Facts(Tick, q) /\ KnowsLock(Tick, q)' /\ ~Holds(q)
  BY <1>1, <1>6, <1>7, LinkFacts, Constants DEF LinkPcs, KnowsLink, KnowsLock
<1>9. UNCHANGED shared /\ AuthKept(Tick) /\ version' \in [Reviews -> Nat]
  BY <1>1, Silent DEF SubmitMap
<1> QED BY <1>1, <1>5, <1>8, <1>9, QuietStep

\* A discard is safe as long as the attempt that it takes back cannot have created anything.
LEMMA ToDiscard ==
    ASSUME RemediationInv, NEW product \in 0..Catalog, proc[Tick].job \in LineJobs,
           claim = proc[Tick].job => Uncreated, NEW q, Moves(Tick, q), Moved(Tick, q, "discard", product),
           UNCHANGED <<version, row, late, claim, products, infos, inflight, latelinks, authLock>>
    PROVE  RemediationInv'
<1>1. Tick \in Workers
  BY Constants
<1>2. q.pc = "discard" /\ q.job = proc[Tick].job
  BY DEF Moved
<1>3. Position(Tick, q) /\ ~Holds(q) /\ ~HasProduct(q)
  BY <1>2 DEF Position, LinePcs, Holds, HasProduct, LinkPcs
<1>4. Facts(Tick, q) /\ KnowsLock(Tick, q)'
  BY <1>2, <1>3, Constants DEF Facts, KnowsClaim, KnowsLine, KnowsProduct, KnowsFlush, KnowsLink,
     KnowsLock
<1> QED BY <1>1, <1>3, <1>4, Silent, QuietStep

LEMMA CreateLineRefusedStep ==
    ASSUME RemediationInv, CreateLineRefused
    PROVE  RemediationInv'
<1>1. Tick \in Workers /\ Types /\ 0 \in 0..Catalog /\ proc[Tick].job \in LineJobs
  BY Constants, TickJob DEF RemediationInv, SharedInv, CreateLineRefused, At
<1>2. Uncreated
  BY <1>1 DEF CreateLineRefused, At, Holds, RemediationInv, Facts, KnowsClaim
<1> PICK q : q = proc'[Tick]
  OBVIOUS
<1>3. Moves(Tick, q) /\ Moved(Tick, q, "discard", 0)
  BY <1>1, GoWithMoves DEF CreateLineRefused, LinePcs
<1> QED BY <1>1, <1>2, <1>3, ToDiscard DEF CreateLineRefused

LEMMA RecoverStep ==
    ASSUME RemediationInv, Recover
    PROVE  RemediationInv'
<1>1. Tick \in Workers /\ Types /\ proc[Tick].job \in LineJobs
  BY Constants, TickJob DEF RemediationInv, SharedInv, Recover, At
<1>2. UNCHANGED shared /\ AuthKept(Tick) /\ version' \in [Reviews -> Nat]
  BY <1>1, Silent DEF Recover
<1>3. CASE Leave(Tick)
  BY <1>1, <1>2, <1>3, LeaveStep
<1>4. CASE infos = <<>> /\ proc[Tick].job \in late /\ Go(Tick, "discard")
  <2> PICK q : q = proc'[Tick]
    OBVIOUS
  <2>1. Moves(Tick, q) /\ Moved(Tick, q, "discard", proc[Tick].product)
    BY <1>1, <1>4, GoMoves DEF LinePcs
  <2>2. claim = proc[Tick].job => Uncreated
    BY <1>1, <1>4 DEF RemediationInv, SharedInv, Barrier, Uncreated
  <2>3. proc[Tick].product \in 0..Catalog
    BY <1>1 DEF Types, Procs
  <2> QED BY <1>1, <2>1, <2>2, <2>3, ToDiscard DEF Recover
<1>5. CASE /\ Len(infos) = 1 /\ infos[1].product \in MadeBy(proc[Tick].job)
           /\ Advance(Tick, "create_attempted", "product_created", infos[1].product, "complete")
  <2>1. Made(proc[Tick].job) /\ infos[1].product = 1
    <3>1. products # <<>> /\ infos[1].product \in DOMAIN products
          /\ products[infos[1].product] = proc[Tick].job
      BY <1>5 DEF MadeBy
    <3>2. products = <<claim>>
      BY <3>1 DEF RemediationInv, SharedInv, Barrier, Made
    <3>3. infos[1].product = 1 /\ claim = proc[Tick].job
      BY <3>1, <3>2
    <3> QED BY <3>2, <3>3 DEF Made
  <2>2. ASSUME NEW q, Advanced(Tick, q, "product_created", 1, "complete")
        PROVE  KnowsFlush(q) /\ ~Holds(q)
    <3>1. /\ q.pc = "flush" /\ q.job = proc[Tick].job /\ q.to = "product_created"
          /\ q.product = 1 /\ q.next = "complete"
      BY <2>2 DEF Advanced
    <3> QED BY <1>1, <3>1, Constants DEF KnowsFlush, Holds, CreationStatus
  <2>3. 1 \in 0..Catalog /\ Advance(Tick, "create_attempted", "product_created", 1, "complete")
    BY <1>5, <2>1, Constants
  <2> QED BY <1>1, <1>2, <2>1, <2>2, <2>3, AdvanceStep DEF Creators, ReservationStatus
<1>6. CASE Advance(Tick, "create_attempted", "needs_reconciliation", 0, "idle")
  <2>2. ASSUME NEW q, Advanced(Tick, q, "needs_reconciliation", 0, "idle")
        PROVE  KnowsFlush(q) /\ ~Holds(q)
    <3>1. /\ q.pc = "flush" /\ q.job = proc[Tick].job /\ q.to = "needs_reconciliation"
          /\ q.product = 0 /\ q.next = "idle"
      BY <2>2 DEF Advanced
    <3> QED BY <1>1, <3>1, Constants DEF KnowsFlush, Holds, CreationStatus
  <2>3. 0 \in 0..Catalog
    BY Constants
  <2> QED BY <1>1, <1>2, <1>6, <2>2, <2>3, AdvanceStep DEF Creators, ReservationStatus
<1> QED BY <1>3, <1>4, <1>5, <1>6 DEF Recover

LEMMA CompleteLineStep ==
    ASSUME RemediationInv, CompleteLine
    PROVE  RemediationInv'
<1>1. Tick \in Workers /\ Types /\ proc[Tick].job \in LineJobs /\ 0 \in 0..Catalog
  BY Constants, TickJob DEF RemediationInv, SharedInv, CompleteLine, At
<1>2. UNCHANGED shared /\ AuthKept(Tick) /\ version' \in [Reviews -> Nat]
  BY <1>1, Silent DEF CompleteLine
<1>3. CASE Leave(Tick)
  BY <1>1, <1>2, <1>3, LeaveStep
<1>4. CASE /\ Len(infos) = 1 /\ infos[1].product = row[proc[Tick].job].product
           /\ Advance(Tick, "product_created", "completed", 0, "idle")
  <2>1. row[proc[Tick].job].status = "product_created" =>
           Made(proc[Tick].job) /\ row[proc[Tick].job].product = 1 /\ LinkedFirst
    BY <1>1, <1>4, Single DEF RemediationInv, SharedInv, Records, Creators, Types, LinkedFirst
  <2>2. ASSUME row[proc[Tick].job].status = "product_created", NEW q,
               Advanced(Tick, q, "completed", 0, "idle")
        PROVE  KnowsFlush(q) /\ ~Holds(q)
    <3>1. /\ q.pc = "flush" /\ q.job = proc[Tick].job /\ q.to = "completed"
          /\ q.product = 0 /\ q.next = "idle"
      BY <2>2 DEF Advanced
    <3> QED BY <1>1, <2>1, <2>2, <3>1, Constants DEF KnowsFlush, Holds, CreationStatus
  <2> QED BY <1>1, <1>2, <1>4, <2>2, AdvanceStep DEF Creators, ReservationStatus
<1>5. CASE Advance(Tick, "product_created", "needs_reconciliation", 0, "idle")
  <2>2. ASSUME NEW q, Advanced(Tick, q, "needs_reconciliation", 0, "idle")
        PROVE  KnowsFlush(q) /\ ~Holds(q)
    <3>1. /\ q.pc = "flush" /\ q.job = proc[Tick].job /\ q.to = "needs_reconciliation"
          /\ q.product = 0 /\ q.next = "idle"
      BY <2>2 DEF Advanced
    <3> QED BY <1>1, <3>1, Constants DEF KnowsFlush, Holds, CreationStatus
  <2> QED BY <1>1, <1>2, <1>5, <2>2, AdvanceStep DEF Creators, ReservationStatus
<1> QED BY <1>3, <1>4, <1>5 DEF CompleteLine


-----------------------------------------------------------------------------
(* Steps that write the rows of the Hub. *)

LEMMA IdleAfter ==
    ASSUME Types, NEW w \in Workers, Leave(w)
    PROVE  Moves(w, Idle) /\ Facts(w, Idle)' /\ KnowsLock(w, Idle)' /\ ~Holds(Idle)
<1>1. Moves(w, Idle) /\ KnowsLock(w, Idle)' /\ ~Holds(Idle)
  BY IdleMoves
<1>2. Idle.pc = "idle" /\ Idle.job = NoOne
  BY DEF Idle
<1>3. NoOne \notin NewJobs /\ NoOne \notin MapJobs /\ NoOne \notin LineJobs
  BY Constants DEF Jobs
<1>4. Facts(w, Idle)'
  BY <1>1, <1>2, <1>3 DEF Facts, Position, KnowsClaim, KnowsLine, KnowsProduct, KnowsFlush, KnowsLink,
       HasProduct, LinkPcs
<1> QED BY <1>1, <1>4

\* The general step, for a record that has a name.
LEMMA LoudStep ==
    ASSUME RemediationInv, SharedInv', Monotone, NEW w \in Workers, NEW q, Moves(w, q),
           \A x \in Workers \ {w} : Spared(x),
           Facts(w, q)', KnowsLock(w, q)',
           Holds(q) => \A x \in Workers \ {w} : ~Holds(proc[x])
    PROVE  RemediationInv'
<1>1. Facts(w, proc[w])' /\ KnowsLock(w, proc[w])'
  BY DEF Moves, Facts, Position, KnowsClaim, KnowsLine, KnowsProduct, KnowsFlush, KnowsLink,
         KnowsLock, Holds, HasProduct
<1>2. Holds(proc'[w]) => \A x \in Workers \ {w} : ~Holds(proc[x])
  BY DEF Moves
<1> QED BY <1>1, <1>2, WorkerMoves DEF Moves

LEMMA FlushJob ==
    ASSUME RemediationInv, NEW w \in Workers, proc[w].pc = "flush"
    PROVE  /\ proc[w].job \in Creators
           /\ w # Tick => proc[w].job \in NewJobs
           /\ w = Tick => proc[w].job \in LineJobs
           /\ KnowsFlush(proc[w])
           /\ proc[w].to = "product_created" => Made(proc[w].job) /\ proc[w].product = 1
           /\ proc[w].to = "reserved" => Holds(proc[w])
           /\ Holds(proc[w]) => claim = proc[w].job /\ Uncreated
           /\ proc[w].to \in ReservationStatus /\ proc[w].product \in 0..Catalog
           /\ proc[w].next \in {"idle", "create", "link", "complete"}
<1>1. Facts(w, proc[w]) /\ proc[w] \in Procs
  BY DEF RemediationInv, SharedInv, Types
<1> QED BY <1>1 DEF Facts, Position, LinkPcs, KnowsProduct, HasProduct, KnowsClaim, Holds, Creators, Procs

\* A flush records a product only when the product is there, or belongs to another command.
LEMMA FlushedProduct ==
    ASSUME RemediationInv, NEW w \in Workers, proc[w].pc = "flush", proc[w].product # 0
    PROVE  \/ proc[w].to = "product_created" /\ Made(proc[w].job) /\ proc[w].product = 1
           \/ proc[w].to = "reused_existing_product" /\ Hampered(proc[w].job)
BY FlushJob DEF KnowsFlush, ReservationStatus

LEMMA FlushStep ==
    ASSUME RemediationInv, NEW w \in Workers, Flush(w)
    PROVE  RemediationInv'
<1> PICK p : p = proc[w]
  OBVIOUS
<1> PICK j : j = p.job
  OBVIOUS
<1>0. Types /\ Barrier /\ Records /\ Links /\ p.pc = "flush"
  BY DEF RemediationInv, SharedInv, Flush, At
<1>1. /\ j \in Creators
      /\ w # Tick => j \in NewJobs
      /\ w = Tick => j \in LineJobs
      /\ KnowsFlush(p)
      /\ p.to = "product_created" => Made(j) /\ p.product = 1
      /\ p.to = "reserved" => Holds(p)
      /\ Holds(p) => claim = j /\ Uncreated
      /\ p.to \in ReservationStatus /\ p.product \in 0..Catalog
      /\ p.next \in {"idle", "create", "link", "complete"}
  BY <1>0, FlushJob
<1>2. UNCHANGED <<late, claim, products, infos, inflight, latelinks>> /\ AuthKept(w)
  BY <1>0, UnlockKeeps DEF Flush
<1>3. /\ row' \in [Creators -> Rows]
      /\ \A k \in Creators \ {j} : row'[k] = row[k]
      /\ row'[j].status = p.to
      /\ row'[j].product = IF p.product = 0 THEN row[j].product ELSE p.product
  <2> DEFINE e == [status |-> p.to, product |-> IF p.product = 0 THEN row[j].product ELSE p.product]
  <2>1. row' = [row EXCEPT ![j] = e]
    BY DEF Flush
  <2>2. e \in Rows
    BY <1>0, <1>1 DEF Rows, Types
  <2> HIDE DEF e
  <2>3. row' \in [Creators -> Rows] /\ (\A k \in Creators \ {j} : row'[k] = row[k]) /\ row'[j] = e
    BY <1>0, <1>1, <2>1, <2>2 DEF Types
  <2> QED BY <2>3 DEF e
<1>4. version' \in [Reviews -> Nat]
  <2>1. ReviewOf[p.job] \in Reviews
    BY <1>1, Constants DEF Reviews
  <2> QED BY <1>0, <2>1 DEF Flush, Types
<1>5. proc' \in [Workers -> Procs] /\ \E q : Moves(w, q) /\ (q = Idle \/ (p.next # "idle" /\ Begun(q, p.next, j, p.product)))
  <2>1. CASE Leave(w)
    BY <1>0, <2>1, IdleMoves DEF Moves
  <2>2. CASE /\ p.next # "idle"
             /\ proc' = [proc EXCEPT ![w] = [Idle EXCEPT !.pc = p.next, !.job = p.job, !.product = p.product]]
    <3>1. p.next \in {"idle"} \cup ApiPcs \cup LinePcs /\ j \in Jobs
      BY <1>1, Constants DEF ApiPcs, LinePcs, LinkPcs
    <3> QED BY <1>0, <1>1, <2>2, <3>1, BeginMoves DEF Moves
  <2> QED BY <2>1, <2>2 DEF Flush
<1>6. ASSUME p.product # 0
      PROVE  (p.to = "product_created" /\ Made(j) /\ p.product = 1)
             \/ (p.to = "reused_existing_product" /\ Hampered(j))
  BY <1>0, <1>6, FlushedProduct
<1>7. SharedInv'
  <2>1. Types'
    <3>1. \A k \in LineJobs : row'[k].status \in CreationStatus
      BY <1>0, <1>1, <1>3, <1>0 DEF Types, KnowsFlush, Creators
    <3> QED BY <1>0, <1>2, <1>3, <1>4, <1>5, <3>1 DEF Types, AuthKept
  <2>2. Barrier'
    <3>1. ~Uncreated => Attempted(claim)'
      BY <1>0, <1>1, <1>2, <1>3 DEF Barrier, Attempted, KnowsFlush, Uncreated
    <3>2. \A k \in late : row'[k].status # "none"
      BY <1>0, <1>1, <1>3 DEF Barrier, KnowsFlush, Types, Creators
    <3> QED BY <1>0, <1>2, <3>1, <3>2 DEF Barrier, Made, Uncreated
  <2>3. Records'
    <3>1. /\ \A k \in Creators : Made(k)' = Made(k) /\ Hampered(k)' = Hampered(k)
          /\ LinkedFirst' = LinkedFirst
      BY <1>2 DEF Made, Hampered, LinkedFirst
    <3>2. /\ row'[j].status = "product_created" => Made(j) /\ row'[j].product = 1
          /\ row'[j].status = "completed" => Made(j) /\ row'[j].product = 1 /\ LinkedFirst
      BY <1>0, <1>1, <1>3 DEF KnowsFlush
    <3>3. j \in NewJobs /\ row'[j].product # 0 => (Made(j) /\ row'[j].product = 1) \/ Hampered(j)
      BY <1>0, <1>1, <1>3, <1>6 DEF Records
    <3> QED BY <1>0, <1>3, <3>1, <3>2, <3>3 DEF Records
  <2>4. Links'
    BY <1>0, <1>2 DEF Links, OwnLinks, Agrees, Made
  <2> QED BY <2>1, <2>2, <2>3, <2>4 DEF SharedInv
<1>8. Monotone
  BY <1>2 DEF Monotone, Hampered
<1>9. ASSUME NEW x \in Workers \ {w} PROVE Spared(x)
  <2> PICK r : r = proc[x]
    OBVIOUS
  <2>0. Facts(x, r) /\ proc'[x] = r
    BY <1>5 DEF RemediationInv, Moves
  <2>1. Holds(r) => claim' = claim /\ Uncreated' /\ (Attempted(r.job) => Attempted(r.job)')
    <3> SUFFICES ASSUME Holds(r) PROVE claim' = claim /\ Uncreated' /\ (Attempted(r.job) => Attempted(r.job)')
      OBVIOUS
    <3>1. ~Holds(p) /\ p.to # "reserved" /\ p.to # "none"
      BY <1>0, <1>1 DEF RemediationInv, OneHolder, KnowsFlush
    <3>2. claim = r.job /\ Uncreated /\ r.job \in Creators
      <4>1. r.pc \notin LinkPcs /\ r.pc # "idle"
        BY DEF Holds, LinkPcs
      <4> QED BY <2>0, <4>1 DEF Facts, KnowsClaim, Position, Creators
    <3> QED BY <1>2, <1>3, <3>1, <3>2 DEF Attempted, Uncreated
  <2>2. r.job \in LineJobs => x = Tick /\ r.job # j
    BY <1>1, <2>0, Constants DEF Facts, Position, Creators, Jobs
  <2>3. r.job \in Creators /\ Made(r.job) /\ LinkedFirst /\ row[r.job].product = 1 =>
          row'[r.job].product = 1
    <3> SUFFICES ASSUME r.job = j, Made(j), LinkedFirst, row[j].product = 1, p.product # 0
                 PROVE  p.product = 1
      BY <1>1, <1>3
    <3>1. ~Hampered(j)
      BY <1>0 DEF Hampered, LinkedFirst, Made, Barrier
    <3> QED BY <1>6, <3>1
  <2>4. r.job \in NewJobs /\ authLock[r.job] = x => authLock'[r.job] = x
    BY <1>2 DEF AuthKept, Jobs
  <2>5. OwnLinks' = OwnLinks /\ Uncreated' = Uncreated
    BY <1>2 DEF OwnLinks, Uncreated
  <2> QED BY <1>2, <1>3, <2>0, <2>1, <2>2, <2>3, <2>4, <2>5 DEF Spared, Attempted, Holds, Creators
<1>10. PICK q : Moves(w, q) /\ (q = Idle \/ (p.next # "idle" /\ Begun(q, p.next, j, p.product)))
  BY <1>5
<1>11. CASE q = Idle
  <2>1. Idle.pc = "idle" /\ Idle.job = NoOne
    BY DEF Idle
  <2>2. NoOne \notin NewJobs /\ NoOne \notin MapJobs /\ NoOne \notin LineJobs
    BY Constants DEF Jobs
  <2>3. Facts(w, Idle)' /\ KnowsLock(w, Idle)' /\ ~Holds(Idle)
    BY <2>1, <2>2 DEF Facts, Position, KnowsClaim, KnowsLine, KnowsProduct, KnowsFlush, KnowsLink,
         KnowsLock, Holds, HasProduct, LinkPcs
  <2> QED BY <1>7, <1>8, <1>9, <1>10, <1>11, <2>3, LoudStep
<1>12. CASE p.next # "idle" /\ Begun(q, p.next, j, p.product)
  <2>1. q.pc = p.next /\ q.job = j /\ q.product = p.product
    BY <1>12 DEF Begun
  <2>2. Position(w, q)'
    BY <1>0, <1>1, <1>12, <2>1, Constants DEF Position, KnowsFlush, ApiPcs, LinePcs, LinkPcs
  <2>3. /\ q.pc = "create" => Holds(p) /\ p.to = "create_attempted"
        /\ q.pc = "link" => Made(j) /\ p.product = 1
        /\ Holds(q) => q.pc = "create"
    BY <1>0, <1>1, <1>12, <2>1 DEF KnowsFlush, Holds
  <2>4. KnowsClaim(q)'
    BY <1>1, <1>2, <1>3, <1>12, <2>1, <2>3 DEF KnowsClaim, Attempted, Uncreated
  <2>5. KnowsLine(q)' /\ KnowsFlush(q)' /\ KnowsLink(q)' /\ KnowsLock(w, q)'
    BY <1>1, <1>12, <2>1 DEF KnowsLine, KnowsFlush, KnowsLink, KnowsLock
  <2>6. KnowsProduct(q)'
    BY <1>1, <1>2, <1>12, <2>1, <2>3, Constants DEF KnowsProduct, HasProduct, Made, LinkPcs, Creators
  <2>7. Holds(q) => \A x \in Workers \ {w} : ~Holds(proc[x])
    BY <2>3 DEF RemediationInv, OneHolder
  <2> QED BY <1>7, <1>8, <1>9, <1>10, <2>2, <2>4, <2>5, <2>6, <2>7, LoudStep DEF Facts
<1> QED BY <1>10, <1>11, <1>12


\* Holders own the claim.
LEMMA HolderJob ==
    ASSUME RemediationInv, NEW x \in Workers, Holds(proc[x])
    PROVE  claim = proc[x].job /\ Uncreated /\ proc[x].job \in Creators
<1>1. proc[x].pc \notin LinkPcs /\ proc[x].pc # "idle"
  BY DEF Holds, LinkPcs
<1> QED BY <1>1 DEF RemediationInv, Facts, KnowsClaim, Position, Creators

\* Only the tick has commands of the lines.
LEMMA LineJobIsTicks ==
    ASSUME RemediationInv, NEW x \in Workers, proc[x].job \in LineJobs
    PROVE  x = Tick
BY Constants DEF RemediationInv, Facts, Position, Jobs

LEMMA ReserveStep ==
    ASSUME RemediationInv, NEW w \in ApiWorkers, Reserve(w)
    PROVE  RemediationInv'
<1>0. Types /\ Barrier /\ Records /\ Links
  BY DEF RemediationInv, SharedInv
<1>1. w \in Workers /\ w # Tick /\ proc[w].job \in NewJobs
  BY ApiJob DEF Reserve, At
<1> PICK j \in NewJobs : j = proc[w].job
  BY <1>1
<1>2. CASE row[j].status # "none"
  <2>1. UNCHANGED shared /\ AuthKept(w) /\ version' \in [Reviews -> Nat]
    BY <1>1, <1>2, Silent DEF Reserve
  <2>2. CASE Leave(w)
    BY <1>1, <2>1, <2>2, LeaveStep
  <2>3. CASE ResumeAt(row[j].status) # "idle" /\ GoWith(w, ResumeAt(row[j].status), row[j].product)
    <3>1. ResumeAt(row[j].status) \in ApiPcs /\ row[j].product \in 0..Catalog
      BY <1>0, <2>3 DEF ResumeAt, ApiPcs, LinkPcs, Types, Rows, Creators
    <3> PICK q : q = proc'[w]
      OBVIOUS
    <3> PICK pc : pc = ResumeAt(row[j].status)
      OBVIOUS
    <3>2. Moves(w, q) /\ Moved(w, q, pc, row[j].product)
      BY <1>0, <1>1, <2>3, <3>1, GoWithMoves
    <3>3. q.pc = ResumeAt(row[j].status) /\ q.job = j /\ q.product = row[j].product /\ q.pc # "idle"
      BY <2>3, <3>2 DEF Moved
    <3>4. Facts(w, q) /\ KnowsLock(w, q)' /\ ~Holds(q)
      BY <1>1, <3>3, ResumeFacts
    <3> QED BY <1>1, <2>1, <3>2, <3>4, QuietStep
  <2> QED BY <1>2, <2>2, <2>3 DEF Reserve
<1>3. CASE row[j].status = "none"
  <2>1. /\ row' \in [Creators -> Rows]
        /\ \A k \in Creators \ {j} : row'[k] = row[k]
        /\ row'[j].status = "reserved" /\ row'[j].product = 0
    <3> DEFINE e == [status |-> "reserved", product |-> 0]
    <3>1. row' = [row EXCEPT ![j] = e] /\ j \in Creators
      BY <1>3 DEF Reserve, Creators
    <3>2. e \in Rows
      BY Constants DEF Rows, ReservationStatus
    <3> HIDE DEF e
    <3>3. row' \in [Creators -> Rows] /\ (\A k \in Creators \ {j} : row'[k] = row[k]) /\ row'[j] = e
      BY <1>0, <3>1, <3>2 DEF Types
    <3> QED BY <3>3 DEF e
  <2>2. UNCHANGED <<version, late, claim, products, infos, inflight, latelinks, authLock>>
    BY DEF Reserve
  <2> PICK q : q = proc'[w]
    OBVIOUS
  <2>3. Moves(w, q) /\ Moved(w, q, "precheck", proc[w].product)
    BY <1>0, <1>1, <1>3, GoMoves DEF Reserve, ApiPcs
  <2>4. ~Made(j) /\ (~Uncreated => claim # j)
    BY <1>0, <1>3 DEF Barrier, Made, Uncreated, Attempted
  <2>5. SharedInv'
    <3>1. Types'
      BY <1>0, <2>1, <2>2, <2>3, Constants DEF Types, Moves, Creators
    <3>2. Barrier'
      BY <1>0, <2>1, <2>2, <2>4 DEF Barrier, Made, Uncreated, Attempted, Types, Creators
    <3>3. Records'
      <4>1. /\ \A k \in Creators : Made(k)' = Made(k) /\ Hampered(k)' = Hampered(k)
            /\ LinkedFirst' = LinkedFirst
        BY <2>2 DEF Made, Hampered, LinkedFirst
      <4> QED BY <1>0, <2>1, <4>1 DEF Records
    <3>4. Links'
      BY <1>0, <2>2 DEF Links, OwnLinks, Agrees, Made
    <3> QED BY <3>1, <3>2, <3>3, <3>4 DEF SharedInv
  <2>6. Monotone
    BY <2>2 DEF Monotone, Hampered
  <2>7. ASSUME NEW x \in Workers \ {w} PROVE Spared(x)
    <3> PICK r : r = proc[x]
      OBVIOUS
    <3>0. proc'[x] = r
      BY <2>3 DEF Moves
    <3>1. Holds(r) => claim' = claim /\ Uncreated' /\ (Attempted(r.job) => Attempted(r.job)')
      BY <1>3, <2>1, <2>2, HolderJob DEF Attempted, Uncreated
    <3>2. r.job \in LineJobs => r.job \in Creators \ {j}
      BY Constants DEF Creators
    <3>3. OwnLinks' = OwnLinks /\ Uncreated' = Uncreated
      BY <2>2 DEF OwnLinks, Uncreated
    <3> QED BY <2>1, <2>2, <2>4, <3>0, <3>1, <3>2, <3>3 DEF Spared, Attempted
  <2>8. q.pc = "precheck" /\ q.job = j
    BY <2>3 DEF Moved
  <2>9. ~Holds(q) /\ ~HasProduct(q) /\ q.job \notin MapJobs
    BY <2>8, Constants DEF Holds, HasProduct, LinkPcs
  <2>10. Facts(w, q)' /\ KnowsLock(w, q)'
    BY <1>1, <2>8, <2>9 DEF Facts, Position, KnowsClaim, KnowsLine, KnowsProduct, KnowsFlush,
       KnowsLink, KnowsLock, ApiPcs, Holds, HasProduct
  <2> QED BY <1>1, <2>3, <2>5, <2>6, <2>7, <2>9, <2>10, LoudStep
<1> QED BY <1>2, <1>3

-----------------------------------------------------------------------------
(* Steps that take or release the identity claim. *)

\* A command takes the free identity; a line's command inserts its attempt with it.
ClaimTaken(w, j) ==
    /\ claim = NoOne /\ claim' = j
    /\ UNCHANGED <<version, late, products, infos, inflight, latelinks, authLock>>
    /\ row' \in [Creators -> Rows]
    /\ \A k \in Creators \ {j} : row'[k] = row[k]
    /\ \/ j \in NewJobs /\ row' = row
       \/ j \in LineJobs /\ w = Tick /\ row'[j].status = "create_attempted"

LEMMA FreeIdentity ==
    ASSUME RemediationInv, claim = NoOne
    PROVE  Uncreated /\ \A x \in Workers : ~Holds(proc[x])
<1>1. NoOne \notin Creators
  BY Constants
<1> QED BY <1>1, HolderJob DEF RemediationInv, SharedInv, Barrier, Uncreated

LEMMA ClaimTakenStep ==
    ASSUME RemediationInv, NEW w \in Workers, NEW j \in Creators, ClaimTaken(w, j), NEW q, Moves(w, q)
    PROVE  SharedInv' /\ Monotone /\ Uncreated' /\ \A x \in Workers \ {w} : Spared(x)
<1>0. Types /\ Barrier /\ Records /\ Links
  BY DEF RemediationInv, SharedInv
<1>1. Uncreated /\ \A x \in Workers : ~Holds(proc[x])
  BY FreeIdentity DEF ClaimTaken
<1>2. Uncreated'
  BY <1>1 DEF ClaimTaken, Uncreated
<1>3. \A k \in Creators : Made(k)' = Made(k) /\ (Hampered(k) => Hampered(k)')
  BY <1>1, Constants DEF ClaimTaken, Made, Hampered, Uncreated, Creators
<1>4. LinkedFirst' = LinkedFirst /\ OwnLinks' = OwnLinks
  BY DEF ClaimTaken, LinkedFirst, OwnLinks
<1>5. Types'
  BY <1>0, Constants DEF Types, ClaimTaken, Moves, CreationStatus, Creators
<1>6. Barrier'
  <2>1. \A k \in late : row'[k].status # "none"
    BY <1>0 DEF Barrier, ClaimTaken, Types, Creators
  <2> QED BY <1>0, <1>1, <1>2, <2>1 DEF Barrier, ClaimTaken, Uncreated
<1>7. Records'
  <2> SUFFICES ASSUME NEW k \in Creators
               PROVE  /\ row'[k].status = "product_created" => Made(k)' /\ row'[k].product = 1
                      /\ row'[k].status = "completed" => Made(k)' /\ row'[k].product = 1 /\ LinkedFirst'
                      /\ k \in NewJobs /\ row'[k].product # 0 => (Made(k)' /\ row'[k].product = 1) \/ Hampered(k)'
    BY DEF Records
  <2>1. row'[k] = row[k] \/ (k \in LineJobs /\ row'[k].status = "create_attempted")
    BY DEF ClaimTaken
  <2> QED BY <1>0, <1>3, <1>4, <2>1, Constants DEF Records
<1>8. Links'
  BY <1>0, <1>4 DEF Links, ClaimTaken, Agrees, Made
<1>9. Monotone
  BY <1>3 DEF Monotone, ClaimTaken, Creators
<1>10. ASSUME NEW x \in Workers \ {w} PROVE Spared(x)
  <2>1. ~Holds(proc[x])
    BY <1>1
  <2>2. proc[x].job \in LineJobs => x = Tick /\ proc[x].job # j
    BY LineJobIsTicks, Constants DEF ClaimTaken
  <2>3. proc[x].job \in Creators /\ Made(proc[x].job) => FALSE
    BY <1>1 DEF Made, Uncreated
  <2> QED BY <1>2, <1>4, <2>1, <2>2, <2>3 DEF Spared, ClaimTaken, Creators
<1> QED BY <1>2, <1>5, <1>6, <1>7, <1>8, <1>9, <1>10 DEF SharedInv

LEMMA ClaimStep ==
    ASSUME RemediationInv, NEW w \in ApiWorkers, Claim(w)
    PROVE  RemediationInv'
<1>0. Types
  BY DEF RemediationInv, SharedInv
<1>1. w \in Workers /\ w # Tick /\ proc[w].job \in NewJobs
  BY ApiJob DEF Claim, At
<1> PICK q : q = proc'[w]
  OBVIOUS
<1>2. CASE claim # NoOne
  <2>1. UNCHANGED shared /\ AuthKept(w) /\ version' \in [Reviews -> Nat]
    BY <1>1, <1>2, Silent DEF Claim
  <2>2. Moves(w, q) /\ Moved(w, q, "race", proc[w].product)
    BY <1>0, <1>1, <1>2, GoMoves DEF Claim, ApiPcs
  <2>3. q.pc = "race" /\ q.job \in NewJobs
    BY <1>1, <2>2 DEF Moved
  <2>4. Position(w, q)
    BY <1>1, <2>3 DEF Position, ApiPcs
  <2> QED BY <1>1, <2>1, <2>2, <2>3, <2>4, PlainStep DEF Creators
<1>3. CASE claim = NoOne
  <2>1. Moves(w, q) /\ Moved(w, q, "attempt", proc[w].product)
    BY <1>0, <1>1, <1>3, GoMoves DEF Claim, ApiPcs
  <2>2. ClaimTaken(w, proc[w].job)
    BY <1>0, <1>1, <1>3 DEF Claim, ClaimTaken, Types
  <2>3. SharedInv' /\ Monotone /\ Uncreated' /\ \A x \in Workers \ {w} : Spared(x)
    BY <1>1, <2>1, <2>2, ClaimTakenStep DEF Creators
  <2>4. q.pc = "attempt" /\ q.job = proc[w].job
    BY <2>1 DEF Moved
  <2>5. ~HasProduct(q) /\ q.job \notin MapJobs
    BY <1>1, <2>4, Constants DEF HasProduct, LinkPcs
  <2>6. Facts(w, q)' /\ KnowsLock(w, q)'
    BY <1>1, <2>2, <2>3, <2>4, <2>5 DEF Facts, Position, KnowsClaim, KnowsLine, KnowsProduct,
       KnowsFlush, KnowsLink, KnowsLock, ApiPcs, HasProduct, ClaimTaken
  <2> QED BY <1>1, <1>3, <2>1, <2>3, <2>6, FreeIdentity, LoudStep
<1> QED BY <1>2, <1>3


LEMMA ReuseStep ==
    ASSUME RemediationInv, NEW w \in ApiWorkers, Reuse(w)
    PROVE  RemediationInv'
<1>0. Types /\ Barrier /\ Links
  BY DEF RemediationInv, SharedInv
<1>1. w \in Workers /\ w # Tick /\ proc[w].job \in NewJobs
  BY ApiJob DEF Reuse, At
<1> PICK j \in NewJobs : j = proc[w].job
  BY <1>1
<1> PICK product \in 0..Catalog : product = proc[w].product
  BY <1>0, <1>1 DEF Types, Procs
<1>2. infos # <<>> /\ product = infos[1].product
  BY <1>1 DEF Reuse, At, RemediationInv, Facts, KnowsProduct
<1>3. infos[1].product = 1 => products # <<>>
  BY <1>0, <1>2 DEF Links, Types
<1>4. Advance(w, "reserved", "reused_existing_product", product, "idle")
  BY DEF Reuse
<1>5. CASE claim # NoOne
  <2>1. UNCHANGED shared /\ AuthKept(w) /\ version' \in [Reviews -> Nat]
    BY <1>1, <1>5, Silent DEF Reuse
  <2>2. row[j].status = "reserved" => Hampered(j)
    BY <1>0, <1>2, <1>3 DEF Hampered, Barrier, Attempted, Uncreated
  <2>3. ASSUME row[j].status = "reserved", NEW q,
               Advanced(w, q, "reused_existing_product", product, "idle")
        PROVE  KnowsFlush(q) /\ ~Holds(q)
    <3>1. /\ q.pc = "flush" /\ q.job = j /\ q.to = "reused_existing_product"
          /\ q.next = "idle"
      BY <2>3 DEF Advanced
    <3> QED BY <1>1, <2>2, <2>3, <3>1, Constants DEF KnowsFlush, Holds
  <2> QED BY <1>1, <1>4, <2>1, <2>3, AdvanceStep DEF Creators, ReservationStatus
<1>6. CASE claim = NoOne
  <2>1. ClaimTaken(w, j)
    BY <1>0, <1>6 DEF Reuse, ClaimTaken, Types
  <2>2. Hampered(j)'
    <3>1. infos[1].product # 1
      BY <1>3, <1>6, FreeIdentity DEF Uncreated
    <3> QED BY <1>2, <2>1, <3>1 DEF Hampered, ClaimTaken
  <2>3. CASE Leave(w)
    <3>1. Moves(w, Idle) /\ Facts(w, Idle)' /\ KnowsLock(w, Idle)' /\ ~Holds(Idle)
      BY <1>0, <1>1, <2>3, IdleAfter
    <3>2. SharedInv' /\ Monotone /\ \A x \in Workers \ {w} : Spared(x)
      BY <1>1, <2>1, <3>1, ClaimTakenStep DEF Creators
    <3> QED BY <1>1, <3>1, <3>2, LoudStep
  <2>4. CASE Moves(w, proc'[w]) /\ Advanced(w, proc'[w], "reused_existing_product", product, "idle")
    <3> PICK q : q = proc'[w]
      OBVIOUS
    <3>1. Moves(w, q)
      BY <2>4
    <3>2. SharedInv' /\ Monotone /\ \A x \in Workers \ {w} : Spared(x)
      BY <1>1, <2>1, <3>1, ClaimTakenStep DEF Creators
    <3>3. q.pc = "flush" /\ q.job = j /\ q.to = "reused_existing_product" /\ q.next = "idle"
      BY <2>4 DEF Advanced
    <3>4. ~Holds(q) /\ ~HasProduct(q) /\ q.job \notin MapJobs /\ q.job \notin LineJobs
      BY <3>3, Constants DEF Holds, HasProduct, LinkPcs
    <3>5. KnowsFlush(q)'
      BY <2>2, <3>3, <3>4 DEF KnowsFlush
    <3>6. Facts(w, q)' /\ KnowsLock(w, q)'
      BY <1>1, <3>3, <3>4, <3>5 DEF Facts, Position, KnowsClaim, KnowsLine, KnowsProduct,
         KnowsLink, KnowsLock, ApiPcs, HasProduct, Holds
    <3> QED BY <1>1, <3>1, <3>2, <3>4, <3>6, LoudStep
  <2> QED BY <1>0, <1>1, <1>4, <2>3, <2>4, AdvanceMoves DEF ReservationStatus
<1> QED BY <1>5, <1>6

LEMMA InsertAttemptStep ==
    ASSUME RemediationInv, InsertAttempt
    PROVE  RemediationInv'
<1>0. Tick \in Workers /\ Types /\ Barrier /\ proc[Tick].job \in LineJobs
  BY Constants, TickJob DEF RemediationInv, SharedInv, InsertAttempt, At
<1> PICK j \in LineJobs : j = proc[Tick].job
  BY <1>0
<1>1. CASE claim # NoOne
  <2>1. UNCHANGED <<version, row, late, claim, products, infos, inflight, latelinks, authLock>>
    BY <1>1 DEF InsertAttempt
  <2> QED BY <1>0, <1>1, <2>1, Silent, LeaveStep DEF InsertAttempt
<1>2. CASE claim = NoOne
  <2>1. /\ row' \in [Creators -> Rows]
        /\ \A k \in Creators \ {j} : row'[k] = row[k]
        /\ row'[j].status = "create_attempted"
    <3> DEFINE e == [status |-> "create_attempted", product |-> 0]
    <3>1. row' = [row EXCEPT ![j] = e] /\ j \in Creators
      BY <1>2 DEF InsertAttempt, Creators
    <3>2. e \in Rows
      BY Constants DEF Rows, ReservationStatus
    <3> HIDE DEF e
    <3>3. row' \in [Creators -> Rows] /\ (\A k \in Creators \ {j} : row'[k] = row[k]) /\ row'[j] = e
      BY <1>0, <3>1, <3>2 DEF Types
    <3> QED BY <3>3 DEF e
  <2> PICK q : q = proc'[Tick]
    OBVIOUS
  <2>2. Moves(Tick, q) /\ Moved(Tick, q, "createline", proc[Tick].product)
    BY <1>0, <1>2, GoMoves DEF InsertAttempt, LinePcs
  <2>3. ClaimTaken(Tick, j)
    BY <1>2, <2>1 DEF InsertAttempt, ClaimTaken
  <2>4. SharedInv' /\ Monotone /\ Uncreated' /\ \A x \in Workers \ {Tick} : Spared(x)
    BY <1>0, <2>2, <2>3, ClaimTakenStep DEF Creators
  <2>5. q.pc = "createline" /\ q.job = j
    BY <2>2 DEF Moved
  <2>6. j \notin late'
    BY <1>0 DEF InsertAttempt, At, RemediationInv, Facts, KnowsLine, Barrier
  <2>7. ~HasProduct(q) /\ q.job \notin MapJobs /\ q.job \notin NewJobs
    BY <2>5, Constants DEF HasProduct, LinkPcs
  <2>8. Attempted(j)' /\ claim' = j
    BY <2>1, <2>3 DEF Attempted, ClaimTaken
  <2>9. Facts(Tick, q)' /\ KnowsLock(Tick, q)'
    BY <2>4, <2>5, <2>6, <2>7, <2>8 DEF Facts, Position, KnowsClaim, KnowsLine, KnowsProduct,
       KnowsFlush, KnowsLink, KnowsLock, LinePcs, HasProduct, Attempted
  <2> QED BY <1>0, <1>2, <2>2, <2>4, <2>9, FreeIdentity, LoudStep
<1> QED BY <1>1, <1>2

\* The tick takes back an attempt that has created nothing, and frees its claim.
ClaimReleased(c) ==
    /\ row[c].status = "create_attempted" /\ (claim = c => Uncreated)
    /\ row' = Discarded(c) /\ late' = late \ {c} /\ claim' = IF claim = c THEN NoOne ELSE claim
    /\ UNCHANGED <<version, products, infos, inflight, latelinks, authLock>>

LEMMA ClaimReleasedStep ==
    ASSUME RemediationInv, NEW c \in LineJobs, ClaimReleased(c), NEW q, Moves(Tick, q)
    PROVE  /\ SharedInv' /\ Monotone /\ row'[c].status = "none"
           /\ \A k \in Creators \ {c} : row'[k] = row[k]
           /\ \A x \in Workers \ {Tick} : Spared(x)
<1>0. Types /\ Barrier /\ Records /\ Links /\ c \in Creators /\ c \notin NewJobs
  BY Constants DEF RemediationInv, SharedInv, Creators
<1>1. /\ row' \in [Creators -> Rows]
      /\ \A k \in Creators \ {c} : row'[k] = row[k]
      /\ row'[c].status = "none" /\ row'[c].product = 0
  <2> DEFINE e == [status |-> "none", product |-> 0]
  <2>1. row' = [row EXCEPT ![c] = e]
    BY DEF ClaimReleased, Discarded
  <2>2. e \in Rows
    BY Constants DEF Rows, ReservationStatus
  <2> HIDE DEF e
  <2>3. row' \in [Creators -> Rows] /\ (\A k \in Creators \ {c} : row'[k] = row[k]) /\ row'[c] = e
    BY <1>0, <2>1, <2>2 DEF Types
  <2> QED BY <2>3 DEF e
<1>2. \A k \in Creators : Made(k)' = Made(k) /\ (Hampered(k) => Hampered(k)')
  BY <1>0 DEF ClaimReleased, Made, Hampered, Uncreated
<1>3. LinkedFirst' = LinkedFirst /\ OwnLinks' = OwnLinks /\ Uncreated' = Uncreated
  BY DEF ClaimReleased, LinkedFirst, OwnLinks, Uncreated
<1>4. Types'
  BY <1>0, <1>1 DEF Types, ClaimReleased, Moves, CreationStatus, Creators
<1>5. Barrier'
  <2>1. ~Uncreated => claim' = claim /\ claim # c /\ claim \in Creators
    BY <1>0 DEF ClaimReleased, Barrier, Uncreated
  <2>2. \A k \in late' : row'[k].status # "none"
    BY <1>0, <1>1 DEF Barrier, ClaimReleased, Types, Creators
  <2>3. (products # <<>> => claim' \in Creators /\ Made(claim)')
        /\ (inflight # {} => claim' \in Creators /\ inflight = {claim'} /\ products = <<>>)
    BY <1>0, <2>1 DEF Barrier, ClaimReleased, Made, Uncreated
  <2>4. ~Uncreated' => Attempted(claim)'
    BY <1>0, <1>1, <1>3, <2>1 DEF Barrier, Attempted
  <2>5. claim' \in LineJobs /\ products # <<>> => infos # <<>>
    BY <1>0, <2>1 DEF Barrier, Uncreated
  <2>6. late' \cap inflight = {}
    BY <1>0 DEF Barrier, ClaimReleased
  <2> QED BY <2>2, <2>3, <2>4, <2>5, <2>6 DEF Barrier, ClaimReleased
<1>6. Records'
  BY <1>0, <1>1, <1>2, <1>3 DEF Records
<1>7. Links'
  BY <1>0, <1>3 DEF Links, ClaimReleased, Agrees, Made
<1>8. Monotone
  BY <1>2 DEF Monotone, ClaimReleased, Creators
<1>9. ASSUME NEW x \in Workers \ {Tick} PROVE Spared(x)
  <2>0. proc[x].job \notin LineJobs /\ proc'[x] = proc[x]
    BY LineJobIsTicks DEF Moves
  <2>1. Holds(proc[x]) => claim' = claim /\ Uncreated' /\ (Attempted(proc[x].job) => Attempted(proc[x].job)')
    BY <1>0, <1>1, <1>3, <2>0, HolderJob DEF ClaimReleased, Attempted
  <2> QED BY <1>1, <1>3, <2>0, <2>1 DEF Spared, ClaimReleased, Attempted
<1> QED BY <1>1, <1>4, <1>5, <1>6, <1>7, <1>8, <1>9 DEF SharedInv

LEMMA StartStep ==
    ASSUME RemediationInv, Start
    PROVE  RemediationInv'
<1>0. Tick \in Workers /\ Types /\ Barrier /\ proc[Tick].job \in LineJobs
  BY Constants, TickJob DEF RemediationInv, SharedInv, Start, At
<1> PICK j \in LineJobs : j = proc[Tick].job
  BY <1>0
<1>1. row[j].status = "none"
  BY <1>0 DEF Start, At, RemediationInv, Facts, KnowsLine
<1>2. CASE Leave(Tick) /\ UNCHANGED <<row, claim, late>>
  <2>1. UNCHANGED <<version, row, late, claim, products, infos, inflight, latelinks, authLock>>
    BY <1>2 DEF Start
  <2> QED BY <1>0, <1>2, <2>1, Silent, LeaveStep
<1>3. CASE /\ infos = <<>> /\ (claim = NoOne \/ OwnStaleAttempt(j))
           /\ row' = IF claim = NoOne THEN row ELSE Discarded(claim)
           /\ claim' = NoOne /\ late' = late \ {claim} /\ Go(Tick, "insert")
  <2> PICK q : q = proc'[Tick]
    OBVIOUS
  <2>1. Moves(Tick, q) /\ Moved(Tick, q, "insert", proc[Tick].product)
    BY <1>0, <1>3, GoMoves DEF LinePcs
  <2>2. q.pc = "insert" /\ q.job = j
    BY <2>1 DEF Moved
  <2>3. ~Holds(q) /\ ~HasProduct(q) /\ q.job \notin MapJobs /\ q.job \notin NewJobs
    BY <2>2, Constants DEF Holds, HasProduct, LinkPcs
  <2>4. CASE claim = NoOne
    <3>1. late' = late
      BY <1>0, <1>3, <2>4, Constants DEF Types, Jobs
    <3>2. UNCHANGED <<version, row, late, claim, products, infos, inflight, latelinks, authLock>>
      BY <1>3, <2>4, <3>1 DEF Start
    <3>3. Facts(Tick, q) /\ KnowsLock(Tick, q)'
      BY <1>1, <2>2, <2>3 DEF Facts, Position, KnowsClaim, KnowsLine, KnowsProduct,
         KnowsFlush, KnowsLink, KnowsLock, LinePcs
    <3> QED BY <1>0, <2>1, <2>3, <3>2, <3>3, Silent, QuietStep
  <2>5. CASE claim # NoOne
    <3> PICK c \in LineJobs : c = claim
      BY <1>3, <2>5 DEF OwnStaleAttempt
    <3>1. c \in late /\ row[c].status = "create_attempted"
      BY <1>3, <2>5 DEF OwnStaleAttempt
    <3>2. Uncreated
      BY <1>0, <1>3, <3>1 DEF Barrier, Uncreated
    <3>3. ClaimReleased(c)
      BY <1>3, <2>5, <3>1, <3>2 DEF Start, ClaimReleased
    <3>4. /\ SharedInv' /\ Monotone
          /\ \A k \in Creators \ {c} : row'[k] = row[k]
          /\ \A x \in Workers \ {Tick} : Spared(x)
      BY <2>1, <3>3, ClaimReleasedStep
    <3>5. row'[j].status = "none"
      BY <1>1, <3>1, <3>4 DEF Creators
    <3>6. Facts(Tick, q)' /\ KnowsLock(Tick, q)'
      BY <2>2, <2>3, <3>5 DEF Facts, Position, KnowsClaim, KnowsLine, KnowsProduct,
         KnowsFlush, KnowsLink, KnowsLock, LinePcs, Holds, HasProduct
    <3> QED BY <1>0, <2>1, <2>3, <3>4, <3>6, LoudStep
  <2> QED BY <2>4, <2>5
<1> QED BY <1>2, <1>3 DEF Start

LEMMA DiscardStep ==
    ASSUME RemediationInv, Discard
    PROVE  RemediationInv'
<1>0. Tick \in Workers /\ Types /\ proc[Tick].job \in LineJobs
  BY Constants, TickJob DEF RemediationInv, SharedInv, Discard, At
<1> PICK j \in LineJobs : j = proc[Tick].job
  BY <1>0
<1>1. claim = j => Uncreated
  BY <1>0 DEF Discard, At, RemediationInv, Facts, KnowsLine
<1>2. CASE row[j].status # "create_attempted"
  <2>1. UNCHANGED <<version, row, late, claim, products, infos, inflight, latelinks, authLock>>
    BY <1>2 DEF Discard
  <2> QED BY <1>0, <1>2, <2>1, Silent, LeaveStep DEF Discard
<1>3. CASE row[j].status = "create_attempted"
  <2>1. ClaimReleased(j)
    BY <1>1, <1>3 DEF Discard, ClaimReleased
  <2>2. CASE Leave(Tick)
    <3>1. Moves(Tick, Idle) /\ Facts(Tick, Idle)' /\ KnowsLock(Tick, Idle)' /\ ~Holds(Idle)
      BY <1>0, <2>2, IdleAfter
    <3>2. SharedInv' /\ Monotone /\ \A x \in Workers \ {Tick} : Spared(x)
      BY <2>1, <3>1, ClaimReleasedStep
    <3> QED BY <1>0, <3>1, <3>2, LoudStep
  <2>3. CASE Go(Tick, "start")
    <3> PICK q : q = proc'[Tick]
      OBVIOUS
    <3>1. Moves(Tick, q) /\ Moved(Tick, q, "start", proc[Tick].product)
      BY <1>0, <2>3, GoMoves DEF LinePcs
    <3>2. SharedInv' /\ Monotone /\ row'[j].status = "none" /\ \A x \in Workers \ {Tick} : Spared(x)
      BY <2>1, <3>1, ClaimReleasedStep
    <3>3. q.pc = "start" /\ q.job = j
      BY <3>1 DEF Moved
    <3>4. ~Holds(q) /\ ~HasProduct(q) /\ q.job \notin MapJobs /\ q.job \notin NewJobs
      BY <3>3, Constants DEF Holds, HasProduct, LinkPcs
    <3>5. Facts(Tick, q)' /\ KnowsLock(Tick, q)'
      BY <3>2, <3>3, <3>4 DEF Facts, Position, KnowsClaim, KnowsLine, KnowsProduct,
         KnowsFlush, KnowsLink, KnowsLock, LinePcs, Holds, HasProduct
    <3> QED BY <1>0, <3>1, <3>2, <3>4, <3>5, LoudStep
  <2> QED BY <1>3, <2>2, <2>3 DEF Discard
<1> QED BY <1>2, <1>3


-----------------------------------------------------------------------------
(* A create reaches Odoo. *)

\* The create of the owner of the identity is carried out, its supplierinfo with it for a line.
Landed(j) ==
    /\ claim = j /\ products = <<>> /\ Attempted(j)
    /\ products' = Append(products, j)
    /\ IF j \in LineJobs
         THEN infos' = Append(infos, [product |-> Len(products) + 1, by |-> j, guarded |-> TRUE])
         ELSE UNCHANGED infos
    /\ inflight' = {}
    /\ UNCHANGED <<version, row, late, claim, latelinks>>

LEMMA LandedStep ==
    ASSUME RemediationInv, NEW j \in Creators, Landed(j), proc' \in [Workers -> Procs],
           authLock' \in [Jobs -> Workers \cup {NoOne}]
    PROVE  /\ SharedInv' /\ Monotone /\ Made(j)'
           /\ \A x \in Workers : /\ ~Holds(proc[x])
                                 /\ ~(proc[x].pc = "discard" /\ proc[x].job = j)
                                 /\ proc'[x] = proc[x]
                                 => Spared(x)
<1>0. Types /\ Barrier /\ Records /\ Links
  BY DEF RemediationInv, SharedInv
<1>1. products' \in Seq(Creators) /\ products' # <<>> /\ Made(j)'
  BY <1>0, OneMore DEF Types, Landed, Made
<1>2. \A k \in Creators : ~Made(k)
  BY DEF Landed, Made
<1>3. OwnLinks = {}
  BY <1>0 DEF Links, Landed
<1>4. /\ infos' \in Seq(Infos)
      /\ \A i \in DOMAIN infos : i \in DOMAIN infos' /\ infos'[i] = infos[i]
      /\ infos # <<>> => infos' # <<>> /\ infos'[1] = infos[1]
      /\ j \in LineJobs => infos' # <<>>
      /\ DOMAIN infos' \subseteq DOMAIN infos \cup {Len(infos) + 1}
      /\ \A i \in DOMAIN infos' : i \in DOMAIN infos \/ (infos'[i].by = j /\ infos'[i].product = 1)
  <2>1. CASE j \in LineJobs
    <3> PICK e : e = [product |-> Len(products) + 1, by |-> j, guarded |-> TRUE]
      OBVIOUS
    <3>1. e \in Infos /\ e.by = j /\ e.product = 1
      <4>1. Len(products) + 1 = 1
        BY DEF Landed
      <4> QED BY <4>1, Constants DEF Infos, Creators
    <3>2. infos' = Append(infos, e) /\ infos \in Seq(Infos)
      BY <1>0, <2>1 DEF Landed, Types
    <3>3. /\ infos' \in Seq(Infos) /\ infos' # <<>>
          /\ DOMAIN infos' = DOMAIN infos \cup {Len(infos) + 1}
          /\ infos'[Len(infos) + 1] = e
          /\ \A i \in DOMAIN infos : infos'[i] = infos[i]
          /\ infos # <<>> => infos'[1] = infos[1]
      BY <3>1, <3>2, OneMore
    <3> QED BY <3>1, <3>3
  <2>2. CASE j \notin LineJobs
    BY <1>0, <2>2 DEF Landed, Types
  <2> QED BY <2>1, <2>2
<1>5. OwnLinks' \subseteq {Len(infos) + 1}
  BY <1>3, <1>4 DEF OwnLinks
<1>6. \A k \in Creators : Hampered(k) => Hampered(k)'
  BY <1>4 DEF Hampered, Landed
<1>7. Types'
  BY <1>0, <1>1, <1>4 DEF Types, Landed
<1>8. Barrier'
  BY <1>0, <1>1, <1>4 DEF Barrier, Landed, Uncreated, Attempted, Made
<1>9. Records'
  BY <1>0, <1>2, <1>6 DEF Records, Landed
<1>10. Links'
  <2>1. (\A i \in DOMAIN infos : Agrees(infos[i]))'
    BY <1>0, <1>1, <1>2, <1>4 DEF Links, Landed, Agrees, Infos, Jobs, Creators, Types
  <2>2. (\A e \in latelinks : Agrees(e) /\ (e.product = 1 => products # <<>>))'
    BY <1>0, <1>1, <1>2 DEF Links, Landed, Agrees, Creators, Types
  <2>3. \A i, k \in OwnLinks' : i = k
    BY <1>5
  <2> QED BY <1>1, <2>1, <2>2, <2>3 DEF Links
<1>11. Monotone
  BY <1>4, <1>6 DEF Monotone, Landed, Creators
<1>12. ASSUME NEW x \in Workers, ~Holds(proc[x]), ~(proc[x].pc = "discard" /\ proc[x].job = j),
              proc'[x] = proc[x]
       PROVE  Spared(x)
  <2>1. ~(proc[x].pc = "linkwrite" /\ proc[x].job \in NewJobs)
    BY <1>2, LinkJob DEF LinkPcs, Creators
  <2> QED BY <1>2, <1>12, <2>1 DEF Spared, Landed
<1> QED BY <1>1, <1>7, <1>8, <1>9, <1>10, <1>11, <1>12 DEF SharedInv

\* What the process that may create knows.
LEMMA CreatorFacts ==
    ASSUME RemediationInv, NEW w \in Workers, proc[w].pc \in {"create", "createline"}
    PROVE  /\ proc[w].job \in Creators /\ claim = proc[w].job /\ Uncreated /\ Attempted(proc[w].job)
           /\ proc[w].job \notin late
           /\ proc[w].pc = "create" => w # Tick /\ proc[w].job \in NewJobs
           /\ proc[w].pc = "createline" => w = Tick /\ proc[w].job \in LineJobs
           /\ \A x \in Workers \ {w} : ~Holds(proc[x])
           /\ \A x \in Workers \ {w} : proc[x].job \in LineJobs => proc[x].job # proc[w].job
<1>1. Holds(proc[w])
  BY DEF Holds
<1>2. claim = proc[w].job /\ Uncreated /\ proc[w].job \in Creators /\ Attempted(proc[w].job)
  BY <1>1, HolderJob DEF RemediationInv, Facts, KnowsClaim
<1>3. /\ proc[w].pc = "create" => w # Tick /\ proc[w].job \in NewJobs
      /\ proc[w].pc = "createline" => w = Tick /\ proc[w].job \in LineJobs
  BY DEF RemediationInv, Facts, Position, ApiPcs, LinePcs, LinkPcs
<1>4. proc[w].job \notin late
  <2>1. CASE proc[w].pc = "create"
    BY <1>3, <2>1, Constants DEF RemediationInv, SharedInv, Types
  <2>2. CASE proc[w].pc = "createline"
    BY <2>2 DEF RemediationInv, Facts, KnowsLine
  <2> QED BY <2>1, <2>2
<1>5. \A x \in Workers \ {w} : ~Holds(proc[x])
  BY <1>1 DEF RemediationInv, OneHolder
<1>6. \A x \in Workers \ {w} : proc[x].job \in LineJobs => proc[x].job # proc[w].job
  BY <1>3, LineJobIsTicks, Constants
<1> QED BY <1>2, <1>3, <1>4, <1>5, <1>6

\* An answered create, by either use case.
LEMMA CreatedStep ==
    ASSUME RemediationInv, NEW w \in Workers, proc[w].pc \in {"create", "createline"},
           Landed(proc[w].job), AuthKept(w), NEW q, Moves(w, q), Moved(w, q, "created", 1)
    PROVE  RemediationInv'
<1>1. /\ proc[w].job \in Creators
      /\ proc[w].pc = "create" => w # Tick /\ proc[w].job \in NewJobs
      /\ proc[w].pc = "createline" => w = Tick /\ proc[w].job \in LineJobs
      /\ \A x \in Workers \ {w} : ~Holds(proc[x])
      /\ \A x \in Workers \ {w} : proc[x].job \in LineJobs => proc[x].job # proc[w].job
  BY CreatorFacts
<1>2. \A x \in Workers \ {w} : proc[x].pc = "discard" => proc[x].job \in LineJobs
  BY DEF RemediationInv, Facts, Position, ApiPcs, LinkPcs
<1>3. /\ SharedInv' /\ Monotone /\ Made(proc[w].job)'
      /\ \A x \in Workers \ {w} : Spared(x)
  <2> PICK j \in Creators : j = proc[w].job
    BY <1>1
  <2>1. Landed(j) /\ proc' \in [Workers -> Procs] /\ authLock' \in [Jobs -> Workers \cup {NoOne}]
    BY DEF Moves, AuthKept
  <2>2. /\ SharedInv' /\ Monotone /\ products' = <<j>>
        /\ \A x \in Workers : /\ ~Holds(proc[x])
                              /\ ~(proc[x].pc = "discard" /\ proc[x].job = j)
                              /\ proc'[x] = proc[x]
                              => Spared(x)
    BY <2>1, LandedStep DEF Made
  <2>3. Moved(w, q, "created", 1) => q.job = j
    BY DEF Moved
  <2>4. proc'[w].job = j
    BY <2>3 DEF Moves
  <2>5. Made(proc[w].job)'
    BY <2>2, <2>4 DEF Made
  <2> QED BY <1>1, <1>2, <2>2, <2>5 DEF Moves
<1>4. q.pc = "created" /\ q.job = proc[w].job /\ q.product = 1 /\ proc'[w] = q
  BY DEF Moved, Moves
<1>5. Position(w, q)'
  BY <1>1, <1>4 DEF Position, ApiPcs, LinePcs
<1>6. ~Holds(q) /\ q.job \notin MapJobs
  BY <1>1, <1>4, Constants DEF Holds, Creators
<1>7. Facts(w, q)' /\ KnowsLock(w, q)'
  BY <1>3, <1>4, <1>5, <1>6 DEF Facts, KnowsClaim, KnowsLine, KnowsProduct, KnowsFlush, KnowsLink,
     KnowsLock, HasProduct, Made, Holds
<1> QED BY <1>3, <1>6, <1>7, LoudStep

LEMMA CreateStep ==
    ASSUME RemediationInv, NEW w \in Workers, Create(w)
    PROVE  RemediationInv'
<1>0. Types /\ proc[w].pc = "create"
  BY DEF RemediationInv, SharedInv, Create, At
<1>1. /\ proc[w].job \in NewJobs /\ claim = proc[w].job /\ Uncreated /\ Attempted(proc[w].job)
  BY <1>0, CreatorFacts
<1>2. Len(products) + 1 = 1 /\ 1 \in 0..Catalog
  BY <1>1, Constants DEF Uncreated
<1>3. Landed(proc[w].job)
  BY <1>1, Constants DEF Landed, Create, Uncreated
<1>4. AuthKept(w)
  BY <1>0, <1>1, AuthorizedKeeps DEF Create, Jobs
<1> PICK q : q = proc'[w]
  OBVIOUS
<1>5. Moves(w, q) /\ Moved(w, q, "created", 1)
  BY <1>0, <1>2, GoWithMoves DEF Create, ApiPcs
<1> QED BY <1>0, <1>3, <1>4, <1>5, CreatedStep

LEMMA CreateLineStep ==
    ASSUME RemediationInv, CreateLine
    PROVE  RemediationInv'
<1>0. Types /\ proc[Tick].pc = "createline" /\ Tick \in Workers
  BY Constants DEF RemediationInv, SharedInv, CreateLine, At
<1>1. /\ proc[Tick].job \in LineJobs /\ claim = proc[Tick].job /\ Uncreated /\ Attempted(proc[Tick].job)
  BY <1>0, CreatorFacts
<1>2. Len(products) + 1 = 1 /\ 1 \in 0..Catalog
  BY <1>1, Constants DEF Uncreated
<1>3. Landed(proc[Tick].job)
  BY <1>1 DEF Landed, CreateLine, LandLine, Uncreated
<1>4. AuthKept(Tick)
  BY <1>0, SameAuth DEF CreateLine
<1> PICK q : q = proc'[Tick]
  OBVIOUS
<1>5. Moves(Tick, q) /\ Moved(Tick, q, "created", 1)
  BY <1>0, <1>2, GoWithMoves DEF CreateLine, LinePcs
<1> QED BY <1>0, <1>3, <1>4, <1>5, CreatedStep

\* A create whose answer was lost is carried out later.
LEMMA LandStep ==
    ASSUME RemediationInv, NEW j \in Jobs, Land(j)
    PROVE  RemediationInv'
<1>0. Types /\ Barrier
  BY DEF RemediationInv, SharedInv
<1>1. claim \in Creators /\ j = claim /\ inflight = {j} /\ products = <<>> /\ ~Uncreated
  BY <1>0 DEF Land, Barrier, Uncreated
<1>2. Landed(j)
  BY <1>0, <1>1 DEF Land, LandLine, Landed, Barrier
<1>3. /\ SharedInv' /\ Monotone
      /\ \A x \in Workers : /\ ~Holds(proc[x])
                            /\ ~(proc[x].pc = "discard" /\ proc[x].job = j)
                            /\ proc'[x] = proc[x]
                            => Spared(x)
  BY <1>0, <1>1, <1>2, LandedStep DEF Land, Types
<1>4. \A x \in Workers : ~Holds(proc[x]) /\ ~(proc[x].pc = "discard" /\ proc[x].job = j)
  BY <1>1, HolderJob DEF RemediationInv, Facts, KnowsLine
<1> QED BY <1>3, <1>4, WorldMoves DEF Land


-----------------------------------------------------------------------------
(* A supplierinfo row reaches Odoo. *)

\* One more row; a row of a create that was answered needs the way to be free.
Linking(e) ==
    /\ infos' = Append(infos, e)
    /\ e.product = 1 => products # <<>>
    /\ Agrees(e)
    /\ e.by \notin MapJobs /\ e.guarded => products # <<>> /\ OwnLinks = {}
    /\ latelinks' \subseteq latelinks
    /\ UNCHANGED <<version, row, late, claim, products, inflight, authLock>>

LEMMA LinkingStep ==
    ASSUME RemediationInv, NEW e \in Infos, Linking(e), proc' \in [Workers -> Procs]
    PROVE  /\ SharedInv' /\ Monotone
           /\ e.product = 1 => \E i \in DOMAIN infos' : infos'[i].product = 1
           /\ \A x \in Workers : /\ proc'[x] = proc[x]
                                 /\ proc[x].pc = "linkwrite" /\ proc[x].job \in NewJobs =>
                                       e.by \in MapJobs \/ ~e.guarded
                                 => Spared(x)
<1>0. Types /\ Barrier /\ Records /\ Links
  BY DEF RemediationInv, SharedInv
<1>1. /\ infos' \in Seq(Infos) /\ infos' # <<>>
      /\ DOMAIN infos' = DOMAIN infos \cup {Len(infos) + 1}
      /\ infos'[Len(infos) + 1] = e
      /\ \A i \in DOMAIN infos : infos'[i] = infos[i]
      /\ infos # <<>> => infos'[1] = infos[1]
  <2>1. infos \in Seq(Infos) /\ infos' = Append(infos, e)
    BY <1>0 DEF Types, Linking
  <2> QED BY <2>1, OneMore
<1>2. \A i \in DOMAIN infos' : i \in DOMAIN infos \/ infos'[i] = e
  BY <1>1
<1>3. (e.by \in MapJobs \/ ~e.guarded) => OwnLinks' \subseteq OwnLinks
  BY <1>1, <1>2 DEF OwnLinks
<1>4. ~(e.by \in MapJobs \/ ~e.guarded) => OwnLinks' \subseteq {Len(infos) + 1} /\ products # <<>>
  BY <1>1 DEF OwnLinks, Linking
<1>5. \A k \in Creators : Made(k)' = Made(k) /\ (Hampered(k) => Hampered(k)')
  BY <1>1 DEF Made, Hampered, Linking
<1>6. LinkedFirst => LinkedFirst'
  BY <1>1 DEF LinkedFirst
<1>7. Types'
  BY <1>0, <1>1 DEF Types, Linking
<1>8. Barrier'
  BY <1>0, <1>1 DEF Barrier, Linking, Uncreated, Attempted, Made
<1>9. Records'
  BY <1>0, <1>5, <1>6 DEF Records, Linking
<1>10. Links'
  <2>1. \A i \in DOMAIN infos' : infos'[i].product = 1 => products # <<>>
    BY <1>0, <1>1, <1>2 DEF Links, Linking
  <2>2. OwnLinks' # {} => products # <<>>
    BY <1>0, <1>3, <1>4 DEF Links
  <2>3. \A i, k \in OwnLinks' : i = k
    BY <1>0, <1>3, <1>4 DEF Links
  <2>4. (\A i \in DOMAIN infos : Agrees(infos[i]))'
    BY <1>0, <1>1, <1>2 DEF Links, Linking, Agrees, Made
  <2>5. \A d \in latelinks' : Agrees(d)' /\ (d.product = 1 => products # <<>>)
    BY <1>0 DEF Links, Linking, Agrees, Made
  <2> QED BY <2>1, <2>2, <2>3, <2>4, <2>5 DEF Links, Linking
<1>11. Monotone
  BY <1>1, <1>5 DEF Monotone, Linking, Creators
<1>12. ASSUME NEW x \in Workers, proc'[x] = proc[x],
              proc[x].pc = "linkwrite" /\ proc[x].job \in NewJobs => e.by \in MapJobs \/ ~e.guarded
       PROVE  Spared(x)
  <2>1. Uncreated' = Uncreated
    BY DEF Uncreated, Linking
  <2>2. Holds(proc[x]) => Uncreated
    BY HolderJob
  <2> QED BY <1>3, <1>12, <2>1, <2>2 DEF Spared, Linking, Attempted
<1> QED BY <1>1, <1>7, <1>8, <1>9, <1>10, <1>11, <1>12 DEF SharedInv

LEMMA MadeOne == ASSUME NEW j, Made(j) PROVE products # <<>>
BY DEF Made

LEMMA LinkWriteStep ==
    ASSUME RemediationInv, NEW w \in Workers, LinkWrite(w)
    PROVE  RemediationInv'
<1>0. /\ Types /\ Barrier
      /\ proc[w].pc \in {"linkwrite", "linkfree"} /\ proc[w].pc \in LinkPcs
  BY DEF RemediationInv, SharedInv, LinkWrite, At, LinkPcs
<1> PICK j \in Jobs : j = proc[w].job
  BY <1>0, LinkJob
<1> PICK product \in 0..Catalog : product = proc[w].product
  BY <1>0, LinkJob
<1> PICK guarded \in BOOLEAN : guarded = (proc[w].pc = "linkwrite")
  OBVIOUS
<1>1. /\ j \in NewJobs => w # Tick /\ Made(j) /\ product = 1
      /\ j \in NewJobs /\ guarded => OwnLinks = {} /\ authLock[j] = w
      /\ j \notin NewJobs => w = Tick /\ j \in MapJobs /\ product = Catalog
  <2>1. j \in NewJobs /\ guarded => OwnLinks = {} /\ authLock[j] = w
    BY <1>0 DEF RemediationInv, Facts, KnowsLink, KnowsLock
  <2> QED BY <1>0, <2>1, LinkJob
<1> PICK e : e = [product |-> product, by |-> j, guarded |-> guarded]
  OBVIOUS
<1>2. e \in Infos /\ e.product = product /\ e.by = j /\ e.guarded = guarded
  BY DEF Infos
<1>3. Linking(e)
  <2>1. j \in NewJobs => products # <<>>
    BY <1>1, MadeOne, Zenon
  <2>2. infos' = Append(infos, e)
    <3>1. At(w, "linkwrite") = guarded
      BY DEF At
    <3>2. e = [product |-> proc[w].product, by |-> proc[w].job, guarded |-> At(w, "linkwrite")]
      BY <3>1
    <3> QED BY <3>2 DEF LinkWrite
  <2>3. Agrees(e)
    BY <1>1, <1>2 DEF Agrees
  <2> QED BY <1>1, <1>2, <2>1, <2>2, <2>3, Constants DEF LinkWrite, Linking
<1> PICK q : q = proc'[w]
  OBVIOUS
<1>4. Moves(w, q) /\ Moved(w, q, "verify", proc[w].product)
  BY <1>0, GoMoves DEF LinkWrite, ApiPcs, LinkPcs
<1>5. /\ SharedInv' /\ Monotone
      /\ e.product = 1 => \E i \in DOMAIN infos' : infos'[i].product = 1
      /\ \A x \in Workers : /\ proc'[x] = proc[x]
                            /\ proc[x].pc = "linkwrite" /\ proc[x].job \in NewJobs =>
                                  e.by \in MapJobs \/ ~e.guarded
                            => Spared(x)
  BY <1>2, <1>3, <1>4, LinkingStep DEF Moves
<1>6. ASSUME NEW x \in Workers \ {w} PROVE Spared(x)
  <2>1. ASSUME proc[x].pc = "linkwrite", proc[x].job \in NewJobs, j \in NewJobs, guarded
        PROVE  FALSE
    <3>1. Made(proc[x].job) /\ Made(j)
      BY <1>1, <2>1, LinkJob DEF LinkPcs
    <3>2. proc[x].job = j
      BY <3>1 DEF Made
    <3>3. authLock[j] = x
      BY <2>1, <3>2 DEF RemediationInv, KnowsLock
    <3> QED BY <1>1, <2>1, <3>3
  <2> QED BY <1>1, <1>2, <1>4, <1>5, <2>1 DEF Moves
<1>7. q.pc = "verify" /\ q.job = j /\ q.product = product
  BY <1>4 DEF Moved
<1>8. Position(w, q)' /\ ~Holds(q)
  BY <1>1, <1>7 DEF Position, ApiPcs, LinkPcs, Holds
<1>9. KnowsProduct(q)'
  BY <1>1, <1>3, <1>7, Constants DEF KnowsProduct, HasProduct, LinkPcs, Made, Linking
<1>10. Facts(w, q)' /\ KnowsLock(w, q)'
  BY <1>1, <1>2, <1>5, <1>7, <1>8, <1>9 DEF Facts, KnowsClaim, KnowsLine, KnowsFlush, KnowsLink,
     KnowsLock, Holds
<1> QED BY <1>4, <1>5, <1>6, <1>8, <1>10, LoudStep

\* A supplierinfo create whose answer was lost is carried out later.
LEMMA LandLinkStep ==
    ASSUME RemediationInv, NEW e \in latelinks, LandLink(e)
    PROVE  RemediationInv'
<1>0. Types /\ Links
  BY DEF RemediationInv, SharedInv
<1>1. e \in Infos /\ ~e.guarded /\ Agrees(e) /\ (e.product = 1 => products # <<>>)
  BY <1>0 DEF Types, Links
<1>2. Linking(e)
  BY <1>1 DEF LandLink, Linking
<1>3. proc' = proc /\ proc' \in [Workers -> Procs]
  BY <1>0 DEF LandLink, Types
<1>4. SharedInv' /\ Monotone /\ \A x \in Workers : Spared(x)
  BY <1>1, <1>2, <1>3, LinkingStep
<1> QED BY <1>3, <1>4, WorldMoves


-----------------------------------------------------------------------------
(* Lost answers, lost processes, and time. *)

\* The process that may create gives up on the answer, or dies: its create may still land.
LEMMA LostStep ==
    ASSUME RemediationInv, NEW w \in Workers, proc[w].pc \in {"create", "createline"},
           inflight' = inflight \cup {proc[w].job}, Leave(w), Unlock(w),
           UNCHANGED <<version, row, late, claim, products, infos, latelinks>>
    PROVE  RemediationInv'
<1>0. Types /\ Barrier /\ Records /\ Links
  BY DEF RemediationInv, SharedInv
<1> PICK j : j = proc[w].job
  OBVIOUS
<1>1. /\ j \in Creators /\ claim = j /\ Uncreated /\ Attempted(j) /\ j \notin late
      /\ \A x \in Workers \ {w} : ~Holds(proc[x])
      /\ \A x \in Workers \ {w} : proc[x].job \in LineJobs => proc[x].job # j
  BY CreatorFacts
<1>2. inflight' = {j}
  BY <1>1 DEF Uncreated
<1>3. AuthKept(w)
  BY <1>0, UnlockKeeps
<1>4. Moves(w, Idle) /\ Facts(w, Idle)' /\ KnowsLock(w, Idle)' /\ ~Holds(Idle)
  BY <1>0, IdleAfter
<1>5. SharedInv'
  <2>1. Types'
    BY <1>0, <1>1, <1>2, <1>3, <1>4 DEF Types, AuthKept, Moves
  <2>2. Barrier'
    BY <1>0, <1>1, <1>2 DEF Barrier, Uncreated, Attempted
  <2>3. Records'
    BY <1>0 DEF Records, Made, LinkedFirst, Hampered
  <2>4. Links'
    BY <1>0 DEF Links, OwnLinks, Agrees, Made
  <2> QED BY <2>1, <2>2, <2>3, <2>4 DEF SharedInv
<1>6. Monotone
  BY DEF Monotone, Hampered
<1>7. ASSUME NEW x \in Workers \ {w} PROVE Spared(x)
  <2>1. proc[x].job \in NewJobs /\ authLock[proc[x].job] = x => authLock'[proc[x].job] = x
    BY <1>3 DEF AuthKept, Jobs
  <2>2. OwnLinks' = OwnLinks
    BY DEF OwnLinks
  <2> QED BY <1>1, <2>1, <2>2 DEF Spared
<1> QED BY <1>4, <1>5, <1>6, <1>7, LoudStep

LEMMA CreateLostStep ==
    ASSUME RemediationInv, NEW w \in Workers, CreateLost(w)
    PROVE  RemediationInv'
<1>1. proc[w].pc \in {"create", "createline"}
  BY DEF CreateLost, At
<1> QED BY <1>1, LostStep DEF CreateLost

LEMMA CrashStep ==
    ASSUME RemediationInv, NEW w \in Workers, Crash(w)
    PROVE  RemediationInv'
<1>1. CASE proc[w].pc \in {"create", "createline"}
  BY <1>1, LostStep DEF Crash
<1>2. CASE proc[w].pc \notin {"create", "createline"}
  <2>1. UNCHANGED shared
    BY <1>2 DEF Crash, shared
  <2>2. Leave(w) /\ AuthKept(w) /\ version' \in [Reviews -> Nat]
    BY UnlockKeeps, SameVersion DEF Crash, RemediationInv, SharedInv
  <2> QED BY <2>1, <2>2, LeaveStep
<1> QED BY <1>1, <1>2

LEMMA LinkLostStep ==
    ASSUME RemediationInv, NEW w \in Workers, LinkLost(w)
    PROVE  RemediationInv'
<1>0. Types /\ Barrier /\ Records /\ Links /\ proc[w].pc \in LinkPcs
  BY DEF RemediationInv, SharedInv, LinkLost, At, LinkPcs
<1>1. UNCHANGED <<version, row, late, claim, products, infos, inflight>> /\ Leave(w)
  BY DEF LinkLost
<1> PICK j \in NewJobs \cup MapJobs : j = proc[w].job
  BY <1>0, LinkJob
<1> PICK product \in 0..Catalog : product = proc[w].product
  BY <1>0, LinkJob
<1> PICK e : e = [product |-> product, by |-> j, guarded |-> FALSE]
  OBVIOUS
<1>2. /\ latelinks' = latelinks \cup {e}
      /\ e \in Infos /\ e.by = j /\ ~e.guarded
      /\ Agrees(e) /\ (e.product = 1 => products # <<>>)
  <2>1. e.by = j /\ e.product = product /\ e.guarded = FALSE /\ e \in Infos
    BY DEF Infos, Jobs
  <2>2. latelinks' = latelinks \cup {e}
    BY DEF LinkLost
  <2>3. IF j \in NewJobs THEN Made(j) /\ product = 1 ELSE j \in MapJobs /\ product = Catalog
    BY <1>0, LinkJob
  <2>4. Agrees(e)
    BY <2>1, <2>3 DEF Agrees
  <2>5. e.product = 1 => products # <<>>
    BY <2>1, <2>3, Constants DEF Made
  <2> QED BY <2>1, <2>2, <2>4, <2>5
<1>3. AuthKept(w)
  BY <1>0, UnlockKeeps DEF LinkLost
<1>4. Moves(w, Idle) /\ Facts(w, Idle)' /\ KnowsLock(w, Idle)' /\ ~Holds(Idle)
  BY <1>0, <1>1, IdleAfter
<1>5. SharedInv'
  <2>1. Types'
    BY <1>0, <1>1, <1>2, <1>3, <1>4 DEF Types, AuthKept, Moves
  <2>2. Barrier'
    BY <1>0, <1>1 DEF Barrier, Uncreated, Attempted, Made
  <2>3. Records'
    BY <1>0, <1>1 DEF Records, Made, LinkedFirst, Hampered
  <2>4. Links'
    BY <1>0, <1>1, <1>2 DEF Links, OwnLinks, Agrees, Made
  <2> QED BY <2>1, <2>2, <2>3, <2>4 DEF SharedInv
<1>6. Monotone
  BY <1>1 DEF Monotone, Hampered
<1>7. ASSUME NEW x \in Workers \ {w} PROVE Spared(x)
  <2>0. proc'[x] = proc[x]
    BY <1>4 DEF Moves
  <2>1. proc[x].job \in NewJobs /\ authLock[proc[x].job] = x => authLock'[proc[x].job] = x
    BY <1>3 DEF AuthKept, Jobs
  <2>2. OwnLinks' = OwnLinks /\ Uncreated' = Uncreated
    BY <1>1 DEF OwnLinks, Uncreated
  <2>3. Holds(proc[x]) => Uncreated
    BY HolderJob
  <2> QED BY <1>1, <2>0, <2>1, <2>2, <2>3 DEF Spared, Attempted
<1> QED BY <1>4, <1>5, <1>6, <1>7, LoudStep

LEMMA VanishStep ==
    ASSUME RemediationInv, NEW lost, Vanish(lost)
    PROVE  RemediationInv'
<1>0. Types /\ Barrier /\ Records /\ Links
  BY DEF RemediationInv, SharedInv
<1>1. UNCHANGED <<version, row, late, claim, products, infos, authLock, proc>>
  BY DEF Vanish
<1>2. inflight' \subseteq inflight /\ latelinks' \subseteq latelinks /\ (Uncreated => Uncreated')
  BY DEF Vanish, Uncreated
<1>3. SharedInv'
  <2>1. Types'
    BY <1>0, <1>1, <1>2 DEF Types
  <2>2. Barrier'
    BY <1>0, <1>1, <1>2 DEF Barrier, Uncreated, Attempted, Made
  <2>3. Records'
    BY <1>0, <1>1 DEF Records, Made, LinkedFirst, Hampered
  <2>4. Links'
    BY <1>0, <1>1, <1>2 DEF Links, OwnLinks, Agrees, Made
  <2> QED BY <2>1, <2>2, <2>3, <2>4 DEF SharedInv
<1>4. Monotone
  BY <1>1 DEF Monotone, Hampered
<1>5. ASSUME NEW x \in Workers PROVE Spared(x)
  <2>1. Holds(proc[x]) => Uncreated
    BY HolderJob
  <2>2. OwnLinks' = OwnLinks
    BY <1>1 DEF OwnLinks
  <2> QED BY <1>1, <1>2, <2>1, <2>2 DEF Spared, Attempted
<1> QED BY <1>1, <1>3, <1>4, <1>5, WorldMoves

LEMMA GracePassesStep ==
    ASSUME RemediationInv, NEW j \in LineJobs, GracePasses(j)
    PROVE  RemediationInv'
<1>0. Types /\ Barrier /\ Records /\ Links
  BY DEF RemediationInv, SharedInv
<1>1. UNCHANGED <<version, row, claim, products, infos, inflight, latelinks, authLock, proc>>
  BY DEF GracePasses
<1>2. /\ late' = late \cup {j} /\ j \notin inflight /\ row[j].status = "create_attempted"
      /\ \A x \in Workers : proc[x].job # j
  BY DEF GracePasses
<1>3. SharedInv'
  <2>1. Types'
    BY <1>0, <1>1, <1>2 DEF Types
  <2>2. Barrier'
    BY <1>0, <1>1, <1>2 DEF Barrier, Uncreated, Attempted, Made
  <2>3. Records'
    BY <1>0, <1>1 DEF Records, Made, LinkedFirst, Hampered
  <2>4. Links'
    BY <1>0, <1>1 DEF Links, OwnLinks, Agrees, Made
  <2> QED BY <2>1, <2>2, <2>3, <2>4 DEF SharedInv
<1>4. Monotone
  BY <1>1 DEF Monotone, Hampered
<1>5. ASSUME NEW x \in Workers PROVE Spared(x)
  <2>1. Holds(proc[x]) => Uncreated
    BY HolderJob
  <2>2. OwnLinks' = OwnLinks /\ Uncreated' = Uncreated
    BY <1>1 DEF OwnLinks, Uncreated
  <2> QED BY <1>1, <1>2, <2>1, <2>2 DEF Spared, Attempted
<1> QED BY <1>1, <1>3, <1>4, <1>5, WorldMoves

\* The version of a review, or nothing, moves.
LEMMA VersionStep ==
    ASSUME RemediationInv, version' \in [Reviews -> Nat], UNCHANGED shared, UNCHANGED <<authLock, proc>>
    PROVE  RemediationInv'
<1>1. SharedInv' /\ Monotone
  <2>1. authLock' \in [Jobs -> Workers \cup {NoOne}] /\ proc' \in [Workers -> Procs]
    BY DEF RemediationInv, SharedInv, Types
  <2> QED BY <2>1, QuietShared DEF RemediationInv
<1>2. ASSUME NEW x \in Workers PROVE Spared(x)
  <2>1. Holds(proc[x]) => Uncreated
    BY HolderJob
  <2>2. OwnLinks' = OwnLinks /\ Uncreated' = Uncreated
    BY DEF OwnLinks, Uncreated, shared
  <2> QED BY <2>1, <2>2 DEF Spared, Attempted, shared
<1> QED BY <1>1, <1>2, WorldMoves

LEMMA ReviewMovesStep ==
    ASSUME RemediationInv, NEW r \in Reviews, ReviewMoves(r)
    PROVE  RemediationInv'
<1>1. version' \in [Reviews -> Nat]
  BY DEF ReviewMoves, RemediationInv, SharedInv, Types
<1> QED BY <1>1, VersionStep DEF ReviewMoves, shared

-----------------------------------------------------------------------------
(* The theorems. *)

\* At first nothing is claimed, created or under way.
LEMMA RemediationStart == Init => RemediationInv
<1> SUFFICES ASSUME Init PROVE RemediationInv
  OBVIOUS
<1>1. Idle \in Procs /\ Idle.pc = "idle" /\ Idle.job = NoOne
  BY Constants DEF Idle, Procs, ReservationStatus, Catalog
<1>2. [status |-> "none", product |-> 0] \in Rows
  BY Constants DEF Rows, ReservationStatus
<1>3. Types
  <2>1. infos \in Seq(Infos) /\ products \in Seq(Creators)
    BY DEF Init
  <2>2. row \in [Creators -> Rows] /\ \A j \in LineJobs : row[j].status \in CreationStatus
    BY <1>2 DEF Init, Creators, CreationStatus
  <2> QED BY <1>1, <2>1, <2>2 DEF Init, Types
<1>4. Barrier
  BY DEF Init, Barrier, Uncreated
<1>5. Records
  BY DEF Init, Records, Creators
<1>6. Links
  BY DEF Init, Links, OwnLinks
<1>7. \A w \in Workers : proc[w].pc = "idle" /\ proc[w].job = NoOne
  BY <1>1 DEF Init
<1>8. OneHolder
  BY <1>7 DEF OneHolder, Holds
<1>9. NoOne \notin NewJobs /\ NoOne \notin MapJobs /\ NoOne \notin LineJobs
  BY Constants DEF Jobs
<1>10. \A w \in Workers : Facts(w, proc[w]) /\ KnowsLock(w, proc[w])
  BY <1>7, <1>9 DEF Facts, Position, KnowsClaim, KnowsLine, KnowsProduct, KnowsFlush, KnowsLink,
     KnowsLock, Holds, HasProduct, LinkPcs
<1> QED BY <1>3, <1>4, <1>5, <1>6, <1>8, <1>10 DEF RemediationInv, SharedInv

\* Every step keeps the invariant.
LEMMA RemediationStep ==
    ASSUME RemediationInv, [Next]_vars
    PROVE  RemediationInv'
<1>1. CASE UNCHANGED vars
  BY <1>1, SameVersion, VersionStep DEF vars, shared
<1>2. ASSUME NEW w \in Workers, WorkerStep(w) PROVE RemediationInv'
  BY <1>2, FlushStep, CreateStep, CreateLostStep, RecordCreatedStep, LinkStep, LinkWriteStep,
     LinkLostStep, VerifyLinkStep, LinkedStep DEF WorkerStep
<1>3. ASSUME NEW w \in ApiWorkers, ApiStep(w) PROVE RemediationInv'
  BY <1>3, ReserveStep, PrecheckStep, ClaimStep, ResolveRaceStep, ReuseStep, AttemptStep,
     CreateRefusedStep, RevertAttemptStep, ReconcileStep, SubmitNewStep DEF ApiStep
<1>4. CASE TickStep
  BY <1>4, StartStep, InsertAttemptStep, CreateLineStep, CreateLineRefusedStep, DiscardStep,
     RecoverStep, CompleteLineStep, SubmitLineStep, SubmitMapStep DEF TickStep
<1>5. CASE Environment
  BY <1>5, LandStep, LandLinkStep, VanishStep, GracePassesStep, ReviewMovesStep, CrashStep
     DEF Environment
<1> QED BY <1>1, <1>2, <1>3, <1>4, <1>5 DEF Next

\* The inductive invariant holds in every reachable state, also beside the expense mappings.
THEOREM RemediationInvariance == WorkSpec => []RemediationInv
<1>1. WorkInit => RemediationInv
  BY RemediationStart DEF WorkInit
<1>2. RemediationInv /\ [WorkNext]_<<vars, mappingvars>> => RemediationInv'
  BY RemediationStep DEF WorkNext
<1> QED BY <1>1, <1>2, PTL DEF WorkSpec

\* Whatever processes, retries, crashes, lost answers and review versions there are, the
\* supplier-product identity gets at most one product in Odoo, creates on their way included:
\* the claim that _create and _start insert before the Odoo call is released only when nothing
\* was created.
THEOREM OneProduct == WorkSpec => []OneProductPerIdentity
<1>1. RemediationInv => OneProductPerIdentity
  <2> SUFFICES ASSUME RemediationInv PROVE OneProductPerIdentity
    OBVIOUS
  <2>1. products = <<>> \/ (products = <<claim>> /\ inflight = {})
    BY DEF RemediationInv, SharedInv, Barrier, Made
  <2>2. inflight = {} \/ inflight = {claim}
    BY DEF RemediationInv, SharedInv, Barrier
  <2>3. Cardinality({}) = 0 /\ Cardinality({claim}) = 1
    BY FS_EmptySet, FS_Singleton
  <2>4. Len(<<>>) = 0 /\ Len(<<claim>>) = 1
    OBVIOUS
  <2>5. Len(products) \in {0, 1} /\ Cardinality(inflight) \in {0, 1}
        /\ (Len(products) = 1 => Cardinality(inflight) = 0)
    <3>1. CASE products = <<>>
      <4>1. Len(products) = 0
        BY <2>4, <3>1
      <4>2. Cardinality(inflight) \in {0, 1}
        BY <2>2, <2>3
      <4> QED BY <4>1, <4>2
    <3>2. CASE products = <<claim>> /\ inflight = {}
      <4>1. Len(products) = 1
        BY <2>4, <3>2
      <4>2. Cardinality(inflight) = 0
        BY <2>3, <3>2
      <4> QED BY <4>1, <4>2
    <3> QED BY <2>1, <3>1, <3>2
  <2>6. ASSUME NEW a \in {0, 1}, NEW b \in {0, 1}, a = 1 => b = 0 PROVE a + b <= 1
    BY <2>6
  <2>7. Len(products) + Cardinality(inflight) <= 1
    BY <2>5, <2>6
  <2> QED BY <2>7 DEF OneProductPerIdentity
<1> QED BY <1>1, RemediationInvariance, PTL

\* The reservation and creation rows tell the truth about Odoo and forget nothing: a product has
\* a maker that still owns the identity and cannot create again, and a completed command's product
\* is its own and is linked, although advance() checks a status that its UPDATE does not repeat.
\* However many retries link, with or without an authorization, and however late their rows land,
\* every supplierinfo row that they add names that product, and the retries that hold the lock of
\* claim_and_consume add one at most.
THEOREM CreationsRecorded == WorkSpec => []CreationIsRecorded
<1>1. RemediationInv => CreationIsRecorded
  <2> SUFFICES ASSUME RemediationInv PROVE CreationIsRecorded
    OBVIOUS
  <2>0. Types /\ Barrier /\ Records /\ Links
    BY DEF RemediationInv, SharedInv
  <2>1. RemediationTypeOK
    BY <2>0 DEF Types, RemediationTypeOK, Rows, Creators
  <2>2. \A j \in Creators : MadeBy(j) # {} => Made(j) /\ claim = j /\ Attempted(j)
    BY <2>0 DEF MadeBy, Barrier, Made, Uncreated
  <2>3. ProductIsRemembered
    BY <2>2 DEF ProductIsRemembered, Attempted, Creators
  <2>4. CompletedIsLinked
    <3> SUFFICES ASSUME NEW j \in Creators, row[j].status = "completed"
                 PROVE  /\ row[j].product \in MadeBy(j)
                        /\ \E i \in DOMAIN infos : infos[i].product = row[j].product
      BY DEF CompletedIsLinked, Creators
    <3>1. products = <<j>> /\ row[j].product = 1 /\ infos # <<>> /\ infos[1].product = 1
      BY <2>0 DEF Records, Made, LinkedFirst
    <3>2. 1 \in MadeBy(j)
      BY <3>1 DEF MadeBy
    <3>3. 1 \in DOMAIN infos
      BY <2>0, <3>1 DEF Types
    <3> QED BY <3>1, <3>2, <3>3
  <2>5. CreatedLinksAgree
    <3>1. OwnLinks = {} \/ \E i : OwnLinks = {i}
      <4>1. ASSUME NEW i \in OwnLinks PROVE OwnLinks = {i}
        BY <2>0, <4>1 DEF Links
      <4> QED BY <4>1
    <3>2. Cardinality({}) = 0 /\ \A i : Cardinality({i}) = 1
      BY FS_EmptySet, FS_Singleton
    <3>3. Cardinality(OwnLinks) \in {0, 1}
      BY <3>1, <3>2
    <3>4. Cardinality(OwnLinks) <= 1
      BY <3>3
    <3>5. ASSUME NEW i \in DOMAIN infos, infos[i].by \notin MapJobs
          PROVE  infos[i].product \in MadeBy(infos[i].by)
      BY <2>0, <3>5 DEF Links, Agrees, Made, MadeBy
    <3>6. OwnLinks = {i \in {k \in DOMAIN infos : infos[k].by \notin MapJobs} : infos[i].guarded}
      BY DEF OwnLinks
    <3> QED BY <3>4, <3>5, <3>6 DEF CreatedLinksAgree
  <2> QED BY <2>1, <2>3, <2>4, <2>5 DEF CreationIsRecorded
<1> QED BY <1>1, RemediationInvariance, PTL

-----------------------------------------------------------------------------
(* Expense mapping. *)

Commands == [review : MappedReviews, version : Nat, account : ExpenseAccounts]

Changes == [trigger : {"master_data_changed", "other"}, required : BOOLEAN, from : Nat]

QueuedReviews ==
    [version : Nat, pending : BOOLEAN, required : BOOLEAN, supplier : {Unset, 1},
     origin : {Unset, "match_existing", "one_off_vendor"}, events : SUBSET Changes]

\* Types of the expense mapping's state; the rows of the mappings are free.
MappingTypeOK ==
    /\ queue \in [MappedReviews -> QueuedReviews]
    /\ mapper \in [MappingRequests ->
                     [pc : {"idle", "check", "find", "insert", "evaluate", "reclassify"},
                      cmd : Commands \cup {Unset}, required : BOOLEAN, told : MappingAnswers \cup {Unset}]]

Stored(r, account) == \E e \in mappings : e.supplier = queue[r].supplier /\ e.account = account

\* What a request knows at each of its positions, however the reviews moved since.
Known(m) ==
    LET x == mapper[m]  cmd == mapper[m].cmd  r == queue[mapper[m].cmd.review] IN
    /\ x.pc # "idle" \/ x.told \in MappingAnswers => cmd \in Commands /\ cmd.version <= r.version
    /\ x.pc # "idle" => x.told = Unset
    /\ x.told \in {"resolved", "incomplete", "conflict"} => r.supplier # Unset
    /\ x.pc \in {"find", "insert", "evaluate", "reclassify"} =>
          r.supplier # Unset /\ (r.version = cmd.version => r.required)
    /\ x.pc \in {"evaluate", "reclassify"} => Stored(cmd.review, cmd.account)

\* MappingAnswersAreTrue of one request.
Truthful(m) ==
    LET x == mapper[m]  cmd == mapper[m].cmd  r == queue[mapper[m].cmd.review] IN
    /\ x.told \in {"resolved", "incomplete"} => Stored(cmd.review, cmd.account)
    /\ x.told = "resolved" => r.version > cmd.version
    /\ x.told = "conflict" =>
          \E e \in mappings : e.supplier = r.supplier /\ e.account # cmd.account

MappingInv ==
    /\ MappingTypeOK
    /\ OneMappingPerSupplier
    /\ \A m \in MappingRequests : Known(m) /\ Truthful(m)

-----------------------------------------------------------------------------
(* The steps. *)

\* What every step does to the rows that several requests share: mappings are only added, a
\* supplier is never changed, and a review that stays at its version keeps its question.
MappingAdvance ==
    /\ mappings \subseteq mappings'
    /\ \A r \in MappedReviews :
          /\ queue'[r].version >= queue[r].version
          /\ queue[r].supplier # Unset => queue'[r].supplier = queue[r].supplier
          /\ queue'[r].version = queue[r].version => queue'[r].required = queue[r].required

\* A request is not disturbed by the steps of others.
LEMMA OthersUndisturbed ==
    ASSUME MappingInv, MappingTypeOK', MappingAdvance, NEW m \in MappingRequests, mapper'[m] = mapper[m]
    PROVE  Known(m)' /\ Truthful(m)'
<1> DEFINE cmd == mapper[m].cmd
<1>1. CASE mapper[m].pc = "idle" /\ mapper[m].told \notin MappingAnswers
  BY <1>1 DEF Known, Truthful, MappingAnswers
<1>2. CASE mapper[m].pc # "idle" \/ mapper[m].told \in MappingAnswers
  <2>1. Known(m) /\ Truthful(m)
    BY DEF MappingInv
  <2>2. cmd \in Commands /\ cmd.version <= queue[cmd.review].version
    BY <1>2, <2>1 DEF Known
  <2>3. cmd.review \in MappedReviews /\ cmd.version \in Nat
    BY <2>2 DEF Commands
  <2>4. /\ queue[cmd.review].version \in Nat /\ queue'[cmd.review].version \in Nat
        /\ queue'[cmd.review].version >= queue[cmd.review].version
        /\ queue[cmd.review].supplier # Unset => queue'[cmd.review].supplier = queue[cmd.review].supplier
        /\ queue'[cmd.review].version = queue[cmd.review].version
              => queue'[cmd.review].required = queue[cmd.review].required
    BY <2>3 DEF MappingInv, MappingTypeOK, QueuedReviews, MappingAdvance
  <2>5. \A account : Stored(cmd.review, account) /\ queue[cmd.review].supplier # Unset
                        => Stored(cmd.review, account)'
    BY <2>4 DEF Stored, MappingAdvance
  <2>6. cmd' = cmd
    OBVIOUS
  <2>7. Known(m)'
    <3>1. cmd.version <= queue'[cmd.review].version
      BY <2>2, <2>3, <2>4
    <3>2. ASSUME queue[cmd.review].version = cmd.version => queue[cmd.review].required
          PROVE  queue'[cmd.review].version = cmd.version => queue'[cmd.review].required
      BY <2>2, <2>3, <2>4, <3>2
    <3>3. QED
      BY <2>1, <2>2, <2>4, <2>5, <3>1, <3>2 DEF Known, Stored, Commands
  <2>8. Truthful(m)'
    <3>1. queue[cmd.review].version > cmd.version => queue'[cmd.review].version > cmd.version
      BY <2>3, <2>4
    <3>2. mapper[m].told \in {"resolved", "incomplete", "conflict"} => queue[cmd.review].supplier # Unset
      BY <2>1 DEF Known
    <3>3. mapper[m].told = "conflict" =>
             \E e \in mappings' : e.supplier = queue'[cmd.review].supplier /\ e.account # cmd.account
      BY <2>1, <2>4, <3>2 DEF Truthful, MappingAdvance
    <3>4. QED
      BY <2>1, <2>5, <3>1, <3>2, <3>3 DEF Truthful
  <2>9. QED
    BY <2>7, <2>8
<1>3. QED
  BY <1>1, <1>2

\* So that a step of one request has only that request to look at.
LEMMA OneRequestMoves ==
    ASSUME MappingInv, MappingTypeOK', MappingAdvance, OneMappingPerSupplier',
           NEW m \in MappingRequests, Known(m)', Truthful(m)',
           \A n \in MappingRequests \ {m} : mapper'[n] = mapper[n]
    PROVE  MappingInv'
BY OthersUndisturbed DEF MappingInv

Requests == [pc : {"idle", "check", "find", "insert", "evaluate", "reclassify"},
             cmd : Commands \cup {Unset}, required : BOOLEAN, told : MappingAnswers \cup {Unset}]

\* What a request that is told something becomes.
LEMMA AnswerEffect ==
    ASSUME MappingInv, NEW m \in MappingRequests, NEW result \in MappingAnswers, Answer(m, result)
    PROVE  /\ mapper' \in [MappingRequests -> Requests]
           /\ mapper'[m].pc = "idle" /\ mapper'[m].cmd = mapper[m].cmd /\ mapper'[m].told = result
           /\ \A n \in MappingRequests \ {m} : mapper'[n] = mapper[n]
BY DEF MappingInv, MappingTypeOK, QueuedReviews, Answer, NoMapper, Requests

\* A request that goes on, with what it knows so far.
LEMMA MoveEffect ==
    ASSUME MappingInv, NEW m \in MappingRequests, NEW p, NEW q \in BOOLEAN,
           p \in {"check", "find", "insert", "evaluate", "reclassify"},
           \/ mapper' = [mapper EXCEPT ![m].pc = p]
           \/ mapper' = [mapper EXCEPT ![m].pc = p, ![m].required = q]
    PROVE  /\ mapper' \in [MappingRequests -> Requests]
           /\ mapper'[m].pc = p /\ mapper'[m].cmd = mapper[m].cmd /\ mapper'[m].told = mapper[m].told
           /\ \A n \in MappingRequests \ {m} : mapper'[n] = mapper[n]
BY DEF MappingInv, MappingTypeOK, QueuedReviews, Requests

\* An answer that promises nothing about the mapping keeps the invariant.
LEMMA PlainAnswer ==
    ASSUME MappingInv, NEW m \in MappingRequests, mapper[m].pc # "idle",
           NEW result \in MappingAnswers \ {"resolved", "incomplete", "conflict"},
           Answer(m, result), UNCHANGED <<mappings, queue>>
    PROVE  MappingInv'
<1>1. /\ mapper' \in [MappingRequests -> Requests]
      /\ mapper'[m].pc = "idle" /\ mapper'[m].cmd = mapper[m].cmd /\ mapper'[m].told = result
      /\ \A n \in MappingRequests \ {m} : mapper'[n] = mapper[n]
  BY AnswerEffect
<1>2. MappingTypeOK' /\ OneMappingPerSupplier'
  BY <1>1 DEF MappingInv, MappingTypeOK, QueuedReviews, OneMappingPerSupplier, Requests
<1>3. MappingAdvance
  BY DEF MappingAdvance, MappingInv, MappingTypeOK, QueuedReviews
<1>4. mapper[m].cmd \in Commands /\ mapper[m].cmd.version <= queue[mapper[m].cmd.review].version
  BY DEF MappingInv, Known
<1>5. Known(m)' /\ Truthful(m)'
  BY <1>1, <1>4, UnsetAssumption DEF MappingAnswers, Known, Truthful
<1>6. QED
  BY <1>1, <1>2, <1>3, <1>5, OneRequestMoves

\* An answer that the mapping is in place keeps it, if the mapping is, and if a review that is
\* resolved is past the version asked about.
LEMMA TrueAnswer ==
    ASSUME MappingInv, NEW m \in MappingRequests, mapper[m].pc # "idle", NEW q \in BOOLEAN,
           Answer(m, Status(q)), UNCHANGED mappings, MappingTypeOK', MappingAdvance,
           Stored(mapper[m].cmd.review, mapper[m].cmd.account),
           queue[mapper[m].cmd.review].supplier # Unset,
           ~q => queue'[mapper[m].cmd.review].version > mapper[m].cmd.version
    PROVE  MappingInv'
<1> DEFINE cmd == mapper[m].cmd
<1>1. Status(q) \in {"resolved", "incomplete"} /\ (Status(q) = "resolved" <=> ~q)
  BY DEF Status
<1>2. /\ mapper'[m].pc = "idle" /\ mapper'[m].cmd = cmd /\ mapper'[m].told = Status(q)
      /\ \A n \in MappingRequests \ {m} : mapper'[n] = mapper[n]
  BY <1>1, AnswerEffect DEF MappingAnswers
<1>3. cmd \in Commands /\ cmd.version <= queue[cmd.review].version
  BY DEF MappingInv, Known
<1>4. /\ cmd.review \in MappedReviews /\ cmd.version \in Nat /\ queue[cmd.review].version \in Nat
      /\ queue'[cmd.review].version \in Nat /\ queue'[cmd.review].version >= queue[cmd.review].version
      /\ queue'[cmd.review].supplier = queue[cmd.review].supplier
  BY <1>3 DEF Commands, MappingInv, MappingTypeOK, QueuedReviews, MappingAdvance
<1>5. Stored(cmd.review, cmd.account)'
  BY <1>2, <1>4 DEF Stored
<1>6. Known(m)'
  <2>1. cmd.version <= queue'[cmd.review].version
    BY <1>3, <1>4
  <2>2. QED
    BY <1>1, <1>2, <1>3, <1>4, <2>1, UnsetAssumption DEF MappingAnswers, Known
<1>7. Truthful(m)'
  BY <1>1, <1>2, <1>5 DEF Truthful, Stored
<1>8. OneMappingPerSupplier'
  BY DEF MappingInv, OneMappingPerSupplier
<1>9. QED
  BY <1>2, <1>6, <1>7, <1>8, OneRequestMoves

\* A request that goes on to p, without a change of the shared rows.
LEMMA GoOn ==
    ASSUME MappingInv, NEW m \in MappingRequests, mapper[m].pc # "idle", NEW p, NEW q \in BOOLEAN,
           p \in {"find", "insert", "evaluate", "reclassify"},
           \/ mapper' = [mapper EXCEPT ![m].pc = p]
           \/ mapper' = [mapper EXCEPT ![m].pc = p, ![m].required = q],
           UNCHANGED queue, mappings \subseteq mappings', OneMappingPerSupplier',
           queue[mapper[m].cmd.review].supplier # Unset,
           queue[mapper[m].cmd.review].version = mapper[m].cmd.version
              => queue[mapper[m].cmd.review].required,
           p \in {"evaluate", "reclassify"} => Stored(mapper[m].cmd.review, mapper[m].cmd.account)'
    PROVE  MappingInv'
<1> DEFINE cmd == mapper[m].cmd
<1>1. /\ mapper' \in [MappingRequests -> Requests]
      /\ mapper'[m].pc = p /\ mapper'[m].cmd = cmd /\ mapper'[m].told = mapper[m].told
      /\ \A n \in MappingRequests \ {m} : mapper'[n] = mapper[n]
  BY MoveEffect
<1>2. MappingTypeOK'
  BY <1>1 DEF MappingInv, MappingTypeOK, QueuedReviews, Requests
<1>3. MappingAdvance
  BY DEF MappingAdvance, MappingInv, MappingTypeOK, QueuedReviews
<1>4. cmd \in Commands /\ cmd.version <= queue[cmd.review].version /\ mapper[m].told = Unset
  BY DEF MappingInv, Known
<1>5. p \in {"evaluate", "reclassify"} =>
         \E e \in mappings' : e.supplier = queue[cmd.review].supplier /\ e.account = cmd.account
  BY <1>1 DEF Stored
<1>6. Known(m)' /\ Truthful(m)'
  BY <1>1, <1>4, <1>5, UnsetAssumption DEF MappingAnswers, Known, Truthful, Stored
<1>7. QED
  BY <1>1, <1>2, <1>3, <1>6, OneRequestMoves

\* A new request knows nothing but its command.
LEMMA SendMappingStep ==
    ASSUME MappingInv, NEW m \in MappingRequests, SendMapping(m)
    PROVE  MappingInv'
<1>1. PICK r \in MappedReviews, v \in 1 .. MaxMappedVersion, a \in ExpenseAccounts :
         /\ v <= queue[r].version
         /\ mapper' = [mapper EXCEPT ![m] = [NoMapper EXCEPT !.pc = "check",
                          !.cmd = [review |-> r, version |-> v, account |-> a]]]
  BY DEF SendMapping
<1> DEFINE cmd == [review |-> r, version |-> v, account |-> a]
<1>2. v \in Nat
  BY MappedVersionAssumption
<1>3. cmd \in Commands /\ cmd.version <= queue[cmd.review].version
  BY <1>1, <1>2 DEF Commands
<1>4. /\ mapper' \in [MappingRequests -> Requests]
      /\ mapper'[m].pc = "check" /\ mapper'[m].cmd = cmd /\ mapper'[m].told = Unset
      /\ \A n \in MappingRequests \ {m} : mapper'[n] = mapper[n]
  BY <1>1, <1>3 DEF MappingInv, MappingTypeOK, QueuedReviews, NoMapper, Requests
<1>5. MappingTypeOK' /\ OneMappingPerSupplier' /\ MappingAdvance
  <2>1. MappingTypeOK' /\ OneMappingPerSupplier'
    BY <1>4 DEF SendMapping, MappingInv, MappingTypeOK, OneMappingPerSupplier, Requests
  <2>2. MappingAdvance
    BY DEF SendMapping, MappingInv, MappingTypeOK, QueuedReviews, MappingAdvance
  <2>3. QED
    BY <2>1, <2>2
<1>6. Known(m)' /\ Truthful(m)'
  BY <1>3, <1>4, UnsetAssumption DEF MappingAnswers, Known, Truthful, SendMapping
<1>7. QED
  BY <1>4, <1>5, <1>6, OneRequestMoves

\* The checks before the write, and the answer to a command that was applied before.
LEMMA CheckMappingStep ==
    ASSUME MappingInv, NEW m \in MappingRequests, CheckMapping(m)
    PROVE  MappingInv'
<1> DEFINE cmd == mapper[m].cmd
           r   == queue[cmd.review]
<1>1. mapper[m].pc = "check" /\ UNCHANGED <<mappings, queue>>
  BY DEF CheckMapping
<1>2. cmd \in Commands /\ cmd.review \in MappedReviews /\ r.required \in BOOLEAN
  BY <1>1 DEF MappingInv, Known, MappingTypeOK, QueuedReviews, Commands
<1>3. CASE r.version > cmd.version /\ AlreadyApplied(cmd) /\ Answer(m, Status(r.required))
  <2>1. r.supplier # Unset /\ Stored(cmd.review, cmd.account)
    BY <1>3 DEF AlreadyApplied, FindForSupplier, Stored
  <2>2. MappingAdvance
    BY <1>1 DEF MappingAdvance, MappingInv, MappingTypeOK, QueuedReviews
  <2>3. Status(r.required) \in MappingAnswers
    BY DEF Status, MappingAnswers
  <2>4. MappingTypeOK'
    BY <1>1, <1>3, <2>3, AnswerEffect DEF MappingInv, MappingTypeOK, QueuedReviews, Requests
  <2>5. QED
    BY <1>1, <1>2, <1>3, <2>1, <2>2, <2>4, TrueAnswer
<1>4. CASE Answer(m, "version conflict") \/ Answer(m, "refused")
  BY <1>1, <1>4, PlainAnswer DEF MappingAnswers
<1>5. CASE /\ r.pending /\ r.required /\ r.supplier # Unset
           /\ mapper' = [mapper EXCEPT ![m].pc = "find"]
  BY <1>1, <1>5, GoOn DEF MappingInv, OneMappingPerSupplier
<1>6. QED
  BY <1>3, <1>4, <1>5 DEF CheckMapping

\* The lookup of the supplier's mapping.
LEMMA OnboardFindStep ==
    ASSUME MappingInv, NEW m \in MappingRequests, OnboardFind(m)
    PROVE  MappingInv'
<1> DEFINE cmd  == mapper[m].cmd
           rows == FindForSupplier(queue[cmd.review].supplier)
<1>1. mapper[m].pc = "find" /\ UNCHANGED <<mappings, queue>>
  BY DEF OnboardFind
<1>2. /\ cmd \in Commands /\ cmd.version <= queue[cmd.review].version
      /\ queue[cmd.review].supplier # Unset
      /\ queue[cmd.review].version = cmd.version => queue[cmd.review].required
  BY <1>1 DEF MappingInv, Known
<1>3. CASE (\E e \in rows : e.account # cmd.account) /\ Answer(m, "conflict")
  <2>1. \E e \in mappings : e.supplier = queue[cmd.review].supplier /\ e.account # cmd.account
    BY <1>3 DEF FindForSupplier
  <2>2. /\ mapper' \in [MappingRequests -> Requests]
        /\ mapper'[m].pc = "idle" /\ mapper'[m].cmd = cmd /\ mapper'[m].told = "conflict"
        /\ \A n \in MappingRequests \ {m} : mapper'[n] = mapper[n]
    BY <1>3, AnswerEffect DEF MappingAnswers
  <2>3. MappingTypeOK' /\ OneMappingPerSupplier' /\ MappingAdvance
    BY <1>1, <2>2 DEF MappingInv, MappingTypeOK, QueuedReviews, OneMappingPerSupplier, Requests, MappingAdvance
  <2>4. Known(m)' /\ Truthful(m)'
    BY <1>1, <1>2, <2>1, <2>2, UnsetAssumption DEF MappingAnswers, Known, Truthful
  <2>5. QED
    BY <2>2, <2>3, <2>4, OneRequestMoves
<1>4. CASE /\ ~ \E e \in rows : e.account # cmd.account
           /\ mapper' = [mapper EXCEPT ![m].pc = IF rows = {} THEN "insert" ELSE "evaluate"]
  <2>1. CASE rows = {}
    BY <1>1, <1>2, <1>4, <2>1, GoOn DEF MappingInv, OneMappingPerSupplier
  <2>2. CASE rows # {}
    <3>1. Stored(cmd.review, cmd.account)
      BY <1>4, <2>2 DEF FindForSupplier, Stored
    <3>2. Stored(cmd.review, cmd.account)'
      <4>1. cmd' = cmd
        BY <1>4, <1>1 DEF MappingInv, MappingTypeOK, QueuedReviews
      <4>2. QED
        BY <1>1, <3>1, <4>1 DEF Stored
    <3>3. QED
      BY <1>1, <1>2, <1>4, <2>2, <3>2, GoOn DEF MappingInv, OneMappingPerSupplier
  <2>3. QED
    BY <2>1, <2>2
<1>5. QED
  BY <1>3, <1>4 DEF OnboardFind

\* The insert: only the unique index stands between two requests that both found nothing.
LEMMA OnboardCreateStep ==
    ASSUME MappingInv, NEW m \in MappingRequests, OnboardCreate(m)
    PROVE  MappingInv'
<1> DEFINE cmd == mapper[m].cmd
           supplier == queue[cmd.review].supplier
           new == [id |-> Cardinality(mappings) + 1, supplier |-> supplier, account |-> cmd.account]
<1>1. mapper[m].pc = "insert" /\ UNCHANGED queue
  BY DEF OnboardCreate
<1>2. /\ supplier # Unset
      /\ queue[cmd.review].version = cmd.version => queue[cmd.review].required
  BY <1>1 DEF MappingInv, Known
<1>3. CASE /\ ActiveSupplierFree(supplier)
           /\ mappings' = mappings \cup {new}
           /\ mapper' = [mapper EXCEPT ![m].pc = "evaluate"]
  <2>1. new.supplier = supplier /\ new.account = cmd.account
    OBVIOUS
  <2> HIDE DEF new
  <2>2. \A e \in mappings : e.supplier # supplier
    BY <1>3 DEF ActiveSupplierFree, FindForSupplier
  <2>3. OneMappingPerSupplier'
    BY <1>3, <2>1, <2>2 DEF MappingInv, OneMappingPerSupplier
  <2>4. cmd' = cmd
    BY <1>3 DEF MappingInv, MappingTypeOK, QueuedReviews
  <2>5. Stored(cmd.review, cmd.account)'
    BY <1>1, <1>3, <2>1, <2>4 DEF Stored
  <2>6. QED
    BY <1>1, <1>2, <1>3, <2>3, <2>5, GoOn
<1>4. CASE Answer(m, "integrity") /\ UNCHANGED mappings
  BY <1>1, <1>4, PlainAnswer DEF MappingAnswers
<1>5. QED
  BY <1>3, <1>4 DEF OnboardCreate

\* The evaluation reads the mappings and remembers what it found.
LEMMA EvaluatedStep ==
    ASSUME MappingInv, NEW m \in MappingRequests, Evaluated(m)
    PROVE  MappingInv'
<1> DEFINE cmd == mapper[m].cmd
           q == StillRequired(cmd.review)
<1>1. /\ mapper[m].pc = "evaluate" /\ UNCHANGED <<mappings, queue>>
      /\ mapper' = [mapper EXCEPT ![m].pc = "reclassify", ![m].required = q]
  BY DEF Evaluated
<1>2. q \in BOOLEAN
  BY DEF StillRequired
<1> HIDE DEF q
<1>3. /\ queue[cmd.review].supplier # Unset
      /\ queue[cmd.review].version = cmd.version => queue[cmd.review].required
      /\ Stored(cmd.review, cmd.account)
  BY <1>1 DEF MappingInv, Known
<1>4. cmd' = cmd
  BY <1>1, <1>2 DEF MappingInv, MappingTypeOK, QueuedReviews
<1>5. Stored(cmd.review, cmd.account)'
  BY <1>1, <1>3, <1>4 DEF Stored
<1>6. QED
  BY <1>1, <1>2, <1>3, <1>5, GoOn DEF MappingInv, OneMappingPerSupplier

\* A review that goes to its next version.
LEMMA NextVersion ==
    ASSUME NEW r \in QueuedReviews, NEW q \in BOOLEAN, NEW new \in Changes
    PROVE  LET moved == [r EXCEPT !.version = @ + 1, !.required = q, !.events = @ \cup {new}] IN
           /\ moved \in QueuedReviews
           /\ moved.version = r.version + 1 /\ moved.supplier = r.supplier
<1> DEFINE r1 == [r EXCEPT !.version = @ + 1]
           r2 == [r1 EXCEPT !.required = q]
           r3 == [r2 EXCEPT !.events = @ \cup {new}]
<1>1. r1 \in QueuedReviews /\ r1.version = r.version + 1 /\ r1.supplier = r.supplier /\ r1.events = r.events
  BY DEF QueuedReviews
<1> HIDE DEF r1
<1>2. r2 \in QueuedReviews /\ r2.version = r1.version /\ r2.supplier = r1.supplier /\ r2.events = r1.events
  BY <1>1 DEF QueuedReviews
<1> HIDE DEF r2
<1>3. r3 \in QueuedReviews /\ r3.version = r2.version /\ r3.supplier = r2.supplier
  BY <1>2 DEF QueuedReviews
<1>4. r3 = [r EXCEPT !.version = @ + 1, !.required = q, !.events = @ \cup {new}]
  BY <1>1, <1>2 DEF r1, r2, QueuedReviews
<1>5. QED
  BY <1>1, <1>2, <1>3, <1>4

\* The reclassification in a second transaction, or its refusal because the review moved on.
LEMMA ReclassifyMappedStep ==
    ASSUME MappingInv, NEW m \in MappingRequests, ReclassifyMapped(m)
    PROVE  MappingInv'
<1> DEFINE cmd == mapper[m].cmd
           r   == queue[cmd.review]
           q   == mapper[m].required
           new == [trigger |-> "master_data_changed", required |-> q, from |-> cmd.version]
<1>1. mapper[m].pc = "reclassify" /\ UNCHANGED mappings
  BY DEF ReclassifyMapped
<1>2. /\ cmd \in Commands /\ cmd.version <= r.version /\ r.supplier # Unset
      /\ r.version = cmd.version => r.required
      /\ Stored(cmd.review, cmd.account)
  BY <1>1 DEF MappingInv, Known
<1>3. cmd.review \in MappedReviews /\ cmd.version \in Nat /\ r.version \in Nat /\ q \in BOOLEAN
      /\ r.required \in BOOLEAN
  BY <1>2 DEF Commands, MappingInv, MappingTypeOK, QueuedReviews
<1>4. Status(q) \in MappingAnswers
  BY DEF Status, MappingAnswers
<1>5. CASE Answer(m, Status(q)) /\ UNCHANGED queue /\ (r.version # cmd.version \/ q = r.required)
  <2>1. MappingTypeOK'
    BY <1>4, <1>5, AnswerEffect DEF MappingInv, MappingTypeOK, QueuedReviews, Requests
  <2>2. MappingAdvance
    BY <1>1, <1>5 DEF MappingAdvance, MappingInv, MappingTypeOK, QueuedReviews
  <2>3. ~q => queue'[cmd.review].version > cmd.version
    BY <1>2, <1>3, <1>5
  <2>4. QED
    BY <1>1, <1>2, <1>3, <1>5, <2>1, <2>2, <2>3, TrueAnswer
<1>6. CASE (Answer(m, "version conflict") \/ Answer(m, "state conflict")) /\ UNCHANGED queue
  BY <1>1, <1>6, PlainAnswer DEF MappingAnswers
<1>7. CASE /\ Answer(m, Status(q)) /\ q # r.required /\ r.version = cmd.version
           /\ queue' = [queue EXCEPT ![cmd.review].version = @ + 1, ![cmd.review].required = q,
                                     ![cmd.review].events = @ \cup {new}]
  <2>1. r \in QueuedReviews
    BY <1>3 DEF MappingInv, MappingTypeOK
  <2>2. new \in Changes
    BY <1>3 DEF Changes
  <2> HIDE DEF new
  <2> DEFINE moved == [r EXCEPT !.version = @ + 1, !.required = q, !.events = @ \cup {new}]
  <2> HIDE DEF r, q
  <2>3. /\ moved \in QueuedReviews
        /\ moved.version = r.version + 1 /\ moved.supplier = r.supplier
    BY <1>3, <2>1, <2>2, NextVersion
  <2> USE DEF r, q
  <2>4. queue' = [queue EXCEPT ![cmd.review] = moved]
    BY <1>3, <1>7 DEF MappingInv, MappingTypeOK, QueuedReviews
  <2> HIDE DEF moved
  <2>5. MappingTypeOK'
    <3>1. mapper' \in [MappingRequests -> Requests]
      BY <1>4, <1>7, AnswerEffect
    <3>2. QED
      BY <1>3, <2>3, <2>4, <3>1 DEF MappingInv, MappingTypeOK, QueuedReviews, Requests
  <2>6. MappingAdvance
    BY <1>1, <1>3, <2>3, <2>4 DEF MappingAdvance, MappingInv, MappingTypeOK, QueuedReviews
  <2>7. queue'[cmd.review].version > cmd.version
    BY <1>3, <1>7, <2>3, <2>4 DEF MappingInv, MappingTypeOK, QueuedReviews
  <2>8. QED
    BY <1>1, <1>2, <1>3, <1>7, <2>5, <2>6, <2>7, TrueAnswer
<1>8. QED
  BY <1>5, <1>6, <1>7 DEF ReclassifyMapped

\* A failing call or the end of the process.
LEMMA MappingEndsStep ==
    ASSUME MappingInv, NEW m \in MappingRequests, MappingFails(m) \/ MappingLost(m)
    PROVE  MappingInv'
<1>1. CASE MappingFails(m)
  <2>1. mapper[m].pc # "idle" /\ Answer(m, "error") /\ UNCHANGED <<mappings, queue>>
    BY <1>1 DEF MappingFails
  <2>2. QED
    BY <2>1, PlainAnswer DEF MappingAnswers
<1>2. CASE MappingLost(m)
  <2>1. /\ mapper' \in [MappingRequests -> Requests]
        /\ mapper'[m] = NoMapper /\ UNCHANGED <<mappings, queue>>
        /\ \A n \in MappingRequests \ {m} : mapper'[n] = mapper[n]
    BY <1>2 DEF MappingLost, MappingInv, MappingTypeOK, NoMapper, Requests
  <2>2. MappingTypeOK' /\ OneMappingPerSupplier' /\ MappingAdvance
    BY <2>1 DEF MappingInv, MappingTypeOK, QueuedReviews, OneMappingPerSupplier, Requests, MappingAdvance
  <2>3. mapper'[m].pc = "idle" /\ mapper'[m].told = Unset
    BY <2>1 DEF NoMapper
  <2>4. Known(m)' /\ Truthful(m)'
    BY <2>3, UnsetAssumption DEF MappingAnswers, Known, Truthful
  <2>5. QED
    BY <2>1, <2>2, <2>4, OneRequestMoves
<1>3. QED
  BY <1>1, <1>2

\* What happens to the reviews meanwhile: a supplier is accepted, a review moves or is decided.
LEMMA MappedReviewMovesStep ==
    ASSUME MappingInv, NEW r \in MappedReviews, SupplierAccepted(r) \/ MappedReviewMoves(r)
    PROVE  MappingInv'
<1>1. UNCHANGED <<mappings, mapper>>
  BY DEF SupplierAccepted, MappedReviewMoves
<1>2. queue' \in [MappedReviews -> QueuedReviews] /\ MappingAdvance
  <2>1. queue \in [MappedReviews -> QueuedReviews]
    BY DEF MappingInv, MappingTypeOK
  <2>2. CASE SupplierAccepted(r)
    <3>1. PICK origin \in {"match_existing", "one_off_vendor"} :
             queue' = [queue EXCEPT ![r].supplier = 1, ![r].origin = origin]
      BY <2>2 DEF SupplierAccepted
    <3> DEFINE y == [queue[r] EXCEPT !.supplier = 1]
               x == [y EXCEPT !.origin = origin]
    <3>2. y \in QueuedReviews /\ y.version = queue[r].version /\ y.required = queue[r].required
      BY <2>1 DEF QueuedReviews
    <3>3. queue' = [queue EXCEPT ![r] = x]
      BY <2>1, <3>1 DEF QueuedReviews
    <3> HIDE DEF y
    <3>4. x \in QueuedReviews /\ x.version = y.version /\ x.required = y.required
      BY <3>2 DEF QueuedReviews
    <3> HIDE DEF x
    <3>5. queue[r].supplier = Unset /\ queue[r].version \in Nat
      BY <2>1, <2>2 DEF SupplierAccepted, QueuedReviews
    <3>6. x \in QueuedReviews /\ x.version = queue[r].version /\ x.required = queue[r].required
      BY <3>2, <3>4
    <3>7. QED
      BY <1>1, <2>1, <3>3, <3>5, <3>6 DEF MappingAdvance, QueuedReviews
  <2>3. CASE /\ MappedReviewMoves(r)
             /\ queue' = [queue EXCEPT ![r].pending = FALSE]
    <3> DEFINE x == [queue[r] EXCEPT !.pending = FALSE]
    <3>1. /\ x \in QueuedReviews /\ x.version = queue[r].version /\ x.version \in Nat
          /\ x.required = queue[r].required /\ x.supplier = queue[r].supplier
      BY <2>1 DEF QueuedReviews
    <3>2. queue' = [queue EXCEPT ![r] = x]
      BY <2>1, <2>3
    <3> HIDE DEF x
    <3>3. QED
      BY <1>1, <2>1, <3>1, <3>2 DEF MappingAdvance, QueuedReviews
  <2>4. CASE /\ MappedReviewMoves(r)
             /\ queue' = [queue EXCEPT ![r].version = @ + 1, ![r].required = StillRequired(r),
                     ![r].events = @ \cup {[trigger |-> "other", required |-> StillRequired(r),
                                            from |-> queue[r].version]}]
    <3> DEFINE q == StillRequired(r)
               new == [trigger |-> "other", required |-> q, from |-> queue[r].version]
               old == queue[r]
               x == [old EXCEPT !.version = @ + 1, !.required = q, !.events = @ \cup {new}]
    <3>1. q \in BOOLEAN
      BY DEF StillRequired
    <3>2. queue' = [queue EXCEPT ![r] = x]
      BY <2>1, <2>4
    <3> HIDE DEF q
    <3>3. new \in Changes /\ old \in QueuedReviews /\ old.version \in Nat
      BY <2>1, <3>1 DEF Changes, QueuedReviews
    <3> HIDE DEF new, old
    <3>4. x \in QueuedReviews /\ x.version = old.version + 1 /\ x.supplier = old.supplier
      BY <3>1, <3>3, NextVersion
    <3> HIDE DEF x
    <3>5. x \in QueuedReviews /\ x.version = queue[r].version + 1 /\ x.supplier = queue[r].supplier
      BY <3>4 DEF old
    <3>6. QED
      BY <1>1, <2>1, <3>2, <3>5 DEF MappingAdvance, QueuedReviews
  <2>5. QED
    BY <2>2, <2>3, <2>4 DEF MappedReviewMoves
<1>3. MappingTypeOK' /\ OneMappingPerSupplier'
  BY <1>1, <1>2 DEF MappingInv, MappingTypeOK, OneMappingPerSupplier
<1>4. QED
  BY <1>1, <1>2, <1>3, OthersUndisturbed DEF MappingInv

\* The invariant is inductive.
LEMMA MappingStep ==
    ASSUME MappingInv, [ExpenseNext]_mappingvars
    PROVE  MappingInv'
<1>1. CASE UNCHANGED mappingvars
  <2>1. MappingTypeOK' /\ OneMappingPerSupplier' /\ MappingAdvance
    BY <1>1 DEF mappingvars, MappingInv, MappingTypeOK, QueuedReviews, OneMappingPerSupplier, MappingAdvance
  <2>2. QED
    BY <1>1, <2>1, OthersUndisturbed DEF mappingvars, MappingInv
<1>2. ASSUME NEW m \in MappingRequests,
             \/ SendMapping(m) \/ CheckMapping(m) \/ OnboardFind(m) \/ OnboardCreate(m)
             \/ Evaluated(m) \/ ReclassifyMapped(m) \/ MappingFails(m) \/ MappingLost(m)
      PROVE  MappingInv'
  BY <1>2, SendMappingStep, CheckMappingStep, OnboardFindStep, OnboardCreateStep, EvaluatedStep,
     ReclassifyMappedStep, MappingEndsStep
<1>3. QED
  BY <1>1, <1>2, MappedReviewMovesStep DEF ExpenseNext

\* Nothing is known and nothing is stored at first.
LEMMA MappingStart == ExpenseInit => MappingInv
<1> SUFFICES ASSUME ExpenseInit PROVE MappingInv
  OBVIOUS
<1>1. MappingTypeOK
  BY DEF ExpenseInit, MappingTypeOK, QueuedReviews, NoSupplierYet, NoMapper
<1>2. ASSUME NEW m \in MappingRequests PROVE mapper[m].pc = "idle" /\ mapper[m].told = Unset
  BY DEF ExpenseInit, NoMapper
<1>3. \A m \in MappingRequests : Known(m) /\ Truthful(m)
  BY <1>2, UnsetAssumption DEF MappingAnswers, Known, Truthful
<1>4. OneMappingPerSupplier
  BY DEF ExpenseInit, OneMappingPerSupplier
<1>5. QED
  BY <1>1, <1>3, <1>4 DEF MappingInv

\* Every request is told the truth by MappingAnswersAreTrue.
LEMMA TruthfulAnswers == MappingInv => MappingAnswersAreTrue
BY DEF MappingInv, Truthful, Stored, MappingAnswersAreTrue, ToldIsStored, ConflictNamesAnother,
       FindForSupplier

-----------------------------------------------------------------------------
(* The theorems. *)

\* The work of operators on a supplier's master data keeps the invariant of its mappings.
LEMMA MappingInvariance == WorkSpec => []MappingInv
<1>1. WorkInit => MappingInv
  BY MappingStart DEF WorkInit
<1>2. MappingInv /\ [WorkNext]_<<vars, mappingvars>> => MappingInv'
  BY MappingStep DEF WorkNext
<1>3. QED
  BY <1>1, <1>2, PTL DEF WorkSpec

\* However many requests for however many reviews of a supplier race between the lookup and the
\* insert of OnboardOperatingExpenseMappingUseCase, the supplier has one enabled mapping; and
\* what SubmitOperatingExpenseMappingUseCase answers is true and stays true: the mapping the
\* operator asked for is stored, a resolved review has left the version asked about, and a
\* conflict names a mapping to another account, for every interleaving with reclassifications,
\* failures and lost processes between its two commits.
THEOREM MappingTruth == WorkSpec => []MappingIsTrue
<1>1. MappingInv => MappingIsTrue
  BY TruthfulAnswers DEF MappingInv, MappingIsTrue
<1>2. QED
  BY <1>1, MappingInvariance, PTL

=============================================================================
