------------------------------- MODULE BoundaryProofs -------------------------------
(* Proofs about the two boundaries of the hub: InboundSync, for every inbox, every number of *)
(* pollers and manual requests, every page size and every number of failed calls and lost    *)
(* processes, and WorkbenchProjection, for every invoice, every number of processes,         *)
(* versions, entries and failures, and every set of allocations an operator can enter.       *)
EXTENDS InboundSync, WorkbenchProjection, FiniteSetTheorems, TLAPS

-----------------------------------------------------------------------------
(* The inbound synchronisation. *)

Databases ==
    [meta : SUBSET Ettns, doc : [Ettns -> 0..2],
     imported : [Ettns -> {"none", "receipt", "review"}], run : [Workers -> RunStatus]]

\* The places of a cycle that is at an invoice.
InPage == {"import", "insert", "read", "record"}

Cycles ==
    [pc : {"idle", "list", "end"} \cup InPage, page : 1..MaxPages,
     todo : Seq(Ettns), last : BOOLEAN, selected : BOOLEAN, bytes : 0..2, run : {"none", "running"},
     meta : SUBSET Ettns, doc : [Ettns -> 0..2], receipts : SUBSET Ettns]

\* An invoice whose metadata and document are in the database d or staged by the cycle c.
Backed(d, c, i) ==
    /\ i \in d.meta \cup c.meta
    /\ d.doc[i] # 0 \/ c.doc[i] # 0

\* What the session of a cycle has staged goes with what is committed: a receipt never leads
\* its metadata and document, and no document is staged over a stored one.
StagedOK(d, c) ==
    /\ \A i \in c.receipts : Backed(d, c, i)
    /\ \A i \in Ettns : c.doc[i] # 0 => d.doc[i] = 0

\* A cycle that is in the middle of a page.
OnPage(d, c) ==
    /\ c.run = "running"
    /\ c.last \/ c.page < MaxPages
    /\ \A n \in DOMAIN c.todo : c.todo[n] \in d.meta \cup c.meta
    /\ StagedOK(d, c)

SessionOK(d, c) ==
    /\ StagedOK(d, c)
    /\ c.pc # "idle" => c.run = "running"
    /\ c.pc \in InPage => c.todo # <<>> /\ OnPage(d, c)
    /\ c.pc = "insert" => c.bytes # 0
    /\ c.pc \in {"read", "record"} => Backed(d, c, Head(c.todo))

WholeIn(d) == \A i \in Ettns : d.imported[i] # "none" => i \in d.meta /\ d.doc[i] # 0

\* Two sessions never stage the same document: the second waits for the first.
DocsAreHeld == \A v, w \in Workers : \A i \in Ettns :
    cycle[v].doc[i] # 0 /\ cycle[w].doc[i] # 0 => v = w

\* A poller that is not idle has the advisory lock.
PollHasLock == \A w \in Pollers : ~At(w, "idle") => lock = w

InboundInv ==
    /\ inbox \in Seq(Ettns)
    /\ content \in [Ettns -> 1..2]
    /\ db \in Databases
    /\ lock \in Pollers \cup {NoWorker}
    /\ cycle \in [Workers -> Cycles]
    /\ \A w \in Workers : SessionOK(db, cycle[w])
    /\ WholeIn(db)
    /\ DocsAreHeld
    /\ PollHasLock

\* What no commit may do to the database d, with e after it.
Keeps(d, e) == \A i \in Ettns :
    /\ d.imported[i] # "none" => e.imported[i] = d.imported[i]
    /\ d.doc[i] # 0 => e.doc[i] = d.doc[i]

-----------------------------------------------------------------------------
(* Cycles. *)

\* An idle worker has staged nothing.
LEMMA IdleSession ==
    ASSUME NEW d \in Databases
    PROVE  /\ Idle \in Cycles
           /\ SessionOK(d, Idle)
           /\ Idle.pc = "idle"
           /\ \A i \in Ettns : Idle.doc[i] = 0
<1>1. 1 \in 1..MaxPages
  BY InboundAssumption
<1>2. <<>> \in Seq(Ettns)
  OBVIOUS
<1>3. QED
  BY <1>1, <1>2 DEF Idle, Cycles, InPage, SessionOK, StagedOK

\* Going on with the page, with the next page or to the end keeps what is staged.
LEMMA OnwardSession ==
    ASSUME NEW d \in Databases, NEW c \in Cycles, OnPage(d, c)
    PROVE  /\ Onward(c) \in Cycles
           /\ SessionOK(d, Onward(c))
           /\ Onward(c).pc \notin {"idle", "insert"}
           /\ Onward(c).doc = c.doc
<1>1. CASE c.todo # <<>>
  BY <1>1 DEF Onward, Cycles, InPage, SessionOK, OnPage, StagedOK, Backed
<1>2. CASE c.todo = <<>> /\ c.last
  BY <1>2 DEF Onward, Cycles, InPage, SessionOK, OnPage, StagedOK, Backed
<1>3. CASE c.todo = <<>> /\ ~c.last
  <2>1. c.page + 1 \in 1..MaxPages
    BY <1>3, InboundAssumption DEF OnPage, Cycles
  <2>2. QED
    BY <1>3, <2>1 DEF Onward, Cycles, InPage, SessionOK, OnPage, StagedOK, Backed
<1>4. QED
  BY <1>1, <1>2, <1>3

\* The cycle that has dropped the bytes it fetched is otherwise the same.
LEMMA Unfetched ==
    ASSUME NEW a \in Cycles, NEW t, t = [a EXCEPT !.bytes = 0]
    PROVE  /\ t \in Cycles /\ t.todo = a.todo /\ t.run = a.run /\ t.last = a.last
           /\ t.page = a.page /\ t.meta = a.meta /\ t.doc = a.doc /\ t.receipts = a.receipts
BY DEF Cycles

\* So does leaving the current invoice behind, whatever its outcome.
LEMMA RestSession ==
    ASSUME NEW d \in Databases, NEW c \in Cycles, OnPage(d, c), c.todo # <<>>
    PROVE  /\ Rest(c) \in Cycles
           /\ SessionOK(d, Rest(c))
           /\ Rest(c).pc \notin {"idle", "insert"}
           /\ Rest(c).doc = c.doc
<1> DEFINE t == [c EXCEPT !.todo = Tail(@), !.bytes = 0]
<1>1. Tail(c.todo) \in Seq(Ettns) /\ \A n \in DOMAIN Tail(c.todo) : Tail(c.todo)[n] = c.todo[n + 1] /\ n + 1 \in DOMAIN c.todo
  BY DEF Cycles
<1>2. t \in Cycles /\ OnPage(d, t) /\ t.doc = c.doc
  <2>1. PICK a : a = [c EXCEPT !.todo = Tail(c.todo)]
    OBVIOUS
  <2>2. /\ a \in Cycles /\ a.todo = Tail(c.todo) /\ a.run = c.run /\ a.last = c.last
        /\ a.page = c.page /\ a.meta = c.meta /\ a.doc = c.doc /\ a.receipts = c.receipts
    BY <1>1, <2>1 DEF Cycles
  <2>3. t = [a EXCEPT !.bytes = 0]
    BY <2>1 DEF Cycles
  <2> HIDE DEF t
  <2>4. /\ t \in Cycles /\ t.todo = a.todo /\ t.run = a.run /\ t.last = a.last
        /\ t.page = a.page /\ t.meta = a.meta /\ t.doc = a.doc /\ t.receipts = a.receipts
    BY <2>2, <2>3, Unfetched
  <2>5. /\ t.todo = Tail(c.todo) /\ t.run = c.run /\ t.last = c.last /\ t.page = c.page
        /\ t.meta = c.meta /\ t.doc = c.doc /\ t.receipts = c.receipts
    BY <2>2, <2>4
  <2>6. StagedOK(d, t)
    BY <2>5 DEF OnPage, StagedOK, Backed
  <2>7. \A n \in DOMAIN t.todo : t.todo[n] \in d.meta \cup t.meta
    BY <1>1, <2>5 DEF OnPage
  <2>8. QED
    BY <2>4, <2>5, <2>6, <2>7 DEF OnPage
<1>3. Rest(c) = Onward(t)
  BY Zenon DEF Rest
<1> HIDE DEF t
<1>4. QED
  BY <1>2, <1>3, OnwardSession

-----------------------------------------------------------------------------
(* Commits. *)

\* A commit of w's session, which may write reviews too, keeps what is stored, publishes the
\* run row of w, and leaves every import with its metadata and its document.
LEMMA CommitIsWhole ==
    ASSUME InboundInv, NEW w \in Workers, NEW reviews \in SUBSET Ettns,
           \A i \in reviews : Backed(db, cycle[w], i)
    PROVE  /\ SessionCommitted(w, reviews) \in Databases
           /\ WholeIn(SessionCommitted(w, reviews))
           /\ Keeps(db, SessionCommitted(w, reviews))
           /\ SessionCommitted(w, reviews).run[w] = cycle[w].run
           /\ db.meta \cup cycle[w].meta = SessionCommitted(w, reviews).meta
           /\ \A i \in Ettns : SessionCommitted(w, reviews).doc[i] = Doc(w, i)
<1> DEFINE e == SessionCommitted(w, reviews)
<1>1. db \in Databases /\ cycle[w] \in Cycles /\ SessionOK(db, cycle[w]) /\ WholeIn(db)
  BY DEF InboundInv
<1>2. cycle[w].run \in RunStatus
  BY <1>1 DEF Cycles, RunStatus
<1>3. e \in Databases
  BY <1>1, <1>2 DEF SessionCommitted, Databases, Cycles, Doc
<1>4. /\ e.meta = db.meta \cup cycle[w].meta
      /\ e.doc = [i \in Ettns |-> Doc(w, i)]
      /\ e.imported = [i \in Ettns |->
            IF db.imported[i] # "none" THEN db.imported[i]
            ELSE IF i \in reviews THEN "review"
            ELSE IF i \in cycle[w].receipts THEN "receipt" ELSE "none"]
      /\ e.run = [db.run EXCEPT ![w] = cycle[w].run]
  BY DEF SessionCommitted
<1> HIDE DEF e
<1>5. \A i \in Ettns : Backed(db, cycle[w], i) => i \in e.meta /\ e.doc[i] # 0
  BY <1>4 DEF Backed, Doc
<1>6. WholeIn(e)
  <2> SUFFICES ASSUME NEW i \in Ettns, e.imported[i] # "none"
               PROVE  i \in e.meta /\ e.doc[i] # 0
    BY DEF WholeIn
  <2>1. CASE db.imported[i] # "none"
    BY <1>1, <1>4, <2>1 DEF WholeIn, Doc
  <2>2. CASE db.imported[i] = "none"
    <3>1. i \in reviews \/ i \in cycle[w].receipts
      BY <1>4, <2>2
    <3>2. Backed(db, cycle[w], i)
      BY <1>1, <3>1 DEF SessionOK, StagedOK
    <3>3. QED
      BY <1>5, <3>2
  <2>3. QED
    BY <2>1, <2>2
<1>7. Keeps(db, e)
  BY <1>1, <1>4 DEF Keeps, SessionOK, StagedOK, Doc
<1>8. e.run[w] = cycle[w].run
  BY <1>1, <1>4 DEF Databases
<1>9. QED
  BY <1>3, <1>4, <1>6, <1>7, <1>8 DEF e

\* The rows that another database e has in common with the committed ones of w's session.
CommitOf(w, e) ==
    /\ e \in Databases
    /\ WholeIn(e)
    /\ Keeps(db, e)
    /\ e.meta = db.meta \cup cycle[w].meta
    /\ \A i \in Ettns : e.doc[i] = Doc(w, i)

\* Committing w's session leaves the other sessions in order: they had staged other documents.
LEMMA OthersGoOn ==
    ASSUME InboundInv, NEW w \in Workers, NEW v \in Workers, v # w, NEW e, CommitOf(w, e)
    PROVE  SessionOK(e, cycle[v])
<1> DEFINE c == cycle[v]
<1>1. /\ db \in Databases /\ cycle[w] \in Cycles /\ c \in Cycles
      /\ SessionOK(db, c) /\ DocsAreHeld
  BY DEF InboundInv
<1>2. db.meta \subseteq e.meta
  BY DEF CommitOf
<1>3. \A i \in Ettns : db.doc[i] # 0 => e.doc[i] # 0
  BY DEF CommitOf, Keeps
<1>4. \A i \in Ettns : c.doc[i] # 0 => e.doc[i] = 0
  <2> SUFFICES ASSUME NEW i \in Ettns, c.doc[i] # 0
               PROVE  e.doc[i] = 0
    OBVIOUS
  <2>1. db.doc[i] = 0
    BY <1>1 DEF SessionOK, StagedOK
  <2>2. cycle[w].doc[i] = 0
    BY <1>1 DEF DocsAreHeld
  <2>3. QED
    BY <2>1, <2>2 DEF CommitOf, Doc
<1> HIDE DEF c
<1>5. \A i \in Ettns : Backed(db, c, i) => Backed(e, c, i)
  BY <1>2, <1>3 DEF Backed
<1>6. StagedOK(e, c)
  BY <1>1, <1>4, <1>5 DEF SessionOK, StagedOK, Cycles
<1>7. c.pc \in InPage => OnPage(e, c)
  BY <1>1, <1>2, <1>6 DEF SessionOK, OnPage
<1>8. c.pc \in {"read", "record"} => Backed(e, c, Head(c.todo))
  <2> SUFFICES ASSUME c.pc \in {"read", "record"}
               PROVE  Backed(e, c, Head(c.todo))
    OBVIOUS
  <2>1. c.todo # <<>> /\ c.todo \in Seq(Ettns)
    BY <1>1 DEF SessionOK, Cycles, InPage
  <2>2. Head(c.todo) \in Ettns
    BY <2>1
  <2>3. QED
    BY <1>1, <1>5, <2>2 DEF SessionOK
<1>9. SessionOK(e, c)
  BY <1>1, <1>6, <1>7, <1>8 DEF SessionOK
<1>10. QED
  BY <1>9 DEF c

\* After the commit inside a cycle its session has nothing staged, and the page goes on.
LEMMA UnstagedSession ==
    ASSUME InboundInv, NEW w \in Workers, NEW e, CommitOf(w, e), OnPage(db, cycle[w])
    PROVE  /\ Unstaged(cycle[w]) \in Cycles
           /\ OnPage(e, Unstaged(cycle[w]))
           /\ Unstaged(cycle[w]).todo = cycle[w].todo
           /\ \A i \in Ettns : Unstaged(cycle[w]).doc[i] = 0
<1> DEFINE c == cycle[w]  u == Unstaged(c)
<1>1. c \in Cycles
  BY DEF InboundInv
<1>2. Idle.doc = [i \in Ettns |-> 0]
  BY DEF Idle
<1>3. PICK z : z = [i \in Ettns |-> 0]
  OBVIOUS
<1> z \in [Ettns -> 0..2]
  BY <1>3
<1>4. /\ u \in Cycles
      /\ u.todo = c.todo /\ u.run = c.run /\ u.last = c.last /\ u.page = c.page
      /\ u.meta = {} /\ u.receipts = {} /\ u.doc = z
  <2> HIDE DEF c
  <2>1. PICK a : a = [c EXCEPT !.meta = {}]
    OBVIOUS
  <2>2. PICK b : b = [a EXCEPT !.doc = z]
    OBVIOUS
  <2>3. u = [b EXCEPT !.receipts = {}]
    BY <1>2, <1>3, <2>1, <2>2 DEF Unstaged
  <2>4. a \in Cycles /\ a.meta = {} /\ a.todo = c.todo /\ a.run = c.run /\ a.last = c.last /\ a.page = c.page
    BY <1>1, <2>1 DEF Cycles
  <2>5. b \in Cycles /\ b.meta = {} /\ b.todo = c.todo /\ b.run = c.run /\ b.last = c.last /\ b.page = c.page
        /\ b.doc = z
    BY <2>2, <2>4 DEF Cycles
  <2> HIDE DEF u
  <2>6. QED
    BY <2>3, <2>5 DEF Cycles
<1>5. OnPage(db, c) /\ e.meta = db.meta \cup c.meta
  BY DEF CommitOf
<1> HIDE DEF u, c
<1>6. \A i \in Ettns : u.doc[i] = 0
  BY <1>3, <1>4
<1>7. OnPage(e, u)
  BY <1>4, <1>5, <1>6 DEF OnPage, StagedOK
<1>8. QED
  BY <1>4, <1>6, <1>7 DEF u, c

-----------------------------------------------------------------------------
(* One worker's turn. *)

\* A commit that imports an invoice has the run row of a cycle that is going on.
AuditedStep == \A i \in Ettns : db.imported[i] = "none" /\ db'.imported[i] # "none" =>
    \E w \in Workers : db'.run[w] # "none" /\ ~At(w, "idle")

Sound == InboundInv' /\ Keeps(db, db') /\ AuditedStep

\* The locks of the pollers follow the turn of w, which leaves its cycle as c.
LockFollows(w, c) ==
    /\ lock' \in Pollers \cup {NoWorker}
    /\ \A v \in Pollers \ {w} : ~At(v, "idle") => lock' = v
    /\ w \in Pollers /\ c.pc # "idle" => lock' = w

\* Only w's cycle changes, to c, and the documents it has staged are its own.
Turn(w, c) ==
    /\ c \in Cycles
    /\ cycle' = [cycle EXCEPT ![w] = c]
    /\ \A i \in Ettns : c.doc[i] # 0 => ~DocHeld(w, i)
    /\ LockFollows(w, c)
    /\ inbox' = inbox /\ content' = content

\* A turn keeps the invariant when the sessions agree with the database after it.
LEMMA TurnKeeps ==
    ASSUME InboundInv, NEW w \in Workers, NEW c, Turn(w, c),
           db' \in Databases, WholeIn(db'),
           SessionOK(db', c), \A v \in Workers \ {w} : SessionOK(db', cycle[v])
    PROVE  InboundInv'
<1>1. inbox' \in Seq(Ettns) /\ content' \in [Ettns -> 1..2] /\ lock' \in Pollers \cup {NoWorker}
  BY DEF InboundInv, Turn, LockFollows
<1>2. cycle \in [Workers -> Cycles] /\ cycle' \in [Workers -> Cycles]
  BY DEF InboundInv, Turn
<1>3. cycle'[w] = c /\ \A v \in Workers \ {w} : cycle'[v] = cycle[v]
  BY <1>2 DEF Turn
<1>4. \A v \in Workers : SessionOK(db', cycle'[v])
  BY <1>3
<1>5. DocsAreHeld'
  BY <1>3 DEF InboundInv, DocsAreHeld, Turn, DocHeld
<1>6. PollHasLock'
  <2> SUFFICES ASSUME NEW v \in Pollers, cycle'[v].pc # "idle"
               PROVE  lock' = v
    BY DEF PollHasLock, At
  <2>1. v \in Workers
    BY DEF Workers
  <2>2. CASE v = w
    BY <1>3, <2>2 DEF Turn, LockFollows
  <2>3. CASE v # w
    BY <1>3, <2>1, <2>3 DEF Turn, LockFollows, At
  <2>4. QED
    BY <2>2, <2>3
<1>7. QED
  BY <1>1, <1>2, <1>4, <1>5, <1>6 DEF InboundInv, WholeIn

\* A turn that leaves the database alone.
LEMMA StagingTurn ==
    ASSUME InboundInv, NEW w \in Workers, NEW c, Turn(w, c), SessionOK(db, c), db' = db
    PROVE  Sound
<1>1. db' \in Databases /\ WholeIn(db') /\ \A v \in Workers \ {w} : SessionOK(db', cycle[v])
  BY DEF InboundInv
<1>2. SessionOK(db', c)
  OBVIOUS
<1>3. InboundInv'
  BY <1>1, <1>2, TurnKeeps
<1>4. Keeps(db, db') /\ AuditedStep
  BY DEF Keeps, AuditedStep
<1>5. QED
  BY <1>3, <1>4 DEF Sound

\* A turn that commits the session of w, with its run row.
LEMMA CommittingTurn ==
    ASSUME InboundInv, NEW w \in Workers, NEW c, Turn(w, c), CommitOf(w, db'),
           SessionOK(db', c), ~At(w, "idle"), db'.run[w] # "none"
    PROVE  Sound
<1>1. \A v \in Workers \ {w} : SessionOK(db', cycle[v])
  BY OthersGoOn
<1>2. db' \in Databases /\ WholeIn(db') /\ Keeps(db, db')
  BY DEF CommitOf
<1>3. InboundInv'
  BY <1>1, <1>2, TurnKeeps
<1>4. AuditedStep
  BY DEF AuditedStep
<1>5. QED
  BY <1>2, <1>3, <1>4 DEF Sound

\* The lock while a cycle goes on.
LEMMA HeldLock ==
    ASSUME InboundInv, NEW w \in Workers, ~At(w, "idle"), lock' = lock, NEW c
    PROVE  LockFollows(w, c)
BY DEF InboundInv, PollHasLock, LockFollows

\* The lock when a cycle ends, however it ends.
LEMMA ReleasedLock ==
    ASSUME InboundInv, NEW w \in Workers, Release(w)
    PROVE  LockFollows(w, Idle)
<1>1. Idle.pc = "idle"
  BY DEF Idle
<1>2. lock \in Pollers \cup {NoWorker} /\ \A v \in Pollers : ~At(v, "idle") => lock = v
  BY DEF InboundInv, PollHasLock
<1>3. QED
  BY <1>1, <1>2 DEF Release, LockFollows

\* A cycle that ends without a commit leaves nothing behind.
LEMMA AbandonedTurn ==
    ASSUME InboundInv, NEW w \in Workers, cycle' = [cycle EXCEPT ![w] = Idle],
           Release(w), db' = db, inbox' = inbox, content' = content
    PROVE  Sound
<1>1. db \in Databases
  BY DEF InboundInv
<1>2. Idle \in Cycles /\ SessionOK(db, Idle) /\ \A i \in Ettns : Idle.doc[i] = 0
  BY <1>1, IdleSession
<1>3. LockFollows(w, Idle)
  BY ReleasedLock
<1>4. Turn(w, Idle)
  BY <1>2, <1>3 DEF Turn
<1>5. QED
  BY <1>2, <1>4, StagingTurn

\* A cycle that ends with a commit of its session.
LEMMA CommittedTurn ==
    ASSUME InboundInv, NEW w \in Workers, cycle' = [cycle EXCEPT ![w] = Idle],
           Release(w), CommitOf(w, db'), ~At(w, "idle"), db'.run[w] # "none",
           inbox' = inbox, content' = content
    PROVE  Sound
<1>1. db' \in Databases
  BY DEF CommitOf
<1>2. Idle \in Cycles /\ SessionOK(db', Idle) /\ \A i \in Ettns : Idle.doc[i] = 0
  BY <1>1, IdleSession
<1>3. LockFollows(w, Idle)
  BY ReleasedLock
<1>4. Turn(w, Idle)
  BY <1>2, <1>3 DEF Turn
<1>5. QED
  BY <1>2, <1>4, CommittingTurn

-----------------------------------------------------------------------------
(* Listing a page. *)

\* A page is a part of the inbox.
LEMMA PageOfInbox ==
    ASSUME inbox \in Seq(Ettns), NEW n \in 1..MaxPages
    PROVE  Page(n) \in Seq(Ettns)
<1>1. PageSize \in Nat \ {0} /\ MaxPages \in Nat
  BY InboundAssumption
<1>2. PICK k \in Nat : k = (n - 1) * PageSize
  BY <1>1
<1>3. PICK m \in Nat : m = n * PageSize
  BY <1>1
<1>4. PICK b \in 0..Len(inbox) : b = IF m < Len(inbox) THEN m ELSE Len(inbox)
  BY <1>3
<1>5. Page(n) = SubSeq(inbox, k + 1, b)
  BY <1>2, <1>3, <1>4 DEF Page
<1>6. CASE k + 1 <= b
  <2>1. SubSeq(inbox, k + 1, b) \in Seq(Ettns)
    BY <1>6
  <2>2. QED
    BY <1>5, <2>1
<1>7. CASE k + 1 > b
  <2>1. SubSeq(inbox, k + 1, b) \in Seq(Ettns)
    BY <1>7
  <2>2. QED
    BY <1>5, <2>1
<1>8. QED
  BY <1>6, <1>7, <1>4, <1>2

\* What is selected of a page is a list of invoices.
LEMMA SelectedList ==
    ASSUME InboundInv, NEW w \in Workers, NEW todo \in Selected(w)
    PROVE  todo \in Seq(Ettns)
<1> DEFINE page == Page(cycle[w].page)
<1>1. page \in Seq(Ettns)
  BY PageOfInbox DEF InboundInv, Cycles
<1>2. IsFiniteSet(Range(page)) /\ Range(page) \subseteq Ettns
  <2> HIDE DEF page
  <2>1. IsFiniteSet(1..Len(page))
    BY <1>1, FS_Interval
  <2>2. page \in Surjection(1..Len(page), Range(page))
    BY <1>1 DEF Surjection, Range
  <2>3. IsFiniteSet(Range(page))
    BY <2>1, <2>2, FS_Surjection
  <2>4. Range(page) \subseteq Ettns
    BY <1>1 DEF Range
  <2>5. QED
    BY <2>3, <2>4
<1>3. Fresh(w) \in SUBSET Range(page)
  BY DEF Fresh
<1>4. IsFiniteSet(Fresh(w)) /\ Fresh(w) \subseteq Ettns
  <2>1. IsFiniteSet(Fresh(w))
    BY <1>2, <1>3, FS_Subset
  <2>2. QED
    BY <1>2, <1>3, <2>1
<1>5. Cardinality(Fresh(w)) \in Nat
  BY <1>4, FS_CardinalityType
<1>6. todo \in [1..Cardinality(Fresh(w)) -> Fresh(w)]
  BY DEF Selected
<1>7. QED
  BY <1>4, <1>5, <1>6

\* A listed page starts with its metadata staged.
LEMMA ListedSession ==
    ASSUME NEW d \in Databases, NEW c \in Cycles, SessionOK(d, c), c.pc = "list",
           NEW todo \in Seq(Ettns), NEW last \in BOOLEAN, last \/ c.page < MaxPages
    PROVE  /\ Listed(c, todo, last) \in Cycles
           /\ OnPage(d, Listed(c, todo, last))
           /\ Listed(c, todo, last).doc = c.doc
<1> DEFINE m == Listed(c, todo, last)
<1>1. Range(todo) \subseteq Ettns /\ \A n \in DOMAIN todo : todo[n] \in Range(todo)
  BY DEF Range
<1>2. PICK a : a = [c EXCEPT !.todo = todo]
  OBVIOUS
<1>3. PICK b : b = [a EXCEPT !.last = last]
  OBVIOUS
<1>4. PICK s \in BOOLEAN : s = (b.selected \/ todo # <<>>)
  OBVIOUS
<1>5. PICK e : e = [b EXCEPT !.selected = s]
  OBVIOUS
<1>6. m = [e EXCEPT !.meta = e.meta \cup Range(todo)]
  BY <1>2, <1>3, <1>4, <1>5 DEF Listed, Persisted, Cycles
<1> HIDE DEF m
<1>7. a \in Cycles /\ a.todo = todo /\ a.page = c.page /\ a.run = c.run /\ a.meta = c.meta
      /\ a.doc = c.doc /\ a.receipts = c.receipts
  BY <1>2 DEF Cycles
<1>8. b \in Cycles /\ b.todo = todo /\ b.last = last /\ b.page = c.page /\ b.run = c.run
      /\ b.meta = c.meta /\ b.doc = c.doc /\ b.receipts = c.receipts
  BY <1>3, <1>7 DEF Cycles
<1>9. e \in Cycles /\ e.todo = todo /\ e.last = last /\ e.page = c.page /\ e.run = c.run
      /\ e.meta = c.meta /\ e.doc = c.doc /\ e.receipts = c.receipts
  BY <1>5, <1>8 DEF Cycles
<1>10. m \in Cycles /\ m.todo = todo /\ m.last = last /\ m.page = c.page /\ m.run = c.run
       /\ m.meta = c.meta \cup Range(todo) /\ m.doc = c.doc /\ m.receipts = c.receipts
  BY <1>1, <1>6, <1>9 DEF Cycles
<1>11. c.run = "running" /\ StagedOK(d, c)
  BY DEF SessionOK
<1>12. StagedOK(d, m)
  BY <1>10, <1>11 DEF StagedOK, Backed
<1>13. OnPage(d, m)
  BY <1>1, <1>10, <1>11, <1>12 DEF OnPage
<1>14. QED
  BY <1>10, <1>13 DEF m

\* ListPage keeps the invariant.
LEMMA ListPageStep ==
    ASSUME InboundInv, NEW w \in Workers, ListPage(w)
    PROVE  Sound
<1> DEFINE c == cycle[w]
           short == Len(Page(c.page)) < PageSize \/ c.page = MaxPages
           counted == c.page * PageSize >= Len(inbox)
<1>1. PICK todo \in Selected(w), last \in {short, short \/ counted} :
         cycle' = [cycle EXCEPT ![w] = Onward(Listed(cycle[w], todo, last))]
  BY DEF ListPage
<1>2. c.pc = "list" /\ lock' = lock /\ db' = db /\ inbox' = inbox /\ content' = content
  BY DEF ListPage, At
<1>3. db \in Databases /\ c \in Cycles /\ SessionOK(db, c) /\ DocsAreHeld
  BY DEF InboundInv
<1>4. todo \in Seq(Ettns)
  BY SelectedList
<1>5. last \in BOOLEAN /\ (last \/ c.page < MaxPages)
  <2>1. c.page \in 1..MaxPages /\ MaxPages \in Nat
    BY <1>3, InboundAssumption DEF Cycles
  <2>2. c.page = MaxPages => last
    OBVIOUS
  <2>3. last \in BOOLEAN
    OBVIOUS
  <2> HIDE DEF c, short, counted
  <2>4. QED
    BY <2>1, <2>2, <2>3
<1> HIDE DEF short, counted
<1>6. PICK m : m = Listed(cycle[w], todo, last)
  OBVIOUS
<1>7. m \in Cycles /\ OnPage(db, m) /\ m.doc = c.doc
  BY <1>2, <1>3, <1>4, <1>5, <1>6, ListedSession
<1>8. Onward(m) \in Cycles /\ SessionOK(db, Onward(m)) /\ Onward(m).pc # "idle" /\ Onward(m).doc = m.doc
  BY <1>3, <1>7, OnwardSession
<1>9. \A i \in Ettns : Onward(m).doc[i] # 0 => ~DocHeld(w, i)
  BY <1>3, <1>7, <1>8 DEF DocsAreHeld, DocHeld
<1>10. LockFollows(w, Onward(m))
  BY <1>2, HeldLock DEF At
<1>11. Turn(w, Onward(m))
  BY <1>1, <1>2, <1>6, <1>8, <1>9, <1>10 DEF Turn
<1>12. QED
  BY <1>2, <1>8, <1>11, StagingTurn

-----------------------------------------------------------------------------
(* Importing the invoices of a page. *)

\* What a worker in the middle of a page knows.
LEMMA PageFacts ==
    ASSUME InboundInv, NEW w \in Workers, cycle[w].pc \in InPage
    PROVE  /\ db \in Databases /\ cycle[w] \in Cycles /\ DocsAreHeld
           /\ OnPage(db, cycle[w])
           /\ cycle[w].todo # <<>>
           /\ Head(cycle[w].todo) \in Ettns
           /\ Head(cycle[w].todo) \in db.meta \cup cycle[w].meta
           /\ ~At(w, "idle")
<1>1. db \in Databases /\ cycle[w] \in Cycles /\ DocsAreHeld /\ SessionOK(db, cycle[w])
  BY DEF InboundInv
<1>2. OnPage(db, cycle[w]) /\ cycle[w].todo # <<>> /\ cycle[w].todo \in Seq(Ettns)
  BY <1>1 DEF SessionOK, Cycles
<1>3. 1 \in DOMAIN cycle[w].todo /\ Head(cycle[w].todo) = cycle[w].todo[1]
  BY <1>2
<1>4. QED
  BY <1>1, <1>2, <1>3 DEF OnPage, At, InPage

\* A document that w has staged already is w's.
LEMMA OwnDocs ==
    ASSUME InboundInv, NEW w \in Workers, NEW i \in Ettns, cycle[w].doc[i] # 0
    PROVE  ~DocHeld(w, i)
BY DEF InboundInv, DocsAreHeld, DocHeld

\* A turn in which the cycle of w goes on as c, and nothing is committed.
GoesOnAs(w, c) ==
    /\ c \in Cycles /\ SessionOK(db, c)
    /\ \A i \in Ettns : c.doc[i] # 0 => ~DocHeld(w, i)
    /\ cycle' = [cycle EXCEPT ![w] = c]
    /\ UNCHANGED <<inbox, content, db, lock>>

LEMMA GoingOn ==
    ASSUME InboundInv, NEW w \in Workers, ~At(w, "idle"), NEW c, GoesOnAs(w, c)
    PROVE  Sound
<1>1. LockFollows(w, c)
  BY HeldLock DEF GoesOnAs
<1>2. Turn(w, c)
  BY <1>1 DEF Turn, GoesOnAs
<1>3. QED
  BY <1>2, StagingTurn DEF GoesOnAs

\* An invoice is left behind with the cycle in a state m that keeps the page in order.
LEMMA LeavingBehind ==
    ASSUME InboundInv, NEW w \in Workers, ~At(w, "idle"),
           NEW m \in Cycles, OnPage(db, m), m.todo # <<>>,
           \A i \in Ettns : m.doc[i] # 0 => ~DocHeld(w, i),
           cycle' = [cycle EXCEPT ![w] = Rest(m)], UNCHANGED <<inbox, content, db, lock>>
    PROVE  Sound
<1>1. db \in Databases
  BY DEF InboundInv
<1>2. Rest(m) \in Cycles /\ SessionOK(db, Rest(m)) /\ Rest(m).doc = m.doc
  BY <1>1, RestSession
<1>3. GoesOnAs(w, Rest(m))
  BY <1>2 DEF GoesOnAs
<1>4. QED
  BY <1>3, GoingOn

\* An invoice that fails, whatever the cause, is left behind with what is staged.
LEMMA FailedInvoice ==
    ASSUME InboundInv, NEW w \in Workers, cycle[w].pc \in InPage,
           cycle' = [cycle EXCEPT ![w] = Rest(cycle[w])], UNCHANGED <<inbox, content, db, lock>>
    PROVE  Sound
<1>1. \A i \in Ettns : cycle[w].doc[i] # 0 => ~DocHeld(w, i)
  BY OwnDocs
<1>2. QED
  BY <1>1, PageFacts, LeavingBehind

\* A cycle that goes on with its invoice is otherwise the same.
LEMMA WorkingCycle ==
    ASSUME NEW m \in Cycles, NEW pc \in {"insert", "read", "record"}, NEW x
    PROVE  LET r == Working(m, pc, x) IN
           /\ x \in 0..2 => r \in Cycles
           /\ r.pc = pc /\ r.bytes = x /\ r.todo = m.todo /\ r.run = m.run
           /\ r.last = m.last /\ r.page = m.page /\ r.meta = m.meta /\ r.doc = m.doc
           /\ r.receipts = m.receipts
BY DEF Working, Cycles, InPage

\* A cycle goes on with its invoice: what is fetched is inserted, what is stored is read.
WorksOn(m, pc, x) ==
    /\ pc \in {"insert", "read", "record"} /\ x \in 0..2
    /\ IF pc = "insert" THEN x # 0 ELSE Backed(db, m, Head(m.todo))

LEMMA WorkingOn ==
    ASSUME InboundInv, NEW w \in Workers, ~At(w, "idle"),
           NEW m \in Cycles, OnPage(db, m), m.todo # <<>>,
           \A i \in Ettns : m.doc[i] # 0 => ~DocHeld(w, i),
           NEW pc, NEW x, WorksOn(m, pc, x),
           cycle' = [cycle EXCEPT ![w] = Working(m, pc, x)], UNCHANGED <<inbox, content, db, lock>>
    PROVE  Sound
<1>1. PICK r : r = Working(m, pc, x)
  OBVIOUS
<1>2. /\ r \in Cycles /\ r.pc = pc /\ r.bytes = x /\ r.todo = m.todo /\ r.run = m.run
      /\ r.last = m.last /\ r.page = m.page /\ r.meta = m.meta /\ r.doc = m.doc
      /\ r.receipts = m.receipts
  BY <1>1, WorkingCycle DEF WorksOn
<1>3. OnPage(db, r) /\ (pc # "insert" => Backed(db, r, Head(r.todo)))
  BY <1>2 DEF WorksOn, OnPage, StagedOK, Backed
<1>4. SessionOK(db, r)
  BY <1>2, <1>3 DEF WorksOn, SessionOK, OnPage
<1>5. GoesOnAs(w, r)
  BY <1>1, <1>2, <1>4 DEF GoesOnAs
<1>6. QED
  BY <1>5, GoingOn

\* Download keeps the invariant.
LEMMA DownloadStep ==
    ASSUME InboundInv, NEW w \in Workers, Download(w)
    PROVE  Sound
<1> DEFINE i == AtInvoice(w)  c == cycle[w]
<1>1. /\ c.pc = "import" /\ UNCHANGED <<inbox, content, db, lock>>
      /\ cycle' = [cycle EXCEPT ![w] =
            IF Doc(w, i) = 0 THEN Working(c, "insert", content[i])
            ELSE IF Doc(w, i) = content[i] THEN Working(c, "read", 0) ELSE Rest(c)]
  BY DEF Download, At
<1>2. /\ ~At(w, "idle") /\ i \in Ettns /\ c.todo # <<>> /\ OnPage(db, c) /\ c \in Cycles
      /\ i \in db.meta \cup c.meta
  BY <1>1, PageFacts DEF AtInvoice, InPage
<1>3. content[i] \in 1..2
  BY <1>2 DEF InboundInv
<1>4. \A j \in Ettns : c.doc[j] # 0 => ~DocHeld(w, j)
  BY OwnDocs
<1>5. CASE Doc(w, i) = 0
  <2>1. cycle' = [cycle EXCEPT ![w] = Working(c, "insert", content[i])]
    BY <1>1, <1>5
  <2>2. WorksOn(c, "insert", content[i])
    BY <1>3 DEF WorksOn
  <2> HIDE DEF c, i
  <2>3. QED
    BY <1>1, <1>2, <1>4, <2>1, <2>2, WorkingOn
<1>6. CASE Doc(w, i) # 0 /\ Doc(w, i) = content[i]
  <2>1. cycle' = [cycle EXCEPT ![w] = Working(c, "read", 0)]
    BY <1>1, <1>6
  <2>2. Backed(db, c, Head(c.todo))
    BY <1>2, <1>6 DEF Backed, Doc, AtInvoice
  <2>3. WorksOn(c, "read", 0)
    BY <2>2 DEF WorksOn
  <2> HIDE DEF c, i
  <2>4. QED
    BY <1>1, <1>2, <1>4, <2>1, <2>3, WorkingOn
<1>7. CASE Doc(w, i) # 0 /\ Doc(w, i) # content[i]
  <2>1. cycle' = [cycle EXCEPT ![w] = Rest(c)]
    BY <1>1, <1>7
  <2>2. QED
    BY <1>1, <2>1, FailedInvoice DEF InPage
<1>8. QED
  BY <1>5, <1>6, <1>7

\* The cycle with a document staged.
WithDoc(c, i, x) == [c EXCEPT !.doc[i] = x]

\* A document is staged only where none is stored, and never two by two sessions.
LEMMA StagedDocument ==
    ASSUME InboundInv, NEW w \in Workers, cycle[w].pc = "insert",
           NEW i \in Ettns, i = Head(cycle[w].todo), ~DocHeld(w, i), db.doc[i] = 0,
           NEW m, m = WithDoc(cycle[w], i, cycle[w].bytes)
    PROVE  /\ m \in Cycles /\ OnPage(db, m) /\ m.todo = cycle[w].todo
           /\ Backed(db, m, i)
           /\ \A j \in Ettns : m.doc[j] # 0 => ~DocHeld(w, j)
<1> DEFINE c == cycle[w]  x == c.bytes
<1>1. db \in Databases /\ c \in Cycles /\ OnPage(db, c) /\ i \in db.meta \cup c.meta
  BY PageFacts DEF InPage
<1>2. x \in 0..2 /\ x # 0
  BY <1>1 DEF InboundInv, SessionOK, Cycles
<1>3. c.doc \in [Ettns -> 0..2]
  BY <1>1 DEF Cycles
<1>4. m = [c EXCEPT !.doc = [c.doc EXCEPT ![i] = x]]
  BY <1>1 DEF WithDoc, Cycles
<1> HIDE DEF x
<1>5. PICK y \in [Ettns -> 0..2] : y = [c.doc EXCEPT ![i] = x]
  BY <1>2, <1>3
<1>6. /\ m \in Cycles /\ m.doc = y /\ m.todo = c.todo /\ m.run = c.run /\ m.last = c.last
      /\ m.page = c.page /\ m.meta = c.meta /\ m.receipts = c.receipts
  BY <1>1, <1>4, <1>5 DEF Cycles
<1>7. m.doc[i] = x /\ \A j \in Ettns \ {i} : m.doc[j] = c.doc[j]
  BY <1>3, <1>5, <1>6
<1> HIDE DEF c
<1>8. \A j \in Ettns : Backed(db, c, j) => Backed(db, m, j)
  BY <1>2, <1>6, <1>7 DEF Backed
<1>9. StagedOK(db, m)
  <2>1. \A j \in m.receipts : Backed(db, m, j)
    BY <1>1, <1>6, <1>8 DEF OnPage, StagedOK, Cycles
  <2>2. \A j \in Ettns : m.doc[j] # 0 => db.doc[j] = 0
    BY <1>1, <1>7 DEF OnPage, StagedOK
  <2>3. QED
    BY <2>1, <2>2 DEF StagedOK
<1>10. OnPage(db, m)
  BY <1>1, <1>6, <1>9 DEF OnPage
<1>11. Backed(db, m, i)
  BY <1>1, <1>2, <1>6, <1>7 DEF Backed
<1>12. \A j \in Ettns : m.doc[j] # 0 => ~DocHeld(w, j)
  BY <1>7, OwnDocs DEF c
<1>13. QED
  BY <1>6, <1>10, <1>11, <1>12 DEF c

\* Insert keeps the invariant.
LEMMA InsertStep ==
    ASSUME InboundInv, NEW w \in Workers, Insert(w)
    PROVE  Sound
<1> DEFINE i == AtInvoice(w)  c == cycle[w]
<1>1. c.pc = "insert" /\ ~DocHeld(w, i) /\ UNCHANGED <<inbox, content, db, lock>>
  BY DEF Insert, At
<1>2. /\ ~At(w, "idle") /\ i \in Ettns /\ c.todo # <<>> /\ OnPage(db, c) /\ c \in Cycles
      /\ i \in db.meta \cup c.meta /\ i = Head(c.todo)
  BY <1>1, PageFacts DEF AtInvoice, InPage
<1>3. CASE db.doc[i] = 0
  <2>1. PICK m : m = WithDoc(c, i, c.bytes)
    OBVIOUS
  <2>2. cycle' = [cycle EXCEPT ![w] = Working(m, "read", 0)]
    BY <1>3, <2>1 DEF Insert, WithDoc
  <2> HIDE DEF i
  <2>3. /\ m \in Cycles /\ OnPage(db, m) /\ m.todo = c.todo /\ Backed(db, m, i)
        /\ \A j \in Ettns : m.doc[j] # 0 => ~DocHeld(w, j)
    BY <1>1, <1>2, <1>3, <2>1, StagedDocument
  <2>4. WorksOn(m, "read", 0) /\ m.todo # <<>>
    BY <1>2, <2>3 DEF WorksOn
  <2> HIDE DEF c
  <2>5. QED
    BY <1>1, <1>2, <2>2, <2>3, <2>4, WorkingOn
<1>4. CASE db.doc[i] # 0 /\ db.doc[i] = c.bytes
  <2>1. cycle' = [cycle EXCEPT ![w] = Working(c, "read", 0)]
    BY <1>4 DEF Insert
  <2>2. \A j \in Ettns : c.doc[j] # 0 => ~DocHeld(w, j)
    BY OwnDocs
  <2>3. Backed(db, c, Head(c.todo))
    BY <1>2, <1>4 DEF Backed
  <2>4. WorksOn(c, "read", 0)
    BY <2>3 DEF WorksOn
  <2> HIDE DEF c, i
  <2>5. QED
    BY <1>1, <1>2, <2>1, <2>2, <2>4, WorkingOn
<1>5. CASE db.doc[i] # 0 /\ db.doc[i] # c.bytes
  <2>1. cycle' = [cycle EXCEPT ![w] = Rest(c)]
    BY <1>5 DEF Insert
  <2>2. QED
    BY <1>1, <2>1, FailedInvoice DEF InPage
<1>6. QED
  BY <1>3, <1>4, <1>5

\* Parse keeps the invariant.
LEMMA ParseStep ==
    ASSUME InboundInv, NEW w \in Workers, Parse(w)
    PROVE  Sound
<1> DEFINE c == cycle[w]
<1>1. c.pc = "read" /\ UNCHANGED <<inbox, content, db, lock>>
  BY DEF Parse, At
<1>2. ~At(w, "idle") /\ c.todo # <<>> /\ OnPage(db, c) /\ c \in Cycles
  BY <1>1, PageFacts DEF InPage
<1>3. CASE cycle' = [cycle EXCEPT ![w] = Rest(c)]
  BY <1>1, <1>3, FailedInvoice DEF InPage
<1>4. CASE cycle' = [cycle EXCEPT ![w] = Working(c, "record", 0)]
  <2>1. \A j \in Ettns : c.doc[j] # 0 => ~DocHeld(w, j)
    BY OwnDocs
  <2>2. Backed(db, c, Head(c.todo))
    BY <1>1 DEF InboundInv, SessionOK
  <2>3. WorksOn(c, "record", 0)
    BY <2>2 DEF WorksOn
  <2> HIDE DEF c
  <2>4. QED
    BY <1>1, <1>2, <1>4, <2>1, <2>3, WorkingOn
<1>5. QED
  BY <1>3, <1>4 DEF Parse

\* The cycle with receipts staged.
WithReceipts(c, R) == [c EXCEPT !.receipts = R]

\* RecordReceipt keeps the invariant.
LEMMA RecordReceiptStep ==
    ASSUME InboundInv, NEW w \in Workers, RecordReceipt(w)
    PROVE  Sound
<1> DEFINE i == AtInvoice(w)  c == cycle[w]
<1>1. PICK R : R = ReceiptsWith(w, i)
  OBVIOUS
<1>2. PICK m : m = WithReceipts(cycle[w], R)
  OBVIOUS
<1>3. /\ cycle[w].pc = "record"
      /\ cycle' = [cycle EXCEPT ![w] = Rest(m)]
      /\ UNCHANGED <<inbox, content, db, lock>>
  BY <1>1, <1>2 DEF RecordReceipt, At, WithReceipts
<1>4. /\ ~At(w, "idle") /\ i \in Ettns /\ c.todo # <<>> /\ db \in Databases
      /\ c \in Cycles /\ OnPage(db, c)
  BY <1>3, PageFacts DEF AtInvoice, InPage
<1>5. Backed(db, c, i)
  BY <1>3 DEF InboundInv, SessionOK, AtInvoice
<1>6. R \in SUBSET Ettns /\ \A j \in R : Backed(db, c, j)
  BY <1>1, <1>4, <1>5 DEF ReceiptsWith, Cycles, OnPage, StagedOK
<1>7. /\ m \in Cycles /\ m.receipts = R /\ m.todo = c.todo /\ m.run = c.run
      /\ m.last = c.last /\ m.page = c.page /\ m.meta = c.meta /\ m.doc = c.doc
  BY <1>2, <1>4, <1>6 DEF WithReceipts, Cycles
<1> HIDE DEF c, i
<1>8. OnPage(db, m)
  BY <1>4, <1>6, <1>7 DEF OnPage, StagedOK, Backed
<1>9. \A j \in Ettns : m.doc[j] # 0 => ~DocHeld(w, j)
  BY <1>7, OwnDocs DEF c
<1>10. m.todo # <<>>
  BY <1>4, <1>7
<1>11. QED
  BY <1>3, <1>4, <1>7, <1>8, <1>9, <1>10, LeavingBehind

\* CreateReview keeps the invariant.
LEMMA CreateReviewStep ==
    ASSUME InboundInv, NEW w \in Workers, CreateReview(w)
    PROVE  Sound
<1> DEFINE i == AtInvoice(w)  u == Unstaged(cycle[w])
<1>1. /\ cycle[w].pc = "record"
      /\ db' = SessionCommitted(w, {i})
      /\ cycle' = [cycle EXCEPT ![w] = Rest(u)]
      /\ inbox' = inbox /\ content' = content /\ lock' = lock
  BY DEF CreateReview, At
<1>2. /\ ~At(w, "idle") /\ i \in Ettns /\ cycle[w].todo # <<>> /\ OnPage(db, cycle[w])
  BY <1>1, PageFacts DEF AtInvoice, InPage
<1>3. Backed(db, cycle[w], i)
  BY <1>1 DEF InboundInv, SessionOK, AtInvoice
<1>4. {i} \in SUBSET Ettns /\ \A j \in {i} : Backed(db, cycle[w], j)
  BY <1>2, <1>3
<1>5. CommitOf(w, db') /\ db'.run[w] = cycle[w].run
  <2>1. PICK S : S = {i}
    OBVIOUS
  <2>2. S \in SUBSET Ettns /\ \A j \in S : Backed(db, cycle[w], j)
    BY <1>4, <2>1
  <2>3. db' = SessionCommitted(w, S)
    BY <1>1, <2>1
  <2> HIDE DEF i
  <2>4. QED
    BY <2>2, <2>3, CommitIsWhole DEF CommitOf
<1>6. db'.run[w] # "none"
  BY <1>2, <1>5 DEF OnPage
<1>7. u \in Cycles /\ OnPage(db', u) /\ u.todo # <<>> /\ \A j \in Ettns : u.doc[j] = 0
  BY <1>2, <1>5, UnstagedSession
<1>8. db' \in Databases
  BY <1>5 DEF CommitOf
<1> HIDE DEF u, i
<1>9. Rest(u) \in Cycles /\ SessionOK(db', Rest(u)) /\ Rest(u).doc = u.doc
  BY <1>7, <1>8, RestSession
<1>10. LockFollows(w, Rest(u))
  BY <1>1, <1>2, HeldLock
<1>11. Turn(w, Rest(u))
  BY <1>1, <1>7, <1>9, <1>10 DEF Turn
<1>12. QED
  BY <1>2, <1>5, <1>6, <1>9, <1>11, CommittingTurn

-----------------------------------------------------------------------------
(* The ends of a cycle. *)

\* Completing or failing the run row of the commit.
LEMMA RunRowWritten ==
    ASSUME InboundInv, NEW w \in Workers, NEW status \in {"completed", "failed"},
           db' = [SessionCommitted(w, {}) EXCEPT !.run[w] = status]
    PROVE  CommitOf(w, db') /\ db'.run[w] # "none"
<1>1. PICK e : e = SessionCommitted(w, {})
  OBVIOUS
<1>2. CommitOf(w, e)
  BY <1>1, CommitIsWhole DEF CommitOf
<1>3. e \in Databases
  BY <1>2 DEF CommitOf
<1>4. db' = [e EXCEPT !.run = [e.run EXCEPT ![w] = status]]
  BY <1>1, <1>3 DEF Databases
<1>5. e.run \in [Workers -> RunStatus] /\ status \in RunStatus
  BY <1>3 DEF Databases, RunStatus
<1>6. PICK r \in [Workers -> RunStatus] : r = [e.run EXCEPT ![w] = status]
  BY <1>5
<1>7. /\ db' \in Databases /\ db'.run = r /\ db'.meta = e.meta /\ db'.doc = e.doc
      /\ db'.imported = e.imported
  BY <1>3, <1>4, <1>6 DEF Databases
<1>8. CommitOf(w, db')
  BY <1>2, <1>7 DEF CommitOf, WholeIn, Keeps
<1>9. db'.run[w] = status
  BY <1>5, <1>6, <1>7
<1>10. QED
  BY <1>8, <1>9

\* EndCycle keeps the invariant.
LEMMA EndCycleStep ==
    ASSUME InboundInv, NEW w \in Workers, EndCycle(w)
    PROVE  Sound
<1>1. /\ ~At(w, "idle") /\ cycle' = [cycle EXCEPT ![w] = Idle] /\ Release(w)
      /\ inbox' = inbox /\ content' = content
  BY DEF EndCycle, At
<1>2. CASE w \in Manual \/ cycle[w].selected
  <2>1. db' = [SessionCommitted(w, {}) EXCEPT !.run[w] = "completed"]
    BY <1>2 DEF EndCycle
  <2>2. CommitOf(w, db') /\ db'.run[w] # "none"
    BY <2>1, RunRowWritten
  <2>3. QED
    BY <1>1, <2>2, CommittedTurn
<1>3. CASE ~(w \in Manual \/ cycle[w].selected)
  <2>1. db' = db
    BY <1>3 DEF EndCycle
  <2>2. QED
    BY <1>1, <2>1, AbandonedTurn
<1>4. QED
  BY <1>2, <1>3

\* ListFails keeps the invariant.
LEMMA ListFailsStep ==
    ASSUME InboundInv, NEW w \in Workers, ListFails(w)
    PROVE  Sound
<1>1. /\ ~At(w, "idle") /\ cycle' = [cycle EXCEPT ![w] = Idle] /\ Release(w)
      /\ inbox' = inbox /\ content' = content
      /\ db' = [SessionCommitted(w, {}) EXCEPT !.run[w] = "failed"]
  BY DEF ListFails, At
<1>2. CommitOf(w, db') /\ db'.run[w] # "none"
  BY <1>1, RunRowWritten
<1>3. QED
  BY <1>1, <1>2, CommittedTurn

\* Session lost: a rolled back session, or a process that died, keeps the invariant.
LEMMA SessionLostStep ==
    ASSUME InboundInv, NEW w \in Workers, SessionLost(w)
    PROVE  Sound
BY AbandonedTurn DEF SessionLost

\* InvoiceFails keeps the invariant.
LEMMA InvoiceFailsStep ==
    ASSUME InboundInv, NEW w \in Workers, InvoiceFails(w)
    PROVE  Sound
BY FailedInvoice DEF InvoiceFails, InPage

\* DeadlockVictim keeps the invariant: a page that is being persisted ends the cycle, an
\* import only fails its invoice.
LEMMA DeadlockVictimStep ==
    ASSUME InboundInv, NEW w \in Workers, DeadlockVictim(w)
    PROVE  Sound
<1>1. UNCHANGED <<inbox, content, db>>
  BY DEF DeadlockVictim
<1>2. CASE At(w, "list")
  <2>1. cycle' = [cycle EXCEPT ![w] = Idle] /\ Release(w)
    BY <1>2 DEF DeadlockVictim
  <2>2. QED
    BY <1>1, <2>1, AbandonedTurn
<1>3. CASE ~At(w, "list")
  <2>1. cycle' = [cycle EXCEPT ![w] = Rest(cycle[w])] /\ lock' = lock
    BY <1>3 DEF DeadlockVictim
  <2>2. \E v \in Workers : v \in WaitsFor(w)
    BY DEF DeadlockVictim, WaitsFor
  <2>3. cycle[w].pc \in InPage
    BY <1>3, <2>2 DEF WaitsFor, At, InPage
  <2>4. QED
    BY <1>1, <2>1, <2>3, FailedInvoice
<1>4. QED
  BY <1>2, <1>3

-----------------------------------------------------------------------------
(* The start of a cycle. *)

\* A session has nothing to do with the run rows.
LEMMA RunRowsApart ==
    ASSUME NEW d, NEW e, NEW c, SessionOK(d, c), e.meta = d.meta, e.doc = d.doc
    PROVE  SessionOK(e, c)
BY DEF SessionOK, OnPage, StagedOK, Backed

\* The cycle a worker starts with.
BegunCycle == [Idle EXCEPT !.pc = "list", !.run = "running"]

\* A new cycle starts with nothing staged, and the row of the last one no longer counts.
LEMMA BegunStep ==
    ASSUME InboundInv, NEW w \in Workers, Begun(w), LockFollows(w, BegunCycle),
           inbox' = inbox, content' = content
    PROVE  Sound
<1>1. /\ db \in Databases /\ WholeIn(db)
      /\ \A v \in Workers : SessionOK(db, cycle[v])
  BY DEF InboundInv
<1>2. /\ BegunCycle \in Cycles /\ BegunCycle.pc = "list" /\ BegunCycle.run = "running"
      /\ BegunCycle.receipts = {} /\ \A i \in Ettns : BegunCycle.doc[i] = 0
  <2>1. Idle \in Cycles /\ Idle.receipts = {} /\ \A i \in Ettns : Idle.doc[i] = 0
    BY <1>1, IdleSession DEF Idle
  <2>2. PICK c : c = Idle
    OBVIOUS
  <2>3. BegunCycle = [c EXCEPT !.pc = "list", !.run = "running"]
    BY <2>2 DEF BegunCycle
  <2>4. c \in Cycles /\ c.receipts = {} /\ \A i \in Ettns : c.doc[i] = 0
    BY <2>1, <2>2
  <2>5. QED
    BY <2>3, <2>4 DEF Cycles
<1>3. /\ cycle' = [cycle EXCEPT ![w] = BegunCycle]
      /\ db' = [db EXCEPT !.run = [v \in Workers |-> IF At(v, "idle") THEN "none" ELSE db.run[v]]]
  BY DEF Begun, BegunCycle
<1>4. db.run \in [Workers -> RunStatus]
  BY <1>1 DEF Databases
<1>5. PICK r \in [Workers -> RunStatus] :
         r = [v \in Workers |-> IF At(v, "idle") THEN "none" ELSE db.run[v]]
  BY <1>4 DEF RunStatus
<1>6. db' = [db EXCEPT !.run = r]
  BY <1>3, <1>5
<1>7. /\ db' \in Databases /\ db'.meta = db.meta /\ db'.doc = db.doc
      /\ db'.imported = db.imported
  BY <1>1, <1>5, <1>6 DEF Databases
<1>8. WholeIn(db') /\ Keeps(db, db') /\ AuditedStep
  BY <1>1, <1>7 DEF WholeIn, Keeps, AuditedStep
<1>9. \A v \in Workers : SessionOK(db', cycle[v])
  BY <1>1, <1>7, RunRowsApart
<1>10. SessionOK(db', BegunCycle)
  BY <1>2 DEF SessionOK, StagedOK, InPage
<1>11. Turn(w, BegunCycle)
  BY <1>2, <1>3 DEF Turn
<1>12. InboundInv'
  BY <1>7, <1>8, <1>9, <1>10, <1>11, TurnKeeps
<1>13. QED
  BY <1>8, <1>12 DEF Sound

\* StartPoll keeps the invariant: with the lock free, every poller is idle.
LEMMA StartPollStep ==
    ASSUME InboundInv, NEW w \in Workers, StartPoll(w)
    PROVE  Sound
<1>1. \A v \in Pollers : At(v, "idle")
  BY InboundAssumption DEF InboundInv, PollHasLock, StartPoll, Workers
<1>2. LockFollows(w, BegunCycle)
  BY <1>1 DEF LockFollows, StartPoll
<1>3. QED
  BY <1>2, BegunStep DEF StartPoll

\* StartManual keeps the invariant: a manual request is no poller.
LEMMA StartManualStep ==
    ASSUME InboundInv, NEW w \in Workers, StartManual(w)
    PROVE  Sound
<1>1. w \notin Pollers
  BY InboundAssumption DEF StartManual
<1>2. LockFollows(w, BegunCycle)
  BY <1>1 DEF LockFollows, StartManual, InboundInv, PollHasLock
<1>3. QED
  BY <1>2, BegunStep DEF StartManual

-----------------------------------------------------------------------------
(* The provider. *)

\* The invariant asks of the provider only that it lists invoices and serves documents.
LEMMA ProviderTurn ==
    ASSUME InboundInv, inbox' \in Seq(Ettns), content' \in [Ettns -> 1..2],
           UNCHANGED <<db, lock, cycle>>
    PROVE  Sound
<1>1. InboundInv'
  BY DEF InboundInv, WholeIn, SessionOK, OnPage, StagedOK, Backed, DocsAreHeld, PollHasLock, At
<1>2. QED
  BY <1>1 DEF Sound, Keeps, AuditedStep

\* Arrives, LeavesWindow and Reissued keep the invariant.
LEMMA ProviderStep ==
    ASSUME InboundInv, NEW i \in Ettns, Arrives(i) \/ LeavesWindow(i) \/ Reissued(i)
    PROVE  Sound
<1>1. inbox \in Seq(Ettns) /\ content \in [Ettns -> 1..2]
  BY DEF InboundInv
<1>2. CASE Arrives(i)
  <2>1. <<i>> \o inbox \in Seq(Ettns) /\ Append(inbox, i) \in Seq(Ettns)
    BY <1>1
  <2>2. inbox' \in Seq(Ettns)
    BY <1>2, <2>1 DEF Arrives
  <2>3. QED
    BY <1>1, <1>2, <2>2, ProviderTurn DEF Arrives
<1>3. CASE LeavesWindow(i)
  <2>1. PICK k \in DOMAIN inbox : inbox' = RemoveAt(inbox, k)
    BY <1>3 DEF LeavesWindow
  <2>2. SubSeq(inbox, 1, k - 1) \in Seq(Ettns) /\ SubSeq(inbox, k + 1, Len(inbox)) \in Seq(Ettns)
    BY <1>1
  <2>3. inbox' \in Seq(Ettns)
    BY <2>1, <2>2 DEF RemoveAt
  <2>4. QED
    BY <1>1, <1>3, <2>3, ProviderTurn DEF LeavesWindow
<1>4. CASE Reissued(i)
  <2>1. content' \in [Ettns -> 1..2]
    BY <1>1, <1>4 DEF Reissued
  <2>2. QED
    BY <1>1, <1>4, <2>1, ProviderTurn DEF Reissued
<1>5. QED
  BY <1>2, <1>3, <1>4

-----------------------------------------------------------------------------
(* The theorems. *)

\* The initial state satisfies the invariant.
LEMMA InboundStart == Init => InboundInv
<1> SUFFICES ASSUME Init
             PROVE  InboundInv
  OBVIOUS
<1>1. db \in Databases /\ WholeIn(db)
  BY DEF Init, Databases, RunStatus, WholeIn
<1>2. Idle \in Cycles /\ SessionOK(db, Idle) /\ Idle.pc = "idle" /\ \A i \in Ettns : Idle.doc[i] = 0
  BY <1>1, IdleSession
<1>3. cycle = [w \in Workers |-> Idle]
  BY DEF Init
<1>4. inbox \in Seq(Ettns) /\ content \in [Ettns -> 1..2] /\ lock = NoWorker
  BY DEF Init
<1>5. DocsAreHeld
  BY <1>2, <1>3 DEF DocsAreHeld
<1>6. PollHasLock
  BY <1>2, <1>3 DEF PollHasLock, At, Workers
<1>7. QED
  BY <1>1, <1>2, <1>3, <1>4, <1>5, <1>6 DEF InboundInv

\* Every step keeps the invariant, what is stored, and the audit of what it imports.
LEMMA InboundStep == InboundInv /\ [Next]_vars => Sound
<1> SUFFICES ASSUME InboundInv, [Next]_vars
             PROVE  Sound
  OBVIOUS
<1>1. CASE UNCHANGED vars
  <2>1. inbox' \in Seq(Ettns) /\ content' \in [Ettns -> 1..2] /\ UNCHANGED <<db, lock, cycle>>
    BY <1>1 DEF vars, InboundInv
  <2>2. QED
    BY <2>1, ProviderTurn
<1>2. CASE \E i \in Ettns : Arrives(i) \/ LeavesWindow(i) \/ Reissued(i)
  BY <1>2, ProviderStep
<1>3. ASSUME NEW w \in Workers,
             \/ StartPoll(w) \/ StartManual(w) \/ CycleStep(w)
             \/ InvoiceFails(w) \/ ListFails(w) \/ SessionLost(w) \/ DeadlockVictim(w)
      PROVE  Sound
  BY <1>3, StartPollStep, StartManualStep, ListPageStep, DownloadStep, InsertStep, ParseStep,
     RecordReceiptStep, CreateReviewStep, EndCycleStep, InvoiceFailsStep, ListFailsStep, SessionLostStep,
     DeadlockVictimStep DEF CycleStep
<1>4. QED
  BY <1>1, <1>2, <1>3 DEF Next

LEMMA InboundInvariance == Spec => []InboundInv
<1>1. InboundInv /\ [Next]_vars => InboundInv'
  BY InboundStep DEF Sound
<1>2. QED
  BY <1>1, InboundStart, PTL DEF Spec

-----------------------------------------------------------------------------
(* The files of the documents. *)

\* The documents named by the rows of the database d, and by the rows a cycle has staged, are
\* in the storage fs.
RowsKept(d, fs) == \A i \in Ettns : d.doc[i] # 0 => File(i, d.doc[i]) \in fs
StagedKept(c, fs) == \A i \in Ettns : c.doc[i] # 0 => File(i, c.doc[i]) \in fs

\* What a cycle has to do with the files: idle it has staged nothing, and a document whose row
\* it inserts has its file and no row yet.
CycleKept(d, c, fs) ==
    /\ StagedKept(c, fs)
    /\ c.pc = "idle" => \A i \in Ettns : c.doc[i] = 0
    /\ c.pc = "insert" => LET i == Head(c.todo) IN
          c.doc[i] = 0 /\ d.doc[i] = 0 /\ File(i, c.bytes) \in fs

\* Before the first manual run, only one poller is in a cycle, and it loses no document.
FilesInv ==
    /\ manualRuns \in Nat
    /\ manualRuns = 0 =>
         /\ \A w \in Manual : At(w, "idle")
         /\ RowsKept(db, files)
         /\ \A w \in Workers : CycleKept(db, cycle[w], files)

\* All the others are idle then.
LEMMA Alone ==
    ASSUME InboundInv, FilesInv, manualRuns = 0, NEW w \in Workers, ~At(w, "idle")
    PROVE  /\ w \in Pollers
           /\ \A v \in Workers \ {w} : cycle[v].pc = "idle" /\ \A i \in Ettns : cycle[v].doc[i] = 0
<1>1. w \in Pollers /\ lock = w
  BY DEF FilesInv, Workers, InboundInv, PollHasLock
<1>2. \A v \in Workers \ {w} : At(v, "idle")
  BY <1>1 DEF FilesInv, Workers, InboundInv, PollHasLock
<1>3. QED
  BY <1>1, <1>2 DEF FilesInv, CycleKept, At

\* The turn of a poller that is alone, which leaves its cycle as c.
LEMMA AloneTurn ==
    ASSUME InboundInv, FilesInv, manualRuns = 0, manualRuns' = manualRuns,
           NEW w \in Pollers, NEW c, cycle' = [cycle EXCEPT ![w] = c],
           \A v \in Workers \ {w} : cycle[v].pc = "idle" /\ \A i \in Ettns : cycle[v].doc[i] = 0,
           RowsKept(db', files'), CycleKept(db', c, files')
    PROVE  FilesInv'
<1>1. w \in Workers /\ w \notin Manual
  BY InboundAssumption DEF Workers
<1>2. cycle'[w] = c /\ \A v \in Workers \ {w} : cycle'[v] = cycle[v]
  BY <1>1 DEF InboundInv
<1>3. \A v \in Manual : cycle'[v].pc = "idle"
  BY <1>1, <1>2 DEF FilesInv, Workers, At
<1>4. \A v \in Workers : CycleKept(db', cycle'[v], files')
  BY <1>2 DEF CycleKept, StagedKept
<1>5. QED
  BY <1>3, <1>4 DEF FilesInv, At

\* A document of its own rows is not the one w deletes, for no other session has a row.
LEMMA DeletedFile ==
    ASSUME InboundInv, FilesInv, manualRuns = 0, NEW w \in Workers, cycle[w].pc = "insert"
    PROVE  RowsKept(db, WithoutFile(w)) /\ StagedKept(cycle[w], WithoutFile(w))
<1>1. CycleKept(db, cycle[w], files) /\ RowsKept(db, files)
  BY DEF FilesInv
<1>2. AtInvoice(w) \in Ettns /\ AtInvoice(w) = Head(cycle[w].todo)
  BY PageFacts DEF InPage, AtInvoice
<1>3. db.doc[AtInvoice(w)] = 0 /\ cycle[w].doc[AtInvoice(w)] = 0
  BY <1>1, <1>2 DEF CycleKept
<1>4. \A i \in Ettns \ {AtInvoice(w)} : \A x \in 0..2 : File(i, x) # File(AtInvoice(w), cycle[w].bytes)
  BY <1>2 DEF File
<1>5. db.doc \in [Ettns -> 0..2] /\ cycle[w].doc \in [Ettns -> 0..2]
  BY DEF InboundInv, Databases, Cycles
<1>6. QED
  BY <1>1, <1>3, <1>4, <1>5 DEF RowsKept, StagedKept, CycleKept, WithoutFile

\* What is left behind or goes on keeps its files, as long as the rows do.
LEMMA OnwardKept ==
    ASSUME NEW d, NEW fs, NEW c, NEW m, StagedKept(c, fs), m.doc = c.doc, m.pc \notin {"idle", "insert"}
    PROVE  CycleKept(d, m, fs)
BY DEF CycleKept, StagedKept

\* The steps that leave the current invoice behind and commit nothing.
LEMMA FilesLeavingBehind ==
    ASSUME InboundInv, FilesInv, manualRuns = 0, manualRuns' = manualRuns,
           NEW w \in Workers, cycle[w].pc \in InPage, cycle' = [cycle EXCEPT ![w] = Rest(cycle[w])],
           db' = db, files' = files \/ (cycle[w].pc = "insert" /\ files' = WithoutFile(w))
    PROVE  FilesInv'
<1>1. /\ w \in Pollers
      /\ \A v \in Workers \ {w} : cycle[v].pc = "idle" /\ \A i \in Ettns : cycle[v].doc[i] = 0
  BY Alone, PageFacts
<1>2. RowsKept(db, files') /\ StagedKept(cycle[w], files')
  BY DeletedFile DEF FilesInv, CycleKept
<1>3. PICK m : m = Rest(cycle[w])
  OBVIOUS
<1>4. m.doc = cycle[w].doc /\ m.pc \notin {"idle", "insert"}
  BY <1>3, PageFacts, RestSession
<1>5. CycleKept(db, m, files')
  BY <1>2, <1>4, OnwardKept
<1>6. QED
  BY <1>1, <1>2, <1>3, <1>5, AloneTurn

\* A cycle that ends, with or without a commit of its session.
LEMMA FilesEnd ==
    ASSUME InboundInv, FilesInv, manualRuns = 0, manualRuns' = manualRuns,
           NEW w \in Workers, ~At(w, "idle"), cycle' = [cycle EXCEPT ![w] = Idle], files' = files,
           db' = db \/ CommitOf(w, db')
    PROVE  FilesInv'
<1>1. /\ w \in Pollers
      /\ \A v \in Workers \ {w} : cycle[v].pc = "idle" /\ \A i \in Ettns : cycle[v].doc[i] = 0
  BY Alone
<1>2. RowsKept(db', files')
  BY DEF RowsKept, FilesInv, CycleKept, StagedKept, CommitOf, Doc
<1>3. \A i \in Ettns : Idle.doc[i] = 0
  BY DEF Idle
<1>4. CycleKept(db', Idle, files')
  BY <1>3 DEF CycleKept, StagedKept, Idle
<1>5. QED
  BY <1>1, <1>2, <1>4, AloneTurn

\* Starting a cycle: a manual one is the end of the premise, a poller has staged nothing.
LEMMA FilesBegun ==
    ASSUME InboundInv, FilesInv, NEW w \in Workers, StartPoll(w) \/ StartManual(w)
    PROVE  FilesInv'
<1>1. CASE StartManual(w)
  <2>1. manualRuns' = manualRuns + 1 /\ manualRuns \in Nat
    BY <1>1 DEF StartManual, FilesInv
  <2>2. QED
    BY <2>1 DEF FilesInv
<1>2. CASE StartPoll(w)
  <2>1. /\ w \in Pollers /\ manualRuns' = manualRuns /\ files' = files
        /\ cycle' = [cycle EXCEPT ![w] = BegunCycle] /\ db'.doc = db.doc
    BY <1>2 DEF StartPoll, Begun, BegunCycle, InboundInv, Databases
  <2>2. CASE manualRuns = 0
    <3>1. \A v \in Workers : At(v, "idle")
      BY <1>2, <2>2, InboundAssumption DEF FilesInv, Workers, InboundInv, PollHasLock, StartPoll
    <3>2. \A v \in Workers \ {w} : cycle[v].pc = "idle" /\ \A i \in Ettns : cycle[v].doc[i] = 0
      BY <2>2, <3>1 DEF FilesInv, CycleKept, At
    <3>3. BegunCycle.pc = "list" /\ \A i \in Ettns : BegunCycle.doc[i] = 0
      BY DEF BegunCycle, Idle
    <3>4. RowsKept(db', files') /\ CycleKept(db', BegunCycle, files')
      BY <2>1, <2>2, <3>3 DEF FilesInv, RowsKept, CycleKept, StagedKept
    <3>5. QED
      BY <2>1, <2>2, <3>2, <3>4, AloneTurn
  <2>3. CASE manualRuns # 0
    BY <2>1, <2>3 DEF FilesInv
  <2>4. QED
    BY <2>2, <2>3
<1>3. QED
  BY <1>1, <1>2

\* Listing, downloading, inserting, parsing and recording keep the files.
LEMMA FilesWork ==
    ASSUME InboundInv, FilesInv, manualRuns = 0, manualRuns' = manualRuns, NEW w \in Workers,
           ListPage(w) \/ Download(w) \/ Insert(w) \/ Parse(w) \/ RecordReceipt(w) \/ CreateReview(w)
    PROVE  FilesInv'
<1> DEFINE c == cycle[w]
<1>1. ~At(w, "idle")
  BY DEF At, ListPage, Download, Insert, Parse, RecordReceipt, CreateReview
<1>2. /\ w \in Pollers
      /\ \A v \in Workers \ {w} : cycle[v].pc = "idle" /\ \A i \in Ettns : cycle[v].doc[i] = 0
  BY <1>1, Alone
<1>3. RowsKept(db, files) /\ CycleKept(db, c, files) /\ db \in Databases /\ c \in Cycles
      /\ SessionOK(db, c)
  BY DEF FilesInv, InboundInv
<1>4. CASE ListPage(w)
  <2>1. PICK todo, last :
           /\ todo \in Seq(Ettns) /\ last \in BOOLEAN /\ (last \/ c.page < MaxPages)
           /\ cycle' = [cycle EXCEPT ![w] = Onward(Listed(c, todo, last))]
    <3> DEFINE short == Len(Page(c.page)) < PageSize \/ c.page = MaxPages
               counted == c.page * PageSize >= Len(inbox)
    <3>1. PICK todo \in Selected(w), last \in {short, short \/ counted} :
             cycle' = [cycle EXCEPT ![w] = Onward(Listed(c, todo, last))]
      BY <1>4 DEF ListPage
    <3>2. todo \in Seq(Ettns)
      BY SelectedList
    <3>3. c.page \in 1..MaxPages /\ MaxPages \in Nat
      BY <1>3, InboundAssumption DEF Cycles
    <3>4. (c.page = MaxPages => last) /\ last \in BOOLEAN
      OBVIOUS
    <3> HIDE DEF short, counted
    <3>5. last \/ c.page < MaxPages
      <4> HIDE DEF c
      <4>1. QED
        BY <3>3, <3>4
    <3>6. QED
      BY <3>1, <3>2, <3>4, <3>5
  <2>2. PICK m : m = Listed(c, todo, last)
    OBVIOUS
  <2>3. m \in Cycles /\ OnPage(db, m) /\ m.doc = c.doc
    BY <1>3, <1>4, <2>1, <2>2, ListedSession DEF ListPage, At
  <2>4. PICK n : n = Onward(m)
    OBVIOUS
  <2>5. n.doc = c.doc /\ n.pc \notin {"idle", "insert"}
    BY <1>3, <2>3, <2>4, OnwardSession
  <2>6. CycleKept(db, n, files)
    BY <1>3, <2>5, OnwardKept DEF CycleKept
  <2>7. db' = db /\ files' = files /\ cycle' = [cycle EXCEPT ![w] = n]
    BY <1>4, <2>1, <2>2, <2>4 DEF ListPage
  <2>8. QED
    BY <1>2, <1>3, <2>6, <2>7, AloneTurn
<1>5. CASE Download(w)
  <2> DEFINE i == AtInvoice(w)
  <2>1. /\ c.pc = "import" /\ db' = db
        /\ files' = IF Doc(w, i) = 0 THEN files \cup {File(i, content[i])} ELSE files
        /\ cycle' = [cycle EXCEPT ![w] =
              IF Doc(w, i) = 0 THEN Working(c, "insert", content[i])
              ELSE IF Doc(w, i) = content[i] THEN Working(c, "read", 0) ELSE Rest(c)]
    BY <1>5 DEF Download, At
  <2>2. RowsKept(db', files') /\ StagedKept(c, files')
    BY <1>3, <2>1 DEF RowsKept, StagedKept, CycleKept
  <2>3. CASE Doc(w, i) = 0
    <3>1. PICK m : m = Working(c, "insert", content[i])
      OBVIOUS
    <3>2. m.doc = c.doc /\ m.pc = "insert" /\ m.bytes = content[i] /\ Head(m.todo) = i
      BY <1>3, <3>1, WorkingCycle DEF AtInvoice
    <3>3. c.doc[i] = 0 /\ db.doc[i] = 0
      BY <2>3 DEF Doc
    <3>4. CycleKept(db', m, files')
      BY <2>1, <2>2, <2>3, <3>2, <3>3 DEF CycleKept, StagedKept
    <3>5. QED
      BY <1>2, <2>1, <2>2, <2>3, <3>1, <3>4, AloneTurn
  <2>4. CASE Doc(w, i) # 0 /\ Doc(w, i) = content[i]
    <3>1. PICK m : m = Working(c, "read", 0)
      OBVIOUS
    <3>2. m.doc = c.doc /\ m.pc = "read"
      BY <1>3, <3>1, WorkingCycle
    <3>3. CycleKept(db', m, files')
      BY <2>2, <3>2, OnwardKept
    <3>4. QED
      BY <1>2, <2>1, <2>2, <2>4, <3>1, <3>3, AloneTurn
  <2>5. CASE Doc(w, i) # 0 /\ Doc(w, i) # content[i]
    BY <2>1, <2>5, FilesLeavingBehind DEF InPage
  <2>6. QED
    BY <2>3, <2>4, <2>5
<1>6. CASE Insert(w)
  <2> DEFINE i == AtInvoice(w)
  <2>1. c.pc = "insert" /\ i \in Ettns /\ i = Head(c.todo)
    BY <1>6, PageFacts DEF Insert, At, InPage, AtInvoice
  <2>2. db.doc[i] = 0 /\ File(i, c.bytes) \in files
    BY <1>3, <2>1 DEF CycleKept
  <2>3. PICK a, m : a = WithDoc(c, i, c.bytes) /\ m = Working(a, "read", 0)
    OBVIOUS
  <2>4. cycle' = [cycle EXCEPT ![w] = m] /\ files' = files /\ db' = db
    BY <1>6, <2>2, <2>3 DEF Insert, WithDoc
  <2>5. m.doc = [c.doc EXCEPT ![i] = c.bytes] /\ m.pc = "read" /\ c.doc \in [Ettns -> 0..2]
    <3>1. a \in Cycles
      BY <1>6, <2>1, <2>2, <2>3, StagedDocument DEF Insert
    <3>2. a.doc = [c.doc EXCEPT ![i] = c.bytes] /\ c.doc \in [Ettns -> 0..2]
      BY <1>3, <2>3 DEF WithDoc, Cycles
    <3>3. QED
      BY <2>3, <3>1, <3>2, WorkingCycle
  <2>6. StagedKept(m, files)
    BY <1>3, <2>1, <2>2, <2>5 DEF CycleKept, StagedKept
  <2>7. CycleKept(db, m, files)
    BY <2>5, <2>6 DEF CycleKept
  <2>8. QED
    BY <1>2, <1>3, <2>4, <2>7, AloneTurn
<1>7. CASE Parse(w)
  <2>1. c.pc = "read" /\ db' = db /\ files' = files
    BY <1>7 DEF Parse, At
  <2>2. CASE cycle' = [cycle EXCEPT ![w] = Rest(c)]
    BY <2>1, <2>2, FilesLeavingBehind DEF InPage
  <2>3. CASE cycle' = [cycle EXCEPT ![w] = Working(c, "record", 0)]
    <3>1. PICK m : m = Working(c, "record", 0)
      OBVIOUS
    <3>2. m.doc = c.doc /\ m.pc = "record"
      BY <1>3, <3>1, WorkingCycle
    <3>3. CycleKept(db, m, files)
      BY <1>3, <3>2, OnwardKept DEF CycleKept
    <3>4. QED
      BY <1>2, <1>3, <2>1, <2>3, <3>1, <3>3, AloneTurn
  <2>4. QED
    BY <1>7, <2>2, <2>3 DEF Parse
<1>8. CASE RecordReceipt(w)
  <2>1. PICK m : m = WithReceipts(c, ReceiptsWith(w, AtInvoice(w)))
    OBVIOUS
  <2>2. /\ c.pc = "record" /\ db' = db /\ files' = files
        /\ cycle' = [cycle EXCEPT ![w] = Rest(m)]
    BY <1>8, <2>1 DEF RecordReceipt, At, WithReceipts
  <2>3. OnPage(db, c) /\ c.todo # <<>> /\ AtInvoice(w) \in Ettns /\ Backed(db, c, AtInvoice(w))
    BY <1>3, <2>2, PageFacts DEF InPage, AtInvoice, SessionOK
  <2>4. PICK R : R = ReceiptsWith(w, AtInvoice(w))
    OBVIOUS
  <2>5. R \in SUBSET Ettns /\ \A j \in R : Backed(db, c, j)
    BY <1>3, <2>3, <2>4 DEF ReceiptsWith, Cycles, OnPage, StagedOK
  <2>6. /\ m \in Cycles /\ m.receipts = R /\ m.todo = c.todo /\ m.run = c.run
        /\ m.last = c.last /\ m.page = c.page /\ m.meta = c.meta /\ m.doc = c.doc
    BY <1>3, <2>1, <2>4, <2>5 DEF WithReceipts, Cycles
  <2> HIDE DEF c
  <2>7. OnPage(db, m) /\ m.todo # <<>>
    BY <2>3, <2>5, <2>6 DEF OnPage, StagedOK, Backed
  <2>8. PICK n : n = Rest(m)
    OBVIOUS
  <2>9. n.doc = c.doc /\ n.pc \notin {"idle", "insert"}
    BY <1>3, <2>6, <2>7, <2>8, RestSession
  <2>10. CycleKept(db, n, files)
    BY <1>3, <2>9, OnwardKept DEF CycleKept
  <2>11. QED
    BY <1>2, <1>3, <2>2, <2>8, <2>10, AloneTurn
<1>9. CASE CreateReview(w)
  <2> DEFINE i == AtInvoice(w)
  <2>1. /\ c.pc = "record" /\ db' = SessionCommitted(w, {i}) /\ files' = files
        /\ cycle' = [cycle EXCEPT ![w] = Rest(Unstaged(c))]
    BY <1>9 DEF CreateReview, At
  <2>2. OnPage(db, c) /\ c.todo # <<>> /\ i \in Ettns /\ Backed(db, c, i)
    BY <1>3, <2>1, PageFacts DEF InPage, AtInvoice, SessionOK
  <2>3. CommitOf(w, db')
    <3>1. PICK S : S = {i}
      OBVIOUS
    <3>2. S \in SUBSET Ettns /\ \A j \in S : Backed(db, cycle[w], j)
      BY <2>2, <3>1
    <3>3. db' = SessionCommitted(w, S)
      BY <2>1, <3>1
    <3> HIDE DEF i, c
    <3>4. QED
      BY <3>2, <3>3, CommitIsWhole DEF CommitOf
  <2>4. PICK u : u = Unstaged(c)
    OBVIOUS
  <2>5. u \in Cycles /\ OnPage(db', u) /\ u.todo # <<>> /\ \A j \in Ettns : u.doc[j] = 0
    BY <2>2, <2>3, <2>4, UnstagedSession
  <2>6. db' \in Databases
    BY <2>3 DEF CommitOf
  <2>7. PICK n : n = Rest(u)
    OBVIOUS
  <2>8. n.doc = u.doc /\ n.pc \notin {"idle", "insert"}
    BY <2>5, <2>6, <2>7, RestSession
  <2>9. CycleKept(db', n, files')
    BY <2>5, <2>8 DEF CycleKept, StagedKept
  <2>10. RowsKept(db', files')
    BY <1>3, <2>1, <2>3 DEF RowsKept, CycleKept, StagedKept, CommitOf, Doc
  <2>11. QED
    BY <1>2, <2>1, <2>4, <2>7, <2>9, <2>10, AloneTurn
<1>10. QED
  BY <1>4, <1>5, <1>6, <1>7, <1>8, <1>9

\* Whatever ends a cycle or fails its invoice keeps the files.
LEMMA FilesTrouble ==
    ASSUME InboundInv, FilesInv, manualRuns = 0, manualRuns' = manualRuns, NEW w \in Workers,
           EndCycle(w) \/ InvoiceFails(w) \/ ListFails(w) \/ DeadlockVictim(w) \/ SessionLost(w)
    PROVE  FilesInv'
<1>1. CASE EndCycle(w) \/ ListFails(w)
  <2>1. ~At(w, "idle") /\ cycle' = [cycle EXCEPT ![w] = Idle] /\ files' = files
    BY <1>1 DEF EndCycle, ListFails, At
  <2>2. db' = db \/ CommitOf(w, db')
    BY <1>1, RunRowWritten DEF EndCycle, ListFails
  <2>3. QED
    BY <2>1, <2>2, FilesEnd
<1>2. CASE SessionLost(w)
  BY <1>2, FilesEnd DEF SessionLost
<1>3. CASE InvoiceFails(w)
  <2>1. /\ cycle[w].pc \in InPage /\ cycle' = [cycle EXCEPT ![w] = Rest(cycle[w])] /\ db' = db
        /\ (files' = files \/ (cycle[w].pc = "insert" /\ files' = WithoutFile(w)))
    BY <1>3 DEF InvoiceFails, InPage, At
  <2>2. QED
    BY <2>1, FilesLeavingBehind
<1>4. CASE DeadlockVictim(w)
  <2>1. \E v \in Workers : v \in WaitsFor(w)
    BY <1>4 DEF DeadlockVictim, WaitsFor
  <2>2. cycle[w].pc \in {"list"} \cup InPage
    BY <2>1 DEF WaitsFor, At, InPage
  <2>3. CASE At(w, "list")
    <3>1. ~At(w, "idle") /\ cycle' = [cycle EXCEPT ![w] = Idle] /\ files' = files /\ db' = db
      BY <1>4, <2>3 DEF DeadlockVictim, At
    <3>2. QED
      BY <3>1, FilesEnd
  <2>4. CASE ~At(w, "list")
    <3>1. /\ cycle[w].pc \in InPage /\ cycle' = [cycle EXCEPT ![w] = Rest(cycle[w])] /\ db' = db
          /\ (files' = files \/ (cycle[w].pc = "insert" /\ files' = WithoutFile(w)))
      BY <1>4, <2>2, <2>4 DEF DeadlockVictim, At
    <3>2. QED
      BY <3>1, FilesLeavingBehind
  <2>5. QED
    BY <2>3, <2>4
<1>5. QED
  BY <1>1, <1>2, <1>3, <1>4

\* Every step keeps the files.
LEMMA FilesStep == InboundInv /\ FilesInv /\ [Next]_vars => FilesInv'
<1> SUFFICES ASSUME InboundInv, FilesInv, [Next]_vars
             PROVE  FilesInv'
  OBVIOUS
<1>1. CASE UNCHANGED <<db, files, cycle, manualRuns>>
  BY <1>1 DEF FilesInv, RowsKept, CycleKept, StagedKept, At
<1>2. CASE \E w \in Workers : StartPoll(w) \/ StartManual(w)
  BY <1>2, FilesBegun
<1>3. ASSUME NEW w \in Workers,
             CycleStep(w) \/ InvoiceFails(w) \/ ListFails(w) \/ SessionLost(w) \/ DeadlockVictim(w)
      PROVE  FilesInv'
  <2>1. manualRuns' = manualRuns
    BY <1>3 DEF CycleStep, ListPage, Download, Insert, Parse, RecordReceipt, CreateReview, EndCycle,
       InvoiceFails, ListFails, SessionLost, DeadlockVictim
  <2>2. CASE manualRuns = 0
    BY <1>3, <2>1, <2>2, FilesWork, FilesTrouble DEF CycleStep
  <2>3. CASE manualRuns # 0
    BY <2>1, <2>3 DEF FilesInv
  <2>4. QED
    BY <2>2, <2>3
<1>4. CASE UNCHANGED vars
  BY <1>1, <1>4 DEF vars
<1>5. CASE \E i \in Ettns : Arrives(i) \/ LeavesWindow(i) \/ Reissued(i)
  BY <1>1, <1>5 DEF Arrives, LeavesWindow, Reissued
<1>6. QED
  BY <1>2, <1>3, <1>4, <1>5 DEF Next

LEMMA FilesInvariance == Spec => []FilesInv
<1>1. Init => FilesInv
  BY DEF Init, FilesInv, RowsKept, CycleKept, StagedKept, At, Idle, Workers
<1>2. InboundInv /\ FilesInv /\ [Next]_vars => FilesInv'
  BY FilesStep
<1>3. QED
  BY <1>1, <1>2, InboundInvariance, PTL DEF Spec

\* The invariants imply what ImportsAreWhole says.
LEMMA WholeImports == InboundInv /\ FilesInv => ImportsAreWhole
<1> SUFFICES ASSUME InboundInv, FilesInv
             PROVE  ImportsAreWhole
  OBVIOUS
<1>1. InboundTypeOK
  BY DEF InboundInv, InboundTypeOK, Databases, Cycles
<1>2. OnePollAtATime
  BY DEF InboundInv, PollHasLock, OnePollAtATime
<1>3. ImportedHasItsDocument
  BY DEF InboundInv, WholeIn, ImportedHasItsDocument
<1>4. OnlyManualRunsLoseDocuments
  BY DEF FilesInv, RowsKept, OnlyManualRunsLoseDocuments, DocumentLost
<1>5. QED
  BY <1>1, <1>2, <1>3, <1>4 DEF ImportsAreWhole

\* At most one of any number of pollers is in a cycle, also after one has died, and no import
\* is visible without its metadata and its document, although the review of one invoice
\* commits the session in the middle of a page and the rest may be rolled back.  As long as no
\* manual run has been made, no committed row names a document that is gone, whichever inserts
\* fail: the session that deletes a file is then the only one with a claim to it.
THEOREM WholeInbound == Spec => []ImportsAreWhole
BY InboundInvariance, FilesInvariance, WholeImports, PTL

\* An imported invoice keeps its kind of row, and the row of its document the version it names,
\* whichever sessions race on it and whatever the provider serves later.  The file is another
\* matter, see WholeInbound.
THEOREM FinalInbound == Spec => ImportIsFinal
<1>1. InboundInv /\ [Next]_vars =>
        [\A i \in Ettns :
            /\ db.imported[i] # "none" => db'.imported[i] = db.imported[i]
            /\ db.doc[i] # 0 => db'.doc[i] = db.doc[i]]_vars
  BY InboundStep DEF Sound, Keeps
<1>2. QED
  BY <1>1, InboundInvariance, PTL DEF Spec, ImportIsFinal

\* No import becomes visible without the run row of a cycle that is going on, although the
\* row itself is only flushed when the cycle starts.
THEOREM AuditedInbound == Spec => ImportIsAudited
<1>1. InboundInv /\ [Next]_vars =>
        [\A i \in Ettns : db.imported[i] = "none" /\ db'.imported[i] # "none" =>
            \E w \in Workers : db'.run[w] # "none" /\ ~At(w, "idle")]_vars
  BY InboundStep DEF Sound, AuditedStep
<1>2. QED
  BY <1>1, InboundInvariance, PTL DEF Spec, ImportIsAudited

-----------------------------------------------------------------------------
(* The projection to the workbench, and what is ingested from it. *)

Statuses == {"PENDING_REVIEW", "DISMISSED", "DECISION_SUBMITTED"}
Executions == {"none", "FAILED", "COMPLETED"}
Ways == {"", "sync", "publish", "republish", "execution"}
Channels == {"", "legacy", "request"}

\* An entry as the parent row gives it: the allocations are read later.
Parent(e) == [e EXCEPT !.allocations = <<>>]

Candidates == {NoCandidate} \cup
    {Candidate(Parent(e), v, f.allocations) : e \in Entries, v \in 0..MaxVersion, f \in Entries}

\* A candidate that may be submitted under the label of the entry it was read from.
Submittable(c, label) ==
    \E e \in Entries, v \in 0..MaxVersion, f \in Entries :
        /\ c = Candidate(Parent(e), v, f.allocations)
        /\ c.ok /\ label = e.label
        /\ ReferencesValid(c, Erp, Company)

Decisions == {NoDecision} \cup
    [ok : {TRUE}, candidate : Candidates, via : Channels, label : {e.label : e \in Entries},
     seen : 0..MaxVersion]

Versions == [status : Statuses, facts : UNION Invoices, decision : Decisions]

Histories == {h \in Seq(Versions) : Len(h) \in 1..MaxVersion}

Snapshots == {Snapshot(h, x) : h \in Histories, x \in Executions}

LinesShown == UNION {s.lines.rows : s \in Snapshots}

LineRecords ==
    [key : {l.key : l \in LinesShown}, version : 1..MaxVersion,
     supplier : {l.supplier : l \in LinesShown}, state : ProductLineMatchState,
     product : {l.product : l \in LinesShown}, hints : {l.hints : l \in LinesShown} \cup {{}},
     current : BOOLEAN]

RowRecords ==
    [version : 0..MaxVersion, status : Statuses \cup {""},
     workflow : {s.row.workflow : s \in Snapshots} \cup {""}, action : NextActions \cup {""},
     executed : BOOLEAN, message : Executions, ready : BOOLEAN, entry : Entries \cup {<<>>},
     seen : 0..MaxVersion, key : Candidates, taken : Candidates]

Steps == [op : {"create", "update", "deactivate"}, line : LinesShown \cup LineRecords, at : Nat]

Tasks ==
    [pc : {"free", "build", "lookup", "create", "write", "lines", "line", "allocations",
           "submit", "acknowledge"},
     how : Ways, snap : Snapshots \cup {<<>>}, found : {Shown(r) : r \in RowRecords} \cup {<<>>},
     todo : SUBSET Steps, row : Nat,
     candidate : Candidates \cup [version : 0..MaxVersion, seen : 0..MaxVersion],
     entry : {Parent(e) : e \in Entries} \cup {<<>>}
             \cup [label : {e.label : e \in Entries}, seen : 0..MaxVersion],
     via : Channels]

ProjectionTypes ==
    /\ hub \in [invoice : Invoices, execution : Executions, review : Histories]
    /\ rows \in Seq(RowRecords)
    /\ lines \in Seq(LineRecords)
    /\ task \in [Syncers -> Tasks]
    /\ events \in 0..MaxEvents

-----------------------------------------------------------------------------
(* The invariant. *)

Until(review, v) == SubSeq(review, 1, v)

\* A snapshot of the history h as it is or was, with an execution that ended as shown.
Taken(s, h, x) ==
    \E v \in DOMAIN h, y \in Executions :
        s = Snapshot(Until(h, v), y) /\ (y = "COMPLETED" => x = "COMPLETED")

\* A row shows nothing that the history h and the execution x do not have.
RowOf(r, h, x) ==
    /\ r.version <= Len(h)
    /\ r.status = "" \/ \E v \in DOMAIN h : h[v].status = r.status
    /\ r.executed => x = "COMPLETED"
    /\ r.key.ok => \E v \in DOMAIN h : h[v].decision.ok /\ h[v].decision.candidate = r.key

\* Nor does a line row, as long as it is current.
LineOf(l, h) ==
    /\ l.version <= Len(h)
    /\ l.current => \E s \in Snapshot(Until(h, l.version), "none").lines.rows :
                       [f \in LineFields |-> s[f]] = [f \in LineFields |-> l[f]]

\* A decision of version v stands on an entry, and through the button on the version shown.
DecisionOf(d, v) ==
    d.ok => /\ Submittable(d.candidate, d.label)
            /\ d.via = "request" => d.seen = v - 1 /\ V1Supported(d.candidate)

\* A version that waits for a decision has none.
Undecided(h) == \A v \in DOMAIN h : Pending(h[v]) => h[v].decision = NoDecision

\* What a process knows at each point.
Knows(t, h, x) ==
    /\ t.pc \in {"lookup", "create", "write", "lines", "line"} => Taken(t.snap, h, x)
    /\ t.how = "execution" => x = "COMPLETED"
    /\ \A step \in t.todo : step.op # "deactivate" => step.line \in t.snap.lines.rows
    /\ t.todo # {} => t.pc \in {"line", "acknowledge"}
    /\ t.pc = "allocations" =>
          /\ \E e \in Entries : t.entry = Parent(e)
          /\ t.candidate \in [version : 0..MaxVersion, seen : 0..MaxVersion]
          /\ t.via = "request" => t.candidate.version = t.candidate.seen
    /\ t.pc = "submit" =>
          /\ t.entry \in [label : {e.label : e \in Entries}, seen : 0..MaxVersion]
          /\ Submittable(t.candidate, t.entry.label)
          /\ t.via = "request" => t.entry.seen = t.candidate.version

\* The row whose allocations are read has an entry.
RowsKnown == \A w \in Syncers : task[w].pc = "allocations" =>
    task[w].row \in DOMAIN rows /\ rows[task[w].row].entry \in Entries

Entered == \A i \in DOMAIN rows : rows[i].ready => rows[i].entry \in Entries

ProjectionInv ==
    /\ ProjectionTypes
    /\ \A i \in DOMAIN rows : RowOf(rows[i], hub.review, hub.execution)
    /\ \A i \in DOMAIN lines : LineOf(lines[i], hub.review)
    /\ \A v \in DOMAIN hub.review : DecisionOf(hub.review[v].decision, v)
    /\ Undecided(hub.review)
    /\ \A w \in Syncers : Knows(task[w], hub.review, hub.execution)
    /\ Entered
    /\ RowsKnown

-----------------------------------------------------------------------------
(* Candidates. *)

\* The parent row of an entry has everything but the allocations.
LEMMA ParentFields ==
    ASSUME NEW e \in Entries
    PROVE  /\ Parent(e).decision = e.decision
           /\ Parent(e).label = e.label
           /\ Parent(e).completeness = e.completeness
           /\ Parent(e).total = InvoiceTotal
           /\ Parent(e).currency = e.currency
           /\ Parent(e).lines = e.lines
<1>1. DOMAIN e = {"decision", "label", "completeness", "total", "currency", "allocations", "lines"}
      /\ e.total = InvoiceTotal
  BY ProjectionAssumption
<1>2. \A f \in DOMAIN e \ {"allocations"} : Parent(e)[f] = e[f]
  BY DEF Parent
<1>3. QED
  BY <1>1, <1>2

\* The Hub has read the candidate c from e, at version v with the allocations a,
Read(c, e, v, a) == c = Candidate(e, v, a) /\ c.ok

\* and this is what it let through.
Understood(c, e, v, a) ==
    /\ c.version = v
    /\ \/ c.decision = "dismiss" /\ c.workflow = "" /\ c.allocations = <<>>
       \/ /\ c.decision = "submit" /\ c.workflow = WorkflowOfLabel[e.label]
          /\ c.allocations = a /\ c.completeness = e.completeness
          /\ a = <<>> \/ ValidAllocationSet(a, e.completeness, e.total, e.currency)
          /\ e.label \in DOMAIN WorkflowOfLabel
          /\ LabelFits(e.label, a)

\* What _candidate and BusinessContextAllocationSet let through.
LEMMA CandidateFacts ==
    ASSUME NEW e, NEW v, NEW a, NEW c, Read(c, e, v, a)
    PROVE  Understood(c, e, v, a)
<1> DEFINE taken == /\ e.decision = "submit"
                    /\ a = <<>> \/ ValidAllocationSet(a, e.completeness, e.total, e.currency)
                    /\ e.label \in DOMAIN WorkflowOfLabel
                    /\ LabelFits(e.label, a)
                    /\ ValidLineResolutions(e.lines)
<1>1. CASE e.decision = "dismiss"
  BY <1>1 DEF Candidate, Read, Understood
<1>2. CASE e.decision # "dismiss" /\ taken
  <2>1. c = [ok |-> TRUE, version |-> v, decision |-> "submit", workflow |-> WorkflowOfLabel[e.label],
             allocations |-> a, completeness |-> e.completeness, lines |-> e.lines]
    BY <1>2, Zenon DEF Candidate, Read
  <2>2. QED
    BY <1>2, <2>1 DEF Understood
<1>3. CASE e.decision # "dismiss" /\ ~taken
  <2>1. c = Refused
    BY <1>3, Zenon DEF Candidate, Read
  <2>2. c.ok = FALSE
    BY <2>1 DEF Refused
  <2>3. QED
    BY <2>2 DEF Read
<1>4. QED
  BY <1>1, <1>2, <1>3

\* A bill that the button takes was entered as a direct bill.
LEMMA DirectBill ==
    ASSUME NEW c, NEW label, Submittable(c, label), V1Supported(c), c.workflow = "VENDOR_BILL"
    PROVE  label = "direct_bill"
<1>1. PICK e \in Entries, v \in 0..MaxVersion, f \in Entries :
         c = Candidate(Parent(e), v, f.allocations) /\ c.ok /\ label = e.label
  BY DEF Submittable
<1>a. PICK p, a : p = Parent(e) /\ a = f.allocations
  OBVIOUS
<1>2. p.label = label /\ Read(c, p, v, a)
  BY <1>1, <1>a, ParentFields DEF Read
<1>3. /\ c.decision = "submit" /\ WorkflowOfLabel[label] = "VENDOR_BILL"
      /\ label \in DOMAIN WorkflowOfLabel /\ LabelFits(label, c.allocations)
  <2>0. Understood(c, p, v, a)
    BY <1>2, CandidateFacts
  <2>1. /\ c.decision = "submit" /\ c.workflow = WorkflowOfLabel[p.label]
        /\ c.allocations = a /\ p.label \in DOMAIN WorkflowOfLabel /\ LabelFits(p.label, a)
    BY <2>0 DEF Understood
  <2>2. QED
    BY <1>2, <2>1
<1>4. \A i \in DOMAIN c.allocations : c.allocations[i].type # "existing_purchase_order"
  BY <1>3 DEF V1Supported
<1>5. label \in {"existing_po", "direct_bill"}
  BY <1>3 DEF WorkflowOfLabel
<1>6. label # "existing_po"
  <2> SUFFICES ASSUME label = "existing_po"
               PROVE  FALSE
    OBVIOUS
  <2>1. RequiredAllocation[label] = "existing_purchase_order" /\ label \in DOMAIN RequiredAllocation
    BY DEF RequiredAllocation
  <2>2. \E b \in ToSet(c.allocations) : b.type = "existing_purchase_order"
    BY <1>3, <2>1 DEF LabelFits
  <2>3. QED
    BY <1>4, <2>2 DEF ToSet
<1>7. QED
  BY <1>5, <1>6

\* The distribution and the orders of a candidate that may be submitted.
LEMMA SoundAllocations ==
    ASSUME NEW c, NEW label, Submittable(c, label), c.allocations # <<>>
    PROVE  /\ IF c.completeness = "complete"
              THEN \/ AmountTotal(c.allocations) = InvoiceTotal
                   \/ PercentageTotal(c.allocations) = 100
              ELSE /\ InvoiceTotal > 0 => AmountTotal(c.allocations) <= InvoiceTotal
                   /\ PercentageTotal(c.allocations) <= 100
           /\ \A n \in DOMAIN c.allocations : c.allocations[n].purchaseOrder # 0 =>
                 Erp.purchaseOrders[c.allocations[n].purchaseOrder].company = Company
<1>1. PICK e \in Entries, v \in 0..MaxVersion, f \in Entries :
         /\ c = Candidate(Parent(e), v, f.allocations) /\ c.ok
         /\ ReferencesValid(c, Erp, Company)
  BY DEF Submittable
<1>a. PICK p, a : p = Parent(e) /\ a = f.allocations
  OBVIOUS
<1>2. p.total = InvoiceTotal /\ Read(c, p, v, a)
  BY <1>1, <1>a, ParentFields DEF Read
<1>3. AllocationTotals(c.allocations, c.completeness, InvoiceTotal)
  <2>0. Understood(c, p, v, a)
    BY <1>2, CandidateFacts
  <2>1. /\ c.allocations = a /\ c.completeness = p.completeness
        /\ ValidAllocationSet(a, p.completeness, p.total, p.currency)
    BY <2>0 DEF Understood
  <2>2. QED
    BY <1>2, <2>1 DEF ValidAllocationSet
<1>4. \A n \in DOMAIN c.allocations : ReferencesInScope(c.allocations[n], Erp, Company)
  BY <1>1 DEF ReferencesValid, ReferenceValid
<1>5. \A n \in DOMAIN c.allocations : c.allocations[n].purchaseOrder # 0 =>
         Erp.purchaseOrders[c.allocations[n].purchaseOrder].company = Company
  BY <1>4 DEF ReferencesInScope, OwnCompany
<1>6. CASE c.completeness = "complete"
  BY <1>3, <1>5, <1>6 DEF AllocationTotals
<1>7. CASE c.completeness # "complete"
  BY <1>2, <1>3, <1>5, <1>7 DEF AllocationTotals
<1>8. QED
  BY <1>6, <1>7

-----------------------------------------------------------------------------
(* Snapshots. *)

\* The guidance is one of the steps an operator can take, whatever the facts say.
LEMMA GuidanceRange ==
    ASSUME NEW status, NEW codes, NEW facts, NEW workflow, NEW executed
    PROVE  NextAction(status, codes, facts, workflow, executed) \in NextActions
<1>1. BlockedAction(codes, facts) \in NextActions
  BY DEF BlockedAction, NextActions
<1>2. UnblockedAction(facts) \in NextActions
  BY DEF UnblockedAction, NextActions
<1>3. AfterDecision(workflow, executed) \in NextActions
  BY DEF AfterDecision, NextActions
<1>4. "DONE" \in NextActions
  BY DEF NextActions
<1>5. QED
  BY <1>1, <1>2, <1>3, <1>4 DEF NextAction

\* Every line is in one of the states the workbench knows.
LEMMA LineStates ==
    ASSUME NEW facts, NEW decided \in BOOLEAN, NEW resolutions, NEW n
    PROVE  LineProjection(facts, decided, resolutions, n).state \in ProductLineMatchState
<1>1. \A name \in ProductLineMatchState : State(name).state \in ProductLineMatchState
  BY DEF State
<1>2. \A name \in ProductLineMatchState, d \in BOOLEAN : SupplierFirst(name, d) \in ProductLineMatchState
  BY DEF SupplierFirst, ProductLineMatchState
<1>3. DecidedState(resolutions, n).state \in ProductLineMatchState
  BY <1>1 DEF DecidedState, ProductLineMatchState
<1>4. EvidencedState(facts, n).state \in ProductLineMatchState
  <2>1. EvidenceState(facts.evidence[n].status) \in ProductLineMatchState
    BY DEF EvidenceState, ProductLineMatchState
  <2>2. State(SupplierFirst(EvidenceState(facts.evidence[n].status), facts.supplier = 0)).state
           \in ProductLineMatchState
    BY <1>1, <1>2, <2>1
  <2>3. State("no_evidence").state \in ProductLineMatchState
    BY <1>1 DEF ProductLineMatchState
  <2>4. "matched" \in ProductLineMatchState
    BY DEF ProductLineMatchState
  <2>5. QED
    BY <2>2, <2>3, <2>4 DEF EvidencedState
<1>5. PendingState(facts, n).state \in ProductLineMatchState
  <2> DEFINE reason == LineReason(facts, n)
  <2>1. reason \in PRODUCT_LINE_REASON_CODES \cup {""}
    BY DEF LineReason, PRODUCT_LINE_REASON_CODES
  <2>2. CASE reason = ""
    BY <1>4, <2>2 DEF PendingState
  <2>3. CASE reason \in PRODUCT_LINE_REASON_CODES
    <3>1. ReasonState(reason) \in ProductLineMatchState
      BY <2>3 DEF ReasonState, PRODUCT_LINE_REASON_CODES, ProductLineMatchState
    <3>2. reason # ""
      BY <2>3 DEF PRODUCT_LINE_REASON_CODES
    <3>3. PICK b \in BOOLEAN : b = (facts.supplier = 0 /\ Codes(facts) \cap SUPPLIER_BLOCKER_CODES # {})
      OBVIOUS
    <3> HIDE DEF reason
    <3>4. State(SupplierFirst(ReasonState(reason), b)).state \in ProductLineMatchState
      BY <1>1, <1>2, <3>1
    <3>5. PendingState(facts, n) = State(SupplierFirst(ReasonState(reason), b))
      BY <3>2, <3>3 DEF PendingState, reason
    <3>6. QED
      BY <3>4, <3>5
  <2>4. QED
    BY <2>1, <2>2, <2>3
<1>6. QED
  BY <1>3, <1>5 DEF LineProjection

\* The line rows of a version carry its number.
LEMMA LineRowFacts ==
    ASSUME NEW facts, NEW had, NEW version, NEW pending \in BOOLEAN, NEW resolutions,
           NEW l \in ProductLineRows(facts, had, version, pending, resolutions).rows
    PROVE  l.version = version /\ l.state \in ProductLineMatchState
<1> DEFINE line(n) == LineProjection(facts, ~pending, resolutions, n)
<1>1. PICK i \in DOMAIN facts.numbers :
        l = [key |-> facts.numbers[i], version |-> version, supplier |-> facts.supplier,
             state |-> line(facts.numbers[i]).state, product |-> line(facts.numbers[i]).product,
             hints |-> HintValues(facts, pending, line(facts.numbers[i]), facts.numbers[i])]
  BY DEF ProductLineRows
<1>2. line(facts.numbers[i]).state \in ProductLineMatchState
  BY LineStates
<1>3. QED
  BY <1>1, <1>2

ShownRecords ==
    [version : 1..MaxVersion, status : Statuses, workflow : {s.row.workflow : s \in Snapshots},
     action : NextActions, executed : BOOLEAN, message : Executions]

\* What a snapshot of the history h shows.
SnapshotOf(s, h, x) ==
    /\ s \in Snapshots
    /\ s.row \in ShownRecords
    /\ s.row.version = Len(h)
    /\ s.row.status = h[Len(h)].status
    /\ s.row.executed => x = "COMPLETED"
    /\ s.lines = Snapshot(h, "none").lines
    /\ \A l \in s.lines.rows : /\ l \in LinesShown
                               /\ l.version = Len(h) /\ l.state \in ProductLineMatchState

\* _build_projection shows the last version, and its lines whatever the execution did.
LEMMA SnapshotFacts ==
    ASSUME NEW h \in Histories, NEW x \in Executions
    PROVE  SnapshotOf(Snapshot(h, x), h, x)
<1> DEFINE r == h[Len(h)]
           workflow == DecisionWorkflow(r)
           action == NextAction(r.status, Codes(r.facts), r.facts.guidance, workflow, x = "COMPLETED")
           f == [r.facts EXCEPT !.supplier = IF r.status = "DISMISSED" THEN 0 ELSE @]
           rowlines == ProductLineRows(f, HadProductReasons(h), Len(h), Pending(r), Resolutions(r))
<1>1. PICK s : s = Snapshot(h, x)
  OBVIOUS
<1>2. s \in Snapshots
  BY <1>1 DEF Snapshots
<1>3. h \in Seq(Versions) /\ Len(h) \in 1..MaxVersion /\ r \in Versions
  BY DEF Histories
<1>4. PICK wf : wf = IF workflow # "" THEN workflow ELSE r.facts.workflow
  OBVIOUS
<1>5. s = [row |-> [version |-> Len(h), status |-> r.status, workflow |-> wf, action |-> action,
                    executed |-> x = "COMPLETED", message |-> x], lines |-> rowlines]
  BY <1>1, <1>4 DEF Snapshot
<1>6. Snapshot(h, "none").lines = rowlines
  BY DEF Snapshot
<1>7. action \in NextActions
  BY GuidanceRange
<1>8. r.status \in Statuses
  BY <1>3 DEF Versions
<1>9. \A l \in rowlines.rows : l.version = Len(h) /\ l.state \in ProductLineMatchState
  <2>1. PICK p \in BOOLEAN : p = Pending(r)
    BY DEF Pending
  <2>2. rowlines = ProductLineRows(f, HadProductReasons(h), Len(h), p, Resolutions(r))
    BY <2>1
  <2> HIDE DEF f, r, rowlines
  <2>3. QED
    BY <2>2, LineRowFacts
<1> HIDE DEF action, r, rowlines, workflow, f
<1>b. PICK b \in BOOLEAN : b = (x = "COMPLETED")
  OBVIOUS
<1>10. s.row = [version |-> Len(h), status |-> r.status, workflow |-> wf, action |-> action,
                executed |-> b, message |-> x] /\ s.lines = rowlines
  BY <1>5, <1>b
<1>11. s.row \in ShownRecords
  <2>1. s.row.workflow = wf
    BY <1>10
  <2>2. wf \in {q.row.workflow : q \in Snapshots}
    BY <1>2, <2>1
  <2>3. QED
    BY <1>3, <1>7, <1>8, <1>10, <2>2 DEF ShownRecords
<1>12. s.lines.rows \subseteq LinesShown
  BY <1>2 DEF LinesShown
<1>13. s.row.version = Len(h) /\ s.row.status = r.status /\ s.row.executed = b
  BY <1>10
<1>14. SnapshotOf(s, h, x)
  BY <1>2, <1>6, <1>9, <1>b, <1>10, <1>11, <1>12, <1>13 DEF SnapshotOf, r
<1>15. QED
  BY <1>1, <1>14

\* A history up to a version of it is a history, and later versions do not change it.
LEMMA UntilFacts ==
    ASSUME NEW h \in Histories, NEW v \in DOMAIN h
    PROVE  /\ Until(h, v) \in Histories
           /\ Len(Until(h, v)) = v
           /\ Until(h, v)[v] = h[v]
           /\ v \in 1..MaxVersion
<1>1. h \in Seq(Versions) /\ Len(h) \in 1..MaxVersion /\ v \in 1..Len(h)
  BY DEF Histories
<1>2. Until(h, v) \in Seq(Versions) /\ Len(Until(h, v)) = v /\ Until(h, v)[v] = h[v]
  BY <1>1 DEF Until
<1>3. v \in 1..MaxVersion
  BY <1>1, ProjectionAssumption
<1>4. QED
  BY <1>2, <1>3 DEF Histories

\* The whole history is the history up to its last version.
LEMMA WholeHistory ==
    ASSUME NEW h \in Histories
    PROVE  /\ Until(h, Len(h)) = h
           /\ Len(h) \in DOMAIN h
<1>1. h \in Seq(Versions) /\ Len(h) \in 1..MaxVersion
  BY DEF Histories
<1>2. QED
  BY <1>1 DEF Until

\* The history k continues h.
Continues(k, h) ==
    /\ k \in Histories /\ h \in Histories
    /\ Len(h) <= Len(k)
    /\ \A v \in DOMAIN h : v \in DOMAIN k /\ k[v] = h[v] /\ Until(k, v) = Until(h, v)

\* A history with one more version continues it.
LEMMA NextVersion ==
    ASSUME NEW h \in Histories, NEW r \in Versions, Len(h) < MaxVersion
    PROVE  /\ Continues(Append(h, r), h)
           /\ Len(Append(h, r)) = Len(h) + 1
           /\ Append(h, r)[Len(h) + 1] = r
<1>1. h \in Seq(Versions) /\ Len(h) \in 1..MaxVersion /\ MaxVersion \in Nat
  BY ProjectionAssumption DEF Histories
<1>2. /\ Append(h, r) \in Seq(Versions) /\ Len(Append(h, r)) = Len(h) + 1
      /\ Append(h, r)[Len(h) + 1] = r
      /\ \A v \in DOMAIN h : v \in DOMAIN Append(h, r) /\ Append(h, r)[v] = h[v]
  BY <1>1
<1>3. Append(h, r) \in Histories
  BY <1>1, <1>2 DEF Histories
<1>4. ASSUME NEW v \in DOMAIN h
      PROVE  Until(Append(h, r), v) = Until(h, v)
  BY <1>1, <1>2 DEF Until
<1>5. Len(h) <= Len(Append(h, r))
  BY <1>1, <1>2
<1>6. QED
  BY <1>2, <1>3, <1>4, <1>5 DEF Continues

\* A history continues itself.
LEMMA SameHistory ==
    ASSUME NEW h \in Histories
    PROVE  Continues(h, h)
<1>1. Len(h) \in Nat
  BY DEF Histories
<1>2. QED
  BY <1>1 DEF Continues

-----------------------------------------------------------------------------
(* What was committed stays committed. *)

\* The execution y after x: what completed stays completed.
Later(y, x) == x = "COMPLETED" => y = "COMPLETED"

\* A snapshot that was taken of the history stays one.
LEMMA TakenStays ==
    ASSUME NEW s, NEW h, NEW k, NEW x, NEW y, Continues(k, h), Later(y, x), Taken(s, h, x)
    PROVE  Taken(s, k, y)
BY DEF Continues, Later, Taken

\* A row that shows committed state goes on doing so.
LEMMA RowStays ==
    ASSUME NEW r \in RowRecords, NEW h, NEW k, NEW x, NEW y, Continues(k, h), Later(y, x), RowOf(r, h, x)
    PROVE  RowOf(r, k, y)
<1>1. r.version \in 0..MaxVersion /\ MaxVersion \in Nat
  BY ProjectionAssumption DEF RowRecords
<1>2. Len(h) \in Nat /\ Len(k) \in Nat /\ Len(h) <= Len(k)
  BY DEF Continues, Histories
<1>3. r.version <= Len(h)
  BY DEF RowOf
<1>4. r.version <= Len(k)
  BY <1>1, <1>2, <1>3
<1>5. QED
  BY <1>4 DEF Continues, Later, RowOf

\* And so does a line row.
LEMMA LineStays ==
    ASSUME NEW l \in LineRecords, NEW h, NEW k, Continues(k, h), LineOf(l, h)
    PROVE  LineOf(l, k)
<1>1. l.version \in 1..MaxVersion /\ Len(h) \in Nat /\ Len(k) \in Nat /\ Len(h) <= Len(k) /\ DOMAIN h = 1..Len(h)
  BY DEF LineRecords, Continues, Histories
<1>2. l.version <= Len(h)
  BY DEF LineOf
<1>3. l.version <= Len(k) /\ l.version \in DOMAIN h
  BY <1>1, <1>2
<1>4. Until(k, l.version) = Until(h, l.version)
  BY <1>3 DEF Continues
<1>5. QED
  BY <1>3, <1>4 DEF LineOf

\* And what a process knows stays true.
LEMMA KnowledgeStays ==
    ASSUME NEW t, NEW h, NEW k, NEW x, NEW y, Continues(k, h), Later(y, x), Knows(t, h, x)
    PROVE  Knows(t, k, y)
<1>1. Taken(t.snap, h, x) => Taken(t.snap, k, y)
  BY TakenStays
<1>2. QED
  BY <1>1 DEF Knows, Later

-----------------------------------------------------------------------------
(* A step, piece by piece. *)

HubRecords == [invoice : Invoices, execution : Executions, review : Histories]

\* The Hub only adds versions, with decisions in order, and no execution is undone.
HubNext ==
    /\ hub' \in HubRecords
    /\ Continues(hub'.review, hub.review)
    /\ Later(hub'.execution, hub.execution)
    /\ \A v \in DOMAIN hub'.review : DecisionOf(hub'.review[v].decision, v)
    /\ Undecided(hub'.review)

\* The rows stay, show what is committed, and keep an entry once there is one.
RowsNext ==
    /\ rows' \in Seq(RowRecords)
    /\ \A i \in DOMAIN rows' : /\ RowOf(rows'[i], hub'.review, hub'.execution)
                               /\ rows'[i].ready => rows'[i].entry \in Entries
    /\ \A i \in DOMAIN rows : /\ i \in DOMAIN rows'
                              /\ rows[i].entry \in Entries => rows'[i].entry \in Entries

LinesNext ==
    /\ lines' \in Seq(LineRecords)
    /\ \A i \in DOMAIN lines' : LineOf(lines'[i], hub'.review)

\* The process w goes on as t; the others stay where they are.
TaskNext(w, t) ==
    /\ t \in Tasks
    /\ Knows(t, hub'.review, hub'.execution)
    /\ t.pc = "allocations" => t.row \in DOMAIN rows' /\ rows'[t.row].entry \in Entries
    /\ task' = [task EXCEPT ![w] = t]

\* The invariant holds again if each piece of the state is right after the step.
LEMMA Frame ==
    ASSUME ProjectionInv, HubNext, RowsNext, LinesNext, NEW w \in Syncers, NEW t, TaskNext(w, t),
           events' \in 0..MaxEvents
    PROVE  ProjectionInv'
<1>1. task \in [Syncers -> Tasks] /\ task' \in [Syncers -> Tasks]
  BY DEF ProjectionInv, ProjectionTypes, TaskNext
<1>2. task'[w] = t /\ \A u \in Syncers \ {w} : task'[u] = task[u]
  BY <1>1 DEF TaskNext
<1>3. ProjectionTypes'
  BY <1>1 DEF ProjectionTypes, HubNext, HubRecords, RowsNext, LinesNext
<1>4. \A u \in Syncers : Knows(task'[u], hub'.review, hub'.execution)
  <2> SUFFICES ASSUME NEW u \in Syncers
               PROVE  Knows(task'[u], hub'.review, hub'.execution)
    OBVIOUS
  <2>1. CASE u = w
    BY <1>2, <2>1 DEF TaskNext
  <2>2. CASE u # w
    <3>1. Knows(task[u], hub.review, hub.execution)
      BY DEF ProjectionInv
    <3>2. Knows(task[u], hub'.review, hub'.execution)
      BY <3>1, KnowledgeStays DEF HubNext
    <3>3. QED
      BY <1>2, <2>2, <3>2
  <2>3. QED
    BY <2>1, <2>2
<1>5. RowsKnown'
  <2> SUFFICES ASSUME NEW u \in Syncers, task'[u].pc = "allocations"
               PROVE  task'[u].row \in DOMAIN rows' /\ rows'[task'[u].row].entry \in Entries
    BY DEF RowsKnown
  <2>1. CASE u = w
    BY <1>2, <2>1 DEF TaskNext
  <2>2. CASE u # w
    BY <1>2, <2>2 DEF ProjectionInv, RowsKnown, RowsNext
  <2>3. QED
    BY <2>1, <2>2
<1>6. Entered'
  BY DEF Entered, RowsNext
<1>7. QED
  BY <1>3, <1>4, <1>5, <1>6 DEF ProjectionInv, HubNext, RowsNext, LinesNext

\* A step that leaves the Hub alone.
LEMMA HubStays ==
    ASSUME ProjectionInv, hub' = hub
    PROVE  HubNext
<1>1. hub \in HubRecords /\ hub.review \in Histories
  BY DEF ProjectionInv, ProjectionTypes, HubRecords
<1>2. Continues(hub.review, hub.review)
  BY <1>1, SameHistory
<1>3. QED
  BY <1>1, <1>2 DEF HubNext, Later, ProjectionInv

\* A step that leaves the rows alone.
LEMMA RowsStay ==
    ASSUME ProjectionInv, HubNext, rows' = rows
    PROVE  RowsNext
<1>1. rows \in Seq(RowRecords) /\ \A i \in DOMAIN rows : rows[i] \in RowRecords
  BY DEF ProjectionInv, ProjectionTypes
<1>2. \A i \in DOMAIN rows : RowOf(rows[i], hub'.review, hub'.execution)
  BY <1>1, RowStays DEF ProjectionInv, HubNext
<1>3. QED
  BY <1>1, <1>2 DEF RowsNext, ProjectionInv, Entered

\* A step that leaves the line rows alone.
LEMMA LinesStay ==
    ASSUME ProjectionInv, HubNext, lines' = lines
    PROVE  LinesNext
<1>1. lines \in Seq(LineRecords) /\ \A i \in DOMAIN lines : lines[i] \in LineRecords
  BY DEF ProjectionInv, ProjectionTypes
<1>2. \A i \in DOMAIN lines : LineOf(lines[i], hub'.review)
  BY <1>1, LineStays DEF ProjectionInv, HubNext
<1>3. QED
  BY <1>1, <1>2 DEF LinesNext

-----------------------------------------------------------------------------
(* Processes. *)

Moved(t, pc) == [t EXCEPT !.pc = pc]

\* A process that does nothing knows nothing.
LEMMA FreeTask ==
    ASSUME NEW h, NEW x
    PROVE  Free \in Tasks /\ Knows(Free, h, x) /\ Free.pc = "free"
BY DEF Free, Tasks, Knows, Ways, Channels, Candidates

\* A move changes the place only.
LEMMA MovedTask ==
    ASSUME NEW t \in Tasks,
           NEW pc \in {"free", "build", "lookup", "create", "write", "lines", "line", "allocations",
                       "submit", "acknowledge"}
    PROVE  /\ Moved(t, pc) \in Tasks /\ Moved(t, pc).pc = pc
           /\ Moved(t, pc).how = t.how /\ Moved(t, pc).snap = t.snap /\ Moved(t, pc).todo = t.todo
           /\ Moved(t, pc).via = t.via /\ Moved(t, pc).row = t.row
           /\ Moved(t, pc).candidate = t.candidate /\ Moved(t, pc).entry = t.entry
<1>1. PICK m : m = Moved(t, pc)
  OBVIOUS
<1>2. m \in Tasks
  BY <1>1 DEF Moved, Tasks
<1>3. /\ m.pc = pc
      /\ m.how = t.how /\ m.snap = t.snap /\ m.todo = t.todo /\ m.via = t.via /\ m.row = t.row
      /\ m.candidate = t.candidate /\ m.entry = t.entry
  BY <1>1 DEF Moved, Tasks
<1>4. QED
  BY <1>1, <1>2, <1>3

\* Within the synchronization of a row a process keeps what it knows.
LEMMA SyncMove ==
    ASSUME NEW t \in Tasks, NEW h, NEW x, Knows(t, h, x), t.todo = {}, Taken(t.snap, h, x),
           NEW pc \in {"lookup", "create", "write", "lines"}
    PROVE  Moved(t, pc) \in Tasks /\ Knows(Moved(t, pc), h, x) /\ Moved(t, pc).pc = pc
<1>1. PICK m : m = Moved(t, pc)
  OBVIOUS
<1>2. /\ m \in Tasks /\ m.pc = pc /\ m.how = t.how /\ m.snap = t.snap /\ m.todo = t.todo
  BY <1>1, MovedTask
<1>3. Knows(m, h, x)
  BY <1>2 DEF Knows
<1>4. QED
  BY <1>1, <1>2, <1>3

\* On the way to the acknowledgement nothing has to be known.
LEMMA AckMove ==
    ASSUME NEW t \in Tasks, NEW h, NEW x, Knows(t, h, x)
    PROVE  Moved(t, "acknowledge") \in Tasks /\ Knows(Moved(t, "acknowledge"), h, x)
           /\ Moved(t, "acknowledge").pc = "acknowledge"
<1>1. PICK m : m = Moved(t, "acknowledge")
  OBVIOUS
<1>2. /\ m \in Tasks /\ m.pc = "acknowledge" /\ m.how = t.how /\ m.snap = t.snap /\ m.todo = t.todo
  BY <1>1, MovedTask
<1>3. Knows(m, h, x)
  BY <1>2 DEF Knows
<1>4. QED
  BY <1>1, <1>2, <1>3

\* The model's move is the one above.
LEMMA MoveIs ==
    ASSUME ProjectionInv, NEW w \in Syncers, NEW pc, Move(w, pc)
    PROVE  task' = [task EXCEPT ![w] = Moved(task[w], pc)]
BY DEF Move, Moved, ProjectionInv, ProjectionTypes

\* A process that is done, for any reason.
LEMMA DoneTask ==
    ASSUME ProjectionInv, NEW w \in Syncers, EndTask(w)
    PROVE  TaskNext(w, Free)
BY FreeTask DEF EndTask, TaskNext

\* After a synchronization.
LEMMA SyncedTask ==
    ASSUME ProjectionInv, HubNext, NEW w \in Syncers, AfterSync(w)
    PROVE  \E t : TaskNext(w, t)
<1>1. CASE task[w].via = "legacy"
  <2>1. Move(w, "acknowledge")
    BY <1>1 DEF AfterSync
  <2>2. task[w] \in Tasks /\ Knows(task[w], hub.review, hub.execution)
    BY DEF ProjectionInv, ProjectionTypes
  <2>3. Knows(task[w], hub'.review, hub'.execution)
    BY <2>2, KnowledgeStays DEF HubNext
  <2>4. TaskNext(w, Moved(task[w], "acknowledge"))
    BY <2>1, <2>2, <2>3, AckMove, MoveIs DEF TaskNext
  <2>5. QED
    BY <2>4
<1>2. CASE task[w].via # "legacy"
  BY <1>2, DoneTask DEF AfterSync
<1>3. QED
  BY <1>1, <1>2

\* What the invariant says of one process, and of the types.
LEMMA TaskFacts ==
    ASSUME ProjectionInv, NEW w \in Syncers
    PROVE  /\ task \in [Syncers -> Tasks] /\ task[w] \in Tasks
           /\ Knows(task[w], hub.review, hub.execution)
           /\ hub \in HubRecords /\ hub.review \in Histories /\ hub.execution \in Executions
           /\ rows \in Seq(RowRecords) /\ lines \in Seq(LineRecords)
BY DEF ProjectionInv, ProjectionTypes, HubRecords

\* A step that only moves a process.
LEMMA OnlyTask ==
    ASSUME ProjectionInv, NEW w \in Syncers, NEW t \in Tasks, Knows(t, hub.review, hub.execution),
           t.pc = "allocations" => t.row \in DOMAIN rows /\ rows[t.row].entry \in Entries,
           task' = [task EXCEPT ![w] = t], UNCHANGED <<hub, rows, lines>>, events' \in 0..MaxEvents
    PROVE  ProjectionInv'
<1>1. HubNext
  BY HubStays
<1>2. RowsNext /\ LinesNext
  BY <1>1, RowsStay, LinesStay
<1>3. TaskNext(w, t)
  BY DEF TaskNext
<1>4. QED
  BY <1>1, <1>2, <1>3, Frame

\* The end of a process, or of its synchronization, changes nothing else.
LEMMA Ends ==
    ASSUME ProjectionInv, NEW w \in Syncers, EndTask(w) \/ AfterSync(w),
           UNCHANGED <<hub, rows, lines>>, events' \in 0..MaxEvents
    PROVE  ProjectionInv'
<1>1. HubNext
  BY HubStays
<1>2. RowsNext /\ LinesNext
  BY <1>1, RowsStay, LinesStay
<1>3. PICK t : TaskNext(w, t)
  BY <1>1, DoneTask, SyncedTask
<1>4. QED
  BY <1>1, <1>2, <1>3, Frame

\* No event is counted.
LEMMA SameEvents ==
    ASSUME ProjectionInv, events' = events
    PROVE  events' \in 0..MaxEvents
BY DEF ProjectionInv, ProjectionTypes

\* An event is counted within its bound.
LEMMA NewEvent ==
    ASSUME ProjectionInv, Event
    PROVE  events' \in 0..MaxEvents
<1>1. events \in 0..MaxEvents /\ MaxEvents \in Nat /\ events < MaxEvents /\ events' = events + 1
  BY ProjectionAssumption DEF ProjectionInv, ProjectionTypes, Event
<1>2. QED
  BY <1>1

-----------------------------------------------------------------------------
(* The actions. *)

\* A process has read the snapshot s.
Snapped(t, s) == [[t EXCEPT !.pc = "lookup"] EXCEPT !.snap = s]

\* Build: the snapshot is of the committed history.
LEMMA BuildStep ==
    ASSUME ProjectionInv, NEW w \in Syncers, Build(w)
    PROVE  ProjectionInv'
<1>1. PICK t, s : t = task[w] /\ s = Snapshot(hub.review, hub.execution)
  OBVIOUS
<1>2. /\ t \in Tasks /\ Knows(t, hub.review, hub.execution) /\ t.pc = "build"
      /\ hub.review \in Histories /\ hub.execution \in Executions
  BY <1>1, TaskFacts DEF Build, Doing
<1>3. s \in Snapshots /\ Taken(s, hub.review, hub.execution)
  <2>1. Until(hub.review, Len(hub.review)) = hub.review /\ Len(hub.review) \in DOMAIN hub.review
    BY <1>2, WholeHistory
  <2>2. s \in Snapshots
    BY <1>1, <1>2 DEF Snapshots
  <2>3. QED
    BY <1>1, <1>2, <2>1, <2>2 DEF Taken
<1>4. PICK m : m = Snapped(t, s)
  OBVIOUS
<1>5. m \in Tasks /\ m.pc = "lookup" /\ m.snap = s /\ m.how = t.how /\ m.todo = t.todo
  BY <1>2, <1>3, <1>4 DEF Snapped, Tasks
<1>6. Knows(m, hub.review, hub.execution)
  BY <1>2, <1>3, <1>5 DEF Knows
<1>7. task' = [task EXCEPT ![w] = m]
  BY <1>1, <1>4, TaskFacts DEF Build, Snapped
<1>8. UNCHANGED <<hub, rows, lines>> /\ events' \in 0..MaxEvents
  BY SameEvents DEF Build
<1>9. QED
  BY <1>5, <1>6, <1>7, <1>8, OnlyTask

\* A process that has just been started.
Started(how) == [[Free EXCEPT !.pc = "build"] EXCEPT !.how = how]

\* A started process knows nothing, or that an execution completed.
LEMMA StartedTask ==
    ASSUME NEW h, NEW x, NEW how \in Ways, how = "execution" => x = "COMPLETED"
    PROVE  Started(how) \in Tasks /\ Knows(Started(how), h, x) /\ Started(how).pc = "build"
<1>1. PICK m : m = Started(how)
  OBVIOUS
<1>2. PICK r \in Tasks : r = Free
  BY FreeTask
<1>3. m \in Tasks /\ m.pc = "build" /\ m.how = how /\ m.todo = r.todo
  BY <1>1, <1>2 DEF Started, Tasks
<1>4. Knows(m, h, x)
  <2>1. r.todo = {}
    BY <1>2 DEF Free
  <2>2. QED
    BY <1>3, <2>1 DEF Knows
<1>5. QED
  BY <1>1, <1>3, <1>4

\* Reconcile starts a synchronization.
LEMMA ReconcileStep ==
    ASSUME ProjectionInv, NEW w \in Syncers, Reconcile(w)
    PROVE  ProjectionInv'
<1>1. "sync" \in Ways /\ "sync" # "execution"
  BY DEF Ways
<1>2. PICK m : m = Started("sync")
  OBVIOUS
<1>3. m \in Tasks /\ Knows(m, hub.review, hub.execution) /\ m.pc = "build"
  BY <1>1, <1>2, StartedTask
<1>4. task' = [task EXCEPT ![w] = m]
  BY <1>2 DEF Reconcile, Started
<1>5. UNCHANGED <<hub, rows, lines>> /\ events' \in 0..MaxEvents
  BY SameEvents DEF Reconcile
<1>6. QED
  BY <1>3, <1>4, <1>5, OnlyTask

\* ProjectionFails: a failure ends a process, or leaves it to acknowledge.
LEMMA FailsStep ==
    ASSUME ProjectionInv, NEW w \in Syncers, ProjectionFails(w)
    PROVE  ProjectionInv'
<1>1. UNCHANGED <<hub, rows, lines>> /\ events' \in 0..MaxEvents
  BY NewEvent DEF ProjectionFails
<1>2. EndTask(w) \/ (task[w].via = "legacy" /\ Move(w, "acknowledge"))
  BY DEF ProjectionFails
<1>3. EndTask(w) \/ AfterSync(w)
  BY <1>2 DEF AfterSync
<1>4. QED
  BY <1>1, <1>3, Ends

\* A process has read the row r.
Found(t, r) == [t EXCEPT !.found = Shown(r)]

\* Lookup: whatever is found, the snapshot is still one of the history.
LEMMA LookupStep ==
    ASSUME ProjectionInv, NEW w \in Syncers, Lookup(w)
    PROVE  ProjectionInv'
<1>1. PICK t : t = task[w]
  OBVIOUS
<1>2. /\ t \in Tasks /\ Knows(t, hub.review, hub.execution) /\ t.pc = "lookup"
      /\ rows \in Seq(RowRecords) /\ task \in [Syncers -> Tasks]
  BY <1>1, TaskFacts DEF Lookup, Doing
<1>3. t.todo = {} /\ Taken(t.snap, hub.review, hub.execution)
  BY <1>2 DEF Knows
<1>4. UNCHANGED <<hub, rows, lines>> /\ events' \in 0..MaxEvents
  BY SameEvents DEF Lookup
<1>5. CASE EndTask(w) \/ AfterSync(w)
  BY <1>4, <1>5, Ends
<1>6. CASE Move(w, "create")
  <2>1. PICK m : m = Moved(t, "create")
    OBVIOUS
  <2>2. m \in Tasks /\ Knows(m, hub.review, hub.execution) /\ m.pc = "create"
    BY <1>2, <1>3, <2>1, SyncMove
  <2>3. task' = [task EXCEPT ![w] = m]
    BY <1>1, <1>6, <2>1, MoveIs
  <2>4. QED
    BY <1>4, <2>2, <2>3, OnlyTask
<1>7. CASE /\ Len(rows) = 1
           /\ task' = [task EXCEPT ![w].found = Shown(rows[1]),
                 ![w].pc = IF t.how = "sync" /\ Shown(rows[1]) = t.snap.row THEN "lines" ELSE "write"]
  <2>1. PICK pc \in {"lines", "write"} :
           pc = IF t.how = "sync" /\ Shown(rows[1]) = t.snap.row THEN "lines" ELSE "write"
    OBVIOUS
  <2>2. PICK f : f = Found(t, rows[1])
    OBVIOUS
  <2>3. rows[1] \in RowRecords
    <3>1. Len(rows) = 1
      BY <1>7, Zenon
    <3>2. rows \in Seq(RowRecords)
      BY <1>2
    <3>3. 1 \in DOMAIN rows
      BY <3>1, <3>2
    <3>4. QED
      BY <3>2, <3>3
  <2>4. f \in Tasks /\ f.pc = t.pc /\ f.how = t.how /\ f.snap = t.snap /\ f.todo = t.todo
    <3>1. PICK sh : sh = Shown(rows[1])
      OBVIOUS
    <3>2. sh \in {Shown(r) : r \in RowRecords}
      BY <2>3, <3>1
    <3>3. f = [t EXCEPT !.found = sh]
      BY <2>2, <3>1 DEF Found
    <3>4. QED
      BY <1>2, <3>2, <3>3 DEF Tasks
  <2>5. Knows(f, hub.review, hub.execution)
    BY <1>2, <1>3, <2>4 DEF Knows
  <2>6. PICK m : m = Moved(f, pc)
    OBVIOUS
  <2>7. m \in Tasks /\ Knows(m, hub.review, hub.execution) /\ m.pc = pc
    BY <1>3, <2>4, <2>5, <2>6, SyncMove
  <2>8. task' = [task EXCEPT ![w] = m]
    BY <1>1, <1>2, <1>7, <2>1, <2>2, <2>6 DEF Moved, Found
  <2>9. QED
    BY <1>4, <2>7, <2>8, OnlyTask
<1>8. QED
  BY <1>1, <1>5, <1>6, <1>7 DEF Lookup

-----------------------------------------------------------------------------
(* The rows. *)

\* A row that may stand on the workbench after the step.
GoodRow(r) ==
    /\ r \in RowRecords
    /\ RowOf(r, hub'.review, hub'.execution)
    /\ r.ready => r.entry \in Entries

\* The rows that a step does not touch stay good.
LEMMA OldRows ==
    ASSUME ProjectionInv, HubNext
    PROVE  rows \in Seq(RowRecords) /\ \A i \in DOMAIN rows : GoodRow(rows[i])
<1>1. rows \in Seq(RowRecords)
  BY DEF ProjectionInv, ProjectionTypes
<1>2. SUFFICES ASSUME NEW i \in DOMAIN rows
               PROVE  GoodRow(rows[i])
  BY <1>1
<1>3. rows[i] \in RowRecords
  BY <1>1
<1>4. RowOf(rows[i], hub.review, hub.execution) /\ (rows[i].ready => rows[i].entry \in Entries)
  BY DEF ProjectionInv, Entered
<1>5. RowOf(rows[i], hub'.review, hub'.execution)
  BY <1>3, <1>4, RowStays DEF HubNext
<1>6. QED
  BY <1>3, <1>4, <1>5 DEF GoodRow

\* A good row may be added,
LEMMA RowAppended ==
    ASSUME ProjectionInv, HubNext, NEW r, GoodRow(r), rows' = Append(rows, r)
    PROVE  RowsNext
<1>1. rows \in Seq(RowRecords) /\ r \in RowRecords
  BY OldRows DEF GoodRow
<1>2. rows' \in Seq(RowRecords) /\ DOMAIN rows' = DOMAIN rows \cup {Len(rows) + 1}
      /\ rows'[Len(rows) + 1] = r /\ \A i \in DOMAIN rows : rows'[i] = rows[i]
  BY <1>1
<1>3. \A i \in DOMAIN rows' : GoodRow(rows'[i])
  BY <1>2, OldRows
<1>4. QED
  BY <1>2, <1>3 DEF RowsNext, GoodRow

\* or take the place of a row whose entry it keeps.
LEMMA RowChanged ==
    ASSUME ProjectionInv, HubNext, NEW n, NEW r, rows' = [rows EXCEPT ![n] = r],
           n \in DOMAIN rows => GoodRow(r) /\ (rows[n].entry \in Entries => r.entry \in Entries)
    PROVE  RowsNext
<1>1. rows \in Seq(RowRecords)
  BY OldRows
<1>2. DOMAIN rows' = DOMAIN rows /\ \A i \in DOMAIN rows : rows'[i] = IF i = n THEN r ELSE rows[i]
  BY <1>1
<1>3. \A i \in DOMAIN rows' : GoodRow(rows'[i])
  BY <1>2, OldRows
<1>4. rows' \in Seq(RowRecords)
  <2>1. CASE n \in DOMAIN rows
    <3>1. r \in RowRecords
      BY <2>1 DEF GoodRow
    <3>2. QED
      BY <1>1, <2>1, <3>1
  <2>2. CASE n \notin DOMAIN rows
    <3>1. rows' = rows
      BY <1>1, <2>2
    <3>2. QED
      BY <1>1, <3>1
  <2>3. QED
    BY <2>1, <2>2
<1>5. QED
  BY <1>2, <1>3, <1>4 DEF RowsNext, GoodRow

\* No process moves.
LEMMA SameTasks ==
    ASSUME ProjectionInv, HubNext, RowsNext, task' = task
    PROVE  \E w \in Syncers : \E t : TaskNext(w, t)
<1>1. PICK w \in Syncers : w = Ticker
  BY ProjectionAssumption
<1>2. task[w] \in Tasks /\ Knows(task[w], hub'.review, hub'.execution)
  BY TaskFacts, KnowledgeStays DEF HubNext
<1>3. task' = [task EXCEPT ![w] = task[w]]
  BY TaskFacts
<1>4. task[w].pc = "allocations" => task[w].row \in DOMAIN rows' /\ rows'[task[w].row].entry \in Entries
  BY DEF ProjectionInv, RowsKnown, RowsNext
<1>5. TaskNext(w, task[w])
  BY <1>2, <1>3, <1>4 DEF TaskNext
<1>6. QED
  BY <1>5

\* What a snapshot says of the history it was taken from.
Committed(s, h, x) ==
    /\ s.row \in ShownRecords
    /\ s.row.version <= Len(h)
    /\ \E v \in DOMAIN h : h[v].status = s.row.status
    /\ s.row.executed => x = "COMPLETED"
    /\ \A l \in s.lines.rows :
         /\ l \in LinesShown /\ l.version \in DOMAIN h /\ l.state \in ProductLineMatchState
         /\ l \in Snapshot(Until(h, l.version), "none").lines.rows

\* A snapshot of an earlier version shows nothing that is not committed.
LEMMA TakenFacts ==
    ASSUME NEW s, NEW h \in Histories, NEW x, Taken(s, h, x)
    PROVE  Committed(s, h, x)
<1>1. PICK v \in DOMAIN h, y \in Executions :
         s = Snapshot(Until(h, v), y) /\ (y = "COMPLETED" => x = "COMPLETED")
  BY DEF Taken
<1>2. PICK k : k = Until(h, v)
  OBVIOUS
<1>3. k \in Histories /\ Len(k) = v /\ k[v] = h[v] /\ v \in 1..MaxVersion
  BY <1>2, UntilFacts
<1>4. SnapshotOf(s, k, y)
  BY <1>1, <1>2, <1>3, SnapshotFacts
<1>5. v <= Len(h)
  BY DEF Histories
<1>6. /\ s.row \in ShownRecords /\ s.row.version = v /\ s.row.status = h[v].status
      /\ s.row.executed => y = "COMPLETED"
  BY <1>3, <1>4 DEF SnapshotOf
<1>7. \A l \in s.lines.rows :
        /\ l \in LinesShown /\ l.version = v /\ l.state \in ProductLineMatchState
        /\ l \in Snapshot(Until(h, v), "none").lines.rows
  BY <1>2, <1>3, <1>4 DEF SnapshotOf
<1>8. QED
  BY <1>1, <1>5, <1>6, <1>7 DEF Committed

\* Nor does a row that is created from it.
LEMMA NewRowFacts ==
    ASSUME NEW t, NEW h \in Histories, NEW x, Committed(t.snap, h, x)
    PROVE  /\ NewRow(t) \in RowRecords /\ RowOf(NewRow(t), h, x)
           /\ NewRow(t).ready = FALSE
<1>1. PICK s : s = t.snap.row
  OBVIOUS
<1>2. /\ s \in ShownRecords /\ s.version <= Len(h) /\ \E v \in DOMAIN h : h[v].status = s.status
      /\ s.executed => x = "COMPLETED"
  BY <1>1 DEF Committed
<1>3. PICK whole \in BOOLEAN : whole = (t.how # "publish")
  OBVIOUS
<1>a. PICK exec \in BOOLEAN : exec = (whole /\ s.executed)
  BY <1>2, <1>3
<1>b. PICK act : act = IF whole THEN s.action ELSE ""
  OBVIOUS
<1>c. PICK msg : msg = IF whole THEN s.message ELSE "none"
  OBVIOUS
<1>4. act \in NextActions \cup {""} /\ msg \in Executions /\ (exec => x = "COMPLETED")
  BY <1>2, <1>a, <1>b, <1>c DEF ShownRecords, Executions
<1>5. PICK r : r = NewRow(t)
  OBVIOUS
<1>6. r = [version |-> s.version, status |-> s.status, workflow |-> s.workflow, action |-> act,
           executed |-> exec, message |-> msg, ready |-> FALSE, entry |-> <<>>, seen |-> 0,
           key |-> NoCandidate, taken |-> NoCandidate]
  BY <1>1, <1>3, <1>a, <1>b, <1>c, <1>5 DEF NewRow
<1>7. /\ s.version \in 0..MaxVersion /\ 0 \in 0..MaxVersion /\ s.status \in Statuses
      /\ s.workflow \in {q.row.workflow : q \in Snapshots}
      /\ NoCandidate \in Candidates /\ NoCandidate.ok = FALSE
  BY <1>2, ProjectionAssumption DEF ShownRecords, Candidates, NoCandidate
<1>8. r \in RowRecords
  BY <1>4, <1>6, <1>7 DEF RowRecords
<1>9. RowOf(r, h, x) /\ r.ready = FALSE
  BY <1>2, <1>4, <1>6, <1>7 DEF RowOf
<1>10. QED
  BY <1>5, <1>8, <1>9

\* A writer of rows goes on with the lines, or is done.
LEMMA AfterRow ==
    ASSUME ProjectionInv, HubNext, hub' = hub, NEW w \in Syncers,
           task[w].pc \in {"create", "write"}, Move(w, "lines") \/ EndTask(w)
    PROVE  \E t : TaskNext(w, t)
<1>1. CASE EndTask(w)
  BY <1>1, DoneTask
<1>2. CASE Move(w, "lines")
  <2>1. PICK t : t = task[w]
    OBVIOUS
  <2>2. t \in Tasks /\ Knows(t, hub.review, hub.execution) /\ t.pc \in {"create", "write"}
    BY <2>1, TaskFacts
  <2>3. t.todo = {} /\ Taken(t.snap, hub.review, hub.execution)
    BY <2>2 DEF Knows
  <2>4. PICK m : m = Moved(t, "lines")
    OBVIOUS
  <2>5. m \in Tasks /\ Knows(m, hub.review, hub.execution) /\ m.pc = "lines"
    BY <2>2, <2>3, <2>4, SyncMove
  <2>6. task' = [task EXCEPT ![w] = m]
    BY <1>2, <2>1, <2>4, MoveIs
  <2>7. TaskNext(w, m)
    BY <2>5, <2>6 DEF TaskNext
  <2>8. QED
    BY <2>7
<1>3. QED
  BY <1>1, <1>2

\* CreateRow adds such a row.
LEMMA CreateRowStep ==
    ASSUME ProjectionInv, NEW w \in Syncers, CreateRow(w)
    PROVE  ProjectionInv'
<1>1. hub' = hub /\ lines' = lines /\ events' = events /\ task[w].pc = "create"
  BY DEF CreateRow, Doing
<1>2. HubNext /\ events' \in 0..MaxEvents
  BY <1>1, HubStays, SameEvents
<1>3. LinesNext
  BY <1>1, <1>2, LinesStay
<1>4. Committed(task[w].snap, hub.review, hub.execution) /\ hub.review \in Histories
  <2>1. Taken(task[w].snap, hub.review, hub.execution)
    BY <1>1, TaskFacts DEF Knows
  <2>2. QED
    BY <2>1, TaskFacts, TakenFacts
<1>5. PICK r : r = NewRow(task[w])
  OBVIOUS
<1>6. GoodRow(r)
  BY <1>1, <1>4, <1>5, NewRowFacts DEF GoodRow
<1>7. rows' = Append(rows, r)
  BY <1>5 DEF CreateRow
<1>8. RowsNext
  BY <1>2, <1>6, <1>7, RowAppended
<1>9. Move(w, "lines") \/ EndTask(w)
  BY DEF CreateRow
<1>10. PICK t : TaskNext(w, t)
  BY <1>1, <1>2, <1>9, AfterRow
<1>11. QED
  BY <1>2, <1>3, <1>8, <1>10, Frame

\* What a writer sets is committed, whichever fields it chooses.
LEMMA WrittenRowFacts ==
    ASSUME NEW t, NEW h \in Histories, NEW x, Committed(t.snap, h, x),
           t.how = "execution" => x = "COMPLETED", NEW r \in RowRecords, RowOf(r, h, x)
    PROVE  /\ WrittenRow(r, t) \in RowRecords /\ RowOf(WrittenRow(r, t), h, x)
           /\ WrittenRow(r, t).ready = r.ready /\ WrittenRow(r, t).entry = r.entry
<1>1. PICK s : s = t.snap.row
  OBVIOUS
<1>2. /\ s \in ShownRecords /\ s.version <= Len(h) /\ \E v \in DOMAIN h : h[v].status = s.status
      /\ s.executed => x = "COMPLETED"
  BY <1>1 DEF Committed
<1>3. PICK u : u = RowValues(t)
  OBVIOUS
<1>4. /\ u \in ShownRecords /\ u.version <= Len(h) /\ \E v \in DOMAIN h : h[v].status = u.status
      /\ u.executed => x = "COMPLETED"
  <2>1. CASE t.how = "execution"
    <3>1. u = [s EXCEPT !.executed = TRUE]
      BY <1>1, <1>3, <2>1 DEF RowValues
    <3>2. u \in ShownRecords /\ u.version = s.version /\ u.status = s.status
      BY <1>2, <3>1 DEF ShownRecords
    <3>3. QED
      BY <1>2, <2>1, <3>2
  <2>2. CASE t.how # "execution"
    BY <1>1, <1>2, <1>3, <2>2 DEF RowValues
  <2>3. QED
    BY <2>1, <2>2
<1>5. PICK W : W = WrittenFields(t)
  OBVIOUS
<1>6. W \subseteq Fields
  BY <1>5 DEF WrittenFields, Fields, ExecutionFields, PublishFields
<1>7. PICK n : n = WrittenRow(r, t)
  OBVIOUS
<1>8. DOMAIN n = DOMAIN r /\ \A f \in DOMAIN r : n[f] = IF f \in W THEN u[f] ELSE r[f]
  BY <1>3, <1>5, <1>7 DEF WrittenRow
<1>9. DOMAIN r = {"version", "status", "workflow", "action", "executed", "message", "ready", "entry",
                  "seen", "key", "taken"}
  BY DEF RowRecords
<1>10. /\ n = [f \in DOMAIN n |-> n[f]]
       /\ n.version \in {u.version, r.version} /\ n.status \in {u.status, r.status}
       /\ n.workflow \in {u.workflow, r.workflow} /\ n.action \in {u.action, r.action}
       /\ n.executed \in {u.executed, r.executed} /\ n.message \in {u.message, r.message}
       /\ n.ready = r.ready /\ n.entry = r.entry /\ n.seen = r.seen /\ n.key = r.key /\ n.taken = r.taken
  <2>1. n = [f \in DOMAIN n |-> n[f]]
    BY <1>7 DEF WrittenRow
  <2>2. QED
    BY <1>6, <1>8, <1>9, <2>1 DEF Fields
<1>11. n \in RowRecords
  <2>1. /\ u.version \in 0..MaxVersion /\ u.status \in Statuses
        /\ u.workflow \in {q.row.workflow : q \in Snapshots} /\ u.action \in NextActions
        /\ u.executed \in BOOLEAN /\ u.message \in Executions
    BY <1>4 DEF ShownRecords
  <2>2. /\ n.version \in 0..MaxVersion /\ n.status \in Statuses \cup {""}
        /\ n.workflow \in {q.row.workflow : q \in Snapshots} \cup {""}
        /\ n.action \in NextActions \cup {""} /\ n.executed \in BOOLEAN /\ n.message \in Executions
        /\ n.ready \in BOOLEAN /\ n.entry \in Entries \cup {<<>>} /\ n.seen \in 0..MaxVersion
        /\ n.key \in Candidates /\ n.taken \in Candidates
    BY <1>10, <2>1 DEF RowRecords
  <2>3. n = [version |-> n.version, status |-> n.status, workflow |-> n.workflow, action |-> n.action,
             executed |-> n.executed, message |-> n.message, ready |-> n.ready, entry |-> n.entry,
             seen |-> n.seen, key |-> n.key, taken |-> n.taken]
    BY <1>8, <1>9, <1>10
  <2>4. QED
    BY <2>2, <2>3 DEF RowRecords
<1>12. RowOf(n, h, x)
  BY <1>4, <1>10 DEF RowOf
<1>13. QED
  BY <1>7, <1>10, <1>11, <1>12

\* WriteRow mixes committed fields, whichever row it finds.
LEMMA WriteRowStep ==
    ASSUME ProjectionInv, NEW w \in Syncers, WriteRow(w)
    PROVE  ProjectionInv'
<1>1. hub' = hub /\ lines' = lines /\ events' = events /\ task[w].pc = "write"
  BY DEF WriteRow, Doing
<1>2. HubNext /\ events' \in 0..MaxEvents
  BY <1>1, HubStays, SameEvents
<1>3. LinesNext
  BY <1>1, <1>2, LinesStay
<1>4. /\ Committed(task[w].snap, hub.review, hub.execution) /\ hub.review \in Histories
      /\ task[w].how = "execution" => hub.execution = "COMPLETED"
  <2>1. /\ Taken(task[w].snap, hub.review, hub.execution)
        /\ task[w].how = "execution" => hub.execution = "COMPLETED"
    BY <1>1, TaskFacts DEF Knows
  <2>2. QED
    BY <2>1, TaskFacts, TakenFacts
<1>5. PICK r : r = WrittenRow(rows[1], task[w])
  OBVIOUS
<1>6. 1 \in DOMAIN rows => GoodRow(r) /\ (rows[1].entry \in Entries => r.entry \in Entries)
  <2> SUFFICES ASSUME 1 \in DOMAIN rows
               PROVE  GoodRow(r) /\ (rows[1].entry \in Entries => r.entry \in Entries)
    OBVIOUS
  <2>1. GoodRow(rows[1])
    BY <1>2, OldRows
  <2>2. /\ rows[1] \in RowRecords /\ RowOf(rows[1], hub.review, hub.execution)
        /\ rows[1].ready => rows[1].entry \in Entries
    BY <1>1, <2>1 DEF GoodRow
  <2>3. r \in RowRecords /\ RowOf(r, hub.review, hub.execution) /\ r.ready = rows[1].ready /\ r.entry = rows[1].entry
    BY <1>4, <1>5, <2>2, WrittenRowFacts
  <2>4. QED
    BY <1>1, <2>2, <2>3 DEF GoodRow
<1>7. rows' = [rows EXCEPT ![1] = r]
  BY <1>5 DEF WriteRow
<1>8. RowsNext
  BY <1>2, <1>6, <1>7, RowChanged
<1>9. Move(w, "lines") \/ EndTask(w)
  BY DEF WriteRow
<1>10. PICK t : TaskNext(w, t)
  BY <1>1, <1>2, <1>9, AfterRow
<1>11. QED
  BY <1>2, <1>3, <1>8, <1>10, Frame

\* The row with the entry of the operator.
EnteredRow(r, e) ==
    [[[[r EXCEPT !.ready = TRUE] EXCEPT !.entry = e] EXCEPT !.seen = r.version] EXCEPT !.taken = NoCandidate]

\* Enter: the operator changes his own fields only.
LEMMA EnterStep ==
    ASSUME ProjectionInv, NEW i \in DOMAIN rows, NEW e \in Entries, Enter(i, e)
    PROVE  ProjectionInv'
<1>1. hub' = hub /\ lines' = lines /\ task' = task
  BY DEF Enter
<1>2. HubNext /\ events' \in 0..MaxEvents
  BY <1>1, HubStays, NewEvent DEF Enter
<1>3. LinesNext
  BY <1>1, <1>2, LinesStay
<1>4. PICK r, n : r = rows[i] /\ n = EnteredRow(r, e)
  OBVIOUS
<1>5. GoodRow(r)
  BY <1>2, <1>4, OldRows
<1>6. /\ n \in RowRecords /\ n.entry = e
      /\ n.version = r.version /\ n.status = r.status /\ n.executed = r.executed /\ n.key = r.key
  <2>1. PICK c \in Candidates : c = NoCandidate
    BY DEF Candidates
  <2>2. PICK a \in RowRecords : a = r
    BY <1>5 DEF GoodRow
  <2>3. n = [[[[a EXCEPT !.ready = TRUE] EXCEPT !.entry = e] EXCEPT !.seen = a.version] EXCEPT !.taken = c]
    BY <1>4, <2>1, <2>2 DEF EnteredRow
  <2>4. QED
    BY <2>2, <2>3 DEF RowRecords
<1>7. GoodRow(n)
  BY <1>5, <1>6 DEF GoodRow, RowOf
<1>8. rows' = [rows EXCEPT ![i] = n]
  <2>1. rows \in Seq(RowRecords)
    BY <1>2, OldRows
  <2>2. QED
    BY <1>4, <2>1 DEF Enter, EnteredRow
<1>9. RowsNext
  BY <1>2, <1>6, <1>7, <1>8, RowChanged
<1>10. PICK w \in Syncers : \E t : TaskNext(w, t)
  BY <1>1, <1>2, <1>9, SameTasks
<1>11. QED
  BY <1>2, <1>3, <1>9, <1>10, Frame

-----------------------------------------------------------------------------
(* The product lines. *)

\* A plan creates and updates what the snapshot shows.
LEMMA PlanFacts ==
    ASSUME NEW desired, desired \subseteq LinesShown, lines \in Seq(LineRecords)
    PROVE  \A step \in PlanLines(desired) :
              step \in Steps /\ (step.op # "deactivate" => step.line \in desired)
<1> SUFFICES ASSUME NEW step \in PlanLines(desired)
             PROVE  step \in Steps /\ (step.op # "deactivate" => step.line \in desired)
  OBVIOUS
<1>1. CASE \E d \in desired : step = [op |-> "create", line |-> d, at |-> 0]
  <2>1. PICK d \in desired : step = [op |-> "create", line |-> d, at |-> 0]
    BY <1>1
  <2>2. QED
    BY <2>1 DEF Steps
<1>2. CASE \E d \in desired : \E i \in DOMAIN lines : step = [op |-> "update", line |-> d, at |-> i]
  <2>1. PICK d \in desired, i \in DOMAIN lines : step = [op |-> "update", line |-> d, at |-> i]
    BY <1>2
  <2>2. i \in Nat
    OBVIOUS
  <2>3. QED
    BY <2>1, <2>2 DEF Steps
<1>3. CASE \E i \in DOMAIN lines : step = [op |-> "deactivate", line |-> lines[i], at |-> i]
  <2>1. PICK i \in DOMAIN lines : step = [op |-> "deactivate", line |-> lines[i], at |-> i]
    BY <1>3
  <2>2. i \in Nat /\ lines[i] \in LineRecords
    OBVIOUS
  <2>3. QED
    BY <2>1, <2>2 DEF Steps
<1> DEFINE created == {[op |-> "create", line |-> d, at |-> 0] : d \in {e \in desired : OfKey(e.key) = {}}}
           updated(d) == {[op |-> "update", line |-> d, at |-> i] : i \in {j \in OfKey(d.key) : Differs(d, j)}}
           dropped == {[op |-> "deactivate", line |-> lines[i], at |-> i] : i \in Surplus(desired)}
           updates == {updated(d) : d \in desired}
<1>a. PlanLines(desired) = created \cup (UNION updates) \cup dropped
  BY DEF PlanLines
<1>d. \A u \in updates : \E d \in desired : u = updated(d)
  OBVIOUS
<1>b. /\ step \in created => \E d \in desired : step = [op |-> "create", line |-> d, at |-> 0]
      /\ \A d \in desired : step \in updated(d) =>
            \E i \in OfKey(d.key) : step = [op |-> "update", line |-> d, at |-> i]
      /\ step \in dropped => \E i \in Surplus(desired) : step = [op |-> "deactivate", line |-> lines[i], at |-> i]
  OBVIOUS
<1> HIDE DEF created, updated, updates, dropped
<1>e. step \in created \/ (\E u \in updates : step \in u) \/ step \in dropped
  <2>1. step \in PlanLines(desired)
    OBVIOUS
  <2>2. step \in created \cup (UNION updates) \cup dropped
    BY <1>a, <2>1, Zenon
  <2>3. QED
    BY <2>2, Zenon
<1>c. step \in created \/ (\E d \in desired : step \in updated(d)) \/ step \in dropped
  BY <1>d, <1>e, Zenon
<1>4. \/ \E d \in desired : step = [op |-> "create", line |-> d, at |-> 0]
      \/ \E d \in desired : \E i \in OfKey(d.key) : step = [op |-> "update", line |-> d, at |-> i]
      \/ \E i \in Surplus(desired) : step = [op |-> "deactivate", line |-> lines[i], at |-> i]
  BY <1>b, <1>c, Zenon
<1>5. (\A k : OfKey(k) \subseteq DOMAIN lines) /\ Surplus(desired) \subseteq DOMAIN lines
  BY DEF OfKey, Surplus
<1>6. QED
  BY <1>1, <1>2, <1>3, <1>4, <1>5, Zenon

\* A process has planned what to do.
Planned(t, plan) == [[t EXCEPT !.pc = "line"] EXCEPT !.todo = plan]

\* ReadLines: what is planned is of the snapshot.
LEMMA ReadLinesStep ==
    ASSUME ProjectionInv, NEW w \in Syncers, ReadLines(w)
    PROVE  ProjectionInv'
<1>1. PICK t, plan : t = task[w] /\ plan = PlanLines(task[w].snap.lines.rows)
  OBVIOUS
<1>2. /\ t \in Tasks /\ Knows(t, hub.review, hub.execution) /\ t.pc = "lines"
      /\ task \in [Syncers -> Tasks] /\ hub.review \in Histories /\ lines \in Seq(LineRecords)
  BY <1>1, TaskFacts DEF ReadLines, Doing
<1>3. Taken(t.snap, hub.review, hub.execution)
  BY <1>2 DEF Knows
<1>4. UNCHANGED <<hub, rows, lines>> /\ events' \in 0..MaxEvents
  BY SameEvents DEF ReadLines
<1>5. CASE AfterSync(w)
  BY <1>4, <1>5, Ends
<1>6. CASE task' = [task EXCEPT ![w].pc = "line", ![w].todo = plan]
  <2>1. PICK m : m = Planned(t, plan)
    OBVIOUS
  <2>2. t.snap.lines.rows \subseteq LinesShown
    <3>1. Committed(t.snap, hub.review, hub.execution)
      BY <1>2, <1>3, TakenFacts
    <3>2. QED
      BY <3>1 DEF Committed
  <2>3. \A step \in plan : step \in Steps /\ (step.op # "deactivate" => step.line \in t.snap.lines.rows)
    BY <1>1, <1>2, <2>2, PlanFacts
  <2>4. plan \in SUBSET Steps
    BY <2>3
  <2>5. m \in Tasks /\ m.pc = "line" /\ m.todo = plan /\ m.how = t.how /\ m.snap = t.snap
    BY <1>2, <2>1, <2>4 DEF Planned, Tasks
  <2>6. Knows(m, hub.review, hub.execution)
    BY <1>2, <1>3, <2>3, <2>5 DEF Knows
  <2>7. task' = [task EXCEPT ![w] = m]
    BY <1>1, <1>2, <1>6, <2>1 DEF Planned
  <2>8. QED
    BY <1>4, <2>5, <2>6, <2>7, OnlyTask
<1>7. QED
  BY <1>1, <1>5, <1>6 DEF ReadLines

\* A line row that shows committed state may be added,
LEMMA LineAppended ==
    ASSUME ProjectionInv, HubNext, NEW l \in LineRecords, LineOf(l, hub'.review), lines' = Append(lines, l)
    PROVE  LinesNext
<1>1. lines \in Seq(LineRecords) /\ \A i \in DOMAIN lines : LineOf(lines[i], hub'.review)
  <2>1. lines \in Seq(LineRecords) /\ \A i \in DOMAIN lines : lines[i] \in LineRecords
    BY DEF ProjectionInv, ProjectionTypes
  <2>2. QED
    BY <2>1, LineStays DEF ProjectionInv, HubNext
<1>2. lines' \in Seq(LineRecords) /\ DOMAIN lines' = DOMAIN lines \cup {Len(lines) + 1}
      /\ lines'[Len(lines) + 1] = l /\ \A i \in DOMAIN lines : lines'[i] = lines[i]
  BY <1>1
<1>3. QED
  BY <1>1, <1>2 DEF LinesNext

\* or take the place of another.
LEMMA LineChanged ==
    ASSUME ProjectionInv, HubNext, NEW n, NEW l, lines' = [lines EXCEPT ![n] = l],
           n \in DOMAIN lines => l \in LineRecords /\ LineOf(l, hub'.review)
    PROVE  LinesNext
<1>1. lines \in Seq(LineRecords) /\ \A i \in DOMAIN lines : LineOf(lines[i], hub'.review)
  <2>1. lines \in Seq(LineRecords) /\ \A i \in DOMAIN lines : lines[i] \in LineRecords
    BY DEF ProjectionInv, ProjectionTypes
  <2>2. QED
    BY <2>1, LineStays DEF ProjectionInv, HubNext
<1>2. DOMAIN lines' = DOMAIN lines /\ \A i \in DOMAIN lines : lines'[i] = IF i = n THEN l ELSE lines[i]
  BY <1>1
<1>3. lines' \in Seq(LineRecords)
  <2>1. CASE n \in DOMAIN lines
    BY <1>1, <2>1
  <2>2. CASE n \notin DOMAIN lines
    <3>1. lines' = lines
      BY <1>1, <2>2
    <3>2. QED
      BY <1>1, <3>1
  <2>3. QED
    BY <2>1, <2>2
<1>4. QED
  BY <1>1, <1>2, <1>3 DEF LinesNext

\* A line of a snapshot, written, is what the snapshot shows of its version.
LEMMA WrittenLine ==
    ASSUME NEW t, NEW h \in Histories, NEW x, Committed(t.snap, h, x), NEW step,
           step.op # "deactivate", step.line \in t.snap.lines.rows
    PROVE  LineWritten(step) \in LineRecords /\ LineOf(LineWritten(step), h)
<1>1. PICK l : l = step.line
  OBVIOUS
<1>2. /\ l \in LinesShown /\ l.version \in DOMAIN h /\ l.state \in ProductLineMatchState
      /\ l \in Snapshot(Until(h, l.version), "none").lines.rows
  BY <1>1 DEF Committed
<1>3. PICK n : n = LineWritten(step)
  OBVIOUS
<1>4. n = [key |-> l.key, version |-> l.version, supplier |-> l.supplier, state |-> l.state,
           product |-> l.product, hints |-> l.hints, current |-> TRUE]
  BY <1>1, <1>3 DEF LineWritten
<1>5. l.version \in 1..MaxVersion /\ l.version <= Len(h)
  BY <1>2, UntilFacts DEF Histories
<1>6. n \in LineRecords
  BY <1>2, <1>4, <1>5 DEF LineRecords
<1>7. LineOf(n, h)
  <2>1. n.version = l.version /\ \A f \in LineFields : n[f] = l[f]
    BY <1>4 DEF LineFields
  <2>2. QED
    BY <1>2, <1>5, <2>1 DEF LineOf
<1>8. QED
  BY <1>3, <1>6, <1>7

\* A deactivated line shows nothing.
LEMMA DeactivatedLine ==
    ASSUME NEW l \in LineRecords, NEW h, LineOf(l, h)
    PROVE  Deactivated(l) \in LineRecords /\ LineOf(Deactivated(l), h)
<1>1. PICK d : d = [[l EXCEPT !.current = FALSE] EXCEPT !.hints = {}]
  OBVIOUS
<1>2. Deactivated(l) = d
  BY <1>1 DEF Deactivated
<1>3. d \in LineRecords /\ d.current = FALSE /\ d.version = l.version
  BY <1>1 DEF LineRecords
<1>4. LineOf(d, h)
  BY <1>3 DEF LineOf
<1>5. QED
  BY <1>2, <1>3, <1>4

\* A process with a step less to do.
Left(t, step) == [t EXCEPT !.todo = t.todo \ {step}]

\* ApplyLine writes a line of the snapshot, or deactivates one.
LEMMA ApplyLineStep ==
    ASSUME ProjectionInv, NEW w \in Syncers, ApplyLine(w)
    PROVE  ProjectionInv'
<1>1. PICK t : t = task[w]
  OBVIOUS
<1>2. /\ t \in Tasks /\ Knows(t, hub.review, hub.execution) /\ t.pc = "line"
      /\ task \in [Syncers -> Tasks] /\ hub.review \in Histories /\ lines \in Seq(LineRecords)
  BY <1>1, TaskFacts DEF ApplyLine, Doing
<1>3. hub' = hub /\ rows' = rows /\ events' = events
  BY DEF ApplyLine
<1>4. HubNext /\ events' \in 0..MaxEvents
  BY <1>3, HubStays, SameEvents
<1>5. RowsNext
  BY <1>3, <1>4, RowsStay
<1>6. /\ Taken(t.snap, hub.review, hub.execution)
      /\ Committed(t.snap, hub.review, hub.execution)
  <2>1. Taken(t.snap, hub.review, hub.execution)
    BY <1>2 DEF Knows
  <2>2. QED
    BY <1>2, <2>1, TakenFacts
<1>7. PICK step \in t.todo :
        /\ IF step.op = "create" THEN lines' = Append(lines, LineWritten(step))
           ELSE lines' = [lines EXCEPT ![step.at] = LineWritten(step)]
        /\ IF t.todo # {step} THEN task' = [task EXCEPT ![w].todo = @ \ {step}] ELSE AfterSync(w)
  BY <1>1 DEF ApplyLine
<1>8. step.op # "deactivate" => step.line \in t.snap.lines.rows
  BY <1>2 DEF Knows
<1>9. LinesNext
  <2>1. PICK n : n = LineWritten(step)
    OBVIOUS
  <2>2. step.op # "deactivate" => n \in LineRecords /\ LineOf(n, hub'.review)
    BY <1>2, <1>3, <1>6, <1>8, <2>1, WrittenLine
  <2>3. CASE step.op = "create"
    <3>1. n \in LineRecords /\ LineOf(n, hub'.review) /\ lines' = Append(lines, n)
      BY <1>7, <2>1, <2>2, <2>3
    <3>2. QED
      BY <1>4, <3>1, LineAppended
  <2>4. CASE step.op # "create"
    <3>1. lines' = [lines EXCEPT ![step.at] = n]
      BY <1>7, <2>1, <2>4
    <3>2. ASSUME step.at \in DOMAIN lines, step.op = "deactivate"
          PROVE  n \in LineRecords /\ LineOf(n, hub'.review)
      <4>1. n = Deactivated(lines[step.at])
        BY <2>1, <3>2 DEF LineWritten
      <4>2. lines[step.at] \in LineRecords /\ LineOf(lines[step.at], hub'.review)
        BY <1>2, <1>3, <3>2 DEF ProjectionInv
      <4>3. QED
        BY <4>1, <4>2, DeactivatedLine
    <3>3. step.at \in DOMAIN lines => n \in LineRecords /\ LineOf(n, hub'.review)
      BY <2>2, <3>2
    <3>4. QED
      BY <1>4, <3>1, <3>3, LineChanged
  <2>5. QED
    BY <2>3, <2>4
<1>10. \E u : TaskNext(w, u)
  <2>1. CASE t.todo = {step}
    <3>1. AfterSync(w)
      BY <1>7, <2>1
    <3>2. QED
      BY <1>4, <3>1, SyncedTask
  <2>2. CASE t.todo # {step}
    <3>1. PICK m : m = Left(t, step)
      OBVIOUS
    <3>2. m \in Tasks /\ m.todo = t.todo \ {step} /\ m.pc = t.pc /\ m.how = t.how /\ m.snap = t.snap
      BY <1>2, <3>1 DEF Left, Tasks
    <3>3. Knows(m, hub.review, hub.execution)
      BY <1>2, <1>6, <3>2 DEF Knows
    <3>4. task' = [task EXCEPT ![w] = m]
      BY <1>1, <1>2, <1>7, <2>2, <3>1 DEF Left
    <3>5. TaskNext(w, m)
      BY <1>2, <1>3, <3>2, <3>3, <3>4 DEF TaskNext
    <3>6. QED
      BY <3>5
  <2>3. QED
    BY <2>1, <2>2
<1>11. QED
  BY <1>4, <1>5, <1>9, <1>10, Frame

-----------------------------------------------------------------------------
(* Decisions. *)

\* What an ingestion has read of the row i: everything but the allocations.
Reading(i, via, r) ==
    [[[[[Free EXCEPT !.pc = "allocations"] EXCEPT !.row = i] EXCEPT !.via = via]
        EXCEPT !.entry = Parent(r.entry)] EXCEPT !.candidate = [version |-> r.version, seen |-> r.seen]]

\* IngestRead: through the button, the version read is the version shown.
LEMMA IngestReadStep ==
    ASSUME ProjectionInv, NEW w \in Syncers, NEW via \in {"legacy", "request"}, IngestRead(w, via)
    PROVE  ProjectionInv'
<1>1. PICK i \in DOMAIN rows :
        /\ rows[i].ready /\ VersionSeen(rows[i], via)
        /\ task' = [task EXCEPT ![w] = [Free EXCEPT !.pc = "allocations", !.row = i, !.via = via,
                       !.entry = [rows[i].entry EXCEPT !.allocations = <<>>],
                       !.candidate = [version |-> rows[i].version, seen |-> rows[i].seen]]]
  BY DEF IngestRead
<1>2. UNCHANGED <<hub, rows, lines>> /\ events' \in 0..MaxEvents
  BY SameEvents DEF IngestRead
<1>3. PICK r, m : r = rows[i] /\ m = Reading(i, via, rows[i])
  OBVIOUS
<1>4. r \in RowRecords /\ r.ready /\ r.entry \in Entries /\ VersionSeen(r, via) /\ i \in Nat
  BY <1>1, <1>3, TaskFacts DEF ProjectionInv, Entered
<1>5. PICK a, e : a = [version |-> r.version, seen |-> r.seen] /\ e = Parent(r.entry)
  OBVIOUS
<1>6. a \in [version : 0..MaxVersion, seen : 0..MaxVersion] /\ e \in {Parent(f) : f \in Entries}
  BY <1>4, <1>5 DEF RowRecords
<1>7. /\ m \in Tasks /\ m.pc = "allocations" /\ m.how = "" /\ m.todo = {} /\ m.row = i /\ m.via = via
      /\ m.entry = e /\ m.candidate = a
  <2>1. PICK f \in Tasks : f = Free
    BY FreeTask
  <2>2. f.how = "" /\ f.todo = {}
    BY <2>1 DEF Free
  <2>3. m = [[[[[f EXCEPT !.pc = "allocations"] EXCEPT !.row = i] EXCEPT !.via = via]
                EXCEPT !.entry = e] EXCEPT !.candidate = a]
    BY <1>3, <1>5, <2>1 DEF Reading
  <2>4. via \in Channels
    BY DEF Channels
  <2>5. QED
    BY <1>4, <1>6, <2>2, <2>3, <2>4 DEF Tasks
<1>8. via = "request" => a.version = a.seen
  BY <1>4, <1>5 DEF VersionSeen
<1>9. Knows(m, hub.review, hub.execution)
  BY <1>6, <1>7, <1>8 DEF Knows
<1>10. task' = [task EXCEPT ![w] = m]
  BY <1>1, <1>3 DEF Reading, Parent
<1>11. QED
  BY <1>2, <1>3, <1>4, <1>7, <1>9, <1>10, OnlyTask

\* An ingestion that has understood the candidate c.
Candidating(t, c, e) == [[[t EXCEPT !.pc = "submit"] EXCEPT !.candidate = c] EXCEPT !.entry = e]

\* IngestAllocations: the candidate is of an entry and of the allocations of the same or of a later one.
LEMMA IngestAllocationsStep ==
    ASSUME ProjectionInv, NEW w \in Syncers, IngestAllocations(w)
    PROVE  ProjectionInv'
<1>1. PICK t, c : t = task[w] /\ c = Candidate(task[w].entry, task[w].candidate.version,
                                              rows[task[w].row].entry.allocations)
  OBVIOUS
<1>2. /\ t \in Tasks /\ Knows(t, hub.review, hub.execution) /\ t.pc = "allocations"
      /\ task \in [Syncers -> Tasks]
  BY <1>1, TaskFacts DEF IngestAllocations, Doing
<1>3. UNCHANGED <<hub, rows, lines>> /\ events' \in 0..MaxEvents
  BY SameEvents DEF IngestAllocations
<1>4. CASE EndTask(w)
  BY <1>3, <1>4, Ends
<1>5. CASE /\ c.ok /\ ReferencesValid(c, Erp, Company)
           /\ task' = [task EXCEPT ![w].pc = "submit", ![w].candidate = c,
                                   ![w].entry = [label |-> t.entry.label, seen |-> t.candidate.seen]]
  <2>1. PICK e \in Entries : t.entry = Parent(e)
    BY <1>2 DEF Knows
  <2>2. /\ t.candidate \in [version : 0..MaxVersion, seen : 0..MaxVersion] /\ t.todo = {}
        /\ t.via = "request" => t.candidate.version = t.candidate.seen
        /\ t.how = "execution" => hub.execution = "COMPLETED"
    BY <1>2 DEF Knows
  <2>3. PICK f \in Entries : f = rows[t.row].entry
    BY <1>1, <1>2 DEF ProjectionInv, RowsKnown
  <2>4. PICK v \in 0..MaxVersion : v = t.candidate.version
    BY <2>2
  <2>5. c = Candidate(Parent(e), v, f.allocations)
    BY <1>1, <2>1, <2>3, <2>4
  <2>6. t.entry.label = e.label
    BY <2>1, ParentFields
  <2>7. c \in Candidates /\ Submittable(c, e.label)
    BY <1>5, <2>5 DEF Candidates, Submittable
  <2>8. c.version = v
    <3>1. PICK p, a : p = Parent(e) /\ a = f.allocations
      OBVIOUS
    <3>2. Read(c, p, v, a)
      BY <1>5, <2>5, <3>1 DEF Read
    <3>3. Understood(c, p, v, a)
      BY <3>2, CandidateFacts
    <3>4. QED
      BY <3>3 DEF Understood
  <2>9. PICK n : n = [label |-> t.entry.label, seen |-> t.candidate.seen]
    OBVIOUS
  <2>10. /\ n \in [label : {g.label : g \in Entries}, seen : 0..MaxVersion]
         /\ n.label = e.label /\ n.seen = t.candidate.seen
    <3>1. n = [label |-> e.label, seen |-> t.candidate.seen] /\ t.candidate.seen \in 0..MaxVersion
      BY <2>2, <2>6, <2>9
    <3>2. QED
      BY <3>1
  <2>11. PICK m : m = Candidating(t, c, n)
    OBVIOUS
  <2>12. /\ m \in Tasks /\ m.pc = "submit" /\ m.candidate = c /\ m.entry = n /\ m.how = t.how
         /\ m.todo = t.todo /\ m.via = t.via /\ m.snap = t.snap
    BY <1>2, <2>7, <2>10, <2>11 DEF Candidating, Tasks
  <2>13. Knows(m, hub.review, hub.execution)
    BY <2>2, <2>4, <2>7, <2>8, <2>10, <2>12 DEF Knows
  <2>14. task' = [task EXCEPT ![w] = m]
    BY <1>1, <1>2, <1>5, <2>9, <2>11 DEF Candidating
  <2>15. QED
    BY <1>3, <2>12, <2>13, <2>14, OnlyTask
<1>6. QED
  BY <1>1, <1>4, <1>5 DEF IngestAllocations

\* The Hub commits a version.
LEMMA HubAppends ==
    ASSUME ProjectionInv, NEW r \in Versions, Now < MaxVersion, DecisionOf(r.decision, Now + 1),
           Pending(r) => r.decision = NoDecision, hub' = [hub EXCEPT !.review = Append(hub.review, r)]
    PROVE  HubNext
<1>1. PICK h : h = hub.review
  OBVIOUS
<1>2. h \in Histories /\ hub \in HubRecords /\ Len(h) < MaxVersion
  BY <1>1 DEF ProjectionInv, ProjectionTypes, HubRecords, Now
<1>3. PICK k : k = Append(h, r)
  OBVIOUS
<1>4. Continues(k, h) /\ Len(k) = Len(h) + 1 /\ k[Len(h) + 1] = r
  BY <1>2, <1>3, NextVersion
<1>5. k \in Histories /\ k \in Seq(Versions) /\ Len(h) \in Nat /\ h \in Seq(Versions)
  BY <1>2, <1>4 DEF Continues, Histories
<1>6. hub' \in HubRecords /\ hub'.review = k /\ hub'.execution = hub.execution
  BY <1>1, <1>2, <1>3, <1>5 DEF HubRecords
<1>7. DOMAIN k = DOMAIN h \cup {Len(h) + 1}
  BY <1>4, <1>5
<1>8. \A v \in DOMAIN h : k[v] = h[v]
  BY <1>4 DEF Continues
<1>9. \A v \in DOMAIN h : DecisionOf(h[v].decision, v) /\ (Pending(h[v]) => h[v].decision = NoDecision)
  BY <1>1 DEF ProjectionInv, Undecided
<1>10. \A v \in DOMAIN k : DecisionOf(k[v].decision, v) /\ (Pending(k[v]) => k[v].decision = NoDecision)
  <2> SUFFICES ASSUME NEW v \in DOMAIN k
               PROVE  DecisionOf(k[v].decision, v) /\ (Pending(k[v]) => k[v].decision = NoDecision)
    OBVIOUS
  <2>1. CASE v \in DOMAIN h
    BY <1>8, <1>9, <2>1
  <2>2. CASE v = Len(h) + 1
    BY <1>1, <1>4, <2>2 DEF Now
  <2>3. QED
    BY <1>7, <2>1, <2>2
<1>11. QED
  BY <1>1, <1>4, <1>6, <1>10 DEF HubNext, Later, Undecided

\* A process that is to project what it has committed, or found committed.
Rebuilding(t) == [[t EXCEPT !.pc = "build"] EXCEPT !.how = "sync"]

\* Such a process has nothing left to do from before.
LEMMA RebuildingTask ==
    ASSUME NEW t \in Tasks, t.todo = {}, NEW h, NEW x
    PROVE  Rebuilding(t) \in Tasks /\ Knows(Rebuilding(t), h, x) /\ Rebuilding(t).pc = "build"
<1>1. PICK m : m = Rebuilding(t)
  OBVIOUS
<1>2. m \in Tasks /\ m.pc = "build" /\ m.how = "sync" /\ m.todo = t.todo
  BY <1>1 DEF Rebuilding, Tasks, Ways
<1>3. Knows(m, h, x)
  BY <1>2 DEF Knows
<1>4. QED
  BY <1>1, <1>2, <1>3

\* The version that a decision of t makes of the version r.
DecidedVersion(r, t) ==
    [status |-> IF t.candidate.decision = "dismiss" THEN "DISMISSED" ELSE "DECISION_SUBMITTED",
     facts |-> r.facts,
     decision |-> [ok |-> TRUE, candidate |-> t.candidate, via |-> t.via,
                   label |-> t.entry.label, seen |-> t.entry.seen]]

\* Submit: the version decided on is the current one, so it is the one that was read.
LEMMA SubmitStep ==
    ASSUME ProjectionInv, NEW w \in Syncers, Submit(w)
    PROVE  ProjectionInv'
<1>1. PICK t : t = task[w]
  OBVIOUS
<1>2. /\ t \in Tasks /\ Knows(t, hub.review, hub.execution) /\ t.pc = "submit"
      /\ task \in [Syncers -> Tasks] /\ hub.review \in Histories /\ hub \in HubRecords
  BY <1>1, TaskFacts DEF Submit, Doing
<1>3. /\ t.todo = {} /\ t.entry \in [label : {e.label : e \in Entries}, seen : 0..MaxVersion]
      /\ Submittable(t.candidate, t.entry.label)
      /\ t.via = "request" => t.entry.seen = t.candidate.version
  BY <1>2 DEF Knows
<1>4. lines' = lines /\ events' \in 0..MaxEvents
  BY SameEvents DEF Submit
<1>5. PICK m : m = Rebuilding(t)
  OBVIOUS
<1>6. ASSUME NEW h, NEW x
      PROVE  m \in Tasks /\ Knows(m, h, x) /\ m.pc = "build"
  BY <1>2, <1>3, <1>5, RebuildingTask
<1>7. CASE EndTask(w) /\ UNCHANGED <<hub, rows>>
  BY <1>4, <1>7, Ends
<1>8. CASE task' = [task EXCEPT ![w].pc = "build", ![w].how = "sync"] /\ UNCHANGED <<hub, rows>>
  <2>1. task' = [task EXCEPT ![w] = m]
    BY <1>1, <1>2, <1>5, <1>8 DEF Rebuilding
  <2>2. QED
    BY <1>4, <1>6, <1>8, <2>1, OnlyTask
<1>9. CASE /\ t.via = "request" => V1Supported(t.candidate)
           /\ Pending(Current) /\ t.candidate.version = Now /\ Now < MaxVersion
           /\ hub' = [hub EXCEPT !.review = Append(@,
                  [status |-> IF t.candidate.decision = "dismiss" THEN "DISMISSED" ELSE "DECISION_SUBMITTED",
                   facts |-> Current.facts,
                   decision |-> [ok |-> TRUE, candidate |-> t.candidate, via |-> t.via,
                                 label |-> t.entry.label, seen |-> t.entry.seen]])]
           /\ rows' = [rows EXCEPT ![t.row].taken = IF t.via = "legacy" THEN t.candidate ELSE rows[t.row].taken]
           /\ task' = [task EXCEPT ![w].pc = "build", ![w].how = "sync"]
  <2>1. PICK r, d : /\ r = DecidedVersion(Current, t)
                    /\ d = [ok |-> TRUE, candidate |-> t.candidate, via |-> t.via,
                            label |-> t.entry.label, seen |-> t.entry.seen]
    OBVIOUS
  <2>2. t.candidate \in Candidates
    BY <1>3 DEF Submittable, Candidates
  <2>3. /\ d \in Decisions /\ d.ok /\ d.candidate = t.candidate /\ d.via = t.via
        /\ d.label = t.entry.label /\ d.seen = t.entry.seen
    <3>1. t.via \in Channels
      BY <1>2 DEF Tasks
    <3>2. QED
      BY <1>3, <2>1, <2>2, <3>1 DEF Decisions
  <2>4. r \in Versions /\ r.decision = d /\ ~Pending(r)
    <3>1. Current \in Versions
      BY <1>2, WholeHistory DEF Current, Now, Histories
    <3>2. Current.facts \in UNION Invoices
      BY <3>1 DEF Versions
    <3>3. PICK st \in {"DISMISSED", "DECISION_SUBMITTED"} :
             st = IF t.candidate.decision = "dismiss" THEN "DISMISSED" ELSE "DECISION_SUBMITTED"
      OBVIOUS
    <3>4. r = [status |-> st, facts |-> Current.facts, decision |-> d]
      BY <2>1, <3>3 DEF DecidedVersion
    <3>5. QED
      BY <2>3, <3>2, <3>3, <3>4 DEF Versions, Statuses, Pending
  <2>5. DecisionOf(d, Now + 1)
    <3>1. Now \in Nat
      BY <1>2 DEF Histories, Now
    <3>2. t.via = "request" => t.entry.seen = (Now + 1) - 1
      BY <1>3, <1>9, <3>1
    <3>3. QED
      BY <1>3, <1>9, <2>3, <3>2 DEF DecisionOf
  <2>6. hub' = [hub EXCEPT !.review = Append(hub.review, r)]
    BY <1>9, <2>1 DEF DecidedVersion
  <2>7. HubNext
    BY <1>9, <2>4, <2>5, <2>6, HubAppends
  <2>8. RowsNext
    <3>1. PICK c : c = IF t.via = "legacy" THEN t.candidate ELSE rows[t.row].taken
      OBVIOUS
    <3>2. PICK n : n = [rows[t.row] EXCEPT !.taken = c]
      OBVIOUS
    <3>3. ASSUME t.row \in DOMAIN rows
          PROVE  GoodRow(n) /\ (rows[t.row].entry \in Entries => n.entry \in Entries)
      <4>1. PICK o : o = rows[t.row]
        OBVIOUS
      <4>2. GoodRow(o)
        BY <2>7, <3>3, <4>1, OldRows
      <4>3. o \in RowRecords
        BY <4>2 DEF GoodRow
      <4>4. c \in Candidates
        BY <2>2, <3>1, <4>1, <4>3 DEF RowRecords
      <4>5. /\ n \in RowRecords /\ n.version = o.version /\ n.status = o.status /\ n.executed = o.executed
            /\ n.key = o.key /\ n.ready = o.ready /\ n.entry = o.entry
        BY <3>2, <4>1, <4>3, <4>4 DEF RowRecords
      <4>6. QED
        BY <4>1, <4>2, <4>5 DEF GoodRow, RowOf
    <3>4. rows' = [rows EXCEPT ![t.row] = n]
      BY <1>9, <2>7, <3>1, <3>2, OldRows
    <3>5. QED
      BY <2>7, <3>3, <3>4, RowChanged
  <2>9. LinesNext
    BY <1>4, <2>7, LinesStay
  <2>10. task' = [task EXCEPT ![w] = m]
    BY <1>1, <1>2, <1>5, <1>9 DEF Rebuilding
  <2>11. TaskNext(w, m)
    BY <1>6, <2>10 DEF TaskNext
  <2>12. QED
    BY <1>4, <2>7, <2>8, <2>9, <2>11, Frame
<1>10. QED
  BY <1>1, <1>7, <1>8, <1>9 DEF Submit

\* The row with the acknowledgement of the decision of version v.
AcknowledgedRow(r, v, status, key) ==
    [[[[[r EXCEPT !.version = v] EXCEPT !.status = status] EXCEPT !.key = key]
        EXCEPT !.ready = FALSE] EXCEPT !.taken = NoCandidate]

\* Acknowledge: the row shows the version and the status of its decision.
LEMMA AcknowledgeStep ==
    ASSUME ProjectionInv, NEW w \in Syncers, Acknowledge(w)
    PROVE  ProjectionInv'
<1>1. PICK t : t = task[w]
  OBVIOUS
<1>2. hub' = hub /\ lines' = lines /\ events' = events /\ EndTask(w)
  BY DEF Acknowledge
<1>3. HubNext /\ events' \in 0..MaxEvents
  BY <1>2, HubStays, SameEvents
<1>4. LinesNext
  BY <1>2, <1>3, LinesStay
<1>5. PICK v \in DecidedBy(DecisionKey(t.candidate)) :
         rows' = [rows EXCEPT ![t.row].version = v, ![t.row].status = hub.review[v].status,
                              ![t.row].key = DecisionKey(t.candidate), ![t.row].ready = FALSE,
                              ![t.row].taken = NoCandidate]
  BY <1>1 DEF Acknowledge
<1>6. PICK key, h, st : key = t.candidate /\ h = hub.review /\ st = hub.review[v].status
  OBVIOUS
<1>7. h \in Histories
  BY <1>6, TaskFacts
<1>8. v \in DOMAIN h /\ h[v].decision.ok /\ h[v].decision.candidate = key
  BY <1>5, <1>6 DEF DecidedBy, DecisionKey
<1>9. key \in Candidates /\ st \in Statuses /\ v \in 0..MaxVersion /\ v <= Len(h)
  <2>1. h[v] \in Versions /\ v <= Len(h)
    BY <1>7, <1>8 DEF Histories
  <2>2. h[v].decision \in Decisions /\ h[v].status \in Statuses
    BY <2>1 DEF Versions
  <2>3. key \in Candidates
    <3>1. PICK d \in Decisions : d = h[v].decision
      BY <2>2
    <3>2. d # NoDecision
      BY <1>8, <3>1 DEF NoDecision
    <3>3. d \in [ok : {TRUE}, candidate : Candidates, via : Channels, label : {e.label : e \in Entries},
                 seen : 0..MaxVersion]
      BY <3>2 DEF Decisions
    <3>4. QED
      BY <1>8, <3>1, <3>3
  <2>4. v \in 1..MaxVersion
    BY <1>7, <1>8, UntilFacts
  <2>5. QED
    BY <1>6, <2>1, <2>2, <2>3, <2>4
<1>10. PICK n : n = AcknowledgedRow(rows[t.row], v, st, key)
  OBVIOUS
<1>11. ASSUME t.row \in DOMAIN rows
       PROVE  GoodRow(n) /\ (rows[t.row].entry \in Entries => n.entry \in Entries)
  <2>1. PICK o : o = rows[t.row]
    OBVIOUS
  <2>2. GoodRow(o)
    BY <1>3, <1>11, <2>1, OldRows
  <2>3. PICK no \in Candidates : no = NoCandidate
    BY DEF Candidates
  <2>4. n = [[[[[o EXCEPT !.version = v] EXCEPT !.status = st] EXCEPT !.key = key]
                EXCEPT !.ready = FALSE] EXCEPT !.taken = no]
    BY <1>10, <2>1, <2>3 DEF AcknowledgedRow
  <2>5. o \in RowRecords
    BY <2>2 DEF GoodRow
  <2>6. /\ n \in RowRecords /\ n.version = v /\ n.status = st /\ n.executed = o.executed
        /\ n.key = key /\ n.ready = FALSE /\ n.entry = o.entry
    BY <1>9, <2>4, <2>5 DEF RowRecords
  <2>7. RowOf(o, h, hub.execution)
    BY <1>2, <1>6, <2>2 DEF GoodRow
  <2>8. RowOf(n, h, hub.execution)
    BY <1>6, <1>8, <1>9, <2>6, <2>7 DEF RowOf
  <2>9. QED
    BY <1>2, <1>6, <2>1, <2>6, <2>8 DEF GoodRow
<1>12. rows' = [rows EXCEPT ![t.row] = n]
  BY <1>3, <1>5, <1>6, <1>10, OldRows DEF AcknowledgedRow, DecisionKey
<1>13. RowsNext
  BY <1>3, <1>11, <1>12, RowChanged
<1>14. TaskNext(w, Free)
  BY <1>2, DoneTask
<1>15. QED
  BY <1>3, <1>4, <1>13, <1>14, Frame

\* Reclassified adds a version without a decision.
LEMMA ReclassifiedStep ==
    ASSUME ProjectionInv, NEW w \in Syncers, Reclassified(w)
    PROVE  ProjectionInv'
<1>1. PICK facts \in hub.invoice, how \in {"sync", "republish"} :
        /\ hub' = [hub EXCEPT !.review = Append(@, [Current EXCEPT !.facts = facts])]
        /\ task' = [task EXCEPT ![w] = [Free EXCEPT !.pc = "build", !.how = how]]
  BY DEF Reclassified
<1>2. rows' = rows /\ lines' = lines /\ Pending(Current) /\ Now < MaxVersion /\ events' \in 0..MaxEvents
  BY NewEvent DEF Reclassified
<1>3. hub.review \in Histories /\ hub.invoice \in Invoices
  BY TaskFacts DEF HubRecords
<1>4. PICK c, r : c = Current /\ r = [Current EXCEPT !.facts = facts]
  OBVIOUS
<1>5. c \in Versions /\ c.decision = NoDecision
  <2>1. Now \in DOMAIN hub.review
    BY <1>3, WholeHistory DEF Now
  <2>2. c \in Versions
    BY <1>3, <1>4, <2>1 DEF Histories, Current
  <2>3. Undecided(hub.review)
    BY DEF ProjectionInv
  <2>4. QED
    BY <1>2, <1>4, <2>1, <2>2, <2>3 DEF Undecided, Current
<1>6. r \in Versions /\ r.decision = NoDecision
  <2>1. facts \in UNION Invoices
    BY <1>3
  <2>2. QED
    BY <1>4, <1>5, <2>1 DEF Versions
<1>7. DecisionOf(r.decision, Now + 1)
  BY <1>6 DEF DecisionOf, NoDecision
<1>8. hub' = [hub EXCEPT !.review = Append(hub.review, r)]
  BY <1>1, <1>4
<1>9. HubNext
  BY <1>2, <1>6, <1>7, <1>8, HubAppends
<1>10. RowsNext /\ LinesNext
  BY <1>2, <1>9, RowsStay, LinesStay
<1>11. PICK m : m = Started(how)
  OBVIOUS
<1>12. m \in Tasks /\ Knows(m, hub'.review, hub'.execution) /\ m.pc = "build"
  BY <1>11, StartedTask DEF Ways
<1>13. TaskNext(w, m)
  <2>1. task' = [task EXCEPT ![w] = m]
    BY <1>1, <1>11 DEF Started
  <2>2. QED
    BY <1>12, <2>1 DEF TaskNext
<1>14. QED
  BY <1>2, <1>9, <1>10, <1>13, Frame

\* Executed: only a completed execution is projected as a result.
LEMMA ExecutedStep ==
    ASSUME ProjectionInv, NEW w \in Syncers, Executed(w)
    PROVE  ProjectionInv'
<1>1. PICK state \in {"FAILED", "COMPLETED"} :
        /\ hub' = [hub EXCEPT !.execution = state]
        /\ task' = [task EXCEPT ![w] = [Free EXCEPT !.pc = "build", !.how = ResultToProject(state)]]
  BY DEF Executed
<1>2. rows' = rows /\ lines' = lines /\ hub.execution # "COMPLETED" /\ events' \in 0..MaxEvents
  BY NewEvent DEF Executed
<1>3. hub \in HubRecords /\ hub.review \in Histories
  BY TaskFacts
<1>4. hub' \in HubRecords /\ hub'.review = hub.review /\ hub'.execution = state
  BY <1>1, <1>3 DEF HubRecords, Executions
<1>5. Continues(hub.review, hub.review)
  BY <1>3, SameHistory
<1>6. HubNext
  BY <1>2, <1>4, <1>5 DEF HubNext, Later, ProjectionInv
<1>7. RowsNext /\ LinesNext
  BY <1>2, <1>6, RowsStay, LinesStay
<1>8. PICK how : how = ResultToProject(state)
  OBVIOUS
<1>9. how \in Ways /\ (how = "execution" => state = "COMPLETED")
  BY <1>8 DEF ResultToProject, Ways
<1>10. PICK m : m = Started(how)
  OBVIOUS
<1>11. m \in Tasks /\ Knows(m, hub'.review, hub'.execution) /\ m.pc = "build"
  BY <1>4, <1>9, <1>10, StartedTask
<1>12. TaskNext(w, m)
  <2>1. task' = [task EXCEPT ![w] = m]
    BY <1>1, <1>8, <1>10 DEF Started
  <2>2. QED
    BY <1>11, <2>1 DEF TaskNext
<1>13. QED
  BY <1>2, <1>6, <1>7, <1>12, Frame

-----------------------------------------------------------------------------
(* The theorem. *)

\* The invariant holds of the first version.
LEMMA ProjectionStart ==
    ASSUME ProjectionInit
    PROVE  ProjectionInv
<1>1. PICK invoice \in Invoices, how \in {"publish", "sync"} : \E facts \in invoice :
        /\ hub = [invoice |-> invoice, execution |-> "none",
                  review |-> <<[status |-> "PENDING_REVIEW", facts |-> facts, decision |-> NoDecision]>>]
        /\ task = [w \in Syncers |-> IF w = Ticker THEN [Free EXCEPT !.pc = "build", !.how = how] ELSE Free]
  BY DEF ProjectionInit
<1>2. PICK facts \in invoice :
        /\ hub = [invoice |-> invoice, execution |-> "none",
                  review |-> <<[status |-> "PENDING_REVIEW", facts |-> facts, decision |-> NoDecision]>>]
        /\ task = [w \in Syncers |-> IF w = Ticker THEN [Free EXCEPT !.pc = "build", !.how = how] ELSE Free]
  BY <1>1
<1>3. rows = <<>> /\ lines = <<>> /\ events = 0
  BY DEF ProjectionInit
<1>4. PICK r : r = [status |-> "PENDING_REVIEW", facts |-> facts, decision |-> NoDecision]
  OBVIOUS
<1>5. r \in Versions /\ r.decision = NoDecision
  <2>1. PICK no \in Decisions : no = NoDecision
    BY DEF Decisions
  <2>2. facts \in UNION Invoices
    OBVIOUS
  <2>3. r = [status |-> "PENDING_REVIEW", facts |-> facts, decision |-> no]
    BY <1>4, <2>1
  <2>4. QED
    BY <2>1, <2>2, <2>3 DEF Versions, Statuses
<1>6. PICK h : h = <<r>>
  OBVIOUS
<1>7. h \in Histories /\ DOMAIN h = {1} /\ h[1] = r
  BY <1>5, <1>6, ProjectionAssumption DEF Histories
<1>8. hub = [invoice |-> invoice, execution |-> "none", review |-> h]
  BY <1>2, <1>4, <1>6
<1>9. hub \in [invoice : Invoices, execution : Executions, review : Histories] /\ hub.review = h
  BY <1>7, <1>8 DEF Executions
<1>10. ASSUME NEW w \in Syncers
       PROVE  task[w] \in Tasks /\ Knows(task[w], hub.review, hub.execution) /\ task[w].pc # "allocations"
  <2>1. CASE w = Ticker
    <3>1. PICK m : m = Started(how)
      OBVIOUS
    <3>2. m \in Tasks /\ Knows(m, hub.review, hub.execution) /\ m.pc = "build"
      BY <3>1, StartedTask DEF Ways
    <3>3. task[w] = m
      BY <1>2, <2>1, <3>1 DEF Started
    <3>4. QED
      BY <3>2, <3>3
  <2>2. CASE w # Ticker
    <3>1. PICK m : m = Free
      OBVIOUS
    <3>2. m \in Tasks /\ Knows(m, hub.review, hub.execution) /\ m.pc = "free"
      BY <3>1, FreeTask
    <3>3. task[w] = m
      BY <1>2, <2>2, <3>1
    <3>4. QED
      BY <3>2, <3>3
  <2>3. QED
    BY <2>1, <2>2
<1>11. task = [w \in Syncers |-> task[w]]
  BY <1>2
<1>12. task \in [Syncers -> Tasks]
  BY <1>10, <1>11
<1>13. ProjectionTypes
  BY <1>3, <1>9, <1>12, ProjectionAssumption DEF ProjectionTypes
<1>14. \A v \in DOMAIN h : h[v].decision = NoDecision
  BY <1>5, <1>7
<1>15. NoDecision.ok = FALSE
  BY DEF NoDecision
<1>16. (\A v \in DOMAIN h : DecisionOf(h[v].decision, v)) /\ Undecided(h)
  BY <1>14, <1>15 DEF DecisionOf, Undecided
<1>17. QED
  BY <1>3, <1>9, <1>10, <1>13, <1>16 DEF ProjectionInv, Entered, RowsKnown

\* Every step preserves the invariant.
LEMMA ProjectionStep ==
    ASSUME ProjectionInv, [ProjectionNext]_projvars
    PROVE  ProjectionInv'
<1>1. CASE UNCHANGED projvars
  BY <1>1 DEF projvars, ProjectionInv, ProjectionTypes, Entered, RowsKnown
<1>2. CASE \E i \in DOMAIN rows, e \in Entries : Enter(i, e)
  BY <1>2, EnterStep
<1>3. CASE \E w \in Syncers : SyncStep(w)
  BY <1>3, BuildStep, LookupStep, CreateRowStep, WriteRowStep, ReadLinesStep, ApplyLineStep DEF SyncStep
<1>4. CASE \E w \in Syncers : IngestStep(w)
  BY <1>4, IngestAllocationsStep, SubmitStep, AcknowledgeStep DEF IngestStep
<1>5. CASE \E w \in Syncers : Reconcile(w) \/ Reclassified(w) \/ Executed(w) \/ ProjectionFails(w)
  BY <1>5, ReconcileStep, ReclassifiedStep, ExecutedStep, FailsStep
<1>6. CASE \E w \in Syncers : \E via \in {"legacy", "request"} : IngestRead(w, via)
  BY <1>6, IngestReadStep
<1>7. QED
  BY <1>1, <1>2, <1>3, <1>4, <1>5, <1>6 DEF ProjectionNext

\* The invariant says that rows and lines are committed,
LEMMA RowsAreCommitted ==
    ASSUME ProjectionInv
    PROVE  RowIsCommitted
<1>1. ASSUME NEW i \in DOMAIN rows
      PROVE  /\ rows[i].version <= Now
             /\ rows[i].status = "" \/ \E v \in DOMAIN hub.review : hub.review[v].status = rows[i].status
             /\ rows[i].executed => hub.execution = "COMPLETED"
             /\ rows[i].key.ok => DecidedBy(rows[i].key) # {}
  <2>1. RowOf(rows[i], hub.review, hub.execution)
    BY DEF ProjectionInv
  <2>2. rows[i].key.ok => DecidedBy(rows[i].key) # {}
    BY <2>1 DEF RowOf, DecidedBy, DecisionKey
  <2>3. QED
    BY <2>1, <2>2 DEF RowOf, Now
<1>2. ASSUME NEW i \in DOMAIN lines
      PROVE  /\ lines[i].version <= Now
             /\ lines[i].current => \E line \in Snapshot(SubSeq(hub.review, 1, lines[i].version), "none").lines.rows :
                   [f \in LineFields |-> line[f]] = [f \in LineFields |-> lines[i][f]]
  <2>1. LineOf(lines[i], hub.review)
    BY DEF ProjectionInv
  <2>2. QED
    BY <2>1 DEF LineOf, Now, Until
<1>3. QED
  BY <1>1, <1>2 DEF RowIsCommitted

\* that the state has its types,
LEMMA ProjectionIsTyped ==
    ASSUME ProjectionInv
    PROVE  ProjectionTypeOK
<1>1. hub.review \in Histories /\ hub.execution \in Executions /\ events \in 0..MaxEvents
  BY DEF ProjectionInv, ProjectionTypes
<1>2. Now \in 1..MaxVersion
  BY <1>1 DEF Histories, Now
<1>3. ASSUME NEW i \in DOMAIN rows
      PROVE  /\ rows[i].version \in 0..MaxVersion /\ rows[i].action \in NextActions \cup {""}
             /\ {rows[i].ready, rows[i].executed} \subseteq BOOLEAN
  <2>1. rows[i] \in RowRecords
    BY DEF ProjectionInv, ProjectionTypes
  <2>2. QED
    BY <2>1 DEF RowRecords
<1>4. ASSUME NEW i \in DOMAIN lines
      PROVE  lines[i].state \in ProductLineMatchState
  <2>1. lines[i] \in LineRecords
    BY DEF ProjectionInv, ProjectionTypes
  <2>2. QED
    BY <2>1 DEF LineRecords
<1>5. ASSUME NEW w \in Syncers
      PROVE  task[w].how \in {"", "sync", "publish", "republish", "execution"}
  <2>1. task[w] \in Tasks
    BY TaskFacts
  <2>2. QED
    BY <2>1 DEF Tasks, Ways
<1>6. QED
  BY <1>1, <1>2, <1>3, <1>4, <1>5 DEF ProjectionTypeOK, Executions

\* and that decisions are as they were entered.
LEMMA DecisionsStand ==
    ASSUME ProjectionInv
    PROVE  DecisionIsOfTheVersionSeen /\ ButtonBillIsDirect /\ AcceptedAllocationsAreSound
<1>1. ASSUME NEW v \in DOMAIN hub.review, NEW d, d = hub.review[v].decision, d.ok
      PROVE  /\ Submittable(d.candidate, d.label)
             /\ d.via = "request" => d.seen = v - 1 /\ V1Supported(d.candidate)
  <2>1. DecisionOf(d, v)
    BY <1>1 DEF ProjectionInv
  <2>2. QED
    BY <1>1, <2>1 DEF DecisionOf
<1>2. DecisionIsOfTheVersionSeen
  BY <1>1 DEF DecisionIsOfTheVersionSeen
<1>3. ButtonBillIsDirect
  BY <1>1, DirectBill DEF ButtonBillIsDirect
<1>4. AcceptedAllocationsAreSound
  BY <1>1, SoundAllocations DEF AcceptedAllocationsAreSound
<1>5. QED
  BY <1>2, <1>3, <1>4

\* Whatever is reclassified, executed, projected late, written twice or lost, and whatever the
\* operator edits in between: a decision taken through the button is the one entered on the
\* version that was shown, its bill is a direct bill, its allocations add up, and what the row
\* and its lines show has been committed (projection_sync.py, decision_ingestion.py).
THEOREM DecisionsAreAsSeen == ProjectionSpec => []ButtonDecisionIsAsSeen
<1>1. ProjectionInit => ProjectionInv
  BY ProjectionStart
<1>2. ProjectionInv /\ [ProjectionNext]_projvars => ProjectionInv'
  BY ProjectionStep
<1>3. ProjectionInv => ButtonDecisionIsAsSeen
  BY ProjectionIsTyped, RowsAreCommitted, DecisionsStand DEF ButtonDecisionIsAsSeen
<1>4. QED
  BY <1>1, <1>2, <1>3, PTL DEF ProjectionSpec
=============================================================================
