------------------------ MODULE AdvisorySuggestions ------------------------
(***************************************************************************)
(* The suggestion sets of the product lines of one review, and what Odoo    *)
(* shows of them.  A tick generates, revalidates and retires the sets; a    *)
(* sweep brings Odoo up to date and marks what it has refreshed; both hold  *)
(* the advisory lock.  Every other flow that projects the review writes the *)
(* same fields without it.  An operator may switch the display off and have *)
(* the fields cleared.                                                      *)
(*                                                                          *)
(* Time is the age of each set's last validation.  Ages are compared with a *)
(* cutoff they never equal, as two readings of the clock never do.          *)
(***************************************************************************)
EXTENDS ProductSuggestions

CONSTANTS
    Lines,          \* the lines of the invoice, in order
    Facts,          \* [line -> its identifiers and its text]
    Supplier,       \* the effective supplier of the review
    Catalogs,       \* a sequence: what the catalog of Odoo can be
    Priors,         \* earlier mappings the Hub knows of
    Cutoff,         \* ages up to this one may be shown
    MaxSets,        \* bound: suggestion sets
    MaxEvents       \* bound: what operators, deployments and Odoo's users do

ASSUME AdvisoryAssumption ==
    Cutoff \in Nat /\ MaxSets \in Nat /\ MaxEvents \in Nat

\* What normalisation leaves of a text.
IsText(t) == IsFiniteSet(t.words) /\ t.meaningful \subseteq t.words

\* A catalog is what one bounded read returns.
ASSUME CatalogAssumption ==
    /\ 1 \in DOMAIN Catalogs
    /\ \A c \in DOMAIN Catalogs :
          /\ IsFiniteSet(Catalogs[c].products) /\ IsFiniteSet(Catalogs[c].supplierinfo)
          /\ \A p \in Catalogs[c].products : p.id \in Int /\ IsText(p.name)

ASSUME LineAssumption ==
    /\ Lines \in Seq(DOMAIN Facts)
    /\ \A i \in DOMAIN Lines :
          LET text == Facts[Lines[i]].text
          IN  text # None =>
                /\ IsText(text)
                /\ \A c \in DOMAIN Catalogs : \A p \in Catalogs[c].products : Ratio(text, p.name) \in Int

ASSUME PolicyAssumption == TieMargin \in Int /\ MaxSuggestions \in Nat

Tick == "tick"
Sweep == "sweep"
Flow == "flow"          \* a use case, or a reconcile
Cleaner == "cleaner"    \* the clear-display command
Actors == {Tick, Sweep, Flow, Cleaner}
Showers == {Tick, Sweep, Flow}
LineSet == ToSet(Lines)

VARIABLES
    committed, \* the review as committed: [version, pending, open: the lines not found]
    catalog,   \* Odoo: which of the catalogs it has
    sets,      \* the stored suggestion sets, by id
    odoo,      \* Odoo: [version of the row, the set each line shows (0: none)]
    task,      \* [Actors -> what the process is doing]
    lock,      \* who holds the advisory lock
    shows,     \* the processes that run with the display on
    engine,    \* the deployed engine: its version, and what it suggests
    outrun,    \* observed only: [flow: has a refresh begun since the flow built the rows it is
               \* about to write; lines: those last written by such a flow]
    events

advvars == <<committed, catalog, sets, odoo, task, lock, shows, engine, outrun, events>>

NoOne == "no one"
Idle == [pc |-> "idle", snap |-> <<>>, catalog |-> 0, history |-> TRUE, todo |-> {}, ids |-> {},
         ages |-> <<>>, hints |-> <<>>, waiting |-> FALSE, outcome |-> ""]

At(a, pc) == task[a].pc = pc
Goto(a, pc) == task' = [task EXCEPT ![a].pc = pc]
\* forgetting what it had read
Anew(a, pc) == [Idle EXCEPT !.pc = pc, !.waiting = task[a].waiting]
Event == events < MaxEvents /\ events' = events + 1

\* back to waiting, without the lock; a refresher remembers that it is backing off
Release(a, failed) ==
    /\ lock' = NoOne
    /\ task' = [task EXCEPT ![a] = [Idle EXCEPT !.waiting = failed]]

---------------------------------------------------------------------------
(* Suggestion sets                                                          *)

Current(id) == sets[id].status = "current"
Fresh(id) == sets[id].age <= Cutoff
CurrentIds == {id \in DOMAIN sets : Current(id)}

NewSet(line, version, read, history) ==
    [line |-> line, version |-> version, input |-> Facts[line], catalog |-> read, history |-> history,
     engine |-> engine.version, result |-> engine.suggest[read][line][history],
     status |-> "current", reason |-> "", age |-> 0, marker |-> "none"]

\* Mutation: a price list that changed is not looked at.
ReplacementReasonOfCatalogOnly(s, line, read) ==
    CASE s.engine # engine.version -> "engine_changed"
      [] s.input # Facts[line] -> "input_changed"
      [] Catalogs[s.catalog].products # Catalogs[read].products -> "catalog_changed"
      [] OTHER -> ""

ReplacementReason(s, line, read) ==
    CASE s.engine # engine.version -> "engine_changed"
      [] s.input # Facts[line] -> "input_changed"
      [] Catalogs[s.catalog].products # Catalogs[read].products -> "catalog_changed"
      [] Catalogs[s.catalog].supplierinfo # Catalogs[read].supplierinfo -> "supplierinfo_changed"
      [] OTHER -> ""

Retirement(s, snap) ==
    CASE ~snap.pending -> <<"invalidated", "review_not_pending">>
      [] s.version # snap.version -> <<"superseded", "review_version_changed">>
      [] OTHER -> <<"invalidated", "line_resolved">>

\* retire: what Odoo shows of the set must be refreshed, unless it was cleared already
Retired(s, to) ==
    [s EXCEPT !.status = to[1], !.reason = to[2], !.age = 0, !.marker = IF @ = "cleared" THEN @ ELSE "none"]

\* revalidate: a set that was cleared may be shown again
Revalidated(s) == [s EXCEPT !.age = 0, !.marker = IF @ = "cleared" THEN "none" ELSE @]

HasContent(s) == s.result.suggestions # <<>> \/ s.result.notes # {}

\* display_block, for the line the projection composed from the review as it is
Displayable(id, line) ==
    /\ committed.pending
    /\ sets[id].version = committed.version
    /\ line \in committed.open
    /\ Current(id)
    /\ sets[id].line = line
    /\ sets[id].input = Facts[line]
    /\ Fresh(id)
    /\ HasContent(sets[id])

\* needs_display_refresh
NeedsRefresh(id) ==
    \/ sets[id].marker = "none"
    \/ Current(id) /\ ~Fresh(id) /\ sets[id].marker # "cleared"

---------------------------------------------------------------------------
KnownPriors(history) == IF history THEN Priors ELSE {}

AdvisoryInit ==
    /\ committed = [version |-> 1, pending |-> TRUE, open |-> LineSet]
    /\ catalog = 1
    /\ sets = <<>>
    /\ odoo = [version |-> 1, shown |-> [l \in LineSet |-> 0]]
    /\ task = [a \in Actors |-> Idle]
    /\ lock = NoOne
    /\ shows = Showers
    /\ engine = [version |-> 1,
                 suggest |-> [c \in DOMAIN Catalogs |-> [l \in LineSet |-> [history \in BOOLEAN |->
                                SuggestProducts(Catalogs[c], Facts[l], Supplier, KnownPriors(history))]]]]
    /\ outrun = [flow |-> FALSE, lines |-> {}]
    /\ events = 0

(* The tick                                                                 *)

\* the sets whose line is gone are retired and committed first; a review that cannot be
\* read gives no lines, and its version
Retire(snap) ==
    LET gone == {id \in CurrentIds : ~(sets[id].version = snap.version /\ sets[id].line \in snap.open)} IN
    sets' = [id \in DOMAIN sets |-> IF id \in gone THEN Retired(sets[id], Retirement(sets[id], snap)) ELSE sets[id]]

StartTick ==
    /\ At(Tick, "idle") /\ lock = NoOne
    /\ lock' = Tick
    /\ \E readable \in BOOLEAN :
         /\ IF readable THEN UNCHANGED events ELSE Event
         /\ LET open == IF readable /\ committed.pending THEN committed.open ELSE {}
                snap == [committed EXCEPT !.open = open] IN
            /\ Retire(snap)
            /\ task' = [task EXCEPT ![Tick] = [@ EXCEPT
                   !.pc = IF open = {} THEN "display" ELSE "catalog", !.snap = IF open = {} THEN <<>> ELSE snap,
                   !.todo = {i \in DOMAIN Lines : Lines[i] \in open},
                   !.ids = {id \in CurrentIds : sets[id].version = snap.version /\ sets[id].line \in open}]]
    /\ UNCHANGED <<committed, catalog, odoo, shows, engine, outrun>>

\* one bounded read; the history is optional
ReadCatalog ==
    /\ At(Tick, "catalog")
    /\ \E history \in BOOLEAN :
         /\ IF history THEN UNCHANGED events ELSE Event
         /\ task' = [task EXCEPT ![Tick].pc = "lines", ![Tick].catalog = catalog, ![Tick].history = history]
    /\ UNCHANGED <<committed, catalog, sets, odoo, lock, shows, engine, outrun>>

\* nothing is regenerated and nothing revalidated
CatalogFails ==
    /\ At(Tick, "catalog")
    /\ task' = [task EXCEPT ![Tick] = Anew(Tick, "display")]
    /\ UNCHANGED <<committed, catalog, sets, odoo, lock, shows, engine, outrun, events>>

\* the lines are planned in their order
NextLine == Lines[Min(task[Tick].todo)]
LineDone(todo) == todo \ {Min(todo)}

Existing(line) == {id \in task[Tick].ids : sets[id].line = line}
Unchanged(line) ==
    \E id \in Existing(line) : ReplacementReason(sets[id], line, task[Tick].catalog) = ""

KeepLine ==
    /\ At(Tick, "lines") /\ task[Tick].todo # {} /\ Unchanged(NextLine)
    /\ task' = [task EXCEPT ![Tick].todo = LineDone(@),
                            ![Tick].ages = @ \o SetToSeq(Existing(NextLine))]
    /\ UNCHANGED <<committed, catalog, sets, odoo, lock, shows, engine, outrun, events>>

\* the old set is superseded and the new one inserted in one commit
Regenerate ==
    LET t == task[Tick]
        line == NextLine IN
    /\ At(Tick, "lines") /\ t.todo # {} /\ ~Unchanged(line)
    /\ Len(sets) < MaxSets
    /\ LET old == {id \in Existing(line) : Current(id)}
           kept == [id \in DOMAIN sets |->
                      IF id \in old
                      THEN Retired(sets[id], <<"superseded", ReplacementReason(sets[id], line, t.catalog)>>)
                      ELSE sets[id]] IN
       /\ ~\E id \in CurrentIds \ old : sets[id].line = line /\ sets[id].version = t.snap.version
       /\ sets' = Append(kept, NewSet(line, t.snap.version, t.catalog, t.history))
    /\ task' = [task EXCEPT ![Tick].todo = LineDone(@)]
    /\ UNCHANGED <<committed, catalog, odoo, lock, shows, engine, outrun, events>>

\* rolled back: the old set stays as it was, and is not revalidated
LineFails ==
    /\ At(Tick, "lines") /\ task[Tick].todo # {} /\ ~Unchanged(NextLine)
    /\ task' = [task EXCEPT ![Tick].todo = LineDone(@)]
    /\ UNCHANGED <<committed, catalog, sets, odoo, lock, shows, engine, outrun, events>>

\* all lines done, or the budget of the tick is exhausted
RevalidateUnchanged ==
    LET kept == ToSet(task[Tick].ages) IN
    /\ At(Tick, "lines")
    /\ sets' = [id \in DOMAIN sets |-> IF id \in kept /\ Current(id) THEN Revalidated(sets[id]) ELSE sets[id]]
    /\ task' = [task EXCEPT ![Tick] = Anew(Tick, "display")]
    /\ UNCHANGED <<committed, catalog, odoo, lock, shows, engine, outrun, events>>

\* a tick without a display ends here; with one, the refresh follows under the same lock
EndTick ==
    /\ At(Tick, "display") /\ Tick \notin shows
    /\ Release(Tick, task[Tick].waiting)
    /\ UNCHANGED <<committed, catalog, sets, odoo, shows, engine, outrun, events>>

---------------------------------------------------------------------------
(* The sweep                                                                *)

StartSweep ==
    /\ At(Sweep, "idle") /\ lock = NoOne /\ Sweep \in shows
    /\ lock' = Sweep
    /\ Goto(Sweep, "display")
    /\ UNCHANGED <<committed, catalog, sets, odoo, shows, engine, outrun, events>>

Due == {id \in DOMAIN sets : NeedsRefresh(id)}

NothingToRefresh(a) ==
    /\ At(a, "display") /\ a \in shows
    /\ Due = {} \/ task[a].waiting
    /\ Release(a, task[a].waiting)
    /\ UNCHANGED <<committed, catalog, sets, odoo, shows, engine, outrun, events>>

StartRefresh(a) ==
    /\ At(a, "display") /\ a \in shows /\ Due # {} /\ ~task[a].waiting
    /\ task' = [task EXCEPT ![a].pc = "build", ![a].ids = Due,
                            ![a].ages = [id \in DOMAIN sets |-> sets[id].age]]
    /\ outrun' = [outrun EXCEPT !.flow = At(Flow, "write")]
    /\ UNCHANGED <<committed, catalog, sets, odoo, lock, shows, engine, events>>

\* The rows are built from what is stored and committed now, and written by a later step: a
\* flow, which takes no lock, may do so after a refresh that began in between.  A line shows
\* its one displayable set; a process without the display shows nothing
Hint(a, line) ==
    LET ids == {id \in DOMAIN sets : Displayable(id, line)} IN
    IF a \in shows /\ Cardinality(ids) = 1 THEN CHOOSE id \in ids : TRUE ELSE 0

BuildRows(a) ==
    /\ At(a, "build")
    /\ task' = [task EXCEPT ![a].pc = "write", ![a].snap = committed,
                            ![a].hints = [l \in LineSet |-> Hint(a, l)]]
    /\ UNCHANGED <<committed, catalog, sets, odoo, lock, shows, engine, outrun, events>>

Stale(a) == odoo.version > task[a].snap.version

Written(a, lines) ==
    /\ odoo' = [version |-> task[a].snap.version,
                shown |-> [l \in LineSet |-> IF l \in lines THEN task[a].hints[l] ELSE odoo.shown[l]]]
    /\ outrun' = IF a = Flow
                 THEN [flow |-> FALSE, lines |-> IF outrun.flow THEN outrun.lines \cup lines ELSE outrun.lines \ lines]
                 ELSE [outrun EXCEPT !.lines = @ \ lines]

Write(a) ==
    /\ At(a, "write") /\ ~Stale(a)
    /\ Written(a, LineSet)
    /\ IF a = Flow THEN task' = [task EXCEPT ![a] = Idle] ELSE Goto(a, "mark")
    /\ UNCHANGED <<committed, catalog, sets, lock, shows, engine, events>>

\* Mutation: a refresh that failed is marked all the same.
AfterFailureMarked(a) ==
    IF a = Flow THEN task' = [task EXCEPT ![a] = Idle] /\ UNCHANGED lock ELSE Goto(a, "mark") /\ UNCHANGED lock

AfterFailure(a) ==
    IF a = Flow THEN task' = [task EXCEPT ![a] = Idle] /\ UNCHANGED lock ELSE Release(a, TRUE)

\* Odoo fails after some of the rows, or the row is newer than the snapshot
WriteFails(a) ==
    /\ At(a, "write")
    /\ \/ Stale(a) /\ UNCHANGED odoo /\ outrun' = IF a = Flow THEN [outrun EXCEPT !.flow = FALSE] ELSE outrun
       \/ ~Stale(a) /\ Event /\ \E lines \in SUBSET LineSet : lines # LineSet /\ Written(a, lines)
    /\ Stale(a) => UNCHANGED events
    /\ AfterFailure(a)
    /\ UNCHANGED <<committed, catalog, sets, shows, engine>>

\* mark_display_synced: as of the start of the refresh, if the set is still what was read
Mark(a) ==
    LET t == task[a]
        still(id) == id \in t.ids /\ sets[id].age >= t.ages[id] IN
    /\ At(a, "mark")
    /\ sets' = [id \in DOMAIN sets |->
                  IF still(id)
                  THEN [sets[id] EXCEPT !.marker = IF t.ages[id] > Cutoff THEN "cleared" ELSE "shown"]
                  ELSE sets[id]]
    /\ Release(a, FALSE)
    /\ UNCHANGED <<committed, catalog, odoo, shows, engine, outrun, events>>

BackoffEnds(a) ==
    /\ task[a].waiting /\ task' = [task EXCEPT ![a].waiting = FALSE]
    /\ UNCHANGED <<committed, catalog, sets, odoo, lock, shows, engine, outrun, events>>

---------------------------------------------------------------------------
(* Everyone else                                                            *)

\* a reclassification or a decision is committed, then projected
ReviewChanges ==
    /\ Event /\ At(Flow, "idle") /\ committed.pending
    /\ \E pending \in BOOLEAN, open \in SUBSET LineSet :
         committed' = [version |-> committed.version + 1, pending |-> pending, open |-> open]
    /\ Goto(Flow, "build")
    /\ UNCHANGED <<catalog, sets, odoo, lock, shows, engine, outrun>>

\* any other projection of the review
Project ==
    /\ Event /\ At(Flow, "idle")
    /\ Goto(Flow, "build")
    /\ UNCHANGED <<committed, catalog, sets, odoo, lock, shows, engine, outrun>>

CatalogChanges ==
    /\ Event /\ \E c \in DOMAIN Catalogs \ {catalog} : catalog' = c
    /\ UNCHANGED <<committed, sets, odoo, task, lock, shows, engine, outrun>>

\* the age of a retired set no longer matters
TimePasses ==
    LET ageing == {id \in CurrentIds : Fresh(id)} IN
    /\ ageing # {}
    /\ sets' = [id \in DOMAIN sets |-> IF id \in ageing THEN [sets[id] EXCEPT !.age = @ + 1] ELSE sets[id]]
    /\ UNCHANGED <<committed, catalog, odoo, task, lock, shows, engine, outrun, events>>

\* A deployment, or a crash, restarts the worker and the API: what they were doing is lost,
\* and with it the lock.  The display may be switched, but never under a worker that was
\* forgotten.
Restart ==
    /\ Event
    /\ \E on \in {{}, Showers}, e \in {0, 1} :
         shows' = on /\ engine' = [engine EXCEPT !.version = @ + e]
    /\ task' = [a \in Actors |-> IF a = Cleaner THEN [task[a] EXCEPT !.outcome = IF shows' = {} THEN @ ELSE ""]
                                 ELSE Idle]
    /\ lock' = IF lock = Cleaner THEN lock ELSE NoOne
    /\ outrun' = [outrun EXCEPT !.flow = FALSE]
    /\ At(Cleaner, "idle") \/ shows' = {}
    /\ UNCHANGED <<committed, catalog, sets, odoo>>

---------------------------------------------------------------------------
(* clear-display, which refuses to run with the display on                  *)

StartClear ==
    /\ Event /\ At(Cleaner, "idle") /\ lock = NoOne /\ shows = {}
    /\ lock' = Cleaner
    /\ task' = [task EXCEPT ![Cleaner] = [Idle EXCEPT !.pc = "clear"]]
    /\ UNCHANGED <<committed, catalog, sets, odoo, shows, engine, outrun>>

\* find_populated: the search in Odoo that finds, and later verifies
Shown == {l \in LineSet : odoo.shown[l] # 0}

\* every populated row, as far as Odoo accepts the writes
ClearRows ==
    /\ At(Cleaner, "clear")
    /\ \E cleared \in SUBSET Shown :
         odoo' = [odoo EXCEPT !.shown = [l \in LineSet |-> IF l \in cleared THEN 0 ELSE odoo.shown[l]]]
    /\ Goto(Cleaner, "verify")
    /\ UNCHANGED <<committed, catalog, sets, lock, shows, engine, outrun, events>>

\* markers are reset only when Odoo is seen empty; then the settle time, without the lock
VerifyCleared ==
    /\ At(Cleaner, "verify") /\ Shown = {}
    /\ sets' = [id \in DOMAIN sets |-> IF Current(id) THEN [sets[id] EXCEPT !.marker = "none"] ELSE sets[id]]
    /\ lock' = NoOne
    /\ Goto(Cleaner, "settle")
    /\ UNCHANGED <<committed, catalog, odoo, shows, engine, outrun, events>>

\* rows remain, a write was not answered, a read failed, or the lock is taken again
ClearIncomplete ==
    /\ \/ At(Cleaner, "verify") /\ lock' = NoOne
       \/ At(Cleaner, "settle") /\ UNCHANGED lock
    /\ task' = [task EXCEPT ![Cleaner] = [Idle EXCEPT !.outcome = "incomplete"]]
    /\ UNCHANGED <<committed, catalog, sets, odoo, shows, engine, outrun, events>>

Confirm ==
    /\ At(Cleaner, "settle") /\ lock = NoOne
    /\ LET marked == \E id \in CurrentIds : sets[id].marker # "none" IN
       task' = [task EXCEPT ![Cleaner] = [Idle EXCEPT
                   !.outcome = IF marked \/ Shown # {} THEN "repopulated" ELSE "cleared"]]
    /\ UNCHANGED <<committed, catalog, sets, odoo, lock, shows, engine, outrun, events>>

---------------------------------------------------------------------------
TickStep ==
    \/ StartTick \/ ReadCatalog \/ CatalogFails \/ KeepLine \/ Regenerate \/ LineFails
    \/ RevalidateUnchanged \/ EndTick

RefreshStep(a) ==
    \/ NothingToRefresh(a) \/ StartRefresh(a) \/ BuildRows(a) \/ Write(a) \/ WriteFails(a) \/ Mark(a)
    \/ BackoffEnds(a)

ClearStep == ClearRows \/ VerifyCleared \/ ClearIncomplete \/ Confirm

AdvisoryNext ==
    \/ TickStep
    \/ StartSweep
    \/ \E a \in Showers : RefreshStep(a)
    \/ ReviewChanges \/ Project \/ CatalogChanges \/ TimePasses \/ Restart
    \/ StartClear \/ ClearStep

AdvisorySpec == AdvisoryInit /\ [][AdvisoryNext]_advvars

\* The scheduler runs both periodic tasks again and again, processes go on, and reads,
\* writes and generations that are tried again and again succeed at some time.
FairAdvisorySpec ==
    /\ AdvisorySpec
    /\ WF_advvars(TickStep) /\ SF_advvars(StartTick) /\ SF_advvars(StartSweep)
    /\ SF_advvars(ReadCatalog) /\ SF_advvars(Regenerate) /\ SF_advvars(KeepLine)
    /\ \A a \in Showers : WF_advvars(RefreshStep(a)) /\ WF_advvars(BackoffEnds(a))
    /\ WF_advvars(ClearStep)

---------------------------------------------------------------------------
(* Properties                                                               *)

\* Types of the state; only the holder of the lock is at work on the sets, and a row of Odoo
\* shows sets of its own line only.
AdvisoryTypeOK ==
    /\ committed.pending \in BOOLEAN /\ committed.open \subseteq LineSet
    /\ catalog \in DOMAIN Catalogs
    /\ \A id \in DOMAIN sets :
         /\ sets[id].status \in {"current", "superseded", "invalidated"}
         /\ (sets[id].status = "current") = (sets[id].reason = "")
         /\ sets[id].marker \in {"none", "shown", "cleared"} /\ sets[id].age \in 0 .. Cutoff + 1
    /\ \A l \in LineSet : odoo.shown[l] # 0 => sets[odoo.shown[l]].line = l
    /\ lock \in Actors \cup {NoOne} /\ outrun.lines \subseteq LineSet
    /\ \A a \in {Tick, Sweep} : ~At(a, "idle") => lock = a

\* a set the sweep never refreshes again: marked as cleared, or retired and marked as refreshed
Done(s) == s.marker = "cleared" \/ (s.status # "current" /\ s.marker # "none")

\* What the docstring of display_cleared says: a set that is cleared "is not shown in Odoo, and
\* no later projection (of any flow) can show it again" before it is revalidated.  It is false:
\* a flow writes rows it built before the refresh that cleared the set.
MarkedIsNotShown ==
    \A l \in LineSet : odoo.shown[l] # 0 => ~Done(sets[odoo.shown[l]])

\* What does hold of it, and what the sweep's needs_display_refresh rests on: a set that is never
\* refreshed again is shown at most on a line that was last written by a flow with rows from
\* before some refresh; every refresh, and every flow that no refresh outran, leaves the truth.
OnlyOutrunFlowsShowMarked ==
    \A l \in LineSet \ outrun.lines : odoo.shown[l] # 0 => ~Done(sets[odoo.shown[l]])

\* A recommended reclassification finds the suggested product: the matcher's own lookup of the
\* supplier's code, in the catalog the set was made from, returns it.
ReclassificationFindsIt ==
    \A id \in DOMAIN sets :
        LET s == sets[id] IN
        s.result.reclassify =>
            s.result.suggestions[1].product \in
                SupplierProductOutcome(Catalogs[s.catalog], s.input, Supplier).ids

\* A first suggestion that is not flagged as ambiguous is clearly the best: every other product
\* that could be suggested, shown or not, is of a weaker tier or behind by more than the margin.
UnflaggedTopIsClear ==
    \A id \in DOMAIN sets :
        LET s   == sets[id]
            all == Candidates(Catalogs[s.catalog], s.input, Supplier, KnownPriors(s.history))
            top == s.result.suggestions[1] IN
        s.result.suggestions # <<>> /\ ~s.result.ambiguous /\ ~s.result.reclassify =>
            \A c \in Best(all) : c.product = top.product \/ c.tier > top.tier
                                  \/ top.score - c.score > TieMargin

\* A clear-display that reports success leaves nothing shown, for as long as the display is off.
ClearReportIsTrue ==
    task[Cleaner].outcome = "cleared" /\ shows = {} => \A l \in LineSet : odoo.shown[l] = 0

StaleHint(l) == odoo.shown[l] # 0 /\ ~Displayable(odoo.shown[l], l)

\* With the display on, a suggestion that may no longer be shown (expired, superseded, of an
\* earlier version, of a line that was resolved or decided) leaves Odoo, whatever failed before,
\* unless a flow that a refresh outran writes it back: that hint stays until the next projection.
StaleHintIsCleared ==
    \A l \in LineSet : StaleHint(l) ~> ~StaleHint(l) \/ shows = {} \/ l \in outrun.lines

\* Every open line of a pending review ends up with one current set, made by the deployed engine
\* from the catalog as it is.
CaughtUp(l) ==
    committed.pending /\ l \in committed.open =>
        \E id \in CurrentIds :
            /\ sets[id].line = l /\ sets[id].version = committed.version
            /\ ReplacementReason(sets[id], l, catalog) = ""
            /\ sets[id].result = engine.suggest[catalog][l][sets[id].history]

SuggestionsCatchUp == \A l \in LineSet : <>[]CaughtUp(l)

\* What Odoo shows and what the Hub believes it shows agree, and a suggestion is shown for what
\* it is.
DisplayIsTrue ==
    AdvisoryTypeOK /\ OnlyOutrunFlowsShowMarked /\ ClearReportIsTrue /\ ReclassificationFindsIt /\ UnflaggedTopIsClear

\* Suggestions come and go as the lines, the catalog and the display window say.
SuggestionsFollow == StaleHintIsCleared /\ SuggestionsCatchUp

=============================================================================
