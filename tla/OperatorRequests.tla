--------------------------- MODULE OperatorRequests ---------------------------
(***************************************************************************)
(* Operator requests: an operator fills request fields of the workbench row *)
(* in Odoo and marks it ready; a single-flight tick of the Hub (advisory    *)
(* lock) scans the channels one after another, runs the request's use case, *)
(* records it in a ledger with a session of its own, refreshes the          *)
(* projection and writes the result back to the row.  The process may die   *)
(* between any two commits; what survives is the ledger, the Hub and Odoo.  *)
(* The row shows some committed version (WorkbenchProjection), not always   *)
(* the last one.                                                            *)
(*                                                                          *)
(* Kinds of use case, by how they behave when they are run again:           *)
(*   resolve  supplier, purpose, accounting, product_line_create: move the  *)
(*            review and resume as already applied;                         *)
(*   map      product mappings: move the review, no resume;                 *)
(*   decide   read the decision from the row, replay by idempotency key;    *)
(*   execute  probe the stored execution, need a write authorization.       *)
(***************************************************************************)
EXTENDS Naturals, Sequences, FiniteSets

CONSTANTS
    Requests,       \* submissions an operator can make
    ChannelOf,      \* [Requests -> Channels]
    KindOf,         \* [Requests -> Kinds]
    Unreadable,     \* requests whose row does not parse, or names another company
    Unpermitted,    \* requests whose user is unknown or lacks the action's permission
    MaxAttempts,    \* DEFAULT_MAX_ATTEMPTS of a transiently failing request
    LastVersion,     \* bound: review versions
    MaxSubmissions, \* bound: how many of the requests are submitted
    MaxTroubles,    \* bound: deaths of the tick's process and failed calls to Odoo
    NoRequest

Channels == <<"product_line", "product_line_create", "parent">>
ChannelNames == {Channels[i] : i \in DOMAIN Channels}
Kinds == {"resolve", "map", "decide", "execute"}
Terminal == {"completed", "stale", "rejected", "unauthorized", "failed"}

ASSUME RequestAssumption ==
    /\ ChannelOf \in [Requests -> ChannelNames]
    /\ KindOf \in [Requests -> Kinds]
    /\ \A r \in Requests : KindOf[r] \in {"decide", "execute"} => ChannelOf[r] = "parent"
    /\ Unreadable \cup Unpermitted \subseteq Requests
    /\ MaxAttempts \in Nat \ {0} /\ MaxTroubles \in Nat /\ {LastVersion, MaxSubmissions} \subseteq Nat \ {0}
    /\ NoRequest \notin Requests

VARIABLES
    hub,        \* committed: review version, decided, execution completed
    form,       \* [channel -> the request fields of its row: ready, req, result]
    expected,   \* [Requests -> the version the row showed when it was submitted, 0 before]
    ledger,     \* [Requests -> status, attempts, authorized]
    effects,    \* [Requests -> how often its use case changed the Hub]
    tick,       \* the tick: where it is, its channel, the request it works on
    troubles    \* failed calls and deaths so far

vars == <<hub, form, expected, ledger, effects, tick, troubles>>

Off == [pc |-> "off", channel |-> 1, req |-> NoRequest, outcome |-> "none"]

Init ==
    /\ hub = [version |-> 1, decided |-> FALSE, executed |-> FALSE]
    /\ form = [c \in ChannelNames |-> [ready |-> FALSE, req |-> NoRequest, result |-> "none"]]
    /\ expected = [r \in Requests |-> 0]
    /\ ledger = [r \in Requests |-> [status |-> "none", attempts |-> 0, authorized |-> FALSE]]
    /\ effects = [r \in Requests |-> 0]
    /\ tick = Off
    /\ troubles = 0

\* Odoo: the operator submits, or submits again over an earlier request; the version the
\* row shows and the request time are set by the submission
Submit(r) ==
    /\ expected[r] = 0
    /\ Cardinality({q \in Requests : expected[q] # 0}) < MaxSubmissions
    /\ form' = [form EXCEPT ![ChannelOf[r]] = [ready |-> TRUE, req |-> r, result |-> "none"]]
    /\ \E shown \in 1..hub.version :
         /\ KindOf[r] # "execute" => shown < LastVersion     \* bound
         /\ expected' = [expected EXCEPT ![r] = shown]
    /\ UNCHANGED <<hub, ledger, effects, tick, troubles>>

TickAt(pc) == tick.pc = pc
TickGo(pc) == tick' = [tick EXCEPT !.pc = pc]
Answer(outcome, pc) == tick' = [tick EXCEPT !.pc = pc, !.outcome = outcome]

\* OperatorRequestTick.run: the advisory lock, fresh sessions
TickStarts ==
    /\ TickAt("off")
    /\ tick' = [Off EXCEPT !.pc = "scan"]
    /\ UNCHANGED <<hub, form, expected, ledger, effects, troubles>>

\* the next channel, or the end of the tick
NextChannel == IF tick.channel < Len(Channels) THEN [Off EXCEPT !.pc = "scan", !.channel = tick.channel + 1]
               ELSE Off
Leave == tick' = NextChannel

Trouble == troubles < MaxTroubles /\ troubles' = troubles + 1

\* what the three readers accept of a ready row: a parsed request of this company; ...
ReadParent(r) == r \notin Unreadable
\* ... a current line row with its Hub key, on a parent of the same review; ...
ReadLine(r) == r \notin Unreadable
\* ... the same, unless the row also asks for a mapping
ReadCreate(r) == r \notin Unreadable /\ ~form["product_line"].ready

Read(c, r) == IF c = "parent" THEN ReadParent(r)
              ELSE IF c = "product_line" THEN ReadLine(r) ELSE ReadCreate(r)

\* list_pending of one channel: its rows that are ready now, here the one of this review; a
\* row that cannot be read is rejected without a ledger row
Scan ==
    /\ TickAt("scan")
    /\ LET c == Channels[tick.channel]
           f == form[c] IN
        IF ~f.ready THEN Leave
        ELSE tick' = [tick EXCEPT !.pc = IF Read(c, f.req) THEN "process" ELSE "ackread",
                                  !.req = f.req,
                                  !.outcome = IF Read(c, f.req) THEN "none" ELSE "unread"]
    /\ UNCHANGED <<hub, form, expected, ledger, effects, troubles>>

\* Odoo is unreachable, or an exception escapes the channel: its sessions are reset and the
\* remaining channels still run
ChannelFails ==
    /\ ~TickAt("off")
    /\ Trouble
    /\ Leave
    /\ UNCHANGED <<hub, form, expected, ledger, effects>>

Started(r) == IF ledger[r].status = "none" THEN [ledger[r] EXCEPT !.status = "in_progress"] ELSE ledger[r]

\* Mutation: a request whose ledger entry is finished is skipped.
ProcessSkipsFinished ==
    /\ TickAt("process")
    /\ LET r == tick.req IN
        IF ledger[r].status \in Terminal THEN Leave /\ UNCHANGED ledger
        ELSE IF r \in Unpermitted THEN Answer("unauthorized", "close") /\ UNCHANGED ledger
        ELSE TickGo("handle") /\ ledger' = [ledger EXCEPT ![r] = Started(r)]
    /\ UNCHANGED <<hub, form, expected, effects, troubles>>

\* _process up to the use case: a finished request is acknowledged again, an unpermitted one
\* closed; a new one gets its ledger row, committed
Process ==
    /\ TickAt("process")
    /\ LET r == tick.req IN
        IF ledger[r].status \in Terminal
          THEN Answer(ledger[r].status, "ackread") /\ UNCHANGED ledger
        ELSE IF r \in Unpermitted THEN Answer("unauthorized", "close") /\ UNCHANGED ledger
        ELSE TickGo("handle") /\ ledger' = [ledger EXCEPT ![r] = Started(r)]
    /\ UNCHANGED <<hub, form, expected, effects, troubles>>

Current(r) == hub.version = expected[r] /\ ~hub.decided

\* the use case commits its effect in the business session
Applied(r, newhub) ==
    /\ hub' = newhub
    /\ effects' = [effects EXCEPT ![r] = @ + 1]
    /\ Answer("completed", "close")

Unapplied(outcome) ==
    /\ Answer(outcome, "close")
    /\ UNCHANGED <<hub, effects>>

\* Mutation: the expected version is not compared with the review's.
ResolveAnyVersion(r) ==
    IF ~hub.decided
      THEN Applied(r, [hub EXCEPT !.version = @ + 1])
      ELSE Unapplied("stale")

\* Mutation: the version check comes before the resume.
ResolveVersionFirst(r) ==
    IF Current(r) THEN Applied(r, [hub EXCEPT !.version = @ + 1])
    ELSE Unapplied("stale")

\* _resume_if_already_applied first, then the version check, then the change
Resolve(r) ==
    IF effects[r] > 0 THEN Unapplied("completed")
    ELSE IF Current(r) THEN Applied(r, [hub EXCEPT !.version = @ + 1])
    ELSE Unapplied("stale")

\* MapExistingProductUseCase: the version check comes first
Map(r) ==
    IF Current(r) THEN Applied(r, [hub EXCEPT !.version = @ + 1])
    ELSE Unapplied("stale")

\* DecisionRequestHandler: the decision is read from the row as it is now, and may be a newer
\* submission than the one that is processed
Decide(r) ==
    LET c == form["parent"].req IN
    IF c = NoRequest \/ ~form["parent"].ready \/ KindOf[c] # "decide" THEN Unapplied("rejected")
    ELSE IF expected[c] # expected[r] THEN Unapplied("stale")
    ELSE IF effects[c] > 0 THEN Unapplied("completed")
    ELSE IF Current(c) THEN Applied(c, [hub EXCEPT !.version = @ + 1, !.decided = TRUE])
    ELSE Unapplied("stale")

\* ExecuteVendorBillRequestHandler: the probe, the recorded authorization, or a new one
Probe(r) ==
    IF hub.decided /\ hub.executed /\ expected[r] = hub.version THEN Unapplied("completed")
    ELSE IF ledger[r].authorized THEN TickGo("dispatch") /\ UNCHANGED <<hub, effects>>
    ELSE IF hub.version # expected[r] THEN Unapplied("stale")
    ELSE TickGo("authorize") /\ UNCHANGED <<hub, effects>>

Handle ==
    /\ TickAt("handle")
    /\ LET r == tick.req IN
         \/ KindOf[r] = "resolve" /\ Resolve(r)
         \/ KindOf[r] = "map" /\ Map(r)
         \/ KindOf[r] = "decide" /\ Decide(r)
         \/ KindOf[r] = "execute" /\ Probe(r)
    /\ UNCHANGED <<form, expected, ledger, troubles>>

\* the issuer commits in the business session, the ledger records it in its own
Authorize ==
    /\ TickAt("authorize")
    /\ TickGo("recordauth")
    /\ UNCHANGED <<hub, form, expected, ledger, effects, troubles>>

RecordAuthorization ==
    /\ TickAt("recordauth")
    /\ ledger' = [ledger EXCEPT ![tick.req].authorized = TRUE]
    /\ TickGo("dispatch")
    /\ UNCHANGED <<hub, form, expected, effects, troubles>>

\* the dispatcher executes the accepted decision of that version, or reports why not
Dispatch ==
    /\ TickAt("dispatch")
    /\ LET r == tick.req IN
        IF hub.executed /\ expected[r] = hub.version THEN Unapplied("completed")
        ELSE IF hub.decided /\ expected[r] = hub.version THEN Applied(r, [hub EXCEPT !.executed = TRUE])
        ELSE Unapplied("stale")
    /\ UNCHANGED <<form, expected, ledger, troubles>>

\* any use case may refuse the request (an ApplicationError), before it changes anything
Refused ==
    /\ tick.pc \in {"handle", "dispatch"}
    /\ effects[tick.req] = 0
    /\ Answer("rejected", "close")
    /\ UNCHANGED <<hub, form, expected, ledger, effects, troubles>>

\* _retry_later: the attempt is committed; the last one closes the request as failed (a
\* count beyond the maximum, after a death before that close, is kept at the maximum)
RetryLater ==
    /\ tick.pc \in {"handle", "authorize", "dispatch"}
    /\ LET r == tick.req IN
        /\ ledger' = [ledger EXCEPT ![r].attempts = IF @ < MaxAttempts THEN @ + 1 ELSE @]
        /\ IF ledger[r].attempts + 1 >= MaxAttempts THEN Answer("failed", "close") ELSE Leave
    /\ UNCHANGED <<hub, form, expected, effects, troubles>>

\* _close and _finish: the terminal status, committed before Odoo hears of it; then the
\* projection is refreshed, which never raises
Close ==
    /\ TickAt("close")
    /\ ledger' = [ledger EXCEPT ![tick.req].status = tick.outcome]
    /\ TickGo("ackread")
    /\ UNCHANGED <<hub, form, expected, effects, troubles>>

\* acknowledge_same_request: the row is read, a newer submission is left alone ...
AckRead ==
    /\ TickAt("ackread")
    /\ IF form[ChannelOf[tick.req]].req = tick.req THEN TickGo("ackwrite") ELSE Leave
    /\ UNCHANGED <<hub, form, expected, ledger, effects, troubles>>

\* ... and written by a second call
AckWrite ==
    /\ TickAt("ackwrite")
    /\ form' = [form EXCEPT ![ChannelOf[tick.req]].ready = FALSE,
                            ![ChannelOf[tick.req]].result =
                                IF tick.outcome = "unread" THEN "rejected" ELSE tick.outcome]
    /\ Leave
    /\ UNCHANGED <<hub, expected, ledger, effects, troubles>>

\* the acknowledgement fails: the ledger is terminal, the next tick acknowledges again
AckFails ==
    /\ tick.pc \in {"ackread", "ackwrite"}
    /\ Trouble
    /\ Leave
    /\ UNCHANGED <<hub, form, expected, ledger, effects>>

\* the process dies; the database releases the advisory lock
Crash ==
    /\ ~TickAt("off")
    /\ Trouble
    /\ tick' = Off
    /\ UNCHANGED <<hub, form, expected, ledger, effects>>

TickStep ==
    \/ TickStarts \/ Scan \/ Process \/ Handle \/ Authorize \/ RecordAuthorization
    \/ Dispatch \/ Close \/ AckRead \/ AckWrite

\* the review is moved, decided or executed through the API meanwhile
HubMoves ==
    /\ \/ ~hub.decided /\ hub.version < LastVersion
          /\ \E d \in BOOLEAN : hub' = [hub EXCEPT !.version = @ + 1, !.decided = d]
       \/ hub.decided /\ ~hub.executed /\ hub' = [hub EXCEPT !.executed = TRUE]
    /\ UNCHANGED <<form, expected, ledger, effects, tick, troubles>>

TickTrouble == ChannelFails \/ Refused \/ RetryLater \/ AckFails \/ Crash

Next == TickStep \/ TickTrouble \/ HubMoves \/ (\E r \in Requests : Submit(r))

\* The scheduler keeps starting ticks and a running tick goes on; calls fail and processes
\* die only so often (MaxTroubles), as they do when Odoo comes back.
Fairness == WF_vars(TickStep)

Spec == Init /\ [][Next]_vars
FairSpec == Spec /\ Fairness

---------------------------------------------------------------------------
(* Properties                                                               *)

RequestTypeOK ==
    /\ hub.version \in Nat \ {0}
    /\ \A c \in ChannelNames : /\ form[c].req \in Requests \cup {NoRequest}
                               /\ form[c].result \in Terminal \cup {"none"}
    /\ \A r \in Requests :
         /\ ledger[r].status \in Terminal \cup {"none", "in_progress"}
         /\ ledger[r].attempts \in 0..MaxAttempts
    /\ tick.channel \in DOMAIN Channels

(* A submitted request changes the Hub at most once, however often the tick *)
(* dies after the use case's commit, the acknowledgement fails, or the row  *)
(* is scanned again while its ledger entry is still in progress.            *)
AppliedOnce == \A r \in Requests : effects[r] <= 1

(* A request the operator reads as completed was carried out: by itself, by *)
(* an earlier execution of the same decision, or as the newer decision that *)
(* had replaced it in the row when the handler read it.                     *)
CompletedIsTrue ==
    \A r \in Requests : ledger[r].status = "completed" =>
        \/ effects[r] = 1
        \/ KindOf[r] = "execute" /\ hub.executed
        \/ KindOf[r] = "decide" /\ hub.decided

(* A use case that can resume never answers stale to its own work: after a  *)
(* crash between its commit and the ledger's, the request still completes.  *)
ResumeIsRecognised ==
    \A r \in Requests : KindOf[r] = "resolve" /\ ledger[r].status = "stale" => effects[r] = 0

(* No execution rests on an authorization the ledger does not know: the one *)
(* that the dispatcher consumed is recorded first, so a resumed request     *)
(* finds it again instead of asking for another write.                      *)
AuthorizationIsRecorded ==
    \A r \in Requests : KindOf[r] = "execute" /\ effects[r] = 1 => ledger[r].authorized

(* What the ledger has finished stays finished with the same outcome, and   *)
(* Odoo is told nothing else, unless the row can no longer be read.         *)
LedgerIsFinal ==
    [][/\ \A r \in Requests : ledger[r].status \in Terminal => ledger'[r].status = ledger[r].status
       /\ \A c \in ChannelNames :
            form'[c].result # form[c].result /\ form'[c].result # "none" =>
                \/ form'[c].result = ledger[tick.req].status
                \/ tick.outcome = "unread"]_vars

(* What the Hub and Odoo say about a request agrees with what was done.     *)
AnswersAreTrue ==
    RequestTypeOK /\ CompletedIsTrue /\ ResumeIsRecognised /\ AuthorizationIsRecorded

(* Every submission is answered once and for all: whatever the operator     *)
(* submitted, once he stops, no row stays ready, although ticks die, calls  *)
(* fail, a channel is skipped and a newer request replaces the one in work. *)
EverySubmissionIsAnswered ==
    /\ LedgerIsFinal
    /\ (\E c \in ChannelNames : form[c].ready) ~> (\A c \in ChannelNames : ~form[c].ready)
===============================================================================
