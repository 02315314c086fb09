----------------------------- MODULE ExpenseMapping -----------------------------
(* An operator maps the supplier of a review to an expense account: the      *)
(* mapping is committed for the supplier, for every review of it, and then   *)
(* the review is reclassified in a second transaction.  Requests for two     *)
(* reviews of one supplier, and other changes of the reviews, interleave.    *)
EXTENDS Integers, FiniteSets

CONSTANTS
    Unset,               \* an absent value
    MappingRequests, MappedReviews,
    ExpenseAccounts,     \* accounts an operator may send
    MaxMappedVersion

\* What a request may be told.
MappingAnswers == {"resolved", "incomplete", "conflict", "refused", "version conflict",
                   "state conflict", "integrity", "error"}

\* An absent value is no supplier and no answer.
ASSUME UnsetAssumption == Unset # 1 /\ Unset \notin MappingAnswers

ASSUME MappedVersionAssumption == MaxMappedVersion \in Nat

VARIABLES
    mappings,    \* the enabled rows: [id, supplier, account]
    queue,       \* [MappedReviews -> [version, pending, required, supplier, origin, events]]
    mapper       \* [MappingRequests -> [pc, cmd, required, told]]

mappingvars == <<mappings, queue, mapper>>

NoMapper == [pc |-> "idle", cmd |-> Unset, required |-> TRUE, told |-> Unset]

NoSupplierYet == [version |-> 1, pending |-> TRUE, required |-> TRUE, supplier |-> Unset, origin |-> Unset, events |-> {}]

ExpenseInit ==
    /\ mappings = {}
    /\ queue = [r \in MappedReviews |-> NoSupplierYet]
    /\ mapper = [m \in MappingRequests |-> NoMapper]

\* A supplier remediation's effect: the supplier, and how it was accepted.
SupplierAccepted(r) ==
    /\ queue[r].supplier = Unset
    /\ \E origin \in {"match_existing", "one_off_vendor"} :
          queue' = [queue EXCEPT ![r].supplier = 1, ![r].origin = origin]
    /\ UNCHANGED <<mappings, mapper>>

Answer(m, result) == mapper' = [mapper EXCEPT ![m] = [NoMapper EXCEPT !.cmd = mapper[m].cmd, !.told = result]]

SendMapping(m) ==
    /\ mapper[m].pc = "idle"
    /\ \E r \in MappedReviews, v \in 1 .. MaxMappedVersion, a \in ExpenseAccounts :
          /\ v <= queue[r].version
          /\ mapper' = [mapper EXCEPT ![m] = [NoMapper EXCEPT !.pc = "check", !.cmd = [review |-> r, version |-> v, account |-> a]]]
    /\ UNCHANGED <<mappings, queue>>

FindForSupplier(supplier) == {row \in mappings : row.supplier = supplier}

\* Mutation: any mapping of the supplier answers a command sent for an older version.
AlreadyAppliedByAny(cmd) ==
    queue[cmd.review].supplier # Unset /\ FindForSupplier(queue[cmd.review].supplier) # {}

\* A command for an older version was applied if the supplier's mapping is the one it asks for.
AlreadyApplied(cmd) ==
    /\ queue[cmd.review].supplier # Unset
    /\ \E row \in FindForSupplier(queue[cmd.review].supplier) : row.account = cmd.account

Status(required) == IF required THEN "incomplete" ELSE "resolved"

\* Everything a request reads before it writes.
CheckMapping(m) ==
    LET cmd == mapper[m].cmd
        r   == queue[cmd.review]
    IN  /\ mapper[m].pc = "check"
        /\ \/ r.version > cmd.version
              /\ Answer(m, IF AlreadyApplied(cmd) THEN Status(r.required) ELSE "version conflict")
           \/ /\ r.version = cmd.version
              /\ \/ /\ r.pending /\ r.required /\ r.supplier # Unset
                    /\ mapper' = [mapper EXCEPT ![m].pc = "find"]
                 \/ Answer(m, "refused")     \* not eligible, or Odoo does not offer the account
        /\ UNCHANGED <<mappings, queue>>

\* The same mapping is not written twice; another one is refused.
OnboardFind(m) ==
    LET cmd  == mapper[m].cmd
        rows == FindForSupplier(queue[cmd.review].supplier)
    IN  /\ mapper[m].pc = "find"
        /\ IF \E row \in rows : row.account # cmd.account
           THEN Answer(m, "conflict")
           ELSE mapper' = [mapper EXCEPT ![m].pc = IF rows = {} THEN "insert" ELSE "evaluate"]
        /\ UNCHANGED <<mappings, queue>>

\* Mutation: the index lets a second enabled row of a supplier in.
NoActiveIndex(supplier) == TRUE

\* uq_operating_expense_mappings_active_supplier
ActiveSupplierFree(supplier) == FindForSupplier(supplier) = {}

\* Inserted and committed, or refused by the index since the lookup.
OnboardCreate(m) ==
    LET cmd == mapper[m].cmd
        supplier == queue[cmd.review].supplier
    IN  /\ mapper[m].pc = "insert"
        /\ IF ActiveSupplierFree(supplier)
           THEN /\ mappings' = mappings \cup {[id |-> Cardinality(mappings) + 1, supplier |-> supplier, account |-> cmd.account]}
                /\ mapper' = [mapper EXCEPT ![m].pc = "evaluate"]
           ELSE Answer(m, "integrity") /\ UNCHANGED mappings
        /\ UNCHANGED queue

\* Only a supplier matched to an existing partner brings its mapping to the review.
StillRequired(r) ==
    ~(queue[r].origin = "match_existing" /\ FindForSupplier(queue[r].supplier) # {})

Evaluated(m) ==
    /\ mapper[m].pc = "evaluate"
    /\ mapper' = [mapper EXCEPT ![m].pc = "reclassify", ![m].required = StillRequired(mapper[m].cmd.review)]
    /\ UNCHANGED <<mappings, queue>>

\* The account check, the evaluation or the database fails; what is committed stays.
MappingFails(m) ==
    /\ mapper[m].pc \in {"check", "insert", "evaluate", "reclassify"}
    /\ Answer(m, "error")
    /\ UNCHANGED <<mappings, queue>>

\* The process ends, nobody is told.
MappingLost(m) ==
    /\ mapper[m].pc # "idle"
    /\ mapper' = [mapper EXCEPT ![m] = NoMapper]
    /\ UNCHANGED <<mappings, queue>>

\* The version the command was checked at, or the event that left it if that has the same outcome.
ReclassifyMapped(m) ==
    LET cmd == mapper[m].cmd
        r   == queue[cmd.review]
        new == [trigger |-> "master_data_changed", required |-> mapper[m].required, from |-> cmd.version]
    IN  /\ mapper[m].pc = "reclassify"
        /\ \/ r.version # cmd.version
              /\ Answer(m, IF new \in r.events THEN Status(new.required) ELSE "version conflict")
              /\ UNCHANGED queue
           \/ r.version = cmd.version /\ ~r.pending
              /\ Answer(m, "state conflict") /\ UNCHANGED queue
           \/ /\ r.version = cmd.version /\ r.pending
              /\ Answer(m, Status(new.required))
              /\ IF new.required = r.required
                 THEN UNCHANGED queue
                 ELSE /\ r.version < MaxMappedVersion
                      /\ queue' = [queue EXCEPT ![cmd.review].version = @ + 1, ![cmd.review].required = new.required,
                                                ![cmd.review].events = @ \cup {new}]
        /\ UNCHANGED mappings

\* Another reason for the review changed it, or it was decided.
MappedReviewMoves(r) ==
    /\ queue[r].pending
    /\ \/ /\ queue[r].version < MaxMappedVersion
          /\ queue' = [queue EXCEPT ![r].version = @ + 1, ![r].required = StillRequired(r),
                          ![r].events = @ \cup {[trigger |-> "other", required |-> StillRequired(r), from |-> queue[r].version]}]
       \/ ~queue[r].required /\ queue' = [queue EXCEPT ![r].pending = FALSE]
    /\ UNCHANGED <<mappings, mapper>>

ExpenseNext ==
    \/ \E m \in MappingRequests :
          \/ SendMapping(m) \/ CheckMapping(m) \/ OnboardFind(m) \/ OnboardCreate(m)
          \/ Evaluated(m) \/ ReclassifyMapped(m) \/ MappingFails(m) \/ MappingLost(m)
    \/ \E r \in MappedReviews : SupplierAccepted(r) \/ MappedReviewMoves(r)

-----------------------------------------------------------------------------
(* Properties                                                                *)

\* However requests for the reviews of one supplier race, it has one enabled mapping: with two,
\* every later classification of an invoice of that supplier would fail.
OneMappingPerSupplier == \A a, b \in mappings : a.supplier = b.supplier => a = b

\* An operator who was told that the mapping is in place, also by a repeated or late request,
\* finds the account that was asked for in the supplier's mapping, and a review that was told
\* resolved has left the version with the question behind.
ToldIsStored ==
    \A m \in MappingRequests : mapper[m].told \in {"resolved", "incomplete"} =>
        LET cmd == mapper[m].cmd  r == queue[cmd.review] IN
        /\ \E row \in FindForSupplier(r.supplier) : row.account = cmd.account
        /\ mapper[m].told = "resolved" => r.version > cmd.version

\* A repeated command is not refused for what its own lost first attempt committed: the refusal
\* always names a mapping to another account.
ConflictNamesAnother ==
    \A m \in MappingRequests : mapper[m].told = "conflict" =>
        \E row \in FindForSupplier(queue[mapper[m].cmd.review].supplier) : row.account # mapper[m].cmd.account

\* Together: an operator acts on what the answer said, and the answer was true.
MappingAnswersAreTrue == ToldIsStored /\ ConflictNamesAnother

\* A supplier's mapping is one, and what operators were told of it is true.
MappingIsTrue == OneMappingPerSupplier /\ MappingAnswersAreTrue

=============================================================================
