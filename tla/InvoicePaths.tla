------------------------------ MODULE InvoicePaths ------------------------------
(* What can happen to an invoice, side by side: the pipeline of the          *)
(* workbench with the verdict the rules give on every version of its review, *)
(* the mapping endpoints that came before the workbench, and for a return    *)
(* the lookup of the invoice it returns.  They share the invoice and the     *)
(* master data and no other state: a behaviour takes one of them.            *)
EXTENDS InvoiceToBill, ClassificationRules, LegacyDraft, ReturnReference

CONSTANTS
    RuleSets,        \* name |-> the rule records as Odoo returns them
    InitialRules,    \* the name of the ones at the import
    MaxEdits

VARIABLES
    authored,          \* the name of the rule records now in Odoo
    classification,    \* by review version: the evidence, or None
    edits

rulevars == <<authored, classification, edits>>

\* The partner is the one the invoice matched itself, never one an operator
\* accepted; the products are those of the decision.
ClassificationOf(records, product) ==
    LET rules == ListRules(records)
    IN  IF rules = None THEN None
        ELSE Evidence(Classify(rules, Context(inv, PartnerMatch(inv, w), product)))

\* An import or a reclassification raises where the rules cannot be read.
RulesReadable == ListRules(RuleSets[authored]) # None

ClassifiedInit ==
    /\ authored = InitialRules /\ edits = 0
    /\ classification = [v \in Versions |-> IF v = 1 THEN ClassificationOf(RuleSets[InitialRules], review.e.product) ELSE None]

RulesIdle == edits = 0

\* The verdict is recorded with the version, in the same transaction.
RecordClassification ==
    IF review'.version = review.version
    THEN UNCHANGED classification
    ELSE /\ RulesReadable
         /\ classification' = [classification EXCEPT ![review'.version] = ClassificationOf(RuleSets[authored], review'.e.product)]

EditRules ==
    /\ edits < MaxEdits
    /\ \E name \in DOMAIN RuleSets \ {authored} : authored' = name
    /\ edits' = edits + 1
    /\ UNCHANGED <<vars, classification>>

\* Reviews of which only the classification is under way.
ClassifiedOnly == review.pending /\ attempts = 0 /\ preview = None /\ \A v \in Versions : purposes[v] = None

RulesNext ==
    /\ ClassifiedOnly
    /\ \/ EditRules
       \/ (Reclassify \/ SupplierRemediated \/ MasterDataChanges) /\ RecordClassification /\ UNCHANGED <<authored, edits>>

-----------------------------------------------------------------------------
(* The paths                                                                 *)

\* The lookup reads no master data: one state of it stands for all.
OneWorld == now = CHOOSE name \in DOMAIN Worlds : TRUE

PathsInit == PipelineInit /\ ClassifiedInit /\ LegacyInit /\ ReturnInit

PathsNext ==
    \/ /\ LegacyIdle /\ ReturnIdle
       /\ \/ RulesIdle /\ PipelineNext /\ RecordClassification /\ UNCHANGED <<authored, edits>>
          \/ RulesNext
       /\ UNCHANGED <<legacyvars, returnvars>>
    \/ Untouched /\ RulesIdle /\ ReturnIdle /\ LegacyNext(inv, w) /\ UNCHANGED <<vars, rulevars, returnvars>>
    \/ Untouched /\ RulesIdle /\ LegacyIdle /\ OneWorld /\ ReturnNext(inv) /\ UNCHANGED <<vars, rulevars, legacyvars>>

PathsSpec == PathsInit /\ [][PathsNext]_<<vars, rulevars, legacyvars, returnvars>>

-----------------------------------------------------------------------------
(* Properties                                                                *)

Conditions(m) == {f \in DOMAIN m : IF f = "terms" THEN m.terms # {} ELSE m[f] # None}

Orders(records) ==
    {[i \in DOMAIN records |-> records[p[i]]] : p \in {q \in [DOMAIN records -> DOMAIN records] : IsInjective(q)}}

\* A version's verdict is never that of a rule while another rule that matches the invoice and
\* states all of its conditions and more says something else; and where rules are reported in
\* conflict, none of them states all the conditions of another (specificity before priority,
\* application/rules/contracts.py).
MoreSpecificRuleDecides ==
    [][review'.version # review.version =>
        LET e       == classification'[review'.version]
            rules   == ToSet(ListRules(RuleSets[authored]))
            ctx     == Context(inv, PartnerMatch(inv, w), review'.e.product)
            matched == {r \in rules : Matches(r.match, ctx)}
            Beaten(r) == \E s \in matched : Conditions(r.match) \subseteq Conditions(s.match)
                                            /\ Conditions(r.match) # Conditions(s.match)
        IN  \A r \in matched : <<r.id, r.code, r.version>> \in {e.rule} \cup e.conflicts => ~Beaten(r)]_<<vars, rulevars>>

\* The verdict does not depend on the order in which Odoo returns the records: what a code and a
\* version name is one rule, so that the first of several equal winners is always the same.
VerdictIgnoresOrder ==
    [][review'.version # review.version =>
        \A records \in Orders(RuleSets[authored]) :
            ClassificationOf(records, review'.e.product) = classification'[review'.version]]_<<vars, rulevars>>

\* The workbench shows the verdict of every version there is: none was recorded without one,
\* whatever the rules were when it was classified.
EveryVersionIsClassified ==
    \A v \in 1 .. review.version : Projection(classification[v]).status # "UNAVAILABLE"

\* Every version is classified by what the rules say, not by how they are listed.
RulesDecide == []EveryVersionIsClassified /\ MoreSpecificRuleDecides /\ VerdictIgnoresOrder

\* The answer to a lookup of the return invoice at hand is true of the outbox it searched.
LookupIsTrue == LookupIsTrueFor(inv)

=============================================================================
