-------------------------- MODULE ProposalGeneration --------------------------
(***************************************************************************)
(* How versions of a proposal come to be (copilot/router.py): a person has *)
(* a need reviewed against the latest snapshot, asks a provider for a      *)
(* proposal in one or two long calls, and revises what was compiled from   *)
(* the answer.  Decisions on versions are in ProposalLifecycle, the        *)
(* configuration of the provider is in LlmConfigurations.                  *)
(*                                                                         *)
(* The calls of different people share nothing but the tables they append  *)
(* to: one long call is in flight at a time, with captures in between.     *)
(* Revisions are one transaction and a call reads no version once it has   *)
(* begun, so that a revision commutes with its stages: revisions come      *)
(* between calls.  The snapshots of an instance have one structure.        *)
(***************************************************************************)
EXTENDS ProposalValidator, ProposalRevisions, SemanticScope, MartPlan

CONSTANTS
    Needs,          \* need of a person -> the words of its text
    Assessments,    \* need -> sets of requirements that a review of it may find
    Semantics,      \* sequences of concepts that a provider may answer
    Blueprints,     \* blueprints that a provider may answer
    Adjustments,    \* adjustments that a person may ask for
    Exclusions,     \* sets of words of concepts that a person may exclude
    MaxSnapshots, MaxReviews, MaxVersions,
    MaxCalls        \* bounds; the last one is on the versions before a generation

ASSUME SnapshotsAssumption == MaxSnapshots \in Nat \ {0}

\* What a provider answers has the shape that is asked of it; its tables may be any
\* (semantic_response_schema).
ASSUME SemanticsAssumption ==
    \A answer \in Semantics :
        /\ answer \in Seq(Range(answer))
        /\ \A c \in Range(answer) :
              /\ {"words", "refs", "confidence", "selected"} \subseteq DOMAIN c
              /\ c.refs \in Seq(Range(c.refs))

\* A blueprint lists its dimensions, measures and KPI (proposal_blueprint_schema), and an
\* adjustment the names of those that stay.  A calculation that a person sends combines
\* columns; it is never the plain reading of one (ProposalRevision).
IsBlueprint(bp) ==
    /\ {"fact", "dimensions", "measures", "kpis"} \subseteq DOMAIN bp
    /\ bp.dimensions \in Seq(Range(bp.dimensions))
    /\ bp.measures \in Seq(Range(bp.measures)) /\ bp.kpis \in Seq(Range(bp.kpis))
    /\ \A d \in Range(bp.dimensions) : /\ {"name", "source", "locked"} \subseteq DOMAIN d
                                        /\ d.name \in DOMAIN DimensionTerms
    /\ \A m \in Range(bp.measures) :
          {"name", "words", "role", "column", "own", "analyst", "aggregation"} \subseteq DOMAIN m
    /\ \A k \in Range(bp.kpis) : {"code", "words", "role", "measure", "operation"} \subseteq DOMAIN k

ASSUME AnswersAssumption ==
    /\ \A answer \in Blueprints : IsBlueprint(answer)
    /\ \A a \in Adjustments :
          /\ a.dimensions \in Seq(Range(a.dimensions))
          /\ a.measures \in Seq(Range(a.measures)) /\ a.kpis \in Seq(Range(a.kpis))
          /\ \A name \in DOMAIN a.calculations :
                LET calc == a.calculations[name]
                IN  /\ calc.operation # "direct"
                    /\ calc = [operation |-> calc.operation, inputs |-> calc.inputs]
                    /\ calc.inputs \in Seq(Range(calc.inputs)) /\ calc.inputs # <<>>

Recipes == INSTANCE KpiRecipes WITH Null <- None

VARIABLES
    latest,     \* number of the latest snapshot
    reviews,    \* need_reviews: [need, snapshot, requirements]
    call,       \* the long call in flight
    versions    \* bi_proposals, in the order of their ids

vars == <<latest, reviews, call, versions>>

-----------------------------------------------------------------------------
(* A need: requirements are [id, goal, status, components, identities, evidence, by]
   where evidence is a set of tables and by is "rules" or "provider" *)

Pending(requirements) == {r.id : r \in {q \in requirements : q.status \notin Viable}}

CanContinue(requirements) ==
    \A by \in {"rules", "provider"} :
        \E r \in requirements : r.by = by /\ r.status \in Viable

Evidence(requirements) ==
    (UNION {r.evidence : r \in {q \in requirements : q.status \in Viable}}) \cap Tables

AskedWords(need, requirements) ==
    Needs[need] \cup UNION {r.components : r \in requirements}

RequestedDimensions(assessment) ==
    {DimensionNamed[g] : g \in GoalsOf(assessment) \cap DOMAIN DimensionNamed}

InvoiceRequired(assessment) ==
    GoalsOf(assessment) \cap {"invoiced_sales", "invoice_event"} # {}

-----------------------------------------------------------------------------
(* What a provider may answer: proposal_blueprint_schema *)

LineWords == {"line", "detail"}

FactCandidates(concepts, scope, assessment) ==
    LET named    == (UNION {Range(c.refs) : c \in {x \in Chosen(concepts) :
                                 Speaks(x.words, {"sales", "order"})}}) \cap scope
        invoices == {t \in scope : "invoice" \in Table[t].words}
        lines    == {t \in invoices : Speaks(Table[t].words, LineWords)}
    IN  IF InvoiceRequired(assessment) /\ lines # {} THEN lines
        ELSE IF InvoiceRequired(assessment) /\ invoices # {} THEN invoices
        ELSE IF named # {} THEN named ELSE scope

MeasureTerms == {"amount", "total", "quantity", "price", "cost", "tax", "freight", "discount",
                 "customer", "order", "transaction"}

MeasureColumns(facts) ==
    LET all   == UNION {ColumnsOf(t) : t \in facts}
        named == {c \in all : Speaks(Column[c].words, MeasureTerms)}
    IN  IF named # {} THEN named ELSE {c \in all : ~ Column[c].pk /\ Column[c].numeric}

InSchema(bp, concepts, scope, assessment) ==
    LET facts   == FactCandidates(concepts, scope, assessment)
        columns == MeasureColumns(facts)
    IN  /\ bp.fact \in facts
        /\ \A m \in Range(bp.measures) : {m.column} \cup Range(m.own.inputs) \subseteq columns
        /\ \A d \in Range(bp.dimensions) : d.source \in scope

-----------------------------------------------------------------------------
(* Versions *)

\* Before it is compiled, and when that fails, the document of a version is empty.
NoDocument == <<>>

Nothing == [document |-> NoDocument, issues |-> {}, warned |-> FALSE]

\* The stages of a compilation, each over the document of the one before.
Compiled(bp, assessment, scope) ==
    {WithFormulas(doc, GoalsOf(assessment), scope) :
        doc \in {WithMeasures(own, GoalsOf(assessment), scope) : own \in Expanded(bp, scope)}}

Judged(doc, assessment, scope) ==
    [document |-> doc, issues |-> Issues(doc, assessment, scope), warned |-> Warned(doc, assessment)]

\* What a compilation leaves: a judged document, or nothing when a document that
\* cannot be judged ends the request with an error.
Outcomes(bp, assessment, scope) ==
    {Judged(doc, assessment, scope) :
        doc \in {d \in Compiled(bp, assessment, scope) : Judgeable(d)}}

\* Mutant: a warning refuses a version.
StatusStrictly(judged) ==
    IF judged.issues = {} /\ ~ judged.warned THEN "ready_for_review" ELSE "validation_failed"

StatusOf(judged) == IF judged.issues = {} THEN "ready_for_review" ELSE "validation_failed"

NoChange == [kind |-> "generated", adjustment |-> None, dimension |-> None, table |-> None]

Statuses == {"ready_for_review", "validation_failed", "provider_failed"}

Idle == [step |-> "idle"]

Init ==
    /\ latest = 1
    /\ reviews = {}
    /\ call = Idle
    /\ versions = <<>>

CaptureSnapshot ==
    /\ latest < MaxSnapshots
    /\ latest' = latest + 1
    /\ UNCHANGED <<reviews, call, versions>>

-----------------------------------------------------------------------------
(* Reviews *)

BeginReview(n) ==
    /\ call = Idle
    /\ Cardinality(reviews) < MaxReviews
    /\ call' = [step |-> "reviewing", need |-> n, snapshot |-> latest]
    /\ UNCHANGED <<latest, reviews, versions>>

FinishReview(requirements) ==
    /\ call.step = "reviewing"
    /\ requirements \in Assessments[call.need]
    /\ reviews' = reviews \cup {[need |-> call.need, snapshot |-> call.snapshot,
                                 requirements |-> requirements]}
    /\ call' = Idle
    /\ UNCHANGED <<latest, versions>>

-----------------------------------------------------------------------------
(* Generation *)

AssessmentOf(c) == [requirements |-> c.requirements, accepted |-> c.accepted]

\* The concepts of an earlier version are used again, unless invoices are asked for
\* and it has no line of one.
Reused(source, assessment) ==
    /\ source # 0
    /\ versions[source].concepts # <<>>
    /\ InvoiceRequired(assessment) =>
          \E c \in Range(versions[source].concepts) : \E t \in Range(c.refs) :
              "invoice" \in Table[t].words /\ Speaks(Table[t].words, LineWords)

\* Mutant: what a review left open is generated without asking.
AcknowledgedLater(accepted, requirements) == TRUE

Acknowledged(accepted, requirements) == Pending(requirements) \subseteq accepted

\* source is a version of the same snapshot, or 0.
BeginProposal(r, accepted, excluded, source) ==
    /\ call = Idle
    /\ Len(versions) < MaxVersions /\ Len(versions) < MaxCalls
    /\ r.snapshot = latest
    /\ Acknowledged(accepted, r.requirements)
    /\ CanContinue(r.requirements)
    /\ source # 0 => versions[source].snapshot = latest
    /\ LET assessment == [requirements |-> r.requirements, accepted |-> accepted]
       IN  call' = [step |-> IF Reused(source, assessment) THEN "scoping" ELSE "discovering",
                    need |-> r.need, snapshot |-> r.snapshot,
                    requirements |-> r.requirements, accepted |-> accepted,
                    excluded |-> excluded, source |-> source,
                    concepts |-> IF Reused(source, assessment) THEN versions[source].concepts
                                 ELSE <<>>,
                    scope |-> {}]
    /\ UNCHANGED <<latest, reviews, versions>>

ScopeOf(c, concepts) ==
    DerivedScope(concepts, Evidence(c.requirements), AskedWords(c.need, c.requirements))

\* The version that a call leaves.
Insert(c, status, judged, bp) ==
    versions' = Append(versions,
        [status |-> status, snapshot |-> c.snapshot, need |-> c.need, source |-> c.source,
         requirements |-> c.requirements, accepted |-> c.accepted,
         concepts |-> c.concepts, scope |-> c.scope, blueprint |-> bp,
         document |-> judged.document, issues |-> judged.issues, warned |-> judged.warned,
         change |-> NoChange])

\* Without a selected concept there is nothing to ask for.
WithConcepts(concepts) ==
    \E own \in {IF call.source # 0 \/ call.excluded # {} THEN Decided(concepts, call.excluded)
               ELSE concepts} :
        \E next \in {[call EXCEPT !.concepts = own, !.scope = ScopeOf(call, own),
                                  !.step = "composing"]} :
            IF Chosen(own) = {} \/ next.scope = {}
            THEN /\ Insert(next, "validation_failed",
                           [Nothing EXCEPT !.issues = {"semantic_empty"}], None)
                 /\ call' = Idle
            ELSE /\ call' = next
                 /\ UNCHANGED versions

AnswerSemantics(answer) ==
    /\ call.step = "discovering"
    /\ WithConcepts(Concepts(answer))
    /\ UNCHANGED <<latest, reviews>>

ReuseSemantics ==
    /\ call.step = "scoping"
    /\ WithConcepts(call.concepts)
    /\ UNCHANGED <<latest, reviews>>

AnswerBlueprint(answer) ==
    /\ call.step = "composing"
    /\ InSchema(answer, call.concepts, call.scope, AssessmentOf(call))
    /\ \E bp \in {[answer EXCEPT !.requested = RequestedDimensions(AssessmentOf(call))]} :
          \E judged \in Outcomes(bp, AssessmentOf(call), call.scope) :
              Insert(call, StatusOf(judged), judged, bp)
    /\ call' = Idle
    /\ UNCHANGED <<latest, reviews>>

\* A failure of the provider is kept as a version; of a review nothing is kept.
ProviderFails ==
    /\ call.step \in {"reviewing", "discovering", "composing"}
    /\ IF call.step = "reviewing" THEN UNCHANGED versions
       ELSE Insert(call, "provider_failed", [Nothing EXCEPT !.issues = {"provider"}], None)
    /\ call' = Idle
    /\ UNCHANGED <<latest, reviews>>

RequestDies ==
    /\ call # Idle
    /\ call' = Idle
    /\ UNCHANGED <<latest, reviews, versions>>

-----------------------------------------------------------------------------
(* Revisions: one transaction each, by anybody, on the snapshot of the source *)

\* Bound: a revision reads only the version that it starts from, so that revising an
\* earlier one gives what a shorter history gives; the newest one is revised.
Revisable(i) ==
    /\ call = Idle
    /\ i = Len(versions)
    /\ Len(versions) < MaxVersions
    /\ versions[i].document # NoDocument

Revise(i, bp, change) ==
    /\ \E judged \in Outcomes(bp, AssessmentOf(versions[i]), versions[i].scope) :
          versions' = Append(versions,
              [versions[i] EXCEPT !.status = StatusOf(judged), !.source = i, !.blueprint = bp,
                                  !.document = judged.document, !.issues = judged.issues,
                                  !.warned = judged.warned, !.change = change])
    /\ UNCHANGED <<latest, reviews, call>>

ReviseProposal(i, a) ==
    /\ Revisable(i)
    /\ AdjustmentAllowed(versions[i].blueprint, a)
    /\ \E bp \in {Adjust(versions[i].blueprint, a)} :
          Revise(i, bp, [NoChange EXCEPT !.kind = "adjusted", !.adjustment = a])

ReviseRelation(i, d, k) ==
    /\ Revisable(i)
    /\ d \in Names(versions[i].blueprint.dimensions)
    /\ k \in RelationOptions(versions[i].scope)
    /\ \E bp \in {LockSource(versions[i].blueprint, d, k)} :
          Revise(i, bp, [NoChange EXCEPT !.kind = "relation", !.dimension = d, !.table = k.to])

Next ==
    \/ CaptureSnapshot
    \/ \E n \in DOMAIN Needs : BeginReview(n)
    \/ \E requirements \in UNION Range(Assessments) : FinishReview(requirements)
    \/ \E r \in reviews, excluded \in Exclusions, source \in 0 .. Len(versions) :
          \E accepted \in SUBSET Pending(r.requirements) : BeginProposal(r, accepted, excluded, source)
    \/ \E answer \in Semantics : AnswerSemantics(answer)
    \/ ReuseSemantics
    \/ \E answer \in Blueprints : AnswerBlueprint(answer)
    \/ ProviderFails
    \/ RequestDies
    \/ \E i \in DOMAIN versions :
          \/ \E a \in Adjustments : ReviseProposal(i, a)
          \/ \E d \in DOMAIN DimensionTerms, k \in Relations : ReviseRelation(i, d, k)

Spec == Init /\ [][Next]_vars

-----------------------------------------------------------------------------
(* Properties *)

\* A version is never written again here: each is looked at when it is the newest.
Newest == {i \in DOMAIN versions : i = Len(versions) /\ versions[i].document # NoDocument}

\* The states are those of the code; a version is ready for a review exactly when
\* it was compiled without an issue (create_proposal, revise_proposal).
TypeOK ==
    /\ latest \in 1 .. MaxSnapshots
    /\ \A r \in reviews : r.need \in DOMAIN Needs /\ r.snapshot \in 1 .. latest
    /\ call.step \in {"idle", "reviewing", "discovering", "scoping", "composing"}
    /\ \A i \in DOMAIN versions :
          LET v == versions[i]
          IN  /\ v.status \in Statuses /\ v.source \in 0 .. (i - 1) /\ v.scope \subseteq Tables
              /\ v.status = "ready_for_review" <=> v.document # NoDocument /\ v.issues = {}

\* What only the compiler decides: a need that is not covered, a name or a column of
\* little sense is the provider's or the person's doing.
Structural ==
    {"identifier_operand", "record_count_as_transaction", "transaction_average_row_calculation",
     "semantic_aggregation", "column_unknown", "calculation_operation", "calculation_arity",
     "discount_amount_incomplete", "table_out_of_scope", "dimension_column_unknown",
     "display_column_unknown", "display_relation_unknown", "derived_inputs", "formula",
     "semantic_mismatch", "semantic_operation", "record_count", "join_not_declared"}

\* Whatever a provider answers and people revise, the validator finds nothing wrong in
\* the structure of what is compiled and enriched: operands are known, reachable and no
\* identifiers, calculations have their arity, KPI mean what their measures mean
\* (expand_proposal_blueprint and apply_financial_requirements, judged by
\* validate_proposal, which takes none of their decisions as given).
CompiledHoldsTogether == \A i \in Newest : versions[i].issues \cap Structural = {}

MeasureMap(doc) ==
    [n \in {m.name : m \in Range(doc.measures)} |-> Meant(doc, n)]

CanBeLoaded(doc, goals) ==
    LET measures == MeasureMap(doc)
        recipes  == Recipes!Compile(measures, doc.kpis).recipes
    IN  /\ Plannable(doc)
        /\ Recipes!Executable(measures, doc.kpis)
        /\ Recipes!CompleteSelection(goals, doc.kpis, Recipes!RecipeCodes(recipes))

\* A version that may be approved and that readiness does not stop has a plan and
\* recipes, and a selection of KPI that answers all of its financial goals, whenever
\* its dimensions can be reached: the compiler and the validator see the scope, the
\* readiness and the plan the whole snapshot, each with rules of its own
\* (assess_dimensional_readiness, compile_kpi_catalog, build_materialization_plan).
ApprovableCanBeLoaded ==
    \A i \in Newest :
        LET v == versions[i] IN
        /\ v.status = "ready_for_review" /\ ~ Blocked(v.document)
        /\ \A d \in v.document.dimensions : d.source \in Reachable(v.document.fact, Tables)
        => CanBeLoaded(v.document, GoalsOf(AssessmentOf(v)))

CostsOf(t) == {c \in ColumnsOf(t) : "cost" \in Column[c].words}
QuantitiesOf(t) == {c \in ColumnsOf(t) : Quantity(c)}

HasMargin(doc, q, c) ==
    \E k \in Range(doc.kpis), s \in Range(doc.measures), m \in Range(doc.measures) :
        /\ k.kind = "difference" /\ k.args = <<s.name, m.name>>
        /\ s.role = "sales_amount" /\ m.role = "cost_amount"
        /\ m.operation = "multiply" /\ Range(m.inputs) = {q, c}

\* A margin that was asked for, and that the source proves without doubt, is computed
\* even when the provider leaves it out: sales, one quantity in the fact and one cost
\* in the table of the product, however many costs the rest of the source has
\* (apply_financial_requirements: "Materialize proven financial requirements that the
\* provider may have omitted").  A KPI that the provider already calls so is left alone.
ProvenGoalsAreAnswered ==
    \A i \in Newest :
        LET v        == versions[i]
            doc      == v.document
            products == {d.source : d \in {e \in doc.dimensions : e.name = "dim_producto"}}
        IN  \A q \in ColumnsOf(doc.fact), c \in {x \in DOMAIN Column : TableOf(x) \in products},
               own \in Expanded(v.blueprint, v.scope) :
              /\ "gross_margin" \in GoalsOf(AssessmentOf(v))
              /\ Sales(own.measures) # {}
              /\ QuantitiesOf(doc.fact) = {q}
              /\ TableOf(c) \in Reachable(doc.fact, v.scope) /\ CostsOf(TableOf(c)) = {c}
              /\ \A m \in Range(own.measures) : /\ m.role # "cost_amount"
                                                /\ m.role = "quantity" => Range(m.inputs) = {q}
              /\ "margen_bruto" \notin {k.code : k \in Range(own.kpis)}
              => HasMargin(doc, q, c)

\* The measures that stand for a measure of the blueprint: the one that it became, or
\* the total of sales when it is left to a KPI.
StandsFor(own, bp, m) ==
    LET x == Reading(m, bp.fact)
    IN  IF Deferred(x) THEN Sales(own.measures)
        ELSE {y \in Range(own.measures) : y.name = CalledOf(x, LineGrain(bp)).name /\ y.role = x.role}

\* A KPI takes the measure that it was given, also when measures before that one are
\* left out, deferred or reordered by a revision, and what the source proves is added
\* without replacing it (expand_proposal_blueprint's measure_map,
\* apply_financial_requirements).
KpisKeepTheirMeasure ==
    \A i \in Newest :
        LET v  == versions[i]
            bp == v.blueprint
        IN  \A own \in Expanded(bp, v.scope) : \A k \in Range(own.kpis) :
              /\ k \in Range(v.document.kpis)
              /\ k.kind = "aggregate" =>
                    \E given \in Range(bp.kpis) :
                       /\ given.code = k.code /\ given.words = k.words
                       /\ given.measure \in DOMAIN bp.measures
                       /\ \E m \in StandsFor(own, bp, bp.measures[given.measure]) :
                             k.args[1] = m.name

\* A calculation, unless it takes a rate for an amount of money: that one is mended.
Followed(m, calc) ==
    \/ [operation |-> m.operation, inputs |-> m.inputs] = calc
    \/ ~ CompleteDiscount(calc) /\ \E c \in Range(calc.inputs) : Rate(c)

\* An adjustment is followed: each KPI has the measure that was chosen for it, or keeps
\* its own one at its new place, and a measure with a calculation of the person is
\* compiled with that one (apply_analyst_adjustments).
AdjustmentsAreFollowed ==
    \A i \in Newest :
        LET v      == versions[i]
            a      == v.change.adjustment
            source == versions[v.source].blueprint
        IN  v.change.kind = "adjusted" =>
              /\ \A k \in Range(v.blueprint.kpis) :
                    /\ k.measure \in DOMAIN v.blueprint.measures
                    /\ v.blueprint.measures[k.measure].name =
                          IF k.code \in DOMAIN a.measureOf THEN a.measureOf[k.code]
                          ELSE source.measures[source.kpis[KpiAtCode(source, k.code)].measure].name
              /\ \A own \in Expanded(v.blueprint, v.scope) : \A m \in Range(own.measures) :
                    m.name \in DOMAIN a.calculations \ {LineAverage.name} =>
                       Followed(m, a.calculations[m.name])

NamedOnce(items) == \A i, j \in DOMAIN items : items[i].name = items[j].name => i = j

\* A dimension reads the table that a relation gave to it, and keeps its table through
\* every later revision, while it is there (apply_controlled_relationship's
\* source_locked).  Of a name that the provider gave twice the relation locks the first,
\* and the compiler may read the other one (DimensionOf).
DimensionsKeepTheirTable ==
    \A i \in Newest :
        LET v      == versions[i]
            source == versions[v.source]
        IN  v.change.kind # "generated" /\ NamedOnce(source.blueprint.dimensions) =>
              \A d \in v.document.dimensions :
                 d.name \in Names(v.blueprint.dimensions) =>
                    IF v.change.kind = "relation" /\ d.name = v.change.dimension
                    THEN d.source = v.change.table
                    ELSE \A e \in source.document.dimensions : d.name = e.name => d.source = e.source

\* Whatever a person decided is in the version that is compiled from the decision: the
\* measure of a KPI, the measures and calculations of an adjustment, and the table of a
\* dimension, although each version is expanded and compiled from the blueprint again
\* (expand_proposal_blueprint, apply_controlled_relationship).
DecisionsAreKept ==
    /\ KpisKeepTheirMeasure
    /\ AdjustmentsAreFollowed
    /\ DimensionsKeepTheirTable

RestsOn(v, r) ==
    /\ <<r.need, r.snapshot, r.requirements>> = <<v.need, v.snapshot, v.requirements>>
    /\ \A q \in r.requirements :
          q.status \in Viable \/ q.id \in v.accepted

\* Every version rests on a review of its own snapshot, whose gaps were accepted, and
\* the version it starts from is an earlier one of the same snapshot, whatever was
\* captured and inserted while the provider answered (create_proposal, revise_proposal).
RestsOnTheReview ==
    \A i \in DOMAIN versions :
        LET v == versions[i] IN
        /\ \E r \in reviews : RestsOn(v, r)
        /\ v.source # 0 => v.source < i /\ versions[v.source].snapshot = v.snapshot

\* A version may read the chosen tables and all that proves what it has to answer,
\* joined to them within its scope and whatever the limit on its tables (derived_scope).
ScopeHoldsTheEvidence ==
    \A i \in Newest :
        LET v     == versions[i]
            first == SelectedTables(v.concepts)[1]
        IN  /\ Range(SelectedTables(v.concepts)) \subseteq v.scope
            /\ Evidence(v.requirements) \cap Reachable(first, Tables)
                  \subseteq Reachable(first, v.scope) \cap v.scope

\* The fact keeps one row for each row of its table: no join of its load multiplies it
\* (SPR-05-06: "La tabla de hechos conserva una fila por identificador de detalle
\* aprobado y la validación detecta cualquier multiplicación de filas").
GrainIsKept ==
    \A i \in Newest :
        LET v == versions[i] IN
        /\ v.status = "ready_for_review" /\ ~ Blocked(v.document) /\ Plannable(v.document)
        => OneRowEach(v.document)
=============================================================================
