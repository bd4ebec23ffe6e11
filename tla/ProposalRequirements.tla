------------------------- MODULE ProposalRequirements -------------------------
(***************************************************************************)
(* The requirements of a reviewed need and a compiled proposal:            *)
(* apply_financial_requirements adds what the source proves and the        *)
(* provider left out, and build_requirement_coverage tells what of the     *)
(* need the proposal answers (copilot/service.py).                         *)
(*                                                                         *)
(* An assessment is [requirements, accepted]: a set of                     *)
(*   [id, goal, status, components, identities]                            *)
(* and the ids of the gaps that a person accepted.  identities is a set of *)
(* columns, or None when the requirement names none.                       *)
(***************************************************************************)
EXTENDS ProposalCompiler

CONSTANT None   \* what is absent

Viable == {"direct", "derivable"}

GoalsOf(assessment) == {r.goal : r \in {q \in assessment.requirements : q.status \in Viable}}

FinancialGoals == {"discount_amount", "total_cost", "gross_margin", "sales_per_unit",
                   "cost_per_unit", "average_transaction"}

-----------------------------------------------------------------------------
(* Measures that the source proves *)

\* The columns of some tables that have all the words of the first group that any
\* column has.
Matching(groups, tables) ==
    LET found(i) == {c \in UNION {ColumnsOf(t) : t \in tables} : groups[i] \subseteq Column[c].words}
        hits     == {i \in DOMAIN groups : found(i) # {}}
    IN  IF hits = {} THEN {} ELSE found(Min(hits))

\* The first measure of a role.
Of(measures, role) == FirstAt(measures, {i \in DOMAIN measures : measures[i].role = role})

Built(name, words, role, operation) ==
    [name |-> name, words |-> words, role |-> role, aggregation |-> "sum",
     operation |-> operation, inputs |-> <<>>]

QuantityGroups == <<{"order", "quantity"}, {"quantity"}>>
CostGroups == <<{"standard", "cost"}, {"unit", "cost"}, {"product", "cost"}, {"cost"}>>
PriceGroups == <<{"unit", "price"}>>
RateGroups == <<{"unit", "price", "discount"}, {"discount", "rate"}>>
CostGoals == {"total_cost", "gross_margin", "cost_per_unit"}

\* Where a quantity is read: the columns of the first quantity, or of the fact.
QuantityColumns(doc) ==
    LET known == Of(doc.measures, "quantity")
    IN  IF known # {} THEN UNION {Range(m.inputs) : m \in known}
        ELSE Matching(QuantityGroups, {doc.fact})

\* Mutant: a cost is looked for everywhere.
CostOfAnyTable(doc, scope) == Matching(CostGroups, Reachable(doc.fact, scope))

\* A cost is one of the product; then of what is next to the product.
CostColumns(doc, scope) ==
    LET near     == Reachable(doc.fact, scope)
        products == {d.source : d \in {e \in doc.dimensions : e.name = "dim_producto"}} \cap near
        around   == products \cup UNION {Neighbours(t, scope) : t \in products}
        own      == Matching(CostGroups, IF products = {} THEN near ELSE products)
    IN  IF own # {} THEN own
        ELSE Matching(CostGroups, IF products = {} THEN near ELSE around \cap near)

\* Nothing is guessed: a measure is proven by one column for each of its parts.
ProvenBy(parts, m) ==
    IF \A i \in DOMAIN parts : Cardinality(parts[i]) = 1
    THEN {[m EXCEPT !.inputs = [i \in DOMAIN parts |-> CHOOSE c \in parts[i] : TRUE]]}
    ELSE {}

ProvenQuantity(doc) ==
    ProvenBy(<<QuantityColumns(doc)>>, Built("unidades_vendidas", {"quantity"}, "quantity", "direct"))

ProvenCost(doc, goals, scope) ==
    IF goals \cap CostGoals = {} THEN {}
    ELSE ProvenBy(<<QuantityColumns(doc), CostColumns(doc, scope)>>,
                  Built("costo_total", {"cost", "total"}, "cost_amount", "multiply"))

ProvenDiscount(doc, goals) ==
    IF "discount_amount" \notin goals THEN {}
    ELSE ProvenBy(<<{c \in Matching(PriceGroups, {doc.fact}) : "discount" \notin Column[c].words},
                    Matching(RateGroups, {doc.fact}), QuantityColumns(doc)>>,
                  Built("descuento_monetario", {"discount"}, "discount_amount", "multiply"))

\* One measure for a role: the one that is there already, if any.
Ensure(measures, proven) ==
    measures \o SetToSeq({m \in proven : \A x \in Range(measures) : x.role # m.role})

WithMeasures(doc, goals, scope) ==
    IF goals \cap FinancialGoals = {} THEN doc
    ELSE [doc EXCEPT !.measures =
            Ensure(Ensure(Ensure(@, ProvenQuantity(doc)), ProvenCost(doc, goals, scope)),
                   ProvenDiscount(doc, goals))]

-----------------------------------------------------------------------------
(* KPI over them, in the order of the code: x and y are names of inputs, and a
   formula that is costed needs the proof of the cost *)

F(goal, code, words, kind, x, y, costed) ==
    [goal |-> goal, code |-> code, words |-> words, kind |-> kind, x |-> x, y |-> y,
     costed |-> costed]

Formulas ==
    <<F("average_transaction", "importe_promedio_transaccion", {"amount", "average", "transaction"},
        "ratio", "total", "documents", FALSE),
      F("any", "costo_total", {"cost", "total"}, "aggregate", "cost", "cost", TRUE),
      F("gross_margin", "margen_bruto", {"margin"}, "difference", "sales", "cost", TRUE),
      F("gross_margin", "margen_porcentaje", {"margin"}, "share", "margin", "sales", TRUE),
      F("cost_per_unit", "costo_por_unidad", {"cost", "unit"}, "ratio", "cost", "quantity", TRUE),
      F("any", "descuento_monetario", {"discount"}, "aggregate", "discount", "discount", FALSE),
      F("sales_per_unit", "venta_por_unidad", {"sales", "unit"}, "ratio", "sales", "quantity", FALSE)>>

\* The measure that stands for an input, if there is one.
Inputs(measures, x) ==
    CASE x = "total"     -> Sales(measures)
      [] x = "sales"     -> IF Sales(measures) # {} THEN Sales(measures)
                            ELSE Of(measures, "sales_amount")
      [] x = "documents" -> Transactions(measures)
      [] x = "cost"      -> Of(measures, "cost_amount")
      [] x = "discount"  -> Of(measures, "discount_amount")
      [] x = "quantity"  -> Of(measures, "quantity")
      [] x = "margin"    -> {[name |-> "margen_bruto", role |-> "none"]}

\* The KPI of a formula, if it was asked for and its inputs exist.
KpiOfFormula(f, measures) ==
    {Kpi(f.code, f.words, IF f.kind = "aggregate" THEN x.role ELSE "none", f.kind,
         <<x.name, IF f.kind = "aggregate" THEN "sum" ELSE y.name>>) :
        x \in Inputs(measures, f.x), y \in Inputs(measures, f.y)}

\* Nothing is said twice: under the same code, or with the same inputs.
Said(kpis, k) ==
    \E i \in DOMAIN kpis :
        \/ kpis[i].code = k.code
        \/ /\ kpis[i].kind = k.kind
           /\ IF k.kind = "aggregate"
              THEN kpis[i].role = k.role /\ kpis[i].args[1] = k.args[1]
              ELSE kpis[i].args = k.args

WithFormulas(doc, goals, scope) ==
    LET asked(f) == /\ f.goal \in goals \cup {"any"}
                    /\ f.costed => ProvenCost(doc, goals, scope) # {}
        kpis[n \in 0 .. Len(Formulas)] ==
            IF n = 0 THEN doc.kpis
            ELSE kpis[n - 1] \o SetToSeq({k \in KpiOfFormula(Formulas[n], doc.measures) :
                                            asked(Formulas[n]) /\ ~ Said(kpis[n - 1], k)})
    IN  IF goals \cap FinancialGoals = {} THEN doc
        ELSE [doc EXCEPT !.kpis = kpis[Len(Formulas)]]

-----------------------------------------------------------------------------
(* Coverage *)

DimensionNamed == [date |-> "dim_fecha", product |-> "dim_producto",
                   customer |-> "dim_cliente", territory |-> "dim_territorio"]
ComponentRole == [sales_amount |-> <<"sales_amount", "sum">>, quantity |-> <<"quantity", "sum">>,
                  transactions |-> <<"transaction_count", "count_distinct">>]
ComponentTerms == [unit_cost |-> {"cost", "standard"}, unit_price |-> {"price"},
                   discount_rate |-> {"discount", "rate"}]

InvoiceGrain(doc) == "invoice" \in Table[doc.fact].words
InvoiceDocument(doc) ==
    \E m \in Range(doc.measures) :
        m.role = "transaction_count" /\ "invoice" \in Words(Range(m.inputs))

Answers(doc, component) ==
    IF component \in DOMAIN DimensionNamed
    THEN DimensionNamed[component] \in {d.name : d \in doc.dimensions}
    ELSE IF component = "invoice_event" THEN InvoiceGrain(doc) /\ InvoiceDocument(doc)
    ELSE IF component \in DOMAIN ComponentRole
    THEN \E m \in Range(doc.measures) : <<m.role, m.aggregation>> = ComponentRole[component]
    ELSE \E m \in Range(doc.measures) :
            Speaks(m.words \cup Words(Range(m.inputs)), ComponentTerms[component])

\* A goal is materialised by a measure or KPI whose name has a word of each group.
GoalTerms == [discount_amount     |-> {{"discount"}},
              total_cost          |-> {{"cost"}, {"total"}},
              gross_margin        |-> {{"margin"}},
              sales_per_unit      |-> {{"sales"}, {"unit"}},
              cost_per_unit       |-> {{"cost"}, {"unit"}},
              average_transaction |-> {{"average"}, {"transaction", "order", "invoice"}}]

Materialised(doc, goal) ==
    \E x \in Range(doc.measures) \cup Range(doc.kpis) :
        \A group \in GoalTerms[goal] : Speaks(x.words, group)

\* A key is preserved when the fact has it, or a key that declared joins equate to it.
Equal(joins, columns) ==
    LET pairs(k) == {{k.columns[i], k.referenced[i]} : i \in DOMAIN k.columns}
    IN  columns \cup UNION {p \in UNION {pairs(k) : k \in joins} : p \cap columns # {}}

Preserved(doc, c) ==
    LET same[n \in 0 .. Cardinality(doc.joins)] ==
            IF n = 0 THEN {c} ELSE Equal(doc.joins, same[n - 1])
        kept == Range(doc.keys) \cup UNION {Range(m.inputs) :
                    m \in {x \in Range(doc.measures) : x.operation = "direct"}}
    IN  same[Cardinality(doc.joins)] \cap kept # {}

Identified(doc, r) == r.identities # {} /\ \A c \in r.identities : Preserved(doc, c)

Gaps(doc, r) ==
    LET parts == {p \in r.components : ~ Answers(doc, p)}
                    \ IF r.identities # None THEN {"transactions"} ELSE {}
    IN  IF r.goal \notin DOMAIN GoalTerms THEN parts
        ELSE IF Materialised(doc, r.goal) THEN {} ELSE parts \cup {r.goal}

Coverage(doc, r, accepted) ==
    IF r.identities # None /\ ~ Identified(doc, r) THEN "not_covered"
    ELSE IF r.status = "unavailable" /\ r.id \in accepted THEN "accepted_limitation"
    ELSE IF r.status = "ambiguous" /\ r.id \in accepted THEN "human_decision"
    ELSE IF /\ Gaps(doc, r) = {}
            /\ r.components # {} \/ r.identities # None \/ r.goal \in DOMAIN GoalTerms
    THEN "covered" ELSE "not_covered"
=============================================================================
