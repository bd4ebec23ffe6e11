-------------------------- MODULE ProposalValidator --------------------------
(***************************************************************************)
(* validate_proposal (copilot/service.py): the issues of a document, each  *)
(* under the code that it has there.  It judges the document from the      *)
(* beginning, with the roles and names it finds in it, and takes nothing   *)
(* of the compiler's word.  Left out are the checks on what the compiler   *)
(* writes as constants (contract, domain, steps of the ETL plan), on free  *)
(* text and on the wording of provenance.                                  *)
(***************************************************************************)
EXTENDS ProposalRequirements

\* What a measure means, from its name and its first column.
JudgedRole(m) == SemanticRole(m.words, Column[m.inputs[1]].words, m.role)

\* A role without aggregations ends the request with an error: nothing is stored.
Judgeable(doc) == \A m \in Range(doc.measures) : JudgedRole(m) \in Roles

\* A column of the scope that the declared relations reach from the fact.
Located(doc, c, scope) ==
    \E t \in scope : c \in ColumnsOf(t) /\ t \in Reachable(doc.fact, scope)

AnyIdentifier(scope) == UNION {Identifiers(t) : t \in scope}

Failed(checks) == {code \in DOMAIN checks : checks[code]}

MeasureChecks(doc, m, scope) ==
    LET role   == JudgedRole(m)
        inputs == Range(m.inputs)
        first  == m.inputs[1]
        plain  == m.operation = "direct"
    IN  [identifier_operand |->
            inputs \cap AnyIdentifier(scope) # {} /\ (~ plain \/ role \in Magnitudes),
         record_count_as_transaction |-> role = "transaction_count" /\ RecordCount(m.words),
         transaction_average_row_calculation |->
            ~ plain /\ role \in Money /\ TransactionAverage(m.words),
         discount_rate_as_amount |->
            plain /\ role \in {"sales_amount", "discount_amount"} /\ Rate(first),
         semantic_source |-> plain /\ ~ Supports(role, first),
         semantic_aggregation |-> m.aggregation \notin AggregationsOf(role),
         transaction_distinct_document |->
            /\ role = "transaction_count"
            /\ \/ m.aggregation # "count_distinct"
               \/ Speaks(Column[first].words, {"detail", "line"})
               \/ ~ Speaks(Column[first].words, {"order", "sales", "transaction", "invoice"}),
         column_unknown |-> \E c \in inputs : ~ Located(doc, c, scope),
         calculation_operation |->
            ~ plain /\ m.operation \notin {"multiply", "add", "subtract", "divide"},
         calculation_arity |->
            /\ ~ plain
            /\ \/ Len(m.inputs) \notin 2 .. 4
               \/ m.operation \in {"subtract", "divide"} /\ Len(m.inputs) # 2,
         discount_amount_incomplete |->
            /\ ~ plain /\ role \in {"sales_amount", "discount_amount"}
            /\ \E c \in inputs : Rate(c)
            /\ ~ CompleteDiscount([operation |-> m.operation, inputs |-> m.inputs])]

MeasureIssues(doc, scope) ==
    UNION {Failed(MeasureChecks(doc, m, scope)) : m \in Range(doc.measures)}

\* The detail's key has to be among the keys of the grain.
DetailKeyMissing(doc) ==
    \E c \in ColumnsOf(doc.fact) \ Range(doc.keys) :
        Speaks(Column[c].words, {"detail", "line"}) /\ "key" \in Column[c].words

DimensionChecks(d, scope) ==
    [table_out_of_scope |-> d.source \notin scope,
     dimension_column_unknown |-> ~ ({d.key} \cup Range(d.attributes) \subseteq ColumnsOf(d.source)),
     display_label_missing |-> d.name # "dim_fecha" /\ d.label = {},
     display_column_unknown |->
        \E v \in d.label : v.columns = {} \/ ~ (v.columns \subseteq ColumnsOf(v.table)),
     display_relation_unknown |->
        \E v \in d.label : /\ v.table # d.source
                           /\ ~ \E k \in Relations : /\ k.from = d.source /\ k.to = v.table
                                                     /\ k.columns = v.left /\ k.referenced = v.right]

DimensionIssues(doc, scope) ==
    UNION {Failed(DimensionChecks(d, scope)) : d \in doc.dimensions}

-----------------------------------------------------------------------------
(* KPI, in their order: a formula may use measures and the KPI before it *)

\* The last measure of a name is the one that is meant.
Meant(doc, name) ==
    LET named == SelectSeq(doc.measures, LAMBDA m : m.name = name)
    IN  named[Len(named)]

Ranked == {"product", "customer", "territory"}

AggregateIssues(doc, k) ==
    LET role      == SemanticRole(k.words, {}, k.role)
        operation == k.args[2]
    IN  {code \in {"grouped_ranking_required", "entity_average", "semantic_mismatch",
                   "semantic_operation", "record_count"} :
            CASE code = "grouped_ranking_required" ->
                    operation = "max" /\ Speaks(k.words, Ranked) /\ "top" \in k.words
              [] code = "entity_average" ->
                    operation = "average" /\ Speaks(k.words, Ranked) /\ "average" \in k.words
              [] code = "semantic_mismatch" -> role # JudgedRole(Meant(doc, k.args[1]))
              [] code = "semantic_operation" -> operation \notin AggregationsOf(role)
              [] OTHER -> role = "transaction_count" /\ RecordCount(k.words)}

JudgeKpi(doc, acc, k) ==
    LET known == [acc EXCEPT !.known = @ \cup {k.code}]
    IN  IF k.kind # "aggregate"
        THEN IF Range(k.args) \subseteq acc.known THEN known
             ELSE [known EXCEPT !.issues = @ \cup {"derived_inputs"}]
        ELSE IF k.args[1] \notin {m.name : m \in Range(doc.measures)}
        THEN [acc EXCEPT !.issues = @ \cup {"formula"}]
        ELSE [known EXCEPT !.issues = @ \cup AggregateIssues(doc, k)]

KpiIssues(doc) ==
    FoldLeft(LAMBDA acc, k : JudgeKpi(doc, acc, k),
             [known |-> {m.name : m \in Range(doc.measures)}, issues |-> {}], doc.kpis).issues

-----------------------------------------------------------------------------
(* The need *)

Uncovered(doc, assessment) ==
    {r \in assessment.requirements :
        r.status \in Viable /\ Coverage(doc, r, assessment.accepted) = "not_covered"}

Invoiced(assessment) == {r.goal : r \in assessment.requirements}
                            \cap {"invoiced_sales", "invoice_event"} # {}

InvoiceDated(doc) ==
    \A d \in doc.dimensions : d.name = "dim_fecha" =>
        "invoice" \in Table[d.source].words \cap Column[d.key].words

NeedIssues(doc, assessment) ==
    {code \in {"requirement_missing", "invoiced_sales_mismatch", "invoice_date_required"} :
        CASE code = "requirement_missing" -> Uncovered(doc, assessment) # {}
          [] code = "invoiced_sales_mismatch" ->
                Invoiced(assessment) /\ ~ (InvoiceGrain(doc) /\ InvoiceDocument(doc))
          [] OTHER -> Invoiced(assessment) /\ ~ InvoiceDated(doc)}

Issues(doc, assessment, scope) ==
    MeasureIssues(doc, scope) \cup DimensionIssues(doc, scope) \cup KpiIssues(doc)
      \cup NeedIssues(doc, assessment)
      \cup (IF DetailKeyMissing(doc) THEN {"detail_key_missing"} ELSE {})
      \cup (IF doc.measures = <<>> THEN {"measure_missing"} ELSE {})
      \cup (IF doc.kpis = <<>> THEN {"kpi_missing"} ELSE {})
      \cup (IF doc.joins \subseteq Relations THEN {} ELSE {"join_not_declared"})

\* A warning does not refuse a proposal; it has to be confirmed when it is approved.
Warned(doc, assessment) ==
    \/ doc.warned
    \/ \E r \in assessment.requirements :
          Coverage(doc, r, assessment.accepted) \in {"accepted_limitation", "human_decision"}
=============================================================================
