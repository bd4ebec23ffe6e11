------------------------------- MODULE MartPlan -------------------------------
(***************************************************************************)
(* From an approved document to what a load will read: etl/service.py      *)
(* (assess_dimensional_readiness) and etl/materializer.py                  *)
(* (build_materialization_plan).  The document is the one that             *)
(* ProposalCompiler builds.  The load sees every table of the snapshot,    *)
(* not only those of the proposal's scope.                                 *)
(***************************************************************************)
EXTENDS SourceGraph

-----------------------------------------------------------------------------
(* Readiness: what stops a proposal from being prepared *)

NeedsDimension == [sales_over_time |-> "dim_fecha",
                   top_products |-> "dim_producto",
                   customer_performance |-> "dim_cliente",
                   territory_performance |-> "dim_territorio"]

\* A dimension other than the date reads an entity: one key, something to read in it,
\* and a label.
DimensionBlocked(d) ==
    /\ d.name # "dim_fecha"
    /\ \/ d.key \notin PrimaryKey(d.source)
       \/ Cardinality(PrimaryKey(d.source)) > 1
       \/ ~ \E c \in Range(d.attributes) : Column[c].text /\ ~ Column[c].identifier
       \/ d.label = {}

\* A discount rate is money only when it multiplies a price and a quantity, or an amount.
RateAsMoney(m) ==
    LET inputs == Range(m.inputs)
        plain  == Words({c \in inputs : "discount" \notin Column[c].words})
    IN  /\ m.role \in {"sales_amount", "discount_amount"}
        /\ "discount" \in Words(inputs)
        /\ IF m.operation = "direct"
           THEN Words(inputs) \cap {"amount", "total"} = {}
           ELSE \/ m.operation # "multiply"
                \/ ~ ({"price", "quantity"} \subseteq plain \/ "amount" \in plain)

Blocked(doc) ==
    \/ \E c \in {k.code : k \in Range(doc.kpis)} \cap DOMAIN NeedsDimension :
          NeedsDimension[c] \notin {d.name : d \in doc.dimensions}
    \/ \E d \in doc.dimensions : DimensionBlocked(d)
    \/ "month" \in doc.grain /\ "detail" \in Words(Range(doc.keys))
    \/ \E m \in Range(doc.measures) : RateAsMoney(m)

-----------------------------------------------------------------------------
(* The plan of a load.  A condition that fails ends the load with no mart. *)

\* An identity variant reads the dimension's table, or one that a relation with
\* exactly these columns declares.
VariantDeclared(d, v) ==
    /\ v.columns # {}
    /\ v.columns \subseteq ColumnsOf(v.table)
    /\ \/ v.table = d.source
       \/ \E k \in Relations :
             \/ /\ k.from = d.source /\ k.to = v.table
                /\ k.columns = v.left /\ k.referenced = v.right
             \/ /\ k.to = d.source /\ k.from = v.table
                /\ k.referenced = v.left /\ k.columns = v.right

DimensionPlanned(d, fact) ==
    /\ d.source \in Reachable(fact, Tables)
    /\ \A v \in d.label : VariantDeclared(d, v)

\* Mutant: a measure reads the table of the fact.
MeasurePlannedOfFact(m, fact) == Range(m.inputs) \subseteq ColumnsOf(fact)

MeasurePlanned(m, fact) ==
    /\ IF m.operation = "direct" THEN Len(m.inputs) = 1
       ELSE /\ m.operation \in {"multiply", "add", "subtract", "divide"}
            /\ Len(m.inputs) \in 2 .. 4
            /\ m.operation \in {"subtract", "divide"} => Len(m.inputs) = 2
    /\ \A c \in Range(m.inputs) : TableOf(c) \in Reachable(fact, Tables)

Plannable(doc) ==
    /\ \A d \in doc.dimensions : DimensionPlanned(d, doc.fact)
    /\ \A m \in Range(doc.measures) : MeasurePlanned(m, doc.fact)

\* The tables that the query of the fact joins: a chain to each dimension and to each
\* measure's input, whichever chain the order of the relations picks.
JoinTargets(doc) == {d.source : d \in doc.dimensions}
                      \cup {TableOf(c) : c \in UNION {Range(m.inputs) : m \in Range(doc.measures)}}

JoinChains(doc) == UNION {Chains(doc.fact, t, Tables) : t \in JoinTargets(doc)}

\* Every chain goes towards parents only: one row of the fact stays one row.
OneRowEach(doc) ==
    \A c \in JoinChains(doc) : \A n \in DOMAIN c : n > 0 => KeepsRows(c[n - 1], c[n])
=============================================================================
