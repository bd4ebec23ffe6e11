------------------------------- MODULE SalesMart -------------------------------
(***************************************************************************)
(* What a load copies and what is read from it afterwards.                 *)
(* materialize_sales (etl/materializer.py) reads the dimensions one after  *)
(* the other and then the fact, from a source that its owner keeps         *)
(* changing; build_dashboard and run_safe_aggregate_query                  *)
(* (analytics/service.py) read the mart that the load committed.           *)
(*                                                                         *)
(* One execution of one approved proposal whose plan can be built.  The    *)
(* record of the execution and the requests on it are in EtlExecutions.    *)
(***************************************************************************)
EXTENDS KpiRecipes

CONSTANTS
    Dimensions,   \* the dimensions of the proposal, in the order of the load
    Labelled,     \* those that resolve a descriptive label
    Territory,    \* the one that a dashboard joins besides the date, or Null
    Keys,         \* dimension -> its business keys, as the source stores them
    Named,        \* the keys of entities that have a descriptive name
    Clean,        \* a key -> the key without its outer blanks
    Rows,         \* rows that the fact's table may have
    Measures,     \* names of measures -> [aggregation]
    Proposals,    \* sequences of KPI a proposal may have
    MaxChanges    \* bound on the changes of the source during a load

Date == "dim_fecha"
DimensionNames == Range(Dimensions)
AllKeys == UNION Range(Keys)

ASSUME KeysAssumption == DOMAIN Keys = DimensionNames

ASSUME CleanAssumption ==
    /\ Clean \in [AllKeys -> AllKeys]
    /\ \A k \in AllKeys : Clean[Clean[k]] = Clean[k]

ASSUME RowsAssumption ==
    /\ \A r \in Rows : /\ r.hasKey \in BOOLEAN
                       /\ \A d \in DimensionNames : r.key[d] \in Keys[d] \cup {Null}
                       /\ DOMAIN r.value = DOMAIN Measures
                       /\ \A m \in DOMAIN Measures : r.value[m] \in Int \cup {Null}
    /\ \A r, q \in Rows : r.id = q.id => r = q

\* A KPI has a measure and its operation, or two inputs.
ASSUME ProposalsAssumption ==
    \A kpis \in Proposals : /\ kpis \in Seq(Range(kpis))
                            /\ \A k \in Range(kpis) : DOMAIN k.args = {1, 2}

ASSUME TerritoryAssumption == Territory \in DimensionNames \cup {Null}

ASSUME ChangesAssumption == MaxChanges \in Nat

\* Neither the number of a row nor a value is taken for the absence of one.
ASSUME NullAssumption == Null \notin Nat /\ Null \notin Int \X Int

VARIABLES
    source,     \* [keys : dimension -> set of keys, facts : set of rows]
    changes,    \* how often the source changed since the load began
    execution,  \* [step, kpis, selected, verdict, values]: the record
    read,       \* the rows that the query of the fact returned
    mart        \* [keys : dimension -> sequence of keys, rows : set of rows]

vars == <<source, changes, execution, read, mart>>

-----------------------------------------------------------------------------

\* A row of the mart has, for each dimension, the number of the dimension's row.
MartRow(r, numbers) == [row |-> r.id, sk |-> numbers, value |-> r.value]

Fits(r) == \A d \in DimensionNames : r.key[d] \in source.keys[d] \cup {Null}

Steps == {"new", "prepared", "dimensions", "fact", "loaded", "failed"}

EmptyMart == [keys |-> <<>>, rows |-> {}]

Init ==
    /\ source \in [keys : {k \in [DimensionNames -> SUBSET AllKeys] :
                              \A d \in DimensionNames : k[d] \subseteq Keys[d]},
                   facts : SUBSET Rows]
    /\ IsFiniteSet(source.facts)
    /\ \A r \in source.facts : Fits(r)
    /\ changes = 0
    /\ execution \in [step : {"new"}, kpis : Proposals, selected : {<<>>},
                      verdict : {FALSE}, values : {<<>>}]
    /\ read = {}
    /\ mart = EmptyMart

TypeOK ==
    /\ \A d \in DimensionNames : source.keys[d] \subseteq Keys[d]
    /\ source.facts \subseteq Rows
    /\ changes \in 0 .. MaxChanges
    /\ execution.step \in Steps
    /\ execution.kpis \in Proposals
    /\ RecipeCodes(execution.selected) \subseteq RecipeCodes(execution.kpis)
    /\ execution.verdict \in BOOLEAN
    /\ DOMAIN execution.values \subseteq RecipeCodes(execution.selected)
    /\ read \subseteq Rows
    /\ \A d \in DOMAIN mart.keys : mart.keys[d] \in Seq(Keys[d])
    /\ \A r \in mart.rows, d \in DimensionNames :
          r.sk[d] \in DOMAIN mart.keys[d] \cup {Null}

-----------------------------------------------------------------------------
(* The owner of the source.  A foreign key is NULL or refers to a row. *)

Loading == execution.step \in {"dimensions", "fact"}

Change(new) ==
    /\ Loading
    /\ changes < MaxChanges
    /\ source' = new
    /\ changes' = changes + 1
    /\ UNCHANGED <<execution, read, mart>>

InsertKey(d, k) ==
    /\ k \notin source.keys[d]
    /\ Change([source EXCEPT !.keys[d] = @ \cup {k}])

InsertFact(r) ==
    /\ r \notin source.facts
    /\ Fits(r)
    /\ Change([source EXCEPT !.facts = @ \cup {r}])

DeleteFact(r) ==
    /\ r \in source.facts
    /\ Change([source EXCEPT !.facts = @ \ {r}])

-----------------------------------------------------------------------------
(* The load *)

\* A code that is sent stands for the last recipe of that code, and stands once.
Available(recipes) ==
    {recipes[i] : i \in {j \in DOMAIN recipes :
                            \A l \in DOMAIN recipes : recipes[l].code = recipes[j].code => l <= j}}

Selections(recipes) ==
    UNION {{s \in [1 .. n -> Available(recipes)] : IsInjective(s)} : n \in 1 .. Len(recipes)}

\* prepare_execution keeps the KPI in the order in which they were sent.
Prepare ==
    /\ execution.step = "new"
    /\ Executable(Measures, execution.kpis)
    /\ \E s \in Selections(Compile(Measures, execution.kpis).recipes) :
          execution' = [execution EXCEPT !.step = "prepared", !.selected = s]
    /\ UNCHANGED <<source, changes, read, mart>>

Begin ==
    /\ execution.step = "prepared"
    /\ execution' = [execution EXCEPT !.step = "dimensions"]
    /\ UNCHANGED <<source, changes, read, mart>>

\* One row for each key, blanks aside: the first that is read, in whatever order
\* the source returns them.
Deduplications(keys) ==
    {kept \in UNION {[1 .. n -> keys] : n \in 0 .. Cardinality(keys)} :
        /\ \A i, j \in DOMAIN kept : Clean[kept[i]] = Clean[kept[j]] => i = j
        /\ \A k \in keys : \E i \in DOMAIN kept : Clean[kept[i]] = Clean[k]}

\* Fewer than 95% of the entities have a name; an empty dimension has none.
Nameless(keys) == keys = {} \/ 20 * Cardinality(keys \cap Named) < 19 * Cardinality(keys)

\* The dimension whose turn it is: the first that has not been read.
Due(i) ==
    /\ Dimensions[i] \notin DOMAIN mart.keys
    /\ \A j \in 1 .. (i - 1) : Dimensions[j] \in DOMAIN mart.keys

ReadDimension(i) ==
    LET d == Dimensions[i] IN
    /\ execution.step = "dimensions"
    /\ Due(i)
    /\ ~ (d \in Labelled /\ Nameless(source.keys[d]))
    /\ \E kept \in Deduplications(source.keys[d]) :
          mart' = [mart EXCEPT !.keys = [e \in DOMAIN mart.keys \cup {d} |->
                                            IF e = d THEN kept ELSE mart.keys[e]]]
    /\ execution' = IF DOMAIN mart'.keys = DimensionNames
                    THEN [execution EXCEPT !.step = "fact"] ELSE execution
    /\ UNCHANGED <<source, changes, read>>

\* The mart's transaction is rolled back: labels that do not resolve, the source
\* or the mart that does not answer.
LoadFails ==
    /\ Loading
    /\ execution' = [execution EXCEPT !.step = "failed"]
    /\ mart' = EmptyMart
    /\ UNCHANGED <<source, changes, read>>

\* Mutant: the rows of a dimension are numbered from zero.
NumberFromZero(d, key) ==
    LET at == {i \in DOMAIN mart.keys[d] : key # Null /\ Clean[mart.keys[d][i]] = Clean[key]}
    IN  IF at = {} THEN Null ELSE (CHOOSE i \in at : TRUE) - 1

\* Mutant: the key of the fact keeps its blanks.
NumberOfRawKey(d, key) ==
    LET at == {i \in DOMAIN mart.keys[d] : mart.keys[d][i] = key}
    IN  IF at = {} THEN Null ELSE CHOOSE i \in at : TRUE

\* The number of the row of dimension d for a key; NULL when it is not there.
Number(d, key) ==
    LET at == {i \in DOMAIN mart.keys[d] : key # Null /\ Clean[mart.keys[d][i]] = Clean[key]}
    IN  IF at = {} THEN Null ELSE CHOOSE i \in at : TRUE

Accepted(rows) == {r \in rows : r.hasKey}

Stored(rows) == {MartRow(r, [d \in DimensionNames |-> Number(d, r.key[d])]) : r \in rows}

\* The rows are totalled while they are read, and by SQL after they are stored.
Reconciled(rows, stored) ==
    /\ Accepted(rows) = rows
    /\ Cardinality(stored) = Cardinality(rows)
    /\ \A m \in DOMAIN Measures :
          Same(TargetTotals(Measures, Accepted(rows))[m], TargetTotals(Measures, stored)[m])

ReadFact ==
    LET stored == Stored(Accepted(source.facts)) IN
    /\ execution.step = "fact"
    /\ read' = source.facts
    /\ mart' = [mart EXCEPT !.rows = stored]
    /\ execution' = [execution EXCEPT
                        !.step = "loaded",
                        !.verdict = Reconciled(source.facts, stored),
                        !.values = LoadValues(Measures, execution.selected, stored)]
    /\ UNCHANGED <<source, changes>>

Next ==
    \/ \E d \in DimensionNames : \E k \in Keys[d] : InsertKey(d, k)
    \/ \E r \in Rows : InsertFact(r) \/ DeleteFact(r)
    \/ \E i \in DOMAIN Dimensions : ReadDimension(i)
    \/ Prepare \/ Begin \/ ReadFact \/ LoadFails

Spec == Init /\ [][Next]_vars

-----------------------------------------------------------------------------
(* Readers of the mart *)

\* A dashboard is built for a reconciled execution with rows and one card.
HasDashboard ==
    /\ execution.step = "loaded"
    /\ execution.verdict
    /\ mart.rows # {}
    /\ Date \in DimensionNames
    /\ Aggregates(execution.selected) # {}

Anything == [year |-> Null, territory |-> Null]
Filters == [year : {Null} \cup {Clean[k] : k \in AllKeys},
            territory : {Null} \cup {Clean[k] : k \in AllKeys}]

KeyOf(r, d) == Clean[mart.keys[d][r.sk[d]]]

\* Inner joins: a row without the number of its dimension is not seen at all.
Joined(names) == {r \in mart.rows : \A d \in names : r.sk[d] # Null}

Shown(filter) ==
    {r \in Joined({Date, Territory} \cap DimensionNames) :
        /\ filter.year # Null => KeyOf(r, Date) = filter.year
        /\ filter.territory # Null /\ Territory # Null
              => KeyOf(r, Territory) = filter.territory}

Dashboard(filter) == DashboardValues(Measures, execution.selected, Shown(filter))

\* The values of a KPI by the members of a dimension, and the part of each in the
\* total of those that are listed: add_ranking.
Groups(rows, d) == {KeyOf(r, d) : r \in rows}
Grouped(k, rows, d) == [g \in Groups(rows, d) |-> Card(k, {r \in rows : KeyOf(r, d) = g})]

Ranking(k, d, filter) ==
    LET rows  == Shown(filter) \cap Joined({d})
        value == Grouped(k, rows, d)
        total == MapThenFoldSet(LAMBDA x, y : Minus(x, Minus(Zero, y)), Zero,
                                LAMBDA g : value[g],
                                LAMBDA S : CHOOSE g \in S : TRUE, DOMAIN value)
    IN  [g \in DOMAIN value |-> [value |-> value[g],
                                 share |-> Derived("share", value[g], total)]]

\* Mutant: the part is of everything in the mart.
AnswerOfAll(k, d, filter) ==
    LET rows  == Joined({d})
        value == Grouped(k, rows, d)
    IN  [g \in DOMAIN value |-> [value |-> value[g],
                                 share |-> Derived("share", value[g], Card(k, mart.rows))]]

\* A question with a filter that the proposal has no dimension for is refused.
Answerable(filter) == filter.territory # Null => Territory # Null

\* The same by run_safe_aggregate_query: it joins what the question names, and the
\* part is of everything that passes the filter.
Answer(k, d, filter) ==
    LET joins == {d} \cup {e \in {Date} : filter.year # Null}
                     \cup {e \in {Territory} : filter.territory # Null}
        rows  == {r \in Joined(joins) :
                    /\ filter.year # Null => KeyOf(r, Date) = filter.year
                    /\ filter.territory # Null => KeyOf(r, Territory) = filter.territory}
        value == Grouped(k, rows, d)
    IN  [g \in DOMAIN value |-> [value |-> value[g],
                                 share |-> Derived("share", value[g], Card(k, rows))]]
-----------------------------------------------------------------------------
(* Properties *)

\* A row of the mart refers to the dimension row of its own key and to no other, and
\* finds it whenever the source stood still during the load; blanks around a key, or
\* two keys that differ in blanks only, make no difference (materialize_sales).
KeysResolve ==
    execution.step = "loaded" =>
        \A m \in mart.rows : \A r \in read : m.row = r.id =>
            \A d \in DimensionNames :
                IF m.sk[d] = Null THEN changes = 0 => r.key[d] = Null
                ELSE r.key[d] # Null /\ KeyOf(m, d) = Clean[r.key[d]]

\* Every row has a date and a territory, so that no join hides it.
AllPlaced == Joined({Date, Territory} \cap DimensionNames) = mart.rows

\* A formula follows the KPI it reads, and none of them is left out.
InOrder(recipes) ==
    \A i \in DOMAIN recipes : recipes[i].kind # "aggregate" =>
        \A x \in Range(recipes[i].args) \ DOMAIN Measures :
            \E j \in 1 .. (i - 1) : recipes[j].code = x

\* The cards of a measure show it as the fact declares it, a sum next to other cards and
\* anything else alone, and there is some number to show.
MeasuresShown(recipes, rows) ==
    \A r \in Aggregates(recipes) :
        LET declared == Measures[r.args[1]].aggregation
            shown    == {q.args[2] : q \in {k \in Aggregates(recipes) : k.args[1] = r.args[1]}}
        IN  /\ declared \in shown
            /\ declared = "sum" \/ shown = {declared}
            /\ \E m \in rows : m.value[r.args[1]] # Null

\* No two KPI have one code, and one that is called like a measure is that measure, as
\* the fact declares it.
NamesApart(kpis) ==
    /\ \A i, j \in DOMAIN kpis : kpis[i].code = kpis[j].code => i = j
    /\ \A k \in Range(kpis) : k.code \in DOMAIN Measures =>
          k.kind = "aggregate" /\ k.args = <<k.code, Measures[k.code].aggregation>>

\* The selected recipes as the proposal lists them: formulas after their inputs.
Listed(kpis, selected) ==
    FoldLeft(LAMBDA kept, k : IF k \in selected THEN Append(kept, k) ELSE kept, <<>>, kpis)

AsProposed == Listed(execution.kpis, Range(execution.selected))

SameKpi(x, y) ==
    \A c \in RecipeCodes(execution.selected) : Same(Lookup(x, c), Lookup(y, c))

\* A dashboard recalculates under any filter, and in whatever order the KPI were
\* selected, what a load of the filtered rows would have computed in the order of the
\* proposal; without a filter it repeats the values that the load stored, if those
\* were computed in order (_resolve_kpi_values, materialize_sales; SPR-04-02: "Un
\* KPI derivado conserva valor en ETL, filtros, dashboard").  Both resolve formulas in
\* their own way.  The cards have to show the measures as they are declared: an average
\* that is the only card of a measure stands for it; and a KPI that is called like another
\* measure is taken for it, in a load only once it has been computed.
DashboardKeepsTheLoad ==
    HasDashboard /\ NamesApart(execution.kpis) =>
        /\ \A f \in Filters : MeasuresShown(execution.selected, Shown(f)) =>
              SameKpi(Dashboard(f), LoadValues(Measures, AsProposed, Shown(f)))
        /\ /\ AllPlaced
           /\ InOrder(execution.selected)
           /\ MeasuresShown(execution.selected, mart.rows)
           => SameKpi(Dashboard(Anything), execution.values)

\* The ranking of a dashboard and the answer to a question about the same KPI,
\* dimension and filter tell the same values and parts, when the question can be
\* answered and no row lacks a date or a territory (add_ranking,
\* run_safe_aggregate_query).
AnswersAgree ==
    HasDashboard /\ AllPlaced =>
        \A k \in Range(execution.selected), d \in DimensionNames, f \in Filters :
            k.kind = "aggregate" /\ k.args[2] = "sum" /\ Answerable(f) =>
                LET ranking == Ranking(k, d, f)
                    answer  == Answer(k, d, f)
                IN  /\ DOMAIN ranking = DOMAIN answer
                    /\ \A g \in DOMAIN ranking :
                          /\ Same(ranking[g].value, answer[g].value)
                          /\ Same(ranking[g].share, answer[g].share)
=============================================================================
