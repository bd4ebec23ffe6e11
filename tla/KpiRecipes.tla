------------------------------ MODULE KpiRecipes ------------------------------
(***************************************************************************)
(* How KPI become numbers: the recipes that etl/service.py compiles from a *)
(* proposal, their values at the end of a load (etl/materializer.py) and   *)
(* their values on a dashboard (analytics/service.py).                     *)
(*                                                                         *)
(* A number is an exact fraction <<n, d>>, d > 0: rounding is left out.    *)
(* Names of measures are the identifiers of their columns, and codes of    *)
(* KPI live in the same space: a KPI may be called like a measure.         *)
(***************************************************************************)
EXTENDS Integers, SequencesExt

CONSTANT Null   \* SQL's NULL and Python's None

-----------------------------------------------------------------------------
(* Fractions *)

Zero == <<0, 1>>
Whole(n) == <<n, 1>>
IsNumber(x) == x # Null
Same(x, y) == IF IsNumber(x) /\ IsNumber(y) THEN x[1] * y[2] = y[1] * x[2] ELSE x = y
Minus(x, y) == <<x[1] * y[2] - y[1] * x[2], x[2] * y[2]>>
Over(x, y) == IF y[1] > 0 THEN <<x[1] * y[2], x[2] * y[1]>>
                          ELSE <<-(x[1] * y[2]), -(x[2] * y[1])>>
OrZero(x) == IF IsNumber(x) THEN x ELSE Zero

-----------------------------------------------------------------------------
(* Aggregates: what SQL says of one column of a set of rows *)

Operations == {"sum", "average", "count", "count_distinct", "min", "max"}

\* A row maps the names of its measures to a number or NULL, which no aggregate
\* sees; over nothing, a count is 0 and the others are NULL.
Aggregate(operation, m, rows) ==
    LET present == {r \in rows : r.value[m] # Null}
        values  == {r.value[m] : r \in present}
        total   == MapThenFoldSet(+, 0, LAMBDA r : r.value[m],
                                  LAMBDA S : CHOOSE r \in S : TRUE, present)
    IN  IF present = {} /\ operation \notin {"count", "count_distinct"} THEN Null
        ELSE CASE operation = "count"          -> Whole(Cardinality(present))
               [] operation = "count_distinct" -> Whole(Cardinality(values))
               [] operation = "sum"            -> Whole(total)
               [] operation = "average"        -> <<total, Cardinality(present)>>
               [] operation = "min"            -> Whole(Min(values))
               [] OTHER                        -> Whole(Max(values))

-----------------------------------------------------------------------------
(* Compilation: proposal.kpis -> recipes                                   *)
(*                                                                         *)
(* A KPI of a proposal is [code, kind, args]; args is <<measure,           *)
(* operation>> of an aggregate and the two inputs of any other.  measures  *)
(* maps the names of the fact's measures to [aggregation, role].           *)

DerivedKinds == {"difference", "ratio", "share"}

RecipeCodes(recipes) == {recipes[i].code : i \in DOMAIN recipes}

\* The same aggregate of the same measure is kept once, under its first code.
Repeats(recipes, k) == \E i \in DOMAIN recipes :
                          recipes[i].kind = "aggregate" /\ recipes[i].args = k.args

\* An issue makes the proposal ineligible; a repetition is dropped in silence.
CompileOne(measures, acc, k) ==
    LET known == DOMAIN measures \cup RecipeCodes(acc.recipes)
        ok    == \/ /\ k.kind = "aggregate"
                    /\ k.args[1] \in DOMAIN measures
                    /\ k.args[2] \in Operations
                 \/ /\ k.kind \in DerivedKinds
                    /\ Range(k.args) \subseteq known
    IN  IF ~ ok THEN [acc EXCEPT !.issues = @ \cup {k.code}]
        ELSE IF k.kind = "aggregate" /\ Repeats(acc.recipes, k) THEN acc
        ELSE [acc EXCEPT !.recipes = Append(@, k)]

Compile(measures, kpis) ==
    FoldLeft(LAMBDA acc, k : CompileOne(measures, acc, k),
             [recipes |-> <<>>, issues |-> {}], kpis)

Executable(measures, kpis) ==
    /\ Compile(measures, kpis).issues = {}
    /\ Compile(measures, kpis).recipes # <<>>

RequiredOf == [total_cost |-> {"costo_total"},
               gross_margin |-> {"margen_bruto", "margen_porcentaje"},
               cost_per_unit |-> {"costo_por_unidad"},
               sales_per_unit |-> {"venta_por_unidad"}]

\* The KPI that answer the requested outcomes and that the proposal has; the
\* selection is complete when it leaves none of them out.
RequiredCodes(requested, kpis) ==
    (UNION {RequiredOf[g] : g \in requested \cap DOMAIN RequiredOf}) \cap RecipeCodes(kpis)

CompleteSelection(requested, kpis, selected) ==
    RequiredCodes(requested, kpis) \subseteq selected

-----------------------------------------------------------------------------
(* Formulas *)

\* An input that is missing or a denominator of zero leaves the KPI without value.
Derived(kind, x, y) ==
    IF ~ IsNumber(x) \/ ~ IsNumber(y) THEN Null
    ELSE IF kind = "difference" THEN Minus(x, y)
    ELSE IF y[1] = 0 THEN Null
    ELSE IF kind = "share" THEN Over(<<100 * x[1], x[2]>>, y)
    ELSE Over(x, y)

Lookup(values, name) == IF name \in DOMAIN values THEN values[name] ELSE Null

\* The values with one more or another under name; the values, and others elsewhere.
Put(values, name, x) ==
    [n \in DOMAIN values \cup {name} |-> IF n = name THEN x ELSE values[n]]
Completed(values, others) ==
    [n \in DOMAIN values \cup DOMAIN others |->
        IF n \in DOMAIN values THEN values[n] ELSE others[n]]

-----------------------------------------------------------------------------
(* Values at the end of a load: one pass in the order of the selection *)

\* The reconciled totals of the measures, each by its declared aggregation.
TargetTotals(measures, rows) ==
    [m \in DOMAIN measures |-> OrZero(Aggregate(measures[m].aggregation, m, rows))]

LoadValue(recipe, values, totals, rows) ==
    LET input(name) == Lookup(Completed(values, totals), name)
    IN  IF recipe.kind = "aggregate"
        THEN Aggregate(recipe.args[2], recipe.args[1], rows)
        ELSE Derived(recipe.kind, input(recipe.args[1]), input(recipe.args[2]))

LoadValues(measures, recipes, rows) ==
    FoldLeft(LAMBDA values, r :
                 Put(values, r.code, LoadValue(r, values, TargetTotals(measures, rows), rows)),
             <<>>, recipes)

-----------------------------------------------------------------------------
(* Values on a dashboard: aggregates, then measures, then a fixpoint *)

\* Aliases of one calculation are shown once.
Unique(recipes) ==
    FoldLeft(LAMBDA kept, r : IF r.kind = "aggregate" /\ Repeats(kept, r)
                              THEN kept ELSE Append(kept, r), <<>>, recipes)

Aggregates(recipes) == {r \in Range(recipes) : r.kind = "aggregate"}
Derivations(recipes) == Range(recipes) \ Aggregates(recipes)

\* Mutant: the first aggregate of a measure stands for it, whichever it is.
RememberFirst(values, operation, m, x) ==
    IF m \notin DOMAIN values THEN Put(values, m, x) ELSE values

\* A measure is known by the first aggregate met, and by its sum once that is met.
Remember(values, operation, m, x) ==
    IF operation = "sum" \/ m \notin DOMAIN values THEN Put(values, m, x) ELSE values

Card(r, rows) == OrZero(Aggregate(r.args[2], r.args[1], rows))

ByCode(recipes, rows) ==
    FoldLeft(LAMBDA values, r : IF r.kind # "aggregate" THEN values
                                ELSE Put(values, r.code, Card(r, rows)),
             <<>>, recipes)

ByMeasure(recipes, rows) ==
    FoldLeft(LAMBDA values, r : IF r.kind # "aggregate" THEN values
                                ELSE Remember(values, r.args[2], r.args[1], Card(r, rows)),
             <<>>, recipes)

\* A measure that a formula needs and no card shows is aggregated as declared.
WithDependencies(measures, recipes, rows) ==
    LET base    == ByMeasure(recipes, rows)
        needed  == UNION {Range(r.args) : r \in Derivations(recipes)}
        missing == (needed \cap DOMAIN measures)
                     \ (DOMAIN base \cup DOMAIN ByCode(recipes, rows))
    IN  Completed(base, [m \in missing |-> OrZero(Aggregate(measures[m].aggregation, m, rows))])

\* One round over the formulas; a value found is there for the next formula.
Round(byMeasure, recipes, values) ==
    FoldLeft(LAMBDA found, r :
                 LET x == Derived(r.kind, Lookup(Completed(found, byMeasure), r.args[1]),
                                          Lookup(Completed(found, byMeasure), r.args[2]))
                 IN  IF r.kind = "aggregate" \/ r.code \in DOMAIN found \/ ~ IsNumber(x)
                     THEN found ELSE Put(found, r.code, x),
             values, recipes)

\* Mutant: one round, so that the order of the recipes decides.
DashboardValuesOnce(measures, all, rows) ==
    LET recipes == Unique(all)
    IN  Round(WithDependencies(measures, recipes, rows), recipes, ByCode(recipes, rows))

\* As many rounds as there are formulas: then nothing new can be found.
DashboardValues(measures, all, rows) ==
    LET recipes == Unique(all)
        known   == WithDependencies(measures, recipes, rows)
        values[n \in 0 .. Cardinality(Derivations(recipes))] ==
            IF n = 0 THEN ByCode(recipes, rows) ELSE Round(known, recipes, values[n - 1])
    IN  values[Cardinality(Derivations(recipes))]
=============================================================================
