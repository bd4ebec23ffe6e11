--------------------------- MODULE ProposalCompiler ---------------------------
(***************************************************************************)
(* From what a provider answers to a proposal: expand_proposal_blueprint   *)
(* (copilot/service.py), under the present rules of compilation.           *)
(*                                                                         *)
(* A blueprint is                                                          *)
(*   [fact, grain, measures, dimensions, kpis, requested]                  *)
(* where grain is the set of words of its description, requested the       *)
(* dimensions of the need, and the others are sequences of                 *)
(*   measures   [name, words, role, column, own, analyst, aggregation]     *)
(*   dimensions [name, source, locked]                                     *)
(*   kpis       [code, words, role, measure, operation]                    *)
(* own is the calculation of the provider and analyst the one that an      *)
(* analyst set on a revision; measure is a position in measures.  A name   *)
(* is given to one measure.                                                *)
(***************************************************************************)
EXTENDS SourceGraph

-----------------------------------------------------------------------------
(* Roles and what a name suggests *)

Money == {"sales_amount", "cost_amount", "discount_amount"}
Magnitudes == Money \cup {"quantity"}
Counts == {"customer_count", "transaction_count"}
Roles == Magnitudes \cup Counts

AggregationsOf(role) ==
    IF role \in Magnitudes THEN {"sum", "average", "min", "max"} ELSE {"count_distinct"}
DefaultAggregation(role) == IF role \in Magnitudes THEN "sum" ELSE "count_distinct"
Adjusted(role, aggregation) ==
    IF aggregation \in AggregationsOf(role) THEN aggregation ELSE DefaultAggregation(role)

Terms == [sales_amount |-> {"amount", "total", "line", "sales", "price"},
          quantity |-> {"quantity"},
          cost_amount |-> {"cost"},
          discount_amount |-> {"discount"},
          customer_count |-> {"customer"},
          transaction_count |-> {"order", "sales", "venta", "transaction", "invoice"}]

Speaks(words, term) == words \cap term # {}

\* What a role declared by the provider counts for.  Taxes and rates have no role.
SemanticRole(words, source, declared) ==
    LET all == words \cup source
    IN  IF \/ Speaks(source, {"tax", "freight"})
           \/ Speaks(words, {"tax", "freight"}) /\ "included" \notin words
           \/ "rate" \in all /\ ~ Speaks(all, {"amount", "total", "sales", "venta"})
                                      THEN "unsupported"
        ELSE IF declared \in Roles     THEN declared
        ELSE IF "customer" \in all     THEN "customer_count"
        ELSE IF "quantity" \in all     THEN "quantity"
        ELSE IF "discount" \in all     THEN "discount_amount"
        ELSE IF "cost" \in all         THEN "cost_amount"
        ELSE "sales_amount"

TransactionAverage(words) ==
    "average" \in words /\ Speaks(words, {"transaction", "order", "invoice"})

RecordCount(words) == Speaks(words, {"line", "detail", "row", "record"})

Supports(role, c) ==
    Speaks(Column[c].words,
           Terms[role] \cup IF role = "customer_count" THEN {"person", "store"} ELSE {})

Rate(c) == "discount" \in Column[c].words /\ ~ Speaks(Column[c].words, {"amount", "total"})
Price(c) == "price" \in Column[c].words /\ "discount" \notin Column[c].words
Quantity(c) == "quantity" \in Column[c].words

-----------------------------------------------------------------------------
(* One measure *)

Direct == [operation |-> "direct", inputs |-> <<>>]
Refused == [operation |-> "refused", inputs |-> <<>>]

\* Mutant: the calculation of the provider goes first.
OwnFirst(m) == IF m.own # Direct THEN m.own ELSE m.analyst

CalculationOf(m) == IF m.analyst # Direct THEN m.analyst ELSE m.own

MeasureRole(m) ==
    LET inputs == Range(CalculationOf(m).inputs)
    IN  SemanticRole(m.words, Words(IF inputs = {} THEN {m.column} ELSE inputs), m.role)

\* A rate is money next to a price and a quantity, or to an amount.
CompleteDiscount(calc) ==
    LET plain == Words({c \in Range(calc.inputs) : ~ Rate(c)})
    IN  /\ calc.operation = "multiply"
        /\ {"price", "quantity"} \subseteq plain \/ "amount" \in plain

\* Price by rate by quantity, when the fact leaves no doubt about any of the three.
DiscountAmount(words, c, fact) ==
    LET numbers == {x \in ColumnsOf(fact) : Column[x].numeric}
        prices  == {x \in numbers : Price(x)}
        counts  == {x \in numbers : Quantity(x)}
    IN  IF /\ Rate(c) /\ Speaks(words, {"discount", "total", "amount"})
           /\ {x \in numbers : Rate(x)} = {c}
           /\ Cardinality(prices) = 1 /\ Cardinality(counts) = 1
        THEN [operation |-> "multiply",
              inputs |-> <<CHOOSE x \in prices : TRUE, c, CHOOSE x \in counts : TRUE>>]
        ELSE Refused

\* The calculation with which a measure goes on.
Corrected(m, role, fact) ==
    LET calc  == CalculationOf(m)
        rates == {i \in DOMAIN calc.inputs : Rate(calc.inputs[i])}
        rate  == IF rates = {} THEN m.column ELSE calc.inputs[Min(rates)]
        fixed == DiscountAmount(m.words, rate, fact)
    IN  IF calc = Direct THEN IF fixed = Refused THEN Direct ELSE fixed
        ELSE IF /\ role \in {"sales_amount", "discount_amount"}
                /\ Rate(rate) /\ ~ CompleteDiscount(calc) THEN fixed
        ELSE calc

\* Mutant: a number is a number.
NumbersMultiply(role, calc, words, fact) ==
    /\ calc.operation \in {"multiply", "add", "subtract", "divide"}
    /\ Len(calc.inputs) \in 2 .. 4
    /\ Range(calc.inputs) \subseteq {c \in ColumnsOf(fact) : Column[c].numeric}

CalculationAllowed(role, calc, words, fact) ==
    LET inputs == Range(calc.inputs)
    IN  /\ calc.operation \in {"multiply", "add", "subtract", "divide"}
        /\ inputs \cap Identifiers(fact) = {}
        /\ ~ (role \in Money /\ TransactionAverage(words))
        /\ Len(calc.inputs) \in 2 .. 4
        /\ calc.operation \in {"subtract", "divide"} => Len(calc.inputs) = 2
        /\ Cardinality(inputs) = Len(calc.inputs)
        /\ inputs \subseteq {c \in ColumnsOf(fact) : Column[c].numeric}

\* The columns of the fact that a role may use.
Candidates(role, fact) ==
    {c \in ColumnsOf(fact) \ (IF role \in Magnitudes THEN Identifiers(fact) ELSE {}) :
        /\ Speaks(Column[c].words, Terms[role])
        /\ role = "transaction_count"
              => ~ Speaks(Column[c].words, {"detail", "line", "quantity"})}

\* The longest name wins, then a total, then the last in the alphabet.
Best(candidates) ==
    LET better(c, d) ==
            LET nc == Cardinality(Column[c].words)  nd == Cardinality(Column[d].words)
                tc == "total" \in Column[c].words   td == "total" \in Column[d].words
            IN  \/ nc > nd
                \/ nc = nd /\ tc /\ ~ td
                \/ nc = nd /\ tc = td /\ Column[c].rank >= Column[d].rank
    IN  CHOOSE c \in candidates : \A d \in candidates : better(c, d)

DirectAllowed(role, c, fact) ==
    Candidates(role, fact) = {}
        => /\ c \in ColumnsOf(fact) /\ Supports(role, c)
           /\ ~ (role \in Magnitudes /\ c \in Identifiers(fact))

DirectColumn(role, c, fact) ==
    LET candidates == Candidates(role, fact)
    IN  IF candidates # {} /\ c \notin candidates THEN Best(candidates) ELSE c

\* A formula that is called a cost or a discount has to have one among its inputs.
FormulaFitsRole(role, calc) ==
    calc # Direct => /\ role = "cost_amount" => "cost" \in Words(Range(calc.inputs))
                     /\ role = "discount_amount" => "discount" \in Words(Range(calc.inputs))

\* How a measure of a blueprint is read: its role, the calculation that was given and
\* the one with which it goes on.
Reading(m, fact) ==
    LET role == MeasureRole(m)
    IN  [name |-> m.name, words |-> m.words, column |-> m.column, role |-> role,
         aggregation |-> Adjusted(role, m.aggregation),
         given |-> CalculationOf(m), calc |-> Corrected(m, role, fact)]

Readings(bp) == [i \in DOMAIN bp.measures |-> Reading(bp.measures[i], bp.fact)]

Acceptable(x) ==
    /\ x.role \in Roles
    /\ ~ (x.role = "transaction_count" /\ RecordCount(x.words))
    /\ FormulaFitsRole(x.role, x.given)
    /\ x.calc # Refused

Kept(x, fact) ==
    /\ Acceptable(x)
    /\ IF x.calc = Direct THEN DirectAllowed(x.role, x.column, fact)
       ELSE CalculationAllowed(x.role, x.calc, x.words, fact)

\* An average per document is left to a KPI, which divides totals.
Deferred(x) ==
    /\ Acceptable(x) /\ x.calc # Direct
    /\ x.role = "sales_amount" /\ TransactionAverage(x.words)

\* The average of the lines is no average per document, and is not called so.
LineAverage == [name |-> "importe_promedio_por_linea", words |-> {"amount", "average", "line", "sales"}]

LineGrain(bp) == Speaks(Table[bp.fact].words \cup bp.grain, {"line", "detail"})

CalledOf(x, byLine) ==
    IF byLine /\ x.role = "sales_amount" /\ x.aggregation = "average" /\ TransactionAverage(x.words)
    THEN LineAverage ELSE [name |-> x.name, words |-> x.words]

CompileMeasure(x, called, fact) ==
    [name |-> called.name, words |-> called.words, role |-> x.role, aggregation |-> x.aggregation,
     operation |-> x.calc.operation,
     inputs |-> IF x.calc = Direct THEN <<DirectColumn(x.role, x.column, fact)>>
                ELSE x.calc.inputs]

\* The positions that have a measure, and the measures.
KeptOf(readings, fact) == {i \in DOMAIN readings : Kept(readings[i], fact)}

CompileMeasures(readings, fact, byLine) ==
    LET measure(x) == CompileMeasure(x, CalledOf(x, byLine), fact)
        compiled[n \in 0 .. Len(readings)] ==
            IF n = 0 THEN <<>>
            ELSE IF Kept(readings[n], fact) THEN Append(compiled[n - 1], measure(readings[n]))
            ELSE compiled[n - 1]
    IN  compiled[Len(readings)]

-----------------------------------------------------------------------------
(* KPI *)

\* The first of the measures at some positions, if there is any.
FirstAt(measures, positions) ==
    {measures[i] : i \in {j \in positions : \A k \in positions : j <= k}}

WithRole(measures, role, aggregation) ==
    FirstAt(measures, {i \in DOMAIN measures : /\ measures[i].role = role
                                              /\ measures[i].aggregation = aggregation})

Sales(measures) == WithRole(measures, "sales_amount", "sum")
Transactions(measures) == WithRole(measures, "transaction_count", "count_distinct")

\* Mutant: positions are those of the blueprint, whatever was left out.
MeasureAt(readings, kept, measures, i) == {measures[j] : j \in {i} \cap DOMAIN measures}

\* What the measure at a position of the blueprint became, if anything.
MeasureOf(readings, kept, measures, i) ==
    IF i \notin DOMAIN readings THEN {}
    ELSE IF i \in kept THEN {measures[Cardinality({j \in kept : j <= i})]}
    ELSE {s \in Sales(measures) : Deferred(readings[i]) /\ Transactions(measures) # {}}

Kpi(code, words, role, kind, args) ==
    [code |-> code, words |-> words, role |-> role, kind |-> kind, args |-> args]

AverageKpi(k) == TransactionAverage(k.words) /\ SemanticRole(k.words, {}, k.role) = "sales_amount"

\* A KPI means what its measure means.
Meets(k, m) ==
    /\ m.role = SemanticRole(k.words, {}, k.role)
    /\ ~ (m.role = "transaction_count" /\ RecordCount(k.words))

\* An average per document needs both totals.
KpiOf(k, m, measures) ==
    IF AverageKpi(k)
    THEN {Kpi(k.code, k.words, m.role, "ratio", <<s.name, t.name>>) :
             s \in Sales(measures), t \in Transactions(measures)}
    ELSE {Kpi(k.code, k.words, m.role, "aggregate",
              <<m.name, IF k.operation \in AggregationsOf(m.role) THEN k.operation
                        ELSE m.aggregation>>)}

\* What becomes of a KPI of the blueprint: one KPI, or none.
CompileKpi(readings, kept, measures, k) ==
    UNION {KpiOf(k, m, measures) : m \in {x \in MeasureOf(readings, kept, measures, k.measure) :
                                             Meets(k, x)}}

\* The same recipe under another name is left out.
Repeated(kpis, k) == \E i \in DOMAIN kpis : /\ kpis[i].kind = k.kind
                                            /\ kpis[i].args = k.args
                                            /\ kpis[i].role = k.role

CompileKpis(kpis, readings, kept, measures) ==
    LET made(k) == CompileKpi(readings, kept, measures, k)
        compiled[n \in 0 .. Len(kpis)] ==
            IF n = 0 THEN <<>>
            ELSE compiled[n - 1]
                   \o SetToSeq({k \in made(kpis[n]) : ~ Repeated(compiled[n - 1], k)})
    IN  compiled[Len(kpis)]

-----------------------------------------------------------------------------
(* Dimensions *)

DimensionTerms == [dim_producto |-> {"product"},
                   dim_cliente |-> {"customer", "person", "store", "party"},
                   dim_territorio |-> {"territory"},
                   dim_fecha |-> {"date"}]

\* How well a table suits a dimension.  The date prefers the document of the fact:
\* the invoice for an invoiced fact, the order or sale for any other.
Score(name, t, fact) ==
    LET terms    == DimensionTerms[name]
        invoiced == "invoice" \in Table[fact].words
        document == IF invoiced THEN {"invoice"} ELSE {"order", "sales", "venta"}
        about    == {c \in ColumnsOf(t) : Speaks(Column[c].words, terms)}
        date     == IF name # "dim_fecha" THEN 0
                    ELSE (IF \E c \in about : Speaks(Column[c].words, document) THEN 80 ELSE 0)
                         + 20 * Cardinality(Table[t].words \cap document)
                         - (IF invoiced /\ "order" \in Table[t].words THEN 100 ELSE 0)
    IN  (IF Table[t].noun \in terms THEN 100 ELSE 0)
        + 30 * Cardinality(Table[t].words \cap terms)
        + 8 * Cardinality(about) - Cardinality(Table[t].words) + date

\* Ties are broken by names, which the model does not have.
BestSource(name, scope, fact) ==
    LET best == Max({Score(name, t, fact) : t \in scope})
    IN  CHOOSE t \in scope : Score(name, t, fact) = best

\* Mutant: a lock is forgotten.
SourceByScore(d, scope, fact) == BestSource(d.name, scope, fact)

SourceOf(d, scope, fact) ==
    IF d.locked /\ d.source \in scope THEN d.source ELSE BestSource(d.name, scope, fact)

First(sequence, otherwise) == IF sequence = <<>> THEN otherwise ELSE sequence[1]

BusinessKey(name, t) ==
    LET columns == Table[t].columns
        keys    == SelectSeq(columns, LAMBDA c : Column[c].pk)
        dates   == SelectSeq(columns, LAMBDA c : "date" \in Column[c].words)
    IN  IF name = "dim_fecha" THEN First(dates, First(keys, columns[1]))
        ELSE First(keys, columns[1])

Descriptive(t) == {c \in ColumnsOf(t) : Column[c].text /\ "name" \in Column[c].words}

\* Where a readable name comes from: the table itself, or tables that stand for a party.
LabelVariants(name, t, scope) ==
    IF Descriptive(t) # {}
    THEN {[table |-> t, left |-> <<>>, right |-> <<>>, columns |-> Descriptive(t)]}
    ELSE {[table |-> k.to, left |-> k.columns, right |-> k.referenced,
           columns |-> Descriptive(k.to)] :
             k \in {r \in RelationsIn(scope) :
                       /\ r.from = t /\ Descriptive(r.to) # {}
                       /\ Speaks(Table[r.to].words \cup Words(Range(r.columns)),
                                 {"party", "person", "store"}
                                   \cup IF name = "dim_cliente" THEN {} ELSE DimensionTerms[name])}}

CompileDimension(name, t, scope) ==
    LET key == BusinessKey(name, t)
        others == SelectSeq(Table[t].columns, LAMBDA c : c # key)
    IN  [name |-> name, source |-> t, key |-> key,
         attributes |-> SubSeq(others, 1, IF Len(others) < 4 THEN Len(others) ELSE 4),
         label |-> IF name = "dim_fecha" THEN {} ELSE LabelVariants(name, t, scope)]

\* Of the dimensions with one name, the first whose source suits the name best.
DimensionOf(bp, name) ==
    LET suits(d) == 10 * Cardinality(Table[d.source].words \cap DimensionTerms[name])
                      - (IF d.source = bp.fact THEN 5 ELSE 0)
        named == {i \in DOMAIN bp.dimensions : bp.dimensions[i].name = name}
        best  == {i \in named : \A j \in named :
                     suits(bp.dimensions[i]) >= suits(bp.dimensions[j])}
    IN  bp.dimensions[Min(best)]

\* A requested dimension that the provider forgot is added if anything suits it.
CompileDimensions(bp, scope) ==
    LET given  == {d.name : d \in Range(bp.dimensions)}
        absent == {n \in bp.requested \ given :
                      Score(n, BestSource(n, scope, bp.fact), bp.fact) > 0}
    IN  {CompileDimension(n, SourceOf(DimensionOf(bp, n), scope, bp.fact), scope) : n \in given}
          \cup {CompileDimension(n, BestSource(n, scope, bp.fact), scope) : n \in absent}

-----------------------------------------------------------------------------
(* The proposal *)

FactKeys(t) ==
    LET keys == SelectSeq(Table[t].columns, LAMBDA c : Column[c].pk)
    IN  IF keys = <<>> THEN <<Table[t].columns[1]>>
        ELSE SubSeq(keys, 1, IF Len(keys) < 4 THEN Len(keys) ELSE 4)

\* The proposal before its KPI.
\* Bound: the sources of the instances have fewer relations than the six that are kept.
Measured(bp, readings, scope) ==
    [fact |-> bp.fact, grain |-> bp.grain, keys |-> FactKeys(bp.fact),
     measures |-> CompileMeasures(readings, bp.fact, LineGrain(bp)),
     dimensions |-> CompileDimensions(bp, scope), joins |-> RelationsIn(scope),
     kpis |-> <<>>, warned |-> FALSE]

\* What is left out is told as a warning.
WithKpis(bp, readings, doc) ==
    LET kept == KeptOf(readings, bp.fact)
    IN  [doc EXCEPT
            !.kpis = CompileKpis(bp.kpis, readings, kept, doc.measures),
            !.warned = \/ kept # DOMAIN bp.measures
                       \/ \E k \in Range(bp.kpis) : CompileKpi(readings, kept, doc.measures, k) = {}]

\* The one document of a blueprint.
Expanded(bp, scope) ==
    UNION {{WithKpis(bp, readings, doc) : doc \in {Measured(bp, readings, scope)}} :
             readings \in {Readings(bp)}}
=============================================================================
