-------------------------- MODULE ProposalRevisions --------------------------
(***************************************************************************)
(* What a person may change in a proposal: apply_analyst_adjustments, and  *)
(* the declared relations that may be chosen for a dimension,              *)
(* controlled_relation_catalog and apply_controlled_relationship           *)
(* (copilot/service.py).  Both give a new blueprint, which is compiled     *)
(* again.  An adjustment is                                                *)
(*   [dimensions, measures, kpis, aggregations, calculations, measureOf]   *)
(* the names that stay, in their new order, and what changes by name.      *)
(***************************************************************************)
EXTENDS ProposalCompiler

\* An adjustment finds the last item of a name.
MeasureAtName(bp, name) == SelectLastInSeq(bp.measures, LAMBDA m : m.name = name)
KpiAtCode(bp, code) == SelectLastInSeq(bp.kpis, LAMBDA k : k.code = code)
DimensionAtName(bp, name) == SelectLastInSeq(bp.dimensions, LAMBDA d : d.name = name)

Names(items) == {items[i].name : i \in DOMAIN items}

\* The position, in the source, of the measure of a KPI that stays.
SourceMeasure(bp, a, code) ==
    IF code \in DOMAIN a.measureOf THEN MeasureAtName(bp, a.measureOf[code])
    ELSE bp.kpis[KpiAtCode(bp, code)].measure

\* Only what the source has; a KPI keeps a measure that stays and that means the same.
AdjustmentAllowed(bp, a) ==
    /\ a.dimensions # <<>> /\ Range(a.dimensions) \subseteq Names(bp.dimensions)
    /\ a.measures # <<>> /\ Range(a.measures) \subseteq Names(bp.measures)
    /\ a.kpis # <<>> /\ Range(a.kpis) \subseteq {k.code : k \in Range(bp.kpis)}
    /\ \A code \in Range(a.kpis) :
          /\ code \in DOMAIN a.measureOf => a.measureOf[code] \in Range(a.measures)
          /\ SourceMeasure(bp, a, code) \in {MeasureAtName(bp, name) : name \in Range(a.measures)}
          /\ LET m == bp.measures[SourceMeasure(bp, a, code)]
                 k == bp.kpis[KpiAtCode(bp, code)]
             IN  SemanticRole(k.words, {}, k.role)
                   = SemanticRole(m.words, Column[m.column].words, m.role)

\* A calculation that is sent replaces the one of an earlier revision; one that is not
\* sent is dropped.
MeasureAdjusted(m, a) ==
    LET calc == IF m.name \in DOMAIN a.calculations THEN a.calculations[m.name] ELSE Direct
    IN  [m EXCEPT !.aggregation = IF m.name \in DOMAIN a.aggregations
                                  THEN a.aggregations[m.name] ELSE @,
                  !.analyst = calc,
                  !.column = IF calc = Direct THEN @ ELSE calc.inputs[1]]

\* Mutant: a KPI keeps the position that its measure had.
KpiAdjustedOnly(bp, a, code) == bp.kpis[KpiAtCode(bp, code)]

KpiAdjusted(bp, a, code) ==
    LET m == bp.measures[SourceMeasure(bp, a, code)].name
    IN  [bp.kpis[KpiAtCode(bp, code)] EXCEPT
            !.measure = CHOOSE i \in DOMAIN a.measures : a.measures[i] = m]

Adjust(bp, a) ==
    [bp EXCEPT
        !.dimensions = [i \in DOMAIN a.dimensions |->
                           bp.dimensions[DimensionAtName(bp, a.dimensions[i])]],
        !.measures = [i \in DOMAIN a.measures |->
                         MeasureAdjusted(bp.measures[MeasureAtName(bp, a.measures[i])], a)],
        !.kpis = [i \in DOMAIN a.kpis |-> KpiAdjusted(bp, a, a.kpis[i])]]

-----------------------------------------------------------------------------
(* Declared relations *)

SameType(c, d) == /\ Column[c].numeric = Column[d].numeric
                  /\ Column[c].text = Column[d].text

\* Columns of one type, to columns of the key of the parent.
Eligible(k) ==
    /\ k.columns # <<>> /\ Len(k.columns) = Len(k.referenced)
    /\ \A i \in DOMAIN k.columns : SameType(k.columns[i], k.referenced[i])
    /\ Range(k.referenced) \subseteq PrimaryKey(k.to)

RelationOptions(scope) == {k \in RelationsIn(scope) : Eligible(k)}

\* Mutant: the chosen parent is a hint.
LockLoosely(bp, name, k) == [bp EXCEPT !.dimensions[DimensionAtName(bp, name)].source = k.to]

\* The first dimension of the name reads the parent of the relation.  The relation
\* itself is not kept: a load joins that table along the path that it finds.
LockSource(bp, name, k) ==
    LET i == SelectInSeq(bp.dimensions, LAMBDA d : d.name = name)
    IN  [bp EXCEPT !.dimensions[i] = [@ EXCEPT !.source = k.to, !.locked = TRUE]]
=============================================================================
