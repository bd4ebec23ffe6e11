---------------------------- MODULE SemanticScope ----------------------------
(***************************************************************************)
(* The part of a source that a proposal may use.  A provider associates    *)
(* concepts of the business with tables; what the structure supports is    *)
(* selected (validated_semantic_candidates) and widened by what joins and  *)
(* names it (derived_scope, copilot/service.py).                           *)
(*                                                                         *)
(* A concept is [words, refs, confidence, selected]: refs is the sequence  *)
(* of tables it names, known or not.                                       *)
(***************************************************************************)
EXTENDS SourceGraph

CONSTANT MaxTables   \* PROPOSAL_SCOPE_MAX_TABLES

ASSUME LimitAssumption == MaxTables \in Nat

ConceptTerms == {"product", "customer", "territory", "date"}
Customers == {"customer", "party", "subject", "holder"}
Entities == Customers \cup {"person", "store", "company"}
Staff == {"employee", "vendor", "seller"}

-----------------------------------------------------------------------------
(* Selection *)

\* A key, and a relation with another table.
Supported(t) == PrimaryKey(t) # {} /\ Neighbours(t, Tables) # {}

Recommended(c) ==
    CASE c.confidence = "low"    -> FALSE
      [] c.confidence = "medium" -> \A t \in Range(c.refs) : Supported(t)
      [] OTHER                   -> TRUE

Known(c) == c.refs # <<>> /\ Range(c.refs) \subseteq Tables

\* The concepts of an answer: those that name known tables, each once.
Concepts(answer) ==
    LET concepts[n \in 0 .. Len(answer)] ==
            IF n = 0 THEN <<>>
            ELSE LET before == concepts[n - 1]
                     c      == answer[n]
                 IN  IF \/ ~ Known(c)
                        \/ \E k \in Range(before) :
                               k.words = c.words /\ Range(k.refs) = Range(c.refs)
                     THEN before ELSE Append(before, [c EXCEPT !.selected = Recommended(c)])
    IN  concepts[Len(answer)]

\* A person may decide otherwise, concept by concept.
Decided(concepts, excluded) ==
    [i \in DOMAIN concepts |->
        [concepts[i] EXCEPT !.selected = concepts[i].words \cap excluded = {}]]

Chosen(concepts) == {c \in Range(concepts) : c.selected}

\* A sequence, and then what is not in it yet.
AddNew(sequence, more) ==
    LET added[n \in 0 .. Len(more)] ==
            IF n = 0 THEN sequence
            ELSE LET before == added[n - 1]
                 IN  IF more[n] \in Range(before) THEN before ELSE Append(before, more[n])
    IN  added[Len(more)]

SelectedTables(concepts) ==
    LET found[n \in 0 .. Len(concepts)] ==
            IF n = 0 THEN <<>>
            ELSE LET before == found[n - 1]
                 IN  IF concepts[n].selected THEN AddNew(before, concepts[n].refs) ELSE before
    IN  found[Len(concepts)]

-----------------------------------------------------------------------------
(* Widening *)

\* The tables of a shortest path; none when there is no path.
Path(t, u) ==
    IF u \notin Reachable(t, Tables) THEN <<>>
    ELSE LET chain == CHOOSE c \in Chains(t, u, Tables) : TRUE
         IN  [n \in 1 .. Cardinality(DOMAIN chain) |-> chain[n - 1]]

\* The selected tables, and what joins each of them with the first, up to the limit.
Connected(selected) ==
    LET joined[n \in 0 .. Len(selected)] ==
            IF n = 0 THEN selected
            ELSE AddNew(joined[n - 1], Path(selected[1], selected[n]))
        all == joined[Len(selected)]
    IN  Range(SubSeq(all, 1, IF Len(all) < MaxTables THEN Len(all) ELSE MaxTables))

\* Neighbours that are called like a concept: a table of a customer's orders next to
\* the table of the customer.
NamedLike(concepts) ==
    UNION {LET terms == c.words \cap ConceptTerms
               refs  == {t \in Range(c.refs) : Table[t].noun \notin terms}
           IN  {u \in UNION {Neighbours(t, Tables) : t \in refs} : Table[u].noun \in terms} :
           c \in Chosen(concepts)}

Parents(t) == {k.to : k \in {r \in Relations : r.from = t}}

\* Some of the tables that still fit; the code ranks them by their names.
Fill(scope, more) ==
    LET room  == MaxTables - Cardinality(scope)
        order == SetToSeq(more \ scope)
    IN  IF room <= 0 THEN scope
        ELSE scope \cup Range(SubSeq(order, 1, IF Len(order) < room THEN Len(order) ELSE room))

\* Parents of t whose relation speaks of somebody.
Somebody(t) ==
    {k.to : k \in {r \in Relations :
        r.from = t /\ (Table[r.to].words \cup Words(Range(r.columns))) \cap Entities # {}}}

\* Who a table stands for, at two steps at most and beyond the limit.
Identity(t) == Somebody(t) \cup UNION {Somebody(u) : u \in Somebody(t)}

\* When the need speaks of customers and no concept does: the table near the selected
\* ones that most looks like a customer.
Distance(t, selected) ==
    Min({n \in 0 .. 3 : n = 3 \/ \E s \in selected : t \in Within(s, Tables)[n]})

Told(t) == UNION {Table[k.from].words \cup Words(Range(k.columns) \cup Range(k.referenced)) :
                    k \in {r \in Relations : r.to = t}}

Likeness(t, selected) ==
    LET words == Table[t].words
        texts == {c \in ColumnsOf(t) : Column[c].text /\ "name" \in Column[c].words}
        about == {k \in Relations :
                    /\ k.from = t
                    /\ (Table[k.to].words \cup Words(Range(k.columns))) \cap Entities # {}}
    IN  80 * Cardinality(words \cap Customers) + 18 * Cardinality(words \cap Entities)
        + 70 * Cardinality(Told(t) \cap Customers)
        + 12 * Cardinality(Words(ColumnsOf(t)) \cap Customers)
        + 25 * Cardinality(texts) + 35 * Cardinality(about) - 12 * Distance(t, selected)
        - (IF (words \cup Told(t)) \cap Staff # {} THEN 180 ELSE 0)

CustomerSource(selected) ==
    LET near == {t \in Tables \ selected : Distance(t, selected) <= 2 /\ Likeness(t, selected) > 0}
    IN  IF near = {} THEN {}
        ELSE LET most == Max({Likeness(t, selected) : t \in near})
                 best == CHOOSE t \in near : Likeness(t, selected) = most
             IN  {best} \cup Identity(best)

\* Mutant: the limit is the last word.
WithinLimit(selected, evidence) == {}

\* What proves the viable requirements, with what joins it to the first table.
Proofs(selected, evidence) == UNION {Range(Path(selected[1], t)) : t \in evidence}

\* The scope of a proposal.  evidence is the set of tables that the viable requirements
\* rest on; asked the words of the need.
DerivedScope(concepts, evidence, asked) ==
    LET selected == SelectedTables(concepts)
        chosen   == Range(selected)
        parents  == UNION {Parents(t) : t \in chosen}
        people   == UNION {UNION {Identity(t) : t \in Range(c.refs)} :
                             c \in {x \in Chosen(concepts) : "customer" \in x.words}}
    IN  IF selected = <<>> THEN evidence
        ELSE Fill(Fill(Connected(selected), NamedLike(concepts)), parents)
               \cup people \cup Proofs(selected, evidence)
               \cup (IF asked \cap Customers # {} THEN CustomerSource(chosen) ELSE {})
               \cup chosen
=============================================================================
