----------------------------- MODULE SourceGraph -----------------------------
(***************************************************************************)
(* The structure of a source, as a metadata snapshot tells it, and the     *)
(* graph of its declared relations.  Every stage walks this graph its own  *)
(* way: the scope of a proposal and its compiler (copilot/service.py), and *)
(* the plan of a load (etl/materializer.py).                               *)
(*                                                                         *)
(* Names are seen as the sets of words that _search_tokens finds in them,  *)
(* with the Spanish and English words of one meaning taken as one word.    *)
(***************************************************************************)
EXTENDS Integers, SequencesExt

CONSTANTS
    Table,        \* table -> [words, noun, columns]: noun is the word it is called by,
                  \*          columns the sequence of its columns
    Column,       \* column -> [words, pk, identifier, numeric, text, rank]: whether it
                  \*           is in the primary key, is called like an identifier, has
                  \*           a numeric or a text type, and its place by name
    ForeignKeys   \* set of [from, columns, to, referenced, audit]

Tables == DOMAIN Table

\* A structure has finitely many tables, with sequences of columns, and relations.
ASSUME StructureAssumption ==
    /\ IsFiniteSet(Tables) /\ IsFiniteSet(ForeignKeys)
    /\ \A t \in Tables : Table[t].columns \in Seq(Range(Table[t].columns))

ColumnsOf(t) == Range(Table[t].columns)

\* A column is of one table: it is known by the table and its name.
ASSUME ColumnsAssumption ==
    \A t, u \in Tables : t # u => ColumnsOf(t) \cap ColumnsOf(u) = {}

TableOf(c) == CHOOSE t \in Tables : c \in ColumnsOf(t)
PrimaryKey(t) == {c \in ColumnsOf(t) : Column[c].pk}
Words(columns) == UNION {Column[c].words : c \in columns}

\* Relations over audit columns join everything with everything: left out.
Relations == {k \in ForeignKeys : ~ k.audit /\ k.to \in Tables}

RelationsIn(scope) == {k \in Relations : {k.from, k.to} \subseteq scope}

\* Declared keys first; names are a fallback.
Identifiers(t) == (UNION {Range(k.columns) : k \in {r \in Relations : r.from = t}})
                    \cup {c \in ColumnsOf(t) : Column[c].pk \/ Column[c].identifier}

\* Each relation can be walked both ways.
Neighbours(t, scope) == {k.to : k \in {r \in RelationsIn(scope) : r.from = t}}
                          \cup {k.from : k \in {r \in RelationsIn(scope) : r.to = t}}

\* The tables at most n steps from t, for every n: a search in breadth.
Within(t, scope) ==
    LET within[n \in 0 .. Cardinality(scope)] ==
            IF n = 0 THEN {t}
            ELSE LET known == within[n - 1]
                 IN  known \cup UNION {Neighbours(u, scope) : u \in known}
    IN  within

Reached == [scope \in SUBSET Tables |-> [t \in Tables |-> Within(t, scope)[Cardinality(scope)]]]
Reachable(t, scope) == Reached[scope][t]

\* The shortest chains of tables from t to u; the code takes the first in the
\* order in which the relations are listed, which the structure does not fix.
Chains(t, u, scope) ==
    LET length == Min({n \in 0 .. Cardinality(scope) : u \in Within(t, scope)[n]})
    IN  {c \in [0 .. length -> scope] :
            /\ c[0] = t /\ c[length] = u
            /\ \A n \in 1 .. length : c[n] \in Neighbours(c[n - 1], scope)}

\* A step that keeps the number of rows: to the parent of a relation, or to a child
\* whose own key is the reference.
KeepsRows(t, u) ==
    \E k \in Relations :
        \/ k.from = t /\ k.to = u
        \/ k.to = t /\ k.from = u /\ PrimaryKey(u) \subseteq Range(k.columns)
=============================================================================
