----------------------------- MODULE AskSemantics -----------------------------
(***************************************************************************)
(* From the words of a question to fields of the published graph: the      *)
(* GraphSemanticRetriever and the SemanticGrounder.                        *)
(*                                                                         *)
(* A graph maps every published source to its revision: a version and its  *)
(* objects, fields and relationships.  An asset is a governed definition   *)
(* bound to them, by their identity in the graph or (before there was one) *)
(* by name.  Words are compared through two relations: equality, and       *)
(* Longer for an expression that contains a shorter one.  A score is       *)
(* reduced to the three levels the order of candidates turns on.  A        *)
(* candidate and its binding are the record of an asset with what is known *)
(* of them by then; a binding is for its own name unless for a term, and   *)
(* its order says when it was bound.                                       *)
(***************************************************************************)
EXTENDS Integers, FiniteSets, SequencesExt, Places

CONSTANTS
    None,
    Longer,     \* <<long, short>>: the first expression contains the second
    Rank,       \* the order of strings: of asset ids and of business terms
    Limit       \* candidates a retrieval returns

Question == "question"   \* the phrase that is the whole text

-----------------------------------------------------------------------------
(* What the question says *)

Subjects(q) == {q.filters[i].subject : i \in DOMAIN q.filters}

Derived(q) == {q.derivations[i].metric : i \in DOMAIN q.derivations}

\* _query_phrases(): the text of a filter is its value, or its list of values, in words.
Phrases(q) == {Question} \cup ToSet(q.metrics) \cup ToSet(q.dimensions)
                  \cup ToSet(q.entities) \cup Subjects(q)
                  \cup {q.filters[i].text : i \in DOMAIN q.filters} \cup ({q.time} \ {None})

\* A phrase of q contains an expression; q.words are those its text contains.
Says(q, phrase, word) ==
    \/ phrase = word
    \/ <<phrase, word>> \in Longer
    \/ phrase = Question /\ word \in q.words

\* _matched_phrases()
Addressing(q, labels) == {p \in Phrases(q) : \E l \in labels : Says(q, p, l)}

-----------------------------------------------------------------------------
(* The graph and the assets of one read *)

Read(graph, scope) ==
    LET sources == IF scope = None THEN DOMAIN graph ELSE {scope} \cap DOMAIN graph
    IN [sources |-> sources,
        objects |-> UNION {graph[s].objects : s \in sources},
        fields |-> UNION {graph[s].fields : s \in sources},
        relationships |-> UNION {graph[s].relationships : s \in sources},
        version |-> [s \in sources |-> graph[s].version]]

\* One revision is meaningful only if the read has one source.
ScanVersion(read, scope) ==
    IF scope \in read.sources THEN read.version[scope]
    ELSE IF scope = None /\ Cardinality(read.sources) = 1
    THEN read.version[CHOOSE s \in read.sources : TRUE]
    ELSE 0

\* A slip of Materials: whatever nobody has deprecated.
MaterialsOfAnyStatus(assets, scope) ==
    {a \in assets : scope = None \/ a.source = scope \/ a.kind = "alias"}

Materials(assets, scope) ==
    {a \in assets : /\ a.status \in {"approved", "published"}
                    /\ scope = None \/ a.source = scope \/ a.kind = "alias"}

\* match_object(): by identity, never falling back to the name.
MatchObject(read, m) ==
    {o \in read.objects : IF m.object # None THEN o.id = m.object
                          ELSE o.source = m.source /\ o.name = m.objectName}

MatchField(read, m, o) ==
    {f \in read.fields : /\ f.object = o.id
                         /\ IF m.field # None THEN f.id = m.field ELSE f.path = m.path}

Labels(m, materials) ==
    {m.name} \cup m.aliases \cup
        UNION {{a.name} \cup a.aliases : a \in {x \in materials : x.kind = "alias"
                                                               /\ x.target = m.id}}

\* _material_asset(): a definition whose binding the graph confirms, exactly once,
\* or nothing.
MaterialAsset(read, materials, m) ==
    LET objects == MatchObject(read, m)
        o == CHOOSE x \in objects : TRUE
        fields == MatchField(read, m, o)
        f == CHOOSE x \in fields : TRUE
        named == m.field # None \/ m.path # None
    IN IF /\ m.kind # "alias" /\ m.source \in read.sources
          /\ Cardinality(objects) = 1 /\ o.source = m.source
          /\ named => Cardinality(fields) = 1
          /\ m.kind \in {"metric", "dimension"} => named
       THEN {[type |-> m.kind, id |-> m.id, name |-> m.name, labels |-> Labels(m, materials),
              source |-> o.source, object |-> o.id, path |-> IF named THEN f.path ELSE None,
              dtype |-> IF named THEN f.type ELSE None,
              aggregation |-> m.aggregation, axis |-> m.axis, migration |-> m.object = None,
              phrases |-> {}, score |-> 0, term |-> m.name, axisOf |-> FALSE, order |-> 0]}
       ELSE {}

Physical(type, id, name, source, object, path, dtype) ==
    [type |-> type, id |-> id, name |-> name, labels |-> {name}, source |-> source,
     object |-> object, path |-> path, dtype |-> dtype, aggregation |-> None,
     axis |-> FALSE, migration |-> FALSE, phrases |-> {}, score |-> 0,
     term |-> name, axisOf |-> FALSE, order |-> 0]

PhysicalAssets(read) ==
    {Physical("object", o.id, o.name, o.source, o.id, None, None) : o \in read.objects}
    \cup {Physical("field", f.id, f.path, f.source, f.object, f.path, f.type) : f \in read.fields}
    \cup {Physical("relationship", r.id, r.id, r.source, None, None, None)
             : r \in read.relationships}

-----------------------------------------------------------------------------
(* Candidates *)

Scored(q, a) ==
    LET phrases == Addressing(q, a.labels) IN
    [a EXCEPT !.phrases = phrases,
              !.score = IF phrases \cap a.labels # {} THEN 2 ELSE IF phrases # {} THEN 1 ELSE 0]

Precedes(a, b) == a.score > b.score \/ (a.score = b.score /\ Rank[a.id] < Rank[b.id])

\* What the words recall; the relationships of the graph beside it, when they
\* recall anything; a time axis when the question has a time.  The last two score
\* lowest and are the first to go over the limit.
Candidates(q, all) ==
    LET scored == {Scored(q, a) : a \in all}
        lexical == {c \in scored : c.score > 0}
        structural == {c \in scored : c.type = "relationship" /\ lexical # {}}
        axes == {c \in scored : c.axis /\ q.time # None}
        recalled == lexical \cup structural \cup axes
    IN {c \in recalled : Cardinality({d \in recalled : Precedes(d, c)}) < Limit}

\* retrieve(): materials were read before the graph was.
Retrieval(q, materials, read, scope) ==
    IF scope # None /\ scope \notin read.sources
    THEN [candidates |-> {}, scope |-> scope, version |-> ScanVersion(read, scope), read |-> read]
    ELSE [candidates |-> Candidates(q, PhysicalAssets(read)
                            \cup UNION {MaterialAsset(read, materials, m) : m \in materials}),
          scope |-> scope, version |-> ScanVersion(read, scope), read |-> read]

-----------------------------------------------------------------------------
(* Grounding *)

SlotTypes == [metric |-> {"metric"}, ranking |-> {"metric"}, derivation |-> {"metric"},
              dimension |-> {"dimension"}, entity |-> {"term", "object"},
              filter |-> {"dimension", "field"}, axis |-> {"dimension"}]

\* _slot_terms(), in their fixed order.
SlotTerms(q) ==
    LET in(slot, terms) == [i \in DOMAIN terms |-> <<slot, terms[i]>>]
        ranking == IF q.ranking = None \/ q.ranking.metric = None THEN <<>>
                   ELSE <<q.ranking.metric>>
        derived == [i \in DOMAIN q.derivations |-> q.derivations[i].metric]
    IN in("metric", q.metrics) \o in("dimension", q.dimensions) \o in("entity", q.entities)
       \o in("filter", [i \in DOMAIN q.filters |-> q.filters[i].subject])
       \o in("ranking", ranking)
       \o in("derivation", Taken(derived, {i \in DOMAIN derived : derived[i] # None}))

\* _address_strength(): the term is a label, contains one, or is in a phrase that
\* recalled the candidate.
Strength(q, c, term) ==
    IF term \in c.labels THEN 2
    ELSE IF \/ \E l \in c.labels : <<term, l>> \in Longer
            \/ \E p \in c.phrases : Says(q, p, term)
    THEN 1
    ELSE 0

Priority == [metric |-> 0, dimension |-> 0, term |-> 1, object |-> 2, field |-> 2,
             relationship |-> 3]

Better(a, b) ==
    \/ Priority[a.type] < Priority[b.type]
    \/ Priority[a.type] = Priority[b.type] /\ Precedes(a, b)

\* Of those that are alike any: they are one definition, bound to one place.
Preferred(candidates) == CHOOSE c \in candidates : \A d \in candidates : ~Better(d, c)

\* A term of an entity is bound to an object, of any other slot to a field.
Target(slot, c) == <<c.source, c.object, IF slot = "entity" THEN None ELSE c.path>>

\* _governed_binding(): within the scope, by identity in the graph, and only if
\* the candidates agree on one target.
Governed(slot, term, matched, scope) ==
    LET stable == {c \in matched : scope \in {None, c.source} /\ ~c.migration}
    IN IF Cardinality({Target(slot, c) : c \in stable}) = 1
       THEN {[Preferred(stable) EXCEPT !.term = IF slot = "axis" THEN @ ELSE term,
                                       !.axisOf = slot = "axis"]}
       ELSE {}

BindTerm(q, r, slot, term) ==
    LET addressed == {c \in r.candidates : c.type \in SlotTypes[slot] /\ Strength(q, c, term) > 0}
        best == {c \in addressed : \A d \in addressed : Strength(q, c, term) >= Strength(q, d, term)}
    IN Governed(slot, term, best, r.scope)

BindAxis(q, r) ==
    Governed("axis", None, {c \in r.candidates : c.axis /\ c.type = "dimension"}, r.scope)

Objects(bindings) == {b.object : b \in bindings} \ {None}

\* _relationship_binding(): the one confirmed relationship of two objects.
BindRelationship(r, bindings) ==
    {c \in r.candidates :
        /\ c.type = "relationship" /\ c.source \in {b.source : b \in bindings}
        /\ \E x \in r.read.relationships : x.id = c.id /\ {x.from, x.to} = Objects(bindings)}

\* ground(): each term once, in the slot it has first; then the relationship of the
\* objects they are on; then the time axis.  Every problem asks the user something.
Ground(q, r) ==
    LET slots == SlotTerms(q)
        first == {i \in DOMAIN slots : \A j \in 1..(i - 1) : slots[j][2] # slots[i][2]}
        bound == [i \in first |-> {[b EXCEPT !.order = i] :
                                    b \in BindTerm(q, r, slots[i][1], slots[i][2])}]
        terms == UNION {bound[i] : i \in first}
        wanted == Cardinality(Objects(terms)) > 1
        links == IF Cardinality(Objects(terms)) = 2 THEN BindRelationship(r, terms) ELSE {}
        axes == {[b EXCEPT !.order = Len(slots) + 2] :
                    b \in IF q.time = None THEN {} ELSE BindAxis(q, r)}
        linked == IF Cardinality(links) = 1
                  THEN {[c EXCEPT !.order = Len(slots) + 1] : c \in links} ELSE {}
        bindings == terms \cup linked \cup axes
    IN [bindings |-> bindings, scope |-> r.scope, version |-> r.version, read |-> r.read,
        executable |-> /\ \A i \in first : bound[i] # {}
                       /\ wanted => linked # {}
                       /\ q.time # None => axes # {}
                       /\ Cardinality({b.source : b \in bindings}) = 1]

=============================================================================
