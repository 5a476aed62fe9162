------------------------------- MODULE AskProofs -------------------------------
(***************************************************************************)
(* AskInductive is an inductive invariant of AskPipeline: what a question  *)
(* carries on is what its stages make of what they were given.  From it,   *)
(* by what each stage computes, the contracts between the stages, the way  *)
(* of a filter, a time and a metric from the text to the database, and the *)
(* one revision an answer is of, for all assets, graphs, readings of the   *)
(* model and changes beside the question.  The events of the stream are    *)
(* those of AskProtocol.                                                   *)
(***************************************************************************)
EXTENDS AskProperties, FiniteSetTheorems, WellFoundedInduction, TLAPS

-----------------------------------------------------------------------------
(* Orders, and parts of sequences *)

\* A set of numbers has a least one.
LEMMA LeastOf ==
    ASSUME NEW S \in SUBSET Nat, S # {}
    PROVE  \E n \in S : \A m \in S : n <= m
<1>1. PICK n \in S : \A m \in S : <<m, n>> \notin OpToRel(<, Nat)
  <2>. HIDE DEF OpToRel
  <2>1. IsWellFoundedOn(OpToRel(<, Nat), Nat)
    BY NatLessThanWellFounded
  <2>. QED  BY <2>1, WFMin
<1>2. \A m \in S : ~(m < n)
  BY <1>1 DEF OpToRel
<1>. QED  BY <1>2

\* The image of a finite set is finite, and no larger.
LEMMA FiniteImage ==
    ASSUME NEW S, IsFiniteSet(S), NEW f, DOMAIN f = S
    PROVE  /\ IsFiniteSet({f[x] : x \in S}) /\ Cardinality({f[x] : x \in S}) <= Cardinality(S)
<1>. DEFINE T == {f[x] : x \in S}
            g == [x \in S |-> f[x]]
<1>1. g \in Surjection(S, T)
  BY DEF Surjection
<1>. HIDE DEF g, T
<1>. QED  BY <1>1, FS_Surjection DEF T

\* What comes before x in S.
Before(S, key, x) == {y \in S : key[y] < key[x]}

\* Every element of a finite set has a place of its own in its order.
LEMMA InOrderFacts ==
    ASSUME NEW S, IsFiniteSet(S), NEW key, \A x \in S : key[x] \in Int,
           \A x, y \in S : key[x] = key[y] => x = y
    PROVE  /\ Cardinality(S) \in Nat /\ DOMAIN InOrder(S, key) = 1..Cardinality(S)
           /\ \A n \in 1..Cardinality(S) : InOrder(S, key)[n] \in S
           /\ \A x \in S : \E n \in 1..Cardinality(S) : InOrder(S, key)[n] = x
           /\ \A n, m \in 1..Cardinality(S) : InOrder(S, key)[n] = InOrder(S, key)[m] => n = m
<1>. DEFINE N == Cardinality(S)
            place == [x \in S |-> Cardinality(Before(S, key, x)) + 1]
<1>1. N \in Nat
  BY FS_CardinalityType
<1>2. ASSUME NEW x \in S
      PROVE  /\ IsFiniteSet(Before(S, key, x)) /\ Cardinality(Before(S, key, x)) \in Nat
             /\ Cardinality(Before(S, key, x)) < N
  <2>1. Before(S, key, x) \in SUBSET S /\ x \notin Before(S, key, x)
    BY DEF Before
  <2>2. IsFiniteSet(Before(S, key, x)) /\ Cardinality(Before(S, key, x)) <= N
        /\ Cardinality(Before(S, key, x)) # N
    BY <2>1, FS_Subset
  <2>3. Cardinality(Before(S, key, x)) \in Nat
    BY <2>2, FS_CardinalityType
  <2>. QED  BY <1>1, <2>2, <2>3
<1>3. ASSUME NEW x \in S, NEW y \in S, key[x] < key[y]
      PROVE  place[x] < place[y]
  <2>1. Before(S, key, x) \in SUBSET Before(S, key, y) /\ x \in Before(S, key, y)
        /\ x \notin Before(S, key, x)
    BY <1>3 DEF Before
  <2>2. Cardinality(Before(S, key, x)) <= Cardinality(Before(S, key, y))
        /\ Cardinality(Before(S, key, x)) # Cardinality(Before(S, key, y))
    BY <1>2, <2>1, FS_Subset
  <2>. QED  BY <1>2, <2>2
<1>4. place \in Injection(S, 1..N)
  <2>1. place \in [S -> 1..N]
    BY <1>1, <1>2
  <2>2. ASSUME NEW x \in S, NEW y \in S, place[x] = place[y]
        PROVE  x = y
    <3>1. ~(place[x] < place[y]) /\ ~(place[y] < place[x])
      BY <1>2, <2>2
    <3>. HIDE DEF place
    <3>. QED  BY <1>3, <3>1
  <2>. HIDE DEF place
  <2>. QED  BY <2>1, <2>2 DEF Injection, IsInjective
<1>5. place \in Surjection(S, 1..N)
  <2>1. IsFiniteSet(1..N) /\ Cardinality(1..N) = N
    BY <1>1, FS_Interval
  <2>. HIDE DEF place
  <2>. QED  BY <1>4, <2>1, FS_Injection
<1>6. \A n \in 1..N : InOrder(S, key)[n] = CHOOSE x \in S : place[x] = n
  <2>1. ASSUME NEW n \in 1..N, NEW x \in S
        PROVE  place[x] = n <=> Cardinality({y \in S : key[y] < key[x]}) = n - 1
    <3>1. Before(S, key, x) = {y \in S : key[y] < key[x]}
      BY DEF Before
    <3>2. Cardinality(Before(S, key, x)) \in Nat /\ n \in Int
      BY <1>1, <1>2
    <3>3. place[x] = Cardinality(Before(S, key, x)) + 1
      OBVIOUS
    <3>. HIDE DEF place
    <3>. QED  BY <3>1, <3>2, <3>3
  <2>2. ASSUME NEW n \in 1..N
        PROVE  (CHOOSE x \in S : place[x] = n)
                   = CHOOSE x \in S : Cardinality({y \in S : key[y] < key[x]}) = n - 1
    <3>. HIDE DEF place
    <3>. QED  BY <2>1
  <2>. QED  BY <2>2 DEF InOrder
<1>7. ASSUME NEW n \in 1..N
      PROVE  InOrder(S, key)[n] \in S /\ place[InOrder(S, key)[n]] = n
  <2>1. \E x \in S : place[x] = n
    BY <1>5 DEF Surjection
  <2>. HIDE DEF place
  <2>. QED  BY <1>6, <2>1
<1>8. ASSUME NEW x \in S
      PROVE  \E n \in 1..N : InOrder(S, key)[n] = x
  <2>1. place[x] \in 1..N
    BY <1>1, <1>2
  <2>2. PICK n \in 1..N : n = place[x]
    BY <2>1
  <2>3. \A y \in S : place[y] = place[x] => y = x
    BY <1>4 DEF Injection, IsInjective
  <2>. HIDE DEF place
  <2>. QED  BY <1>7, <2>2, <2>3
<1>9. DOMAIN InOrder(S, key) = 1..N
  BY DEF InOrder
<1>. HIDE DEF place
<1>. QED  BY <1>1, <1>7, <1>8, <1>9

\* The part of a sequence at some of its places has just the elements there.
LEMMA TakenFacts ==
    ASSUME NEW T, NEW seq \in Seq(T), NEW places \in SUBSET (DOMAIN seq)
    PROVE  /\ Taken(seq, places) \in Seq(T)
           /\ Len(Taken(seq, places)) = Cardinality(places)
           /\ \A n \in DOMAIN Taken(seq, places) : \E i \in places : Taken(seq, places)[n] = seq[i]
           /\ \A i \in places : \E n \in DOMAIN Taken(seq, places) : Taken(seq, places)[n] = seq[i]
<1>. DEFINE key == [i \in places |-> i]
            order == InOrder(places, key)
<1>1. IsFiniteSet(places) /\ places \subseteq Int
  <2>1. IsFiniteSet(1..Len(seq)) /\ DOMAIN seq = 1..Len(seq)
    BY FS_Interval
  <2>. QED  BY <2>1, FS_Subset
<1>2. /\ Cardinality(places) \in Nat /\ DOMAIN order = 1..Cardinality(places)
      /\ \A n \in 1..Cardinality(places) : order[n] \in places
      /\ \A i \in places : \E n \in 1..Cardinality(places) : order[n] = i
  <2>1. (\A i \in places : key[i] \in Int) /\ \A i, j \in places : key[i] = key[j] => i = j
    BY <1>1
  <2>. HIDE DEF key
  <2>. QED  BY SMTT(60), <1>1, <2>1, InOrderFacts
<1>3. Taken(seq, places) = [n \in 1..Cardinality(places) |-> seq[order[n]]]
  BY <1>2 DEF Taken
<1>. HIDE DEF order
<1>4. \A i \in places : seq[i] \in T
  OBVIOUS
<1>5. \A n \in 1..Cardinality(places) : seq[order[n]] \in T
  BY <1>2, <1>4
<1>6. Taken(seq, places) \in [1..Cardinality(places) -> T]
  BY <1>3, <1>5
<1>7. Taken(seq, places) \in Seq(T) /\ Len(Taken(seq, places)) = Cardinality(places)
  BY SMTT(60), <1>2, <1>6
<1>. QED  BY SMTT(60), <1>2, <1>3, <1>7

-----------------------------------------------------------------------------
(* Candidates *)

\* The constants of the contracts are what the assumptions say (contracts/semantic.py).
LEMMA Nones ==
    /\ None \notin STRING /\ None \notin Sources /\ None \notin FieldRef
    /\ None \notin RankingSpec /\ None \notin SemanticCandidate
BY NamesAssumption

\* Of any candidates one is preferred, since ids have an order (_governed_binding()).
LEMMA PreferredIsOne ==
    ASSUME NEW S \in SUBSET SemanticCandidate, S # {}
    PROVE  Preferred(S) \in S /\ \A x \in S : ~Better(x, Preferred(S))
<1>1. ASSUME NEW c \in S
      PROVE  Priority[c.type] \in Nat /\ c.score \in 0..2 /\ Rank[c.id] \in Nat
  <2>1. c.type \in SemanticAssetType /\ c.score \in 0..2 /\ c.id \in Names
    BY DEF SemanticCandidate
  <2>2. \A type \in SemanticAssetType : Priority[type] \in Nat
    BY DEF SemanticAssetType, Priority
  <2>. QED  BY <2>1, <2>2, NamesAssumption
<1>. DEFINE P == {Priority[c.type] : c \in S}
<1>2. PICK p \in P : \A x \in P : p <= x
  <2>1. P \in SUBSET Nat /\ P # {}
    BY <1>1
  <2>. HIDE DEF P
  <2>. QED  BY <2>1, LeastOf
<1>. DEFINE S1 == {c \in S : Priority[c.type] = p}
            D == {2 - c.score : c \in S1}
<1>3. PICK d \in D : \A x \in D : d <= x
  <2>1. D \in SUBSET Nat /\ D # {}
    BY <1>1, <1>2
  <2>. HIDE DEF D
  <2>. QED  BY <2>1, LeastOf
<1>. DEFINE S2 == {c \in S1 : 2 - c.score = d}
            R == {Rank[c.id] : c \in S2}
<1>4. PICK k \in R : \A x \in R : k <= x
  <2>1. R \in SUBSET Nat /\ R # {}
    BY <1>1, <1>3
  <2>. HIDE DEF R
  <2>. QED  BY <2>1, LeastOf
<1>5. PICK c \in S2 : Rank[c.id] = k
  BY <1>4
<1>6. ASSUME NEW x \in S, Better(x, c)
      PROVE  FALSE
  <2>1. Priority[c.type] = p /\ p <= Priority[x.type] /\ c \in S
    BY <1>2, <1>5
  <2>2. Priority[x.type] = p /\ Precedes(x, c)
    BY <1>1, <1>6, <2>1 DEF Better
  <2>3. d <= 2 - x.score /\ d = 2 - c.score
    BY <1>3, <1>5, <2>2
  <2>4. x.score = c.score /\ Rank[x.id] < Rank[c.id]
    BY <1>1, <2>1, <2>2, <2>3 DEF Precedes
  <2>5. x \in S2
    BY <2>2, <2>3, <2>4
  <2>6. k <= Rank[x.id]
    BY <1>4, <2>5
  <2>. QED  BY <1>1, <1>5, <2>1, <2>4, <2>6
<1>7. c \in S /\ \A x \in S : ~Better(x, c)
  BY <1>5, <1>6
<1>8. Preferred(S) = CHOOSE z \in S : \A x \in S : ~Better(x, z)
  BY DEF Preferred
<1>. HIDE DEF S1, S2
<1>. QED  BY <1>7, <1>8

\* What is confirmed of a read: its parts are of its sources, an id is of one source.
LEMMA ReadFacts ==
    ASSUME NEW read, NEW scope, IsRead(read, scope)
    PROVE  /\ read.sources \subseteq Sources
           /\ \A o \in read.objects : /\ o \in GroundedDataObjectRef /\ o.id \in Names
                                      /\ o.source \in read.sources /\ o.name \in STRING
           /\ \A f \in read.fields : /\ f.source \in read.sources /\ f.id \in Names
                                     /\ f.path \in STRING /\ f.type \in STRING
                                     /\ \E o \in read.objects : f.object = o.id
           /\ \A f \in read.fields : \A o \in read.objects : f.object = o.id => f.source = o.source
           /\ \A x \in read.relationships : /\ x \in QueryContextRelationship /\ x.id \in Names
                                            /\ x.source \in read.sources
           /\ \A o, x \in read.objects : o.id = x.id => o.source = x.source
           /\ \A f, g \in read.fields : f.object = g.object /\ f.path = g.path => f = g
<1>. DEFINE of(s) == Revisions[s][read.version[s]]
<1>1. \A s \in read.sources : s \in Sources /\ IsRevision(of(s), s, read.version[s])
  BY RevisionsAssumption DEF IsRead
<1>2. \A o \in read.objects : \E s \in read.sources : o \in of(s).objects
  BY DEF IsRead
<1>3. \A f \in read.fields : \E s \in read.sources : f \in of(s).fields
  BY DEF IsRead
<1>4. \A x \in read.relationships : \E s \in read.sources : x \in of(s).relationships
  BY DEF IsRead
<1>5. \A s \in read.sources : of(s).objects \subseteq read.objects
  BY DEF IsRead
<1>6. \A s, t \in read.sources : \A o \in of(s).objects, x \in of(t).objects : o.id = x.id => s = t
  BY <1>1, RevisionsAssumption DEF IsRead
<1>. HIDE DEF of
<1>7. \A o \in read.objects : /\ o \in GroundedDataObjectRef /\ o.id \in Names
                                /\ o.source \in read.sources /\ o.name \in STRING
  BY <1>1, <1>2 DEF IsRevision
<1>8. \A o, x \in read.objects : o.id = x.id => o.source = x.source
  BY <1>1, <1>2, <1>6 DEF IsRevision
<1>9. ASSUME NEW f \in read.fields
      PROVE  /\ f.source \in read.sources /\ f.id \in Names /\ f.path \in STRING
             /\ f.type \in STRING /\ \E o \in read.objects : f.object = o.id /\ f.source = o.source
  <2>1. PICK s \in read.sources : f \in of(s).fields
    BY <1>3
  <2>2. PICK o \in of(s).objects : f.object = o.id
    BY <1>1, <2>1 DEF IsRevision
  <2>3. o \in read.objects /\ o.source = s /\ f.source = s
    BY <1>1, <1>5, <2>1, <2>2 DEF IsRevision
  <2>. QED  BY <1>1, <2>1, <2>2, <2>3 DEF IsRevision
<1>10. \A x \in read.relationships :
          x \in QueryContextRelationship /\ x.id \in Names /\ x.source \in read.sources
  BY <1>1, <1>4 DEF IsRevision
<1>11. \A f \in read.fields : \A o \in read.objects : f.object = o.id => f.source = o.source
  BY <1>8, <1>9
<1>12. \A f \in read.fields : /\ f.source \in read.sources /\ f.id \in Names /\ f.path \in STRING
                              /\ f.type \in STRING /\ \E o \in read.objects : f.object = o.id
  BY <1>9
<1>13. read.sources \subseteq Sources
  BY DEF IsRead
<1>14. ASSUME NEW f \in read.fields, NEW g \in read.fields, f.object = g.object, f.path = g.path
       PROVE  f = g
  <2>1. PICK s \in read.sources : f \in of(s).fields
    BY <1>3
  <2>2. PICK t \in read.sources : g \in of(t).fields
    BY <1>3
  <2>3. s = t
    <3>1. PICK o \in of(s).objects : f.object = o.id
      BY <1>1, <2>1 DEF IsRevision
    <3>2. PICK x \in of(t).objects : g.object = x.id
      BY <1>1, <2>2 DEF IsRevision
    <3>. QED  BY <1>6, <1>14, <3>1, <3>2
  <2>. QED  BY <1>1, <1>14, <2>1, <2>2, <2>3 DEF IsRevision
<1>. QED  BY <1>7, <1>8, <1>10, <1>11, <1>12, <1>13, <1>14


-----------------------------------------------------------------------------
(* Reads and the assets found in them *)

\* What is counted is there.
LEMMA CountedIsThere ==
    ASSUME NEW S, Cardinality(S) # 0
    PROVE  S # {}
<1>1. Cardinality({}) = 0
  BY FS_EmptySet
<1>. QED  BY <1>1

\* A read of finitely many finite revisions is finite.
LEMMA FiniteRead ==
    ASSUME NEW read, NEW scope, IsRead(read, scope)
    PROVE  IsFiniteSet(read.objects) /\ IsFiniteSet(read.fields) /\ IsFiniteSet(read.relationships)
<1>. DEFINE of(s) == Revisions[s][read.version[s]]
            objects == [s \in read.sources |-> of(s).objects]
            fields == [s \in read.sources |-> of(s).fields]
            relationships == [s \in read.sources |-> of(s).relationships]
<1>1. IsFiniteSet(read.sources)
  BY RevisionsAssumption, FS_Subset DEF IsRead
<1>2. \A s \in read.sources : /\ IsFiniteSet(of(s).objects) /\ IsFiniteSet(of(s).fields)
                              /\ IsFiniteSet(of(s).relationships)
  BY SMTT(60), RevisionsAssumption DEF IsRead, IsRevision
<1>3. /\ read.objects = UNION {objects[s] : s \in read.sources}
      /\ read.fields = UNION {fields[s] : s \in read.sources}
      /\ read.relationships = UNION {relationships[s] : s \in read.sources}
  BY ZenonT(60) DEF IsRead
<1>4. \A s \in read.sources : /\ IsFiniteSet(objects[s]) /\ IsFiniteSet(fields[s])
                              /\ IsFiniteSet(relationships[s])
  BY <1>2
<1>5. /\ DOMAIN objects = read.sources /\ DOMAIN fields = read.sources
      /\ DOMAIN relationships = read.sources
  OBVIOUS
<1>. HIDE DEF objects, fields, relationships
<1>6. /\ IsFiniteSet({objects[s] : s \in read.sources})
      /\ IsFiniteSet({fields[s] : s \in read.sources})
      /\ IsFiniteSet({relationships[s] : s \in read.sources})
  BY <1>1, <1>5, FiniteImage
<1>7. IsFiniteSet(UNION {objects[s] : s \in read.sources})
  BY <1>4, <1>6, FS_UNION
<1>8. IsFiniteSet(UNION {fields[s] : s \in read.sources})
  BY <1>4, <1>6, FS_UNION
<1>9. IsFiniteSet(UNION {relationships[s] : s \in read.sources})
  BY <1>4, <1>6, FS_UNION
<1>. QED  BY <1>3, <1>7, <1>8, <1>9

\* What is read of the registry is a governed definition (SemanticAsset).
LEMMA KnownAsset ==
    ASSUME NEW m, Known(m), m.status \in {"approved", "published"}
    PROVE  /\ m \in SemanticAsset
           /\ \E a \in Governance : /\ a.id = m.id /\ a.kind = m.kind /\ a.object = m.object
                                    /\ a.source = m.source
<1>1. PICK a \in Governance : m = [a EXCEPT !.status = m.status]
  BY DEF Known
<1>2. a \in SemanticAsset
  BY GovernanceAssumption
<1>3. m \in SemanticAsset
  BY <1>1, <1>2 DEF SemanticAsset
<1>4. a.id = m.id /\ a.kind = m.kind /\ a.object = m.object /\ a.source = m.source
  BY <1>1, <1>2 DEF SemanticAsset
<1>. QED  BY <1>3, <1>4

\* A candidate or a binding names parts of the read it was found in, and is governed by
\* one definition or is physical itself.
Sound(read, c) ==
    /\ c \in SemanticCandidate /\ c.source \in read.sources /\ c.name \in c.labels
    /\ c.type # "relationship" => \E o \in read.objects : o.id = c.object /\ o.source = c.source
    /\ c.type = "relationship" => c.object = None /\ c.path = None
    /\ c.type \in {"metric", "dimension", "field"} => c.path # None
    /\ c.path # None =>
          \E f \in read.fields : f.object = c.object /\ f.path = c.path /\ f.type = c.dtype
    /\ c.type \in {"metric", "dimension", "term"} =>
          \E a \in Governance : /\ a.id = c.id /\ a.kind = c.type
                                /\ a.object # None => c.object = a.object /\ c.source = a.source

\* As long as nothing has asked for it, a candidate is called by its own name.
Unbound(c) == c.term = c.name /\ ~c.axisOf

\* The physical assets of a read are sound (_physical_assets()).
LEMMA PhysicalSound ==
    ASSUME NEW read, NEW scope, IsRead(read, scope), NEW a \in PhysicalAssets(read)
    PROVE  Sound(read, a) /\ Unbound(a)
<1>1. CASE \E o \in read.objects :
             a = Physical("object", o.id, o.name, o.source, o.id, None, None)
  <2>1. PICK o \in read.objects : a = Physical("object", o.id, o.name, o.source, o.id, None, None)
    BY <1>1
  <2>2. /\ o.id \in Names /\ o.id \in STRING /\ o.source \in read.sources /\ o.source \in Sources
        /\ o.name \in STRING
    BY ReadFacts, NamesAssumption
  <2>3. a \in SemanticCandidate
    BY <2>1, <2>2 DEF Physical, SemanticCandidate, SemanticAssetType, Optional
  <2>. QED  BY <2>1, <2>2, <2>3 DEF Physical, Sound, Unbound
<1>2. CASE \E f \in read.fields :
             a = Physical("field", f.id, f.path, f.source, f.object, f.path, f.type)
  <2>1. PICK f \in read.fields :
           a = Physical("field", f.id, f.path, f.source, f.object, f.path, f.type)
    BY <1>2
  <2>2. /\ f.id \in Names /\ f.path \in STRING /\ f.type \in STRING
        /\ f.source \in read.sources /\ f.source \in Sources
        /\ \E o \in read.objects : o.id = f.object /\ o.source = f.source
    BY ReadFacts
  <2>3. f.object \in STRING /\ f.path # None
    BY <2>2, ReadFacts, NamesAssumption
  <2>4. a \in SemanticCandidate
    BY <2>1, <2>2, <2>3 DEF Physical, SemanticCandidate, SemanticAssetType, Optional
  <2>. QED  BY <2>1, <2>2, <2>3, <2>4 DEF Physical, Sound, Unbound
<1>3. CASE \E x \in read.relationships :
             a = Physical("relationship", x.id, x.id, x.source, None, None, None)
  <2>1. PICK x \in read.relationships :
           a = Physical("relationship", x.id, x.id, x.source, None, None, None)
    BY <1>3
  <2>2. x.id \in Names /\ x.id \in STRING /\ x.source \in read.sources /\ x.source \in Sources
    BY ReadFacts, NamesAssumption
  <2>3. a \in SemanticCandidate
    BY <2>1, <2>2 DEF Physical, SemanticCandidate, SemanticAssetType, Optional
  <2>. QED  BY <2>1, <2>2, <2>3 DEF Physical, Sound, Unbound
<1>. QED  BY <1>1, <1>2, <1>3 DEF PhysicalAssets

\* A definition the graph confirms is bound to what it confirms (_material_asset()).
LEMMA MaterialSound ==
    ASSUME NEW read, NEW scope, IsRead(read, scope), NEW materials,
           \A m \in materials : Known(m) /\ m.status \in {"approved", "published"},
           NEW m \in materials, NEW a \in MaterialAsset(read, materials, m)
    PROVE  Sound(read, a) /\ Unbound(a)
<1>. DEFINE objects == MatchObject(read, m)
            o == CHOOSE x \in objects : TRUE
            fields == MatchField(read, m, o)
            f == CHOOSE x \in fields : TRUE
            named == m.field # None \/ m.path # None
<1>1. /\ m.kind # "alias" /\ m.source \in read.sources
      /\ Cardinality(objects) = 1 /\ o.source = m.source
      /\ named => Cardinality(fields) = 1
      /\ m.kind \in {"metric", "dimension"} => named
      /\ a = [type |-> m.kind, id |-> m.id, name |-> m.name, labels |-> Labels(m, materials),
              source |-> o.source, object |-> o.id, path |-> IF named THEN f.path ELSE None,
              dtype |-> IF named THEN f.type ELSE None,
              aggregation |-> m.aggregation, axis |-> m.axis, migration |-> m.object = None,
              phrases |-> {}, score |-> 0, term |-> m.name, axisOf |-> FALSE, order |-> 0]
  BY DEF MaterialAsset
<1>2. o \in read.objects /\ (m.object # None => o.id = m.object)
  <2>1. objects # {}
    <3>1. Cardinality(objects) # 0
      BY <1>1
    <3>. HIDE DEF objects
    <3>. QED  BY <3>1, CountedIsThere
  <2>2. o \in objects
    BY <2>1
  <2>. QED  BY <2>2 DEF MatchObject
<1>3. named => f \in read.fields /\ f.object = o.id
  <2>1. named => fields # {}
    <3>1. named => Cardinality(fields) # 0
      BY <1>1
    <3>. HIDE DEF named, fields
    <3>. QED  BY <3>1, CountedIsThere
  <2>2. named => f \in fields
    BY <2>1
  <2>. QED  BY <2>2 DEF MatchField
<1>4. /\ m \in SemanticAsset
      /\ \E g \in Governance : /\ g.id = m.id /\ g.kind = m.kind /\ g.object = m.object
                               /\ g.source = m.source
  BY KnownAsset
<1>5. Labels(m, materials) \in SUBSET STRING /\ m.name \in Labels(m, materials)
  <2>1. \A x \in materials : x.name \in STRING /\ x.aliases \in SUBSET STRING
    BY KnownAsset DEF SemanticAsset
  <2>. QED  BY <2>1 DEF Labels
<1>6. PICK x, y : x = o /\ y = f
  OBVIOUS
<1>. HIDE DEF o, f, objects, fields
<1>7. /\ x.id \in Names /\ x.id \in STRING /\ x.source \in read.sources /\ x.source \in Sources
      /\ named => y.path \in STRING /\ y.type \in STRING /\ y.path # None
  BY ZenonT(60), <1>2, <1>3, <1>6, ReadFacts, NamesAssumption
<1>8. /\ a.type = m.kind /\ a.id = m.id /\ a.name = m.name /\ a.labels = Labels(m, materials)
      /\ a.source = x.source /\ a.object = x.id /\ a.path = (IF named THEN y.path ELSE None)
      /\ a.dtype = (IF named THEN y.type ELSE None) /\ a.term = m.name /\ ~a.axisOf
  BY <1>1, <1>6
<1>9. a \in SemanticCandidate
  <2>1. /\ m.kind \in SemanticAssetType /\ m.id \in Names /\ m.name \in STRING
        /\ m.aggregation \in Optional(Aggregates) /\ m.axis \in BOOLEAN
    BY <1>1, <1>4 DEF SemanticAsset, SemanticAssetType
  <2>2. /\ x.id \in Optional(STRING) /\ (IF named THEN y.path ELSE None) \in Optional(STRING)
        /\ (IF named THEN y.type ELSE None) \in Optional(STRING)
    BY <1>7 DEF Optional
  <2>. QED  BY <1>1, <1>5, <1>6, <1>7, <2>1, <2>2 DEF SemanticCandidate
<1>10. a.type \in {"metric", "dimension", "term"}
  BY <1>1, <1>4, <1>8 DEF SemanticAsset
<1>. HIDE DEF named
<1>11. a.type \in {"metric", "dimension"} => a.path # None
  BY <1>1, <1>7, <1>8
<1>12. a.path # None =>
          \E z \in read.fields : z.object = a.object /\ z.path = a.path /\ z.type = a.dtype
  BY <1>3, <1>6, <1>8
<1>13. \E g \in Governance : /\ g.id = a.id /\ g.kind = a.type
                             /\ g.object # None => a.object = g.object /\ a.source = g.source
  BY <1>1, <1>2, <1>4, <1>6, <1>8
<1>14. \E z \in read.objects : z.id = a.object /\ z.source = a.source
  BY <1>2, <1>6, <1>8
<1>15. a.name \in a.labels /\ a.source \in read.sources /\ Unbound(a)
  BY <1>5, <1>7, <1>8 DEF Unbound
<1>. QED  BY <1>9, <1>10, <1>11, <1>12, <1>13, <1>14, <1>15 DEF Sound


\* The expressions of a query are strings (BusinessQuery).
LEMMA PhrasesFacts ==
    ASSUME NEW q, IsBusinessQuery(q)
    PROVE  Phrases(q) \subseteq STRING
<1>1. /\ q.metrics \in Seq(STRING) /\ q.dimensions \in Seq(STRING) /\ q.entities \in Seq(STRING)
      /\ q.filters \in Seq(BusinessFilter)
  BY DEF IsBusinessQuery
<1>2. /\ ToSet(q.metrics) \subseteq STRING /\ ToSet(q.dimensions) \subseteq STRING
      /\ ToSet(q.entities) \subseteq STRING
  BY <1>1 DEF ToSet
<1>3. Subjects(q) \subseteq STRING
  <2>1. \A i \in DOMAIN q.filters : q.filters[i] \in BusinessFilter
    BY <1>1
  <2>2. \A i \in DOMAIN q.filters : q.filters[i].subject \in STRING
    BY <2>1 DEF BusinessFilter
  <2>. QED  BY <2>2 DEF Subjects
<1>4. {q.filters[i].text : i \in DOMAIN q.filters} \subseteq STRING
  <2>1. \A i \in DOMAIN q.filters : q.filters[i] \in BusinessFilter
    BY <1>1
  <2>. QED  BY <2>1 DEF BusinessFilter
<1>5. {q.time} \ {None} \subseteq STRING
  BY DEF IsBusinessQuery, Optional
<1>. QED  BY <1>2, <1>3, <1>4, <1>5, WordsAssumption DEF Phrases

\* What the words of a question recall of an asset leaves it what it was (_score()).
LEMMA ScoredSound ==
    ASSUME NEW read, NEW q, IsBusinessQuery(q), NEW a, Sound(read, a), Unbound(a)
    PROVE  Sound(read, Scored(q, a)) /\ Unbound(Scored(q, a))
<1>. DEFINE phrases == Addressing(q, a.labels)
            score == IF phrases \cap a.labels # {} THEN 2 ELSE IF phrases # {} THEN 1 ELSE 0
<1>1. phrases \in SUBSET STRING /\ score \in 0..2
  BY PhrasesFacts DEF Addressing
<1>2. Scored(q, a) = [a EXCEPT !.phrases = phrases, !.score = score]
  BY DEF Scored
<1>3. PICK ph, sc : ph = phrases /\ sc = score
  OBVIOUS
<1>. HIDE DEF phrases, score
<1>4. a \in SemanticCandidate
  BY DEF Sound
<1>5. PICK c : c = [a EXCEPT !.phrases = ph, !.score = sc]
  OBVIOUS
<1>6. /\ c \in SemanticCandidate /\ c.type = a.type /\ c.id = a.id /\ c.name = a.name
      /\ c.labels = a.labels /\ c.source = a.source /\ c.object = a.object /\ c.path = a.path
      /\ c.dtype = a.dtype /\ c.term = a.term /\ c.axisOf = a.axisOf
  BY ZenonT(60), <1>1, <1>3, <1>4, <1>5 DEF SemanticCandidate
<1>7. Sound(read, c) /\ Unbound(c)
  BY <1>6 DEF Sound, Unbound
<1>. QED  BY <1>2, <1>3, <1>5, <1>7

\* The assets of a read are finitely many, and so are the candidates among them.
LEMMA FiniteAssets ==
    ASSUME NEW read, NEW scope, IsRead(read, scope), NEW materials, IsFiniteSet(materials)
    PROVE  /\ IsFiniteSet(PhysicalAssets(read))
           /\ IsFiniteSet(UNION {MaterialAsset(read, materials, m) : m \in materials})
<1>. DEFINE f == [o \in read.objects |->
                     Physical("object", o.id, o.name, o.source, o.id, None, None)]
            g == [x \in read.fields |->
                     Physical("field", x.id, x.path, x.source, x.object, x.path, x.type)]
            h == [x \in read.relationships |->
                     Physical("relationship", x.id, x.id, x.source, None, None, None)]
            k == [m \in materials |-> MaterialAsset(read, materials, m)]
<1>1. /\ IsFiniteSet(read.objects) /\ IsFiniteSet(read.fields)
      /\ IsFiniteSet(read.relationships)
  BY FiniteRead
<1>2. /\ DOMAIN f = read.objects /\ DOMAIN g = read.fields /\ DOMAIN h = read.relationships
      /\ DOMAIN k = materials
  OBVIOUS
<1>3. PhysicalAssets(read) = {f[x] : x \in read.objects} \cup {g[x] : x \in read.fields}
                                 \cup {h[x] : x \in read.relationships}
  BY DEF PhysicalAssets
<1>4. {MaterialAsset(read, materials, m) : m \in materials} = {k[m] : m \in materials}
  OBVIOUS
<1>5. \A m \in materials : IsFiniteSet(k[m])
  <2>1. ASSUME NEW m \in materials
        PROVE  MaterialAsset(read, materials, m) = {} \/ \E e : MaterialAsset(read, materials, m) = {e}
    BY DEF MaterialAsset
  <2>. QED  BY ZenonT(60), <2>1, FS_EmptySet, FS_Singleton
<1>. HIDE DEF f, g, h, k
<1>6. /\ IsFiniteSet({f[x] : x \in read.objects}) /\ IsFiniteSet({g[x] : x \in read.fields})
      /\ IsFiniteSet({h[x] : x \in read.relationships}) /\ IsFiniteSet({k[m] : m \in materials})
  BY <1>1, <1>2, FiniteImage
<1>7. IsFiniteSet({f[x] : x \in read.objects} \cup {g[x] : x \in read.fields})
  BY <1>6, FS_Union
<1>8. IsFiniteSet(PhysicalAssets(read))
  <2>1. \A S, T : IsFiniteSet(S) /\ IsFiniteSet(T) => IsFiniteSet(S \cup T)
    BY FS_Union
  <2>. QED  BY <1>3, <1>6, <1>7, <2>1
<1>9. IsFiniteSet(UNION {k[m] : m \in materials})
  BY <1>5, <1>6, FS_UNION
<1>. QED  BY <1>4, <1>8, <1>9

\* The scored assets are the range of the function that scores them.
LEMMA ScoresRange ==
    ASSUME NEW q, NEW all
    PROVE  LET scores == [a \in all |-> Scored(q, a)]
           IN  DOMAIN scores = all /\ {Scored(q, a) : a \in all} = {scores[a] : a \in all}
  OBVIOUS

\* What a retrieval returns is of the read, and finite (retrieve()).
LEMMA RetrievalFacts ==
    ASSUME NEW q, IsBusinessQuery(q), NEW read, NEW scope, IsRead(read, scope),
           NEW materials, IsFiniteSet(materials),
           \A m \in materials : Known(m) /\ m.status \in {"approved", "published"},
           NEW r, r = Retrieval(q, materials, read, scope)
    PROVE  /\ r.scope = scope /\ r.read = read /\ r.version = ScanVersion(read, scope)
           /\ IsFiniteSet(r.candidates)
           /\ \A c \in r.candidates : Sound(read, c) /\ Unbound(c)
<1>. DEFINE all == PhysicalAssets(read) \cup UNION {MaterialAsset(read, materials, m) : m \in materials}
            scores == [a \in all |-> Scored(q, a)]
<1>1. r.scope = scope /\ r.read = read /\ r.version = ScanVersion(read, scope)
  BY DEF Retrieval
<1>2. r.candidates = {} \/ r.candidates = Candidates(q, all)
  BY DEF Retrieval
<1>3. Candidates(q, all) \subseteq {Scored(q, a) : a \in all}
  BY DEF Candidates
<1>4. \A a \in all : Sound(read, a) /\ Unbound(a)
  <2>1. \A a \in PhysicalAssets(read) : Sound(read, a) /\ Unbound(a)
    BY PhysicalSound
  <2>2. \A m \in materials : \A a \in MaterialAsset(read, materials, m) : Sound(read, a) /\ Unbound(a)
    BY MaterialSound
  <2>. QED  BY <2>1, <2>2
<1>5. IsFiniteSet(all)
  <2>. DEFINE material == UNION {MaterialAsset(read, materials, m) : m \in materials}
  <2>1. IsFiniteSet(PhysicalAssets(read)) /\ IsFiniteSet(material)
    BY ONLY FiniteAssets, IsRead(read, scope), IsFiniteSet(materials)
  <2>2. all = PhysicalAssets(read) \cup material
    OBVIOUS
  <2>. HIDE DEF all, material
  <2>. QED  BY <2>1, <2>2, FS_Union
<1>6. DOMAIN scores = all /\ {Scored(q, a) : a \in all} = {scores[a] : a \in all}
  BY ScoresRange
<1>. HIDE DEF all, scores
<1>7. IsFiniteSet({scores[a] : a \in all})
  BY <1>5, <1>6, FiniteImage
<1>8. r.candidates \subseteq {scores[a] : a \in all}
  BY <1>2, <1>3, <1>6
<1>9. IsFiniteSet(r.candidates)
  BY <1>7, <1>8, FS_Subset
<1>10. \A c \in r.candidates : Sound(read, c) /\ Unbound(c)
  BY <1>2, <1>3, <1>4, ScoredSound
<1>. QED  BY <1>1, <1>9, <1>10

\* What the graph publishes is read as it is (read()).
LEMMA ReadIsRead ==
    ASSUME GraphIsPublished, NEW scope
    PROVE  IsRead(Read(graph, scope), scope)
<1>. DEFINE sources == IF scope = None THEN DOMAIN graph ELSE {scope} \cap DOMAIN graph
            read == Read(graph, scope)
<1>1. /\ read.sources = sources
      /\ read.objects = UNION {graph[s].objects : s \in sources}
      /\ read.fields = UNION {graph[s].fields : s \in sources}
      /\ read.relationships = UNION {graph[s].relationships : s \in sources}
      /\ read.version = [s \in sources |-> graph[s].version]
  BY DEF Read
<1>2. sources \subseteq Sources /\ (scope # None => sources \subseteq {scope})
  BY DEF GraphIsPublished
<1>3. \A s \in sources : /\ graph[s].version \in DOMAIN Revisions[s]
                         /\ graph[s] = Revisions[s][graph[s].version]
  BY DEF GraphIsPublished
<1>. HIDE DEF sources, read
<1>4. \A s \in sources : read.version[s] = graph[s].version
  BY <1>1
<1>5. /\ {graph[s].objects : s \in sources} = {Revisions[s][read.version[s]].objects : s \in sources}
      /\ {graph[s].fields : s \in sources} = {Revisions[s][read.version[s]].fields : s \in sources}
      /\ {graph[s].relationships : s \in sources}
             = {Revisions[s][read.version[s]].relationships : s \in sources}
  BY <1>3, <1>4
<1>6. IsRead(read, scope)
  BY <1>1, <1>2, <1>3, <1>4, <1>5 DEF IsRead
<1>. QED  BY <1>6 DEF read

\* What is read of the registry is trusted and finite (read_materials()).
LEMMA MaterialsFacts ==
    ASSUME WorldFits, NEW scope
    PROVE  /\ IsFiniteSet(Materials(assets, scope))
           /\ \A m \in Materials(assets, scope) : Known(m) /\ m.status \in {"approved", "published"}
<1>1. Materials(assets, scope) \in SUBSET assets
  BY DEF Materials
<1>2. IsFiniteSet(Materials(assets, scope))
  BY <1>1, FS_Subset DEF WorldFits
<1>. QED  BY <1>1, <1>2 DEF Materials, WorldFits

-----------------------------------------------------------------------------
(* The query of a question *)

\* One sequence after the other.
Joined(s, t) == s \o t

\* The elements of two sequences are those of the one after the other.
LEMMA JoinedFacts ==
    ASSUME NEW T, NEW s \in Seq(T), NEW t \in Seq(T), NEW u, u = Joined(s, t)
    PROVE  /\ u \in Seq(T)
           /\ \A n \in DOMAIN u : (\E m \in DOMAIN s : u[n] = s[m]) \/ (\E m \in DOMAIN t : u[n] = t[m])
           /\ \A m \in DOMAIN s : \E n \in DOMAIN u : u[n] = s[m]
           /\ \A m \in DOMAIN t : \E n \in DOMAIN u : u[n] = t[m]
<1>1. /\ u \in Seq(T) /\ Len(u) = Len(s) + Len(t) /\ Len(s) \in Nat /\ Len(t) \in Nat
      /\ DOMAIN s = 1..Len(s) /\ DOMAIN t = 1..Len(t) /\ DOMAIN u = 1..(Len(s) + Len(t))
      /\ \A n \in 1..(Len(s) + Len(t)) : u[n] = IF n <= Len(s) THEN s[n] ELSE t[n - Len(s)]
  BY DEF Joined
<1>3. ASSUME NEW n \in DOMAIN u
      PROVE  (\E m \in DOMAIN s : u[n] = s[m]) \/ (\E m \in DOMAIN t : u[n] = t[m])
  <2>1. CASE n <= Len(s)
    BY <1>1, <2>1
  <2>2. CASE n > Len(s)
    <3>1. n - Len(s) \in DOMAIN t /\ u[n] = t[n - Len(s)]
      BY <1>1, <2>2
    <3>. QED  BY <3>1
  <2>. QED  BY <1>1, <2>1, <2>2
<1>4. ASSUME NEW m \in DOMAIN s
      PROVE  \E n \in DOMAIN u : u[n] = s[m]
  <2>1. m \in DOMAIN u /\ u[m] = s[m]
    BY <1>1
  <2>. QED  BY <2>1
<1>5. ASSUME NEW m \in DOMAIN t
      PROVE  \E n \in DOMAIN u : u[n] = t[m]
  <2>1. m + Len(s) \in DOMAIN u /\ u[m + Len(s)] = t[m]
    BY <1>1
  <2>. QED  BY <2>1
<1>. QED  BY <1>1, <1>3, <1>4, <1>5

\* A ranking by a metric the model names is one of a query (RankingSpec).
LEMMA RankingIsSpec ==
    ASSUME NEW x \in [direction: {"ascending", "descending"}, metric: Optional(Names), limit: 1..1000]
    PROVE  x \in RankingSpec /\ x.metric \in Optional(Names)
<1>1. \A m \in Optional(Names) : m \in Optional(STRING)
  BY NamesAssumption DEF Optional
<1>. QED  BY <1>1 DEF RankingSpec

\* The elements of a sequence of a set are in it.
LEMMA ElementFacts ==
    ASSUME NEW T, NEW s \in Seq(T)
    PROVE  \A i \in DOMAIN s : s[i] \in T
OBVIOUS

\* A sequence whose elements are in a set is one of that set.
LEMMA RetypedFacts ==
    ASSUME NEW S, NEW T, NEW s \in Seq(S), \A x \in S : x \in T
    PROVE  s \in Seq(T)
OBVIOUS

\* What a text and a reading are merged into is a query (BusinessQueryMergePolicy.merge()):
\* the filters of the text in place of the model's, its time and its scope before it.
LEMMA UnderstandFacts ==
    ASSUME NEW text, IsText(text), NEW scope \in Optional(Sources), NEW model, IsReading(model),
           NEW u, u = Intent!Understand(text, scope, model), u.ok
    PROVE  /\ IsBusinessQuery(u.query) /\ u.scope \in Optional(Sources)
           /\ u.dates = text.dates /\ u.time = Intent!Time(text) /\ u.ask \in BOOLEAN
           /\ Intent!Time(text) # None => u.query.time = Intent!Time(text)
           /\ u.query.metrics \in Seq(Names)
           /\ \A i \in DOMAIN u.query.derivations : u.query.derivations[i].metric \in Optional(Names)
           /\ u.query.ranking # None => u.query.ranking.metric \in Optional(Names)
           /\ ~u.ask => \A i \in DOMAIN text.filters :
                            \E n \in DOMAIN u.query.filters : u.query.filters[n] = text.filters[i]
           /\ \A n \in DOMAIN u.query.filters :
                 \/ \E i \in DOMAIN text.filters : u.query.filters[n] = text.filters[i]
                 \/ u.ask
                 \/ \A i \in DOMAIN text.filters :
                       text.filters[i].subject # u.query.filters[n].subject
<1>. DEFINE rules == Intent!Extract(text, scope)
            query == Intent!Merge(rules, model)
<1>1. /\ u.query = query /\ u.scope = rules.scope /\ u.ask = Intent!Ambiguous(rules)
      /\ u.dates = rules.dates /\ u.time = rules.time
      /\ Intent!ExtractOK(text) /\ Intent!ParseOK(model) /\ Intent!MergeOK(query)
  BY DEF Intent!Understand
<1>2. /\ rules.objective = Intent!Objective(text) /\ rules.ranking = Intent!Ranking(text)
      /\ rules.comparison = text.comparison /\ rules.time = Intent!Time(text)
      /\ rules.dates = text.dates /\ rules.filters = text.filters /\ rules.words = text.words
      /\ rules.scope = IF scope # None THEN scope ELSE text.source
  BY DEF Intent!Extract
<1>3. /\ text.why \in BOOLEAN /\ text.comparison \in BOOLEAN /\ text.trend \in BOOLEAN
      /\ text.relative \in Optional(STRING)
      /\ text.ranking \in Optional([direction: {"ascending", "descending"}, metric: {None}, limit: Nat])
      /\ text.filters \in Seq(TextFilter) /\ text.source \in Optional(Sources)
      /\ text.words \in SUBSET STRING
  BY DEF IsText
<1>32. text.filters \in Seq(BusinessFilter)
  <2>1. \A x \in TextFilter : x \in BusinessFilter
    BY DEF TextFilter
  <2>. QED  BY <1>3, <2>1, RetypedFacts
<1>4. /\ model.objective \in BusinessObjective /\ model.metrics \in Seq(Names)
      /\ model.dimensions \in Seq(STRING) /\ model.entities \in Seq(STRING)
      /\ model.filters \in Seq(BusinessFilter) /\ model.time \in Optional(STRING)
      /\ model.ranking \in Optional([direction: {"ascending", "descending"},
                                     metric: Optional(Names), limit: 1..1000])
      /\ model.derivations \in Seq([operation: STRING, metric: Optional(Names)])
      /\ model.comparison \in BOOLEAN
  BY DEF IsReading
<1>5. /\ query.objective = Intent!Over(rules.objective, model.objective)
      /\ query.metrics = model.metrics /\ query.dimensions = model.dimensions
      /\ query.entities = model.entities /\ query.filters = Intent!MergedFilters(rules, model)
      /\ query.ranking = Intent!MergedRanking(rules, model)
      /\ query.derivations = model.derivations
      /\ query.time = Intent!Over(rules.time, model.time)
      /\ query.comparison = (rules.comparison \/ model.comparison)
      /\ query.words = rules.words
  BY DEF Intent!Merge
<1>6. PICK ru, qu : ru = rules /\ qu = query
  OBVIOUS
<1>7. qu = [objective |-> qu.objective, metrics |-> qu.metrics, dimensions |-> qu.dimensions,
           entities |-> qu.entities, filters |-> qu.filters, ranking |-> qu.ranking,
           derivations |-> qu.derivations, time |-> qu.time, comparison |-> qu.comparison,
           words |-> qu.words]
  BY <1>6 DEF Intent!Merge
<1>. HIDE DEF rules, query
<1>8. qu.objective \in BusinessObjective
  BY <1>2, <1>4, <1>5, <1>6, Nones DEF Intent!Over, Intent!Objective, BusinessObjective
<1>9. Intent!Time(text) \in Optional(STRING)
  BY SMTT(60), <1>3, WordsAssumption DEF Intent!Time, Optional
<1>10. qu.time \in Optional(STRING) /\ (Intent!Time(text) # None => qu.time = Intent!Time(text))
  BY <1>2, <1>4, <1>5, <1>6, <1>9 DEF Intent!Over, Optional
<1>11. /\ qu.ranking \in Optional(RankingSpec)
       /\ qu.ranking # None => qu.ranking.metric \in Optional(Names)
  <2>1. Names \subseteq STRING
    BY NamesAssumption
  <2>2. CASE text.ranking = None
    <3>1. qu.ranking = model.ranking
      BY SMTT(60), <1>2, <1>5, <1>6, <2>2 DEF Intent!MergedRanking, Intent!Ranking
    <3>2. model.ranking # None => /\ model.ranking \in RankingSpec
                                  /\ model.ranking.metric \in Optional(Names)
      <4>1. SUFFICES ASSUME model.ranking # None
                     PROVE  /\ model.ranking \in RankingSpec
                            /\ model.ranking.metric \in Optional(Names)
        BY SMTT(60)
      <4>2. model.ranking \in [direction: {"ascending", "descending"}, metric: Optional(Names),
                               limit: 1..1000]
        BY <1>4, <4>1 DEF Optional
      <4>. QED  BY <4>2, RankingIsSpec
    <3>. QED  BY <3>1, <3>2 DEF Optional
  <2>3. CASE text.ranking # None
    <3>1. text.ranking.limit \in Nat /\ text.ranking.limit > 0
          /\ text.ranking.direction \in {"ascending", "descending"}
      BY <1>1, <1>3, <2>3 DEF Optional, Intent!ExtractOK
    <3>2. PICK limit : limit = IF text.ranking.limit > Intent!MostRows THEN Intent!MostRows
                               ELSE text.ranking.limit
      BY SMTT(60)
    <3>3. limit \in 1..1000
      BY SMTT(60), <3>1, <3>2 DEF Intent!MostRows
    <3>4. ru.ranking = [direction |-> text.ranking.direction, metric |-> None, limit |-> limit]
      BY <1>2, <1>6, <2>3, <3>2 DEF Intent!Ranking
    <3>5. PICK metric : metric = IF model.ranking = None THEN None ELSE model.ranking.metric
      OBVIOUS
    <3>6. metric \in Optional(Names)
      BY <1>4, <3>5 DEF Optional
    <3>7. qu.ranking = [direction |-> text.ranking.direction, metric |-> metric, limit |-> limit]
      <4>1. ru.ranking # None
        <5>1. ru.ranking \in RankingSpec
          BY <3>1, <3>3, <3>4 DEF RankingSpec, Optional
        <5>. QED  BY <5>1, Nones
      <4>2. qu.ranking = [ru.ranking EXCEPT !.metric = metric]
        BY <1>5, <1>6, <3>5, <4>1 DEF Intent!MergedRanking
      <4>. QED  BY <3>4, <4>2
    <3>8. qu.ranking \in RankingSpec
      <4>1. [direction |-> text.ranking.direction, metric |-> metric, limit |-> limit] \in RankingSpec
        <5>1. PICK d : d = text.ranking.direction
          OBVIOUS
        <5>2. d \in {"ascending", "descending"}
          BY <3>1, <5>1
        <5>3. [direction |-> d, metric |-> metric, limit |-> limit]
                  \in [direction: {"ascending", "descending"}, metric: Optional(Names), limit: 1..1000]
          BY <3>3, <3>6, <5>2
        <5>4. [direction |-> d, metric |-> metric, limit |-> limit] \in RankingSpec
          BY <5>3, RankingIsSpec
        <5>. QED  BY <5>1, <5>4
      <4>. QED  BY <3>7, <4>1
    <3>. QED  BY <3>6, <3>7, <3>8 DEF Optional
  <2>. QED  BY <2>2, <2>3
<1>12. qu.words \in SUBSET STRING /\ qu.comparison \in BOOLEAN
  BY <1>2, <1>3, <1>4, <1>5, <1>6
<1>13. \A x \in Optional(Names) : x \in Optional(STRING)
  BY NamesAssumption DEF Optional
<1>14. qu.metrics \in Seq(STRING) /\ qu.derivations \in Seq(DerivationSpec)
  <2>1. qu.metrics \in Seq(Names) /\ qu.metrics = model.metrics
        /\ qu.derivations \in Seq([operation: STRING, metric: Optional(Names)])
    BY <1>4, <1>5, <1>6
  <2>2. \A x \in Names : x \in STRING
    BY NamesAssumption
  <2>3. \A x \in [operation: STRING, metric: Optional(Names)] : x \in DerivationSpec
    BY <1>13 DEF DerivationSpec
  <2>4. qu.metrics \in Seq(STRING)
    BY <2>1, <2>2
  <2>5. qu.derivations \in Seq(DerivationSpec)
    BY ZenonT(60), <2>1, <2>3, RetypedFacts
  <2>. QED  BY <2>4, <2>5
<1>15. qu.filters = Intent!MergedFilters(ru, model)
  BY <1>5, <1>6
<1>. DEFINE places == {i \in DOMAIN ru.filters : ru.filters[i].subject \notin PhysicalNames}
            stated == Taken(ru.filters, places)
            subjects == {stated[i].subject : i \in DOMAIN stated}
            others == {i \in DOMAIN model.filters : model.filters[i].subject \notin subjects}
            inferred == Taken(model.filters, others)
<1>16. qu.filters = stated \o inferred
  <2>1. Intent!MergedFilters(ru, model) = stated \o inferred
    BY DEF Intent!MergedFilters, Intent!Taken, Intent!InOrder, Intent!Cardinality,
           Taken, InOrder, Cardinality
  <2>. QED  BY <1>15, <2>1
<1>31. ru.filters = text.filters
  BY <1>2, <1>6
<1>17. /\ stated \in Seq(BusinessFilter)
       /\ \A n \in DOMAIN stated : \E i \in places : stated[n] = text.filters[i]
       /\ \A i \in places : \E n \in DOMAIN stated : stated[n] = text.filters[i]
  <2>1. places \in SUBSET DOMAIN ru.filters
    OBVIOUS
  <2>2. ru.filters \in Seq(BusinessFilter)
    BY <1>32, <1>31
  <2>. HIDE DEF places
  <2>3. /\ stated \in Seq(BusinessFilter)
        /\ \A n \in DOMAIN stated : \E i \in places : stated[n] = ru.filters[i]
        /\ \A i \in places : \E n \in DOMAIN stated : stated[n] = ru.filters[i]
    BY <2>1, <2>2, TakenFacts
  <2>. QED  BY <1>31, <2>3
<1>18. places \subseteq DOMAIN text.filters
  BY <1>31
<1>19. ~u.ask => places = DOMAIN text.filters
  BY <1>1, <1>2, <1>6, <1>31 DEF Intent!Ambiguous
<1>20. \A i \in places : text.filters[i].subject \in subjects
  BY <1>17
<1>. HIDE DEF places, stated
<1>21. /\ inferred \in Seq(BusinessFilter)
       /\ \A n \in DOMAIN inferred : inferred[n].subject \notin subjects
  <2>1. others \in SUBSET DOMAIN model.filters
    OBVIOUS
  <2>2. \A i \in others : model.filters[i].subject \notin subjects
    OBVIOUS
  <2>. HIDE DEF others, subjects
  <2>3. inferred \in Seq(BusinessFilter)
        /\ \A n \in DOMAIN inferred : \E i \in others : inferred[n] = model.filters[i]
    BY <1>4, <2>1, TakenFacts
  <2>. HIDE DEF inferred
  <2>. QED  BY <2>2, <2>3
<1>. HIDE DEF inferred, subjects
<1>23. /\ qu.filters \in Seq(BusinessFilter)
       /\ \A n \in DOMAIN qu.filters :
              \/ \E m \in DOMAIN stated : qu.filters[n] = stated[m]
              \/ \E m \in DOMAIN inferred : qu.filters[n] = inferred[m]
       /\ \A m \in DOMAIN stated : \E n \in DOMAIN qu.filters : qu.filters[n] = stated[m]
  <2>1. stated \in Seq(BusinessFilter) /\ inferred \in Seq(BusinessFilter)
    BY <1>17, <1>21
  <2>2. qu.filters = Joined(stated, inferred)
    BY <1>16 DEF Joined
  <2>. QED  BY <2>1, <2>2, JoinedFacts
<1>25. ~u.ask => \A i \in DOMAIN text.filters :
                     \E n \in DOMAIN qu.filters : qu.filters[n] = text.filters[i]
  BY <1>17, <1>19, <1>23
<1>26. \A n \in DOMAIN qu.filters :
          \/ \E i \in DOMAIN text.filters : qu.filters[n] = text.filters[i]
          \/ u.ask
          \/ \A i \in DOMAIN text.filters : text.filters[i].subject # qu.filters[n].subject
  BY SMTT(60), <1>17, <1>18, <1>19, <1>20, <1>21, <1>23
<1>27. IsBusinessQuery(qu)
  <2>1. qu.dimensions \in Seq(STRING) /\ qu.entities \in Seq(STRING)
    BY <1>4, <1>5, <1>6
  <2>2. /\ qu.objective = "ranking" => qu.ranking # None
        /\ qu.objective = "comparison" => qu.comparison
    BY <1>1, <1>6 DEF Intent!MergeOK
  <2>3. qu \in [objective: BusinessObjective, metrics: Seq(STRING), dimensions: Seq(STRING),
                entities: Seq(STRING), filters: Seq(BusinessFilter),
                ranking: Optional(RankingSpec), derivations: Seq(DerivationSpec),
                time: Optional(STRING), comparison: BOOLEAN, words: SUBSET STRING]
    BY <1>7, <1>8, <1>10, <1>11, <1>12, <1>14, <1>23, <2>1
  <2>. QED  BY <2>2, <2>3 DEF IsBusinessQuery
<1>28. u.scope \in Optional(Sources)
  BY <1>1, <1>2, <1>3 DEF Optional
<1>29. /\ u.dates = text.dates /\ u.time = Intent!Time(text) /\ u.ask \in BOOLEAN
       /\ u.query = qu
  BY <1>1, <1>2, <1>6 DEF Intent!Ambiguous
<1>30. /\ qu.metrics \in Seq(Names)
       /\ \A i \in DOMAIN qu.derivations : qu.derivations[i].metric \in Optional(Names)
  <2>1. qu.metrics = model.metrics /\ qu.derivations = model.derivations
    BY <1>5, <1>6
  <2>2. \A i \in DOMAIN model.derivations :
           model.derivations[i] \in [operation: STRING, metric: Optional(Names)]
    BY ZenonT(60), <1>4, ElementFacts
  <2>3. \A i \in DOMAIN model.derivations : model.derivations[i].metric \in Optional(Names)
    BY <2>2
  <2>. QED  BY <1>4, <2>1, <2>3
<1>. QED  BY <1>10, <1>11, <1>25, <1>26, <1>27, <1>28, <1>29, <1>30

-----------------------------------------------------------------------------
(* Bindings *)

\* Candidates within a scope that know the graph's identity of what they name.
Stable(matched, scope) == {c \in matched : scope \in {None, c.source} /\ ~c.migration}

\* The binding of a candidate: its term, unless it is for itself, and whether it is the axis.
As(c, slot, term) ==
    [c EXCEPT !.term = IF slot = "axis" THEN @ ELSE term, !.axisOf = slot = "axis"]

\* A set of one has no two elements.
LEMMA OneOnly ==
    ASSUME NEW S, IsFiniteSet(S), Cardinality(S) = 1
    PROVE  \E e : S = {e}
BY FS_Singleton

\* A term is bound to one of its candidates, and only if they agree (_governed_binding()).
LEMMA GovernedFacts ==
    ASSUME NEW matched \in SUBSET SemanticCandidate, IsFiniteSet(matched), NEW scope, NEW slot, NEW term
    PROVE  \/ Governed(slot, term, matched, scope) = {}
           \/ \E c \in Stable(matched, scope) :
                 /\ Governed(slot, term, matched, scope) = {As(c, slot, term)}
                 /\ \A d \in Stable(matched, scope) : Target(slot, d) = Target(slot, c)
<1>. DEFINE S == Stable(matched, scope)
            target == [c \in S |-> Target(slot, c)]
            T == {target[c] : c \in S}
<1>1. S \in SUBSET SemanticCandidate /\ IsFiniteSet(S)
  BY FS_Subset DEF Stable
<1>2. /\ S = {c \in matched : scope \in {None, c.source} /\ ~c.migration}
      /\ T = {Target(slot, c) : c \in S} /\ DOMAIN target = S
  BY DEF Stable
<1>3. IsFiniteSet(T)
  <2>. HIDE DEF S, target
  <2>. QED  BY <1>1, <1>2, FiniteImage
<1>4. CASE Cardinality(T) = 1
  <2>1. PICK e : T = {e}
    <3>. HIDE DEF T
    <3>. QED  BY <1>3, <1>4, OneOnly
  <2>2. S # {}
    BY <2>1
  <2>3. Preferred(S) \in S
    <3>. HIDE DEF S
    <3>. QED  BY <1>1, <2>2, PreferredIsOne
  <2>4. Governed(slot, term, matched, scope) = {As(Preferred(S), slot, term)}
    BY <1>2, <1>4 DEF Governed, As
  <2>5. \A d \in S : Target(slot, d) = e
    BY <1>2, <2>1
  <2>. QED  BY <2>3, <2>4, <2>5
<1>5. CASE Cardinality(T) # 1
  <2>1. Governed(slot, term, matched, scope) = {}
    BY <1>2, <1>5 DEF Governed
  <2>. QED  BY <2>1
<1>. QED  BY <1>4, <1>5

\* What a retrieval leaves for the grounding.
Retrieves(q, read, r) ==
    /\ IsBusinessQuery(q) /\ r.read = read /\ IsFiniteSet(r.candidates)
    /\ \A c \in r.candidates : Sound(read, c) /\ Unbound(c)

\* A binding says when it was bound.
Placed(b, i) == [b EXCEPT !.order = i]

\* A binding is its candidate but for what it is for.
LEMMA AsFacts ==
    ASSUME NEW c \in SemanticCandidate, NEW slot, NEW term \in STRING, NEW i \in Nat, NEW b,
           b = Placed(As(c, slot, term), i)
    PROVE  /\ b \in SemanticCandidate /\ b.type = c.type /\ b.id = c.id /\ b.name = c.name
           /\ b.labels = c.labels /\ b.source = c.source /\ b.object = c.object
           /\ b.path = c.path /\ b.dtype = c.dtype /\ b.aggregation = c.aggregation
           /\ b.axis = c.axis /\ b.migration = c.migration /\ b.order = i
           /\ b.axisOf = (slot = "axis") /\ b.term = (IF slot = "axis" THEN c.term ELSE term)
<1>1. PICK t, x : t = (IF slot = "axis" THEN c.term ELSE term) /\ x = (slot = "axis")
  OBVIOUS
<1>2. t \in STRING /\ x \in BOOLEAN
  BY <1>1 DEF SemanticCandidate
<1>3. b = [c EXCEPT !.term = t, !.axisOf = x, !.order = i]
  BY <1>1 DEF As, Placed, SemanticCandidate
<1>. QED  BY ZenonT(60), <1>1, <1>2, <1>3 DEF SemanticCandidate

\* What a candidate is stays what its binding is.
LEMMA BoundSound ==
    ASSUME NEW read, NEW c, Sound(read, c), NEW b \in SemanticCandidate,
           b.type = c.type, b.id = c.id, b.name = c.name, b.labels = c.labels,
           b.source = c.source, b.object = c.object, b.path = c.path, b.dtype = c.dtype
    PROVE  Sound(read, b)
BY DEF Sound

\* The slots of a term, and the terms of a slot (_slot_terms()).
SlotOf == {"metric", "dimension", "entity", "filter", "ranking", "derivation"}

MetricSlots == {"metric", "ranking", "derivation"}

\* What a term is bound to is a candidate of its slot (_bind_term()); of a label of
\* another candidate of the slot it is bound to the same.
LEMMA BindTermFacts ==
    ASSUME NEW q, NEW read, NEW r, Retrieves(q, read, r), NEW slot \in SlotOf, NEW term \in STRING
    PROVE  \/ BindTerm(q, r, slot, term) = {}
           \/ \E c \in r.candidates :
                 /\ BindTerm(q, r, slot, term) = {As(c, slot, term)}
                 /\ c.type \in SlotTypes[slot] /\ r.scope \in {None, c.source}
                 /\ \A d \in Stable(r.candidates, r.scope) :
                       d.type \in SlotTypes[slot] /\ term \in d.labels
                           => Target(slot, d) = Target(slot, c)
<1>. DEFINE addressed == {c \in r.candidates : c.type \in SlotTypes[slot] /\ Strength(q, c, term) > 0}
            best == {c \in addressed :
                        \A d \in addressed : Strength(q, c, term) >= Strength(q, d, term)}
<1>1. BindTerm(q, r, slot, term) = Governed(slot, term, best, r.scope)
  BY DEF BindTerm
<1>2. \A c \in r.candidates : c \in SemanticCandidate
  BY DEF Retrieves, Sound
<1>3. best \in SUBSET r.candidates
  OBVIOUS
<1>4. ASSUME NEW d \in Stable(r.candidates, r.scope), d.type \in SlotTypes[slot], term \in d.labels
      PROVE  d \in Stable(best, r.scope)
  <2>1. \A c \in r.candidates : Strength(q, c, term) \in 0..2
    BY DEF Strength
  <2>2. d \in r.candidates /\ Strength(q, d, term) = 2
    BY <1>4 DEF Stable, Strength
  <2>3. d \in best
    BY <1>4, <2>1, <2>2
  <2>. QED  BY <1>4, <2>3 DEF Stable
<1>5. \A c \in best : c.type \in SlotTypes[slot]
  OBVIOUS
<1>. HIDE DEF best
<1>6. best \in SUBSET SemanticCandidate /\ IsFiniteSet(best)
  BY <1>2, <1>3, FS_Subset DEF Retrieves
<1>7. CASE Governed(slot, term, best, r.scope) = {}
  BY <1>1, <1>7
<1>8. ASSUME NEW c \in Stable(best, r.scope),
             Governed(slot, term, best, r.scope) = {As(c, slot, term)},
             \A d \in Stable(best, r.scope) : Target(slot, d) = Target(slot, c)
      PROVE  /\ c \in r.candidates
             /\ BindTerm(q, r, slot, term) = {As(c, slot, term)}
             /\ c.type \in SlotTypes[slot] /\ r.scope \in {None, c.source}
             /\ \A d \in Stable(r.candidates, r.scope) :
                   d.type \in SlotTypes[slot] /\ term \in d.labels => Target(slot, d) = Target(slot, c)
  <2>1. c \in best /\ r.scope \in {None, c.source}
    BY <1>8 DEF Stable
  <2>. QED  BY <1>1, <1>3, <1>4, <1>5, <1>8, <2>1
<1>. QED  BY <1>6, <1>7, <1>8, GovernedFacts

\* The time axis is a candidate that is one (_bind_time()).
LEMMA BindAxisFacts ==
    ASSUME NEW q, NEW read, NEW r, Retrieves(q, read, r)
    PROVE  \/ BindAxis(q, r) = {}
           \/ \E c \in Stable(r.candidates, r.scope) :
                 BindAxis(q, r) = {As(c, "axis", None)} /\ c.type = "dimension" /\ c.axis
<1>. DEFINE matched == {c \in r.candidates : c.axis /\ c.type = "dimension"}
<1>1. BindAxis(q, r) = Governed("axis", None, matched, r.scope)
  BY DEF BindAxis
<1>2. matched \in SUBSET r.candidates /\ \A c \in matched : c.type = "dimension" /\ c.axis
  OBVIOUS
<1>3. \A c \in r.candidates : c \in SemanticCandidate
  BY DEF Retrieves, Sound
<1>. HIDE DEF matched
<1>4. matched \in SUBSET SemanticCandidate /\ IsFiniteSet(matched)
  BY <1>2, <1>3, FS_Subset DEF Retrieves
<1>5. \A c \in Stable(matched, r.scope) : c \in Stable(r.candidates, r.scope) /\ c.type = "dimension" /\ c.axis
  BY <1>2 DEF Stable
<1>. QED  BY <1>1, <1>4, <1>5, GovernedFacts

\* The terms of a slot, each with it.
LEMMA TaggedFacts ==
    ASSUME NEW S, NEW T, NEW slot, NEW terms \in Seq(S), \A x \in S : <<slot, x>> \in T
    PROVE  [i \in DOMAIN terms |-> <<slot, terms[i]>>] \in Seq(T)
OBVIOUS

\* A query has terms in slots; those of metrics have an order (_slot_terms()).
LEMMA SlotTermsFacts ==
    ASSUME NEW q, IsBusinessQuery(q), q.metrics \in Seq(Names),
           \A i \in DOMAIN q.derivations : q.derivations[i].metric \in Optional(Names),
           q.ranking # None => q.ranking.metric \in Optional(Names)
    PROVE  /\ SlotTerms(q) \in Seq(SlotOf \X STRING)
           /\ \A i \in DOMAIN SlotTerms(q) :
                 SlotTerms(q)[i][1] \in MetricSlots => SlotTerms(q)[i][2] \in Names
<1>. DEFINE T == ((SlotOf \ MetricSlots) \X STRING) \cup (MetricSlots \X Names)
            in(slot, terms) == [i \in DOMAIN terms |-> <<slot, terms[i]>>]
            ranking == IF q.ranking = None \/ q.ranking.metric = None THEN <<>>
                       ELSE <<q.ranking.metric>>
            derived == [i \in DOMAIN q.derivations |-> q.derivations[i].metric]
            subjects == [i \in DOMAIN q.filters |-> q.filters[i].subject]
            named == Taken(derived, {i \in DOMAIN derived : derived[i] # None})
<1>1. ASSUME NEW slot \in MetricSlots, NEW terms \in Seq(Names)
      PROVE  in(slot, terms) \in Seq(T)
  <2>1. \A x \in Names : <<slot, x>> \in T
    OBVIOUS
  <2>. HIDE DEF T
  <2>. QED  BY <2>1, TaggedFacts
<1>2. ASSUME NEW slot \in SlotOf \ MetricSlots, NEW terms \in Seq(STRING)
      PROVE  in(slot, terms) \in Seq(T)
  <2>1. \A x \in STRING : <<slot, x>> \in T
    OBVIOUS
  <2>. HIDE DEF T
  <2>. QED  BY <2>1, TaggedFacts
<1>3. ranking \in Seq(Names)
  BY DEF Optional
<1>4. subjects \in Seq(STRING)
  <2>1. q.filters \in Seq(BusinessFilter)
    BY DEF IsBusinessQuery
  <2>2. \A i \in DOMAIN q.filters : q.filters[i] \in BusinessFilter
    BY <2>1, ElementFacts
  <2>3. \A i \in DOMAIN q.filters : q.filters[i].subject \in STRING
    BY <2>2 DEF BusinessFilter
  <2>. QED  BY <2>1, <2>3
<1>5. named \in Seq(Names)
  <2>1. q.derivations \in Seq(DerivationSpec)
    BY DEF IsBusinessQuery
  <2>2. derived \in Seq(Optional(Names))
    BY <2>1
  <2>. DEFINE places == {i \in DOMAIN derived : derived[i] # None}
  <2>3. places \in SUBSET DOMAIN derived /\ \A i \in places : derived[i] \in Names
    BY <2>2, ElementFacts DEF Optional
  <2>. HIDE DEF derived, places
  <2>4. /\ Taken(derived, places) \in Seq(Optional(Names))
        /\ \A n \in DOMAIN Taken(derived, places) : \E i \in places : Taken(derived, places)[n] = derived[i]
    BY <2>2, <2>3, TakenFacts
  <2>5. PICK t : t = Taken(derived, places)
    OBVIOUS
  <2>6. \A n \in DOMAIN t : t[n] \in Names
    BY <2>3, <2>4, <2>5
  <2>7. t \in Seq(Names)
    BY <2>4, <2>5, <2>6
  <2>. QED  BY <2>5, <2>7 DEF places
<1>6. /\ "metric" \in MetricSlots /\ "ranking" \in MetricSlots /\ "derivation" \in MetricSlots
      /\ "dimension" \in SlotOf \ MetricSlots /\ "entity" \in SlotOf \ MetricSlots
      /\ "filter" \in SlotOf \ MetricSlots
  BY DEF SlotOf, MetricSlots
<1>7. q.dimensions \in Seq(STRING) /\ q.entities \in Seq(STRING)
  BY DEF IsBusinessQuery
<1>. HIDE DEF ranking, subjects, named
<1>8. /\ in("metric", q.metrics) \in Seq(T) /\ in("dimension", q.dimensions) \in Seq(T)
      /\ in("entity", q.entities) \in Seq(T) /\ in("filter", subjects) \in Seq(T)
      /\ in("ranking", ranking) \in Seq(T) /\ in("derivation", named) \in Seq(T)
  <2>. HIDE DEF in, T
  <2>. QED  BY <1>1, <1>2, <1>3, <1>4, <1>5, <1>6, <1>7
<1>9. SlotTerms(q) = in("metric", q.metrics) \o in("dimension", q.dimensions)
                         \o in("entity", q.entities) \o in("filter", subjects)
                         \o in("ranking", ranking) \o in("derivation", named)
  BY DEF SlotTerms, ranking, subjects, named
<1>10. SlotTerms(q) \in Seq(T)
  <2>1. \A s, t \in Seq(T) : s \o t \in Seq(T)
    OBVIOUS
  <2>. HIDE DEF in, T
  <2>. QED  BY <1>8, <1>9, <2>1
<1>11. \A x \in T : x \in SlotOf \X STRING /\ (x[1] \in MetricSlots => x[2] \in Names)
  BY NamesAssumption DEF SlotOf, MetricSlots
<1>. HIDE DEF T
<1>12. \A i \in DOMAIN SlotTerms(q) : SlotTerms(q)[i] \in T
  BY <1>10, ElementFacts
<1>13. SlotTerms(q) \in Seq(SlotOf \X STRING)
  BY <1>10, <1>11, RetypedFacts
<1>. QED  BY <1>11, <1>12, <1>13

\* A query whose metrics have an order among terms.
IsNamedQuery(q) ==
    /\ IsBusinessQuery(q) /\ q.metrics \in Seq(Names)
    /\ \A i \in DOMAIN q.derivations : q.derivations[i].metric \in Optional(Names)
    /\ q.ranking # None => q.ranking.metric \in Optional(Names)

\* The axis and a dimension asked for by its name are on one field.
OfOneAxis(bindings) ==
    \A a, b \in bindings :
        a.axisOf /\ a.term = b.term /\ b.type = "dimension" =>
            Ref(a) = Ref(b) /\ a.dtype = b.dtype

\* A grounding of a read: what is bound is of the read and of the scope; each metric is bound
\* once, and the time to one field.
Grounds(read, g) ==
    /\ g.read = read
    /\ \A b \in g.bindings : Sound(read, b) /\ g.scope \in {None, b.source}
    /\ \A b \in g.bindings : b.type = "metric" => b.term \in Names /\ ~b.axisOf
    /\ \A b, d \in g.bindings : b.type = "metric" /\ d.type = "metric" /\ b.term = d.term => b = d
    /\ \A b \in g.bindings : b.axisOf => b.type = "dimension" /\ b.axis
    /\ OfOneAxis(g.bindings)
    /\ IsFiniteSet({b \in g.bindings : b.type = "metric"}) /\ IsFiniteSet(g.bindings)
    /\ g.executable => Cardinality({b.source : b \in g.bindings}) = 1

\* What is bound is a grounding of the read (ground()).
LEMMA GroundFacts ==
    ASSUME NEW q, NEW read, NEW r, NEW scope, IsRead(read, scope), Retrieves(q, read, r),
           IsNamedQuery(q), NEW g, g = Ground(q, r)
    PROVE  /\ Grounds(read, g) /\ g.scope = r.scope /\ g.version = r.version
           /\ g.executable /\ q.time # None => \E b \in g.bindings : b.axisOf
<1>. DEFINE slots == SlotTerms(q)
            first == {i \in DOMAIN slots : \A j \in 1..(i - 1) : slots[j][2] # slots[i][2]}
            bound == [i \in first |-> {[b EXCEPT !.order = i] :
                                         b \in BindTerm(q, r, slots[i][1], slots[i][2])}]
            terms == UNION {bound[i] : i \in first}
            links == IF Cardinality(Objects(terms)) = 2 THEN BindRelationship(r, terms) ELSE {}
            axes == {[b EXCEPT !.order = Len(slots) + 2] :
                        b \in IF q.time = None THEN {} ELSE BindAxis(q, r)}
            linked == IF Cardinality(links) = 1
                      THEN {[c EXCEPT !.order = Len(slots) + 1] : c \in links} ELSE {}
<1>1. /\ g.scope = r.scope /\ g.version = r.version /\ g.read = r.read
      /\ g.bindings = terms \cup linked \cup axes
      /\ g.executable => Cardinality({b.source : b \in g.bindings}) = 1
      /\ g.executable /\ q.time # None => axes # {}
  BY DEF Ground
<1>2. slots \in Seq(SlotOf \X STRING)
      /\ \A i \in DOMAIN slots : slots[i][1] \in MetricSlots => slots[i][2] \in Names
  BY SlotTermsFacts DEF IsNamedQuery
<1>3. /\ r.read = read /\ \A c \in r.candidates : Sound(read, c) /\ Unbound(c) /\ c \in SemanticCandidate
  BY DEF Retrieves, Sound
<1>23. IsFiniteSet(r.candidates)
  BY DEF Retrieves
<1>. HIDE DEF slots
<1>4. \A i \in DOMAIN slots : slots[i][1] \in SlotOf /\ slots[i][2] \in STRING /\ i \in Nat
  BY <1>2
\* The binding of a term.
<1>5. ASSUME NEW i \in first
      PROVE  \/ bound[i] = {}
             \/ \E c \in r.candidates : \E b \in SemanticCandidate :
                   /\ bound[i] = {b} /\ Sound(read, b) /\ r.scope \in {None, b.source}
                   /\ b.term = slots[i][2] /\ ~b.axisOf
                   /\ b.type \in SlotTypes[slots[i][1]]
                   /\ \A d \in Stable(r.candidates, r.scope) :
                         d.type \in SlotTypes[slots[i][1]] /\ slots[i][2] \in d.labels =>
                             Target(slots[i][1], d) = Target(slots[i][1], b)
  <2>1. PICK slot \in SlotOf, term \in STRING : slot = slots[i][1] /\ term = slots[i][2] /\ i \in Nat
    BY <1>4
  <2>2. bound[i] = {[b EXCEPT !.order = i] : b \in BindTerm(q, r, slot, term)}
    BY <2>1
  <2>3. CASE BindTerm(q, r, slot, term) = {}
    BY <2>2, <2>3
  <2>4. ASSUME NEW c \in r.candidates, BindTerm(q, r, slot, term) = {As(c, slot, term)},
               c.type \in SlotTypes[slot], r.scope \in {None, c.source},
               \A d \in Stable(r.candidates, r.scope) :
                  d.type \in SlotTypes[slot] /\ term \in d.labels => Target(slot, d) = Target(slot, c)
        PROVE  \E b \in SemanticCandidate :
                   /\ bound[i] = {b} /\ Sound(read, b) /\ r.scope \in {None, b.source}
                   /\ b.term = term /\ ~b.axisOf
                   /\ b.type \in SlotTypes[slot]
                   /\ \A d \in Stable(r.candidates, r.scope) :
                         d.type \in SlotTypes[slot] /\ term \in d.labels =>
                             Target(slot, d) = Target(slot, b)
    <3>1. PICK b : b = Placed(As(c, slot, term), i)
      OBVIOUS
    <3>2. slot # "axis"
      BY DEF SlotOf
    <3>3. /\ b \in SemanticCandidate /\ b.type = c.type /\ b.id = c.id /\ b.name = c.name
          /\ b.labels = c.labels /\ b.source = c.source /\ b.object = c.object
          /\ b.path = c.path /\ b.dtype = c.dtype
          /\ b.axisOf = (slot = "axis") /\ b.term = (IF slot = "axis" THEN c.term ELSE term)
      BY <1>3, <2>1, <3>1, AsFacts
    <3>4. Sound(read, b)
      BY <1>3, <3>3, BoundSound
    <3>5. bound[i] = {b}
      BY <2>2, <2>4, <3>1 DEF Placed
    <3>6. Target(slot, b) = Target(slot, c)
      BY <3>3 DEF Target
    <3>. QED  BY <2>4, <3>2, <3>3, <3>4, <3>5, <3>6
  <2>. HIDE DEF bound
  <2>. QED  BY <1>3, <2>1, <2>3, <2>4, BindTermFacts
\* The binding of the time.
<1>6. \/ axes = {}
      \/ \E c \in Stable(r.candidates, r.scope) : \E b \in SemanticCandidate :
            /\ axes = {b} /\ Sound(read, b) /\ b.axisOf /\ b.term = c.term /\ b.type = "dimension"
            /\ b.axis /\ c.type = "dimension" /\ Ref(b) = Ref(c) /\ b.dtype = c.dtype
            /\ b.term \in c.labels /\ r.scope \in {None, b.source}
  <2>1. axes = {} \/ axes = {[b EXCEPT !.order = Len(slots) + 2] : b \in BindAxis(q, r)}
    OBVIOUS
  <2>2. CASE BindAxis(q, r) = {}
    BY <2>2
  <2>3. ASSUME NEW c \in Stable(r.candidates, r.scope), BindAxis(q, r) = {As(c, "axis", None)},
               c.type = "dimension", c.axis, axes # {}
        PROVE  \E b \in SemanticCandidate :
                 /\ axes = {b} /\ Sound(read, b) /\ b.axisOf /\ b.term = c.term /\ b.type = "dimension"
                 /\ b.axis /\ c.type = "dimension" /\ Ref(b) = Ref(c) /\ b.dtype = c.dtype
                 /\ b.term \in c.labels /\ r.scope \in {None, b.source}
    <3>1. PICK b : b = Placed(As(c, "axis", None), Len(slots) + 2)
      OBVIOUS
    <3>2. /\ c \in r.candidates /\ r.scope \in {None, c.source} /\ c \in SemanticCandidate
          /\ Sound(read, c) /\ Unbound(c)
      BY <1>3 DEF Stable
    <3>3. Len(slots) + 2 \in Nat
      BY <1>2
    <3>4. As(c, "axis", None) = As(c, "axis", Question)
      BY DEF As
    <3>5. b = Placed(As(c, "axis", Question), Len(slots) + 2)
      BY <3>1, <3>4
    <3>6. PICK n \in Nat, t \in STRING, slot \in {"axis"} : n = Len(slots) + 2 /\ t = Question /\ slot = "axis"
      BY <3>3, WordsAssumption
    <3>7. b = Placed(As(c, slot, t), n)
      BY <3>5, <3>6
    <3>8. /\ b \in SemanticCandidate /\ b.type = c.type /\ b.id = c.id /\ b.name = c.name
          /\ b.labels = c.labels /\ b.source = c.source /\ b.object = c.object
          /\ b.path = c.path /\ b.dtype = c.dtype /\ b.axisOf /\ b.term = c.term
          /\ b.axis = c.axis
      <4>1. /\ b \in SemanticCandidate /\ b.type = c.type /\ b.id = c.id /\ b.name = c.name
            /\ b.labels = c.labels /\ b.source = c.source /\ b.object = c.object
            /\ b.path = c.path /\ b.dtype = c.dtype /\ b.axisOf = (slot = "axis")
            /\ b.term = (IF slot = "axis" THEN c.term ELSE t) /\ b.axis = c.axis
        BY <3>2, <3>7, AsFacts
      <4>. QED  BY <3>6, <4>1
    <3>9. Sound(read, b)
      BY <3>2, <3>8, BoundSound
    <3>10. axes = {b}
      BY <2>1, <2>3, <3>1 DEF Placed
    <3>11. Ref(b) = Ref(c) /\ b.term \in c.labels
      BY <3>2, <3>8 DEF Ref, Sound, Unbound
    <3>. QED  BY <2>3, <3>2, <3>8, <3>9, <3>10, <3>11
  <2>. HIDE DEF axes
  <2>. QED  BY <2>1, <2>2, <2>3, BindAxisFacts
\* The relationship of the objects they are on.
<1>7. ASSUME NEW b \in linked
      PROVE  /\ Sound(read, b) /\ b.type = "relationship" /\ ~b.axisOf
             /\ \E x \in terms : x.source = b.source
  <2>1. PICK c \in links : b = [c EXCEPT !.order = Len(slots) + 1]
    OBVIOUS
  <2>2. c \in r.candidates /\ c.type = "relationship" /\ \E x \in terms : x.source = c.source
    BY DEF BindRelationship
  <2>3. c \in SemanticCandidate /\ Sound(read, c) /\ ~c.axisOf
    BY <1>3, <2>2 DEF Unbound
  <2>4. Len(slots) + 1 \in Nat
    BY <1>2
  <2>5. /\ b \in SemanticCandidate /\ b.type = c.type /\ b.id = c.id /\ b.name = c.name
        /\ b.labels = c.labels /\ b.source = c.source /\ b.object = c.object
        /\ b.path = c.path /\ b.dtype = c.dtype /\ b.axisOf = c.axisOf
    BY <2>1, <2>3, <2>4 DEF SemanticCandidate
  <2>. HIDE DEF terms
  <2>. QED  BY <2>2, <2>3, <2>5, BoundSound
<1>8. \A b \in terms : \E i \in first : b \in bound[i]
  OBVIOUS
<1>9. \A i, j \in first : slots[i][2] = slots[j][2] => i = j
  <2>1. ASSUME NEW i \in first, NEW j \in first, slots[i][2] = slots[j][2]
        PROVE  ~(i < j)
    <3>1. i \in Nat /\ j \in Nat /\ i >= 1
      BY <1>2
    <3>. QED  BY <2>1, <3>1
  <2>2. \A i \in first : i \in Nat
    BY <1>2
  <2>. HIDE DEF first
  <2>. QED  BY <2>1, <2>2
<1>10. IsFiniteSet(first)
  <2>1. Len(slots) \in Nat /\ first \in SUBSET (1..Len(slots))
    BY <1>2
  <2>. HIDE DEF first
  <2>2. IsFiniteSet(1..Len(slots))
    BY <2>1, FS_Interval
  <2>. QED  BY <2>1, <2>2, FS_Subset
<1>11. first \subseteq DOMAIN slots /\ DOMAIN bound = first /\ terms = UNION {bound[i] : i \in first}
  OBVIOUS
<1>. HIDE DEF first, bound, terms, axes, linked
<1>12. \A b \in terms : \E i \in first :
          /\ bound[i] = {b} /\ b \in SemanticCandidate /\ Sound(read, b) /\ r.scope \in {None, b.source}
          /\ b.term = slots[i][2] /\ ~b.axisOf /\ b.type \in SlotTypes[slots[i][1]]
          /\ \A d \in Stable(r.candidates, r.scope) :
                d.type \in SlotTypes[slots[i][1]] /\ slots[i][2] \in d.labels =>
                    Target(slots[i][1], d) = Target(slots[i][1], b)
  BY <1>5, <1>8
<1>13. \A b \in g.bindings : b \in terms \/ b \in linked \/ b \in axes
  BY <1>1
<1>14. \A b \in g.bindings : Sound(read, b) /\ r.scope \in {None, b.source}
  BY <1>6, <1>7, <1>12, <1>13
<1>15. \A b \in g.bindings : b.type = "metric" => b \in terms
  BY <1>6, <1>7, <1>13
<1>16. \A b \in g.bindings : b.axisOf => axes = {b} /\ b.type = "dimension" /\ b.axis
  BY <1>6, <1>7, <1>12, <1>13
<1>17. \A b \in g.bindings : b.type = "metric" => b.term \in Names /\ ~b.axisOf
  <2>1. \A slot \in SlotOf : "metric" \in SlotTypes[slot] => slot \in MetricSlots
    BY DEF SlotOf, SlotTypes, MetricSlots
  <2>. QED  BY SMTT(60), <1>2, <1>4, <1>11, <1>12, <1>15, <1>16, <2>1
<1>18. \A b, d \in g.bindings : b.type = "metric" /\ d.type = "metric" /\ b.term = d.term => b = d
  BY <1>9, <1>12, <1>15
<1>19. OfOneAxis(g.bindings)
  <2>1. SUFFICES ASSUME NEW a \in g.bindings, NEW b \in g.bindings, a.axisOf, a.term = b.term,
                        b.type = "dimension"
                 PROVE  Ref(a) = Ref(b) /\ a.dtype = b.dtype
    BY DEF OfOneAxis
  <2>2. axes = {a}
    BY <1>16, <2>1
  <2>3. CASE b \in axes
    BY <2>2, <2>3
  <2>4. CASE b \in linked
    BY <1>7, <2>1, <2>4
  <2>5. CASE b \in terms
    <3>1. PICK c \in Stable(r.candidates, r.scope) :
             /\ Sound(read, a) /\ a.term = c.term /\ c.type = "dimension" /\ Ref(a) = Ref(c)
             /\ a.dtype = c.dtype /\ a.term \in c.labels
      BY <1>6, <2>2
    <3>2. PICK i \in first :
             /\ Sound(read, b) /\ b.term = slots[i][2] /\ b.type \in SlotTypes[slots[i][1]]
             /\ \A d \in Stable(r.candidates, r.scope) :
                   d.type \in SlotTypes[slots[i][1]] /\ slots[i][2] \in d.labels =>
                       Target(slots[i][1], d) = Target(slots[i][1], b)
      BY <1>12, <2>5
    <3>3. slots[i][1] # "entity"
      <4>1. slots[i][1] \in SlotOf
        BY <1>4, <1>11
      <4>. QED  BY <2>1, <3>2, <4>1 DEF SlotOf, SlotTypes
    <3>4. Target(slots[i][1], c) = Target(slots[i][1], b)
      BY <2>1, <3>1, <3>2
    <3>5. Ref(c) = Ref(b)
      BY <3>3, <3>4 DEF Target, Ref
    <3>6. a.dtype = b.dtype
      <4>1. a.object = b.object /\ a.path = b.path /\ a.path # None /\ b.path # None
        BY <2>1, <3>1, <3>2, <3>5 DEF Ref, Sound
      <4>2. PICK f \in read.fields : f.object = a.object /\ f.path = a.path /\ f.type = a.dtype
        BY <3>1, <4>1 DEF Sound
      <4>3. PICK h \in read.fields : h.object = b.object /\ h.path = b.path /\ h.type = b.dtype
        BY <3>2, <4>1 DEF Sound
      <4>. QED  BY <4>1, <4>2, <4>3, ReadFacts
    <3>. QED  BY <3>1, <3>5, <3>6
  <2>. QED  BY <1>13, <2>3, <2>4, <2>5
<1>20. IsFiniteSet(terms) /\ IsFiniteSet({b \in g.bindings : b.type = "metric"})
  <2>1. IsFiniteSet({bound[i] : i \in first})
    BY <1>10, <1>11, FiniteImage
  <2>2. \A i \in first : IsFiniteSet(bound[i])
    <3>1. ASSUME NEW i \in first
          PROVE  bound[i] = {} \/ \E b : bound[i] = {b}
      BY <1>5
    <3>. QED  BY ZenonT(60), <3>1, FS_EmptySet, FS_Singleton
  <2>3. IsFiniteSet(terms)
    BY <1>11, <2>1, <2>2, FS_UNION
  <2>4. {b \in g.bindings : b.type = "metric"} \in SUBSET terms
    BY <1>15
  <2>. QED  BY <2>3, <2>4, FS_Subset
<1>22. IsFiniteSet(linked)
  <2>1. IsFiniteSet(links)
    <3>1. links \in SUBSET r.candidates
      BY DEF BindRelationship
    <3>. QED  BY <1>23, <3>1, FS_Subset
  <2>2. CASE Cardinality(links) = 1
    <3>1. PICK c : links = {c}
      BY <2>1, <2>2, OneOnly
    <3>2. linked = {[c EXCEPT !.order = Len(slots) + 1]}
      BY <2>2, <3>1 DEF linked
    <3>. QED  BY <3>2, FS_Singleton
  <2>3. CASE Cardinality(links) # 1
    BY <2>3, FS_EmptySet DEF linked
  <2>. QED  BY <2>2, <2>3
<1>24. IsFiniteSet(g.bindings)
  <2>1. IsFiniteSet(axes)
    <3>1. axes = {} \/ \E b : axes = {b}
      BY <1>6
    <3>. QED  BY <3>1, FS_EmptySet, FS_Singleton
  <2>2. IsFiniteSet(terms \cup linked)
    BY <1>20, <1>22, FS_Union
  <2>3. IsFiniteSet((terms \cup linked) \cup axes)
    BY <2>1, <2>2, FS_Union
  <2>. QED  BY <1>1, <2>3
<1>21. g.executable /\ q.time # None => \E b \in g.bindings : b.axisOf
  BY <1>1, <1>6
<1>. QED  BY SMTT(60), <1>1, <1>3, <1>14, <1>16, <1>17, <1>18, <1>19, <1>20, <1>21, <1>24 DEF Grounds

-----------------------------------------------------------------------------
(* The context of a plan *)

\* The first of those on a field stands for them (_dedupe()).
LEMMA DedupedFacts ==
    ASSUME NEW T, NEW seq \in Seq(T)
    PROVE  /\ Deduped(seq) \in Seq(T)
           /\ \A n \in DOMAIN Deduped(seq) : \E i \in DOMAIN seq : Deduped(seq)[n] = seq[i]
           /\ \A i \in DOMAIN seq : \E n \in DOMAIN Deduped(seq) : Ref(Deduped(seq)[n]) = Ref(seq[i])
<1>. DEFINE places == {i \in DOMAIN seq : \A j \in 1..(i - 1) : Ref(seq[j]) # Ref(seq[i])}
<1>1. Deduped(seq) = Taken(seq, places)
  BY DEF Deduped
<1>2. places \in SUBSET DOMAIN seq
  OBVIOUS
<1>3. ASSUME NEW i \in DOMAIN seq
      PROVE  \E j \in places : Ref(seq[j]) = Ref(seq[i])
  <2>. DEFINE same == {j \in DOMAIN seq : Ref(seq[j]) = Ref(seq[i])}
  <2>1. same \in SUBSET Nat /\ i \in same
    OBVIOUS
  <2>2. PICK j \in same : \A k \in same : j <= k
    <3>. HIDE DEF same
    <3>. QED  BY <2>1, LeastOf
  <2>3. ASSUME NEW k \in 1..(j - 1), Ref(seq[k]) = Ref(seq[j])
        PROVE  FALSE
    <3>1. j \in DOMAIN seq /\ j \in Nat /\ Ref(seq[j]) = Ref(seq[i])
      BY <2>1, <2>2
    <3>2. k \in DOMAIN seq /\ k \in Nat /\ k < j
      BY <3>1
    <3>3. k \in same
      BY <2>3, <3>1, <3>2
    <3>. QED  BY <2>2, <3>1, <3>2, <3>3
  <2>4. j \in DOMAIN seq /\ Ref(seq[j]) = Ref(seq[i])
    BY <2>2
  <2>5. j \in places
    BY <2>3, <2>4
  <2>. QED  BY <2>4, <2>5
<1>. HIDE DEF places
<1>4. /\ Taken(seq, places) \in Seq(T)
      /\ \A n \in DOMAIN Taken(seq, places) : \E i \in places : Taken(seq, places)[n] = seq[i]
      /\ \A i \in places : \E n \in DOMAIN Taken(seq, places) : Taken(seq, places)[n] = seq[i]
  BY <1>2, TakenFacts
<1>5. PICK t : t = Taken(seq, places)
  OBVIOUS
<1>6. \A i \in DOMAIN seq : \E n \in DOMAIN t : Ref(t[n]) = Ref(seq[i])
  BY SMTT(60), <1>3, <1>4, <1>5
<1>. QED  BY <1>1, <1>2, <1>4, <1>5, <1>6

\* The bindings of some types.
Typed(bindings, types) == {b \in bindings : b.type \in types}

\* Of what a term is bound to by its type one is preferred.
LEMMA BoundAsFacts ==
    ASSUME NEW bindings \in SUBSET SemanticCandidate, NEW term, NEW types,
           BoundAs(bindings, term, types) # {}
    PROVE  /\ Preferred(BoundAs(bindings, term, types)) \in Typed(bindings, types)
           /\ Preferred(BoundAs(bindings, term, types)).term = term
<1>1. BoundAs(bindings, term, types) \in SUBSET SemanticCandidate
  BY DEF BoundAs
<1>2. Preferred(BoundAs(bindings, term, types)) \in BoundAs(bindings, term, types)
  BY <1>1, PreferredIsOne
<1>. QED  BY <1>2 DEF BoundAs, Typed

\* Terms are bound by their type, in order (_bindings_for_terms()).
LEMMA BoundTermsFacts ==
    ASSUME NEW bindings \in SUBSET SemanticCandidate, NEW terms \in Seq(STRING), NEW types,
           \A i \in DOMAIN terms : BoundAs(bindings, terms[i], types) # {}
    PROVE  BoundTerms(bindings, terms, types) \in Seq(Typed(bindings, types))
<1>. DEFINE seq == [i \in DOMAIN terms |-> Preferred(BoundAs(bindings, terms[i], types))]
<1>1. \A i \in DOMAIN terms : Preferred(BoundAs(bindings, terms[i], types)) \in Typed(bindings, types)
  BY BoundAsFacts
<1>2. seq \in Seq(Typed(bindings, types))
  <2>1. DOMAIN terms = 1..Len(terms) /\ Len(terms) \in Nat
    OBVIOUS
  <2>. QED  BY <1>1, <2>1
<1>. HIDE DEF seq
<1>. QED  BY <1>2, DedupedFacts DEF BoundTerms, seq

\* What a binding is on is one object of the read.
LEMMA ObjectFacts ==
    ASSUME NEW read, NEW scope, IsRead(read, scope), NEW b, Sound(read, b), b.object # None
    PROVE  /\ b.object \in STRING
           /\ \E o \in read.objects : o.id = b.object /\ o.source = b.source
<1>1. \E o \in read.objects : o.id = b.object /\ o.source = b.source
  BY DEF Sound
<1>. QED  BY <1>1, ReadFacts, NamesAssumption

\* The field of a binding that has one.
LEMMA RefFacts ==
    ASSUME NEW read, NEW scope, IsRead(read, scope), NEW b, Sound(read, b), b.path # None
    PROVE  Ref(b) \in FieldRef /\ Ref(b) # None /\ b.object # None
<1>1. b.type # "relationship"
  BY DEF Sound
<1>2. \E o \in read.objects : o.id = b.object
  BY <1>1 DEF Sound
<1>3. b.object \in STRING /\ b.object # None
  BY ZenonT(60), <1>2, ReadFacts, NamesAssumption
<1>4. b.path \in STRING /\ b.source \in Sources
  BY DEF Sound, SemanticCandidate, Optional
<1>. QED  BY <1>3, <1>4, Nones DEF Ref, FieldRef

\* What a context keeps of the grounding and the query (build()).
Contexts(g, q, axis, range, c) ==
    /\ c.bindings = g.bindings /\ c.scope = g.scope /\ c.version = g.version
    /\ c.ranking = q.ranking /\ c.derivations = q.derivations /\ c.range = range
    /\ c.sources = {b.source : b \in g.bindings} /\ g.bindings # {}
    /\ c.metrics \in Seq(Typed(g.bindings, {"metric"}))
    /\ c.dimensions \in Seq(Typed(g.bindings, {"dimension"}))
    /\ c.filters \in Seq(QueryContextFilter) /\ DOMAIN c.filters = DOMAIN q.filters
    /\ \A i \in DOMAIN q.filters :
          /\ c.filters[i].operator \in OperatorsOf(q.filters[i].operator)
          /\ c.filters[i].values = q.filters[i].values
          /\ \E b \in g.bindings : /\ b.term = q.filters[i].subject /\ b.path # None
                                   /\ c.filters[i].field = Ref(b)
    /\ (axis = None) = (c.time = None) /\ (axis = None) = (range = None)
    /\ axis # None => /\ c.time \in g.bindings /\ c.time.term = axis /\ c.time.path # None
                      /\ c.time.dtype \in DateTypes
                      /\ \A b \in g.bindings : b.term = axis /\ b.path # None => ~Better(b, c.time)
    /\ c.relationships \subseteq g.read.relationships
    /\ c.locators = {o \in g.read.objects : o.id \in Objects(g.bindings)}
    /\ \A i \in DOMAIN q.derivations : DerivationOK(g.bindings, q.derivations[i])
    /\ RankingOK(g.bindings, q.ranking) /\ Aggregated(g.bindings, q)
    /\ \A i \in DOMAIN q.metrics : BoundAs(g.bindings, q.metrics[i], {"metric"}) # {}

\* A filter of the context is that of the query, on the field its subject is bound to
\* (_filter()).
LEMMA FilterFacts ==
    ASSUME NEW read, NEW scope, IsRead(read, scope), NEW g, Grounds(read, g),
           NEW f \in BusinessFilter, FilterOK(g.bindings, f)
    PROVE  /\ Filter(g.bindings, f) \in QueryContextFilter
           /\ Filter(g.bindings, f).operator \in OperatorsOf(f.operator)
           /\ Filter(g.bindings, f).values = f.values
           /\ \E b \in g.bindings : /\ b.term = f.subject /\ b.path # None
                                    /\ Filter(g.bindings, f).field = Ref(b)
<1>1. g.bindings \in SUBSET SemanticCandidate
  BY DEF Grounds, Sound
<1>2. BoundAs(g.bindings, f.subject, FilterTypes) # {} /\ OperatorsOf(f.operator) # {}
  BY DEF FilterOK
<1>3. PICK b : b = Preferred(BoundAs(g.bindings, f.subject, FilterTypes))
  OBVIOUS
<1>4. b \in Typed(g.bindings, FilterTypes) /\ b.term = f.subject
  BY <1>1, <1>2, <1>3, BoundAsFacts
<1>5. b \in g.bindings /\ b.type \in {"dimension", "field"}
  BY <1>4 DEF Typed, FilterTypes
<1>6. Sound(read, b) /\ b.path # None
  BY <1>5 DEF Grounds, Sound
<1>7. Ref(b) \in FieldRef
  BY <1>6, RefFacts
<1>10. PICK o \in OperatorsOf(f.operator) : o = CHOOSE x \in OperatorsOf(f.operator) : TRUE
  BY <1>2
<1>11. o \in FilterOperators
  BY DEF OperatorsOf
<1>8. Filter(g.bindings, f) =
         [field |-> Ref(b), operator |-> o, values |-> f.values, list |-> f.list]
  BY <1>3, <1>10 DEF Filter
<1>9. f.values \in Seq(STRING \cup {Null}) /\ f.list \in BOOLEAN
  BY DEF BusinessFilter
<1>. QED  BY <1>4, <1>5, <1>6, <1>7, <1>8, <1>9, <1>11 DEF QueryContextFilter

\* What a context is built of (build()).
LEMMA ContextFacts ==
    ASSUME NEW read, NEW scope, IsRead(read, scope), NEW g, Grounds(read, g),
           NEW q, IsNamedQuery(q), NEW axis, NEW range, NEW c,
           c = Context(g, q, axis, range), c.ok
    PROVE  Contexts(g, q, axis, range, c)
<1>. DEFINE B == g.bindings
            filters == [i \in DOMAIN q.filters |-> Filter(B, q.filters[i])]
            time == IF axis = None THEN None ELSE Preferred(TimeFields(B, axis))
            relationships == {r \in g.read.relationships :
                                 \E x \in B : x.type = "relationship" /\ x.id = r.id}
<1>1. ContextOK(g, q, axis, range)
  BY DEF Context, Nothing
<1>2. /\ c.bindings = B /\ c.scope = g.scope /\ c.version = g.version
      /\ c.ranking = q.ranking /\ c.derivations = q.derivations /\ c.range = range
      /\ c.sources = {b.source : b \in B}
      /\ c.metrics = BoundTerms(B, q.metrics, {"metric"})
      /\ c.dimensions = BoundTerms(B, q.dimensions, {"dimension"})
      /\ c.filters = filters /\ c.time = time /\ c.relationships = relationships
      /\ c.locators = {o \in g.read.objects : o.id \in Objects(B)}
  BY <1>1 DEF Context
<1>3. /\ g.executable
      /\ \A i \in DOMAIN q.derivations : DerivationOK(B, q.derivations[i])
      /\ RankingOK(B, q.ranking) /\ TimeOK(B, axis, range) /\ Aggregated(B, q)
      /\ \A i \in DOMAIN q.metrics : BoundAs(B, q.metrics[i], {"metric"}) # {}
      /\ \A i \in DOMAIN q.dimensions : BoundAs(B, q.dimensions[i], {"dimension"}) # {}
      /\ \A i \in DOMAIN q.filters : FilterOK(B, q.filters[i])
  BY <1>1 DEF ContextOK
<1>4. B \in SUBSET SemanticCandidate
  BY DEF Grounds, Sound
<1>5. B # {}
  <2>1. Cardinality({b.source : b \in B}) = 1
    BY <1>3 DEF Grounds
  <2>2. {b.source : b \in B} # {}
    BY <2>1, CountedIsThere
  <2>. QED  BY <2>2
<1>6. /\ q.metrics \in Seq(STRING) /\ q.dimensions \in Seq(STRING)
      /\ q.filters \in Seq(BusinessFilter)
  BY DEF IsNamedQuery, IsBusinessQuery
<1>7. /\ c.metrics \in Seq(Typed(B, {"metric"})) /\ c.dimensions \in Seq(Typed(B, {"dimension"}))
  <2>. HIDE DEF B
  <2>1. BoundTerms(B, q.metrics, {"metric"}) \in Seq(Typed(B, {"metric"}))
    BY <1>3, <1>4, <1>6, BoundTermsFacts
  <2>2. BoundTerms(B, q.dimensions, {"dimension"}) \in Seq(Typed(B, {"dimension"}))
    BY <1>3, <1>4, <1>6, BoundTermsFacts
  <2>. QED  BY <1>2, <2>1, <2>2
<1>8. \A i \in DOMAIN q.filters :
         /\ Filter(B, q.filters[i]) \in QueryContextFilter
         /\ Filter(B, q.filters[i]).operator \in OperatorsOf(q.filters[i].operator)
         /\ Filter(B, q.filters[i]).values = q.filters[i].values
         /\ \E b \in B : /\ b.term = q.filters[i].subject /\ b.path # None
                         /\ Filter(B, q.filters[i]).field = Ref(b)
  <2>1. \A i \in DOMAIN q.filters : q.filters[i] \in BusinessFilter
    BY <1>6, ElementFacts
  <2>. QED  BY <1>3, <2>1, FilterFacts
<1>9. /\ DOMAIN filters = DOMAIN q.filters
      /\ \A i \in DOMAIN q.filters : filters[i] = Filter(B, q.filters[i])
  OBVIOUS
<1>10. filters \in Seq(QueryContextFilter)
  <2>1. DOMAIN q.filters = 1..Len(q.filters) /\ Len(q.filters) \in Nat
    BY <1>6
  <2>2. filters = [i \in 1..Len(q.filters) |-> Filter(B, q.filters[i])]
    BY <2>1
  <2>3. \A i \in 1..Len(q.filters) : Filter(B, q.filters[i]) \in QueryContextFilter
    BY <1>8, <2>1
  <2>. HIDE DEF filters
  <2>. QED  BY <2>1, <2>2, <2>3
<1>11. (axis = None) = (range = None)
  BY <1>3 DEF TimeOK
<1>12. axis # None => /\ time \in TimeFields(B, axis) /\ time.dtype \in DateTypes
                      /\ \A b \in TimeFields(B, axis) : ~Better(b, time)
  <2>1. SUFFICES ASSUME axis # None
                 PROVE  /\ time \in TimeFields(B, axis) /\ time.dtype \in DateTypes
                        /\ \A b \in TimeFields(B, axis) : ~Better(b, time)
    OBVIOUS
  <2>2. TimeFields(B, axis) # {} /\ Preferred(TimeFields(B, axis)).dtype \in DateTypes
    BY <1>3, <2>1 DEF TimeOK
  <2>3. TimeFields(B, axis) \in SUBSET SemanticCandidate
    BY <1>4 DEF TimeFields
  <2>4. time = Preferred(TimeFields(B, axis))
    BY <2>1
  <2>. HIDE DEF B, time
  <2>5. /\ Preferred(TimeFields(B, axis)) \in TimeFields(B, axis)
        /\ \A b \in TimeFields(B, axis) : ~Better(b, Preferred(TimeFields(B, axis)))
    BY <2>2, <2>3, PreferredIsOne
  <2>. QED  BY <2>2, <2>4, <2>5
<1>13. (axis = None) = (c.time = None)
  BY <1>2, <1>4, <1>12, Nones DEF TimeFields
<1>14. axis # None => /\ c.time \in B /\ c.time.term = axis /\ c.time.path # None
                      /\ c.time.dtype \in DateTypes
                      /\ \A b \in B : b.term = axis /\ b.path # None => ~Better(b, c.time)
  BY <1>2, <1>12 DEF TimeFields
<1>15. c.relationships \subseteq g.read.relationships
  BY <1>2
<1>. HIDE DEF filters, time, relationships
<1>16. /\ c.filters \in Seq(QueryContextFilter) /\ DOMAIN c.filters = DOMAIN q.filters
       /\ \A i \in DOMAIN q.filters :
             /\ c.filters[i].operator \in OperatorsOf(q.filters[i].operator)
             /\ c.filters[i].values = q.filters[i].values
             /\ \E b \in g.bindings : /\ b.term = q.filters[i].subject /\ b.path # None
                                      /\ c.filters[i].field = Ref(b)
  BY <1>2, <1>8, <1>9, <1>10
<1>. QED  BY <1>2, <1>3, <1>5, <1>7, <1>11, <1>13, <1>14, <1>15, <1>16 DEF Contexts

\* A context is what the contract of one asks (GroundedQueryContext).
LEMMA ContextIsOne ==
    ASSUME NEW read, NEW scope, IsRead(read, scope), NEW g, Grounds(read, g),
           NEW q, NEW axis, NEW range, NEW c, Contexts(g, q, axis, range, c)
    PROVE  IsGroundedQueryContext(c)
<1>1. /\ c.bindings = g.bindings /\ c.scope = g.scope /\ c.range = range /\ g.bindings # {}
      /\ c.sources = {b.source : b \in g.bindings} /\ c.filters \in Seq(QueryContextFilter)
      /\ (axis = None) = (c.time = None) /\ (axis = None) = (range = None)
      /\ axis # None => c.time.dtype \in DateTypes
      /\ c.relationships \subseteq g.read.relationships
      /\ c.locators = {o \in g.read.objects : o.id \in Objects(g.bindings)}
  BY DEF Contexts
<1>2. g.read = read /\ \A b \in g.bindings : Sound(read, b) /\ g.scope \in {None, b.source}
  BY DEF Grounds
<1>3. \A b \in c.bindings : IsQueryContextBinding(b)
  <2>1. SUFFICES ASSUME NEW b \in g.bindings, b.type # "relationship"
                 PROVE  b.object # None /\ (b.type \in {"metric", "dimension", "field"} => b.path # None)
    BY <1>1 DEF IsQueryContextBinding
  <2>2. Sound(read, b)
    BY <1>2
  <2>3. \E o \in read.objects : o.id = b.object
    BY <2>1, <2>2 DEF Sound
  <2>4. b.object # None
    BY ZenonT(60), <2>3, ReadFacts, NamesAssumption
  <2>. QED  BY <2>2, <2>4 DEF Sound
<1>4. \A i \in DOMAIN c.filters : c.filters[i] \in QueryContextFilter
  BY <1>1, ElementFacts
<1>5. c.relationships \subseteq QueryContextRelationship /\ c.locators \subseteq GroundedDataObjectRef
  BY <1>1, <1>2, ReadFacts
<1>6. c.scope # None => c.sources = {c.scope}
  BY <1>1, <1>2
<1>7. \A o \in c.locators : o.source \in c.sources
  <2>1. SUFFICES ASSUME NEW o \in read.objects, NEW b \in g.bindings, o.id = b.object, b.object # None
                 PROVE  o.source = b.source
    BY <1>1, <1>2 DEF Objects
  <2>2. PICK x \in read.objects : x.id = b.object /\ x.source = b.source
    BY <1>2, <2>1, ObjectFacts
  <2>. QED  BY <2>1, <2>2, ReadFacts
<1>. QED  BY <1>1, <1>3, <1>4, <1>5, <1>6, <1>7 DEF IsGroundedQueryContext

-----------------------------------------------------------------------------
(* The plan of a context *)

\* Of finitely many places one is the last.
LEMMA GreatestOf ==
    ASSUME NEW n \in Nat, NEW S \in SUBSET (1..n), S # {}
    PROVE  \E i \in S : \A j \in S : j <= i
<1>. DEFINE T == {n - i : i \in S}
<1>1. T \in SUBSET Nat /\ T # {}
  <2>1. \A i \in S : n - i \in Nat
    OBVIOUS
  <2>. QED  BY <2>1
<1>2. PICK m \in T : \A x \in T : m <= x
  <2>. HIDE DEF T
  <2>. QED  BY <1>1, LeastOf
<1>3. PICK i \in S : m = n - i
  BY <1>2
<1>4. ASSUME NEW j \in S
      PROVE  j <= i
  <2>1. n - j \in T
    OBVIOUS
  <2>2. n - i <= n - j
    BY <1>2, <1>3, <2>1
  <2>. QED  BY <2>2
<1>. QED  BY <1>3, <1>4

\* The function of a metric is a derivation of it, or the one governed for it
\* (_aggregates()): none is guessed.
LEMMA FunctionFacts ==
    ASSUME NEW read, NEW g, Grounds(read, g), NEW q, IsNamedQuery(q), NEW axis, NEW range, NEW c, Contexts(g, q, axis, range, c),
           NEW b \in Typed(g.bindings, {"metric"})
    PROVE  /\ Function(c, b) \in Aggregates
           /\ \/ \E i \in DOMAIN q.derivations : /\ q.derivations[i].metric = b.term
                                                 /\ q.derivations[i].operation = Function(c, b)
              \/ /\ \A i \in DOMAIN q.derivations : q.derivations[i].metric # b.term
                 /\ Function(c, b) = b.aggregation
<1>1. q.derivations \in Seq(DerivationSpec) /\ c.derivations = q.derivations
  BY DEF IsNamedQuery, IsBusinessQuery, Contexts
<1>2. \A i \in DOMAIN q.derivations : q.derivations[i].operation \in STRING /\ q.derivations[i].operation \in Aggregates
  <2>1. \A i \in DOMAIN q.derivations : q.derivations[i] \in DerivationSpec
    BY <1>1, ElementFacts
  <2>. QED  BY <2>1 DEF DerivationSpec, Contexts, DerivationOK
<1>. DEFINE of == {i \in DOMAIN q.derivations : q.derivations[i].metric = b.term}
<1>3. Override(c, b.term) = IF of = {} THEN None
                            ELSE q.derivations[CHOOSE i \in of : \A j \in of : j <= i].operation
  BY <1>1 DEF Override
<1>4. CASE of = {}
  <2>1. Function(c, b) = b.aggregation
    BY <1>3, <1>4 DEF Function
  <2>2. b.term \notin Derived(q)
    BY <1>4 DEF Derived
  <2>3. b \in g.bindings /\ b.type = "metric" /\ b \in SemanticCandidate
    BY DEF Typed, Grounds, Sound
  <2>4. b.aggregation # None
    BY <2>2, <2>3 DEF Contexts, Aggregated
  <2>5. b.aggregation \in Aggregates
    BY <2>3, <2>4 DEF SemanticCandidate, Optional
  <2>. QED  BY <1>4, <2>1, <2>5
<1>5. CASE of # {}
  <2>1. Len(q.derivations) \in Nat /\ of \in SUBSET (1..Len(q.derivations))
    BY <1>1
  <2>2. \E i \in of : \A j \in of : j <= i
    <3>. HIDE DEF of
    <3>. QED  BY <1>5, <2>1, GreatestOf
  <2>3. PICK i : i = CHOOSE x \in of : \A j \in of : j <= x
    OBVIOUS
  <2>4. i \in of
    <3>. HIDE DEF of
    <3>. QED  BY <2>2, <2>3
  <2>5. Override(c, b.term) = q.derivations[i].operation
    BY <1>3, <1>5, <2>3
  <2>6. Function(c, b) = q.derivations[i].operation
    BY <1>2, <2>4, <2>5, Nones DEF Function
  <2>. QED  BY <1>2, <2>4, <2>6
<1>. QED  BY <1>4, <1>5

\* A sequence of all of a set.
Lists(s, T) == s \in Seq(T) /\ \A b \in T : \E n \in DOMAIN s : s[n] = b

\* Every metric that is bound is among those of the plan (_metric_bindings()).
LEMMA MetricBindingsFacts ==
    ASSUME NEW read, NEW g, Grounds(read, g), NEW q, NEW axis, NEW range, NEW c,
           Contexts(g, q, axis, range, c)
    PROVE  Lists(MetricBindings(c), Typed(g.bindings, {"metric"}))
<1>. DEFINE M == Typed(g.bindings, {"metric"})
            extras == {b \in c.bindings : b.type = "metric"} \ ToSet(c.metrics)
            key == [b \in extras |-> Rank[b.term]]
            others == InOrder(extras, key)
<1>1. c.bindings = g.bindings /\ c.metrics \in Seq(M)
  BY DEF Contexts
<1>2. M = {b \in g.bindings : b.type = "metric"} /\ extras = M \ ToSet(c.metrics)
  BY <1>1 DEF Typed
<1>3. IsFiniteSet(extras)
  <2>1. IsFiniteSet(M) /\ extras \in SUBSET M
    BY <1>2 DEF Grounds
  <2>. HIDE DEF M, extras
  <2>. QED  BY <2>1, FS_Subset
<1>4. /\ \A b \in extras : b.term \in Names /\ b \in M
      /\ \A b, d \in extras : b.term = d.term => b = d
  BY <1>2 DEF Grounds
<1>5. /\ \A b \in extras : key[b] = Rank[b.term]
      /\ MetricBindings(c) = c.metrics \o others
  BY DEF MetricBindings
<1>. HIDE DEF extras, key
<1>6. /\ \A b \in extras : key[b] \in Int
      /\ \A b, d \in extras : key[b] = key[d] => b = d
  <2>1. \A b \in extras : Rank[b.term] \in Nat
    BY <1>4, NamesAssumption
  <2>2. ASSUME NEW b \in extras, NEW d \in extras, Rank[b.term] = Rank[d.term]
        PROVE  b = d
    <3>1. b.term \in Names /\ d.term \in Names
      BY <1>4
    <3>2. b.term = d.term
      BY <2>2, <3>1, NamesAssumption
    <3>. QED  BY <1>4, <3>2
  <2>. QED  BY <1>5, <2>1, <2>2
<1>7. /\ Cardinality(extras) \in Nat /\ DOMAIN others = 1..Cardinality(extras)
      /\ \A n \in 1..Cardinality(extras) : others[n] \in extras
      /\ \A b \in extras : \E n \in 1..Cardinality(extras) : others[n] = b
  BY <1>3, <1>6, InOrderFacts
<1>8. others = [n \in 1..Cardinality(extras) |-> others[n]]
  BY DEF InOrder
<1>. HIDE DEF others, M
<1>9. others \in Seq(M)
  BY <1>4, <1>7, <1>8
<1>10. MetricBindings(c) = Joined(c.metrics, others)
  BY <1>5 DEF Joined
<1>11. PICK all : all = MetricBindings(c)
  OBVIOUS
<1>12. /\ all \in Seq(M)
       /\ \A m \in DOMAIN c.metrics : \E n \in DOMAIN all : all[n] = c.metrics[m]
       /\ \A m \in DOMAIN others : \E n \in DOMAIN all : all[n] = others[m]
  BY <1>1, <1>9, <1>10, <1>11, JoinedFacts
<1>13. ASSUME NEW b \in M
       PROVE  \E n \in DOMAIN all : all[n] = b
  <2>1. CASE b \in ToSet(c.metrics)
    <3>1. \E m \in DOMAIN c.metrics : c.metrics[m] = b
      BY <2>1 DEF ToSet
    <3>. QED  BY <1>12, <3>1
  <2>2. CASE b \in extras
    BY <1>7, <1>12, <2>2
  <2>. QED  BY <1>2, <1>13, <2>1, <2>2
<1>. QED  BY <1>11, <1>12, <1>13 DEF M, Lists

\* A plan counts rows or has one aggregate per field of a metric (_aggregates()).
LEMMA AggregatesFacts ==
    ASSUME NEW read, NEW scope, IsRead(read, scope), NEW g, Grounds(read, g),
           NEW q, IsNamedQuery(q), NEW axis, NEW range, NEW c, Contexts(g, q, axis, range, c)
    PROVE  /\ AggregatesOf(c) # <<>>
           /\ \A i \in DOMAIN AggregatesOf(c) : IsPlanAggregate(AggregatesOf(c)[i])
           /\ \A i \in DOMAIN AggregatesOf(c) : AggregatesOf(c)[i].field # None =>
                 \E b \in Typed(g.bindings, {"metric"}) :
                    /\ AggregatesOf(c)[i].field = Ref(b)
                    /\ AggregatesOf(c)[i].function = Function(c, b)
           /\ \A b \in Typed(g.bindings, {"metric"}) :
                 \E i \in DOMAIN AggregatesOf(c) : AggregatesOf(c)[i].field = Ref(b)
<1>. DEFINE M == Typed(g.bindings, {"metric"})
            all == MetricBindings(c)
            metrics == Deduped(all)
<1>1. all \in Seq(M) /\ \A b \in M : \E n \in DOMAIN all : all[n] = b
  <2>1. Lists(MetricBindings(c), Typed(g.bindings, {"metric"}))
    BY MetricBindingsFacts
  <2>. QED  BY <2>1 DEF Lists
<1>2. CASE all = <<>>
  <2>1. AggregatesOf(c) = <<[function |-> "count", field |-> None, alias |-> <<"count">>]>>
    BY <1>2 DEF AggregatesOf
  <2>2. PICK a : a = [function |-> "count", field |-> None, alias |-> <<"count">>]
    OBVIOUS
  <2>3. a.function = "count" /\ a.field = None
    BY <2>2
  <2>4. AggregatesOf(c) = <<a>>
    BY <2>1, <2>2
  <2>5. IsPlanAggregate(a)
    BY <2>3 DEF IsPlanAggregate, Aggregates, Optional
  <2>6. M = {}
    BY <1>1, <1>2
  <2>7. DOMAIN <<a>> = {1} /\ <<a>>[1] = a /\ <<a>> # <<>>
    OBVIOUS
  <2>8. \A i \in DOMAIN AggregatesOf(c) : AggregatesOf(c)[i] = a
    BY <2>4, <2>7
  <2>9. AggregatesOf(c) # <<>>
    BY <2>4, <2>7
  <2>. HIDE DEF M
  <2>. QED  BY <2>3, <2>5, <2>6, <2>8, <2>9 DEF M
<1>3. CASE all # <<>>
  <2>1. /\ metrics \in Seq(M)
        /\ \A i \in DOMAIN all : \E n \in DOMAIN metrics : Ref(metrics[n]) = Ref(all[i])
    <3>. HIDE DEF M, all
    <3>. QED  BY <1>1, DedupedFacts
  <2>2. PICK A : A = AggregatesOf(c)
    OBVIOUS
  <2>3. /\ DOMAIN A = DOMAIN metrics
        /\ \A i \in DOMAIN metrics : /\ A[i].function = Function(c, metrics[i])
                                     /\ A[i].field = Ref(metrics[i])
    BY <1>3, <2>2 DEF AggregatesOf
  <2>4. 1 \in DOMAIN all
    <3>. HIDE DEF all, M
    <3>. QED  BY <1>1, <1>3
  <2>5. \A i \in DOMAIN metrics : metrics[i] \in M
    <3>. HIDE DEF M, metrics
    <3>. QED  BY <2>1
  <2>. HIDE DEF metrics, all
  <2>6. DOMAIN A # {}
    BY <2>1, <2>3, <2>4
  <2>7. A # <<>>
    BY <2>6
  <2>8. \A i \in DOMAIN A : IsPlanAggregate(A[i])
    <3>1. SUFFICES ASSUME NEW b \in M
                   PROVE  Function(c, b) \in Aggregates /\ Ref(b) \in FieldRef /\ Ref(b) # None
      BY <2>3, <2>5 DEF IsPlanAggregate, Optional
    <3>2. Sound(read, b) /\ b.path # None
      BY DEF Typed, Grounds, Sound
    <3>. QED  BY <3>2, FunctionFacts, RefFacts
  <2>9. ASSUME NEW b \in M
        PROVE  \E i \in DOMAIN A : A[i].field = Ref(b)
    <3>1. PICK n \in DOMAIN all : all[n] = b
      BY <1>1
    <3>2. PICK i \in DOMAIN metrics : Ref(metrics[i]) = Ref(all[n])
      BY <2>1
    <3>. QED  BY <2>3, <3>1, <3>2
  <2>10. \A i \in DOMAIN A : \E b \in M : A[i].field = Ref(b) /\ A[i].function = Function(c, b)
    BY <2>3, <2>5
  <2>. QED  BY <2>2, <2>7, <2>8, <2>9, <2>10
<1>. QED  BY <1>2, <1>3

\* The keys of a plan: its dimensions.
Keys(c) == [i \in DOMAIN c.dimensions |-> Ref(c.dimensions[i])]

\* The order of a plan: by the metric it is ranked by, or by its keys (_ordering()).
Ordering(c) ==
    LET aggregates == AggregatesOf(c)
    IN IF c.ranking = None
       THEN [i \in DOMAIN Keys(c) |-> [by |-> "field", key |-> Keys(c)[i], direction |-> "ascending"]]
       ELSE <<[by |-> "aggregate",
               key |-> aggregates[CHOOSE i \in DOMAIN aggregates :
                                      aggregates[i].field = RankedBy(c)].alias,
               direction |-> c.ranking.direction]>>

\* What a plan keeps of its context (plan()).
LEMMA PlanFacts ==
    ASSUME NEW c, NEW p, p = Plan(c), p.ok
    PROVE  /\ Cardinality(Objects(c.bindings)) \in 1..2
           /\ p.objects = Objects(c.bindings) /\ p.locators = c.locators
           /\ p.aggregates = (IF Projected(c) THEN <<>> ELSE AggregatesOf(c))
           /\ p.selected = Keys(c) /\ p.group = (IF Projected(c) THEN <<>> ELSE Keys(c))
           /\ p.filters = c.filters
           /\ p.sorts = <<>> \/ p.sorts = Ordering(c)
           /\ c.ranking # None => p.sorts = Ordering(c)
           /\ p.limit = (IF c.ranking = None THEN DefaultLimit ELSE c.ranking.limit)
           /\ p.joins = {} \/ p.joins = JoinsOf(c)
           /\ p.time = (IF c.time = None THEN None ELSE Ref(c.time))
           /\ p.range = c.range /\ p.version = c.version
<1>1. PlanOK(c)
  BY DEF Plan, Nothing
<1>2. Projected(c) => c.ranking = None
  BY DEF Projected
<1>. QED  BY <1>1, <1>2 DEF Plan, PlanOK, Keys, Ordering

\* The keys of a plan are fields (_field_ref()).
LEMMA KeysFacts ==
    ASSUME NEW read, NEW scope, IsRead(read, scope), NEW g, Grounds(read, g),
           NEW q, NEW axis, NEW range, NEW c, Contexts(g, q, axis, range, c)
    PROVE  /\ DOMAIN Keys(c) = DOMAIN c.dimensions
           /\ \A i \in DOMAIN c.dimensions : Keys(c)[i] \in FieldRef
           /\ c.dimensions # <<>> => Keys(c) # <<>>
<1>1. c.dimensions \in Seq(Typed(g.bindings, {"dimension"}))
  BY DEF Contexts
<1>2. \A i \in DOMAIN c.dimensions : c.dimensions[i] \in Typed(g.bindings, {"dimension"})
  BY <1>1, ElementFacts
<1>3. \A b \in Typed(g.bindings, {"dimension"}) : Sound(read, b) /\ b.path # None
  BY DEF Typed, Grounds, Sound
<1>4. \A i \in DOMAIN c.dimensions : Ref(c.dimensions[i]) \in FieldRef
  BY <1>2, <1>3, RefFacts
<1>5. DOMAIN Keys(c) = DOMAIN c.dimensions /\ \A i \in DOMAIN c.dimensions : Keys(c)[i] = Ref(c.dimensions[i])
  BY DEF Keys
<1>6. c.dimensions # <<>> => DOMAIN c.dimensions # {}
  <2>1. PICK T, s : s \in Seq(T) /\ s = c.dimensions
    BY <1>1
  <2>2. s # <<>> => DOMAIN s # {}
    OBVIOUS
  <2>. QED  BY <2>1, <2>2
<1>7. DOMAIN Keys(c) # {} => Keys(c) # <<>>
  OBVIOUS
<1>. QED  BY <1>4, <1>5, <1>6, <1>7

\* A ranking orders by the aggregate of the metric it names (_ordering()).
LEMMA RankingFacts ==
    ASSUME NEW read, NEW scope, IsRead(read, scope), NEW g, Grounds(read, g),
           NEW q, IsNamedQuery(q), NEW axis, NEW range, NEW c, Contexts(g, q, axis, range, c),
           c.ranking # None
    PROVE  \E b \in Typed(g.bindings, {"metric"}), i \in DOMAIN AggregatesOf(c) :
              /\ b.term = q.ranking.metric /\ AggregatesOf(c)[i].field = Ref(b)
              /\ Ordering(c) = <<[by |-> "aggregate", key |-> AggregatesOf(c)[i].alias,
                                  direction |-> c.ranking.direction]>>
<1>1. c.ranking = q.ranking /\ BoundAs(g.bindings, q.ranking.metric, {"metric"}) # {}
  BY DEF Contexts, RankingOK
<1>2. PICK b \in Typed(g.bindings, {"metric"}) : b.term = q.ranking.metric
  BY <1>1 DEF BoundAs, Typed
<1>3. PICK metrics : metrics = MetricBindings(c)
  OBVIOUS
<1>4. Lists(metrics, Typed(g.bindings, {"metric"}))
  BY <1>3, MetricBindingsFacts
<1>5. PICK n : n = CHOOSE x \in DOMAIN metrics : metrics[x].term = c.ranking.metric
  OBVIOUS
<1>6. n \in DOMAIN metrics /\ metrics[n].term = q.ranking.metric
  BY <1>1, <1>2, <1>4, <1>5 DEF Lists
<1>7. metrics[n] \in Typed(g.bindings, {"metric"})
  BY <1>4, <1>6, ElementFacts DEF Lists
<1>8. RankedBy(c) = Ref(metrics[n])
  BY <1>3, <1>5 DEF RankedBy
<1>9. PICK A : A = AggregatesOf(c)
  OBVIOUS
<1>10. \A x \in Typed(g.bindings, {"metric"}) : \E i \in DOMAIN A : A[i].field = Ref(x)
  BY <1>9, AggregatesFacts
<1>11. PICK i : i = CHOOSE x \in DOMAIN A : A[x].field = RankedBy(c)
  OBVIOUS
<1>12. i \in DOMAIN A /\ A[i].field = Ref(metrics[n])
  BY <1>7, <1>8, <1>10, <1>11
<1>13. Ordering(c) = <<[by |-> "aggregate", key |-> A[i].alias, direction |-> c.ranking.direction]>>
  BY SMTT(60), <1>9, <1>11 DEF Ordering
<1>. QED  BY <1>6, <1>7, <1>9, <1>12, <1>13

\* A plan that its validator accepts is what the contract of one asks (GroundedQueryPlan).
LEMMA PlanIsOne ==
    ASSUME NEW read, NEW scope, IsRead(read, scope), NEW g, Grounds(read, g),
           NEW q, IsNamedQuery(q), NEW axis, NEW range, NEW c, Contexts(g, q, axis, range, c),
           NEW p, p = Plan(c), p.ok, ValidPlan(p, c)
    PROVE  IsGroundedQueryPlan(p)
<1>1. /\ Cardinality(Objects(c.bindings)) \in 1..2
      /\ p.objects = Objects(c.bindings) /\ p.locators = c.locators
      /\ p.aggregates = (IF Projected(c) THEN <<>> ELSE AggregatesOf(c))
      /\ p.selected = Keys(c) /\ p.group = (IF Projected(c) THEN <<>> ELSE Keys(c))
      /\ p.sorts = <<>> \/ p.sorts = Ordering(c)
      /\ p.limit = (IF c.ranking = None THEN DefaultLimit ELSE c.ranking.limit)
      /\ p.joins = {} \/ p.joins = JoinsOf(c)
      /\ p.time = (IF c.time = None THEN None ELSE Ref(c.time))
      /\ p.range = c.range
  BY PlanFacts
<1>2. IsGroundedQueryContext(c)
  BY ContextIsOne
<1>3. c.sources = {p.source} /\ (Cardinality(p.objects) > 1 => p.joins # {})
  BY DEF ValidPlan, ValidScope, ValidObjects
<1>4. p.source \in Sources
  <2>1. PICK b \in g.bindings : TRUE
    BY DEF Contexts
  <2>2. b.source = p.source
    BY ZenonT(60), <1>3 DEF Contexts
  <2>3. b \in SemanticCandidate
    BY DEF Grounds, Sound
  <2>4. b.source \in Sources
    BY <2>3 DEF SemanticCandidate
  <2>. QED  BY <2>2, <2>4
<1>5. p.objects # {}
  <2>1. Cardinality(p.objects) # 0
    BY <1>1
  <2>. QED  BY <2>1, CountedIsThere
<1>6. c.ranking \in Optional(RankingSpec)
  BY SMTT(60) DEF Contexts, IsNamedQuery, IsBusinessQuery
<1>7. p.limit \in 1..1000
  <2>1. CASE c.ranking = None
    BY SMTT(60), <1>1, <2>1 DEF DefaultLimit
  <2>2. CASE c.ranking # None
    BY ZenonT(60), <1>1, <1>6, <2>2 DEF Optional, RankingSpec
  <2>. QED  BY <2>1, <2>2
<1>8. \A i \in DOMAIN p.aggregates : IsPlanAggregate(p.aggregates[i])
  <2>1. CASE p.aggregates = <<>>
    BY <2>1
  <2>2. CASE p.aggregates = AggregatesOf(c)
    BY <2>2, AggregatesFacts
  <2>. QED  BY <1>1, <2>1, <2>2
<1>9. \A i \in DOMAIN p.sorts : IsPlanSort(p.sorts[i])
  <2>1. CASE p.sorts = <<>>
    BY <2>1
  <2>2. CASE p.sorts = Ordering(c) /\ c.ranking = None
    <3>1. /\ DOMAIN p.sorts = DOMAIN Keys(c)
          /\ \A i \in DOMAIN Keys(c) :
                p.sorts[i] = [by |-> "field", key |-> Keys(c)[i], direction |-> "ascending"]
      BY <2>2 DEF Ordering
    <3>2. \A i \in DOMAIN Keys(c) : Keys(c)[i] \in FieldRef
      BY KeysFacts
    <3>3. ASSUME NEW i \in DOMAIN p.sorts
          PROVE  IsPlanSort(p.sorts[i])
      <4>1. PICK k, s :
               k \in FieldRef /\ p.sorts[i] = s /\ s = [by |-> "field", key |-> k, direction |-> "ascending"]
        BY <3>1, <3>2, <3>3
      <4>2. s.key \in FieldRef
        BY <4>1
      <4>3. s.direction \in {"ascending", "descending"}
        BY <4>1
      <4>4. IsPlanSort(s)
        BY <4>2, <4>3 DEF IsPlanSort
      <4>. QED  BY <4>1, <4>4
    <3>. QED  BY <3>3
  <2>3. CASE p.sorts = Ordering(c) /\ c.ranking # None
    <3>1. PICK key : Ordering(c) = <<[by |-> "aggregate", key |-> key,
                                      direction |-> c.ranking.direction]>>
      BY <2>3 DEF Ordering
    <3>2. PICK s : s = [by |-> "aggregate", key |-> key, direction |-> c.ranking.direction]
      OBVIOUS
    <3>3. \A i \in DOMAIN p.sorts : p.sorts[i] = s
      BY <2>3, <3>1, <3>2
    <3>4. s.direction \in {"ascending", "descending"} /\ s.by = "aggregate"
      BY <1>6, <2>3, <3>2 DEF Optional, RankingSpec
    <3>. QED  BY <3>3, <3>4 DEF IsPlanSort
  <2>. QED  BY <1>1, <2>1, <2>2, <2>3
<1>10. p.joins \subseteq QueryContextRelationship
  BY <1>1, <1>2 DEF JoinsOf, IsGroundedQueryContext
<1>11. (p.range = None) = (p.time = None)
  <2>1. c.time # None => Ref(c.time) # None
    BY RefFacts DEF Contexts, Grounds
  <2>2. (c.range = None) = (c.time = None)
    BY <1>2 DEF IsGroundedQueryContext
  <2>. QED  BY <1>1, <2>1, <2>2
<1>12. p.aggregates # <<>> \/ p.selected # <<>>
  <2>1. CASE Projected(c)
    <3>1. c.dimensions # <<>>
      BY <2>1 DEF Projected
    <3>. QED  BY <1>1, <3>1, KeysFacts
  <2>2. CASE ~Projected(c)
    BY <1>1, <2>2, AggregatesFacts
  <2>. QED  BY <2>1, <2>2
<1>13. ToSet(p.group) \subseteq ToSet(p.selected)
  BY <1>1 DEF ToSet
<1>14. \A o \in p.locators : o.source = p.source
  BY <1>1, <1>2, <1>3 DEF IsGroundedQueryContext
<1>. QED  BY <1>3, <1>4, <1>5, <1>7, <1>8, <1>9, <1>10, <1>11, <1>12, <1>13, <1>14
          DEF IsGroundedQueryPlan

\* What an operator of a plan is in each language.
Said(language, operator) ==
    CASE language = "sql" -> SqlOperator[operator]
      [] language = "redis_json" -> "key"
      [] OTHER -> MongoOperator[operator]

\* A condition with a value keeps it and its field, and says its operator.
KeepsCondition(language, w, f) ==
    /\ w.field = f.field
    /\ f.values # <<Null>> => w.values = f.values /\ w.operator = Said(language, f.operator)
    /\ language = "redis_json" => f.operator \in {"equals", "in"}

KeepsFilters(n, p) ==
    /\ DOMAIN n.where = DOMAIN p.filters
    /\ \A i \in DOMAIN p.filters : KeepsCondition(n.language, n.where[i], p.filters[i])

\* A compiled query has the range of its plan: days in SQL, moments in MongoDB.
KeepsBounds(n, p, driver) ==
    p.range # None =>
        /\ n.on = p.time
        /\ n.bounds = IF driver \in Relational THEN <<p.range.start, p.range.end>>
                      ELSE <<Midnight(p.range.start), Later(p.range.end)>>

\* What a compiled query keeps of its plan (GroundedNativeCompiler.compile()).
LEMMA NativeFacts ==
    ASSUME NEW p, NEW driver, NEW n, n = Compile(p, driver), n.ok
    PROVE  /\ n.source = p.source /\ n.version = p.version
           /\ n.language \in {"sql", "mongodb_json", "redis_json"}
           /\ KeepsFilters(n, p) /\ n.from = p.objects
           /\ n.aggregates # <<>> =>
                 n.aggregates = p.aggregates /\ n.order = p.sorts /\ n.limit = p.limit
           /\ KeepsBounds(n, p, driver)
<1>1. Compiles(p, driver)
  BY DEF Compile, Nothing
<1>2. CASE driver \in Relational
  <2>1. n = Sql(p)
    BY <1>1, <1>2 DEF Compile, Relational
  <2>2. /\ n.language = "sql" /\ n.where = [i \in DOMAIN p.filters |-> Predicate(p.filters[i])]
        /\ n.source = p.source /\ n.version = p.version /\ n.from = p.objects
        /\ n.aggregates = p.aggregates /\ n.order = p.sorts /\ n.limit = p.limit
        /\ n.bounds = SqlBounds(p) /\ n.on = p.time
    BY <2>1 DEF Sql
  <2>3. KeepsFilters(n, p)
    <3>1. ASSUME NEW f, NEW w, w = Predicate(f)
          PROVE  KeepsCondition("sql", w, f)
      BY <3>1 DEF KeepsCondition, Predicate, Parameters, Missing, Said
    <3>. QED  BY <2>2, <3>1 DEF KeepsFilters
  <2>. QED  BY <1>2, <2>2, <2>3 DEF KeepsBounds, SqlBounds
<1>3. CASE driver \notin Relational /\ driver = "mongodb"
  <2>1. n = Mongo(p)
    BY <1>1, <1>3 DEF Compile, Relational
  <2>2. /\ n.language = "mongodb_json" /\ n.where = [i \in DOMAIN p.filters |-> Clause(p.filters[i])]
        /\ n.source = p.source /\ n.version = p.version /\ n.from = p.objects
        /\ n.aggregates = p.aggregates /\ n.order = p.sorts /\ n.limit = p.limit
        /\ n.bounds = MongoBounds(p) /\ n.on = p.time
    BY <2>1 DEF Mongo
  <2>3. KeepsFilters(n, p)
    <3>1. ASSUME NEW f, NEW w, w = Clause(f)
          PROVE  KeepsCondition("mongodb_json", w, f)
      BY <3>1 DEF KeepsCondition, Clause, Said
    <3>. QED  BY <2>2, <3>1 DEF KeepsFilters
  <2>. QED  BY <1>3, <2>2, <2>3 DEF KeepsBounds, MongoBounds
<1>4. CASE driver \notin Relational /\ driver = "redis"
  <2>1. n = Redis(p) /\ RedisOK(p)
    BY <1>1, <1>4 DEF Compile, Compiles, Relational
  <2>2. /\ n.language = "redis_json" /\ n.where = [i \in DOMAIN p.filters |-> KeyArgument(p.filters[i])]
        /\ n.source = p.source /\ n.version = p.version /\ n.from = p.objects
        /\ n.aggregates = <<>>
    BY <2>1 DEF Redis
  <2>3. KeepsFilters(n, p)
    <3>1. ASSUME NEW f, NEW w, w = KeyArgument(f), f.operator \in {"equals", "in"}
          PROVE  KeepsCondition("redis_json", w, f)
      BY <3>1 DEF KeepsCondition, KeyArgument, Said
    <3>2. \A i \in DOMAIN p.filters : p.filters[i].operator \in {"equals", "in"}
      BY <2>1 DEF RedisOK, KeyFilter
    <3>. QED  BY <2>2, <3>1, <3>2 DEF KeepsFilters
  <2>4. KeepsBounds(n, p, driver)
    BY <2>1 DEF KeepsBounds, RedisOK
  <2>. QED  BY <2>2, <2>3, <2>4
<1>. QED  BY <1>1, <1>2, <1>3, <1>4 DEF Compiles

\* A symbol of a text stands for one operator, which every language says by the symbol's own
\* meaning (_FILTER_OPERATORS).
LEMMA SymbolFacts ==
    ASSUME NEW symbol \in Symbols, NEW o \in OperatorsOf(symbol),
           NEW language \in {"sql", "mongodb_json", "redis_json"},
           language = "redis_json" => o \in {"equals", "in"}
    PROVE  Said(language, o) = Means(language, symbol)
<1>1. o \in FilterOperators /\ symbol \in Spellings[o]
  BY DEF OperatorsOf
<1>3. /\ Spellings["equals"] = {"=", "==", "eq", "equal", "equals"}
      /\ Spellings["not_equals"] = {"!=", "<>", "ne", "notequal", "notequals"}
      /\ Spellings["greater_than"] = {">", "gt", "greaterthan"}
      /\ Spellings["greater_or_equal"] = {">=", "gte", "greaterorequal"}
      /\ Spellings["less_than"] = {"<", "lt", "lessthan"}
      /\ Spellings["less_or_equal"] = {"<=", "lte", "lessorequal"}
      /\ Spellings["in"] = {"in"} /\ Spellings["between"] = {"between", "range"}
      /\ Spellings["contains"] = {"contains", "like"}
  BY DEF Spellings
<1>2. \/ symbol = "=" /\ o = "equals"
      \/ symbol = "!=" /\ o = "not_equals"
      \/ symbol = ">" /\ o = "greater_than"
      \/ symbol = ">=" /\ o = "greater_or_equal"
      \/ symbol = "<" /\ o = "less_than"
      \/ symbol = "<=" /\ o = "less_or_equal"
  <2>1. symbol \in {"=", "!=", ">", ">=", "<", "<="}
    BY DEF Symbols
  <2>2. CASE o \in {"in", "between", "contains"}
    BY <1>1, <1>3, <2>1, <2>2
  <2>3. CASE o \in {"equals", "not_equals"}
    BY <1>1, <1>3, <2>1, <2>3
  <2>4. CASE o \in {"greater_than", "greater_or_equal"}
    BY <1>1, <1>3, <2>1, <2>4
  <2>5. CASE o \in {"less_than", "less_or_equal"}
    BY <1>1, <1>3, <2>1, <2>5
  <2>. QED  BY <1>1, <2>2, <2>3, <2>4, <2>5 DEF FilterOperators
<1>4. CASE language = "sql"
  BY <1>2, <1>4 DEF Said, Means, SqlOperator
<1>5. CASE language = "redis_json"
  BY <1>2, <1>5 DEF Said, Means
<1>6. CASE language = "mongodb_json"
  <2>1. Said(language, o) = MongoOperator[o]
    BY <1>6 DEF Said
  <2>2. /\ MongoOperator["equals"] = "$eq" /\ MongoOperator["not_equals"] = "$ne"
        /\ MongoOperator["greater_than"] = "$gt" /\ MongoOperator["greater_or_equal"] = "$gte"
        /\ MongoOperator["less_than"] = "$lt" /\ MongoOperator["less_or_equal"] = "$lte"
    BY DEF MongoOperator
  <2>3. symbol = "=" => Means(language, symbol) = "$eq"
    BY <1>6 DEF Means
  <2>4. symbol = "!=" => Means(language, symbol) = "$ne"
    BY <1>6 DEF Means
  <2>5. symbol = ">" => Means(language, symbol) = "$gt"
    BY <1>6 DEF Means
  <2>6. symbol = ">=" => Means(language, symbol) = "$gte"
    BY <1>6 DEF Means
  <2>7. symbol = "<" => Means(language, symbol) = "$lt"
    BY <1>6 DEF Means
  <2>8. symbol = "<=" => Means(language, symbol) = "$lte"
    BY <1>6 DEF Means
  <2>. QED  BY <1>2, <2>1, <2>2, <2>3, <2>4, <2>5, <2>6, <2>7, <2>8
<1>. QED  BY <1>4, <1>5, <1>6

\* The version of a read is that of its only source (_scan_version()).
LEMMA ScanVersionFacts ==
    ASSUME NEW scope, NEW read, IsRead(read, scope), NEW version, version = ScanVersion(read, scope)
    PROVE  /\ version \in Nat
           /\ version # 0 => \E s \in Sources : /\ read.sources = {s} /\ version \in DOMAIN Revisions[s]
                                               /\ read.version[s] = version
<1>1. \A s \in read.sources :
         s \in Sources /\ read.version[s] \in DOMAIN Revisions[s] /\ read.version[s] \in Nat
  BY RevisionsAssumption DEF IsRead
<1>2. None \notin read.sources
  BY NamesAssumption DEF IsRead
<1>3. CASE scope \in read.sources
  <2>1. read.sources = {scope}
    BY <1>2, <1>3 DEF IsRead
  <2>. QED  BY <1>1, <1>3, <2>1 DEF ScanVersion
<1>4. CASE scope \notin read.sources /\ Cardinality(read.sources) = 1
  <2>1. PICK s : read.sources = {s}
    <3>1. IsFiniteSet(read.sources)
      BY RevisionsAssumption, FS_Subset DEF IsRead
    <3>. QED  BY <1>4, <3>1, FS_Singleton
  <2>2. (CHOOSE x \in read.sources : TRUE) = s
    BY <2>1
  <2>3. version = read.version[s] \/ version = 0
    BY <1>4, <2>2 DEF ScanVersion
  <2>. QED  BY <1>1, <2>1, <2>3
<1>5. CASE scope \notin read.sources /\ Cardinality(read.sources) # 1
  BY <1>5 DEF ScanVersion
<1>. QED  BY <1>3, <1>4, <1>5

-----------------------------------------------------------------------------
(* What the stages of a question have made *)

\* What the stages start from.
Given ==
    /\ request \in Requests /\ IsFiniteSet(work.materials)
    /\ \A m \in work.materials : Known(m) /\ m.status \in {"approved", "published"}

\* A question that is understood is a query (_understand()).
LEMMA UnderstoodFacts ==
    ASSUME Given, Understood
    PROVE  /\ IsNamedQuery(work.query) /\ work.stated.scope \in Optional(Sources)
           /\ work.stated.dates = request.text.dates /\ work.stated.time = Intent!Time(request.text)
           /\ work.stated.ask \in BOOLEAN /\ request.text.filters \in Seq(TextFilter)
           /\ Intent!Time(request.text) # None => work.query.time = Intent!Time(request.text)
           /\ ~work.stated.ask =>
                 \A i \in DOMAIN request.text.filters :
                    \E n \in DOMAIN work.query.filters : work.query.filters[n] = request.text.filters[i]
           /\ ~work.stated.ask =>
                 \A n \in DOMAIN work.query.filters :
                    \/ \E i \in DOMAIN request.text.filters :
                          work.query.filters[n] = request.text.filters[i]
                    \/ \A i \in DOMAIN request.text.filters :
                          request.text.filters[i].subject # work.query.filters[n].subject
<1>1. /\ request.text \in DOMAIN Readings /\ request.scope \in Optional(Sources)
  BY RequestsAssumption DEF Given
<1>2. PICK text : text = request.text
  OBVIOUS
<1>3. PICK reading \in Readings[text] : work.stated = Intent!Understand(text, request.scope, reading)
  BY <1>2 DEF Understood
<1>4. IsText(text) /\ IsReading(reading)
  BY <1>1, <1>2, <1>3, RequestsAssumption
<1>5. PICK u : u = work.stated
  OBVIOUS
<1>6. /\ IsBusinessQuery(u.query) /\ u.scope \in Optional(Sources)
      /\ u.dates = text.dates /\ u.time = Intent!Time(text) /\ u.ask \in BOOLEAN
      /\ Intent!Time(text) # None => u.query.time = Intent!Time(text)
      /\ u.query.metrics \in Seq(Names)
      /\ \A i \in DOMAIN u.query.derivations : u.query.derivations[i].metric \in Optional(Names)
      /\ u.query.ranking # None => u.query.ranking.metric \in Optional(Names)
      /\ ~u.ask => \A i \in DOMAIN text.filters :
                       \E n \in DOMAIN u.query.filters : u.query.filters[n] = text.filters[i]
      /\ \A n \in DOMAIN u.query.filters :
            \/ \E i \in DOMAIN text.filters : u.query.filters[n] = text.filters[i]
            \/ u.ask
            \/ \A i \in DOMAIN text.filters :
                  text.filters[i].subject # u.query.filters[n].subject
  <2>1. u = Intent!Understand(text, request.scope, reading) /\ u.ok
    BY <1>3, <1>5 DEF Understood
  <2>. QED  BY <1>1, <1>4, <2>1, UnderstandFacts
<1>7. u.query = work.query
  BY <1>5 DEF Understood
<1>8. text.filters \in Seq(TextFilter)
  BY <1>4 DEF IsText
<1>. QED  BY <1>2, <1>5, <1>6, <1>7, <1>8 DEF IsNamedQuery

\* What is retrieved is of the read and of the scope (retrieve()).
LEMMA RetrievedFacts ==
    ASSUME Given, Retrieved
    PROVE  /\ Retrieves(work.query, work.retrieval.read, work.retrieval)
           /\ work.retrieval.scope = work.stated.scope
           /\ work.retrieval.version = ScanVersion(work.retrieval.read, work.stated.scope)
<1>1. PICK q, materials, read, scope, r :
         /\ q = work.query /\ materials = work.materials /\ read = work.retrieval.read
         /\ scope = work.stated.scope /\ r = work.retrieval
  OBVIOUS
<1>2. IsBusinessQuery(q)
  BY <1>1, UnderstoodFacts DEF Retrieved, IsNamedQuery
<1>3. IsRead(read, scope) /\ r = Retrieval(q, materials, read, scope)
  BY <1>1 DEF Retrieved
<1>4. /\ IsFiniteSet(materials)
      /\ \A m \in materials : Known(m) /\ m.status \in {"approved", "published"}
  BY <1>1 DEF Given
<1>5. /\ r.scope = scope /\ r.read = read /\ r.version = ScanVersion(read, scope)
      /\ IsFiniteSet(r.candidates) /\ \A c \in r.candidates : Sound(read, c) /\ Unbound(c)
  BY <1>2, <1>3, <1>4, RetrievalFacts
<1>. QED  BY <1>1, <1>2, <1>5 DEF Retrieves

\* What is grounded is of the read and of the scope (ground()).
LEMMA GroundedFacts ==
    ASSUME Given, Grounded
    PROVE  /\ IsNamedQuery(work.query) /\ IsRead(work.retrieval.read, work.stated.scope)
           /\ Grounds(work.retrieval.read, work.grounding)
           /\ work.grounding.scope = work.stated.scope
           /\ work.grounding.version = ScanVersion(work.retrieval.read, work.stated.scope)
           /\ work.grounding.executable /\ work.query.time # None =>
                 \E b \in work.grounding.bindings : b.axisOf
<1>1. PICK q, read, scope, r, g :
         /\ q = work.query /\ read = work.retrieval.read
         /\ scope = work.stated.scope /\ r = work.retrieval /\ g = work.grounding
  OBVIOUS
<1>2. IsNamedQuery(q)
  BY <1>1, UnderstoodFacts DEF Grounded, Retrieved
<1>3. IsRead(read, scope) /\ g = Ground(q, r)
  BY <1>1 DEF Grounded, Retrieved
<1>4. Retrieves(q, read, r) /\ r.scope = scope /\ r.version = ScanVersion(read, scope)
  BY <1>1, RetrievedFacts DEF Grounded
<1>5. /\ Grounds(read, g) /\ g.scope = r.scope /\ g.version = r.version
      /\ g.executable /\ q.time # None => \E b \in g.bindings : b.axisOf
  BY <1>2, <1>3, <1>4, GroundFacts
<1>. QED  BY <1>1, <1>2, <1>3, <1>4, <1>5

\* What is planned is what the contracts of a context and of a plan ask (plan()).
LEMMA PlannedFacts ==
    ASSUME Given, Planned
    PROVE  /\ Contexts(work.grounding, work.query, Axis, TimeRange, work.context)
           /\ IsGroundedQueryContext(work.context) /\ IsGroundedQueryPlan(work.plan)
<1>1. PICK q, read, scope, g, c, p, axis, range :
         /\ q = work.query /\ read = work.retrieval.read /\ scope = work.stated.scope
         /\ g = work.grounding /\ c = work.context /\ p = work.plan
         /\ axis = Axis /\ range = TimeRange
  OBVIOUS
<1>2. IsNamedQuery(q) /\ IsRead(read, scope) /\ Grounds(read, g)
  BY <1>1, GroundedFacts DEF Planned
<1>3. /\ c = Context(g, q, axis, range) /\ c.ok
      /\ p = Plan(c) /\ p.ok /\ ValidPlan(p, c)
  BY <1>1 DEF Planned
<1>4. Contexts(g, q, axis, range, c)
  BY <1>2, <1>3, ContextFacts
<1>5. IsGroundedQueryContext(c)
  BY <1>2, <1>4, ContextIsOne
<1>6. IsGroundedQueryPlan(p)
  BY <1>2, <1>3, <1>4, PlanIsOne
<1>. QED  BY <1>1, <1>4, <1>5, <1>6

\* What is generated is a native query of the plan (generate_native_query()).
LEMMA CompiledFacts ==
    ASSUME Given, Compiled
    PROVE  /\ IsNativeQuery(work.native) /\ work.native.source = work.plan.source
           /\ work.native.version = work.plan.version
           /\ work.native.language \in {"sql", "mongodb_json", "redis_json"}
           /\ KeepsFilters(work.native, work.plan) /\ work.native.from = work.plan.objects
           /\ work.native.aggregates # <<>> =>
                 /\ work.native.aggregates = work.plan.aggregates
                 /\ work.native.order = work.plan.sorts /\ work.native.limit = work.plan.limit
           /\ KeepsBounds(work.native, work.plan, Driver[work.source])
           /\ work.plan.version = ScanVersion(work.retrieval.read, work.stated.scope)
<1>1. PICK p, n, driver : p = work.plan /\ n = work.native /\ driver = Driver[work.source]
  OBVIOUS
<1>2. n = Compile(p, driver) /\ n.ok
  BY <1>1 DEF Compiled
<1>3. /\ n.source = p.source /\ n.version = p.version
      /\ n.language \in {"sql", "mongodb_json", "redis_json"}
      /\ KeepsFilters(n, p) /\ n.from = p.objects
      /\ n.aggregates # <<>> =>
            n.aggregates = p.aggregates /\ n.order = p.sorts /\ n.limit = p.limit
      /\ KeepsBounds(n, p, driver)
  BY <1>2, NativeFacts
<1>4. IsGroundedQueryPlan(p) /\ Contexts(work.grounding, work.query, Axis, TimeRange, work.context)
  BY <1>1, PlannedFacts DEF Compiled
<1>5. p.source \in Sources
  BY <1>4 DEF IsGroundedQueryPlan
<1>6. p.version = ScanVersion(work.retrieval.read, work.stated.scope)
  <2>1. p.version = work.context.version
    BY <1>1, PlanFacts DEF Compiled, Planned
  <2>2. work.context.version = work.grounding.version
    BY <1>4 DEF Contexts
  <2>. QED  BY <2>1, <2>2, GroundedFacts DEF Compiled, Planned
<1>7. p.version \in Nat
  <2>1. IsRead(work.retrieval.read, work.stated.scope)
    BY GroundedFacts DEF Compiled, Planned
  <2>. QED  BY <1>6, <2>1, ScanVersionFacts
<1>8. IsNativeQuery(n)
  BY <1>3, <1>5, <1>7 DEF IsNativeQuery
<1>. QED  BY <1>1, <1>3, <1>6, <1>8

-----------------------------------------------------------------------------
(* The inductive invariant *)

\* A query stays the one of its reading (_understand()).
LEMMA UnderstoodStays ==
    ASSUME Understood, UNCHANGED request,
           work'.query = work.query, work'.stated = work.stated
    PROVE  Understood'
BY SMTT(60) DEF Understood

\* Candidates stay those of the read they were retrieved from (retrieve()).
LEMMA RetrievedStays ==
    ASSUME Retrieved, UNCHANGED request, work'.query = work.query, work'.stated = work.stated,
           work'.materials = work.materials, work'.retrieval = work.retrieval
    PROVE  Retrieved'
BY UnderstoodStays DEF Retrieved, IsRead

\* A grounding stays that of its candidates (ground()).
LEMMA GroundedStays ==
    ASSUME Grounded, UNCHANGED request, work'.query = work.query, work'.stated = work.stated,
           work'.materials = work.materials, work'.retrieval = work.retrieval,
           work'.grounding = work.grounding
    PROVE  Grounded'
BY RetrievedStays DEF Grounded

\* A plan stays that of its grounding (plan()).
LEMMA PlannedStays ==
    ASSUME Planned, UNCHANGED request, work'.query = work.query, work'.stated = work.stated,
           work'.materials = work.materials, work'.retrieval = work.retrieval,
           work'.grounding = work.grounding, work'.context = work.context,
           work'.plan = work.plan, work'.source = work.source
    PROVE  Planned'
<1>1. TimeRange' = TimeRange
  BY DEF TimeRange
<1>2. Axes' = Axes
  BY DEF Axes
<1>3. Axis' = Axis
  BY <1>2 DEF Axis
<1>4. Grounded'
  BY GroundedStays DEF Planned
<1>. QED  BY <1>1, <1>2, <1>3, <1>4 DEF Planned

\* A native query stays that of its plan (compile()).
LEMMA CompiledStays ==
    ASSUME Compiled, UNCHANGED <<request, work>>
    PROVE  Compiled'
BY PlannedStays DEF Compiled

\* While the registry, the catalog and the graph stay, so does what is known of them.
LEMMA WorldStays ==
    ASSUME WorldFits, UNCHANGED world
    PROVE  WorldFits'
BY DEF WorldFits, GraphIsPublished, Known, world

\* What has been made of a question stays with it to its end (ask_stream()).
LEMMA WorkStays ==
    ASSUME AskInductive, UNCHANGED <<request, work>>
    PROVE  /\ DOMAIN work' = DOMAIN NoWork /\ IsFiniteSet(work'.materials)
           /\ \A m \in work'.materials : Known(m) /\ m.status \in {"approved", "published"}
           /\ work'.query # None => Understood'
           /\ work'.grounding # None => Grounded'
           /\ work'.plan # None => Planned'
           /\ work'.native # None => Compiled'
<1>1. work' = work /\ request' = request
  OBVIOUS
<1>2. /\ DOMAIN work = DOMAIN NoWork /\ IsFiniteSet(work.materials)
      /\ \A m \in work.materials : Known(m) /\ m.status \in {"approved", "published"}
      /\ work.query # None => Understood
      /\ work.grounding # None => Grounded
      /\ work.plan # None => Planned
      /\ work.native # None => Compiled
  BY DEF AskInductive, WorkFits
<1>3. Understood => Understood'
  BY <1>1, UnderstoodStays
<1>4. Grounded => Grounded'
  BY <1>1, GroundedStays
<1>5. Planned => Planned'
  BY <1>1, PlannedStays
<1>6. Compiled => Compiled'
  BY <1>1, CompiledStays
<1>. QED  BY <1>1, <1>2, <1>3, <1>4, <1>5, <1>6

\* A question that has ended keeps what it has.
LEMMA EndingFits ==
    ASSUME AskInductive, UNCHANGED <<request, work, world, ran>>,
           pc' \in {"closing", "done", "left"}
    PROVE  AskInductive'
<1>1. WorldFits' /\ pc' \in Stages /\ request' \in Requests
  BY WorldStays DEF AskInductive, Stages
<1>2. NothingEarly'
  BY DEF NothingEarly, Stages
<1>3. WorkFits'
  <2>1. ran' # None => Compiled' /\ ran'.native = work'.native /\ work'.native.version # 0
    BY CompiledStays DEF AskInductive, WorkFits
  <2>. QED  BY <2>1, WorkStays DEF WorkFits
<1>. QED  BY <1>1, <1>2, <1>3 DEF AskInductive

\* A step of the generator that computes nothing (Goto()).
LEMMA MovingFits ==
    ASSUME AskInductive, UNCHANGED <<request, work, world, ran>>, pc' \in Stages,
           NothingEarly',
           pc' \in {"understand", "asked", "graph"} => Understood,
           pc' \in {"understand", "graph"} => ~work.stated.ask,
           pc' = "ground" => Retrieved,
           pc' = "time" => Grounded,
           pc' = "generate" => Planned,
           pc' \in {"generated", "check", "execute"} => Compiled,
           pc' = "execute" => work.native.version # 0,
           pc' \in {"sql planned", "sql ready", "sql running"} => request.mode = "sql",
           pc' = "inventory" => request.mode # "question" /\ request.scope # None,
           pc' = "listed" => /\ request.mode # "question"
                             /\ ~WholeWorkspace => work.retrieval.version = work.version
    PROVE  AskInductive'
<1>1. WorldFits' /\ request' \in Requests
  BY WorldStays DEF AskInductive
<1>2. work' = work /\ request' = request
  OBVIOUS
<1>3. WorkFits'
  <2>1. ran' # None => Compiled' /\ ran'.native = work'.native /\ work'.native.version # 0
    BY CompiledStays DEF AskInductive, WorkFits
  <2>2. pc' \in {"understand", "asked", "graph"} => Understood'
    BY <1>2, UnderstoodStays
  <2>3. pc' = "ground" => Retrieved'
    BY <1>2, RetrievedStays
  <2>4. pc' = "time" => Grounded'
    BY <1>2, GroundedStays
  <2>5. pc' = "generate" => Planned'
    BY <1>2, PlannedStays
  <2>6. pc' \in {"generated", "check", "execute"} => Compiled'
    BY <1>2, CompiledStays
  <2>7. WholeWorkspace' = WholeWorkspace
    BY DEF WholeWorkspace
  <2>. QED
    BY ZenonT(60), <1>2, <2>1, <2>2, <2>3, <2>4, <2>5, <2>6, <2>7, WorkStays DEF WorkFits
<1>. QED  BY <1>1, <1>3 DEF AskInductive

\* An explicit statement is on one of the ready sources (_prepare_explicit_sql()).
LEMMA PlanSqlFits ==
    ASSUME AskInductive, PlanSql
    PROVE  AskInductive'
<1>1. pc = "accepted" /\ request.mode = "sql" /\ UNCHANGED <<request, world, ran>> /\ work = NoWork
  BY DEF PlanSql, Fail, Verdict, Goto, AskInductive, NothingEarly
<1>2. CASE Fail
  BY <1>2, EndingFits DEF Fail, Verdict, Goto
<1>3. CASE ~Fail
  <2>1. PICK s : work' = [work EXCEPT !.source = s] /\ pc' = "sql planned"
    BY <1>3 DEF PlanSql, Goto
  <2>2. /\ DOMAIN work' = DOMAIN NoWork /\ work'.materials = {} /\ work'.query = None
        /\ work'.grounding = None /\ work'.plan = None /\ work'.native = None
    BY <1>1, <2>1 DEF NoWork
  <2>3. ran' = None
    BY <1>1 DEF AskInductive, NothingEarly, Stages
  <2>4. WorldFits' /\ request' \in Requests /\ pc' \in Stages
    BY <1>1, <2>1, WorldStays DEF AskInductive, Stages
  <2>5. NothingEarly'
    BY <2>1, <2>2, <2>3 DEF NothingEarly, Stages
  <2>6. WorkFits'
    BY <1>1, <2>1, <2>2, <2>3, FS_EmptySet DEF WorkFits
  <2>. QED  BY <2>4, <2>5, <2>6 DEF AskInductive
<1>. QED  BY <1>2, <1>3

\* Its stages are only passed through (_execute_explicit_sql()).
LEMMA SqlFits ==
    ASSUME AskInductive, OfferSql \/ RunSql
    PROVE  AskInductive'
<1>1. UNCHANGED <<request, work, world, ran>>
  BY DEF OfferSql, RunSql, Fail, Verdict, Goto
<1>2. CASE pc' = "closing"
  BY <1>1, <1>2, EndingFits
<1>3. CASE pc' # "closing"
  <2>1. OfferSql /\ pc \in {"sql planned", "sql ready"} /\ pc' \in {"sql ready", "sql running"}
    BY <1>3 DEF OfferSql, RunSql, Fail, Verdict, Goto
  <2>2. request.mode = "sql"
    BY <2>1 DEF AskInductive, WorkFits
  <2>3. NothingEarly'
    BY <1>1, <2>1 DEF AskInductive, NothingEarly, Stages
  <2>. QED  BY <1>1, <2>1, <2>2, <2>3, MovingFits DEF Stages
<1>. QED  BY <1>2, <1>3

\* The scope is ready when it is asked for (_require_ready_scope()).
LEMMA CheckScopeFits ==
    ASSUME AskInductive, CheckScope
    PROVE  AskInductive'
<1>1. UNCHANGED <<request, work, world, ran>> /\ pc = "accepted" /\ pc' \in {"closing", "dispatch"}
  BY DEF CheckScope, Fail, Verdict, Goto
<1>2. CASE pc' = "closing"
  BY <1>1, <1>2, EndingFits
<1>3. CASE pc' = "dispatch"
  <2>1. NothingEarly'
    BY <1>1, <1>3 DEF AskInductive, NothingEarly, Stages
  <2>. QED  BY <1>1, <1>3, <2>1, MovingFits DEF Stages
<1>. QED  BY <1>1, <1>2, <1>3

\* The snapshot of the catalog is kept beside the question (_schema_inventory_response()).
LEMMA InventoryFits ==
    ASSUME AskInductive, Inventory
    PROVE  AskInductive'
<1>1. /\ pc = "dispatch" /\ request.mode # "question" /\ UNCHANGED <<request, world, ran>>
      /\ work = NoWork /\ pc' \in {"closing", "listed", "inventory"}
  BY DEF Inventory, Fail, AskUser, Verdict, Goto, AskInductive, NothingEarly
<1>2. CASE pc' = "closing"
  <2>1. UNCHANGED work
    BY <1>2 DEF Inventory, Fail, AskUser, Verdict, Goto
  <2>. QED  BY <1>1, <1>2, <2>1, EndingFits
<1>3. CASE pc' = "listed"
  <2>1. WholeWorkspace /\ UNCHANGED work
    BY <1>3 DEF Inventory, Fail, AskUser, Verdict, Goto
  <2>2. NothingEarly'
    BY <1>1, <1>3, <2>1 DEF AskInductive, NothingEarly, Stages, NoWork
  <2>. QED  BY <1>1, <1>3, <2>1, <2>2, MovingFits DEF Stages
<1>4. CASE pc' = "inventory"
  <2>1. /\ request.scope # None
        /\ work' = [work EXCEPT !.version = snapshot[request.scope]]
    BY <1>4 DEF Inventory, Fail, AskUser, Verdict, Goto
  <2>2. /\ DOMAIN work' = DOMAIN NoWork /\ work'.materials = {} /\ work'.query = None
        /\ work'.grounding = None /\ work'.plan = None /\ work'.native = None
    BY <1>1, <2>1 DEF NoWork
  <2>3. ran' = None
    BY <1>1 DEF AskInductive, NothingEarly, Stages
  <2>4. WorldFits' /\ request' \in Requests /\ pc' \in Stages
    BY <1>1, <1>4, WorldStays DEF AskInductive, Stages
  <2>5. NothingEarly'
    BY <1>4, <2>2, <2>3 DEF NothingEarly, Stages
  <2>6. WorkFits'
    BY <1>1, <1>4, <2>1, <2>2, <2>3, FS_EmptySet DEF WorkFits
  <2>. QED  BY <2>4, <2>5, <2>6 DEF AskInductive
<1>. QED  BY <1>1, <1>2, <1>3, <1>4

\* What is shown of a structure is of the version that was read (_schema_inventory_response()).
LEMMA DescribeFits ==
    ASSUME AskInductive, Describe
    PROVE  AskInductive'
<1>1. pc = "inventory" /\ UNCHANGED <<request, world, ran>> /\ pc' \in {"closing", "listed"}
  BY DEF Describe, Fail, Verdict, Goto
<1>2. CASE pc' = "closing"
  <2>1. UNCHANGED work
    BY <1>2 DEF Describe, Fail, Verdict, Goto
  <2>. QED  BY <1>1, <1>2, <2>1, EndingFits
<1>3. CASE pc' = "listed"
  <2>1. /\ graph[request.scope].version = work.version
        /\ work' = [work EXCEPT !.source = request.scope, !.retrieval = graph[request.scope]]
    BY <1>3 DEF Describe, Agrees, Fail, Verdict, Goto
  <2>2. /\ DOMAIN work = DOMAIN NoWork /\ request.mode # "question" /\ work.query = None
        /\ work.grounding = None /\ work.plan = None /\ work.native = None /\ ran = None
    BY <1>1 DEF AskInductive, WorkFits, NothingEarly, Stages
  <2>3. /\ DOMAIN work' = DOMAIN NoWork /\ work'.materials = work.materials /\ work'.query = None
        /\ work'.grounding = None /\ work'.plan = None /\ work'.native = None
        /\ work'.version = work.version /\ work'.retrieval = graph[request.scope]
    BY <2>1, <2>2 DEF NoWork
  <2>4. WorldFits' /\ request' \in Requests /\ pc' \in Stages
    BY <1>1, <1>3, WorldStays DEF AskInductive, Stages
  <2>5. NothingEarly'
    BY <1>1, <1>3, <2>2, <2>3 DEF NothingEarly, Stages
  <2>6. WorkFits'
    BY <1>1, <1>3, <2>1, <2>2, <2>3 DEF AskInductive, WorkFits
  <2>. QED  BY <2>4, <2>5, <2>6 DEF AskInductive
<1>. QED  BY <1>1, <1>2, <1>3

\* A question is understood by one of the readings of its text (_understand()).
LEMMA UnderstandFits ==
    ASSUME AskInductive, Understand
    PROVE  AskInductive'
<1>1. /\ pc = "dispatch" /\ request.mode = "question" /\ UNCHANGED <<request, world, ran>>
      /\ work = NoWork /\ ran = None
  BY DEF Understand, Fail, Verdict, Goto, AskInductive, NothingEarly, Stages
<1>2. PICK reading \in Readings[request.text] :
         LET u == Intent!Understand(request.text, request.scope, reading)
         IN IF ~u.ok THEN Fail
            ELSE /\ work' = [work EXCEPT !.query = u.query, !.stated = u]
                 /\ Yield("intent_ready")
                 /\ Goto(IF u.ask THEN "asked" ELSE "understand")
  BY DEF Understand
<1>3. PICK u : u = Intent!Understand(request.text, request.scope, reading)
  OBVIOUS
<1>4. CASE ~u.ok
  BY <1>2, <1>3, <1>4, EndingFits DEF Fail, Verdict, Goto
<1>5. CASE u.ok
  <2>1. /\ work' = [work EXCEPT !.query = u.query, !.stated = u]
        /\ pc' = IF u.ask THEN "asked" ELSE "understand"
    BY <1>2, <1>3, <1>5 DEF Goto
  <2>2. /\ DOMAIN work' = DOMAIN NoWork /\ work'.materials = {} /\ work'.query = u.query
        /\ work'.stated = u
        /\ work'.grounding = None /\ work'.plan = None /\ work'.native = None
    BY <1>1, <2>1 DEF NoWork
  <2>3. Understood'
    BY <1>1, <1>3, <1>5, <2>2 DEF Understood
  <2>4. pc' \in {"asked", "understand"} /\ (pc' = "understand" => ~work'.stated.ask)
    BY <2>1, <2>2
  <2>5. WorldFits' /\ request' \in Requests /\ pc' \in Stages
    BY <1>1, <2>4, WorldStays DEF AskInductive, Stages
  <2>6. NothingEarly'
    BY <1>1, <2>2, <2>4 DEF NothingEarly, Stages
  <2>7. WorkFits'
    BY <1>1, <2>2, <2>3, <2>4, FS_EmptySet DEF WorkFits
  <2>. QED  BY <2>5, <2>6, <2>7 DEF AskInductive
<1>. QED  BY <1>4, <1>5

\* Nothing but assets that are approved or published is read (ReadAssets).
LEMMA ReadAssetsFits ==
    ASSUME AskInductive, ReadAssets
    PROVE  AskInductive'
<1>1. /\ pc = "understand" /\ pc' = "graph" /\ UNCHANGED <<request, world, ran>>
      /\ work' = [work EXCEPT !.materials = Materials(assets, work.stated.scope)]
  BY DEF ReadAssets, Goto
<1>2. /\ DOMAIN work = DOMAIN NoWork /\ Understood /\ ~work.stated.ask
      /\ work.grounding = None /\ work.plan = None /\ work.native = None /\ ran = None
  BY <1>1 DEF AskInductive, WorkFits, NothingEarly, Stages
<1>3. PICK materials : materials = Materials(assets, work.stated.scope)
  OBVIOUS
<1>4. /\ DOMAIN work' = DOMAIN NoWork /\ work'.materials = materials /\ work'.query = work.query
      /\ work'.stated = work.stated
      /\ work'.grounding = None /\ work'.plan = None /\ work'.native = None
  BY <1>1, <1>2, <1>3 DEF NoWork
<1>5. /\ IsFiniteSet(materials)
      /\ \A m \in materials : Known(m) /\ m.status \in {"approved", "published"}
  BY <1>3, MaterialsFacts DEF AskInductive
<1>6. Understood'
  BY <1>1, <1>2, <1>4, UnderstoodStays
<1>7. WorldFits' /\ request' \in Requests /\ pc' \in Stages
  BY <1>1, WorldStays DEF AskInductive, Stages
<1>8. NothingEarly'
  BY <1>1, <1>2, <1>4 DEF NothingEarly, Stages
<1>9. WorkFits'
  BY <1>1, <1>2, <1>4, <1>5, <1>6 DEF WorkFits
<1>. QED  BY <1>7, <1>8, <1>9 DEF AskInductive

\* What is known of the work of an inductive state.
LEMMA InductiveGiven ==
    ASSUME AskInductive
    PROVE  Given
BY DEF AskInductive, WorkFits, Given

\* Candidates are retrieved from one revision of every source there is (retrieve()).
LEMMA RetrieveFits ==
    ASSUME AskInductive, Retrieve
    PROVE  AskInductive'
<1>1. PICK read : read = Read(graph, work.stated.scope)
  OBVIOUS
<1>2. PICK r : r = Retrieval(work.query, work.materials, read, work.stated.scope)
  OBVIOUS
<1>3. /\ pc = "graph" /\ pc' = "ground" /\ UNCHANGED <<request, world, ran>>
      /\ work' = [work EXCEPT !.retrieval = r]
  BY <1>1, <1>2 DEF Retrieve, Goto
<1>4. /\ DOMAIN work = DOMAIN NoWork /\ Understood /\ ~work.stated.ask
      /\ work.grounding = None /\ work.plan = None /\ work.native = None /\ ran = None
      /\ IsFiniteSet(work.materials)
      /\ \A m \in work.materials : Known(m) /\ m.status \in {"approved", "published"}
  BY <1>3 DEF AskInductive, WorkFits, NothingEarly, Stages
<1>5. /\ DOMAIN work' = DOMAIN NoWork /\ work'.materials = work.materials
      /\ work'.query = work.query /\ work'.stated = work.stated /\ work'.retrieval = r
      /\ work'.grounding = None /\ work'.plan = None /\ work'.native = None
  BY <1>3, <1>4 DEF NoWork
<1>6. IsRead(read, work.stated.scope)
  BY <1>1, ReadIsRead DEF AskInductive, WorldFits
<1>7. r.read = read
  <2>1. IsBusinessQuery(work.query)
    BY <1>4, InductiveGiven, UnderstoodFacts DEF IsNamedQuery
  <2>. QED  BY <1>2, <1>4, <1>6, <2>1, RetrievalFacts
<1>8. Understood'
  BY <1>3, <1>4, <1>5, UnderstoodStays
<1>9. Retrieved'
  <2>1. work'.retrieval.read = read /\ work'.stated.scope = work.stated.scope
    BY <1>5, <1>7
  <2>2. IsRead(work'.retrieval.read, work'.stated.scope)
    BY <1>6, <2>1
  <2>. QED  BY <1>2, <1>4, <1>5, <1>8, <2>1, <2>2 DEF Retrieved
<1>10. WorldFits' /\ request' \in Requests /\ pc' \in Stages
  BY <1>3, WorldStays DEF AskInductive, Stages
<1>11. NothingEarly'
  BY <1>3, <1>4, <1>5 DEF NothingEarly, Stages
<1>12. WorkFits'
  BY <1>3, <1>4, <1>5, <1>8, <1>9 DEF WorkFits
<1>. QED  BY <1>10, <1>11, <1>12 DEF AskInductive

\* A question is grounded on its candidates (ground()).
LEMMA GroundQuestionFits ==
    ASSUME AskInductive, GroundQuestion
    PROVE  AskInductive'
<1>1. PICK g : g = Ground(work.query, work.retrieval)
  OBVIOUS
<1>2. /\ pc = "ground" /\ pc' = "time" /\ UNCHANGED <<request, world, ran>>
      /\ work' = [work EXCEPT !.grounding = g]
  BY <1>1 DEF GroundQuestion, Goto
<1>3. /\ DOMAIN work = DOMAIN NoWork /\ Retrieved
      /\ work.plan = None /\ work.native = None /\ ran = None
      /\ IsFiniteSet(work.materials)
      /\ \A m \in work.materials : Known(m) /\ m.status \in {"approved", "published"}
  BY <1>2 DEF AskInductive, WorkFits, NothingEarly, Stages
<1>4. /\ DOMAIN work' = DOMAIN NoWork /\ work'.materials = work.materials
      /\ work'.query = work.query /\ work'.stated = work.stated
      /\ work'.retrieval = work.retrieval /\ work'.grounding = g
      /\ work'.plan = None /\ work'.native = None
  BY <1>2, <1>3 DEF NoWork
<1>5. Retrieved'
  BY <1>2, <1>3, <1>4, RetrievedStays
<1>6. Grounded'
  BY <1>1, <1>4, <1>5 DEF Grounded
<1>7. WorldFits' /\ request' \in Requests /\ pc' \in Stages
  BY <1>2, WorldStays DEF AskInductive, Stages
<1>8. NothingEarly'
  BY <1>2, <1>3, <1>4 DEF NothingEarly, Stages
<1>9. Understood'
  BY <1>5 DEF Retrieved
<1>10. WorkFits'
  BY <1>2, <1>3, <1>4, <1>6, <1>9 DEF WorkFits
<1>. QED  BY <1>7, <1>8, <1>10 DEF AskInductive

\* A plan is made of an executable grounding, with its axis and its range
\* (build_query_context() and plan_grounded_query()).
LEMMA PlanQuestionFits ==
    ASSUME AskInductive, PlanQuestion
    PROVE  AskInductive'
<1>1. pc = "time" /\ UNCHANGED <<request, world, ran>> /\ pc' \in {"closing", "generate"}
  BY DEF PlanQuestion, Fail, AskUser, Verdict, Goto
<1>2. CASE pc' = "closing"
  <2>1. UNCHANGED work
    BY <1>2 DEF PlanQuestion, Fail, AskUser, Verdict, Goto
  <2>. QED  BY <1>1, <1>2, <2>1, EndingFits
<1>3. CASE pc' = "generate"
  <2>1. /\ work.grounding.executable /\ work.grounding.bindings # {}
        /\ work.query.time # None => TimeRange # None /\ Cardinality(Axes) = 1
    BY <1>3 DEF PlanQuestion, AskUser, Verdict, Goto
  <2>2. PICK context, plan :
           /\ context = Context(work.grounding, work.query, Axis, TimeRange)
           /\ plan = IF context.ok THEN Plan(context) ELSE Nothing
           /\ plan.ok /\ ValidPlan(plan, context)
           /\ work' = [work EXCEPT !.context = context, !.plan = plan, !.source = plan.source]
    BY <1>3 DEF PlanQuestion, Fail, AskUser, Verdict, Goto
  <2>3. context.ok /\ plan = Plan(context)
    BY <2>2 DEF Nothing
  <2>4. /\ DOMAIN work = DOMAIN NoWork /\ Grounded
        /\ work.native = None /\ ran = None
        /\ IsFiniteSet(work.materials)
        /\ \A m \in work.materials : Known(m) /\ m.status \in {"approved", "published"}
    BY <1>1 DEF AskInductive, WorkFits, NothingEarly, Stages
  <2>5. /\ DOMAIN work' = DOMAIN NoWork /\ work'.materials = work.materials
        /\ work'.query = work.query /\ work'.stated = work.stated
        /\ work'.retrieval = work.retrieval /\ work'.grounding = work.grounding
        /\ work'.context = context /\ work'.plan = plan /\ work'.source = plan.source
        /\ work'.native = None
    BY <2>2, <2>4 DEF NoWork
  <2>6. Grounded'
    BY <1>1, <2>4, <2>5, GroundedStays
  <2>7. TimeRange' = TimeRange
    BY <2>5 DEF TimeRange
  <2>8. Axes' = Axes
    BY <2>5 DEF Axes
  <2>9. Axis' = Axis
    BY <2>5, <2>8 DEF Axis
  <2>10. Planned'
    BY <2>1, <2>2, <2>3, <2>5, <2>6, <2>7, <2>8, <2>9 DEF Planned
  <2>11. WorldFits' /\ request' \in Requests /\ pc' \in Stages
    BY <1>1, <1>3, WorldStays DEF AskInductive, Stages
  <2>12. NothingEarly'
    BY <1>1, <1>3, <2>4, <2>5 DEF NothingEarly, Stages
  <2>13. Understood'
    BY <2>6 DEF Grounded, Retrieved
  <2>14. WorkFits'
    BY <1>1, <1>3, <2>4, <2>5, <2>6, <2>10, <2>13 DEF WorkFits
  <2>. QED  BY <2>11, <2>12, <2>14 DEF AskInductive
<1>. QED  BY <1>1, <1>2, <1>3

\* What is generated is a query of the plan, of a source there is (generate_native_query()).
LEMMA GenerateFits ==
    ASSUME AskInductive, Generate
    PROVE  AskInductive'
<1>1. pc = "generate" /\ UNCHANGED <<request, world, ran>> /\ pc' \in {"closing", "generated"}
  BY DEF Generate, Fail, Verdict, Goto
<1>2. CASE pc' = "closing"
  <2>1. UNCHANGED work
    BY <1>2 DEF Generate, Fail, Verdict, Goto
  <2>. QED  BY <1>1, <1>2, <2>1, EndingFits
<1>3. CASE pc' = "generated"
  <2>1. PICK n : n = Compile(work.plan, Driver[work.source])
    OBVIOUS
  <2>2. Generated.ok /\ work' = [work EXCEPT !.native = Generated]
    BY <1>3 DEF Generate, Fail, Verdict, Goto
  <2>3. n.ok /\ Generated = n
    BY <2>1, <2>2 DEF Generated, Nothing
  <2>4. work' = [work EXCEPT !.native = n]
    BY <2>2, <2>3
  <2>5. /\ DOMAIN work = DOMAIN NoWork /\ Planned /\ ran = None
        /\ IsFiniteSet(work.materials)
        /\ \A m \in work.materials : Known(m) /\ m.status \in {"approved", "published"}
    BY <1>1 DEF AskInductive, WorkFits, NothingEarly, Stages
  <2>6. /\ DOMAIN work' = DOMAIN NoWork /\ work'.materials = work.materials
        /\ work'.query = work.query /\ work'.stated = work.stated
        /\ work'.retrieval = work.retrieval /\ work'.grounding = work.grounding
        /\ work'.context = work.context /\ work'.plan = work.plan /\ work'.source = work.source
        /\ work'.native = n
    BY <2>4, <2>5 DEF NoWork
  <2>7. Planned'
    BY <1>1, <2>5, <2>6, PlannedStays
  <2>8. Compiled'
    BY <2>1, <2>3, <2>6, <2>7 DEF Compiled
  <2>9. WorldFits' /\ request' \in Requests /\ pc' \in Stages
    BY <1>1, <1>3, WorldStays DEF AskInductive, Stages
  <2>10. NothingEarly'
    BY <1>1, <1>3, <2>5 DEF NothingEarly, Stages
  <2>11. Grounded' /\ Understood'
    BY <2>7 DEF Planned, Grounded, Retrieved
  <2>12. WorkFits'
    BY SMTT(60), <1>1, <1>3, <2>5, <2>6, <2>7, <2>8, <2>11 DEF WorkFits
  <2>. QED  BY <2>9, <2>10, <2>12 DEF AskInductive
<1>. QED  BY <1>1, <1>2, <1>3

\* What is generated runs only after its revision was found in force
\* (ExecutionRevisionValidator.validate()).
LEMMA CheckRevisionFits ==
    ASSUME AskInductive, StartExecution \/ CheckRevision
    PROVE  AskInductive'
<1>1. UNCHANGED <<request, work, world, ran>> /\ pc \in {"generated", "check"}
  BY DEF StartExecution, CheckRevision, Fail, Verdict, Goto
<1>2. Compiled /\ ran = None
  BY <1>1 DEF AskInductive, WorkFits, NothingEarly, Stages
<1>3. CASE pc' = "closing"
  BY <1>1, <1>3, EndingFits
<1>4. CASE pc' # "closing"
  <2>1. pc' \in {"check", "execute"} /\ (pc' = "execute" => work.native.version # 0)
    BY <1>4 DEF StartExecution, CheckRevision, Current, Fail, Verdict, Goto
  <2>2. NothingEarly'
    BY <1>1, <1>2, <2>1 DEF NothingEarly, Stages
  <2>. QED  BY <1>1, <1>2, <2>1, <2>2, MovingFits DEF Stages
<1>. QED  BY <1>3, <1>4

\* What runs is what was generated (execute_native_query()).
LEMMA ExecuteFits ==
    ASSUME AskInductive, Execute
    PROVE  AskInductive'
<1>1. CASE Fail
  BY <1>1, EndingFits DEF Fail, Verdict, Goto
<1>2. CASE ~Fail
  <2>1. /\ pc = "execute" /\ pc' = "compose" /\ UNCHANGED <<request, work, world>>
        /\ ran'.native = work.native
    BY <1>2 DEF Execute
  <2>2. Compiled /\ work.native.version # 0
    BY <2>1 DEF AskInductive, WorkFits
  <2>3. Compiled' /\ ran'.native = work'.native /\ work'.native.version # 0
    BY <2>1, <2>2, CompiledStays
  <2>4. WorldFits' /\ request' \in Requests /\ pc' \in Stages
    BY <2>1, WorldStays DEF AskInductive, Stages
  <2>5. NothingEarly'
    BY <2>1 DEF NothingEarly, Stages
  <2>6. WorkFits'
    BY <2>1, <2>3, WorkStays DEF WorkFits
  <2>. QED  BY <2>4, <2>5, <2>6 DEF AskInductive
<1>. QED  BY <1>1, <1>2

\* A verdict, an outside call that fails and a reader that leaves end the question with
\* what it has (ask_stream()).
LEMMA EndsFit ==
    ASSUME AskInductive,
           AnswerInventory \/ AskAboutIntent \/ Compose \/ Close \/ CallFails \/ Leave
    PROVE  AskInductive'
BY EndingFits DEF AnswerInventory, AskAboutIntent, Compose, Close, CallFails, Leave, AskUser, Fail,
                  Verdict, Goto

\* What is not the question's own may change beside it.
LEMMA ElsewhereFits ==
    ASSUME AskInductive, Elsewhere, WorldFits'
    PROVE  AskInductive'
<1>1. UNCHANGED <<request, pc, work, ran>>
  BY DEF Elsewhere
<1>2. CASE pc \in {"closing", "done", "left", "compose"}
  <2>1. ran' # None => Compiled' /\ ran'.native = work'.native /\ work'.native.version # 0
    BY <1>1, CompiledStays DEF AskInductive, WorkFits
  <2>2. NothingEarly'
    BY <1>1, <1>2 DEF NothingEarly, Stages
  <2>3. WorkFits'
    BY <1>1, <1>2, <2>1, WorkStays DEF WorkFits
  <2>. QED  BY <1>1, <2>2, <2>3 DEF AskInductive
<1>3. CASE pc \notin {"closing", "done", "left", "compose"}
  <2>1. work' = work /\ request' = request /\ pc' = pc /\ ran' = None
    BY <1>1, <1>3 DEF AskInductive, NothingEarly, Stages
  <2>2. NothingEarly'
    BY <1>1 DEF AskInductive, NothingEarly
  <2>3. pc' \in {"understand", "asked", "graph"} => Understood'
    BY <2>1, UnderstoodStays DEF AskInductive, WorkFits
  <2>4. pc' = "ground" => Retrieved'
    BY <2>1, RetrievedStays DEF AskInductive, WorkFits
  <2>5. pc' = "time" => Grounded'
    BY <2>1, GroundedStays DEF AskInductive, WorkFits
  <2>6. pc' = "generate" => Planned'
    BY <2>1, PlannedStays DEF AskInductive, WorkFits
  <2>7. pc' \in {"generated", "check", "execute"} => Compiled'
    BY <2>1, CompiledStays DEF AskInductive, WorkFits
  <2>8. WholeWorkspace' = WholeWorkspace
    BY <2>1 DEF WholeWorkspace
  <2>9. /\ pc' \in {"understand", "graph"} => ~work'.stated.ask
        /\ pc' = "execute" => work'.native.version # 0
        /\ pc' \in {"sql planned", "sql ready", "sql running"} => request'.mode = "sql"
        /\ pc' = "inventory" => request'.mode # "question" /\ request'.scope # None
        /\ pc' = "listed" => /\ request'.mode # "question"
                             /\ ~WholeWorkspace' => work'.retrieval.version = work'.version
    BY <2>1, <2>8 DEF AskInductive, WorkFits
  <2>10. WorkFits'
    BY <1>1, <2>1, <2>3, <2>4, <2>5, <2>6, <2>7, <2>9, WorkStays DEF WorkFits
  <2>. QED  BY <1>1, <2>2, <2>10 DEF AskInductive
<1>. QED  BY <1>2, <1>3

\* A scan publishes the next revision of a source, a deletion takes the last away, a
\* decision changes the status of an asset and nothing else of it.
LEMMA WorldChanges ==
    ASSUME WorldFits, World
    PROVE  WorldFits' /\ Elsewhere
<1>1. ASSUME NEW s \in Sources, Publish(s)
      PROVE  WorldFits'
  <2>1. /\ graph' = [graph EXCEPT ![s] = Revisions[s][snapshot[s] + 1]]
        /\ s \in DOMAIN graph /\ snapshot[s] < Len(Revisions[s])
        /\ UNCHANGED <<catalog, snapshot, assets>> /\ changes' = changes + 1
    BY <1>1 DEF Publish, Changed
  <2>2. snapshot[s] \in Nat
    BY DEF WorldFits
  <2>3. snapshot[s] + 1 \in DOMAIN Revisions[s]
    BY <2>1, <2>2, RevisionsAssumption
  <2>4. Revisions[s][snapshot[s] + 1].version = snapshot[s] + 1
    BY <2>3, RevisionsAssumption DEF IsRevision
  <2>5. GraphIsPublished'
    BY <2>1, <2>3, <2>4 DEF WorldFits, GraphIsPublished
  <2>. QED  BY <2>1, <2>5 DEF WorldFits, Known
<1>2. ASSUME NEW s \in Sources, Activate(s)
      PROVE  WorldFits'
  <2>1. /\ snapshot' = [snapshot EXCEPT ![s] = graph[s].version] /\ s \in DOMAIN graph
        /\ UNCHANGED <<catalog, graph, assets, changes>>
    BY <1>2 DEF Activate
  <2>2. graph[s].version \in Nat
    BY <2>1, RevisionsAssumption DEF WorldFits, GraphIsPublished
  <2>3. GraphIsPublished'
    BY <2>1 DEF WorldFits, GraphIsPublished
  <2>. QED  BY <2>1, <2>2, <2>3 DEF WorldFits, Known
<1>3. ASSUME NEW s \in Sources, Unpublish(s)
      PROVE  WorldFits'
  <2>1. /\ graph' = [t \in DOMAIN graph \ {s} |-> graph[t]]
        /\ UNCHANGED <<catalog, snapshot, assets>> /\ changes' = changes + 1
    BY <1>3 DEF Unpublish, Changed
  <2>2. GraphIsPublished'
    BY <2>1 DEF WorldFits, GraphIsPublished
  <2>. QED  BY <2>1, <2>2 DEF WorldFits, Known
<1>4. ASSUME NEW s \in Sources, RemoveRow(s)
      PROVE  WorldFits'
  <2>1. /\ catalog' = [catalog EXCEPT ![s] = "gone"] /\ snapshot' = [snapshot EXCEPT ![s] = 0]
        /\ UNCHANGED <<graph, assets, changes>>
    BY <1>4 DEF RemoveRow
  <2>2. GraphIsPublished'
    BY <2>1 DEF WorldFits, GraphIsPublished
  <2>. QED  BY <2>1, <2>2 DEF WorldFits, Known
<1>5. ASSUME NEW a \in assets, NEW status \in {"published", "deprecated"}, Govern(a, status)
      PROVE  WorldFits'
  <2>1. PICK m : m = [a EXCEPT !.status = status]
    OBVIOUS
  <2>2. /\ assets' = (assets \ {a}) \cup {m} /\ UNCHANGED <<catalog, snapshot, graph>>
        /\ changes' = changes + 1
    BY <1>5, <2>1 DEF Govern, Changed
  <2>3. GraphIsPublished'
    BY <2>2 DEF WorldFits, GraphIsPublished
  <2>4. IsFiniteSet(assets')
    <3>1. IsFiniteSet(assets \ {a})
      BY FS_Subset DEF WorldFits
    <3>. QED  BY <2>2, <3>1, FS_AddElement
  <2>5. Known(m)
    <3>1. PICK b \in Governance : a = [b EXCEPT !.status = a.status]
      BY DEF WorldFits, Known
    <3>2. b \in SemanticAsset
      BY GovernanceAssumption
    <3>3. m = [b EXCEPT !.status = status]
      BY <2>1, <3>1, <3>2 DEF SemanticAsset
    <3>4. m.status = status
      BY <3>2, <3>3 DEF SemanticAsset
    <3>. QED  BY <3>3, <3>4 DEF Known
  <2>6. \A x \in assets' : Known(x)
    BY <2>2, <2>5 DEF WorldFits
  <2>. QED  BY <2>2, <2>3, <2>4, <2>6 DEF WorldFits
<1>6. WorldFits'
  BY <1>1, <1>2, <1>3, <1>4, <1>5 DEF World
<1>7. Elsewhere
  BY DEF World, Publish, Activate, Unpublish, RemoveRow, Govern
<1>. QED  BY <1>6, <1>7

\* A question starts with nothing, on what is published (ask_stream()).
LEMMA InitFits ==
    ASSUME Init
    PROVE  AskInductive
<1>1. /\ request \in Requests /\ pc = "accepted" /\ work = NoWork /\ ran = None
      /\ catalog \in [Sources -> {"ready", "created"}]
      /\ snapshot = [s \in Sources |-> IF catalog[s] = "ready" THEN 1 ELSE 0]
      /\ graph = [s \in {x \in Sources : catalog[x] = "ready"} |-> Revisions[s][1]]
      /\ assets = Governance /\ changes = 0
  BY DEF Init
<1>2. GraphIsPublished
  <2>1. ASSUME NEW s \in Sources
        PROVE  1 \in DOMAIN Revisions[s] /\ Revisions[s][1].version = 1
    BY RevisionsAssumption DEF IsRevision
  <2>. QED  BY <1>1, <2>1 DEF GraphIsPublished
<1>3. WorldFits
  <2>1. ASSUME NEW a \in Governance
        PROVE  Known(a)
    BY GovernanceAssumption DEF Known, SemanticAsset
  <2>2. snapshot \in [Sources -> Nat]
    BY <1>1
  <2>3. catalog \in [Sources -> {"ready", "created", "gone"}]
    BY <1>1
  <2>. QED  BY <1>1, <1>2, <2>1, <2>2, <2>3, GovernanceAssumption DEF WorldFits
<1>4. NothingEarly
  BY <1>1 DEF NothingEarly, Stages, NoWork
<1>5. WorkFits
  BY <1>1, FS_EmptySet DEF WorkFits, NoWork
<1>. QED  BY <1>1, <1>3, <1>4, <1>5 DEF AskInductive, Stages

\* A step of the question or of what is beside it keeps what is known of both.
LEMMA NextFits ==
    ASSUME AskInductive, [Next]_vars
    PROVE  AskInductive'
<1>1. CASE Step
  BY <1>1, PlanSqlFits, SqlFits, CheckScopeFits, InventoryFits, DescribeFits, EndsFit,
     UnderstandFits, ReadAssetsFits, RetrieveFits, GroundQuestionFits, PlanQuestionFits,
     GenerateFits, CheckRevisionFits, ExecuteFits DEF Step
<1>2. CASE CallFails \/ Leave
  BY <1>2, EndsFit
<1>3. CASE World
  BY <1>3, WorldChanges, ElsewhereFits DEF AskInductive
<1>4. CASE UNCHANGED vars
  <2>1. UNCHANGED <<request, pc, work, world, ran>>
    BY <1>4 DEF vars
  <2>2. WorldFits'
    BY <2>1, WorldStays DEF AskInductive
  <2>3. CASE pc \in {"done", "left"}
    BY <2>1, <2>3, EndingFits
  <2>4. CASE pc \notin {"done", "left"}
    <3>1. Elsewhere
      BY <1>4, <2>4 DEF Elsewhere, vars
    <3>. QED  BY <2>2, <3>1, ElsewhereFits
  <2>. QED  BY <2>3, <2>4
<1>. QED  BY <1>1, <1>2, <1>3, <1>4 DEF Next, Ended

\* AskInductive holds throughout a question (ask_stream()).
THEOREM AskStays == Spec => []AskInductive
<1>1. Init => AskInductive
  BY InitFits
<1>2. AskInductive /\ [Next]_vars => AskInductive'
  BY NextFits
<1>. QED  BY <1>1, <1>2, PTL DEF Spec

-----------------------------------------------------------------------------
(* What the stages hand to each other *)

\* Every stage hands on what the contract of the next asks, whatever the model reads and
\* the assets say (contracts/semantic.py, contracts/query.py).
THEOREM AskTypes == Spec => []AskTypeOK
<1>1. ASSUME AskInductive
      PROVE  AskTypeOK
  <2>1. Given
    BY <1>1, InductiveGiven
  <2>2. pc \in Stages /\ request \in Requests
        /\ catalog \in [Sources -> {"ready", "created", "gone"}]
    BY <1>1 DEF AskInductive, WorldFits
  <2>3. \A s \in DOMAIN graph : s \in Sources /\ graph[s].version \in 1..Len(Revisions[s])
    BY <1>1, RevisionsAssumption DEF AskInductive, WorldFits, GraphIsPublished
  <2>4. \A m \in work.materials : m.status \in {"approved", "published"}
    BY <2>1 DEF Given
  <2>5. work.query # None => IsBusinessQuery(work.query)
    BY <1>1, <2>1, UnderstoodFacts DEF AskInductive, WorkFits, IsNamedQuery
  <2>6. pc = "ground" => work.retrieval.candidates \subseteq SemanticCandidate
    BY <1>1, <2>1, RetrievedFacts DEF AskInductive, WorkFits, Retrieves, Sound
  <2>7. work.grounding # None => IsGroundedQuery(work.grounding)
    <3>1. ASSUME Grounded
          PROVE  IsGroundedQuery(work.grounding)
      BY <2>1, <3>1, GroundedFacts DEF Grounds, Sound, IsGroundedQuery
    <3>. QED  BY <1>1, <3>1 DEF AskInductive, WorkFits
  <2>8. work.plan # None => IsGroundedQueryContext(work.context) /\ IsGroundedQueryPlan(work.plan)
    BY <1>1, <2>1, PlannedFacts DEF AskInductive, WorkFits
  <2>9. work.native # None => IsNativeQuery(work.native) /\ work.native.source = work.plan.source
    BY <1>1, <2>1, CompiledFacts DEF AskInductive, WorkFits
  <2>10. ran # None => ran.native = work.native
    BY ZenonT(60), <1>1 DEF AskInductive, WorkFits
  <2>. QED  BY <2>2, <2>3, <2>4, <2>5, <2>6, <2>7, <2>8, <2>9, <2>10 DEF AskTypeOK
<1>. QED  BY <1>1, AskStays, PTL

\* What has run is what was compiled, of a revision that was found in force.
LEMMA RanFacts ==
    ASSUME AskInductive, ran # None
    PROVE  Given /\ Compiled /\ Planned /\ Grounded /\ Retrieved /\ Understood
           /\ ran.native = work.native /\ work.native.version # 0
<1>1. Compiled /\ ran.native = work.native /\ work.native.version # 0
  BY DEF AskInductive, WorkFits
<1>. QED  BY <1>1, InductiveGiven DEF Compiled, Planned, Grounded, Retrieved

\* The fields and the objects of a query that ran were in one scan, whose version its plan
\* carries; a structure that is shown is of the version the catalog has of it
\* (ExecutionRevisionValidator, _schema_inventory_response()).
THEOREM AnswersOfOneRevision == Spec => []AnswersAreOfOneRevision
<1>1. ASSUME AskInductive
      PROVE  AnswersAreOfOneRevision
  <2>1. pc = "listed" /\ ~WholeWorkspace => work.retrieval.version = work.version
    BY SMTT(60), <1>1 DEF AskInductive, WorkFits
  <2>2. ASSUME ran # None
        PROVE  LET revision == Revisions[work.source][ran.native.version]
               IN /\ {<<f[2], f[3]>> : f \in FieldsOf(work.plan)}
                         \subseteq {<<f.object, f.path>> : f \in revision.fields}
                  /\ ran.native.from \subseteq {o.id : o \in revision.objects}
    <3>1. Given /\ Compiled /\ Planned /\ Grounded /\ ran.native = work.native
          /\ work.native.version # 0
      BY <1>1, <2>2, RanFacts
    <3>2. PICK read, g, c, p, v :
             /\ read = work.retrieval.read /\ g = work.grounding /\ c = work.context
             /\ p = work.plan /\ v = ran.native.version
      OBVIOUS
    <3>3. IsRead(read, work.stated.scope) /\ Grounds(read, g)
      BY <3>1, <3>2, GroundedFacts
    <3>4. /\ c.bindings = g.bindings /\ c.bindings # {} /\ c.sources = {b.source : b \in c.bindings}
      BY <3>1, <3>2, PlannedFacts DEF Contexts
    <3>5. v = ScanVersion(read, work.stated.scope) /\ v # 0 /\ ran.native.from = p.objects
      BY <3>1, <3>2, CompiledFacts
    <3>6. PICK s \in Sources : /\ read.sources = {s} /\ v \in DOMAIN Revisions[s]
                               /\ read.version[s] = v
      BY <3>3, <3>5, ScanVersionFacts
    <3>7. read.fields = Revisions[s][v].fields /\ read.objects = Revisions[s][v].objects
      BY <3>3, <3>6 DEF IsRead
    <3>8. work.source = s
      <4>1. PICK b \in c.bindings : TRUE
        BY <3>4
      <4>2. b.source = s
        BY <3>3, <3>4, <3>6 DEF Grounds, Sound
      <4>3. c.sources = {p.source} /\ work.source = p.source
        BY <3>1, <3>2 DEF Planned, ValidPlan, ValidScope
      <4>. QED  BY <3>4, <4>2, <4>3
    <3>9. ASSUME NEW f \in FieldsOf(p)
          PROVE  \E x \in read.fields : x.object = f[2] /\ x.path = f[3]
      <4>1. PICK b \in c.bindings : b.path # None /\ Ref(b) = f
        BY <3>1, <3>2 DEF Planned, ValidPlan, ValidFields
      <4>2. Sound(read, b)
        BY <3>3, <3>4 DEF Grounds
      <4>. QED  BY <4>1, <4>2 DEF Sound, Ref
    <3>10. ASSUME NEW id \in p.objects
           PROVE  \E o \in read.objects : o.id = id
      <4>1. p.objects \subseteq Objects(c.bindings)
        BY <3>1, <3>2 DEF Planned, ValidPlan, ValidObjects
      <4>2. PICK b \in c.bindings : b.object = id /\ id # None
        BY <4>1 DEF Objects
      <4>3. Sound(read, b)
        BY <3>3, <3>4 DEF Grounds
      <4>. QED  BY <3>3, <4>2, <4>3, ObjectFacts
    <3>11. \A x \in {<<f[2], f[3]>> : f \in FieldsOf(p)} : x \in {<<f.object, f.path>> : f \in read.fields}
      BY <3>9
    <3>12. \A x \in p.objects : x \in {o.id : o \in read.objects}
      BY <3>10
    <3>. QED  BY <3>2, <3>5, <3>7, <3>8, <3>11, <3>12
  <2>. QED  BY <2>1, <2>2 DEF AnswersAreOfOneRevision
<1>. QED  BY <1>1, AskStays, PTL

-----------------------------------------------------------------------------
(* The stream of a question *)

LastEvent == stream[Len(stream)]

Asked == Len(stream) > 1 /\ stream[2] = "intent_ready"

\* Which events may follow which (AskProtocol).
LEMMA FollowsFacts ==
    /\ Protocol!Follows("accepted") = {"intent_ready", "retrieval_ready", "plan_ready",
                                       "clarification_required", "error"}
    /\ Protocol!Follows("intent_ready") = {"retrieval_ready", "clarification_required", "error"}
    /\ Protocol!Follows("retrieval_ready") = {"grounding_ready", "result_ready", "error"}
    /\ Protocol!Follows("grounding_ready") = {"plan_ready", "clarification_required", "error"}
    /\ Protocol!Follows("plan_ready") = {"query_ready", "error"}
    /\ Protocol!Follows("query_ready") = {"execution_started"}
    /\ Protocol!Follows("execution_started") = {"result_ready", "error"}
    /\ Protocol!Follows("result_ready") = {"done"}
    /\ Protocol!Follows("clarification_required") = {"done"}
    /\ Protocol!Follows("error") = {"done"}
BY DEF Protocol!Follows, Protocol!Verdicts

\* An event that may come next is a step of the protocol (ask_stream()).
LEMMA Yields ==
    ASSUME StreamFits, NEW event \in Events, Yield(event), event \in Protocol!Follows(LastEvent),
           event = "grounding_ready" => Asked,
           event = "result_ready" /\ Asked => LastEvent = "execution_started"
    PROVE  /\ Protocol!Next
           /\ stream' \in Seq(Events) /\ stream' # <<>> /\ LastEvent' = event
           /\ event # "intent_ready" => Asked' = Asked
           /\ event = "intent_ready" /\ stream = <<"accepted">> => Asked'
<1>1. stream \in Seq(Events) /\ stream # <<>> /\ stream' = Append(stream, event)
  BY DEF StreamFits, Yield
<1>2. /\ stream' \in Seq(Events) /\ stream' # <<>> /\ Len(stream') = Len(stream) + 1
      /\ stream'[Len(stream')] = event /\ Len(stream) \in Nat /\ Len(stream) >= 1
      /\ Len(stream) > 1 => stream'[2] = stream[2]
      /\ Len(stream) = 1 => stream'[2] = event
  BY <1>1
<1>3. stream = <<"accepted">> => Len(stream) = 1
  OBVIOUS
<1>4. LastEvent' = event
  BY <1>2 DEF LastEvent
<1>5. event # "intent_ready" => Asked' = Asked
  BY <1>2 DEF Asked
<1>6. event = "intent_ready" /\ stream = <<"accepted">> => Asked'
  BY <1>2, <1>3 DEF Asked
<1>7. Protocol!Next
  BY <1>1 DEF Protocol!Next, Protocol!OnPath, LastEvent, Asked
<1>. QED  BY <1>2, <1>4, <1>5, <1>6, <1>7

\* A verdict ends what a reader is told of a question (ask_stream()).
LEMMA VerdictFits ==
    ASSUME StreamFits, NEW event \in {"result_ready", "clarification_required", "error"},
           Verdict(event), event \in Protocol!Follows(LastEvent),
           event = "result_ready" /\ Asked => LastEvent = "execution_started"
    PROVE  StreamFits' /\ Protocol!Next
<1>1. event \in Events /\ Yield(event) /\ pc' = "closing"
  BY DEF Events, Protocol!Verdicts, Verdict, Goto
<1>2. /\ Protocol!Next
      /\ stream' \in Seq(Events) /\ stream' # <<>> /\ LastEvent' = event
  BY <1>1, Yields
<1>3. StreamFits'
  BY <1>1, <1>2 DEF StreamFits, LastEvent
<1>. QED  BY <1>2, <1>3

\* What the reader was told last, by where the generator is.
LEMMA StreamFacts ==
    ASSUME StreamFits
    PROVE  /\ stream \in Seq(Events) /\ stream # <<>>
           /\ pc \in {"accepted", "dispatch", "inventory"} =>
                 stream = <<"accepted">> /\ LastEvent = "accepted" /\ ~Asked
           /\ pc = "sql planned" => LastEvent = "plan_ready" /\ ~Asked
           /\ pc = "sql ready" => LastEvent = "query_ready" /\ ~Asked
           /\ pc = "sql running" => LastEvent = "execution_started" /\ ~Asked
           /\ pc = "listed" => LastEvent = "retrieval_ready" /\ ~Asked
           /\ pc \in {"understand", "asked", "graph"} => LastEvent = "intent_ready" /\ Asked
           /\ pc = "ground" => LastEvent = "retrieval_ready" /\ Asked
           /\ pc = "time" => LastEvent = "grounding_ready"
           /\ pc = "generate" => LastEvent = "plan_ready"
           /\ pc = "generated" => LastEvent = "query_ready"
           /\ pc \in {"check", "execute", "compose"} => LastEvent = "execution_started"
           /\ pc = "closing" => LastEvent \in {"result_ready", "clarification_required", "error"}
<1>1. stream = <<"accepted">> => LastEvent = "accepted" /\ ~Asked
  BY DEF LastEvent, Asked
<1>. QED  BY <1>1 DEF StreamFits, LastEvent, Asked

\* An error may follow whatever a stage that can fail has told (ask_stream()).
LEMMA FailFits ==
    ASSUME StreamFits, Fail, pc \in Outside \cup {"time"}
    PROVE  StreamFits' /\ Protocol!Next
<1>1. "error" \in Protocol!Follows(LastEvent)
  BY StreamFacts, FollowsFacts DEF Outside
<1>. QED  BY <1>1, VerdictFits DEF Fail

\* The user is asked about an intent, a grounding or a scope (ClarificationBuilder).
LEMMA AskUserFits ==
    ASSUME StreamFits, AskUser, pc \in {"dispatch", "asked", "time"}
    PROVE  StreamFits' /\ Protocol!Next
<1>1. "clarification_required" \in Protocol!Follows(LastEvent)
  BY StreamFacts, FollowsFacts
<1>. QED  BY <1>1, VerdictFits DEF AskUser

\* A step of the generator tells the reader what may come next, or nothing (ask_stream()).
LEMMA StepStreams ==
    ASSUME StreamFits, Step
    PROVE  StreamFits' /\ [Protocol!Next]_stream
<1>1. CASE PlanSql
  <2>1. CASE Fail
    BY <1>1, <2>1, FailFits DEF PlanSql, Outside
  <2>2. CASE ~Fail
    <3>1. pc = "accepted" /\ pc' = "sql planned" /\ Yield("plan_ready")
      BY <1>1, <2>2 DEF PlanSql, Goto
    <3>2. /\ Protocol!Next
          /\ stream' \in Seq(Events) /\ stream' # <<>> /\ LastEvent' = "plan_ready" /\ ~Asked'
      BY <3>1, StreamFacts, FollowsFacts, Yields DEF Events
    <3>. QED  BY <3>1, <3>2 DEF StreamFits, LastEvent, Asked
  <2>. QED  BY <2>1, <2>2
<1>2. CASE OfferSql
  <2>1. CASE pc = "sql planned"
    <3>1. pc' = "sql ready" /\ Yield("query_ready")
      BY <1>2, <2>1 DEF OfferSql, Goto
    <3>2. /\ Protocol!Next
          /\ stream' \in Seq(Events) /\ stream' # <<>> /\ LastEvent' = "query_ready" /\ ~Asked'
      BY ZenonT(60), <2>1, <3>1, StreamFacts, FollowsFacts, Yields DEF Events
    <3>. QED  BY <3>1, <3>2 DEF StreamFits, LastEvent, Asked
  <2>2. CASE pc = "sql ready"
    <3>1. pc' = "sql running" /\ Yield("execution_started")
      BY <1>2, <2>2 DEF OfferSql, Goto
    <3>2. /\ Protocol!Next
          /\ stream' \in Seq(Events) /\ stream' # <<>> /\ LastEvent' = "execution_started" /\ ~Asked'
      BY ZenonT(60), <2>2, <3>1, StreamFacts, FollowsFacts, Yields DEF Events
    <3>. QED  BY <3>1, <3>2 DEF StreamFits, LastEvent, Asked
  <2>. QED  BY <1>2, <2>1, <2>2 DEF OfferSql
<1>3. CASE RunSql
  <2>1. CASE Fail
    BY <1>3, <2>1, FailFits DEF RunSql, Outside
  <2>2. CASE ~Fail
    <3>1. pc = "sql running" /\ Verdict("result_ready")
      BY <1>3, <2>2 DEF RunSql
    <3>. QED  BY <3>1, StreamFacts, FollowsFacts, VerdictFits
  <2>. QED  BY <2>1, <2>2
<1>4. CASE CheckScope
  <2>1. CASE Fail
    BY <1>4, <2>1, FailFits DEF CheckScope, Outside
  <2>2. CASE ~Fail
    <3>1. pc = "accepted" /\ pc' = "dispatch" /\ UNCHANGED stream
      BY <1>4, <2>2 DEF CheckScope, Goto
    <3>. QED  BY <3>1 DEF StreamFits
  <2>. QED  BY <2>1, <2>2
<1>5. CASE Inventory
  <2>1. CASE Fail
    BY <1>5, <2>1, FailFits DEF Inventory, Outside
  <2>2. CASE AskUser
    BY <1>5, <2>2, AskUserFits DEF Inventory
  <2>3. CASE ~Fail /\ ~AskUser /\ WholeWorkspace
    <3>1. pc = "dispatch" /\ pc' = "listed" /\ Yield("retrieval_ready")
      BY <1>5, <2>3 DEF Inventory, Goto
    <3>2. /\ Protocol!Next
          /\ stream' \in Seq(Events) /\ stream' # <<>> /\ LastEvent' = "retrieval_ready" /\ ~Asked'
      BY <3>1, StreamFacts, FollowsFacts, Yields DEF Events
    <3>. QED  BY <3>1, <3>2 DEF StreamFits, LastEvent, Asked
  <2>4. CASE ~Fail /\ ~AskUser /\ ~WholeWorkspace
    <3>1. pc = "dispatch" /\ pc' = "inventory" /\ UNCHANGED stream
      BY <1>5, <2>4 DEF Inventory, Goto
    <3>. QED  BY <3>1 DEF StreamFits
  <2>. QED  BY <2>1, <2>2, <2>3, <2>4
<1>6. CASE Describe
  <2>1. CASE Fail
    BY <1>6, <2>1, FailFits DEF Describe, Outside
  <2>2. CASE ~Fail
    <3>1. pc = "inventory" /\ pc' = "listed" /\ Yield("retrieval_ready")
      BY <1>6, <2>2 DEF Describe, Goto
    <3>2. /\ Protocol!Next
          /\ stream' \in Seq(Events) /\ stream' # <<>> /\ LastEvent' = "retrieval_ready" /\ ~Asked'
      BY <3>1, StreamFacts, FollowsFacts, Yields DEF Events
    <3>. QED  BY <3>1, <3>2 DEF StreamFits, LastEvent, Asked
  <2>. QED  BY <2>1, <2>2
<1>7. CASE AnswerInventory
  BY <1>7, StreamFacts, FollowsFacts, VerdictFits DEF AnswerInventory
<1>8. CASE Understand
  <2>1. CASE Fail
    BY <1>8, <2>1, FailFits DEF Understand, Outside
  <2>2. CASE ~Fail
    <3>1. pc = "dispatch" /\ pc' \in {"asked", "understand"} /\ Yield("intent_ready")
      BY <1>8, <2>2 DEF Understand, Goto
    <3>2. /\ Protocol!Next
          /\ stream' \in Seq(Events) /\ stream' # <<>> /\ LastEvent' = "intent_ready" /\ Asked'
      BY <3>1, StreamFacts, FollowsFacts, Yields DEF Events
    <3>. QED  BY <3>1, <3>2 DEF StreamFits, LastEvent, Asked
  <2>. QED  BY <2>1, <2>2
<1>9. CASE AskAboutIntent
  BY <1>9, AskUserFits DEF AskAboutIntent
<1>10. CASE ReadAssets
  <2>1. pc = "understand" /\ pc' = "graph" /\ UNCHANGED stream
    BY <1>10 DEF ReadAssets, Goto
  <2>. QED  BY <2>1 DEF StreamFits
<1>11. CASE Retrieve
  <2>1. pc = "graph" /\ pc' = "ground" /\ Yield("retrieval_ready")
    BY <1>11 DEF Retrieve, Goto
  <2>2. /\ Protocol!Next
        /\ stream' \in Seq(Events) /\ stream' # <<>> /\ LastEvent' = "retrieval_ready" /\ Asked'
    BY ZenonT(60), <2>1, StreamFacts, FollowsFacts, Yields DEF Events
  <2>. QED  BY <2>1, <2>2 DEF StreamFits, LastEvent, Asked
<1>12. CASE GroundQuestion
  <2>1. pc = "ground" /\ pc' = "time" /\ Yield("grounding_ready")
    BY <1>12 DEF GroundQuestion, Goto
  <2>2. /\ Protocol!Next
        /\ stream' \in Seq(Events) /\ stream' # <<>> /\ LastEvent' = "grounding_ready"
    BY <2>1, StreamFacts, FollowsFacts, Yields DEF Events
  <2>. QED  BY <2>1, <2>2 DEF StreamFits, LastEvent
<1>13. CASE PlanQuestion
  <2>1. CASE Fail
    BY <1>13, <2>1, FailFits DEF PlanQuestion
  <2>2. CASE AskUser
    BY <1>13, <2>2, AskUserFits DEF PlanQuestion
  <2>3. CASE ~Fail /\ ~AskUser
    <3>1. pc = "time" /\ pc' = "generate" /\ Yield("plan_ready")
      BY <1>13, <2>3 DEF PlanQuestion, Goto
    <3>2. /\ Protocol!Next
          /\ stream' \in Seq(Events) /\ stream' # <<>> /\ LastEvent' = "plan_ready"
      BY <3>1, StreamFacts, FollowsFacts, Yields DEF Events
    <3>. QED  BY <3>1, <3>2 DEF StreamFits, LastEvent
  <2>. QED  BY <2>1, <2>2, <2>3
<1>14. CASE Generate
  <2>1. CASE Fail
    BY <1>14, <2>1, FailFits DEF Generate, Outside
  <2>2. CASE ~Fail
    <3>1. pc = "generate" /\ pc' = "generated" /\ Yield("query_ready")
      BY <1>14, <2>2 DEF Generate, Goto
    <3>2. /\ Protocol!Next
          /\ stream' \in Seq(Events) /\ stream' # <<>> /\ LastEvent' = "query_ready"
      BY <3>1, StreamFacts, FollowsFacts, Yields DEF Events
    <3>. QED  BY <3>1, <3>2 DEF StreamFits, LastEvent
  <2>. QED  BY <2>1, <2>2
<1>15. CASE StartExecution
  <2>1. pc = "generated" /\ pc' = "check" /\ Yield("execution_started")
    BY <1>15 DEF StartExecution, Goto
  <2>2. /\ Protocol!Next
        /\ stream' \in Seq(Events) /\ stream' # <<>> /\ LastEvent' = "execution_started"
    BY <2>1, StreamFacts, FollowsFacts, Yields DEF Events
  <2>. QED  BY <2>1, <2>2 DEF StreamFits, LastEvent
<1>16. CASE CheckRevision
  <2>1. CASE Fail
    BY <1>16, <2>1, FailFits DEF CheckRevision, Outside
  <2>2. CASE ~Fail
    <3>1. pc = "check" /\ pc' = "execute" /\ UNCHANGED stream
      BY <1>16, <2>2 DEF CheckRevision, Goto
    <3>. QED  BY <3>1 DEF StreamFits
  <2>. QED  BY <2>1, <2>2
<1>17. CASE Execute
  <2>1. CASE Fail
    BY <1>17, <2>1, FailFits DEF Execute, Outside
  <2>2. CASE ~Fail
    <3>1. pc = "execute" /\ pc' = "compose" /\ UNCHANGED stream
      BY <1>17, <2>2 DEF Execute
    <3>. QED  BY <3>1 DEF StreamFits
  <2>. QED  BY <2>1, <2>2
<1>18. CASE Compose
  BY <1>18, StreamFacts, FollowsFacts, VerdictFits DEF Compose
<1>19. CASE Close
  <2>1. pc = "closing" /\ pc' = "done" /\ Yield("done")
    BY <1>19 DEF Close, Goto
  <2>2. /\ Protocol!Next
        /\ stream' \in Seq(Events) /\ stream' # <<>>
    BY <2>1, StreamFacts, FollowsFacts, Yields DEF Events
  <2>. QED  BY <2>1, <2>2 DEF StreamFits
<1>. QED  BY <1>1, <1>2, <1>3, <1>4, <1>5, <1>6, <1>7, <1>8, <1>9, <1>10, <1>11, <1>12, <1>13,
             <1>14, <1>15, <1>16, <1>17, <1>18, <1>19 DEF Step

\* The events of ask_stream() are those of AskProtocol: the stages in their order, one
\* verdict, done after it and nothing else, whatever fails and whoever leaves.
THEOREM StreamIsThePromised == Spec => StreamKeepsItsPromise
<1>1. Init => Protocol!Init /\ StreamFits
  BY DEF Init, Protocol!Init, StreamFits, Events
<1>2. StreamFits /\ [Next]_vars => StreamFits' /\ [Protocol!Next]_stream
  <2>1. ASSUME StreamFits, [Next]_vars
        PROVE  StreamFits' /\ [Protocol!Next]_stream
    <3>1. CASE Step
      BY <2>1, <3>1, StepStreams
    <3>2. CASE CallFails
      BY <2>1, <3>2, FailFits DEF CallFails
    <3>3. CASE Leave
      <4>1. pc' = "left" /\ UNCHANGED stream
        BY <3>3 DEF Leave, Goto
      <4>. QED  BY <2>1, <4>1 DEF StreamFits
    <3>4. CASE World \/ UNCHANGED vars
      <4>1. UNCHANGED <<pc, stream>>
        BY <3>4 DEF World, Publish, Activate, Unpublish, RemoveRow, Govern, Elsewhere, vars
      <4>. QED  BY <2>1, <4>1 DEF StreamFits
    <3>. QED  BY <2>1, <3>1, <3>2, <3>3, <3>4 DEF Next, Ended
  <2>. QED  BY <2>1
<1>. QED  BY <1>1, <1>2, PTL DEF Spec, StreamKeepsItsPromise, Protocol!Spec

-----------------------------------------------------------------------------
(* What a question states reaches the database *)

\* A definition that is governed for an object is read from that object (match_object()).
LEMMA IdentitiesStay ==
    ASSUME AskInductive
    PROVE  DefinitionsKeepTheirIdentity
<1>1. SUFFICES ASSUME ran # None, NEW b \in work.grounding.bindings, NEW a \in Governance,
                      b.id = a.id, b.type = a.kind, a.object # None
               PROVE  b.object = a.object /\ b.source = a.source
  BY DEF DefinitionsKeepTheirIdentity
<1>2. PICK read : read = work.retrieval.read
  OBVIOUS
<1>3. Sound(read, b)
  BY <1>1, <1>2, RanFacts, GroundedFacts DEF Grounds
<1>4. a.kind \in {"metric", "dimension", "term", "alias"}
  BY GovernanceAssumption DEF SemanticAsset
<1>5. b.type \in {"metric", "dimension", "term", "object", "field", "relationship"}
  BY <1>3 DEF Sound, SemanticCandidate, SemanticAssetType
<1>6. PICK d \in Governance : /\ d.id = b.id /\ d.kind = b.type
                              /\ d.object # None => b.object = d.object /\ b.source = d.source
  BY <1>1, <1>3, <1>4, <1>5 DEF Sound
<1>7. d = a
  BY SMTT(60), <1>1, <1>6, GovernanceAssumption
<1>. QED  BY <1>1, <1>6, <1>7

\* The filters of the text are those of the query that runs (_merge_filters() through
\* _predicate()).
LEMMA FiltersAreRun ==
    ASSUME AskInductive
    PROVE  StatedFiltersAreRun
<1>1. SUFFICES ASSUME ran # None
               PROVE  StatedFiltersAreRun
  BY DEF StatedFiltersAreRun
<1>2. PICK q, g, c, p, stated, where :
         /\ q = work.query /\ g = work.grounding /\ c = work.context /\ p = work.plan
         /\ stated = request.text.filters /\ where = ran.native.where
  OBVIOUS
<1>3. Given /\ Compiled /\ Planned /\ Retrieved /\ Understood /\ ran.native = work.native
  BY <1>1, RanFacts
<1>4. /\ \A i \in DOMAIN stated : \E n \in DOMAIN q.filters : q.filters[n] = stated[i]
      /\ \A n \in DOMAIN q.filters :
            \/ \E i \in DOMAIN stated : q.filters[n] = stated[i]
            \/ \A i \in DOMAIN stated : stated[i].subject # q.filters[n].subject
      /\ stated \in Seq(TextFilter)
  BY SMTT(60), <1>2, <1>3, UnderstoodFacts DEF Retrieved
<1>5. /\ DOMAIN c.filters = DOMAIN q.filters
      /\ \A i \in DOMAIN q.filters :
            /\ c.filters[i].operator \in OperatorsOf(q.filters[i].operator)
            /\ c.filters[i].values = q.filters[i].values
            /\ \E b \in g.bindings : /\ b.term = q.filters[i].subject /\ b.path # None
                                     /\ c.filters[i].field = Ref(b)
  BY <1>2, <1>3, PlannedFacts DEF Contexts
<1>6. PICK language \in {"sql", "mongodb_json", "redis_json"} :
         /\ language = ran.native.language /\ DOMAIN where = DOMAIN c.filters
         /\ \A i \in DOMAIN c.filters : KeepsCondition(language, where[i], c.filters[i])
  <2>1. /\ ran.native.language \in {"sql", "mongodb_json", "redis_json"}
        /\ KeepsFilters(ran.native, p)
    BY <1>2, <1>3, CompiledFacts
  <2>2. p = Plan(c) /\ p.ok
    BY <1>2, <1>3 DEF Planned
  <2>3. p.filters = c.filters
    BY <2>2, PlanFacts
  <2>. QED  BY <1>2, <2>1, <2>3 DEF KeepsFilters
<1>. DEFINE on(f, n) == where[n].field \in {Ref(b) : b \in Terms(f.subject)}
            runs(f, n) == /\ on(f, n) /\ where[n].values = f.values
                          /\ where[n].operator = Means(language, f.operator)
<1>7. ASSUME NEW i \in DOMAIN q.filters
      PROVE  i \in DOMAIN where /\ on(q.filters[i], i)
  <2>1. PICK b \in g.bindings : /\ b.term = q.filters[i].subject /\ b.path # None
                                /\ c.filters[i].field = Ref(b)
    BY <1>5
  <2>2. b \in Terms(q.filters[i].subject)
    BY <1>2, <2>1 DEF Terms
  <2>. QED  BY <1>5, <1>6, <2>1, <2>2 DEF KeepsCondition
<1>8. ASSUME NEW i \in DOMAIN stated, NEW n \in DOMAIN q.filters, q.filters[n] = stated[i]
      PROVE  runs(stated[i], n)
  <2>1. /\ stated[i].operator \in Symbols /\ stated[i].values \in Seq(STRING \cup {Null})
        /\ Null \notin ToSet(stated[i].values)
    <3>1. stated[i] \in TextFilter
      BY <1>4
    <3>. QED  BY <3>1 DEF TextFilter, BusinessFilter
  <2>2. stated[i].values # <<Null>>
    BY <2>1 DEF ToSet
  <2>3. PICK o \in OperatorsOf(stated[i].operator) : o = c.filters[n].operator
    BY <1>5, <1>8
  <2>4. /\ where[n].values = stated[i].values /\ where[n].operator = Said(language, o)
        /\ language = "redis_json" => o \in {"equals", "in"}
    BY <1>5, <1>6, <1>8, <2>2, <2>3 DEF KeepsCondition
  <2>5. PICK symbol \in Symbols : symbol = stated[i].operator
    BY <2>1
  <2>6. o \in OperatorsOf(symbol)
    BY <2>5
  <2>7. Said(language, o) = Means(language, symbol)
    BY <2>4, <2>6, SymbolFacts
  <2>8. on(stated[i], n)
    BY <1>7, <1>8
  <2>. QED  BY <2>4, <2>5, <2>7, <2>8
<1>. HIDE DEF on, runs
<1>9. \A i \in DOMAIN stated : \E n \in DOMAIN where : runs(stated[i], n)
  BY <1>4, <1>7, <1>8
<1>10. ASSUME NEW n \in DOMAIN where
       PROVE  \/ \E i \in DOMAIN stated : runs(stated[i], n)
              \/ \E i \in DOMAIN q.filters :
                    on(q.filters[i], n) /\ \A j \in DOMAIN stated : stated[j].subject # q.filters[i].subject
  <2>1. n \in DOMAIN q.filters
    BY <1>5, <1>6
  <2>. QED  BY <1>4, <1>7, <1>8, <2>1
<1>. QED  BY SMTT(60), <1>2, <1>6, <1>9, <1>10 DEF StatedFiltersAreRun, on, runs

\* The range of a text's time has a first and a last day (normalize_time_range()).
LEMMA RangeFacts ==
    ASSUME Given, Understood, TimeRange # None, Intent!Time(request.text) # None
    PROVE  TimeRange.start \in Int /\ TimeRange.end \in Int
<1>1. PICK text : text = request.text /\ text \in DOMAIN Readings
  BY RequestsAssumption DEF Given
<1>2. work.stated.dates = text.dates /\ work.stated.time = Intent!Time(text)
  BY <1>1, UnderstoodFacts
<1>3. text.dates \in Seq(Int)
  BY <1>1, RequestsAssumption DEF IsText
<1>4. ASSUME text.dates # <<>>
      PROVE  TimeRange.start \in Int /\ TimeRange.end \in Int
  <2>1. PICK a \in Int, b \in Int : a = text.dates[1] /\ b = text.dates[Len(text.dates)]
    BY <1>3, <1>4
  <2>2. TimeRange = [start |-> Min({a, b}), end |-> Max({a, b})]
    BY <1>2, <1>4, <2>1 DEF TimeRange
  <2>3. Min({a, b}) \in {a, b}
    <3>1. \E x \in {a, b} : \A y \in {a, b} : x <= y
      OBVIOUS
    <3>. QED  BY <3>1 DEF Min
  <2>4. Max({a, b}) \in {a, b}
    <3>1. \E x \in {a, b} : \A y \in {a, b} : x >= y
      OBVIOUS
    <3>. QED  BY <3>1 DEF Max
  <2>. QED  BY <2>2, <2>3, <2>4
<1>5. ASSUME text.dates = <<>>
      PROVE  TimeRange.start \in Int /\ TimeRange.end \in Int
  <2>1. Intent!Time(text) = text.relative /\ text.relative # None
    BY <1>1, <1>5 DEF Intent!Time
  <2>2. TimeRange = Ranges[text.relative]
    BY <1>2, <1>5, <2>1 DEF TimeRange
  <2>3. Ranges[text.relative] \in Optional([start: Int, end: Int])
    BY <1>1, <2>1, RangesAssumption
  <2>4. TimeRange \in [start: Int, end: Int]
    BY <2>2, <2>3 DEF Optional
  <2>. QED  BY <2>4
<1>. QED  BY <1>4, <1>5

\* What passes the bounds of a query is of the range, and of it at most the last day does not
\* pass, where the field has times and the query is of SQL (_time_value()).
LEMMA BoundsFacts ==
    ASSUME NEW native, NEW driver, NEW dtype, NEW range, range.start \in Int, range.end \in Int,
           native.bounds = IF driver \in Relational THEN <<range.start, range.end>>
                           ELSE <<Midnight(range.start), Later(range.end)>>,
           NEW m \in Moments(driver, dtype, range)
    PROVE  /\ Passes(native, driver, dtype, m) => Day(m) \in range.start..range.end
           /\ Day(m) \in range.start..range.end =>
                 \/ Passes(native, driver, dtype, m)
                 \/ Day(m) = range.end /\ driver \in Relational /\ dtype # "date"
<1>1. m \in Int /\ (driver \in Relational /\ dtype = "date" => m = Midnight(Day(m)))
  BY DEF Moments, Midnight, Later
<1>2. Day(m) \in Int /\ (m = 2 * Day(m) \/ m = 2 * Day(m) + 1)
  BY <1>1 DEF Day
<1>3. PICK s \in Int, e \in Int, d \in Int : s = range.start /\ e = range.end /\ d = Day(m)
  BY <1>2
<1>4. PICK from, to : /\ native.bounds = <<from, to>>
                      /\ from = (IF driver \in Relational THEN s ELSE 2 * s)
                      /\ to = (IF driver \in Relational THEN e ELSE 2 * e + 1)
  BY <1>3 DEF Midnight, Later
<1>5. native.bounds[1] = from /\ native.bounds[2] = to
  BY <1>4
<1>6. CASE driver \notin Relational
  <2>1. Passes(native, driver, dtype, m) <=> (from <= m /\ m <= to)
    BY <1>5, <1>6 DEF Passes
  <2>2. Passes(native, driver, dtype, m) <=> (2 * s <= m /\ m <= 2 * e + 1)
    BY <1>4, <1>6, <2>1
  <2>3. (2 * s <= m /\ m <= 2 * e + 1) <=> (s <= d /\ d <= e)
    BY <1>1, <1>2, <1>3
  <2>. QED  BY <1>3, <2>2, <2>3
<1>7. CASE driver \in Relational /\ driver = "sqlite" /\ dtype # "date"
  <2>1. Passes(native, driver, dtype, m) <=> (Midnight(from) <= m /\ m < Midnight(to))
    BY <1>5, <1>7 DEF Passes
  <2>2. Passes(native, driver, dtype, m) <=> (2 * s <= m /\ m < 2 * e)
    BY <1>4, <1>7, <2>1 DEF Midnight
  <2>3. (2 * s <= m /\ m < 2 * e) <=> (s <= d /\ d < e)
    BY <1>1, <1>2, <1>3
  <2>. QED  BY <1>3, <1>7, <2>2, <2>3
<1>8. CASE driver \in Relational /\ ~(driver = "sqlite" /\ dtype # "date")
  <2>1. Passes(native, driver, dtype, m) <=> (Midnight(from) <= m /\ m <= Midnight(to))
    BY <1>5, <1>8 DEF Passes
  <2>2. Passes(native, driver, dtype, m) <=> (2 * s <= m /\ m <= 2 * e)
    BY <1>4, <1>8, <2>1 DEF Midnight
  <2>3. (2 * s <= m /\ m <= 2 * e) => s <= d /\ d <= e
    BY <1>1, <1>2, <1>3
  <2>4. s <= d /\ d < e => 2 * s <= m /\ m <= 2 * e
    BY <1>1, <1>2, <1>3
  <2>5. dtype = "date" /\ s <= d /\ d <= e => 2 * s <= m /\ m <= 2 * e
    BY <1>1, <1>3, <1>8 DEF Midnight
  <2>. QED  BY <1>3, <1>8, <2>2, <2>3, <2>4, <2>5
<1>. QED  BY <1>6, <1>7, <1>8

\* The time of a question is on its axis, or on a metric of that name (_time_field()).
LEMMA TimeIsRun ==
    ASSUME AskInductive
    PROVE  StatedTimeIsRun
<1>1. SUFFICES ASSUME ran # None, Intent!Time(request.text) # None
               PROVE  StatedTimeIsRun
  BY DEF StatedTimeIsRun
<1>2. PICK q, read, g, c, p, range :
         /\ q = work.query /\ read = work.retrieval.read /\ g = work.grounding
         /\ c = work.context /\ p = work.plan /\ range = TimeRange
  OBVIOUS
<1>3. Given /\ Compiled /\ Planned /\ Grounded /\ Understood /\ ran.native = work.native
  BY <1>1, RanFacts
<1>4. IsRead(read, work.stated.scope) /\ Grounds(read, g)
  BY <1>2, <1>3, GroundedFacts
<1>5. q.time # None
  BY <1>1, <1>2, <1>3, UnderstoodFacts
<1>6. range # None /\ Cardinality(Axes) = 1
  BY <1>2, <1>3, <1>5 DEF Planned
<1>7. PICK a \in g.bindings : a.axisOf /\ a.axis /\ a.term = Axis /\ a.term \in Axes
  <2>1. PICK a \in g.bindings : a.axisOf /\ a.axis
    <3>1. g.executable
      BY <1>2, <1>3 DEF Planned
    <3>. QED  BY <1>2, <1>3, <1>4, <1>5, <3>1, GroundedFacts DEF Grounds
  <2>2. a.term \in Axes
    BY <1>2, <2>1 DEF Axes
  <2>3. \A x, y \in Axes : x = y
    <3>1. PICK B : B = {b \in g.bindings : b.axis} /\ IsFiniteSet(B)
      <4>1. {b \in g.bindings : b.axis} \in SUBSET g.bindings /\ IsFiniteSet(g.bindings)
        BY <1>4 DEF Grounds
      <4>. QED  BY <4>1, FS_Subset
    <3>2. PICK f : f = [b \in B |-> b.term]
      OBVIOUS
    <3>5. DOMAIN f = B
      BY <3>2
    <3>3. IsFiniteSet({f[b] : b \in B})
      BY <3>1, <3>5, FiniteImage
    <3>4. Axes = {f[b] : b \in B}
      BY <1>2, <3>1, <3>2 DEF Axes
    <3>. QED  BY <1>6, <3>3, <3>4, OneOnly
  <2>4. Axis \in Axes
    BY <1>2, <1>5, <2>2 DEF Axis
  <2>. QED  BY <2>1, <2>2, <2>3, <2>4
<1>8. /\ Sound(read, a) /\ a.type = "dimension" /\ a.path # None /\ a.term # None
  <2>1. Sound(read, a) /\ a.type = "dimension"
    BY SMTT(60), <1>4, <1>7 DEF Grounds
  <2>. QED  BY <2>1, NamesAssumption DEF Sound, SemanticCandidate
<1>9. /\ c.bindings = g.bindings /\ c.range = range
      /\ c.time \in g.bindings /\ c.time.term = Axis /\ c.time.path # None
      /\ c.time.dtype \in DateTypes /\ c.time # None
      /\ \A b \in g.bindings : b.term = Axis /\ b.path # None => ~Better(b, c.time)
  BY <1>2, <1>3, <1>7, <1>8, PlannedFacts DEF Contexts
<1>10. PICK t : t = c.time
  OBVIOUS
<1>11. Sound(read, t) /\ Ref(t) # None
  BY <1>4, <1>9, <1>10, RefFacts DEF Grounds
<1>12. /\ ran.native.from = p.objects /\ KeepsBounds(ran.native, p, Driver[work.source])
       /\ p.range = range /\ p.time = Ref(t) /\ ran.native.on = Ref(t)
  <2>1. p = Plan(c) /\ p.ok
    BY <1>2, <1>3 DEF Planned
  <2>2. p.range = range /\ p.time = Ref(t)
    BY <1>9, <1>10, <2>1, PlanFacts
  <2>3. /\ ran.native.from = p.objects /\ KeepsBounds(ran.native, p, Driver[work.source])
    BY <1>2, <1>3, CompiledFacts
  <2>. QED  BY <1>6, <2>2, <2>3 DEF KeepsBounds
<1>13. /\ range.start \in Int /\ range.end \in Int
       /\ ran.native.bounds = IF Driver[work.source] \in Relational THEN <<range.start, range.end>>
                              ELSE <<Midnight(range.start), Later(range.end)>>
  <2>1. range.start \in Int /\ range.end \in Int
    BY <1>1, <1>2, <1>3, <1>6, RangeFacts
  <2>. QED  BY <1>6, <1>12, <2>1 DEF KeepsBounds
<1>14. ran.native.on[2] \in ran.native.from
  <2>1. Ref(t) \in FieldsOf(p)
    BY <1>11, <1>12 DEF FieldsOf
  <2>. QED  BY <1>2, <1>3, <1>12, <2>1 DEF Planned, ValidPlan, ValidFields
<1>15. t.type \in {"metric", "dimension"}
  <2>1. t.type \in {"metric", "dimension", "term", "object", "field", "relationship"}
    BY <1>11 DEF Sound, SemanticCandidate, SemanticAssetType
  <2>2. ~Better(a, t)
    BY <1>7, <1>8, <1>9, <1>10
  <2>3. ~(Priority["dimension"] < Priority[t.type])
    BY <1>8, <2>2 DEF Better
  <2>. QED  BY <2>1, <2>3 DEF Priority
<1>16. \E b \in g.bindings : /\ Ref(b) = ran.native.on /\ b.dtype \in DateTypes
                             /\ b.axisOf \/ (b.type = "metric" /\ b.term \in Axes)
  <2>1. CASE t.type = "metric"
    <3>1. t.term \in Axes
      BY <1>7, <1>9, <1>10
    <3>. QED  BY <1>9, <1>10, <1>12, <2>1, <3>1
  <2>2. CASE t.type = "dimension"
    <3>1. Ref(a) = Ref(t) /\ a.dtype = t.dtype
      BY SMTT(60), <1>4, <1>7, <1>9, <1>10, <2>2 DEF Grounds, OfOneAxis
    <3>. QED  BY <1>7, <1>9, <1>10, <1>12, <3>1
  <2>. QED  BY <1>15, <2>1, <2>2
<1>17. \A b \in g.bindings : \A m \in Moments(Driver[work.source], b.dtype, range) :
          /\ Passes(ran.native, Driver[work.source], b.dtype, m) => Day(m) \in range.start..range.end
          /\ Day(m) \in range.start..range.end =>
                \/ Passes(ran.native, Driver[work.source], b.dtype, m)
                \/ Day(m) = range.end /\ Driver[work.source] \in Relational /\ b.dtype # "date"
  BY <1>13, BoundsFacts
<1>. QED  BY ZenonT(60), <1>2, <1>14, <1>16, <1>17 DEF StatedTimeIsRun

\* What a query aggregates is what the question measures, by the function it derives or
\* the one governed, and it is in the order of its ranking (_aggregates() and _ordering()).
LEMMA MetricsRun ==
    ASSUME AskInductive
    PROVE  MetricsAreRun
<1>1. SUFFICES ASSUME ran # None, ran.native.aggregates # <<>>
               PROVE  MetricsAreRun
  BY DEF MetricsAreRun
<1>2. PICK q, read, g, c, p, axis, range, A :
         /\ q = work.query /\ read = work.retrieval.read /\ g = work.grounding
         /\ c = work.context /\ p = work.plan /\ axis = Axis /\ range = TimeRange
         /\ A = AggregatesOf(c)
  OBVIOUS
<1>. DEFINE metrics == {b \in work.grounding.bindings : b.type = "metric"}
            aggregates == ToSet(ran.native.aggregates)
            over(term) == {a \in aggregates : a.field \in {Ref(b) : b \in Terms(term)}}
            derives(term, function) ==
                \E i \in DOMAIN q.derivations :
                    q.derivations[i].metric = term /\ q.derivations[i].operation = function
<1>3. Given /\ Compiled /\ Planned /\ Grounded /\ ran.native = work.native
  BY <1>1, RanFacts
<1>4. IsNamedQuery(q) /\ IsRead(read, work.stated.scope) /\ Grounds(read, g)
  BY <1>2, <1>3, GroundedFacts
<1>5. Contexts(g, q, axis, range, c)
  BY <1>2, <1>3, PlannedFacts
<1>6. metrics = Typed(g.bindings, {"metric"})
  BY <1>2 DEF Typed
<1>7. /\ ran.native.aggregates = A
      /\ ran.native.order = p.sorts /\ ran.native.limit = p.limit
      /\ c.ranking # None => p.sorts = Ordering(c) /\ p.limit = c.ranking.limit
  <2>1. /\ ran.native.aggregates = p.aggregates
        /\ ran.native.order = p.sorts /\ ran.native.limit = p.limit
    BY <1>1, <1>2, <1>3, CompiledFacts
  <2>2. p = Plan(c) /\ p.ok
    BY <1>2, <1>3 DEF Planned
  <2>3. p.aggregates = (IF Projected(c) THEN <<>> ELSE AggregatesOf(c))
    BY <2>2, PlanFacts
  <2>4. /\ c.ranking # None => p.sorts = Ordering(c)
        /\ p.limit = (IF c.ranking = None THEN DefaultLimit ELSE c.ranking.limit)
    BY <2>2, PlanFacts
  <2>. QED  BY <1>1, <1>2, <2>1, <2>3, <2>4
<1>8. aggregates = {A[i] : i \in DOMAIN A}
  BY <1>7 DEF ToSet
<1>9. /\ \A i \in DOMAIN A : A[i].field # None =>
            \E b \in metrics : A[i].field = Ref(b) /\ A[i].function = Function(c, b)
      /\ \A b \in metrics : \E i \in DOMAIN A : A[i].field = Ref(b)
  BY <1>2, <1>4, <1>5, <1>6, AggregatesFacts
<1>10. ASSUME NEW b \in metrics
       PROVE  b \in Terms(b.term) /\ Ref(b) # None
  <2>1. Sound(read, b) /\ b.path # None
    BY <1>2, <1>4 DEF Grounds, Sound
  <2>2. Ref(b) # None
    BY <1>4, <2>1, RefFacts
  <2>. QED  BY <2>1, <2>2 DEF Terms
<1>11. ASSUME NEW term, BoundAs(g.bindings, term, {"metric"}) # {}
       PROVE  over(term) # {}
  <2>1. PICK b \in metrics : b.term = term
    BY <1>2, <1>11 DEF BoundAs
  <2>2. PICK i \in DOMAIN A : A[i].field = Ref(b)
    BY <1>9
  <2>3. A[i] \in over(term)
    BY <1>8, <1>10, <2>1, <2>2
  <2>. QED  BY <2>3
<1>12. \A b \in metrics : \/ derives(b.term, Function(c, b)) /\ Function(c, b) \in Aggregates
                          \/ /\ \A i \in DOMAIN q.derivations : q.derivations[i].metric # b.term
                             /\ Function(c, b) = b.aggregation
  BY <1>4, <1>5, <1>6, FunctionFacts
<1>13. \A i \in DOMAIN q.metrics : over(q.metrics[i]) # {}
  <2>1. \A i \in DOMAIN q.metrics : BoundAs(g.bindings, q.metrics[i], {"metric"}) # {}
    BY <1>5 DEF Contexts
  <2>. HIDE DEF over
  <2>. QED  BY <1>11, <2>1
<1>14. \A i \in DOMAIN q.derivations : over(q.derivations[i].metric) # {}
  <2>1. \A i \in DOMAIN q.derivations : BoundAs(g.bindings, q.derivations[i].metric, {"metric"}) # {}
    BY <1>5 DEF Contexts, DerivationOK
  <2>. HIDE DEF over
  <2>. QED  BY <1>11, <2>1
<1>15. \A a \in aggregates : a.field # None =>
          \E b \in metrics : Ref(b) = a.field /\ (derives(b.term, a.function) \/ a.function = b.aggregation)
  <2>1. SUFFICES ASSUME NEW i \in DOMAIN A, A[i].field # None
                 PROVE  \E b \in metrics :
                           /\ Ref(b) = A[i].field
                           /\ derives(b.term, A[i].function) \/ A[i].function = b.aggregation
    BY <1>8
  <2>2. PICK b \in metrics : A[i].field = Ref(b) /\ A[i].function = Function(c, b)
    BY <1>9, <2>1
  <2>. HIDE DEF derives, metrics
  <2>. QED  BY <1>12, <2>2
<1>16. ASSUME NEW b \in metrics, NEW f \in Aggregates, derives(b.term, f),
              \A h \in Aggregates : derives(b.term, h) => h = f,
              \A d \in metrics : Ref(d) = Ref(b) => d = b
       PROVE  \E a \in over(b.term) : a.function = f
  <2>1. PICK i \in DOMAIN A : A[i].field = Ref(b)
    BY <1>9
  <2>2. PICK d \in metrics : A[i].field = Ref(d) /\ A[i].function = Function(c, d)
    BY <1>9, <1>10, <2>1
  <2>3. d = b
    BY <1>16, <2>1, <2>2
  <2>4. Function(c, b) = f
    BY <1>12, <1>16
  <2>5. A[i] \in over(b.term)
    BY <1>8, <1>10, <2>1
  <2>. QED  BY <2>2, <2>3, <2>4, <2>5
<1>17. ASSUME q.ranking # None
       PROVE  /\ Len(ran.native.order) = 1 /\ ran.native.limit = q.ranking.limit
              /\ ran.native.order[1].key \in {a.alias : a \in over(q.ranking.metric)}
  <2>1. c.ranking = q.ranking
    BY <1>5 DEF Contexts
  <2>2. PICK b \in metrics, i \in DOMAIN A :
           /\ b.term = q.ranking.metric /\ A[i].field = Ref(b)
           /\ Ordering(c) = <<[by |-> "aggregate", key |-> A[i].alias,
                               direction |-> c.ranking.direction]>>
    BY <1>2, <1>4, <1>5, <1>6, <1>17, <2>1, RankingFacts
  <2>3. ran.native.order = Ordering(c) /\ ran.native.limit = q.ranking.limit
    BY <1>7, <1>17, <2>1
  <2>4. PICK s : s = [by |-> "aggregate", key |-> A[i].alias, direction |-> c.ranking.direction]
    OBVIOUS
  <2>5. s.key = A[i].alias
    BY <2>4
  <2>6. Len(ran.native.order) = 1 /\ ran.native.order[1] = s
    BY <2>2, <2>3, <2>4
  <2>7. A[i] \in over(q.ranking.metric)
    BY <1>8, <1>10, <2>2
  <2>. QED  BY <2>3, <2>5, <2>6, <2>7
<1>. QED  BY SMTT(60), <1>2, <1>13, <1>14, <1>15, <1>16, <1>17 DEF MetricsAreRun

\* The query that runs is the one the question asks: its filters, its time and its metrics,
\* in the meaning they were governed with (the intent parser, grounding, planning and the
\* compilers together).
THEOREM QuestionsArrive == Spec => []QuestionsReachTheDatabase
<1>1. AskInductive => QuestionsReachTheDatabase
  BY FiltersAreRun, TimeIsRun, IdentitiesStay, MetricsRun DEF QuestionsReachTheDatabase
<1>. QED  BY <1>1, AskStays, PTL
=============================================================================
