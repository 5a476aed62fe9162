----------------------------- MODULE AssetLoading -----------------------------
(***************************************************************************)
(* SemanticAssetBootstrap (semantic/assets.py): seeds, written with names,  *)
(* are bound to the objects and fields of the catalog's profile and of the  *)
(* published graph, and saved one by one; and the registry's move to a key  *)
(* per workspace.  A registry is a function from ids to assets.             *)
(*                                                                          *)
(* A profile is a set of objects [source, id, namespace, name, fields], a   *)
(* graph one of [source, node, namespace, name, fields], where fields are   *)
(* [node, path].                                                            *)
(***************************************************************************)
EXTENDS Integers, SequencesExt, FiniteSetsExt, TLC

CONSTANT None       \* a field of a seed that is not given

Refused == [refused |-> TRUE]

-----------------------------------------------------------------------------
(* Governance *)

Trusted == {"approved", "published"}
Unconfirmed == {"database_metadata", "model_suggestion"}

\* What a database or a model has proposed is trusted only when somebody confirmed it:
\* in the seed, in the asset and once more at the registry.
ValidGovernance(asset) ==
    asset.origin \in Unconfirmed /\ asset.status \in Trusted => asset.confirmed

\* An alias names its target and inherits its binding; nothing else has a target.
ValidSeed(seed) ==
    /\ IF seed.kind = "alias"
       THEN seed.target # None
            /\ {seed.source, seed.namespace, seed.profiled, seed.object, seed.path} = {None}
       ELSE seed.target = None
    /\ ValidGovernance(seed)

-----------------------------------------------------------------------------
(* The binding of one seed *)

Given(wanted, actual) == wanted = None \/ wanted = actual

\* By the profile's id, by name, or both.
FindDataObject(profile, seed) ==
    {o \in profile : o.source = seed.source /\ Given(seed.profiled, o.id)
                     /\ Given(seed.object, o.name) /\ Given(seed.namespace, o.namespace)}

Claims(seed) == seed.profiled # None \/ seed.object # None

\* The names of the seed, in the graph of its source.
MatchObject(graph, seed) ==
    {o \in graph : o.source = seed.source /\ o.name = seed.object
                   /\ Given(seed.namespace, o.namespace)}

Paths(object) == {f.path : f \in object.fields}

The(set) == CHOOSE x \in set : TRUE

\* Against the profile: the source and the object have to be there and be the only ones,
\* a field needs an object, a metric and a dimension need a field.
BindsToProfile(seed, profile) ==
    /\ seed.source # None => \E o \in profile : o.source = seed.source
    /\ Claims(seed) => seed.source # None /\ Cardinality(FindDataObject(profile, seed)) = 1
    /\ seed.path # None => Claims(seed) /\ seed.path \in Paths(The(FindDataObject(profile, seed)))
    /\ seed.kind \in {"metric", "dimension"} => seed.path # None

\* slip: the first object of the name.
BindsToAny(seed, graph) ==
    seed.object # None =>
        /\ MatchObject(graph, seed) # {}
        /\ \A o \in MatchObject(graph, seed) :
            seed.path # None => Cardinality({f \in o.fields : f.path = seed.path}) = 1

\* Against the graph, where there is a reader and the seed names an object; the id of a
\* profile is not looked up there.
BindsToGraph(seed, graph) ==
    seed.object # None =>
        /\ Cardinality(MatchObject(graph, seed)) = 1
        /\ seed.path # None =>
            Cardinality({f \in The(MatchObject(graph, seed)).fields : f.path = seed.path}) = 1

GraphIdentity(seed, graph) ==
    IF seed.object = None THEN [object |-> None, field |-> None]
    ELSE LET object == The(MatchObject(graph, seed))
         IN [object |-> object.node,
             field |-> IF seed.path = None THEN None
                       ELSE The({f \in object.fields : f.path = seed.path}).node]

Resolve(seed, profile, graph) ==
    IF seed.kind = "alias"
    THEN [id |-> seed.id, seed |-> seed, profiled |-> None,
          identity |-> [object |-> None, field |-> None]]
    ELSE IF ~BindsToProfile(seed, profile) \/ ~BindsToGraph(seed, graph) THEN Refused
    ELSE [id |-> seed.id, seed |-> seed,
          profiled |-> IF ~Claims(seed) THEN None ELSE The(FindDataObject(profile, seed)).id,
          identity |-> GraphIdentity(seed, graph)]

\* A file is refused before anything is saved: by a seed that is not valid, one that is not
\* bound, or an alias whose target is neither in the file nor in the registry.
RefusesFile(seeds, profile, graph, registry) ==
    LET known == DOMAIN registry \cup {seeds[i].id : i \in DOMAIN seeds}
    IN \E i \in DOMAIN seeds :
          \/ ~ValidSeed(seeds[i])
          \/ Resolve(seeds[i], profile, graph) = Refused
          \/ seeds[i].target # None /\ seeds[i].target \notin known

\* save(): a row of the same id is replaced.
Save(registry, asset) == (asset.id :> asset) @@ registry

\* The assets of a file are saved in its order, each in a transaction of its own; stop is how
\* many are before a fault or the end of the process.
LoadUpTo(seeds, profile, graph, registry, stop) ==
    IF RefusesFile(seeds, profile, graph, registry) THEN registry
    ELSE FoldLeft(Save, registry, [i \in 1..Min({stop, Len(seeds)}) |-> Resolve(seeds[i], profile, graph)])

Load(seeds, profile, graph, registry) == LoadUpTo(seeds, profile, graph, registry, Len(seeds))

-----------------------------------------------------------------------------
(* The move of a registry that is keyed by asset alone *)

\* The tables: "none", or the rows and whether the key is per workspace.
NoTable == [rows |-> {}, keyed |-> "none"]

\* The statements of _migrate(), each committed on its own; stop is how many are before
\* the process stops.
MigrateUpTo(db, stop) ==
    LET dropped == IF stop >= 1 THEN [db EXCEPT !.legacy = NoTable] ELSE db
        renamed == IF stop >= 2 THEN [main |-> NoTable, legacy |-> dropped.main] ELSE dropped
        created == IF stop >= 3 THEN [renamed EXCEPT !.main = [rows |-> {}, keyed |-> "workspace"]]
                   ELSE renamed
    IN IF stop >= 4 THEN [main |-> [created.main EXCEPT !.rows = created.legacy.rows], legacy |-> NoTable]
       ELSE created

\* A registry is opened: a table with the old key is moved, a missing one created.
InitializeUpTo(db, stop) ==
    IF db.main.keyed = "asset" THEN MigrateUpTo(db, stop)
    ELSE IF db.main.keyed = "none" THEN [db EXCEPT !.main = [rows |-> {}, keyed |-> "workspace"]]
    ELSE db

Initialize(db) == InitializeUpTo(db, 4)

=============================================================================
