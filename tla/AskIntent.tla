------------------------------- MODULE AskIntent -------------------------------
(***************************************************************************)
(* What a question asks: the facts its text states (RuleExtractor), the    *)
(* reading of the model, and the query they are merged into                *)
(* (BusinessQueryMergePolicy, ClarificationBuilder).                       *)
(*                                                                         *)
(* A text is the record of what the patterns find in it; a fact it does    *)
(* not state is None.                                                      *)
(***************************************************************************)
EXTENDS Integers, SequencesExt, Places

CONSTANTS
    None,
    PhysicalNames   \* subjects of the form table.column

MostRows == 1000

\* _objective(): the first that applies.
Objective(text) ==
    IF text.why THEN "diagnosis"
    ELSE IF text.ranking # None THEN "ranking"
    ELSE IF text.comparison THEN "comparison"
    ELSE IF text.trend THEN "trend"
    ELSE None

\* _ranking(): the limit is capped; one of 0 is not a ranking, and fails.
Ranking(text) ==
    IF text.ranking = None THEN None
    ELSE [direction |-> text.ranking.direction, metric |-> None,
          limit |-> IF text.ranking.limit > MostRows THEN MostRows ELSE text.ranking.limit]

\* _time(): dates win over a relative expression.
Time(text) ==
    IF text.dates # <<>> THEN "dates" ELSE text.relative

\* extract()
ExtractOK(text) == text.ranking = None \/ text.ranking.limit > 0

Extract(text, scope) ==
    [objective |-> Objective(text), ranking |-> Ranking(text), comparison |-> text.comparison,
     time |-> Time(text), dates |-> text.dates, filters |-> text.filters,
     words |-> text.words, scope |-> IF scope # None THEN scope ELSE text.source]

-----------------------------------------------------------------------------
(* merge() *)

\* A slip of MergedFilters: the filters of the model are kept beside those of the text.
FiltersOfBoth(rules, model) == rules.filters \o model.filters

\* _merge_filters(): a filter of the text is kept in place of the model's of the same
\* subject, but one on a physical name is not a filter.
MergedFilters(rules, model) ==
    LET stated == Taken(rules.filters, {i \in DOMAIN rules.filters :
                                            rules.filters[i].subject \notin PhysicalNames})
        subjects == {stated[i].subject : i \in DOMAIN stated}
    IN stated \o Taken(model.filters, {i \in DOMAIN model.filters :
                                            model.filters[i].subject \notin subjects})

Over(stated, inferred) == IF stated = None THEN inferred ELSE stated

\* The text has no metric for its ranking, the model's reading may.
MergedRanking(rules, model) ==
    IF rules.ranking = None THEN model.ranking
    ELSE [rules.ranking EXCEPT !.metric = IF model.ranking = None THEN None
                                          ELSE model.ranking.metric]

\* _reject_physical_identifiers(): a reading that names a physical field anywhere is refused,
\* and so is an objective without what it needs.
Named(model) ==
    ToSet(model.entities) \cup ToSet(model.metrics) \cup ToSet(model.dimensions)
        \cup {model.filters[i].subject : i \in DOMAIN model.filters}
        \cup {model.derivations[i].metric : i \in DOMAIN model.derivations}
        \cup (IF model.ranking = None THEN {} ELSE {model.ranking.metric})

ParseOK(model) == Named(model) \cap PhysicalNames = {}

MergeOK(query) ==
    /\ query.objective = "ranking" => query.ranking # None
    /\ query.objective = "comparison" => query.comparison

\* The words of the text stay with the query, for the retrieval.
Merge(rules, model) ==
    [objective |-> Over(rules.objective, model.objective), metrics |-> model.metrics,
     dimensions |-> model.dimensions, entities |-> model.entities,
     filters |-> MergedFilters(rules, model), ranking |-> MergedRanking(rules, model),
     derivations |-> model.derivations, time |-> Over(rules.time, model.time),
     comparison |-> rules.comparison \/ model.comparison, words |-> rules.words]

\* rule_ambiguities(), the one thing the intent asks the user about.
Ambiguous(rules) == \E i \in DOMAIN rules.filters : rules.filters[i].subject \in PhysicalNames

Understand(text, scope, model) ==
    LET rules == Extract(text, scope)
        query == Merge(rules, model)
    IN IF ExtractOK(text) /\ ParseOK(model) /\ MergeOK(query)
       THEN [ok |-> TRUE, query |-> query, scope |-> rules.scope, ask |-> Ambiguous(rules),
             dates |-> rules.dates, time |-> rules.time]
       ELSE [ok |-> FALSE]

=============================================================================
