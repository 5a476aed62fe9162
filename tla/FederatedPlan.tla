----------------------------- MODULE FederatedPlan -----------------------------
(***************************************************************************)
(* Which questions are federated, and which drafts of a model become a     *)
(* plan: FederationRouter and FederatedPlanValidator.                      *)
(*                                                                         *)
(* A draft is a sequence of source tasks and a merge.  Questions are free  *)
(* of native queries (the code refuses those it recognises by keyword).    *)
(***************************************************************************)
EXTENDS Naturals, Sequences, FiniteSets

Operations == {"compare_scalars", "combine_scalars", "union_rows", "align_time_series",
               "keyed_join"}

ScalarOperations == {"sum", "difference", "ratio", "percentage_change",
                     "percentage_difference"}

Shape == [compare_scalars |-> "scalar", combine_scalars |-> "scalar", union_rows |-> "rows",
          align_time_series |-> "time_series", keyed_join |-> "rows"]

SourcesOf(draft) == [i \in DOMAIN draft.tasks |-> draft.tasks[i].source]

Elements(seq) == {seq[i] : i \in DOMAIN seq}

\* executable(), with the mapping as the governance has it.
Executable(mapping, sources) ==
    /\ mapping.status = "CONFIRMED"
    /\ {mapping.left, mapping.right} = Elements(sources)

JoinAllowed(draft, mapping) ==
    /\ draft.mapped /\ draft.mode # "none"
    /\ Len(draft.tasks) = 2
    /\ Executable(mapping, SourcesOf(draft))
    /\ SourcesOf(draft) = <<mapping.left, mapping.right>>

\* compare_scalars may name an operation, combine_scalars has to.
ScalarAllowed(draft) ==
    CASE draft.operation = "combine_scalars" ->
            draft.scalar \notin {"none", "percentage_difference"}
      [] draft.operation = "compare_scalars" -> TRUE
      [] OTHER -> draft.scalar = "none"

\* validate(): every refusal blocks the run, so their order does not matter.
Valid(draft, scope, mapping) ==
    LET sources == SourcesOf(draft) IN
    /\ Len(sources) \in 2..scope.sources
    /\ Len(sources) * scope.source <= scope.total
    /\ Elements(sources) \subseteq scope.allowed
    /\ Cardinality(Elements(sources)) = Len(sources)
    /\ IF draft.operation = "keyed_join"
       THEN JoinAllowed(draft, mapping)
       ELSE ~draft.mapped /\ draft.mode = "none"
    /\ \A i \in DOMAIN draft.tasks : draft.tasks[i].shape = Shape[draft.operation]
    /\ ScalarAllowed(draft)

-----------------------------------------------------------------------------
(* route(): the kind of a question and its source *)

\* A slip of Route: of several sources that cover it, any answers the question.
RouteToAny(ready, explicit, required, coverage) ==
    LET full == {s \in ready : required # {} /\ required \subseteq coverage[s]}
    IN IF full # {} THEN [kind |-> "single_source", source |-> CHOOSE s \in full : TRUE]
       ELSE [kind |-> "source_selection_ambiguous", source |-> "none"]

\* Two named sources are federated if one of them has any of the required terms;
\* one named source answers alone; else the terms decide, and a choice between
\* several sources that none of them decides is refused.
Route(ready, explicit, required, coverage) ==
    LET full == {s \in ready : required # {} /\ required \subseteq coverage[s]}
        covering == {s \in ready : coverage[s] # {}}
        single(s) == [kind |-> "single_source", source |-> s]
        federated == [kind |-> "federated", source |-> "none"]
        refused(code) == [kind |-> code, source |-> "none"]
    IN IF Cardinality(ready) < 2
       THEN single(IF ready = {} THEN "none" ELSE CHOOSE s \in ready : TRUE)
       ELSE IF Cardinality(explicit) >= 2
       THEN IF \E s \in explicit : coverage[s] # {} THEN federated
            ELSE refused("federation_semantics_missing")
       ELSE IF Cardinality(explicit) = 1 THEN single(CHOOSE s \in explicit : TRUE)
       ELSE IF Cardinality(full) = 1 THEN single(CHOOSE s \in full : TRUE)
       ELSE IF /\ full = {} /\ required # {}
               /\ required \subseteq UNION {coverage[s] : s \in ready}
               /\ Cardinality(covering) >= 2
       THEN federated
       ELSE refused("source_selection_ambiguous")

=============================================================================
