------------------------------ MODULE AskProtocol ------------------------------
(***************************************************************************)
(* What the events of one question promise its readers (the ask endpoint,  *)
(* a run, a diagnostic task): the stages in their order, one answer,       *)
(* clarification or error, and done after it.                              *)
(***************************************************************************)
EXTENDS Naturals, Sequences

VARIABLE stream

Verdicts == {"result_ready", "clarification_required", "error"}

\* What may follow an event; which of two paths a question takes shows in the first.
Follows(event) ==
    CASE event = "accepted" -> {"intent_ready", "retrieval_ready", "plan_ready",
                                "clarification_required", "error"}
      [] event = "intent_ready" -> {"retrieval_ready", "clarification_required", "error"}
      [] event = "retrieval_ready" -> {"grounding_ready", "result_ready", "error"}
      [] event = "grounding_ready" -> {"plan_ready", "clarification_required", "error"}
      [] event = "plan_ready" -> {"query_ready", "error"}
      [] event = "query_ready" -> {"execution_started"}
      [] event = "execution_started" -> {"result_ready", "error"}
      [] event \in Verdicts -> {"done"}
      [] OTHER -> {}

\* A structure is answered straight from its retrieval, a question never is.
OnPath(event) ==
    LET asked == Len(stream) > 1 /\ stream[2] = "intent_ready"
    IN /\ event = "grounding_ready" => asked
       /\ event = "result_ready" /\ asked => stream[Len(stream)] = "execution_started"

Init == stream = <<"accepted">>

Next ==
    \E event \in Follows(stream[Len(stream)]) :
        OnPath(event) /\ stream' = Append(stream, event)

Spec == Init /\ [][Next]_stream

=============================================================================
