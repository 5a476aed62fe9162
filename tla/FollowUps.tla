------------------------------- MODULE FollowUps -------------------------------
(***************************************************************************)
(* What a conversation carries over to its next question: the memory of    *)
(* the last answer (conversation/memory.py), the question with what the    *)
(* user has answered about it (runtime/orchestrator.py), the part of the   *)
(* history that a model is shown, and the guards around the question it    *)
(* returns (conversation/context.py).  Texts are their length and the      *)
(* facts that the rules find in them: dates, numbers, filters, a source,   *)
(* and which "loose" ones, which are hints and no facts to the guard: a    *)
(* relative time, a ranking, a comparison.                                 *)
(***************************************************************************)
EXTENDS Integers, SequencesExt, FiniteSetsExt

CONSTANTS
    None,
    MaxMessages, MaxChars,  \* 8 and 4000 in the code
    MaxQuestion             \* 2000

\* confirmed_memory(): of one answer, but for what diagnoses have found.
ConfirmedMemory(answer, run, previous) ==
    [confirmed |-> TRUE, run |-> run, query |-> answer.query,
     sources |-> IF answer.evidence = None THEN {} ELSE {answer.evidence},
     refs |-> IF answer.evidence = None THEN {} ELSE {run},
     findings |-> previous.findings, size |-> answer.size, reduced |-> answer.reduced]

-----------------------------------------------------------------------------
(* working_set() *)

\* A memory that takes more than half of the room is shown reduced.
SemanticSize(memory) ==
    IF memory.size > MaxChars \div 2 THEN memory.reduced ELSE memory.size

Room(memory) == Max({0, MaxChars - SemanticSize(memory)})

\* The newest messages, the last of which is cut where the room ends.
WorkingSet(messages, memory) ==
    LET Take(message, shown) ==
            IF shown.left <= 0 THEN shown
            ELSE LET size == Min({message.size, shown.left})
                 IN [left |-> shown.left - size,
                     messages |-> <<[message EXCEPT !.size = size]>> \o shown.messages]
        recent == SubSeq(messages, Max({1, Len(messages) - MaxMessages + 1}), Len(messages))
    IN FoldRight(Take, recent, [left |-> Room(memory), messages |-> <<>>]).messages

-----------------------------------------------------------------------------
(* _drive(): the message of the run and the last of the user's answers to it.  The rules
   find every date, number and filter of the two and the first source; a relative time only
   in a text without dates (RuleExtractor.extract()). *)

Kinds == {"dates", "numbers", "filters"}

AskedQuestion(original, clarifications) ==
    IF clarifications = <<>> THEN original
    ELSE LET last == Last(clarifications)
             both == [kind \in Kinds |-> original.facts[kind] \cup last[kind]]
             overruled == IF both.dates = {} THEN {} ELSE {"time"}
         IN [original EXCEPT
                !.facts = [source |-> IF original.facts.source # None THEN original.facts.source
                                      ELSE last.source,
                           loose |-> (original.facts.loose \cup last.loose) \ overruled] @@ both]

-----------------------------------------------------------------------------
(* resolve() *)

Refused(code) == [ok |-> FALSE, code |-> code]
Resolved(facts) == [ok |-> TRUE, facts |-> facts]

\* A slip of FactsKept: what the model adds to the sources is not looked at.
FactsKeptButSource(original, result) ==
    \A kind \in Kinds : original[kind] \subseteq result[kind]

\* _facts() of the two: what is loose is not compared.
FactsKept(original, result) ==
    /\ \A kind \in Kinds : original[kind] \subseteq result[kind]
    /\ result.source = original.source

\* Only what is left open, after an answer, is given to the model, if there is one; what
\* comes back is a question in the language of the business, with what the user has said of it.
Resolve(question, memory, reply) ==
    IF ~memory.confirmed \/ ~question.elliptical THEN Resolved(question.facts)
    ELSE IF ~reply.given THEN Refused("conversation_context_model_unavailable")
    ELSE IF reply.size = 0 \/ reply.size > MaxQuestion \/ reply.physical \/ reply.secret
         THEN Refused("invalid_context_resolution")
    ELSE IF ~FactsKept(question.facts, reply.facts) THEN Refused("context_rule_preservation_failed")
    ELSE Resolved(reply.facts)

=============================================================================
