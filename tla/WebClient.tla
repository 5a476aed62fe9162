------------------------------- MODULE WebClient -------------------------------
(***************************************************************************)
(* The web client: the page (WebPage) and the conversations it mounts      *)
(* while the user asks (WebConversation).  They share the workspace and    *)
(* whether a conversation is mounted; where the user has gone to is a step *)
(* of each.  So a behaviour is about one of the two.                       *)
(***************************************************************************)
EXTENDS WebPage

CONSTANTS
    MaxConversations, MaxRuns, MaxActs, MaxLost,
    MaxAnswers      \* bound: MaxActs of a user who only answers what he is asked back

VARIABLES
    part,       \* which of the two moves, and whether its user only answers
    rooms, runs, tab, calls, acts, heard

Conversation == INSTANCE WebConversation
Answers == INSTANCE WebConversation WITH MaxActs <- MaxAnswers, MaxLost <- 0

conversationVars == <<rooms, runs, tab, calls, acts, heard>>
webVars == <<part, pageVars, conversationVars>>

WebInit ==
    /\ part \in {"page", "conversation", "answers"}
    /\ PageInit /\ Conversation!ConversationInit
    /\ part # "page" => page.view = "ask" /\ page.shown = {} /\ Ready(None) = Sources

WebNext ==
    \/ part = "page" /\ PageNext /\ UNCHANGED <<part, conversationVars>>
    \/ part = "conversation" /\ Conversation!ConversationNext /\ UNCHANGED <<part, pageVars>>
    \/ part = "answers" /\ Answers!AnswersNext /\ UNCHANGED <<part, pageVars>>

\* The fairness of each; that of the answers is the conversation's, as where nothing is lost
\* a request is served, or arrives, or breaks just when it does otherwise.
WebSpec ==
    /\ WebInit /\ [][WebNext]_webVars
    /\ WF_pageVars(UploadStep /\ UNCHANGED <<part, conversationVars>>)
    /\ WF_conversationVars(Conversation!CallStep /\ UNCHANGED <<part, pageVars>>)

\* What the user asks and answers reaches the server once and for what it was meant, and the
\* page shows it and what has become of it (ConversationWorkspace.jsx).
ConversationsAreShown == Conversation!ConversationsAreShown

=============================================================================
