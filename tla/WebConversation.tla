---------------------------- MODULE WebConversation ----------------------------
(***************************************************************************)
(* The conversations of the page (ConversationWorkspace.jsx,               *)
(* conversationState.js, api/conversations.js), mounted while the user     *)
(* asks: the conversation that is selected, what is shown of it, the run   *)
(* that is followed, and what the user asks, answers, retries and cancels. *)
(*                                                                         *)
(* Each request reaches the server at some moment and its reply the page   *)
(* at a later one, in any order, or either is lost.  A run is its stage    *)
(* and its revision; each change of a stage is an event of its stream      *)
(* (RunStream is about the connection itself).  A question is the number   *)
(* of its draft.  The list of the sidebar is left out, and runs before the *)
(* latest one, which can only be looked at.                                *)
(***************************************************************************)
EXTENDS Integers, FiniteSetsExt

CONSTANTS
    Workspaces,
    Default,            \* DEFAULT_WORKSPACE
    None,
    MaxConversations,   \* bound: conversations there ever are
    MaxRuns,            \* bound: runs there ever are
    MaxActs,            \* bound: what the user does, twice what is done while something is on its way
    MaxLost             \* bound: requests and replies that are lost

Nothing == 0
Conversations == 1..MaxConversations
Runs == 1..MaxRuns

VARIABLES
    rooms,      \* the workspace of each conversation the server has
    runs,       \* the runs the server has, in the order of their questions
    tab,        \* what the mounted ConversationWorkspace holds
    calls,      \* its requests on their way
    acts,       \* what the user has done
    heard       \* history: see below

conversationVars == <<rooms, runs, tab, calls, acts, heard>>

Gone == "gone"     \* the room of a conversation that was deleted

NoRow == [stage |-> "none", revision |-> 0]
NoRun == [of |-> Nothing, request |-> 0, draft |-> 0, row |-> NoRow]
NoRequest == [draft |-> 0, of |-> Nothing, id |-> 0]

Waiting == {"waiting", "resume_queued"}
Queued == {"resume_queued", "retry_queued"}
AtRest == {"waiting", "failed", "settled"}
RunBusy == {"active"} \cup Waiting

Larger(a, b) == IF a > b THEN a ELSE b

RunsOf(c) == {r \in Runs : runs[r].of = c}

\* latestRunId()
LatestOf(turns) == IF turns = {} THEN Nothing ELSE Max(turns)
Latest == LatestOf(tab.turns)
Active == IF Latest = Nothing THEN NoRow ELSE tab.known[Latest]

\* What is kept when the conversation is opened, with nothing loaded yet.
Opened(t) == [t EXCEPT !.shown = Nothing, !.turns = {}, !.known = [r \in Runs |-> NoRow]]

\* The conversation that is selected is also in the page's address.
Tab(workspace, address) ==
    [workspace |-> workspace, address |-> address, selected |-> Nothing, shown |-> Nothing, turns |-> {},
     known |-> [r \in Runs |-> NoRow], observed |-> Nothing, open |-> FALSE,
     cursor |-> [r \in Runs |-> 0], draft |-> 0, pending |-> NoRequest, busy |-> FALSE]

\* frees: whether the user may go on when the request and those it leads to are through, and
\* the run that is then followed.
Call(kind, c, r) ==
    [kind |-> kind, of |-> c, run |-> r, frees |-> FALSE, follow |-> Nothing, old |-> FALSE,
     draft |-> 0, request |-> 0, seen |-> 0, room |-> tab.workspace, mine |-> TRUE,
     answered |-> FALSE, items |-> {}, row |-> NoRow]

Posts == {"create", "clarify", "cancel", "retry", "open", "delete"}

\* History: drafts and request ids so far; how much was lost; whether, since the conversation
\* was opened, a reply was lost, came out of order or for another conversation; whether the page
\* may ever have been behind: something was lost, an answer was left on its way, or a
\* conversation was opened while one was still being read; and, for each answer that was taken
\* for another question than it was typed for, whether it may have been.
NothingHeard ==
    [drafts |-> 0, ids |-> 0, lost |-> 0, astray |-> FALSE, behind |-> FALSE, misplaced |-> {}]

\* A conversation without a question is open.
ConversationInit ==
    /\ rooms = [c \in Conversations |-> IF c = 1 THEN Default ELSE None]
    /\ runs = [r \in Runs |-> NoRun]
    /\ tab = [Tab(Default, 1) EXCEPT !.selected = 1, !.shown = 1]
    /\ calls = {}
    /\ acts = 0
    /\ heard = NothingHeard

-----------------------------------------------------------------------------
(* The server *)

Exists(c) == c \in Conversations /\ rooms[c] \notin {None, Gone}

Same(call, r) == runs[r].of = call.of /\ runs[r].request = call.request

\* The reply goes to a page that is still there.
Reply(call, reply) ==
    calls' = (calls \ {call}) \cup IF call.mine THEN {[reply EXCEPT !.answered = TRUE]} ELSE {}

\* clarify(), cancel() and retry() of a run that is where they expect it.
After(action, stage) ==
    CASE action = "clarify" /\ stage = "waiting" -> "resume_queued"
      [] action = "retry" /\ stage = "failed" -> "retry_queued"
      [] action = "cancel" /\ stage \in Waiting -> "settled"
      [] action = "cancel" /\ stage \notin Waiting -> stage
      [] OTHER -> "refused"

\* What the server takes; anything else it refuses.  A conversation with a run that is not
\* through cannot be deleted.
Taken(call) ==
    /\ ~call.answered
    /\ call.kind \in {"detail", "create", "clarify", "cancel", "retry", "delete"} => Exists(call.of)
    /\ call.kind \in {"run", "row"} => Exists(runs[call.run].of)
    /\ call.kind \in {"clarify", "cancel", "retry"}
         => After(call.kind, runs[call.run].row.stage) # "refused"
    /\ call.kind = "delete" => \A r \in RunsOf(call.of) : runs[r].row.stage \in {"failed", "settled"}
    /\ call.kind = "create" => \E r \in Runs : runs[r] = NoRun \/ Same(call, r)
    /\ call.kind = "open" => \E c \in Conversations : rooms[c] = None

ServeRead(call) ==
    /\ Taken(call)
    /\ \/ call.kind = "list" /\ Reply(call, [call EXCEPT !.items = {c \in Conversations : rooms[c] = call.room}])
       \/ call.kind = "detail" /\ Reply(call, [call EXCEPT !.items = RunsOf(call.of)])
       \/ call.kind \in {"run", "row"} /\ Reply(call, [call EXCEPT !.row = runs[call.run].row])
    /\ UNCHANGED <<rooms, runs, tab, heard>>

\* A request id of the conversation that has a run already gets that run.
ServeCreate(call) ==
    /\ call.kind = "create" /\ Taken(call)
    /\ \E r \in Runs :
          /\ \/ Same(call, r) /\ UNCHANGED runs
             \/ /\ runs[r] = NoRun /\ \A q \in Runs : ~Same(call, q) /\ (q < r => runs[q] # NoRun)
                /\ runs' = [runs EXCEPT ![r] =
                              [of |-> call.of, request |-> call.request, draft |-> call.draft,
                               row |-> [stage |-> "active", revision |-> 1]]]
          /\ Reply(call, [call EXCEPT !.run = r])
    /\ heard' = [heard EXCEPT !.astray = @ \/ ~call.mine]
    /\ UNCHANGED <<rooms, tab>>

Moved(r, stage) ==
    [runs EXCEPT ![r].row = [stage |-> stage, revision |-> IF stage = @.stage THEN @.revision
                                                            ELSE @.revision + 1]]

ServeAct(call) ==
    /\ call.kind \in {"clarify", "cancel", "retry"} /\ Taken(call)
    /\ runs' = Moved(call.run, After(call.kind, runs[call.run].row.stage))
    /\ heard' = [heard EXCEPT !.astray = @ \/ ~call.mine,
                   !.misplaced = @ \cup IF call.kind = "clarify"
                                              /\ call.seen # runs[call.run].row.revision
                                         THEN {heard.behind} ELSE {}]
    /\ Reply(call, call)
    /\ UNCHANGED <<rooms, tab>>

ServeRooms(call) ==
    /\ call.kind \in {"open", "delete"} /\ Taken(call)
    /\ IF call.kind = "delete"
       THEN rooms' = [rooms EXCEPT ![call.of] = Gone] /\ Reply(call, call)
       ELSE LET c == Min({d \in Conversations : rooms[d] = None})
            IN rooms' = [rooms EXCEPT ![c] = call.room] /\ Reply(call, [call EXCEPT !.of = c])
    /\ UNCHANGED <<runs, tab, heard>>

\* The runtime: a run goes on, and comes to rest.
Advance(r) ==
    /\ Exists(runs[r].of)
    /\ \/ runs[r].row.stage = "active" /\ \E stage \in AtRest : runs' = Moved(r, stage)
       \/ runs[r].row.stage \in Queued /\ runs' = Moved(r, "active")
    /\ UNCHANGED <<rooms, tab, calls, heard>>

-----------------------------------------------------------------------------
(* What the page does with replies *)

\* The run reducer: an earlier revision does not replace a later one.
Merged(t, r, row) == IF row.revision < t.known[r].revision THEN t ELSE [t EXCEPT !.known[r] = row]

\* setObservedRun() alone opens a subscription for another run only.
Observing(t, r) == IF t.observed = r THEN t ELSE [t EXCEPT !.observed = r, !.open = r # Nothing]

\* A conversation is read after rest; what was asked of it earlier is old.
Detail(c) == Call("detail", c, Nothing)

Asking(rest, detail) ==
    {IF d.kind = "detail" /\ d.of = detail.of THEN [d EXCEPT !.old = TRUE] ELSE d : d \in rest}
        \cup {detail}

\* Old, and the newest has come before it.
Late(call) ==
    call.kind = "detail" /\ call.old
        /\ ~\E d \in calls : d.kind = "detail" /\ d.of = call.of /\ ~d.old

\* A conversation is opened while these are on their way.
OpenedWith(others) ==
    [heard EXCEPT !.astray = others # {},
                  !.behind = @ \/ \E d \in others : d.kind \in {"detail", "run"}]

\* The effect of another selection.
Selecting(t, c) ==
    Opened([t EXCEPT !.selected = c, !.address = c, !.cursor = [r \in Runs |-> 0]])

\* The end of a request and of those it has led to: the run it was about is followed, whatever
\* conversation is selected by now.
Freed(t, call) ==
    IF ~call.frees THEN t
    ELSE IF call.follow = Nothing THEN [t EXCEPT !.busy = FALSE]
    ELSE [t EXCEPT !.busy = FALSE, !.observed = call.follow, !.open = t.selected # Nothing]

Done(t, call) ==
    /\ tab' = Freed(t, call)
    /\ calls' = calls \ {call}
    /\ heard' = [heard EXCEPT
                    !.astray = @ \/ (call.frees /\ tab.selected # call.of) \/ Late(call)
                                 \/ (call.kind = "run" /\ call.run # Latest)]

Goes(call, next) ==
    LET after == [next EXCEPT !.frees = call.frees, !.follow = call.follow]
    IN IF next.kind = "detail" THEN Asking(calls \ {call}, after) ELSE (calls \ {call}) \cup {after}

ListArrives(call) ==
    /\ call.kind = "list"
    /\ \E c \in IF tab.address \in call.items THEN {tab.address}
                ELSE IF call.items = {} THEN {tab.selected} ELSE call.items :
          IF c = tab.selected THEN tab' = tab /\ calls' = calls \ {call} /\ UNCHANGED heard
          ELSE /\ tab' = [Selecting(tab, c) EXCEPT !.open = tab.observed # Nothing]
               /\ calls' = Asking(calls \ {call}, Detail(c))
               /\ heard' = OpenedWith(calls \ {call})

\* refreshDetail(): for a conversation that is not selected any more it does nothing.
DetailArrives(call) ==
    /\ call.kind = "detail"
    /\ IF tab.selected # call.of THEN Done(tab, call)
       ELSE LET t == [tab EXCEPT !.shown = call.of, !.turns = call.items]
                r == LatestOf(call.items)
            IN IF r = Nothing THEN Done(Observing(t, Nothing), call)
               ELSE /\ tab' = t
                    /\ calls' = Goes(call, Call("run", call.of, r))
                    /\ heard' = [heard EXCEPT !.astray = @ \/ Late(call)]

RunArrives(call) ==
    /\ call.kind = "run"
    /\ Done(IF tab.selected = call.of THEN Observing(Merged(tab, call.run, call.row), call.run)
            ELSE tab, call)

\* act() reads the run and then the conversation.
RowArrives(call) ==
    /\ call.kind = "row"
    /\ tab' = Merged(tab, call.run, call.row)
    /\ calls' = Goes(call, Detail(call.of))
    /\ UNCHANGED heard

CreateArrives(call) ==
    /\ call.kind = "create"
    /\ tab' = [tab EXCEPT !.pending = NoRequest, !.draft = 0]
    /\ calls' = Asking(calls \ {call}, [Detail(call.of) EXCEPT !.frees = TRUE, !.follow = call.run])
    /\ UNCHANGED heard

ActArrives(call) ==
    /\ call.kind \in {"clarify", "cancel", "retry"}
    /\ tab' = IF call.kind = "clarify" THEN [tab EXCEPT !.draft = 0] ELSE tab
    /\ calls' = Goes(call, Call("row", call.of, call.run))
    /\ UNCHANGED heard

Chosen(t, c) == [Selecting(t, c) EXCEPT !.observed = Nothing, !.open = FALSE, !.draft = 0]

OpenArrives(call) ==
    /\ call.kind = "open"
    /\ tab' = Chosen(tab, call.of)
    /\ calls' = Asking(calls \ {call}, Detail(call.of))
    /\ heard' = OpenedWith(calls \ {call})

\* The list is read again after a deletion: its first conversation takes the place of a deleted
\* one that was selected.
DeleteArrives(call) ==
    /\ call.kind = "delete"
    /\ LET left == {c \in Conversations : rooms[c] = tab.workspace}
       IN IF tab.selected # call.of THEN tab' = tab /\ calls' = calls \ {call} /\ UNCHANGED heard
          ELSE IF left = {}
          THEN /\ tab' = Chosen(tab, Nothing)
               /\ calls' = calls \ {call} /\ UNCHANGED heard
          ELSE \E c \in left :
                  /\ tab' = Chosen(tab, c)
                  /\ calls' = Asking(calls \ {call}, Detail(c))
                  /\ heard' = OpenedWith(calls \ {call})

Arrive(call) ==
    /\ call.answered
    /\ \/ ListArrives(call) \/ DetailArrives(call) \/ RunArrives(call) \/ RowArrives(call)
       \/ CreateArrives(call) \/ ActArrives(call) \/ OpenArrives(call) \/ DeleteArrives(call)
    /\ UNCHANGED <<rooms, runs>>

\* A request is refused, or it or its reply is lost; a lost request may still reach the server.
FailCall(call) ==
    /\ heard.lost < MaxLost \/ ~call.mine \/ ~(call.answered \/ Taken(call))
    /\ IF call.mine
       THEN /\ tab' = IF call.frees THEN [tab EXCEPT !.busy = FALSE] ELSE tab
            /\ heard' = [heard EXCEPT !.astray = TRUE, !.behind = TRUE,
                           !.lost = IF @ < MaxLost THEN @ + 1 ELSE @]
            /\ \/ calls' = calls \ {call}
               \/ /\ call.kind \in Posts /\ ~call.answered
                  /\ calls' = (calls \ {call}) \cup {[call EXCEPT !.mine = FALSE]}
       ELSE calls' = calls \ {call} /\ UNCHANGED <<tab, heard>>
    /\ UNCHANGED <<rooms, runs>>

\* The stream of the run that is followed brings what it has not had, and the run is read,
\* which may come late; when the stream ends, the conversation is.
Hear ==
    LET r == tab.observed
        row == runs[r].row
        heardOf(t) == [t EXCEPT !.cursor[r] = row.revision, !.open = row.stage \notin AtRest]
    IN /\ tab.open /\ Exists(runs[r].of)
       /\ tab.cursor[r] < row.revision /\ row.stage \notin Queued
       /\ \/ tab' = heardOf(Merged(tab, r, row))
          \/ row.stage \in AtRest /\ tab' = heardOf(tab)
       /\ calls' = IF row.stage \in AtRest THEN Asking(calls, Detail(tab.selected)) ELSE calls
       /\ UNCHANGED <<rooms, runs, heard>>

\* The proxy answers for a backend that is down: the stream is not opened again (RunStream).
StreamBreaks ==
    /\ tab.open /\ heard.lost < MaxLost
    /\ tab' = [tab EXCEPT !.open = FALSE]
    /\ heard' = [heard EXCEPT !.astray = TRUE, !.lost = @ + 1]
    /\ UNCHANGED <<rooms, runs, calls, acts>>

-----------------------------------------------------------------------------
(* What the user does *)

MayAct ==
    /\ acts' = acts + IF \E call \in calls : call.mine THEN 2 ELSE 1
    /\ acts' <= MaxActs

Acts == MayAct /\ tab.workspace # None

\* Whichever run was followed is not any more; only another conversation is opened anew.
Select(c) ==
    /\ Acts /\ rooms[c] = tab.workspace
    /\ IF c = tab.selected
       THEN /\ tab' = [tab EXCEPT !.observed = Nothing, !.open = FALSE, !.draft = 0]
            /\ heard' = [heard EXCEPT !.astray = TRUE] /\ UNCHANGED calls
       ELSE /\ tab' = Chosen(tab, c)
            /\ calls' = Asking(calls, Detail(c))
            /\ heard' = OpenedWith(calls)

NewConversation ==
    /\ Acts /\ \A call \in calls : call.kind # "open" \/ ~call.mine
    /\ calls' = calls \cup {Call("open", Nothing, Nothing)}
    /\ UNCHANGED <<tab, heard>>

Remove(c) ==
    /\ Acts /\ rooms[c] = tab.workspace
    /\ \A call \in calls : call.kind # "delete" \/ ~call.mine
    /\ calls' = calls \cup {Call("delete", c, Nothing)}
    /\ UNCHANGED <<tab, heard>>

Refresh ==
    /\ Acts /\ tab.selected # Nothing
    /\ calls' = Asking(calls, Detail(tab.selected))
    /\ UNCHANGED <<tab, heard>>

\* What the user sends: what is in the draft still, or something new.
Drafts == {heard.drafts + 1} \cup IF tab.draft = 0 THEN {} ELSE {tab.draft}

\* A slip of RequestId: each attempt has an id of its own.
RequestIdOfAttempt(draft) == heard.ids + 1

\* The attempts of one question in one conversation have one id.
RequestId(draft) ==
    IF tab.pending.draft = draft /\ tab.pending.of = tab.selected THEN tab.pending.id
    ELSE heard.ids + 1

\* To a run that waits it is an answer, else it is a question, unless the latest run is busy.
Send ==
    /\ Acts /\ tab.selected # Nothing /\ ~tab.busy
    /\ Active.stage \notin RunBusy \ {"waiting"}
    /\ \E draft \in Drafts :
          LET id == RequestId(draft)
              call == IF Active.stage = "waiting"
                      THEN [Call("clarify", tab.selected, Latest) EXCEPT
                              !.draft = draft, !.seen = Active.revision, !.follow = Latest]
                      ELSE [Call("create", tab.selected, Nothing) EXCEPT
                              !.draft = draft, !.request = id]
              asks == call.kind = "create"
          IN /\ calls' = calls \cup {[call EXCEPT !.frees = TRUE]}
             /\ tab' = [tab EXCEPT !.draft = draft, !.busy = TRUE,
                          !.pending = IF asks THEN [draft |-> draft, of |-> tab.selected, id |-> id]
                                      ELSE IF draft = @.draft THEN @ ELSE NoRequest]
             /\ heard' = [heard EXCEPT !.drafts = Larger(@, draft),
                            !.ids = IF asks THEN Larger(@, id) ELSE @]

Act(kind) ==
    /\ Acts /\ ~tab.busy
    /\ \/ kind = "cancel" /\ Active.stage \in RunBusy
       \/ kind = "retry" /\ Active.stage \in {"failed", "retry_queued"}
    /\ calls' = calls \cup {[Call(kind, tab.selected, Latest) EXCEPT !.frees = TRUE,
                               !.follow = IF kind = "cancel" THEN Nothing ELSE Latest]}
    /\ tab' = [tab EXCEPT !.busy = TRUE]
    /\ UNCHANGED heard

\* Requests whose page has gone: those that change something may still reach the server.
Orphans == {[call EXCEPT !.mine = FALSE] : call \in {c \in calls : c.kind \in Posts /\ ~c.answered}}

\* An answer that has not reached the server goes on without its page.
Left == heard.behind \/ \E call \in Orphans : call.kind = "clarify"

\* The user goes to another view, or asks again, maybe in another workspace: App mounts the
\* conversation anew for each workspace.
Leave ==
    /\ Acts
    /\ tab' = Tab(None, tab.address)
    /\ calls' = Orphans
    /\ heard' = [heard EXCEPT !.behind = Left]

Mount(w) ==
    /\ MayAct /\ w # tab.workspace
    /\ tab' = Tab(w, tab.address)
    /\ calls' = Orphans \cup {[Call("list", Nothing, Nothing) EXCEPT !.room = w]}
    /\ heard' = [heard EXCEPT !.astray = FALSE, !.behind = Left]

UserActs ==
    /\ \/ \E c \in Conversations : Select(c) \/ Remove(c)
       \/ NewConversation \/ Refresh \/ Send \/ Act("cancel") \/ Act("retry") \/ Leave
       \/ \E w \in Workspaces : Mount(w)
    /\ UNCHANGED <<rooms, runs>>

\* A user who asks once and answers what is asked back, and looks elsewhere in between.
UserAnswers ==
    /\ \/ Send /\ (heard.drafts = 0 \/ Active.stage = "waiting")
       \/ Leave \/ Mount(Default)
    /\ UNCHANGED <<rooms, runs>>

-----------------------------------------------------------------------------

CallStep ==
    /\ \/ \E call \in calls :
             ServeRead(call) \/ ServeCreate(call) \/ ServeAct(call) \/ ServeRooms(call)
                \/ Arrive(call) \/ FailCall(call)
       \/ Hear
    /\ UNCHANGED acts

RunStep == (\E r \in Runs : Advance(r)) /\ UNCHANGED acts

ConversationNext == UserActs \/ CallStep \/ RunStep \/ StreamBreaks
AnswersNext == UserAnswers \/ CallStep \/ RunStep

\* Requests are answered or break, and streams go on.
ConversationSpec ==
    ConversationInit /\ [][ConversationNext]_conversationVars /\ WF_conversationVars(CallStep)

-----------------------------------------------------------------------------
(* Properties *)

ConversationTypeOK ==
    /\ rooms \in [Conversations -> {None, Gone} \cup Workspaces]
    /\ \A r \in Runs : runs[r].of \in {Nothing} \cup Conversations
    /\ tab.workspace \in {None} \cup Workspaces
    /\ tab.selected \in {Nothing} \cup Conversations /\ tab.turns \subseteq Runs
    /\ tab.busy <=> \E call \in calls : call.mine /\ call.frees

\* A question is asked once, however often the user sends it because its reply was lost.
QuestionsAreAskedOnce ==
    \A q, r \in Runs : runs[q].draft = runs[r].draft /\ runs[q].draft # 0 => q = r

\* An answer is given to the question it was typed for, unless the page may have been behind.
AnswersMeetTheirQuestion == FALSE \notin heard.misplaced

\* What is shown is of the conversation that is selected.
ShownIsSelected ==
    /\ tab.shown \in {Nothing, tab.selected}
    /\ \A r \in tab.turns : runs[r].of = tab.selected

\* When nothing is on its way and nothing went astray, all of it is shown, and the latest run
\* is shown as it is, or is about to be: while it goes on, it is followed.
ConversationIsCurrent ==
    calls = {} /\ ~heard.astray /\ Exists(tab.selected) =>
        LET row == runs[Latest].row
            following == tab.observed = Latest /\ tab.open
        IN /\ tab.shown = tab.selected /\ tab.turns = RunsOf(tab.selected)
           /\ Latest # Nothing =>
                 /\ Active = row \/ (following /\ tab.cursor[Latest] < row.revision)
                 /\ row.stage \notin AtRest => following

\* The user can go on, whatever happens to what was sent.
InputsComeBack == tab.busy ~> ~tab.busy

\* What the user asks and answers reaches the server once and for what it was meant, and the
\* page shows it and what has become of it (ConversationWorkspace.jsx).
ConversationsAreShown ==
    /\ [](ConversationTypeOK /\ QuestionsAreAskedOnce /\ AnswersMeetTheirQuestion
          /\ ShownIsSelected /\ ConversationIsCurrent)
    /\ InputsComeBack

\* "Replay the latest run" (line 55): the run that goes on is followed when nothing is on its
\* way.  Not when the user has selected the conversation that was selected already, or a
\* reply was about another conversation or an older run.
LatestIsFollowed ==
    calls = {} /\ Exists(tab.selected) /\ tab.shown = tab.selected /\ Latest # Nothing
        => \/ runs[Latest].row.stage \in AtRest
           \/ tab.observed = Latest /\ tab.open

\* "What is confirmed is sent to the current question" (line 216): an answer names the run
\* alone.  When its reply was lost and it is sent again, the next question takes it.
AnswersReachTheCurrentQuestion == heard.misplaced = {}

=============================================================================
