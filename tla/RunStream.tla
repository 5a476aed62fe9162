------------------------------ MODULE RunStream ------------------------------
(***************************************************************************)
(* One page that watches one run of the runtime: the event stream of the    *)
(* API (interfaces/api/conversations.py), the subscription that reconnects  *)
(* (web/frontend/src/api/runStream.js) and the timeline it fills            *)
(* (conversationState.js, ConversationWorkspace.jsx), beside everything     *)
(* RunRuntime does.                                                         *)
(*                                                                          *)
(* An event on the wire is its sequence; its type is in the log.  That the  *)
(* page's view of the run's row is fetched on some events is left out.      *)
(***************************************************************************)
EXTENDS RunProperties

CONSTANTS
    Watched,        \* the run the page watches
    MaxBreaks       \* bound: connections that break, pages opened anew and crashes

ASSUME WatchedAssumption == Watched \in Runs
ASSUME StreamBoundsAssumption == MaxBreaks \in Nat

VARIABLES
    stream,     \* the generator that serves the page's connection
    wire,       \* the events on their way to the page
    page,       \* the subscription and what it has shown
    breaks      \* connections that broke and pages opened anew

observer == <<stream, wire, page, breaks>>
allVars == <<vars, observer>>

Events == log[Watched]
Exists == Present(run[Watched])

SettledEvents == {"RUN_COMPLETED", "RUN_FAILED", "RUN_BLOCKED", "RUN_CANCELLED",
                  "CLARIFICATION_REQUIRED"}

TerminalEvent == [COMPLETED |-> "RUN_COMPLETED", FAILED |-> "RUN_FAILED",
                  CANCELLED |-> "RUN_CANCELLED", BLOCKED |-> "RUN_BLOCKED",
                  WAITING_USER |-> "CLARIFICATION_REQUIRED"]

NoStream == [pc |-> "off", cursor |-> 0, expects |-> "none", waited |-> FALSE]

NewPage == [pc |-> "off", cursor |-> 0, settled |-> FALSE, acting |-> FALSE, shown |-> <<>>]

\* The state fits the program's types; a page reads from its one connection.
StreamTypeOK ==
    /\ stream \in [pc : {"off", "events", "status", "last", "done", "broken"}, cursor : Nat,
                   expects : SettledEvents \cup {"none"}, waited : BOOLEAN]
    /\ wire \in Seq(Nat)
    /\ page \in [pc : {"off", "connect", "read", "ended", "failed", "refused"}, cursor : Nat,
                 settled : BOOLEAN, acting : BOOLEAN, shown : Seq(Nat)]
    /\ page.pc = "read" <=> stream.pc # "off"
    /\ page.pc # "read" => wire = <<>>

StreamInit ==
    /\ Init
    /\ stream = NoStream /\ wire = <<>> /\ page = NewPage
    /\ breaks = 0

-----------------------------------------------------------------------------
(* The server's side: events, then the status, then the last event *)

\* A slip of OpenStream: the cursor of the page is not sent.
OpenStreamFromStart ==
    /\ page.pc = "connect" /\ Up /\ Exists
    /\ stream' = [NoStream EXCEPT !.pc = "events"]
    /\ page' = [page EXCEPT !.pc = "read"]
    /\ UNCHANGED <<vars, wire, breaks>>

\* Any answer but a good one ends the subscription: without a run it is a 404.
OpenStream ==
    /\ page.pc = "connect" /\ Up
    /\ IF Exists
       THEN /\ stream' = [NoStream EXCEPT !.pc = "events", !.cursor = page.cursor]
            /\ page' = [page EXCEPT !.pc = "read"]
       ELSE page' = [page EXCEPT !.pc = "failed"] /\ UNCHANGED stream
    /\ UNCHANGED <<vars, wire, breaks>>

SendEvents ==
    /\ stream.pc = "events"
    /\ wire' = wire \o [i \in 1..(Len(Events) - stream.cursor) |-> stream.cursor + i]
    /\ stream' = [stream EXCEPT !.pc = "status",
                    !.cursor = IF Len(Events) > @ THEN Len(Events) ELSE @]
    /\ UNCHANGED <<vars, page, breaks>>

\* A reply or a retry keeps the settled status until a worker has it.
ReadStatus ==
    /\ stream.pc = "status"
    /\ stream' =
        IF ~Exists THEN [stream EXCEPT !.pc = "broken"]
        ELSE IF run[Watched].status \in Terminal /\ ~run[Watched].queued
        THEN [stream EXCEPT !.pc = "last", !.expects = TerminalEvent[run[Watched].status]]
        ELSE [stream EXCEPT !.pc = "events"]
    /\ UNCHANGED <<vars, wire, page, breaks>>

\* Done when the last event is the status's and was sent; otherwise it may still come, for
\* five seconds from the first time it was missed.
ReadLast ==
    /\ stream.pc = "last"
    /\ IF Events # <<>> /\ LastEvent(Watched) = stream.expects /\ Len(Events) <= stream.cursor
       THEN stream' = [stream EXCEPT !.pc = "done"]
       ELSE \/ stream' = [stream EXCEPT !.pc = "events", !.waited = TRUE]
            \/ stream.waited /\ stream' = [stream EXCEPT !.pc = "done"]
    /\ UNCHANGED <<vars, wire, page, breaks>>

-----------------------------------------------------------------------------
(* The page's side *)

Connecting == [page EXCEPT !.pc = "connect", !.settled = FALSE]

\* The latest run of the conversation that was opened, or a run the page has acted on:
\* then an earlier subscription is aborted.
Observe ==
    /\ \/ page.pc = "off" /\ Exists
       \/ page.acting /\ \A call \in calls : call.run # Watched
    /\ page' = [Connecting EXCEPT !.acting = FALSE]
    /\ stream' = NoStream /\ wire' = <<>>
    /\ UNCHANGED <<vars, breaks>>

\* An event with a sequence that is not new breaks the contract and ends the subscription;
\* the timeline takes the ones it does not have.
Receive ==
    /\ page.pc = "read" /\ wire # <<>>
    /\ LET n == Head(wire)
       IN IF n <= page.cursor
          THEN page' = [page EXCEPT !.pc = "failed"] /\ stream' = NoStream /\ wire' = <<>>
          ELSE /\ page' = [page EXCEPT !.cursor = n, !.shown = Append(@, n),
                            !.settled = Exists /\ Events[n] \in SettledEvents]
               /\ wire' = Tail(wire) /\ UNCHANGED stream
    /\ UNCHANGED <<vars, breaks>>

\* While the backend is down a page that came from it fails to fetch, pauses and fetches
\* again; one that comes through the Vite proxy is answered 500, which ends its subscription.
ProxyRefuses ==
    /\ page.pc = "connect" /\ ~Up
    /\ page' = [page EXCEPT !.pc = "refused"]
    /\ UNCHANGED <<vars, stream, wire, breaks>>

\* The connection ends: a subscription whose last event settles the run ends with it, any
\* other goes on from its cursor.
StreamEnds ==
    /\ page.pc = "read" /\ wire = <<>> /\ stream.pc \in {"done", "broken"}
    /\ stream' = NoStream
    /\ page' = IF page.settled /\ stream.pc = "done" THEN [page EXCEPT !.pc = "ended"]
               ELSE Connecting
    /\ UNCHANGED <<vars, wire, breaks>>

MayBreak == breaks + crashes < MaxBreaks

Broken == [page EXCEPT !.pc = IF @ = "read" THEN "connect" ELSE @, !.settled = FALSE]

\* What is on the way is lost.
Drop ==
    /\ MayBreak /\ page.pc = "read"
    /\ breaks' = breaks + 1
    /\ stream' = NoStream /\ wire' = <<>> /\ page' = Broken
    /\ UNCHANGED vars

\* Another conversation and back, or the page itself: the timeline and its cursor start anew.
Reload ==
    /\ MayBreak /\ page.pc # "off"
    /\ breaks' = breaks + 1
    /\ stream' = NoStream /\ wire' = <<>> /\ page' = NewPage
    /\ UNCHANGED vars

\* The page answers a question or retries, and observes when its call returns.
Act ==
    /\ page.pc # "off" /\ ~page.acting
    /\ Clarify(Watched) \/ Retry(Watched)
    /\ page' = [page EXCEPT !.acting = TRUE]
    /\ UNCHANGED <<stream, wire, breaks>>

-----------------------------------------------------------------------------
(* The composition *)

\* A crash ends the connection and the page's call.
CrashWatched ==
    /\ MayBreak /\ Crash
    /\ stream' = NoStream /\ wire' = <<>>
    /\ page' = [Broken EXCEPT !.acting = FALSE]
    /\ UNCHANGED breaks

RunStep ==
    /\ (\E t \in Workers : WorkerStep(t)) \/ BootStep \/ CallStep \/ ClientStep
    /\ UNCHANGED observer

Serve == SendEvents \/ ReadStatus \/ ReadLast
Watch == OpenStream \/ Observe \/ Receive \/ StreamEnds

StreamNext ==
    RunStep \/ CrashWatched \/ Serve \/ Watch \/ ProxyRefuses \/ Act \/ Drop \/ Reload

\* The runtime goes on as in FairSpec, and so do the server's loop and the page; a proxy may
\* be there or not.
StreamSpec ==
    /\ StreamInit /\ [][StreamNext]_allVars
    /\ \A t \in Workers : WF_allVars(WorkerStep(t) /\ UNCHANGED observer)
    /\ WF_allVars(BootStep /\ UNCHANGED observer)
    /\ WF_allVars(CallStep /\ UNCHANGED observer)
    /\ WF_allVars(Serve)
    /\ WF_allVars(Watch)

-----------------------------------------------------------------------------
(* Properties *)

\* The timeline is the log from its first event on, none missing and none twice.
TimelineIsWhole ==
    /\ page.shown = [i \in DOMAIN page.shown |-> i]
    /\ page.cursor = Len(page.shown)
    /\ Exists => page.cursor <= Len(Events)

\* A subscription only ends with an event that settles the run, with the run itself, or with
\* a proxy's answer for a backend that was down.
EndsAreEarned ==
    /\ Exists /\ page.pc = "ended" => \E i \in DOMAIN page.shown : Events[i] \in SettledEvents
    /\ page.pc = "failed" => ~Exists
    /\ page.pc = "refused" => crashes > 0

\* What is on the wire follows on what the page has, and what was sent on what is logged.
WireFollows ==
    /\ \A i \in 1..Len(wire) : wire[i] = page.cursor + i
    /\ page.pc = "read" =>
        /\ stream.cursor = page.cursor + Len(wire)
        /\ Exists => stream.cursor <= Len(Events)

\* A settled subscription has received an event that settles the run.
SettledByEvent ==
    page.settled /\ Exists => page.cursor > 0 /\ Events[page.cursor] \in SettledEvents

\* The inductive invariant of the page's view: a page that is open watches a run that was
\* inserted, and has what it was sent.
Following ==
    /\ StreamTypeOK /\ TimelineIsWhole /\ EndsAreEarned
    /\ IF page.pc = "off" THEN page = NewPage ELSE Watched \in BornRuns
    /\ WireFollows
    /\ SettledByEvent

Over == {"ended", "failed", "refused"}

\* Again and again the page has everything the runtime has announced, until its
\* subscription ends or the run is gone.
EventsReachThePage == []<>(Exists /\ page.pc \notin Over => page.cursor = Len(Events))

\* A page that watches sees the run's events, once and in order, to the end, whatever
\* connections break and whoever subscribes again ("reconnects from the last accepted
\* persisted sequence", runStream.js), unless a proxy tells it that the backend is down.
TimelinesFollowTheRun == [](TimelineIsWhole /\ EndsAreEarned /\ Following) /\ EventsReachThePage

\* A subscription to a run that rests, announced, ends.  It does not when it was opened
\* after the last event: nothing it receives would settle it.
SubscriptionsEnd ==
    <>[](Exists /\ run[Watched].status \in Terminal /\ ~run[Watched].queued
         /\ LastEvent(Watched) = TerminalEvent[run[Watched].status])
        => <>(page.pc = "ended")

=============================================================================
