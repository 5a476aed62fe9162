-------------------------------- MODULE WebPage --------------------------------
(***************************************************************************)
(* The page of the web client around its conversations (web/frontend/src,  *)
(* App.jsx): the workspace and the view the user is in, the datasources    *)
(* that are listed for it, the one that is selected for the next question  *)
(* (excel/datasourceScope.js), and the import of a workbook                *)
(* (excel/importState.js, api/upload.js).                                  *)
(*                                                                         *)
(* Requests are answered from what the server has at some moment and the   *)
(* answers arrive in any order, or fail.  There is one page: only it and   *)
(* its imports change the catalog.  A source is the place of its name in   *)
(* listings; sources that are not ready can neither be selected nor be     *)
(* asked and are left out.                                                 *)
(***************************************************************************)
EXTENDS Integers, FiniteSets, FiniteSetsExt

CONSTANTS
    Workspaces,
    Default,        \* DEFAULT_WORKSPACE
    None,
    MaxSources,     \* bound: sources there ever are
    MaxMoves,       \* bound: what the user does
    MaxListings     \* bound: listings on their way at a time

ASSUME WorkspacesAssumption == Default \in Workspaces /\ None \notin Workspaces
ASSUME PageBoundsAssumption == {MaxSources, MaxMoves, MaxListings} \subseteq Nat

Sources == 1..MaxSources
Nothing == 0        \* no source: the empty scope

VARIABLES
    catalog,    \* the workspace of each ready source
    page,       \* what App holds
    listings,   \* requests for a listing on their way, each with its answer
    upload,     \* the import on its way
    moves,      \* what the user has done
    seen        \* history: see below

pageVars == <<catalog, page, listings, upload, moves, seen>>

Views == {"ask", "datasources", "excel", "governance"}

Ready(workspace) == {s \in Sources : catalog[s] = workspace}

Listing(n, workspace, keep) ==
    [n |-> n, workspace |-> workspace, keep |-> keep, answered |-> FALSE, ready |-> {}]

NoUpload == [stage |-> "none", workspace |-> None, source |-> Nothing]

\* History: how many listings were asked for, which of them arrived last and for which
\* workspace, whether the server has finished an import the page has given up since, and the
\* source that an import or the user has selected.
NothingSeen == [asked |-> 0, last |-> 0, workspace |-> Default, missed |-> FALSE, wanted |-> Nothing]

\* scopeAfterRefresh(): what is selected stays when it is ready, else the first that is.
ScopeAfterRefresh(ready, current) ==
    IF current \in ready THEN current ELSE IF ready = {} THEN Nothing ELSE Min(ready)

\* The first listing has arrived, in whichever view the user is by then.
PageInit ==
    /\ catalog \in {c \in [Sources -> {None} \cup Workspaces] :
                        Cardinality({s \in Sources : c[s] # None}) <= 1}
    /\ \E view \in Views :
          page = [view |-> view, workspace |-> Default, shown |-> Ready(Default),
                  scope |-> ScopeAfterRefresh(Ready(Default), Nothing),
                  phase |-> "idle", result |-> Nothing]
    /\ listings = {}
    /\ upload = NoUpload
    /\ moves = 0
    /\ seen = NothingSeen

Moves == moves < MaxMoves /\ moves' = moves + 1

\* A listing is asked for; what the server has by then will be in it.
List(workspace, keep) ==
    /\ Cardinality(listings) < MaxListings
    /\ listings' = listings \cup {Listing(seen.asked + 1, workspace, keep)}

-----------------------------------------------------------------------------
(* Listings *)

AnswerListing(r) ==
    /\ ~r.answered
    /\ listings' = (listings \ {r}) \cup {[r EXCEPT !.answered = TRUE, !.ready = Ready(r.workspace)]}
    /\ UNCHANGED <<catalog, page, upload, moves, seen>>

\* A slip of ListingArrives: the selection of the moment is kept.
ListingArrivesPlain(r) ==
    /\ r.answered
    /\ page' = [page EXCEPT !.shown = r.ready, !.scope = ScopeAfterRefresh(r.ready, page.scope)]
    /\ listings' = listings \ {r}
    /\ seen' = [seen EXCEPT !.last = r.n, !.workspace = r.workspace,
                    !.wanted = IF r.n > seen.last /\ r.keep \in {Nothing, @} /\ @ \in r.ready
                               THEN @ ELSE Nothing]
    /\ UNCHANGED <<catalog, upload, moves>>

\* The listing after an import selects its source, any other what is selected by then.
ListingArrives(r) ==
    /\ r.answered
    /\ page' = [page EXCEPT !.shown = r.ready,
                    !.scope = ScopeAfterRefresh(r.ready, IF r.keep = Nothing THEN page.scope ELSE r.keep)]
    /\ listings' = listings \ {r}
    /\ seen' = [seen EXCEPT !.last = r.n, !.workspace = r.workspace,
                    !.wanted = IF r.n > seen.last /\ r.keep \in {Nothing, @} /\ @ \in r.ready
                               THEN @ ELSE Nothing]
    /\ UNCHANGED <<catalog, upload, moves>>

ListingFails(r) ==
    /\ page' = [page EXCEPT !.shown = {}, !.scope = Nothing]
    /\ listings' = listings \ {r}
    /\ seen' = [seen EXCEPT !.last = r.n, !.workspace = None, !.wanted = Nothing]
    /\ UNCHANGED <<catalog, upload, moves>>

-----------------------------------------------------------------------------
(* What the user does *)

Busy == page.phase \in {"uploading", "importing"}

\* The card of an import that is running does not let the workspace be changed, the other
\* views do.  The effect of a change asks for a listing.
SelectWorkspace(w) ==
    /\ Moves /\ w # page.workspace /\ page.view # "governance" /\ (page.view = "excel" => ~Busy)
    /\ page' = [page EXCEPT !.workspace = w, !.scope = Nothing]
    /\ List(w, Nothing)
    /\ seen' = [seen EXCEPT !.asked = @ + 1, !.missed = FALSE, !.wanted = Nothing]
    /\ UNCHANGED <<catalog, upload>>

SelectView(v) ==
    /\ Moves /\ v # page.view
    /\ page' = [page EXCEPT !.view = v]
    /\ List(page.workspace, Nothing)
    /\ seen' = [seen EXCEPT !.asked = @ + 1, !.missed = FALSE]
    /\ UNCHANGED <<catalog, upload>>

\* From the sources of the workspace, or from an import that has made one, whatever the
\* workspace is by now.
GoAsk(s) ==
    /\ Moves
    /\ \/ page.view = "datasources" /\ s \in Ready(page.workspace)
       \/ page.view = "excel" /\ page.phase = "ready" /\ s = page.result
    /\ page' = [page EXCEPT !.view = "ask", !.scope = s]
    /\ List(page.workspace, Nothing)
    /\ seen' = [seen EXCEPT !.asked = @ + 1, !.missed = FALSE,
                    !.wanted = IF s \in Ready(page.workspace) THEN s ELSE Nothing]
    /\ UNCHANGED <<catalog, upload>>

\* The page of datasources has a list of its own.
Connect(s) ==
    /\ Moves /\ page.view = "datasources" /\ catalog[s] = None
    /\ catalog' = [catalog EXCEPT ![s] = page.workspace]
    /\ UNCHANGED <<page, listings, upload, seen>>

Delete(s) ==
    /\ Moves /\ page.view = "datasources" /\ s \in Ready(page.workspace)
    /\ catalog' = [catalog EXCEPT ![s] = None]
    /\ seen' = [seen EXCEPT !.wanted = IF @ = s THEN Nothing ELSE @]
    /\ UNCHANGED <<page, listings, upload>>

-----------------------------------------------------------------------------
(* The import of a workbook *)

Submit ==
    /\ Moves /\ page.view = "excel" /\ ~Busy /\ upload = NoUpload
    /\ page' = [page EXCEPT !.phase = "uploading", !.result = Nothing]
    /\ upload' = [NoUpload EXCEPT !.stage = "bytes", !.workspace = page.workspace]
    /\ UNCHANGED <<catalog, listings, seen>>

BytesSent ==
    /\ upload.stage = "bytes"
    /\ upload' = [upload EXCEPT !.stage = "server"]
    /\ page' = [page EXCEPT !.phase = IF @ = "uploading" THEN "importing" ELSE @]
    /\ UNCHANGED <<catalog, listings, moves, seen>>

\* The server has scanned the source it made, or refuses the workbook; when nobody waits for
\* it any more it does the same.
ServerImports(s) ==
    /\ upload.stage \in {"server", "lost"} /\ catalog[s] = None
    /\ catalog' = [catalog EXCEPT ![s] = upload.workspace]
    /\ IF upload.stage = "server"
       THEN upload' = [upload EXCEPT !.stage = "done", !.source = s] /\ UNCHANGED seen
       ELSE upload' = NoUpload /\ seen' = [seen EXCEPT !.missed = TRUE]
    /\ UNCHANGED <<page, listings, moves>>

ServerRefuses ==
    /\ upload.stage \in {"server", "lost"}
    /\ upload' = IF upload.stage = "server" THEN [upload EXCEPT !.stage = "refused"] ELSE NoUpload
    /\ UNCHANGED <<catalog, page, listings, moves, seen>>

\* The page lists the workspace it has imported into.
ImportSucceeds ==
    /\ upload.stage = "done"
    /\ page' = [page EXCEPT !.phase = "ready", !.result = upload.source]
    /\ upload' = NoUpload
    /\ List(upload.workspace, upload.source)
    /\ seen' = [seen EXCEPT !.asked = @ + 1, !.missed = FALSE,
                    !.wanted = IF upload.workspace = page.workspace /\ catalog[upload.source] # None
                               THEN upload.source ELSE @]
    /\ UNCHANGED <<catalog, moves>>

\* Refused, or the connection is lost: what has reached the server goes on there.
ImportFails ==
    /\ upload.stage \in {"bytes", "server", "done", "refused"}
    /\ upload' = IF upload.stage = "server" THEN [upload EXCEPT !.stage = "lost"] ELSE NoUpload
    /\ page' = [page EXCEPT !.phase = "error", !.result = Nothing]
    /\ seen' = [seen EXCEPT !.missed = @ \/ upload.stage = "done"]
    /\ UNCHANGED <<catalog, listings, moves>>

-----------------------------------------------------------------------------

ListingStep == \E r \in listings : AnswerListing(r) \/ ListingArrives(r) \/ ListingFails(r)

UploadStep ==
    \/ BytesSent \/ ServerRefuses \/ ImportSucceeds \/ ImportFails
    \/ \E s \in Sources : ServerImports(s)

UserStep ==
    \/ \E w \in Workspaces : SelectWorkspace(w)
    \/ \E v \in Views : SelectView(v)
    \/ \E s \in Sources : GoAsk(s) \/ Connect(s) \/ Delete(s)
    \/ Submit

PageNext == ListingStep \/ UploadStep \/ UserStep

\* The server answers an import or its connection breaks.
PageSpec == PageInit /\ [][PageNext]_pageVars /\ WF_pageVars(UploadStep)

-----------------------------------------------------------------------------
(* Properties *)

PageTypeOK ==
    /\ catalog \in [Sources -> {None} \cup Workspaces]
    /\ page \in [view : Views, workspace : Workspaces, shown : SUBSET Sources,
                 scope : {Nothing} \cup Sources, result : {Nothing} \cup Sources,
                 phase : {"idle", "uploading", "importing", "ready", "error"}]
    /\ upload \in [stage : {"none", "bytes", "server", "lost", "done", "refused"},
                   workspace : {None} \cup Workspaces, source : {Nothing} \cup Sources]
    /\ Busy <=> upload.stage \in {"bytes", "server", "done", "refused"}

\* When nothing is on its way, what is selected is one of what is shown.
SelectionIsShown == listings = {} => page.scope \in {Nothing} \cup page.shown

\* And what is shown are the sources of the workspace, when the listing that was asked for
\* last has come last and was for it, and no import was given up that went on.
ShownIsCurrent ==
    /\ listings = {} /\ ~Busy /\ page.view # "datasources"
    /\ seen.last = seen.asked /\ seen.workspace = page.workspace /\ ~seen.missed
    => page.shown = Ready(page.workspace)

\* And the source of the last import, or the one the user has gone to ask, is selected,
\* unless a listing that did not have it came after.
WantedIsSelected == listings = {} /\ seen.wanted # Nothing => page.scope = seen.wanted

\* An import ends for the user, whatever happens to it.
ImportsEnd == Busy ~> ~Busy

\* The page asks about what it shows and shows what there is, whichever view or workspace
\* the user goes to while listings and an import are on their way (App.jsx).
PagesShowTheirSources ==
    [](PageTypeOK /\ SelectionIsShown /\ ShownIsCurrent /\ WantedIsSelected) /\ ImportsEnd

\* "Importing a workbook must leave the user with that workbook selected"
\* (datasourceScope.js:4): not when the listing after the import fails, or one that was asked
\* for earlier arrives after it.
ImportedIsSelected ==
    listings = {} /\ page.view = "excel" /\ page.phase = "ready" /\ page.result \in Ready(page.workspace)
        => page.scope = page.result

\* The sources shown are those of the workspace: not when an import ends in another one, or
\* the listing of an earlier one arrives late.
ShownBelong == listings = {} /\ page.view # "datasources" => page.shown \subseteq Ready(page.workspace)

=============================================================================
