------------------------------ MODULE PageSync ------------------------------
(***************************************************************************)
(* One saved workspace shared by several pages: the store's record         *)
(* (tmux_console/workspaces.py), the stream of snapshots to the pages      *)
(* (tmux_console/app.py), and how a page saves its edits and merges what   *)
(* others saved (src/src/App.tsx and workspaceSync.ts).                    *)
(*                                                                         *)
(* A workspace is its set of tabs: their order, groups, parents and folds  *)
(* are merged by the same scheme and left out, as is the selected tab.     *)
(* A task of the page's event loop is one action; so is a request at the   *)
(* server, whose handler commits and publishes without awaiting.           *)
(***************************************************************************)
EXTENDS Integers, Sequences

CONSTANTS
    Page,       \* browser pages that show the workspace
    Tab,        \* session names
    Live,       \* the names that sessions have at the start
    Saved,      \* the tabs saved at the start
    None,       \* no snapshot
    Conflict,   \* the answer 409
    MaxEdits,   \* bound: tabs that users open and close
    MaxUpsets   \* bound: answers lost, snapshots skipped, pages refreshed or
                \* reloaded, sessions renamed

ASSUME TabsAssumption == Saved \subseteq Live /\ Live \subseteq Tab
ASSUME BoundsAssumption == {MaxEdits, MaxUpsets} \subseteq Nat

VARIABLES
    server,   \* the store's record of the workspace
    live,     \* names of sessions
    page,     \* what each page keeps
    request,  \* the save of a page on its way to the server
    reply,    \* and its answer on the way back
    late,     \* saves that still travel though nobody waits for them
    stream,   \* snapshots published to a page and not delivered
    fetch,    \* GETs of a page, with their answer once the server gave it
    touched,  \* of each page, the tabs its user opened or closed
    due,      \* those of them its saves have not brought to the server
    used      \* how much of the bounds is used up

vars == <<server, live, page, request, reply, late, stream, fetch, touched, due, used>>
net == <<request, reply, late, stream, fetch>>
ghosts == <<touched, due>>

----------------------------------------------------------------------------
(* Records and snapshots: at is updatedAt, rev the session revision.       *)
Snapshot == [tabs: SUBSET Tab, rev: Nat, at: Nat]

ASSUME AnswersAssumption == None # Conflict /\ None \notin Snapshot /\ Conflict \notin Snapshot

Older(s, t) == \/ s.rev < t.rev
               \/ s.rev = t.rev /\ s.at < t.at
SameVersion(s, t) == s.rev = t.rev /\ s.at = t.at

\* sameWorkspaceActivity
SameActivity(s, t) == s # None /\ s.rev = t.rev /\ s.tabs = t.tabs

\* rebaseTabs: the edits that lead from base to local, applied to remote.
\* Mutant: what is shown here is kept whatever was closed elsewhere.
RebaseReviving(base, local, remote) ==
    {t \in remote : t \notin base \/ t \in local} \cup local

Rebase(base, local, remote) ==
    {t \in remote : t \notin base \/ t \in local} \cup (local \ base)

\* currentWorkspaceActivitySnapshot
Current(local, canon) == [tabs |-> local, rev |-> canon.rev, at |-> canon.at]

\* A page that has just hydrated: the effect that watches the tabs finds
\* nothing saved by this page and stages a first save.
Hydrated(saved) ==
    [local |-> saved.tabs, canon |-> saved, last |-> None,
     staged |-> Current(saved.tabs, saved), queued |-> None, sent |-> None,
     acked |-> FALSE, failed |-> None]

\* One whose first save has been answered.
Settled(saved) == [Hydrated(saved) EXCEPT !.last = saved, !.staged = None]

Init ==
    /\ server = [tabs |-> Saved, rev |-> 0, at |-> 0]
    /\ live = Live
    /\ page = [p \in Page |-> Settled(server)]
    /\ request = [p \in Page |-> None]
    /\ reply = [p \in Page |-> None]
    /\ late = {}
    /\ stream = [p \in Page |-> <<>>]
    /\ fetch = [p \in Page |-> {}]
    /\ touched = [p \in Page |-> {}]
    /\ due = [p \in Page |-> {}]
    /\ used = [edits |-> 0, upsets |-> 0]

----------------------------------------------------------------------------
\* Mutant: an answer is applied whatever the page has received since.
IgnoredUnlessOurs(pg, saved, ours, force) ==
    /\ ours = None
    /\ Older(saved, pg.canon) \/ (~force /\ SameVersion(saved, pg.canon))

(* applyWorkspaceSnapshot: what a snapshot does to a page.  ours is the    *)
(* save that it answers, or None; a forced one counts though it is known.  *)
(* The stream may bring the page's own save before the answer does: then   *)
(* the edits to keep are those made since that save.                       *)
Ignored(pg, saved, ours, force) ==
    \/ Older(saved, pg.canon)
    \/ ours = None /\ ~force /\ SameVersion(saved, pg.canon)

Echo(pg, saved, ours) ==
    IF ours # None THEN ours
    ELSE IF pg.sent # None /\ pg.sent.at = pg.canon.at /\ pg.sent.tabs = saved.tabs
    THEN pg.sent ELSE None

\* Mutant: edits that the snapshot does not have are shown and not saved.
ApplyOnly(pg, saved, ours, force) ==
    LET echo == Echo(pg, saved, ours)
        base == IF echo # None THEN echo.tabs ELSE pg.canon.tabs
    IN  IF Ignored(pg, saved, ours, force) THEN pg
        ELSE [pg EXCEPT !.local = Rebase(base, pg.local, saved.tabs),
                        !.canon = saved, !.last = saved, !.staged = None,
                        !.queued = None, !.failed = None,
                        !.acked = @ \/ echo # None]

Apply(pg, saved, ours, force) ==
    LET echo == Echo(pg, saved, ours)
        base == IF echo # None THEN echo.tabs ELSE pg.canon.tabs
        merged == IF saved.rev = pg.canon.rev
                  THEN Rebase(base, pg.local, saved.tabs) ELSE saved.tabs
        next == Current(merged, saved)
    IN  IF Ignored(pg, saved, ours, force) THEN pg
        ELSE [pg EXCEPT !.local = merged, !.canon = saved, !.last = saved,
                        !.staged = IF SameActivity(saved, next) THEN None ELSE next,
                        !.queued = None, !.failed = None,
                        !.acked = @ \/ echo # None]

----------------------------------------------------------------------------
(* The user opens or closes a tab.  The effect that watches the tabs       *)
(* stages a save unless the page shows what it last knew to be saved.      *)
Toggled(tabs, t) == IF t \in tabs THEN tabs \ {t} ELSE tabs \cup {t}

Edit(p, t) ==
    /\ used.edits < MaxEdits
    /\ t \in page[p].local \/ t \in live
    /\ LET pg == page[p]
           local == Toggled(pg.local, t)
           next == Current(local, pg.canon)
       IN  page' = [page EXCEPT ![p].local = local,
                        ![p].staged = IF SameActivity(pg.last, next) /\ pg.failed = None
                                      THEN @ ELSE next]
    /\ touched' = [touched EXCEPT ![p] = @ \cup {t}]
    /\ due' = [due EXCEPT ![p] = @ \cup {t}]
    /\ used' = [used EXCEPT !.edits = @ + 1]
    /\ UNCHANGED <<server, live, net>>

\* flushWorkspaceActivity: one save at a time, so nothing while one is out.
Flush(p, pg) ==
    IF pg.sent = None /\ pg.queued # None
    THEN /\ page' = [page EXCEPT ![p] = [pg EXCEPT !.sent = pg.queued, !.queued = None,
                                                   !.acked = FALSE]]
         /\ request' = [request EXCEPT ![p] = pg.queued]
    ELSE /\ page' = [page EXCEPT ![p] = pg]
         /\ UNCHANGED request

\* The debounce timer, commitStagedWorkspaceActivity: a newer save takes the
\* place of the one that waits.
CommitStaged(p) ==
    /\ page[p].staged # None
    /\ Flush(p, [page[p] EXCEPT !.queued = page[p].staged, !.staged = None])
    /\ UNCHANGED <<server, live, reply, late, stream, fetch, ghosts, used>>

\* The timer set when a save ended and another waited.
FlushNext(p) ==
    /\ page[p].sent = None /\ page[p].queued # None
    /\ Flush(p, page[p])
    /\ UNCHANGED <<server, live, reply, late, stream, fetch, ghosts, used>>

\* retryPageSync, at the user's demand after a failed save.
Retry(p) ==
    /\ page[p].failed # None /\ page[p].sent = None
    /\ LET pg == page[p]
           save == IF pg.staged # None THEN pg.staged
                   ELSE IF pg.queued # None THEN pg.queued ELSE pg.failed
       IN  Flush(p, [pg EXCEPT !.queued = save, !.staged = None])
    /\ UNCHANGED <<server, live, reply, late, stream, fetch, ghosts, used>>

----------------------------------------------------------------------------
(* The store: record_activity takes a save that expects the record as it   *)
(* is, with the names as they are.                                         *)
\* Mutants: one of the two checks is missing.
AcceptsAnyVersion(snap) == snap.rev = server.rev
AcceptsAnyRevision(snap) == snap.at = server.at

Accepts(snap) == snap.at = server.at /\ snap.rev = server.rev

\* The middleware publishes what changed to every page before the answer.
Publish(saved) == stream' = [p \in Page |-> Append(stream[p], saved)]

Commit(p, snap) ==
    LET saved == [tabs |-> snap.tabs, rev |-> server.rev, at |-> server.at + 1]
    IN  /\ server' = saved
        /\ Publish(saved)
        /\ due' = [due EXCEPT ![p] = {t \in @ : (t \in snap.tabs) # (t \in page[p].local)}]

\* A save arrives; 409 when it is not accepted.
HandleSave(p) ==
    /\ request[p] # None
    /\ request' = [request EXCEPT ![p] = None]
    /\ IF Accepts(request[p])
       THEN /\ Commit(p, request[p])
            /\ reply' = [reply EXCEPT ![p] = server']
       ELSE /\ reply' = [reply EXCEPT ![p] = Conflict]
            /\ UNCHANGED <<server, stream, due>>
    /\ UNCHANGED <<live, page, late, fetch, touched, used>>

\* A save nobody waits for any more arrives, or gets lost.
HandleLate(save) ==
    /\ late' = late \ {save}
    /\ IF Accepts(save.snap) THEN Commit(save.page, save.snap)
                             ELSE UNCHANGED <<server, stream, due>>
    /\ UNCHANGED <<live, page, request, reply, fetch, touched, used>>

LoseLate(save) ==
    /\ late' = late \ {save}
    /\ UNCHANGED <<server, live, page, request, reply, stream, fetch, ghosts, used>>

\* rename_session: the other name everywhere, and a new session revision.
Rename(old, new) ==
    /\ used.upsets < MaxUpsets
    /\ old \in live /\ new \in Tab \ live
    /\ live' = (live \ {old}) \cup {new}
    /\ server' = [tabs |-> IF old \in server.tabs THEN (server.tabs \ {old}) \cup {new}
                           ELSE server.tabs,
                  rev |-> server.rev + 1,
                  at |-> IF old \in server.tabs THEN server.at + 1 ELSE server.at]
    /\ Publish(server')
    /\ used' = [used EXCEPT !.upsets = @ + 1]
    /\ UNCHANGED <<page, request, reply, late, fetch, ghosts>>

----------------------------------------------------------------------------
(* A page gets its answer: the record, a conflict, or no answer at all.    *)
Ended(pg) == [pg EXCEPT !.sent = None]

Saves(p) ==
    /\ reply[p] \in Snapshot
    /\ page' = [page EXCEPT ![p] = Ended(Apply(page[p], reply[p], page[p].sent, FALSE))]
    /\ reply' = [reply EXCEPT ![p] = None]
    /\ UNCHANGED <<server, live, request, late, stream, fetch, ghosts, used>>

\* A save the stream already acknowledged and one overtaken by a rename need
\* nothing more; otherwise the page fetches the record it lost against.
Conflicts(p) ==
    /\ reply[p] = Conflict
    /\ fetch' = IF page[p].acked \/ page[p].canon.rev > page[p].sent.rev THEN fetch
                ELSE [fetch EXCEPT ![p] = @ \cup {[force |-> TRUE, answer |-> None]}]
    /\ page' = [page EXCEPT ![p] = Ended(@)]
    /\ reply' = [reply EXCEPT ![p] = None]
    /\ UNCHANGED <<server, live, request, late, stream, ghosts, used>>

\* The connection fails before the request arrived, while it travels, or
\* after it was answered.
Fails(p) ==
    /\ used.upsets < MaxUpsets
    /\ page[p].sent # None
    /\ request' = [request EXCEPT ![p] = None]
    /\ reply' = [reply EXCEPT ![p] = None]
    /\ late' = IF request[p] = None THEN late
               ELSE late \cup {[page |-> p, snap |-> request[p]]}
    /\ page' = [page EXCEPT ![p] = IF @.acked THEN Ended(@)
                                   ELSE [Ended(@) EXCEPT !.failed = page[p].sent]]
    /\ used' = [used EXCEPT !.upsets = @ + 1]
    /\ UNCHANGED <<server, live, stream, fetch, ghosts>>

\* The stream delivers the next snapshot.
Streams(p) ==
    /\ stream[p] # <<>>
    /\ page' = [page EXCEPT ![p] = Apply(@, Head(stream[p]), None, FALSE)]
    /\ stream' = [stream EXCEPT ![p] = Tail(@)]
    /\ UNCHANGED <<server, live, request, reply, late, fetch, ghosts, used>>

\* _offer_latest: the broker's queue holds one snapshot, a newer one takes
\* the place of one that was not written yet.
Coalesces(p) ==
    /\ used.upsets < MaxUpsets
    /\ Len(stream[p]) > 1
    /\ stream' = [stream EXCEPT ![p] = Tail(@)]
    /\ used' = [used EXCEPT !.upsets = @ + 1]
    /\ UNCHANGED <<server, live, page, request, reply, late, fetch, ghosts>>

\* A poll, or a refresh when the page gets the focus.
Refresh(p) ==
    /\ used.upsets < MaxUpsets
    /\ fetch' = [fetch EXCEPT ![p] = @ \cup {[force |-> FALSE, answer |-> None]}]
    /\ used' = [used EXCEPT !.upsets = @ + 1]
    /\ UNCHANGED <<server, live, page, request, reply, late, stream, ghosts>>

HandleFetch(p, get) ==
    /\ get.answer = None
    /\ fetch' = [fetch EXCEPT ![p] = (@ \ {get}) \cup {[get EXCEPT !.answer = server]}]
    /\ UNCHANGED <<server, live, page, request, reply, late, stream, ghosts, used>>

Fetched(p, get) ==
    /\ get.answer # None
    /\ page' = [page EXCEPT ![p] = Apply(@, get.answer, None, get.force)]
    /\ fetch' = [fetch EXCEPT ![p] = @ \ {get}]
    /\ UNCHANGED <<server, live, request, reply, late, stream, ghosts, used>>

FetchFails(p, get) ==
    /\ used.upsets < MaxUpsets
    /\ fetch' = [fetch EXCEPT ![p] = @ \ {get}]
    /\ used' = [used EXCEPT !.upsets = @ + 1]
    /\ UNCHANGED <<server, live, page, request, reply, late, stream, ghosts>>

\* The page goes away and comes back: the beacon of pagehide carries what is
\* not saved, and the page that comes back hydrates from the record.
Reload(p) ==
    /\ used.upsets < MaxUpsets
    /\ LET now == Current(page[p].local, page[p].canon)
           travels == (IF request[p] = None THEN {} ELSE {request[p]})
                      \cup (IF SameActivity(page[p].last, now) THEN {} ELSE {now})
       IN  late' = late \cup {[page |-> p, snap |-> snap] : snap \in travels}
    /\ page' = [page EXCEPT ![p] = Hydrated(server)]
    /\ request' = [request EXCEPT ![p] = None]
    /\ reply' = [reply EXCEPT ![p] = None]
    /\ stream' = [stream EXCEPT ![p] = <<server>>]
    /\ fetch' = [fetch EXCEPT ![p] = {}]
    /\ used' = [used EXCEPT !.upsets = @ + 1]
    /\ UNCHANGED <<server, live, ghosts>>

----------------------------------------------------------------------------
User == \E p \in Page : Retry(p) \/ \E t \in Tab : Edit(p, t)

System ==
    \/ \E p \in Page : \/ CommitStaged(p) \/ FlushNext(p) \/ HandleSave(p)
                       \/ Saves(p) \/ Conflicts(p) \/ Streams(p)
                       \/ \E get \in fetch[p] : HandleFetch(p, get) \/ Fetched(p, get)

Environment ==
    \/ \E p \in Page : \/ Coalesces(p) \/ Fails(p) \/ Refresh(p) \/ Reload(p)
                       \/ \E get \in fetch[p] : FetchFails(p, get)
    \/ \E save \in late : HandleLate(save) \/ LoseLate(save)
    \/ \E old, new \in Tab : Rename(old, new)

Next == User \/ System \/ Environment

Spec == Init /\ [][Next]_vars

(* Timers fire, requests are handled and answered or fail, the stream      *)
(* delivers what it holds.  Nothing is assumed of users and of faults.     *)
Fairness ==
    \A p \in Page :
        /\ WF_vars(CommitStaged(p)) /\ WF_vars(FlushNext(p))
        /\ WF_vars(HandleSave(p)) /\ WF_vars(Saves(p)) /\ WF_vars(Conflicts(p))
        /\ WF_vars(Streams(p))
        /\ WF_vars(\E get \in fetch[p] : HandleFetch(p, get) \/ Fetched(p, get))

FairSpec == Spec /\ Fairness

----------------------------------------------------------------------------
Changed(s, t) == (s \ t) \cup (t \ s)

(* "A concurrent change causes 409 instead of letting an old full snapshot *)
(* overwrite the workspace ... retaining independent additions and         *)
(* removals from both pages": a save changes the membership of tabs only   *)
(* that the user of the saving page opened or closed.                      *)
OnlyTouchedTabsChange ==
    [][server'.rev = server.rev =>
          \E p \in Page : Changed(server.tabs, server'.tabs) \subseteq touched[p]]_vars

(* "The existing reload fence so an obsolete name cannot be added back":   *)
(* however late a save made before a rename arrives, the workspace holds   *)
(* no name that no session has.                                            *)
NoObsoleteName == server.tabs \subseteq live

(* A page never goes back to an older record, though answers, streamed     *)
(* snapshots and fetched ones overtake each other; only a reload starts    *)
(* afresh, with the newest.                                                *)
RecordsMoveForward ==
    [][\A p \in Page : ~Older(page'[p].canon, page[p].canon)]_vars

(* The pages come to rest: no exchange of saves and snapshots goes on for  *)
(* ever, and then every page whose save did not fail shows the saved tabs. *)
Shows(p) == page[p].canon = server /\ page[p].local = server.tabs
PagesSettle == <>[](\A p \in Page : Shows(p) \/ page[p].failed # None)

(* "A stale tab must not bring back something either browser closed": a    *)
(* save brings a tab into the workspace only if the user of its page       *)
(* opened it since the last time that page's edits were saved.             *)
ClosedStaysClosed ==
    [][server'.rev = server.rev =>
          \E p \in Page : server'.tabs \ server.tabs \subseteq due[p]]_vars
============================================================================
