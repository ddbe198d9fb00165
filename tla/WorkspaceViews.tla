--------------------------- MODULE WorkspaceViews ---------------------------
(***************************************************************************)
(* The browser views of a workspace and the size of its sessions: the      *)
(* registry of workspace_views.py, the handler of a terminal's WebSocket   *)
(* in app.py, and the page (useWorkspaceViews.ts, LiveTerminal.tsx).       *)
(*                                                                         *)
(* A terminal of a page is attached by a tmux client of its own, and tmux  *)
(* fits a session to the clients that do not ignore its size.  A handler   *)
(* runs from one await to the next; between those, views attach, take the  *)
(* focus, leave, are disconnected by another view and rejoin.              *)
(***************************************************************************)
EXTENDS Integers, FiniteSets, SequencesExt

CONSTANTS
    Terminal,    \* terminals of pages, [view, session]
    First,       \* the page that the user begins with
    None,
    Budgets      \* bound: how often users act and faults happen, [asks, faults]

View == {t.view : t \in Terminal}
Session == {t.session : t \in Terminal}
Conn == Terminal \X {1, 2}   \* bound: two connections of a terminal overlap

ASSUME BudgetsAssumption == Budgets \subseteq [asks : Nat, faults : Nat]
ASSUME NoneAssumption == None \notin Conn /\ None \notin {"handler", "release"} \X Conn
ASSUME FirstAssumption == First \in View

VARIABLES
    focused,      \* the page that the user has turned to
    page,         \* by page: paused, what it does to rejoin, its poll
    term,         \* by terminal: its socket, and whether it has ended
    conn,         \* one connection, from its request to its last cleanup
    attachments,  \* the registry's attachments, in their order
    evicted,      \* _evicted
    focusOrder,   \* _focus_order
    sizing,       \* who has the sizing lock, and the changes it has left to make
    unsure,       \* a command failed when sizes were last given out
    left,         \* what is left of the budget
    restarted     \* whether the server has restarted

pages == <<focused, page, term>>
registry == <<attachments, evicted, focusOrder>>
sizes == <<sizing, unsure>>
bounds == <<left, restarted>>
vars == <<pages, conn, registry, sizes, bounds>>

Free == [at |-> "free", rel |-> "no", open |-> "no", inbox |-> 0,
         client |-> "none", ignoring |-> FALSE, ignored |-> FALSE]
Unlocked == [by |-> None, changes |-> <<>>, looked |-> FALSE, failed |-> FALSE]

Init ==
    /\ focused = First
    /\ page = [v \in View |-> [paused |-> FALSE, rejoin |-> "no", poll |-> "idle"]]
    /\ term = [t \in Terminal |-> [sock |-> None, ended |-> FALSE]]
    /\ conn = [c \in Conn |-> Free]
    /\ attachments = <<>>
    /\ evicted = {}
    /\ focusOrder = <<>>
    /\ sizing = Unlocked
    /\ unsure = FALSE
    /\ left \in Budgets
    /\ restarted = FALSE

\* Those of a sequence that are in S, in their order.
Among(seq, S) ==
    LET kept[i \in 0 .. Len(seq)] ==
            IF i = 0 THEN <<>>
            ELSE IF seq[i] \in S THEN Append(kept[i - 1], seq[i]) ELSE kept[i - 1]
    IN  kept[Len(seq)]

Attached == ToSet(attachments)
ViewOf(c) == c[1].view
SessionOf(c) == c[1].session
Rank(v) == IF v \in ToSet(focusOrder)
           THEN CHOOSE i \in 1 .. Len(focusOrder) : focusOrder[i] = v ELSE 0
TermsOf(v) == {t \in Terminal : t.view = v}

Ask == left.asks > 0 /\ left' = [left EXCEPT !.asks = @ - 1] /\ UNCHANGED restarted
Fault == left.faults > 0 /\ left' = [left EXCEPT !.faults = @ - 1]

----------------------------------------------------------------------------
(* The page.  When it pauses, its terminals go and close their sockets.    *)

\* A connection that nobody has any more is forgotten.
Tidy(r) == IF r.at = "done" /\ r.rel \in {"no", "done"} /\ r.open = "hung up" THEN Free ELSE r

\* The server closes a socket, unless it is closed: code 4004, an exit, or another.
Closing(r, why) == IF r.open = "open" THEN [r EXCEPT !.open = why] ELSE r

\* The connections in cs, whose page does not listen to them any more.
HungUp(cs) == [c \in Conn |-> IF c \in cs THEN Tidy([conn[c] EXCEPT !.open = "hung up"]) ELSE conn[c]]
Sockets(ts) == {term[t].sock : t \in ts} \ {None}

Pause(v, p) ==
    /\ page' = [page EXCEPT ![v] = [p EXCEPT !.paused = TRUE]]
    /\ term' = [t \in Terminal |-> IF t.view = v THEN [sock |-> None, ended |-> FALSE] ELSE term[t]]
    /\ conn' = HungUp(Sockets(TermsOf(v)))

\* connect: the server refuses a view that was disconnected (423), and the
\* terminal tries again after a while.
Connect(t) ==
    /\ ~page[t.view].paused /\ term[t].sock = None /\ ~term[t].ended
    /\ t.view \notin evicted
    /\ \E c \in {t} \X {1, 2} :
         /\ conn[c].at = "free" /\ (c[2] = 1 \/ conn[<<t, 1>>].at # "free")
         /\ conn' = [conn EXCEPT ![c] = [Free EXCEPT !.at = "asked", !.open = "open"]]
         /\ term' = [term EXCEPT ![t].sock = c]
    /\ UNCHANGED <<focused, page, registry, sizes, bounds>>

\* The user turns to a page, and its terminals say so.  What they say when
\* the user turns away changes nothing.
TurnTo(v) ==
    /\ focused # v /\ Ask
    /\ focused' = v
    /\ conn' = [c \in Conn |-> IF c \in Sockets(TermsOf(v)) /\ conn[c].open = "open"
                               THEN [conn[c] EXCEPT !.inbox = @ + 1] ELSE conn[c]]
    /\ UNCHANGED <<page, term, registry, sizes>>

\* The last message of a socket, or its closing: a view that was disconnected
\* pauses, a session that has ended is left, else the terminal connects again.
HearClose(t) ==
    LET c == term[t].sock
    IN  /\ c # None /\ conn[c].open # "open"
        /\ IF conn[c].open = "4004"
           THEN Pause(t.view, page[t.view])
           ELSE /\ term' = [term EXCEPT ![t] = [sock |-> None, ended |-> conn[c].open = "exit"]]
                /\ conn' = HungUp({c})
                /\ UNCHANGED page
        /\ UNCHANGED <<focused, registry, sizes, bounds>>

\* The page asks every two seconds whether it was disconnected.  Only an
\* answer that says so changes anything.
Poll(v) ==
    /\ page[v].poll = "idle" /\ v \in evicted
    /\ page' = [page EXCEPT ![v].poll = "evicted"]
    /\ UNCHANGED <<focused, term, conn, registry, sizes, bounds>>

PollAnswered(v) ==
    LET p == [page[v] EXCEPT !.poll = "idle"]
    IN  /\ page[v].poll = "evicted"
        /\ IF p.rejoin = "no" THEN Pause(v, p)
           ELSE page' = [page EXCEPT ![v] = p] /\ UNCHANGED <<term, conn>>
        /\ UNCHANGED <<focused, registry, sizes, bounds>>

\* resume: polls that were asked before are of an older revision.
Rejoin(v) ==
    /\ page[v].paused /\ page[v].rejoin = "no" /\ Ask
    /\ page' = [page EXCEPT ![v].rejoin = "asked", ![v].poll = "idle"]
    /\ UNCHANGED <<focused, term, conn, registry, sizes>>

ResumeHandled(v) ==
    /\ page[v].rejoin = "asked"
    /\ evicted' = evicted \ {v}
    /\ page' = [page EXCEPT ![v].rejoin = "resumed"]
    /\ UNCHANGED <<focused, term, conn, attachments, focusOrder, sizes, bounds>>

\* Mutant: a poll that was asked meanwhile still counts.
ResumedOnly(v) ==
    /\ page[v].rejoin = "resumed"
    /\ page' = [page EXCEPT ![v].rejoin = "no", ![v].paused = FALSE]
    /\ UNCHANGED <<focused, term, conn, registry, sizes, bounds>>

\* The terminals are there again, and the poll that is out is aborted.
Resumed(v) ==
    /\ page[v].rejoin = "resumed"
    /\ page' = [page EXCEPT ![v] = [paused |-> FALSE, rejoin |-> "no", poll |-> "idle"]]
    /\ UNCHANGED <<focused, term, conn, registry, sizes, bounds>>

PageSteps ==
    \/ \E t \in Terminal : Connect(t) \/ HearClose(t)
    \/ \E v \in View : Poll(v) \/ PollAnswered(v) \/ ResumeHandled(v) \/ Resumed(v)

----------------------------------------------------------------------------
(* The handler of a terminal's WebSocket.                                  *)
Detach(c, r) == /\ attachments' = Among(attachments, Attached \ {c})
                /\ conn' = [conn EXCEPT ![c] = r]

Join(c) == /\ attachments' = Append(attachments, c)
           /\ conn' = [conn EXCEPT ![c].at = "joining", ![c].client = "on",
                                   ![c].ignoring = TRUE, ![c].ignored = TRUE]

\* Mutant: attach does not look whether the view was disconnected meanwhile.
AttachUnseen(c) ==
    /\ conn[c].at = "asked"
    /\ Join(c)
    /\ UNCHANGED <<pages, evicted, focusOrder, sizes, bounds>>

\* attach, after the session was looked up and the socket prepared: the view
\* may have been disconnected since its request was let in.
Attach(c) ==
    /\ conn[c].at = "asked"
    /\ IF ViewOf(c) \notin evicted THEN Join(c)
       ELSE /\ conn' = [conn EXCEPT ![c] = Tidy(Closing([@ EXCEPT !.at = "done"], "4004"))]
            /\ UNCHANGED attachments
    /\ UNCHANGED <<pages, evicted, focusOrder, sizes, bounds>>

\* viewFocus.  A handler whose view was disconnected leaves its loop.
HandleFocus(c) ==
    LET v == ViewOf(c)
    IN  /\ conn[c].at = "serving" /\ conn[c].inbox > 0
        /\ IF v \in evicted
           THEN Detach(c, [conn[c] EXCEPT !.at = "closing", !.inbox = 0]) /\ UNCHANGED focusOrder
           ELSE /\ conn' = [conn EXCEPT ![c].inbox = @ - 1,
                                        ![c].at = IF c \in Attached THEN "focusing" ELSE @]
                /\ focusOrder' = IF c \in Attached
                                 THEN Append(Among(focusOrder, View \ {v}), v)
                                 ELSE focusOrder
                /\ UNCHANGED attachments
        /\ UNCHANGED <<pages, evicted, sizes, bounds>>

\* The socket is closed, by either side: the handler detaches.
Leave(c) ==
    /\ conn[c].at = "serving" /\ conn[c].inbox = 0 /\ conn[c].open # "open"
    /\ Detach(c, [conn[c] EXCEPT !.at = "closing"])
    /\ UNCHANGED <<pages, evicted, focusOrder, sizes, bounds>>

\* Mutant: the sizes are not given out again.
CloseOnly(c) ==
    /\ conn[c].at = "closing"
    /\ conn' = [conn EXCEPT ![c] = Tidy(Closing([@ EXCEPT !.at = "done", !.client = "gone"], "closed"))]
    /\ UNCHANGED <<pages, registry, sizes, bounds>>

\* bridge.close: the client is gone, and the sizes are to be given out again.
CloseBridge(c) ==
    /\ conn[c].at = "closing"
    /\ conn' = [conn EXCEPT ![c].at = "leaving", ![c].client = "gone"]
    /\ UNCHANGED <<pages, registry, sizes, bounds>>

----------------------------------------------------------------------------
(* evict: every attachment of a view is released while its notice leaves.  *)
Evict(v, by) ==
    /\ v # by /\ \E c \in Attached : ViewOf(c) = v
    /\ ~page[by].paused /\ Ask
    /\ evicted' = evicted \cup {v}
    /\ conn' = [c \in Conn |-> IF c \in Attached /\ ViewOf(c) = v
                               THEN [conn[c] EXCEPT !.rel = "start"] ELSE conn[c]]
    /\ UNCHANGED <<pages, attachments, focusOrder, sizes>>

Release(c) ==
    /\ conn[c].rel = "start"
    /\ Detach(c, Closing([conn[c] EXCEPT !.rel = "closing"], "4004"))
    /\ UNCHANGED <<pages, evicted, focusOrder, sizes, bounds>>

ReleaseBridge(c) ==
    /\ conn[c].rel = "closing"
    /\ conn' = [conn EXCEPT ![c].rel = "syncing", ![c].client = "gone"]
    /\ UNCHANGED <<pages, registry, sizes, bounds>>

----------------------------------------------------------------------------
(* sync_sizes, under the sizing lock.                                      *)
WantsSync(task, c) ==
    \/ task = "handler" /\ conn[c].at \in {"joining", "focusing", "leaving"}
    \/ task = "release" /\ conn[c].rel = "syncing"

Eligible(s) == {i \in DOMAIN attachments : /\ SessionOf(attachments[i]) = s
                                          /\ ViewOf(attachments[i]) \notin evicted}

\* The first of those whose view was focused last.
Owner(s) ==
    LET rank(i) == Rank(ViewOf(attachments[i]))
        best(i) == \A j \in Eligible(s) : rank(j) < rank(i) \/ (rank(j) = rank(i) /\ i <= j)
    IN  IF Eligible(s) = {} THEN None ELSE attachments[CHOOSE i \in Eligible(s) : best(i)]

ShouldIgnore(c) == Owner(SessionOf(c)) # c

Listed(ignore) ==
    LET cs == Among(attachments,
                    {c \in Attached : ShouldIgnore(c) = ignore /\ conn[c].ignored # ignore})
    IN  [i \in 1 .. Len(cs) |-> [on |-> cs[i], ignore |-> ignore]]

\* Mutant: the new owner is enabled before the previous one is released.
EnableFirst == Listed(FALSE) \o Listed(TRUE)

Changes == Listed(TRUE) \o Listed(FALSE)

\* What a task does after sync_sizes: the cleanup ends, or the terminal is
\* served.  It is told that it is ready, and answers if its page has the focus.
After(task, c, r) ==
    IF task = "release" THEN Tidy([r EXCEPT !.rel = "done"])
    ELSE IF r.at = "leaving" THEN Tidy(Closing([r EXCEPT !.at = "done"], "closed"))
    ELSE [r EXCEPT !.at = "serving",
                   !.inbox = IF r.at = "joining" /\ r.open = "open" /\ ViewOf(c) = focused
                             THEN @ + 1 ELSE @]

Continue(by, changes, failed, cs) ==
    IF changes # <<>>
    THEN /\ sizing' = [by |-> by, changes |-> changes, looked |-> FALSE, failed |-> failed]
         /\ conn' = cs
         /\ UNCHANGED unsure
    ELSE /\ sizing' = Unlocked
         /\ conn' = [cs EXCEPT ![by[2]] = After(by[1], by[2], @)]
         /\ unsure' = failed

BeginSync(task, c) ==
    /\ sizing.by = None /\ WantsSync(task, c)
    /\ Continue(<<task, c>>, Changes, FALSE, conn)
    /\ UNCHANGED <<pages, registry, bounds>>

Changing == sizing.by # None
Change == Head(sizing.changes)
Proceed(failed, cs) == Continue(sizing.by, Tail(sizing.changes), sizing.failed \/ failed, cs)

\* It was detached or disconnected since the changes were listed.
Superseded == Change.on \notin Attached \/ ViewOf(Change.on) \in evicted

SkipChange ==
    /\ Changing /\ ~sizing.looked /\ Superseded
    /\ Proceed(FALSE, conn)
    /\ UNCHANGED <<pages, registry, bounds>>

\* set_client_ignore_size finds the client's name, then tells it.
LookUpClient ==
    /\ Changing /\ ~sizing.looked /\ ~Superseded
    /\ conn[Change.on].client = "on"
    /\ sizing' = [sizing EXCEPT !.looked = TRUE]
    /\ UNCHANGED <<pages, conn, registry, unsure, bounds>>

TellClient ==
    /\ Changing /\ sizing.looked /\ conn[Change.on].client = "on"
    /\ Proceed(FALSE, [conn EXCEPT ![Change.on].ignoring = Change.ignore,
                                   ![Change.on].ignored = Change.ignore])
    /\ UNCHANGED <<pages, registry, bounds>>

\* TmuxError: the client has gone, or tmux did not do it.
ChangeFails ==
    /\ Changing /\ (sizing.looked \/ ~Superseded)
    /\ IF conn[Change.on].client = "on" THEN Fault /\ UNCHANGED restarted /\ Proceed(TRUE, conn)
                                        ELSE Proceed(FALSE, conn) /\ UNCHANGED bounds
    /\ UNCHANGED <<pages, registry>>

ServerSteps ==
    \/ \E c \in Conn : \/ Attach(c) \/ HandleFocus(c) \/ Leave(c) \/ CloseBridge(c)
                       \/ Release(c) \/ ReleaseBridge(c)
                       \/ \E task \in {"handler", "release"} : BeginSync(task, c)
    \/ SkipChange \/ LookUpClient \/ TellClient \/ ChangeFails

----------------------------------------------------------------------------
(* What goes wrong.                                                        *)

\* The connection is lost; the page notices at once, the server with time.
LoseConnection(t) ==
    /\ term[t].sock # None /\ conn[term[t].sock].open = "open"
    /\ Fault /\ UNCHANGED restarted
    /\ conn' = HungUp({term[t].sock})
    /\ term' = [term EXCEPT ![t].sock = None]
    /\ UNCHANGED <<focused, page, registry, sizes>>

\* The client exits; its handler says so, unless its view was disconnected.
ClientExits(c) ==
    /\ conn[c].client = "on"
    /\ Fault /\ UNCHANGED restarted
    /\ LET r == [conn[c] EXCEPT !.client = "gone"]
       IN  conn' = [conn EXCEPT ![c] = IF ViewOf(c) \in evicted THEN r ELSE Closing(r, "exit")]
    /\ UNCHANGED <<pages, registry, sizes>>

\* The server restarts: what it knew of views was in its memory.
Restart ==
    /\ Fault /\ restarted' = TRUE
    /\ attachments' = <<>> /\ evicted' = {} /\ focusOrder' = <<>>
    /\ sizing' = Unlocked /\ unsure' = FALSE
    /\ conn' = [c \in Conn |->
         IF conn[c].at = "free" THEN Free
         ELSE Tidy(Closing([Free EXCEPT !.at = "done", !.open = conn[c].open], "closed"))]
    /\ page' = [v \in View |-> [page[v] EXCEPT !.rejoin = "no", !.poll = "idle"]]
    /\ UNCHANGED <<focused, term>>

Asks == \E v \in View : \/ TurnTo(v) \/ Rejoin(v)
                        \/ \E by \in View : Evict(v, by)
Faults == (\E t \in Terminal : LoseConnection(t)) \/ (\E c \in Conn : ClientExits(c)) \/ Restart

Next == PageSteps \/ ServerSteps \/ Asks \/ Faults

Spec == Init /\ [][Next]_vars

\* Timers fire, requests are handled, tmux answers, and what was sent arrives.
FairSpec ==
    /\ Spec
    /\ WF_vars(ServerSteps)
    /\ \A t \in Terminal : WF_vars(Connect(t)) /\ WF_vars(HearClose(t))
    /\ \A v \in View : /\ WF_vars(Poll(v)) /\ WF_vars(PollAnswered(v))
                       /\ WF_vars(ResumeHandled(v)) /\ WF_vars(Resumed(v))

----------------------------------------------------------------------------
(* Properties.                                                             *)

Counts(c) == conn[c].client = "on" /\ ~conn[c].ignoring

(* A session is never fitted to two views at once: the previous owner is
   released before the next one is enabled, whoever attaches, takes the
   focus, leaves or is disconnected between two commands of tmux.  After a
   command that failed two may count until sizes are given out again
   (sync_sizes). *)
OneContributor == ~unsure /\ ~sizing.failed => \A s \in Session :
    Cardinality({c \in Attached : SessionOf(c) = s /\ Counts(c) /\ conn[c].rel = "no"}) <= 1

(* A view that was disconnected has no attachment but those that are being
   released, also if it was about to attach: until its user rejoins it takes
   part in nothing (is_evicted and attach, workspace_views.py). *)
EvictedStaysOut == \A c \in Attached : ViewOf(c) \in evicted => conn[c].rel # "no"

(* Both together: who owns a session's size is one view, and one that may. *)
OneOwner == OneContributor /\ EvictedStaysOut

(* When users and faults leave it alone, every session comes to be fitted to
   exactly one of its eligible clients, of the view that was focused last,
   and to none that has left (focus, sync_sizes, the handler's cleanup). *)
SizesSettle == <>[](\A s \in Session :
    LET eligible == {c \in Attached : SessionOf(c) = s}
    IN  \/ unsure
        \/ \E c \in eligible : \A d \in eligible : Rank(ViewOf(d)) <= Rank(ViewOf(c))
             /\ {b \in Conn : SessionOf(b) = s /\ Counts(b)} = {c}
        \/ eligible = {} /\ \A b \in Conn : SessionOf(b) = s => ~Counts(b))

Live(t) == term[t].sock \in Attached /\ conn[term[t].sock].at = "serving"

(* Pages follow the server: one that was disconnected pauses, also when its
   notice was lost; one that rejoined does not pause again by an old answer;
   and the terminals of a page that is not paused are attached or have ended
   (poll and resume of useWorkspaceViews.ts, connect of LiveTerminal.tsx). *)
PagesFollow == <>[](\A v \in View :
    /\ v \in evicted => page[v].paused
    /\ page[v].paused => v \in evicted \/ restarted
    /\ page[v].paused \/ \A t \in TermsOf(v) : term[t].ended \/ Live(t))
=============================================================================
