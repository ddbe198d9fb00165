------------------------------ MODULE ForkSync ------------------------------
(***************************************************************************)
(* src/forkSync.ts and src/useForkSync.ts: browser tabs of one group show  *)
(* the same selection.  They broadcast snapshots over a BroadcastChannel,  *)
(* keep the latest one in a cell of localStorage, order snapshots by a     *)
(* Lamport counter and the sender, and apply what is newer than their own. *)
(*                                                                         *)
(* One task of a tab is one action, except that other tabs may run between *)
(* its reading of the cell and its writing: the browser promises no lock.  *)
(* React renders and runs the effects of a state update before the next    *)
(* task of the tab.                                                        *)
(***************************************************************************)
EXTENDS Integers, Sequences, FiniteSets

CONSTANTS
    Tabs,           \* browser tabs, numbered in the order of their senders
    Selections,     \* what a tab can show
    NoSnapshot,     \* no snapshot
    StorageWorks,   \* localStorage can be used
    Scenarios,      \* what happens: [tabs, pausers, may], see Scenario
    MaxSequence,    \* bound: the counter of local selections
    MaxPosted       \* bound: a tab asks again with fewer on the way

\* `tabs` may be opened, `pausers` may be disconnected and rejoin; besides, tabs
\* may close, tabs may get focus, the cell may expire, and tasks of two tabs
\* may race for the cell.
Scenario == [tabs: SUBSET Tabs, pausers: SUBSET Tabs,
             may: SUBSET {"close", "refresh", "expire", "race"}]

ASSUME LinkedTabsAssumption == Tabs \subseteq Nat /\ IsFiniteSet(Tabs)
ASSUME LinkedBoundsAssumption == MaxSequence \in Nat \ {0} /\ MaxPosted \in Nat
ASSUME LinkedModesAssumption == StorageWorks \in BOOLEAN /\ Scenarios \subseteq Scenario

VARIABLES
    scenario, \* the one of this behaviour
    tab,      \* a tab's peer, its screen and what its running task has left
    cache,    \* the group's cell in localStorage
    channel   \* messages on their way, per sender and receiver

forkVars == <<scenario, tab, cache, channel>>

ForkSnapshot == [sequence: 1 .. MaxSequence, sender: Tabs, selection: Selections]

ASSUME NoSnapshotAssumption == NoSnapshot \notin ForkSnapshot \cup Selections

\* Mutant: the sender does not break ties.
NewerBySequence(left, right) == left.sequence > right.sequence

\* compareForkSyncSnapshots
Newer(left, right) ==
    \/ left.sequence > right.sequence
    \/ left.sequence = right.sequence /\ left.sender > right.sender

Counter(snapshot) == IF snapshot = NoSnapshot THEN 0 ELSE snapshot.sequence
Larger(m, n) == IF m > n THEN m ELSE n

SelectionRequest == [type |-> "request"]
Selected(snapshot) == [type |-> "selection", snapshot |-> snapshot]

Closed == [state |-> "closed", snapshot |-> NoSnapshot, screen |-> NoSnapshot, skip |-> FALSE,
           write |-> NoSnapshot, post |-> <<>>]

ForkInit ==
    /\ scenario \in Scenarios
    /\ tab = [p \in Tabs |-> Closed]
    /\ cache = NoSnapshot
    /\ channel = [p \in Tabs |-> [q \in Tabs |-> <<>>]]

----------------------------------------------------------------------------
Joined(p) == tab[p].state = "joined"
\* The tab's script is not in the middle of a task.
Idle(p) == tab[p].write = NoSnapshot /\ tab[p].post = <<>>
CanRun(p) == Idle(p) /\ ("race" \in scenario.may \/ \A q \in Tabs : Idle(q))

\* What becomes of a tab that stores its snapshot and posts messages: the write
\* is decided on what the cell holds now.
Storing(t, post) ==
    [t EXCEPT !.post = post,
              !.write = IF StorageWorks /\ (cache = NoSnapshot \/ ~Newer(cache, t.snapshot))
                        THEN t.snapshot ELSE NoSnapshot]

\* Mutant: the snapshot is stored for the next reload, but not posted.
SelectingUnposted(p, t, posted) ==
    LET new == [sequence |-> Larger(Counter(t.snapshot), Counter(cache)) + 1,
                sender |-> p, selection |-> t.screen]
    IN  Storing([t EXCEPT !.snapshot = new], posted)

\* ForkSyncPeer.select, past its comparison with what is selected.
Selecting(p, t, posted) ==
    LET new == [sequence |-> Larger(Counter(t.snapshot), Counter(cache)) + 1,
                sender |-> p, selection |-> t.screen]
    IN  Storing([t EXCEPT !.snapshot = new], Append(posted, Selected(new)))

\* The screen changes for a snapshot; the effect of that publishes nothing.
Showing(t, selection) ==
    [t EXCEPT !.screen = selection, !.skip = @ /\ t.screen = selection]

\* Mutant: a delayed message takes a tab back.
ReceivingAny(t, snapshot) ==
    Storing(Showing([t EXCEPT !.snapshot = snapshot], snapshot.selection), <<>>)

\* Mutant: only the tab that selects writes the cell.
ReceivingUnstored(t, snapshot) ==
    IF ~Newer(snapshot, t.snapshot) THEN t
    ELSE Showing([t EXCEPT !.snapshot = snapshot], snapshot.selection)

\* ForkSyncPeer.receive: a loser is answered by restoring the cell.
Receiving(t, snapshot) ==
    IF ~Newer(snapshot, t.snapshot) THEN Storing(t, <<>>)
    ELSE Storing(Showing([t EXCEPT !.snapshot = snapshot], snapshot.selection), <<>>)

Deliverable(p, q) == Joined(q) /\ q # p

\* The end of a task: the cell is written, then the messages are posted.
Finish(p) ==
    /\ ~Idle(p)
    /\ cache' = IF tab[p].write = NoSnapshot THEN cache ELSE tab[p].write
    /\ channel' = [channel EXCEPT ![p] = [q \in Tabs |->
                     IF Deliverable(p, q) THEN @[q] \o tab[p].post ELSE @[q]]]
    /\ tab' = [tab EXCEPT ![p].write = NoSnapshot, ![p].post = <<>>]
    /\ UNCHANGED scenario

\* Mutant: the cell's snapshot is taken, but not shown.
ConnectedUnshown(p, t) ==
    IF cache # NoSnapshot
    THEN [t EXCEPT !.snapshot = cache, !.post = <<SelectionRequest>>]
    ELSE Selecting(p, t, <<SelectionRequest>>)

\* Mutant: a tab that found no snapshot publishes its own and asks nobody.
ConnectedUnasked(p, t) ==
    IF cache # NoSnapshot
    THEN [Showing([t EXCEPT !.snapshot = cache], cache.selection)
             EXCEPT !.post = <<SelectionRequest>>]
    ELSE Selecting(p, t, <<>>)

\* connect: the cell's snapshot is shown, the others are asked for theirs, and
\* a tab that found none publishes what it shows.
Connected(p, t) ==
    IF cache # NoSnapshot
    THEN [Showing([t EXCEPT !.snapshot = cache], cache.selection)
             EXCEPT !.post = <<SelectionRequest>>]
    ELSE Selecting(p, t, <<SelectionRequest>>)

\* A tab is opened in the group: mounting runs both effects.
Open(p, selection) ==
    /\ p \in scenario.tabs /\ tab[p].state = "closed" /\ CanRun(p)
    /\ LET t == [Closed EXCEPT !.state = "joined", !.screen = selection]
       IN  tab' = [tab EXCEPT ![p] = Connected(p, t)]
    /\ UNCHANGED <<scenario, cache, channel>>

\* Closing the tab or unlinking it; the sender is never used again.
Close(p) ==
    /\ "close" \in scenario.may /\ tab[p].state \in {"joined", "paused"} /\ CanRun(p)
    /\ tab' = [tab EXCEPT ![p] = [Closed EXCEPT !.state = "gone"]]
    /\ channel' = [q \in Tabs |-> [channel[q] EXCEPT ![p] = <<>>]]
    /\ UNCHANGED <<scenario, cache>>

\* The view is disconnected from elsewhere: the peer is closed.
Pause(p) ==
    /\ p \in scenario.pausers /\ Joined(p) /\ CanRun(p)
    /\ tab' = [tab EXCEPT ![p].state = "paused", ![p].snapshot = NoSnapshot]
    /\ channel' = [q \in Tabs |-> [channel[q] EXCEPT ![p] = <<>>]]
    /\ UNCHANGED <<scenario, cache>>

Undelivered == {way \in Tabs \X Tabs : channel[way[1]][way[2]] # <<>>}

\* Rejoin: a new peer with the page's sender.  Only the effect that connects
\* runs again, so the flag it sets is still there when the screen next changes.
Rejoin(p) ==
    /\ tab[p].state = "paused" /\ CanRun(p) /\ Cardinality(Undelivered) < MaxPosted
    /\ LET t == [tab[p] EXCEPT !.state = "joined", !.skip = TRUE]
       IN  tab' = [tab EXCEPT ![p] = Connected(p, t)]
    /\ UNCHANGED <<scenario, cache, channel>>

\* The user selects something in the tab; the effect publishes it.
Select(p, selection) ==
    /\ tab[p].state \in {"joined", "paused"} /\ CanRun(p) /\ selection # tab[p].screen
    /\ Larger(Counter(tab[p].snapshot), Counter(cache)) < MaxSequence
    /\ LET t == [tab[p] EXCEPT !.screen = selection, !.skip = FALSE]
       IN  tab' = [tab EXCEPT ![p] =
              IF tab[p].skip \/ ~Joined(p) \/ selection = t.snapshot.selection
              THEN t ELSE Selecting(p, t, <<>>)]
    /\ UNCHANGED <<scenario, cache, channel>>

\* prepareFork in a linked tab: the selection is published again.
Fork(p) ==
    /\ Joined(p) /\ CanRun(p)
    /\ Larger(Counter(tab[p].snapshot), Counter(cache)) < MaxSequence
    /\ tab' = [tab EXCEPT ![p] = Selecting(p, tab[p], <<>>)]
    /\ UNCHANGED <<scenario, cache, channel>>

\* Focus or visibility: requestSelection.
RequestSelection(p) ==
    /\ "refresh" \in scenario.may /\ Joined(p) /\ CanRun(p) /\ Cardinality(Undelivered) < MaxPosted
    /\ LET t == IF cache = NoSnapshot THEN tab[p] ELSE Receiving(tab[p], cache)
       IN  tab' = [tab EXCEPT ![p] = [t EXCEPT !.post = <<SelectionRequest>>]]
    /\ UNCHANGED <<scenario, cache, channel>>

Deliver(p, q) ==
    /\ channel[p][q] # <<>> /\ CanRun(q)
    /\ LET message == Head(channel[p][q])
       IN  tab' = [tab EXCEPT ![q] =
              IF message.type = "request"
              THEN [@ EXCEPT !.post = <<Selected(tab[q].snapshot)>>]
              ELSE Receiving(@, message.snapshot)]
    /\ channel' = [channel EXCEPT ![p][q] = Tail(@)]
    /\ UNCHANGED <<scenario, cache>>

\* A snapshot of more than 24 hours counts as none.
Expire ==
    /\ "expire" \in scenario.may /\ cache # NoSnapshot
    /\ cache' = NoSnapshot
    /\ UNCHANGED <<scenario, tab, channel>>

ForkNext ==
    \/ \E p \in Tabs : \/ \E s \in Selections : Open(p, s) \/ Select(p, s)
                       \/ Close(p) \/ Pause(p) \/ Rejoin(p) \/ Fork(p)
                       \/ RequestSelection(p) \/ Finish(p)
    \/ \E p, q \in Tabs : Deliver(p, q)
    \/ Expire

ForkSpec == ForkInit /\ [][ForkNext]_forkVars

(* Tasks end and messages are delivered; nothing else has to happen.       *)
ForkFairSpec ==
    /\ ForkSpec
    /\ \A p \in Tabs : WF_forkVars(Finish(p))
    /\ \A p \in Tabs : \A q \in Tabs \ {p} : WF_forkVars(Deliver(p, q))

----------------------------------------------------------------------------
Quiet == \A p \in Tabs : Idle(p) /\ \A q \in Tabs : channel[p][q] = <<>>
Linked == {p \in Tabs : Joined(p)}

(* "simultaneous selections converge": once every task has ended and every *)
(* message is delivered, the linked tabs have one snapshot, whoever came   *)
(* and went and in whatever order they selected.                           *)
Converged == Quiet => \A p, q \in Linked : tab[p].snapshot = tab[q].snapshot

(* And it is what they show, whoever raced whom for the cell.  A tab that  *)
(* may rejoin is left out: Rejoin's flag swallows its next selection.      *)
ShownIsShared ==
    /\ Converged
    /\ Quiet => \A p \in Linked \ scenario.pausers : tab[p].screen = tab[p].snapshot.selection

\* What the cell may be instead, a day later.
MaybeExpired == IF "expire" \in scenario.may THEN {NoSnapshot} ELSE {}

(* Two writers that race for the cell may leave the older snapshot in it,  *)
(* but not for good: as long as the loser stays, its message or the answer *)
(* to it makes somebody restore the cell.                                  *)
CacheKeepsUp ==
    Quiet /\ (\A p \in Tabs : tab[p].state \in {"closed", "joined"}) =>
        \A p \in Linked : cache \in {tab[p].snapshot} \cup MaybeExpired

(* The tabs of a group, what they show and the cell agree in the end.      *)
TabsAgree == ShownIsShared /\ CacheKeepsUp

(* A tab that stays linked never goes back to an older selection, however  *)
(* late a message is.                                                      *)
NeverBack ==
    [][\A p \in Tabs : Joined(p) /\ Joined(p)' =>
          ~Newer(tab[p].snapshot, tab[p].snapshot')]_forkVars

(* A selection reaches every linked tab, if it is not overtaken: no tab    *)
(* stays behind another for ever, and by NeverBack it keeps what it got.   *)
Behind(q, p) == Joined(q) /\ Joined(p) /\ Newer(tab[p].snapshot, tab[q].snapshot)
SelectionSpreads == \A p \in Tabs : \A q \in Tabs \ {p} : []<>~Behind(q, p)
============================================================================
