-------------------------- MODULE WorkspaceProofs ---------------------------
(***************************************************************************)
(* Theorems about the pages that edit a workspace (PageSync), for any      *)
(* pages, tabs and bounds, about the browser tabs that are linked          *)
(* (ForkSync), for any finitely many of them, and about the store that     *)
(* keeps the workspaces (WorkspaceStore).                                  *)
(*                                                                         *)
(* Records are what the store made and what is known of it elsewhere; a    *)
(* page's own saves are what it showed at some time.  Flows says how both  *)
(* travel in a step, and the invariants follow from it alone.              *)
(*                                                                         *)
(* A linked tab's step publishes a snapshot, connects to the cell, hears   *)
(* of a snapshot or keeps its own; StepKinds says so of every action, and  *)
(* the rest is about these four and about what is on its way.              *)
(*                                                                         *)
(* What the store forgot is not lost, and its file holds what it shows;    *)
(* both are about the requests that write, not about the document.         *)
(***************************************************************************)
EXTENDS PageSync, ForkSync, WorkspaceStore, FiniteSetTheorems, WellFoundedInduction, TLAPS

Maybe == Snapshot \cup {None}

PageState == [local: SUBSET Tab, canon: Snapshot, last: Maybe, staged: Maybe,
              queued: Maybe, sent: Maybe, acked: BOOLEAN, failed: Maybe]

Get == [force: BOOLEAN, answer: Maybe]
PageSave == [page: Page, snap: Snapshot]

(* Every variable has the type that the code gives it.                     *)
TypeOK ==
    /\ server \in Snapshot
    /\ live \subseteq Tab
    /\ page \in [Page -> PageState]
    /\ request \in [Page -> Maybe]
    /\ reply \in [Page -> Maybe \cup {Conflict}]
    /\ late \subseteq PageSave
    /\ stream \in [Page -> Seq(Snapshot)]
    /\ fetch \in [Page -> SUBSET Get]
    /\ touched \in [Page -> SUBSET Tab]
    /\ due \in [Page -> SUBSET Tab]
    /\ used \in [edits: Nat, upsets: Nat]

LEMMA CurrentType ==
    ASSUME NEW local \in SUBSET Tab, NEW canon \in Snapshot
    PROVE  /\ Current(local, canon) \in Snapshot
           /\ Current(local, canon).tabs = local
           /\ Current(local, canon).rev = canon.rev
           /\ Current(local, canon).at = canon.at
BY DEF Current, Snapshot

----------------------------------------------------------------------------
(* What applying a snapshot does: nothing, or the page has it as its       *)
(* canonical record and keeps what it has edited since the base.           *)
PageMerged(pg, saved, base) ==
    IF saved.rev = pg.canon.rev THEN Rebase(base, pg.local, saved.tabs) ELSE saved.tabs

Base(pg, echo) == IF echo # None THEN echo.tabs ELSE pg.canon.tabs

Slots(pg) == {pg.staged, pg.queued, pg.sent, pg.failed}

Applied(old, new, saved, echo) ==
    /\ ~Older(saved, old.canon)
    /\ new.canon = saved
    /\ new.local = PageMerged(old, saved, Base(old, echo))
    /\ Slots(new) \subseteq {None, old.sent, Current(new.local, new.canon)}

LEMMA ApplyLemma ==
    ASSUME NEW pg \in PageState, NEW saved \in Snapshot, NEW ours \in Maybe,
           NEW force \in BOOLEAN
    PROVE  LET new == Apply(pg, saved, ours, force)
           IN  /\ new \in PageState
               /\ new.sent = pg.sent
               /\ new = pg \/ Applied(pg, new, saved, Echo(pg, saved, ours))
<1> DEFINE echo == Echo(pg, saved, ours)
           merged == PageMerged(pg, saved, Base(pg, echo))
           next == Current(merged, saved)
           new == Apply(pg, saved, ours, force)
           applied == [pg EXCEPT !.local = merged, !.canon = saved, !.last = saved,
                                 !.staged = IF SameActivity(saved, next) THEN None ELSE next,
                                 !.queued = None, !.failed = None,
                                 !.acked = @ \/ echo # None]
<1>1. new = IF Ignored(pg, saved, ours, force) THEN pg ELSE applied
  BY DEF Apply, PageMerged, Base
<1>2. echo \in Maybe
  BY DEF Echo, PageState, Maybe
<1>3. Base(pg, echo) \in SUBSET Tab
  BY <1>2 DEF Base, Maybe, PageState, Snapshot
<1>4. merged \in SUBSET Tab
  BY <1>3 DEF PageMerged, Rebase, PageState, Snapshot
<1>5. next \in Snapshot
  BY <1>4, CurrentType
<1>6. CASE Ignored(pg, saved, ours, force)
  BY <1>1, <1>6 DEF PageState
<1>7. CASE ~Ignored(pg, saved, ours, force)
  <2> HIDE DEF merged, next, echo
  <2>1. new = applied
    BY <1>1, <1>7
  <2>2. applied \in PageState
    BY <1>4, <1>5 DEF PageState, Maybe
  <2>3. /\ applied.canon = saved /\ applied.local = merged /\ applied.sent = pg.sent
        /\ applied.staged \in {None, next} /\ applied.queued = None /\ applied.failed = None
    BY DEF PageState
  <2>4. ~Older(saved, pg.canon)
    BY <1>7 DEF Ignored
  <2>5. Applied(pg, applied, saved, echo)
    BY <2>3, <2>4 DEF Applied, Slots, merged, next
  <2> QED BY <2>1, <2>2, <2>3, <2>5 DEF echo
<1> QED BY <1>6, <1>7

----------------------------------------------------------------------------
LEMMA HydratedType ==
    ASSUME NEW saved \in Snapshot
    PROVE  /\ Hydrated(saved) \in PageState
           /\ Hydrated(saved).local = saved.tabs /\ Hydrated(saved).canon = saved
           /\ Slots(Hydrated(saved)) \subseteq {None, Current(saved.tabs, saved)}
           /\ Hydrated(saved).sent = None
           /\ Settled(saved) \in PageState
           /\ Settled(saved).local = saved.tabs /\ Settled(saved).canon = saved
           /\ Slots(Settled(saved)) = {None}
<1>1. Current(saved.tabs, saved) \in Snapshot /\ saved.tabs \in SUBSET Tab
  BY CurrentType DEF Snapshot
<1> QED BY <1>1 DEF Hydrated, Settled, PageState, Maybe, Slots

LEMMA InitType == Init => TypeOK
<1> SUFFICES ASSUME Init PROVE TypeOK
  OBVIOUS
<1>1. server \in Snapshot /\ live \subseteq Tab
  BY TabsAssumption DEF Init, Snapshot
<1>2. page \in [Page -> PageState]
  BY <1>1, HydratedType DEF Init
<1> QED BY <1>1, <1>2 DEF Init, TypeOK, Maybe

\* A page that sends what it has queued, or waits for an answer.
LEMMA FlushType ==
    ASSUME TypeOK, NEW p \in Page, NEW pg \in PageState, Flush(p, pg)
    PROVE  /\ page' \in [Page -> PageState] /\ request' \in [Page -> Maybe]
           /\ \A q \in Page : q # p => page'[q] = page[q] /\ request'[q] = request[q]
           /\ page'[p].local = pg.local /\ page'[p].canon = pg.canon
           /\ Slots(page'[p]) \subseteq Slots(pg) \cup {None}
           /\ \/ request'[p] = request[p] /\ page'[p].sent = pg.sent
              \/ pg.sent = None /\ request'[p] = pg.queued /\ page'[p].sent = pg.queued
<1>1. CASE pg.sent = None /\ pg.queued # None
  <2> DEFINE new == [pg EXCEPT !.sent = pg.queued, !.queued = None, !.acked = FALSE]
  <2>1. new \in PageState /\ new.local = pg.local /\ new.canon = pg.canon
        /\ Slots(new) \subseteq Slots(pg) \cup {None} /\ new.sent = pg.queued
    BY DEF PageState, Maybe, Slots
  <2>2. page' = [page EXCEPT ![p] = new] /\ request' = [request EXCEPT ![p] = pg.queued]
    BY <1>1 DEF Flush
  <2>3. pg.queued \in Maybe
    BY DEF PageState
  <2> HIDE DEF new
  <2> QED BY <1>1, <2>1, <2>2, <2>3 DEF TypeOK
<1>2. CASE ~(pg.sent = None /\ pg.queued # None)
  BY <1>2 DEF Flush, TypeOK
<1> QED BY <1>1, <1>2

LEMMA CommitType ==
    ASSUME TypeOK, NEW p \in Page, NEW snap \in Snapshot, Commit(p, snap)
    PROVE  /\ server' \in Snapshot /\ stream' \in [Page -> Seq(Snapshot)]
           /\ due' \in [Page -> SUBSET Tab]
<1>1. server' \in Snapshot
  BY DEF Commit, TypeOK, Snapshot
<1>2. stream' \in [Page -> Seq(Snapshot)]
  BY <1>1 DEF Commit, Publish, TypeOK
<1> QED BY <1>1, <1>2 DEF Commit, TypeOK

LEMMA EndedType ==
    ASSUME NEW pg \in PageState
    PROVE  /\ Ended(pg) \in PageState
           /\ Ended(pg).local = pg.local /\ Ended(pg).canon = pg.canon
           /\ Slots(Ended(pg)) \subseteq Slots(pg) \cup {None}
           /\ [Ended(pg) EXCEPT !.failed = pg.sent] \in PageState
           /\ [Ended(pg) EXCEPT !.failed = pg.sent].local = pg.local
           /\ [Ended(pg) EXCEPT !.failed = pg.sent].canon = pg.canon
           /\ Slots([Ended(pg) EXCEPT !.failed = pg.sent]) \subseteq Slots(pg) \cup {None}
BY DEF Ended, PageState, Maybe, Slots

LEMMA TypeStep == TypeOK /\ [Next]_vars => TypeOK'
<1> SUFFICES ASSUME TypeOK, [Next]_vars PROVE TypeOK'
  OBVIOUS
<1> USE DEF net, ghosts
<1>0. /\ \A p \in Page : page[p] \in PageState
      /\ [used EXCEPT !.edits = @ + 1] \in [edits: Nat, upsets: Nat]
      /\ [used EXCEPT !.upsets = @ + 1] \in [edits: Nat, upsets: Nat]
  BY DEF TypeOK
<1>00. \A force \in BOOLEAN : [force |-> force, answer |-> None] \in Get
  BY DEF Get, Maybe
<1>1. ASSUME NEW p \in Page, NEW t \in Tab, Edit(p, t) PROVE TypeOK'
  <2> DEFINE local == Toggled(page[p].local, t)
             next == Current(local, page[p].canon)
  <2>1. local \in SUBSET Tab /\ page[p].canon \in Snapshot
    BY DEF Toggled, TypeOK, PageState
  <2>2. next \in Snapshot
    BY <2>1, CurrentType
  <2>3. page' = [page EXCEPT ![p].local = local,
                        ![p].staged = IF SameActivity(page[p].last, next) /\ page[p].failed = None
                                      THEN @ ELSE next]
    BY <1>1 DEF Edit
  <2> HIDE DEF local, next
  <2>4. page[p] \in PageState
    BY DEF TypeOK
  <2>5. \A staged \in Maybe : [page[p] EXCEPT !.local = local, !.staged = staged] \in PageState
    BY <2>1, <2>4 DEF PageState
  <2>10. page[p].staged \in Maybe
    BY <2>4 DEF PageState
  <2>6. \E staged \in Maybe :
           page' = [page EXCEPT ![p] = [page[p] EXCEPT !.local = local, !.staged = staged]]
    BY <2>2, <2>3, <2>10 DEF TypeOK, Maybe
  <2>7. page' \in [Page -> PageState]
    BY <2>5, <2>6 DEF TypeOK
  <2>8. touched' \in [Page -> SUBSET Tab] /\ due' \in [Page -> SUBSET Tab]
    BY <1>1 DEF Edit, TypeOK
  <2>9. used' \in [edits: Nat, upsets: Nat]
    BY <1>0, <1>1 DEF Edit
  <2> QED BY <1>1, <2>7, <2>8, <2>9 DEF Edit, TypeOK
<1>2. ASSUME NEW p \in Page, CommitStaged(p) PROVE TypeOK'
  <2>1. page[p] \in PageState
    BY DEF TypeOK
  <2>2. [page[p] EXCEPT !.queued = page[p].staged, !.staged = None] \in PageState
    BY <2>1 DEF PageState, Maybe
  <2>3. page' \in [Page -> PageState] /\ request' \in [Page -> Maybe]
    BY <1>2, <2>2, FlushType DEF CommitStaged
  <2> QED BY <1>2, <2>3 DEF CommitStaged, TypeOK
<1>3. ASSUME NEW p \in Page, FlushNext(p) PROVE TypeOK'
  <2>1. page[p] \in PageState
    BY DEF TypeOK
  <2>2. page' \in [Page -> PageState] /\ request' \in [Page -> Maybe]
    BY <1>3, <2>1, FlushType DEF FlushNext
  <2> QED BY <1>3, <2>2 DEF FlushNext, TypeOK
<1>4. ASSUME NEW p \in Page, Retry(p) PROVE TypeOK'
  <2>0. page[p] \in PageState
    BY DEF TypeOK
  <2>1. PICK save \in Slots(page[p]) :
           Flush(p, [page[p] EXCEPT !.queued = save, !.staged = None])
    BY <1>4 DEF Retry, Slots
  <2>2. [page[p] EXCEPT !.queued = save, !.staged = None] \in PageState
    BY <2>0, <2>1 DEF PageState, Maybe, Slots
  <2>3. page' \in [Page -> PageState] /\ request' \in [Page -> Maybe]
    BY <2>1, <2>2, FlushType
  <2> QED BY <1>4, <2>3 DEF Retry, TypeOK
<1>5. ASSUME NEW p \in Page, HandleSave(p) PROVE TypeOK'
  <2>1. request[p] \in Snapshot
    BY <1>5 DEF HandleSave, TypeOK, Maybe
  <2>2. CASE Accepts(request[p])
    <3>1. Commit(p, request[p]) /\ reply' = [reply EXCEPT ![p] = server']
      BY <1>5, <2>2 DEF HandleSave
    <3>2. /\ server' \in Snapshot /\ stream' \in [Page -> Seq(Snapshot)]
          /\ due' \in [Page -> SUBSET Tab]
      BY <2>1, <3>1, CommitType
    <3> QED BY <1>5, <3>1, <3>2 DEF HandleSave, TypeOK, Maybe
  <2>3. CASE ~Accepts(request[p])
    BY <1>5, <2>3 DEF HandleSave, TypeOK, Maybe
  <2> QED BY <2>2, <2>3
<1>6. ASSUME NEW save \in late, HandleLate(save) PROVE TypeOK'
  <2>1. save.snap \in Snapshot /\ save.page \in Page
    BY DEF TypeOK, PageSave
  <2>2. CASE Accepts(save.snap)
    <3>1. Commit(save.page, save.snap)
      BY <1>6, <2>2 DEF HandleLate
    <3>2. /\ server' \in Snapshot /\ stream' \in [Page -> Seq(Snapshot)]
          /\ due' \in [Page -> SUBSET Tab]
      BY <2>1, <3>1, CommitType
    <3> QED BY <1>6, <3>2 DEF HandleLate, TypeOK
  <2>3. CASE ~Accepts(save.snap)
    BY <1>6, <2>3 DEF HandleLate, TypeOK
  <2> QED BY <2>2, <2>3
<1>7. ASSUME NEW save \in late, LoseLate(save) PROVE TypeOK'
  BY <1>7 DEF LoseLate, TypeOK
<1>8. ASSUME NEW old \in Tab, NEW new \in Tab, Rename(old, new) PROVE TypeOK'
  <2>1. server' \in Snapshot
    BY <1>8 DEF Rename, TypeOK, Snapshot
  <2>2. stream' \in [Page -> Seq(Snapshot)]
    BY <1>8, <2>1 DEF Rename, Publish, TypeOK
  <2>3. live' \subseteq Tab
    BY <1>8 DEF Rename, TypeOK
  <2> QED BY <1>0, <1>8, <2>1, <2>2, <2>3 DEF Rename, TypeOK
<1>9. ASSUME NEW p \in Page, Saves(p) PROVE TypeOK'
  <2> DEFINE new == Apply(page[p], reply[p], page[p].sent, FALSE)
  <2>1. page[p] \in PageState /\ page[p].sent \in Maybe /\ reply[p] \in Snapshot
    BY <1>9 DEF Saves, TypeOK, PageState
  <2>2. new \in PageState
    BY <2>1, ApplyLemma
  <2>3. page' = [page EXCEPT ![p] = Ended(new)]
    BY <1>9 DEF Saves
  <2> HIDE DEF new
  <2>4. Ended(new) \in PageState
    BY <2>2, EndedType
  <2> QED BY <1>9, <2>3, <2>4 DEF Saves, TypeOK, Maybe
<1>10. ASSUME NEW p \in Page, Conflicts(p) PROVE TypeOK'
  <2>1. Ended(page[p]) \in PageState
    BY <1>0, EndedType
  <2>2. page' = [page EXCEPT ![p] = Ended(page[p])]
    BY <1>10 DEF Conflicts
  <2>3. fetch' \in [Page -> SUBSET Get]
    BY <1>10, <1>00 DEF Conflicts, TypeOK
  <2>4. page' \in [Page -> PageState] /\ reply' \in [Page -> Maybe \cup {Conflict}]
    BY <1>10, <2>1, <2>2 DEF Conflicts, TypeOK, Maybe
  <2> QED BY <1>10, <2>3, <2>4 DEF Conflicts, TypeOK
<1>11. ASSUME NEW p \in Page, Fails(p) PROVE TypeOK'
  <2>1. /\ Ended(page[p]) \in PageState
        /\ [Ended(page[p]) EXCEPT !.failed = page[p].sent] \in PageState
    BY <1>0, EndedType
  <2>2. page' \in [Page -> PageState]
    BY <1>11, <2>1 DEF Fails, TypeOK
  <2>3. late' \subseteq PageSave
    BY <1>11 DEF Fails, TypeOK, PageSave, Maybe
  <2>4. request' \in [Page -> Maybe] /\ reply' \in [Page -> Maybe \cup {Conflict}]
    BY <1>11 DEF Fails, TypeOK, Maybe
  <2> QED BY <1>0, <1>11, <2>2, <2>3, <2>4 DEF Fails, TypeOK
<1>12. ASSUME NEW p \in Page, Streams(p) PROVE TypeOK'
  <2>1. page[p] \in PageState /\ Head(stream[p]) \in Snapshot /\ Tail(stream[p]) \in Seq(Snapshot)
    BY <1>12 DEF Streams, TypeOK
  <2>2. Apply(page[p], Head(stream[p]), None, FALSE) \in PageState
    BY <2>1, ApplyLemma DEF Maybe
  <2> QED BY <1>12, <2>1, <2>2 DEF Streams, TypeOK
<1>13. ASSUME NEW p \in Page, Coalesces(p) PROVE TypeOK'
  <2>1. Tail(stream[p]) \in Seq(Snapshot)
    BY <1>13 DEF Coalesces, TypeOK
  <2> QED BY <1>0, <1>13, <2>1 DEF Coalesces, TypeOK
<1>14. ASSUME NEW p \in Page, Refresh(p) PROVE TypeOK'
  <2>1. fetch' \in [Page -> SUBSET Get]
    BY <1>14, <1>00 DEF Refresh, TypeOK
  <2> QED BY <1>0, <1>14, <2>1 DEF Refresh, TypeOK
<1>15. ASSUME NEW p \in Page, NEW get \in fetch[p], HandleFetch(p, get) PROVE TypeOK'
  <2>1. get \in Get
    BY DEF TypeOK
  <2>2. [get EXCEPT !.answer = server] \in Get
    BY <2>1 DEF TypeOK, Get, Maybe
  <2> QED BY <1>15, <2>2 DEF HandleFetch, TypeOK
<1>16. ASSUME NEW p \in Page, NEW get \in fetch[p], Fetched(p, get) PROVE TypeOK'
  <2>1. page[p] \in PageState /\ get.answer \in Snapshot /\ get.force \in BOOLEAN
    BY <1>16 DEF Fetched, TypeOK, Get, Maybe
  <2>2. Apply(page[p], get.answer, None, get.force) \in PageState
    BY <2>1, ApplyLemma DEF Maybe
  <2> QED BY <1>16, <2>2 DEF Fetched, TypeOK
<1>17. ASSUME NEW p \in Page, NEW get \in fetch[p], FetchFails(p, get) PROVE TypeOK'
  BY <1>0, <1>17 DEF FetchFails, TypeOK
<1>18. ASSUME NEW p \in Page, Reload(p) PROVE TypeOK'
  <2> DEFINE now == Current(page[p].local, page[p].canon)
  <2>1. now \in Snapshot
    BY CurrentType DEF TypeOK, PageState
  <2>2. Hydrated(server) \in PageState
    BY HydratedType DEF TypeOK
  <2> HIDE DEF now
  <2>3. late' \subseteq PageSave
    BY <1>18, <2>1 DEF Reload, TypeOK, PageSave, Maybe, now
  <2>4. page' \in [Page -> PageState]
    BY <1>18, <2>2 DEF Reload, TypeOK
  <2>5. stream' \in [Page -> Seq(Snapshot)]
    BY <1>18 DEF Reload, TypeOK
  <2>6. request' \in [Page -> Maybe] /\ reply' \in [Page -> Maybe \cup {Conflict}]
    BY <1>18 DEF Reload, TypeOK, Maybe
  <2> QED BY <1>0, <1>18, <2>3, <2>4, <2>5, <2>6 DEF Reload, TypeOK
<1>19. CASE UNCHANGED vars
  BY <1>19 DEF vars, TypeOK
<1> QED
  BY <1>1, <1>2, <1>3, <1>4, <1>5, <1>6, <1>7, <1>8, <1>9, <1>10, <1>11, <1>12, <1>13,
     <1>14, <1>15, <1>16, <1>17, <1>18, <1>19 DEF Next, User, System, Environment

(* Every variable keeps its type: saves, answers and snapshots are records *)
(* of the workspace wherever they wait.                                    *)
THEOREM Typing == Spec => []TypeOK
BY InitType, TypeStep, PTL DEF Spec

----------------------------------------------------------------------------
(* Records: what the store has and what is known of it on the pages and on *)
(* the way to them.  A page's own: its saves, and what it shows.           *)
Records ==
    {r \in Snapshot :
        \/ r = server
        \/ \E p \in Page : \/ r \in {page[p].canon, reply[p]}
                           \/ \E i \in DOMAIN stream[p] : r = stream[p][i]
                           \/ \E get \in fetch[p] : r = get.answer}

Shown(p) == Current(page[p].local, page[p].canon)

Own(p) ==
    {s \in Snapshot : \/ s \in Slots(page[p]) \cup {request[p], Shown(p)}
                      \/ [page |-> p, snap |-> s] \in late}

Keeps(p) == page'[p].local = page[p].local /\ page'[p].canon = page[p].canon

Edits(p) ==
    /\ UNCHANGED <<server, live>>
    /\ page'[p].canon = page[p].canon
    /\ \E t \in page[p].local \cup live :
          /\ page'[p].local = Toggled(page[p].local, t)
          /\ touched'[p] = touched[p] \cup {t}

Applies(p) ==
    /\ UNCHANGED <<server, live>>
    /\ \E saved \in Records, echo \in Maybe :
          /\ ~Older(saved, page[p].canon)
          /\ page'[p].canon = saved
          /\ page'[p].local = PageMerged(page[p], saved, Base(page[p], echo))
          /\ echo # None => /\ echo = page[p].sent
                            /\ echo.at = page[p].canon.at \/ saved = reply[p]

Hydrates(p) ==
    /\ UNCHANGED <<server, live>>
    /\ page'[p].canon = server /\ page'[p].local = server.tabs

Commits ==
    /\ UNCHANGED live
    /\ \E p \in Page : \E s \in Own(p) :
          /\ Accepts(s)
          /\ server' = [tabs |-> s.tabs, rev |-> server.rev, at |-> server.at + 1]

PageFlows(p) ==
    /\ Own(p)' \subseteq Own(p) \cup {Shown(p)'}
    /\ Slots(page'[p]) \subseteq Slots(page[p]) \cup {None, Shown(p)'}
    /\ touched[p] \subseteq touched'[p]
    /\ Keeps(p) \/ Edits(p) \/ Applies(p) \/ Hydrates(p)

Flows ==
    /\ Records' \subseteq Records \cup {server'}
    /\ \A p \in Page : PageFlows(p)
    /\ \/ UNCHANGED <<server, live>>
       \/ Commits
       \/ \E old, new \in Tab : Rename(old, new)

LEMMA KnownRecords ==
    ASSUME TypeOK
    PROVE  /\ server \in Records
           /\ \A p \in Page :
                 /\ page[p].canon \in Records
                 /\ reply[p] \in Snapshot => reply[p] \in Records
                 /\ \A i \in DOMAIN stream[p] : stream[p][i] \in Records
                 /\ \A get \in fetch[p] : get.answer \in Snapshot => get.answer \in Records
<1>1. \A p \in Page : page[p].canon \in Snapshot
  BY DEF TypeOK, PageState
<1>2. \A p \in Page : \A i \in DOMAIN stream[p] : stream[p][i] \in Snapshot
  BY DEF TypeOK
<1> QED BY <1>1, <1>2 DEF Records, TypeOK

\* What a page knows after the step comes from the store.
Informed(p) ==
    /\ page'[p].canon \in Records \cup {server'}
    /\ reply'[p] \in Snapshot => reply'[p] \in Records \cup {server'}
    /\ \A i \in DOMAIN stream'[p] : stream'[p][i] \in Records \cup {server'}
    /\ \A get \in fetch'[p] : get.answer \in Snapshot => get.answer \in Records \cup {server'}

LEMMA RecordsFlow ==
    ASSUME \A p \in Page : Informed(p)
    PROVE  Records' \subseteq Records \cup {server'}
BY DEF Records, Informed

LEMMA OwnFlow ==
    ASSUME NEW p \in Page,
           Slots(page'[p]) \subseteq Slots(page[p]) \cup {None, Shown(p)'},
           request'[p] \in Slots(page[p]) \cup {request[p], None},
           \A s \in Snapshot : [page |-> p, snap |-> s] \in late' =>
              \/ [page |-> p, snap |-> s] \in late
              \/ s \in Slots(page[p]) \cup {request[p], Shown(p)}
    PROVE  /\ Own(p)' \subseteq Own(p) \cup {Shown(p)'}
           /\ Slots(page'[p]) \subseteq Slots(page[p]) \cup {None, Shown(p)'}
BY AnswersAssumption DEF Own

LEMMA SamePage ==
    ASSUME NEW p \in Page, page'[p] = page[p], request'[p] \in {request[p], None},
           touched'[p] = touched[p],
           \A s \in Snapshot : [page |-> p, snap |-> s] \in late' =>
              [page |-> p, snap |-> s] \in late
    PROVE  PageFlows(p)
<1>1. /\ Own(p)' \subseteq Own(p) \cup {Shown(p)'}
      /\ Slots(page'[p]) = Slots(page[p])
  BY OwnFlow DEF Slots
<1> QED BY <1>1 DEF PageFlows, Keeps

LEMMA CommitFlows ==
    ASSUME TypeOK, NEW p \in Page, NEW s \in Own(p), Accepts(s), Commit(p, s),
           UNCHANGED <<live, page, fetch, touched>>,
           \A q \in Page : reply'[q] \in {reply[q], server', Conflict, None},
           \A q \in Page : request'[q] \in {request[q], None},
           late' \subseteq late
    PROVE  Flows
<1>1. \A q \in Page : PageFlows(q)
  BY SamePage
<1>2. ASSUME NEW q \in Page PROVE Informed(q)
  <2>1. stream'[q] = Append(stream[q], server') /\ stream[q] \in Seq(Snapshot)
    BY DEF Commit, Publish, TypeOK
  <2>2. \A i \in DOMAIN stream'[q] : stream'[q][i] \in Records \cup {server'}
    BY <2>1, KnownRecords
  <2> QED BY <2>2, KnownRecords, AnswersAssumption DEF Informed
<1>3. Commits
  BY DEF Commits, Commit
<1> QED BY <1>1, <1>2, <1>3, RecordsFlow DEF Flows

\* A step of one page that leaves the store alone.
LEMMA OnePage ==
    ASSUME TypeOK, NEW p \in Page, UNCHANGED <<server, live>>,
           PageFlows(p), Informed(p),
           \A q \in Page : q # p =>
              /\ page'[q] = page[q] /\ request'[q] = request[q] /\ reply'[q] = reply[q]
              /\ stream'[q] = stream[q] /\ fetch'[q] = fetch[q] /\ touched'[q] = touched[q]
              /\ \A s \in Snapshot : [page |-> q, snap |-> s] \in late' =>
                    [page |-> q, snap |-> s] \in late
    PROVE  Flows
<1>1. \A q \in Page : PageFlows(q)
  BY SamePage
<1>2. \A q \in Page : Informed(q)
  BY KnownRecords DEF Informed
<1> QED BY <1>1, <1>2, RecordsFlow DEF Flows

\* What a flush takes out and leaves.
LEMMA FlushFlows ==
    ASSUME TypeOK, NEW p \in Page, NEW pg \in PageState, Flush(p, pg),
           pg.local = page[p].local, pg.canon = page[p].canon,
           Slots(pg) \subseteq Slots(page[p]) \cup {None},
           UNCHANGED <<server, live, reply, late, stream, fetch, ghosts, used>>
    PROVE  Flows
<1>1. pg.queued \in Slots(pg)
  BY DEF Slots
<1>2. PageFlows(p)
  <2>1. /\ Own(p)' \subseteq Own(p) \cup {Shown(p)'}
        /\ Slots(page'[p]) \subseteq Slots(page[p]) \cup {None, Shown(p)'}
    BY <1>1, FlushType, OwnFlow
  <2> QED BY <2>1, FlushType DEF PageFlows, Keeps, ghosts
<1>3. Informed(p)
  BY FlushType, KnownRecords DEF Informed
<1> QED BY <1>2, <1>3, FlushType, OnePage DEF ghosts

\* A page applies a record, as an answer or as news.
LEMMA ApplyFlows ==
    ASSUME TypeOK, NEW p \in Page, NEW saved \in Records, NEW ours \in Maybe,
           NEW force \in BOOLEAN,
           ours # None => ours = page[p].sent /\ saved = reply[p],
           LET new == Apply(page[p], saved, ours, force)
           IN  /\ page'[p] \in {new, Ended(new)}
               /\ \A q \in Page : q # p => page'[q] = page[q],
           UNCHANGED <<server, live, request, late, touched>>,
           \A q \in Page :
              /\ q # p => /\ reply'[q] = reply[q] /\ stream'[q] = stream[q]
                          /\ fetch'[q] = fetch[q]
              /\ reply'[q] \in {reply[q], None}
              /\ \/ stream'[q] = stream[q]
                 \/ stream[q] # <<>> /\ stream'[q] = Tail(stream[q])
              /\ fetch'[q] \subseteq fetch[q]
    PROVE  Flows
<1> DEFINE new == Apply(page[p], saved, ours, force)
           echo == Echo(page[p], saved, ours)
<1>0. page[p] \in PageState /\ saved \in Snapshot
  BY DEF TypeOK, Records
<1>1. /\ new \in PageState /\ new.sent = page[p].sent
      /\ new = page[p] \/ Applied(page[p], new, saved, echo)
  BY <1>0, ApplyLemma
<1>2. page'[p].local = new.local /\ page'[p].canon = new.canon
      /\ Slots(page'[p]) \subseteq Slots(new) \cup {None}
  BY <1>1, EndedType
<1>3. echo \in Maybe /\ (echo # None => /\ echo = page[p].sent
                                        /\ echo.at = page[p].canon.at \/ saved = reply[p])
  BY <1>0 DEF Echo, PageState, Maybe
<1> HIDE DEF new, echo
<1>4. Shown(p)' = Current(new.local, new.canon)
  BY <1>2 DEF Shown, Current
<1>5. Slots(page'[p]) \subseteq Slots(page[p]) \cup {None, Shown(p)'}
  <2>1. page[p].sent \in Slots(page[p])
    BY DEF Slots
  <2> QED BY <1>1, <1>2, <1>4, <2>1 DEF Applied
<1>6. Keeps(p) \/ Applies(p)
  BY <1>1, <1>2, <1>3 DEF Keeps, Applies, Applied
<1>7. PageFlows(p)
  BY <1>5, <1>6, OwnFlow DEF PageFlows
<1>8. Informed(p)
  <2>1. page'[p].canon \in Records
    BY <1>1, <1>2, KnownRecords DEF Applied
  <2>2. \A i \in DOMAIN stream'[p] : stream'[p][i] \in Records
    <3>1. stream[p] \in Seq(Snapshot) /\ \A i \in DOMAIN stream[p] : stream[p][i] \in Records
      BY KnownRecords DEF TypeOK
    <3>2. stream[p] # <<>> =>
             \A i \in DOMAIN Tail(stream[p]) : Tail(stream[p])[i] \in Records
      BY <3>1
    <3> QED BY <3>1, <3>2
  <2> QED BY <2>1, <2>2, KnownRecords, AnswersAssumption DEF Informed
<1> QED BY <1>7, <1>8, OnePage

LEMMA StepFlows == TypeOK /\ [Next]_vars => Flows
<1> SUFFICES ASSUME TypeOK, [Next]_vars PROVE Flows
  OBVIOUS
<1> USE DEF net, ghosts
<1>0. /\ \A p \in Page : page[p] \in PageState
      /\ None \in Maybe /\ Snapshot \subseteq Maybe
  BY DEF TypeOK, Maybe
<1>1. ASSUME NEW p \in Page, NEW t \in Tab, Edit(p, t) PROVE Flows
  <2> DEFINE local == Toggled(page[p].local, t)
             next == Current(local, page[p].canon)
  <2>1. page' = [page EXCEPT ![p].local = local,
                        ![p].staged = IF SameActivity(page[p].last, next) /\ page[p].failed = None
                                      THEN @ ELSE next]
    BY <1>1 DEF Edit
  <2>2. next = Current(local, page[p].canon)
    OBVIOUS
  <2> HIDE DEF local, next
  <2>3. /\ page'[p].local = local /\ page'[p].canon = page[p].canon
        /\ Slots(page'[p]) \subseteq Slots(page[p]) \cup {next}
        /\ \A q \in Page : q # p => page'[q] = page[q]
    BY <1>0, <2>1 DEF PageState, Slots, TypeOK
  <2>4. next = Shown(p)'
    BY <2>2, <2>3 DEF Shown, Current
  <2>5. touched'[p] = touched[p] \cup {t} /\ \A q \in Page : q # p => touched'[q] = touched[q]
    BY <1>1 DEF Edit, TypeOK
  <2>6. Edits(p)
    BY <1>1, <2>3, <2>5 DEF Edit, Edits, local
  <2>7. PageFlows(p)
    BY <1>1, <2>3, <2>4, <2>5, <2>6, OwnFlow DEF PageFlows, Edit
  <2>8. Informed(p)
    BY <1>1, <2>3, KnownRecords DEF Informed, Edit
  <2> QED BY <1>1, <2>3, <2>5, <2>7, <2>8, OnePage DEF Edit
<1>2. ASSUME NEW p \in Page, CommitStaged(p) PROVE Flows
  <2> DEFINE pg == [page[p] EXCEPT !.queued = page[p].staged, !.staged = None]
  <2>1. /\ pg \in PageState /\ pg.local = page[p].local /\ pg.canon = page[p].canon
        /\ Slots(pg) \subseteq Slots(page[p]) \cup {None}
    BY <1>0 DEF PageState, Maybe, Slots
  <2> QED BY <1>2, <2>1, FlushFlows DEF CommitStaged
<1>3. ASSUME NEW p \in Page, FlushNext(p) PROVE Flows
  BY <1>0, <1>3, FlushFlows DEF FlushNext
<1>4. ASSUME NEW p \in Page, Retry(p) PROVE Flows
  <2>1. PICK save \in Slots(page[p]) :
           Flush(p, [page[p] EXCEPT !.queued = save, !.staged = None])
    BY <1>4 DEF Retry, Slots
  <2> DEFINE pg == [page[p] EXCEPT !.queued = save, !.staged = None]
  <2>2. /\ pg \in PageState /\ pg.local = page[p].local /\ pg.canon = page[p].canon
        /\ Slots(pg) \subseteq Slots(page[p]) \cup {None}
    BY <1>0, <2>1 DEF PageState, Maybe, Slots
  <2> QED BY <1>4, <2>1, <2>2, FlushFlows DEF Retry
<1>5. ASSUME NEW p \in Page, HandleSave(p) PROVE Flows
  <2>1. request[p] \in Snapshot /\ request[p] \in Own(p)
    BY <1>5 DEF HandleSave, TypeOK, Maybe, Own
  <2>2. /\ \A q \in Page : request'[q] \in {request[q], None}
        /\ \A q \in Page : q # p => request'[q] = request[q]
    BY <1>5 DEF HandleSave, TypeOK
  <2>3. CASE Accepts(request[p])
    <3>1. Commit(p, request[p]) /\ \A q \in Page : reply'[q] \in {reply[q], server', Conflict, None}
      BY <1>5, <2>3 DEF HandleSave, TypeOK
    <3> QED BY <1>5, <2>1, <2>2, <2>3, <3>1, CommitFlows DEF HandleSave
  <2>4. CASE ~Accepts(request[p])
    <3>1. /\ UNCHANGED <<server, live, page, late, stream, fetch, touched>>
          /\ reply'[p] = Conflict /\ \A q \in Page : q # p => reply'[q] = reply[q]
      BY <1>5, <2>4 DEF HandleSave, TypeOK
    <3>2. PageFlows(p)
      BY <2>2, <3>1, SamePage
    <3>3. Informed(p)
      BY <3>1, KnownRecords, AnswersAssumption DEF Informed
    <3> QED BY <2>2, <3>1, <3>2, <3>3, OnePage
  <2> QED BY <2>3, <2>4
<1>6. ASSUME NEW save \in late, HandleLate(save) PROVE Flows
  <2>1. /\ save.snap \in Snapshot /\ save.page \in Page
        /\ save = [page |-> save.page, snap |-> save.snap]
    BY DEF TypeOK, PageSave
  <2>2. save.snap \in Own(save.page)
    BY <2>1 DEF Own
  <2>3. CASE Accepts(save.snap)
    BY <1>6, <2>1, <2>2, <2>3, CommitFlows DEF HandleLate
  <2>4. CASE ~Accepts(save.snap)
    <3>1. UNCHANGED <<server, live, page, request, reply, stream, fetch, touched>> /\ late' \subseteq late
      BY <1>6, <2>4 DEF HandleLate
    <3>2. PageFlows(save.page)
      BY <2>1, <3>1, SamePage
    <3>3. Informed(save.page)
      BY <2>1, <3>1, KnownRecords DEF Informed
    <3> QED BY <2>1, <3>1, <3>2, <3>3, OnePage
  <2> QED BY <2>3, <2>4
<1>7. ASSUME NEW save \in late, LoseLate(save) PROVE Flows
  <2>1. save.page \in Page
    BY DEF TypeOK, PageSave
  <2>2. UNCHANGED <<server, live, page, request, reply, stream, fetch, touched>> /\ late' \subseteq late
    BY <1>7 DEF LoseLate
  <2>3. PageFlows(save.page)
    BY <2>1, <2>2, SamePage
  <2>4. Informed(save.page)
    BY <2>1, <2>2, KnownRecords DEF Informed
  <2> QED BY <2>1, <2>2, <2>3, <2>4, OnePage
<1>8. ASSUME NEW old \in Tab, NEW new \in Tab, Rename(old, new) PROVE Flows
  <2>1. \A q \in Page : PageFlows(q)
    BY <1>8, SamePage DEF Rename
  <2>2. ASSUME NEW q \in Page PROVE Informed(q)
    <3>1. stream'[q] = Append(stream[q], server') /\ stream[q] \in Seq(Snapshot)
      BY <1>8 DEF Rename, Publish, TypeOK
    <3>2. \A i \in DOMAIN stream'[q] : stream'[q][i] \in Records \cup {server'}
      BY <3>1, KnownRecords
    <3> QED BY <1>8, <3>2, KnownRecords DEF Informed, Rename
  <2> QED BY <1>8, <2>1, <2>2, RecordsFlow DEF Flows
<1>9. ASSUME NEW p \in Page, Saves(p) PROVE Flows
  <2>1. reply[p] \in Records
    BY <1>9, KnownRecords DEF Saves
  <2>2. page[p].sent \in Maybe
    BY <1>0 DEF PageState
  <2>3. /\ page'[p] = Ended(Apply(page[p], reply[p], page[p].sent, FALSE))
        /\ \A q \in Page : q # p => page'[q] = page[q] /\ reply'[q] = reply[q]
        /\ \A q \in Page : reply'[q] \in {reply[q], None}
    BY <1>9 DEF Saves, TypeOK
  <2> QED BY <1>9, <2>1, <2>2, <2>3, ApplyFlows DEF Saves
<1>10. ASSUME NEW p \in Page, Conflicts(p) PROVE Flows
  <2>1. /\ page'[p] = Ended(page[p])
        /\ \A q \in Page : q # p => page'[q] = page[q] /\ reply'[q] = reply[q]
                                    /\ fetch'[q] = fetch[q]
        /\ reply'[p] = None
        /\ \A get \in fetch'[p] : get \in fetch[p] \/ get.answer = None
    BY <1>10 DEF Conflicts, TypeOK
  <2>2. PageFlows(p)
    BY <1>0, <1>10, <2>1, EndedType, OwnFlow DEF PageFlows, Keeps, Conflicts
  <2>3. Informed(p)
    <3>1. page'[p].canon = page[p].canon
      BY <1>0, <2>1, EndedType
    <3> QED BY <1>10, <2>1, <3>1, KnownRecords, AnswersAssumption DEF Informed, Conflicts
  <2> QED BY <1>10, <2>1, <2>2, <2>3, OnePage DEF Conflicts
<1>11. ASSUME NEW p \in Page, Fails(p) PROVE Flows
  <2>1. /\ page'[p] \in {Ended(page[p]), [Ended(page[p]) EXCEPT !.failed = page[p].sent]}
        /\ \A q \in Page : q # p => page'[q] = page[q] /\ reply'[q] = reply[q]
                                    /\ request'[q] = request[q]
        /\ reply'[p] = None /\ request'[p] = None
    BY <1>11 DEF Fails, TypeOK
  <2>2. \A q \in Page, s \in Snapshot : [page |-> q, snap |-> s] \in late' =>
           [page |-> q, snap |-> s] \in late \/ (q = p /\ s = request[p])
    BY <1>11 DEF Fails
  <2>3. /\ Keeps(p) /\ Slots(page'[p]) \subseteq Slots(page[p]) \cup {None}
    BY <1>0, <2>1, EndedType DEF Keeps
  <2>4. PageFlows(p)
    BY <1>11, <2>1, <2>2, <2>3, OwnFlow DEF PageFlows, Fails
  <2>5. Informed(p)
    BY <1>11, <2>1, <2>3, KnownRecords, AnswersAssumption DEF Informed, Keeps, Fails
  <2> QED BY <1>11, <2>1, <2>2, <2>4, <2>5, OnePage DEF Fails
<1>12. ASSUME NEW p \in Page, Streams(p) PROVE Flows
  <2>1. stream[p] \in Seq(Snapshot) /\ stream[p] # <<>>
    BY <1>12 DEF Streams, TypeOK
  <2>2. Head(stream[p]) \in Records
    BY <2>1, KnownRecords
  <2>3. /\ page'[p] = Apply(page[p], Head(stream[p]), None, FALSE)
        /\ \A q \in Page : q # p => page'[q] = page[q] /\ stream'[q] = stream[q]
        /\ stream'[p] = Tail(stream[p])
    BY <1>12 DEF Streams, TypeOK
  <2> QED BY <1>0, <1>12, <2>1, <2>2, <2>3, ApplyFlows DEF Streams
<1>13. ASSUME NEW p \in Page, Coalesces(p) PROVE Flows
  <2>1. stream[p] \in Seq(Snapshot) /\ stream[p] # <<>>
    BY <1>13 DEF Coalesces, TypeOK
  <2>2. stream'[p] = Tail(stream[p]) /\ \A q \in Page : q # p => stream'[q] = stream[q]
    BY <1>13 DEF Coalesces, TypeOK
  <2>3. PageFlows(p)
    BY <1>13, SamePage DEF Coalesces
  <2>4. Informed(p)
    <3>1. \A i \in DOMAIN Tail(stream[p]) : Tail(stream[p])[i] \in Records
      BY <2>1, KnownRecords
    <3> QED BY <1>13, <2>2, <3>1, KnownRecords DEF Informed, Coalesces
  <2> QED BY <1>13, <2>2, <2>3, <2>4, OnePage DEF Coalesces
<1>14. ASSUME NEW p \in Page, Refresh(p) PROVE Flows
  <2>1. /\ \A get \in fetch'[p] : get \in fetch[p] \/ get.answer = None
        /\ \A q \in Page : q # p => fetch'[q] = fetch[q]
    BY <1>14 DEF Refresh, TypeOK
  <2>2. PageFlows(p)
    BY <1>14, SamePage DEF Refresh
  <2>3. Informed(p)
    BY <1>14, <2>1, KnownRecords, AnswersAssumption DEF Informed, Refresh
  <2> QED BY <1>14, <2>1, <2>2, <2>3, OnePage DEF Refresh
<1>15. ASSUME NEW p \in Page, NEW get \in fetch[p], HandleFetch(p, get) PROVE Flows
  <2>0. get \in Get
    BY DEF TypeOK
  <2>1. /\ \A g \in fetch'[p] : g \in fetch[p] \/ g.answer = server
        /\ \A q \in Page : q # p => fetch'[q] = fetch[q]
    BY <1>15, <2>0 DEF HandleFetch, TypeOK, Get
  <2>2. PageFlows(p)
    BY <1>15, SamePage DEF HandleFetch
  <2>3. Informed(p)
    BY <1>15, <2>1, KnownRecords DEF Informed, HandleFetch
  <2> QED BY <1>15, <2>1, <2>2, <2>3, OnePage DEF HandleFetch
<1>16. ASSUME NEW p \in Page, NEW get \in fetch[p], Fetched(p, get) PROVE Flows
  <2>1. get.answer \in Snapshot /\ get.force \in BOOLEAN
    BY <1>16 DEF Fetched, TypeOK, Get, Maybe
  <2>2. get.answer \in Records
    BY <2>1, KnownRecords
  <2>3. /\ page'[p] = Apply(page[p], get.answer, None, get.force)
        /\ \A q \in Page : q # p => page'[q] = page[q] /\ fetch'[q] = fetch[q]
        /\ \A q \in Page : fetch'[q] \subseteq fetch[q]
    BY <1>16 DEF Fetched, TypeOK
  <2> QED BY <1>0, <1>16, <2>1, <2>2, <2>3, ApplyFlows DEF Fetched
<1>17. ASSUME NEW p \in Page, NEW get \in fetch[p], FetchFails(p, get) PROVE Flows
  <2>1. /\ fetch'[p] \subseteq fetch[p] /\ \A q \in Page : q # p => fetch'[q] = fetch[q]
    BY <1>17 DEF FetchFails, TypeOK
  <2>2. PageFlows(p)
    BY <1>17, SamePage DEF FetchFails
  <2>3. Informed(p)
    BY <1>17, <2>1, KnownRecords DEF Informed, FetchFails
  <2> QED BY <1>17, <2>1, <2>2, <2>3, OnePage DEF FetchFails
<1>18. ASSUME NEW p \in Page, Reload(p) PROVE Flows
  <2>1. /\ page'[p] = Hydrated(server) /\ stream'[p] = <<server>>
        /\ request'[p] = None /\ reply'[p] = None /\ fetch'[p] = {}
        /\ \A q \in Page : q # p =>
              /\ page'[q] = page[q] /\ stream'[q] = stream[q]
              /\ request'[q] = request[q] /\ reply'[q] = reply[q] /\ fetch'[q] = fetch[q]
    BY <1>18 DEF Reload, TypeOK
  <2>2. \A q \in Page, s \in Snapshot : [page |-> q, snap |-> s] \in late' =>
           [page |-> q, snap |-> s] \in late \/ (q = p /\ s \in {request[p], Shown(p)})
    BY <1>18 DEF Reload, Shown
  <2>3. /\ page'[p].local = server.tabs /\ page'[p].canon = server
        /\ Slots(page'[p]) \subseteq {None, Current(server.tabs, server)}
    BY <2>1, HydratedType DEF TypeOK
  <2>4. Shown(p)' = Current(server.tabs, server)
    BY <2>3 DEF Shown, Current
  <2>5. PageFlows(p)
    BY <1>18, <2>1, <2>2, <2>3, <2>4, OwnFlow DEF PageFlows, Hydrates, Reload
  <2>6. Informed(p)
    BY <1>18, <2>1, <2>3, KnownRecords, AnswersAssumption DEF Informed, Reload
  <2> QED BY <1>18, <2>1, <2>2, <2>5, <2>6, OnePage DEF Reload
<1>19. CASE UNCHANGED vars
  <2>1. \A p \in Page : PageFlows(p)
    BY <1>19, SamePage DEF vars
  <2>2. \A p \in Page : Informed(p)
    BY <1>19, KnownRecords DEF vars, Informed
  <2> QED BY <1>19, <2>1, <2>2, RecordsFlow DEF Flows, vars
<1> QED
  BY <1>1, <1>2, <1>3, <1>4, <1>5, <1>6, <1>7, <1>8, <1>9, <1>10, <1>11, <1>12, <1>13,
     <1>14, <1>15, <1>16, <1>17, <1>18, <1>19 DEF Next, User, System, Environment

----------------------------------------------------------------------------
(* Nothing is ahead of the store, in either number.                        *)
NothingAhead ==
    /\ \A r \in Records : r.rev =< server.rev /\ r.at =< server.at
    /\ \A p \in Page : \A s \in Own(p) : s.rev =< server.rev /\ s.at =< server.at

LEMMA ShownType ==
    ASSUME TypeOK, NEW p \in Page
    PROVE  /\ Shown(p) \in Snapshot /\ Shown(p) \in Own(p)
           /\ Shown(p).tabs = page[p].local
           /\ Shown(p).rev = page[p].canon.rev /\ Shown(p).at = page[p].canon.at
           /\ page[p].canon \in Snapshot /\ page[p].local \in SUBSET Tab
<1>1. page[p].canon \in Snapshot /\ page[p].local \in SUBSET Tab
  BY DEF TypeOK, PageState
<1> QED BY <1>1, CurrentType DEF Shown, Own

LEMMA ShownNext ==
    ASSUME TypeOK', NEW p \in Page
    PROVE  /\ Shown(p)' \in Snapshot
           /\ Shown(p)'.tabs = page'[p].local
           /\ Shown(p)'.rev = page'[p].canon.rev /\ Shown(p)'.at = page'[p].canon.at
           /\ page'[p].canon \in Snapshot /\ page'[p].local \in SUBSET Tab
           /\ page'[p].canon \in Records'
<1>1. page'[p].canon \in Snapshot /\ page'[p].local \in SUBSET Tab
  BY DEF TypeOK, PageState
<1>2. page'[p].canon \in Records'
  BY <1>1 DEF Records
<1> QED BY <1>1, <1>2, CurrentType DEF Shown

LEMMA StoreMovesOn ==
    ASSUME TypeOK, Flows
    PROVE  /\ server'.rev >= server.rev /\ server'.at >= server.at
           /\ server' # server => server'.rev > server.rev \/ server'.at > server.at
<1>1. server.rev \in Nat /\ server.at \in Nat
  BY DEF TypeOK, Snapshot
<1>2. CASE Commits
  BY <1>1, <1>2 DEF Commits
<1>3. ASSUME NEW old \in Tab, NEW new \in Tab, Rename(old, new)
      PROVE  server'.rev = server.rev + 1 /\ server'.at \in {server.at, server.at + 1}
  BY <1>3 DEF Rename
<1> QED BY <1>1, <1>2, <1>3 DEF Flows

LEMMA AheadStep ==
    ASSUME TypeOK, TypeOK', Flows, NothingAhead
    PROVE  NothingAhead'
<1>1. /\ server.rev \in Nat /\ server.at \in Nat /\ server'.rev \in Nat /\ server'.at \in Nat
      /\ server'.rev >= server.rev /\ server'.at >= server.at
  BY StoreMovesOn DEF TypeOK, Snapshot
<1>2. \A r \in Records' : r.rev =< server'.rev /\ r.at =< server'.at
  <2>1. \A r \in Records : r.rev \in Nat /\ r.at \in Nat
    BY DEF Records, Snapshot
  <2> QED BY <1>1, <2>1 DEF Flows, NothingAhead
<1>3. ASSUME NEW p \in Page, NEW s \in Own(p)'
      PROVE  s.rev =< server'.rev /\ s.at =< server'.at
  <2>1. CASE s \in Own(p)
    <3>1. s.rev \in Nat /\ s.at \in Nat
      BY <2>1 DEF Own, Snapshot
    <3> QED BY <1>1, <2>1, <3>1 DEF NothingAhead
  <2>2. CASE s = Shown(p)'
    <3>1. page'[p].canon \in Records' /\ s.rev = page'[p].canon.rev /\ s.at = page'[p].canon.at
      BY <2>2, ShownNext
    <3> QED BY <1>2, <3>1
  <2> QED BY <2>1, <2>2 DEF Flows, PageFlows
<1> QED BY <1>2, <1>3 DEF NothingAhead

AheadInv == TypeOK /\ NothingAhead

\* At the start there is one record, and every page shows it.
LEMMA AtStart ==
    Init => /\ TypeOK /\ Records = {server} /\ server \in Snapshot
            /\ \A p \in Page : /\ Own(p) = {Shown(p)} /\ Shown(p) = server
                               /\ page[p].canon = server /\ Slots(page[p]) = {None}
                               /\ request[p] = None /\ reply[p] = None
<1> SUFFICES ASSUME Init
             PROVE  /\ TypeOK /\ Records = {server} /\ server \in Snapshot
                    /\ \A p \in Page :
                          /\ Own(p) = {Shown(p)} /\ Shown(p) = server
                          /\ page[p].canon = server /\ Slots(page[p]) = {None}
                          /\ request[p] = None /\ reply[p] = None
  OBVIOUS
<1>1. TypeOK
  BY InitType
<1>2. server \in Snapshot
  BY <1>1 DEF TypeOK
<1>3. \A p \in Page : /\ page[p].canon = server /\ page[p].local = server.tabs
                      /\ Slots(page[p]) = {None}
  BY <1>2, HydratedType DEF Init
<1>4. \A p \in Page : stream[p] = <<>> /\ fetch[p] = {} /\ reply[p] = None /\ request[p] = None
  BY DEF Init
<1>5. Records = {server}
  BY <1>2, <1>3, <1>4, AnswersAssumption DEF Records
<1>6. \A p \in Page : Own(p) = {Shown(p)}
  BY <1>1, <1>3, <1>4, ShownType, AnswersAssumption DEF Own, Init
<1>7. \A p \in Page : Shown(p) = server
  BY <1>2, <1>3 DEF Shown, Current, Snapshot
<1> QED BY <1>1, <1>2, <1>3, <1>4, <1>5, <1>6, <1>7

LEMMA InitAhead == Init => AheadInv
<1> SUFFICES ASSUME Init PROVE AheadInv
  OBVIOUS
<1>1. server.rev =< server.rev /\ server.at =< server.at
  BY AtStart DEF Snapshot
<1> QED BY <1>1, AtStart DEF AheadInv, NothingAhead

LEMMA AheadInvariant == Spec => []AheadInv
<1>1. AheadInv /\ [Next]_vars => AheadInv'
  BY TypeStep, StepFlows, AheadStep DEF AheadInv
<1> QED BY <1>1, InitAhead, PTL DEF Spec

LEMMA OlderIsStrict ==
    ASSUME NEW r \in Snapshot PROVE ~Older(r, r)
BY DEF Older, Snapshot

LEMMA CanonForward ==
    ASSUME AheadInv, Flows, NEW p \in Page
    PROVE  ~Older(page'[p].canon, page[p].canon)
<1>1. page[p].canon \in Snapshot /\ page[p].canon \in Records
  BY ShownType, KnownRecords DEF AheadInv
<1>2. CASE Hydrates(p)
  <2>1. page[p].canon.rev =< server.rev /\ page[p].canon.at =< server.at
    BY <1>1 DEF AheadInv, NothingAhead
  <2> QED BY <1>1, <1>2, <2>1 DEF Hydrates, Older, AheadInv, TypeOK, Snapshot
<1>3. CASE Keeps(p) \/ Edits(p)
  BY <1>1, <1>3, OlderIsStrict DEF Keeps, Edits
<1>4. CASE Applies(p)
  BY <1>4 DEF Applies
<1> QED BY <1>2, <1>3, <1>4 DEF Flows, PageFlows

(* A page never goes back to an older record, though answers, streamed     *)
(* snapshots and fetched ones overtake each other: applying one compares,  *)
(* and what a reload reads is ahead of everything.                         *)
THEOREM Forward == Spec => RecordsMoveForward
<1>1. AheadInv /\ [Next]_vars => [\A p \in Page : ~Older(page'[p].canon, page[p].canon)]_vars
  BY CanonForward, StepFlows DEF AheadInv
<1> QED BY <1>1, AheadInvariant, PTL DEF Spec, RecordsMoveForward

----------------------------------------------------------------------------
(* Names: whatever is of the store's revision has only names of sessions.  *)
NamesKnown ==
    /\ \A r \in Records : r.rev = server.rev => r.tabs \subseteq live
    /\ \A p \in Page : \A s \in Own(p) : s.rev = server.rev => s.tabs \subseteq live

LEMMA MergedWithin ==
    ASSUME NEW pg \in PageState, NEW saved \in Snapshot, NEW base
    PROVE  /\ PageMerged(pg, saved, base) \subseteq saved.tabs \cup pg.local
           /\ saved.rev # pg.canon.rev => PageMerged(pg, saved, base) = saved.tabs
BY DEF PageMerged, Rebase

LEMMA NamesStep ==
    ASSUME TypeOK, TypeOK', Flows, NothingAhead, NamesKnown
    PROVE  NamesKnown'
<1>1. server \in Records /\ server.tabs \subseteq live
  BY KnownRecords DEF NamesKnown
<1>2. CASE \E old, new \in Tab : Rename(old, new)
  <2>1. /\ server'.rev = server.rev + 1 /\ server.rev \in Nat
        /\ server'.tabs \subseteq live'
    BY <1>1, <1>2 DEF Rename, TypeOK, Snapshot
  <2>2. \A r \in Records : r.rev \in Nat /\ r.rev =< server.rev
    BY DEF NothingAhead, Records, Snapshot
  <2>3. \A r \in Records' : r.rev = server'.rev => r.tabs \subseteq live'
    BY <2>1, <2>2 DEF Flows
  <2>4. ASSUME NEW p \in Page, NEW s \in Own(p)', s.rev = server'.rev
        PROVE  s.tabs \subseteq live'
    <3>1. \A o \in Own(p) : o.rev \in Nat /\ o.rev =< server.rev
      BY DEF NothingAhead, Own, Snapshot
    <3>2. s = Shown(p)'
      BY <2>1, <2>4, <3>1 DEF Flows, PageFlows
    <3>3. page'[p].canon.rev = server'.rev /\ s.tabs = page'[p].local
      BY <2>4, <3>2, ShownNext
    <3>4. page'[p].canon = page[p].canon
      BY <1>2 DEF Rename
    <3> QED BY <2>1, <2>2, <3>3, <3>4, KnownRecords
  <2> QED BY <2>3, <2>4 DEF NamesKnown
<1>3. CASE UNCHANGED <<server, live>> \/ Commits
  <2>1. UNCHANGED live /\ server'.rev = server.rev /\ server'.tabs \subseteq live
    <3>1. CASE Commits
      <4> PICK p \in Page : \E s \in Own(p) :
             /\ Accepts(s)
             /\ server' = [tabs |-> s.tabs, rev |-> server.rev, at |-> server.at + 1]
        BY <3>1 DEF Commits
      <4> QED BY <3>1 DEF NamesKnown, Accepts, Commits
    <3> QED BY <1>1, <1>3, <3>1
  <2>2. \A r \in Records' : r.rev = server'.rev => r.tabs \subseteq live'
    BY <2>1 DEF Flows, NamesKnown
  <2>3. ASSUME NEW p \in Page, page'[p].canon.rev = server.rev
        PROVE  page'[p].local \subseteq live
    <3>0. page[p] \in PageState
      BY DEF TypeOK
    <3>1. page[p].canon.rev = server.rev => page[p].local \subseteq live
      BY ShownType DEF NamesKnown
    <3>2. CASE Keeps(p) \/ Hydrates(p)
      BY <1>1, <2>3, <3>1, <3>2 DEF Keeps, Hydrates
    <3>3. CASE Edits(p)
      BY <2>3, <3>1, <3>3 DEF Edits, Toggled
    <3>4. CASE Applies(p)
      <4> PICK saved \in Records, echo \in Maybe :
             /\ page'[p].canon = saved
             /\ page'[p].local = PageMerged(page[p], saved, Base(page[p], echo))
        BY <3>4 DEF Applies
      <4>1. saved \in Snapshot /\ saved.tabs \subseteq live
        BY <2>3 DEF NamesKnown, Records
      <4> QED BY <2>3, <3>0, <3>1, <4>1, MergedWithin
    <3> QED BY <3>2, <3>3, <3>4 DEF Flows, PageFlows
  <2>4. ASSUME NEW p \in Page, NEW s \in Own(p)', s.rev = server'.rev
        PROVE  s.tabs \subseteq live'
    BY <2>1, <2>3, <2>4, ShownNext DEF Flows, PageFlows, NamesKnown
  <2> QED BY <2>2, <2>4 DEF NamesKnown
<1> QED BY <1>2, <1>3 DEF Flows

(* However late a save made before a rename arrives, and wherever a tab of *)
(* that name is still shown, the workspace holds no name that no session   *)
(* has.                                                                    *)
THEOREM NamesInUse == Spec => []NoObsoleteName
<1>1. Init => NamesKnown
  <2>1. Init => server.tabs \subseteq live
    BY TabsAssumption DEF Init
  <2> QED BY <2>1, AtStart DEF NamesKnown
<1>2. AheadInv /\ NamesKnown /\ [Next]_vars => NamesKnown'
  BY TypeStep, StepFlows, NamesStep DEF AheadInv
<1>3. AheadInv /\ NamesKnown => NoObsoleteName
  BY KnownRecords DEF AheadInv, NamesKnown, NoObsoleteName
<1> QED BY <1>1, <1>2, <1>3, AheadInvariant, PTL DEF Spec

----------------------------------------------------------------------------
(* Touched tabs.  A page talks to the store about the save it has sent;    *)
(* what it keeps to save is not newer than its record; and records of one  *)
(* time have the same tabs, from which a page's own differ where its user  *)
(* touched them.                                                           *)
Answers(saved, sent) ==
    sent # None /\ saved = [tabs |-> sent.tabs, rev |-> sent.rev, at |-> sent.at + 1]

Exchanges(p) ==
    /\ request[p] # None => request[p] = page[p].sent /\ reply[p] = None
    /\ reply[p] # None => page[p].sent # None
    /\ reply[p] \in Snapshot => Answers(reply[p], page[p].sent)

Exchange == \A p \in Page : Exchanges(p)

SlotsAreOld ==
    \A p \in Page : \A s \in Slots(page[p]) : s # None => ~Older(page[p].canon, s)

TouchedOnly ==
    /\ \A r, q \in Records : r.at = q.at => r.tabs = q.tabs
    /\ \A p \in Page : \A s \in Own(p), r \in Records :
          s.at = r.at => Changed(s.tabs, r.tabs) \subseteq touched[p]

LEMMA SlotsStep ==
    ASSUME AheadInv, TypeOK', Flows, SlotsAreOld
    PROVE  SlotsAreOld'
<1>1. ASSUME NEW p \in Page, NEW s \in Slots(page'[p]), s # None
      PROVE  ~Older(page'[p].canon, s)
  <2>1. page'[p].canon \in Snapshot /\ page[p].canon \in Snapshot
    BY ShownNext, ShownType DEF AheadInv
  <2>2. CASE s \in Slots(page[p])
    <3>1. s \in Snapshot
      <4>1. page[p] \in PageState
        BY DEF AheadInv, TypeOK
      <4> QED BY <1>1, <2>2, <4>1 DEF PageState, Maybe, Slots
    <3>2. ~Older(page[p].canon, s) /\ ~Older(page'[p].canon, page[p].canon)
      BY <1>1, <2>2, CanonForward DEF SlotsAreOld
    <3> QED BY <2>1, <3>1, <3>2 DEF Older, Snapshot
  <2>3. CASE s = Shown(p)'
    BY <2>1, <2>3, ShownNext DEF Older, Snapshot
  <2> QED BY <1>1, <2>2, <2>3 DEF Flows, PageFlows
<1> QED BY <1>1 DEF SlotsAreOld

LEMMA RebaseChanges ==
    ASSUME NEW T, NEW base, NEW local, NEW remote, Changed(local, base) \subseteq T
    PROVE  Changed(Rebase(base, local, remote), remote) \subseteq T
BY DEF Changed, Rebase

LEMMA ChangedTogether ==
    ASSUME NEW T, NEW r, NEW s, NEW t, Changed(s, r) \subseteq T, Changed(t, r) \subseteq T
    PROVE  Changed(s, t) \subseteq T
BY DEF Changed

\* What a page shows after a step differs from its record where its user
\* touched it.
LEMMA ShownTouched ==
    ASSUME AheadInv, TypeOK', Flows, Exchange, SlotsAreOld, TouchedOnly, NEW p \in Page
    PROVE  Changed(page'[p].local, page'[p].canon.tabs) \subseteq touched'[p]
<1>0. /\ page[p] \in PageState /\ page[p].canon \in Snapshot /\ page[p].canon \in Records
      /\ touched[p] \subseteq touched'[p]
  BY ShownType, KnownRecords DEF AheadInv, TypeOK, Flows, PageFlows
<1>1. Changed(page[p].local, page[p].canon.tabs) \subseteq touched[p]
  BY <1>0, ShownType DEF AheadInv, TouchedOnly
<1>2. CASE Keeps(p)
  BY <1>0, <1>1, <1>2 DEF Keeps
<1>3. CASE Edits(p)
  BY <1>1, <1>3 DEF Edits, Toggled, Changed
<1>4. CASE Hydrates(p)
  BY <1>4 DEF Hydrates, Changed
<1>5. CASE Applies(p)
  <2> PICK saved \in Records, echo \in Maybe :
         /\ ~Older(saved, page[p].canon)
         /\ page'[p].canon = saved
         /\ page'[p].local = PageMerged(page[p], saved, Base(page[p], echo))
         /\ echo # None => /\ echo = page[p].sent
                           /\ echo.at = page[p].canon.at \/ saved = reply[p]
    BY <1>5 DEF Applies
  <2>1. CASE saved.rev # page[p].canon.rev
    BY <2>1 DEF PageMerged, Changed
  <2>2. CASE saved.rev = page[p].canon.rev
    <3>1. Changed(page[p].local, Base(page[p], echo)) \subseteq touched[p]
      <4>1. CASE echo = None
        BY <1>1, <4>1 DEF Base
      <4>2. CASE echo # None
        <5>1. echo \in Snapshot /\ echo \in Slots(page[p]) /\ saved \in Snapshot
          BY <4>2 DEF Maybe, Slots, Records
        <5>2. echo \in Own(p)
          BY <5>1 DEF Own
        <5>3. CASE echo.at = page[p].canon.at
          <6>1. Changed(echo.tabs, page[p].canon.tabs) \subseteq touched[p]
            BY <1>0, <5>2, <5>3 DEF TouchedOnly
          <6> QED BY <1>1, <4>2, <6>1, ChangedTogether DEF Base
        <5>4. CASE saved = reply[p] /\ echo.at # page[p].canon.at
          <6>1. saved.tabs = echo.tabs /\ saved.rev = echo.rev /\ saved.at = echo.at + 1
            <7>1. Answers(saved, echo)
              BY <4>2, <5>1, <5>4 DEF Exchange, Exchanges
            <7> QED BY <7>1 DEF Answers
          <6>2. ~Older(page[p].canon, echo)
            BY <4>2, <5>1 DEF SlotsAreOld
          <6>3. page[p].canon.at = saved.at
            BY <1>0, <2>2, <5>1, <5>4, <6>1, <6>2 DEF Older, Snapshot
          <6>4. page[p].canon.tabs = echo.tabs
            BY <1>0, <6>1, <6>3 DEF TouchedOnly
          <6> QED BY <1>1, <4>2, <6>4 DEF Base
        <5> QED BY <4>2, <5>3, <5>4
      <4> QED BY <4>1, <4>2
    <3>2. Changed(Rebase(Base(page[p], echo), page[p].local, saved.tabs), saved.tabs)
             \subseteq touched[p]
      BY <3>1, RebaseChanges
    <3> QED BY <1>0, <2>2, <3>2 DEF PageMerged
  <2> QED BY <2>1, <2>2
<1> QED BY <1>2, <1>3, <1>4, <1>5 DEF Flows, PageFlows

\* The store's record has its time to itself, but for a rename that does not
\* concern the workspace.
LEMMA NewTime ==
    ASSUME TypeOK, Flows
    PROVE  \/ server'.at = server.at + 1
           \/ server'.at = server.at /\ server'.tabs = server.tabs
<1>1. CASE Commits
  BY <1>1 DEF Commits
<1>2. ASSUME NEW old \in Tab, NEW new \in Tab, Rename(old, new)
      PROVE  \/ server'.at = server.at + 1
             \/ server'.at = server.at /\ server'.tabs = server.tabs
  BY <1>2 DEF Rename
<1> QED BY <1>1, <1>2 DEF Flows

LEMMA TouchedStep ==
    ASSUME AheadInv, TypeOK', Flows, Exchange, SlotsAreOld, TouchedOnly
    PROVE  TouchedOnly'
<1>0. /\ TypeOK /\ server \in Records /\ server.at \in Nat
      /\ \A r \in Records : r.at \in Nat /\ r.at =< server.at
      /\ \A p \in Page : \A s \in Own(p) : s.at \in Nat /\ s.at =< server.at
  BY KnownRecords DEF AheadInv, NothingAhead, Records, Own, TypeOK, Snapshot
<1>1. \A r \in Records : r.at = server'.at => r.tabs = server'.tabs
  BY <1>0, NewTime DEF TouchedOnly
<1>2. \A r, q \in Records' : r.at = q.at => r.tabs = q.tabs
  BY <1>1 DEF Flows, TouchedOnly
<1>3. ASSUME NEW p \in Page, NEW s \in Own(p)', NEW r \in Records', s.at = r.at
      PROVE  Changed(s.tabs, r.tabs) \subseteq touched'[p]
  <2>1. CASE s = Shown(p)'
    <3>1. page'[p].canon \in Records' /\ s.tabs = page'[p].local /\ s.at = page'[p].canon.at
      BY <2>1, ShownNext
    <3>2. page'[p].canon.tabs = r.tabs
      BY <1>2, <1>3, <3>1
    <3> QED BY <3>1, <3>2, ShownTouched
  <2>2. CASE s \in Own(p)
    <3>1. touched[p] \subseteq touched'[p]
      BY DEF Flows, PageFlows
    <3>2. CASE r \in Records
      BY <1>3, <2>2, <3>1, <3>2 DEF TouchedOnly
    <3>3. CASE r = server'
      <4>1. server'.at = server.at /\ server'.tabs = server.tabs
        BY <1>0, <1>3, <2>2, <3>3, NewTime
      <4> QED BY <1>0, <1>3, <2>2, <3>1, <3>3, <4>1 DEF TouchedOnly
    <3> QED BY <3>2, <3>3 DEF Flows
  <2> QED BY <2>1, <2>2 DEF Flows, PageFlows
<1> QED BY <1>2, <1>3 DEF TouchedOnly

\* A page that sends nothing and gets no answer, and one without an exchange.
LEMMA SameExchange ==
    ASSUME Exchange, NEW p \in Page, request'[p] = request[p], reply'[p] = reply[p],
           page'[p].sent = page[p].sent
    PROVE  Exchanges(p)'
<1>1. Exchanges(p)
  BY DEF Exchange
<1> QED BY <1>1 DEF Exchanges

LEMMA NoExchange ==
    ASSUME NEW p \in Page, request'[p] = None, reply'[p] = None
    PROVE  Exchanges(p)'
BY AnswersAssumption DEF Exchanges

LEMMA FlushExchange ==
    ASSUME TypeOK, Exchange, NEW p \in Page, NEW pg \in PageState, Flush(p, pg),
           pg.sent = page[p].sent, UNCHANGED reply
    PROVE  Exchange'
<1>1. \A q \in Page : q # p => Exchanges(q)'
  BY FlushType, SameExchange
<1>2. CASE request'[p] = request[p] /\ page'[p].sent = pg.sent
  BY <1>1, <1>2, SameExchange DEF Exchange
<1>3. CASE pg.sent = None /\ request'[p] = pg.queued /\ page'[p].sent = pg.queued
  <2>1. reply'[p] = None
    BY <1>3 DEF Exchange, Exchanges
  <2>2. Exchanges(p)'
    BY <1>3, <2>1, AnswersAssumption DEF Exchanges
  <2> QED BY <1>1, <2>2 DEF Exchange
<1> QED BY <1>2, <1>3, FlushType

LEMMA ExchangeStep ==
    ASSUME TypeOK, Exchange, [Next]_vars
    PROVE  Exchange'
<1> USE DEF net, ghosts
<1>0. /\ \A p \in Page : page[p] \in PageState /\ Exchanges(p)
      /\ None \in Maybe /\ Snapshot \subseteq Maybe
  BY DEF TypeOK, Maybe, Exchange
<1>1. ASSUME NEW p \in Page, NEW t \in Tab, Edit(p, t) PROVE Exchange'
  <2> DEFINE local == Toggled(page[p].local, t)
             next == Current(local, page[p].canon)
             staged == IF SameActivity(page[p].last, next) /\ page[p].failed = None
                       THEN page[p].staged ELSE next
  <2>1. page' = [page EXCEPT ![p].local = local, ![p].staged = staged]
    BY <1>1 DEF Edit
  <2> HIDE DEF local, next, staged
  <2>2. \A q \in Page : page'[q].sent = page[q].sent
    BY <1>0, <2>1 DEF TypeOK, PageState
  <2> QED BY <1>1, <2>2, SameExchange DEF Edit, Exchange
<1>2. ASSUME NEW p \in Page, CommitStaged(p) PROVE Exchange'
  <2> DEFINE pg == [page[p] EXCEPT !.queued = page[p].staged, !.staged = None]
  <2>1. pg \in PageState /\ pg.sent = page[p].sent
    BY <1>0 DEF PageState, Maybe
  <2> QED BY <1>2, <2>1, FlushExchange DEF CommitStaged
<1>3. ASSUME NEW p \in Page, FlushNext(p) PROVE Exchange'
  BY <1>0, <1>3, FlushExchange DEF FlushNext
<1>4. ASSUME NEW p \in Page, Retry(p) PROVE Exchange'
  <2>1. PICK save \in Slots(page[p]) :
           Flush(p, [page[p] EXCEPT !.queued = save, !.staged = None])
    BY <1>4 DEF Retry, Slots
  <2> DEFINE pg == [page[p] EXCEPT !.queued = save, !.staged = None]
  <2>2. pg \in PageState /\ pg.sent = page[p].sent
    BY <1>0, <2>1 DEF PageState, Maybe, Slots
  <2> QED BY <1>4, <2>1, <2>2, FlushExchange DEF Retry
<1>5. ASSUME NEW p \in Page, HandleSave(p) PROVE Exchange'
  <2>1. /\ request'[p] = None /\ UNCHANGED page
        /\ \A q \in Page : q # p => request'[q] = request[q] /\ reply'[q] = reply[q]
    BY <1>5 DEF HandleSave, TypeOK
  <2>2. request[p] = page[p].sent /\ page[p].sent # None /\ page[p].sent \in Snapshot
    BY <1>0, <1>5 DEF HandleSave, Exchanges, PageState, Maybe
  <2>3. Exchanges(p)'
    <3>1. CASE Accepts(request[p])
      <4>1. reply'[p] = [tabs |-> request[p].tabs, rev |-> server.rev, at |-> server.at + 1]
        BY <1>5, <3>1 DEF HandleSave, Commit, TypeOK
      <4>2. Answers(reply'[p], page[p].sent)
        BY <2>2, <3>1, <4>1 DEF Answers, Accepts
      <4> QED BY <2>1, <2>2, <4>2 DEF Exchanges
    <3>2. CASE ~Accepts(request[p])
      <4>1. reply'[p] = Conflict
        BY <1>5, <3>2 DEF HandleSave, TypeOK
      <4> QED BY <2>1, <2>2, <4>1, AnswersAssumption DEF Exchanges
    <3> QED BY <3>1, <3>2
  <2> QED BY <2>1, <2>3, SameExchange DEF Exchange
<1>6. ASSUME NEW save \in late, HandleLate(save) PROVE Exchange'
  BY <1>6, SameExchange DEF HandleLate, Exchange
<1>7. ASSUME NEW save \in late, LoseLate(save) PROVE Exchange'
  BY <1>7, SameExchange DEF LoseLate, Exchange
<1>8. ASSUME NEW old \in Tab, NEW new \in Tab, Rename(old, new) PROVE Exchange'
  BY <1>8, SameExchange DEF Rename, Exchange
<1>9. ASSUME NEW p \in Page, Saves(p) \/ Conflicts(p) PROVE Exchange'
  <2>1. /\ reply[p] # None /\ reply'[p] = None /\ request'[p] = request[p]
        /\ \A q \in Page : q # p => /\ page'[q] = page[q] /\ reply'[q] = reply[q]
                                    /\ request'[q] = request[q]
    BY <1>9, AnswersAssumption DEF Saves, Conflicts, TypeOK
  <2>2. request[p] = None
    BY <1>0, <2>1 DEF Exchanges
  <2> QED BY <2>1, <2>2, NoExchange, SameExchange DEF Exchange
<1>10. ASSUME NEW p \in Page, Fails(p) \/ Reload(p) PROVE Exchange'
  <2>1. /\ reply'[p] = None /\ request'[p] = None
        /\ \A q \in Page : q # p => /\ page'[q] = page[q] /\ reply'[q] = reply[q]
                                    /\ request'[q] = request[q]
    BY <1>10 DEF Fails, Reload, TypeOK
  <2> QED BY <2>1, NoExchange, SameExchange DEF Exchange
<1>11. ASSUME NEW p \in Page, NEW saved \in Snapshot, NEW force \in BOOLEAN,
              page' = [page EXCEPT ![p] = Apply(@, saved, None, force)],
              UNCHANGED <<request, reply>>
       PROVE  Exchange'
  <2>1. \A q \in Page : page'[q].sent = page[q].sent
    BY <1>0, <1>11, ApplyLemma DEF TypeOK
  <2> QED BY <1>11, <2>1, SameExchange DEF Exchange
<1>12. ASSUME NEW p \in Page, Streams(p) PROVE Exchange'
  <2>1. Head(stream[p]) \in Snapshot
    BY <1>12 DEF Streams, TypeOK
  <2> QED BY <1>11, <1>12, <2>1 DEF Streams
<1>13. ASSUME NEW p \in Page, NEW get \in fetch[p], Fetched(p, get) PROVE Exchange'
  <2>1. get.answer \in Snapshot /\ get.force \in BOOLEAN
    BY <1>13 DEF Fetched, TypeOK, Get, Maybe
  <2> QED BY <1>11, <1>13, <2>1 DEF Fetched
<1>14. CASE UNCHANGED <<page, request, reply>>
  BY <1>14, SameExchange DEF Exchange
<1> QED
  BY <1>1, <1>2, <1>3, <1>4, <1>5, <1>6, <1>7, <1>8, <1>9, <1>10, <1>12, <1>13, <1>14
     DEF Next, User, System, Environment, Coalesces, Refresh, HandleFetch, FetchFails, vars

TouchedInv == AheadInv /\ Exchange /\ SlotsAreOld /\ TouchedOnly

LEMMA TouchedInvariant == Spec => []TouchedInv
<1>1. Init => TouchedInv
  <2> SUFFICES ASSUME Init PROVE TouchedInv
    OBVIOUS
  <2>1. Exchange
    BY AtStart, NoExchange, AnswersAssumption DEF Exchange, Exchanges
  <2>2. SlotsAreOld
    BY AtStart DEF SlotsAreOld
  <2>3. TouchedOnly
    BY AtStart DEF TouchedOnly, Changed
  <2> QED BY <2>1, <2>2, <2>3, InitAhead DEF TouchedInv
<1>2. TouchedInv /\ [Next]_vars => TouchedInv'
  <2> SUFFICES ASSUME TouchedInv, [Next]_vars PROVE TouchedInv'
    OBVIOUS
  <2>1. TypeOK' /\ Flows
    BY TypeStep, StepFlows DEF TouchedInv, AheadInv
  <2>2. AheadInv'
    BY <2>1, AheadStep DEF TouchedInv, AheadInv
  <2> QED BY <2>1, <2>2, ExchangeStep, SlotsStep, TouchedStep DEF TouchedInv, AheadInv
<1> QED BY <1>1, <1>2, PTL DEF Spec

(* A save changes the membership of tabs only that the user of the saving  *)
(* page opened or closed: record_activity refuses a save made against      *)
(* another record, so what a page never touched is as the store has it.    *)
THEOREM Touching == Spec => OnlyTouchedTabsChange
<1> DEFINE Step == server'.rev = server.rev =>
                      \E p \in Page : Changed(server.tabs, server'.tabs) \subseteq touched[p]
<1>1. TouchedInv /\ [Next]_vars => [Step]_vars
  <2> SUFFICES ASSUME TouchedInv, Next, server'.rev = server.rev
               PROVE  \E p \in Page : Changed(server.tabs, server'.tabs) \subseteq touched[p]
    OBVIOUS
  <2>0. TypeOK /\ server \in Records /\ server.rev \in Nat
    BY KnownRecords DEF TouchedInv, AheadInv, TypeOK, Snapshot
  <2>1. CASE Commits
    <3>1. PICK p \in Page : \E s \in Own(p) :
             /\ Accepts(s)
             /\ server' = [tabs |-> s.tabs, rev |-> server.rev, at |-> server.at + 1]
      BY <2>1 DEF Commits
    <3>2. PICK s \in Own(p) :
             /\ Accepts(s)
             /\ server' = [tabs |-> s.tabs, rev |-> server.rev, at |-> server.at + 1]
      BY <3>1
    <3>3. Changed(s.tabs, server.tabs) \subseteq touched[p]
      BY <2>0, <3>2 DEF TouchedInv, TouchedOnly, Accepts
    <3> QED BY <3>2, <3>3 DEF Changed
  <2>2. CASE UNCHANGED server
    <3>1. Page # {}
      BY <2>0, <2>2 DEF Next, User, System, Environment, Rename, TypeOK, PageSave
    <3> QED BY <2>2, <3>1 DEF Changed
  <2>3. \A old, new \in Tab : ~Rename(old, new)
    BY <2>0 DEF Rename
  <2> QED BY <2>0, <2>1, <2>2, <2>3, StepFlows DEF Flows
<1> QED BY <1>1, TouchedInvariant, PTL DEF Spec, OnlyTouchedTabsChange

----------------------------------------------------------------------------
(***************************************************************************)
(* ForkSync.                                                               *)
(***************************************************************************)

\* The assumptions of ForkSync.
LinkedSetting ==
    /\ Tabs \subseteq Nat /\ IsFiniteSet(Tabs)
    /\ NoSnapshot \notin ForkSnapshot \cup Selections
    /\ MaxSequence \in Nat \ {0} /\ MaxPosted \in Nat
    /\ StorageWorks \in BOOLEAN /\ Scenarios \subseteq Scenario

LEMMA Setting == LinkedSetting
BY LinkedTabsAssumption, LinkedBoundsAssumption, LinkedModesAssumption, NoSnapshotAssumption
   DEF LinkedSetting

LinkMessage == {SelectionRequest} \cup [type: {"selection"}, snapshot: ForkSnapshot]
MaybeSnapshot == ForkSnapshot \cup {NoSnapshot}

TabState == [state: {"closed", "joined", "paused", "gone"}, snapshot: MaybeSnapshot,
             screen: Selections \cup {NoSnapshot}, skip: BOOLEAN, write: MaybeSnapshot, post: Seq(LinkMessage)]

\* A tab has a snapshot if it is linked, and writes no other one.
Fits(t) ==
    /\ t.state = "joined" <=> t.snapshot # NoSnapshot
    /\ t.state # "joined" => t.write = NoSnapshot /\ t.post = <<>>
    /\ t.write \in {NoSnapshot, t.snapshot}
    /\ t.state \in {"joined", "paused"} => t.screen # NoSnapshot

(* Every variable has the type that the code gives it; messages are on     *)
(* their way to linked tabs only.                                          *)
LinkedTypeOK ==
    /\ scenario \in Scenario
    /\ tab \in [Tabs -> TabState]
    /\ \A p \in Tabs : Fits(tab[p])
    /\ cache \in MaybeSnapshot
    /\ channel \in [Tabs -> [Tabs -> Seq(LinkMessage)]]
    /\ \A p, q \in Tabs : channel[p][q] # <<>> => Joined(q) /\ p # q

----------------------------------------------------------------------------
(* Messages in a queue.                                                    *)
Has(seq, m) == \E i \in DOMAIN seq : seq[i] = m

LEMMA HasNothing == \A m : ~Has(<<>>, m)
BY DEF Has

LEMMA HasOne == \A a, m : Has(<<a>>, m) <=> m = a
BY DEF Has

LEMMA HasMore ==
    ASSUME NEW M, NEW s \in Seq(M), NEW t \in Seq(M), NEW m
    PROVE  Has(s \o t, m) <=> Has(s, m) \/ Has(t, m)
<1>1. ASSUME Has(s \o t, m) PROVE Has(s, m) \/ Has(t, m)
  <2>1. PICK i \in 1 .. Len(s) + Len(t) : (s \o t)[i] = m
    BY <1>1 DEF Has
  <2>2. CASE i <= Len(s)
    BY <2>1, <2>2 DEF Has
  <2>3. CASE i > Len(s)
    <3>1. i - Len(s) \in 1 .. Len(t) /\ (s \o t)[i] = t[i - Len(s)]
      BY <2>3
    <3> QED BY <3>1, <2>1 DEF Has
  <2> QED BY <2>2, <2>3
<1>2. ASSUME Has(s, m) PROVE Has(s \o t, m)
  <2>1. PICK i \in 1 .. Len(s) : s[i] = m
    BY <1>2 DEF Has
  <2>2. i \in 1 .. Len(s \o t) /\ (s \o t)[i] = m
    BY <2>1
  <2> QED BY <2>2 DEF Has
<1>3. ASSUME Has(t, m) PROVE Has(s \o t, m)
  <2>1. PICK i \in 1 .. Len(t) : t[i] = m
    BY <1>3 DEF Has
  <2>2. Len(s) + i \in 1 .. Len(s \o t) /\ (s \o t)[Len(s) + i] = m
    BY <2>1
  <2> QED BY <2>2 DEF Has
<1> QED BY <1>1, <1>2, <1>3

LEMMA HasTaken ==
    ASSUME NEW M, NEW s \in Seq(M), s # <<>>, NEW m
    PROVE  Has(s, m) <=> m = Head(s) \/ Has(Tail(s), m)
<1>1. ASSUME Has(s, m), m # Head(s) PROVE Has(Tail(s), m)
  <2>1. PICK i \in 1 .. Len(s) : s[i] = m
    BY <1>1 DEF Has
  <2>2. i - 1 \in 1 .. Len(Tail(s)) /\ Tail(s)[i - 1] = m
    BY <2>1, <1>1
  <2> QED BY <2>2 DEF Has
<1>2. ASSUME Has(Tail(s), m) PROVE Has(s, m)
  <2>1. PICK i \in 1 .. Len(Tail(s)) : Tail(s)[i] = m
    BY <1>2 DEF Has
  <2>2. i + 1 \in 1 .. Len(s) /\ s[i + 1] = m
    BY <2>1
  <2> QED BY <2>2 DEF Has
<1>3. Has(s, Head(s))
  BY DEF Has
<1> QED BY <1>1, <1>2, <1>3

\* What is in a queue is a message.
LEMMA HasMessage ==
    ASSUME NEW M, NEW s \in Seq(M), NEW m, Has(s, m)
    PROVE  m \in M
BY DEF Has

LEMMA HasNone ==
    ASSUME NEW M, NEW s \in Seq(M), \A m \in M : ~Has(s, m)
    PROVE  s = <<>>
BY DEF Has

LEMMA Messages ==
    /\ SelectionRequest \in LinkMessage
    /\ \A x \in ForkSnapshot : Selected(x) \in LinkMessage /\ Selected(x) # SelectionRequest
    /\ \A x, y : Selected(x) = Selected(y) => x = y
    /\ \A m \in LinkMessage : m.type = "request" \/ m.type = "selection"
    /\ \A m \in LinkMessage : m.type = "request" <=> m = SelectionRequest
    /\ \A m \in LinkMessage \ {SelectionRequest} : m.snapshot \in ForkSnapshot /\ m = Selected(m.snapshot)
<1>1. \A x, y : Selected(x) = Selected(y) => x = y
  BY DEF Selected
<1>2. \A m \in LinkMessage \ {SelectionRequest} : m.snapshot \in ForkSnapshot /\ m = Selected(m.snapshot) /\ m.type = "selection"
  BY DEF LinkMessage, Selected
<1>3. SelectionRequest.type = "request" /\ \A x : Selected(x).type = "selection"
  BY DEF SelectionRequest, Selected
<1> QED BY <1>1, <1>2, <1>3 DEF LinkMessage, Selected

----------------------------------------------------------------------------
(* Snapshots are ordered, and the sender breaks ties.                      *)
LEMMA Ordering ==
    ASSUME LinkedSetting
    PROVE  /\ \A x \in ForkSnapshot : ~Newer(x, x)
           /\ \A x, y \in ForkSnapshot : Newer(x, y) => ~Newer(y, x)
           /\ \A x, y, z \in ForkSnapshot : Newer(x, z) => Newer(x, y) \/ Newer(y, z)
           /\ \A x, y \in ForkSnapshot : x.sequence > y.sequence => Newer(x, y)
           /\ \A x, y \in ForkSnapshot : ~Newer(x, y) => y.sequence >= x.sequence
           /\ \A x, y \in ForkSnapshot : ~Newer(x, y) /\ ~Newer(y, x) =>
                 x.sequence = y.sequence /\ x.sender = y.sender
<1> \A x \in ForkSnapshot : x.sequence \in Int /\ x.sender \in Int
  BY DEF ForkSnapshot, LinkedSetting
<1> QED BY DEF Newer
----------------------------------------------------------------------------
(* What a task makes of its tab, t before and u after: it publishes a new  *)
(* snapshot, connects to the cell, hears of a snapshot x, or keeps its own. *)
Publishes(p, t, u) ==
    /\ t.state \in {"closed", "paused", "joined"} /\ u.state = "joined"
    /\ u.snapshot \in ForkSnapshot /\ u.snapshot.sender = p
    /\ \A x \in {t.snapshot, cache} \ {NoSnapshot} : u.snapshot.sequence > x.sequence
    /\ t.state # "joined" => cache = NoSnapshot /\ Has(u.post, SelectionRequest)
    /\ u.write = IF StorageWorks THEN u.snapshot ELSE NoSnapshot
    /\ Has(u.post, Selected(u.snapshot))
    /\ \A m : Has(u.post, m) => m \in {SelectionRequest, Selected(u.snapshot)}

Connects(t, u) ==
    /\ t.state \in {"closed", "paused"} /\ u.state = "joined"
    /\ cache # NoSnapshot /\ u.snapshot = cache /\ u.write = NoSnapshot
    /\ \A m : Has(u.post, m) <=> m = SelectionRequest

Stored(u) ==
    u.write = IF StorageWorks /\ (cache = NoSnapshot \/ ~Newer(cache, u.snapshot))
              THEN u.snapshot ELSE NoSnapshot

Hears(t, u, x) ==
    /\ t.state = "joined" /\ u.state = "joined"
    /\ u.snapshot = IF Newer(x, t.snapshot) THEN x ELSE t.snapshot
    /\ Stored(u)
    /\ \A m : Has(u.post, m) => m = SelectionRequest

KeepsIt(t, u) ==
    /\ u.state = t.state /\ u.snapshot = t.snapshot /\ u.write = NoSnapshot
    /\ \A m : Has(u.post, m) => t.state = "joined" /\ m \in {SelectionRequest, Selected(t.snapshot)}

\* A tab shows its snapshot, and no flag will swallow its next selection.
ShowsIt(t) ==
    /\ t.skip = FALSE /\ t.state # "paused"
    /\ t.state = "joined" => t.screen = t.snapshot.selection

----------------------------------------------------------------------------
LEMMA CounterType ==
    ASSUME LinkedSetting, NEW x \in MaybeSnapshot
    PROVE  Counter(x) \in 0 .. MaxSequence /\ (x # NoSnapshot => Counter(x) = x.sequence)
BY DEF LinkedSetting, MaybeSnapshot, Counter, ForkSnapshot

\* Selecting publishes, with a sequence above its own and the cell's.
LEMMA SelectingPublishes ==
    ASSUME LinkedSetting, cache \in MaybeSnapshot, NEW p \in Tabs, NEW t \in TabState,
           t.screen \in Selections, t.state = "joined",
           Larger(Counter(t.snapshot), Counter(cache)) < MaxSequence,
           NEW posted \in Seq(LinkMessage)
    PROVE  LET u == Selecting(p, t, posted)
           IN  /\ u \in TabState
               /\ u.state = "joined" /\ u.snapshot \in ForkSnapshot /\ u.snapshot.sender = p
               /\ \A x \in {t.snapshot, cache} \ {NoSnapshot} : u.snapshot.sequence > x.sequence
               /\ u.write = IF StorageWorks THEN u.snapshot ELSE NoSnapshot
               /\ u.post = posted \o <<Selected(u.snapshot)>>
               /\ u.skip = t.skip /\ u.screen = t.screen /\ u.screen = u.snapshot.selection
<1> DEFINE new == [sequence |-> Larger(Counter(t.snapshot), Counter(cache)) + 1,
                   sender |-> p, selection |-> t.screen]
           u == Selecting(p, t, posted)
<1>1. t.snapshot \in MaybeSnapshot
  BY DEF TabState
<1>2. /\ Counter(t.snapshot) \in Nat /\ Counter(cache) \in Nat
      /\ t.snapshot # NoSnapshot => Counter(t.snapshot) = t.snapshot.sequence
      /\ cache # NoSnapshot => Counter(cache) = cache.sequence
  BY <1>1, CounterType
<1>3. /\ new.sequence \in 1 .. MaxSequence
      /\ new.sequence > Counter(t.snapshot) /\ new.sequence > Counter(cache)
  BY <1>2 DEF Larger, LinkedSetting
<1>4. new \in ForkSnapshot /\ new.sender = p /\ new.selection = t.screen
  BY <1>3 DEF ForkSnapshot
<1>5. \A x \in {t.snapshot, cache} \ {NoSnapshot} : new.sequence > x.sequence
  BY <1>2, <1>3
<1>6. cache = NoSnapshot \/ ~Newer(cache, new)
  BY <1>2, <1>3, <1>4, Ordering DEF MaybeSnapshot
<1>7. u = [[[t EXCEPT !.snapshot = new] EXCEPT !.post = Append(posted, Selected(new))]
              EXCEPT !.write = IF StorageWorks THEN new ELSE NoSnapshot]
  <2> HIDE DEF new
  <2>1. [t EXCEPT !.snapshot = new].snapshot = new
    BY DEF TabState
  <2>2. u = Storing([t EXCEPT !.snapshot = new], Append(posted, Selected(new)))
    BY DEF Selecting, new
  <2> QED BY <2>1, <2>2, <1>6 DEF Storing, TabState
<1>8. Append(posted, Selected(new)) = posted \o <<Selected(new)>>
      /\ Append(posted, Selected(new)) \in Seq(LinkMessage)
  BY <1>4, Messages
<1> HIDE DEF new
<1>9. /\ u \in TabState /\ u.state = "joined" /\ u.snapshot = new /\ u.skip = t.skip
      /\ u.screen = t.screen /\ u.post = Append(posted, Selected(new))
      /\ u.write = IF StorageWorks THEN new ELSE NoSnapshot
  BY <1>4, <1>7, <1>8 DEF TabState, MaybeSnapshot
<1> QED BY <1>4, <1>5, <1>8, <1>9

LEMMA StoringIs ==
    ASSUME LinkedSetting, NEW t \in TabState, NEW post \in Seq(LinkMessage)
    PROVE  LET u == Storing(t, post)
           IN  /\ u \in TabState /\ Stored(u)
               /\ u.state = t.state /\ u.snapshot = t.snapshot /\ u.screen = t.screen
               /\ u.skip = t.skip /\ u.post = post
BY DEF Storing, Stored, TabState, MaybeSnapshot

LEMMA ShowingIs ==
    ASSUME LinkedSetting, NEW t \in TabState, NEW x \in ForkSnapshot
    PROVE  LET u == Showing([t EXCEPT !.snapshot = x], x.selection)
           IN  /\ u \in TabState
               /\ u.state = t.state /\ u.snapshot = x /\ u.screen = x.selection
               /\ u.write = t.write /\ u.post = t.post
               /\ t.skip = FALSE => u.skip = FALSE
<1>1. x.selection \in Selections
  BY DEF ForkSnapshot
<1> QED BY <1>1 DEF Showing, TabState, MaybeSnapshot

\* A tab that hears of a snapshot takes it if it is newer.
LEMMA ReceivingHears ==
    ASSUME LinkedSetting, NEW t \in TabState, t.state = "joined", NEW x \in ForkSnapshot
    PROVE  LET u == Receiving(t, x)
           IN  /\ u \in TabState /\ u.state = "joined" /\ Stored(u)
               /\ u.snapshot = IF Newer(x, t.snapshot) THEN x ELSE t.snapshot
               /\ u.post = <<>>
               /\ t.skip = FALSE => u.skip = FALSE
               /\ u.screen \in {t.screen, x.selection}
               /\ u.screen = IF Newer(x, t.snapshot) THEN x.selection ELSE t.screen
<1> DEFINE v == Showing([t EXCEPT !.snapshot = x], x.selection)
<1>1. <<>> \in Seq(LinkMessage)
  OBVIOUS
<1>2. CASE ~Newer(x, t.snapshot)
  BY <1>1, <1>2, StoringIs DEF Receiving
<1>3. CASE Newer(x, t.snapshot)
  <2>1. /\ v \in TabState /\ v.state = t.state /\ v.snapshot = x /\ v.screen = x.selection
        /\ t.skip = FALSE => v.skip = FALSE
    BY ShowingIs
  <2>2. Receiving(t, x) = Storing(v, <<>>)
    BY <1>3 DEF Receiving
  <2> HIDE DEF v
  <2> DEFINE u == Storing(v, <<>>)
  <2>3. /\ u \in TabState /\ Stored(u)
        /\ u.state = v.state /\ u.snapshot = v.snapshot /\ u.screen = v.screen
        /\ u.skip = v.skip /\ u.post = <<>>
    BY <1>1, <2>1, StoringIs
  <2> HIDE DEF u
  <2>4. /\ u.state = "joined" /\ u.snapshot = x /\ u.screen = x.selection
        /\ t.skip = FALSE => u.skip = FALSE
    BY <2>1, <2>3
  <2>5. Receiving(t, x) = u
    BY <2>2 DEF u
  <2> QED BY <1>3, <2>3, <2>4, <2>5
<1> QED BY <1>2, <1>3

\* A tab that connects shows the cell's snapshot, or publishes what it shows.
LEMMA ConnectedIs ==
    ASSUME LinkedSetting, cache \in MaybeSnapshot, NEW p \in Tabs, NEW old \in TabState, NEW t \in TabState,
           old.state \in {"closed", "paused"}, old.snapshot = NoSnapshot,
           t.state = "joined", t.snapshot = NoSnapshot, t.screen \in Selections,
           t.write = NoSnapshot, t.post = <<>>
    PROVE  LET u == Connected(p, t)
           IN  /\ u \in TabState /\ Fits(u)
               /\ Publishes(p, old, u) \/ Connects(old, u)
               /\ t.skip = FALSE => ShowsIt(u)
<1> DEFINE u == Connected(p, t)
<1>1. <<SelectionRequest>> \in Seq(LinkMessage)
  BY Messages
<1>2. CASE cache # NoSnapshot
  <2> DEFINE v == Showing([t EXCEPT !.snapshot = cache], cache.selection)
  <2>1. cache \in ForkSnapshot /\ cache.selection \in Selections
    BY <1>2 DEF MaybeSnapshot, ForkSnapshot
  <2>2. /\ v \in TabState /\ v.state = "joined" /\ v.snapshot = cache
        /\ v.screen = cache.selection /\ v.write = NoSnapshot
        /\ t.skip = FALSE => v.skip = FALSE
    BY <2>1, ShowingIs
  <2>3. u = [v EXCEPT !.post = <<SelectionRequest>>]
    BY <1>2 DEF Connected
  <2> HIDE DEF v
  <2>4. /\ u \in TabState /\ u.state = "joined" /\ u.snapshot = cache
        /\ u.screen = cache.selection /\ u.write = NoSnapshot /\ u.post = <<SelectionRequest>>
        /\ t.skip = FALSE => u.skip = FALSE
    BY <1>1, <2>2, <2>3 DEF TabState
  <2> HIDE DEF u
  <2>5. \A m : Has(u.post, m) <=> m = SelectionRequest
    BY <2>4, HasOne
  <2>6. Fits(u) /\ (t.skip = FALSE => ShowsIt(u))
    BY <1>2, <2>1, <2>4 DEF Fits, ShowsIt, LinkedSetting
  <2>7. Connects(old, u)
    BY <1>2, <2>4, <2>5 DEF Connects
  <2> QED BY <2>4, <2>6, <2>7 DEF u
<1>3. CASE cache = NoSnapshot
  <2>1. Larger(Counter(t.snapshot), Counter(cache)) < MaxSequence
    BY <1>3 DEF Larger, Counter, LinkedSetting
  <2>2. u = Selecting(p, t, <<SelectionRequest>>)
    BY <1>3 DEF Connected
  <2> HIDE DEF u
  <2>3. /\ u \in TabState
        /\ u.state = "joined" /\ u.snapshot \in ForkSnapshot /\ u.snapshot.sender = p
        /\ u.write = IF StorageWorks THEN u.snapshot ELSE NoSnapshot
        /\ u.post = <<SelectionRequest>> \o <<Selected(u.snapshot)>>
        /\ u.skip = t.skip /\ u.screen = t.screen /\ u.screen = u.snapshot.selection
    BY <1>1, <2>1, <2>2, SelectingPublishes
  <2>4. <<Selected(u.snapshot)>> \in Seq(LinkMessage)
    BY <2>3, Messages
  <2>5. \A m : Has(u.post, m) <=> m \in {SelectionRequest, Selected(u.snapshot)}
    <3> DEFINE one == <<SelectionRequest>>
               two == <<Selected(u.snapshot)>>
    <3>1. one \in Seq(LinkMessage) /\ two \in Seq(LinkMessage) /\ u.post = one \o two
      BY <1>1, <2>3, <2>4
    <3>2. \A m : (Has(one, m) <=> m = SelectionRequest) /\ (Has(two, m) <=> m = Selected(u.snapshot))
      BY HasOne
    <3> HIDE DEF one, two
    <3>3. \A m : Has(u.post, m) <=> Has(one, m) \/ Has(two, m)
      BY <3>1, HasMore
    <3> QED BY <3>2, <3>3
  <2>6. Fits(u) /\ (t.skip = FALSE => ShowsIt(u))
    BY <2>3 DEF Fits, ShowsIt, LinkedSetting
  <2>7. Publishes(p, old, u)
    BY <1>3, <2>3, <2>5 DEF Publishes
  <2> QED BY <2>3, <2>6, <2>7 DEF u
<1> QED BY <1>2, <1>3

\* A linked tab that selects publishes.
LEMMA SelectingIs ==
    ASSUME LinkedSetting, cache \in MaybeSnapshot, NEW p \in Tabs, NEW old \in TabState, NEW t \in TabState,
           old.state = "joined", old.snapshot = t.snapshot, t.state = "joined",
           t.screen \in Selections,
           Larger(Counter(t.snapshot), Counter(cache)) < MaxSequence
    PROVE  LET u == Selecting(p, t, <<>>)
           IN  /\ u \in TabState /\ Fits(u) /\ Publishes(p, old, u)
               /\ t.skip = FALSE => ShowsIt(u)
<1> DEFINE u == Selecting(p, t, <<>>)
<1>1. <<>> \in Seq(LinkMessage)
  OBVIOUS
<1>2. /\ u \in TabState
      /\ u.state = "joined" /\ u.snapshot \in ForkSnapshot /\ u.snapshot.sender = p
      /\ \A x \in {t.snapshot, cache} \ {NoSnapshot} : u.snapshot.sequence > x.sequence
      /\ u.write = IF StorageWorks THEN u.snapshot ELSE NoSnapshot
      /\ u.post = <<>> \o <<Selected(u.snapshot)>>
      /\ u.skip = t.skip /\ u.screen = t.screen /\ u.screen = u.snapshot.selection
  BY <1>1, SelectingPublishes
<1> HIDE DEF u
<1>3. u.post = <<Selected(u.snapshot)>>
  BY <1>2
<1>4. \A m : Has(u.post, m) <=> m = Selected(u.snapshot)
  BY <1>3, HasOne
<1>5. Fits(u) /\ (t.skip = FALSE => ShowsIt(u))
  BY <1>2 DEF Fits, ShowsIt, LinkedSetting
<1>6. Publishes(p, old, u)
  BY <1>2, <1>4 DEF Publishes
<1> QED BY <1>2, <1>5, <1>6 DEF u

\* Receiving, with or without a request posted after it.
LEMMA HearsIs ==
    ASSUME LinkedSetting, NEW t \in TabState, Fits(t), t.state = "joined", NEW x \in ForkSnapshot,
           NEW post \in {<<>>, <<SelectionRequest>>}
    PROVE  LET u == [Receiving(t, x) EXCEPT !.post = post]
           IN  /\ u \in TabState /\ Fits(u) /\ Hears(t, u, x)
               /\ ShowsIt(t) => ShowsIt(u)
<1> DEFINE v == Receiving(t, x)
           u == [v EXCEPT !.post = post]
<1>1. post \in Seq(LinkMessage) /\ \A m : Has(post, m) => m = SelectionRequest
  <2>1. CASE post = <<>>
    BY <2>1, HasNothing
  <2>2. CASE post = <<SelectionRequest>>
    BY <2>2, Messages, HasOne
  <2> QED BY <2>1, <2>2
<1>2. /\ v \in TabState /\ v.state = "joined" /\ Stored(v)
      /\ v.snapshot = IF Newer(x, t.snapshot) THEN x ELSE t.snapshot
      /\ t.skip = FALSE => v.skip = FALSE
      /\ v.screen = IF Newer(x, t.snapshot) THEN x.selection ELSE t.screen
  BY ReceivingHears
<1> HIDE DEF v
<1>3. /\ u \in TabState /\ u.state = v.state /\ u.snapshot = v.snapshot
      /\ u.skip = v.skip /\ u.screen = v.screen /\ u.write = v.write /\ u.post = post
  BY <1>1, <1>2 DEF TabState
<1> HIDE DEF u
<1>4. x.selection \in Selections /\ x # NoSnapshot
  BY DEF ForkSnapshot, LinkedSetting
<1>5. Stored(u)
  BY <1>2, <1>3 DEF Stored
<1>6. Fits(u)
  BY <1>2, <1>3, <1>4, <1>5 DEF Fits, Stored, LinkedSetting
<1>7. Hears(t, u, x)
  BY <1>1, <1>2, <1>3, <1>5 DEF Hears
<1>8. ShowsIt(t) => ShowsIt(u)
  BY <1>2, <1>3 DEF ShowsIt
<1> QED BY <1>3, <1>6, <1>7, <1>8 DEF u, v

----------------------------------------------------------------------------
(* What a step is: tab p runs a task, takes a message of r, ends its task, *)
(* or leaves; or the cell expires.                                         *)
Only(p) ==
    /\ UNCHANGED scenario
    /\ tab' \in [Tabs -> TabState] /\ Fits(tab'[p])
    /\ \A q \in Tabs \ {p} : tab'[q] = tab[q]
    /\ p \notin scenario.pausers /\ ShowsIt(tab[p]) => ShowsIt(tab'[p])

Runs(p) ==
    /\ Only(p) /\ CanRun(p) /\ UNCHANGED <<cache, channel>>
    /\ \/ Publishes(p, tab[p], tab'[p])
       \/ Connects(tab[p], tab'[p])
       \/ cache \in ForkSnapshot /\ Hears(tab[p], tab'[p], cache)
       \/ KeepsIt(tab[p], tab'[p])

Takes(r, p) ==
    /\ Only(p) /\ CanRun(p) /\ UNCHANGED cache
    /\ channel[r][p] # <<>> /\ channel' = [channel EXCEPT ![r][p] = Tail(@)]
    /\ LET m == Head(channel[r][p])
       IN  \/ /\ m = SelectionRequest /\ KeepsIt(tab[p], tab'[p])
              /\ Has(tab'[p].post, Selected(tab[p].snapshot))
           \/ \E x \in ForkSnapshot : m = Selected(x) /\ Hears(tab[p], tab'[p], x)

Finishes(p) ==
    /\ Only(p) /\ ~Idle(p)
    /\ cache' = IF tab[p].write = NoSnapshot THEN cache ELSE tab[p].write
    /\ tab'[p].state = tab[p].state /\ tab'[p].snapshot = tab[p].snapshot
    /\ tab'[p].write = NoSnapshot /\ tab'[p].post = <<>>
    /\ channel' = [channel EXCEPT ![p] = [q \in Tabs |->
                     IF Deliverable(p, q) THEN @[q] \o tab[p].post ELSE @[q]]]

Leaves(p) ==
    /\ Only(p) /\ CanRun(p) /\ UNCHANGED cache
    /\ \/ "close" \in scenario.may /\ tab'[p].state = "gone"
       \/ p \in scenario.pausers /\ tab'[p].state = "paused"
    /\ channel' = [q \in Tabs |-> [channel[q] EXCEPT ![p] = <<>>]]

Expires == Expire

\* A tab that is not linked has nothing to write or post.
LEMMA NotLinked ==
    ASSUME LinkedSetting, LinkedTypeOK, NEW p \in Tabs
    PROVE  /\ tab[p] \in TabState /\ Fits(tab[p])
           /\ tab[p].state \in {"closed", "paused", "gone"} =>
                 tab[p].snapshot = NoSnapshot /\ tab[p].write = NoSnapshot /\ tab[p].post = <<>>
           /\ tab[p].state = "joined" => tab[p].snapshot \in ForkSnapshot /\ tab[p].screen \in Selections
           /\ tab[p].state = "paused" => tab[p].screen \in Selections
BY DEF LinkedTypeOK, Fits, TabState, MaybeSnapshot

LEMMA ClosedIs ==
    /\ Closed \in TabState /\ Closed.state = "closed" /\ Closed.snapshot = NoSnapshot
    /\ Closed.skip = FALSE /\ Closed.write = NoSnapshot /\ Closed.post = <<>>
    /\ Closed.screen = NoSnapshot
<1>1. <<>> \in Seq(LinkMessage)
  OBVIOUS
<1> QED BY <1>1 DEF Closed, TabState, MaybeSnapshot

LEMMA OpenRuns ==
    ASSUME LinkedSetting, LinkedTypeOK, NEW p \in Tabs, NEW selection \in Selections, Open(p, selection)
    PROVE  Runs(p)
<1> DEFINE t == [Closed EXCEPT !.state = "joined", !.screen = selection]
           u == Connected(p, t)
<1>1. /\ Closed \in TabState /\ Closed.snapshot = NoSnapshot /\ Closed.skip = FALSE
      /\ Closed.write = NoSnapshot /\ Closed.post = <<>>
  BY ClosedIs
<1>2. /\ t \in TabState /\ t.state = "joined" /\ t.snapshot = NoSnapshot /\ t.screen = selection
      /\ t.skip = FALSE /\ t.write = NoSnapshot /\ t.post = <<>>
  <2> HIDE DEF Closed
  <2> QED BY <1>1 DEF TabState
<1>3. tab[p].state = "closed" /\ CanRun(p) /\ tab' = [tab EXCEPT ![p] = u]
      /\ UNCHANGED <<scenario, cache, channel>>
  BY DEF Open
<1> HIDE DEF t
<1>4. tab[p] \in TabState /\ tab[p].snapshot = NoSnapshot /\ cache \in MaybeSnapshot
      /\ tab \in [Tabs -> TabState]
  BY <1>3, NotLinked DEF LinkedTypeOK
<1>5. /\ u \in TabState /\ Fits(u) /\ ShowsIt(u)
      /\ Publishes(p, tab[p], u) \/ Connects(tab[p], u)
  BY <1>2, <1>3, <1>4, ConnectedIs
<1> HIDE DEF u
<1>6. tab'[p] = u /\ Only(p)
  BY <1>3, <1>4, <1>5 DEF Only
<1> QED BY <1>3, <1>5, <1>6 DEF Runs

LEMMA RejoinRuns ==
    ASSUME LinkedSetting, LinkedTypeOK, NEW p \in Tabs, Rejoin(p)
    PROVE  Runs(p)
<1> DEFINE t == [tab[p] EXCEPT !.state = "joined", !.skip = TRUE]
           u == Connected(p, t)
<1>1. tab[p].state = "paused" /\ CanRun(p) /\ tab' = [tab EXCEPT ![p] = u]
      /\ UNCHANGED <<scenario, cache, channel>>
  BY DEF Rejoin
<1>2. /\ tab[p] \in TabState /\ tab[p].snapshot = NoSnapshot /\ tab[p].write = NoSnapshot
      /\ tab[p].post = <<>> /\ tab[p].screen \in Selections
      /\ cache \in MaybeSnapshot /\ tab \in [Tabs -> TabState]
  BY <1>1, NotLinked DEF LinkedTypeOK
<1>3. /\ t \in TabState /\ t.state = "joined" /\ t.snapshot = NoSnapshot
      /\ t.screen = tab[p].screen /\ t.write = NoSnapshot /\ t.post = <<>>
  BY <1>2 DEF TabState
<1> HIDE DEF t
<1>4. /\ u \in TabState /\ Fits(u)
      /\ Publishes(p, tab[p], u) \/ Connects(tab[p], u)
  BY <1>1, <1>2, <1>3, ConnectedIs
<1> HIDE DEF u
<1>5. tab'[p] = u /\ Only(p)
  BY <1>1, <1>2, <1>4 DEF Only, ShowsIt
<1> QED BY <1>1, <1>4, <1>5 DEF Runs

LEMMA KeepsRuns ==
    ASSUME LinkedSetting, LinkedTypeOK, NEW p \in Tabs, CanRun(p), NEW u \in TabState, Fits(u),
           u.state = tab[p].state, u.snapshot = tab[p].snapshot, u.write = NoSnapshot,
           \A m : Has(u.post, m) => m = SelectionRequest,
           u.post # <<>> => tab[p].state = "joined",
           ShowsIt(tab[p]) => ShowsIt(u),
           tab' = [tab EXCEPT ![p] = u], UNCHANGED <<scenario, cache, channel>>
    PROVE  Runs(p)
<1>1. tab'[p] = u /\ Only(p)
  BY DEF LinkedTypeOK, Only
<1>2. KeepsIt(tab[p], u)
  <2>1. u.post = <<>> => \A m : ~Has(u.post, m)
    BY HasNothing
  <2> QED BY <2>1 DEF KeepsIt
<1> QED BY <1>1, <1>2 DEF Runs

LEMMA SelectRuns ==
    ASSUME LinkedSetting, LinkedTypeOK, NEW p \in Tabs, NEW selection \in Selections, Select(p, selection)
    PROVE  Runs(p)
<1> DEFINE t == [tab[p] EXCEPT !.screen = selection, !.skip = FALSE]
           quiet == tab[p].skip \/ ~Joined(p) \/ selection = t.snapshot.selection
           u == IF quiet THEN t ELSE Selecting(p, t, <<>>)
<1>1. /\ tab[p].state \in {"joined", "paused"} /\ CanRun(p) /\ selection # tab[p].screen
      /\ Larger(Counter(tab[p].snapshot), Counter(cache)) < MaxSequence
      /\ tab' = [tab EXCEPT ![p] = u] /\ UNCHANGED <<scenario, cache, channel>>
  BY DEF Select
<1>2. tab[p] \in TabState /\ Fits(tab[p]) /\ cache \in MaybeSnapshot /\ tab \in [Tabs -> TabState]
      /\ tab[p].write = NoSnapshot /\ tab[p].post = <<>>
  BY <1>1 DEF LinkedTypeOK, CanRun, Idle
<1>3. /\ t \in TabState /\ t.state = tab[p].state /\ t.snapshot = tab[p].snapshot
      /\ t.screen = selection /\ t.skip = FALSE /\ t.write = NoSnapshot /\ t.post = <<>>
  BY <1>2 DEF TabState
<1> HIDE DEF t
<1>4. CASE quiet
  <2>1. Fits(t) /\ (\A m : ~Has(t.post, m))
    BY <1>1, <1>2, <1>3, HasNothing DEF Fits, LinkedSetting
  <2>2. ShowsIt(tab[p]) => ShowsIt(t)
    BY <1>1, <1>3, <1>4 DEF ShowsIt, Joined
  <2>3. tab' = [tab EXCEPT ![p] = t]
    BY <1>1, <1>4
  <2> QED BY <1>1, <1>3, <2>1, <2>2, <2>3, KeepsRuns
<1>5. CASE ~quiet
  <2>1. tab[p].state = "joined" /\ u = Selecting(p, t, <<>>)
    BY <1>5 DEF Joined
  <2> HIDE DEF u
  <2>2. u \in TabState /\ Fits(u) /\ Publishes(p, tab[p], u) /\ ShowsIt(u)
    BY <1>1, <1>2, <1>3, <2>1, SelectingIs
  <2>3. tab'[p] = u /\ Only(p)
    BY <1>1, <1>2, <2>2 DEF Only
  <2> QED BY <1>1, <2>2, <2>3 DEF Runs
<1> QED BY <1>4, <1>5

LEMMA ForkRuns ==
    ASSUME LinkedSetting, LinkedTypeOK, NEW p \in Tabs, Fork(p)
    PROVE  Runs(p)
<1> DEFINE u == Selecting(p, tab[p], <<>>)
<1>1. /\ tab[p].state = "joined" /\ CanRun(p)
      /\ Larger(Counter(tab[p].snapshot), Counter(cache)) < MaxSequence
      /\ tab' = [tab EXCEPT ![p] = u] /\ UNCHANGED <<scenario, cache, channel>>
  BY DEF Fork, Joined
<1>2. tab[p] \in TabState /\ cache \in MaybeSnapshot /\ tab \in [Tabs -> TabState]
      /\ tab[p].screen \in Selections
  BY <1>1, NotLinked DEF LinkedTypeOK
<1> HIDE DEF u
<1>3. u \in TabState /\ Fits(u) /\ Publishes(p, tab[p], u) /\ (tab[p].skip = FALSE => ShowsIt(u))
  BY <1>1, <1>2, SelectingIs DEF u
<1>4. tab'[p] = u /\ Only(p)
  BY <1>1, <1>2, <1>3 DEF Only, ShowsIt
<1> QED BY <1>1, <1>3, <1>4 DEF Runs

LEMMA RefreshRuns ==
    ASSUME LinkedSetting, LinkedTypeOK, NEW p \in Tabs, RequestSelection(p)
    PROVE  Runs(p)
<1> DEFINE t == IF cache = NoSnapshot THEN tab[p] ELSE Receiving(tab[p], cache)
           u == [t EXCEPT !.post = <<SelectionRequest>>]
<1>1. /\ tab[p].state = "joined" /\ CanRun(p)
      /\ tab' = [tab EXCEPT ![p] = u] /\ UNCHANGED <<scenario, cache, channel>>
  BY DEF RequestSelection, Joined
<1>2. /\ tab[p] \in TabState /\ Fits(tab[p]) /\ tab[p].write = NoSnapshot
      /\ cache \in MaybeSnapshot /\ tab \in [Tabs -> TabState]
  BY <1>1 DEF LinkedTypeOK, CanRun, Idle
<1>3. CASE cache = NoSnapshot
  <2>1. u = [tab[p] EXCEPT !.post = <<SelectionRequest>>]
    BY <1>3
  <2> HIDE DEF u
  <2>2. <<SelectionRequest>> \in Seq(LinkMessage) /\ \A m : Has(<<SelectionRequest>>, m) => m = SelectionRequest
    BY Messages, HasOne
  <2>3. /\ u \in TabState /\ u.state = tab[p].state /\ u.snapshot = tab[p].snapshot
        /\ u.write = NoSnapshot /\ u.post = <<SelectionRequest>> /\ u.skip = tab[p].skip
        /\ u.screen = tab[p].screen
    BY <1>2, <2>1, <2>2 DEF TabState
  <2>4. Fits(u) /\ (ShowsIt(tab[p]) => ShowsIt(u))
    BY <1>1, <1>2, <2>3 DEF Fits, ShowsIt
  <2> QED BY <1>1, <2>2, <2>3, <2>4, KeepsRuns
<1>4. CASE cache # NoSnapshot
  <2>1. u = [Receiving(tab[p], cache) EXCEPT !.post = <<SelectionRequest>>] /\ cache \in ForkSnapshot
    BY <1>2, <1>4 DEF MaybeSnapshot
  <2> HIDE DEF u
  <2>2. u \in TabState /\ Fits(u) /\ Hears(tab[p], u, cache) /\ (ShowsIt(tab[p]) => ShowsIt(u))
    BY <1>1, <1>2, <2>1, HearsIs
  <2>3. tab'[p] = u /\ Only(p)
    BY <1>1, <1>2, <2>2 DEF Only
  <2> QED BY <1>1, <2>1, <2>2, <2>3 DEF Runs
<1> QED BY <1>3, <1>4

LEMMA DeliverTakes ==
    ASSUME LinkedSetting, LinkedTypeOK, NEW r \in Tabs, NEW p \in Tabs, Deliver(r, p)
    PROVE  Takes(r, p)
<1> DEFINE m == Head(channel[r][p])
           u == IF m.type = "request"
                THEN [tab[p] EXCEPT !.post = <<Selected(tab[p].snapshot)>>]
                ELSE Receiving(tab[p], m.snapshot)
<1>1. /\ channel[r][p] # <<>> /\ CanRun(p) /\ UNCHANGED <<scenario, cache>>
      /\ tab' = [tab EXCEPT ![p] = u]
      /\ channel' = [channel EXCEPT ![r][p] = Tail(@)]
  <2>1. tab \in [Tabs -> TabState]
    BY DEF LinkedTypeOK
  <2> QED BY <2>1 DEF Deliver
<1>2. /\ channel[r][p] \in Seq(LinkMessage) /\ tab[p].state = "joined"
      /\ tab[p] \in TabState /\ Fits(tab[p]) /\ tab \in [Tabs -> TabState]
      /\ tab[p].write = NoSnapshot /\ tab[p].post = <<>>
  BY <1>1 DEF LinkedTypeOK, Joined, CanRun, Idle
<1>3. m \in LinkMessage
  BY <1>1, <1>2
<1>4. tab[p].snapshot \in ForkSnapshot
  BY <1>2, NotLinked
<1> HIDE DEF m
<1>5. CASE m.type = "request"
  <2>1. u = [tab[p] EXCEPT !.post = <<Selected(tab[p].snapshot)>>] /\ m = SelectionRequest
    BY <1>3, <1>5, Messages
  <2> HIDE DEF u
  <2>2. /\ <<Selected(tab[p].snapshot)>> \in Seq(LinkMessage)
        /\ \A n : Has(<<Selected(tab[p].snapshot)>>, n) <=> n = Selected(tab[p].snapshot)
    BY <1>4, Messages, HasOne
  <2>3. /\ u \in TabState /\ u.state = tab[p].state /\ u.snapshot = tab[p].snapshot
        /\ u.write = NoSnapshot /\ u.post = <<Selected(tab[p].snapshot)>> /\ u.skip = tab[p].skip
        /\ u.screen = tab[p].screen
    BY <1>2, <2>1, <2>2 DEF TabState
  <2>4. Fits(u) /\ (ShowsIt(tab[p]) => ShowsIt(u))
    BY <1>2, <2>3 DEF Fits, ShowsIt
  <2>5. KeepsIt(tab[p], u) /\ Has(u.post, Selected(tab[p].snapshot))
    BY <1>2, <2>2, <2>3 DEF KeepsIt
  <2>6. tab'[p] = u /\ Only(p)
    BY <1>1, <1>2, <2>3, <2>4 DEF Only
  <2> QED BY <1>1, <2>1, <2>5, <2>6 DEF Takes, m
<1>6. CASE m.type # "request"
  <2>1. u = Receiving(tab[p], m.snapshot) /\ m.snapshot \in ForkSnapshot /\ m = Selected(m.snapshot)
    BY <1>3, <1>6, Messages
  <2> DEFINE v == [Receiving(tab[p], m.snapshot) EXCEPT !.post = <<>>]
  <2>2. Receiving(tab[p], m.snapshot) \in TabState /\ Receiving(tab[p], m.snapshot).post = <<>>
    BY <1>2, <2>1, ReceivingHears
  <2> HIDE DEF u
  <2>3. u = v
    BY <2>1, <2>2 DEF TabState
  <2>4. v \in TabState /\ Fits(v) /\ Hears(tab[p], v, m.snapshot) /\ (ShowsIt(tab[p]) => ShowsIt(v))
    BY <1>2, <2>1, HearsIs
  <2> HIDE DEF v
  <2>5. tab'[p] = u /\ Only(p)
    BY <1>1, <1>2, <2>3, <2>4 DEF Only
  <2> QED BY <1>1, <2>1, <2>3, <2>4, <2>5 DEF Takes, m
<1> QED BY <1>5, <1>6

LEMMA LeavingLeaves ==
    ASSUME LinkedSetting, LinkedTypeOK, NEW p \in Tabs, Close(p) \/ Pause(p)
    PROVE  Leaves(p)
<1>1. CASE Close(p)
  <2> DEFINE u == [Closed EXCEPT !.state = "gone"]
  <2>1. /\ u \in TabState /\ u.state = "gone" /\ u.snapshot = NoSnapshot /\ u.skip = FALSE
        /\ u.write = NoSnapshot /\ u.post = <<>>
    <3>1. /\ Closed \in TabState /\ Closed.snapshot = NoSnapshot /\ Closed.skip = FALSE
          /\ Closed.write = NoSnapshot /\ Closed.post = <<>>
      BY ClosedIs
    <3> HIDE DEF Closed
    <3> QED BY <3>1 DEF TabState
  <2> HIDE DEF u
  <2>2. Fits(u) /\ ShowsIt(u)
    BY <2>1 DEF Fits, ShowsIt
  <2>3. tab' = [tab EXCEPT ![p] = u] /\ UNCHANGED <<scenario, cache>>
    BY <1>1 DEF Close, u
  <2>4. tab'[p] = u /\ Only(p)
    BY <2>1, <2>2, <2>3 DEF Only, LinkedTypeOK
  <2> QED BY <1>1, <2>1, <2>3, <2>4 DEF Leaves, Close
<1>2. CASE Pause(p)
  <2> DEFINE u == [tab[p] EXCEPT !.state = "paused", !.snapshot = NoSnapshot]
  <2>1. /\ tab[p] \in TabState /\ Fits(tab[p]) /\ tab[p].state = "joined"
        /\ tab[p].write = NoSnapshot /\ tab[p].post = <<>> /\ tab \in [Tabs -> TabState]
    BY <1>2 DEF Pause, CanRun, Idle, LinkedTypeOK, Joined
  <2>2. u \in TabState /\ u.state = "paused" /\ Fits(u)
    BY <2>1 DEF TabState, Fits, MaybeSnapshot
  <2>3. tab' = [tab EXCEPT ![p] = u] /\ p \in scenario.pausers /\ UNCHANGED <<scenario, cache>>
    <3>1. [[tab EXCEPT ![p].state = "paused"] EXCEPT ![p].snapshot = NoSnapshot]
            = [tab EXCEPT ![p] = u]
      BY <2>1
    <3> QED BY <1>2, <3>1 DEF Pause
  <2> HIDE DEF u
  <2>4. tab'[p] = u /\ Only(p)
    BY <2>1, <2>2, <2>3 DEF Only
  <2> QED BY <1>2, <2>2, <2>3, <2>4 DEF Leaves, Pause
<1> QED BY <1>1, <1>2

LEMMA FinishFinishes ==
    ASSUME LinkedSetting, LinkedTypeOK, NEW p \in Tabs, Finish(p)
    PROVE  Finishes(p)
<1> DEFINE u == [tab[p] EXCEPT !.write = NoSnapshot, !.post = <<>>]
<1>1. tab[p] \in TabState /\ Fits(tab[p]) /\ tab \in [Tabs -> TabState]
  BY DEF LinkedTypeOK
<1>2. /\ u \in TabState /\ u.state = tab[p].state /\ u.snapshot = tab[p].snapshot
      /\ u.write = NoSnapshot /\ u.post = <<>> /\ u.skip = tab[p].skip /\ u.screen = tab[p].screen
  <2>1. <<>> \in Seq(LinkMessage)
    OBVIOUS
  <2> QED BY <1>1, <2>1 DEF TabState, MaybeSnapshot
<1>3. tab' = [tab EXCEPT ![p] = u]
  <2>1. [[tab EXCEPT ![p].write = NoSnapshot] EXCEPT ![p].post = <<>>] = [tab EXCEPT ![p] = u]
    BY <1>1
  <2> QED BY <2>1 DEF Finish
<1> HIDE DEF u
<1>4. Fits(u) /\ (ShowsIt(tab[p]) => ShowsIt(u))
  BY <1>1, <1>2 DEF Fits, ShowsIt
<1>5. tab'[p] = u /\ Only(p)
  BY <1>1, <1>2, <1>3, <1>4 DEF Only, Finish
<1> QED BY <1>2, <1>5 DEF Finishes, Finish

LEMMA StepKinds ==
    ASSUME LinkedSetting, LinkedTypeOK, ForkNext
    PROVE  \/ \E p \in Tabs : Runs(p) \/ Finishes(p) \/ Leaves(p)
           \/ \E r, p \in Tabs : Takes(r, p)
           \/ Expires
BY OpenRuns, SelectRuns, RejoinRuns, ForkRuns, RefreshRuns, DeliverTakes, LeavingLeaves,
   FinishFinishes DEF ForkNext, Expires

----------------------------------------------------------------------------
(* How messages travel in a step.                                          *)
LEMMA TakesChannel ==
    ASSUME LinkedSetting, LinkedTypeOK, NEW r \in Tabs, NEW p \in Tabs, Takes(r, p)
    PROVE  /\ channel' \in [Tabs -> [Tabs -> Seq(LinkMessage)]]
           /\ Joined(p) /\ r # p
           /\ \A a, b \in Tabs : channel'[a][b] # <<>> => channel[a][b] # <<>>
           /\ \A a, b \in Tabs : \A m : Has(channel'[a][b], m) => Has(channel[a][b], m)
           /\ \A a, b \in Tabs : \A m : Has(channel[a][b], m) =>
                 Has(channel'[a][b], m) \/ (a = r /\ b = p /\ m = Head(channel[r][p]))
           /\ Has(channel[r][p], Head(channel[r][p]))
<1>1. /\ channel \in [Tabs -> [Tabs -> Seq(LinkMessage)]] /\ channel[r][p] # <<>>
      /\ channel' = [channel EXCEPT ![r][p] = Tail(@)] /\ Joined(p) /\ r # p
  BY DEF LinkedTypeOK, Takes
<1>2. channel[r][p] \in Seq(LinkMessage)
  BY <1>1
<1>3. Tail(channel[r][p]) \in Seq(LinkMessage)
  BY <1>1, <1>2
<1>4. channel' \in [Tabs -> [Tabs -> Seq(LinkMessage)]]
  BY <1>1, <1>3
<1>5. channel'[r][p] = Tail(channel[r][p])
      /\ \A a, b \in Tabs : a # r \/ b # p => channel'[a][b] = channel[a][b]
  BY <1>1
<1>6. \A m : Has(channel[r][p], m) <=> m = Head(channel[r][p]) \/ Has(channel'[r][p], m)
  BY <1>1, <1>2, <1>5, HasTaken
<1>7. /\ \A a, b \in Tabs : \A m : Has(channel'[a][b], m) => Has(channel[a][b], m)
      /\ \A a, b \in Tabs : \A m : Has(channel[a][b], m) =>
            Has(channel'[a][b], m) \/ (a = r /\ b = p /\ m = Head(channel[r][p]))
  BY <1>5, <1>6
<1>8. \A a, b \in Tabs : channel'[a][b] # <<>> => channel[a][b] # <<>>
  BY <1>1, <1>5
<1> QED BY <1>1, <1>4, <1>6, <1>7, <1>8

LEMMA FinishesChannel ==
    ASSUME LinkedSetting, LinkedTypeOK, NEW p \in Tabs, Finishes(p)
    PROVE  /\ channel' \in [Tabs -> [Tabs -> Seq(LinkMessage)]]
           /\ \A a, b \in Tabs : channel'[a][b] # <<>> =>
                 channel[a][b] # <<>> \/ (a = p /\ b # p /\ Joined(b))
           /\ \A a, b \in Tabs : \A m :
                 Has(channel'[a][b], m) <=>
                    \/ Has(channel[a][b], m)
                    \/ a = p /\ b # p /\ Joined(b) /\ Has(tab[p].post, m)
<1> DEFINE post == tab[p].post
<1>1. /\ channel \in [Tabs -> [Tabs -> Seq(LinkMessage)]] /\ post \in Seq(LinkMessage)
  BY DEF LinkedTypeOK, TabState
<1>2. channel' = [channel EXCEPT ![p] = [q \in Tabs |->
                     IF Deliverable(p, q) THEN @[q] \o post ELSE @[q]]]
  BY DEF Finishes
<1> HIDE DEF post
<1>3. \A q \in Tabs : channel[p][q] \o post \in Seq(LinkMessage)
  BY <1>1
<1>4. \A a, b \in Tabs : channel'[a][b] =
         IF a = p /\ Deliverable(p, b) THEN channel[p][b] \o post ELSE channel[a][b]
  BY <1>1, <1>2
<1>5. channel' \in [Tabs -> [Tabs -> Seq(LinkMessage)]]
  BY <1>1, <1>2, <1>3
<1>6. \A b \in Tabs : \A m : Has(channel[p][b] \o post, m) <=> Has(channel[p][b], m) \/ Has(post, m)
  <2> TAKE b \in Tabs
  <2> TAKE m
  <2>1. channel[p][b] \in Seq(LinkMessage)
    BY <1>1
  <2> QED BY <1>1, <2>1, HasMore
<1>7. \A a, b \in Tabs : \A m :
         Has(channel'[a][b], m) <=>
            \/ Has(channel[a][b], m)
            \/ a = p /\ b # p /\ Joined(b) /\ Has(post, m)
  BY <1>4, <1>6 DEF Deliverable
<1>8. \A a, b \in Tabs : channel'[a][b] # <<>> =>
         channel[a][b] # <<>> \/ (a = p /\ b # p /\ Joined(b))
  BY <1>4 DEF Deliverable
<1> QED BY <1>5, <1>7, <1>8 DEF post

LEMMA LeavesChannel ==
    ASSUME LinkedSetting, LinkedTypeOK, NEW p \in Tabs, Leaves(p)
    PROVE  /\ channel' \in [Tabs -> [Tabs -> Seq(LinkMessage)]]
           /\ \A a, b \in Tabs : channel'[a][b] # <<>> => channel[a][b] # <<>> /\ b # p
           /\ \A a, b \in Tabs : \A m : Has(channel'[a][b], m) => Has(channel[a][b], m)
           /\ \A a, b \in Tabs : \A m : b # p /\ Has(channel[a][b], m) => Has(channel'[a][b], m)
<1>1. channel \in [Tabs -> [Tabs -> Seq(LinkMessage)]] /\ <<>> \in Seq(LinkMessage)
  BY DEF LinkedTypeOK
<1>2. channel' = [q \in Tabs |-> [channel[q] EXCEPT ![p] = <<>>]]
  BY DEF Leaves
<1>3. \A a, b \in Tabs : channel'[a][b] = IF b = p THEN <<>> ELSE channel[a][b]
  BY <1>1, <1>2
<1>4. channel' \in [Tabs -> [Tabs -> Seq(LinkMessage)]]
  BY <1>1, <1>2
<1> QED BY <1>3, <1>4, HasNothing

\* A queue that is not written to at all.
LEMMA SameChannel ==
    ASSUME NEW p \in Tabs, Runs(p)
    PROVE  channel' = channel /\ cache' = cache
BY DEF Runs

LEMMA LinkedTypeStep ==
    ASSUME LinkedSetting, LinkedTypeOK, [ForkNext]_forkVars
    PROVE  LinkedTypeOK'
<1>1. \A p \in Tabs : tab[p] \in TabState /\ Fits(tab[p])
  BY DEF LinkedTypeOK
<1>2. ASSUME NEW p \in Tabs, Only(p)
      PROVE  /\ scenario' \in Scenario /\ tab' \in [Tabs -> TabState]
             /\ \A q \in Tabs : Fits(tab'[q])
             /\ \A q \in Tabs : q # p => (Joined(q)' <=> Joined(q))
  BY <1>1, <1>2 DEF Only, LinkedTypeOK, Joined
<1>3. ASSUME NEW p \in Tabs, Runs(p) PROVE LinkedTypeOK'
  <2>1. Only(p) /\ (Joined(p) => Joined(p)')
    BY <1>3 DEF Runs, Publishes, Connects, Hears, KeepsIt, Joined
  <2>2. UNCHANGED <<cache, channel>>
    BY <1>3 DEF Runs
  <2> QED BY <1>2, <2>1, <2>2 DEF LinkedTypeOK
<1>4. ASSUME NEW r \in Tabs, NEW p \in Tabs, Takes(r, p) PROVE LinkedTypeOK'
  <2>1. Only(p) /\ Joined(p) /\ Joined(p)'
    BY <1>4, TakesChannel DEF Takes, Hears, KeepsIt, Joined
  <2>2. UNCHANGED cache
    BY <1>4 DEF Takes
  <2> QED BY <1>2, <1>4, <2>1, <2>2, TakesChannel DEF LinkedTypeOK
<1>5. ASSUME NEW p \in Tabs, Finishes(p) PROVE LinkedTypeOK'
  <2>1. Only(p) /\ (Joined(p) <=> Joined(p)')
    BY <1>5 DEF Finishes, Joined
  <2>2. cache' \in MaybeSnapshot
    BY <1>1, <1>5 DEF Finishes, LinkedTypeOK, TabState
  <2>3. /\ channel' \in [Tabs -> [Tabs -> Seq(LinkMessage)]]
        /\ \A a, b \in Tabs : channel'[a][b] # <<>> =>
              channel[a][b] # <<>> \/ (a = p /\ b # p /\ Joined(b))
    BY <1>5, FinishesChannel
  <2> QED BY <1>2, <2>1, <2>2, <2>3 DEF LinkedTypeOK
<1>6. ASSUME NEW p \in Tabs, Leaves(p) PROVE LinkedTypeOK'
  <2>1. Only(p) /\ UNCHANGED cache
    BY <1>6 DEF Leaves
  <2> QED BY <1>2, <1>6, <2>1, LeavesChannel DEF LinkedTypeOK
<1>7. CASE Expires
  BY <1>7 DEF Expires, Expire, LinkedTypeOK, MaybeSnapshot, Joined
<1>8. CASE UNCHANGED forkVars
  BY <1>8 DEF forkVars, LinkedTypeOK, Joined
<1> QED BY <1>3, <1>4, <1>5, <1>6, <1>7, <1>8, StepKinds

----------------------------------------------------------------------------
(* A step takes no linked tab back.                                        *)
LEMMA ForwardStep ==
    ASSUME LinkedSetting, LinkedTypeOK, [ForkNext]_forkVars, NEW p \in Tabs, Joined(p), Joined(p)'
    PROVE  /\ tab[p].snapshot \in ForkSnapshot /\ tab'[p].snapshot \in ForkSnapshot
           /\ ~Newer(tab[p].snapshot, tab'[p].snapshot)
<1>1. tab[p].snapshot \in ForkSnapshot /\ tab'[p].snapshot \in ForkSnapshot
  BY LinkedTypeStep DEF LinkedTypeOK, Fits, TabState, MaybeSnapshot, Joined
<1> DEFINE s == tab[p].snapshot
           n == tab'[p].snapshot
<1>2. CASE s = n
  BY <1>1, <1>2, Ordering
<1>3. CASE n.sequence > s.sequence
  BY <1>1, <1>3, Ordering
<1>4. CASE Newer(n, s)
  BY <1>1, <1>4, Ordering
<1>5. s = n \/ n.sequence > s.sequence \/ Newer(n, s)
  <2>1. ASSUME NEW q \in Tabs, Only(q), q # p PROVE s = n
    BY <2>1 DEF Only
  <2>2. ASSUME Runs(p) PROVE s = n \/ n.sequence > s.sequence \/ Newer(n, s)
    <3>1. s # NoSnapshot /\ tab[p].state = "joined"
      BY <1>1 DEF LinkedSetting, Joined
    <3> QED BY <2>2, <3>1 DEF Runs, Publishes, Connects, Hears, KeepsIt
  <2>3. ASSUME NEW r \in Tabs, Takes(r, p) PROVE s = n \/ Newer(n, s)
    BY <2>3 DEF Takes, Hears, KeepsIt
  <2>4. ASSUME Finishes(p) PROVE s = n
    BY <2>4 DEF Finishes
  <2>5. ~Leaves(p)
    BY DEF Leaves, Joined
  <2>6. Expires \/ UNCHANGED forkVars => s = n
    BY DEF Expires, Expire, forkVars
  <2>7. ASSUME NEW q \in Tabs, Runs(q) \/ Finishes(q) \/ Leaves(q) \/ \E r \in Tabs : Takes(r, q)
        PROVE Only(q)
    BY <2>7 DEF Runs, Finishes, Leaves, Takes
  <2> QED BY <2>1, <2>2, <2>3, <2>4, <2>5, <2>6, <2>7, StepKinds
<1> QED BY <1>2, <1>3, <1>4, <1>5

----------------------------------------------------------------------------
(* The snapshots there are: in the cell, in tabs and in messages.          *)
Around(t, c, ch) ==
    {x \in ForkSnapshot :
        \/ x = c
        \/ \E p \in Tabs : x = t[p].snapshot \/ Has(t[p].post, Selected(x))
        \/ \E p, q \in Tabs : Has(ch[p][q], Selected(x))}

Present == Around(tab, cache, channel)
Coming == Around(tab', cache', channel')

\* What there is are snapshots, in these places.
LEMMA PresentIs ==
    ASSUME LinkedSetting, LinkedTypeOK
    PROVE  /\ Present \subseteq ForkSnapshot
           /\ cache # NoSnapshot => cache \in Present
           /\ \A p \in Tabs : tab[p].snapshot # NoSnapshot => tab[p].snapshot \in Present
           /\ \A p \in Tabs : tab[p].write # NoSnapshot => tab[p].write \in Present
           /\ \A p \in Tabs, x \in ForkSnapshot : Has(tab[p].post, Selected(x)) => x \in Present
           /\ \A p, q \in Tabs, x \in ForkSnapshot : Has(channel[p][q], Selected(x)) => x \in Present
BY DEF LinkedTypeOK, Fits, TabState, MaybeSnapshot, Present, Around

\* Only a tab that publishes makes a new one.
LEMMA RunsAround ==
    ASSUME LinkedSetting, LinkedTypeOK, NEW p \in Tabs, Runs(p)
    PROVE  \/ Coming \subseteq Present /\ ~Publishes(p, tab[p], tab'[p])
           \/ Publishes(p, tab[p], tab'[p]) /\ Coming \subseteq Present \cup {tab'[p].snapshot}
<1> DEFINE u == tab'[p]
<1> SUFFICES ASSUME NEW x \in Coming, x \notin Present
             PROVE  Publishes(p, tab[p], u) /\ x = u.snapshot
  OBVIOUS
<1>1. cache' = cache /\ channel' = channel /\ \A q \in Tabs \ {p} : tab'[q] = tab[q]
  BY DEF Runs, Only
<1>2. x \in ForkSnapshot /\ (x = u.snapshot \/ Has(u.post, Selected(x)))
  BY <1>1 DEF Coming, Present, Around
<1>3. Selected(x) # SelectionRequest /\ \A y \in ForkSnapshot : Selected(x) = Selected(y) => x = y
  BY <1>2, Messages
<1>4. CASE Publishes(p, tab[p], u)
  BY <1>2, <1>3, <1>4 DEF Publishes
<1>5. CASE ~Publishes(p, tab[p], u)
  <2>1. x = u.snapshot => x \in {cache, tab[p].snapshot}
    BY <1>5 DEF Runs, Connects, Hears, KeepsIt
  <2>2. Has(u.post, Selected(x)) => tab[p].state = "joined" /\ Selected(x) = Selected(tab[p].snapshot)
    BY <1>3, <1>5 DEF Runs, Connects, Hears, KeepsIt
  <2>3. tab[p].state = "joined" => tab[p].snapshot \in ForkSnapshot
    BY NotLinked
  <2>4. x \in {cache, tab[p].snapshot}
    BY <1>2, <1>3, <2>1, <2>2, <2>3
  <2> QED BY <1>2, <2>4 DEF Present, Around
<1> QED BY <1>4, <1>5

\* Taking messages, ending a task, leaving and expiring make no new one.
LEMMA OtherAround ==
    ASSUME LinkedSetting, LinkedTypeOK, NEW p \in Tabs,
           Finishes(p) \/ Leaves(p) \/ (\E r \in Tabs : Takes(r, p)) \/ Expires
    PROVE  Coming \subseteq Present
<1> DEFINE u == tab'[p]
<1> SUFFICES ASSUME NEW x \in Coming PROVE x \in Present
  OBVIOUS
<1>1. x \in ForkSnapshot /\ x # NoSnapshot
  BY DEF Coming, Around, LinkedSetting
<1>2. CASE Finishes(p)
  <2>1. /\ \A q \in Tabs \ {p} : tab'[q] = tab[q]
        /\ u.snapshot = tab[p].snapshot /\ u.post = <<>>
        /\ cache' \in {cache, tab[p].write}
    BY <1>2 DEF Finishes, Only
  <2>2. \A a, b \in Tabs : Has(channel'[a][b], Selected(x)) =>
           Has(channel[a][b], Selected(x)) \/ Has(tab[p].post, Selected(x))
    BY <1>2, FinishesChannel
  <2>3. ~Has(u.post, Selected(x))
    BY <2>1, HasNothing
  <2>4. tab[p].write \in {NoSnapshot, tab[p].snapshot}
    BY DEF LinkedTypeOK, Fits
  <2> QED BY <1>1, <2>1, <2>2, <2>3, <2>4 DEF Coming, Present, Around
<1>3. CASE Leaves(p)
  <2>1. /\ \A q \in Tabs \ {p} : tab'[q] = tab[q]
        /\ u.snapshot = NoSnapshot /\ u.post = <<>> /\ cache' = cache
    BY <1>3 DEF Leaves, Only, Fits, TabState
  <2>2. \A a, b \in Tabs : Has(channel'[a][b], Selected(x)) => Has(channel[a][b], Selected(x))
    BY <1>3, LeavesChannel
  <2>3. ~Has(u.post, Selected(x))
    BY <2>1, HasNothing
  <2> QED BY <1>1, <2>1, <2>2, <2>3 DEF Coming, Present, Around
<1>4. ASSUME NEW r \in Tabs, Takes(r, p) PROVE x \in Present
  <2>1. \A q \in Tabs \ {p} : tab'[q] = tab[q] /\ cache' = cache
    BY <1>4 DEF Takes, Only
  <2>2. /\ \A a, b \in Tabs : Has(channel'[a][b], Selected(x)) => Has(channel[a][b], Selected(x))
        /\ Has(channel[r][p], Head(channel[r][p]))
    BY <1>4, TakesChannel
  <2>3. x = u.snapshot => x = tab[p].snapshot \/ Has(channel[r][p], Selected(x))
    BY <1>4, <2>2 DEF Takes, Hears, KeepsIt
  <2>4. Selected(x) # SelectionRequest /\ \A y \in ForkSnapshot : Selected(x) = Selected(y) => x = y
    BY <1>1, Messages
  <2>5. Has(u.post, Selected(x)) => x = tab[p].snapshot
    <3>1. Has(u.post, Selected(x)) => tab[p].state = "joined" /\ Selected(x) = Selected(tab[p].snapshot)
      BY <1>4, <2>4 DEF Takes, Hears, KeepsIt
    <3> QED BY <2>4, <3>1, NotLinked
  <2>6. cache' = cache
    BY <1>4 DEF Takes
  <2> QED BY <1>1, <2>1, <2>2, <2>3, <2>5, <2>6 DEF Coming, Present, Around
<1>5. CASE Expires
  BY <1>1, <1>5 DEF Expires, Expire, Coming, Present, Around
<1> QED BY <1>2, <1>3, <1>4, <1>5

LEMMA ComingIs ==
    Present' = Coming
BY DEF Present, Coming, Around

\* Sequence and sender say which snapshot it is.
Unique == \A x, y \in Present : ~Newer(x, y) /\ ~Newer(y, x) => x = y

----------------------------------------------------------------------------
(* First kind of scenario: tabs come, go and rejoin as they like, and no   *)
(* two tasks race for the cell.  The cell, or who is about to write it,    *)
(* has the newest snapshot (Top), and every linked tab has that or will    *)
(* get it.                                                                 *)
Orderly == StorageWorks /\ scenario.may \cap {"race", "expire"} = {}

OneTask == \A p, q \in Tabs : ~Idle(p) /\ ~Idle(q) => p = q
AllIdle == \A p \in Tabs : Idle(p)
NoWrites == \A p \in Tabs : tab[p].write = NoSnapshot

Top(y) == (NoWrites /\ y = cache) \/ \E p \in Tabs : tab[p].write = y

Reaches(y, q) ==
    \/ tab[q].snapshot = y
    \/ \E p \in Tabs \ {q} : Has(tab[p].post, Selected(y)) \/ Has(channel[p][q], Selected(y))

TopIsNewest == \A y \in ForkSnapshot : Top(y) => \A x \in Present : ~Newer(x, y)
TopSpreads == \A y \in ForkSnapshot : Top(y) => \A q \in Tabs : Joined(q) => Reaches(y, q)
NoneYet == NoWrites /\ cache = NoSnapshot => Present = {}

OrderlyInv == OneTask /\ Unique /\ TopIsNewest /\ TopSpreads /\ NoneYet

\* One task runs at a time.
LEMMA OrderlyIdle ==
    ASSUME Orderly, OrderlyInv, NEW p \in Tabs
    PROVE  /\ CanRun(p) => AllIdle
           /\ ~Idle(p) => \A q \in Tabs \ {p} : Idle(q)
BY DEF Orderly, OrderlyInv, OneTask, CanRun, AllIdle

\* When nobody runs, the cell has the newest snapshot.
LEMMA IdleTop ==
    ASSUME LinkedSetting, LinkedTypeOK, OrderlyInv, AllIdle
    PROVE  /\ NoWrites /\ \A y \in ForkSnapshot : Top(y) <=> y = cache
           /\ cache = NoSnapshot => Present = {}
           /\ \A x \in Present : cache \in ForkSnapshot /\ cache \in Present /\ ~Newer(x, cache)
           /\ \A x \in Present : ~Newer(cache, x) => x = cache
           /\ cache # NoSnapshot => \A q \in Tabs : Joined(q) =>
                 tab[q].snapshot = cache \/ \E p \in Tabs \ {q} : Has(channel[p][q], Selected(cache))
<1>1. NoWrites /\ \A p \in Tabs : tab[p].post = <<>>
  BY DEF AllIdle, NoWrites, Idle
<1>2. \A y \in ForkSnapshot : Top(y) <=> y = cache
  BY <1>1 DEF Top, NoWrites, LinkedSetting
<1>3. cache = NoSnapshot => Present = {}
  BY <1>1 DEF OrderlyInv, NoneYet
<1>4. \A x \in Present : cache \in ForkSnapshot /\ cache \in Present
  BY <1>3, PresentIs DEF LinkedTypeOK, MaybeSnapshot
<1>5. \A x \in Present : ~Newer(x, cache)
  BY <1>2, <1>4 DEF OrderlyInv, TopIsNewest
<1>6. \A x \in Present : ~Newer(cache, x) => x = cache
  BY <1>4, <1>5 DEF OrderlyInv, Unique
<1>7. cache # NoSnapshot => \A q \in Tabs : Joined(q) => Reaches(cache, q)
  BY <1>2 DEF OrderlyInv, TopSpreads, LinkedTypeOK, MaybeSnapshot
<1>8. \A p \in Tabs : ~Has(tab[p].post, Selected(cache))
  BY <1>1, HasNothing
<1> QED BY <1>1, <1>2, <1>3, <1>4, <1>5, <1>6, <1>7, <1>8 DEF Reaches

\* What is published is above all there is, and goes to everybody.
LEMMA OrderlyPublishes ==
    ASSUME LinkedSetting, LinkedTypeOK, Orderly, OrderlyInv, NEW p \in Tabs, Runs(p),
           Publishes(p, tab[p], tab'[p])
    PROVE  OrderlyInv'
<1> DEFINE n == tab'[p].snapshot
<1>1. /\ AllIdle /\ n \in ForkSnapshot /\ tab'[p].write = n /\ Has(tab'[p].post, Selected(n))
      /\ \A q \in Tabs \ {p} : tab'[q] = tab[q]
      /\ \A x \in {cache} \ {NoSnapshot} : n.sequence > x.sequence
  BY OrderlyIdle DEF Runs, Publishes, Only, Orderly
<1>2. Coming \subseteq Present \cup {n} /\ Coming \subseteq ForkSnapshot /\ Present \subseteq ForkSnapshot
  BY RunsAround, PresentIs DEF Coming, Around
<1>3. /\ NoWrites
      /\ \A x \in Present : cache \in ForkSnapshot /\ cache \in Present /\ ~Newer(x, cache)
  BY <1>1, IdleTop
<1> HIDE DEF n
<1>4. \A x \in Present : Newer(n, x) /\ ~Newer(x, n)
  <2> TAKE x \in Present
  <2>1. cache \in ForkSnapshot /\ x \in ForkSnapshot /\ ~Newer(x, cache) /\ cache # NoSnapshot
    BY <1>2, <1>3 DEF LinkedSetting
  <2>2. Newer(n, cache)
    BY <1>1, <2>1, Ordering
  <2> QED BY <1>1, <2>1, <2>2, Ordering
<1>5. \A y \in ForkSnapshot : Top(y)' <=> y = n
  <2>1. \A q \in Tabs : tab'[q].write = IF q = p THEN n ELSE NoSnapshot
    BY <1>1, <1>3 DEF NoWrites
  <2> QED BY <1>1, <2>1 DEF Top, NoWrites, LinkedSetting
<1>6. OneTask'
  BY <1>1 DEF OneTask, AllIdle, Idle
<1>7. Unique'
  BY <1>2, <1>4, ComingIs DEF Unique, OrderlyInv
<1>8. TopIsNewest'
  BY <1>1, <1>2, <1>4, <1>5, ComingIs, Ordering DEF TopIsNewest
<1>9. TopSpreads'
  BY <1>1, <1>5 DEF TopSpreads, Reaches, n
<1>10. NoneYet'
  BY <1>1 DEF NoneYet, NoWrites, LinkedSetting
<1> QED BY <1>6, <1>7, <1>8, <1>9, <1>10 DEF OrderlyInv

\* A task that publishes nothing new writes the cell's own snapshot at most.
LEMMA OrderlyTask ==
    ASSUME LinkedSetting, LinkedTypeOK, OrderlyInv, AllIdle, NEW p \in Tabs, Only(p), cache' = cache,
           Coming \subseteq Present,
           tab'[p].write \in {NoSnapshot, tab'[p].snapshot},
           tab'[p].write # NoSnapshot => ~Newer(cache, tab'[p].snapshot),
           \A q \in Tabs \ {p}, a \in Tabs : Has(channel[a][q], Selected(cache)) =>
               Has(channel'[a][q], Selected(cache)),
           cache # NoSnapshot /\ Joined(p)' =>
               \/ tab'[p].snapshot = cache
               \/ \E a \in Tabs \ {p} : Has(channel'[a][p], Selected(cache))
    PROVE  OrderlyInv'
<1>1. \A q \in Tabs \ {p} : tab'[q] = tab[q]
  BY DEF Only
<1>2. NoWrites /\ (\A x \in Present : ~Newer(cache, x) => x = cache)
      /\ (cache = NoSnapshot => Present = {})
  BY IdleTop
<1>3. tab'[p].write \in {NoSnapshot, cache}
  <2>1. tab'[p].snapshot \in MaybeSnapshot
    BY DEF Only, TabState
  <2>2. tab'[p].write # NoSnapshot => tab'[p].snapshot \in Coming
    BY <2>1 DEF Coming, Around, MaybeSnapshot
  <2> QED BY <1>2, <2>2
<1>4. \A q \in Tabs : tab'[q].write \in {NoSnapshot, cache}
  BY <1>1, <1>2, <1>3 DEF NoWrites
<1>5. \A y \in ForkSnapshot : Top(y)' => y = cache
  BY <1>4 DEF Top, LinkedSetting
<1>6. OneTask'
  BY <1>1 DEF OneTask, AllIdle, Idle
<1>7. Unique'
  BY ComingIs DEF Unique, OrderlyInv
<1>8. TopIsNewest'
  BY <1>5, ComingIs, IdleTop DEF TopIsNewest
<1>9. TopSpreads'
  <2> SUFFICES ASSUME cache # NoSnapshot, NEW q \in Tabs, Joined(q)'
               PROVE  \/ tab'[q].snapshot = cache
                      \/ \E a \in Tabs \ {q} : Has(channel'[a][q], Selected(cache))
    BY <1>5 DEF TopSpreads, Reaches, LinkedSetting
  <2>1. CASE q = p
    BY <2>1
  <2>2. CASE q # p
    <3>1. Joined(q) /\ tab'[q] = tab[q]
      BY <1>1, <2>2 DEF Joined
    <3> QED BY <2>2, <3>1, IdleTop
  <2> QED BY <2>1, <2>2
<1>10. NoneYet'
  BY <1>2, ComingIs DEF NoneYet
<1> QED BY <1>6, <1>7, <1>8, <1>9, <1>10 DEF OrderlyInv

LEMMA OrderlyRuns ==
    ASSUME LinkedSetting, LinkedTypeOK, Orderly, OrderlyInv, NEW p \in Tabs, Runs(p)
    PROVE  OrderlyInv'
<1>1. CASE Publishes(p, tab[p], tab'[p])
  BY <1>1, OrderlyPublishes
<1>2. CASE ~Publishes(p, tab[p], tab'[p])
  <2>1. AllIdle /\ Only(p) /\ cache' = cache /\ channel' = channel
    BY OrderlyIdle DEF Runs
  <2>2. Coming \subseteq Present
    BY <1>2, RunsAround
  <2>3. /\ tab'[p].write \in {NoSnapshot, tab'[p].snapshot}
        /\ tab'[p].write # NoSnapshot => ~Newer(cache, tab'[p].snapshot)
    BY <1>2 DEF Runs, Connects, Hears, KeepsIt, Stored, LinkedSetting
  <2>4. cache # NoSnapshot => \A x \in Present : ~Newer(cache, x) => x = cache
    BY <2>1, IdleTop
  <2>5. ASSUME cache # NoSnapshot, Joined(p)'
        PROVE  \/ tab'[p].snapshot = cache
               \/ \E a \in Tabs \ {p} : Has(channel'[a][p], Selected(cache))
    <3>1. CASE Connects(tab[p], tab'[p])
      BY <3>1 DEF Connects
    <3>2. CASE Hears(tab[p], tab'[p], cache)
      <4>1. tab[p].snapshot \in Present
        BY <3>2, NotLinked, PresentIs DEF Hears, LinkedSetting
      <4> QED BY <2>4, <2>5, <3>2, <4>1 DEF Hears
    <3>3. CASE KeepsIt(tab[p], tab'[p])
      <4>1. Joined(p) /\ tab'[p].snapshot = tab[p].snapshot
        BY <2>5, <3>3 DEF KeepsIt, Joined
      <4> QED BY <2>1, <2>5, <4>1, IdleTop
    <3> QED BY <1>2, <3>1, <3>2, <3>3 DEF Runs
  <2> QED BY <2>1, <2>2, <2>3, <2>5, OrderlyTask
<1> QED BY <1>1, <1>2

LEMMA OrderlyTakes ==
    ASSUME LinkedSetting, LinkedTypeOK, Orderly, OrderlyInv, NEW r \in Tabs, NEW p \in Tabs, Takes(r, p)
    PROVE  OrderlyInv'
<1>1. AllIdle /\ Only(p) /\ cache' = cache
  BY OrderlyIdle DEF Takes
<1>2. Coming \subseteq Present
  BY OtherAround
<1> DEFINE m == Head(channel[r][p])
<1>3. /\ Joined(p) /\ r # p
      /\ \A a, b \in Tabs : \A n : Has(channel[a][b], n) =>
            Has(channel'[a][b], n) \/ (a = r /\ b = p /\ n = m)
      /\ Has(channel[r][p], m)
  BY TakesChannel
<1>4. \/ m = SelectionRequest /\ KeepsIt(tab[p], tab'[p])
      \/ \E x \in ForkSnapshot : m = Selected(x) /\ Hears(tab[p], tab'[p], x)
  BY DEF Takes
<1> HIDE DEF m
<1>5. tab[p].snapshot \in ForkSnapshot /\ tab[p].snapshot \in Present /\ cache \in ForkSnapshot
  <2>1. tab[p].snapshot \in ForkSnapshot
    BY <1>3, NotLinked DEF Joined
  <2> QED BY <1>1, <2>1, PresentIs, IdleTop DEF LinkedSetting
<1>6. /\ tab'[p].write \in {NoSnapshot, tab'[p].snapshot}
      /\ tab'[p].write # NoSnapshot => ~Newer(cache, tab'[p].snapshot)
  BY <1>4, <1>5 DEF Hears, KeepsIt, Stored, LinkedSetting
<1>7. \/ tab'[p].snapshot = cache
      \/ \E a \in Tabs \ {p} : Has(channel'[a][p], Selected(cache))
  <2>1. ASSUME NEW x \in ForkSnapshot, m = Selected(x), Hears(tab[p], tab'[p], x)
        PROVE  /\ tab[p].snapshot = cache => tab'[p].snapshot = cache
               /\ m = Selected(cache) => tab'[p].snapshot = cache
    <3>1. x \in Present
      BY <1>3, <2>1, PresentIs
    <3>2. ~Newer(x, cache) /\ (~Newer(cache, tab[p].snapshot) => tab[p].snapshot = cache)
      BY <1>1, <1>5, <3>1, IdleTop
    <3>3. m = Selected(cache) => x = cache
      BY <2>1, Messages
    <3> QED BY <2>1, <3>2, <3>3 DEF Hears
  <2>2. Selected(cache) # SelectionRequest
    BY <1>5, Messages
  <2>3. KeepsIt(tab[p], tab'[p]) => tab'[p].snapshot = tab[p].snapshot
    BY DEF KeepsIt
  <2>4. \/ tab[p].snapshot = cache
        \/ \E a \in Tabs \ {p} : Has(channel[a][p], Selected(cache))
    BY <1>1, <1>3, <1>5, IdleTop DEF LinkedSetting
  <2> QED BY <1>3, <1>4, <2>1, <2>2, <2>3, <2>4
<1> QED BY <1>1, <1>2, <1>3, <1>6, <1>7, OrderlyTask

LEMMA OrderlyFinishes ==
    ASSUME LinkedSetting, LinkedTypeOK, Orderly, OrderlyInv, NEW p \in Tabs, Finishes(p)
    PROVE  OrderlyInv'
<1>1. /\ \A q \in Tabs \ {p} : tab'[q] = tab[q] /\ Idle(q)
      /\ tab'[p].state = tab[p].state /\ tab'[p].snapshot = tab[p].snapshot
      /\ tab'[p].write = NoSnapshot /\ tab'[p].post = <<>>
      /\ cache' = IF tab[p].write = NoSnapshot THEN cache ELSE tab[p].write
  BY OrderlyIdle DEF Finishes, Only
<1>2. Coming \subseteq Present
  BY OtherAround
<1>3. NoWrites' /\ \A q \in Tabs \ {p} : tab[q].write = NoSnapshot /\ tab[q].post = <<>>
  BY <1>1 DEF NoWrites, Idle
<1>4. cache' \in ForkSnapshot => Top(cache')
  BY <1>1, <1>3 DEF Top, NoWrites
<1>5. \A y \in ForkSnapshot : Top(y)' => y = cache'
  BY <1>3 DEF Top, NoWrites, LinkedSetting
<1>6. OneTask'
  BY <1>1 DEF OneTask, Idle
<1>7. Unique'
  BY <1>2, ComingIs DEF Unique, OrderlyInv
<1>8. TopIsNewest'
  BY <1>2, <1>4, <1>5, ComingIs DEF TopIsNewest, OrderlyInv
<1>9. TopSpreads'
  <2> SUFFICES ASSUME cache' \in ForkSnapshot, NEW q \in Tabs, Joined(q)'
               PROVE  \/ tab'[q].snapshot = cache'
                      \/ \E a \in Tabs \ {q} : Has(channel'[a][q], Selected(cache'))
    BY <1>5 DEF TopSpreads, Reaches
  <2> DEFINE y == cache'
  <2>1. Joined(q) /\ tab'[q].snapshot = tab[q].snapshot
    BY <1>1 DEF Joined
  <2>2. Reaches(y, q)
    BY <1>4, <2>1 DEF OrderlyInv, TopSpreads
  <2>3. \A a \in Tabs \ {p} : ~Has(tab[a].post, Selected(y))
    BY <1>3, HasNothing
  <2>4. \A a \in Tabs : Has(channel[a][q], Selected(y)) \/ (a = p /\ q # p /\ Has(tab[p].post, Selected(y)))
           => Has(channel'[a][q], Selected(y))
    BY <2>1, FinishesChannel
  <2> QED BY <2>1, <2>2, <2>3, <2>4 DEF Reaches
<1>10. NoneYet'
  <2>1. cache' = NoSnapshot => cache = NoSnapshot /\ tab[p].write = NoSnapshot
    BY <1>1
  <2> QED BY <1>2, <1>3, <2>1, ComingIs DEF NoneYet, OrderlyInv, NoWrites
<1> QED BY <1>6, <1>7, <1>8, <1>9, <1>10 DEF OrderlyInv

LEMMA OrderlyLeaves ==
    ASSUME LinkedSetting, LinkedTypeOK, Orderly, OrderlyInv, NEW p \in Tabs, Leaves(p)
    PROVE  OrderlyInv'
<1>1. AllIdle /\ Only(p) /\ cache' = cache /\ ~Joined(p)'
  BY OrderlyIdle DEF Leaves, Joined
<1>2. tab'[p].write = NoSnapshot
  BY <1>1 DEF Only, Fits, Joined
<1>3. Coming \subseteq Present
  BY OtherAround
<1> QED BY <1>1, <1>2, <1>3, LeavesChannel, OrderlyTask

\* The first kind of scenario keeps its invariant.
LEMMA OrderlyStep ==
    ASSUME LinkedSetting, LinkedTypeOK, Orderly, OrderlyInv, [ForkNext]_forkVars
    PROVE  Orderly' /\ OrderlyInv'
<1>1. scenario' = scenario
  BY StepKinds DEF Runs, Takes, Finishes, Leaves, Only, Expires, Expire, forkVars
<1>2. ~Expires
  BY DEF Expires, Expire, Orderly
<1>3. CASE UNCHANGED forkVars
  <2>1. Coming = Present
    BY <1>3 DEF forkVars, Coming, Present
  <2>2. OneTask' /\ Unique' /\ TopIsNewest' /\ TopSpreads' /\ NoneYet'
    BY <1>3, <2>1, ComingIs DEF forkVars, OrderlyInv, OneTask, Unique, TopIsNewest, TopSpreads, NoneYet,
       Top, NoWrites, Reaches, Idle, Joined
  <2> QED BY <1>1, <2>2 DEF OrderlyInv, Orderly
<1>4. CASE ForkNext
  BY <1>1, <1>2, <1>4, StepKinds, OrderlyRuns, OrderlyTakes, OrderlyFinishes, OrderlyLeaves
     DEF Orderly
<1> QED BY <1>3, <1>4

----------------------------------------------------------------------------
(* Second kind of scenario: nobody leaves, and any two tasks may race for  *)
(* the cell, which may expire.  Who made a snapshot is there and has       *)
(* nothing older (MakerKnown), and tells every other tab of it or is asked *)
(* by it (AllInformed); while the cell is behind, a tab is about to        *)
(* restore it or will be, for it is behind too (CellFollows).              *)
Staying == scenario.pausers = {} /\ "close" \notin scenario.may

NobodyLeft == \A p \in Tabs : tab[p].state \in {"closed", "joined"}
MakerKnown == \A x \in Present : Joined(x.sender) /\ ~Newer(x, tab[x.sender].snapshot)

Tells(p, q) ==
    \/ Has(tab[p].post, Selected(tab[p].snapshot))
    \/ Has(channel[p][q], Selected(tab[p].snapshot))
Asks(q, p) == Has(tab[q].post, SelectionRequest) \/ Has(channel[q][p], SelectionRequest)

IsInformed(p, q) ==
    tab[p].snapshot.sender = p =>
        ~Newer(tab[p].snapshot, tab[q].snapshot) \/ Tells(p, q) \/ Asks(q, p)

AllInformed == \A p, q \in Tabs : Joined(p) /\ Joined(q) /\ p # q => IsInformed(p, q)

CellBehind(p) ==
    IF cache = NoSnapshot THEN "expire" \notin scenario.may ELSE Newer(tab[p].snapshot, cache)

CatchesUp(p, w) ==
    \/ Joined(w) /\ Newer(tab[p].snapshot, tab[w].snapshot)
    \/ tab[w].write # NoSnapshot /\ ~Newer(tab[p].snapshot, tab[w].write)

CellFollows ==
    StorageWorks =>
        \A p \in Tabs : Joined(p) /\ CellBehind(p) => \E w \in Tabs : CatchesUp(p, w)

StayingInv == NobodyLeft /\ MakerKnown /\ Unique /\ AllInformed /\ CellFollows

\* The steps of the second kind; linked tabs stay linked.
LEMMA StayingStays ==
    ASSUME LinkedSetting, LinkedTypeOK, Staying, NobodyLeft, ForkNext
    PROVE  /\ \/ \E p \in Tabs : Runs(p) \/ Finishes(p)
              \/ \E r, p \in Tabs : Takes(r, p)
              \/ Expires
           /\ Staying' /\ NobodyLeft'
           /\ \A q \in Tabs : Joined(q) => Joined(q)'
<1>1. \A p \in Tabs : ~Leaves(p)
  BY DEF Leaves, Staying
<1>2. ASSUME NEW p \in Tabs, Runs(p) \/ Finishes(p) \/ \E r \in Tabs : Takes(r, p)
      PROVE  /\ Only(p) /\ (Joined(p) => Joined(p)') /\ tab'[p].state \in {"closed", "joined"}
  <2>1. tab[p].state \in {"closed", "joined"}
    BY DEF NobodyLeft
  <2> QED BY <1>2, <2>1 DEF Runs, Finishes, Takes, Publishes, Connects, Hears, KeepsIt, Joined
<1>3. ASSUME NEW p \in Tabs, Runs(p) \/ Finishes(p) \/ \E r \in Tabs : Takes(r, p)
      PROVE  Staying' /\ NobodyLeft' /\ \A q \in Tabs : Joined(q) => Joined(q)'
  BY <1>2, <1>3 DEF Only, Staying, NobodyLeft, Joined
<1>4. Expires => Staying' /\ NobodyLeft' /\ \A q \in Tabs : Joined(q) => Joined(q)'
  BY DEF Expires, Expire, Staying, NobodyLeft, Joined
<1>5. \/ \E p \in Tabs : Runs(p) \/ Finishes(p)
      \/ \E r, p \in Tabs : Takes(r, p)
      \/ Expires
  BY <1>1, StepKinds
<1> QED BY <1>3, <1>4, <1>5

\* Whatever the step: snapshots that are not new are known.
LEMMA KnownStep ==
    ASSUME LinkedSetting, LinkedTypeOK, Staying, NobodyLeft, MakerKnown, Unique, ForkNext
    PROVE  MakerKnown' /\ Unique'
<1>1. \A q \in Tabs : Joined(q) => Joined(q)'
  BY StayingStays
<1>2. \A q \in Tabs : Joined(q) =>
         /\ tab[q].snapshot \in ForkSnapshot /\ tab'[q].snapshot \in ForkSnapshot
         /\ ~Newer(tab[q].snapshot, tab'[q].snapshot)
  BY <1>1, ForwardStep
<1>3. \A x \in Present :
         /\ x \in ForkSnapshot /\ x.sender \in Tabs
         /\ Joined(x.sender) /\ ~Newer(x, tab[x.sender].snapshot)
  BY PresentIs DEF MakerKnown, ForkSnapshot
<1>4. \A x \in Present : Joined(x.sender)' /\ ~Newer(x, tab'[x.sender].snapshot)
  <2> TAKE x \in Present
  <2> DEFINE s == x.sender
  <2>1. /\ x \in ForkSnapshot /\ s \in Tabs /\ Joined(s) /\ Joined(s)'
        /\ tab[s].snapshot \in ForkSnapshot /\ tab'[s].snapshot \in ForkSnapshot
        /\ ~Newer(x, tab[s].snapshot) /\ ~Newer(tab[s].snapshot, tab'[s].snapshot)
    BY <1>1, <1>2, <1>3
  <2> QED BY <2>1, Ordering
<1>5. CASE Coming \subseteq Present
  BY <1>4, <1>5, ComingIs DEF MakerKnown, Unique
<1>6. ASSUME NEW p \in Tabs, Publishes(p, tab[p], tab'[p]),
             Coming \subseteq Present \cup {tab'[p].snapshot}
      PROVE  MakerKnown' /\ Unique'
  <2> DEFINE n == tab'[p].snapshot
  <2>1. n \in ForkSnapshot /\ n.sender = p /\ Joined(p)'
    BY <1>6 DEF Publishes, Joined
  <2>2. MakerKnown'
    <3>1. ~Newer(n, n)
      BY <2>1, Ordering
    <3> QED BY <1>4, <1>6, <2>1, <3>1, ComingIs DEF MakerKnown
  <2>3. \A x \in Present : Newer(x, n) \/ Newer(n, x)
    <3> SUFFICES ASSUME NEW x \in Present, ~Newer(x, n), ~Newer(n, x) PROVE FALSE
      OBVIOUS
    <3>1. x \in ForkSnapshot /\ x.sender = p /\ x.sequence = n.sequence
      BY <1>3, <2>1, Ordering
    <3>2. Joined(p) /\ ~Newer(x, tab[p].snapshot) /\ tab[p].snapshot \in ForkSnapshot
      BY <1>2, <1>3, <3>1
    <3>3. tab[p].snapshot.sequence >= x.sequence
      BY <3>1, <3>2, Ordering
    <3>4. n.sequence > tab[p].snapshot.sequence
      BY <1>6, <3>2 DEF Publishes, LinkedSetting
    <3>5. n.sequence \in Int /\ x.sequence \in Int /\ tab[p].snapshot.sequence \in Int
      BY <2>1, <3>1, <3>2 DEF ForkSnapshot, LinkedSetting
    <3> QED BY <3>1, <3>3, <3>4, <3>5
  <2>4. Unique'
    BY <1>6, <2>3, ComingIs DEF Unique
  <2> QED BY <2>2, <2>4
<1>7. \/ Coming \subseteq Present
      \/ \E p \in Tabs : Publishes(p, tab[p], tab'[p]) /\ Coming \subseteq Present \cup {tab'[p].snapshot}
  <2>1. CASE Expires
    <3>1. Coming \subseteq Present
      BY <2>1 DEF Expires, Expire, Coming, Present, Around, LinkedSetting
    <3> QED BY <3>1
  <2> QED BY <2>1, StayingStays, RunsAround, OtherAround
<1> QED BY <1>5, <1>6, <1>7

\* Whoever acts keeps its snapshot or takes a newer one that it did not make.
LEMMA OwnSnapshot ==
    ASSUME LinkedSetting, LinkedTypeOK, Staying, NobodyLeft, MakerKnown, NEW p \in Tabs,
           Runs(p) \/ \E r \in Tabs : Takes(r, p),
           ~Publishes(p, tab[p], tab'[p]), Joined(p)', tab'[p].snapshot.sender = p
    PROVE  Joined(p) /\ tab'[p].snapshot = tab[p].snapshot
<1>1. \A x \in Present : x.sender = p => Joined(p) /\ ~Newer(x, tab[p].snapshot)
  BY DEF MakerKnown
<1>2. CASE Connects(tab[p], tab'[p])
  <2>1. cache \in Present /\ cache.sender = p /\ ~Joined(p)
    BY <1>2, PresentIs DEF Connects, Joined
  <2> QED BY <1>1, <2>1
<1>3. ASSUME NEW x \in Present, Hears(tab[p], tab'[p], x)
      PROVE  Joined(p) /\ tab'[p].snapshot = tab[p].snapshot
  <2>1. CASE Newer(x, tab[p].snapshot)
    BY <1>1, <1>3, <2>1 DEF Hears, Joined
  <2>2. CASE ~Newer(x, tab[p].snapshot)
    BY <1>3, <2>2 DEF Hears, Joined
  <2> QED BY <2>1, <2>2
<1>4. CASE KeepsIt(tab[p], tab'[p])
  BY <1>4 DEF KeepsIt, Joined
<1>5. ASSUME NEW r \in Tabs, Takes(r, p)
      PROVE  KeepsIt(tab[p], tab'[p]) \/ \E x \in Present : Hears(tab[p], tab'[p], x)
  <2>1. Has(channel[r][p], Head(channel[r][p]))
    BY <1>5, TakesChannel
  <2>2. \A x \in ForkSnapshot : Head(channel[r][p]) = Selected(x) => x \in Present
    BY <2>1, PresentIs
  <2> QED BY <1>5, <2>2 DEF Takes
<1>6. cache \in ForkSnapshot => cache \in Present
  BY PresentIs DEF LinkedSetting
<1> QED BY <1>2, <1>3, <1>4, <1>5, <1>6 DEF Runs

\* A task leaves nobody uninformed: a new snapshot is posted to all, and who
\* connects asks all.
LEMMA InformedRuns ==
    ASSUME LinkedSetting, LinkedTypeOK, Staying, StayingInv, NEW p \in Tabs, Runs(p), ForkNext
    PROVE  AllInformed'
<1> SUFFICES ASSUME NEW a \in Tabs, NEW b \in Tabs, Joined(a)', Joined(b)', a # b,
                    tab'[a].snapshot.sender = a
             PROVE  \/ ~Newer(tab'[a].snapshot, tab'[b].snapshot)
                    \/ Has(tab'[a].post, Selected(tab'[a].snapshot))
                    \/ Has(channel'[a][b], Selected(tab'[a].snapshot))
                    \/ Has(tab'[b].post, SelectionRequest) \/ Has(channel'[b][a], SelectionRequest)
  BY DEF AllInformed, IsInformed, Tells, Asks
<1>1. /\ channel' = channel /\ \A q \in Tabs \ {p} : tab'[q] = tab[q]
      /\ \A m : ~Has(tab[p].post, m)
  BY HasNothing DEF Runs, Only, CanRun, Idle
<1>2. CASE Publishes(p, tab[p], tab'[p]) /\ a = p
  BY <1>2 DEF Publishes
<1>3. CASE ~Publishes(p, tab[p], tab'[p]) \/ a # p
  <2>1. Joined(a) /\ tab'[a].snapshot = tab[a].snapshot
    <3>1. CASE a = p
      BY <1>3, <3>1, OwnSnapshot DEF StayingInv
    <3>2. CASE a # p
      BY <1>1, <3>2 DEF Joined
    <3> QED BY <3>1, <3>2
  <2>2. CASE ~Joined(b)
    <3>1. b = p /\ ~KeepsIt(tab[p], tab'[p]) /\ \A x : ~Hears(tab[p], tab'[p], x)
      BY <1>1, <2>2 DEF Joined, KeepsIt, Hears
    <3>2. tab[p].state # "joined"
      BY <2>2, <3>1 DEF Joined
    <3> QED BY <3>1, <3>2 DEF Runs, Publishes, Connects
  <2>3. CASE Joined(b)
    <3>1. /\ tab[b].snapshot \in ForkSnapshot /\ tab'[b].snapshot \in ForkSnapshot
          /\ ~Newer(tab[b].snapshot, tab'[b].snapshot) /\ tab[a].snapshot \in ForkSnapshot
      BY <2>1, <2>3, ForwardStep
    <3>2. \/ ~Newer(tab[a].snapshot, tab[b].snapshot)
          \/ Has(tab[a].post, Selected(tab[a].snapshot))
          \/ Has(channel[a][b], Selected(tab[a].snapshot))
          \/ Has(tab[b].post, SelectionRequest) \/ Has(channel[b][a], SelectionRequest)
      BY <2>1, <2>3 DEF StayingInv, AllInformed, IsInformed, Tells, Asks
    <3>3. ~Newer(tab[a].snapshot, tab[b].snapshot) => ~Newer(tab[a].snapshot, tab'[b].snapshot)
      BY <3>1, Ordering
    <3>4. \A q \in Tabs : \A m : Has(tab[q].post, m) => Has(tab'[q].post, m)
      BY <1>1
    <3> QED BY <1>1, <2>1, <3>2, <3>3, <3>4
  <2> QED BY <2>2, <2>3
<1> QED BY <1>2, <1>3

\* Who takes a message has its snapshot after it; who takes a request answers.
LEMMA InformedTakes ==
    ASSUME LinkedSetting, LinkedTypeOK, Staying, StayingInv, NEW r \in Tabs, NEW p \in Tabs, Takes(r, p), ForkNext
    PROVE  AllInformed'
<1> SUFFICES ASSUME NEW a \in Tabs, NEW b \in Tabs, Joined(a)', Joined(b)', a # b,
                    tab'[a].snapshot.sender = a
             PROVE  \/ ~Newer(tab'[a].snapshot, tab'[b].snapshot)
                    \/ Has(tab'[a].post, Selected(tab'[a].snapshot))
                    \/ Has(channel'[a][b], Selected(tab'[a].snapshot))
                    \/ Has(tab'[b].post, SelectionRequest) \/ Has(channel'[b][a], SelectionRequest)
  BY DEF AllInformed, IsInformed, Tells, Asks
<1> DEFINE m == Head(channel[r][p])
<1>1. /\ \A q \in Tabs \ {p} : tab'[q] = tab[q]
      /\ \A n : ~Has(tab[p].post, n)
      /\ Joined(p)
  <2>1. Joined(p)
    BY TakesChannel
  <2> QED BY <2>1, HasNothing DEF Takes, Only, CanRun, Idle
<1>2. \A c, d \in Tabs : \A n : Has(channel[c][d], n) =>
         Has(channel'[c][d], n) \/ (c = r /\ d = p /\ n = m)
  BY TakesChannel
<1>3. \/ /\ m = SelectionRequest /\ KeepsIt(tab[p], tab'[p])
         /\ Has(tab'[p].post, Selected(tab[p].snapshot))
      \/ \E x \in ForkSnapshot : m = Selected(x) /\ Hears(tab[p], tab'[p], x)
  BY DEF Takes
<1> HIDE DEF m
<1>4. Joined(a) /\ Joined(b) /\ tab'[a].snapshot = tab[a].snapshot
  <2>1. CASE a = p
    <3>1. ~Publishes(p, tab[p], tab'[p])
      <4>1. tab[p].snapshot \in ForkSnapshot /\ tab[p].state = "joined"
        BY <1>1, NotLinked DEF Joined
      <4>2. ~Has(tab'[p].post, Selected(tab'[p].snapshot)) \/ tab'[p].snapshot = tab[p].snapshot
        <5>1. \A x \in ForkSnapshot : Selected(x) # SelectionRequest
          BY Messages
        <5>2. tab'[p].snapshot \in ForkSnapshot
          BY <2>1, ForwardStep, <1>1
        <5> QED BY <1>3, <5>1, <5>2 DEF Hears, KeepsIt
      <4>3. tab[p].snapshot.sequence \in Int
        BY <4>1 DEF ForkSnapshot, LinkedSetting
      <4> QED BY <4>1, <4>2, <4>3 DEF Publishes, LinkedSetting
    <3> QED BY <1>1, <2>1, <3>1, OwnSnapshot DEF StayingInv, Joined
  <2>2. CASE a # p
    BY <1>1, <2>2 DEF Joined
  <2> QED BY <1>1, <2>1, <2>2 DEF Joined
<1>5. /\ tab[b].snapshot \in ForkSnapshot /\ tab'[b].snapshot \in ForkSnapshot
      /\ ~Newer(tab[b].snapshot, tab'[b].snapshot) /\ tab[a].snapshot \in ForkSnapshot
  BY <1>4, ForwardStep
<1>6. \/ ~Newer(tab[a].snapshot, tab[b].snapshot)
      \/ Has(tab[a].post, Selected(tab[a].snapshot))
      \/ Has(channel[a][b], Selected(tab[a].snapshot))
      \/ Has(tab[b].post, SelectionRequest) \/ Has(channel[b][a], SelectionRequest)
  BY <1>4 DEF StayingInv, AllInformed, IsInformed, Tells, Asks
<1>7. ~Newer(tab[a].snapshot, tab[b].snapshot) => ~Newer(tab[a].snapshot, tab'[b].snapshot)
  BY <1>5, Ordering
<1>8. \A q \in Tabs : \A n : Has(tab[q].post, n) => Has(tab'[q].post, n)
  BY <1>1
<1>9. Has(channel[a][b], Selected(tab[a].snapshot)) =>
         \/ Has(channel'[a][b], Selected(tab[a].snapshot))
         \/ ~Newer(tab[a].snapshot, tab'[b].snapshot)
  <2> SUFFICES ASSUME a = r, b = p, m = Selected(tab[a].snapshot)
               PROVE  ~Newer(tab[a].snapshot, tab'[b].snapshot)
    BY <1>2
  <2>1. m # SelectionRequest /\ \A x \in ForkSnapshot : m = Selected(x) => x = tab[a].snapshot
    BY <1>5, Messages
  <2>2. Hears(tab[p], tab'[p], tab[a].snapshot)
    BY <1>3, <2>1
  <2> QED BY <1>5, <2>2, Ordering DEF Hears
<1>10. Has(channel[b][a], SelectionRequest) =>
          Has(channel'[b][a], SelectionRequest) \/ Has(tab'[a].post, Selected(tab[a].snapshot))
  <2>1. \A x \in ForkSnapshot : Selected(x) # SelectionRequest
    BY Messages
  <2> QED BY <1>2, <1>3, <2>1
<1> QED BY <1>4, <1>6, <1>7, <1>8, <1>9, <1>10

\* What a task has posted is on its way when it ends.
LEMMA InformedFinishes ==
    ASSUME LinkedSetting, LinkedTypeOK, Staying, StayingInv, NEW p \in Tabs, Finishes(p)
    PROVE  AllInformed'
<1> SUFFICES ASSUME NEW a \in Tabs, NEW b \in Tabs, Joined(a)', Joined(b)', a # b,
                    tab'[a].snapshot.sender = a
             PROVE  \/ ~Newer(tab'[a].snapshot, tab'[b].snapshot)
                    \/ Has(tab'[a].post, Selected(tab'[a].snapshot))
                    \/ Has(channel'[a][b], Selected(tab'[a].snapshot))
                    \/ Has(tab'[b].post, SelectionRequest) \/ Has(channel'[b][a], SelectionRequest)
  BY DEF AllInformed, IsInformed, Tells, Asks
<1>1. /\ \A q \in Tabs \ {p} : tab'[q] = tab[q]
      /\ \A q \in Tabs : tab'[q].state = tab[q].state /\ tab'[q].snapshot = tab[q].snapshot
  BY DEF Finishes, Only
<1>2. Joined(a) /\ Joined(b)
  BY <1>1 DEF Joined
<1>3. \/ ~Newer(tab[a].snapshot, tab[b].snapshot)
      \/ Has(tab[a].post, Selected(tab[a].snapshot))
      \/ Has(channel[a][b], Selected(tab[a].snapshot))
      \/ Has(tab[b].post, SelectionRequest) \/ Has(channel[b][a], SelectionRequest)
  BY <1>1, <1>2 DEF StayingInv, AllInformed, IsInformed, Tells, Asks
<1>4. \A c, d \in Tabs : \A m :
         Has(channel[c][d], m) \/ (c = p /\ d # p /\ Joined(d) /\ Has(tab[p].post, m))
            => Has(channel'[c][d], m)
  BY FinishesChannel
<1>5. \A q \in Tabs \ {p} : tab'[q].post = tab[q].post
  BY <1>1
<1> QED BY <1>1, <1>2, <1>3, <1>4, <1>5

\* While the cell is behind a tab, a task of p keeps somebody about to restore it.
LEMMA CellTask ==
    ASSUME LinkedSetting, LinkedTypeOK, Staying, StayingInv, ForkNext, StorageWorks, NEW p \in Tabs,
           Only(p), Idle(p), UNCHANGED cache,
           \/ Publishes(p, tab[p], tab'[p])
           \/ Connects(tab[p], tab'[p])
           \/ \E x \in ForkSnapshot : Hears(tab[p], tab'[p], x)
           \/ KeepsIt(tab[p], tab'[p])
    PROVE  CellFollows'
<1> SUFFICES ASSUME NEW a \in Tabs, Joined(a)', CellBehind(a)'
             PROVE  \E w \in Tabs : CatchesUp(a, w)'
  BY DEF CellFollows
<1>1. /\ UNCHANGED <<scenario, cache>> /\ \A q \in Tabs \ {p} : tab'[q] = tab[q]
      /\ tab[p].write = NoSnapshot /\ cache \in MaybeSnapshot
  BY DEF Only, Idle, LinkedTypeOK
<1>2. \A q \in Tabs : Joined(q) => Joined(q)' /\ tab[q].snapshot \in ForkSnapshot /\ tab'[q].snapshot \in ForkSnapshot
  <2>1. NobodyLeft /\ [ForkNext]_forkVars
    BY DEF StayingInv
  <2>2. \A q \in Tabs : Joined(q) => Joined(q)'
    BY <2>1, StayingStays
  <2> QED BY <2>1, <2>2, ForwardStep
<1>3. IF cache = NoSnapshot THEN "expire" \notin scenario.may ELSE Newer(tab'[a].snapshot, cache)
  BY <1>1 DEF CellBehind
<1> DEFINE n == tab'[p].snapshot
<1>4. ASSUME Joined(p)', n \in ForkSnapshot, cache = NoSnapshot \/ ~Newer(cache, n), ~KeepsIt(tab[p], tab'[p]),
             ~Connects(tab[p], tab'[p])
      PROVE  tab'[p].write = n /\ n # NoSnapshot
  BY <1>4 DEF Publishes, Hears, Stored, LinkedSetting
<1>5. Joined(p)' => n \in ForkSnapshot
  <2>1. tab'[p] \in TabState /\ Fits(tab'[p])
    BY DEF Only
  <2> QED BY <2>1 DEF TabState, Fits, Joined, MaybeSnapshot
<1>6. CASE a = p
  <2>1. CASE Connects(tab[p], tab'[p])
    <3>1. cache \in ForkSnapshot /\ n = cache /\ cache # NoSnapshot
      BY <1>1, <2>1 DEF Connects, MaybeSnapshot
    <3> QED BY <1>3, <1>6, <3>1, Ordering
  <2>2. CASE KeepsIt(tab[p], tab'[p])
    <3>1. Joined(p) /\ n = tab[p].snapshot /\ CellBehind(p)
      BY <1>1, <1>6, <2>2 DEF KeepsIt, Joined, CellBehind
    <3>2. PICK w \in Tabs : CatchesUp(p, w)
      BY <3>1 DEF StayingInv, CellFollows
    <3>3. w # p
      BY <1>1, <1>2, <3>1, <3>2, Ordering DEF CatchesUp
    <3> QED BY <1>1, <1>6, <3>1, <3>2, <3>3 DEF CatchesUp, Joined
  <2>3. CASE ~Connects(tab[p], tab'[p]) /\ ~KeepsIt(tab[p], tab'[p])
    <3>1. n \in ForkSnapshot
      BY <1>5, <1>6
    <3>2. cache = NoSnapshot \/ ~Newer(cache, n)
      BY <1>1, <1>3, <1>6, <3>1, Ordering DEF MaybeSnapshot
    <3>3. tab'[p].write = n /\ n # NoSnapshot /\ ~Newer(n, n)
      BY <1>4, <1>6, <2>3, <3>1, <3>2, Ordering
    <3> QED BY <1>6, <3>3 DEF CatchesUp
  <2> QED BY <2>1, <2>2, <2>3
<1>7. CASE a # p
  <2>1. Joined(a) /\ tab'[a] = tab[a] /\ CellBehind(a) /\ tab[a].snapshot \in ForkSnapshot
    BY <1>1, <1>2, <1>7 DEF Joined, CellBehind
  <2>2. PICK w \in Tabs : CatchesUp(a, w)
    BY <2>1 DEF StayingInv, CellFollows
  <2>3. CASE w # p
    BY <1>1, <2>1, <2>2, <2>3 DEF CatchesUp, Joined
  <2>4. CASE w = p
    <3>1. Joined(p) /\ Joined(p)' /\ n \in ForkSnapshot /\ Newer(tab[a].snapshot, tab[p].snapshot)
      BY <1>1, <1>2, <2>2, <2>4 DEF CatchesUp
    <3>2. CASE Newer(tab[a].snapshot, n)
      BY <2>1, <3>1, <3>2 DEF CatchesUp
    <3>3. CASE ~Newer(tab[a].snapshot, n)
      <4>1. ~KeepsIt(tab[p], tab'[p]) /\ ~Connects(tab[p], tab'[p])
        BY <3>1, <3>3 DEF KeepsIt, Connects, Joined
      <4>2. cache = NoSnapshot \/ ~Newer(cache, n)
        BY <1>1, <1>3, <2>1, <3>1, <3>3, Ordering DEF MaybeSnapshot
      <4>3. tab'[p].write = n /\ n # NoSnapshot
        BY <1>4, <3>1, <4>1, <4>2
      <4> QED BY <2>1, <3>3, <4>3 DEF CatchesUp
    <3> QED BY <3>2, <3>3
  <2> QED BY <2>3, <2>4
<1> QED BY <1>6, <1>7

\* A write that leaves the cell behind is one of a tab that is behind.
LEMMA CellFinishes ==
    ASSUME LinkedSetting, LinkedTypeOK, StayingInv, StorageWorks, NEW p \in Tabs, Finishes(p)
    PROVE  CellFollows'
<1> SUFFICES ASSUME NEW a \in Tabs, Joined(a)', CellBehind(a)'
             PROVE  \E w \in Tabs : CatchesUp(a, w)'
  BY DEF CellFollows
<1>1. /\ UNCHANGED scenario /\ \A q \in Tabs \ {p} : tab'[q] = tab[q]
      /\ \A q \in Tabs : tab'[q].state = tab[q].state /\ tab'[q].snapshot = tab[q].snapshot
      /\ cache' = IF tab[p].write = NoSnapshot THEN cache ELSE tab[p].write
  BY DEF Finishes, Only
<1>2. Joined(a) /\ \A q \in Tabs : Joined(q) <=> Joined(q)'
  BY <1>1 DEF Joined
<1>3. CASE tab[p].write = NoSnapshot
  <2>1. CellBehind(a)
    BY <1>1, <1>3 DEF CellBehind
  <2>2. PICK w \in Tabs : CatchesUp(a, w)
    BY <1>2, <2>1 DEF StayingInv, CellFollows
  <2>3. CatchesUp(a, w)'
    BY <1>1, <1>2, <1>3, <2>2 DEF CatchesUp
  <2> QED BY <2>3
<1>4. CASE tab[p].write # NoSnapshot
  <2>1. Joined(p) /\ cache' = tab[p].snapshot /\ cache' # NoSnapshot
    BY <1>1, <1>4 DEF LinkedTypeOK, Fits, Joined
  <2>2. CatchesUp(a, p)'
    BY <1>1, <1>2, <2>1 DEF CatchesUp, CellBehind
  <2> QED BY <2>2
<1> QED BY <1>3, <1>4

\* The second kind of scenario keeps its invariant.
LEMMA StayingStep ==
    ASSUME LinkedSetting, LinkedTypeOK, Staying, StayingInv, [ForkNext]_forkVars
    PROVE  Staying' /\ StayingInv'
<1>1. CASE UNCHANGED forkVars
  <2>1. Coming = Present
    BY <1>1 DEF forkVars, Coming, Present
  <2>2. MakerKnown' /\ Unique'
    BY <1>1, <2>1, ComingIs DEF forkVars, StayingInv, MakerKnown, Unique, Joined
  <2>3. Staying' /\ NobodyLeft' /\ AllInformed' /\ CellFollows'
    BY <1>1 DEF forkVars, StayingInv, Staying, NobodyLeft, AllInformed, IsInformed, Tells, Asks,
       CellFollows, CellBehind, CatchesUp, Joined
  <2> QED BY <2>2, <2>3 DEF StayingInv
<1>2. CASE ForkNext
  <2>1. Staying' /\ NobodyLeft' /\ MakerKnown' /\ Unique'
    BY <1>2, StayingStays, KnownStep DEF StayingInv
  <2>2. ASSUME NEW p \in Tabs, Runs(p)
        PROVE  AllInformed' /\ CellFollows'
    <3>1. AllInformed'
      BY <1>2, <2>2, InformedRuns
    <3>2. Only(p) /\ Idle(p) /\ UNCHANGED cache
      BY <2>2 DEF Runs, CanRun
    <3>3. StorageWorks => CellFollows'
      <4>1. \/ Publishes(p, tab[p], tab'[p])
            \/ Connects(tab[p], tab'[p])
            \/ \E x \in ForkSnapshot : Hears(tab[p], tab'[p], x)
            \/ KeepsIt(tab[p], tab'[p])
        BY <2>2 DEF Runs
      <4> QED BY <1>2, <3>2, <4>1, CellTask
    <3> QED BY <3>1, <3>3 DEF CellFollows
  <2>3. ASSUME NEW r \in Tabs, NEW p \in Tabs, Takes(r, p)
        PROVE  AllInformed' /\ CellFollows'
    <3>1. AllInformed'
      BY <1>2, <2>3, InformedTakes
    <3>2. Only(p) /\ Idle(p) /\ UNCHANGED cache
      BY <2>3 DEF Takes, CanRun
    <3>3. StorageWorks => CellFollows'
      <4>1. \/ \E x \in ForkSnapshot : Hears(tab[p], tab'[p], x)
            \/ KeepsIt(tab[p], tab'[p])
        BY <2>3 DEF Takes
      <4> QED BY <1>2, <3>2, <4>1, CellTask
    <3> QED BY <3>1, <3>3 DEF CellFollows
  <2>4. ASSUME NEW p \in Tabs, Finishes(p)
        PROVE  AllInformed' /\ CellFollows'
    <3>1. AllInformed'
      BY <2>4, InformedFinishes
    <3>2. StorageWorks => CellFollows'
      BY <2>4, CellFinishes
    <3> QED BY <3>1, <3>2 DEF CellFollows
  <2>5. ASSUME Expires
        PROVE  AllInformed' /\ CellFollows'
    <3>1. UNCHANGED <<scenario, tab, channel>> /\ cache' = NoSnapshot /\ "expire" \in scenario.may
      BY <2>5 DEF Expires, Expire
    <3> QED BY <3>1 DEF StayingInv, AllInformed, IsInformed, Tells, Asks, CellFollows, CellBehind, Joined
  <2> QED BY <1>2, <2>1, <2>2, <2>3, <2>4, <2>5, StayingStays DEF StayingInv
<1> QED BY <1>1, <1>2

----------------------------------------------------------------------------
(* Once all is quiet.                                                      *)

\* Among the linked tabs one has a snapshot that no other one's is newer than.
LEMMA Newest ==
    ASSUME LinkedSetting, LinkedTypeOK, NEW p \in Tabs, Joined(p)
    PROVE  \E m \in Linked : \A q \in Linked : ~Newer(tab[q].snapshot, tab[m].snapshot)
<1> DEFINE Before(q) == {a \in Linked : Newer(tab[a].snapshot, tab[q].snapshot)}
           All == {Before(q) : q \in Linked}
<1>1. IsWellFoundedOn(StrictSubsetOrdering(Linked), SUBSET Linked)
  <2>1. IsFiniteSet(Linked)
    <3>1. IsFiniteSet(Tabs) /\ Linked \subseteq Tabs
      BY DEF LinkedSetting, Linked
    <3> QED BY <3>1, FS_Subset
  <2> QED BY <2>1, FS_FiniteSubsetsOfFinite, FS_StrictSubsetOrderingWellFounded
<1>2. All \subseteq SUBSET Linked /\ All # {}
  BY DEF Linked
<1>3. PICK x \in All : \A y \in All : ~ (<<y, x>> \in StrictSubsetOrdering(Linked))
  <2> HIDE DEF All
  <2> QED BY <1>1, <1>2, WFMin
<1>4. PICK m \in Linked : x = Before(m)
  OBVIOUS
<1>5. ASSUME NEW q \in Linked, Newer(tab[q].snapshot, tab[m].snapshot) PROVE FALSE
  <2>1. \A a \in Linked : tab[a].snapshot \in ForkSnapshot
    BY NotLinked DEF Linked, Joined
  <2>2. \A a \in Linked : Newer(tab[a].snapshot, tab[q].snapshot) => Newer(tab[a].snapshot, tab[m].snapshot)
    BY <1>5, <2>1, Ordering
  <2>3. q \in Before(m) /\ q \notin Before(q) /\ Before(q) \subseteq Before(m)
    BY <1>5, <2>1, <2>2, Ordering
  <2>4. <<Before(q), x>> \in StrictSubsetOrdering(Linked)
    BY <1>4, <2>3 DEF StrictSubsetOrdering
  <2> QED BY <1>3, <2>4
<1> QED BY <1>5

\* Nothing is left to write, to post or to deliver.
LEMMA QuietIs ==
    ASSUME Quiet
    PROVE  /\ AllIdle
           /\ \A p \in Tabs : tab[p].write = NoSnapshot
           /\ \A p \in Tabs : \A m : ~Has(tab[p].post, m)
           /\ \A p, q \in Tabs : \A m : ~Has(channel[p][q], m)
BY HasNothing DEF Quiet, Idle, AllIdle

\* Every linked tab has the cell's snapshot, when tasks follow one another.
LEMMA OrderlyAgrees ==
    ASSUME LinkedSetting, LinkedTypeOK, OrderlyInv, Quiet, NEW p \in Linked
    PROVE  tab[p].snapshot = cache
<1>1. p \in Tabs /\ Joined(p) /\ tab[p].snapshot \in Present
  BY NotLinked, PresentIs DEF Linked, Joined, LinkedSetting
<1>2. cache # NoSnapshot
  BY <1>1, QuietIs, IdleTop
<1>3. \A q \in Tabs : ~Has(channel[q][p], Selected(cache))
  BY <1>1, QuietIs
<1> QED BY <1>1, <1>2, <1>3, QuietIs, IdleTop

\* When nobody leaves, every linked tab has the newest snapshot, and so has
\* the cell.
LEMMA StayingAgrees ==
    ASSUME LinkedSetting, LinkedTypeOK, StayingInv, Quiet, NEW p \in Linked
    PROVE  /\ \A q \in Linked : tab[q].snapshot = tab[p].snapshot
           /\ StorageWorks => cache \in {tab[p].snapshot} \cup MaybeExpired
<1>1. PICK m \in Linked : \A q \in Linked : ~Newer(tab[q].snapshot, tab[m].snapshot)
  BY Newest DEF Linked
<1> DEFINE x == tab[m].snapshot
           s == x.sender
<1>2. \A q \in Linked : q \in Tabs /\ Joined(q) /\ tab[q].snapshot \in ForkSnapshot /\ tab[q].snapshot \in Present
  BY NotLinked, PresentIs DEF Linked, Joined, LinkedSetting
<1>3. \A y \in Present : y.sender \in Linked /\ y \in ForkSnapshot /\ ~Newer(y, tab[y.sender].snapshot)
  BY PresentIs DEF StayingInv, MakerKnown, Linked, ForkSnapshot
<1>4. s \in Linked /\ tab[s].snapshot = x
  <2>1. s \in Linked /\ ~Newer(x, tab[s].snapshot) /\ ~Newer(tab[s].snapshot, x)
    BY <1>1, <1>2, <1>3
  <2> QED BY <1>2, <2>1 DEF StayingInv, Unique
<1>5. \A q \in Linked : tab[q].snapshot = x
  <2> SUFFICES ASSUME NEW q \in Linked, q # s PROVE tab[q].snapshot = x
    BY <1>4
  <2>1. IsInformed(s, q)
    BY <1>2, <1>4 DEF StayingInv, AllInformed
  <2>2. ~Tells(s, q) /\ ~Asks(q, s)
    BY <1>2, <1>4, QuietIs DEF Tells, Asks
  <2>3. ~Newer(x, tab[q].snapshot)
    BY <1>4, <2>1, <2>2 DEF IsInformed
  <2> QED BY <1>1, <1>2, <2>3 DEF StayingInv, Unique
<1>6. ASSUME StorageWorks PROVE cache \in {x} \cup MaybeExpired
  <2>1. \A w \in Tabs : ~CatchesUp(m, w)
    <3>1. \A w \in Tabs : Joined(w) => tab[w].snapshot = x
      BY <1>5 DEF Linked
    <3> QED BY <1>2, <3>1, QuietIs, Ordering DEF CatchesUp
  <2>2. ~CellBehind(m)
    BY <1>2, <1>6, <2>1 DEF StayingInv, CellFollows
  <2>3. CASE cache = NoSnapshot
    BY <2>2, <2>3 DEF CellBehind, MaybeExpired
  <2>4. CASE cache # NoSnapshot
    <3>1. ~Newer(x, cache) /\ cache \in Present
      BY <2>2, <2>4, PresentIs DEF CellBehind
    <3>2. ~Newer(cache, x)
      BY <1>3, <1>5, <3>1
    <3> QED BY <1>2, <3>1, <3>2 DEF StayingInv, Unique
  <2> QED BY <2>3, <2>4
<1> QED BY <1>5, <1>6

----------------------------------------------------------------------------
(* A tab that cannot rejoin shows its snapshot.                            *)
LinkedShow == \A p \in Tabs \ scenario.pausers : ShowsIt(tab[p])

LEMMA LinkedShowStep ==
    ASSUME LinkedSetting, LinkedTypeOK, LinkedShow, [ForkNext]_forkVars
    PROVE  LinkedShow'
<1>1. ASSUME NEW p \in Tabs, Only(p) PROVE LinkedShow'
  BY <1>1 DEF Only, LinkedShow
<1>2. Expires \/ UNCHANGED forkVars => LinkedShow'
  BY DEF Expires, Expire, forkVars, LinkedShow
<1>3. ASSUME NEW q \in Tabs, Runs(q) \/ Finishes(q) \/ Leaves(q) \/ \E r \in Tabs : Takes(r, q)
      PROVE Only(q)
  BY <1>3 DEF Runs, Finishes, Leaves, Takes
<1> QED BY <1>1, <1>2, <1>3, StepKinds

LEMMA Beginning ==
    ASSUME LinkedSetting, ForkInit
    PROVE  /\ LinkedTypeOK /\ LinkedShow
           /\ Orderly => OrderlyInv
           /\ StayingInv
<1>1. /\ scenario \in Scenarios /\ cache = NoSnapshot
      /\ \A p \in Tabs : /\ tab[p] \in TabState /\ tab[p].state = "closed" /\ tab[p].snapshot = NoSnapshot
                         /\ tab[p].skip = FALSE /\ tab[p].write = NoSnapshot /\ tab[p].post = <<>>
      /\ \A p, q \in Tabs : channel[p][q] = <<>>
  BY ClosedIs DEF ForkInit
<1>2. tab \in [Tabs -> TabState] /\ channel \in [Tabs -> [Tabs -> Seq(LinkMessage)]]
  <2>1. <<>> \in Seq(LinkMessage)
    OBVIOUS
  <2> QED BY <2>1, ClosedIs DEF ForkInit
<1>3. LinkedTypeOK /\ LinkedShow
  <2>1. \A p \in Tabs : Fits(tab[p]) /\ ShowsIt(tab[p])
    BY <1>1 DEF Fits, ShowsIt
  <2> QED BY <1>1, <1>2, <2>1 DEF LinkedTypeOK, LinkedShow, LinkedSetting, MaybeSnapshot
<1>4. Present = {}
  BY <1>1, HasNothing DEF Present, Around, LinkedSetting
<1>5. \A p \in Tabs : Idle(p) /\ ~Joined(p)
  BY <1>1 DEF Idle, Joined
<1>6. OrderlyInv
  <2>1. \A y \in ForkSnapshot : ~Top(y)
    BY <1>1 DEF Top, LinkedSetting
  <2> QED BY <1>4, <1>5, <2>1 DEF OrderlyInv, OneTask, Unique, TopIsNewest, TopSpreads, NoneYet
<1>7. StayingInv
  BY <1>1, <1>4, <1>5 DEF StayingInv, NobodyLeft, MakerKnown, Unique, AllInformed, CellFollows
<1> QED BY <1>3, <1>6, <1>7

----------------------------------------------------------------------------
(* The theorems.                                                           *)

(* Every variable has its type; only linked tabs have a snapshot, write    *)
(* the cell or are sent messages; and a tab that is never disconnected     *)
(* shows the selection of its snapshot.                                    *)
THEOREM LinkedTyping ==
    ForkSpec => [](LinkedTypeOK /\ LinkedShow)
<1>1. ForkInit => LinkedTypeOK /\ LinkedShow
  BY Setting, Beginning
<1>2. LinkedTypeOK /\ LinkedShow /\ [ForkNext]_forkVars => (LinkedTypeOK /\ LinkedShow)'
  BY Setting, LinkedTypeStep, LinkedShowStep
<1> QED BY <1>1, <1>2, PTL DEF ForkSpec

(* A tab that stays linked never goes back to an older selection, however  *)
(* late a message is, and whatever happens to the cell: it may expire, be  *)
(* raced for or not be there at all.                                       *)
THEOREM NeverGoesBack ==
    ForkSpec => NeverBack
<1>1. LinkedTypeOK /\ [ForkNext]_forkVars => [\A p \in Tabs : Joined(p) /\ Joined(p)' =>
                                   ~Newer(tab[p].snapshot, tab[p].snapshot')]_forkVars
  BY Setting, ForwardStep
<1> QED BY <1>1, LinkedTyping, PTL DEF NeverBack, ForkSpec

\* Nobody leaves for good or for a while, or else the cell is there, does not
\* expire, and tasks follow one another.
Gentle ==
    \A s \in Scenarios :
        \/ s.pausers = {} /\ "close" \notin s.may
        \/ StorageWorks /\ s.may \cap {"race", "expire"} = {}

\* The inductive invariant.
Agreeing == LinkedTypeOK /\ LinkedShow /\ ((Orderly /\ OrderlyInv) \/ (Staying /\ StayingInv))

LEMMA AgreeingAlways ==
    ASSUME Gentle
    PROVE  ForkSpec => []Agreeing
<1>1. ForkInit => Agreeing
  <2>1. ForkInit => Orderly \/ Staying
    BY DEF ForkInit, Gentle, Orderly, Staying
  <2> QED BY <2>1, Setting, Beginning DEF Agreeing
<1>2. Agreeing /\ [ForkNext]_forkVars => Agreeing'
  BY Setting, LinkedTypeStep, LinkedShowStep, OrderlyStep, StayingStep DEF Agreeing
<1> QED BY <1>1, <1>2, PTL DEF ForkSpec

LEMMA AgreeingShows ==
    ASSUME Agreeing
    PROVE  ShownIsShared /\ (StorageWorks => CacheKeepsUp)
<1>1. ASSUME Quiet, NEW p \in Linked, NEW q \in Linked
      PROVE  tab[p].snapshot = tab[q].snapshot
  BY <1>1, Setting, OrderlyAgrees, StayingAgrees DEF Agreeing
<1>2. ASSUME NEW p \in Linked \ scenario.pausers
      PROVE  tab[p].screen = tab[p].snapshot.selection
  BY <1>2 DEF Agreeing, LinkedShow, ShowsIt, Linked, Joined
<1>3. ASSUME Quiet, StorageWorks, NEW p \in Linked
      PROVE  cache \in {tab[p].snapshot} \cup MaybeExpired
  BY <1>3, Setting, OrderlyAgrees, StayingAgrees DEF Agreeing
<1> QED BY <1>1, <1>2, <1>3 DEF ShownIsShared, Converged, CacheKeepsUp

(* Once every task has ended and every message is delivered, the linked    *)
(* tabs have one snapshot and show it, in whatever order they were opened, *)
(* selected and heard of each other: with localStorage or without, as long *)
(* as they stay; and with it, though they come and go, if their tasks      *)
(* follow one another.                                                     *)
THEOREM Convergence ==
    ASSUME Gentle
    PROVE  ForkSpec => []ShownIsShared
BY AgreeingAlways, AgreeingShows, PTL

(* And with localStorage the cell has that snapshot too, whoever raced     *)
(* whom for it, unless somebody left or a day went by.                     *)
THEOREM Agreement ==
    ASSUME Gentle, StorageWorks
    PROVE  ForkSpec => []TabsAgree
<1>1. Agreeing => TabsAgree
  BY AgreeingShows DEF TabsAgree
<1> QED BY <1>1, AgreeingAlways, PTL

----------------------------------------------------------------------------
(***************************************************************************)
(* WorkspaceStore.                                                         *)
(***************************************************************************)

\* What can be undone is a list.
UndoIsList == \E T : undo \in Seq(T)

\* The inductive invariant.
StrandedInv == UndoIsList /\ NeverStranded

\* A request replaces the file and memory follows it, or changes neither.
Follows == disk' = memory' \/ UNCHANGED <<disk, memory>>

\* And it may have to do with neither the registry nor the list.
Aside == Follows /\ UNCHANGED <<rows, undo, lapsed>>

LEMMA RequestAside ==
    /\ \A doc : Save(doc) => Follows
    /\ \A doc, ids : Organizing(doc, ids) => Aside
    /\ \A doc : Request(doc) => Aside
    /\ \A id, given : Change(id, given) => Aside
<1>1. \A doc : Save(doc) => Follows
  BY DEF Save, Follows
<1>2. \A doc, ids : Organizing(doc, ids) => Aside
  BY <1>1 DEF Organizing, Aside
<1>3. \A doc : Request(doc) => Aside
  BY <1>2 DEF Request
<1>4. \A id, given : Change(id, given) => Aside
  BY <1>3 DEF Change
<1> QED BY <1>1, <1>2, <1>3, <1>4

\* All that users ask of the store, but to forget and to undo.
LEMMA EditAside == ASSUME EditStore PROVE Aside
<1>1. \A id : DeleteWorkspace(id) => Aside
  BY RequestAside DEF DeleteWorkspace
<1>2. \A id, s, at : AddSession(id, s, at) => Aside
  BY RequestAside DEF AddSession
<1>3. \A id, tabs : ReplaceSessions(id, tabs) => Aside
  BY RequestAside DEF ReplaceSessions
<1>4. \A id, gone : RemoveSessions(id, gone) => Aside
  BY RequestAside DEF RemoveSessions
<1>5. \A id, tabs, active : RecordActivity(id, tabs, active) => Aside
  BY RequestAside DEF RecordActivity
<1>6. \A id, s, up : MoveSession(id, s, up) => Aside
  BY RequestAside DEF MoveSession
<1>7. \A id, given : Arrange(id, given) => Aside
  BY RequestAside DEF Arrange
<1>8. \A from, id, names, move, place : Transfer(from, id, names, move, place) => Aside
  BY RequestAside DEF Transfer
<1>9. \A id, given : CreateWorkspace(id, given) => Aside
  BY RequestAside DEF CreateWorkspace
<1>10. \A s : Pin(s) \/ Unpin(s) \/ ReviewCallback(s) => Aside
  BY RequestAside DEF Pin, Unpin, ReviewCallback
<1>11. \A from, to, saved : RenameSession(from, to, saved) => Aside
  <2> SUFFICES ASSUME NEW from, NEW to, NEW saved, RenameSession(from, to, saved) PROVE Aside
    OBVIOUS
  <2>1. Save(Renamed(memory, from, to)) \/ UNCHANGED <<memory, disk>>
    BY DEF RenameSession
  <2>2. UNCHANGED <<rows, undo, lapsed>>
    BY DEF RenameSession
  <2> QED BY <2>1, <2>2, RequestAside DEF Aside, Follows
<1>12. \A T : MarkGlobalCallbacks(T) => Aside
  BY RequestAside DEF MarkGlobalCallbacks
<1> QED BY <1>1, <1>2, <1>3, <1>4, <1>5, <1>6, <1>7, <1>8, <1>9, <1>10, <1>11, <1>12 DEF EditStore
\* A list to which one is added, and one from which one is taken.
LEMMA UndoAppended ==
    ASSUME NEW T, NEW u \in Seq(T), NEW x
    PROVE  /\ \E U : Append(u, x) \in Seq(U)
           /\ \A i \in DOMAIN u : \E j \in DOMAIN Append(u, x) : Append(u, x)[j] = u[i]
           /\ \E j \in DOMAIN Append(u, x) : Append(u, x)[j] = x
<1> DEFINE U == T \cup {x}
<1>1. u \in Seq(U) /\ x \in U
  OBVIOUS
<1> HIDE DEF U
<1>2. /\ Append(u, x) \in Seq(U) /\ DOMAIN Append(u, x) = 1 .. Len(u) + 1
      /\ \A i \in 1 .. Len(u) : Append(u, x)[i] = u[i]
      /\ Append(u, x)[Len(u) + 1] = x /\ Len(u) \in Nat /\ DOMAIN u = 1 .. Len(u)
  BY <1>1
<1> QED BY <1>2

LEMMA UndoRemoved ==
    ASSUME NEW T, NEW u \in Seq(T), NEW i \in DOMAIN u
    PROVE  /\ RemoveAt(u, i) \in Seq(T)
           /\ \A k \in DOMAIN u \ {i} : \E j \in DOMAIN RemoveAt(u, i) : RemoveAt(u, i)[j] = u[k]
<1> DEFINE a == SubSeq(u, 1, i - 1)
           b == SubSeq(u, i + 1, Len(u))
           v == RemoveAt(u, i)
<1>1. Len(u) \in Nat /\ i \in 1 .. Len(u) /\ DOMAIN u = 1 .. Len(u)
  OBVIOUS
<1>2. /\ a \in Seq(T) /\ Len(a) = i - 1 /\ \A k \in 1 .. i - 1 : a[k] = u[k]
      /\ b \in Seq(T) /\ Len(b) = Len(u) - i /\ \A k \in 1 .. Len(u) - i : b[k] = u[i + k]
  BY <1>1
<1>3. v = a \o b
  BY DEF RemoveAt
<1> HIDE DEF a, b, v
<1>4. /\ v \in Seq(T) /\ DOMAIN v = 1 .. Len(a) + Len(b)
      /\ \A k \in 1 .. Len(a) : v[k] = a[k]
      /\ \A k \in 1 .. Len(b) : v[Len(a) + k] = b[k]
  BY <1>2, <1>3
<1>5. ASSUME NEW k \in DOMAIN u \ {i} PROVE \E j \in DOMAIN v : v[j] = u[k]
  <2>1. CASE k < i
    <3>1. k \in DOMAIN v /\ v[k] = u[k]
      BY <1>1, <1>2, <1>4, <2>1
    <3> QED BY <3>1
  <2>2. CASE k > i
    <3>1. k - i \in 1 .. Len(u) - i /\ i + (k - i) = k /\ Len(a) + (k - i) = k - 1
          /\ k - 1 \in 1 .. Len(a) + Len(b)
      <4>1. k \in 1 .. Len(u)
        BY <1>1
      <4>2. Len(a) = i - 1 /\ Len(b) = Len(u) - i
        BY <1>2
      <4> HIDE DEF a, b
      <4> QED BY <4>1, <4>2, <1>1, <2>2
    <3>2. v[Len(a) + (k - i)] = b[k - i] /\ b[k - i] = u[i + (k - i)]
      BY <1>2, <1>4, <3>1
    <3>3. k - 1 \in DOMAIN v /\ v[k - 1] = u[k]
      BY <1>4, <3>1, <3>2
    <3> QED BY <3>3
  <2> QED BY <1>1, <2>1, <2>2
<1> QED BY <1>4, <1>5 DEF v

\* The session leaves the registry for the list, or does neither.
LEMMA ForgetKeeps ==
    ASSUME StrandedInv, NEW s, NEW synced, ForgetSession(s, synced)
    PROVE  StrandedInv'
<1> DEFINE c == Captured(memory, s, undo)
<1>1. /\ lapsed' = lapsed
      /\ \/ rows' = rows \ {s} /\ undo' = Append(undo, c)
         \/ UNCHANGED <<rows, undo>>
  BY DEF ForgetSession
<1>2. c.session = s
  BY DEF Captured
<1> HIDE DEF c
<1>3. PICK T : undo \in Seq(T)
  BY DEF StrandedInv, UndoIsList
<1>4. CASE UNCHANGED <<rows, undo>>
  BY <1>1, <1>4 DEF StrandedInv, UndoIsList, NeverStranded
<1>5. CASE rows' = rows \ {s} /\ undo' = Append(undo, c)
  <2>1. /\ \E U : undo' \in Seq(U)
        /\ \A i \in DOMAIN undo : \E j \in DOMAIN undo' : undo'[j] = undo[i]
        /\ \E j \in DOMAIN undo' : undo'[j] = c
    <3> DEFINE u == Append(undo, c)
    <3>1. /\ \E U : u \in Seq(U)
          /\ \A i \in DOMAIN undo : \E j \in DOMAIN u : u[j] = undo[i]
          /\ \E j \in DOMAIN u : u[j] = c
      BY <1>3, UndoAppended
    <3> HIDE DEF u
    <3>2. undo' = u
      BY <1>5 DEF u
    <3> QED BY <3>1, <3>2
  <2> QED BY <1>1, <1>2, <1>5, <2>1 DEF StrandedInv, UndoIsList, NeverStranded
<1> QED BY <1>1, <1>4, <1>5

\* If undoing fails, the snapshot stays; if it does not, the session is listed.
LEMMA UndoKeeps ==
    ASSUME StrandedInv, NEW s, NEW synced, UndoForget(s, synced)
    PROVE  StrandedInv'
<1>1. PICK i \in DOMAIN undo :
        /\ undo[i].session = s /\ lapsed' = lapsed
        /\ rows' = IF synced THEN rows \cup {s} ELSE rows \ {s}
        /\ undo' = IF synced THEN RemoveAt(undo, i) ELSE undo
  BY DEF UndoForget, Pending
<1>2. PICK T : undo \in Seq(T)
  BY DEF StrandedInv, UndoIsList
<1>3. CASE synced
  <2>1. /\ undo' \in Seq(T)
        /\ \A k \in DOMAIN undo \ {i} : \E j \in DOMAIN undo' : undo'[j] = undo[k]
    BY <1>1, <1>2, <1>3, UndoRemoved
  <2> QED BY <1>1, <1>3, <2>1 DEF StrandedInv, UndoIsList, NeverStranded
<1>4. CASE ~synced
  BY <1>1, <1>4 DEF StrandedInv, UndoIsList, NeverStranded
<1> QED BY <1>3, <1>4

\* Whose time runs out is remembered as lapsed, as all are after a restart.
LEMMA LapseKeeps ==
    ASSUME StrandedInv, NEW s, UndoExpires(s)
    PROVE  StrandedInv'
<1>1. PICK i \in DOMAIN undo :
        /\ undo[i].session = s /\ lapsed' = lapsed \cup {s} /\ rows' = rows
        /\ undo' = RemoveAt(undo, i)
  BY DEF UndoExpires, Pending
<1>2. PICK T : undo \in Seq(T)
  BY DEF StrandedInv, UndoIsList
<1>3. /\ undo' \in Seq(T)
      /\ \A k \in DOMAIN undo \ {i} : \E j \in DOMAIN undo' : undo'[j] = undo[k]
  BY <1>1, <1>2, UndoRemoved
<1> QED BY <1>1, <1>3 DEF StrandedInv, UndoIsList, NeverStranded

LEMMA RestartKeeps ==
    ASSUME StrandedInv, Restart
    PROVE  StrandedInv'
<1>1. /\ rows' = rows /\ undo' = <<>>
      /\ lapsed' = lapsed \cup {undo[i].session : i \in DOMAIN undo}
  BY DEF Restart
<1>2. UndoIsList'
  <2>1. undo' \in Seq({})
    BY <1>1
  <2> QED BY <2>1 DEF UndoIsList
<1> QED BY <1>1, <1>2 DEF StrandedInv, NeverStranded

(* A recoverable session is never lost between the registry and the undo:  *)
(* however forgetting, undoing, failed writes and restarts follow one      *)
(* another, it is listed, can be brought back or has run out of time.      *)
THEOREM NotStranded ==
    StoreSpec => []NeverStranded
<1>1. StoreInit => StrandedInv
  <2>1. <<>> \in Seq({})
    OBVIOUS
  <2> QED BY <2>1 DEF StoreInit, StrandedInv, UndoIsList, NeverStranded
<1>2. StrandedInv /\ [StoreNext]_storeVars => StrandedInv'
  <2> SUFFICES ASSUME StrandedInv, [StoreNext]_storeVars PROVE StrandedInv'
    OBVIOUS
  <2>1. ASSUME Aside PROVE StrandedInv'
    BY <2>1 DEF Aside, StrandedInv, UndoIsList, NeverStranded
  <2>2. UNCHANGED storeVars => Aside
    BY DEF storeVars, Aside, Follows
  <2> QED BY <2>1, <2>2, EditAside, ForgetKeeps, UndoKeeps, LapseKeeps, RestartKeeps DEF StoreNext
<1>3. StrandedInv => NeverStranded
  BY DEF StrandedInv
<1> QED BY <1>1, <1>2, <1>3, PTL DEF StoreSpec
(* The file holds what the store shows, whichever write or rename failed:  *)
(* the part of ReloadsAsShown that does not look into the document.        *)
THEOREM FileIsMemory ==
    StoreSpec => [](disk = memory)
<1>1. StoreInit => disk = memory
  BY DEF StoreInit
<1>2. disk = memory /\ [StoreNext]_storeVars => (disk = memory)'
  <2> SUFFICES ASSUME disk = memory, [StoreNext]_storeVars PROVE disk' = memory'
    OBVIOUS
  <2>1. \A s, synced : ForgetSession(s, synced) => Follows
    BY RequestAside DEF ForgetSession
  <2>2. \A s, synced : UndoForget(s, synced) => Follows
    BY RequestAside DEF UndoForget
  <2>3. \A s : UndoExpires(s) => Follows
    BY DEF UndoExpires, Follows
  <2>4. Restart \/ UNCHANGED storeVars => Follows
    BY DEF Restart, storeVars, Follows
  <2>5. Follows
    BY <2>1, <2>2, <2>3, <2>4, EditAside DEF StoreNext, Aside
  <2> QED BY <2>5 DEF Follows
<1> QED BY <1>1, <1>2, PTL DEF StoreSpec
=============================================================================
