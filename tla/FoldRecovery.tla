---------------------------- MODULE FoldRecovery ----------------------------
(***************************************************************************)
(* Folds of a workspace that are closed, deleted and recovered:            *)
(* tmux_console/fold_recovery.py and useWorkspaceFoldActions.tsx, with     *)
(* what else brings sessions back or ends them under the same lock in      *)
(* tmux_console/app.py (recreate, restore from the history, terminate) and *)
(* the samplers that record them in the registry.                          *)
(*                                                                         *)
(* A handler runs from one await to the next; session_lock keeps the       *)
(* handlers and samplers apart, but not the pages that edit the workspace  *)
(* nor the users of tmux.  What a handler reads before its first list of   *)
(* the sessions and the list itself are one step: who acts in between may  *)
(* as well act before or after.  The workspace has one fold, its branches  *)
(* are single tabs (WorkspaceDoc has trees), and its tabs are in no order. *)
(***************************************************************************)
EXTENDS SessionRegistry, FiniteSets

CONSTANTS
    Name,        \* names of sessions, at first the tabs of the workspace
    None,        \* no fold, no dialog, no handler
    MaxAsks,     \* bound: requests of users
    MaxFaults,   \* bound: failures, lost answers and restarts of the server
    MaxTrouble   \* bound: those, and what others do in tmux and in the workspace

Identities == Nat \X Nat
Snapshot == [who: Identities, hist: Nat]
Fold == [id: Int, roots: SUBSET Name, closed: UNION {[S -> Snapshot] : S \in SUBSET Name}]

ASSUME NamesAssumption == IsFiniteSet(Name)
ASSUME NoneAssumption == None \notin Name /\ None \notin Fold
ASSUME BoundsAssumption == {MaxAsks, MaxFaults, MaxTrouble} \subseteq Nat

VARIABLES
    tmux,      \* by name: the identity, and whether a pane is running
    server,    \* the tmux server: which one it is, and the ids it gave
    reg,       \* the registry
    ws,        \* the workspace: tabs, pins, fold, the rest; updatedAt, sessionRevision
    dialog,    \* the request that the user has confirmed, and its versions
    recreate,  \* a recreation that waits for the lock, with its record
    job,       \* the handler that has the lock
    ended,     \* ended with their fold, and neither ended for good nor brought back
    own,       \* sessions that were recovered, with the row they are from
    revived,   \* panes that have started again since a handler looked at them
    spent      \* how much of the bounds is used up

world == <<tmux, server>>
vars == <<world, reg, ws, dialog, recreate, job, ended, own, revived, spent>>

Nobody == <<0, 0>>
Live == {[name |-> n, who |-> tmux[n].who] : n \in DOMAIN tmux}
Alive(who) == \E n \in DOMAIN tmux : tmux[n].who = who
Closed == IF ws.fold = None THEN <<>> ELSE ws.fold.closed

\* The lock is free, and is not to be given to the one that waits for it.
Free == job = None /\ recreate = None

Init ==
    /\ LET number == CHOOSE f \in [Name -> 1 .. Cardinality(Name)] : IsInjective(f)
       IN  tmux = [n \in Name |-> [who |-> <<number[n], 1>>, running |-> TRUE]]
    /\ server = [life |-> 1, last |-> Cardinality(Name)]
    /\ reg = Reconciled(Empty, Live)
    /\ \E fold \in {None, [id |-> 1, roots |-> Name, closed |-> <<>>]} :
          ws = [tabs |-> Name, pinned |-> {}, fold |-> fold, rest |-> 0, at |-> 1, rev |-> 0]
    /\ dialog = None
    /\ recreate = None
    /\ job = None
    /\ ended = {}
    /\ own = {}
    /\ revived = {}
    /\ spent = [asks |-> 0, faults |-> 0, trouble |-> 0]

Ask == spent.asks < MaxAsks /\ spent' = [spent EXCEPT !.asks = @ + 1]
Event == spent.trouble < MaxTrouble /\ spent' = [spent EXCEPT !.trouble = @ + 1]
Fault == /\ spent.faults < MaxFaults /\ spent.trouble < MaxTrouble
         /\ spent' = [spent EXCEPT !.faults = @ + 1, !.trouble = @ + 1]

----------------------------------------------------------------------------
(* The user confirms what the page shows.  A session that is not there is  *)
(* deleted as closed; it is closed again by its snapshot.                  *)
Shown(mode, n) ==
    IF n \in DOMAIN tmux
    THEN [who |-> tmux[n].who, dead |-> mode = "delete" /\ ~tmux[n].running]
    ELSE [who |-> IF mode = "delete" THEN Nobody ELSE Closed[n].who, dead |-> FALSE]

Confirm(mode) ==
    /\ dialog = None
    /\ \E roots \in IF ws.fold # None THEN {ws.fold.roots}
                    ELSE {S \in SUBSET ws.tabs : Cardinality(S) > 1} :
          /\ mode = "delete" => ws.fold # None
          /\ \A n \in roots : mode = "delete" \/ n \in DOMAIN tmux \cup DOMAIN Closed
          /\ dialog' = [mode |-> mode, roots |-> roots, at |-> 0, rev |-> 0,
                        id |-> IF ws.fold # None THEN ws.fold.id ELSE -ws.at,
                        confirmed |-> [n \in roots |-> Shown(mode, n)]]
    /\ UNCHANGED <<world, revived, reg, ws, recreate, job, ended, own, spent>>

\* apply: with the versions of the workspace that is saved now.
Apply ==
    /\ dialog # None /\ dialog.at = 0
    /\ Ask
    /\ dialog' = [dialog EXCEPT !.at = ws.at, !.rev = ws.rev]
    /\ UNCHANGED <<world, revived, reg, ws, recreate, job, ended, own>>

Cancel ==
    /\ dialog # None /\ dialog.at = 0
    /\ dialog' = None
    /\ UNCHANGED <<world, revived, reg, ws, recreate, job, ended, own, spent>>

\* After a refusal, a failure or a lost answer the dialog is there to retry.
Retriable == dialog' = [dialog EXCEPT !.at = 0]
Refuse == Retriable /\ job' = None

----------------------------------------------------------------------------
(* archive_fold, from await to await.                                      *)
Deleting == job.kind = "delete"
Members == DOMAIN job.confirmed
FoldJob == job # None /\ job.kind \in {"close", "delete"}

\* validate_workspace_folds, for the one fold there is.
Fits(fold) ==
    /\ fold.roots \subseteq ws.tabs
    /\ DOMAIN fold.closed \subseteq fold.roots
    /\ Cardinality(fold.roots) >= IF DOMAIN fold.closed = {} THEN 2 ELSE 1

\* Mutant: that a session is dead is taken from the page.
AsNamed(n, old) ==
    LET c == dialog.confirmed[n]
    IN  IF n \in DOMAIN tmux THEN tmux[n].who = c.who
        ELSE \/ dialog.mode = "delete" /\ c.who = Nobody
             \/ n \in DOMAIN old /\ old[n].who = c.who

\* A member that lives is the one that was confirmed; one that does not was
\* closed before.
AsConfirmed(n, old) ==
    LET c == dialog.confirmed[n]
    IN  IF n \in DOMAIN tmux
        THEN tmux[n].who = c.who /\ (c.dead => ~tmux[n].running)
        ELSE \/ dialog.mode = "delete" /\ c.who = Nobody
             \/ n \in DOMAIN old /\ old[n].who = c.who

\* Every member is as the user confirmed it, or nothing is touched.
BeginFold ==
    LET mine == ws.fold # None /\ ws.fold.id = dialog.id
        delete == dialog.mode = "delete"
        current == dialog.at = ws.at /\ dialog.rev = ws.rev
    IN  /\ dialog # None /\ dialog.at # 0 /\ Free
        /\ IF /\ current
              /\ delete => mine /\ ws.fold.roots = dialog.roots
              /\ ws.fold # None => mine      \* or the two overlap
              /\ Fits([roots |-> dialog.roots, closed |-> Closed])
              /\ delete => dialog.roots \cap ws.pinned = {}
              /\ \A n \in dialog.roots : AsConfirmed(n, Closed)
           THEN /\ job' = [kind |-> dialog.mode, stage |-> "archive", confirmed |-> dialog.confirmed,
                           at |-> dialog.at, rev |-> dialog.rev, id |-> dialog.id, fold |-> ws.fold,
                           live |-> Live, todo |-> {}, now |-> None, failed |-> FALSE]
                /\ revived' = {}
                /\ UNCHANGED dialog
           ELSE \* a deletion that has been done before is answered as done
                IF /\ current /\ delete /\ ~mine
                   /\ dialog.roots \cap ws.tabs = {}
                THEN dialog' = None /\ UNCHANGED <<job, revived>>
                ELSE Refuse /\ UNCHANGED revived
        /\ UNCHANGED <<world, reg, ws, recreate, ended, own, spent>>

Targets == {s \in job.live : s.name \in Members}
Previous == IF job.fold = None THEN <<>> ELSE job.fold.closed

\* What the fold keeps of its members: those that live now, and those that
\* were saved when it was closed before.
Snapshots(now) ==
    LET saved == {s.name : s \in Targets}
    IN  [n \in saved \cup (Members \cap DOMAIN Previous) |->
            IF n \in saved
            THEN LET s == The({t \in Targets : t.name = n})
                 IN  [who |-> s.who, hist |-> HistoryOf(now, s)]
            ELSE Previous[n]]

Candidate(now) == [id |-> job.id, roots |-> Members, closed |-> Snapshots(now)]

\* "The fold must never be the last copy of recovery metadata."
HistoryKept(now) ==
    Deleting => \A n \in (Members \cap DOMAIN Previous) \ {s.name : s \in Targets} :
                   now.history[Previous[n].hist].who = Previous[n].who

Archived(now) ==
    IF Deleting /\ Targets = {} THEN ws
    ELSE [ws EXCEPT !.fold = Candidate(now), !.at = @ + 1]

\* The store takes the fold only if nobody has written since the request.
Storable == (Deleting /\ Targets = {}) \/ (job.at = ws.at /\ job.rev = ws.rev)

\* The sessions are recorded and the fold is saved before any of them ends.
Archive ==
    /\ FoldJob /\ job.stage = "archive"
    /\ LET now == Reconciled(reg, job.live)
       IN  IF HistoryKept(now) /\ Storable
           THEN /\ reg' = now
                /\ ws' = Archived(now)
                /\ job' = [job EXCEPT !.stage = "next", !.todo = Targets,
                              !.fold = IF Deleting /\ Targets = {} THEN @ ELSE Candidate(now)]
                /\ UNCHANGED dialog
           ELSE reg' = now /\ Refuse /\ UNCHANGED ws
    /\ UNCHANGED <<world, revived, recreate, ended, own, spent>>

\* The registry, the store, or the registry again cannot write; or the store
\* has written, and reports that it could not sync.
ArchiveFails ==
    /\ FoldJob /\ job.stage = "archive"
    /\ Fault
    /\ LET now == Reconciled(reg, job.live)
       IN  \/ reg' \in {reg, now} /\ UNCHANGED ws
           \/ /\ HistoryKept(now) /\ Storable
              /\ reg' = now /\ ws' = Archived(now)
    /\ Refuse
    /\ UNCHANGED <<world, revived, recreate, ended, own>>

----------------------------------------------------------------------------
(* One session after the other.  A member that was confirmed dead is       *)
(* looked at again; then tmux itself compares the identity as it kills.    *)
Done(s, failed) ==
    [job EXCEPT !.todo = @ \ {s}, !.stage = "next", !.failed = @ \/ failed]

\* Mutant: a session that was dead before is not looked at again.
DeadBefore(s) == TRUE

StillDead(s) ==
    s.name \in DOMAIN tmux /\ tmux[s.name] = [who |-> s.who, running |-> FALSE]

NextSession ==
    /\ FoldJob /\ job.stage = "next"
    /\ \E s \in job.todo :
          /\ job' = IF job.confirmed[s.name].dead => StillDead(s)
                    THEN [job EXCEPT !.now = s, !.stage = "kill"] ELSE Done(s, TRUE)
          /\ revived' = revived \ {s.who}
    /\ UNCHANGED <<world, reg, ws, dialog, recreate, ended, own, spent>>

NamesOf(who) == {n \in DOMAIN tmux : tmux[n].who = who}
Without(names) == Restrict(tmux, DOMAIN tmux \ names)
IdTaken(who) == \E n \in DOMAIN tmux : tmux[n].who[1] = who[1]

Killed(killed, outcome) ==
    LET s == job.now
    IN  /\ tmux' = IF killed THEN Without(NamesOf(s.who)) ELSE tmux
        /\ ended' = IF killed /\ FoldJob /\ s.name \notin DOMAIN tmux'
                    THEN ended \cup {s} ELSE ended
        /\ job' = [job EXCEPT !.stage = outcome]
        /\ UNCHANGED <<server, reg, ws, dialog, recreate, own, revived>>

\* Mutant: the session that has the id now is ended.
KillById ==
    /\ job # None /\ job.stage = "kill"
    /\ tmux' = Restrict(tmux, {n \in DOMAIN tmux : tmux[n].who[1] # job.now.who[1]})
    /\ job' = [job EXCEPT !.stage = "ended"]
    /\ UNCHANGED <<server, reg, ws, dialog, recreate, ended, own, revived, spent>>

\* terminate_session: a session that is not there is ended, and one with its
\* id and another identity is an error.  The command may fail, with or without
\* effect.
Kill ==
    /\ job # None /\ job.stage = "kill"
    /\ \/ /\ Killed(TRUE, IF IdTaken(job.now.who) /\ ~Alive(job.now.who) THEN "error" ELSE "ended")
          /\ UNCHANGED spent
       \/ \E killed \in BOOLEAN : Killed(killed, "error") /\ Fault

MemberError ==
    /\ FoldJob /\ job.stage = "error"
    /\ job' = Done(job.now, TRUE)
    /\ UNCHANGED <<world, revived, reg, ws, dialog, recreate, ended, own, spent>>

\* Mutant: what is closed is not offered any more, as if it were terminated.
MemberWithdrawn ==
    /\ FoldJob /\ job.stage = "ended"
    /\ reg' = Offered(Ended(reg, HistoryOf(reg, job.now)), job.now, FALSE)
    /\ job' = Done(job.now, FALSE)
    /\ UNCHANGED <<world, revived, ws, dialog, recreate, ended, own, spent>>

\* mark_history, which may fail too.
MemberEnded ==
    /\ FoldJob /\ job.stage = "ended"
    /\ \/ /\ reg' = Ended(reg, HistoryOf(reg, job.now))
          /\ job' = Done(job.now, FALSE)
          /\ UNCHANGED spent
       \/ Fault /\ job' = Done(job.now, TRUE) /\ UNCHANGED reg
    /\ UNCHANGED <<world, revived, ws, dialog, recreate, ended, own>>

----------------------------------------------------------------------------
(* When all are through: a deletion takes the fold and its tabs away, if   *)
(* the fold is still the one that the handler has read or written.         *)
Finishing(kind) == FoldJob /\ job.kind = kind /\ job.stage = "next" /\ job.todo = {}

Answer(ok) ==
    /\ job' = None
    /\ \/ dialog' = (IF ok THEN None ELSE [dialog EXCEPT !.at = 0]) /\ UNCHANGED spent
       \/ ok /\ Retriable /\ Fault

FinishClosing ==
    /\ Finishing("close")
    /\ Answer(~job.failed)
    /\ UNCHANGED <<world, revived, reg, ws, recreate, ended, own>>

\* Mutant: the fold may have changed while sessions were ended.
RemovableByTabs ==
    /\ Members \subseteq ws.tabs
    /\ Members \cap ws.pinned = {} /\ ws.rev = job.rev

Removable ==
    /\ ws.fold = job.fold /\ Members = ws.fold.roots
    /\ Members \cap ws.pinned = {} /\ ws.rev = job.rev

Removed == [ws EXCEPT !.tabs = @ \ Members, !.fold = None, !.at = @ + 1]

FinishDeleting ==
    /\ Finishing("delete")
    /\ IF ~job.failed /\ Removable
       THEN \/ ws' = Removed /\ Answer(TRUE)
            \/ ws' \in {ws, Removed} /\ Refuse /\ Fault
       ELSE Answer(FALSE) /\ UNCHANGED ws
    /\ UNCHANGED <<world, revived, reg, recreate, ended, own>>

----------------------------------------------------------------------------
(* One session is ended for good: it is recorded, and no longer offered.   *)
\* What is not there is not offered either; a session of that name that is
\* another one is left alone.
Terminate(s) ==
    LET shown == s.name \in DOMAIN tmux
        refused == IF shown THEN tmux[s.name].who # s.who ELSE Alive(s.who)
        seen == IF shown THEN Observed(reg, s) ELSE reg
    IN  /\ ~refused
        /\ \/ /\ reg' = Offered(seen, s, FALSE)
              /\ ended' = ended \ {s}
              /\ job' = IF shown THEN [kind |-> "terminate", stage |-> "kill", now |-> s] ELSE None
              /\ Ask
           \/ \* the registry fails
              /\ Fault
              /\ reg' \in {reg, seen} /\ job' = None /\ UNCHANGED ended
    /\ UNCHANGED <<world, revived, ws, dialog, recreate, own>>

BeginTerminate ==
    /\ Free
    /\ \E h \in DOMAIN reg.history :
          /\ reg.history[h].who[2] # 0
          /\ Terminate([name |-> reg.history[h].name, who |-> reg.history[h].who])

\* terminate_observed_session, after the command.
Terminated ==
    /\ job # None /\ job.kind = "terminate" /\ job.stage \in {"ended", "error"}
    /\ job' = None
    /\ \/ /\ reg' = IF job.stage = "ended" THEN Ended(reg, HistoryOf(reg, job.now))
                     ELSE Offered(reg, job.now, TRUE)
          /\ UNCHANGED spent
       \/ Fault /\ UNCHANGED reg
    /\ UNCHANGED <<world, revived, ws, dialog, recreate, ended, own>>

----------------------------------------------------------------------------
(* A session is brought back: from the snapshot of a fold, from the        *)
(* history, or from what the registry offers, which is read before the     *)
(* lock is taken.                                                          *)
Making(kind, stage, name, source, row) ==
    [kind |-> kind, stage |-> stage, name |-> name, who |-> Nobody,
     source |-> source, row |-> row, snap |-> None, live |-> {}]

\* A session that has the name is not replaced; it may be the one that was
\* recovered before, which is answered.
BeginRecover ==
    /\ Free
    /\ Ask
    /\ \E n \in DOMAIN Closed \ DOMAIN tmux :
          LET snap == Closed[n]
          IN  /\ reg.history[snap.hist].who = snap.who
              /\ job' = [Making("recover", "check", n, {snap.hist}, 0) EXCEPT !.snap = snap]
    /\ UNCHANGED <<world, revived, reg, ws, dialog, recreate, ended, own>>

SnapshotKept == job.name \in DOMAIN Closed /\ Closed[job.name] = job.snap

\* At once, or after the conversation of an agent has been read.
CheckSnapshot ==
    /\ job # None /\ job.stage = "check"
    /\ \/ /\ job' = IF SnapshotKept THEN [job EXCEPT !.stage = "create"] ELSE None
          /\ UNCHANGED spent
       \/ Fault /\ job' = None
    /\ UNCHANGED <<world, revived, reg, ws, dialog, recreate, ended, own>>

ReadRecovery ==
    /\ recreate = None
    /\ Ask
    /\ \E r \in {x \in DOMAIN reg.rows : reg.rows[x].offered} :
          recreate' = [row |-> r, name |-> reg.rows[r].name]
    /\ UNCHANGED <<world, revived, reg, ws, dialog, job, ended, own>>

BeginRecreate ==
    /\ recreate # None /\ job = None
    /\ job' = IF recreate.name \in DOMAIN tmux THEN None
              ELSE Making("recreate", "create", recreate.name, {}, recreate.row)
    /\ recreate' = None
    /\ UNCHANGED <<world, revived, reg, ws, dialog, ended, own, spent>>

BeginRestore ==
    /\ Free
    /\ Ask
    /\ \E h \in DOMAIN reg.history :
          LET row == reg.history[h]
          IN  job' = [Making("restore", "seen", row.name, {h}, 0)
                         EXCEPT !.who = row.who, !.live = Live]
    /\ UNCHANGED <<world, revived, reg, ws, dialog, recreate, ended, own>>

\* restore_history_session records the inventory first, then looks whether
\* the session itself or another one of its name is in it.
Restoring ==
    /\ job # None /\ job.stage = "seen"
    /\ \/ /\ reg' = Reconciled(reg, job.live)
          /\ job' = IF \E s \in job.live : s.who = job.who \/ s.name = job.name
                    THEN None ELSE [job EXCEPT !.stage = "create"]
          /\ UNCHANGED spent
       \/ Fault /\ job' = None /\ reg' \in {reg, Reconciled(reg, job.live)}
    /\ UNCHANGED <<world, revived, ws, dialog, recreate, ended, own>>

\* tmux starts again with the first session, and counts from the start.
Fresh == IF DOMAIN tmux = {} THEN [life |-> server.life + 1, last |-> 1]
         ELSE [server EXCEPT !.last = @ + 1]
Identity == <<Fresh.last, Fresh.life>>

Given(name) ==
    /\ name \notin DOMAIN tmux
    /\ tmux' = With(tmux, name, [who |-> Identity, running |-> TRUE])
    /\ server' = Fresh
    /\ ended' = {s \in ended : s.name # name}

\* The command may fail, with or without effect.
Create ==
    /\ job # None /\ job.stage = "create"
    /\ \/ /\ Given(job.name)
          /\ job' = [job EXCEPT !.stage = "record", !.who = Identity]
          /\ UNCHANGED spent
       \/ /\ job.name \in DOMAIN tmux
          /\ job' = None
          /\ UNCHANGED <<world, ended, spent>>
       \/ /\ Fault
          /\ job' = None
          /\ Given(job.name) \/ UNCHANGED <<world, ended>>
    /\ UNCHANGED <<reg, ws, dialog, recreate, own, revived>>

\* Only a recovery from a fold completes its row in the history at once, to
\* know its session when it is asked again.  It does not know it when a
\* creation that was never seen left a row with the same id: the origin of
\* that row stays.
Record ==
    /\ job # None /\ job.stage = "record"
    /\ LET s == [name |-> job.name, who |-> job.who]
           recorded == Recorded(reg, s, job.row, job.source)
           Completed(r) == IF job.kind = "recover" THEN Observed(r, s) ELSE r
       IN  \/ /\ reg' = Completed(recorded)
              /\ own' = IF job.kind = "recover" /\ Histories(reg, Partial(s)) = {}
                        THEN own \cup {[session |-> s, source |-> job.snap.hist]} ELSE own
              /\ UNCHANGED spent
           \/ Fault /\ reg' \in {reg, recorded, Completed(reg)} /\ UNCHANGED own
    /\ ended' = IF job.row \in DOMAIN reg.rows
                THEN {s \in ended : s.who # reg.rows[job.row].who} ELSE ended
    /\ job' = None
    /\ UNCHANGED <<world, revived, ws, dialog, recreate>>

----------------------------------------------------------------------------
(* The samplers: the stream's records what there is and what is missing,   *)
(* the monitor's only what there is.                                       *)
ListSampled ==
    /\ Free
    /\ job' = [kind |-> "sample", stage |-> "sampled", live |-> Live]
    /\ UNCHANGED <<world, revived, reg, ws, dialog, recreate, ended, own, spent>>

Sampled ==
    /\ job # None /\ job.stage = "sampled"
    /\ reg' \in {Reconciled(reg, job.live),
                 Inventoried(reg, job.live, FALSE)}
    /\ job' = None
    /\ UNCHANGED <<world, revived, ws, dialog, recreate, ended, own, spent>>

----------------------------------------------------------------------------
(* What happens in tmux meanwhile.                                         *)
Users == Event /\ UNCHANGED <<reg, ws, dialog, recreate, job, own>>

NativeNew == Users /\ UNCHANGED revived /\ \E n \in Name : Given(n)

NativeEnd ==
    /\ Users
    /\ \E n \in DOMAIN tmux : tmux' = Without({n})
    /\ UNCHANGED <<server, ended, revived>>

NativeRename ==
    /\ Users
    /\ \E n \in DOMAIN tmux, m \in Name \ DOMAIN tmux :
          /\ tmux' = With(Without({n}), m, tmux[n])
          /\ ended' = {s \in ended : s.name # m}
    /\ UNCHANGED <<server, revived>>

\* A command ends and its pane stays, or it is started again there.
PaneChanges ==
    /\ Users
    /\ \E n \in DOMAIN tmux :
          /\ tmux' = [tmux EXCEPT ![n].running = ~@]
          /\ revived' = IF tmux[n].running THEN revived ELSE revived \cup {tmux[n].who}
    /\ UNCHANGED <<server, ended>>

HostRestart ==
    /\ DOMAIN tmux # {}
    /\ Event
    /\ tmux' = <<>>
    /\ UNCHANGED <<server, reg, ws, dialog, recreate, job, ended, own, revived>>

(* And in the workspace, from other pages.                                 *)
Pages == Event /\ UNCHANGED <<world, revived, reg, dialog, recreate, job, ended, own>>
Edited(w) == ws' = [w EXCEPT !.at = ws.at + 1]

Unfold == Pages /\ ws.fold # None /\ Edited([ws EXCEPT !.fold = None])

Refold ==
    /\ Pages /\ ws.fold = None
    /\ \E roots \in {S \in SUBSET ws.tabs : Cardinality(S) > 1} :
          Edited([ws EXCEPT !.fold = [id |-> ws.at + 1, roots |-> roots, closed |-> <<>>]])

\* reconcile_workspace_folds: the fold goes with too few of its tabs left.
CloseTab ==
    /\ Pages
    /\ \E n \in ws.tabs \ ws.pinned :
          LET left == [ws EXCEPT !.tabs = @ \ {n}]
              fold == [ws.fold EXCEPT !.roots = @ \ {n},
                                      !.closed = Restrict(@, DOMAIN @ \ {n})]
              few == Cardinality(fold.roots) < IF DOMAIN fold.closed = {} THEN 2 ELSE 1
          IN  Edited(IF ws.fold = None THEN left
                     ELSE [left EXCEPT !.fold = IF few THEN None ELSE fold])

OpenTab == Pages /\ \E n \in Name \ ws.tabs : Edited([ws EXCEPT !.tabs = @ \cup {n}])
OtherEdit == Pages /\ Edited([ws EXCEPT !.rest = @ + 1])

\* A pinned session comes into every workspace that does not have it.
Pin ==
    /\ Pages
    /\ \E n \in Name \ ws.pinned :
          ws' = [ws EXCEPT !.tabs = @ \cup {n}, !.pinned = @ \cup {n}, !.rev = @ + 1,
                           !.at = IF n \in ws.tabs THEN @ ELSE @ + 1]

\* The service restarts; tmux and the tables stay.
Crash ==
    /\ job # None
    /\ Fault
    /\ job' = None
    /\ recreate' = None
    /\ dialog' = IF dialog = None THEN None ELSE [dialog EXCEPT !.at = 0]
    /\ UNCHANGED <<world, revived, reg, ws, ended, own>>

----------------------------------------------------------------------------
Next ==
    \/ Confirm("close") \/ Confirm("delete") \/ Apply \/ Cancel
    \/ BeginFold \/ Archive \/ ArchiveFails
    \/ NextSession \/ Kill \/ MemberError \/ MemberEnded
    \/ FinishClosing \/ FinishDeleting
    \/ BeginTerminate \/ Terminated
    \/ BeginRecover \/ CheckSnapshot \/ ReadRecovery \/ BeginRecreate
    \/ BeginRestore \/ Restoring \/ Create \/ Record
    \/ ListSampled \/ Sampled
    \/ NativeNew \/ NativeEnd \/ NativeRename \/ PaneChanges \/ HostRestart
    \/ Unfold \/ Refold \/ CloseTab \/ OpenTab \/ OtherEdit \/ Pin
    \/ Crash

Spec == Init /\ [][Next]_vars

----------------------------------------------------------------------------
(* What a fold and the history say of a session is about that session,     *)
(* whatever has taken its name or its number since: the row of a snapshot  *)
(* is of the session it was saved from, a row that says that its session   *)
(* is gone is right, and a session that was recovered is known as the      *)
(* recovery of its row, so that a repeated request gets it again; but for  *)
(* one whose id a row still has from a creation that was never seen, whose *)
(* origin stays (see Record).                                              *)
SnapshotsAreTrue ==
    \A n \in DOMAIN Closed : reg.history[Closed[n].hist].who = Closed[n].who

GoneIsGone ==
    \A h \in DOMAIN reg.history :
        reg.history[h].who[2] # 0 /\ reg.history[h].state # "live"
            => ~Alive(reg.history[h].who)

RecoveriesAreKnown ==
    \A o \in own : o.session \in Live => IsRecovery(reg, o.session, o.source)

RecordsAreTrue == SnapshotsAreTrue /\ GoneIsGone /\ RecoveriesAreKnown

(* A session that was closed or deleted with its fold can be recovered     *)
(* from the registry until something else has its name, also when the fold *)
(* itself is gone: "Recovery remains enabled, including after an explicit  *)
(* unfold" (fold_recovery.py:208).                                         *)
RecoveryStaysEnabled ==
    \A s \in ended : \E r \in DOMAIN reg.rows :
        reg.rows[r] = [name |-> s.name, who |-> s.who, offered |-> TRUE]

InHistory(who) == \E h \in DOMAIN reg.history : reg.history[h].who = who

SnapshotSaved(who) ==
    \/ \E n \in DOMAIN Closed : Closed[n].who = who
    \/ ws.at > job.at + 1

Running(who) == \E n \in DOMAIN tmux : tmux[n].who = who /\ tmux[n].running

DeadOrRevived(s) ==
    job.confirmed[s.name].dead /\ Running(s.who) => s.who \in revived

(* The service ends a session only if the user has confirmed that very     *)
(* session, its row is in the history, and its fold has been saved with    *)
(* its snapshot, though a page may have changed the fold since.  "A        *)
(* session that has started running again requires a fresh confirmation"   *)
(* (docs/WORKSPACE_FOLDS.md:16): none is ended while one of those that are *)
(* still to be ended was confirmed dead and runs, unless its pane started  *)
(* after the handler last looked at it.  The handler looks at all of them  *)
(* before the first is ended and at each when its turn comes; one that     *)
(* starts between that look and tmux's command is ended all the same.      *)
OnlyConfirmedEnd ==
    [][job' # job =>
          \A n \in DOMAIN tmux \ DOMAIN tmux' :
             LET who == tmux[n].who
             IN  /\ InHistory(who)
                 /\ IF FoldJob
                    THEN /\ \E m \in Members : job.confirmed[m].who = who
                         /\ SnapshotSaved(who)
                         /\ \A s \in job.todo : DeadOrRevived(s)
                    ELSE job.now.who = who]_vars

(* A handler changes nothing of the workspace but its fold, and takes away *)
(* the fold and the tabs only if the fold is still the one that was        *)
(* confirmed and saved, and none of the sessions it listed lives.          *)
FoldsAreKept ==
    [][job' # job /\ ws' # ws =>
          /\ ws'.rest = ws.rest /\ ws'.pinned = ws.pinned
          /\ \/ ws'.tabs = ws.tabs /\ ws'.fold # None /\ ws.at = job.at
             \/ /\ ws.tabs \ ws'.tabs = Members /\ ws.fold = job.fold
                /\ \A s \in Targets : ~Alive(s.who)]_vars
=============================================================================
