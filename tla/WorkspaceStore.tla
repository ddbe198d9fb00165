--------------------------- MODULE WorkspaceStore ---------------------------
(***************************************************************************)
(* The workspace store as a whole: every operation of WorkspaceStore that  *)
(* changes sessions, on the document in memory and the file it replaces;   *)
(* the handlers of tmux_console/app.py that forget, restore and rename     *)
(* under the identity lock; failures to save, and restarts.                *)
(*                                                                         *)
(* Requests run one at a time: the handlers do not await between reading   *)
(* the document and committing it.  The revisions that turn stale requests *)
(* away are in PageSync; here every request has seen the current one.      *)
(***************************************************************************)
EXTENDS WorkspaceUndo

CONSTANTS
    Files,        \* files at the start: the document, and edits spent
    LiveAtFirst,  \* names of the sessions that live at the start
    Dead,         \* names of recoverable sessions
    Workspace,    \* ids of workspaces
    Group,        \* ids of groups
    Pane,         \* the panes of the layout
    MaxStoreEdits \* bound: requests other than to forget and to undo

ASSUME SessionsAssumption == LiveAtFirst \cap Dead = {} /\ LiveAtFirst \cup Dead \subseteq Session
ASSUME EditsAssumption == MaxStoreEdits \in Nat

VARIABLES
    memory,   \* the store's document
    disk,     \* the file
    fenced,   \* _write_error: the store refuses to write
    running,  \* names of tmux sessions
    rows,     \* recoverable sessions of the registry
    undo,     \* forgotten_sessions: snapshots whose time has not run out
    before,   \* the document before the first of them was taken, while no
              \* other request came between
    lapsed,   \* forgotten sessions whose undo has run out
    tidy,     \* the workspace that the last request organized, if it did
    edits     \* how much of the bound is used up

storeVars == <<memory, disk, fenced, running, rows, undo, before, lapsed, tidy, edits>>

Workspaces == memory.workspaces
Ids == DOMAIN Workspaces

StoreInit ==
    /\ \E file \in Files : memory = file.doc /\ edits = file.spent
    /\ disk = memory
    /\ fenced = FALSE
    /\ running = LiveAtFirst
    /\ rows = Dead
    /\ undo = <<>>
    /\ before = <<>>
    /\ lapsed = {}
    /\ tidy = {}

----------------------------------------------------------------------------
\* Mutant: memory keeps the old document when the directory cannot be synced.
SaveForgets(doc) ==
    LET next == [doc EXCEPT !.workspaces = [id \in DOMAIN @ |-> Refolded(@[id])]]
    IN  /\ ~fenced
        /\ disk' = next
        /\ memory' \in {memory, next}

(* _commit and _persist.  The file is replaced at once, and memory follows *)
(* it even if the directory could not be synced and the caller is told so. *)
(* A failure before that changes nothing.                                  *)
Save(doc) ==
    LET next == [doc EXCEPT !.workspaces = [id \in DOMAIN @ |-> Refolded(@[id])]]
    IN  /\ ~fenced
        /\ disk' = next
        /\ memory' = next

\* A request that users make.
Organizing(doc, ids) ==
    /\ Save(doc)
    /\ tidy' = ids
    /\ edits' = edits + 1
    /\ before' = <<>>
    /\ UNCHANGED <<fenced, running, rows, undo, lapsed>>

Request(doc) == Organizing(doc, {})

Change(id, given) ==
    LET next == Updated(Workspaces[id], given, memory.pinned)
    IN  /\ Acceptable(given, next)
        /\ Request([memory EXCEPT !.workspaces[id] = next])

NoWorkspace ==
    [tabs |-> <<>>, parents |-> <<>>, group |-> <<>>, folds |-> <<>>, panes |-> [p \in Pane |-> Nothing],
     marks |-> {}, inherited |-> {}, callbacks |-> {}, active |-> Nothing]

CreateWorkspace(id, given) ==
    LET next == Updated(NoWorkspace, given, memory.pinned)
    IN  /\ id \notin Ids
        /\ Acceptable(given, next)
        /\ Request([memory EXCEPT !.workspaces = (id :> next) @@ @])

DeleteWorkspace(id) ==
    Request([memory EXCEPT !.workspaces = Without(@, id)])

AddSession(id, s, at) ==
    LET w == Workspaces[id]
    IN  /\ s \notin Names(w)
        /\ Change(id, [tabs |-> InsertAt(w.tabs, at, s), active |-> w.active])

ReplaceSessions(id, tabs) ==
    LET active == Workspaces[id].active
    IN  /\ ToSet(memory.pinned) \subseteq ToSet(tabs)
        /\ Change(id, [tabs |-> tabs,
                       active |-> IF active \in ToSet(tabs) THEN active ELSE First(tabs)])

RemoveSessions(id, gone) ==
    LET w == Workspaces[id]
        tabs == Kept(w.tabs, Session \ gone)
    IN  /\ gone \cap Names(w) # {} /\ gone \cap ToSet(memory.pinned) = {}
        /\ Change(id, [tabs |-> tabs,
                       active |-> IF w.active \in ToSet(tabs) THEN w.active ELSE First(tabs)])

\* record_activity of a page that has reordered its tabs.
RecordActivity(id, tabs, active) == Change(id, [tabs |-> tabs, active |-> active])

MoveSession(id, s, up) ==
    /\ s \in Names(Workspaces[id])
    /\ LET moved == Moved(Workspaces[id], s, up)
       IN  /\ moved.tabs # Workspaces[id].tabs
           /\ Organizing([memory EXCEPT !.workspaces[id] = Updated(@, moved, memory.pinned)], {id})

\* Parents, groups, folds, panes, separators, callbacks or the active tab.
Arrange(id, given) == Change(id, given)

\* transfer_sessions: from is empty, or holds the source workspace.
Transfer(from, to, names, move, place) ==
    LET src == IF from = {} THEN NoWorkspace ELSE Workspaces[CHOOSE f \in from : TRUE]
        gone == IF move THEN ToSet(names) \cap Names(src) ELSE {}
        dst == Received(Workspaces[to], src, names, place)
    IN  /\ to \notin from
        /\ place \ {Nothing} \subseteq Names(Workspaces[to]) \ ToSet(names)
        /\ move => ToSet(names) \cap ToSet(memory.pinned) = {}
        /\ Len(dst.tabs) <= MaxTabs
        /\ ValidParents(dst.parents, dst.tabs)
        /\ Organizing([memory EXCEPT !.workspaces =
               [id \in Ids |->
                   IF id = to THEN [dst EXCEPT !.callbacks = @ \cup (src.callbacks \cap gone)]
                   ELSE IF id \in from THEN Dropped(@[id], gone) ELSE @[id]]],
               IF place = {} THEN {} ELSE {to})

Pin(s) ==
    /\ s \in running \ ToSet(memory.pinned)
    /\ \A id \in Ids : s \notin Names(Workspaces[id]) => Len(Workspaces[id].tabs) < MaxTabs
    /\ Request([memory EXCEPT !.pinned = Append(@, s),
                              !.workspaces = [id \in Ids |-> Pinned(@[id], s)]])

Unpin(s) ==
    /\ s \in running \cap ToSet(memory.pinned)
    /\ Request([memory EXCEPT
           !.pinned = Kept(@, Session \ {s}),
           !.workspaces = [id \in Ids |-> IF s \in @[id].inherited
                                          THEN Removed(@[id], {s}) ELSE @[id]]])

MarkGlobalCallbacks(S) == Request([memory EXCEPT !.global = S])

ReviewCallback(s) ==
    Request([memory EXCEPT
        !.global = @ \ {s},
        !.workspaces = [id \in Ids |-> [@[id] EXCEPT !.callbacks = @ \ {s}]]])

----------------------------------------------------------------------------
(* The handlers under the identity lock.  synced: the directory could be   *)
(* synced after the file was replaced; otherwise the handler takes back    *)
(* what it did to the registry, though the document has changed.           *)
ForgetSession(s, synced) ==
    /\ s \in rows \ running
    /\ Save(Forgotten(memory, s))
    /\ IF synced
       THEN /\ rows' = rows \ {s}
            /\ undo' = Append(undo, Captured(memory, s, undo))
            /\ before' = IF undo = <<>> THEN <<memory>> ELSE before
       ELSE /\ before' = <<>>
            /\ UNCHANGED <<rows, undo>>
    /\ tidy' = {}
    /\ UNCHANGED <<fenced, running, lapsed, edits>>

Pending(s) == {i \in DOMAIN undo : undo[i].session = s}

\* Mutant: the snapshot goes even when the handler fails.
UndoForgetOnce(s, synced) ==
    \E i \in Pending(s) :
        LET doc == Restored(memory, undo[i])
        IN  /\ s \notin running
            /\ ValidTabs(doc.pinned)
            /\ \A id \in Ids : ValidTabs(doc.workspaces[id].tabs)
            /\ Save(doc)
            /\ rows' = IF synced THEN rows \cup {s} ELSE rows \ {s}
            /\ undo' = RemoveAt(undo, i)
            /\ before' = IF synced THEN before ELSE <<>>
            /\ tidy' = {}
    /\ UNCHANGED <<fenced, running, lapsed, edits>>

UndoForget(s, synced) ==
    \E i \in Pending(s) :
        LET doc == Restored(memory, undo[i])
        IN  /\ s \notin running
            /\ ValidTabs(doc.pinned)
            /\ \A id \in Ids : ValidTabs(doc.workspaces[id].tabs)
            /\ Save(doc)
            /\ rows' = IF synced THEN rows \cup {s} ELSE rows \ {s}
            /\ undo' = IF synced THEN RemoveAt(undo, i) ELSE undo
            /\ before' = IF synced THEN before ELSE <<>>
            /\ tidy' = {}
    /\ UNCHANGED <<fenced, running, lapsed, edits>>

UndoExpires(s) ==
    \E i \in Pending(s) :
        /\ undo' = RemoveAt(undo, i)
        /\ lapsed' = lapsed \cup {s}
        /\ before' = <<>>
        /\ tidy' = {}
        /\ UNCHANGED <<memory, disk, fenced, running, rows, edits>>

(* tmux has renamed the session by the time the store is asked to follow.  *)
(* Only tmux is asked whether the name is free: the document may know it.  *)
(* If the store cannot save that, it refuses all writes until a restart.   *)
RenameSession(from, to, saved) ==
    /\ from \in running /\ to \notin running
    /\ running' = (running \ {from}) \cup {to}
    /\ IF saved THEN Save(Renamed(memory, from, to)) /\ UNCHANGED fenced
       ELSE fenced' = TRUE /\ UNCHANGED <<memory, disk>>
    /\ edits' = edits + 1
    /\ before' = <<>>
    /\ tidy' = {}
    /\ UNCHANGED <<rows, undo, lapsed>>

\* The process ends and starts again: it reads the file, or stays without
\* workspaces if it cannot.
Restart ==
    /\ Loadable(disk)
    /\ memory' = disk
    /\ fenced' = FALSE
    /\ undo' = <<>>
    /\ lapsed' = lapsed \cup {undo[i].session : i \in DOMAIN undo}
    /\ before' = <<>>
    /\ tidy' = {}
    /\ UNCHANGED <<disk, running, rows, edits>>

----------------------------------------------------------------------------
(* What requests ask for.                                                  *)
TabLists == UNION {Injection(1 .. n, Session) : n \in 0 .. MaxTabs}
Orders(w) == {tabs \in TabLists : ToSet(tabs) = Names(w)}

FoldsOf(w) ==
    {<<>>} \cup {<<[roots |-> roots, closed |-> closed]>> :
                   roots \in SUBSET Names(w) \ {{}}, closed \in {{}, Names(w)}}
           \cup {[i \in DOMAIN w.folds |->
                      [w.folds[i] EXCEPT !.closed = Family(@ \cup w.folds[i].roots,
                                                           w.parents, w.tabs)]]}

\* A group is created with its members, given others, or deleted.
GroupEdits(w) ==
    {[group |-> [t \in S |-> g] @@ Restrict(w.group, DOMAIN w.group \ Members(w.group, g))] :
        g \in Group, S \in SUBSET Names(w)}

PaneEdits(w) == {[panes |-> panes] : panes \in [Pane -> Names(w) \cup {Nothing}]}
SeparatorEdits(w) == {[marks |-> SymDiff(w.marks, {s})] : s \in Names(w)}
CallbackEdits(w) == {[callbacks |-> SymDiff(w.callbacks, {s})] : s \in Session}

Arrangements(w) ==
    {[parents |-> (c :> p) @@ w.parents] : c, p \in Names(w)}
        \cup {[parents |-> Without(w.parents, c)] : c \in DOMAIN w.parents}
        \cup {[folds |-> f] : f \in FoldsOf(w)}
        \cup {[active |-> s] : s \in Names(w) \cup {Nothing}}
        \cup GroupEdits(w) \cup PaneEdits(w) \cup SeparatorEdits(w) \cup CallbackEdits(w)

EditStore ==
    \/ \E id \in Ids :
          LET w == Workspaces[id] IN
          \/ DeleteWorkspace(id)
          \/ \E s \in Session, at \in 1 .. Len(w.tabs) + 1 : AddSession(id, s, at)
          \/ \E tabs \in TabLists : ReplaceSessions(id, tabs)
          \/ \E gone \in SUBSET Names(w) : RemoveSessions(id, gone)
          \/ \E tabs \in Orders(w), s \in Names(w) : RecordActivity(id, tabs, s)
          \/ \E s \in Names(w), up \in BOOLEAN : MoveSession(id, s, up)
          \/ \E given \in Arrangements(w) : Arrange(id, given)
          \/ \E from \in {{}} \cup {{i} : i \in Ids}, names \in {t \in TabLists : Len(t) \in 1 .. 2},
                move \in BOOLEAN, place \in {{}, {Nothing}} \cup {{s} : s \in Names(w)} :
                Transfer(from, id, names, move, place)
    \/ \E id \in Workspace, tabs \in TabLists : CreateWorkspace(id, [tabs |-> tabs])
    \/ \E s \in Session :
          \/ Pin(s) \/ Unpin(s) \/ ReviewCallback(s)
          \/ \E to \in Session, saved \in BOOLEAN : RenameSession(s, to, saved)
    \/ \E S \in SUBSET LiveAtFirst : MarkGlobalCallbacks(S)

StoreNext ==
    \/ edits < MaxStoreEdits /\ EditStore
    \/ \E s \in Session :
          \/ UndoExpires(s)
          \/ \E synced \in BOOLEAN : ForgetSession(s, synced) \/ UndoForget(s, synced)
    \/ Restart

StoreSpec == StoreInit /\ [][StoreNext]_storeVars

----------------------------------------------------------------------------
(* What test_workspaces.py:2037 asserts of a rename to a name that is still *)
(* listed, and every request relies on: a new store on the file shows what *)
(* this one does.  If the loader refuses the file, every request for every *)
(* workspace is refused until someone repairs it by hand.  Not so:         *)
AlwaysReloads == disk = memory /\ Loadable(disk)

(* A rename leaves the tabs of a workspace that has the session in its     *)
(* callback queue only, and the pins of one that does not have it at all,  *)
(* while the name that it takes stays active, in a pane, or inherited.     *)
Clash(w, from, to) ==
    /\ from \notin Names(w)
    /\ IF from \in w.callbacks THEN to \in Range(w.panes) \cup {w.active}
                              ELSE to \in w.inherited

(* The server can be restarted at any time: the file always holds what the *)
(* store shows, whichever step of a save fails, and it is loaded again     *)
(* unless one of these renames made it unreadable.                         *)
ReloadsAsShown ==
    /\ Loadable(disk)
    /\ [](disk = memory)
    /\ [][Loadable(disk) =>
            \/ Loadable(disk')
            \/ \E from \in running \ running', to \in running' \ running, id \in Ids :
                  Clash(Workspaces[id], from, to)]_storeVars

(* "makes consecutive undos restore the original order in either order":   *)
(* when all that was forgotten has come back, with no other request in     *)
(* between, the document is what it was, if that was one the loader takes. *)
(* Folds dissolve for good, and the active tab is only brought back if it  *)
(* has not changed since.                                                  *)
Lasting(doc) ==
    [doc EXCEPT !.workspaces =
        [id \in DOMAIN @ |-> [@[id] EXCEPT !.folds = <<>>, !.active = Nothing]]]

UndoIsExact ==
    undo = <<>> /\ before # <<>> /\ Loadable(before[1]) =>
        Lasting(memory) = Lasting(before[1])

(* "Undo this session's removal without replacing subsequent user edits":  *)
(* to undo moves no other session, neither among the tabs nor under or     *)
(* from under another, and takes none from its group, its panes, its pins, *)
(* marks and callbacks.                                                    *)
Rest(w, s) ==
    [tabs |-> Kept(w.tabs, Session \ {s}), group |-> Without(w.group, s),
     above |-> [t \in Names(w) \ {s} |-> Above(w.parents)[t] \ {s}],
     panes |-> [p \in DOMAIN w.panes |-> IF w.panes[p] = s THEN Nothing ELSE w.panes[p]],
     inherited |-> w.inherited \ {s}, marks |-> w.marks \ {s},
     callbacks |-> w.callbacks \ {s}]

UndoKeepsEdits ==
    [][\A s \in rows' \ rows :
          /\ \A id \in Ids : Rest(memory'.workspaces[id], s) = Rest(Workspaces[id], s)
          /\ Kept(memory'.pinned, Session \ {s}) = Kept(memory.pinned, Session \ {s})]_storeVars

(* To undo a forget brings back what was taken and nothing else: the two   *)
(* promises of the undo together.                                          *)
UndoIsFaithful == []UndoIsExact /\ UndoKeepsEdits

(* A rename to a name the document does not know changes nothing but the   *)
(* name: whatever the session was in, under or above, it still is.         *)
Known(doc) ==
    ToSet(doc.pinned) \cup doc.global
        \cup UNION {Names(doc.workspaces[id]) \cup doc.workspaces[id].callbacks :
                       id \in DOMAIN doc.workspaces}

SameBut(w, v, from, to) ==
    LET sub(s) == IF s = from THEN to ELSE IF s = to THEN from ELSE s
    IN  /\ v.tabs = [i \in DOMAIN w.tabs |-> sub(w.tabs[i])]
        /\ v.active = sub(w.active)
        /\ v.callbacks = {sub(s) : s \in w.callbacks}
        /\ \A s \in Names(w) :
              /\ Level(sub(s), v) = <<sub(At(w.parents, s)), At(w.group, s)>>
              /\ (s \in w.marks) = (sub(s) \in v.marks)
              /\ (s \in w.inherited) = (sub(s) \in v.inherited)
        /\ \A p \in Pane : v.panes[p] = sub(w.panes[p])
        /\ [i \in DOMAIN w.folds |-> {sub(s) : s \in w.folds[i].roots}]
             = [i \in DOMAIN v.folds |-> v.folds[i].roots]

RenameIsSubstitution ==
    [][\A from \in running \ running', to \in running' \ (running \cup Known(memory)) :
          memory' # memory =>
          \A id \in Ids : SameBut(Workspaces[id], memory'.workspaces[id], from, to)]_storeVars

(* "Keep each family together, inheriting its root's named tab group":     *)
(* after a move or a placement every branch stands together behind its     *)
(* root, inside one group or none.                                         *)
FamiliesStay ==
    \A id \in tidy :
        LET w == Workspaces[id]
        IN  \A s \in Names(w) :
               LET branch == Family({s}, w.parents, w.tabs)
               IN  /\ Contiguous(branch, w.tabs)
                   /\ First(Kept(w.tabs, branch)) = s
                   /\ \A t \in branch : At(w.group, t) = At(w.group, s)

(* A recoverable session is never lost between the registry and the undo:  *)
(* it is listed, or it can be brought back until its time runs out,        *)
(* whichever of the two writes failed and however often it is tried.       *)
NeverStranded ==
    Dead \subseteq rows \cup lapsed \cup {undo[i].session : i \in DOMAIN undo}
=============================================================================
