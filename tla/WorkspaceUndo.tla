---------------------------- MODULE WorkspaceUndo ---------------------------
(***************************************************************************)
(* Forgetting a session and undoing it, in tmux_console/workspaces.py:     *)
(* capture_forget_session takes down what the session had, with the        *)
(* snapshots still pending as anchors; forget_session removes it; and      *)
(* restore_forgotten_session puts it back into what the document is then.  *)
(***************************************************************************)
EXTENDS WorkspaceDoc

Forgotten(doc, s) ==
    LET holds(w) == s \in Names(w) \cup w.callbacks \cup w.inherited
    IN  [workspaces |-> [id \in DOMAIN doc.workspaces |->
             LET w == doc.workspaces[id] IN IF holds(w) THEN Dropped(w, {s}) ELSE w],
         pinned |-> Kept(doc.pinned, Session \ {s}),
         global |-> doc.global \ {s}]

----------------------------------------------------------------------------
\* Mutant: back at the old position, whatever has come before it since.
ReinsertedAtIndex(now, was, s) ==
    IF s \in ToSet(now) \/ s \notin ToSet(was) THEN now
    ELSE InsertAt(now, IF Index(was, s) < Len(now) + 1 THEN Index(was, s) ELSE Len(now) + 1, s)

\* _restore_ordered_session: before its next neighbour that is left, or
\* after the last one before it.
Reinserted(now, was, s) ==
    LET at == Index(was, s)
        after == Kept(SubSeq(was, at + 1, Len(was)), ToSet(now))
        before == Kept(SubSeq(was, 1, at - 1), ToSet(now))
    IN  IF s \in ToSet(now) \/ s \notin ToSet(was) THEN now
        ELSE IF after # <<>> THEN InsertAt(now, Index(now, after[1]), s)
        ELSE IF before # <<>> THEN InsertAt(now, Index(now, Last(before)) + 1, s)
        ELSE InsertAt(now, IF at < Len(now) + 1 THEN at ELSE Len(now) + 1, s)

\* Mutant: all links of the snapshot come back.
RelinkedAll(now, was, before, after, s) ==
    LET links == Promoted(was, after) @@ now
    IN  IF ValidParents(links, after) THEN links ELSE now

\* _restore_workspace_parents: the links that forgetting s changed and nobody
\* has changed since, one by one as long as no cycle appears.
Relinked(now, was, before, after, s) ==
    LET expected == Promoted(was, before)
        restored == Promoted(was, after)
        affected(c) == IF c = s THEN c \notin ToSet(before) ELSE s \in Above(was)[c]
        relink(links, c) ==
            LET next == IF c \in DOMAIN restored THEN (c :> restored[c]) @@ links
                        ELSE Without(links, c)
            IN  IF /\ affected(c) /\ At(links, c) = At(expected, c)
                   /\ ValidParents(next, after)
                THEN next ELSE links
    IN  FoldLeft(relink, now, after)

----------------------------------------------------------------------------
(* capture_forget_session.  A snapshot keeps the workspace as it is, and   *)
(* its order and tree as they would be with the pending removals undone.   *)
Anchored(entry, old, w) ==
    LET left == Kept(old.tabs, Names(w) \ {old.session})
        tabs == Reinserted(entry.tabs, old.tabs, old.session)
    IN  [entry EXCEPT
            !.wasActive = @ /\ ~(old.wasActive /\ w.active = First(left)),
            !.tabs = tabs,
            !.parents = Relinked(@, old.parents, entry.tabs, tabs, old.session)]

\* Mutant: the pending snapshots are no anchors.
CapturedAlone(doc, s, pending) ==
    LET of(w) == [session |-> s, saved |-> w, tabs |-> w.tabs, parents |-> w.parents,
                  wasActive |-> w.active = s]
    IN  [session |-> s,
         entries |-> [id \in {i \in DOMAIN doc.workspaces :
                                 LET w == doc.workspaces[i]
                                 IN  s \in Names(w) \cup w.callbacks \cup w.inherited} |->
                         of(doc.workspaces[id])],
         pinned |-> doc.pinned, global |-> doc.global]

Captured(doc, s, pending) ==
    LET back == Reverse(pending)
        holds(w) == s \in Names(w) \cup w.callbacks \cup w.inherited
        entry(id) ==
            LET w == doc.workspaces[id]
                anchor(e, old) == IF id \in DOMAIN old.entries
                                  THEN Anchored(e, old.entries[id], w) ELSE e
            IN  FoldLeft(anchor, [session |-> s, saved |-> w, tabs |-> w.tabs,
                                  parents |-> w.parents, wasActive |-> w.active = s], back)
    IN  [session |-> s,
         entries |-> [id \in {i \in DOMAIN doc.workspaces : holds(doc.workspaces[i])} |->
                         entry(id)],
         pinned |-> FoldLeft(LAMBDA p, old : Reinserted(p, old.pinned, old.session),
                             doc.pinned, back),
         global |-> doc.global \cup
                       {o.session : o \in {x \in ToSet(pending) : x.session \in x.global}}]

----------------------------------------------------------------------------
\* The tabs and groups of a workspace with s back in it.
Placed(now, entry, s) ==
    LET tabs == Reinserted(now.tabs, entry.tabs, s)
        id == At(entry.saved.group, s)
        members == IF id = Nothing THEN {} ELSE Members(now.group, id)
        block == Kept(now.tabs, members)
        start == Index(now.tabs, block[1])
        split(g) == LET S == Members(now.group, g)
                    IN  /\ \E t \in S : Index(tabs, t) < Index(tabs, s)
                        /\ \E t \in S : Index(tabs, t) > Index(tabs, s)
        unsplit(g) == InsertAt(now.tabs,
                          1 + Index(now.tabs, Last(Kept(now.tabs, Members(now.group, g)))), s)
        alone == id # Nothing /\ Members(entry.saved.group, id) \cap Names(now) \subseteq {s}
    IN  IF s \in Names(now) \/ s \notin ToSet(tabs)
        THEN [tabs |-> tabs, group |-> now.group]
        ELSE IF members # {}
        THEN [tabs |-> SubSeq(now.tabs, 1, start - 1) \o Reinserted(block, entry.tabs, s)
                           \o SubSeq(now.tabs, start + Len(block), Len(now.tabs)),
              group |-> (s :> id) @@ now.group]
        ELSE [tabs |-> IF \E g \in Range(now.group) : split(g)
                       THEN unsplit(CHOOSE g \in Range(now.group) : split(g)) ELSE tabs,
              group |-> IF alone THEN (s :> id) @@ now.group ELSE now.group]

RestoredIn(now, entry, s) ==
    LET placed == Placed(now, entry, s)
        tabs == placed.tabs
        fallback == First(Kept(entry.tabs, Names(now) \ {s}))
        saved == entry.saved
    IN  [now EXCEPT
            !.tabs = tabs,
            !.parents = Relinked(@, entry.parents, now.tabs, tabs, s),
            !.group = Regrouped(placed.group, tabs),
            !.panes = IF s \in Range(@) \/ s \notin ToSet(tabs) THEN @
                      ELSE [p \in DOMAIN @ |-> IF saved.panes[p] = s /\ @[p] = Nothing
                                              THEN s ELSE @[p]],
            !.callbacks = @ \cup ({s} \cap saved.callbacks),
            !.inherited = @ \cup ({s} \cap saved.inherited),
            !.marks = @ \cup ({s} \cap saved.marks),
            !.active = IF entry.wasActive /\ @ \in {Nothing, fallback} THEN s ELSE @]

Pinned(w, s) ==
    IF s \in Names(w) THEN w
    ELSE [w EXCEPT !.tabs = Append(@, s), !.inherited = @ \cup {s}]

Restored(doc, snap) ==
    LET s == snap.session
        pinned == Reinserted(doc.pinned, snap.pinned, s)
        back(id) == IF id \in DOMAIN snap.entries
                    THEN RestoredIn(doc.workspaces[id], snap.entries[id], s)
                    ELSE doc.workspaces[id]
    IN  [workspaces |-> [id \in DOMAIN doc.workspaces |->
             IF s \in ToSet(pinned) THEN Pinned(back(id), s) ELSE back(id)],
         pinned |-> pinned,
         global |-> doc.global \cup ({s} \cap snap.global)]
=============================================================================
