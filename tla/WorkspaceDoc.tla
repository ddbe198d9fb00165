---------------------------- MODULE WorkspaceDoc ----------------------------
(***************************************************************************)
(* The document that tmux_console/workspaces.py keeps: saved workspaces,   *)
(* each a sequence of tabs with what hangs on them, the global pins and    *)
(* the global callback queue; what its loader accepts, and what its        *)
(* operations make of it.  Operators only: WorkspaceStore runs them.       *)
(*                                                                         *)
(* A group is the id its members map to; a layout of panes maps each pane  *)
(* to a session; marks stand for the separators after and before a tab;    *)
(* callback queues are sets, for only their members matter.                *)
(***************************************************************************)
EXTENDS Integers, FiniteSets, SequencesExt

CONSTANTS
    Session,   \* names of sessions
    Nothing,   \* no session, no group
    MaxTabs    \* MAX_WORKSPACE_TABS

ASSUME NothingAssumption == Nothing \notin Session
ASSUME MaxTabsAssumption == MaxTabs \in Nat \ {0}

----------------------------------------------------------------------------
At(f, x) == IF x \in DOMAIN f THEN f[x] ELSE Nothing
Without(f, x) == Restrict(f, DOMAIN f \ {x})
Kept(seq, S) == SelectSeq(seq, LAMBDA x : x \in S)
First(seq) == IF seq = <<>> THEN Nothing ELSE seq[1]
Index(seq, x) == CHOOSE i \in DOMAIN seq : seq[i] = x
Names(w) == ToSet(w.tabs)

Contiguous(S, tabs) == \E i, j \in DOMAIN tabs : S = {tabs[k] : k \in i .. j}
Members(group, id) == {t \in DOMAIN group : group[t] = id}

Above(parents) ==
    LET above[s \in Session] ==
            IF s \in DOMAIN parents THEN {parents[s]} \cup above[parents[s]] ELSE {}
    IN  above

\* _members, subtree: the roots and all that descends from them.
Family(roots, parents, tabs) ==
    LET above == Above(parents)
    IN  {t \in ToSet(tabs) : t \in roots \/ above[t] \cap roots # {}}

Level(s, w) == <<At(w.parents, s), At(w.group, s)>>
SameLevel(roots, w) ==
    roots # {} /\ \A s, t \in roots : Level(s, w) = Level(t, w)

----------------------------------------------------------------------------
(* What the validators accept; the loader refuses the whole file, and with *)
(* it every request, unless all of them do.                                *)
Acyclic(parents) ==
    \A C \in SUBSET DOMAIN parents : C # {} => \E c \in C : parents[c] \notin C

ValidParents(parents, tabs) ==
    /\ DOMAIN parents \cup Range(parents) \subseteq ToSet(tabs)
    /\ Acyclic(parents)

ValidGroup(group, tabs) ==
    /\ DOMAIN group \subseteq ToSet(tabs)
    /\ \A t \in DOMAIN group : Contiguous(Members(group, group[t]), tabs)

ValidFold(fold, w) ==
    LET members == Family(fold.roots, w.parents, w.tabs)
    IN  /\ fold.roots \subseteq Names(w) /\ SameLevel(fold.roots, w)
        /\ fold.closed \subseteq members
        /\ Cardinality(members) >= IF fold.closed = {} THEN 2 ELSE 1

FoldStart(fold, tabs) == Index(tabs, First(Kept(tabs, fold.roots)))

ValidFolds(folds, w) ==
    /\ \A i \in DOMAIN folds : ValidFold(folds[i], w)
    /\ \A i, j \in DOMAIN folds : i < j =>
          /\ FoldStart(folds[i], w.tabs) < FoldStart(folds[j], w.tabs)
          /\ Family(folds[i].roots, w.parents, w.tabs)
                \cap Family(folds[j].roots, w.parents, w.tabs) = {}

ValidPanes(panes, tabs) ==
    /\ Range(panes) \subseteq ToSet(tabs) \cup {Nothing}
    /\ \A p, q \in DOMAIN panes : panes[p] = panes[q] /\ p # q => panes[p] = Nothing

ValidTabs(tabs) == Len(tabs) <= MaxTabs /\ IsInjective(tabs)
ValidActive(w) == w.active \in Names(w) \cup {Nothing}

ValidWorkspace(w, pinned) ==
    /\ ValidTabs(w.tabs)
    /\ ValidParents(w.parents, w.tabs)
    /\ ValidGroup(w.group, w.tabs)
    /\ ValidFolds(w.folds, w)
    /\ w.inherited \subseteq Names(w) \cap ToSet(pinned)
    /\ ToSet(pinned) \subseteq Names(w)
    /\ ValidActive(w)
    /\ w.marks \subseteq Names(w)
    /\ ValidPanes(w.panes, w.tabs)

Loadable(doc) ==
    /\ ValidTabs(doc.pinned)
    /\ \A id \in DOMAIN doc.workspaces : ValidWorkspace(doc.workspaces[id], doc.pinned)

----------------------------------------------------------------------------
(* What the operations reconcile when tabs go.                             *)

\* _reconcile_workspace_parents: a child moves up to its next ancestor left.
Promoted(parents, tabs) ==
    LET left == ToSet(tabs)
        up[s \in DOMAIN parents] ==
            IF parents[s] \in left THEN parents[s]
            ELSE IF parents[s] \in DOMAIN parents THEN up[parents[s]] ELSE Nothing
    IN  Restrict(up, {s \in left \cap DOMAIN parents : up[s] # Nothing})

\* Mutant: a group whose members came apart is kept.
RegroupedApart(group, tabs) == Restrict(group, DOMAIN group \cap ToSet(tabs))

\* _reconcile_workspace_groups
Regrouped(group, tabs) ==
    LET kept == Restrict(group, DOMAIN group \cap ToSet(tabs))
    IN  Restrict(kept, {t \in DOMAIN kept : Contiguous(Members(kept, kept[t]), tabs)})

\* reconcile_workspace_folds: the earlier of two folds that overlap stays.
Refolded(w) ==
    LET fit(fold) ==
            LET roots == fold.roots \cap Names(w)
            IN  [roots |-> roots,
                 closed |-> fold.closed \cap Family(roots, w.parents, w.tabs)]
        family(fold) == Family(fold.roots, w.parents, w.tabs)
        take(taken, fold) ==
            IF /\ ValidFold(fit(fold), w)
               /\ \A f \in taken : family(f) \cap family(fit(fold)) = {}
            THEN taken \cup {fit(fold)} ELSE taken
    IN  [w EXCEPT !.folds = SetToSortSeq(FoldLeft(take, {}, w.folds),
            LAMBDA f, g : FoldStart(f, w.tabs) < FoldStart(g, w.tabs))]

Reconciled(w, tabs) ==
    [w EXCEPT !.tabs = tabs,
              !.parents = Promoted(@, tabs),
              !.group = Regrouped(@, tabs),
              !.panes = [p \in DOMAIN @ |-> IF @[p] \in ToSet(tabs) THEN @[p] ELSE Nothing],
              !.marks = @ \cap ToSet(tabs)]

Removed(w, gone) ==
    LET tabs == Kept(w.tabs, Session \ gone)
    IN  [Reconciled(w, tabs) EXCEPT
            !.inherited = @ \ gone,
            !.active = IF @ \in gone THEN First(tabs) ELSE @]

Dropped(w, gone) == [Removed(w, gone) EXCEPT !.callbacks = @ \ gone]

\* _merge_pinned_sessions
Merged(tabs, pinned) == tabs \o Kept(pinned, Session \ ToSet(tabs))

----------------------------------------------------------------------------
(* update_workspace and record_activity: the fields a request gives are    *)
(* taken, the others reconciled with the new tabs.                         *)
Updated(w, given, pinned) ==
    IF "tabs" \in DOMAIN given
    THEN LET tabs == Merged(given.tabs, pinned)
         IN  [given @@ Reconciled(w, tabs) EXCEPT
                 !.tabs = tabs,
                 !.inherited = (@ \cap ToSet(pinned)) \cup (ToSet(tabs) \ ToSet(given.tabs))]
    ELSE given @@ w

Acceptable(given, next) ==
    /\ ValidTabs(next.tabs) /\ ValidActive(next)
    /\ ValidParents(next.parents, next.tabs)
    /\ "group" \in DOMAIN given => ValidGroup(given.group, next.tabs)
    /\ "folds" \in DOMAIN given => ValidFolds(given.folds, next)
    /\ "panes" \in DOMAIN given => ValidPanes(given.panes, next.tabs)
    /\ "marks" \in DOMAIN given => given.marks \subseteq Names(next)

----------------------------------------------------------------------------
\* _organize_workspace_hierarchy: families together, in the group of their
\* root, and the families of one group where its first one is.
Organized(tabs, parents, group) ==
    LET tree[s \in Session] ==
            FoldLeft(LAMBDA seq, kid : seq \o tree[kid], <<s>>,
                     SelectSeq(tabs, LAMBDA t : At(parents, t) = s))
        roots == SelectSeq(tabs, LAMBDA t : t \notin DOMAIN parents)
        trees(S) == FoldLeft(LAMBDA seq, r : seq \o tree[r], <<>>, Kept(roots, S))
        place(seq, r) ==
            IF r \in ToSet(seq) THEN seq
            ELSE IF r \in DOMAIN group THEN seq \o trees(Members(group, group[r]))
            ELSE seq \o tree[r]
        grouped == ToSet(roots) \cap DOMAIN group
        root(t) == CHOOSE r \in ToSet(roots) : t \in ToSet(tree[r])
    IN  [tabs |-> FoldLeft(place, <<>>, roots),
         group |-> [t \in Family(grouped, parents, tabs) |-> group[root(t)]]]

\* The tabs before or after s that it may move past: its siblings, and none
\* outside its group.
Siblings(o, parents, s, up) ==
    {t \in ToSet(o.tabs) :
        /\ IF up THEN Index(o.tabs, t) < Index(o.tabs, s) ELSE Index(o.tabs, t) > Index(o.tabs, s)
        /\ s \in DOMAIN o.group => At(o.group, t) = o.group[s]
        /\ At(parents, t) = At(parents, s)}

Nearest(tabs, S, up) == IF up THEN Last(Kept(tabs, S)) ELSE First(Kept(tabs, S))

\* The branch is put before or after the block.
Past(tabs, branch, block, up) ==
    LET rest == Kept(tabs, Session \ branch)
        others == Kept(rest, block)
        cut == IF up THEN Index(rest, First(others)) - 1 ELSE Index(rest, Last(others))
    IN  SubSeq(rest, 1, cut) \o Kept(tabs, branch) \o SubSeq(rest, cut + 1, Len(rest))

\* Mutant: the branch goes next to the target itself, not its branch.
BesideTarget(w, o, s, target) == {target}

\* A whole group from outside, or else the branch of the target.
Beside(w, o, s, target) ==
    IF s \notin DOMAIN o.group /\ target \in DOMAIN o.group
    THEN Members(o.group, o.group[target])
    ELSE Family({target}, w.parents, w.tabs)

MovedBeside(w, o, s, target, up) ==
    LET tabs == Past(o.tabs, Family({s}, w.parents, w.tabs), Beside(w, o, s, target), up)
    IN  [tabs |-> tabs, group |-> Regrouped(o.group, tabs)]

MovedIn(w, o, s, up) ==
    LET targets == Siblings(o, w.parents, s, up)
    IN  IF targets = {} THEN [tabs |-> w.tabs, group |-> w.group]
        ELSE MovedBeside(w, o, s, Nearest(o.tabs, targets, up), up)

\* _move_workspace_session: past the next sibling's branch, inside the group
\* if there is one, past a whole group from outside.
Moved(w, s, up) == MovedIn(w, Organized(w.tabs, w.parents, w.group), s, up)

----------------------------------------------------------------------------
(* transfer_sessions: what the destination becomes.  place is empty, or    *)
(* holds the parent to put the transferred branches under, None for none.  *)
Received(dst, src, names, place) ==
    LET added == Kept(names, Session \ Names(dst))
        tabs == dst.tabs \o added
        carried == Promoted(src.parents, tabs)
        linked == Restrict(carried, DOMAIN carried \cap ToSet(added)) @@ dst.parents
        tops == ToSet(names) \ DOMAIN Promoted(src.parents, names)
        parents == IF place = {} THEN linked
                   ELSE IF place = {Nothing} THEN Restrict(linked, DOMAIN linked \ tops)
                   ELSE [t \in tops |-> CHOOSE p \in place : TRUE] @@ linked
        o == Organized(tabs, parents, dst.group)
    IN  IF place = {} \/ ~ValidParents(parents, tabs)
        THEN [dst EXCEPT !.tabs = tabs, !.parents = parents]
        ELSE [dst EXCEPT !.tabs = o.tabs, !.parents = parents, !.group = o.group]
----------------------------------------------------------------------------
\* Mutant: a destination that is listed stays, and the links of the old name go.
RenamedAbove(w, from, to) ==
    LET sub(s) == IF s = from THEN to ELSE s
        tabs == [i \in DOMAIN w.tabs |-> sub(w.tabs[i])]
    IN  [w EXCEPT !.tabs = tabs, !.active = sub(@), !.callbacks = {sub(s) : s \in @},
                  !.parents = Restrict(@, {s \in DOMAIN @ : from \notin {s, @[s]}})]

(* rename_session.  A destination the document knows already is stale: it  *)
(* goes before the live session takes its name.                            *)
RenamedIn(w, from, to) ==
    LET sub(s) == IF s = from THEN to ELSE s
        rename(S) == {sub(s) : s \in S \ {to}}
        tabs == [i \in DOMAIN Kept(w.tabs, Session \ {to}) |->
                    sub(Kept(w.tabs, Session \ {to})[i])]
        linked == Promoted(w.parents, Kept(w.tabs, Session \ {to}))
        source(t) == IF t = to THEN from ELSE t
        held == {t \in ToSet(tabs) : source(t) \in DOMAIN w.group}
        present == from \in Range(w.panes)
    IN  [w EXCEPT
            !.tabs = tabs,
            !.parents = [t \in {sub(s) : s \in DOMAIN linked} |-> sub(linked[source(t)])],
            !.group = Regrouped([t \in held |-> w.group[source(t)]], tabs),
            !.folds = [i \in DOMAIN @ |-> [roots |-> rename(@[i].roots),
                                           closed |-> rename(@[i].closed)]],
            !.panes = [p \in DOMAIN @ |-> IF present /\ @[p] = to THEN Nothing ELSE sub(@[p])],
            !.marks = rename(@),
            !.inherited = {sub(s) : s \in {x \in @ : x # to \/ from \notin Names(w)}}
                             \cap ToSet(tabs),
            !.callbacks = rename(@),
            !.active = sub(@)]

Renamed(doc, from, to) ==
    LET sub(s) == IF s = from THEN to ELSE s
        pinned == Kept(doc.pinned, Session \ {to})
    IN  [workspaces |-> [id \in DOMAIN doc.workspaces |->
             LET w == doc.workspaces[id]
             IN  IF from \in Names(w) \cup w.callbacks THEN RenamedIn(w, from, to) ELSE w],
         pinned |-> [i \in DOMAIN pinned |-> sub(pinned[i])],
         global |-> {sub(s) : s \in doc.global \ {to}}]
=============================================================================
