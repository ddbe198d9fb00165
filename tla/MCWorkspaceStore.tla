-------------------------- MODULE MCWorkspaceStore --------------------------
(***************************************************************************)
(* The store on files it may find: one workspace with a tree, groups and   *)
(* folds, or with panes, pins, marks and callbacks, and at times a second  *)
(* one to transfer to.                                                     *)
(***************************************************************************)
EXTENDS WorkspaceStore

CONSTANTS a, b, c, d, w1, w2, g1, g2, p1, p2

Sessions == {a, b, c, d}
LiveSessions == {a}
DeadSessions == {b, c}
Workspaces2 == {w1, w2}
Groups == {g1, g2}
Panes == {p1, p2}

Partial(S, T) == UNION {[D -> T] : D \in SUBSET S}
One(w) == [workspaces |-> (w1 :> w), pinned |-> <<>>, global |-> {}]

\* Every tree and every grouping of up to three tabs, to be forgotten from.
Trees == {w \in {[NoWorkspace EXCEPT !.tabs = tabs, !.parents = parents, !.group = group,
                                    !.active = First(tabs)] :
                    tabs \in {<<a, b, c>>, <<b, a, c>>, <<b, c, a>>, <<b, a>>},
                    parents \in Partial({a, b, c}, {a, b, c}),
                    group \in Partial({a, b, c}, Groups)} :
            ValidWorkspace(w, <<>>)}

\* Documents with everything in them, to be edited in between.
Family1 ==
    One([NoWorkspace EXCEPT !.tabs = <<c, b, a>>, !.parents = (a :> b), !.active = b,
            !.group = (b :> g1 @@ a :> g1), !.panes = (p1 :> b @@ p2 :> a),
            !.folds = <<[roots |-> {b}, closed |-> {a, b}]>>, !.marks = {b}])

Pins ==
    [workspaces |-> (w1 :> [NoWorkspace EXCEPT !.tabs = <<a, b>>, !.active = b,
                               !.inherited = {b}, !.callbacks = {a, b}]
                     @@ w2 :> [NoWorkspace EXCEPT !.tabs = <<b, c>>, !.active = c,
                               !.parents = (c :> b), !.callbacks = {a, c}]),
     pinned |-> <<b>>, global |-> {a, c}]

\* What lives is only in a callback queue; the others are pinned and in a pane.
Queue ==
    [workspaces |-> (w1 :> [NoWorkspace EXCEPT !.tabs = <<c, b>>, !.panes = (p1 :> c @@ p2 :> Nothing),
                               !.callbacks = {a}]
                     @@ w2 :> [NoWorkspace EXCEPT !.tabs = <<b>>, !.active = b, !.inherited = {b}]),
     pinned |-> <<b>>, global |-> {}]

FilesFound == {[doc |-> One(w), spent |-> MaxStoreEdits] : w \in Trees}
            \cup {[doc |-> doc, spent |-> 0] : doc \in {Family1, Pins, Queue}}

Same == Permutations(Groups)
=============================================================================
