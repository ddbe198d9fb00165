--------------------------- MODULE SessionRegistry ---------------------------
(***************************************************************************)
(* The tables of tmux_console/session_registry.py that say which sessions  *)
(* there have been: session_history, a row for each incarnation and its    *)
(* origin, and sessions, what is offered for recovery by name.  Operators  *)
(* on a registry; each is one transaction.  FoldRecovery runs them.        *)
(*                                                                         *)
(* A session is a name and an identity <<id, server>>: tmux counts ids     *)
(* from the start again when its server restarts, and server stands for    *)
(* the times and the process that tell its lives apart.  A session that    *)
(* was just created is recorded before they are known, with server 0.      *)
(* Directories, titles, conversations and times are left out.              *)
(***************************************************************************)
EXTENDS Integers, SequencesExt

Empty == [history |-> <<>>,     \* by id: name, identity and state
          origin |-> <<>>,      \* the row that a recreated session is from
          rows |-> <<>>,        \* by id: name, identity, and whether it is offered
          next |-> 1]           \* the id of the next row

Partial(s) == [s EXCEPT !.who = <<@[1], 0>>]

The(S) == CHOOSE x \in S : TRUE
With(f, x, value) == [y \in DOMAIN f \cup {x} |-> IF y = x THEN value ELSE f[y]]
At(f, x, default) == IF x \in DOMAIN f THEN f[x] ELSE default

Histories(reg, s) ==
    {h \in DOMAIN reg.history : reg.history[h].who = s.who}

\* Created here, and not seen in an inventory since.
Unfinished(reg, s) ==
    {h \in Histories(reg, Partial(s)) :
        s.who[2] # 0 /\ reg.history[h].name = s.name /\ reg.history[h].state = "live"}

\* Mutant: a row of the same name is the session's.
HistoryByName(reg, s) ==
    LET found == {h \in DOMAIN reg.history : reg.history[h].name = s.name}
    IN  IF found # {} THEN The(found) ELSE Len(reg.history) + 1

HistoryOf(reg, s) ==
    LET found == IF Histories(reg, s) # {} THEN Histories(reg, s) ELSE Unfinished(reg, s)
    IN  IF found # {} THEN The(found) ELSE Len(reg.history) + 1

\* _observe_history
Observed(reg, s) ==
    [reg EXCEPT !.history =
        With(@, HistoryOf(reg, s), [name |-> s.name, who |-> s.who, state |-> "live"])]

Named(rows, name) == {r \in DOMAIN rows : rows[r].name = name}
Of(rows, who) == {r \in DOMAIN rows : rows[r].who = who}

\* The row takes the session, and no other row keeps its name.
Put(reg, r, s) ==
    [reg EXCEPT
        !.rows = With(Restrict(@, DOMAIN @ \ Named(@, s.name)), r,
                      [name |-> s.name, who |-> s.who, offered |-> TRUE]),
        !.next = IF r = @ THEN @ + 1 ELSE @]

RowNamed(reg, name) ==
    IF Named(reg.rows, name) # {} THEN The(Named(reg.rows, name)) ELSE reg.next

\* _reconcile_session: the row of the identity, or else of the name.
RowKept(reg, s) ==
    LET own == Of(reg.rows, s.who)
    IN  Put(reg, IF own # {} THEN The(own) ELSE RowNamed(reg, s.name), s)

\* A session of an inventory: its history, and, but for the monitor, its row.
Listed(reg, s, rows) ==
    IF rows THEN RowKept(Observed(reg, s), s) ELSE Observed(reg, s)

Inventoried(reg, live, rows) ==
    LET order == SetToSeq(live)
        seen[i \in 0 .. Len(order)] ==
            IF i = 0 THEN reg ELSE Listed(seen[i - 1], order[i], rows)
    IN  seen[Len(order)]

\* reconcile: what the inventory does not show is missing.
Reconciled(reg, live) ==
    LET seen == Inventoried(reg, live, TRUE)
        present == {HistoryOf(seen, s) : s \in live}
    IN  [seen EXCEPT !.history =
            [h \in DOMAIN @ |-> IF @[h].state = "live" /\ h \notin present
                                THEN [@[h] EXCEPT !.state = "missing"] ELSE @[h]]]

\* record_created.  r is 0, or the row that the session is recreated from:
\* when it is gone nothing is recorded.
Recorded(reg, created, r, source) ==
    LET s == Partial(created)
        h == HistoryOf(reg, s)
        from == IF r = 0 THEN source
                ELSE {x \in DOMAIN reg.history : reg.history[x].who = reg.rows[r].who}
        seen == [Observed(reg, s) EXCEPT !.origin = IF h \in DOMAIN @ THEN @ ELSE With(@, h, from)]
    IN  IF r # 0 /\ r \notin DOMAIN reg.rows THEN reg
        ELSE Put(seen, IF r # 0 THEN r ELSE RowNamed(reg, s.name), s)

\* is_history_recovery
IsRecovery(reg, s, source) ==
    \E h \in Histories(reg, s) : At(reg.origin, h, {}) = {source}

\* mark_history
Ended(reg, h) == [reg EXCEPT !.history[h].state = "ended"]

\* set_recovery_for_identity
Offered(reg, s, offered) ==
    [reg EXCEPT !.rows =
        [r \in DOMAIN @ |->
            IF @[r].name = s.name /\ @[r].who \in {s.who, Partial(s).who}
            THEN [@[r] EXCEPT !.offered = offered] ELSE @[r]]]
=============================================================================
