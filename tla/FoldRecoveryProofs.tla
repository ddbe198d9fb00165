------------------------- MODULE FoldRecoveryProofs -------------------------
(***************************************************************************)
(* Theorems about FoldRecovery, for every finite set of names and every    *)
(* bound: what folds and the history say of a session is true, a session   *)
(* that was closed can be recovered, and a handler ends and takes away     *)
(* only what was confirmed.                                                *)
(***************************************************************************)
EXTENDS FoldRecovery, FiniteSetTheorems, TLAPS

Session == [name: Name, who: Identities]
HistoryRow == [name: Name, who: Identities, state: {"live", "missing", "ended"}]
RecoveryRow == [name: Name, who: Identities, offered: BOOLEAN]
Maps(S, T) == UNION {[D -> T] : D \in SUBSET S}
Registry == [history: Seq(HistoryRow), origin: Maps(Nat, SUBSET Nat),
             rows: Maps(Nat, RecoveryRow), next: Nat]

----------------------------------------------------------------------------
(* What holds of a registry between two transactions.                      *)
Whos(r) == {r.history[h].who : h \in DOMAIN r.history}

OneRowEach(r) ==
    \A h, k \in DOMAIN r.history :
        r.history[h].who = r.history[k].who /\ r.history[h].who[2] # 0 => h = k

Sound(r) ==
    /\ r \in Registry
    /\ DOMAIN r.origin \subseteq DOMAIN r.history
    /\ \A x \in DOMAIN r.rows : x < r.next
    /\ OneRowEach(r)

(* What no transaction undoes: which session a complete row is of, and     *)
(* where it came from.                                                     *)
Grows(r, q) ==
    /\ DOMAIN r.history \subseteq DOMAIN q.history
    /\ \A h \in DOMAIN r.history :
          r.history[h].who[2] # 0 => q.history[h].who = r.history[h].who
    /\ \A h \in DOMAIN r.origin : h \in DOMAIN q.origin /\ q.origin[h] = r.origin[h]

(* Rows are found alive, or are as they were.                              *)
OnlyRevived(r, q) ==
    \A h \in DOMAIN q.history :
        q.history[h].state # "live" => h \in DOMAIN r.history /\ q.history[h] = r.history[h]

HasRow(r, s) ==
    \E x \in DOMAIN r.rows : r.rows[x] = [name |-> s.name, who |-> s.who, offered |-> TRUE]

Apart(s, t) == s.name # t.name /\ s.who # t.who

LEMMA MapsAre ==
    ASSUME NEW S, NEW T, NEW f
    PROVE  f \in Maps(S, T) <=> f \in [DOMAIN f -> T] /\ DOMAIN f \subseteq S
  BY DEF Maps

LEMMA GrowsMore ==
    ASSUME NEW p, NEW q, NEW r, Grows(p, q), Grows(q, r), \A h \in DOMAIN p.history : TRUE
    PROVE  Grows(p, r)
  BY DEF Grows

(* An observed session has one row, complete or not.                       *)
LEMMA HistoryRows ==
    ASSUME NEW r, Sound(r), NEW s \in Session
    PROVE  /\ HistoryOf(r, s) \in 1 .. Len(r.history) + 1
           /\ HistoryOf(r, s) \in DOMAIN r.history =>
                 r.history[HistoryOf(r, s)].who \in {s.who, Partial(s).who}
           /\ \A h \in DOMAIN r.history : r.history[h].who = s.who =>
                 /\ r.history[HistoryOf(r, s)].who = s.who
                 /\ HistoryOf(r, s) \in DOMAIN r.history
           /\ (\E h \in DOMAIN r.history : r.history[h].who = s.who) \/ s.who[2] # 0
                 \/ HistoryOf(r, s) = Len(r.history) + 1
<1>1. DOMAIN r.history = 1 .. Len(r.history) /\ Len(r.history) \in Nat
  BY DEF Sound, Registry
<1>2. Histories(r, s) \subseteq DOMAIN r.history /\ Unfinished(r, s) \subseteq DOMAIN r.history
  BY DEF Histories, Unfinished
<1>3. \A h \in Histories(r, s) : r.history[h].who = s.who
  BY DEF Histories
<1>4. \A h \in Unfinished(r, s) : r.history[h].who = Partial(s).who /\ s.who[2] # 0
  BY DEF Histories, Unfinished
<1>5. \A h \in DOMAIN r.history : r.history[h].who = s.who => h \in Histories(r, s)
  BY DEF Histories
<1>6. CASE Histories(r, s) # {}
  <2>1. HistoryOf(r, s) \in Histories(r, s)
    BY <1>6 DEF HistoryOf, The
  <2> QED BY <2>1, <1>1, <1>2, <1>3, <1>5
<1>7. CASE Histories(r, s) = {} /\ Unfinished(r, s) # {}
  <2>1. HistoryOf(r, s) \in Unfinished(r, s)
    BY <1>7 DEF HistoryOf, The
  <2> QED BY <2>1, <1>1, <1>2, <1>4, <1>5, <1>7
<1>8. CASE Histories(r, s) = {} /\ Unfinished(r, s) = {}
  <2>1. HistoryOf(r, s) = Len(r.history) + 1
    BY <1>8 DEF HistoryOf
  <2> QED BY <2>1, <1>1, <1>5, <1>8
<1> QED BY <1>6, <1>7, <1>8

LEMMA PartialSessions ==
    ASSUME NEW s \in Session
    PROVE  Partial(s) \in Session /\ Partial(s) = [name |-> s.name, who |-> <<s.who[1], 0>>]
  BY DEF Session, Partial, Identities

LEMMA Observing ==
    ASSUME NEW r, Sound(r), NEW s \in Session
    PROVE  LET q == Observed(r, s) IN
           /\ Sound(q) /\ Grows(r, q) /\ OnlyRevived(r, q)
           /\ q.rows = r.rows /\ q.next = r.next /\ q.origin = r.origin
           /\ s.who \in Whos(q) /\ Whos(q) \subseteq Whos(r) \cup {s.who}
           /\ HistoryOf(r, s) \in DOMAIN q.history
           /\ q.history[HistoryOf(r, s)] = [name |-> s.name, who |-> s.who, state |-> "live"]
           /\ \A h \in DOMAIN q.history : h # HistoryOf(r, s) =>
                 h \in DOMAIN r.history /\ q.history[h] = r.history[h]
<1> DEFINE h0 == HistoryOf(r, s)
           new == [name |-> s.name, who |-> s.who, state |-> "live"]
           q == Observed(r, s)
           n == Len(r.history)
<1>1. DOMAIN r.history = 1 .. n /\ n \in Nat /\ r.history \in Seq(HistoryRow)
  BY DEF Sound, Registry
<1>2. h0 \in 1 .. n + 1
  BY HistoryRows
<1>3. q = [r EXCEPT !.history = With(r.history, h0, new)]
  BY DEF Observed
<1>4. r \in Registry /\ new \in HistoryRow
  BY DEF Sound, Session, HistoryRow
<1> HIDE DEF h0, new, q
<1>5. /\ q.history = With(r.history, h0, new) /\ q.rows = r.rows
      /\ q.next = r.next /\ q.origin = r.origin
  BY <1>3, <1>4 DEF Registry
<1>6. /\ DOMAIN q.history = {h0} \cup DOMAIN r.history
      /\ \A h \in DOMAIN q.history : q.history[h] = IF h = h0 THEN new ELSE r.history[h]
  BY <1>5 DEF With
<1>7. q.history \in Seq(HistoryRow)
  <2>1. DOMAIN q.history = 1 .. n \/ DOMAIN q.history = 1 .. n + 1
    BY <1>1, <1>2, <1>6
  <2>2. \A h \in DOMAIN q.history : q.history[h] \in HistoryRow
    BY <1>1, <1>4, <1>6
  <2>3. q.history = [h \in DOMAIN q.history |-> q.history[h]]
    BY <1>5 DEF With
  <2>4. q.history \in [1 .. n -> HistoryRow] \/ q.history \in [1 .. n + 1 -> HistoryRow]
    BY <2>1, <2>2, <2>3
  <2> QED BY <2>4, <1>1
<1>8. q \in Registry
  BY <1>3, <1>4, <1>5, <1>7 DEF Registry
<1>9. OneRowEach(q)
  <2> SUFFICES ASSUME NEW h \in DOMAIN q.history, NEW k \in DOMAIN q.history,
                      q.history[h].who = q.history[k].who, q.history[h].who[2] # 0
               PROVE  h = k
    BY DEF OneRowEach
  <2>1. \A g \in DOMAIN r.history : r.history[g].who = s.who => r.history[h0].who = s.who /\ h0 \in DOMAIN r.history
    BY HistoryRows DEF h0
  <2>2. OneRowEach(r) /\ new.who = s.who
    BY DEF Sound, new
  <2> QED BY <2>1, <2>2, <1>6 DEF OneRowEach
<1>10. Sound(q)
  BY <1>5, <1>6, <1>8, <1>9 DEF Sound
<1>11. Grows(r, q)
  <2>1. h0 \in DOMAIN r.history => r.history[h0].who \in {s.who, Partial(s).who} /\ Partial(s).who[2] = 0
    BY HistoryRows, PartialSessions DEF h0
  <2>2. new.who = s.who
    BY DEF new
  <2> QED BY <2>1, <2>2, <1>5, <1>6 DEF Grows
<1>12. OnlyRevived(r, q)
  BY <1>6 DEF OnlyRevived, new
<1>13. s.who \in Whos(q) /\ Whos(q) \subseteq Whos(r) \cup {s.who}
  <2>1. new.who = s.who
    BY DEF new
  <2> QED BY <2>1, <1>6 DEF Whos
<1> QED BY <1>5, <1>6, <1>10, <1>11, <1>12, <1>13 DEF q, h0, new

(* A row for a session leaves the histories alone, and the rows of others. *)
LEMMA Putting ==
    ASSUME NEW r, Sound(r), NEW s \in Session, NEW x \in DOMAIN r.rows \cup {r.next}
    PROVE  LET q == Put(r, x, s) IN
           /\ Sound(q) /\ q.history = r.history /\ q.origin = r.origin
           /\ HasRow(q, s)
           /\ \A y \in DOMAIN r.rows : y # x /\ r.rows[y].name # s.name =>
                 y \in DOMAIN q.rows /\ q.rows[y] = r.rows[y]
<1> DEFINE row == [name |-> s.name, who |-> s.who, offered |-> TRUE]
           q == Put(r, x, s)
           rest == DOMAIN r.rows \ Named(r.rows, s.name)
<1>1. r \in Registry /\ row \in RecoveryRow
  BY DEF Sound, Session, RecoveryRow
<1>2. r.rows \in [DOMAIN r.rows -> RecoveryRow] /\ DOMAIN r.rows \subseteq Nat /\ r.next \in Nat
  BY <1>1, MapsAre DEF Registry
<1>3. q = [r EXCEPT !.rows = With(Restrict(r.rows, rest), x, row),
                    !.next = IF x = r.next THEN r.next + 1 ELSE r.next]
  BY <1>1 DEF Put, Registry
<1> HIDE DEF row, q
<1>4. /\ q.history = r.history /\ q.origin = r.origin
      /\ q.rows = With(Restrict(r.rows, rest), x, row)
      /\ q.next = IF x = r.next THEN r.next + 1 ELSE r.next
  BY <1>1, <1>3 DEF Registry
<1>5. /\ DOMAIN q.rows = {x} \cup rest
      /\ \A y \in DOMAIN q.rows : q.rows[y] = IF y = x THEN row ELSE r.rows[y]
  BY <1>4 DEF With, Restrict
<1>6. q.rows \in Maps(Nat, RecoveryRow)
  <2>1. DOMAIN q.rows \subseteq Nat
    BY <1>2, <1>5
  <2>2. \A y \in DOMAIN q.rows : q.rows[y] \in RecoveryRow
    BY <1>1, <1>2, <1>5
  <2>3. q.rows = [y \in DOMAIN q.rows |-> q.rows[y]]
    BY <1>4 DEF With
  <2>4. q.rows \in [DOMAIN q.rows -> RecoveryRow]
    BY <2>2, <2>3
  <2> QED BY <2>1, <2>4, MapsAre
<1>7. q.next \in Nat
  BY <1>2, <1>4
<1>8. q \in Registry
  BY <1>1, <1>3, <1>4, <1>6, <1>7 DEF Registry
<1>9. Sound(q)
  <2>1. \A y \in DOMAIN q.rows : y < q.next
    BY <1>2, <1>4, <1>5 DEF Sound
  <2>2. DOMAIN q.origin \subseteq DOMAIN q.history /\ OneRowEach(q)
    BY <1>4 DEF Sound, OneRowEach
  <2> QED BY <2>1, <2>2, <1>8 DEF Sound
<1>10. HasRow(q, s)
  BY <1>5 DEF HasRow, row
<1> QED BY <1>4, <1>5, <1>9, <1>10 DEF q, Named

----------------------------------------------------------------------------
(* Induction over a list, for which a set stands for the predicate.        *)
LEMMA SetInduction ==
    ASSUME NEW n \in Nat, NEW P, 0 \in P,
           \A i \in 0 .. n : i < n /\ i \in P => i + 1 \in P
    PROVE  0 .. n \subseteq P
<1> DEFINE Bad == {k \in 0 .. n : k \notin P}
           Cuts == {0 .. k : k \in Bad}
<1> SUFFICES ASSUME Bad # {} PROVE FALSE
  OBVIOUS
<1>1. IsWellFoundedOn(StrictSubsetOrdering(0 .. n), SUBSET (0 .. n))
  <2>1. IsFiniteSet(0 .. n)
    BY FS_Interval
  <2> QED BY <2>1, FS_FiniteSubsetsOfFinite, FS_StrictSubsetOrderingWellFounded
<1>2. Cuts \subseteq SUBSET (0 .. n) /\ Cuts # {}
  OBVIOUS
<1>3. PICK x \in Cuts : \A y \in Cuts : ~ (<<y, x>> \in StrictSubsetOrdering(0 .. n))
  <2> HIDE DEF Cuts
  <2> QED BY <1>1, <1>2, WFMin
<1>4. PICK k \in Bad : x = 0 .. k
  OBVIOUS
<1>5. k - 1 \in Bad
  OBVIOUS
<1>6. <<0 .. (k - 1), x>> \in StrictSubsetOrdering(0 .. n)
  <2>1. 0 .. (k - 1) \subseteq 0 .. k /\ k \in 0 .. k /\ k \notin 0 .. (k - 1)
    OBVIOUS
  <2> QED BY <2>1, <1>2, <1>4, <1>5 DEF StrictSubsetOrdering
<1> QED BY <1>3, <1>5, <1>6

(* The inventory comes in some order, each of its sessions once.           *)
LEMMA Ordering ==
    ASSUME NEW S, IsFiniteSet(S)
    PROVE  LET order == SetToSeq(S) IN
           /\ Cardinality(S) \in Nat
           /\ order \in [1 .. Cardinality(S) -> S]
           /\ \A i, j \in 1 .. Cardinality(S) : order[i] = order[j] => i = j
           /\ \A s \in S : \E i \in 1 .. Cardinality(S) : order[i] = s
<1> DEFINE n == Cardinality(S)
           order == SetToSeq(S)
<1>1. n \in Nat /\ ExistsBijection(1 .. n, S)
  BY FS_CardinalityType
<1>2. \E f \in [1 .. n -> S] : IsInjective(f)
  BY <1>1 DEF ExistsBijection, Bijection, Injection
<1>3. order \in [1 .. n -> S] /\ IsInjective(order)
  BY <1>2 DEF SetToSeq
<1> HIDE DEF order
<1>4. order \in Injection(1 .. n, S)
  BY <1>3 DEF Injection
<1>5. IsFiniteSet(1 .. n) /\ Cardinality(1 .. n) = n
  BY <1>1, FS_Interval
<1>6. order \in Surjection(1 .. n, S)
  BY <1>4, <1>5, FS_Injection
<1>7. \A s \in S : \E i \in 1 .. n : order[i] = s
  BY <1>6 DEF Surjection
<1>8. \A i, j \in 1 .. n : order[i] = order[j] => i = j
  BY <1>3 DEF IsInjective
<1> QED BY <1>1, <1>3, <1>7, <1>8 DEF order

(* What the rows of an inventory do: a fold, step by step.                 *)
Taken(r, q, S, rows) ==
    /\ Sound(q) /\ Grows(r, q) /\ OnlyRevived(r, q)
    /\ \A s \in S : s.who \in Whos(q) /\ (rows => HasRow(q, s))
    /\ Whos(q) \subseteq Whos(r) \cup {s.who : s \in S}
    /\ \A t \in Session : HasRow(r, t) /\ (\A s \in S : Apart(s, t)) => HasRow(q, t)

LEMMA KnownStays ==
    ASSUME NEW r, NEW q, Grows(r, q), NEW w \in Whos(r), w[2] # 0
    PROVE  w \in Whos(q)
  BY DEF Grows, Whos

LEMMA RowsListed ==
    ASSUME NEW r, Sound(r), NEW s \in Session
    PROVE  LET q == RowKept(r, s) IN
           /\ Sound(q) /\ q.history = r.history /\ q.origin = r.origin
           /\ HasRow(q, s)
           /\ \A t \in Session : HasRow(r, t) /\ Apart(s, t) => HasRow(q, t)
<1> DEFINE mine == Of(r.rows, s.who)
           x == IF mine # {} THEN The(mine) ELSE RowNamed(r, s.name)
<1>1. mine # {} => The(mine) \in mine
  BY DEF The
<1>2. Named(r.rows, s.name) # {} => The(Named(r.rows, s.name)) \in Named(r.rows, s.name)
  BY DEF The
<1>3. x \in DOMAIN r.rows \cup {r.next}
  BY <1>1, <1>2 DEF RowNamed, Named, Of
<1>4. x \in DOMAIN r.rows => r.rows[x].who = s.who \/ r.rows[x].name = s.name
  <2>1. r.next \notin DOMAIN r.rows
    BY MapsAre DEF Sound, Registry
  <2> QED BY <2>1, <1>1, <1>2 DEF RowNamed, Named, Of
<1>5. RowKept(r, s) = Put(r, x, s)
  BY DEF RowKept
<1> HIDE DEF x
<1>6. ASSUME NEW t \in Session, HasRow(r, t), Apart(s, t)
      PROVE  HasRow(Put(r, x, s), t)
  <2>1. PICK y \in DOMAIN r.rows : r.rows[y] = [name |-> t.name, who |-> t.who, offered |-> TRUE]
    BY <1>6 DEF HasRow
  <2>2. y # x /\ r.rows[y].name # s.name
    BY <2>1, <1>4, <1>6 DEF Apart
  <2>3. y \in DOMAIN Put(r, x, s).rows /\ Put(r, x, s).rows[y] = r.rows[y]
    BY <2>2, <1>3, Putting
  <2> QED BY <2>1, <2>3 DEF HasRow
<1> QED BY <1>3, <1>5, <1>6, Putting

LEMMA TakenMore ==
    ASSUME NEW r, NEW p, NEW S \in SUBSET Session, NEW rows \in BOOLEAN, Taken(r, p, S, rows),
           NEW s \in Session, s.who[2] # 0, \A u \in S : Apart(s, u) /\ u.who[2] # 0
    PROVE  Taken(r, Listed(p, s, rows), S \cup {s}, rows)
<1> DEFINE o == Observed(p, s)
           q == Listed(p, s, rows)
<1>1. Sound(p) /\ Grows(r, p) /\ OnlyRevived(r, p)
  BY DEF Taken
<1>2. /\ Sound(o) /\ Grows(p, o) /\ OnlyRevived(p, o) /\ o.rows = p.rows
      /\ s.who \in Whos(o) /\ Whos(o) \subseteq Whos(p) \cup {s.who}
  BY <1>1, Observing
<1> HIDE DEF o
<1>3. q = IF rows THEN RowKept(o, s) ELSE o
  BY DEF Listed, o
<1> HIDE DEF q
<1>4. Sound(q) /\ q.history = o.history /\ q.origin = o.origin /\ (rows => HasRow(q, s))
  BY <1>2, <1>3, RowsListed
<1>5. \A t \in Session : HasRow(p, t) /\ Apart(s, t) => HasRow(q, t)
  <2>1. \A t \in Session : HasRow(p, t) => HasRow(o, t)
    BY <1>2 DEF HasRow
  <2> QED BY <2>1, <1>2, <1>3, RowsListed
<1>6. Grows(p, q) /\ OnlyRevived(p, q) /\ Whos(q) = Whos(o)
  BY <1>2, <1>4 DEF Grows, OnlyRevived, Whos
<1>7. Grows(r, q)
  BY <1>1, <1>6, GrowsMore
<1>8. OnlyRevived(r, q)
  BY <1>1, <1>6 DEF OnlyRevived
<1>9. ASSUME NEW u \in S \cup {s} PROVE u.who \in Whos(q) /\ (rows => HasRow(q, u))
  <2>1. CASE u = s
    BY <2>1, <1>2, <1>4, <1>6
  <2>2. CASE u \in S
    <3>1. u.who \in Whos(p) /\ (rows => HasRow(p, u))
      BY <2>2 DEF Taken
    <3>2. u.who \in Whos(q)
      BY <2>2, <3>1, <1>6, KnownStays
    <3> QED BY <2>2, <3>1, <3>2, <1>5
  <2> QED BY <2>1, <2>2
<1>10. Whos(q) \subseteq Whos(r) \cup {u.who : u \in S \cup {s}}
  <2>1. Whos(p) \subseteq Whos(r) \cup {u.who : u \in S}
    BY DEF Taken
  <2> QED BY <2>1, <1>2, <1>6
<1>11. ASSUME NEW t \in Session, HasRow(r, t), \A u \in S \cup {s} : Apart(u, t)
       PROVE  HasRow(q, t)
  <2>1. HasRow(p, t)
    BY <1>11 DEF Taken
  <2> QED BY <2>1, <1>5, <1>11
<1> QED BY <1>4, <1>7, <1>8, <1>9, <1>10, <1>11 DEF Taken, q

(* What an inventory is: complete sessions, each name and identity once.   *)
Inventory(S) ==
    /\ IsFiniteSet(S) /\ S \subseteq Session
    /\ \A s \in S : s.who[2] # 0
    /\ \A s, t \in S : s # t => Apart(s, t)

LEMMA TakingAll ==
    ASSUME NEW r, Sound(r), NEW S, Inventory(S), NEW rows \in BOOLEAN
    PROVE  Taken(r, Inventoried(r, S, rows), S, rows)
<1> DEFINE n == Cardinality(S)
           order == SetToSeq(S)
           F(f, m) == f = [i \in 0 .. m |-> IF i = 0 THEN r ELSE Listed(f[i - 1], order[i], rows)]
<1>1. /\ n \in Nat /\ order \in [1 .. n -> S]
      /\ \A i, j \in 1 .. n : order[i] = order[j] => i = j
      /\ \A s \in S : \E i \in 1 .. n : order[i] = s
  BY Ordering DEF Inventory
<1> HIDE DEF n, order
<1>2. Len(order) = n
  BY <1>1
<1>3. \E f : F(f, n)
  <2> DEFINE P == {m \in 0 .. n : \E f : F(f, m)}
  <2>1. F([i \in 0 .. 0 |-> r], 0)
    OBVIOUS
  <2>2. ASSUME NEW m \in 0 .. n, m < n, NEW f, F(f, m) PROVE \E g : F(g, m + 1)
    <3> DEFINE g == [i \in 0 .. m + 1 |-> IF i = m + 1 THEN Listed(f[m], order[i], rows) ELSE f[i]]
    <3>1. \A i \in 0 .. m : f[i] = IF i = 0 THEN r ELSE Listed(f[i - 1], order[i], rows)
      BY <2>2
    <3>2. \A i \in 0 .. m : g[i] = f[i]
      BY <1>1
    <3>3. g[m + 1] = Listed(g[m], order[m + 1], rows)
      BY <3>2, <1>1
    <3>4. g = [i \in 0 .. m + 1 |-> g[i]]
      OBVIOUS
    <3> HIDE DEF g
    <3>5. ASSUME NEW i \in 0 .. m + 1
          PROVE  g[i] = IF i = 0 THEN r ELSE Listed(g[i - 1], order[i], rows)
      <4>1. CASE i = m + 1
        BY <4>1, <3>3, <1>1
      <4>2. CASE i # m + 1
        <5>1. i \in 0 .. m /\ (i # 0 => i - 1 \in 0 .. m)
          BY <4>2, <1>1
        <5> QED BY <5>1, <3>1, <3>2
      <4> QED BY <4>1, <4>2
    <3>6. F(g, m + 1)
      BY <3>4, <3>5
    <3> QED BY <3>6
  <2> HIDE DEF F
  <2>3. 0 \in P /\ \A m \in 0 .. n : m < n /\ m \in P => m + 1 \in P
    BY <1>1, <2>1, <2>2
  <2> HIDE DEF P
  <2>4. 0 .. n \subseteq P
    BY <1>1, <2>3, SetInduction
  <2> QED BY <2>4, <1>1 DEF P
<1> DEFINE seen == CHOOSE f : F(f, Len(order))
<1>4. F(seen, n)
  BY <1>2, <1>3
<1>5. Inventoried(r, S, rows) = seen[n]
  BY <1>2 DEF Inventoried, order
<1> HIDE DEF seen
<1>6. /\ seen[0] = r
      /\ \A i \in 0 .. n : i < n => seen[i + 1] = Listed(seen[i], order[i + 1], rows)
  BY <1>1, <1>4
<1> DEFINE Before(m) == {order[i] : i \in 1 .. m}
           G(m) == Taken(r, seen[m], Before(m), rows)
           P == {m \in 0 .. n : G(m)}
<1>7. G(0)
  <2>1. Before(0) = {}
    OBVIOUS
  <2>2. Taken(r, r, {}, rows)
    BY DEF Taken, Grows, OnlyRevived
  <2> HIDE DEF Before
  <2> QED BY <2>1, <2>2, <1>6
<1>8. ASSUME NEW m \in 0 .. n, m < n, G(m) PROVE G(m + 1)
  <2>1. Before(m + 1) = Before(m) \cup {order[m + 1]}
    BY <1>1
  <2>2. order[m + 1] \in S /\ Before(m) \subseteq S
    BY <1>1, <1>8
  <2>3. \A u \in Before(m) : u # order[m + 1]
    BY <1>1, <1>8
  <2> HIDE DEF Before
  <2>4. \A u \in Before(m) : Apart(order[m + 1], u) /\ u.who[2] # 0
    BY <2>2, <2>3 DEF Inventory
  <2>5. order[m + 1] \in Session /\ order[m + 1].who[2] # 0 /\ Before(m) \in SUBSET Session
    BY <2>2 DEF Inventory
  <2>6. Taken(r, Listed(seen[m], order[m + 1], rows), Before(m) \cup {order[m + 1]}, rows)
    BY <2>4, <2>5, <1>8, TakenMore
  <2>7. seen[m + 1] = Listed(seen[m], order[m + 1], rows)
    BY <1>6, <1>8
  <2> QED BY <2>1, <2>6, <2>7
<1> HIDE DEF G
<1>9. 0 \in P /\ \A m \in 0 .. n : m < n /\ m \in P => m + 1 \in P
  BY <1>1, <1>7, <1>8
<1> HIDE DEF P
<1>11. G(n)
  <2>1. n \in P
    BY <1>1, <1>9, SetInduction
  <2> QED BY <2>1 DEF P
<1>10. Before(n) = S
  BY <1>1
<1> QED BY <1>5, <1>11, <1>10 DEF G

(* A row that is not live is of a session that was not listed, or was not  *)
(* live before.                                                            *)
Gone(r, q, S) ==
    \A h \in DOMAIN q.history :
        q.history[h].who[2] # 0 /\ q.history[h].state # "live" =>
            \/ \A s \in S : s.who # q.history[h].who
            \/ /\ h \in DOMAIN r.history /\ r.history[h].state # "live"
               /\ r.history[h].who = q.history[h].who

LEMMA Reconciling ==
    ASSUME NEW r, Sound(r), NEW S, Inventory(S)
    PROVE  LET q == Reconciled(r, S) IN
           /\ Sound(q) /\ Grows(r, q) /\ Gone(r, q, S)
           /\ \A s \in S : s.who \in Whos(q) /\ HasRow(q, s)
           /\ Whos(q) \subseteq Whos(r) \cup {s.who : s \in S}
           /\ \A t \in Session : HasRow(r, t) /\ (\A s \in S : Apart(s, t)) => HasRow(q, t)
<1> DEFINE p == Inventoried(r, S, TRUE)
           q == Reconciled(r, S)
           present == {HistoryOf(p, s) : s \in S}
           left(h) == IF p.history[h].state = "live" /\ h \notin present
                      THEN [p.history[h] EXCEPT !.state = "missing"] ELSE p.history[h]
<1>1. Taken(r, p, S, TRUE)
  BY TakingAll
<1>2. q = [p EXCEPT !.history = [h \in DOMAIN p.history |-> left(h)]]
  BY DEF Reconciled
<1>3. Sound(p) /\ p \in Registry
  BY <1>1 DEF Taken, Sound
<1> HIDE DEF p, q
<1>4. /\ q.history = [h \in DOMAIN p.history |-> left(h)]
      /\ q.origin = p.origin /\ q.rows = p.rows /\ q.next = p.next
  BY <1>2, <1>3 DEF Registry
<1>5. /\ p.history \in Seq(HistoryRow) /\ Len(p.history) \in Nat
      /\ DOMAIN p.history = 1 .. Len(p.history)
      /\ \A h \in DOMAIN p.history : p.history[h] \in HistoryRow
  BY <1>3 DEF Registry
<1>6. \A h \in DOMAIN p.history : left(h) \in HistoryRow /\ left(h).who = p.history[h].who
  BY <1>5 DEF HistoryRow
<1>7. \A h \in DOMAIN p.history :
          left(h).state # "live" => p.history[h].state # "live" \/ h \notin present
  BY <1>5 DEF HistoryRow
<1> HIDE DEF left
<1>8. /\ DOMAIN q.history = DOMAIN p.history
      /\ \A h \in DOMAIN p.history : q.history[h] = left(h)
      /\ q.history \in Seq(HistoryRow)
  <2>1. q.history \in [1 .. Len(p.history) -> HistoryRow]
    BY <1>4, <1>5, <1>6
  <2> QED BY <2>1, <1>4, <1>5
<1>9. q \in Registry
  <2> HIDE DEF left
  <2> QED BY <1>2, <1>3, <1>4, <1>8 DEF Registry
<1>10. Whos(q) = Whos(p)
  BY <1>6, <1>8 DEF Whos
<1>11. Sound(q)
  <2>1. OneRowEach(q)
    BY <1>3, <1>6, <1>8 DEF Sound, OneRowEach
  <2> QED BY <2>1, <1>3, <1>4, <1>8, <1>9 DEF Sound
<1>12. Grows(r, q)
  <2>1. Grows(r, p)
    BY <1>1 DEF Taken
  <2> QED BY <2>1, <1>4, <1>6, <1>8 DEF Grows
<1>13. ASSUME NEW h \in DOMAIN q.history, q.history[h].who[2] # 0, q.history[h].state # "live",
              NEW s \in S, s.who = q.history[h].who
       PROVE  /\ h \in DOMAIN r.history /\ r.history[h].state # "live"
              /\ r.history[h].who = q.history[h].who
  <2>1. q.history[h].who = p.history[h].who /\ h \in DOMAIN p.history
    BY <1>6, <1>8
  <2>2. s \in Session
    BY DEF Inventory
  <2>3. HistoryOf(p, s) \in DOMAIN p.history /\ p.history[HistoryOf(p, s)].who = s.who
    BY <2>1, <2>2, <1>3, <1>13, HistoryRows
  <2>4. HistoryOf(p, s) = h
    BY <2>1, <2>3, <1>3, <1>13 DEF Sound, OneRowEach
  <2>5. p.history[h].state # "live"
    BY <2>1, <2>4, <1>7, <1>8, <1>13
  <2>6. h \in DOMAIN r.history /\ p.history[h] = r.history[h]
    BY <2>1, <2>5, <1>1 DEF Taken, OnlyRevived
  <2> QED BY <2>1, <2>5, <2>6
<1>14. Gone(r, q, S)
  BY <1>13 DEF Gone
<1>15. \A t : HasRow(q, t) <=> HasRow(p, t)
  BY <1>4 DEF HasRow
<1> QED BY <1>1, <1>10, <1>11, <1>12, <1>14, <1>15 DEF Taken, q

(* The monitor withdraws nothing at all.                                   *)
LEMMA Monitoring ==
    ASSUME NEW r, Sound(r), NEW S, Inventory(S)
    PROVE  LET q == Inventoried(r, S, FALSE) IN
           /\ Sound(q) /\ Grows(r, q) /\ Gone(r, q, S)
           /\ Whos(q) \subseteq Whos(r) \cup {s.who : s \in S}
           /\ \A t \in Session : HasRow(r, t) /\ (\A s \in S : Apart(s, t)) => HasRow(q, t)
<1>1. Taken(r, Inventoried(r, S, FALSE), S, FALSE)
  BY TakingAll
<1> QED BY <1>1 DEF Taken, Gone, OnlyRevived

LEMMA Ending ==
    ASSUME NEW r, Sound(r), NEW h \in DOMAIN r.history
    PROVE  LET q == Ended(r, h) IN
           /\ Sound(q) /\ Grows(r, q) /\ q.rows = r.rows /\ q.origin = r.origin
           /\ DOMAIN q.history = DOMAIN r.history
           /\ \A k \in DOMAIN r.history :
                 /\ q.history[k].who = r.history[k].who
                 /\ k # h => q.history[k] = r.history[k]
<1> DEFINE q == Ended(r, h)
<1>1. r \in Registry /\ r.history \in Seq(HistoryRow)
  BY DEF Sound, Registry
<1>2. q = [r EXCEPT !.history = [r.history EXCEPT ![h] = [r.history[h] EXCEPT !.state = "ended"]]]
  BY <1>1 DEF Ended, Registry
<1> HIDE DEF q
<1>3. /\ q.history = [r.history EXCEPT ![h] = [r.history[h] EXCEPT !.state = "ended"]]
      /\ q.rows = r.rows /\ q.origin = r.origin /\ q.next = r.next
  BY <1>1, <1>2 DEF Registry
<1>4. [r.history[h] EXCEPT !.state = "ended"] \in HistoryRow
  <2>1. r.history[h] \in HistoryRow
    BY <1>1
  <2> QED BY <2>1 DEF HistoryRow
<1>5. q.history \in Seq(HistoryRow) /\ DOMAIN q.history = DOMAIN r.history
  BY <1>1, <1>3, <1>4
<1>6. \A k \in DOMAIN r.history :
         /\ q.history[k].who = r.history[k].who
         /\ k # h => q.history[k] = r.history[k]
  <2>1. [r.history[h] EXCEPT !.state = "ended"].who = r.history[h].who
    <3>1. r.history[h] \in HistoryRow
      BY <1>1
    <3> QED BY <3>1 DEF HistoryRow
  <2> QED BY <2>1, <1>3
<1>7. q \in Registry
  BY <1>1, <1>2, <1>3, <1>5 DEF Registry
<1>8. OneRowEach(q)
  BY <1>5, <1>6 DEF Sound, OneRowEach
<1>9. Sound(q)
  BY <1>3, <1>5, <1>7, <1>8 DEF Sound
<1>10. Grows(r, q)
  BY <1>3, <1>5, <1>6 DEF Grows
<1> QED BY <1>3, <1>5, <1>6, <1>9, <1>10 DEF q

LEMMA Offering ==
    ASSUME NEW r, Sound(r), NEW s \in Session, s.who[2] # 0, NEW offered \in BOOLEAN
    PROVE  LET q == Offered(r, s, offered) IN
           /\ Sound(q) /\ Grows(r, q) /\ q.history = r.history /\ q.origin = r.origin
           /\ \A t \in Session :
                 HasRow(r, t) /\ (offered \/ (t # s /\ t.who[2] # 0)) => HasRow(q, t)
<1> DEFINE q == Offered(r, s, offered)
           mine(x) == r.rows[x].name = s.name /\ r.rows[x].who \in {s.who, Partial(s).who}
           row(x) == IF mine(x) THEN [r.rows[x] EXCEPT !.offered = offered] ELSE r.rows[x]
<1>1. r \in Registry /\ r.rows \in [DOMAIN r.rows -> RecoveryRow] /\ DOMAIN r.rows \subseteq Nat
  BY MapsAre DEF Sound, Registry
<1>2. q = [r EXCEPT !.rows = [x \in DOMAIN r.rows |-> row(x)]]
  BY <1>1 DEF Offered
<1> HIDE DEF q
<1>3. /\ q.rows = [x \in DOMAIN r.rows |-> row(x)]
      /\ q.history = r.history /\ q.origin = r.origin /\ q.next = r.next
  BY <1>1, <1>2 DEF Registry
<1>4. \A x \in DOMAIN r.rows : row(x) \in RecoveryRow
  BY <1>1 DEF RecoveryRow
<1>5. q.rows \in Maps(Nat, RecoveryRow)
  <2> HIDE DEF row
  <2>1. q.rows \in [DOMAIN q.rows -> RecoveryRow] /\ DOMAIN q.rows \subseteq Nat
    BY <1>1, <1>3, <1>4
  <2> QED BY <2>1, MapsAre
<1>6. q \in Registry
  <2> HIDE DEF row
  <2> QED BY <1>1, <1>2, <1>3, <1>5 DEF Registry
<1>7. Sound(q)
  <2> HIDE DEF row
  <2>1. \A x \in DOMAIN q.rows : x < q.next
    BY <1>3 DEF Sound
  <2> QED BY <2>1, <1>3, <1>6 DEF Sound, OneRowEach
<1>8. Grows(r, q)
  BY <1>3 DEF Grows
<1>9. ASSUME NEW t \in Session, HasRow(r, t), offered \/ (t # s /\ t.who[2] # 0)
      PROVE  HasRow(q, t)
  <2>1. PICK x \in DOMAIN r.rows : r.rows[x] = [name |-> t.name, who |-> t.who, offered |-> TRUE]
    BY <1>9 DEF HasRow
  <2>2. CASE offered
    <3>1. offered = TRUE
      BY <2>2
    <3>2. \A e \in RecoveryRow : e.offered = offered => [e EXCEPT !.offered = offered] = e
      BY DEF RecoveryRow
    <3>4. r.rows[x].offered = offered /\ r.rows[x] \in RecoveryRow
      BY <1>1, <2>1, <3>1
    <3>3. row(x) = r.rows[x]
      BY <3>2, <3>4
    <3> QED BY <2>1, <3>3, <1>3 DEF HasRow
  <2>3. CASE t # s /\ t.who[2] # 0
    <3>1. ~mine(x)
      <4>1. t.name # s.name \/ t.who # s.who
        BY <2>3 DEF Session
      <4>2. Partial(s).who[2] = 0
        BY PartialSessions
      <4> QED BY <2>1, <2>3, <4>1, <4>2
    <3> QED BY <2>1, <3>1, <1>3 DEF HasRow
  <2> QED BY <1>9, <2>2, <2>3
<1> QED BY <1>3, <1>7, <1>8, <1>9 DEF q

(* A creation is recorded: the row it replaces and the rows of its name    *)
(* go, and a new history knows where it came from.                         *)
Origins(r, s, row, source, q) ==
    row = 0 /\ Histories(r, Partial(s)) = {} =>
        LET h == HistoryOf(r, Partial(s)) IN
        /\ h \in DOMAIN q.history /\ h \in DOMAIN q.origin /\ q.origin[h] = source
        /\ q.history[h] = [name |-> s.name, who |-> Partial(s).who, state |-> "live"]
        /\ \A k \in DOMAIN q.history : q.history[k].who = Partial(s).who => k = h

RowsAfter(r, s, row, q) ==
    \A t \in Session :
        /\ HasRow(r, t) /\ t.name # s.name
        /\ row \in DOMAIN r.rows => t.who # r.rows[row].who
        => HasRow(q, t)

LEMMA Recording ==
    ASSUME NEW r, Sound(r), NEW s \in Session, NEW row \in Nat, NEW source \in SUBSET Nat
    PROVE  LET q == Recorded(r, s, row, source) IN
           /\ Sound(q) /\ Grows(r, q) /\ OnlyRevived(r, q)
           /\ Whos(q) \subseteq Whos(r) \cup {Partial(s).who}
           /\ RowsAfter(r, s, row, q)
           /\ Origins(r, s, row, source, q)
<1> DEFINE p == Partial(s)
           h0 == HistoryOf(r, p)
           o == Observed(r, p)
           from == IF row = 0 THEN source
                   ELSE {x \in DOMAIN r.history : r.history[x].who = r.rows[row].who}
           origin == IF h0 \in DOMAIN o.origin THEN o.origin ELSE With(o.origin, h0, from)
           seen == [o EXCEPT !.origin = origin]
           y0 == IF row # 0 THEN row ELSE RowNamed(r, p.name)
           q == Recorded(r, s, row, source)
<1>1. p \in Session /\ p.name = s.name
  BY PartialSessions
<1>2. /\ Sound(o) /\ Grows(r, o) /\ OnlyRevived(r, o)
      /\ o.rows = r.rows /\ o.next = r.next /\ o.origin = r.origin
      /\ Whos(o) \subseteq Whos(r) \cup {p.who}
      /\ h0 \in DOMAIN o.history
      /\ o.history[h0] = [name |-> p.name, who |-> p.who, state |-> "live"]
      /\ \A h \in DOMAIN o.history : h # h0 => h \in DOMAIN r.history /\ o.history[h] = r.history[h]
  BY <1>1, Observing
<1>3. q = IF row # 0 /\ row \notin DOMAIN r.rows THEN r ELSE Put(seen, y0, p)
  BY Zenon DEF Recorded
<1>4. r \in Registry /\ o \in Registry
  BY <1>2 DEF Sound
<1>5. from \in SUBSET Nat
  BY <1>4 DEF Registry
<1> HIDE DEF o, p, q, h0, from
<1>6. /\ seen.origin = origin /\ seen.history = o.history
      /\ seen.rows = r.rows /\ seen.next = r.next
  BY <1>2, <1>4 DEF Registry
<1>7. /\ DOMAIN origin = DOMAIN o.origin \cup {h0}
      /\ \A h \in DOMAIN o.origin : origin[h] = o.origin[h]
      /\ h0 \notin DOMAIN o.origin => origin[h0] = from
  BY DEF With
<1>8. origin \in Maps(Nat, SUBSET Nat)
  <2>1. o.origin \in [DOMAIN o.origin -> SUBSET Nat] /\ DOMAIN o.origin \subseteq Nat /\ h0 \in Nat
    BY <1>2, <1>4, MapsAre DEF Registry
  <2>2. \A h \in DOMAIN origin : origin[h] \in SUBSET Nat
    BY <2>1, <1>5, <1>7
  <2>3. origin = [h \in DOMAIN origin |-> origin[h]]
    BY <2>1 DEF With
  <2> HIDE DEF origin
  <2>4. origin \in [DOMAIN origin -> SUBSET Nat] /\ DOMAIN origin \subseteq Nat
    BY <2>1, <2>2, <2>3, <1>7
  <2> QED BY <2>4, MapsAre
<1> HIDE DEF origin
<1>9. seen \in Registry
  BY <1>4, <1>8 DEF Registry
<1> HIDE DEF seen
<1>10. Sound(seen)
  <2>1. DOMAIN seen.origin \subseteq DOMAIN seen.history
    BY <1>2, <1>6, <1>7 DEF Sound
  <2> QED BY <2>1, <1>2, <1>6, <1>9 DEF Sound, OneRowEach
<1>11. Named(r.rows, p.name) # {} => The(Named(r.rows, p.name)) \in Named(r.rows, p.name)
  BY DEF The
<1>12. row = 0 \/ row \in DOMAIN r.rows => y0 \in DOMAIN seen.rows \cup {seen.next}
  BY <1>6, <1>11 DEF RowNamed, Named
<1>13. y0 \in DOMAIN seen.rows /\ row = 0 => seen.rows[y0].name = p.name
  <2>1. seen.next \notin DOMAIN seen.rows
    BY <1>10, MapsAre DEF Sound, Registry
  <2> QED BY <2>1, <1>6, <1>11 DEF RowNamed, Named
<1> HIDE DEF y0
<1>14. CASE row # 0 /\ row \notin DOMAIN r.rows
  <2>1. q = r
    BY <1>3, <1>14
  <2> QED BY <2>1, <1>14 DEF Grows, OnlyRevived, RowsAfter, Origins, q
<1>15. CASE ~(row # 0 /\ row \notin DOMAIN r.rows)
  <2>1. /\ Sound(q) /\ q.history = o.history /\ q.origin = origin
        /\ \A y \in DOMAIN seen.rows : y # y0 /\ seen.rows[y].name # p.name =>
              y \in DOMAIN q.rows /\ q.rows[y] = seen.rows[y]
    BY <1>1, <1>3, <1>6, <1>10, <1>12, <1>15, Putting
  <2>2. Grows(r, q) /\ OnlyRevived(r, q) /\ Whos(q) = Whos(o)
    BY <2>1, <1>2, <1>7 DEF Grows, OnlyRevived, Whos
  <2>3. ASSUME NEW t \in Session, HasRow(r, t), t.name # s.name,
               row \in DOMAIN r.rows => t.who # r.rows[row].who
        PROVE  HasRow(q, t)
    <3>1. PICK y \in DOMAIN r.rows : r.rows[y] = [name |-> t.name, who |-> t.who, offered |-> TRUE]
      BY <2>3 DEF HasRow
    <3>2. y # y0
      BY <3>1, <2>3, <1>1, <1>6, <1>13, <1>15 DEF y0
    <3>3. y \in DOMAIN q.rows /\ q.rows[y] = r.rows[y]
      BY <3>1, <3>2, <2>1, <2>3, <1>1, <1>6
    <3> QED BY <3>1, <3>3 DEF HasRow
  <2>4. ASSUME row = 0, Histories(r, p) = {}
        PROVE  /\ h0 \in DOMAIN q.history /\ h0 \in DOMAIN q.origin /\ q.origin[h0] = source
               /\ q.history[h0] = [name |-> s.name, who |-> p.who, state |-> "live"]
               /\ \A k \in DOMAIN q.history : q.history[k].who = p.who => k = h0
    <3>1. \A k \in DOMAIN r.history : r.history[k].who # p.who
      BY <2>4 DEF Histories
    <3>2. p.who[2] = 0
      BY PartialSessions DEF p
    <3>3. h0 = Len(r.history) + 1
      BY <2>4, <3>2 DEF h0, HistoryOf, Unfinished
    <3>4. h0 \notin DOMAIN o.origin
      <4>1. DOMAIN r.history = 1 .. Len(r.history) /\ Len(r.history) \in Nat
        BY <1>4 DEF Registry
      <4> QED BY <4>1, <3>3, <1>2 DEF Sound
    <3>5. from = source
      BY <2>4 DEF from
    <3> QED BY <3>1, <3>4, <3>5, <2>1, <1>1, <1>2, <1>7
  <2>5. RowsAfter(r, s, row, q)
    BY <2>3 DEF RowsAfter
  <2>6. Origins(r, s, row, source, q)
    BY <2>4 DEF Origins, p, h0
  <2> QED BY <2>1, <2>2, <2>5, <2>6, <1>2 DEF q, p
<1> QED BY <1>14, <1>15

(* A recovery that is completed at once is known by its full identity.     *)
KnownAs(q, who, k) ==
    \E h \in DOMAIN q.history :
        q.history[h].who = who /\ h \in DOMAIN q.origin /\ q.origin[h] = {k}

LEMMA Completing ==
    ASSUME NEW r, Sound(r), NEW s \in Session, s.who[2] # 0, s.who \notin Whos(r),
           NEW k \in Nat, Histories(r, Partial(s)) = {}
    PROVE  KnownAs(Observed(Recorded(r, s, 0, {k}), s), s.who, k)
<1> DEFINE p == Recorded(r, s, 0, {k})
           q == Observed(p, s)
           h == HistoryOf(r, Partial(s))
<1>1. /\ Sound(p) /\ Whos(p) \subseteq Whos(r) \cup {Partial(s).who}
      /\ h \in DOMAIN p.history /\ h \in DOMAIN p.origin /\ p.origin[h] = {k}
      /\ p.history[h] = [name |-> s.name, who |-> Partial(s).who, state |-> "live"]
      /\ \A i \in DOMAIN p.history : p.history[i].who = Partial(s).who => i = h
  BY Recording DEF Origins
<1> HIDE DEF p, h
<1> HIDE DEF q
<1>2. /\ q.origin = p.origin /\ HistoryOf(p, s) \in DOMAIN q.history
      /\ q.history[HistoryOf(p, s)].who = s.who
  <2>1. Sound(p)
    BY <1>1
  <2>2. /\ q.origin = p.origin /\ HistoryOf(p, s) \in DOMAIN q.history
        /\ q.history[HistoryOf(p, s)] = [name |-> s.name, who |-> s.who, state |-> "live"]
    BY <2>1, Observing DEF q
  <2> QED BY <2>2
<1>3. Partial(s).who # s.who
  BY PartialSessions
<1>4. Histories(p, s) = {}
  BY <1>1, <1>3 DEF Histories, Whos
<1>5. Unfinished(p, s) = {h}
  BY <1>1 DEF Unfinished, Histories
<1>6. HistoryOf(p, s) = h
  BY <1>4, <1>5 DEF HistoryOf, The
<1> QED BY <1>1, <1>2, <1>6 DEF p, q, KnownAs

----------------------------------------------------------------------------
(* The identities that tmux has given: none is given twice, so that what   *)
(* is dead stays dead.                                                     *)
Issued(w) ==
    /\ w \in Identities
    /\ 1 <= w[2] /\ w[2] <= server.life
    /\ w[2] = server.life => w[1] <= server.last

TmuxOk ==
    /\ server \in [life: Nat, last: Nat] /\ server.life >= 1
    /\ tmux \in [DOMAIN tmux -> [who: Identities, running: BOOLEAN]]
    /\ DOMAIN tmux \subseteq Name
    /\ \A n \in DOMAIN tmux : tmux[n].who[2] = server.life /\ tmux[n].who[1] <= server.last
    /\ \A n, m \in DOMAIN tmux : tmux[n].who = tmux[m].who => n = m

RegOk ==
    /\ Sound(reg)
    /\ \A w \in Whos(reg) : w[2] # 0 => Issued(w)
    /\ GoneIsGone

(* A snapshot is of a complete row of its session.                         *)
TrueFold(f) ==
    \A n \in DOMAIN f.closed :
        /\ f.closed[n].who[2] # 0
        /\ f.closed[n].hist \in DOMAIN reg.history
        /\ reg.history[f.closed[n].hist].who = f.closed[n].who

WsOk ==
    /\ ws \in [tabs: SUBSET Name, pinned: SUBSET Name, fold: Fold \cup {None},
               rest: Nat, at: Nat, rev: Nat]
    /\ ws.fold # None => ws.fold.roots \subseteq ws.tabs /\ TrueFold(ws.fold)

Member == [who: Identities, dead: BOOLEAN]

DialogOk ==
    dialog = None \/
    /\ dialog \in [mode: {"close", "delete"}, roots: SUBSET Name, at: Nat, rev: Nat,
                   id: Int, confirmed: Maps(Name, Member)]
    /\ DOMAIN dialog.confirmed = dialog.roots

RecreateOk == recreate = None \/ recreate \in [row: Nat, name: Name]

OwnOk ==
    \A o \in own : o.session.who[2] # 0 /\ KnownAs(reg, o.session.who, o.source)

EndedOk ==
    \A s \in ended :
        /\ s \in Session /\ s.who[2] # 0 /\ Issued(s.who)
        /\ ~Alive(s.who) /\ s.name \notin DOMAIN tmux
        /\ HasRow(reg, s)

(* An inventory that was listed before: nothing in the history lives that  *)
(* it does not show, and it shows nothing that was ended.                  *)
Fresher(S) ==
    /\ Inventory(S)
    /\ \A s \in S : Issued(s.who)
    /\ \A w \in Whos(reg) : w[2] # 0 /\ Alive(w) => \E s \in S : s.who = w
    /\ \A t \in ended : \A s \in S : Apart(s, t)

(* A handler that has archived: the fold is saved with a snapshot of each  *)
(* of its sessions, or was changed since by somebody else.                 *)
Saved ==
    Targets # {} =>
        /\ job.fold # None
        /\ \A s \in Targets : /\ s.name \in DOMAIN job.fold.closed
                              /\ job.fold.closed[s.name].who = s.who
        /\ (ws.fold = job.fold /\ ws.at = job.at + 1) \/ ws.at > job.at + 1

ArchiveOk ==
    /\ Fresher(job.live)
    /\ ws.at = job.at => Members \subseteq ws.tabs
    /\ job.failed = FALSE

EndingOk ==
    /\ Saved
    /\ job.todo \subseteq Targets
    /\ job.stage # "next" => job.now \in job.todo
    /\ \A s \in Targets : s.who[2] # 0 /\ Issued(s.who) /\ s.who \in Whos(reg)
    /\ \A s \in job.todo : HasRow(reg, s)
    /\ job.stage = "ended" => ~Alive(job.now.who)
    /\ ~job.failed => \A s \in Targets \ job.todo : ~Alive(s.who)

FoldRec ==
    [kind: {"close", "delete"},
     stage: {"archive", "next", "kill", "ended", "error"},
     confirmed: Maps(Name, Member), at: Nat, rev: Nat, id: Int,
     fold: Fold \cup {None}, live: SUBSET Session, todo: SUBSET Session,
     now: Session \cup {None}, failed: BOOLEAN]

FoldingOk ==
    /\ job \in FoldRec
    /\ dialog # None /\ dialog.at # 0
    /\ \A s \in Targets : job.confirmed[s.name].who = s.who
    /\ job.at <= ws.at
    /\ job.fold # None => TrueFold(job.fold)
    /\ Deleting => job.fold # None
    /\ IF job.stage = "archive" THEN ArchiveOk ELSE EndingOk

TerminateOk ==
    /\ job \in [kind: {"terminate"}, stage: {"kill", "ended", "error"}, now: Session]
    /\ job.now.who[2] # 0 /\ Issued(job.now.who) /\ job.now.who \in Whos(reg)
    /\ job.stage = "ended" => ~Alive(job.now.who)

(* The session that was made is new to the registry.                       *)
MakingOk ==
    /\ job \in [kind: {"recover", "recreate", "restore"},
                stage: {"check", "seen", "create", "record"}, name: Name,
                who: Identities, source: SUBSET Nat, row: Nat,
                snap: Snapshot \cup {None}, live: SUBSET Session]
    /\ job.kind = "recover" => /\ job.row = 0 /\ job.snap \in Snapshot
                               /\ job.source = {job.snap.hist}
    /\ job.stage = "seen" => Fresher(job.live)
    /\ job.stage = "record" =>
          /\ job.who[2] # 0 /\ Issued(job.who) /\ job.who \notin Whos(reg)
          /\ \A t \in ended : t.name # job.name

SampleOk ==
    /\ job \in [kind: {"sample"}, stage: {"sampled"}, live: SUBSET Session]
    /\ Fresher(job.live)

JobOk == job = None \/ FoldingOk \/ TerminateOk \/ MakingOk \/ SampleOk

IInv ==
    /\ TmuxOk /\ RegOk /\ WsOk /\ DialogOk /\ RecreateOk
    /\ OwnOk /\ EndedOk /\ JobOk

----------------------------------------------------------------------------
(* What happens in tmux: nothing that was dead lives again.                *)
WorldForward ==
    /\ TmuxOk'
    /\ \A w : Issued(w) => Issued(w)'
    /\ \A w : Issued(w) /\ Alive(w)' => Alive(w)

LEMMA Giving ==
    ASSUME TmuxOk, NEW name \in Name, Given(name), NEW w, w = Identity
    PROVE  /\ WorldForward
           /\ w \in Identities /\ w[2] # 0 /\ Issued(w)' /\ ~Issued(w)
           /\ \A s \in ended' : s \in ended /\ s.name # name
           /\ DOMAIN tmux' = DOMAIN tmux \cup {name}
<1>1. /\ server \in [life: Nat, last: Nat] /\ server.life >= 1
      /\ Fresh \in [life: Nat, last: Nat] /\ Fresh.life >= 1
      /\ (DOMAIN tmux = {} /\ Fresh.life = server.life + 1 /\ Fresh.last = 1)
            \/ (DOMAIN tmux # {} /\ Fresh.life = server.life /\ Fresh.last = server.last + 1)
  <2>1. server \in [life: Nat, last: Nat] /\ server.life >= 1
    BY DEF TmuxOk
  <2>2. CASE DOMAIN tmux = {}
    <3>1. Fresh = [life |-> server.life + 1, last |-> 1]
      BY <2>2 DEF Fresh
    <3> QED BY <2>1, <2>2, <3>1
  <2>3. CASE DOMAIN tmux # {}
    <3>1. Fresh = [server EXCEPT !.last = server.last + 1]
      BY <2>3 DEF Fresh
    <3> QED BY <2>1, <2>3, <3>1
  <2> QED BY <2>2, <2>3
<1> HIDE DEF Fresh
<1>2. /\ server' = Fresh /\ name \notin DOMAIN tmux
      /\ w \in Identities /\ w[1] = Fresh.last /\ w[2] = Fresh.life
      /\ tmux' = With(tmux, name, [who |-> w, running |-> TRUE])
  BY <1>1 DEF Given, Identity, Identities
<1>3. /\ DOMAIN tmux' = DOMAIN tmux \cup {name} /\ tmux' = [n \in DOMAIN tmux' |-> tmux'[n]]
      /\ tmux'[name] = [who |-> w, running |-> TRUE]
      /\ tmux'[name].who = w /\ tmux'[name] \in [who: Identities, running: BOOLEAN]
      /\ \A n \in DOMAIN tmux : n # name /\ tmux'[n] = tmux[n]
  BY <1>2 DEF With
<1>4. \A v : Issued(v) => Issued(v)'
  <2> SUFFICES ASSUME NEW v, Issued(v) PROVE Issued(v)'
    OBVIOUS
  <2>1. v \in Identities /\ v[1] \in Nat /\ v[2] \in Nat
    BY DEF Issued, Identities
  <2> QED BY <2>1, <1>1, <1>2 DEF Issued
<1>5. Issued(w)' /\ ~Issued(w) /\ w[2] # 0
  BY <1>1, <1>2 DEF Issued
<1>6. \A v : Issued(v) /\ Alive(v)' => Alive(v)
  <2> SUFFICES ASSUME NEW v, Issued(v), NEW n \in DOMAIN tmux', tmux'[n].who = v
               PROVE  \E m \in DOMAIN tmux : tmux[m].who = v
    BY DEF Alive
  <2>1. n # name
    BY <1>3, <1>5
  <2> QED BY <2>1, <1>3
<1>7. \A n \in DOMAIN tmux : tmux[n].who # w /\ tmux[n] \in [who: Identities, running: BOOLEAN]
  <2> SUFFICES ASSUME NEW n \in DOMAIN tmux
               PROVE  tmux[n].who # w /\ tmux[n] \in [who: Identities, running: BOOLEAN]
    OBVIOUS
  <2>1. tmux[n] \in [who: Identities, running: BOOLEAN]
    BY DEF TmuxOk
  <2>2. tmux[n].who[1] \in Nat /\ tmux[n].who[1] <= server.last /\ DOMAIN tmux # {}
    BY <2>1 DEF TmuxOk, Identities
  <2> QED BY <2>1, <2>2, <1>1, <1>2
<1>8. TmuxOk'
  <2>1. tmux' \in [DOMAIN tmux' -> [who: Identities, running: BOOLEAN]]
    BY <1>2, <1>3, <1>7
  <2>2. \A n, m \in DOMAIN tmux' : tmux'[n].who = tmux'[m].who => n = m
    BY <1>3, <1>7 DEF TmuxOk
  <2>3. \A n \in DOMAIN tmux' : tmux'[n].who[2] = server'.life /\ tmux'[n].who[1] <= server'.last
    <3> SUFFICES ASSUME NEW n \in DOMAIN tmux'
                 PROVE  tmux'[n].who[2] = server'.life /\ tmux'[n].who[1] <= server'.last
      OBVIOUS
    <3>1. CASE n = name
      BY <3>1, <1>1, <1>2, <1>3
    <3>2. CASE n # name
      <4>1. n \in DOMAIN tmux /\ tmux'[n] = tmux[n] /\ tmux[n].who \in Identities
        BY <3>2, <1>3, <1>7
      <4>2. tmux[n].who[1] \in Nat /\ tmux[n].who[2] = server.life /\ tmux[n].who[1] <= server.last
        BY <4>1 DEF TmuxOk, Identities
      <4> QED BY <4>1, <4>2, <1>1, <1>2
    <3> QED BY <3>1, <3>2
  <2>4. DOMAIN tmux' \subseteq Name
    BY <1>3 DEF TmuxOk
  <2> QED BY <2>1, <2>2, <2>3, <2>4, <1>1, <1>2 DEF TmuxOk
<1>9. \A s \in ended' : s \in ended /\ s.name # name
  BY DEF Given
<1> QED BY <1>2, <1>3, <1>4, <1>5, <1>6, <1>8, <1>9 DEF WorldForward

LEMMA Leaving ==
    ASSUME TmuxOk, NEW S, tmux' = Without(S), server' = server
    PROVE  /\ WorldForward
           /\ DOMAIN tmux' = DOMAIN tmux \ S
           /\ \A n \in DOMAIN tmux' : tmux'[n] = tmux[n]
<1>1. /\ DOMAIN tmux' = DOMAIN tmux \ S /\ tmux' = [n \in DOMAIN tmux \ S |-> tmux[n]]
      /\ \A n \in DOMAIN tmux' : tmux'[n] = tmux[n]
  BY DEF Without, Restrict
<1>2. TmuxOk'
  <2>1. tmux' \in [DOMAIN tmux' -> [who: Identities, running: BOOLEAN]]
    BY <1>1 DEF TmuxOk
  <2> QED BY <2>1, <1>1 DEF TmuxOk
<1>3. \A w : Issued(w) => Issued(w)'
  BY DEF Issued
<1>4. \A w : Alive(w)' => Alive(w)
  BY <1>1 DEF Alive
<1> QED BY <1>1, <1>2, <1>3, <1>4 DEF WorldForward

LEMMA OtherWorlds ==
    ASSUME TmuxOk,
           \/ UNCHANGED world
           \/ NativeEnd \/ NativeRename \/ PaneChanges \/ HostRestart
    PROVE  WorldForward /\ \A s \in ended : s.name \in DOMAIN tmux' => s.name \in DOMAIN tmux \/ s \notin ended'
<1>1. CASE UNCHANGED world
  <2>1. TmuxOk' /\ \A w : (Issued(w) => Issued(w)') /\ (Alive(w)' => Alive(w))
    BY <1>1 DEF world, TmuxOk, Issued, Alive
  <2> QED BY <2>1, <1>1 DEF WorldForward, world
<1>2. CASE NativeEnd
  <2>1. PICK n \in DOMAIN tmux : tmux' = Without({n})
    BY <1>2 DEF NativeEnd
  <2>2. server' = server
    BY <1>2 DEF NativeEnd
  <2> QED BY <2>1, <2>2, Leaving
<1>3. CASE NativeRename
  <2>1. PICK n \in DOMAIN tmux, m \in Name \ DOMAIN tmux :
           tmux' = With(Without({n}), m, tmux[n]) /\ ended' = {s \in ended : s.name # m}
    BY <1>3 DEF NativeRename
  <2>2. server' = server
    BY <1>3 DEF NativeRename
  <2>3. /\ DOMAIN tmux' = (DOMAIN tmux \ {n}) \cup {m} /\ tmux' = [k \in DOMAIN tmux' |-> tmux'[k]]
        /\ \A k \in DOMAIN tmux' : tmux'[k] = IF k = m THEN tmux[n] ELSE tmux[k]
    BY <2>1 DEF With, Without, Restrict
  <2>4. TmuxOk'
    <3>1. tmux' \in [DOMAIN tmux' -> [who: Identities, running: BOOLEAN]]
      BY <2>3 DEF TmuxOk
    <3> QED BY <3>1, <2>2, <2>3 DEF TmuxOk
  <2>5. \A w : Issued(w) => Issued(w)'
    BY <2>2 DEF Issued
  <2>6. \A w : Alive(w)' => Alive(w)
    BY <2>3 DEF Alive
  <2> QED BY <2>1, <2>3, <2>4, <2>5, <2>6 DEF WorldForward
<1>4. CASE PaneChanges
  <2>1. PICK n \in DOMAIN tmux : tmux' = [tmux EXCEPT ![n].running = ~@]
    BY <1>4 DEF PaneChanges
  <2>2. server' = server
    BY <1>4 DEF PaneChanges
  <2>3. tmux[n] \in [who: Identities, running: BOOLEAN]
    BY DEF TmuxOk
  <2>4. /\ DOMAIN tmux' = DOMAIN tmux /\ tmux' = [k \in DOMAIN tmux' |-> tmux'[k]]
        /\ \A k \in DOMAIN tmux' : /\ tmux'[k].who = tmux[k].who
                                   /\ tmux'[k] \in [who: Identities, running: BOOLEAN]
    BY <2>1, <2>3 DEF TmuxOk
  <2>5. TmuxOk'
    BY <2>2, <2>4 DEF TmuxOk
  <2>6. \A w : Issued(w) => Issued(w)'
    BY <2>2 DEF Issued
  <2>7. \A w : Alive(w)' => Alive(w)
    BY <2>4 DEF Alive
  <2> QED BY <2>4, <2>5, <2>6, <2>7 DEF WorldForward
<1>5. CASE HostRestart
  <2>1. tmux' = <<>> /\ server' = server
    BY <1>5 DEF HostRestart
  <2>2. DOMAIN tmux' = {}
    BY <2>1
  <2>3. TmuxOk'
    BY <2>1, <2>2 DEF TmuxOk
  <2>4. \A w : Issued(w) => Issued(w)'
    BY <2>1 DEF Issued
  <2>5. \A w : ~Alive(w)'
    BY <2>2 DEF Alive
  <2> QED BY <2>2, <2>3, <2>4, <2>5 DEF WorldForward
<1> QED BY <1>1, <1>2, <1>3, <1>4, <1>5

LEMMA RegistryWorld ==
    ASSUME RegOk, OwnOk, WorldForward, UNCHANGED <<reg, own>>
    PROVE  RegOk' /\ OwnOk'
<1>1. Sound(reg)' /\ \A w \in Whos(reg)' : w[2] # 0 => Issued(w) /\ Issued(w)'
  <2>1. Sound(reg) /\ \A w \in Whos(reg) : w[2] # 0 => Issued(w)
    BY DEF RegOk
  <2>2. reg' = reg
    OBVIOUS
  <2> QED BY <2>1, <2>2 DEF WorldForward, Whos
<1>2. GoneIsGone'
  <2> SUFFICES ASSUME NEW h \in DOMAIN reg.history,
                      reg.history[h].who[2] # 0, reg.history[h].state # "live"
               PROVE  ~Alive(reg.history[h].who)'
    BY DEF GoneIsGone
  <2>1. ~Alive(reg.history[h].who)
    BY DEF RegOk, GoneIsGone
  <2>2. Issued(reg.history[h].who)
    BY DEF RegOk, Whos
  <2> QED BY <2>1, <2>2 DEF WorldForward
<1>3. OwnOk'
  BY DEF OwnOk
<1> QED BY <1>1, <1>2, <1>3 DEF RegOk

LEMMA EndedWorld ==
    ASSUME EndedOk, WorldForward, reg' = reg,
           \A s \in ended' : s \in ended /\ s.name \notin DOMAIN tmux'
    PROVE  EndedOk'
<1> SUFFICES ASSUME NEW s \in ended'
             PROVE  /\ s \in Session /\ s.who[2] # 0 /\ Issued(s.who)'
                    /\ ~Alive(s.who)' /\ s.name \notin DOMAIN tmux'
                    /\ HasRow(reg, s)'
  BY DEF EndedOk
<1>1. /\ s \in Session /\ s.who[2] # 0 /\ Issued(s.who) /\ ~Alive(s.who) /\ HasRow(reg, s)
  BY DEF EndedOk
<1>2. Issued(s.who)' /\ ~Alive(s.who)'
  BY <1>1 DEF WorldForward
<1> QED BY <1>1, <1>2 DEF HasRow

LEMMA FresherKept ==
    ASSUME NEW S, Fresher(S), RegOk, WorldForward, reg' = reg, ended' \subseteq ended
    PROVE  Fresher(S)'
<1>1. \A s \in S : Issued(s.who)'
  BY DEF Fresher, WorldForward
<1>2. ASSUME NEW w \in Whos(reg)', w[2] # 0, Alive(w)' PROVE \E s \in S : s.who = w
  <2>1. w \in Whos(reg) /\ Issued(w)
    BY <1>2 DEF RegOk, Whos
  <2> QED BY <2>1, <1>2 DEF WorldForward, Fresher
<1>3. \A t \in ended' : \A s \in S : Apart(s, t)
  BY DEF Fresher
<1>4. Inventory(S)
  BY DEF Fresher
<1> QED BY <1>1, <1>2, <1>3, <1>4 DEF Fresher

(* A handler may rely on what it knows while others act.                   *)
LEMMA JobKept ==
    ASSUME RegOk, JobOk, WsOk, WsOk', WorldForward, reg' = reg, job' = job,
           FoldingOk => dialog' = dialog,
           ended' \subseteq ended, ws'.at >= ws.at,
           ws'.at = ws.at => ws.tabs \subseteq ws'.tabs /\ ws'.fold = ws.fold
    PROVE  JobOk'
<1>1. ws.at \in Nat /\ ws'.at \in Nat
  BY DEF WsOk
<1>2. ASSUME NEW w, Issued(w), ~Alive(w) PROVE Issued(w)' /\ ~Alive(w)'
  BY <1>2 DEF WorldForward
<1>3. CASE job = None
  BY <1>3 DEF JobOk
<1>4. CASE FoldingOk
  <2>1. /\ job \in FoldRec
        /\ dialog # None /\ dialog.at # 0
        /\ \A s \in Targets : job.confirmed[s.name].who = s.who
        /\ job.at <= ws.at
        /\ job.fold # None => TrueFold(job.fold)
        /\ Deleting => job.fold # None
    BY <1>4 DEF FoldingOk, FoldRec
  <2>2. Targets' = Targets /\ Members' = Members /\ Deleting' = Deleting
    BY DEF Targets, Members, Deleting
  <2>3. job.at <= ws'.at /\ job.at \in Nat
    BY <2>1, <1>1 DEF FoldRec
  <2>4. job.fold # None => TrueFold(job.fold)'
    BY <2>1 DEF TrueFold
  <2>7. dialog' # None /\ dialog'.at # 0
    BY <1>4, <2>1
  <2>5. CASE job.stage = "archive"
    <3>1. ArchiveOk
      BY <1>4, <2>5 DEF FoldingOk, FoldRec
    <3>2. ArchiveOk'
      <4>1. Fresher(job.live)'
        BY <3>1, FresherKept DEF ArchiveOk
      <4>2. ws'.at = job.at => Members \subseteq ws'.tabs
        BY <3>1, <1>1, <2>1, <2>3 DEF ArchiveOk
      <4> QED BY <4>1, <4>2, <2>2, <3>1 DEF ArchiveOk
    <3>9. FoldingOk'
      BY <2>1, <2>2, <2>3, <2>4, <2>7, <2>5, <3>2 DEF FoldingOk, FoldRec
    <3> QED BY <3>9 DEF JobOk
  <2>6. CASE job.stage # "archive"
    <3>1. EndingOk
      BY <1>4, <2>6 DEF FoldingOk, FoldRec
    <3>2. Saved'
      <4>1. (ws.fold = job.fold /\ ws.at = job.at + 1) \/ ws.at > job.at + 1
               => (ws'.fold = job.fold /\ ws'.at = job.at + 1) \/ ws'.at > job.at + 1
        BY <1>1, <2>3
      <4> QED BY <4>1, <2>2, <3>1 DEF EndingOk, Saved
    <3>3. \A s \in Targets : s.who[2] # 0 /\ Issued(s.who) /\ s.who \in Whos(reg)
      BY <3>1 DEF EndingOk
    <3>4. \A s \in Targets : Issued(s.who)' /\ s.who \in Whos(reg)'
      BY <3>3 DEF WorldForward, Whos
    <3>5. job.stage = "ended" => ~Alive(job.now.who)'
      BY <1>2, <3>1, <3>3, <2>6 DEF EndingOk
    <3>6. ~job.failed => \A s \in Targets \ job.todo : ~Alive(s.who)'
      BY <1>2, <3>1, <3>3 DEF EndingOk
    <3>7. \A s \in job.todo : HasRow(reg, s)'
      BY <3>1 DEF EndingOk, HasRow
    <3>8. EndingOk'
      BY <2>2, <3>1, <3>2, <3>3, <3>4, <3>5, <3>6, <3>7 DEF EndingOk
    <3>9. FoldingOk'
      BY <2>1, <2>2, <2>3, <2>4, <2>7, <2>6, <3>8 DEF FoldingOk, FoldRec
    <3> QED BY <3>9 DEF JobOk
  <2> QED BY <2>5, <2>6
<1>5. CASE TerminateOk
  <2>1. Issued(job.now.who)' /\ (job.stage = "ended" => ~Alive(job.now.who)')
    BY <1>2, <1>5 DEF TerminateOk, WorldForward
  <2>2. job.now.who \in Whos(reg)'
    BY <1>5 DEF TerminateOk, Whos
  <2> QED BY <1>5, <2>1, <2>2 DEF JobOk, TerminateOk
<1>6. CASE MakingOk
  <2>1. job.stage = "seen" => Fresher(job.live)'
    BY <1>6, FresherKept DEF MakingOk
  <2>2. job.stage = "record" => /\ job.who[2] # 0 /\ Issued(job.who)'
                                /\ job.who \notin Whos(reg)'
                                /\ \A t \in ended' : t.name # job.name
    BY <1>6 DEF MakingOk, WorldForward, Whos
  <2> QED BY <1>6, <2>1, <2>2 DEF JobOk, MakingOk
<1>7. CASE SampleOk
  <2>1. Fresher(job.live)'
    BY <1>7, FresherKept DEF SampleOk
  <2> QED BY <1>7, <2>1 DEF JobOk, SampleOk
<1> QED BY <1>3, <1>4, <1>5, <1>6, <1>7 DEF JobOk

LEMMA WorldActions ==
    ASSUME IInv,
           \/ NativeNew \/ NativeEnd \/ NativeRename \/ PaneChanges \/ HostRestart
           \/ UNCHANGED vars
    PROVE  IInv'
<1> USE DEF IInv
<1>1. UNCHANGED <<reg, ws, dialog, recreate, job, own>>
  BY DEF vars, world, NativeNew, NativeEnd, NativeRename, PaneChanges, HostRestart, Users
<1>2. WorldForward /\ \A s \in ended' : s \in ended /\ s.name \notin DOMAIN tmux'
  <2>1. CASE NativeNew
    <3>1. PICK n \in Name : Given(n)
      BY <2>1 DEF NativeNew
    <3>2. /\ WorldForward /\ DOMAIN tmux' = DOMAIN tmux \cup {n}
          /\ \A s \in ended' : s \in ended /\ s.name # n
      BY <3>1, Giving
    <3> QED BY <3>2 DEF EndedOk
  <2>2. CASE ~NativeNew
    <3>1. ended' \subseteq ended
      BY <2>2 DEF vars, NativeEnd, NativeRename, PaneChanges, HostRestart
    <3>2. UNCHANGED world \/ NativeEnd \/ NativeRename \/ PaneChanges \/ HostRestart
      BY <2>2 DEF vars
    <3> QED BY <3>1, <3>2, OtherWorlds DEF EndedOk
  <2> QED BY <2>1, <2>2
<1>3. WsOk' /\ DialogOk' /\ RecreateOk'
  BY <1>1 DEF WsOk, TrueFold, DialogOk, RecreateOk
<1>4. TmuxOk' /\ RegOk' /\ OwnOk'
  BY <1>1, <1>2, RegistryWorld DEF WorldForward
<1>5. EndedOk'
  BY <1>1, <1>2, EndedWorld
<1>6. JobOk'
  <2>1. ws.at \in Nat
    BY DEF WsOk
  <2> QED BY <2>1, <1>1, <1>2, <1>3, JobKept
<1> QED BY <1>3, <1>4, <1>5, <1>6

(* Pages edit the workspace, and each edit but a pin changes its version.  *)
LEMMA FoldIs ==
    Fold = [id: Int, roots: SUBSET Name, closed: Maps(Name, Snapshot)]
  BY DEF Fold, Maps

LEMMA PageActions ==
    ASSUME IInv, Unfold \/ Refold \/ CloseTab \/ OpenTab \/ OtherEdit \/ Pin
    PROVE  IInv'
<1> USE DEF IInv
<1>1. UNCHANGED <<tmux, server, reg, dialog, recreate, job, ended, own>>
  BY DEF Unfold, Refold, CloseTab, OpenTab, OtherEdit, Pin, Pages, world
<1>2. /\ ws \in [tabs: SUBSET Name, pinned: SUBSET Name, fold: Fold \cup {None},
                 rest: Nat, at: Nat, rev: Nat]
      /\ ws.fold # None => ws.fold.roots \subseteq ws.tabs /\ TrueFold(ws.fold)
  BY DEF WsOk
<1>3. /\ ws' \in [tabs: SUBSET Name, pinned: SUBSET Name, fold: Fold \cup {None},
                  rest: Nat, at: Nat, rev: Nat]
      /\ ws'.fold # None => ws'.fold.roots \subseteq ws'.tabs /\ TrueFold(ws'.fold)
      /\ ws'.at >= ws.at
      /\ ws'.at = ws.at => ws.tabs \subseteq ws'.tabs /\ ws'.fold = ws.fold
  <2>1. CASE Unfold
    <3>1. ws' = [[ws EXCEPT !.fold = None] EXCEPT !.at = ws.at + 1]
      BY <2>1 DEF Unfold, Edited
    <3>2. ws' = [tabs |-> ws.tabs, pinned |-> ws.pinned, fold |-> None, rest |-> ws.rest,
                 at |-> ws.at + 1, rev |-> ws.rev]
      BY <1>2, <3>1
    <3> QED BY <1>2, <3>2
  <2>2. CASE Refold
    <3>1. PICK roots \in SUBSET ws.tabs :
             Edited([ws EXCEPT !.fold = [id |-> ws.at + 1, roots |-> roots, closed |-> <<>>]])
      BY <2>2 DEF Refold
    <3> DEFINE f == [id |-> ws.at + 1, roots |-> roots, closed |-> <<>>]
    <3>2. ws' = [[ws EXCEPT !.fold = f] EXCEPT !.at = ws.at + 1]
      BY <3>1 DEF Edited
    <3>3. f \in Fold
      <4>1. DOMAIN <<>> = {} /\ <<>> \in [{} -> Snapshot]
        OBVIOUS
      <4>2. <<>> \in Maps(Name, Snapshot)
        BY <4>1, MapsAre
      <4> QED BY <4>2, <1>2, FoldIs
    <3>4. f.roots \subseteq ws.tabs /\ TrueFold(f)
      BY DEF TrueFold
    <3> HIDE DEF f
    <3>5. ws' = [tabs |-> ws.tabs, pinned |-> ws.pinned, fold |-> f, rest |-> ws.rest,
                 at |-> ws.at + 1, rev |-> ws.rev]
      BY <1>2, <3>2
    <3> QED BY <1>2, <3>3, <3>4, <3>5
  <2>3. CASE CloseTab
    <3>1. PICK n \in ws.tabs \ ws.pinned :
             LET left == [ws EXCEPT !.tabs = @ \ {n}]
                 fold == [ws.fold EXCEPT !.roots = @ \ {n},
                                         !.closed = Restrict(@, DOMAIN @ \ {n})]
                 few == Cardinality(fold.roots) < IF DOMAIN fold.closed = {} THEN 2 ELSE 1
             IN  Edited(IF ws.fold = None THEN left
                        ELSE [left EXCEPT !.fold = IF few THEN None ELSE fold])
      BY <2>3 DEF CloseTab
    <3> DEFINE left == [ws EXCEPT !.tabs = @ \ {n}]
               f == [ws.fold EXCEPT !.roots = @ \ {n}, !.closed = Restrict(@, DOMAIN @ \ {n})]
               few == Cardinality(f.roots) < IF DOMAIN f.closed = {} THEN 2 ELSE 1
               g == IF few THEN None ELSE f
    <3>2. ws' = [(IF ws.fold = None THEN left ELSE [left EXCEPT !.fold = g]) EXCEPT !.at = ws.at + 1]
      BY <3>1 DEF Edited
    <3>3. ws.fold # None => /\ f \in Fold /\ f.roots = ws.fold.roots \ {n}
                            /\ f.closed = Restrict(ws.fold.closed, DOMAIN ws.fold.closed \ {n})
      <4> SUFFICES ASSUME ws.fold # None
                   PROVE  /\ f \in Fold /\ f.roots = ws.fold.roots \ {n}
                          /\ f.closed = Restrict(ws.fold.closed, DOMAIN ws.fold.closed \ {n})
        OBVIOUS
      <4> DEFINE c == Restrict(ws.fold.closed, DOMAIN ws.fold.closed \ {n})
      <4>1. ws.fold \in [id: Int, roots: SUBSET Name, closed: Maps(Name, Snapshot)]
        BY <1>2, FoldIs
      <4>2. ws.fold.closed \in [DOMAIN ws.fold.closed -> Snapshot] /\ DOMAIN ws.fold.closed \subseteq Name
        BY <4>1, MapsAre
      <4>3. c \in [DOMAIN c -> Snapshot] /\ DOMAIN c \subseteq Name
        BY <4>2 DEF Restrict
      <4>4. c \in Maps(Name, Snapshot)
        BY <4>3, MapsAre
      <4> HIDE DEF c
      <4>5. f \in Fold /\ f.roots = ws.fold.roots \ {n} /\ f.closed = c
        <5> DEFINE Folds == [id: Int, roots: SUBSET Name, closed: Maps(Name, Snapshot)]
        <5>1. PICK o \in Folds : o = ws.fold
          BY <4>1
        <5>2. PICK e \in Maps(Name, Snapshot) : e = c
          BY <4>4
        <5>3. f = [o EXCEPT !.roots = o.roots \ {n}, !.closed = e]
          BY <5>1, <5>2 DEF c
        <5> HIDE DEF f
        <5>4. f \in Folds /\ f.roots = ws.fold.roots \ {n} /\ f.closed = c
          BY <5>1, <5>2, <5>3
        <5> QED BY <5>4, FoldIs DEF Folds
      <4> QED BY <4>5 DEF c
    <3>4. ws.fold # None => f.roots \subseteq ws.tabs \ {n} /\ TrueFold(f)
      BY <1>2, <3>3 DEF TrueFold, Restrict
    <3> HIDE DEF f, few
    <3>5. \E fold \in Fold \cup {None} :
             /\ fold # None => fold.roots \subseteq ws.tabs \ {n} /\ TrueFold(fold)
             /\ ws' = [tabs |-> ws.tabs \ {n}, pinned |-> ws.pinned, fold |-> fold,
                       rest |-> ws.rest, at |-> ws.at + 1, rev |-> ws.rev]
      <4>1. left = [tabs |-> ws.tabs \ {n}, pinned |-> ws.pinned, fold |-> ws.fold,
                    rest |-> ws.rest, at |-> ws.at, rev |-> ws.rev]
        BY <1>2
      <4> HIDE DEF left
      <4>2. CASE ws.fold = None
        <5>1. ws' = [left EXCEPT !.at = ws.at + 1]
          BY <3>2, <4>2
        <5> QED BY <5>1, <4>1, <4>2
      <4>3. CASE ws.fold # None
        <5>1. ws' = [[left EXCEPT !.fold = g] EXCEPT !.at = ws.at + 1]
          BY <3>2, <4>3
        <5>2. g \in Fold \cup {None} /\ (g # None => g.roots \subseteq ws.tabs \ {n} /\ TrueFold(g))
          BY <3>3, <3>4, <4>3
        <5> HIDE DEF g
        <5> QED BY <5>1, <5>2, <4>1
      <4> QED BY <4>2, <4>3
    <3> QED BY <3>5, <1>2
  <2>4. CASE OpenTab
    <3>1. PICK n \in Name : ws' = [[ws EXCEPT !.tabs = @ \cup {n}] EXCEPT !.at = ws.at + 1]
      BY <2>4 DEF OpenTab, Edited
    <3>2. ws' = [tabs |-> ws.tabs \cup {n}, pinned |-> ws.pinned, fold |-> ws.fold, rest |-> ws.rest,
                 at |-> ws.at + 1, rev |-> ws.rev]
      BY <1>2, <3>1
    <3> QED BY <1>2, <3>2
  <2>5. CASE OtherEdit
    <3>1. ws' = [[ws EXCEPT !.rest = @ + 1] EXCEPT !.at = ws.at + 1]
      BY <2>5 DEF OtherEdit, Edited
    <3>2. ws' = [tabs |-> ws.tabs, pinned |-> ws.pinned, fold |-> ws.fold, rest |-> ws.rest + 1,
                 at |-> ws.at + 1, rev |-> ws.rev]
      BY <1>2, <3>1
    <3> QED BY <1>2, <3>2
  <2>6. CASE Pin
    <3>1. PICK n \in Name :
             ws' = [ws EXCEPT !.tabs = @ \cup {n}, !.pinned = @ \cup {n}, !.rev = @ + 1,
                              !.at = IF n \in ws.tabs THEN @ ELSE @ + 1]
      BY <2>6 DEF Pin
    <3>2. ws' = [tabs |-> ws.tabs \cup {n}, pinned |-> ws.pinned \cup {n}, fold |-> ws.fold,
                 rest |-> ws.rest, at |-> IF n \in ws.tabs THEN ws.at ELSE ws.at + 1,
                 rev |-> ws.rev + 1]
      BY <1>2, <3>1
    <3> QED BY <1>2, <3>2
  <2> QED BY <2>1, <2>2, <2>3, <2>4, <2>5, <2>6
<1>4. WsOk'
  BY <1>1, <1>3 DEF WsOk, TrueFold
<1>5. WorldForward
  BY <1>1, OtherWorlds DEF world
<1>6. DialogOk' /\ RecreateOk' /\ TmuxOk'
  BY <1>1, <1>5 DEF DialogOk, RecreateOk, WorldForward
<1>7. RegOk' /\ OwnOk'
  BY <1>1, <1>5, RegistryWorld
<1>8. EndedOk'
  <2>1. \A s \in ended' : s \in ended /\ s.name \notin DOMAIN tmux'
    BY <1>1 DEF EndedOk
  <2> QED BY <2>1, <1>1, <1>5, EndedWorld
<1>9. JobOk'
  BY <1>1, <1>3, <1>4, <1>5, JobKept
<1> QED BY <1>4, <1>6, <1>7, <1>8, <1>9

----------------------------------------------------------------------------
(* Transactions of the registry.                                           *)
LEMMA HistoriesStay ==
    ASSUME Grows(reg, reg')
    PROVE  /\ OwnOk /\ own' = own => OwnOk'
           /\ \A f : TrueFold(f) => TrueFold(f)'
           /\ \A w \in Whos(reg) : w[2] # 0 => w \in Whos(reg)'
<1>1. ASSUME OwnOk, own' = own PROVE OwnOk'
  BY <1>1 DEF OwnOk, KnownAs, Grows
<1>2. \A f : TrueFold(f) => TrueFold(f)'
  BY DEF TrueFold, Grows
<1>3. \A w \in Whos(reg) : w[2] # 0 => w \in Whos(reg)'
  BY KnownStays DEF Whos
<1> QED BY <1>1, <1>2, <1>3

LEMMA EndedRows ==
    ASSUME EndedOk, UNCHANGED world,
           \A s \in ended' : s \in ended /\ (HasRow(reg, s) => HasRow(reg', s))
    PROVE  EndedOk'
<1> SUFFICES ASSUME NEW s \in ended'
             PROVE  /\ s \in Session /\ s.who[2] # 0 /\ Issued(s.who)'
                    /\ ~Alive(s.who)' /\ s.name \notin DOMAIN tmux'
                    /\ HasRow(reg, s)'
  BY DEF EndedOk
<1>1. /\ s \in Session /\ s.who[2] # 0 /\ Issued(s.who) /\ ~Alive(s.who)
      /\ s.name \notin DOMAIN tmux /\ HasRow(reg, s)
  BY DEF EndedOk
<1>2. HasRow(reg', s)
  BY <1>1
<1> QED BY <1>1, <1>2 DEF HasRow, Issued, Alive, world

(* An inventory is recorded while others act in tmux.                      *)
LEMMA Sampling ==
    ASSUME TmuxOk, RegOk, EndedOk, NEW S, Fresher(S), UNCHANGED <<world, ended>>,
           reg' \in {reg, Reconciled(reg, S), Inventoried(reg, S, FALSE)}
    PROVE  /\ RegOk' /\ EndedOk' /\ Grows(reg, reg')
           /\ reg' = Reconciled(reg, S) => \A s \in S : s.who \in Whos(reg') /\ HasRow(reg', s)
<1>1. Inventory(S) /\ Sound(reg)
  BY DEF Fresher, RegOk
<1>2. CASE reg' = reg
  <2>1. RegOk'
    BY <1>2 DEF RegOk, Whos, GoneIsGone, Issued, Alive, world
  <2>2. Grows(reg, reg')
    BY <1>2 DEF Grows
  <2>3. EndedOk'
    BY <1>2, EndedRows
  <2>4. reg' = Reconciled(reg, S) => \A s \in S : s.who \in Whos(reg') /\ HasRow(reg', s)
    BY <1>1, Reconciling
  <2> QED BY <2>1, <2>2, <2>3, <2>4
<1>3. CASE reg' \in {Reconciled(reg, S), Inventoried(reg, S, FALSE)}
  <2>1. /\ Sound(reg') /\ Grows(reg, reg') /\ Gone(reg, reg', S)
        /\ Whos(reg') \subseteq Whos(reg) \cup {s.who : s \in S}
        /\ \A t \in Session : HasRow(reg, t) /\ (\A s \in S : Apart(s, t)) => HasRow(reg', t)
        /\ reg' = Reconciled(reg, S) => \A s \in S : s.who \in Whos(reg') /\ HasRow(reg', s)
    <3> DEFINE Facts(q) ==
                  /\ Sound(q) /\ Grows(reg, q) /\ Gone(reg, q, S)
                  /\ Whos(q) \subseteq Whos(reg) \cup {s.who : s \in S}
                  /\ \A t \in Session : HasRow(reg, t) /\ (\A s \in S : Apart(s, t)) => HasRow(q, t)
               Seen(q) == \A s \in S : s.who \in Whos(q) /\ HasRow(q, s)
    <3>1. Facts(Reconciled(reg, S)) /\ Seen(Reconciled(reg, S))
      BY <1>1, Reconciling
    <3>2. Facts(Inventoried(reg, S, FALSE))
      BY <1>1, Monitoring
    <3> HIDE DEF Facts, Seen
    <3>3. Facts(reg') /\ (reg' = Reconciled(reg, S) => Seen(reg'))
      BY <1>3, <3>1, <3>2
    <3> QED BY <3>3 DEF Facts, Seen
  <2>2. \A w \in Whos(reg') : w[2] # 0 => Issued(w)
    BY <2>1 DEF RegOk, Fresher
  <2>3. GoneIsGone'
    <3> SUFFICES ASSUME NEW h \in DOMAIN reg'.history,
                        reg'.history[h].who[2] # 0, reg'.history[h].state # "live",
                        Alive(reg'.history[h].who)
                 PROVE  FALSE
      BY DEF GoneIsGone, Alive, world
    <3> DEFINE w == reg'.history[h].who
    <3>1. w \in Whos(reg')
      BY DEF Whos
    <3>2. \E s \in S : s.who = w
      BY <3>1, <2>1 DEF Fresher
    <3>3. h \in DOMAIN reg.history /\ reg.history[h].state # "live" /\ reg.history[h].who = w
      BY <2>1, <3>2 DEF Gone
    <3> QED BY <3>3 DEF RegOk, GoneIsGone
  <2>4. RegOk'
    BY <2>1, <2>2, <2>3 DEF RegOk, Whos, Issued, world
  <2>5. EndedOk'
    <3>1. \A t \in ended : t \in Session /\ \A s \in S : Apart(s, t)
      BY DEF EndedOk, Fresher
    <3> QED BY <2>1, <3>1, EndedRows
  <2> QED BY <2>1, <2>4, <2>5
<1> QED BY <1>2, <1>3

LEMMA LiveSessions ==
    ASSUME TmuxOk, IsFiniteSet(Name)
    PROVE  /\ Inventory(Live) /\ \A s \in Live : Issued(s.who) /\ s.name \in DOMAIN tmux
           /\ \A s \in Live : s.who = tmux[s.name].who
           /\ \A w : Alive(w) => \E s \in Live : s.who = w
<1>1. \A n \in DOMAIN tmux : n \in Name /\ tmux[n].who \in Identities
  BY DEF TmuxOk
<1>2. Live \subseteq Session /\ \A s \in Live : s.name \in DOMAIN tmux /\ s.who = tmux[s.name].who
  BY <1>1 DEF Live, Session
<1>3. IsFiniteSet(Live)
  <2>1. IsFiniteSet(DOMAIN tmux)
    BY FS_Subset DEF TmuxOk
  <2> DEFINE f == [n \in DOMAIN tmux |-> [name |-> n, who |-> tmux[n].who]]
  <2>2. f \in Surjection(DOMAIN tmux, Live)
    BY DEF Surjection, Live
  <2> QED BY <2>1, <2>2, FS_Surjection
<1>4. \A s, t \in Live : s # t => Apart(s, t)
  <2> SUFFICES ASSUME NEW s \in Live, NEW t \in Live, s.name = t.name \/ s.who = t.who
               PROVE  s = t
    BY DEF Apart
  <2>1. s.name = t.name
    BY <1>2 DEF TmuxOk
  <2> QED BY <2>1, <1>2 DEF Session
<1>5. \A s \in Live : s.who[2] # 0 /\ Issued(s.who)
  <2> SUFFICES ASSUME NEW n \in DOMAIN tmux
               PROVE  tmux[n].who[2] # 0 /\ Issued(tmux[n].who)
    BY <1>2
  <2>1. server.life \in Nat /\ server.life >= 1
    BY DEF TmuxOk
  <2> QED BY <2>1, <1>1 DEF TmuxOk, Issued
<1>6. \A w : Alive(w) => \E s \in Live : s.who = w
  <2> SUFFICES ASSUME NEW n \in DOMAIN tmux PROVE \E s \in Live : s.who = tmux[n].who
    BY DEF Alive
  <2>1. [name |-> n, who |-> tmux[n].who] \in Live
    BY DEF Live
  <2> QED BY <2>1
<1> QED BY <1>2, <1>3, <1>4, <1>5, <1>6 DEF Inventory

LEMMA Listing ==
    ASSUME TmuxOk, EndedOk, IsFiniteSet(Name)
    PROVE  Fresher(Live)
<1>1. \A t \in ended : \A s \in Live : Apart(s, t)
  <2> SUFFICES ASSUME NEW t \in ended, NEW s \in Live PROVE Apart(s, t)
    OBVIOUS
  <2>1. ~Alive(t.who) /\ t.name \notin DOMAIN tmux
    BY DEF EndedOk
  <2> QED BY <2>1, LiveSessions DEF Apart, Alive
<1> QED BY <1>1, LiveSessions DEF Fresher

(* What a step must show that leaves tmux alone.                           *)
LEMMA Framing ==
    ASSUME IInv, UNCHANGED world, Grows(reg, reg'), RegOk', EndedOk',
           own' = own \/ OwnOk', ws' = ws \/ WsOk',
           dialog' = dialog \/ DialogOk', recreate' = recreate \/ RecreateOk', JobOk'
    PROVE  IInv'
<1>1. TmuxOk'
  BY DEF IInv, TmuxOk, world
<1>2. OwnOk' /\ WsOk'
  BY HistoriesStay DEF IInv, WsOk
<1>3. DialogOk' /\ RecreateOk'
  BY DEF IInv, DialogOk, RecreateOk
<1> QED BY <1>1, <1>2, <1>3 DEF IInv

LEMMA Quiet ==
    ASSUME IInv, UNCHANGED <<world, reg, ended>>,
           own' = own \/ OwnOk', ws' = ws \/ WsOk',
           dialog' = dialog \/ DialogOk', recreate' = recreate \/ RecreateOk', JobOk'
    PROVE  IInv'
<1>1. Grows(reg, reg') /\ RegOk'
  BY DEF IInv, Grows, RegOk, Whos, GoneIsGone, Issued, Alive, world
<1>2. EndedOk'
  BY EndedRows DEF IInv
<1> QED BY <1>1, <1>2, Framing

(* Who has the lock is told by the stage.                                  *)
LEMMA Holders ==
    ASSUME JobOk, job # None
    PROVE  /\ job.kind \in {"close", "delete"} => FoldingOk
           /\ job.kind = "terminate" => TerminateOk
           /\ job.stage \in {"check", "seen", "create", "record"} => MakingOk
           /\ job.stage = "sampled" => SampleOk
           /\ job.stage = "kill" => FoldingOk \/ TerminateOk
  BY DEF JobOk, FoldingOk, FoldRec, TerminateOk, MakingOk, SampleOk

LEMMA SamplerActions ==
    ASSUME IInv, IsFiniteSet(Name), ListSampled \/ Sampled
    PROVE  IInv'
<1> USE DEF IInv
<1>1. CASE ListSampled
  <2>1. UNCHANGED <<world, reg, ws, dialog, recreate, ended, own>>
    BY <1>1 DEF ListSampled
  <2>2. job' = [kind |-> "sample", stage |-> "sampled", live |-> Live]
    BY <1>1 DEF ListSampled
  <2>3. Fresher(Live)
    BY Listing
  <2>4. Fresher(Live)'
    BY <2>1, <2>3 DEF Fresher, Live, world, Whos, Alive, Issued
  <2>5. JobOk'
    <3>1. Live \subseteq Session /\ Live' = Live
      BY <2>1, <2>3 DEF Fresher, Inventory, Live, world
    <3> QED BY <2>2, <2>4, <3>1 DEF JobOk, SampleOk
  <2> QED BY <2>1, <2>5, Quiet
<1>2. CASE Sampled
  <2>1. UNCHANGED <<world, ws, dialog, recreate, ended, own>> /\ job' = None
    BY <1>2 DEF Sampled
  <2>2. SampleOk
    BY <1>2, Holders DEF Sampled
  <2>3. RegOk' /\ EndedOk' /\ Grows(reg, reg')
    BY <1>2, <2>1, <2>2, Sampling DEF Sampled, SampleOk
  <2>4. JobOk'
    BY <2>1 DEF JobOk
  <2> QED BY <2>1, <2>3, <2>4, Framing
<1> QED BY <1>1, <1>2

LEMMA Undisturbed ==
    ASSUME IInv, UNCHANGED <<world, reg, ws, job, ended>>, FoldingOk => dialog' = dialog
    PROVE  JobOk'
<1>1. WorldForward
  BY OtherWorlds DEF IInv
<1>2. WsOk' /\ ws.at \in Nat
  BY DEF IInv, WsOk, TrueFold
<1> QED BY <1>1, <1>2, JobKept DEF IInv

LEMMA MakingJobs ==
    ASSUME NEW kind \in {"recover", "recreate", "restore"}, NEW stage \in {"check", "seen", "create"},
           NEW name \in Name, NEW who \in Identities, NEW source \in SUBSET Nat, NEW row \in Nat,
           NEW snap \in Snapshot \cup {None}, NEW live \in SUBSET Session,
           job' = [kind |-> kind, stage |-> stage, name |-> name, who |-> who,
                   source |-> source, row |-> row, snap |-> snap, live |-> live],
           kind = "recover" => row = 0 /\ snap \in Snapshot /\ source = {snap.hist},
           stage = "seen" => Fresher(live)'
    PROVE  JobOk'
  BY DEF JobOk, MakingOk

LEMMA BeginActions ==
    ASSUME IInv, IsFiniteSet(Name), BeginRecover \/ ReadRecovery \/ BeginRecreate \/ BeginRestore
    PROVE  IInv'
<1> USE DEF IInv
<1>1. Nobody \in Identities
  BY DEF Nobody, Identities
<1>2. CASE BeginRecover
  <2>1. UNCHANGED <<world, reg, ws, dialog, recreate, ended, own>>
    BY <1>2 DEF BeginRecover
  <2>2. PICK n \in DOMAIN Closed :
           job' = [Making("recover", "check", n, {Closed[n].hist}, 0) EXCEPT !.snap = Closed[n]]
    BY <1>2 DEF BeginRecover
  <2>3. ws.fold # None /\ Closed = ws.fold.closed /\ ws.fold \in Fold
    BY <2>2 DEF Closed, WsOk
  <2>4. n \in Name /\ Closed[n] \in Snapshot
    BY <2>2, <2>3, FoldIs, MapsAre
  <2> DEFINE snap == Closed[n]
  <2> HIDE DEF snap
  <2>5. job' = [kind |-> "recover", stage |-> "check", name |-> n, who |-> Nobody,
                source |-> {snap.hist}, row |-> 0, snap |-> snap, live |-> {}]
    BY <2>2 DEF Making, snap
  <2>6. snap \in Snapshot /\ {snap.hist} \in SUBSET Nat
    BY <2>4 DEF snap, Snapshot
  <2>7. JobOk'
    BY <1>1, <2>4, <2>5, <2>6, MakingJobs
  <2> QED BY <2>1, <2>7, Quiet
<1>3. CASE ReadRecovery
  <2>1. UNCHANGED <<world, reg, ws, dialog, job, ended, own>>
    BY <1>3 DEF ReadRecovery
  <2>2. PICK r \in DOMAIN reg.rows : recreate' = [row |-> r, name |-> reg.rows[r].name]
    BY <1>3 DEF ReadRecovery
  <2>3. r \in Nat /\ reg.rows[r] \in RecoveryRow
    BY <2>2, MapsAre DEF RegOk, Sound, Registry
  <2>4. RecreateOk'
    BY <2>2, <2>3 DEF RecreateOk, RecoveryRow
  <2>5. JobOk'
    BY <2>1, Undisturbed
  <2> QED BY <2>1, <2>4, <2>5, Quiet
<1>4. CASE BeginRecreate
  <2>1. UNCHANGED <<world, reg, ws, dialog, ended, own>> /\ recreate' = None
    BY <1>4 DEF BeginRecreate
  <2>2. RecreateOk'
    BY <2>1 DEF RecreateOk
  <2>3. recreate \in [row: Nat, name: Name]
    BY <1>4 DEF BeginRecreate, RecreateOk
  <2>4. job' = None \/ job' = [kind |-> "recreate", stage |-> "create", name |-> recreate.name,
                               who |-> Nobody, source |-> {}, row |-> recreate.row,
                               snap |-> None, live |-> {}]
    BY <1>4 DEF BeginRecreate, Making
  <2>5. JobOk'
    <3>1. CASE job' = None
      BY <3>1 DEF JobOk
    <3>2. CASE job' # None
      BY <3>2, <1>1, <2>3, <2>4, MakingJobs
    <3> QED BY <3>1, <3>2
  <2> QED BY <2>1, <2>2, <2>5, Quiet
<1>5. CASE BeginRestore
  <2>1. UNCHANGED <<world, reg, ws, dialog, recreate, ended, own>>
    BY <1>5 DEF BeginRestore
  <2>2. PICK h \in DOMAIN reg.history :
           job' = [Making("restore", "seen", reg.history[h].name, {h}, 0)
                      EXCEPT !.who = reg.history[h].who, !.live = Live]
    BY <1>5 DEF BeginRestore
  <2>3. h \in Nat /\ reg.history[h] \in HistoryRow
    BY <2>2 DEF RegOk, Sound, Registry
  <2> DEFINE row == reg.history[h]
             live == Live
  <2>4. row.name \in Name /\ row.who \in Identities
    BY <2>3 DEF HistoryRow
  <2>5. Fresher(live) /\ live \subseteq Session
    BY Listing DEF Fresher, Inventory
  <2>6. Fresher(live)'
    BY <2>1, <2>5 DEF Fresher, Live, world, Whos, Alive, Issued
  <2>7. live' = live
    BY <2>1 DEF Live, world
  <2> HIDE DEF row, live
  <2>8. job' = [kind |-> "restore", stage |-> "seen", name |-> row.name, who |-> row.who,
                source |-> {h}, row |-> 0, snap |-> None, live |-> live]
    BY <2>2 DEF Making, row, live
  <2>9. JobOk'
    BY <2>3, <2>4, <2>5, <2>6, <2>7, <2>8 DEF JobOk, MakingOk
  <2> QED BY <2>1, <2>9, Quiet
<1> QED BY <1>2, <1>3, <1>4, <1>5

LEMMA Reviving ==
    ASSUME RegOk, UNCHANGED world, Sound(reg'), OnlyRevived(reg, reg'),
           \A w \in Whos(reg') : w[2] # 0 => Issued(w)
    PROVE  RegOk'
<1>1. GoneIsGone'
  BY DEF RegOk, GoneIsGone, OnlyRevived, Alive, world
<1> QED BY <1>1 DEF RegOk, Whos, Issued, world

LEMMA MakingActions ==
    ASSUME IInv, CheckSnapshot \/ Restoring \/ Create
    PROVE  IInv'
<1> USE DEF IInv
<1>1. CASE CheckSnapshot
  <2>1. UNCHANGED <<world, reg, ws, dialog, recreate, ended, own>>
    BY <1>1 DEF CheckSnapshot
  <2>2. MakingOk /\ (job' = None \/ job' = [job EXCEPT !.stage = "create"])
    BY <1>1, Holders DEF CheckSnapshot
  <2>3. JobOk'
    BY <2>2 DEF JobOk, MakingOk
  <2> QED BY <2>1, <2>3, Quiet
<1>2. CASE Restoring
  <2>1. UNCHANGED <<world, ws, dialog, recreate, ended, own>>
    BY <1>2 DEF Restoring
  <2>2. MakingOk /\ job.stage = "seen" /\ (job' = None \/ job' = [job EXCEPT !.stage = "create"])
    BY <1>2, Holders DEF Restoring
  <2>3. JobOk'
    BY <2>2 DEF JobOk, MakingOk
  <2>4. reg' \in {reg, Reconciled(reg, job.live)} /\ Fresher(job.live)
    BY <1>2, <2>2 DEF Restoring, MakingOk
  <2>5. RegOk' /\ EndedOk' /\ Grows(reg, reg')
    BY <2>1, <2>4, Sampling
  <2> QED BY <2>1, <2>3, <2>5, Framing
<1>3. CASE Create
  <2>1. UNCHANGED <<reg, ws, dialog, recreate, own>>
    BY <1>3 DEF Create
  <2>2. MakingOk /\ job.name \in Name
    BY <1>3, Holders DEF Create, MakingOk
  <2>3. CASE Given(job.name)
    <3>1. PICK w : w = Identity
      OBVIOUS
    <3>2. /\ WorldForward /\ w \in Identities /\ w[2] # 0 /\ Issued(w)' /\ ~Issued(w)
          /\ \A s \in ended' : s \in ended /\ s.name # job.name
          /\ DOMAIN tmux' = DOMAIN tmux \cup {job.name}
      BY <2>2, <2>3, <3>1, Giving
    <3>3. TmuxOk' /\ RegOk' /\ OwnOk'
      BY <2>1, <3>2, RegistryWorld DEF WorldForward
    <3>4. EndedOk'
      <4>1. \A s \in ended' : s \in ended /\ s.name \notin DOMAIN tmux'
        BY <3>2 DEF EndedOk
      <4> QED BY <4>1, <2>1, <3>2, EndedWorld
    <3>5. WsOk' /\ DialogOk' /\ RecreateOk'
      BY <2>1 DEF WsOk, TrueFold, DialogOk, RecreateOk
    <3>6. w \notin Whos(reg')
      BY <2>1, <3>2 DEF RegOk
    <3>7. JobOk'
      <4>1. CASE job' = None
        BY <4>1 DEF JobOk
      <4>2. CASE job' = [job EXCEPT !.stage = "record", !.who = w]
        <5>1. w' = w /\ Whos(reg)' = Whos(reg')
          BY <4>2
        <5>2. MakingOk'
          BY <2>2, <3>2, <3>6, <4>2 DEF MakingOk, Whos
        <5> QED BY <5>2 DEF JobOk
      <4> QED BY <1>3, <3>1, <4>1, <4>2 DEF Create, Given
    <3> QED BY <3>3, <3>4, <3>5, <3>7
  <2>4. CASE ~Given(job.name)
    <3>1. UNCHANGED <<world, ended>> /\ job' = None
      BY <1>3, <2>4 DEF Create
    <3>2. JobOk'
      BY <3>1 DEF JobOk
    <3> QED BY <2>1, <3>1, <3>2, Quiet
  <2> QED BY <2>3, <2>4
<1> QED BY <1>1, <1>2, <1>3

LEMMA RecordAction ==
    ASSUME IInv, Record
    PROVE  IInv'
<1> USE DEF IInv
<1> DEFINE s == [name |-> job.name, who |-> job.who]
           recorded == Recorded(reg, s, job.row, job.source)
           Mine(t) == t.name # s.name /\ (job.row \in DOMAIN reg.rows => t.who # reg.rows[job.row].who)
           Facts(q) == /\ Sound(q) /\ Grows(reg, q) /\ OnlyRevived(reg, q)
                       /\ \A w \in Whos(q) : w[2] # 0 => Issued(w)
                       /\ \A t \in Session : HasRow(reg, t) /\ Mine(t) => HasRow(q, t)
<1>1. /\ UNCHANGED <<world, ws, dialog, recreate>> /\ job' = None
      /\ \/ /\ reg' = IF job.kind = "recover" THEN Observed(recorded, s) ELSE recorded
            /\ own' = IF job.kind = "recover" /\ Histories(reg, Partial(s)) = {}
                      THEN own \cup {[session |-> s, source |-> job.snap.hist]} ELSE own
         \/ own' = own /\ reg' \in {reg, recorded, Observed(recorded, s), Observed(reg, s)}
      /\ \A t \in ended' : t \in ended /\ (job.row \in DOMAIN reg.rows => t.who # reg.rows[job.row].who)
  BY DEF Record
<1>2. MakingOk /\ job.stage = "record"
  BY Holders DEF Record
<1>3. /\ s \in Session /\ s.who[2] # 0 /\ Issued(s.who) /\ s.who \notin Whos(reg)
      /\ job.row \in Nat /\ job.source \in SUBSET Nat
      /\ \A t \in ended : t.name # s.name
  BY <1>2 DEF MakingOk, Session
<1> HIDE DEF s
<1>4. Facts(recorded)
  <2>1. /\ Sound(recorded) /\ Grows(reg, recorded) /\ OnlyRevived(reg, recorded)
        /\ Whos(recorded) \subseteq Whos(reg) \cup {Partial(s).who}
        /\ \A t \in Session : HasRow(reg, t) /\ Mine(t) => HasRow(recorded, t)
    <3>1. Sound(reg)
      BY DEF RegOk
    <3>2. /\ Sound(recorded) /\ Grows(reg, recorded) /\ OnlyRevived(reg, recorded)
          /\ Whos(recorded) \subseteq Whos(reg) \cup {Partial(s).who}
          /\ RowsAfter(reg, s, job.row, recorded)
      BY <3>1, <1>3, Recording
    <3> HIDE DEF recorded
    <3> QED BY <3>2 DEF RowsAfter
  <2>2. Partial(s).who[2] = 0
    BY <1>3, PartialSessions
  <2> HIDE DEF recorded
  <2> QED BY <2>1, <2>2 DEF RegOk
<1> HIDE DEF recorded
<1>5. Facts(reg)
  BY DEF RegOk, Grows, OnlyRevived
<1>6. ASSUME NEW p, Facts(p) PROVE Facts(Observed(p, s))
  <2> DEFINE q == Observed(p, s)
  <2>1. /\ Sound(q) /\ Grows(p, q) /\ OnlyRevived(p, q) /\ q.rows = p.rows
        /\ Whos(q) \subseteq Whos(p) \cup {s.who}
    BY <1>3, <1>6, Observing
  <2> HIDE DEF q
  <2>2. Grows(reg, q)
    BY <1>6, <2>1, GrowsMore
  <2>3. OnlyRevived(reg, q)
    BY <1>6, <2>1 DEF OnlyRevived
  <2>4. \A w \in Whos(q) : w[2] # 0 => Issued(w)
    BY <1>3, <1>6, <2>1
  <2>5. \A t \in Session : HasRow(reg, t) /\ Mine(t) => HasRow(q, t)
    BY <1>6, <2>1 DEF HasRow
  <2> QED BY <2>1, <2>2, <2>3, <2>4, <2>5 DEF q
<1>7. Facts(reg')
  <2> HIDE DEF Facts
  <2> QED BY <1>1, <1>4, <1>5, <1>6
<1>8. RegOk'
  BY <1>1, <1>7, Reviving
<1>9. EndedOk'
  <2>1. \A t \in ended' : t \in ended /\ t \in Session /\ Mine(t)
    BY <1>1, <1>3 DEF EndedOk
  <2> HIDE DEF Mine
  <2> QED BY <2>1, <1>1, <1>7, EndedRows
<1>10. own' = own \/ OwnOk'
  <2>1. CASE own' # own
    <3>1. /\ job.kind = "recover" /\ Histories(reg, Partial(s)) = {}
          /\ reg' = Observed(recorded, s)
          /\ own' = own \cup {[session |-> s, source |-> job.snap.hist]}
      BY <1>1, <2>1
    <3> DEFINE k == job.snap.hist
    <3>2. job.row = 0 /\ job.source = {k} /\ k \in Nat
      BY <1>2, <3>1 DEF MakingOk, Snapshot
    <3>3. reg' = Observed(Recorded(reg, s, 0, {k}), s)
      BY <3>1, <3>2 DEF recorded
    <3> HIDE DEF k
    <3>4. KnownAs(reg', s.who, k)
      BY <1>3, <3>1, <3>2, <3>3, Completing DEF RegOk
    <3>5. \A o \in own : o.session.who[2] # 0 /\ KnownAs(reg', o.session.who, o.source)
      BY <1>7 DEF OwnOk, KnownAs, Grows
    <3>6. \A o \in own' : o.session.who[2] # 0 /\ KnownAs(reg', o.session.who, o.source)
      BY <1>3, <3>1, <3>4, <3>5 DEF k
    <3> QED BY <3>6 DEF OwnOk, KnownAs
  <2> QED BY <2>1
<1>11. JobOk'
  BY <1>1 DEF JobOk
<1> QED BY <1>1, <1>7, <1>8, <1>9, <1>10, <1>11, Framing

----------------------------------------------------------------------------
(* Sessions are ended.                                                     *)
LEMMA EndingRow ==
    ASSUME RegOk, EndedOk, UNCHANGED <<world, ended>>, NEW s \in Session,
           s.who \in Whos(reg), s.who[2] # 0, ~Alive(s.who),
           reg' = Ended(reg, HistoryOf(reg, s))
    PROVE  RegOk' /\ Grows(reg, reg') /\ EndedOk' /\ reg'.rows = reg.rows
<1> DEFINE h == HistoryOf(reg, s)
<1>1. h \in DOMAIN reg.history /\ reg.history[h].who = s.who
  BY HistoryRows DEF RegOk, Whos
<1> HIDE DEF h
<1>2. /\ Sound(reg') /\ Grows(reg, reg') /\ reg'.rows = reg.rows
      /\ DOMAIN reg'.history = DOMAIN reg.history
      /\ \A k \in DOMAIN reg.history :
            /\ reg'.history[k].who = reg.history[k].who
            /\ k # h => reg'.history[k] = reg.history[k]
  BY <1>1, Ending DEF RegOk, h
<1>3. \A w \in Whos(reg)' : w[2] # 0 => Issued(w)'
  BY <1>2 DEF RegOk, Whos, Issued, world
<1>4. GoneIsGone'
  <2> SUFFICES ASSUME NEW k \in DOMAIN reg'.history,
                      reg'.history[k].who[2] # 0, reg'.history[k].state # "live"
               PROVE  ~Alive(reg'.history[k].who)
    BY DEF GoneIsGone, Alive, world
  <2> QED BY <1>1, <1>2 DEF RegOk, GoneIsGone
<1>5. EndedOk'
  BY <1>2, EndedRows DEF HasRow
<1> QED BY <1>2, <1>3, <1>4, <1>5 DEF RegOk

LEMMA TerminateActions ==
    ASSUME IInv, BeginTerminate \/ Terminated
    PROVE  IInv'
<1> USE DEF IInv
<1>1. CASE BeginTerminate
  <2>1. PICK h \in DOMAIN reg.history :
           /\ reg.history[h].who[2] # 0
           /\ Terminate([name |-> reg.history[h].name, who |-> reg.history[h].who])
    BY <1>1 DEF BeginTerminate
  <2> DEFINE s == [name |-> reg.history[h].name, who |-> reg.history[h].who]
             shown == s.name \in DOMAIN tmux
             seen == IF shown THEN Observed(reg, s) ELSE reg
  <2>2. s \in Session /\ s.who[2] # 0 /\ s.who \in Whos(reg) /\ Sound(reg)
    <3>1. Sound(reg) /\ reg.history[h] \in HistoryRow
      BY DEF RegOk, Sound, Registry
    <3> QED BY <2>1, <3>1 DEF HistoryRow, Session, Whos
  <2>3. /\ UNCHANGED <<world, ws, dialog, recreate, own>>
        /\ \/ /\ reg' = Offered(seen, s, FALSE) /\ ended' = ended \ {s}
              /\ job' = IF shown THEN [kind |-> "terminate", stage |-> "kill", now |-> s] ELSE None
           \/ reg' \in {reg, seen} /\ ended' = ended /\ job' = None
    BY <2>1 DEF Terminate
  <2> HIDE DEF s, shown
  <2>4. /\ Sound(seen) /\ Grows(reg, seen) /\ OnlyRevived(reg, seen) /\ seen.rows = reg.rows
        /\ Whos(seen) \subseteq Whos(reg)
    <3>1. CASE shown
      <4>1. /\ Sound(seen) /\ Grows(reg, seen) /\ OnlyRevived(reg, seen) /\ seen.rows = reg.rows
            /\ Whos(seen) \subseteq Whos(reg) \cup {s.who}
        BY <2>2, <3>1, Observing
      <4> QED BY <2>2, <4>1
    <3>2. CASE ~shown
      BY <2>2, <3>2 DEF Grows, OnlyRevived
    <3> QED BY <3>1, <3>2
  <2> HIDE DEF seen
  <2>5. /\ Sound(reg') /\ Grows(reg, reg') /\ OnlyRevived(reg, reg') /\ Whos(reg') \subseteq Whos(reg)
        /\ \A t \in ended' : t \in ended /\ (HasRow(reg, t) => HasRow(reg', t))
    <3>1. CASE reg' = Offered(seen, s, FALSE) /\ ended' = ended \ {s}
      <4>1. /\ Sound(reg') /\ Grows(seen, reg') /\ reg'.history = seen.history
            /\ \A t \in Session : HasRow(seen, t) /\ t # s /\ t.who[2] # 0 => HasRow(reg', t)
        BY <2>2, <2>4, <3>1, Offering
      <4>2. Grows(reg, reg') /\ OnlyRevived(reg, reg') /\ Whos(reg') \subseteq Whos(reg)
        BY <2>4, <4>1, GrowsMore DEF OnlyRevived, Whos
      <4>3. \A t \in ended' : t \in ended /\ (HasRow(reg, t) => HasRow(reg', t))
        BY <2>4, <3>1, <4>1 DEF EndedOk, HasRow
      <4> QED BY <4>1, <4>2, <4>3
    <3>2. CASE reg' \in {reg, seen} /\ ended' = ended
      <4>1. Grows(reg, reg) /\ OnlyRevived(reg, reg)
        BY DEF Grows, OnlyRevived
      <4> QED BY <2>2, <2>4, <3>2, <4>1 DEF HasRow
    <3> QED BY <2>3, <3>1, <3>2
  <2>6. RegOk'
    <3>1. \A w \in Whos(reg') : w[2] # 0 => Issued(w)
      BY <2>5 DEF RegOk
    <3> QED BY <2>3, <2>5, <3>1, Reviving
  <2>7. EndedOk'
    BY <2>3, <2>5, EndedRows
  <2>8. JobOk'
    <3>1. CASE job' = None
      BY <3>1 DEF JobOk
    <3>2. CASE job' = [kind |-> "terminate", stage |-> "kill", now |-> s]
      <4>1. s.who \in Whos(reg') /\ Issued(s.who)
        BY <2>2, <2>5, KnownStays DEF RegOk
      <4>2. /\ job' \in [kind: {"terminate"}, stage: {"kill", "ended", "error"}, now: Session]
            /\ job'.now = s /\ job'.stage = "kill"
        BY <2>2, <3>2
      <4> QED BY <2>2, <2>3, <4>1, <4>2 DEF JobOk, TerminateOk, Issued, world, Whos
    <3> QED BY <2>3, <3>1, <3>2
  <2> QED BY <2>3, <2>5, <2>6, <2>7, <2>8, Framing
<1>2. CASE Terminated
  <2>1. UNCHANGED <<world, ws, dialog, recreate, ended, own>> /\ job' = None
    BY <1>2 DEF Terminated
  <2>2. TerminateOk
    BY <1>2, Holders DEF Terminated
  <2>3. job.now \in Session /\ job.now.who[2] # 0 /\ job.now.who \in Whos(reg) /\ Sound(reg)
    BY <2>2 DEF TerminateOk, RegOk
  <2>4. JobOk'
    BY <2>1 DEF JobOk
  <2>5. CASE job.stage = "ended" /\ reg' = Ended(reg, HistoryOf(reg, job.now))
    <3>1. RegOk' /\ Grows(reg, reg') /\ EndedOk'
      BY <2>1, <2>2, <2>3, <2>5, EndingRow DEF TerminateOk
    <3> QED BY <2>1, <2>4, <3>1, Framing
  <2>6. CASE reg' = Offered(reg, job.now, TRUE)
    <3>1. /\ Sound(reg') /\ Grows(reg, reg') /\ reg'.history = reg.history
          /\ \A t \in Session : HasRow(reg, t) => HasRow(reg', t)
      BY <2>3, <2>6, Offering
    <3>2. RegOk'
      BY <2>1, <3>1, Reviving DEF RegOk, OnlyRevived, Whos
    <3>3. EndedOk'
      BY <2>1, <3>1, EndedRows DEF EndedOk
    <3> QED BY <2>1, <2>4, <3>1, <3>2, <3>3, Framing
  <2>7. CASE reg' = reg
    BY <2>1, <2>4, <2>7, Quiet
  <2> QED BY <1>2, <2>5, <2>6, <2>7 DEF Terminated
<1> QED BY <1>1, <1>2

LEMMA KillAction ==
    ASSUME IInv, Kill
    PROVE  IInv'
<1> USE DEF IInv
<1> DEFINE s == job.now
<1>1. PICK killed \in BOOLEAN, outcome \in {"ended", "error"} :
         Killed(killed, outcome) /\ (outcome = "ended" => killed)
  BY DEF Kill
<1>2. /\ tmux' = IF killed THEN Without(NamesOf(s.who)) ELSE tmux
      /\ ended' = IF killed /\ FoldJob /\ s.name \notin DOMAIN tmux' THEN ended \cup {s} ELSE ended
      /\ job' = [job EXCEPT !.stage = outcome]
      /\ UNCHANGED <<server, reg, ws, dialog, recreate, own>>
  BY <1>1 DEF Killed
<1>3. /\ WorldForward /\ DOMAIN tmux' \subseteq DOMAIN tmux
      /\ killed => ~Alive(s.who)'
  <2>1. CASE killed
    <3>1. /\ WorldForward /\ DOMAIN tmux' = DOMAIN tmux \ NamesOf(s.who)
          /\ \A n \in DOMAIN tmux' : tmux'[n] = tmux[n]
      BY <1>2, <2>1, Leaving
    <3>2. ~Alive(job.now.who)'
      <4>1. job'.now = job.now
        BY <1>2, Holders DEF Kill, FoldingOk, FoldRec, TerminateOk
      <4> QED BY <3>1, <4>1 DEF NamesOf, Alive
    <3> QED BY <3>1, <3>2
  <2>2. CASE ~killed
    <3>1. UNCHANGED world
      BY <1>2, <2>2 DEF world
    <3> QED BY <2>2, <3>1, OtherWorlds DEF world
  <2> QED BY <2>1, <2>2
<1> HIDE DEF s
<1>4. RegOk' /\ OwnOk' /\ TmuxOk'
  BY <1>2, <1>3, RegistryWorld DEF WorldForward
<1>5. WsOk' /\ DialogOk' /\ RecreateOk'
  BY <1>2 DEF WsOk, TrueFold, DialogOk, RecreateOk
<1>6. job # None /\ job.stage = "kill" /\ (FoldingOk \/ TerminateOk)
  BY Holders DEF Kill
<1>7. CASE FoldingOk
  <2>1. /\ EndingOk /\ s \in job.todo /\ s \in Targets /\ job'.now = s
        /\ s \in Session /\ s.who[2] # 0 /\ Issued(s.who) /\ s.who \in Whos(reg) /\ HasRow(reg, s)
    BY <1>2, <1>6, <1>7 DEF FoldingOk, FoldRec, EndingOk, s
  <2>2. EndedOk'
    <3> SUFFICES ASSUME NEW t \in ended'
                 PROVE  /\ t \in Session /\ t.who[2] # 0 /\ Issued(t.who)'
                        /\ ~Alive(t.who)' /\ t.name \notin DOMAIN tmux'
                        /\ HasRow(reg, t)'
      BY DEF EndedOk
    <3>1. CASE t \in ended
      BY <3>1, <1>2, <1>3 DEF EndedOk, WorldForward, HasRow
    <3>2. CASE t \notin ended
      <4>1. t = s /\ killed /\ s.name \notin DOMAIN tmux'
        BY <1>2, <3>2
      <4>2. ~Alive(t.who)'
        <5>1. t' = s'
          BY <2>1, <4>1 DEF s
        <5> QED BY <1>3, <4>1, <5>1
      <4> QED BY <2>1, <4>1, <4>2, <1>2, <1>3 DEF WorldForward, HasRow
    <3> QED BY <3>1, <3>2
  <2>3. FoldingOk'
    <3>1. /\ job' \in FoldRec
          /\ job'.stage = outcome /\ job'.kind = job.kind /\ job'.confirmed = job.confirmed
          /\ job'.at = job.at /\ job'.fold = job.fold /\ job'.live = job.live
          /\ job'.todo = job.todo /\ job'.now = job.now /\ job'.failed = job.failed
      BY <1>2, <1>7 DEF FoldingOk, FoldRec
    <3>2. Targets' = Targets /\ Members' = Members /\ Deleting' = Deleting
      BY <3>1 DEF Targets, Members, Deleting
    <3>3. /\ dialog' # None /\ dialog'.at # 0
          /\ \A t \in Targets' : job'.confirmed[t.name].who = t.who
          /\ job'.at <= ws'.at
          /\ Deleting' => job'.fold # None
      BY <1>2, <1>7, <3>1, <3>2 DEF FoldingOk, FoldRec
    <3>10. job'.fold # None => TrueFold(job.fold)'
      <4>1. job.fold # None => TrueFold(job.fold)
        BY <1>7 DEF FoldingOk, FoldRec
      <4>2. reg' = reg
        BY <1>2
      <4> QED BY <4>1, <4>2, <3>1 DEF TrueFold
    <3>4. Saved'
      BY <1>2, <2>1, <3>1, <3>2 DEF EndingOk, Saved
    <3>5. \A t \in Targets : t.who[2] # 0 /\ Issued(t.who)' /\ t.who \in Whos(reg)'
      BY <1>2, <1>3, <2>1 DEF EndingOk, WorldForward, Whos
    <3>6. \A t \in job.todo : HasRow(reg, t)'
      BY <1>2, <2>1 DEF EndingOk, HasRow
    <3>7. ~job.failed => \A t \in Targets \ job.todo : ~Alive(t.who)'
      BY <1>3, <2>1 DEF EndingOk, WorldForward
    <3>8. outcome = "ended" => ~Alive(s.who)'
      BY <1>1, <1>3
    <3>9. EndingOk'
      <4>1. s' = s
        BY <2>1 DEF s
      <4>2. \A t \in job'.todo : HasRow(reg, t)'
        BY <3>1, <3>6
      <4> QED BY <2>1, <3>1, <3>2, <3>4, <3>5, <4>2, <3>7, <3>8, <4>1 DEF EndingOk, s
    <3> QED BY <1>1, <3>1, <3>3, <3>9, <3>10 DEF FoldingOk, FoldRec
  <2> QED BY <1>4, <1>5, <2>2, <2>3 DEF JobOk
<1>8. CASE TerminateOk
  <2>1. EndedOk'
    <3>1. ~FoldJob
      BY <1>8 DEF TerminateOk, FoldJob
    <3> QED BY <1>2, <1>3, <3>1, EndedWorld DEF EndedOk
  <2>2. TerminateOk'
    <3>1. /\ job' \in [kind: {"terminate"}, stage: {"kill", "ended", "error"}, now: Session]
          /\ job'.stage = outcome /\ job'.now = s
      BY <1>2, <1>8 DEF TerminateOk, s
    <3>2. s.who[2] # 0 /\ Issued(s.who)' /\ s.who \in Whos(reg)'
      BY <1>2, <1>3, <1>8, <3>1 DEF TerminateOk, WorldForward, Whos, s
    <3>3. outcome = "ended" => ~Alive(s.who)'
      BY <1>1, <1>3
    <3> QED BY <3>1, <3>2, <3>3 DEF TerminateOk, s
  <2> QED BY <1>4, <1>5, <2>1, <2>2 DEF JobOk
<1> QED BY <1>6, <1>7, <1>8

----------------------------------------------------------------------------
(* The dialog and the handler that archives a fold.                        *)
LEMMA Retrying ==
    ASSUME DialogOk, dialog # None, dialog' = None \/ Retriable
    PROVE  DialogOk'
  BY DEF DialogOk, Retriable

LEMMA ClosedIs ==
    ASSUME WsOk, NEW n \in DOMAIN Closed
    PROVE  /\ ws.fold # None /\ ws.fold \in Fold /\ Closed = ws.fold.closed
           /\ n \in Name /\ Closed[n] \in Snapshot
<1>1. ws.fold # None /\ ws.fold \in Fold /\ Closed = ws.fold.closed
  BY DEF WsOk, Closed
<1> QED BY <1>1, FoldIs, MapsAre

LEMMA DialogActions ==
    ASSUME IInv, Confirm("close") \/ Confirm("delete") \/ Apply \/ Cancel
    PROVE  IInv'
<1> USE DEF IInv
<1>1. UNCHANGED <<world, reg, ws, recreate, job, ended, own>>
  BY DEF Confirm, Apply, Cancel
<1>2. ~FoldingOk
  BY DEF Confirm, Apply, Cancel, FoldingOk, FoldRec
<1>3. ASSUME NEW mode \in {"close", "delete"}, Confirm(mode)
      PROVE  DialogOk'
  <2>1. PICK roots : /\ roots \in IF ws.fold # None THEN {ws.fold.roots}
                                  ELSE {S \in SUBSET ws.tabs : Cardinality(S) > 1}
                     /\ \A n \in roots : mode = "delete" \/ n \in DOMAIN tmux \cup DOMAIN Closed
                     /\ dialog' = [mode |-> mode, roots |-> roots, at |-> 0, rev |-> 0,
                                   id |-> IF ws.fold # None THEN ws.fold.id ELSE -ws.at,
                                   confirmed |-> [n \in roots |-> Shown(mode, n)]]
    BY <1>3 DEF Confirm
  <2>2. /\ ws.at \in Nat /\ ws.tabs \in SUBSET Name
        /\ ws.fold # None => ws.fold.id \in Int /\ ws.fold.roots \in SUBSET Name
    BY FoldIs DEF WsOk
  <2>3. roots \in SUBSET Name
    BY <2>1, <2>2
  <2>4. \A n \in roots : Shown(mode, n) \in Member
    <3> SUFFICES ASSUME NEW n \in roots PROVE Shown(mode, n) \in Member
      OBVIOUS
    <3>1. CASE n \in DOMAIN tmux
      BY <3>1 DEF Shown, Member, TmuxOk
    <3>2. CASE n \notin DOMAIN tmux /\ mode = "delete"
      BY <3>2 DEF Shown, Member, Nobody, Identities
    <3>3. CASE n \notin DOMAIN tmux /\ mode # "delete"
      <4>1. Closed[n] \in Snapshot
        BY <2>1, <3>3, ClosedIs
      <4> QED BY <3>3, <4>1 DEF Shown, Member, Snapshot
    <3> QED BY <3>1, <3>2, <3>3
  <2> DEFINE confirmed == [n \in roots |-> Shown(mode, n)]
             id == IF ws.fold # None THEN ws.fold.id ELSE -ws.at
  <2>5. confirmed \in Maps(Name, Member) /\ DOMAIN confirmed = roots
    BY <2>3, <2>4, MapsAre
  <2>6. id \in Int
    BY <2>2
  <2> HIDE DEF confirmed, id
  <2>7. dialog' = [mode |-> mode, roots |-> roots, at |-> 0, rev |-> 0, id |-> id,
                   confirmed |-> confirmed]
    BY <2>1 DEF confirmed, id
  <2> QED BY <2>3, <2>5, <2>6, <2>7 DEF DialogOk
<1>4. DialogOk'
  <2>1. CASE Apply
    <3>1. ws.at \in Nat /\ ws.rev \in Nat
      BY DEF WsOk
    <3> QED BY <2>1, <3>1 DEF Apply, DialogOk
  <2>2. CASE Cancel
    BY <2>2 DEF Cancel, DialogOk
  <2> QED BY <1>3, <2>1, <2>2
<1>5. JobOk'
  BY <1>1, <1>2, Undisturbed
<1> QED BY <1>1, <1>4, <1>5, Quiet

LEMMA BeginFoldAction ==
    ASSUME IInv, IsFiniteSet(Name), BeginFold
    PROVE  IInv'
<1> USE DEF IInv
<1>1. /\ UNCHANGED <<world, reg, ws, recreate, ended, own>>
      /\ dialog # None /\ dialog.at # 0 /\ job = None
  BY DEF BeginFold, Free
<1>2. CASE job' = None \/ job' = job
  <2>1. dialog' = dialog \/ dialog' = None \/ Retriable
    BY <1>2 DEF BeginFold, Refuse
  <2>2. DialogOk' \/ dialog' = dialog
    BY <1>1, <2>1, Retrying
  <2>3. JobOk'
    BY <1>1, <1>2 DEF JobOk
  <2> QED BY <1>1, <2>2, <2>3, Quiet
<1>3. CASE ~(job' = None \/ job' = job)
  <2>1. /\ dialog.at = ws.at
        /\ dialog.mode = "delete" => ws.fold # None
        /\ dialog.roots \subseteq ws.tabs
        /\ \A n \in dialog.roots : AsConfirmed(n, Closed)
        /\ job' = [kind |-> dialog.mode, stage |-> "archive", confirmed |-> dialog.confirmed,
                   at |-> dialog.at, rev |-> dialog.rev, id |-> dialog.id, fold |-> ws.fold,
                   live |-> Live, todo |-> {}, now |-> None, failed |-> FALSE]
        /\ dialog' = dialog
    BY <1>3 DEF BeginFold, Refuse, Fits
  <2> DEFINE live == Live
  <2>2. Fresher(live) /\ live \subseteq Session
    BY Listing DEF Fresher, Inventory
  <2>3. Fresher(live)'
    BY <1>1, <2>2 DEF Fresher, Live, world, Whos, Alive, Issued
  <2>4. live' = live /\ \A s \in live : s.name \in DOMAIN tmux /\ s.who = tmux[s.name].who
    BY <1>1 DEF Live, world
  <2> HIDE DEF live
  <2>5. /\ dialog.mode \in {"close", "delete"} /\ dialog.at \in Nat /\ dialog.rev \in Nat
        /\ dialog.id \in Int /\ dialog.confirmed \in Maps(Name, Member)
        /\ DOMAIN dialog.confirmed = dialog.roots
    BY <1>1 DEF DialogOk
  <2>6. ws.fold \in Fold \cup {None} /\ (ws.fold # None => TrueFold(ws.fold))
    BY DEF WsOk
  <2>7. /\ job' \in FoldRec
        /\ job'.stage = "archive" /\ job'.confirmed = dialog.confirmed /\ job'.at = dialog.at
        /\ job'.fold = ws.fold /\ job'.live = live /\ job'.failed = FALSE
        /\ job'.kind = dialog.mode
    <3>1. job' = [kind |-> dialog.mode, stage |-> "archive", confirmed |-> dialog.confirmed,
                  at |-> dialog.at, rev |-> dialog.rev, id |-> dialog.id, fold |-> ws.fold,
                  live |-> live, todo |-> {}, now |-> None, failed |-> FALSE]
      BY <2>1 DEF live
    <3> QED BY <2>2, <2>5, <2>6, <3>1 DEF FoldRec
  <2>8. \A s \in Targets' : job'.confirmed[s.name].who = s.who
    <3> SUFFICES ASSUME NEW s \in live, s.name \in dialog.roots
                 PROVE  dialog.confirmed[s.name].who = s.who
      BY <2>5, <2>7 DEF Targets, Members
    <3> QED BY <2>1, <2>4 DEF AsConfirmed
  <2>9. ArchiveOk'
    <3>1. Fresher(job.live)'
      BY <2>3, <2>4, <2>7
    <3> QED BY <1>1, <2>1, <2>5, <2>7, <3>1 DEF ArchiveOk, Members
  <2>10. FoldingOk'
    <3>1. job'.fold # None => TrueFold(job.fold)'
      BY <1>1, <2>6, <2>7 DEF TrueFold
    <3>2. Deleting' => job'.fold # None
      BY <2>1, <2>7 DEF Deleting
    <3>3. dialog' # None /\ dialog'.at # 0 /\ job'.at <= ws'.at
      BY <1>1, <2>1, <2>5, <2>7
    <3> QED BY <2>7, <2>8, <2>9, <3>1, <3>2, <3>3 DEF FoldingOk, FoldRec
  <2> QED BY <1>1, <2>1, <2>10, Quiet DEF JobOk
<1> QED BY <1>2, <1>3

(* The fold to be saved has a true snapshot of each of its sessions.       *)
LEMMA Candidates ==
    ASSUME RegOk, WsOk, FoldingOk, job.stage = "archive",
           NEW now, now = Reconciled(reg, job.live)
    PROVE  LET c == Candidate(now) IN
           /\ c \in Fold /\ c # None /\ c.roots = Members
           /\ \A n \in DOMAIN c.closed :
                 /\ c.closed[n].who[2] # 0
                 /\ c.closed[n].hist \in DOMAIN now.history
                 /\ now.history[c.closed[n].hist].who = c.closed[n].who
           /\ \A s \in Targets : s.name \in DOMAIN c.closed /\ c.closed[s.name].who = s.who
<1>1. /\ job \in FoldRec /\ ArchiveOk /\ Inventory(job.live)
      /\ job.fold # None => TrueFold(job.fold)
  BY DEF FoldingOk, FoldRec, ArchiveOk, Fresher
<1>2. /\ Sound(now) /\ Grows(reg, now)
      /\ \A s \in job.live : s.who \in Whos(now)
  BY <1>1, Reconciling DEF RegOk
<1> DEFINE saved == {s.name : s \in Targets}
           kept == Members \cap DOMAIN Previous
           snap(n) == IF n \in saved
                      THEN LET s == The({t \in Targets : t.name = n})
                           IN  [who |-> s.who, hist |-> HistoryOf(now, s)]
                      ELSE Previous[n]
           closed == [n \in saved \cup kept |-> snap(n)]
<1>3. Members \subseteq Name /\ job.id \in Int
  BY <1>1, MapsAre DEF FoldRec, Members
<1>4. \A n \in saved : /\ n \in Name /\ snap(n) \in Snapshot /\ snap(n).who[2] # 0
                       /\ snap(n).hist \in DOMAIN now.history
                       /\ now.history[snap(n).hist].who = snap(n).who
                       /\ \A t \in Targets : t.name = n => snap(n).who = t.who
  <2> SUFFICES ASSUME NEW n \in saved
               PROVE  /\ n \in Name /\ snap(n) \in Snapshot /\ snap(n).who[2] # 0
                      /\ snap(n).hist \in DOMAIN now.history
                      /\ now.history[snap(n).hist].who = snap(n).who
                      /\ \A t \in Targets : t.name = n => snap(n).who = t.who
    OBVIOUS
  <2> DEFINE s == The({t \in Targets : t.name = n})
  <2>1. s \in Targets /\ s.name = n
    BY DEF The
  <2>2. snap(n) = [who |-> s.who, hist |-> HistoryOf(now, s)]
    OBVIOUS
  <2> HIDE DEF s, snap
  <2>3. s \in job.live /\ s \in Session /\ s.who[2] # 0
    BY <2>1, <1>1 DEF Targets, Inventory
  <2>4. \A t \in Targets : t.name = n => t = s
    BY <2>1, <1>1 DEF Targets, Inventory, Apart
  <2>5. HistoryOf(now, s) \in DOMAIN now.history /\ now.history[HistoryOf(now, s)].who = s.who
    BY <1>2, <2>3, HistoryRows DEF Whos
  <2>6. HistoryOf(now, s) \in Nat
    BY <1>2, <2>5 DEF Sound, Registry
  <2> QED BY <2>1, <2>2, <2>3, <2>4, <2>5, <2>6 DEF Session, Snapshot
<1>5. \A n \in kept : /\ Previous[n] \in Snapshot /\ Previous[n].who[2] # 0
                      /\ Previous[n].hist \in DOMAIN now.history
                      /\ now.history[Previous[n].hist].who = Previous[n].who
  <2> SUFFICES ASSUME NEW n \in kept
               PROVE  /\ Previous[n] \in Snapshot /\ Previous[n].who[2] # 0
                      /\ Previous[n].hist \in DOMAIN now.history
                      /\ now.history[Previous[n].hist].who = Previous[n].who
    OBVIOUS
  <2>1. job.fold # None /\ Previous = job.fold.closed
    BY DEF Previous
  <2>2. job.fold \in Fold /\ TrueFold(job.fold)
    BY <2>1, <1>1 DEF FoldRec
  <2>3. Previous[n] \in Snapshot
    BY <2>1, <2>2, FoldIs, MapsAre
  <2> QED BY <2>1, <2>2, <2>3, <1>2 DEF TrueFold, Grows
<1>6. \A n \in saved \cup kept : /\ snap(n) \in Snapshot /\ snap(n).who[2] # 0
                                 /\ snap(n).hist \in DOMAIN now.history
                                 /\ now.history[snap(n).hist].who = snap(n).who
  BY <1>4, <1>5
<1>7. Candidate(now) = [id |-> job.id, roots |-> Members, closed |-> closed]
  BY DEF Candidate, Snapshots
<1> HIDE DEF snap
<1>8. closed \in Maps(Name, Snapshot) /\ DOMAIN closed = saved \cup kept
  <2>1. saved \cup kept \subseteq Name
    BY <1>3, <1>4
  <2> HIDE DEF saved, kept
  <2>2. closed \in [DOMAIN closed -> Snapshot] /\ DOMAIN closed = saved \cup kept
    BY <1>6
  <2> QED BY <2>1, <2>2, MapsAre
<1>9. \A n \in saved \cup kept : closed[n] = snap(n)
  OBVIOUS
<1> HIDE DEF closed, kept
<1>10. /\ Candidate(now) \in Fold /\ Candidate(now).roots = Members
       /\ Candidate(now).closed = closed
  BY <1>3, <1>7, <1>8, FoldIs
<1>12. Candidate(now) # None
  BY <1>10, NoneAssumption
<1>11. \A s \in Targets : s.name \in DOMAIN closed /\ closed[s.name].who = s.who
  BY <1>4, <1>8, <1>9
<1> QED BY <1>6, <1>8, <1>9, <1>10, <1>11, <1>12

LEMMA ArchiveActions ==
    ASSUME IInv, Archive \/ ArchiveFails
    PROVE  IInv'
<1> USE DEF IInv
<1> DEFINE now == Reconciled(reg, job.live)
           c == Candidate(now)
<1>1. /\ UNCHANGED <<world, recreate, ended, own>>
      /\ FoldJob /\ job # None /\ job.stage = "archive" /\ reg' \in {reg, now}
  BY DEF Archive, ArchiveFails, FoldJob
<1>2. FoldingOk
  BY <1>1, Holders DEF FoldJob
<1>3. /\ job \in FoldRec /\ ArchiveOk /\ Fresher(job.live) /\ dialog # None /\ dialog.at # 0
      /\ job.at \in Nat /\ job.at <= ws.at /\ ws.at \in Nat
  BY <1>1, <1>2 DEF FoldingOk, FoldRec, ArchiveOk, WsOk
<1>4. /\ RegOk' /\ EndedOk' /\ Grows(reg, reg')
      /\ reg' = now => \A s \in job.live : s.who \in Whos(reg') /\ HasRow(reg', s)
  BY <1>1, <1>3, Sampling
<1>5. /\ c \in Fold /\ c # None /\ c.roots = Members
      /\ \A n \in DOMAIN c.closed :
            /\ c.closed[n].who[2] # 0
            /\ c.closed[n].hist \in DOMAIN now.history
            /\ now.history[c.closed[n].hist].who = c.closed[n].who
      /\ \A s \in Targets : s.name \in DOMAIN c.closed /\ c.closed[s.name].who = s.who
  BY <1>1, <1>2, Candidates
<1> HIDE DEF now, c
<1>6. ws' = ws \/ (reg' = now /\ ws' = Archived(now) /\ Storable)
  BY <1>1 DEF Archive, ArchiveFails, now
<1>7. ASSUME reg' = now, ws' = Archived(now), Storable, ws' # ws
      PROVE  /\ ws.at = job.at /\ ws'.at = job.at + 1 /\ ws'.fold = c /\ ws'.tabs = ws.tabs
             /\ WsOk' /\ ~(Deleting /\ Targets = {})
  <2>1. ~(Deleting /\ Targets = {}) /\ ws' = [ws EXCEPT !.fold = c, !.at = @ + 1]
    BY <1>7 DEF Archived, c
  <2>2. ws.at = job.at
    BY <1>7, <2>1 DEF Storable
  <2>3. /\ ws' \in [tabs: SUBSET Name, pinned: SUBSET Name, fold: Fold \cup {None},
                    rest: Nat, at: Nat, rev: Nat]
        /\ ws'.fold = c /\ ws'.tabs = ws.tabs /\ ws'.at = ws.at + 1
    <3>1. ws \in [tabs: SUBSET Name, pinned: SUBSET Name, fold: Fold \cup {None},
                  rest: Nat, at: Nat, rev: Nat]
      BY DEF WsOk
    <3>2. ws' = [tabs |-> ws.tabs, pinned |-> ws.pinned, fold |-> c, rest |-> ws.rest,
                 at |-> ws.at + 1, rev |-> ws.rev]
      BY <2>1, <3>1
    <3> QED BY <1>5, <3>1, <3>2
  <2>4. c.roots \subseteq ws'.tabs
    BY <1>3, <1>5, <2>2, <2>3 DEF ArchiveOk
  <2>5. TrueFold(ws.fold)'
    BY <1>5, <1>7, <2>3 DEF TrueFold
  <2> QED BY <2>1, <2>2, <2>3, <2>4, <2>5 DEF WsOk
<1>8. ws' = ws \/ WsOk'
  BY <1>6, <1>7
<1>9. CASE job' = None
  <2>1. dialog' = dialog \/ Retriable
    BY <1>1, <1>9 DEF Archive, ArchiveFails, Refuse
  <2>2. DialogOk' \/ dialog' = dialog
    BY <1>3, <2>1, Retrying
  <2>3. JobOk'
    BY <1>9 DEF JobOk
  <2> QED BY <1>1, <1>4, <1>8, <2>2, <2>3, Framing
<1>10. CASE job' # None
  <2>1. /\ reg' = now /\ ws' = Archived(now) /\ Storable /\ dialog' = dialog
        /\ job' = [job EXCEPT !.stage = "next", !.todo = Targets,
                              !.fold = IF Deleting /\ Targets = {} THEN @ ELSE c]
    BY <1>1, <1>10 DEF Archive, ArchiveFails, Refuse, now, c
  <2> DEFINE fold == IF Deleting /\ Targets = {} THEN job.fold ELSE c
  <2>2. fold \in Fold \cup {None} /\ Targets \in SUBSET Session
    BY <1>3, <1>5 DEF FoldRec, Targets
  <2>3. job' = [job EXCEPT !.stage = "next", !.todo = Targets, !.fold = fold]
    BY <2>1
  <2> HIDE DEF fold
  <2>4. /\ job' \in FoldRec /\ job'.stage = "next" /\ job'.todo = Targets /\ job'.fold = fold
        /\ job'.live = job.live /\ job'.confirmed = job.confirmed /\ job'.at = job.at
        /\ job'.failed = job.failed /\ job'.kind = job.kind
    BY <1>3, <2>2, <2>3 DEF FoldRec
  <2>5. Targets' = Targets /\ Members' = Members /\ Deleting' = Deleting
    BY <2>4 DEF Targets, Members, Deleting
  <2>6. Deleting /\ Targets = {} => ws' = ws
    BY <2>1 DEF Archived
  <2>7. Targets # {} => fold = c /\ ws'.fold = c /\ ws'.at = job.at + 1
    <3> SUFFICES ASSUME Targets # {} PROVE fold = c /\ ws'.fold = c /\ ws'.at = job.at + 1
      OBVIOUS
    <3>1. ws' = [ws EXCEPT !.fold = c, !.at = @ + 1]
      BY <2>1 DEF Archived, c
    <3>2. ws'.at = ws.at + 1
      BY <3>1 DEF WsOk
    <3>3. ws' # ws
      BY <1>3, <3>2
    <3> QED BY <2>1, <3>3, <1>7 DEF fold
  <2>8. job'.at <= ws'.at
    BY <1>3, <1>7, <2>1, <2>4
  <2>9. job'.fold # None => TrueFold(job.fold)'
    <3>1. CASE Deleting /\ Targets = {}
      <4>1. job'.fold = job.fold /\ (job.fold # None => TrueFold(job.fold))
        BY <1>2, <2>4, <3>1 DEF FoldingOk, fold
      <4>2. \A f : TrueFold(f) => TrueFold(f)'
        BY <1>4, HistoriesStay
      <4> QED BY <4>1, <4>2 DEF TrueFold
    <3>2. CASE ~(Deleting /\ Targets = {})
      <4>1. job'.fold = c
        BY <2>4, <3>2 DEF fold
      <4> QED BY <1>5, <2>1, <4>1 DEF TrueFold
    <3> QED BY <3>1, <3>2
  <2>10. Deleting' => job'.fold # None
    BY <1>2, <1>5, <2>4, <2>5 DEF FoldingOk, fold
  <2>11. Saved'
    BY <1>5, <2>4, <2>5, <2>7 DEF Saved
  <2>12. \A s \in Targets : /\ s.who[2] # 0 /\ Issued(s.who)' /\ s.who \in Whos(reg)'
                            /\ HasRow(reg, s)'
    <3> SUFFICES ASSUME NEW s \in job.live
                 PROVE  /\ s.who[2] # 0 /\ Issued(s.who)' /\ s.who \in Whos(reg)'
                        /\ HasRow(reg, s)'
      BY DEF Targets
    <3>1. s.who \in Whos(reg') /\ HasRow(reg', s)
      BY <1>4, <2>1
    <3>2. s.who[2] # 0 /\ Issued(s.who)
      BY <1>3 DEF Fresher, Inventory
    <3> QED BY <1>1, <3>1, <3>2 DEF Whos, HasRow, Issued, world
  <2>13. EndingOk'
    <3>1. \A s \in Targets' : s.who[2] # 0 /\ Issued(s.who)' /\ s.who \in Whos(reg)'
      BY <2>5, <2>12
    <3>2. \A s \in job'.todo : HasRow(reg, s)'
      BY <2>4, <2>12
    <3>3. job'.todo \subseteq Targets' /\ Targets' \ job'.todo = {}
      BY <2>4, <2>5
    <3> QED BY <2>4, <2>11, <3>1, <3>2, <3>3 DEF EndingOk
  <2>14. \A s \in Targets' : job'.confirmed[s.name].who = s.who
    BY <1>2, <2>4, <2>5 DEF FoldingOk
  <2>15. FoldingOk'
    BY <1>3, <2>1, <2>4, <2>8, <2>9, <2>10, <2>13, <2>14 DEF FoldingOk
  <2> QED BY <1>1, <1>4, <1>8, <2>1, <2>15, Framing DEF JobOk
<1> QED BY <1>9, <1>10

(* From one session to the next.                                           *)
LEMMA Advancing ==
    ASSUME IInv, FoldingOk, job.stage # "archive", UNCHANGED <<world, ws, dialog>>,
           Grows(reg, reg'), reg'.rows = reg.rows,
           job' \in FoldRec, job'.stage \in {"next", "kill"}, job'.kind = job.kind,
           job'.confirmed = job.confirmed, job'.at = job.at, job'.fold = job.fold,
           job'.live = job.live, job'.todo \subseteq job.todo,
           job'.stage # "next" => job'.now \in job'.todo,
           ~job'.failed => /\ ~job.failed
                           /\ \A s \in job.todo \ job'.todo : ~Alive(s.who)
    PROVE  FoldingOk'
<1>1. EndingOk
  BY DEF FoldingOk
<1>2. Targets' = Targets /\ Members' = Members /\ Deleting' = Deleting
  BY DEF Targets, Members, Deleting
<1>3. job'.fold # None => TrueFold(job.fold)'
  <2>1. \A f : TrueFold(f) => TrueFold(f)'
    BY HistoriesStay
  <2>2. job'.fold = job.fold /\ (job.fold # None => TrueFold(job.fold))
    BY DEF FoldingOk
  <2> QED BY <2>1, <2>2 DEF TrueFold
<1>4. Saved'
  BY <1>1, <1>2 DEF EndingOk, Saved
<1>5. \A s \in Targets : s.who[2] # 0 /\ Issued(s.who)' /\ s.who \in Whos(reg)'
  <2> SUFFICES ASSUME NEW s \in Targets
               PROVE  s.who[2] # 0 /\ Issued(s.who)' /\ s.who \in Whos(reg)'
    OBVIOUS
  <2>1. s.who[2] # 0 /\ Issued(s.who) /\ s.who \in Whos(reg)
    BY <1>1 DEF EndingOk
  <2>2. s.who \in Whos(reg)'
    BY <2>1, HistoriesStay
  <2> QED BY <2>1, <2>2 DEF Issued, world
<1>6. \A s \in job'.todo : HasRow(reg, s)'
  BY <1>1 DEF EndingOk, HasRow
<1>7. ~job'.failed => \A s \in Targets' \ job'.todo : ~Alive(s.who)'
  BY <1>1, <1>2 DEF EndingOk, Alive, world
<1>8. EndingOk'
  <2>1. job'.todo \subseteq Targets' /\ job'.stage # "ended"
    BY <1>1, <1>2 DEF EndingOk
  <2> QED BY <1>2, <1>4, <1>5, <1>6, <1>7, <2>1 DEF EndingOk
<1>9. /\ dialog' # None /\ dialog'.at # 0 /\ job'.at <= ws'.at
      /\ \A s \in Targets' : job'.confirmed[s.name].who = s.who
      /\ Deleting' => job'.fold # None
  BY <1>2 DEF FoldingOk
<1> QED BY <1>3, <1>8, <1>9 DEF FoldingOk

LEMMA MemberActions ==
    ASSUME IInv, NextSession \/ MemberError \/ MemberEnded
    PROVE  IInv'
<1> USE DEF IInv
<1>1. /\ UNCHANGED <<world, ws, dialog, recreate, ended, own>>
      /\ FoldJob /\ job # None /\ job.stage \in {"next", "error", "ended"}
  BY DEF NextSession, MemberError, MemberEnded, FoldJob
<1>2. FoldingOk
  BY <1>1, Holders DEF FoldJob
<1>3. job \in FoldRec /\ EndingOk /\ job.todo \subseteq job.live /\ job.todo \subseteq Session
  BY <1>1, <1>2 DEF FoldingOk, FoldRec, EndingOk, Targets
<1>4. /\ RegOk' /\ Grows(reg, reg') /\ EndedOk' /\ reg'.rows = reg.rows
  <2>1. CASE reg' = reg
    <3>1. RegOk' /\ Grows(reg, reg')
      BY <1>1, <2>1 DEF Grows, RegOk, Whos, GoneIsGone, Issued, Alive, world
    <3>2. EndedOk'
      BY <1>1, <2>1, EndedRows
    <3> QED BY <2>1, <3>1, <3>2
  <2>2. CASE reg' # reg
    <3>1. job.stage = "ended" /\ reg' = Ended(reg, HistoryOf(reg, job.now))
      BY <2>2 DEF NextSession, MemberError, MemberEnded
    <3>2. /\ job.now \in Session /\ job.now.who[2] # 0 /\ job.now.who \in Whos(reg)
          /\ ~Alive(job.now.who)
      BY <1>3, <3>1 DEF EndingOk
    <3> QED BY <1>1, <3>1, <3>2, EndingRow
  <2> QED BY <2>1, <2>2
<1>5. ASSUME NEW s \in job.todo, NEW failed \in BOOLEAN, job' = Done(s, failed),
             failed \/ ~Alive(s.who)
      PROVE  FoldingOk'
  <2>1. job' = [job EXCEPT !.todo = @ \ {s}, !.stage = "next", !.failed = @ \/ failed]
    BY <1>5 DEF Done
  <2>2. /\ job' \in FoldRec /\ job'.stage = "next" /\ job'.kind = job.kind
        /\ job'.confirmed = job.confirmed /\ job'.at = job.at /\ job'.fold = job.fold
        /\ job'.live = job.live /\ job'.todo = job.todo \ {s}
        /\ job'.failed = (job.failed \/ failed)
    BY <1>3, <2>1 DEF FoldRec
  <2>3. job'.todo \subseteq job.todo /\ \A t \in job.todo \ job'.todo : t = s
    BY <2>2
  <2>4. ~job'.failed => ~job.failed /\ \A t \in job.todo \ job'.todo : ~Alive(t.who)
    BY <2>2, <2>3, <1>5
  <2> QED BY <1>1, <1>2, <1>4, <2>2, <2>3, <2>4, Advancing
<1>6. FoldingOk'
  <2>1. CASE NextSession
    <3>1. PICK s \in job.todo : job' = IF job.confirmed[s.name].dead => StillDead(s)
                                       THEN [job EXCEPT !.now = s, !.stage = "kill"]
                                       ELSE Done(s, TRUE)
      BY <2>1 DEF NextSession
    <3>2. CASE job' = Done(s, TRUE)
      BY <3>2, <1>5
    <3>3. CASE job' = [job EXCEPT !.now = s, !.stage = "kill"]
      <4>1. /\ job' \in FoldRec /\ job'.stage = "kill" /\ job'.kind = job.kind
            /\ job'.confirmed = job.confirmed /\ job'.at = job.at /\ job'.fold = job.fold
            /\ job'.live = job.live /\ job'.todo = job.todo /\ job'.now = s
            /\ job'.failed = job.failed
        BY <1>3, <3>3 DEF FoldRec
      <4> QED BY <1>1, <1>2, <1>4, <4>1, Advancing
    <3> QED BY <3>1, <3>2, <3>3
  <2>2. CASE MemberError
    <3>1. job' = Done(job.now, TRUE) /\ job.now \in job.todo
      BY <1>3, <2>2 DEF MemberError, EndingOk
    <3> QED BY <3>1, <1>5
  <2>3. CASE MemberEnded
    <3>1. job.now \in job.todo /\ ~Alive(job.now.who)
      BY <1>3, <2>3 DEF MemberEnded, EndingOk
    <3>2. \E failed \in BOOLEAN : job' = Done(job.now, failed)
      BY <2>3 DEF MemberEnded
    <3> QED BY <3>1, <3>2, <1>5
  <2> QED BY <2>1, <2>2, <2>3
<1> QED BY <1>1, <1>4, <1>6, Framing DEF JobOk

LEMMA FinishActions ==
    ASSUME IInv, FinishClosing \/ FinishDeleting \/ Crash
    PROVE  IInv'
<1> USE DEF IInv
<1>1. /\ UNCHANGED <<world, reg, ended, own>> /\ job' = None /\ job # None
      /\ recreate' \in {recreate, None}
  BY DEF FinishClosing, FinishDeleting, Crash, Answer, Refuse, Finishing, FoldJob
<1>2. recreate' = recreate \/ RecreateOk'
  BY <1>1 DEF RecreateOk
<1>3. dialog' = dialog \/ DialogOk'
  <2>1. CASE FinishClosing \/ FinishDeleting
    <3>1. dialog # None
      <4>1. FoldingOk
        BY <1>1, <2>1, Holders DEF FinishClosing, FinishDeleting, Finishing
      <4> QED BY <4>1 DEF FoldingOk
    <3>2. dialog' = None \/ Retriable
      BY <2>1 DEF FinishClosing, FinishDeleting, Answer, Refuse, Retriable
    <3> QED BY <3>1, <3>2, Retrying
  <2>2. CASE Crash
    <3>1. (dialog = None /\ dialog' = None) \/ (dialog # None /\ Retriable)
      BY <2>2 DEF Crash, Retriable
    <3>2. CASE dialog = None /\ dialog' = None
      BY <3>2
    <3>3. CASE dialog # None /\ Retriable
      BY <3>3, Retrying
    <3> QED BY <3>1, <3>2, <3>3
  <2> QED BY <2>1, <2>2
<1>4. ws' = ws \/ WsOk'
  <2>1. CASE ws' = Removed
    <3>1. ws \in [tabs: SUBSET Name, pinned: SUBSET Name, fold: Fold \cup {None},
                  rest: Nat, at: Nat, rev: Nat]
      BY DEF WsOk
    <3>2. ws' = [tabs |-> ws.tabs \ Members, pinned |-> ws.pinned, fold |-> None,
                 rest |-> ws.rest, at |-> ws.at + 1, rev |-> ws.rev]
      BY <2>1, <3>1 DEF Removed
    <3> QED BY <3>1, <3>2 DEF WsOk
  <2> QED BY <2>1 DEF FinishClosing, FinishDeleting, Crash
<1>5. JobOk'
  BY <1>1 DEF JobOk
<1> QED BY <1>1, <1>2, <1>3, <1>4, <1>5, Quiet

----------------------------------------------------------------------------
(* The invariant holds at first, when the registry has what is listed.     *)
LEMMA Numbers ==
    ASSUME IsFiniteSet(Name),
           NEW number, number = CHOOSE f \in [Name -> 1 .. Cardinality(Name)] : IsInjective(f)
    PROVE  /\ Cardinality(Name) \in Nat
           /\ number \in [Name -> 1 .. Cardinality(Name)]
           /\ \A n, m \in Name : number[n] = number[m] => n = m
<1> DEFINE k == Cardinality(Name)
           order == SetToSeq(Name)
           place == [n \in Name |-> CHOOSE i \in 1 .. k : order[i] = n]
<1>1. /\ k \in Nat
      /\ \A n \in Name : \E i \in 1 .. k : order[i] = n
  BY Ordering
<1> HIDE DEF order
<1>2. \A n \in Name : place[n] \in 1 .. k /\ order[place[n]] = n
  BY <1>1
<1>3. \E f \in [Name -> 1 .. k] : IsInjective(f)
  <2>1. place \in [Name -> 1 .. k] /\ DOMAIN place = Name
    BY <1>2
  <2> HIDE DEF place
  <2>2. IsInjective(place)
    BY <1>2, <2>1 DEF IsInjective
  <2> QED BY <2>1, <2>2
<1>4. number \in [Name -> 1 .. k] /\ IsInjective(number)
  BY <1>3
<1> QED BY <1>1, <1>4 DEF IsInjective

LEMMA EmptyIsSound == Sound(Empty) /\ Whos(Empty) = {} /\ DOMAIN Empty.history = {}
<1>1. /\ DOMAIN <<>> = {} /\ <<>> \in Seq(HistoryRow)
      /\ <<>> \in [{} -> SUBSET Nat] /\ <<>> \in [{} -> RecoveryRow]
  OBVIOUS
<1>2. <<>> \in Maps(Nat, SUBSET Nat) /\ <<>> \in Maps(Nat, RecoveryRow)
  BY <1>1, MapsAre
<1>3. Empty \in Registry
  BY <1>1, <1>2 DEF Empty, Registry
<1> QED BY <1>1, <1>3 DEF Empty, Sound, Whos, OneRowEach

LEMMA Initially == Init => IInv
<1> SUFFICES ASSUME Init PROVE IInv
  OBVIOUS
<1> USE NamesAssumption
<1>1. TmuxOk /\ server.life = 1
  <2> DEFINE number == CHOOSE f \in [Name -> 1 .. Cardinality(Name)] : IsInjective(f)
  <2>1. /\ Cardinality(Name) \in Nat
        /\ number \in [Name -> 1 .. Cardinality(Name)]
        /\ \A n, m \in Name : number[n] = number[m] => n = m
    BY Numbers
  <2>2. /\ tmux = [n \in Name |-> [who |-> <<number[n], 1>>, running |-> TRUE]]
        /\ server = [life |-> 1, last |-> Cardinality(Name)]
    BY DEF Init
  <2> HIDE DEF number
  <2>3. \A n \in Name : number[n] \in Nat /\ number[n] <= Cardinality(Name)
    BY <2>1
  <2> QED BY <2>1, <2>2, <2>3 DEF TmuxOk, Identities
<1>2. Inventory(Live) /\ Sound(Empty) /\ reg = Reconciled(Empty, Live)
  BY <1>1, LiveSessions, EmptyIsSound DEF Init
<1>3. /\ Sound(reg) /\ Gone(Empty, reg, Live)
      /\ Whos(reg) \subseteq Whos(Empty) \cup {s.who : s \in Live}
  BY <1>2, Reconciling
<1>4. RegOk
  <2>1. \A w \in Whos(reg) : Issued(w)
    BY <1>1, <1>3, LiveSessions, EmptyIsSound
  <2>2. GoneIsGone
    BY <1>1, <1>3, LiveSessions, EmptyIsSound DEF GoneIsGone, Gone
  <2> QED BY <1>3, <2>1, <2>2 DEF RegOk
<1>5. WsOk
  <2>1. PICK fold \in {None, [id |-> 1, roots |-> Name, closed |-> <<>>]} :
           ws = [tabs |-> Name, pinned |-> {}, fold |-> fold, rest |-> 0, at |-> 1, rev |-> 0]
    BY DEF Init
  <2>2. CASE fold = None
    BY <2>1, <2>2 DEF WsOk
  <2>3. CASE fold = [id |-> 1, roots |-> Name, closed |-> <<>>]
    <3>1. DOMAIN <<>> = {} /\ <<>> \in [{} -> Snapshot]
      OBVIOUS
    <3>2. <<>> \in Maps(Name, Snapshot)
      BY <3>1, MapsAre
    <3>3. fold \in Fold /\ fold.roots = Name /\ TrueFold(fold)
      BY <2>3, <3>1, <3>2, FoldIs DEF TrueFold
    <3> HIDE DEF Fold
    <3> QED BY <2>1, <3>3 DEF WsOk
  <2> QED BY <2>2, <2>3
<1>6. DialogOk /\ RecreateOk /\ OwnOk /\ EndedOk /\ JobOk
  BY DEF Init, DialogOk, RecreateOk, OwnOk, EndedOk, JobOk
<1> QED BY <1>1, <1>4, <1>5, <1>6 DEF IInv

LEMMA Invariance == Spec => []IInv
<1>1. IInv /\ [Next]_vars => IInv'
  <2> SUFFICES ASSUME IInv, [Next]_vars PROVE IInv'
    OBVIOUS
  <2> USE NamesAssumption
  <2>1. CASE \/ NativeNew \/ NativeEnd \/ NativeRename \/ PaneChanges \/ HostRestart
             \/ UNCHANGED vars
    BY <2>1, WorldActions
  <2>2. CASE Unfold \/ Refold \/ CloseTab \/ OpenTab \/ OtherEdit \/ Pin
    BY <2>2, PageActions
  <2>3. CASE ListSampled \/ Sampled
    BY <2>3, SamplerActions
  <2>4. CASE BeginRecover \/ ReadRecovery \/ BeginRecreate \/ BeginRestore
    BY <2>4, BeginActions
  <2>5. CASE CheckSnapshot \/ Restoring \/ Create
    BY <2>5, MakingActions
  <2>6. CASE Record
    BY <2>6, RecordAction
  <2>7. CASE BeginTerminate \/ Terminated
    BY <2>7, TerminateActions
  <2>8. CASE Kill
    BY <2>8, KillAction
  <2>9. CASE Confirm("close") \/ Confirm("delete") \/ Apply \/ Cancel
    BY <2>9, DialogActions
  <2>10. CASE BeginFold
    BY <2>10, BeginFoldAction
  <2>11. CASE Archive \/ ArchiveFails
    BY <2>11, ArchiveActions
  <2>12. CASE NextSession \/ MemberError \/ MemberEnded
    BY <2>12, MemberActions
  <2>13. CASE FinishClosing \/ FinishDeleting \/ Crash
    BY <2>13, FinishActions
  <2> QED BY <2>1, <2>2, <2>3, <2>4, <2>5, <2>6, <2>7, <2>8, <2>9, <2>10,
             <2>11, <2>12, <2>13 DEF Next
<1> QED BY <1>1, Initially, PTL DEF Spec

----------------------------------------------------------------------------
(* Of the sessions that a handler has still to end, one that was confirmed *)
(* dead runs only if its pane has started since the handler looked at it.  *)
Waiting == IF job.stage = "archive" THEN Targets ELSE job.todo

Looked ==
    FoldJob => /\ \A s, t \in job.live : s.who = t.who => s = t
               /\ \A s \in Waiting : DeadOrRevived(s)

LEMMA WaitingIssued ==
    ASSUME IInv, FoldJob
    PROVE  FoldingOk /\ Waiting \subseteq job.live /\ \A s \in Waiting : Issued(s.who)
<1>1. FoldingOk
  BY Holders DEF IInv, FoldJob
<1>2. CASE job.stage = "archive"
  BY <1>1, <1>2 DEF FoldingOk, ArchiveOk, Fresher, Waiting, Targets
<1>3. CASE job.stage # "archive"
  BY <1>1, <1>3 DEF FoldingOk, EndingOk, Waiting, Targets
<1> QED BY <1>1, <1>2, <1>3

(* What a step must show while a fold is being ended.                      *)
LEMMA StillLooked ==
    ASSUME Looked, FoldJob, FoldJob', job'.confirmed = job.confirmed, job'.live = job.live,
           Waiting' \subseteq Waiting,
           \A s \in Waiting' : Running(s.who)' =>
               \/ s.who \in revived'
               \/ Running(s.who) /\ (s.who \in revived => s.who \in revived')
    PROVE  Looked'
<1>1. \A s \in Waiting' : DeadOrRevived(s)'
  <2> SUFFICES ASSUME NEW s \in Waiting', job.confirmed[s.name].dead, Running(s.who)'
               PROVE  s.who \in revived'
    BY DEF DeadOrRevived
  <2>1. DeadOrRevived(s)
    BY DEF Looked
  <2> QED BY <2>1 DEF DeadOrRevived
<1>2. \A s, t \in job'.live : s.who = t.who => s = t
  BY DEF Looked
<1> QED BY <1>1, <1>2 DEF Looked

LEMMA LookedInTmux ==
    ASSUME IInv, Looked, FoldJob, IsFiniteSet(Name),
           NativeNew \/ NativeEnd \/ NativeRename \/ PaneChanges \/ HostRestart
    PROVE  Looked'
<1> USE DEF IInv
<1>1. job' = job
  BY DEF NativeNew, NativeEnd, NativeRename, PaneChanges, HostRestart, Users
<1>2. /\ FoldJob' /\ Waiting' = Waiting
      /\ job'.confirmed = job.confirmed /\ job'.live = job.live
  BY <1>1 DEF FoldJob, Waiting, Targets, Members
<1>3. SUFFICES ASSUME NEW s \in Waiting, Running(s.who)'
               PROVE  \/ s.who \in revived'
                      \/ Running(s.who) /\ revived \subseteq revived'
  BY <1>2, StillLooked
<1>4. PICK k \in DOMAIN tmux' : tmux'[k].who = s.who /\ tmux'[k].running
  BY <1>3 DEF Running
<1>5. CASE NativeNew
  <2>1. PICK name \in Name : Given(name)
    BY <1>5 DEF NativeNew
  <2>2. /\ ~Issued(Identity) /\ name \notin DOMAIN tmux
        /\ tmux' = With(tmux, name, [who |-> Identity, running |-> TRUE])
    BY <2>1, Giving DEF Given
  <2>3. Issued(s.who)
    BY WaitingIssued
  <2>4. /\ tmux'[name].who = Identity /\ DOMAIN tmux' = DOMAIN tmux \cup {name}
        /\ \A n \in DOMAIN tmux : tmux'[n] = tmux[n]
    BY <2>2 DEF With
  <2>5. k \in DOMAIN tmux /\ tmux[k] = tmux'[k]
    BY <2>2, <2>3, <2>4, <1>4
  <2> QED BY <2>5, <1>4, <1>5 DEF Running, NativeNew
<1>6. CASE NativeEnd
  <2>1. PICK n \in DOMAIN tmux : tmux' = Without({n})
    BY <1>6 DEF NativeEnd
  <2>2. k \in DOMAIN tmux /\ tmux'[k] = tmux[k]
    BY <2>1 DEF Without, Restrict
  <2> QED BY <2>2, <1>4, <1>6 DEF Running, NativeEnd
<1>7. CASE NativeRename
  <2>1. PICK n \in DOMAIN tmux, m \in Name \ DOMAIN tmux : tmux' = With(Without({n}), m, tmux[n])
    BY <1>7 DEF NativeRename
  <2>2. /\ DOMAIN tmux' = (DOMAIN tmux \ {n}) \cup {m}
        /\ \A i \in DOMAIN tmux' : tmux'[i] = IF i = m THEN tmux[n] ELSE tmux[i]
    BY <2>1 DEF With, Without, Restrict
  <2> QED BY <2>2, <1>4, <1>7 DEF Running, NativeRename
<1>8. CASE PaneChanges
  <2>1. PICK n \in DOMAIN tmux :
           /\ tmux' = [tmux EXCEPT ![n].running = ~@]
           /\ revived' = IF tmux[n].running THEN revived ELSE revived \cup {tmux[n].who}
    BY <1>8 DEF PaneChanges
  <2>2. /\ k \in DOMAIN tmux /\ tmux'[k].who = tmux[k].who
        /\ k # n => tmux'[k] = tmux[k]
        /\ k = n => tmux'[k].running = ~tmux[k].running
    BY <2>1 DEF TmuxOk
  <2>3. CASE k # n
    BY <2>1, <2>2, <2>3, <1>4 DEF Running
  <2>4. CASE k = n
    BY <2>1, <2>2, <2>4, <1>4
  <2> QED BY <2>3, <2>4
<1>9. CASE HostRestart
  <2>1. DOMAIN tmux' = {}
    BY <1>9 DEF HostRestart
  <2> QED BY <2>1, <1>4
<1> QED BY <1>5, <1>6, <1>7, <1>8, <1>9

LEMMA LookedByHandler ==
    ASSUME IInv, Looked, FoldJob, FoldJob',
           Archive \/ NextSession \/ Kill \/ MemberError \/ MemberEnded
    PROVE  Looked'
<1> USE DEF IInv
<1>1. FoldingOk /\ Waiting \subseteq job.live /\ job \in FoldRec
  BY WaitingIssued DEF FoldingOk
<1>2. CASE Archive
  <2>1. job' # None /\ job.stage = "archive"
    BY <1>2 DEF Archive, FoldJob
  <2>2. job' = [job EXCEPT !.stage = "next", !.todo = Targets, !.fold = job'.fold]
    BY <1>2, <2>1, <1>1 DEF Archive, Refuse, FoldRec
  <2>3. /\ job'.confirmed = job.confirmed /\ job'.live = job.live
        /\ job'.stage = "next" /\ job'.todo = Targets
    BY <1>1, <2>2 DEF FoldRec
  <2>4. Waiting' = Waiting /\ UNCHANGED <<tmux, revived>>
    BY <1>2, <2>1, <2>3 DEF Archive, Waiting, world
  <2> QED BY <2>3, <2>4, StillLooked DEF Running
<1>3. CASE NextSession
  <2>1. PICK s \in job.todo :
           /\ job' = IF job.confirmed[s.name].dead => StillDead(s)
                     THEN [job EXCEPT !.now = s, !.stage = "kill"] ELSE Done(s, TRUE)
           /\ revived' = revived \ {s.who}
    BY <1>3 DEF NextSession
  <2>2. /\ job'.confirmed = job.confirmed /\ job'.live = job.live /\ job'.stage # "archive"
        /\ \/ job'.todo = job.todo /\ (job.confirmed[s.name].dead => StillDead(s))
           \/ job'.todo = job.todo \ {s}
    BY <1>1, <2>1 DEF Done, FoldRec
  <2>3. Waiting = job.todo /\ Waiting' = job'.todo /\ tmux' = tmux
    BY <1>3, <2>2 DEF NextSession, Waiting, world
  <2>4. \A t \in Waiting' : Running(t.who)' = Running(t.who)
    BY <2>3 DEF Running
  <2>5. \A t \in job.todo \ {s} : t.who # s.who
    BY <1>1, <2>3 DEF Looked
  <2>6. ASSUME NEW t \in Waiting', job.confirmed[t.name].dead, Running(t.who)
        PROVE  t.who \in revived'
    <3>1. CASE t = s
      <4>1. job.confirmed[s.name].dead => StillDead(s)
        BY <2>2, <2>3, <3>1
      <4>2. s.name \in DOMAIN tmux /\ tmux[s.name].who = s.who /\ ~tmux[s.name].running
        BY <4>1, <2>6, <3>1 DEF StillDead
      <4> QED BY <4>2, <2>6, <3>1 DEF Running, TmuxOk
    <3>2. CASE t # s
      <4>1. t \in job.todo /\ DeadOrRevived(t)
        BY <2>2, <2>3, <2>6 DEF Looked
      <4> QED BY <4>1, <3>2, <2>1, <2>5, <2>6 DEF DeadOrRevived
    <3> QED BY <3>1, <3>2
  <2>7. \A t \in Waiting' : DeadOrRevived(t)'
    BY <2>2, <2>4, <2>6 DEF DeadOrRevived
  <2> QED BY <2>2, <2>7 DEF Looked
<1>4. CASE Kill
  <2>1. /\ job' = [job EXCEPT !.stage = job'.stage] /\ job.stage = "kill" /\ job'.stage # "archive"
        /\ tmux' = tmux \/ tmux' = Without(NamesOf(job.now.who))
        /\ revived' = revived
    <3>1. PICK killed \in BOOLEAN, outcome \in {"error", "ended"} : Killed(killed, outcome)
      BY <1>4 DEF Kill
    <3> QED BY <1>1, <1>4, <3>1 DEF Kill, Killed, FoldRec
  <2>2. /\ job'.confirmed = job.confirmed /\ job'.live = job.live /\ Waiting' = Waiting
    BY <1>1, <2>1 DEF FoldRec, Waiting
  <2>3. \A w : Running(w)' => Running(w)
    BY <2>1 DEF Running, Without, Restrict
  <2> QED BY <2>1, <2>2, <2>3, StillLooked
<1>5. CASE MemberError \/ MemberEnded
  <2>1. PICK failed \in BOOLEAN : job' = Done(job.now, failed)
    BY <1>5 DEF MemberError, MemberEnded
  <2>2. /\ job'.confirmed = job.confirmed /\ job'.live = job.live
        /\ job'.stage = "next" /\ job'.todo \subseteq job.todo
    BY <1>1, <2>1 DEF Done, FoldRec
  <2>3. Waiting' \subseteq Waiting /\ UNCHANGED <<tmux, revived>>
    BY <1>5, <2>2 DEF MemberError, MemberEnded, Waiting, world
  <2> QED BY <2>2, <2>3, StillLooked DEF Running
<1> QED BY <1>2, <1>3, <1>4, <1>5

LEMMA LookedAtFirst ==
    ASSUME IInv, BeginFold, job' # job
    PROVE  Looked'
<1> USE DEF IInv
<1>1. /\ job' = [kind |-> dialog.mode, stage |-> "archive", confirmed |-> dialog.confirmed,
                 at |-> dialog.at, rev |-> dialog.rev, id |-> dialog.id, fold |-> ws.fold,
                 live |-> Live, todo |-> {}, now |-> None, failed |-> FALSE]
      /\ \A n \in dialog.roots : AsConfirmed(n, Closed)
      /\ tmux' = tmux /\ DOMAIN dialog.confirmed = dialog.roots
  BY DEF BeginFold, Free, Refuse, world, DialogOk
<1>2. job'.live = Live /\ job'.confirmed = dialog.confirmed /\ job'.stage = "archive"
  BY <1>1
<1>3. \A s, t \in Live : s.who = t.who => s = t
  BY DEF Live, TmuxOk
<1>4. \A s \in Waiting' : s \in Live /\ s.name \in dialog.roots
  BY <1>1, <1>2 DEF Waiting, Targets, Members
<1>5. ASSUME NEW s \in Waiting', dialog.confirmed[s.name].dead PROVE ~Running(s.who)
  <2>1. s.name \in DOMAIN tmux /\ tmux[s.name].who = s.who
    BY <1>4 DEF Live
  <2>2. ~tmux[s.name].running
    BY <1>1, <1>4, <1>5, <2>1 DEF AsConfirmed
  <2> QED BY <2>1, <2>2 DEF Running, TmuxOk
<1>6. \A s \in Waiting' : DeadOrRevived(s)'
  BY <1>1, <1>2, <1>5 DEF DeadOrRevived, Running
<1> QED BY <1>2, <1>3, <1>6 DEF Looked

LEMMA LookedAlways == Spec => []Looked
<1>1. Init => Looked
  BY DEF Init, Looked, FoldJob
<1>2. IInv /\ Looked /\ [Next]_vars => Looked'
  <2> SUFFICES ASSUME IInv, Looked, [Next]_vars, FoldJob' PROVE Looked'
    BY DEF Looked
  <2> USE NamesAssumption DEF IInv
  <2>1. ASSUME UNCHANGED <<tmux, job, revived>> PROVE Looked'
    BY <2>1 DEF Looked, FoldJob, Waiting, Targets, Members, DeadOrRevived, Running
  <2>2. CASE NativeNew \/ NativeEnd \/ NativeRename \/ PaneChanges \/ HostRestart
    <3>1. FoldJob
      BY <2>2 DEF NativeNew, NativeEnd, NativeRename, PaneChanges, HostRestart, Users, FoldJob
    <3> QED BY <2>2, <3>1, LookedInTmux
  <2>3. CASE \/ Unfold \/ Refold \/ CloseTab \/ OpenTab \/ OtherEdit \/ Pin \/ ReadRecovery
             \/ Confirm("close") \/ Confirm("delete") \/ Apply \/ Cancel \/ UNCHANGED vars
    BY <2>1, <2>3 DEF Unfold, Refold, CloseTab, OpenTab, OtherEdit, Pin, Pages, ReadRecovery,
       Confirm, Apply, Cancel, world, vars
  <2> DEFINE Ends(w) == w # None /\ w.kind \in {"close", "delete"}
  <2>0. Ends(job')
    BY DEF FoldJob
  <2>4. ~(ListSampled \/ Sampled)
    <3>1. ASSUME ListSampled PROVE job'.kind = "sample"
      BY <3>1 DEF ListSampled
    <3>2. ~Sampled
      BY <2>0 DEF Sampled
    <3> QED BY <2>0, <3>1, <3>2
  <2>5. ~(BeginRecover \/ BeginRecreate \/ BeginRestore)
    <3>1. ASSUME BeginRecover PROVE job'.kind = "recover"
      BY <3>1 DEF BeginRecover, Making
    <3>2. ASSUME BeginRecreate PROVE job' = None \/ job'.kind = "recreate"
      BY <3>2 DEF BeginRecreate, Making
    <3>3. ASSUME BeginRestore PROVE job'.kind = "restore"
      BY <3>3 DEF BeginRestore, Making
    <3> QED BY <2>0, <3>1, <3>2, <3>3
  <2>6. ~(CheckSnapshot \/ Restoring \/ Create \/ Record)
    <3>1. ASSUME CheckSnapshot \/ Restoring \/ Create \/ Record PROVE FALSE
      <4>1. MakingOk
        BY <3>1, Holders DEF CheckSnapshot, Restoring, Create, Record
      <4>2. job.kind \notin {"close", "delete"} /\ (job' = None \/ job'.kind = job.kind)
        BY <3>1, <4>1 DEF CheckSnapshot, Restoring, Create, Record, MakingOk
      <4> QED BY <4>2 DEF FoldJob
    <3> QED BY <3>1
  <2>7. ~(BeginTerminate \/ Terminated)
    <3>1. ASSUME BeginTerminate PROVE job' = None \/ job'.kind = "terminate"
      <4>1. PICK t : Terminate(t)
        BY <3>1 DEF BeginTerminate
      <4>2. job' = None \/ job' = [kind |-> "terminate", stage |-> "kill", now |-> t]
        BY <4>1 DEF Terminate
      <4> QED BY <4>2
    <3>2. ~Terminated
      BY <2>0 DEF Terminated
    <3> QED BY <2>0, <3>1, <3>2
  <2>8. ~(ArchiveFails \/ FinishClosing \/ FinishDeleting \/ Crash)
    BY DEF ArchiveFails, FinishClosing, FinishDeleting, Crash, Answer, Refuse, FoldJob
  <2>9. CASE BeginFold
    <3>1. CASE job' = job
      BY <2>1, <2>9, <3>1 DEF BeginFold, Free, FoldJob
    <3>2. CASE job' # job
      BY <2>9, <3>2, LookedAtFirst
    <3> QED BY <3>1, <3>2
  <2>10. CASE Archive \/ NextSession \/ Kill \/ MemberError \/ MemberEnded
    <3>1. FoldJob
      <4>1. CASE Kill
        <5>1. job # None /\ job.stage = "kill"
          BY <4>1 DEF Kill
        <5>2. CASE FoldingOk
          BY <5>1, <5>2 DEF FoldingOk, FoldRec, FoldJob
        <5>3. CASE TerminateOk
          <6>1. job'.kind = "terminate"
            BY <4>1, <5>3 DEF TerminateOk, Kill, Killed
          <6> QED BY <6>1 DEF FoldJob
        <5> QED BY <5>1, <5>2, <5>3, Holders
      <4> QED BY <2>10, <4>1 DEF Archive, NextSession, MemberError, MemberEnded
    <3> QED BY <2>10, <3>1, LookedByHandler
  <2> QED BY <2>2, <2>3, <2>4, <2>5, <2>6, <2>7, <2>8, <2>9, <2>10 DEF Next
<1> QED BY <1>1, <1>2, Invariance, PTL DEF Spec

----------------------------------------------------------------------------
(* The row of a snapshot is of the session it was saved from, a row that   *)
(* says that its session is gone is right, and a session that was          *)
(* recovered is known as the recovery of its row, whatever has taken names *)
(* and numbers since.                                                      *)
THEOREM Records == Spec => []RecordsAreTrue
<1>1. IInv => SnapshotsAreTrue
  BY ClosedIs DEF IInv, WsOk, TrueFold, SnapshotsAreTrue
<1>2. IInv => RecoveriesAreKnown
  <2> SUFFICES ASSUME IInv, NEW o \in own
               PROVE  IsRecovery(reg, o.session, o.source)
    BY DEF RecoveriesAreKnown
  <2>1. KnownAs(reg, o.session.who, o.source)
    BY DEF IInv, OwnOk
  <2> QED BY <2>1 DEF KnownAs, IsRecovery, Histories, At
<1> QED BY <1>1, <1>2, Invariance, PTL DEF IInv, RegOk, RecordsAreTrue

(* A session that was ended with its fold is offered for recovery until    *)
(* something else has its name, also when the fold is gone.                *)
THEOREM Recoverable == Spec => []RecoveryStaysEnabled
<1>1. IInv => RecoveryStaysEnabled
  BY DEF IInv, EndedOk, HasRow, RecoveryStaysEnabled
<1> QED BY <1>1, Invariance, PTL

(* The service ends a session only if that very session was confirmed, its *)
(* row is in the history and its snapshot was saved: an identity is given  *)
(* once, so a new session with the name or the number is never taken for   *)
(* the one that was listed.  Nor does it end one while a session that is   *)
(* to be ended too, and was confirmed dead, runs again, unless that        *)
(* session has started since the handler last looked at it.                *)
THEOREM Confirmed == Spec => OnlyConfirmedEnd
<1> DEFINE Right(who) ==
        /\ InHistory(who)
        /\ IF FoldJob
           THEN /\ \E m \in Members : job.confirmed[m].who = who
                /\ SnapshotSaved(who)
                /\ \A s \in job.todo : DeadOrRevived(s)
           ELSE job.now.who = who
           Rightly == job' # job => \A n \in DOMAIN tmux \ DOMAIN tmux' : Right(tmux[n].who)
<1>1. IInv /\ Looked /\ [Next]_vars => [Rightly]_vars
  <2> SUFFICES ASSUME IInv, Looked, Next, job' # job, NEW n \in DOMAIN tmux \ DOMAIN tmux'
               PROVE  Right(tmux[n].who)
    BY DEF vars
  <2> USE DEF IInv
  <2>1. Kill
    <3>1. tmux' # tmux
      OBVIOUS
    <3>2. ~Create
      <4>1. ASSUME Given(job.name) PROVE FALSE
        BY <4>1 DEF Given, With
      <4> QED BY <4>1, <3>1 DEF Create, world
    <3> QED
      BY <3>1, <3>2 DEF Next, world, Users, Pages, Confirm, Apply, Cancel, BeginFold, Archive,
         ArchiveFails, NextSession, MemberError, MemberEnded, FinishClosing, FinishDeleting,
         BeginTerminate, Terminate, Terminated, BeginRecover, CheckSnapshot, ReadRecovery,
         BeginRecreate, BeginRestore, Restoring, Record, ListSampled, Sampled, NativeNew,
         NativeEnd, NativeRename, PaneChanges, HostRestart, Unfold, Refold, CloseTab, OpenTab,
         OtherEdit, Pin, Crash
  <2> DEFINE s == job.now
  <2>2. job # None /\ job.stage = "kill" /\ tmux' = Without(NamesOf(s.who))
    BY <2>1 DEF Kill, Killed
  <2>3. tmux[n].who = s.who
    BY <2>2 DEF Without, NamesOf, Restrict
  <2>4. FoldingOk \/ TerminateOk
    BY <2>2, Holders
  <2>5. CASE FoldingOk
    <3>1. /\ FoldJob /\ EndingOk /\ s \in Targets
          /\ job.confirmed[s.name].who = s.who
      BY <2>2, <2>5 DEF FoldingOk, FoldRec, EndingOk, FoldJob
    <3>2. s.name \in Members /\ InHistory(s.who)
      BY <3>1 DEF EndingOk, Targets, Whos, InHistory
    <3>3. SnapshotSaved(s.who)
      BY <3>1 DEF EndingOk, Saved, SnapshotSaved, Closed
    <3>4. \A t \in job.todo : DeadOrRevived(t)
      BY <2>2, <3>1 DEF Looked, Waiting
    <3> QED BY <2>3, <3>1, <3>2, <3>3, <3>4
  <2>6. CASE TerminateOk
    <3>1. ~FoldJob /\ s.who \in Whos(reg)
      BY <2>6 DEF TerminateOk, FoldJob
    <3> QED BY <2>3, <3>1 DEF Whos, InHistory
  <2> QED BY <2>4, <2>5, <2>6
<1> QED BY <1>1, Invariance, LookedAlways, PTL DEF Spec, OnlyConfirmedEnd

(* A handler changes nothing of the workspace but its fold, and takes the  *)
(* fold and its tabs away only if it is the fold that was confirmed and    *)
(* none of the sessions it listed lives.                                   *)
THEOREM Kept == Spec => FoldsAreKept
<1> DEFINE Keeps ==
        job' # job /\ ws' # ws =>
          /\ ws'.rest = ws.rest /\ ws'.pinned = ws.pinned
          /\ \/ ws'.tabs = ws.tabs /\ ws'.fold # None /\ ws.at = job.at
             \/ /\ ws.tabs \ ws'.tabs = Members /\ ws.fold = job.fold
                /\ \A s \in Targets : ~Alive(s.who)
<1>1. IInv /\ [Next]_vars => [Keeps]_vars
  <2> SUFFICES ASSUME IInv, Next, job' # job, ws' # ws
               PROVE  Keeps
    BY DEF vars
  <2> USE DEF IInv
  <2>1. Archive \/ ArchiveFails \/ FinishDeleting
    BY DEF Next, world, Users, Pages, Confirm, Apply, Cancel, BeginFold,
       NextSession, Kill, Killed, MemberError, MemberEnded, FinishClosing,
       BeginTerminate, Terminate, Terminated, BeginRecover, CheckSnapshot, ReadRecovery,
       BeginRecreate, BeginRestore, Restoring, Create, Record, ListSampled, Sampled, NativeNew,
       NativeEnd, NativeRename, PaneChanges, HostRestart, Unfold, Refold, CloseTab, OpenTab,
       OtherEdit, Pin, Crash
  <2>2. ws \in [tabs: SUBSET Name, pinned: SUBSET Name, fold: Fold \cup {None},
                rest: Nat, at: Nat, rev: Nat]
    BY DEF WsOk
  <2>3. FoldingOk
    BY <2>1, Holders DEF Archive, ArchiveFails, FinishDeleting, Finishing, FoldJob
  <2>4. CASE Archive \/ ArchiveFails
    <3> DEFINE now == Reconciled(reg, job.live)
    <3>1. job.stage = "archive" /\ ws' = Archived(now) /\ Storable
      BY <2>4 DEF Archive, ArchiveFails
    <3>2. Candidate(now) # None
      BY <2>3, <3>1, Candidates
    <3> HIDE DEF now
    <3>3. ws' = [ws EXCEPT !.fold = Candidate(now), !.at = @ + 1] /\ job.at = ws.at
      BY <3>1 DEF Archived, Storable
    <3>4. ws'.rest = ws.rest /\ ws'.pinned = ws.pinned /\ ws'.tabs = ws.tabs /\ ws'.fold # None
      BY <2>2, <3>2, <3>3
    <3> QED BY <3>3, <3>4
  <2>5. CASE FinishDeleting
    <3>1. /\ ~job.failed /\ Removable /\ ws' = Removed /\ Deleting
          /\ job.stage = "next" /\ job.todo = {}
      BY <2>5 DEF FinishDeleting, Finishing, Deleting
    <3>2. ws' = [tabs |-> ws.tabs \ Members, pinned |-> ws.pinned, fold |-> None,
                 rest |-> ws.rest, at |-> ws.at + 1, rev |-> ws.rev]
      BY <2>2, <3>1 DEF Removed
    <3>3. ws.fold = job.fold /\ Members \subseteq ws.tabs
      BY <2>3, <3>1 DEF FoldingOk, Removable, WsOk
    <3>4. \A s \in Targets : ~Alive(s.who)
      BY <2>3, <3>1 DEF FoldingOk, EndingOk
    <3> QED BY <3>2, <3>3, <3>4
  <2> QED BY <2>1, <2>4, <2>5
<1> QED BY <1>1, Invariance, PTL DEF Spec, FoldsAreKept

=============================================================================
