------------------------ MODULE WorkspaceViewsProofs ------------------------
(***************************************************************************)
(* Theorems about WorkspaceViews, for any set of terminals, however many   *)
(* views and sessions they are of, and every bound: who owns the size of a *)
(* session is one view, and one that may.                                  *)
(***************************************************************************)
EXTENDS WorkspaceViews, FiniteSetTheorems, TLAPS

Tasks == {"handler", "release"} \X Conn
ChangeRec == [on: Conn, ignore: BOOLEAN]
ConnRec ==
    [at: {"free", "asked", "joining", "serving", "focusing", "closing", "leaving", "done"},
     rel: {"no", "start", "closing", "syncing", "done"},
     open: {"no", "open", "4004", "exit", "closed", "hung up"}, inbox: Nat,
     client: {"none", "on", "gone"}, ignoring: BOOLEAN, ignored: BOOLEAN]

(* The registry believes of each client what tmux was told.                *)
Typed(cs) == cs \in [Conn -> ConnRec] /\ \A c \in Conn : cs[c].ignoring = cs[c].ignored

(* What is attached is served, and leaves when its view is disconnected.   *)
Placed(cs) ==
    \A c \in Attached :
        /\ cs[c].at \in {"joining", "serving", "focusing"}
        /\ ViewOf(c) \in evicted => cs[c].rel # "no"

Counting(cs, c) ==
    c \in Attached /\ cs[c].client = "on" /\ ~cs[c].ignoring /\ cs[c].rel = "no"

Pending(changes, c, ignore) ==
    \E i \in DOMAIN changes : changes[i] = [on |-> c, ignore |-> ignore]

(* Once the changes are made that are left: who counts then.               *)
Stays(cs, changes, c) ==
    (Counting(cs, c) /\ ~Pending(changes, c, TRUE)) \/ Pending(changes, c, FALSE)

OneCounts(cs) ==
    \A c, d \in Conn : Counting(cs, c) /\ Counting(cs, d) /\ SessionOf(c) = SessionOf(d) => c = d

OneStays(cs, changes) ==
    \A c, d \in Conn : Stays(cs, changes, c) /\ Stays(cs, changes, d)
                          /\ SessionOf(c) = SessionOf(d) => c = d

(* The previous owners are released before the next ones are enabled.      *)
Ordered(changes) ==
    \A i, j \in DOMAIN changes : i < j /\ ~changes[i].ignore => ~changes[j].ignore

SizingOk ==
    /\ sizing \in [by: Tasks \cup {None}, changes: Seq(ChangeRec), looked: BOOLEAN, failed: BOOLEAN]
    /\ unsure \in BOOLEAN
    /\ sizing.by = None => sizing = Unlocked
    /\ sizing.by # None => sizing.changes # <<>>
    /\ Ordered(sizing.changes)

OwnersOk ==
    /\ ~unsure /\ ~sizing.failed => OneCounts(conn)
    /\ ~sizing.failed /\ sizing.by # None => OneStays(conn, sizing.changes)

IInv ==
    /\ attachments \in Seq(Conn)
    /\ Typed(conn) /\ Placed(conn) /\ SizingOk /\ OwnersOk

----------------------------------------------------------------------------
(* Induction over a list, for which a set stands for the predicate.        *)
LEMMA SetInduction ==
    ASSUME NEW n \in Nat, NEW P, 0 \in P,
           \A i \in 0 .. n : i < n /\ i \in P => i + 1 \in P
    PROVE  0 .. n \subseteq P
<1> DEFINE Bad == {k \in 0 .. n : k \notin P}
           Cuts == {0 .. k : k \in Bad}
<1> SUFFICES ASSUME Bad # {} PROVE FALSE
  OBVIOUS
<1>1. IsWellFoundedOn(StrictSubsetOrdering(0 .. n), SUBSET (0 .. n))
  <2>1. IsFiniteSet(0 .. n)
    BY FS_Interval
  <2> QED BY <2>1, FS_FiniteSubsetsOfFinite, FS_StrictSubsetOrderingWellFounded
<1>2. Cuts \subseteq SUBSET (0 .. n) /\ Cuts # {}
  OBVIOUS
<1>3. PICK x \in Cuts : \A y \in Cuts : ~ (<<y, x>> \in StrictSubsetOrdering(0 .. n))
  <2> HIDE DEF Cuts
  <2> QED BY <1>1, <1>2, WFMin
<1>4. PICK k \in Bad : x = 0 .. k
  OBVIOUS
<1>5. k - 1 \in Bad
  OBVIOUS
<1>6. <<0 .. (k - 1), x>> \in StrictSubsetOrdering(0 .. n)
  <2>1. 0 .. (k - 1) \subseteq 0 .. k /\ k \in 0 .. k /\ k \notin 0 .. (k - 1)
    OBVIOUS
  <2> QED BY <2>1, <1>2, <1>4, <1>5 DEF StrictSubsetOrdering
<1> QED BY <1>3, <1>5, <1>6

(* A list and one more.                                                    *)
LEMMA AppendIs ==
    ASSUME NEW T, NEW q \in Seq(T), NEW x \in T
    PROVE  Append(q, x) \in Seq(T) /\ ToSet(Append(q, x)) = ToSet(q) \cup {x}
<1>1. /\ DOMAIN Append(q, x) = DOMAIN q \cup {Len(q) + 1} /\ Append(q, x)[Len(q) + 1] = x
      /\ \A i \in DOMAIN q : Append(q, x)[i] = q[i]
  OBVIOUS
<1> QED BY <1>1 DEF ToSet

(* A selection keeps what it selects, and nothing else.                    *)
LEMMA AmongIs ==
    ASSUME NEW T, NEW seq \in Seq(T), NEW S
    PROVE  Among(seq, S) \in Seq(T) /\ ToSet(Among(seq, S)) = ToSet(seq) \cap S
<1> DEFINE n == Len(seq)
           Step(kept, x) == IF x \in S THEN Append(kept, x) ELSE kept
           F(f, m) == f = [i \in 0 .. m |-> IF i = 0 THEN <<>> ELSE Step(f[i - 1], seq[i])]
<1>1. n \in Nat /\ seq \in [1 .. n -> T] /\ Len(seq) = n /\ DOMAIN seq = 1 .. n
  OBVIOUS
<1> HIDE DEF n
<1>2. \E f : F(f, Len(seq))
  <2> DEFINE P == {m \in 0 .. n : \E f : F(f, m)}
  <2>1. F([i \in 0 .. 0 |-> <<>>], 0)
    OBVIOUS
  <2> HIDE DEF Step
  <2>2. ASSUME NEW m \in 0 .. n, m < n, NEW f, F(f, m) PROVE \E g : F(g, m + 1)
    <3> DEFINE g == [i \in 0 .. m + 1 |-> IF i = m + 1 THEN Step(f[m], seq[i]) ELSE f[i]]
    <3>1. \A i \in 0 .. m : f[i] = IF i = 0 THEN <<>> ELSE Step(f[i - 1], seq[i])
      BY <2>2
    <3>2. \A i \in 0 .. m : g[i] = f[i]
      BY <1>1
    <3>3. g[m + 1] = Step(g[m], seq[m + 1])
      BY <3>2, <1>1
    <3>4. g = [i \in 0 .. m + 1 |-> g[i]]
      OBVIOUS
    <3> HIDE DEF g
    <3>5. ASSUME NEW i \in 0 .. m + 1
          PROVE  g[i] = IF i = 0 THEN <<>> ELSE Step(g[i - 1], seq[i])
      <4>1. CASE i = m + 1
        BY <4>1, <3>3, <1>1
      <4>2. CASE i # m + 1
        <5>1. i \in 0 .. m /\ (i # 0 => i - 1 \in 0 .. m)
          BY <4>2, <1>1
        <5> QED BY <5>1, <3>1, <3>2
      <4> QED BY <4>1, <4>2
    <3>6. F(g, m + 1)
      BY <3>4, <3>5
    <3> QED BY <3>6
  <2> HIDE DEF F
  <2>3. 0 \in P /\ \A m \in 0 .. n : m < n /\ m \in P => m + 1 \in P
    BY <1>1, <2>1, <2>2
  <2> HIDE DEF P
  <2>4. 0 .. n \subseteq P
    BY <1>1, <2>3, SetInduction
  <2>5. \E f : F(f, n)
    BY <2>4, <1>1 DEF P
  <2> QED BY <2>5, <1>1
<1> DEFINE kept == CHOOSE f : F(f, Len(seq))
<1>3. F(kept, n)
  BY <1>1, <1>2
<1>4. Among(seq, S) = kept[n]
  BY <1>1 DEF Among
<1> HIDE DEF kept, Step
<1>5. kept[0] = <<>> /\ \A m \in 0 .. n : m < n => kept[m + 1] = Step(kept[m], seq[m + 1])
  BY <1>1, <1>3
<1> DEFINE Upto(m) == {seq[i] : i \in 1 .. m}
           G(m) == kept[m] \in Seq(T) /\ ToSet(kept[m]) = Upto(m) \cap S
           P == {m \in 0 .. n : G(m)}
<1>6. G(0)
  BY <1>5 DEF ToSet
<1>7. ASSUME NEW m \in 0 .. n, m < n, G(m) PROVE G(m + 1)
  <2>0. 1 .. m + 1 = 1 .. m \cup {m + 1} /\ m + 1 \in 1 .. n
    BY <1>1, <1>7
  <2>1. Upto(m + 1) = Upto(m) \cup {seq[m + 1]} /\ seq[m + 1] \in T
    BY <1>1, <2>0
  <2>2. kept[m + 1] = Step(kept[m], seq[m + 1])
    BY <1>5, <1>7
  <2> HIDE DEF Upto
  <2> USE DEF Step
  <2>3. CASE seq[m + 1] \in S
    <3>1. kept[m + 1] = Append(kept[m], seq[m + 1])
      BY <2>2, <2>3
    <3> QED BY <2>1, <2>3, <3>1, <1>7, AppendIs
  <2>4. CASE seq[m + 1] \notin S
    BY <2>1, <2>2, <2>4, <1>7
  <2> QED BY <2>3, <2>4
<1> HIDE DEF G
<1>8. 0 \in P /\ \A m \in 0 .. n : m < n /\ m \in P => m + 1 \in P
  BY <1>1, <1>6, <1>7
<1> HIDE DEF P
<1>9. G(n)
  <2>1. n \in P
    BY <1>1, <1>8, SetInduction
  <2> QED BY <2>1 DEF P
<1>10. Upto(n) = ToSet(seq)
  BY <1>1 DEF ToSet
<1> QED BY <1>4, <1>9, <1>10 DEF G

----------------------------------------------------------------------------
(* Records of connections.                                                 *)
LEMMA FreeIs == Free \in ConnRec /\ Free.ignoring = Free.ignored /\ Free.client = "none"
  BY DEF Free, ConnRec

LEMMA Tidying ==
    ASSUME NEW r \in ConnRec
    PROVE  Tidy(r) = r \/ (r.at = "done" /\ Tidy(r) = Free)
  BY DEF Tidy

LEMMA ClosingIs ==
    ASSUME NEW r \in ConnRec, NEW why \in {"4004", "exit", "closed"}
    PROVE  LET u == Closing(r, why) IN
           /\ u \in ConnRec /\ u.ignoring = r.ignoring /\ u.ignored = r.ignored
           /\ u.at = r.at /\ u.rel = r.rel /\ u.client = r.client
  BY DEF Closing, ConnRec

(* What leaves the sizes alone: nothing comes to count, and what is        *)
(* attached is in its place.                                               *)
LEMMA Calm ==
    ASSUME IInv, UNCHANGED sizes, attachments' \in Seq(Conn), Typed(conn'), Placed(conn)',
           \A c \in Conn : Counting(conn, c)' => Counting(conn, c)
    PROVE  IInv'
<1>1. SizingOk'
  BY DEF IInv, SizingOk, sizes, Ordered, Unlocked
<1>2. \A c \in Conn : Stays(conn, sizing.changes, c)' => Stays(conn, sizing.changes, c)
  BY DEF Stays, Pending, sizes
<1>3. OwnersOk'
  BY <1>2 DEF IInv, OwnersOk, OneCounts, OneStays, sizes
<1> QED BY <1>1, <1>3 DEF IInv, Typed

(* A step about one connection.                                            *)
LEMMA OneConn ==
    ASSUME IInv, UNCHANGED sizes, NEW c \in Conn, NEW r \in ConnRec, r.ignoring = r.ignored,
           conn' = [conn EXCEPT ![c] = r], attachments' \in Seq(Conn),
           \A d \in Attached' : d # c => d \in Attached,
           evicted' \subseteq evicted,
           c \in Attached' =>
              /\ r.at \in {"joining", "serving", "focusing"}
              /\ ViewOf(c) \in evicted' => r.rel # "no"
              /\ r.client = "on" /\ ~r.ignoring /\ r.rel = "no" => Counting(conn, c)
    PROVE  IInv'
<1>1. /\ DOMAIN conn' = Conn /\ conn'[c] = r
      /\ \A d \in Conn : d # c => conn'[d] = conn[d]
  BY DEF IInv, Typed
<1>2. Typed(conn')
  BY <1>1 DEF IInv, Typed
<1>3. Attached' \subseteq Conn
  BY DEF Attached, ToSet
<1>4. Placed(conn)'
  BY <1>1, <1>3 DEF IInv, Placed
<1>5. \A d \in Conn : Counting(conn, d)' => Counting(conn, d)
  BY <1>1 DEF Counting
<1> QED BY <1>2, <1>4, <1>5, Calm

(* A step about no connection.                                             *)
LEMMA NoConn ==
    ASSUME IInv, UNCHANGED <<conn, attachments, sizes>>, evicted' \subseteq evicted
    PROVE  IInv'
<1>1. Attached' = Attached
  BY DEF Attached
<1>2. Placed(conn)' /\ \A c \in Conn : Counting(conn, c)' => Counting(conn, c)
  BY <1>1 DEF IInv, Placed, Counting
<1> QED BY <1>2, Calm DEF IInv

(* Sockets close: one that is forgotten for it was not attached.           *)
LEMMA HangingUp ==
    ASSUME IInv, UNCHANGED <<registry, sizes>>, NEW cs, conn' = HungUp(cs)
    PROVE  IInv'
<1> DEFINE Up(c) == [conn[c] EXCEPT !.open = "hung up"]
<1>1. \A c \in Conn : /\ conn[c] \in ConnRec /\ conn[c].ignoring = conn[c].ignored
                      /\ conn'[c] = IF c \in cs THEN Tidy(Up(c)) ELSE conn[c]
  BY DEF IInv, Typed, HungUp
<1>2. \A c \in Conn : /\ Up(c) \in ConnRec /\ Up(c).ignoring = conn[c].ignoring
                      /\ Up(c).ignored = conn[c].ignored /\ Up(c).at = conn[c].at
                      /\ Up(c).rel = conn[c].rel /\ Up(c).client = conn[c].client
  <2> SUFFICES ASSUME NEW r \in ConnRec
               PROVE  LET u == [r EXCEPT !.open = "hung up"] IN
                      /\ u \in ConnRec /\ u.ignoring = r.ignoring /\ u.ignored = r.ignored
                      /\ u.at = r.at /\ u.rel = r.rel /\ u.client = r.client
    BY <1>1
  <2> QED BY DEF ConnRec
<1> HIDE DEF Up
<1>3. \A c \in Conn : \/ conn'[c] \in {conn[c], Up(c)}
                      \/ conn[c].at = "done" /\ conn'[c] = Free
  BY <1>1, <1>2, Tidying
<1>4. DOMAIN conn' = Conn /\ conn' = [c \in Conn |-> conn'[c]]
  BY DEF HungUp
<1>5. Typed(conn')
  BY <1>1, <1>2, <1>3, <1>4, FreeIs DEF Typed
<1>6. Attached' = Attached /\ Attached \subseteq Conn
  BY DEF Attached, ToSet, IInv, registry
<1>7. Placed(conn)'
  BY <1>2, <1>3, <1>6 DEF IInv, Placed, registry
<1>8. \A c \in Conn : Counting(conn, c)' => Counting(conn, c)
  BY <1>2, <1>3, <1>6, FreeIs DEF Counting
<1> QED BY <1>5, <1>7, <1>8, Calm DEF IInv, registry

----------------------------------------------------------------------------
(* The pages, and what goes wrong.                                         *)
LEMMA PageActions ==
    ASSUME IInv,
           \/ \E t \in Terminal : HearClose(t) \/ LoseConnection(t)
           \/ \E v \in View : Poll(v) \/ PollAnswered(v) \/ Rejoin(v) \/ ResumeHandled(v) \/ Resumed(v)
           \/ UNCHANGED vars
    PROVE  IInv'
<1>1. CASE \E t \in Terminal : HearClose(t) \/ LoseConnection(t)
  BY <1>1, HangingUp DEF HearClose, LoseConnection, Pause
<1>2. CASE \E v \in View : PollAnswered(v)
  <2>1. PICK v \in View : PollAnswered(v)
    BY <1>2
  <2>2. UNCHANGED <<registry, sizes>>
        /\ (conn' = HungUp(Sockets(TermsOf(v))) \/ UNCHANGED conn)
    BY <2>1 DEF PollAnswered, Pause
  <2> QED BY <2>2, HangingUp, NoConn DEF registry
<1>3. CASE \/ \E v \in View : Poll(v) \/ Rejoin(v) \/ ResumeHandled(v) \/ Resumed(v)
           \/ UNCHANGED vars
  <2>1. UNCHANGED <<conn, attachments, sizes>> /\ evicted' \subseteq evicted
    BY <1>3 DEF Poll, Rejoin, ResumeHandled, Resumed, registry, vars
  <2> QED BY <2>1, NoConn
<1> QED BY <1>1, <1>2, <1>3

LEMMA Turning ==
    ASSUME IInv, NEW v \in View, TurnTo(v)
    PROVE  IInv'
<1>1. UNCHANGED <<registry, sizes>> /\ Attached' = Attached
  BY DEF TurnTo, registry, Attached
<1>2. \A c \in Conn : conn[c] \in ConnRec /\ conn[c].ignoring = conn[c].ignored
  BY DEF IInv, Typed
<1>3. \A c \in Conn : conn'[c] \in {conn[c], [conn[c] EXCEPT !.inbox = @ + 1]}
  BY DEF TurnTo
<1>4. \A c \in Conn : /\ conn'[c] \in ConnRec /\ conn'[c].ignoring = conn[c].ignoring
                      /\ conn'[c].ignored = conn[c].ignored /\ conn'[c].at = conn[c].at
                      /\ conn'[c].rel = conn[c].rel /\ conn'[c].client = conn[c].client
  <2>1. ASSUME NEW r \in ConnRec, NEW i \in Nat
        PROVE  LET u == [r EXCEPT !.inbox = i] IN
               /\ u \in ConnRec /\ u.ignoring = r.ignoring /\ u.ignored = r.ignored
               /\ u.at = r.at /\ u.rel = r.rel /\ u.client = r.client
    BY DEF ConnRec
  <2>2. ASSUME NEW c \in Conn PROVE conn[c].inbox + 1 \in Nat
    <3>1. conn[c].inbox \in Nat
      BY <1>2 DEF ConnRec
    <3> QED BY <3>1
  <2> SUFFICES ASSUME NEW c \in Conn
               PROVE  /\ conn'[c] \in ConnRec /\ conn'[c].ignoring = conn[c].ignoring
                      /\ conn'[c].ignored = conn[c].ignored /\ conn'[c].at = conn[c].at
                      /\ conn'[c].rel = conn[c].rel /\ conn'[c].client = conn[c].client
    OBVIOUS
  <2>3. CASE conn'[c] = conn[c]
    BY <2>3, <1>2
  <2>4. CASE conn'[c] = [conn[c] EXCEPT !.inbox = conn[c].inbox + 1]
    <3> DEFINE i == conn[c].inbox + 1
               u == [conn[c] EXCEPT !.inbox = i]
    <3>1. conn[c] \in ConnRec /\ i \in Nat /\ conn'[c] = u
      BY <1>2, <2>2, <2>4
    <3> HIDE DEF i
    <3>2. /\ u \in ConnRec /\ u.ignoring = conn[c].ignoring /\ u.ignored = conn[c].ignored
          /\ u.at = conn[c].at /\ u.rel = conn[c].rel /\ u.client = conn[c].client
      BY <3>1, <2>1
    <3> HIDE DEF u
    <3> QED BY <3>1, <3>2
  <2> QED BY <1>3, <2>3, <2>4
<1>5. conn' = [c \in Conn |-> conn'[c]]
  BY DEF TurnTo
<1>6. Typed(conn')
  BY <1>2, <1>4, <1>5 DEF Typed
<1>7. Attached \subseteq Conn
  BY DEF Attached, ToSet, IInv
<1>8. Placed(conn)' /\ \A c \in Conn : Counting(conn, c)' => Counting(conn, c)
  BY <1>1, <1>4, <1>7 DEF IInv, Placed, Counting, registry
<1> QED BY <1>1, <1>6, <1>8, Calm DEF IInv, registry

LEMMA Restarting ==
    ASSUME IInv, Restart
    PROVE  IInv'
<1>1. attachments' = <<>> /\ Attached' = {} /\ sizing' = Unlocked /\ unsure' = FALSE
  <2>1. attachments' = <<>> /\ sizing' = Unlocked /\ unsure' = FALSE
    BY DEF Restart
  <2>2. DOMAIN attachments' = {}
    BY <2>1
  <2> QED BY <2>1, <2>2 DEF Attached, ToSet
<1> DEFINE Left(c) == [Free EXCEPT !.at = "done", !.open = conn[c].open]
<1>2. \A c \in Conn : /\ Left(c) \in ConnRec /\ Left(c).ignoring = FALSE /\ Left(c).ignored = FALSE
  <2> SUFFICES ASSUME NEW r \in ConnRec
               PROVE  LET u == [Free EXCEPT !.at = "done", !.open = r.open] IN
                      u \in ConnRec /\ u.ignoring = FALSE /\ u.ignored = FALSE
    BY DEF IInv, Typed
  <2> QED BY DEF ConnRec, Free
<1>3. /\ conn' = [c \in Conn |-> conn'[c]]
      /\ \A c \in Conn : conn'[c] \in {Free, Tidy(Closing(Left(c), "closed"))}
  BY DEF Restart
<1> HIDE DEF Left
<1>4. \A c \in Conn : conn'[c] \in {Free, Closing(Left(c), "closed")}
  BY <1>2, <1>3, ClosingIs, Tidying
<1>5. Typed(conn')
  <2>1. ASSUME NEW c \in Conn
        PROVE  conn'[c] \in ConnRec /\ conn'[c].ignoring = conn'[c].ignored
    <3> DEFINE u == Closing(Left(c), "closed")
    <3>1. u \in ConnRec /\ u.ignoring = FALSE /\ u.ignored = FALSE
      BY <1>2, ClosingIs
    <3>2. conn'[c] \in {Free, u}
      BY <1>4
    <3> HIDE DEF u
    <3> QED BY <3>1, <3>2, FreeIs
  <2>2. conn' = [c \in Conn |-> conn'[c]]
    BY <1>3
  <2> QED BY <2>1, <2>2 DEF Typed
<1>6. SizingOk'
  <2>1. Unlocked \in [by: Tasks \cup {None}, changes: Seq(ChangeRec), looked: BOOLEAN, failed: BOOLEAN]
        /\ Unlocked.by = None /\ DOMAIN Unlocked.changes = {}
    BY DEF Unlocked
  <2>2. Ordered(sizing.changes)'
    BY <1>1, <2>1 DEF Ordered
  <2> HIDE DEF Unlocked
  <2> QED BY <1>1, <2>1, <2>2 DEF SizingOk
<1>7. Placed(conn)' /\ OwnersOk'
  BY <1>1 DEF Placed, OwnersOk, OneCounts, Counting, Unlocked
<1>8. attachments' \in Seq(Conn)
  BY <1>1
<1> QED BY <1>5, <1>6, <1>7, <1>8 DEF IInv, Typed

LEMMA Exiting ==
    ASSUME IInv, NEW c \in Conn, ClientExits(c)
    PROVE  IInv'
<1> DEFINE r == [conn[c] EXCEPT !.client = "gone"]
           s == IF ViewOf(c) \in evicted THEN r ELSE Closing(r, "exit")
<1>1. conn[c] \in ConnRec /\ conn[c].ignoring = conn[c].ignored
  BY DEF IInv, Typed
<1>2. /\ r \in ConnRec /\ r.ignoring = r.ignored /\ r.client = "gone"
      /\ r.at = conn[c].at /\ r.rel = conn[c].rel
  BY <1>1 DEF ConnRec
<1>3. conn' = [conn EXCEPT ![c] = s] /\ UNCHANGED <<registry, sizes>>
  BY DEF ClientExits
<1> HIDE DEF r
<1>4. /\ s \in ConnRec /\ s.ignoring = s.ignored /\ s.client = "gone"
      /\ s.at = conn[c].at /\ s.rel = conn[c].rel
  BY <1>2, ClosingIs
<1> HIDE DEF s
<1>5. c \in Attached' => /\ s.at \in {"joining", "serving", "focusing"}
                         /\ ViewOf(c) \in evicted' => s.rel # "no"
  BY <1>3, <1>4 DEF IInv, Placed, Attached, registry
<1> QED BY <1>3, <1>4, <1>5, OneConn DEF IInv, Attached, registry

----------------------------------------------------------------------------
(* The handlers: each is about one connection.                             *)
LEMMA Connecting ==
    ASSUME IInv, NEW t \in Terminal, Connect(t)
    PROVE  IInv'
<1> DEFINE r == [Free EXCEPT !.at = "asked", !.open = "open"]
<1>1. PICK c \in {t} \X {1, 2} : conn[c].at = "free" /\ conn' = [conn EXCEPT ![c] = r]
  BY DEF Connect
<1>2. c \in Conn /\ UNCHANGED <<registry, sizes>>
  BY DEF Conn, Connect
<1>3. r \in ConnRec /\ r.ignoring = r.ignored
  BY DEF Free, ConnRec
<1> HIDE DEF r
<1>4. c \notin Attached /\ Attached' = Attached
  BY <1>1, <1>2 DEF IInv, Placed, Attached, registry
<1> QED BY <1>1, <1>2, <1>3, <1>4, OneConn DEF IInv, registry

LEMMA Attaching ==
    ASSUME IInv, NEW c \in Conn, Attach(c)
    PROVE  IInv'
<1>1. conn[c] \in ConnRec /\ conn[c].ignoring = conn[c].ignored /\ DOMAIN conn = Conn
  BY DEF IInv, Typed
<1>2. c \notin Attached /\ UNCHANGED <<evicted, sizes>>
  BY DEF IInv, Placed, Attach
<1>3. CASE ViewOf(c) \notin evicted
  <2> DEFINE r == [conn[c] EXCEPT !.at = "joining", !.client = "on", !.ignoring = TRUE, !.ignored = TRUE]
  <2>1. attachments' = Append(attachments, c) /\ conn' = [conn EXCEPT ![c] = r]
    BY <1>1, <1>3 DEF Attach, Join
  <2>2. /\ r \in ConnRec /\ r.ignoring = r.ignored /\ r.ignoring /\ r.at = "joining"
    BY <1>1 DEF ConnRec
  <2> HIDE DEF r
  <2>3. attachments' \in Seq(Conn) /\ Attached' = Attached \cup {c}
    BY <2>1, AppendIs DEF IInv, Attached
  <2> QED BY <1>2, <1>3, <2>1, <2>2, <2>3, OneConn
<1>4. CASE ViewOf(c) \in evicted
  <2> DEFINE r == [conn[c] EXCEPT !.at = "done"]
             u == Closing(r, "4004")
  <2>1. UNCHANGED attachments /\ conn' = [conn EXCEPT ![c] = Tidy(u)]
    BY <1>1, <1>4 DEF Attach
  <2>2. r \in ConnRec /\ r.ignoring = r.ignored
    BY <1>1 DEF ConnRec
  <2> HIDE DEF r
  <2>3. u \in ConnRec /\ u.ignoring = u.ignored
    BY <2>2, ClosingIs
  <2> HIDE DEF u
  <2>4. Tidy(u) \in ConnRec /\ Tidy(u).ignoring = Tidy(u).ignored
    BY <2>3, Tidying, FreeIs
  <2>5. Attached' = Attached
    BY <2>1 DEF Attached
  <2> QED BY <1>2, <2>1, <2>4, <2>5, OneConn DEF IInv
<1> QED BY <1>3, <1>4

(* Whoever detaches does not count any more.                               *)
LEMMA Detaching ==
    ASSUME IInv, UNCHANGED <<evicted, sizes>>, NEW c \in Conn, NEW r \in ConnRec,
           r.ignoring = r.ignored, Detach(c, r)
    PROVE  IInv'
<1>1. attachments' \in Seq(Conn) /\ Attached' = Attached \cap (Attached \ {c})
  BY AmongIs DEF IInv, Detach, Attached
<1>2. conn' = [conn EXCEPT ![c] = r]
  BY DEF Detach
<1> QED BY <1>1, <1>2, OneConn

LEMMA Focusing ==
    ASSUME IInv, NEW c \in Conn, HandleFocus(c)
    PROVE  IInv'
<1>1. conn[c] \in ConnRec /\ conn[c].ignoring = conn[c].ignored /\ DOMAIN conn = Conn
  BY DEF IInv, Typed
<1>2. conn[c].at = "serving" /\ conn[c].inbox > 0 /\ conn[c].inbox \in Nat
      /\ UNCHANGED <<evicted, sizes>>
  BY <1>1 DEF HandleFocus, ConnRec
<1>3. CASE ViewOf(c) \in evicted
  <2> DEFINE r == [conn[c] EXCEPT !.at = "closing", !.inbox = 0]
  <2>1. Detach(c, r)
    BY <1>3 DEF HandleFocus
  <2>2. r \in ConnRec /\ r.ignoring = r.ignored
    BY <1>1 DEF ConnRec
  <2> HIDE DEF r
  <2> QED BY <1>2, <2>1, <2>2, Detaching
<1>4. CASE ViewOf(c) \notin evicted
  <2> DEFINE i == conn[c].inbox - 1
             at == IF c \in Attached THEN "focusing" ELSE conn[c].at
             r == [conn[c] EXCEPT !.inbox = i, !.at = at]
  <2>1. UNCHANGED attachments /\ conn' = [conn EXCEPT ![c] = r]
    BY <1>1, <1>4 DEF HandleFocus
  <2>2. i \in Nat /\ at \in {"serving", "focusing"}
    BY <1>2
  <2> HIDE DEF i, at
  <2>3. /\ r \in ConnRec /\ r.ignoring = r.ignored /\ r.at = at
        /\ r.client = conn[c].client /\ r.ignoring = conn[c].ignoring /\ r.rel = conn[c].rel
    BY <1>1, <2>2 DEF ConnRec
  <2> HIDE DEF r
  <2>4. Attached' = Attached
    BY <2>1 DEF Attached
  <2>5. c \in Attached' => /\ r.at \in {"joining", "serving", "focusing"}
                           /\ ViewOf(c) \in evicted' => r.rel # "no"
                           /\ r.client = "on" /\ ~r.ignoring /\ r.rel = "no" => Counting(conn, c)
    BY <1>2, <1>4, <2>2, <2>3, <2>4 DEF Counting
  <2> QED BY <1>2, <2>1, <2>3, <2>4, <2>5, OneConn DEF IInv
<1> QED BY <1>3, <1>4

LEMMA LeavingOff ==
    ASSUME IInv, NEW c \in Conn, Leave(c) \/ Release(c)
    PROVE  IInv'
<1>1. conn[c] \in ConnRec /\ conn[c].ignoring = conn[c].ignored
  BY DEF IInv, Typed
<1>2. UNCHANGED <<evicted, sizes>>
  BY DEF Leave, Release
<1>3. CASE Leave(c)
  <2> DEFINE r == [conn[c] EXCEPT !.at = "closing"]
  <2>1. Detach(c, r)
    BY <1>3 DEF Leave
  <2>2. r \in ConnRec /\ r.ignoring = r.ignored
    BY <1>1 DEF ConnRec
  <2> HIDE DEF r
  <2> QED BY <1>2, <2>1, <2>2, Detaching
<1>4. CASE Release(c)
  <2> DEFINE r == [conn[c] EXCEPT !.rel = "closing"]
             u == Closing(r, "4004")
  <2>1. Detach(c, u)
    BY <1>4 DEF Release
  <2>2. r \in ConnRec /\ r.ignoring = r.ignored
    BY <1>1 DEF ConnRec
  <2> HIDE DEF r
  <2>3. u \in ConnRec /\ u.ignoring = u.ignored
    BY <2>2, ClosingIs
  <2> HIDE DEF u
  <2> QED BY <1>2, <2>1, <2>3, Detaching
<1> QED BY <1>3, <1>4

LEMMA ClosingBridges ==
    ASSUME IInv, NEW c \in Conn, CloseBridge(c) \/ ReleaseBridge(c)
    PROVE  IInv'
<1>1. conn[c] \in ConnRec /\ conn[c].ignoring = conn[c].ignored /\ DOMAIN conn = Conn
  BY DEF IInv, Typed
<1>2. UNCHANGED <<registry, sizes>> /\ Attached' = Attached
  BY DEF CloseBridge, ReleaseBridge, registry, Attached
<1>3. CASE CloseBridge(c)
  <2> DEFINE r == [conn[c] EXCEPT !.at = "leaving", !.client = "gone"]
  <2>1. conn' = [conn EXCEPT ![c] = r] /\ conn[c].at = "closing"
    BY <1>1, <1>3 DEF CloseBridge
  <2>2. r \in ConnRec /\ r.ignoring = r.ignored
    BY <1>1 DEF ConnRec
  <2> HIDE DEF r
  <2>3. c \notin Attached
    BY <2>1 DEF IInv, Placed
  <2> QED BY <1>2, <2>1, <2>2, <2>3, OneConn DEF IInv, registry
<1>4. CASE ReleaseBridge(c)
  <2> DEFINE r == [conn[c] EXCEPT !.rel = "syncing", !.client = "gone"]
  <2>1. conn' = [conn EXCEPT ![c] = r]
    BY <1>1, <1>4 DEF ReleaseBridge
  <2>2. /\ r \in ConnRec /\ r.ignoring = r.ignored /\ r.at = conn[c].at
        /\ r.rel = "syncing" /\ r.client = "gone"
    BY <1>1 DEF ConnRec
  <2> HIDE DEF r
  <2>3. c \in Attached => r.at \in {"joining", "serving", "focusing"}
    BY <2>2 DEF IInv, Placed
  <2> QED BY <1>2, <2>1, <2>2, <2>3, OneConn DEF IInv, registry
<1> QED BY <1>3, <1>4

(* A view is disconnected: its attachments are on their way out at once.   *)
LEMMA Evicting ==
    ASSUME IInv, NEW v, NEW by, Evict(v, by)
    PROVE  IInv'
<1> DEFINE Gone(c) == [conn[c] EXCEPT !.rel = "start"]
<1>1. /\ UNCHANGED <<attachments, sizes>> /\ evicted' = evicted \cup {v} /\ Attached' = Attached
      /\ conn' = [c \in Conn |-> IF c \in Attached /\ ViewOf(c) = v THEN Gone(c) ELSE conn[c]]
  BY DEF Evict, Attached
<1>2. \A c \in Conn : conn[c] \in ConnRec /\ conn[c].ignoring = conn[c].ignored
  BY DEF IInv, Typed
<1>3. \A c \in Conn : /\ Gone(c) \in ConnRec /\ Gone(c).ignoring = Gone(c).ignored
                      /\ Gone(c).at = conn[c].at /\ Gone(c).rel = "start"
  <2> SUFFICES ASSUME NEW r \in ConnRec, r.ignoring = r.ignored
               PROVE  LET u == [r EXCEPT !.rel = "start"] IN
                      u \in ConnRec /\ u.ignoring = u.ignored /\ u.at = r.at /\ u.rel = "start"
    BY <1>2
  <2> QED BY DEF ConnRec
<1> HIDE DEF Gone
<1>4. Typed(conn')
  BY <1>1, <1>2, <1>3 DEF Typed
<1>5. Attached \subseteq Conn
  BY DEF Attached, ToSet, IInv
<1>6. Placed(conn)'
  BY <1>1, <1>3, <1>5 DEF IInv, Placed
<1>7. \A c \in Conn : Counting(conn, c)' => Counting(conn, c)
  BY <1>1, <1>3 DEF Counting
<1> QED BY <1>1, <1>4, <1>6, <1>7, Calm DEF IInv

----------------------------------------------------------------------------
(* The changes that are listed.                                            *)
LEMMA ListedIs ==
    ASSUME IInv, NEW ignore \in BOOLEAN
    PROVE  /\ Listed(ignore) \in Seq(ChangeRec)
           /\ \A i \in DOMAIN Listed(ignore) :
                 /\ Listed(ignore)[i].ignore = ignore
                 /\ ShouldIgnore(Listed(ignore)[i].on) = ignore
           /\ \A c \in Attached : ShouldIgnore(c) = ignore /\ conn[c].ignored # ignore
                                    => Pending(Listed(ignore), c, ignore)
<1> DEFINE S == {c \in Attached : ShouldIgnore(c) = ignore /\ conn[c].ignored # ignore}
           cs == Among(attachments, S)
           Change1(c) == [on |-> c, ignore |-> ignore]
<1>1. cs \in Seq(Conn) /\ ToSet(cs) = Attached \cap S
  BY AmongIs DEF IInv, Attached
<1>2. Listed(ignore) = [i \in 1 .. Len(cs) |-> Change1(cs[i])]
  BY DEF Listed
<1>3. \A c \in S : c \in Attached /\ ShouldIgnore(c) = ignore
  OBVIOUS
<1>4. \A c \in Attached : ShouldIgnore(c) = ignore /\ conn[c].ignored # ignore => c \in S
  OBVIOUS
<1> HIDE DEF S, cs
<1>5. \A i \in 1 .. Len(cs) : cs[i] \in S /\ cs[i] \in Conn
  BY <1>1 DEF ToSet
<1>6. \A c \in S : \E i \in 1 .. Len(cs) : cs[i] = c
  BY <1>1, <1>3 DEF ToSet
<1>7. \A c \in Conn : Change1(c) \in ChangeRec /\ Change1(c).ignore = ignore /\ Change1(c).on = c
  BY DEF ChangeRec
<1> HIDE DEF Change1
<1>8. Len(cs) \in Nat
  BY <1>1
<1>9. Listed(ignore) \in Seq(ChangeRec) /\ DOMAIN Listed(ignore) = 1 .. Len(cs)
  BY <1>2, <1>5, <1>7, <1>8
<1>10. ASSUME NEW c \in Attached, ShouldIgnore(c) = ignore, conn[c].ignored # ignore
       PROVE  Pending(Listed(ignore), c, ignore)
  <2>1. PICK i \in 1 .. Len(cs) : cs[i] = c
    BY <1>4, <1>6, <1>10
  <2>2. Listed(ignore)[i] = Change1(c)
    BY <1>2, <2>1
  <2> QED BY <1>9, <2>2 DEF Pending, Change1
<1>11. \A i \in DOMAIN Listed(ignore) : Listed(ignore)[i] = Change1(cs[i]) /\ cs[i] \in S /\ cs[i] \in Conn
  BY <1>2, <1>5, <1>9
<1> QED BY <1>3, <1>7, <1>9, <1>10, <1>11

(* They leave one contributor: whom the registry wants is one.             *)
LEMMA ChangesAre ==
    ASSUME IInv
    PROVE  Changes \in Seq(ChangeRec) /\ Ordered(Changes) /\ OneStays(conn, Changes)
<1> DEFINE on == Listed(TRUE)
           off == Listed(FALSE)
<1>1. /\ on \in Seq(ChangeRec) /\ off \in Seq(ChangeRec)
      /\ \A i \in DOMAIN on : on[i].ignore = TRUE
      /\ \A i \in DOMAIN off : off[i].ignore = FALSE /\ ShouldIgnore(off[i].on) = FALSE
      /\ \A c \in Attached : ShouldIgnore(c) = TRUE /\ conn[c].ignored # TRUE => Pending(on, c, TRUE)
  BY ListedIs
<1>2. Changes = on \o off
  BY DEF Changes
<1> HIDE DEF on, off
<1>3. /\ Changes \in Seq(ChangeRec)
      /\ Len(Changes) = Len(on) + Len(off) /\ DOMAIN Changes = 1 .. Len(on) + Len(off)
      /\ \A i \in DOMAIN on : i \in DOMAIN Changes /\ Changes[i] = on[i]
      /\ \A i \in DOMAIN Changes :
            \/ i \in DOMAIN on /\ Changes[i] = on[i]
            \/ i > Len(on) /\ i - Len(on) \in DOMAIN off /\ Changes[i] = off[i - Len(on)]
  BY <1>1, <1>2
<1>4. DOMAIN on = 1 .. Len(on) /\ Len(on) \in Nat
  BY <1>1
<1>5. Ordered(Changes)
  <2> SUFFICES ASSUME NEW i \in DOMAIN Changes, NEW j \in DOMAIN Changes, i < j, ~Changes[i].ignore
               PROVE  ~Changes[j].ignore
    BY DEF Ordered
  <2>1. i > Len(on) /\ i \in Nat /\ j \in Nat
    BY <1>1, <1>3
  <2>2. j \notin DOMAIN on
    BY <1>4, <2>1
  <2> QED BY <1>1, <1>3, <2>2
<1>6. ASSUME NEW c \in Conn, Stays(conn, Changes, c) PROVE ShouldIgnore(c) = FALSE
  <2>1. CASE Counting(conn, c) /\ ~Pending(Changes, c, TRUE)
    <3>1. c \in Attached /\ conn[c].ignored # TRUE
      BY <2>1 DEF Counting, IInv, Typed
    <3>2. ~Pending(on, c, TRUE)
      BY <2>1, <1>3 DEF Pending
    <3>3. ShouldIgnore(c) \in BOOLEAN
      BY DEF ShouldIgnore
    <3> QED BY <3>1, <3>2, <3>3, <1>1
  <2>2. CASE Pending(Changes, c, FALSE)
    <3>1. PICK i \in DOMAIN Changes : Changes[i] = [on |-> c, ignore |-> FALSE]
      BY <2>2 DEF Pending
    <3>2. Changes[i].ignore = FALSE /\ Changes[i].on = c
      BY <3>1
    <3> QED BY <1>1, <1>3, <3>2
  <2> QED BY <1>6, <2>1, <2>2 DEF Stays
<1>7. \A c, d \in Conn : ShouldIgnore(c) = FALSE /\ ShouldIgnore(d) = FALSE
                            /\ SessionOf(c) = SessionOf(d) => c = d
  BY DEF ShouldIgnore
<1> QED BY <1>3, <1>5, <1>6, <1>7 DEF OneStays

----------------------------------------------------------------------------
(* sync_sizes goes on with the next change, or it ends.                    *)
LEMMA Continuing ==
    ASSUME IInv, UNCHANGED registry, NEW by \in Tasks, NEW changes \in Seq(ChangeRec),
           Ordered(changes), NEW cs, Typed(cs), Placed(cs), NEW failed \in BOOLEAN,
           ~unsure /\ ~failed => OneCounts(cs), ~failed => OneStays(cs, changes),
           Continue(by, changes, failed, cs)
    PROVE  IInv'
<1>1. attachments' = attachments /\ evicted' = evicted /\ Attached' = Attached
  BY DEF registry, Attached
<1>2. CASE changes # <<>>
  <2> DEFINE s == [by |-> by, changes |-> changes, looked |-> FALSE, failed |-> failed]
  <2>1. sizing' = s /\ conn' = cs /\ unsure' = unsure
    BY <1>2 DEF Continue
  <2>2. /\ s \in [by: Tasks \cup {None}, changes: Seq(ChangeRec), looked: BOOLEAN, failed: BOOLEAN]
        /\ s.by = by /\ s.changes = changes /\ s.failed = failed
    OBVIOUS
  <2> HIDE DEF s
  <2>3. by # None
    BY NoneAssumption DEF Tasks
  <2>4. Ordered(sizing.changes)'
    BY <2>1, <2>2 DEF Ordered
  <2>5. SizingOk'
    BY <1>2, <2>1, <2>2, <2>3, <2>4 DEF SizingOk, IInv
  <2>6. \A c \in Conn : /\ Counting(conn, c)' <=> Counting(cs, c)
                        /\ Stays(conn, sizing.changes, c)' <=> Stays(cs, changes, c)
    BY <1>1, <2>1, <2>2 DEF Counting, Stays, Pending
  <2>7. OwnersOk'
    BY <2>1, <2>2, <2>6 DEF OwnersOk, OneCounts, OneStays
  <2>8. Placed(conn)' /\ Typed(conn')
    BY <1>1, <2>1 DEF Placed
  <2> QED BY <1>1, <2>5, <2>7, <2>8 DEF IInv, Typed
<1>3. CASE changes = <<>>
  <2> DEFINE task == by[1]
             c == by[2]
             r == cs[c]
             u == After(task, c, r)
  <2>1. sizing' = Unlocked /\ conn' = [cs EXCEPT ![c] = u] /\ unsure' = failed
    BY <1>3 DEF Continue
  <2>2. task \in {"handler", "release"} /\ c \in Conn
    BY DEF Tasks
  <2>3. r \in ConnRec /\ r.ignoring = r.ignored /\ DOMAIN cs = Conn
    BY <2>2 DEF Typed
  <2>4. c \in Attached => r.at \in {"joining", "serving", "focusing"}
                          /\ (ViewOf(c) \in evicted => r.rel # "no")
    BY DEF Placed
  <2> HIDE DEF task, c, r, u
  <2>5. /\ u \in ConnRec /\ u.ignoring = u.ignored
        /\ c \in Attached => /\ u.at \in {"joining", "serving", "focusing"}
                             /\ r.rel # "no" => u.rel # "no"
                             /\ u.rel = "no" => r.rel = "no"
                             /\ u.ignoring = r.ignoring /\ u.client = r.client
    <3>1. CASE task = "release"
      <4> DEFINE q == [r EXCEPT !.rel = "done"]
      <4>1. /\ q \in ConnRec /\ q.ignoring = r.ignoring /\ q.ignored = r.ignored
            /\ q.at = r.at /\ q.rel = "done" /\ q.client = r.client
        BY <2>3 DEF ConnRec
      <4>2. u = Tidy(q)
        BY <3>1 DEF u, After
      <4> HIDE DEF q
      <4>3. u = q \/ (q.at = "done" /\ u = Free)
        BY <4>1, <4>2, Tidying
      <4> QED BY <2>3, <2>4, <4>1, <4>3, FreeIs
    <3>2. CASE task # "release" /\ r.at = "leaving"
      <4> DEFINE q == [r EXCEPT !.at = "done"]
                 p == Closing(q, "closed")
      <4>1. q \in ConnRec /\ q.ignoring = q.ignored
        BY <2>3 DEF ConnRec
      <4>2. u = Tidy(p)
        BY <3>2 DEF u, After
      <4> HIDE DEF q
      <4>3. p \in ConnRec /\ p.ignoring = p.ignored
        BY <4>1, ClosingIs
      <4> HIDE DEF p
      <4>4. u \in ConnRec /\ u.ignoring = u.ignored
        BY <4>2, <4>3, Tidying, FreeIs
      <4> QED BY <2>4, <3>2, <4>4
    <3>3. CASE task # "release" /\ r.at # "leaving"
      <4> DEFINE i == IF r.at = "joining" /\ r.open = "open" /\ ViewOf(c) = focused
                      THEN r.inbox + 1 ELSE r.inbox
                 q == [r EXCEPT !.at = "serving", !.inbox = i]
      <4>1. u = q
        BY <3>3 DEF u, After
      <4>2. r.inbox \in Nat
        BY <2>3 DEF ConnRec
      <4>3. i \in Nat
        BY <4>2
      <4> HIDE DEF i
      <4>4. /\ q \in ConnRec /\ q.ignoring = r.ignoring /\ q.ignored = r.ignored
            /\ q.at = "serving" /\ q.rel = r.rel /\ q.client = r.client
        BY <2>3, <4>3 DEF ConnRec
      <4> HIDE DEF q
      <4> QED BY <2>3, <4>1, <4>4
    <3> QED BY <3>1, <3>2, <3>3
  <2>6. conn'[c] = u /\ \A d \in Conn : d # c => conn'[d] = cs[d]
    BY <2>1, <2>2, <2>3
  <2>7. Typed(conn')
    BY <2>1, <2>2, <2>3, <2>5, <2>6 DEF Typed
  <2>8. Attached \subseteq Conn /\ r = cs[c]
    BY DEF Attached, ToSet, IInv, r
  <2>9. Placed(conn)'
    BY <1>1, <2>4, <2>5, <2>6, <2>8 DEF Placed
  <2>10. ASSUME NEW d \in Conn, Counting(conn, d)' PROVE Counting(cs, d)
    BY <1>1, <2>5, <2>6, <2>8, <2>10 DEF Counting
  <2>11. ~failed => OneCounts(cs)
    BY <1>3 DEF OneCounts, OneStays, Stays, Pending
  <2>12. OwnersOk'
    BY <2>1, <2>10, <2>11 DEF OwnersOk, OneCounts, Unlocked
  <2>13. SizingOk'
    <3>1. Unlocked \in [by: Tasks \cup {None}, changes: Seq(ChangeRec), looked: BOOLEAN, failed: BOOLEAN]
          /\ Unlocked.by = None /\ DOMAIN Unlocked.changes = {}
      BY DEF Unlocked
    <3>2. Ordered(sizing.changes)'
      BY <2>1, <3>1 DEF Ordered
    <3> HIDE DEF Unlocked
    <3> QED BY <2>1, <3>1, <3>2 DEF SizingOk
  <2> QED BY <1>1, <2>7, <2>9, <2>12, <2>13 DEF IInv, Typed
<1> QED BY <1>2, <1>3

LEMMA Beginning ==
    ASSUME IInv, NEW task \in {"handler", "release"}, NEW c \in Conn, BeginSync(task, c)
    PROVE  IInv'
<1> DEFINE by == <<task, c>>
<1>1. by \in Tasks /\ UNCHANGED registry /\ Continue(by, Changes, FALSE, conn)
  BY DEF Tasks, BeginSync
<1>2. sizing.by = None
  BY DEF BeginSync
<1>3. Changes \in Seq(ChangeRec) /\ Ordered(Changes) /\ OneStays(conn, Changes)
  BY ChangesAre
<1>4. ~unsure => OneCounts(conn)
  BY <1>2 DEF IInv, SizingOk, OwnersOk, Unlocked
<1>5. Typed(conn) /\ Placed(conn) /\ FALSE \in BOOLEAN
  BY DEF IInv
<1> HIDE DEF by
<1> QED BY <1>1, <1>3, <1>4, <1>5, Continuing

(* The change that is next, and those after it.                            *)
LEMMA NextChange ==
    ASSUME IInv, Changing
    PROVE  /\ Change \in ChangeRec /\ sizing.by \in Tasks /\ sizing.failed \in BOOLEAN
           /\ Tail(sizing.changes) \in Seq(ChangeRec) /\ Ordered(Tail(sizing.changes))
           /\ \A c \in Conn, ignore \in BOOLEAN :
                 Pending(sizing.changes, c, ignore)
                   <=> \/ Change = [on |-> c, ignore |-> ignore]
                       \/ Pending(Tail(sizing.changes), c, ignore)
           /\ ~Change.ignore => \A c \in Conn : ~Pending(sizing.changes, c, TRUE)
<1> DEFINE q == sizing.changes
           t == Tail(q)
<1>1. /\ q \in Seq(ChangeRec) /\ q # <<>> /\ Ordered(q)
      /\ sizing.by \in Tasks /\ sizing.failed \in BOOLEAN
  BY DEF IInv, SizingOk, Changing
<1>2. Change = Head(q)
  BY DEF Change
<1> HIDE DEF q
<1>3. /\ Len(q) \in Nat \ {0} /\ DOMAIN q = 1 .. Len(q) /\ Head(q) = q[1] /\ q[1] \in ChangeRec
      /\ t \in Seq(ChangeRec) /\ DOMAIN t = 1 .. Len(q) - 1
      /\ \A i \in DOMAIN t : i + 1 \in DOMAIN q /\ t[i] = q[i + 1]
  BY <1>1
<1>4. \A i \in DOMAIN q : i = 1 \/ (i - 1 \in DOMAIN t /\ q[i] = t[i - 1])
  BY <1>3
<1> HIDE DEF t
<1>5. Ordered(t)
  <2> SUFFICES ASSUME NEW i \in DOMAIN t, NEW j \in DOMAIN t, i < j, ~t[i].ignore
               PROVE  ~t[j].ignore
    BY DEF Ordered
  <2>1. i + 1 < j + 1 /\ ~q[i + 1].ignore /\ i + 1 \in DOMAIN q /\ j + 1 \in DOMAIN q
    BY <1>3
  <2>2. ~q[j + 1].ignore
    BY <1>1, <2>1 DEF Ordered
  <2> QED BY <1>3, <2>2
<1>6. \A c \in Conn, ignore \in BOOLEAN :
        Pending(q, c, ignore) <=> q[1] = [on |-> c, ignore |-> ignore] \/ Pending(t, c, ignore)
  <2>1. 1 \in DOMAIN q
    BY <1>3
  <2> QED BY <1>3, <1>4, <2>1 DEF Pending
<1>7. ASSUME ~q[1].ignore, NEW c \in Conn PROVE ~Pending(q, c, TRUE)
  <2> SUFFICES ASSUME NEW i \in DOMAIN q, q[i] = [on |-> c, ignore |-> TRUE] PROVE FALSE
    BY DEF Pending
  <2>1. q[i].ignore = TRUE
    OBVIOUS
  <2>2. i # 1 /\ 1 \in DOMAIN q
    BY <1>3, <1>7, <2>1
  <2>3. 1 < i
    BY <1>3, <2>2
  <2> QED BY <1>1, <1>7, <2>1, <2>2, <2>3 DEF Ordered
<1> QED BY <1>1, <1>2, <1>3, <1>5, <1>6, <1>7 DEF t, q

(* What is passed over was of no client that counts.                       *)
LEMMA PassingOver ==
    ASSUME IInv, Changing, UNCHANGED registry, NEW failed \in BOOLEAN, Proceed(failed, conn),
           failed \/ ~Counting(conn, Change.on)
    PROVE  IInv'
<1> DEFINE q == sizing.changes
           t == Tail(q)
           f == sizing.failed \/ failed
<1>1. /\ Change \in ChangeRec /\ sizing.by \in Tasks /\ f \in BOOLEAN
      /\ t \in Seq(ChangeRec) /\ Ordered(t)
      /\ \A c \in Conn, ignore \in BOOLEAN :
            Pending(q, c, ignore) <=> Change = [on |-> c, ignore |-> ignore] \/ Pending(t, c, ignore)
  BY NextChange
<1>2. Continue(sizing.by, t, f, conn)
  BY DEF Proceed
<1>3. Typed(conn) /\ Placed(conn) /\ (~unsure /\ ~f => OneCounts(conn)) /\ (~f => OneStays(conn, q))
  BY DEF IInv, OwnersOk, Changing
<1>4. ~f => ~Counting(conn, Change.on)
  OBVIOUS
<1> HIDE DEF q, t, f
<1>5. ASSUME ~f, NEW c \in Conn, Stays(conn, t, c) PROVE Stays(conn, q, c)
  <2>1. Change = [on |-> c, ignore |-> TRUE] => Change.on = c
    OBVIOUS
  <2> QED BY <1>1, <1>4, <1>5, <2>1 DEF Stays
<1>6. ~f => OneStays(conn, t)
  BY <1>3, <1>5 DEF OneStays
<1> QED BY <1>1, <1>2, <1>3, <1>6, Continuing

LEMMA Skipping ==
    ASSUME IInv, SkipChange \/ ChangeFails
    PROVE  IInv'
<1>1. CASE SkipChange
  <2>1. Changing /\ UNCHANGED registry /\ Proceed(FALSE, conn) /\ Superseded
    BY <1>1 DEF SkipChange
  <2>2. ~Counting(conn, Change.on)
    BY <2>1 DEF Superseded, Counting, IInv, Placed
  <2> QED BY <2>1, <2>2, PassingOver
<1>2. CASE ChangeFails
  <2>1. Changing /\ UNCHANGED registry
        /\ (Proceed(TRUE, conn) \/ (Proceed(FALSE, conn) /\ conn[Change.on].client # "on"))
    BY <1>2 DEF ChangeFails
  <2>2. conn[Change.on].client # "on" => ~Counting(conn, Change.on)
    BY DEF Counting
  <2> QED BY <2>1, <2>2, PassingOver
<1> QED BY <1>1, <1>2

LEMMA LookingUp ==
    ASSUME IInv, LookUpClient
    PROVE  IInv'
<1>1. /\ sizing' = [sizing EXCEPT !.looked = TRUE] /\ sizing.by # None
      /\ UNCHANGED <<conn, registry, unsure>>
  BY DEF LookUpClient, Changing
<1>2. sizing \in [by: Tasks \cup {None}, changes: Seq(ChangeRec), looked: BOOLEAN, failed: BOOLEAN]
  BY DEF IInv, SizingOk
<1>3. /\ sizing' \in [by: Tasks \cup {None}, changes: Seq(ChangeRec), looked: BOOLEAN, failed: BOOLEAN]
      /\ sizing'.by = sizing.by /\ sizing'.changes = sizing.changes /\ sizing'.failed = sizing.failed
  BY <1>1, <1>2
<1>4. SizingOk'
  BY <1>1, <1>3 DEF IInv, SizingOk, Ordered
<1>5. Attached' = Attached /\ attachments' = attachments /\ evicted' = evicted
  BY <1>1 DEF Attached, registry
<1>6. OwnersOk'
  <2>1. conn' = conn /\ unsure' = unsure
    BY <1>1
  <2>2. \A c \in Conn : /\ Counting(conn, c)' <=> Counting(conn, c)
                        /\ Stays(conn, sizing.changes, c)' <=> Stays(conn, sizing.changes, c)
    BY <2>1, <1>3, <1>5 DEF Counting, Stays, Pending
  <2> QED BY <2>1, <2>2, <1>3 DEF IInv, OwnersOk, OneCounts, OneStays
<1>7. Placed(conn)'
  BY <1>1, <1>5 DEF IInv, Placed
<1> QED BY <1>1, <1>4, <1>5, <1>6, <1>7 DEF IInv, Typed

(* A client is told: who counts now, or will once the rest is done, would  *)
(* have counted then already.                                              *)
LEMMA Telling ==
    ASSUME IInv, TellClient
    PROVE  IInv'
<1> DEFINE q == sizing.changes
           t == Tail(q)
           f == sizing.failed \/ FALSE
           d == Change.on
           r == [conn[d] EXCEPT !.ignoring = Change.ignore, !.ignored = Change.ignore]
           cs == [conn EXCEPT ![d] = r]
<1>1. Changing /\ UNCHANGED registry
  BY DEF TellClient
<1>2. /\ Change \in ChangeRec /\ sizing.by \in Tasks /\ f \in BOOLEAN
      /\ t \in Seq(ChangeRec) /\ Ordered(t)
      /\ \A c \in Conn, ignore \in BOOLEAN :
            Pending(q, c, ignore) <=> Change = [on |-> c, ignore |-> ignore] \/ Pending(t, c, ignore)
      /\ ~Change.ignore => \A c \in Conn : ~Pending(q, c, TRUE)
  BY <1>1, NextChange
<1>3. d \in Conn /\ Change.ignore \in BOOLEAN /\ Change = [on |-> d, ignore |-> Change.ignore]
  BY <1>2 DEF ChangeRec
<1>4. conn[d] \in ConnRec /\ DOMAIN conn = Conn
  BY <1>3 DEF IInv, Typed
<1>5. Continue(sizing.by, t, f, cs)
  BY <1>4 DEF TellClient, Proceed
<1>6. /\ r \in ConnRec /\ r.ignoring = Change.ignore /\ r.ignored = Change.ignore
      /\ r.at = conn[d].at /\ r.rel = conn[d].rel /\ r.client = conn[d].client
  BY <1>3, <1>4 DEF ConnRec
<1>7. (~unsure /\ ~f => OneCounts(conn)) /\ (~f => OneStays(conn, q))
  BY <1>1 DEF IInv, OwnersOk, Changing
<1> HIDE DEF q, t, f, d, r
<1>8. cs[d] = r /\ \A c \in Conn : c # d => cs[c] = conn[c]
  BY <1>3, <1>4
<1>9. Typed(cs)
  BY <1>3, <1>6 DEF IInv, Typed
<1> HIDE DEF cs
<1>10. Attached \subseteq Conn
  BY DEF Attached, ToSet, IInv
<1>11. Placed(cs)
  BY <1>6, <1>8, <1>10 DEF IInv, Placed
<1>12. CASE Change.ignore
  <2>1. ASSUME NEW c \in Conn, Counting(cs, c) PROVE Counting(conn, c) /\ c # d
    BY <1>6, <1>8, <1>12, <2>1 DEF Counting
  <2>2. ~unsure /\ ~f => OneCounts(cs)
    BY <1>7, <2>1 DEF OneCounts
  <2>3. ASSUME NEW c \in Conn, Stays(cs, t, c) PROVE Stays(conn, q, c)
    <3>1. Change = [on |-> c, ignore |-> TRUE] => d = c
      BY DEF d
    <3> QED BY <1>2, <2>1, <2>3, <3>1 DEF Stays
  <2>4. ~f => OneStays(cs, t)
    BY <1>7, <2>3 DEF OneStays
  <2> QED BY <1>1, <1>2, <1>5, <1>9, <1>11, <2>2, <2>4, Continuing
<1>13. CASE ~Change.ignore
  <2>1. Pending(q, d, FALSE)
    <3>1. Change = [on |-> d, ignore |-> FALSE]
      BY <1>3, <1>13
    <3> QED BY <1>2, <1>3, <3>1
  <2>2. ASSUME NEW c \in Conn, Counting(cs, c) PROVE Stays(conn, q, c)
    <3>1. CASE c = d
      BY <2>1, <3>1 DEF Stays
    <3>2. CASE c # d
      <4>1. Counting(conn, c)
        BY <1>8, <2>2, <3>2 DEF Counting
      <4> QED BY <1>2, <1>13, <4>1 DEF Stays
    <3> QED BY <3>1, <3>2
  <2>3. ~f => OneCounts(cs)
    BY <1>7, <2>2 DEF OneCounts, OneStays
  <2>4. ASSUME NEW c \in Conn, Stays(cs, t, c) PROVE Stays(conn, q, c)
    <3>1. CASE Counting(cs, c)
      BY <2>2, <3>1
    <3>2. CASE Pending(t, c, FALSE)
      <4>1. Pending(q, c, FALSE)
        BY <1>2, <3>2
      <4> QED BY <4>1 DEF Stays
    <3> QED BY <2>4, <3>1, <3>2 DEF Stays
  <2>5. ~f => OneStays(cs, t)
    BY <1>7, <2>4 DEF OneStays
  <2> QED BY <1>1, <1>2, <1>5, <1>9, <1>11, <2>3, <2>5, Continuing
<1> QED BY <1>3, <1>12, <1>13

----------------------------------------------------------------------------
LEMMA Invariance == Spec => []IInv
<1>1. Init => IInv
  <2> SUFFICES ASSUME Init PROVE IInv
    OBVIOUS
  <2>1. Attached = {} /\ attachments \in Seq(Conn)
    BY DEF Init, Attached, ToSet
  <2>2. Typed(conn)
    BY FreeIs DEF Init, Typed
  <2>3. Placed(conn) /\ OwnersOk
    BY <2>1 DEF Init, Placed, OwnersOk, OneCounts, Counting, Unlocked
  <2>4. SizingOk
    <3>1. Unlocked \in [by: Tasks \cup {None}, changes: Seq(ChangeRec), looked: BOOLEAN, failed: BOOLEAN]
          /\ Unlocked.by = None /\ DOMAIN Unlocked.changes = {}
      BY DEF Unlocked
    <3> HIDE DEF Unlocked
    <3> QED BY <3>1 DEF Init, SizingOk, Ordered
  <2> QED BY <2>1, <2>2, <2>3, <2>4 DEF IInv
<1>2. IInv /\ [Next]_vars => IInv'
  <2> SUFFICES ASSUME IInv, [Next]_vars PROVE IInv'
    OBVIOUS
  <2>1. CASE PageSteps
    BY <2>1, PageActions, Connecting DEF PageSteps
  <2>2. CASE ServerSteps
    BY <2>2, Attaching, Focusing, LeavingOff, ClosingBridges, Beginning, Skipping, LookingUp, Telling
       DEF ServerSteps
  <2>3. CASE Asks
    BY <2>3, Turning, PageActions, Evicting DEF Asks
  <2>4. CASE Faults
    BY <2>4, PageActions, Exiting, Restarting DEF Faults
  <2>5. CASE UNCHANGED vars
    BY <2>5, PageActions
  <2> QED BY <2>1, <2>2, <2>3, <2>4, <2>5 DEF Next
<1> QED BY <1>1, <1>2, PTL DEF Spec

(* A session is fitted to one view at a time, whoever attaches, takes the  *)
(* focus, leaves or is disconnected between two commands of tmux, and to   *)
(* none that was disconnected: sync_sizes and evict of workspace_views.py. *)
THEOREM Owners == Spec => []OneOwner
<1>1. ASSUME IInv PROVE OneOwner
  <2>1. Attached \subseteq Conn
    BY <1>1 DEF Attached, ToSet, IInv
  <2>2. EvictedStaysOut
    BY <1>1 DEF IInv, Placed, EvictedStaysOut
  <2>3. ASSUME ~unsure, ~sizing.failed, NEW s \in Session
        PROVE  Cardinality({c \in Attached : SessionOf(c) = s /\ Counts(c) /\ conn[c].rel = "no"}) <= 1
    <3> DEFINE S == {c \in Attached : SessionOf(c) = s /\ Counts(c) /\ conn[c].rel = "no"}
    <3>1. \A c, d \in S : c = d
      BY <1>1, <2>1, <2>3 DEF IInv, OwnersOk, OneCounts, Counting, Counts
    <3>2. S = {} \/ \E c : S = {c}
      BY <3>1
    <3> HIDE DEF S
    <3>3. Cardinality(S) = 0 \/ Cardinality(S) = 1
      BY <3>2, FS_EmptySet, FS_Singleton
    <3>4. Cardinality(S) <= 1
      BY <3>3
    <3> QED BY <3>4 DEF S
  <2> QED BY <2>2, <2>3 DEF OneOwner, OneContributor
<1> QED BY <1>1, Invariance, PTL

=============================================================================
