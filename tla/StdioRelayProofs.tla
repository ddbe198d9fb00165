--------------------------- MODULE StdioRelayProofs -------------------------
(***************************************************************************)
(* Theorems about StdioRelay, for every window, queue, pipe and socket     *)
(* size: both streams stay exact, a status is returned only with all the   *)
(* output that is owed, and the credit of the input window is conserved.   *)
(***************************************************************************)
EXTENDS StdioRelay, FiniteSetTheorems, SequenceTheorems, TLAPS

\* A frame whose value is a number, unless it is the status.
Sound == {frame \in Frame : frame.kind # "X" => frame.value \in Nat}

CtlRec == [state: {"running", "interrupted", "failed", "returned"}, read: Nat,
           eof: BOOLEAN, outstanding: Nat, outgoing: Seq(Sound), pending: Seq(Nat),
           delivered: Seq(Nat), result: Outcome \cup Nat \cup {None},
           closed: BOOLEAN, signalled: BOOLEAN]

RunnerRec == [state: {"running", "failed", "returned", "killed"}, pending: Seq(Nat),
              ack: Nat, eof: BOOLEAN, inputOpen: BOOLEAN, outputOpen: BOOLEAN,
              budget: Nat \cup {-1}, outgoing: Seq(Sound), reported: BOOLEAN,
              terminating: BOOLEAN, reset: BOOLEAN]

ProviderRec == [state: {"running", "exited"}, status: Outcome \cup {None},
                stdin: Seq(Nat), stdinOpen: BOOLEAN, got: Seq(Nat), stdout: Seq(Nat),
                written: Nat, owed: Nat, lingers: BOOLEAN]

Typed == /\ ctl \in CtlRec /\ runner \in RunnerRec /\ provider \in ProviderRec
         /\ toRunner \in Seq(Sound) /\ toCtl \in Seq(Sound)

Without(frames, kind) == \A i \in DOMAIN frames : frames[i].kind # kind

\* No frame of the one kind comes after one of the other.
NotAfter(frames, kind, first) ==
    \A i, j \in DOMAIN frames : i < j /\ frames[i].kind = first => frames[j].kind # kind

NoInput(frames) == Without(frames, "I")
NoEnd(frames) == Without(frames, "E")
NoOutput(frames) == Without(frames, "O")
NoStatus(frames) == Without(frames, "X")
EndIsLast(frames) == NotAfter(frames, "I", "E")
StatusEnds(frames) == NotAfter(frames, "O", "X")

Exited == provider.state = "exited"

(* The end of the input is the end: behind it, and when it has been read,  *)
(* there is no input, as long as somebody could miss it.                   *)
EndOfInput ==
    /\ EndIsLast(toRunner) /\ EndIsLast(ctl.outgoing)
    /\ ~NoEnd(toRunner) => NoInput(ctl.outgoing)
    /\ ~NoEnd(toRunner) \/ ~NoEnd(ctl.outgoing) => ctl.eof
    /\ runner.eof /\ provider.stdinOpen /\ ~Exited =>
          ctl.eof /\ NoInput(toRunner) /\ NoInput(ctl.outgoing)
    /\ ~runner.inputOpen => runner.eof

(* What is owed is read before the output is closed, within the budget     *)
(* that the runner has left for it.                                        *)
OwedIsRead ==
    /\ provider.owed =< provider.written
    /\ runner.budget # -1 \/ ~runner.outputOpen => Exited
    /\ runner.outputOpen /\ runner.budget # -1 =>
          /\ runner.budget > 0
          /\ provider.owed + Len(provider.stdout) =< provider.written + runner.budget
    /\ ~runner.outputOpen => provider.owed + Len(provider.stdout) =< provider.written

Statuses(frames) == {frames[i].value : i \in {j \in DOMAIN frames : frames[j].kind = "X"}}

(* The status is the last thing that the runner says of the output.        *)
StatusIsLast ==
    /\ runner.reported => ~runner.outputOpen
    /\ Exited => provider.status \in Outcome
    /\ ctl.state = "returned" => ctl.result # None
    /\ Statuses(toCtl) \cup Statuses(runner.outgoing)
          \subseteq IF runner.reported THEN {provider.status} ELSE {}
    /\ StatusEnds(toCtl) /\ StatusEnds(runner.outgoing)
    /\ ~NoStatus(toCtl) => NoOutput(runner.outgoing)
    /\ ctl.result # None => /\ ctl.result = provider.status
                            /\ runner.reported
                            /\ NoOutput(toCtl) /\ NoOutput(runner.outgoing)

(* What the runner can get is within the window, with a status or without. *)
WithinWindow ==
    /\ ctl.outstanding =< Window
    /\ CtlRuns /\ RunnerRuns =>
          Len(Inputs(ctl.outgoing)) + Len(Inputs(toRunner))
             + Len(runner.pending) =< Window
    /\ ctl.result # None => NoInput(ctl.outgoing)

IInv == /\ Typed /\ EndOfInput /\ OwedIsRead /\ StatusIsLast /\ WithinWindow
        /\ OutputIsExact /\ InputIsExact /\ ReturnIsComplete /\ CreditIsConserved

----------------------------------------------------------------------------
(* Induction over a list, for which a set stands for the predicate.        *)
LEMMA SetInduction ==
    ASSUME NEW n \in Nat, NEW P, 0 \in P,
           \A i \in 0 .. n : i < n /\ i \in P => i + 1 \in P
    PROVE  0 .. n \subseteq P
<1> DEFINE Bad == {k \in 0 .. n : k \notin P}
           Cuts == {0 .. k : k \in Bad}
<1> SUFFICES ASSUME Bad # {} PROVE FALSE
  OBVIOUS
<1>1. IsWellFoundedOn(StrictSubsetOrdering(0 .. n), SUBSET (0 .. n))
  <2>1. IsFiniteSet(0 .. n)
    BY FS_Interval
  <2> QED BY <2>1, FS_FiniteSubsetsOfFinite, FS_StrictSubsetOrderingWellFounded
<1>2. Cuts \subseteq SUBSET (0 .. n) /\ Cuts # {}
  OBVIOUS
<1>3. PICK x \in Cuts : \A y \in Cuts : ~ (<<y, x>> \in StrictSubsetOrdering(0 .. n))
  <2> HIDE DEF Cuts
  <2> QED BY <1>1, <1>2, WFMin
<1>4. PICK k \in Bad : x = 0 .. k
  OBVIOUS
<1>5. k - 1 \in Bad
  OBVIOUS
<1>6. <<0 .. (k - 1), x>> \in StrictSubsetOrdering(0 .. n)
  <2>1. 0 .. (k - 1) \subseteq 0 .. k /\ k \in 0 .. k /\ k \notin 0 .. (k - 1)
    OBVIOUS
  <2> QED BY <2>1, <1>2, <1>4, <1>5 DEF StrictSubsetOrdering
<1> QED BY <1>3, <1>5, <1>6

(* What a pass over a list computes: `step` takes what it has so far and   *)
(* the next element.                                                       *)
IsFold(f, base, step, s) ==
    f = [i \in 0 .. Len(s) |-> IF i = 0 THEN base ELSE step[<<f[i - 1], s[i]>>]]

LEMMA FoldSteps ==
    ASSUME NEW T, NEW s \in Seq(T), NEW f, NEW base, NEW step, IsFold(f, base, step, s)
    PROVE  f[0] = base /\ \A i \in 0 .. Len(s) : i < Len(s) => f[i + 1] = step[<<f[i], s[i + 1]>>]
BY DEF IsFold

LEMMA FoldExists ==
    ASSUME NEW A, NEW T, NEW base \in A, NEW step \in [A \X T -> A], NEW s \in Seq(T)
    PROVE  \E f \in [0 .. Len(s) -> A] : IsFold(f, base, step, s)
<1> DEFINE n == Len(s)
           Part(f, m) == /\ f \in [0 .. m -> A] /\ f[0] = base
                      /\ \A i \in 1 .. m : f[i] = step[<<f[i - 1], s[i]>>]
           P == {m \in 0 .. n : \E f : Part(f, m)}
<1>1. n \in Nat /\ \A i \in 1 .. n : s[i] \in T
  OBVIOUS
<1> HIDE DEF n
<1>2. Part([i \in 0 .. 0 |-> base], 0)
  OBVIOUS
<1>3. ASSUME NEW m \in 0 .. n, m < n, NEW f, Part(f, m) PROVE \E g : Part(g, m + 1)
  <2> DEFINE x == step[<<f[m], s[m + 1]>>]
             g == [i \in 0 .. m + 1 |-> IF i = m + 1 THEN x ELSE f[i]]
  <2>1. x \in A
    BY <1>1, <1>3
  <2>2. g \in [0 .. m + 1 -> A] /\ g[0] = base /\ g[m + 1] = step[<<f[m], s[m + 1]>>]
        /\ \A i \in 0 .. m : g[i] = f[i]
    <3> HIDE DEF x
    <3>1. \A i \in 0 .. m + 1 : i = m + 1 \/ i \in 0 .. m
      BY <1>1
    <3>2. g[m + 1] = x
      BY <1>1
    <3> QED BY <2>1, <1>1, <1>3, <3>1, <3>2 DEF x
  <2> HIDE DEF g
  <2>3. ASSUME NEW i \in 1 .. m + 1 PROVE g[i] = step[<<g[i - 1], s[i]>>]
    <3>1. CASE i = m + 1
      <4>1. i - 1 = m /\ m \in 0 .. m
        BY <3>1, <1>1
      <4> QED BY <3>1, <4>1, <2>2
    <3>2. CASE i \in 1 .. m
      BY <3>2, <2>2, <1>1, <1>3
    <3> QED BY <3>1, <3>2, <1>1
  <2> QED BY <2>2, <2>3
<1> HIDE DEF Part
<1>4. 0 \in P /\ \A m \in 0 .. n : m < n /\ m \in P => m + 1 \in P
  BY <1>1, <1>2, <1>3
<1> HIDE DEF P
<1>5. n \in P
  <2>1. 0 .. n \subseteq P
    BY <1>1, <1>4, SetInduction
  <2> QED BY <2>1, <1>1
<1>6. PICK f : Part(f, n)
  BY <1>5 DEF P
<1>7. f = [i \in 0 .. n |-> f[i]] /\ f \in [0 .. n -> A]
  BY <1>6 DEF Part
<1>8. \A i \in 0 .. n : f[i] = IF i = 0 THEN base ELSE step[<<f[i - 1], s[i]>>]
  BY <1>6, <1>1 DEF Part
<1> QED BY <1>7, <1>8 DEF IsFold, n

(* A pass over a longer list begins with the pass over its beginning.      *)
LEMMA FoldOnward ==
    ASSUME NEW A, NEW T, NEW base \in A, NEW step \in [A \X T -> A],
           NEW s \in Seq(T), NEW t \in Seq(T), Len(s) =< Len(t),
           \A i \in 1 .. Len(s) : s[i] = t[i],
           NEW f, IsFold(f, base, step, s), NEW g, IsFold(g, base, step, t)
    PROVE  f[Len(s)] = g[Len(s)]
<1> DEFINE n == Len(s)
           P == {m \in 0 .. n : f[m] = g[m]}
<1>0. \A i \in 1 .. n : s[i] = t[i]
  OBVIOUS
<1>1. n \in Nat /\ Len(t) \in Nat
  OBVIOUS
<1>2. /\ f[0] = base /\ g[0] = base
      /\ \A i \in 0 .. n : i < n => f[i + 1] = step[<<f[i], s[i + 1]>>]
                                    /\ g[i + 1] = step[<<g[i], s[i + 1]>>]
  BY FoldSteps
<1> HIDE DEF n
<1>3. ASSUME NEW m \in 0 .. n, m < n, f[m] = g[m] PROVE f[m + 1] = g[m + 1]
  <2>1. m + 1 \in 0 .. n /\ m + 1 \in 1 .. n
    BY <1>1, <1>3
  <2> QED BY <1>0, <1>2, <1>3, <2>1
<1>4. 0 \in P /\ \A m \in 0 .. n : m < n /\ m \in P => m + 1 \in P
  BY <1>1, <1>2, <1>3
<1> HIDE DEF P
<1>5. n \in P
  <2>1. 0 .. n \subseteq P
    BY <1>1, <1>4, SetInduction
  <2> QED BY <2>1, <1>1
<1> QED BY <1>5 DEF P, n

(* A pass over the rest of a list, when what the head has added can be     *)
(* added afterwards.                                                       *)
Joins(A, T, base, step, s, f, g, join) ==
    /\ base \in A /\ step \in [A \X T -> A] /\ s \in Seq(T) /\ s # <<>>
    /\ IsFold(f, base, step, s) /\ IsFold(g, base, step, Tail(s))
    /\ g \in [0 .. Len(Tail(s)) -> A]
    /\ join \in [A -> A] /\ join[base] = step[<<base, Head(s)>>]
    /\ \A a \in A, x \in T : step[<<join[a], x>>] = join[step[<<a, x>>]]

LEMMA FoldTail ==
    ASSUME NEW A, NEW T, NEW base, NEW step, NEW s, NEW f, NEW g, NEW join,
           Joins(A, T, base, step, s, f, g, join)
    PROVE  f[Len(s)] = join[g[Len(Tail(s))]]
<1> USE DEF Joins
<1> DEFINE n == Len(Tail(s))
           P == {m \in 0 .. n : f[m + 1] = join[g[m]]}
<1>1. /\ n \in Nat /\ Len(s) = n + 1 /\ Tail(s) \in Seq(T) /\ Head(s) = s[1]
      /\ \A i \in 1 .. n : Tail(s)[i] = s[i + 1] /\ s[i + 1] \in T
  BY HeadTailProperties
<1>2. /\ f[0] = base /\ g[0] = base
      /\ \A i \in 0 .. n + 1 : i < n + 1 => f[i + 1] = step[<<f[i], s[i + 1]>>]
      /\ \A i \in 0 .. n : i < n => g[i + 1] = step[<<g[i], Tail(s)[i + 1]>>]
  <2>1. /\ f[0] = base
        /\ \A i \in 0 .. Len(s) : i < Len(s) => f[i + 1] = step[<<f[i], s[i + 1]>>]
    BY FoldSteps
  <2>2. /\ g[0] = base
        /\ \A i \in 0 .. n : i < n => g[i + 1] = step[<<g[i], Tail(s)[i + 1]>>]
    <3> DEFINE t == Tail(s)
    <3>1. t \in Seq(T) /\ IsFold(g, base, step, t)
      BY <1>1
    <3> HIDE DEF t
    <3>2. g[0] = base /\ \A i \in 0 .. Len(t) : i < Len(t) => g[i + 1] = step[<<g[i], t[i + 1]>>]
      BY <3>1, FoldSteps
    <3> QED BY <3>2 DEF t
  <2> QED BY <2>1, <2>2, <1>1
<1> HIDE DEF n
<1>3. f[1] = join[g[0]]
  BY <1>1, <1>2
<1>4. ASSUME NEW m \in 0 .. n, m < n, f[m + 1] = join[g[m]] PROVE f[m + 2] = join[g[m + 1]]
  <2>1. m + 1 \in 0 .. n + 1 /\ m + 1 < n + 1 /\ m + 1 \in 1 .. n /\ (m + 1) + 1 = m + 2
    BY <1>1, <1>4
  <2>2. f[m + 2] = step[<<f[m + 1], s[m + 2]>>] /\ g[m + 1] = step[<<g[m], s[m + 2]>>]
        /\ s[m + 2] \in T
    BY <2>1, <1>1, <1>2, <1>4
  <2>3. g[m] \in A
    BY <1>1 DEF n
  <2> QED BY <2>2, <2>3, <1>4
<1>5. 0 \in P /\ \A m \in 0 .. n : m < n /\ m \in P => m + 1 \in P
  <2>1. \A m \in Nat : (m + 1) + 1 = m + 2
    OBVIOUS
  <2> QED BY <1>1, <1>3, <1>4, <2>1
<1> HIDE DEF P
<1>6. n \in P
  <2>1. 0 .. n \subseteq P
    BY <1>1, <1>5, SetInduction
  <2> QED BY <2>1, <1>1
<1> QED BY <1>1, <1>6 DEF P, n

(* A pass that nothing changes.                                            *)
LEMMA FoldIdle ==
    ASSUME NEW T, NEW s \in Seq(T), NEW base, NEW step,
           NEW f, IsFold(f, base, step, s), \A i \in 1 .. Len(s) : step[<<base, s[i]>>] = base
    PROVE  f[Len(s)] = base
<1> DEFINE n == Len(s)
           P == {m \in 0 .. n : f[m] = base}
<1>0. \A i \in 1 .. n : step[<<base, s[i]>>] = base
  OBVIOUS
<1>1. n \in Nat
  OBVIOUS
<1>2. f[0] = base /\ \A i \in 0 .. n : i < n => f[i + 1] = step[<<f[i], s[i + 1]>>]
  BY FoldSteps
<1> HIDE DEF n
<1>3. ASSUME NEW m \in 0 .. n, m < n, f[m] = base PROVE f[m + 1] = base
  <2>1. m + 1 \in 0 .. n /\ m + 1 \in 1 .. n
    BY <1>1, <1>3
  <2> QED BY <1>0, <1>2, <1>3, <2>1
<1>4. 0 \in P /\ \A m \in 0 .. n : m < n /\ m \in P => m + 1 \in P
  BY <1>1, <1>2, <1>3
<1> HIDE DEF P
<1>5. n \in P
  <2>1. 0 .. n \subseteq P
    BY <1>1, <1>4, SetInduction
  <2> QED BY <2>1, <1>1
<1> QED BY <1>5 DEF P, n

(* What computes the same step by step, as long as it is within A.         *)
LEMMA FoldOnly ==
    ASSUME NEW A, NEW T, NEW base \in A, NEW step, NEW s \in Seq(T),
           NEW f \in [0 .. Len(s) -> A], IsFold(f, base, step, s),
           NEW g, g[0] = base,
           \A i \in 0 .. Len(s) : i < Len(s) /\ g[i] \in A
                                  => g[i + 1] = step[<<g[i], s[i + 1]>>]
    PROVE  g[Len(s)] = f[Len(s)]
<1> DEFINE n == Len(s)
           P == {m \in 0 .. n : g[m] = f[m]}
<1>1. n \in Nat /\ \A i \in 0 .. n : f[i] \in A
  OBVIOUS
<1>2. f[0] = base /\ \A i \in 0 .. n : i < n => f[i + 1] = step[<<f[i], s[i + 1]>>]
  BY FoldSteps
<1> HIDE DEF n
<1>3. ASSUME NEW m \in 0 .. n, m < n, g[m] = f[m] PROVE g[m + 1] = f[m + 1]
  BY <1>1, <1>2, <1>3 DEF n
<1>4. 0 \in P /\ \A m \in 0 .. n : m < n /\ m \in P => m + 1 \in P
  BY <1>1, <1>2, <1>3
<1> HIDE DEF P
<1>5. 0 .. n \subseteq P
  BY <1>1, <1>4, SetInduction
<1> QED BY <1>1, <1>5 DEF P, n

----------------------------------------------------------------------------
(* What is in a queue of frames.                                           *)
Keep(kind) == [p \in Seq(Nat) \X Sound |->
                  IF p[2].kind = kind THEN Append(p[1], p[2].value) ELSE p[1]]

LEMMA KeepIs ==
    ASSUME NEW kind, kind # "X"
    PROVE  /\ Keep(kind) \in [Seq(Nat) \X Sound -> Seq(Nat)]
           /\ \A q \in Seq(Nat), x \in Sound :
                 Keep(kind)[<<q, x>>] = IF x.kind = kind THEN Append(q, x.value) ELSE q
<1>1. \A q \in Seq(Nat), x \in Sound : x.kind = kind => Append(q, x.value) \in Seq(Nat)
  BY DEF Sound
<1> QED BY <1>1 DEF Keep

LEMMA ValuesIs ==
    ASSUME NEW kind, kind # "X", NEW s \in Seq(Sound)
    PROVE  \E f \in [0 .. Len(s) -> Seq(Nat)] :
              IsFold(f, <<>>, Keep(kind), s) /\ Values(s, kind) = f[Len(s)]
<1> DEFINE n == Len(s)
           Kept(g) == g = [i \in 0 .. Len(s) |->
                              IF i = 0 THEN <<>>
                              ELSE IF s[i].kind = kind THEN Append(g[i - 1], s[i].value)
                              ELSE g[i - 1]]
           kept == CHOOSE g : Kept(g)
<1>1. PICK f \in [0 .. Len(s) -> Seq(Nat)] : IsFold(f, <<>>, Keep(kind), s)
  <2>1. <<>> \in Seq(Nat)
    OBVIOUS
  <2> QED BY <2>1, KeepIs, FoldExists
<1>2. n \in Nat /\ \A i \in 1 .. n : s[i] \in Sound
  OBVIOUS
<1>3. Kept(f)
  <2>1. \A i \in 1 .. n : f[i] = IF s[i].kind = kind THEN Append(f[i - 1], s[i].value)
                                                     ELSE f[i - 1]
    <3> TAKE i \in 1 .. n
    <3>1. i - 1 \in 0 .. n /\ i \in 0 .. n /\ i # 0
      BY <1>2
    <3>2. f[i - 1] \in Seq(Nat) /\ s[i] \in Sound
      BY <1>2, <3>1
    <3>3. f[i] = Keep(kind)[<<f[i - 1], s[i]>>]
      BY <1>1, <3>1 DEF IsFold
    <3> QED BY <3>2, <3>3, KeepIs
  <2>2. f[0] = <<>> /\ f = [i \in 0 .. n |-> f[i]]
    BY <1>1, <1>2 DEF IsFold
  <2> HIDE DEF n
  <2>3. \A i \in 0 .. n : f[i] = IF i = 0 THEN <<>>
                                 ELSE IF s[i].kind = kind THEN Append(f[i - 1], s[i].value)
                                 ELSE f[i - 1]
    <3>1. \A i \in 0 .. n : i = 0 \/ i \in 1 .. n
      BY <1>2
    <3> QED BY <2>1, <2>2, <3>1
  <2> QED BY <2>2, <2>3 DEF n
<1>4. Kept(kept)
  BY <1>3
<1>5. Values(s, kind) = kept[n]
  BY DEF Values
<1> HIDE DEF kept
<1>6. kept[0] = <<>>
  BY <1>2, <1>4
<1>7. ASSUME NEW i \in 0 .. n, i < n, kept[i] \in Seq(Nat)
      PROVE  kept[i + 1] = Keep(kind)[<<kept[i], s[i + 1]>>]
  <2>1. i + 1 \in 0 .. n /\ i + 1 # 0 /\ (i + 1) - 1 = i /\ s[i + 1] \in Sound
    BY <1>2, <1>7
  <2>2. kept[i + 1] = IF s[i + 1].kind = kind THEN Append(kept[i], s[i + 1].value) ELSE kept[i]
    BY <1>4, <2>1
  <2> QED BY <2>1, <2>2, <1>7, KeepIs
<1> HIDE DEF Kept
<1>8. kept[Len(s)] = f[Len(s)]
  <2> DEFINE step == Keep(kind)
             A == Seq(Nat)
             base == <<>>
  <2>1. /\ base \in A /\ f \in [0 .. Len(s) -> A] /\ IsFold(f, base, step, s)
        /\ kept[0] = base
        /\ \A i \in 0 .. Len(s) : i < Len(s) /\ kept[i] \in A
                                  => kept[i + 1] = step[<<kept[i], s[i + 1]>>]
    BY <1>1, <1>6, <1>7
  <2> HIDE DEF step, n, A, base
  <2> QED BY <2>1, FoldOnly, Z3
<1> QED BY <1>1, <1>5, <1>8

LEMMA ValuesTyped ==
    ASSUME NEW kind, kind # "X", NEW s \in Seq(Sound)
    PROVE  Values(s, kind) \in Seq(Nat)
<1>1. PICK f \in [0 .. Len(s) -> Seq(Nat)] : Values(s, kind) = f[Len(s)]
  BY ValuesIs
<1>2. Len(s) \in 0 .. Len(s)
  OBVIOUS
<1> QED BY <1>1, <1>2

LEMMA ValuesAppend ==
    ASSUME NEW kind, kind # "X", NEW s \in Seq(Sound), NEW x \in Sound
    PROVE  Values(Append(s, x), kind) = IF x.kind = kind THEN Append(Values(s, kind), x.value)
                                                         ELSE Values(s, kind)
<1> DEFINE A == Seq(Nat)
           base == <<>>
           t == Append(s, x)
           step == Keep(kind)
           n == Len(s)
<1>1. /\ t \in Seq(Sound) /\ Len(t) = n + 1 /\ n \in Nat /\ t[n + 1] = x
      /\ \A i \in 1 .. n : s[i] = t[i]
  OBVIOUS
<1>2. PICK f \in [0 .. n -> A] : IsFold(f, base, step, s) /\ Values(s, kind) = f[n]
  BY ValuesIs
<1> HIDE DEF t
<1>3. PICK g \in [0 .. Len(t) -> A] : IsFold(g, base, step, t) /\ Values(t, kind) = g[Len(t)]
  BY <1>1, ValuesIs
<1>4. base \in A
  OBVIOUS
<1>5. step \in [A \X Sound -> A]
  BY KeepIs
<1>6. n \in 0 .. Len(t) /\ n < Len(t) /\ n \in 0 .. n /\ n =< Len(t)
  BY <1>1
<1>7. f[n] \in Seq(Nat) /\ step[<<f[n], x>>] = IF x.kind = kind THEN Append(f[n], x.value) ELSE f[n]
  BY <1>2, <1>6, KeepIs
<1> HIDE DEF A, base, step
<1>8. f[n] = g[n]
  BY <1>1, <1>2, <1>3, <1>4, <1>5, <1>6, FoldOnward, SMTT(40)
<1>9. \A i \in 0 .. Len(t) : i < Len(t) => g[i + 1] = step[<<g[i], t[i + 1]>>]
  BY <1>1, <1>3, FoldSteps, Z3
<1>10. g[n + 1] = step[<<g[n], x>>]
  BY <1>1, <1>6, <1>9
<1> HIDE DEF n
<1> QED BY <1>1, <1>2, <1>3, <1>7, <1>8, <1>10 DEF t

LEMMA ValuesHead ==
    ASSUME NEW kind, kind # "X", NEW s \in Seq(Sound), s # <<>>
    PROVE  Values(s, kind) = IF Head(s).kind = kind
                             THEN <<Head(s).value>> \o Values(Tail(s), kind)
                             ELSE Values(Tail(s), kind)
<1> DEFINE A == Seq(Nat)
           x == Head(s)
           t == Tail(s)
           step == Keep(kind)
           base == <<>>
           pre == IF x.kind = kind THEN <<x.value>> ELSE <<>>
           join == [a \in A |-> pre \o a]
<1>1. x \in Sound /\ t \in Seq(Sound) /\ pre \in A
  BY DEF Sound
<1>2. PICK f \in [0 .. Len(s) -> A] : IsFold(f, base, step, s) /\ Values(s, kind) = f[Len(s)]
  BY ValuesIs
<1> HIDE DEF t
<1>3. PICK g \in [0 .. Len(t) -> A] : IsFold(g, base, step, t) /\ Values(t, kind) = g[Len(t)]
  BY <1>1, ValuesIs
<1> HIDE DEF x
<1>4. base \in A
  OBVIOUS
<1>5. /\ step \in [A \X Sound -> A]
      /\ \A q \in A, y \in Sound :
            step[<<q, y>>] = IF y.kind = kind THEN Append(q, y.value) ELSE q
  BY KeepIs
<1>6. \A y \in Sound : y.kind = kind => y.value \in Nat
  BY DEF Sound
<1>7. \A a \in A : pre \o a \in A
  <2> HIDE DEF pre
  <2> QED BY <1>1
<1>8. join \in [A -> A] /\ \A a \in A : join[a] = pre \o a
  <2> HIDE DEF pre, A
  <2> QED BY <1>7
<1>9. join[base] = step[<<base, x>>]
  <2>1. pre \o base = pre
    <3> HIDE DEF pre
    <3> QED BY <1>1
  <2>2. step[<<base, x>>] = pre
    <3>1. step[<<base, x>>] = IF x.kind = kind THEN Append(base, x.value) ELSE base
      <4> HIDE DEF step, base, A
      <4> QED BY <1>1, <1>4, <1>5
    <3> HIDE DEF step
    <3> QED BY <3>1
  <2> HIDE DEF join, step, pre, base, A
  <2> QED BY <2>1, <2>2, <1>4, <1>8
<1> HIDE DEF join, step
<1>10. ASSUME NEW a \in A, NEW y \in Sound PROVE step[<<join[a], y>>] = join[step[<<a, y>>]]
  <2>1. join[a] = pre \o a /\ join[a] \in A
    BY <1>8
  <2>2. CASE y.kind = kind
    <3>1. step[<<join[a], y>>] = Append(pre \o a, y.value) /\ step[<<a, y>>] = Append(a, y.value)
      <4> HIDE DEF pre, A
      <4> QED BY <2>1, <2>2, <1>5
    <3>2. y.value \in Nat /\ Append(a, y.value) \in A
      BY <2>2, <1>6
    <3>3. pre \o Append(a, y.value) = Append(pre \o a, y.value)
      <4> HIDE DEF pre
      <4> QED BY <1>1, <3>2
    <3> HIDE DEF pre, A
    <3> QED BY <3>1, <3>2, <3>3, <1>8
  <2>3. CASE y.kind # kind
    <3> HIDE DEF pre, A
    <3>1. step[<<join[a], y>>] = join[a] /\ step[<<a, y>>] = a
      BY <2>1, <2>3, <1>5
    <3> QED BY <3>1
  <2> QED BY <2>2, <2>3
<1>11. g[Len(t)] \in A
  <2>1. Len(t) \in 0 .. Len(t)
    BY <1>1
  <2> QED BY <2>1, <1>3
<1> HIDE DEF A, base, pre
<1>12. f[Len(s)] = join[g[Len(t)]]
  <2>1. Joins(A, Sound, base, step, s, f, g, join)
    BY <1>2, <1>3, <1>4, <1>5, <1>8, <1>9, <1>10 DEF t, x, Joins
  <2>2. f[Len(s)] = join[g[Len(Tail(s))]]
    BY <2>1, FoldTail
  <2> QED BY <2>2 DEF t
<1>13. Values(s, kind) = pre \o Values(t, kind)
  BY <1>2, <1>3, <1>8, <1>11, <1>12
<1>14. Values(t, kind) \in Seq(Nat)
  BY <1>1, ValuesTyped
<1> QED BY <1>13, <1>14 DEF t, pre, x

LEMMA ValuesWithout ==
    ASSUME NEW kind, kind # "X", NEW s \in Seq(Sound), Without(s, kind)
    PROVE  Values(s, kind) = <<>>
<1>1. PICK f \in [0 .. Len(s) -> Seq(Nat)] :
         IsFold(f, <<>>, Keep(kind), s) /\ Values(s, kind) = f[Len(s)]
  BY ValuesIs
<1>2. \A i \in 1 .. Len(s) : Keep(kind)[<< <<>>, s[i]>>] = <<>>
  <2>1. <<>> \in Seq(Nat) /\ \A i \in 1 .. Len(s) : s[i] \in Sound /\ s[i].kind # kind
    BY DEF Without
  <2> QED BY <2>1, KeepIs
<1> DEFINE base == <<>>
           step == Keep(kind)
<1>3. IsFold(f, base, step, s) /\ \A i \in 1 .. Len(s) : step[<<base, s[i]>>] = base
  BY <1>1, <1>2
<1> HIDE DEF base, step
<1>4. f[Len(s)] = base
  BY <1>3, FoldIdle, Z3
<1> QED BY <1>1, <1>4 DEF base

LEMMA InputsAre ==
    /\ \A s \in Seq(Sound) : Inputs(s) \in Seq(Nat) /\ Len(Inputs(s)) \in Nat
    /\ \A s \in Seq(Sound) : NoInput(s) => Inputs(s) = <<>>
<1>1. \A s \in Seq(Sound) : Inputs(s) \in Seq(Nat)
  BY ValuesTyped DEF Inputs
<1> QED BY <1>1, ValuesWithout DEF Inputs, NoInput

LEMMA InputsAppend ==
    ASSUME NEW s \in Seq(Sound), NEW x \in Sound
    PROVE  Inputs(Append(s, x)) = IF x.kind = "I" THEN Append(Inputs(s), x.value) ELSE Inputs(s)
BY ValuesAppend DEF Inputs

LEMMA InputsHead ==
    ASSUME NEW s \in Seq(Sound), s # <<>>
    PROVE  Inputs(s) = IF Head(s).kind = "I" THEN <<Head(s).value>> \o Inputs(Tail(s))
                                             ELSE Inputs(Tail(s))
BY ValuesHead DEF Inputs

LEMMA OutputsAre ==
    /\ \A s \in Seq(Sound) : Outputs(s) \in Seq(Nat)
    /\ \A s \in Seq(Sound) : NoOutput(s) => Outputs(s) = <<>>
BY ValuesTyped, ValuesWithout DEF Outputs, NoOutput

LEMMA OutputsAppend ==
    ASSUME NEW s \in Seq(Sound), NEW x \in Sound
    PROVE  Outputs(Append(s, x)) = IF x.kind = "O" THEN Append(Outputs(s), x.value) ELSE Outputs(s)
BY ValuesAppend DEF Outputs

LEMMA OutputsHead ==
    ASSUME NEW s \in Seq(Sound), s # <<>>
    PROVE  Outputs(s) = IF Head(s).kind = "O" THEN <<Head(s).value>> \o Outputs(Tail(s))
                                              ELSE Outputs(Tail(s))
BY ValuesHead DEF Outputs

(* The same of the credit that is acknowledged.                            *)
Gain == [p \in Nat \X Sound |-> IF p[2].kind = "A" THEN p[1] + p[2].value ELSE p[1]]

LEMMA GainIs ==
    /\ Gain \in [Nat \X Sound -> Nat]
    /\ \A q \in Nat, x \in Sound :
          Gain[<<q, x>>] = IF x.kind = "A" THEN q + x.value ELSE q
<1>1. \A q \in Nat, x \in Sound : x.kind = "A" => q + x.value \in Nat
  BY DEF Sound
<1> QED BY <1>1 DEF Gain

LEMMA AcknowledgedIs ==
    ASSUME NEW s \in Seq(Sound)
    PROVE  \E f \in [0 .. Len(s) -> Nat] :
              IsFold(f, 0, Gain, s) /\ Acknowledged(s) = f[Len(s)]
<1> DEFINE n == Len(s)
           Kept(g) == g = [i \in 0 .. Len(s) |->
                              IF i = 0 THEN 0
                              ELSE IF s[i].kind = "A" THEN g[i - 1] + s[i].value
                              ELSE g[i - 1]]
           kept == CHOOSE g : Kept(g)
<1>1. PICK f \in [0 .. Len(s) -> Nat] : IsFold(f, 0, Gain, s)
  <2>1. 0 \in Nat
    OBVIOUS
  <2> QED BY <2>1, GainIs, FoldExists
<1>2. n \in Nat /\ \A i \in 1 .. n : s[i] \in Sound
  OBVIOUS
<1>3. Kept(f)
  <2>1. \A i \in 1 .. n : f[i] = IF s[i].kind = "A" THEN f[i - 1] + s[i].value
                                                     ELSE f[i - 1]
    <3> TAKE i \in 1 .. n
    <3>1. i - 1 \in 0 .. n /\ i \in 0 .. n /\ i # 0
      BY <1>2
    <3>2. f[i - 1] \in Nat /\ s[i] \in Sound
      BY <1>2, <3>1
    <3>3. f[i] = Gain[<<f[i - 1], s[i]>>]
      BY <1>1, <3>1 DEF IsFold
    <3> QED BY <3>2, <3>3, GainIs
  <2>2. f[0] = 0 /\ f = [i \in 0 .. n |-> f[i]]
    BY <1>1, <1>2 DEF IsFold
  <2> HIDE DEF n
  <2>3. \A i \in 0 .. n : f[i] = IF i = 0 THEN 0
                                 ELSE IF s[i].kind = "A" THEN f[i - 1] + s[i].value
                                 ELSE f[i - 1]
    <3>1. \A i \in 0 .. n : i = 0 \/ i \in 1 .. n
      BY <1>2
    <3> QED BY <2>1, <2>2, <3>1
  <2> QED BY <2>2, <2>3 DEF n
<1>4. Kept(kept)
  BY <1>3
<1>5. Acknowledged(s) = kept[n]
  BY DEF Acknowledged
<1> HIDE DEF kept
<1>6. kept[0] = 0
  BY <1>2, <1>4
<1>7. ASSUME NEW i \in 0 .. n, i < n, kept[i] \in Nat
      PROVE  kept[i + 1] = Gain[<<kept[i], s[i + 1]>>]
  <2>1. i + 1 \in 0 .. n /\ i + 1 # 0 /\ (i + 1) - 1 = i /\ s[i + 1] \in Sound
    BY <1>2, <1>7
  <2>2. kept[i + 1] = IF s[i + 1].kind = "A" THEN kept[i] + s[i + 1].value ELSE kept[i]
    BY <1>4, <2>1
  <2> QED BY <2>1, <2>2, <1>7, GainIs
<1> HIDE DEF Kept
<1>8. kept[Len(s)] = f[Len(s)]
  <2> DEFINE step == Gain
             A == Nat
             base == 0
  <2>1. /\ base \in A /\ f \in [0 .. Len(s) -> A] /\ IsFold(f, base, step, s)
        /\ kept[0] = base
        /\ \A i \in 0 .. Len(s) : i < Len(s) /\ kept[i] \in A
                                  => kept[i + 1] = step[<<kept[i], s[i + 1]>>]
    BY <1>1, <1>6, <1>7
  <2> HIDE DEF step, n, A, base
  <2> QED BY <2>1, FoldOnly, Z3
<1> QED BY <1>1, <1>5, <1>8

LEMMA AcknowledgedTyped ==
    ASSUME NEW s \in Seq(Sound)
    PROVE  Acknowledged(s) \in Nat
<1>1. PICK f \in [0 .. Len(s) -> Nat] : Acknowledged(s) = f[Len(s)]
  BY AcknowledgedIs
<1>2. Len(s) \in 0 .. Len(s)
  OBVIOUS
<1> QED BY <1>1, <1>2

LEMMA AcknowledgedAppend ==
    ASSUME NEW s \in Seq(Sound), NEW x \in Sound
    PROVE  Acknowledged(Append(s, x)) = IF x.kind = "A" THEN Acknowledged(s) + x.value
                                                         ELSE Acknowledged(s)
<1> DEFINE A == Nat
           base == 0
           t == Append(s, x)
           step == Gain
           n == Len(s)
<1>1. /\ t \in Seq(Sound) /\ Len(t) = n + 1 /\ n \in Nat /\ t[n + 1] = x
      /\ \A i \in 1 .. n : s[i] = t[i]
  OBVIOUS
<1>2. PICK f \in [0 .. n -> A] : IsFold(f, base, step, s) /\ Acknowledged(s) = f[n]
  BY AcknowledgedIs
<1> HIDE DEF t
<1>3. PICK g \in [0 .. Len(t) -> A] : IsFold(g, base, step, t) /\ Acknowledged(t) = g[Len(t)]
  BY <1>1, AcknowledgedIs
<1>4. base \in A
  OBVIOUS
<1>5. step \in [A \X Sound -> A]
  BY GainIs
<1>6. n \in 0 .. Len(t) /\ n < Len(t) /\ n \in 0 .. n /\ n =< Len(t)
  BY <1>1
<1>7. f[n] \in Nat /\ step[<<f[n], x>>] = IF x.kind = "A" THEN f[n] + x.value ELSE f[n]
  BY <1>2, <1>6, GainIs
<1> HIDE DEF A, base, step
<1>8. f[n] = g[n]
  BY <1>1, <1>2, <1>3, <1>4, <1>5, <1>6, FoldOnward, SMTT(40)
<1>9. \A i \in 0 .. Len(t) : i < Len(t) => g[i + 1] = step[<<g[i], t[i + 1]>>]
  BY <1>1, <1>3, FoldSteps, Z3
<1>10. g[n + 1] = step[<<g[n], x>>]
  BY <1>1, <1>6, <1>9
<1> HIDE DEF n
<1> QED BY <1>1, <1>2, <1>3, <1>7, <1>8, <1>10 DEF t

LEMMA AcknowledgedHead ==
    ASSUME NEW s \in Seq(Sound), s # <<>>
    PROVE  Acknowledged(s) = IF Head(s).kind = "A"
                             THEN Head(s).value + Acknowledged(Tail(s))
                             ELSE Acknowledged(Tail(s))
<1> DEFINE A == Nat
           x == Head(s)
           t == Tail(s)
           step == Gain
           base == 0
           pre == IF x.kind = "A" THEN x.value ELSE 0
           join == [a \in A |-> pre + a]
<1>1. x \in Sound /\ t \in Seq(Sound) /\ pre \in A
  BY DEF Sound
<1>2. PICK f \in [0 .. Len(s) -> A] : IsFold(f, base, step, s) /\ Acknowledged(s) = f[Len(s)]
  BY AcknowledgedIs
<1> HIDE DEF t
<1>3. PICK g \in [0 .. Len(t) -> A] : IsFold(g, base, step, t) /\ Acknowledged(t) = g[Len(t)]
  BY <1>1, AcknowledgedIs
<1> HIDE DEF x
<1>4. base \in A
  OBVIOUS
<1>5. /\ step \in [A \X Sound -> A]
      /\ \A q \in A, y \in Sound :
            step[<<q, y>>] = IF y.kind = "A" THEN q + y.value ELSE q
  BY GainIs
<1>6. \A y \in Sound : y.kind = "A" => y.value \in Nat
  BY DEF Sound
<1>7. \A a \in A : pre + a \in A
  <2> HIDE DEF pre
  <2> QED BY <1>1
<1>8. join \in [A -> A] /\ \A a \in A : join[a] = pre + a
  <2> HIDE DEF pre, A
  <2> QED BY <1>7
<1>9. join[base] = step[<<base, x>>]
  <2>1. pre + base = pre
    <3> HIDE DEF pre
    <3> QED BY <1>1
  <2>2. step[<<base, x>>] = pre
    <3>1. step[<<base, x>>] = IF x.kind = "A" THEN base + x.value ELSE base
      <4> HIDE DEF step, base, A
      <4> QED BY <1>1, <1>4, <1>5
    <3> HIDE DEF step
    <3> QED BY <3>1, <1>1, <1>6
  <2> HIDE DEF join, step, pre, base, A
  <2> QED BY <2>1, <2>2, <1>4, <1>8
<1> HIDE DEF join, step
<1>10. ASSUME NEW a \in A, NEW y \in Sound PROVE step[<<join[a], y>>] = join[step[<<a, y>>]]
  <2>1. join[a] = pre + a /\ join[a] \in A
    BY <1>8
  <2>2. CASE y.kind = "A"
    <3>1. step[<<join[a], y>>] = (pre + a) + y.value /\ step[<<a, y>>] = a + y.value
      <4> HIDE DEF pre, A
      <4> QED BY <2>1, <2>2, <1>5
    <3>2. y.value \in Nat /\ a + y.value \in A
      BY <2>2, <1>6
    <3>3. pre + (a + y.value) = (pre + a) + y.value
      <4> HIDE DEF pre
      <4> QED BY <1>1, <3>2
    <3> HIDE DEF pre, A
    <3> QED BY <3>1, <3>2, <3>3, <1>8
  <2>3. CASE y.kind # "A"
    <3> HIDE DEF pre, A
    <3>1. step[<<join[a], y>>] = join[a] /\ step[<<a, y>>] = a
      BY <2>1, <2>3, <1>5
    <3> QED BY <3>1
  <2> QED BY <2>2, <2>3
<1>11. g[Len(t)] \in A
  <2>1. Len(t) \in 0 .. Len(t)
    BY <1>1
  <2> QED BY <2>1, <1>3
<1> HIDE DEF A, base, pre
<1>12. f[Len(s)] = join[g[Len(t)]]
  <2>1. Joins(A, Sound, base, step, s, f, g, join)
    BY <1>2, <1>3, <1>4, <1>5, <1>8, <1>9, <1>10 DEF t, x, Joins
  <2>2. f[Len(s)] = join[g[Len(Tail(s))]]
    BY <2>1, FoldTail
  <2> QED BY <2>2 DEF t
<1>13. Acknowledged(s) = pre + Acknowledged(t)
  BY <1>2, <1>3, <1>8, <1>11, <1>12
<1>14. Acknowledged(t) \in Nat
  BY <1>1, AcknowledgedTyped
<1> QED BY <1>13, <1>14 DEF t, pre, x

----------------------------------------------------------------------------
(* Queues that grow at the end and shrink at the head.                     *)
LEMMA WithoutAppend ==
    ASSUME NEW s \in Seq(Sound), NEW x \in Sound, NEW kind
    PROVE  Without(Append(s, x), kind) <=> Without(s, kind) /\ x.kind # kind
<1>1. /\ DOMAIN Append(s, x) = DOMAIN s \cup {Len(s) + 1} /\ Append(s, x)[Len(s) + 1] = x
      /\ \A i \in DOMAIN s : Append(s, x)[i] = s[i]
  OBVIOUS
<1> HIDE DEF Sound
<1> QED BY <1>1 DEF Without

LEMMA TailIs ==
    ASSUME NEW T, NEW s \in Seq(T), s # <<>>
    PROVE  /\ Head(s) \in T /\ Tail(s) \in Seq(T) /\ Head(s) = s[1] /\ 1 \in DOMAIN s
           /\ \A i \in DOMAIN s : i = 1 \/ (i - 1 \in DOMAIN Tail(s) /\ s[i] = Tail(s)[i - 1])
           /\ \A i \in DOMAIN Tail(s) : i + 1 \in DOMAIN s /\ Tail(s)[i] = s[i + 1] /\ i \in Nat
                                        /\ 1 < i + 1
OBVIOUS

LEMMA WithoutTail ==
    ASSUME NEW s \in Seq(Sound), s # <<>>, NEW kind
    PROVE  Without(s, kind) <=> Head(s).kind # kind /\ Without(Tail(s), kind)
<1> DEFINE t == Tail(s)
           x == Head(s)
<1>1. /\ 1 \in DOMAIN s /\ s[1] = x
      /\ \A i \in DOMAIN s : i = 1 \/ \E j \in DOMAIN t : s[i] = t[j]
      /\ \A j \in DOMAIN t : \E i \in DOMAIN s : s[i] = t[j]
  BY TailIs
<1> HIDE DEF t, x
<1>2. Without(s, kind) <=> x.kind # kind /\ Without(t, kind)
  BY <1>1 DEF Without
<1> QED BY <1>2 DEF t, x

LEMMA NotAfterAppend ==
    ASSUME NEW s \in Seq(Sound), NEW x \in Sound, NEW kind, NEW first, kind # first
    PROVE  NotAfter(Append(s, x), kind, first)
              <=> NotAfter(s, kind, first) /\ (x.kind = kind => Without(s, first))
<1>1. /\ DOMAIN Append(s, x) = DOMAIN s \cup {Len(s) + 1} /\ Append(s, x)[Len(s) + 1] = x
      /\ \A i \in DOMAIN s : Append(s, x)[i] = s[i] /\ i < Len(s) + 1 /\ ~(Len(s) + 1 < i)
  OBVIOUS
<1>2. ~(Len(s) + 1 < Len(s) + 1) /\ Len(s) + 1 \notin DOMAIN s
  OBVIOUS
<1> DEFINE t == Append(s, x)
           n == Len(s) + 1
<1> HIDE DEF t, n
<1>3. /\ DOMAIN t = DOMAIN s \cup {n} /\ t[n] = x /\ ~(n < n)
      /\ \A i \in DOMAIN s : t[i] = s[i] /\ i < n /\ ~(n < i)
  BY <1>1, <1>2 DEF t, n
<1>4. NotAfter(t, kind, first) <=> NotAfter(s, kind, first) /\ (x.kind = kind => Without(s, first))
  BY <1>3 DEF NotAfter, Without
<1> QED BY <1>4 DEF t

LEMMA NotAfterTail ==
    ASSUME NEW s \in Seq(Sound), s # <<>>, NEW kind, NEW first, NotAfter(s, kind, first)
    PROVE  /\ NotAfter(Tail(s), kind, first)
           /\ Head(s).kind = first => Without(Tail(s), kind)
<1>1. \A i, j \in DOMAIN Tail(s) : i < j => i + 1 < j + 1
  BY TailIs
<1> QED BY <1>1, TailIs DEF NotAfter, Without

LEMMA QueueAppend ==
    ASSUME NEW s \in Seq(Sound), NEW x \in Sound
    PROVE  /\ NoInput(Append(s, x)) <=> NoInput(s) /\ x.kind # "I"
           /\ NoEnd(Append(s, x)) <=> NoEnd(s) /\ x.kind # "E"
           /\ NoOutput(Append(s, x)) <=> NoOutput(s) /\ x.kind # "O"
           /\ NoStatus(Append(s, x)) <=> NoStatus(s) /\ x.kind # "X"
           /\ EndIsLast(Append(s, x)) <=> EndIsLast(s) /\ (x.kind = "I" => NoEnd(s))
           /\ StatusEnds(Append(s, x)) <=> StatusEnds(s) /\ (x.kind = "O" => NoStatus(s))
BY WithoutAppend, NotAfterAppend
   DEF NoInput, NoEnd, NoOutput, NoStatus, EndIsLast, StatusEnds

LEMMA QueueTail ==
    ASSUME NEW s \in Seq(Sound), s # <<>>
    PROVE  /\ NoInput(s) <=> Head(s).kind # "I" /\ NoInput(Tail(s))
           /\ NoEnd(s) <=> Head(s).kind # "E" /\ NoEnd(Tail(s))
           /\ NoOutput(s) <=> Head(s).kind # "O" /\ NoOutput(Tail(s))
           /\ NoStatus(s) <=> Head(s).kind # "X" /\ NoStatus(Tail(s))
           /\ EndIsLast(s) => EndIsLast(Tail(s)) /\ (Head(s).kind = "E" => NoInput(Tail(s)))
           /\ StatusEnds(s) => StatusEnds(Tail(s)) /\ (Head(s).kind = "X" => NoOutput(Tail(s)))
           /\ Head(s) \in Sound /\ Tail(s) \in Seq(Sound)
<1>1. Head(s) \in Sound /\ Tail(s) \in Seq(Sound)
  BY TailIs
<1> QED
  BY <1>1, WithoutTail, NotAfterTail
     DEF NoInput, NoEnd, NoOutput, NoStatus, EndIsLast, StatusEnds

LEMMA StatusesAppend ==
    ASSUME NEW s \in Seq(Sound), NEW x \in Sound
    PROVE  Statuses(Append(s, x)) = Statuses(s) \cup IF x.kind = "X" THEN {x.value} ELSE {}
<1>1. /\ DOMAIN Append(s, x) = DOMAIN s \cup {Len(s) + 1} /\ Append(s, x)[Len(s) + 1] = x
      /\ \A i \in DOMAIN s : Append(s, x)[i] = s[i]
  OBVIOUS
<1> DEFINE t == Append(s, x)
           n == Len(s) + 1
<1> HIDE DEF t, n
<1>2. /\ DOMAIN t = DOMAIN s \cup {n} /\ t[n] = x /\ \A i \in DOMAIN s : t[i] = s[i]
  BY <1>1 DEF t, n
<1>3. Statuses(t) = Statuses(s) \cup IF x.kind = "X" THEN {x.value} ELSE {}
  BY <1>2 DEF Statuses
<1> QED BY <1>3 DEF t

LEMMA StatusesTail ==
    ASSUME NEW s \in Seq(Sound), s # <<>>
    PROVE  Statuses(s) = Statuses(Tail(s)) \cup IF Head(s).kind = "X" THEN {Head(s).value} ELSE {}
<1> DEFINE t == Tail(s)
           x == Head(s)
<1>1. /\ 1 \in DOMAIN s /\ s[1] = x
      /\ \A i \in DOMAIN s : i = 1 \/ \E j \in DOMAIN t : s[i] = t[j]
      /\ \A j \in DOMAIN t : \E i \in DOMAIN s : s[i] = t[j]
  BY TailIs
<1> HIDE DEF t, x
<1>2. Statuses(s) = Statuses(t) \cup IF x.kind = "X" THEN {x.value} ELSE {}
  BY <1>1 DEF Statuses
<1> QED BY <1>2 DEF t, x

LEMMA StatusesNone ==
    ASSUME NEW s \in Seq(Sound), Statuses(s) = {}
    PROVE  NoStatus(s)
BY DEF Statuses, NoStatus, Without

LEMMA EmptyQueue ==
    /\ Outputs(<<>>) = <<>> /\ Inputs(<<>>) = <<>> /\ Acknowledged(<<>>) = 0
    /\ Statuses(<<>>) = {} /\ NoInput(<<>>) /\ NoEnd(<<>>) /\ NoOutput(<<>>) /\ NoStatus(<<>>)
    /\ EndIsLast(<<>>) /\ StatusEnds(<<>>)
<1>1. <<>> \in Seq(Sound) /\ DOMAIN <<>> = {}
  OBVIOUS
<1>2. Statuses(<<>>) = {} /\ (\A kind : Without(<<>>, kind))
      /\ \A kind, first : NotAfter(<<>>, kind, first)
  BY <1>1 DEF Statuses, Without, NotAfter
<1>3. Acknowledged(<<>>) = 0
  <2>1. PICK f : IsFold(f, 0, Gain, <<>>) /\ Acknowledged(<<>>) = f[Len(<<>>)]
    BY <1>1, AcknowledgedIs
  <2> QED BY <2>1, <1>1, FoldSteps
<1>4. \A kind : kind # "X" => Values(<<>>, kind) = <<>>
  BY <1>1, <1>2, ValuesWithout
<1> QED
  BY <1>2, <1>3, <1>4
     DEF Inputs, Outputs, NoInput, NoEnd, NoOutput, NoStatus, EndIsLast, StatusEnds

----------------------------------------------------------------------------
(* Numbers that move from one list to the next.                            *)
LEMMA Shift ==
    ASSUME NEW a \in Seq(Nat), NEW b \in Seq(Nat), NEW h \in Nat
    PROVE  Append(a, h) \o b = a \o (<<h>> \o b)
OBVIOUS

LEMMA ConcatAppend ==
    ASSUME NEW a \in Seq(Nat), NEW b \in Seq(Nat), NEW h \in Nat
    PROVE  a \o Append(b, h) = Append(a \o b, h)
OBVIOUS

LEMMA HeadAndTail ==
    ASSUME NEW a \in Seq(Nat), a # <<>>
    PROVE  a = <<Head(a)>> \o Tail(a) /\ Head(a) \in Nat /\ Tail(a) \in Seq(Nat)
OBVIOUS

LEMMA UptoIs ==
    ASSUME NEW n \in Nat
    PROVE  Upto(n) \in Seq(Nat) /\ Len(Upto(n)) = n /\ Upto(n + 1) = Append(Upto(n), n + 1)
BY DEF Upto

LEMMA UptoPrefix ==
    ASSUME NEW a \in Seq(Nat), NEW b \in Seq(Nat), NEW n \in Nat, a \o b = Upto(n)
    PROVE  a = Upto(Len(a))
<1>1. Len(a) =< n
  <2>1. Len(a \o b) = Len(a) + Len(b)
    OBVIOUS
  <2> QED BY <2>1, UptoIs
<1>2. \A i \in 1 .. Len(a) : a[i] = i
  <2>1. \A i \in 1 .. Len(a) : (a \o b)[i] = a[i]
    OBVIOUS
  <2>2. \A i \in 1 .. Len(a) : i \in 1 .. n
    BY <1>1
  <2>3. \A i \in 1 .. n : Upto(n)[i] = i
    BY DEF Upto
  <2> QED BY <2>1, <2>2, <2>3
<1>3. a = [i \in 1 .. Len(a) |-> a[i]]
  OBVIOUS
<1> QED BY <1>2, <1>3 DEF Upto

LEMMA Regroup ==
    ASSUME NEW a \in Seq(Nat), NEW b \in Seq(Nat), NEW c \in Seq(Nat)
    PROVE  b \o c \in Seq(Nat) /\ (a \o b) \o c = a \o (b \o c)
OBVIOUS

\* A unit h that goes from the held input h, t to stdin.
Handing(got, stdin, h, t, c, d, n, now) ==
    /\ got \in Seq(Nat) /\ stdin \in Seq(Nat) /\ h \in Nat /\ t \in Seq(Nat)
    /\ c \in Seq(Nat) /\ d \in Seq(Nat) /\ n \in Nat
    /\ (((got \o stdin) \o (<<h>> \o t)) \o c) \o d = Upto(n)
    /\ now = got \o Append(stdin, h)

LEMMA Handover ==
    ASSUME NEW got, NEW stdin, NEW h, NEW t, NEW c, NEW d, NEW n, NEW now,
           Handing(got, stdin, h, t, c, d, n, now)
    PROVE  now = Upto(Len(now)) /\ ((now \o t) \o c) \o d = Upto(n)
<1>0. /\ got \in Seq(Nat) /\ stdin \in Seq(Nat) /\ h \in Nat /\ t \in Seq(Nat)
      /\ c \in Seq(Nat) /\ d \in Seq(Nat) /\ n \in Nat
      /\ (((got \o stdin) \o (<<h>> \o t)) \o c) \o d = Upto(n)
      /\ now = got \o Append(stdin, h)
  BY DEF Handing
<1> DEFINE g == got \o stdin
<1>1. g \in Seq(Nat) /\ now = Append(g, h)
  BY <1>0, ConcatAppend
<1>2. ((g \o (<<h>> \o t)) \o c) \o d = Upto(n)
  BY <1>0
<1> HIDE DEF g
<1>3. now \in Seq(Nat) /\ now \o t = g \o (<<h>> \o t)
  <2>1. now \in Seq(Nat)
    BY <1>0, <1>1
  <2>2. Append(g, h) \o t = g \o (<<h>> \o t)
    BY <1>0, <1>1, Shift
  <2> QED BY <1>1, <2>1, <2>2
<1>4. ((now \o t) \o c) \o d = Upto(n)
  BY <1>2, <1>3
<1> DEFINE e == t \o c
           rest == e \o d
<1>5. e \in Seq(Nat) /\ (now \o t) \o c = now \o e
  BY <1>0, <1>3, Regroup
<1> HIDE DEF e
<1>6. rest \in Seq(Nat) /\ (now \o e) \o d = now \o rest
  BY <1>0, <1>3, <1>5, Regroup
<1> HIDE DEF rest
<1>7. now = Upto(Len(now))
  <2>1. now \o rest = Upto(n)
    BY <1>4, <1>5, <1>6
  <2> QED BY <1>0, <1>3, <1>6, <2>1, UptoPrefix
<1> QED BY <1>4, <1>7

LEMMA NothingBetween ==
    ASSUME NEW a \in Seq(Nat), NEW b \in Seq(Nat), NEW n \in Nat, NEW owed \in Nat,
           (((a \o <<>>) \o <<>>) \o <<>>) \o b = Upto(n), owed + Len(b) =< n
    PROVE  Len(a) >= owed
<1>1. a \o <<>> = a
  OBVIOUS
<1>2. Len(a \o b) = Len(a) + Len(b) /\ Len(a) \in Nat /\ Len(b) \in Nat
  OBVIOUS
<1>3. Len(Upto(n)) = n
  BY UptoIs
<1> QED BY <1>1, <1>2, <1>3

----------------------------------------------------------------------------
(* What each part of the invariant looks at.                               *)
OutView == <<ctl.delivered, ctl.pending, Outputs(toCtl),
             Outputs(runner.outgoing), provider.stdout, provider.written>>
InView == <<provider.got, provider.stdin, provider.stdinOpen, provider.state, runner.pending,
            Inputs(toRunner), Inputs(ctl.outgoing), ctl.read>>
EndView == <<toRunner, ctl.outgoing, ctl.eof, runner.eof, runner.inputOpen,
             provider.stdinOpen, provider.state>>
OwedView == <<provider.owed, provider.written, provider.stdout, provider.state,
              runner.outputOpen, runner.budget>>
StatusView == <<runner.reported, runner.outputOpen, runner.outgoing, toCtl, ctl.result,
                ctl.state, provider.status, provider.state>>
ReturnView == <<ctl.state, ctl.result, ctl.delivered, provider.status, provider.owed>>
CreditView == <<ctl.state, ctl.result, ctl.outstanding, ctl.outgoing, runner.state,
                runner.pending, runner.ack, runner.outgoing, toRunner, toCtl>>

LEMMA Untouched ==
    /\ OutputIsExact /\ UNCHANGED OutView => OutputIsExact'
    /\ InputIsExact /\ UNCHANGED InView => InputIsExact'
    /\ EndOfInput /\ UNCHANGED EndView => EndOfInput'
    /\ OwedIsRead /\ UNCHANGED OwedView => OwedIsRead'
    /\ StatusIsLast /\ UNCHANGED StatusView => StatusIsLast'
    /\ ReturnIsComplete /\ UNCHANGED ReturnView => ReturnIsComplete'
    /\ WithinWindow /\ UNCHANGED CreditView => WithinWindow'
    /\ CreditIsConserved /\ UNCHANGED CreditView => CreditIsConserved'
<1>1. OutputIsExact /\ UNCHANGED OutView => OutputIsExact'
  BY DEF OutputIsExact, OutView
<1>2. InputIsExact /\ UNCHANGED InView => InputIsExact'
  BY DEF InputIsExact, InView
<1>3. EndOfInput /\ UNCHANGED EndView => EndOfInput'
  BY DEF EndOfInput, EndView, Exited
<1>4. OwedIsRead /\ UNCHANGED OwedView => OwedIsRead'
  BY DEF OwedIsRead, OwedView, Exited
<1>5. StatusIsLast /\ UNCHANGED StatusView => StatusIsLast'
  BY DEF StatusIsLast, StatusView, Exited
<1>6. ReturnIsComplete /\ UNCHANGED ReturnView => ReturnIsComplete'
  BY DEF ReturnIsComplete, ReturnView
<1>7. WithinWindow /\ UNCHANGED CreditView => WithinWindow'
  BY DEF WithinWindow, CreditView, CtlRuns, RunnerRuns
<1>8. CreditIsConserved /\ UNCHANGED CreditView => CreditIsConserved'
  BY DEF CreditIsConserved, CreditView, CtlRuns, RunnerRuns
<1> QED BY <1>1, <1>2, <1>3, <1>4, <1>5, <1>6, <1>7, <1>8

LEMMA Frames ==
    /\ \A kind \in {"I", "E", "S", "O", "A", "B", "F"}, n \in Nat :
          F(kind, n) \in Sound /\ F(kind, n).kind = kind /\ F(kind, n).value = n
    /\ \A status \in Outcome :
          F("X", status) \in Sound /\ F("X", status).kind = "X" /\ F("X", status).value = status
    /\ \A frame \in Sound : frame.value \in Outcome \cup Nat
                            /\ (frame.kind # "X" => frame.value \in Nat)
BY DEF F, Sound, Frame

\* The credit's accounts: the lengths of lists, and sums, as numbers.
Leaving == Len(Inputs(ctl.outgoing))
Crossing == Len(Inputs(toRunner))
Held == Len(runner.pending)
Consumed == runner.ack
Answered == Acknowledged(runner.outgoing)
Returning == Acknowledged(toCtl)
Outstanding == ctl.outstanding

LEMMA Accounts ==
    ASSUME Typed
    PROVE  /\ Leaving \in Nat /\ Crossing \in Nat /\ Held \in Nat /\ Consumed \in Nat
           /\ Answered \in Nat /\ Returning \in Nat /\ Outstanding \in Nat
BY InputsAre, AcknowledgedTyped
   DEF Typed, CtlRec, RunnerRec, Leaving, Crossing, Held, Consumed, Answered, Returning, Outstanding

\* Both of the credit's parts, said of the accounts.
CreditSum ==
    /\ CtlRuns /\ RunnerRuns /\ ctl.result = None =>
          Outstanding = Leaving + Crossing + Held + Consumed + Answered + Returning
    /\ runner.state = "failed" => ~CtlRuns
    /\ Outstanding =< Window
    /\ CtlRuns /\ RunnerRuns => Leaving + Crossing + Held =< Window
    /\ ctl.result # None => NoInput(ctl.outgoing)

LEMMA CreditIs ==
    /\ CreditIsConserved /\ WithinWindow <=> CreditSum
    /\ CreditIsConserved' /\ WithinWindow' <=> CreditSum'
BY DEF CreditIsConserved, WithinWindow, CreditSum, Leaving, Crossing, Held, Consumed, Answered,
       Returning, Outstanding

LEMMA CreditNow ==
    ASSUME IInv
    PROVE  /\ CreditSum /\ Window \in Nat
           /\ Leaving \in Nat /\ Crossing \in Nat /\ Held \in Nat /\ Consumed \in Nat
           /\ Answered \in Nat /\ Returning \in Nat /\ Outstanding \in Nat
<1>1. Window \in Nat
  BY SizesAssumption
<1> QED BY <1>1, CreditIs, Accounts DEF IInv

\* The runner has read one unit of input, and holds or acknowledges it.
LEMMA CreditOfInput ==
    ASSUME IInv, UNCHANGED <<ctl, runner.state, Leaving, Answered, Returning>>,
           Crossing = Crossing' + 1, Crossing' \in Nat,
           \/ Held' = Held + 1 /\ Consumed' = Consumed
           \/ Held' = Held /\ Consumed' = Consumed + 1
    PROVE  CreditSum'
<1>1. UNCHANGED <<Outstanding, CtlRuns, RunnerRuns>>
  BY DEF Outstanding, CtlRuns, RunnerRuns
<1> QED BY <1>1, CreditNow DEF CreditSum

\* The credit moves on within the runner and the frames that it sends.
LEMMA CreditMoves ==
    ASSUME IInv, UNCHANGED <<ctl, runner.state, Leaving, Crossing>>,
           Held' \in Nat, Consumed' \in Nat, Answered' \in Nat, Returning' \in Nat,
           Held' =< Held,
           Held' + Consumed' + Answered' + Returning' = Held + Consumed + Answered + Returning
    PROVE  CreditSum'
<1>1. UNCHANGED <<Outstanding, CtlRuns, RunnerRuns>>
  BY DEF Outstanding, CtlRuns, RunnerRuns
<1> QED BY <1>1, CreditNow DEF CreditSum

LEMMA CreditOfWrite ==
    ASSUME IInv, UNCHANGED <<ctl, runner.state, Leaving, Crossing, Answered, Returning>>,
           Held = Held' + 1, Held' \in Nat, Consumed' = Consumed + 1
    PROVE  CreditSum'
<1>1. UNCHANGED <<Outstanding, CtlRuns, RunnerRuns>>
  BY DEF Outstanding, CtlRuns, RunnerRuns
<1> QED BY <1>1, CreditNow DEF CreditSum

LEMMA CreditOfAnswer ==
    ASSUME IInv, UNCHANGED <<ctl, runner.state, Leaving, Crossing, Held, Consumed>>, NEW v \in Nat,
           Answered = Answered' + v, Answered' \in Nat, Returning' = Returning + v
    PROVE  CreditSum'
<1>1. UNCHANGED <<Outstanding, CtlRuns, RunnerRuns>>
  BY DEF Outstanding, CtlRuns, RunnerRuns
<1> QED BY <1>1, CreditNow DEF CreditSum

LEMMA CreditOfReceipt ==
    ASSUME IInv,
           UNCHANGED <<runner.state, ctl.state, ctl.result, ctl.outgoing, Leaving, Crossing, Held,
                       Consumed, Answered>>,
           NEW v \in Nat, Outstanding' = Outstanding - v, Returning = v + Returning',
           Returning' \in Nat
    PROVE  CreditSum'
<1>1. UNCHANGED <<CtlRuns, RunnerRuns>>
  BY DEF CtlRuns, RunnerRuns
<1> QED BY <1>1, CreditNow DEF CreditSum

LEMMA InitIInv == Init => IInv
<1> SUFFICES ASSUME Init PROVE IInv
  OBVIOUS
<1> USE DEF Init
<1>1. Typed
  BY DEF Typed, CtlRec, RunnerRec, ProviderRec
<1>2. EndOfInput /\ StatusIsLast /\ WithinWindow
  BY EmptyQueue, SizesAssumption
     DEF EndOfInput, StatusIsLast, WithinWindow, Exited
<1>3. OwedIsRead /\ ReturnIsComplete
  BY DEF OwedIsRead, ReturnIsComplete, Exited
<1>4. OutputIsExact /\ InputIsExact /\ CreditIsConserved
  <2>1. Upto(0) = <<>> /\ <<>> \o <<>> = <<>> /\ Len(<<>>) = 0
    BY DEF Upto
  <2>2. CreditIsConserved
    BY <2>1, EmptyQueue DEF CreditIsConserved, CtlRuns
  <2>3. InputIsExact
    BY <2>1, EmptyQueue DEF InputIsExact
  <2>4. OutputIsExact
    BY <2>1, EmptyQueue DEF OutputIsExact
  <2> QED BY <2>2, <2>3, <2>4
<1> QED BY <1>1, <1>2, <1>3, <1>4 DEF IInv

----------------------------------------------------------------------------
(* The controller.                                                         *)
LEMMA CtlReadsInputStep ==
    ASSUME IInv, CtlReadsInput PROVE IInv'
<1> DEFINE x == F("I", ctl.read + 1)
<1>1. /\ x \in Sound /\ x.kind = "I" /\ x.value = ctl.read + 1
  BY Frames DEF IInv, Typed, CtlRec
<1> HIDE DEF x
<1>2. /\ ctl' = [ctl EXCEPT !.read = @ + 1, !.outstanding = @ + 1, !.outgoing = Append(@, x)]
      /\ UNCHANGED <<runner, provider, toRunner, toCtl>>
      /\ CtlRuns /\ ~ctl.eof /\ ctl.result = None /\ ctl.outstanding < Window
  BY DEF CtlReadsInput, CanReadInput, x
<1>3. Typed'
  <2>1. /\ ctl.read + 1 \in Nat /\ ctl.outstanding + 1 \in Nat
        /\ Append(ctl.outgoing, x) \in Seq(Sound)
    BY <1>1 DEF IInv, Typed, CtlRec
  <2> QED BY <2>1, <1>2 DEF IInv, Typed, CtlRec
<1>4. /\ ctl'.outgoing = Append(ctl.outgoing, x) /\ ctl'.read = ctl.read + 1
      /\ ctl'.outstanding = ctl.outstanding + 1 /\ ctl'.eof = ctl.eof
      /\ ctl'.state = ctl.state /\ ctl'.result = ctl.result
      /\ ctl.outgoing \in Seq(Sound) /\ ctl.read \in Nat /\ ctl.outstanding \in Nat
  BY <1>2 DEF IInv, Typed, CtlRec
<1>5. UNCHANGED <<OutView, OwedView, StatusView, ReturnView>>
  BY <1>2 DEF IInv, Typed, CtlRec, OutView, OwedView, StatusView, ReturnView
<1>6. Inputs(ctl'.outgoing) = Append(Inputs(ctl.outgoing), ctl.read + 1)
  BY <1>1, <1>4, InputsAppend
<1>7. EndOfInput'
  BY <1>1, <1>2, <1>4, QueueAppend DEF IInv, EndOfInput, Exited
<1>8. InputIsExact'
  <2> DEFINE a == ((provider.got \o provider.stdin) \o runner.pending) \o Inputs(toRunner)
             b == Inputs(ctl.outgoing)
  <2>1. a \in Seq(Nat) /\ b \in Seq(Nat)
    BY InputsAre DEF IInv, Typed, CtlRec, RunnerRec, ProviderRec
  <2>2. a \o Append(b, ctl.read + 1) = Append(a \o b, ctl.read + 1)
    <3> HIDE DEF a, b
    <3> QED BY <2>1, <1>4, ConcatAppend
  <2> QED BY <2>2, <1>2, <1>4, <1>6, UptoIs DEF IInv, InputIsExact
<1>9. CreditIsConserved' /\ WithinWindow'
  <2>1. /\ Leaving' = Leaving + 1 /\ Outstanding' = Outstanding + 1
        /\ UNCHANGED <<Crossing, Held, Consumed, Answered, Returning, CtlRuns, RunnerRuns>>
    <3>1. Inputs(ctl.outgoing) \in Seq(Nat)
      BY <1>4, InputsAre
    <3> QED
      BY <1>2, <1>4, <1>6, <3>1
         DEF Leaving, Crossing, Held, Consumed, Answered, Returning, Outstanding, CtlRuns,
             RunnerRuns
  <2>2. Outstanding < Window
    BY <1>2 DEF Outstanding
  <2>3. CreditSum'
    BY <1>2, <1>4, <2>1, <2>2, CreditNow DEF CreditSum
  <2> QED BY <2>3, CreditIs
<1> QED BY <1>3, <1>5, <1>7, <1>8, <1>9, Untouched DEF IInv

\* The controller ends, with or without a frame that carries no output.
LEMMA CtlStops ==
    ASSUME IInv, CtlRuns, NEW state \in {"interrupted", "failed"},
           ctl' = [ctl EXCEPT !.state = state], UNCHANGED <<runner, provider, toRunner>>,
           \/ UNCHANGED toCtl
           \/ toCtl # <<>> /\ toCtl' = Tail(toCtl) /\ Head(toCtl).kind # "O"
    PROVE  IInv'
<1>1. toCtl \in Seq(Sound)
  BY DEF IInv, Typed
<1>2. /\ toCtl' \in Seq(Sound) /\ Outputs(toCtl') = Outputs(toCtl)
      /\ Statuses(toCtl') \subseteq Statuses(toCtl)
      /\ NoOutput(toCtl) => NoOutput(toCtl')
      /\ NoStatus(toCtl) => NoStatus(toCtl')
      /\ StatusEnds(toCtl) => StatusEnds(toCtl')
  BY <1>1, QueueTail, OutputsHead, StatusesTail
<1>3. Typed'
  BY <1>2 DEF IInv, Typed, CtlRec
<1>4. /\ ctl'.state = state /\ ctl'.result = ctl.result /\ ctl'.outgoing = ctl.outgoing
      /\ ctl'.outstanding = ctl.outstanding /\ ctl'.delivered = ctl.delivered
      /\ ctl'.pending = ctl.pending
  BY DEF IInv, Typed, CtlRec
<1>5. UNCHANGED <<InView, EndView, OwedView>>
  BY <1>4 DEF IInv, Typed, CtlRec, InView, EndView, OwedView
<1>6. UNCHANGED OutView
  BY <1>2, <1>4 DEF OutView
<1>7. StatusIsLast'
  BY <1>2, <1>4 DEF IInv, StatusIsLast, Exited
<1>8. ReturnIsComplete'
  BY <1>4 DEF ReturnIsComplete
<1>9. CreditSum'
  <2>1. ~CtlRuns' /\ Outstanding' = Outstanding
    BY <1>4 DEF CtlRuns, Outstanding
  <2> QED BY <2>1, <1>4, CreditNow DEF CreditSum
<1> QED BY <1>3, <1>5, <1>6, <1>7, <1>8, <1>9, Untouched, CreditIs DEF IInv

\* A frame that asks for no input to be taken is queued, and no more is read.
LEMMA CtlQueues ==
    ASSUME IInv, NEW x \in Sound, x.kind \in {"E", "S"},
           UNCHANGED <<runner, provider, toRunner, toCtl>>,
           \/ ctl' = [ctl EXCEPT !.eof = TRUE, !.outgoing = Append(@, x)]
           \/ ctl' = [ctl EXCEPT !.signalled = TRUE, !.eof = TRUE, !.outgoing = Append(@, x)]
    PROVE  IInv'
<1>1. ctl.outgoing \in Seq(Sound) /\ Append(ctl.outgoing, x) \in Seq(Sound)
  BY DEF IInv, Typed, CtlRec
<1>2. Typed'
  BY <1>1 DEF IInv, Typed, CtlRec
<1>3. /\ ctl'.outgoing = Append(ctl.outgoing, x) /\ ctl'.eof = TRUE /\ ctl'.read = ctl.read
      /\ ctl'.outstanding = ctl.outstanding /\ ctl'.state = ctl.state /\ ctl'.result = ctl.result
      /\ ctl'.delivered = ctl.delivered /\ ctl'.pending = ctl.pending
  BY DEF IInv, Typed, CtlRec
<1>4. UNCHANGED <<OutView, OwedView, StatusView, ReturnView>>
  BY <1>3 DEF OutView, OwedView, StatusView, ReturnView
<1>5. /\ Inputs(ctl'.outgoing) = Inputs(ctl.outgoing)
      /\ NoInput(ctl'.outgoing) <=> NoInput(ctl.outgoing)
  <2>1. Inputs(ctl'.outgoing) = Inputs(ctl.outgoing)
    BY <1>1, <1>3, InputsAppend
  <2>2. NoInput(ctl'.outgoing) <=> NoInput(ctl.outgoing)
    BY <1>1, <1>3, QueueAppend
  <2> QED BY <2>1, <2>2
<1>6. UNCHANGED InView
  BY <1>3, <1>5 DEF InView
<1>7. EndOfInput'
  BY <1>1, <1>3, QueueAppend DEF IInv, EndOfInput, Exited
<1>8. CreditSum'
  <2>1. UNCHANGED <<Leaving, Crossing, Held, Consumed, Answered, Returning, Outstanding,
                    CtlRuns, RunnerRuns>>
    BY <1>3, <1>5
       DEF Leaving, Crossing, Held, Consumed, Answered, Returning, Outstanding, CtlRuns,
             RunnerRuns
  <2> QED BY <2>1, <1>3, <1>5, CreditNow DEF CreditSum
<1> QED BY <1>2, <1>4, <1>6, <1>7, <1>8, Untouched, CreditIs DEF IInv

LEMMA CtlFlushesStep ==
    ASSUME IInv, CtlFlushes PROVE IInv'
<1>1. CASE ctl' = [ctl EXCEPT !.state = "failed"] /\ UNCHANGED toRunner
  BY <1>1, CtlStops DEF CtlFlushes
<1>2. CASE /\ toRunner' = Append(toRunner, Head(ctl.outgoing))
           /\ ctl' = [ctl EXCEPT !.outgoing = Tail(@)]
  <2> DEFINE x == Head(ctl.outgoing)
             s == Tail(ctl.outgoing)
  <2>1. /\ ctl.outgoing # <<>> /\ ctl.result = None /\ UNCHANGED <<runner, provider, toCtl>>
        /\ ctl.outgoing \in Seq(Sound) /\ toRunner \in Seq(Sound)
    BY DEF CtlFlushes, IInv, Typed, CtlRec
  <2>2. /\ x \in Sound /\ s \in Seq(Sound)
        /\ NoInput(ctl.outgoing) <=> x.kind # "I" /\ NoInput(s)
        /\ NoEnd(ctl.outgoing) <=> x.kind # "E" /\ NoEnd(s)
        /\ EndIsLast(ctl.outgoing) => EndIsLast(s) /\ (x.kind = "E" => NoInput(s))
        /\ Inputs(ctl.outgoing) = IF x.kind = "I" THEN <<x.value>> \o Inputs(s) ELSE Inputs(s)
    BY <2>1, QueueTail, InputsHead
  <2>3. /\ ctl'.outgoing = s /\ ctl'.eof = ctl.eof /\ ctl'.read = ctl.read
        /\ toRunner' = Append(toRunner, x)
        /\ ctl'.outstanding = ctl.outstanding /\ ctl'.state = ctl.state /\ ctl'.result = ctl.result
        /\ ctl'.delivered = ctl.delivered /\ ctl'.pending = ctl.pending
    BY <1>2 DEF IInv, Typed, CtlRec
  <2> HIDE DEF x, s
  <2>4. Typed'
    <3>1. toRunner' \in Seq(Sound) /\ ctl' = [ctl EXCEPT !.outgoing = s]
      BY <1>2, <2>1, <2>2, <2>3 DEF s
    <3> QED BY <3>1, <2>1, <2>2 DEF IInv, Typed, CtlRec
  <2>5. UNCHANGED <<OutView, OwedView, StatusView, ReturnView>>
    BY <2>1, <2>3 DEF OutView, OwedView, StatusView, ReturnView
  <2>6. EndOfInput'
    BY <2>1, <2>2, <2>3, QueueAppend DEF IInv, EndOfInput, Exited
  <2>7. Inputs(toRunner') = IF x.kind = "I" THEN Append(Inputs(toRunner), x.value)
                                            ELSE Inputs(toRunner)
    BY <2>1, <2>2, <2>3, InputsAppend
  <2>8. /\ Inputs(s) \in Seq(Nat) /\ Inputs(toRunner) \in Seq(Nat)
        /\ x.kind = "I" => x.value \in Nat
    BY <2>1, <2>2, InputsAre, Frames
  <2>9. InputIsExact'
    <3> DEFINE a == (provider.got \o provider.stdin) \o runner.pending
               b == Inputs(toRunner)
    <3>1. a \in Seq(Nat) /\ b \in Seq(Nat)
      BY <2>8 DEF IInv, Typed, RunnerRec, ProviderRec
    <3>2. (a \o Inputs(toRunner')) \o Inputs(s) = (a \o b) \o Inputs(ctl.outgoing)
      <4>1. CASE x.kind = "I"
        <5> DEFINE c == Inputs(s)
        <5> HIDE DEF a, b, c
        <5>1. c \in Seq(Nat) /\ x.value \in Nat /\ a \o b \in Seq(Nat)
          BY <2>8, <3>1, <4>1 DEF c
        <5>2. a \o Append(b, x.value) = Append(a \o b, x.value)
          BY <3>1, <5>1, ConcatAppend
        <5>3. Append(a \o b, x.value) \o c = (a \o b) \o (<<x.value>> \o c)
          BY <5>1, Shift
        <5> QED BY <5>2, <5>3, <2>2, <2>7, <4>1 DEF b, c
      <4> QED BY <4>1, <2>2, <2>7
    <3> QED BY <3>2, <2>1, <2>3 DEF IInv, InputIsExact
  <2>10. CreditSum'
    <3>1. Leaving' + Crossing' = Leaving + Crossing /\ Leaving' \in Nat /\ Crossing' \in Nat
      <4> DEFINE c == Inputs(s)
                 b == Inputs(toRunner)
      <4> HIDE DEF b, c
      <4>1. CASE x.kind = "I"
        <5>1. Len(<<x.value>> \o c) = Len(c) + 1 /\ Len(Append(b, x.value)) = Len(b) + 1
              /\ Len(c) \in Nat /\ Len(b) \in Nat
          BY <2>8, <4>1 DEF b, c
        <5> QED BY <5>1, <2>2, <2>3, <2>7, <4>1 DEF Leaving, Crossing, b, c
      <4>2. CASE x.kind # "I"
        BY <4>2, <2>2, <2>3, <2>7, CreditNow DEF Leaving, Crossing
      <4> QED BY <4>1, <4>2
    <3>2. UNCHANGED <<Held, Consumed, Answered, Returning, Outstanding, CtlRuns, RunnerRuns>>
      BY <2>1, <2>3
         DEF Held, Consumed, Answered, Returning, Outstanding, CtlRuns, RunnerRuns
    <3> QED BY <3>1, <3>2, <2>1, <2>3, CreditNow DEF CreditSum
  <2> QED BY <2>4, <2>5, <2>6, <2>9, <2>10, Untouched, CreditIs DEF IInv
<1> QED BY <1>1, <1>2 DEF CtlFlushes

LEMMA CtlSmallSteps ==
    ASSUME IInv, CtlReadsEof \/ CtlSignalled \/ CtlGivesUp \/ CtlDisconnected PROVE IInv'
<1>1. CASE CtlReadsEof
  <2>1. F("E", 0) \in Sound /\ F("E", 0).kind = "E"
    BY Frames
  <2> QED BY <1>1, <2>1, CtlQueues DEF CtlReadsEof
<1>2. CASE CtlSignalled
  <2>1. F("S", 0) \in Sound /\ F("S", 0).kind = "S"
    BY Frames
  <2> QED BY <1>2, <2>1, CtlQueues DEF CtlSignalled
<1>3. CASE CtlGivesUp
  BY <1>3, CtlStops DEF CtlGivesUp
<1>4. CASE CtlDisconnected
  BY <1>4, CtlStops DEF CtlDisconnected
<1> QED BY <1>1, <1>2, <1>3, <1>4

LEMMA CtlReadsSocketEofStep ==
    ASSUME IInv, CtlReadsSocketEof PROVE IInv'
<1>1. CASE ctl' = [ctl EXCEPT !.state = "failed"]
  BY <1>1, CtlStops DEF CtlReadsSocketEof, CanReadSocket
<1>2. CASE ctl' = [ctl EXCEPT !.closed = TRUE]
  <2>1. UNCHANGED <<runner, provider, toRunner, toCtl>>
    BY DEF CtlReadsSocketEof
  <2>2. Typed'
    BY <1>2, <2>1 DEF IInv, Typed, CtlRec
  <2>3. UNCHANGED <<OutView, InView, EndView, OwedView, StatusView, ReturnView, CreditView>>
    BY <1>2, <2>1 DEF IInv, Typed, CtlRec, OutView, InView, EndView, OwedView, StatusView,
                      ReturnView, CreditView
  <2> QED BY <2>2, <2>3, Untouched DEF IInv
<1> QED BY <1>1, <1>2 DEF CtlReadsSocketEof

LEMMA CtlWritesOutputStep ==
    ASSUME IInv, CtlWritesOutput PROVE IInv'
<1> DEFINE h == Head(ctl.pending)
           t == Tail(ctl.pending)
<1>1. /\ CtlRuns /\ ctl.pending # <<>> /\ UNCHANGED <<runner, provider, toRunner, toCtl>>
      /\ ctl.pending \in Seq(Nat) /\ ctl.delivered \in Seq(Nat)
      /\ ctl' = [ctl EXCEPT !.pending = t, !.delivered = Append(@, h)]
  BY DEF CtlWritesOutput, IInv, Typed, CtlRec
<1>2. ctl.pending = <<h>> \o t /\ h \in Nat /\ t \in Seq(Nat)
  BY <1>1, HeadAndTail
<1> HIDE DEF h, t
<1>3. Append(ctl.delivered, h) \in Seq(Nat)
  BY <1>1, <1>2
<1>4. Typed'
  BY <1>1, <1>2, <1>3 DEF IInv, Typed, CtlRec
<1>5. /\ ctl'.pending = t /\ ctl'.delivered = Append(ctl.delivered, h)
      /\ ctl'.state = ctl.state /\ ctl'.result = ctl.result /\ ctl'.eof = ctl.eof
      /\ ctl'.outgoing = ctl.outgoing /\ ctl'.outstanding = ctl.outstanding
      /\ ctl'.read = ctl.read
  BY <1>1 DEF IInv, Typed, CtlRec
<1>6. UNCHANGED <<InView, EndView, OwedView, StatusView, CreditView>>
  BY <1>1, <1>5 DEF InView, EndView, OwedView, StatusView, CreditView
<1>7. OutputIsExact'
  <2>1. ctl'.delivered \o ctl'.pending = ctl.delivered \o ctl.pending
    BY <1>1, <1>2, <1>5, Shift
  <2> QED BY <2>1, <1>1 DEF IInv, OutputIsExact
<1>8. ReturnIsComplete'
  BY <1>1, <1>5 DEF ReturnIsComplete, CtlRuns
<1> QED BY <1>4, <1>6, <1>7, <1>8, Untouched DEF IInv

\* What has come back is all that was owed.
LEMMA CtlReturnsStep ==
    ASSUME IInv, CtlReturns PROVE IInv'
<1>1. /\ CtlRuns /\ ctl.result # None /\ ctl.pending = <<>>
      /\ UNCHANGED <<runner, provider, toRunner, toCtl>>
      /\ ctl' = [ctl EXCEPT !.state = "returned"]
  BY DEF CtlReturns
<1>2. Typed'
  BY <1>1 DEF IInv, Typed, CtlRec
<1>3. /\ ctl'.state = "returned" /\ ctl'.pending = ctl.pending /\ ctl'.delivered = ctl.delivered
      /\ ctl'.result = ctl.result /\ ctl'.eof = ctl.eof /\ ctl'.read = ctl.read
      /\ ctl'.outgoing = ctl.outgoing /\ ctl'.outstanding = ctl.outstanding
  BY <1>1 DEF IInv, Typed, CtlRec
<1>4. UNCHANGED <<OutView, InView, EndView, OwedView>>
  BY <1>1, <1>3 DEF OutView, InView, EndView, OwedView
<1>5. StatusIsLast'
  BY <1>1, <1>3 DEF IInv, StatusIsLast, Exited
<1>6. CreditSum'
  <2>1. ~CtlRuns' /\ Outstanding' = Outstanding
    BY <1>3 DEF CtlRuns, Outstanding
  <2> QED BY <2>1, <1>1, <1>3, CreditNow DEF CreditSum
<1>7. ReturnIsComplete'
  <2>1. NoOutput(toCtl) /\ NoOutput(runner.outgoing) /\ ctl.result = provider.status
        /\ ~runner.outputOpen
    BY <1>1 DEF IInv, StatusIsLast
  <2>2. Outputs(toCtl) = <<>> /\ Outputs(runner.outgoing) = <<>>
    BY <2>1, OutputsAre DEF IInv, Typed, RunnerRec
  <2> DEFINE a == ctl.delivered
             b == provider.stdout
  <2>3. a \in Seq(Nat) /\ b \in Seq(Nat) /\ provider.written \in Nat /\ provider.owed \in Nat
    BY DEF IInv, Typed, CtlRec, ProviderRec
  <2>4. (((a \o <<>>) \o <<>>) \o <<>>) \o b = Upto(provider.written)
    BY <1>1, <2>2 DEF IInv, OutputIsExact
  <2>5. provider.owed + Len(b) =< provider.written
    BY <2>1 DEF IInv, OwedIsRead
  <2> HIDE DEF a, b
  <2>6. Len(a) >= provider.owed
    BY <2>3, <2>4, <2>5, NothingBetween
  <2>7. Len(ctl.delivered) >= provider.owed
    BY <2>6 DEF a
  <2> QED BY <2>1, <2>7, <1>1, <1>3 DEF ReturnIsComplete
<1> QED BY <1>2, <1>4, <1>5, <1>6, <1>7, Untouched, CreditIs DEF IInv

\* What the controller loses from the socket when it reads a frame.
LEMMA CtlReceives ==
    ASSUME IInv, CtlReadsSocket, NEW x, x = Head(toCtl), NEW s, s = Tail(toCtl)
    PROVE  /\ CtlRuns /\ toCtl \in Seq(Sound) /\ x \in Sound /\ s \in Seq(Sound)
           /\ ctl' = Received(x) /\ toCtl' = s /\ UNCHANGED <<runner, provider, toRunner>>
           /\ x.value \in Outcome \cup Nat /\ (x.kind # "X" => x.value \in Nat)
           /\ NoOutput(toCtl) <=> x.kind # "O" /\ NoOutput(s)
           /\ NoStatus(toCtl) <=> x.kind # "X" /\ NoStatus(s)
           /\ StatusEnds(s) /\ (x.kind = "X" => NoOutput(s))
           /\ Statuses(toCtl) = Statuses(s) \cup IF x.kind = "X" THEN {x.value} ELSE {}
           /\ Outputs(toCtl) = IF x.kind = "O" THEN <<x.value>> \o Outputs(s) ELSE Outputs(s)
           /\ Acknowledged(toCtl) = IF x.kind = "A" THEN x.value + Acknowledged(s)
                                                    ELSE Acknowledged(s)
<1>1. /\ CtlRuns /\ toCtl # <<>> /\ toCtl \in Seq(Sound) /\ ctl' = Received(x) /\ toCtl' = s
      /\ UNCHANGED <<runner, provider, toRunner>>
  BY DEF IInv, Typed, CtlReadsSocket, CanReadSocket
<1>2. /\ NoOutput(toCtl) <=> x.kind # "O" /\ NoOutput(s)
      /\ NoStatus(toCtl) <=> x.kind # "X" /\ NoStatus(s)
      /\ StatusEnds(toCtl) => StatusEnds(s) /\ (x.kind = "X" => NoOutput(s))
      /\ x \in Sound /\ s \in Seq(Sound)
  BY <1>1, QueueTail
<1>3. StatusEnds(toCtl)
  BY DEF IInv, StatusIsLast
<1>4. Statuses(toCtl) = Statuses(s) \cup IF x.kind = "X" THEN {x.value} ELSE {}
  BY <1>1, StatusesTail
<1>5. Outputs(toCtl) = IF x.kind = "O" THEN <<x.value>> \o Outputs(s) ELSE Outputs(s)
  BY <1>1, OutputsHead
<1>6. Acknowledged(toCtl) = IF x.kind = "A" THEN x.value + Acknowledged(s) ELSE Acknowledged(s)
  BY <1>1, AcknowledgedHead
<1> QED BY <1>1, <1>2, <1>3, <1>4, <1>5, <1>6, Frames

LEMMA CtlReadsSocketStep ==
    ASSUME IInv, CtlReadsSocket PROVE IInv'
<1> DEFINE x == Head(toCtl)
           s == Tail(toCtl)
<1>1. /\ CtlRuns /\ toCtl \in Seq(Sound) /\ x \in Sound /\ s \in Seq(Sound)
      /\ ctl' = Received(x) /\ toCtl' = s /\ UNCHANGED <<runner, provider, toRunner>>
      /\ x.value \in Outcome \cup Nat /\ (x.kind # "X" => x.value \in Nat)
  BY CtlReceives
<1>2. /\ NoOutput(toCtl) <=> x.kind # "O" /\ NoOutput(s)
      /\ NoStatus(toCtl) <=> x.kind # "X" /\ NoStatus(s)
      /\ StatusEnds(s) /\ (x.kind = "X" => NoOutput(s))
      /\ Statuses(toCtl) = Statuses(s) \cup IF x.kind = "X" THEN {x.value} ELSE {}
  BY CtlReceives
<1>3. Outputs(toCtl) = IF x.kind = "O" THEN <<x.value>> \o Outputs(s) ELSE Outputs(s)
  BY CtlReceives
<1>4. Acknowledged(toCtl) = IF x.kind = "A" THEN x.value + Acknowledged(s) ELSE Acknowledged(s)
  BY CtlReceives
<1>5. CASE x.kind \notin {"O", "A", "X", "B"} \/ (x.kind = "A" /\ x.value > ctl.outstanding)
  <2>1. ctl' = [ctl EXCEPT !.state = "failed"] /\ x.kind # "O"
    BY <1>1, <1>5 DEF Received
  <2>2. toCtl # <<>> /\ toCtl' = Tail(toCtl) /\ Head(toCtl).kind # "O"
    BY <2>1 DEF CtlReadsSocket
  <2> QED BY <2>1, <2>2, <1>1, CtlStops
<1> HIDE DEF x, s
<1>6. CASE x.kind = "O"
  <2>1. ctl' = [ctl EXCEPT !.pending = Append(@, x.value)] /\ x.value \in Nat
    BY <1>1, <1>6 DEF Received
  <2>2. /\ ctl.pending \in Seq(Nat) /\ ctl.delivered \in Seq(Nat)
        /\ Append(ctl.pending, x.value) \in Seq(Nat)
    BY <2>1 DEF IInv, Typed, CtlRec
  <2>3. Typed'
    BY <2>1, <2>2, <1>1 DEF IInv, Typed, CtlRec
  <2>4. /\ ctl'.pending = Append(ctl.pending, x.value) /\ ctl'.delivered = ctl.delivered
        /\ ctl'.state = ctl.state /\ ctl'.result = ctl.result /\ ctl'.eof = ctl.eof
        /\ ctl'.outgoing = ctl.outgoing /\ ctl'.outstanding = ctl.outstanding
        /\ ctl'.read = ctl.read
    BY <2>1 DEF IInv, Typed, CtlRec
  <2>5. UNCHANGED <<InView, EndView, OwedView, ReturnView>>
    BY <1>1, <2>4 DEF InView, EndView, OwedView, ReturnView
  <2>6. OutputIsExact'
    <3> DEFINE a == ctl.delivered \o ctl.pending
               b == Outputs(s)
    <3>1. a \in Seq(Nat) /\ b \in Seq(Nat) /\ x.value \in Nat
      BY <1>1, <2>1, <2>2, OutputsAre
    <3>2. ctl'.delivered \o ctl'.pending = Append(a, x.value)
      BY <2>1, <2>2, <2>4, ConcatAppend
    <3>3. Append(a, x.value) \o b = a \o Outputs(toCtl)
      <4> HIDE DEF a, b
      <4>1. Append(a, x.value) \o b = a \o (<<x.value>> \o b)
        BY <3>1, Shift
      <4> QED BY <4>1, <1>3, <1>6 DEF b
    <3> QED BY <3>2, <3>3, <1>1 DEF IInv, OutputIsExact
  <2>7. StatusIsLast'
    BY <1>1, <1>2, <1>6, <2>4 DEF IInv, StatusIsLast, Exited
  <2>8. CreditSum'
    <3>1. UNCHANGED <<Leaving, Crossing, Held, Consumed, Answered, Returning, Outstanding,
                      CtlRuns, RunnerRuns>>
      BY <1>1, <1>4, <1>6, <2>4
         DEF Leaving, Crossing, Held, Consumed, Answered, Returning, Outstanding, CtlRuns,
             RunnerRuns
    <3> QED BY <3>1, <1>1, <2>4, CreditNow DEF CreditSum
  <2> QED BY <2>3, <2>5, <2>6, <2>7, <2>8, Untouched, CreditIs DEF IInv
<1>7. CASE x.kind = "A" /\ ~(x.value > ctl.outstanding)
  <2>1. ctl' = [ctl EXCEPT !.outstanding = @ - x.value] /\ x.value \in Nat
    BY <1>1, <1>7 DEF Received
  <2>2. ctl.outstanding \in Nat /\ ctl.outstanding - x.value \in Nat
    BY <1>7, <2>1 DEF IInv, Typed, CtlRec
  <2>3. Typed'
    BY <2>1, <2>2, <1>1 DEF IInv, Typed, CtlRec
  <2>4. /\ ctl'.outstanding = ctl.outstanding - x.value /\ ctl'.outgoing = ctl.outgoing
        /\ ctl'.state = ctl.state /\ ctl'.result = ctl.result /\ ctl'.eof = ctl.eof
        /\ ctl'.pending = ctl.pending /\ ctl'.delivered = ctl.delivered /\ ctl'.read = ctl.read
    BY <2>1 DEF IInv, Typed, CtlRec
  <2>5. UNCHANGED <<OutView, InView, EndView, OwedView, ReturnView>>
    BY <1>1, <1>3, <1>7, <2>4 DEF OutView, InView, EndView, OwedView, ReturnView
  <2>6. StatusIsLast'
    BY <1>1, <1>2, <1>7, <2>4 DEF IInv, StatusIsLast, Exited
  <2>7. CreditSum'
    <3> DEFINE v == x.value
    <3> HIDE DEF v
    <3>1. /\ Outstanding' = Outstanding - v /\ Returning = v + Returning' /\ Returning' \in Nat
          /\ v \in Nat
      BY <1>1, <1>4, <1>7, <2>1, <2>4, AcknowledgedTyped DEF Returning, Outstanding, v
    <3>2. UNCHANGED <<runner.state, ctl.state, ctl.result, ctl.outgoing, Leaving, Crossing, Held,
                      Consumed, Answered>>
      BY <1>1, <2>4 DEF Leaving, Crossing, Held, Consumed, Answered
    <3> QED BY <3>1, <3>2, CreditOfReceipt
  <2> QED BY <2>3, <2>5, <2>6, <2>7, Untouched, CreditIs DEF IInv
<1>8. CASE x.kind = "B"
  <2>1. ctl' = [ctl EXCEPT !.eof = TRUE]
    BY <1>1, <1>8 DEF Received
  <2>2. Typed'
    BY <2>1, <1>1 DEF IInv, Typed, CtlRec
  <2>3. /\ ctl'.eof = TRUE /\ ctl'.outstanding = ctl.outstanding /\ ctl'.outgoing = ctl.outgoing
        /\ ctl'.state = ctl.state /\ ctl'.result = ctl.result
        /\ ctl'.pending = ctl.pending /\ ctl'.delivered = ctl.delivered /\ ctl'.read = ctl.read
    BY <2>1 DEF IInv, Typed, CtlRec
  <2>4. UNCHANGED <<OutView, InView, OwedView, ReturnView>>
    BY <1>1, <1>3, <1>8, <2>3 DEF OutView, InView, OwedView, ReturnView
  <2>5. EndOfInput'
    BY <1>1, <2>3 DEF IInv, EndOfInput, Exited
  <2>6. StatusIsLast'
    BY <1>1, <1>2, <1>8, <2>3 DEF IInv, StatusIsLast, Exited
  <2>7. CreditSum'
    <3>1. UNCHANGED <<Leaving, Crossing, Held, Consumed, Answered, Returning, Outstanding,
                      CtlRuns, RunnerRuns>>
      BY <1>1, <1>4, <1>8, <2>3
         DEF Leaving, Crossing, Held, Consumed, Answered, Returning, Outstanding, CtlRuns,
             RunnerRuns
    <3> QED BY <3>1, <1>1, <2>3, CreditNow DEF CreditSum
  <2> QED BY <2>2, <2>4, <2>5, <2>6, <2>7, Untouched, CreditIs DEF IInv
<1>9. CASE x.kind = "X"
  <2>1. ctl' = [ctl EXCEPT !.result = x.value, !.outgoing = <<>>]
    BY <1>1, <1>9 DEF Received
  <2>2. <<>> \in Seq(Sound)
    OBVIOUS
  <2>3. Typed'
    BY <2>1, <2>2, <1>1 DEF IInv, Typed, CtlRec
  <2>4. /\ ctl'.result = x.value /\ ctl'.outgoing = <<>> /\ ctl'.state = ctl.state
        /\ ctl'.outstanding = ctl.outstanding /\ ctl'.eof = ctl.eof
        /\ ctl'.pending = ctl.pending /\ ctl'.delivered = ctl.delivered /\ ctl'.read = ctl.read
    BY <2>1 DEF IInv, Typed, CtlRec
  <2>5. runner.reported /\ x.value = provider.status /\ NoOutput(runner.outgoing) /\ Exited
        /\ ~runner.outputOpen
    BY <1>2, <1>9 DEF IInv, StatusIsLast, OwedIsRead
  <2>6. x.value # None
    BY <2>5, StatusAssumption DEF IInv, StatusIsLast, Outcome
  <2>7. UNCHANGED <<OutView, OwedView>>
    BY <1>1, <1>3, <1>9, <2>4 DEF OutView, OwedView
  <2>8. EndOfInput'
    BY <1>1, <2>4, <2>5, EmptyQueue DEF IInv, EndOfInput, Exited
  <2>9. InputIsExact'
    BY <1>1, <2>4, <2>5 DEF IInv, InputIsExact, Exited
  <2>10. StatusIsLast'
    BY <1>1, <1>2, <1>9, <2>4, <2>5, <2>6 DEF IInv, StatusIsLast, Exited
  <2>11. ReturnIsComplete'
    BY <1>1, <2>4 DEF ReturnIsComplete, CtlRuns
  <2>12. CreditSum'
    <3>1. Leaving' = 0 /\ UNCHANGED <<Crossing, Held, Outstanding, CtlRuns, RunnerRuns>>
      BY <1>1, <2>4, EmptyQueue DEF Leaving, Crossing, Held, Outstanding, CtlRuns, RunnerRuns
    <3>2. Leaving' + Crossing' + Held' =< Leaving + Crossing + Held
      BY <3>1, CreditNow
    <3>3. NoInput(ctl'.outgoing)
      BY <2>4, EmptyQueue
    <3>4. ctl'.result # None /\ UNCHANGED runner
      BY <1>1, <2>4, <2>6
    <3> QED BY <3>1, <3>2, <3>3, <3>4, CreditNow DEF CreditSum
  <2> QED BY <2>3, <2>7, <2>8, <2>9, <2>10, <2>11, <2>12, Untouched, CreditIs DEF IInv
<1> QED BY <1>5, <1>6, <1>7, <1>8, <1>9 DEF x

----------------------------------------------------------------------------
(* The provider.                                                           *)
LEMMA ProviderReadsStep ==
    ASSUME IInv, ProviderReads PROVE IInv'
<1> DEFINE h == Head(provider.stdin)
           t == Tail(provider.stdin)
<1>1. /\ provider.stdin # <<>> /\ UNCHANGED <<ctl, runner, toRunner, toCtl>>
      /\ provider.stdin \in Seq(Nat) /\ provider.got \in Seq(Nat)
      /\ provider' = [provider EXCEPT !.stdin = t, !.got = Append(@, h)]
  BY DEF ProviderReads, IInv, Typed, ProviderRec
<1>2. provider.stdin = <<h>> \o t /\ h \in Nat /\ t \in Seq(Nat)
  BY <1>1, HeadAndTail
<1> HIDE DEF h, t
<1>3. Append(provider.got, h) \in Seq(Nat)
  BY <1>1, <1>2
<1>4. Typed'
  BY <1>1, <1>2, <1>3 DEF IInv, Typed, ProviderRec
<1>5. /\ provider'.stdin = t /\ provider'.got = Append(provider.got, h)
      /\ provider'.stdinOpen = provider.stdinOpen /\ provider'.state = provider.state
      /\ provider'.status = provider.status /\ provider'.owed = provider.owed
      /\ provider'.stdout = provider.stdout /\ provider'.written = provider.written
  BY <1>1 DEF IInv, Typed, ProviderRec
<1>6. UNCHANGED <<OutView, EndView, OwedView, StatusView, ReturnView, CreditView>>
  BY <1>1, <1>5 DEF OutView, EndView, OwedView, StatusView, ReturnView, CreditView
<1>7. InputIsExact'
  <2>1. provider'.got \o provider'.stdin = provider.got \o provider.stdin
    BY <1>1, <1>2, <1>5, Shift
  <2> QED BY <2>1, <1>1, <1>5 DEF IInv, InputIsExact
<1> QED BY <1>4, <1>6, <1>7, Untouched DEF IInv

LEMMA ProviderWritesStep ==
    ASSUME IInv, ProviderWrites PROVE IInv'
<1> DEFINE n == provider.written
<1>1. /\ UNCHANGED <<ctl, runner, toRunner, toCtl>> /\ n \in Nat /\ provider.owed \in Nat
      /\ provider.stdout \in Seq(Nat) /\ Append(provider.stdout, n + 1) \in Seq(Nat)
      /\ Len(Append(provider.stdout, n + 1)) = Len(provider.stdout) + 1
      /\ Len(provider.stdout) \in Nat
      /\ provider' = [provider EXCEPT !.written = n + 1, !.stdout = Append(@, n + 1)]
  BY DEF ProviderWrites, IInv, Typed, ProviderRec
<1>2. Typed'
  <2> DEFINE m == n + 1
             s == Append(provider.stdout, n + 1)
  <2>1. m \in Nat /\ s \in Seq(Nat) /\ provider' = [provider EXCEPT !.written = m, !.stdout = s]
    BY <1>1
  <2> HIDE DEF n, m, s
  <2> QED BY <2>1, <1>1 DEF IInv, Typed, ProviderRec
<1>3. /\ provider'.written = n + 1 /\ provider'.stdout = Append(provider.stdout, n + 1)
      /\ provider'.stdin = provider.stdin /\ provider'.got = provider.got
      /\ provider'.stdinOpen = provider.stdinOpen /\ provider'.state = provider.state
      /\ provider'.status = provider.status /\ provider'.owed = provider.owed
  BY <1>1 DEF IInv, Typed, ProviderRec
<1>4. UNCHANGED <<InView, EndView, StatusView, ReturnView, CreditView>>
  BY <1>1, <1>3 DEF InView, EndView, StatusView, ReturnView, CreditView
<1>5. OutputIsExact'
  <2> DEFINE a == ((ctl.delivered \o ctl.pending) \o Outputs(toCtl)) \o Outputs(runner.outgoing)
             b == provider.stdout
  <2>1. a \in Seq(Nat) /\ b \in Seq(Nat)
    BY OutputsAre DEF IInv, Typed, CtlRec, RunnerRec, ProviderRec
  <2>2. a \o Append(b, n + 1) = Append(a \o b, n + 1)
    <3> HIDE DEF a, b
    <3> QED BY <2>1, <1>1, ConcatAppend
  <2> QED BY <2>2, <1>1, <1>3, UptoIs DEF IInv, OutputIsExact
<1>6. OwedIsRead'
  <2> DEFINE l == Len(provider.stdout)
             m == provider.owed
             k == runner.budget
  <2>1. /\ Len(provider'.stdout) = l + 1 /\ l \in Nat /\ m \in Nat /\ k \in Nat \cup {-1}
        /\ UNCHANGED runner /\ UNCHANGED Exited
    BY <1>1, <1>3 DEF IInv, Typed, RunnerRec, Exited
  <2> HIDE DEF l, n, m, k
  <2>2. /\ m =< n /\ n \in Nat
        /\ k # -1 \/ ~runner.outputOpen => Exited
        /\ runner.outputOpen /\ k # -1 => k > 0 /\ m + l =< n + k
        /\ ~runner.outputOpen => m + l =< n
    BY <1>1 DEF IInv, OwedIsRead, l, n, m, k
  <2>3. /\ m =< n + 1
        /\ runner.outputOpen /\ k # -1 => k > 0 /\ m + (l + 1) =< (n + 1) + k
        /\ ~runner.outputOpen => m + (l + 1) =< n + 1
    BY <2>1, <2>2
  <2> QED BY <2>1, <2>2, <2>3, <1>1, <1>3 DEF OwedIsRead, n, m, k
<1> QED BY <1>2, <1>4, <1>5, <1>6, Untouched DEF IInv

\* What the end of the provider changes, and what was the case until then.
LEMMA EndedIs ==
    ASSUME IInv, NEW status \in Outcome, NEW lingers \in BOOLEAN,
           provider' = Ended(provider, status, lingers)
    PROVE  /\ provider' \in ProviderRec /\ Exited' /\ provider'.state = "exited"
           /\ UNCHANGED <<provider.stdin, provider.stdinOpen, provider.got, provider.stdout,
                          provider.written>>
           /\ Exited => UNCHANGED <<provider.status, provider.owed>>
           /\ ~Exited => /\ provider'.status \in Outcome /\ provider'.owed = provider.written
                         /\ runner.outputOpen /\ runner.budget = -1 /\ ~runner.reported
                         /\ ctl.result = None
<1>1. provider \in ProviderRec
  BY DEF IInv, Typed
<1>2. CASE Exited
  <2>1. provider' = [provider EXCEPT !.lingers = @ /\ lingers]
    BY <1>2 DEF Ended, Exited
  <2> QED BY <1>1, <1>2, <2>1 DEF ProviderRec, Exited
<1>3. CASE ~Exited
  <2>1. provider' = [provider EXCEPT !.state = "exited", !.status = status,
                                     !.owed = provider.written, !.lingers = lingers]
    BY <1>3 DEF Ended, Exited
  <2>2. runner.outputOpen /\ runner.budget = -1 /\ ~runner.reported /\ ctl.result = None
    BY <1>3 DEF IInv, OwedIsRead, StatusIsLast
  <2> QED BY <1>1, <1>3, <2>1, <2>2 DEF ProviderRec, Exited
<1> QED BY <1>2, <1>3

LEMMA ProviderEndsStep ==
    ASSUME IInv, NEW status \in Outcome, NEW lingers \in BOOLEAN,
           provider' = Ended(provider, status, lingers)
    PROVE  /\ UNCHANGED <<ctl.delivered, ctl.pending, toCtl, runner.outgoing>> => OutputIsExact'
           /\ InputIsExact'
           /\ UNCHANGED <<runner.outputOpen, runner.budget>> => OwedIsRead'
           /\ UNCHANGED <<ctl.state, ctl.delivered, ctl.result>> => ReturnIsComplete'
<1>1. /\ Exited' /\ provider'.state = "exited"
      /\ UNCHANGED <<provider.stdin, provider.stdinOpen, provider.got, provider.stdout,
                     provider.written>>
      /\ Exited => UNCHANGED <<provider.status, provider.owed>>
      /\ ~Exited => /\ provider'.owed = provider.written /\ ctl.result = None
                    /\ runner.outputOpen /\ runner.budget = -1
  BY EndedIs
<1>2. ASSUME UNCHANGED <<ctl.delivered, ctl.pending, toCtl, runner.outgoing>> PROVE OutputIsExact'
  BY <1>1, <1>2 DEF IInv, OutputIsExact
<1>3. InputIsExact'
  BY <1>1 DEF IInv, InputIsExact
<1>4. ASSUME UNCHANGED <<runner.outputOpen, runner.budget>> PROVE OwedIsRead'
  <2>1. CASE Exited
    BY <1>1, <1>4, <2>1 DEF IInv, OwedIsRead
  <2>2. CASE ~Exited
    <3>1. provider.written =< provider.written
      BY DEF IInv, Typed, ProviderRec
    <3> QED BY <1>1, <1>4, <2>2, <3>1 DEF OwedIsRead
  <2> QED BY <2>1, <2>2
<1>5. ASSUME UNCHANGED <<ctl.state, ctl.delivered, ctl.result>> PROVE ReturnIsComplete'
  BY <1>1, <1>5 DEF IInv, ReturnIsComplete, StatusIsLast
<1> QED BY <1>2, <1>3, <1>4, <1>5

LEMMA ProviderSmallSteps ==
    ASSUME IInv, \/ ProviderClosesStdin \/ DescendantExits
                 \/ \E status \in Status, lingers \in BOOLEAN : ProviderExits(status, lingers)
    PROVE  IInv'
<1>1. CASE ProviderClosesStdin
  <2>1. UNCHANGED <<ctl, runner, toRunner, toCtl>>
        /\ provider' = [provider EXCEPT !.stdinOpen = FALSE]
    BY <1>1 DEF ProviderClosesStdin
  <2>2. Typed'
    BY <2>1 DEF IInv, Typed, ProviderRec
  <2>3. /\ provider'.stdinOpen = FALSE /\ provider'.state = provider.state
        /\ provider'.stdin = provider.stdin /\ provider'.got = provider.got
        /\ provider'.status = provider.status /\ provider'.owed = provider.owed
        /\ provider'.stdout = provider.stdout /\ provider'.written = provider.written
    BY <2>1 DEF IInv, Typed, ProviderRec
  <2>4. UNCHANGED <<OutView, OwedView, StatusView, ReturnView, CreditView>>
    BY <2>1, <2>3 DEF OutView, OwedView, StatusView, ReturnView, CreditView
  <2>5. EndOfInput' /\ InputIsExact'
    BY <2>1, <2>3 DEF IInv, EndOfInput, InputIsExact, Exited
  <2> QED BY <2>2, <2>4, <2>5, Untouched DEF IInv
<1>2. CASE DescendantExits
  <2>1. UNCHANGED <<ctl, runner, toRunner, toCtl>>
        /\ provider' = [provider EXCEPT !.lingers = FALSE]
    BY <1>2 DEF DescendantExits
  <2>2. Typed'
    BY <2>1 DEF IInv, Typed, ProviderRec
  <2>3. UNCHANGED <<OutView, InView, EndView, OwedView, StatusView, ReturnView, CreditView>>
    BY <2>1 DEF IInv, Typed, ProviderRec, OutView, InView, EndView, OwedView, StatusView,
                ReturnView, CreditView
  <2> QED BY <2>2, <2>3, Untouched DEF IInv
<1>3. ASSUME NEW status \in Status, NEW lingers \in BOOLEAN, ProviderExits(status, lingers)
      PROVE  IInv'
  <2>1. /\ UNCHANGED <<ctl, runner, toRunner, toCtl>> /\ status \in Outcome
        /\ provider' = Ended(provider, status, lingers)
    BY <1>3 DEF ProviderExits, Outcome
  <2>2. OutputIsExact' /\ InputIsExact' /\ OwedIsRead' /\ ReturnIsComplete'
    BY <2>1, ProviderEndsStep
  <2>3. /\ provider' \in ProviderRec /\ Exited' /\ UNCHANGED provider.stdinOpen
        /\ Exited => UNCHANGED provider.status
        /\ ~Exited => provider'.status \in Outcome /\ ~runner.reported /\ ctl.result = None
    BY <2>1, EndedIs
  <2>4. Typed' /\ EndOfInput' /\ StatusIsLast'
    BY <2>1, <2>3 DEF IInv, Typed, EndOfInput, StatusIsLast
  <2>5. UNCHANGED CreditView
    BY <2>1 DEF CreditView
  <2> QED BY <2>2, <2>4, <2>5, Untouched DEF IInv
<1> QED BY <1>1, <1>2, <1>3

----------------------------------------------------------------------------
(* The runner.                                                             *)

\* The frame that the runner has read, if any, is no input that is missed.
Skipped == \/ UNCHANGED toRunner
           \/ /\ toRunner # <<>> /\ toRunner' = Tail(toRunner)
              /\ Head(toRunner).kind \notin {"I", "E"} \/ Exited'

\* The runner says nothing of the output.
Silent == \/ UNCHANGED toCtl
          \/ toCtl' = Append(toCtl, F("F", 0))

\* What a signal, and the end, leave alone.
Apart == UNCHANGED <<runner.pending, runner.ack, runner.eof, runner.inputOpen, runner.outputOpen,
                     runner.budget, runner.outgoing, runner.reported>>

LEMMA SkippedIs ==
    ASSUME IInv, Skipped
    PROVE  /\ toRunner' \in Seq(Sound) /\ EndIsLast(toRunner')
           /\ NoInput(toRunner) => NoInput(toRunner')
           /\ NoEnd(toRunner) => NoEnd(toRunner')
           /\ ~Exited' => Inputs(toRunner') = Inputs(toRunner)
<1>1. toRunner \in Seq(Sound) /\ EndIsLast(toRunner)
  BY DEF IInv, Typed, EndOfInput
<1>2. CASE UNCHANGED toRunner
  BY <1>1, <1>2
<1>3. CASE /\ toRunner # <<>> /\ toRunner' = Tail(toRunner)
           /\ Head(toRunner).kind \notin {"I", "E"} \/ Exited'
  <2>1. /\ toRunner' \in Seq(Sound) /\ EndIsLast(toRunner')
        /\ NoInput(toRunner) => NoInput(toRunner')
        /\ NoEnd(toRunner) => NoEnd(toRunner')
    BY <1>1, <1>3, QueueTail
  <2>2. ~Exited' => Inputs(toRunner') = Inputs(toRunner)
    BY <1>1, <1>3, InputsHead
  <2> QED BY <2>1, <2>2
<1> QED BY <1>2, <1>3 DEF Skipped

LEMMA SilentIs ==
    ASSUME IInv, Silent
    PROVE  /\ toCtl' \in Seq(Sound) /\ Outputs(toCtl') = Outputs(toCtl)
           /\ Statuses(toCtl') = Statuses(toCtl) /\ StatusEnds(toCtl')
           /\ NoOutput(toCtl) => NoOutput(toCtl')
           /\ NoStatus(toCtl) => NoStatus(toCtl')
<1>1. toCtl \in Seq(Sound) /\ StatusEnds(toCtl)
  BY DEF IInv, Typed, StatusIsLast
<1>2. CASE UNCHANGED toCtl
  BY <1>1, <1>2
<1>3. CASE toCtl' = Append(toCtl, F("F", 0))
  <2> DEFINE x == F("F", 0)
  <2>1. x \in Sound /\ x.kind = "F"
    BY Frames
  <2> HIDE DEF x
  <2>2. toCtl' = Append(toCtl, x)
    BY <1>3 DEF x
  <2>3. /\ StatusEnds(toCtl')
        /\ NoOutput(toCtl) => NoOutput(toCtl')
        /\ NoStatus(toCtl) => NoStatus(toCtl')
    BY <1>1, <2>1, <2>2, QueueAppend
  <2>4. Outputs(toCtl') = Outputs(toCtl)
    BY <1>1, <2>1, <2>2, OutputsAppend
  <2>5. Statuses(toCtl') = Statuses(toCtl)
    BY <1>1, <2>1, <2>2, StatusesAppend
  <2>6. toCtl' \in Seq(Sound)
    BY <1>1, <2>1, <2>2
  <2> QED BY <2>3, <2>4, <2>5, <2>6
<1> QED BY <1>2, <1>3 DEF Silent

\* All but the credit, when the provider ends or is left as it is.
LEMMA RunnerSignals ==
    ASSUME IInv, UNCHANGED ctl, runner' \in RunnerRec, Apart, Skipped, Silent,
           provider' = provider \/ provider' = Ended(provider, Killed, FALSE)
    PROVE  /\ Typed' /\ EndOfInput' /\ OwedIsRead' /\ StatusIsLast'
           /\ OutputIsExact' /\ InputIsExact' /\ ReturnIsComplete'
<1> USE DEF Apart
<1>1. /\ toRunner' \in Seq(Sound) /\ EndIsLast(toRunner')
      /\ NoInput(toRunner) => NoInput(toRunner')
      /\ NoEnd(toRunner) => NoEnd(toRunner')
      /\ ~Exited' => Inputs(toRunner') = Inputs(toRunner)
  BY SkippedIs
<1>2. /\ toCtl' \in Seq(Sound) /\ Outputs(toCtl') = Outputs(toCtl)
      /\ Statuses(toCtl') = Statuses(toCtl) /\ StatusEnds(toCtl')
      /\ NoOutput(toCtl) => NoOutput(toCtl')
      /\ NoStatus(toCtl) => NoStatus(toCtl')
  BY SilentIs
<1>3. CASE provider' = provider
  <2>1. Typed' /\ EndOfInput' /\ StatusIsLast'
    BY <1>1, <1>2, <1>3 DEF IInv, Typed, EndOfInput, StatusIsLast, Exited
  <2>2. UNCHANGED <<OutView, OwedView, ReturnView>>
    BY <1>2, <1>3 DEF OutView, OwedView, ReturnView
  <2>3. InputIsExact'
    <3>1. CASE Exited'
      <4>1. provider.state = "exited"
        BY <3>1, <1>3 DEF Exited
      <4> QED BY <4>1, <1>3 DEF IInv, InputIsExact
    <3>2. CASE ~Exited'
      BY <3>2, <1>1, <1>3 DEF IInv, InputIsExact
    <3> QED BY <3>1, <3>2
  <2> QED BY <2>1, <2>2, <2>3, Untouched DEF IInv
<1>4. CASE provider' = Ended(provider, Killed, FALSE)
  <2>1. Killed \in Outcome
    BY DEF Outcome
  <2>2. InputIsExact' /\ OwedIsRead' /\ ReturnIsComplete'
    BY <1>4, <2>1, ProviderEndsStep
  <2>3. /\ provider' \in ProviderRec /\ Exited'
        /\ UNCHANGED <<provider.stdinOpen, provider.stdout, provider.written>>
        /\ Exited => UNCHANGED provider.status
        /\ ~Exited => provider'.status \in Outcome /\ ~runner.reported /\ ctl.result = None
    BY <1>4, <2>1, EndedIs
  <2>4. Typed' /\ EndOfInput'
    BY <1>1, <1>2, <2>3 DEF IInv, Typed, EndOfInput
  <2>5. StatusIsLast'
    BY <1>2, <2>3 DEF IInv, StatusIsLast
  <2>6. OutputIsExact'
    BY <1>2, <2>3 DEF IInv, OutputIsExact
  <2> QED BY <2>2, <2>4, <2>5, <2>6
<1> QED BY <1>3, <1>4

LEMMA RunnerLeaves ==
    ASSUME IInv, UNCHANGED ctl, Skipped, Silent, NEW state \in {"failed", "returned"}, NEW unread,
           Leave(state, unread), state = "failed" => ~CtlRuns
    PROVE  IInv'
<1>1. /\ runner' = [runner EXCEPT !.state = state, !.reset = unread # <<>>]
      /\ provider' = Ended(provider, Killed, FALSE)
  BY DEF Leave
<1>2. runner' \in RunnerRec /\ Apart /\ runner'.state = state
  <2>1. (unread # <<>>) \in BOOLEAN
    OBVIOUS
  <2> QED BY <1>1, <2>1 DEF IInv, Typed, RunnerRec, Apart
<1>3. /\ Typed' /\ EndOfInput' /\ OwedIsRead' /\ StatusIsLast'
      /\ OutputIsExact' /\ InputIsExact' /\ ReturnIsComplete'
  BY <1>1, <1>2, RunnerSignals
<1>4. CreditSum'
  <2>1. ~RunnerRuns' /\ UNCHANGED <<Outstanding, CtlRuns>>
    BY <1>2 DEF RunnerRuns, Outstanding, CtlRuns
  <2> QED BY <2>1, <1>2, CreditNow DEF CreditSum
<1> QED BY <1>3, <1>4, CreditIs DEF IInv

LEMMA RunnerGoes ==
    ASSUME IInv, RunnerRuns, RunnerReadsSocketEof \/ RunnerReturns
                 \/ (Leave("failed", toRunner) /\ UNCHANGED <<ctl, toRunner, toCtl>> /\ ~CtlRuns)
    PROVE  IInv'
<1>1. UNCHANGED <<ctl, toRunner, toCtl>>
  BY DEF RunnerReadsSocketEof, RunnerReturns
<1>2. Skipped /\ Silent
  BY <1>1 DEF Skipped, Silent
<1>3. \/ ~CtlRuns /\ Leave("failed", <<>>)
      \/ ~CtlRuns /\ Leave("failed", toRunner)
      \/ Leave("returned", toRunner)
  BY DEF RunnerReadsSocketEof, RunnerReturns
<1> QED BY <1>1, <1>2, <1>3, RunnerLeaves

\* The provider is told to end, and the runner is as it was otherwise.
LEMMA RunnerTells ==
    ASSUME IInv, UNCHANGED <<ctl, toCtl>>, Skipped, Inputs(toRunner') = Inputs(toRunner),
           \/ runner' = runner
           \/ runner' = [runner EXCEPT !.terminating = TRUE],
           provider' = provider \/ provider' = Ended(provider, Killed, FALSE)
    PROVE  IInv'
<1>1. runner' \in RunnerRec /\ Apart /\ runner'.state = runner.state
  BY DEF IInv, Typed, RunnerRec, Apart
<1>2. Silent
  BY DEF Silent
<1>3. /\ Typed' /\ EndOfInput' /\ OwedIsRead' /\ StatusIsLast'
      /\ OutputIsExact' /\ InputIsExact' /\ ReturnIsComplete'
  BY <1>1, <1>2, RunnerSignals
<1>4. CreditSum'
  <2>1. UNCHANGED <<Leaving, Crossing, Held, Consumed, Answered, Returning, Outstanding,
                    CtlRuns, RunnerRuns>>
    BY <1>1 DEF Leaving, Crossing, Held, Consumed, Answered, Returning, Outstanding,
                      CtlRuns, RunnerRuns, Apart
  <2> QED BY <2>1, <1>1, CreditNow DEF CreditSum
<1> QED BY <1>3, <1>4, CreditIs DEF IInv

LEMMA RunnerSignalSteps ==
    ASSUME IInv, RunnerSignalled \/ RunnerEscalates PROVE IInv'
<1>1. UNCHANGED <<ctl, toRunner, toCtl>>
  BY DEF RunnerSignalled, RunnerEscalates
<1>2. Skipped /\ Inputs(toRunner') = Inputs(toRunner)
  BY <1>1 DEF Skipped
<1>3. /\ \/ runner' = runner
         \/ runner' = [runner EXCEPT !.terminating = TRUE]
      /\ provider' = provider \/ provider' = Ended(provider, Killed, FALSE)
  BY DEF RunnerSignalled, RunnerEscalates, SignalProvider
<1> QED BY <1>1, <1>2, <1>3, RunnerTells

LEMMA RunnerKilledStep ==
    ASSUME IInv, RunnerKilled PROVE IInv'
<1>1. /\ runner' = [runner EXCEPT !.state = "killed", !.reset = toRunner # <<>>]
      /\ UNCHANGED <<ctl, provider, toRunner, toCtl>>
  BY DEF RunnerKilled
<1>2. runner' \in RunnerRec /\ Apart /\ runner'.state = "killed"
  <2>1. (toRunner # <<>>) \in BOOLEAN
    OBVIOUS
  <2> QED BY <1>1, <2>1 DEF IInv, Typed, RunnerRec, Apart
<1>3. Skipped /\ Silent
  BY <1>1 DEF Skipped, Silent
<1>4. /\ Typed' /\ EndOfInput' /\ OwedIsRead' /\ StatusIsLast'
      /\ OutputIsExact' /\ InputIsExact' /\ ReturnIsComplete'
  BY <1>1, <1>2, <1>3, RunnerSignals
<1>5. CreditSum'
  <2>1. ~RunnerRuns' /\ UNCHANGED <<Outstanding, CtlRuns>>
    BY <1>1, <1>2 DEF RunnerRuns, Outstanding, CtlRuns
  <2> QED BY <2>1, <1>1, <1>2, CreditNow DEF CreditSum
<1> QED BY <1>4, <1>5, CreditIs DEF IInv

\* Input that the runner reads goes to the provider, or is acknowledged at once.
LEMMA RunnerAccepts ==
    ASSUME IInv, RunnerRuns, UNCHANGED <<ctl, provider, toCtl>>,
           toRunner # <<>>, Head(toRunner).kind = "I", toRunner' = Tail(toRunner),
           runner' = AcceptInput(Head(toRunner).value)
    PROVE  IInv'
<1> DEFINE v == Head(toRunner).value
           s == Tail(toRunner)
<1>1. /\ toRunner \in Seq(Sound) /\ s \in Seq(Sound) /\ v \in Nat
      /\ Inputs(toRunner) = <<v>> \o Inputs(s) /\ Inputs(s) \in Seq(Nat)
      /\ ~NoInput(toRunner) /\ EndIsLast(s) /\ (NoEnd(toRunner) <=> NoEnd(s))
  <2>1. toRunner \in Seq(Sound) /\ EndIsLast(toRunner)
    BY DEF IInv, Typed, EndOfInput
  <2>2. /\ NoInput(toRunner) <=> Head(toRunner).kind # "I" /\ NoInput(s)
        /\ NoEnd(toRunner) <=> Head(toRunner).kind # "E" /\ NoEnd(s)
        /\ EndIsLast(toRunner) => EndIsLast(s)
        /\ Head(toRunner) \in Sound /\ s \in Seq(Sound)
    BY <2>1, QueueTail
  <2>3. v \in Nat /\ Inputs(s) \in Seq(Nat)
    BY <2>2, Frames, InputsAre
  <2>4. Inputs(toRunner) = <<v>> \o Inputs(s)
    BY <2>1, InputsHead
  <2> QED BY <2>1, <2>2, <2>3, <2>4
<1>2. /\ toRunner' = s
      /\ runner' = IF runner.eof \/ ~runner.inputOpen THEN [runner EXCEPT !.ack = @ + 1]
                   ELSE [runner EXCEPT !.pending = Append(@, v)]
  BY DEF AcceptInput
<1> HIDE DEF v, s
<1>3. Crossing = Crossing' + 1
  <2> DEFINE c == Inputs(s)
  <2>1. c \in Seq(Nat)
    BY <1>1
  <2> HIDE DEF c
  <2>2. Len(<<v>> \o c) = Len(c) + 1
    BY <1>1, <2>1
  <2> QED BY <1>1, <1>2, <2>2 DEF Crossing, c
<1>4. runner.ack \in Nat /\ runner.ack + 1 \in Nat /\ runner.pending \in Seq(Nat)
      /\ Append(runner.pending, v) \in Seq(Nat) /\ runner \in RunnerRec
  BY <1>1 DEF IInv, Typed, RunnerRec
<1>5. CASE runner.eof \/ ~runner.inputOpen
  <2>1. runner' = [runner EXCEPT !.ack = @ + 1]
    BY <1>2, <1>5
  <2>2. runner' \in RunnerRec /\ runner'.ack = runner.ack + 1
        /\ UNCHANGED <<runner.state, runner.pending, runner.eof, runner.inputOpen, runner.reported,
                       runner.outputOpen, runner.budget, runner.outgoing>>
    BY <1>4, <2>1 DEF RunnerRec
  <2>3. Typed'
    BY <1>1, <1>2, <2>2 DEF IInv, Typed
  <2>4. UNCHANGED <<OutView, OwedView, StatusView, ReturnView>>
    BY <2>2 DEF OutView, OwedView, StatusView, ReturnView
  <2>5. runner.eof /\ ~(provider.stdinOpen /\ ~Exited)
    BY <1>1, <1>5 DEF IInv, EndOfInput
  <2>6. EndOfInput'
    BY <1>1, <1>2, <2>2, <2>5 DEF IInv, EndOfInput, Exited
  <2>7. InputIsExact'
    BY <2>5 DEF IInv, InputIsExact, Exited
  <2>8. CreditSum'
    <3>1. Consumed' = Consumed + 1 /\ Held' = Held /\ Crossing' \in Nat
          /\ UNCHANGED <<Leaving, Answered, Returning>>
      <4>1. Crossing' \in Nat
        BY <2>3, InputsAre DEF Typed, Crossing
      <4> QED BY <4>1, <2>2 DEF Leaving, Held, Consumed, Answered, Returning
    <3>2. runner'.state = runner.state
      BY <2>2
    <3> QED BY <1>3, <3>1, <3>2, CreditOfInput
  <2> QED BY <2>3, <2>4, <2>6, <2>7, <2>8, Untouched, CreditIs DEF IInv
<1>6. CASE ~(runner.eof \/ ~runner.inputOpen)
  <2>1. runner' = [runner EXCEPT !.pending = Append(@, v)]
    BY <1>2, <1>6
  <2>2. runner' \in RunnerRec /\ runner'.pending = Append(runner.pending, v)
        /\ UNCHANGED <<runner.state, runner.ack, runner.eof, runner.inputOpen, runner.reported,
                       runner.outputOpen, runner.budget, runner.outgoing>>
    BY <1>4, <2>1 DEF RunnerRec
  <2>3. Typed'
    BY <1>1, <1>2, <2>2 DEF IInv, Typed
  <2>4. UNCHANGED <<OutView, OwedView, StatusView, ReturnView>>
    BY <2>2 DEF OutView, OwedView, StatusView, ReturnView
  <2>5. EndOfInput'
    BY <1>1, <1>2, <1>6, <2>2 DEF IInv, EndOfInput, Exited
  <2>6. InputIsExact'
    <3> DEFINE a == (provider.got \o provider.stdin) \o runner.pending
               c == Inputs(s)
    <3>1. a \in Seq(Nat) /\ c \in Seq(Nat) /\ v \in Nat
      BY <1>1 DEF IInv, Typed, RunnerRec, ProviderRec
    <3>2. (provider.got \o provider.stdin) \o runner'.pending = Append(a, v)
      <4> DEFINE b == provider.got \o provider.stdin
      <4>1. b \in Seq(Nat)
        BY DEF IInv, Typed, ProviderRec
      <4> HIDE DEF b
      <4>2. b \o Append(runner.pending, v) = Append(b \o runner.pending, v)
        BY <4>1, <1>1, <1>4, ConcatAppend
      <4> QED BY <4>2, <2>2 DEF b
    <3>3. Append(a, v) \o c = a \o (<<v>> \o c)
      <4> HIDE DEF a, c
      <4> QED BY <3>1, Shift
    <3>4. ((provider.got \o provider.stdin) \o runner'.pending) \o Inputs(toRunner')
             = a \o Inputs(toRunner)
      BY <1>1, <1>2, <3>2, <3>3
    <3> QED BY <3>4 DEF IInv, InputIsExact
  <2>7. CreditSum'
    <3>1. Held' = Held + 1
      <4> DEFINE p == runner.pending
      <4>1. p \in Seq(Nat) /\ runner'.pending = Append(p, v)
        BY <1>4, <2>2
      <4> HIDE DEF p
      <4>2. Len(Append(p, v)) = Len(p) + 1
        BY <1>1, <4>1
      <4> QED BY <4>1, <4>2 DEF Held, p
    <3>2. Consumed' = Consumed /\ Crossing' \in Nat
          /\ UNCHANGED <<Leaving, Answered, Returning>>
      <4>1. Crossing' \in Nat
        BY <2>3, InputsAre DEF Typed, Crossing
      <4> QED BY <4>1, <2>2 DEF Leaving, Consumed, Answered, Returning
    <3>3. runner'.state = runner.state
      BY <2>2
    <3> QED BY <1>3, <3>1, <3>2, <3>3, CreditOfInput
  <2> QED BY <2>3, <2>4, <2>5, <2>6, <2>7, Untouched, CreditIs DEF IInv
<1> QED BY <1>5, <1>6

\* The end of the input, and a signal.
LEMMA RunnerReadsEnd ==
    ASSUME IInv, RunnerRuns, UNCHANGED <<ctl, provider, toCtl>>,
           toRunner # <<>>, Head(toRunner).kind = "E", toRunner' = Tail(toRunner),
           runner' = [runner EXCEPT !.eof = TRUE]
    PROVE  IInv'
<1> DEFINE s == Tail(toRunner)
<1>1. /\ toRunner \in Seq(Sound) /\ s \in Seq(Sound) /\ Inputs(toRunner) = Inputs(s)
      /\ ~NoEnd(toRunner) /\ EndIsLast(s) /\ NoInput(s)
  <2>1. toRunner \in Seq(Sound) /\ EndIsLast(toRunner)
    BY DEF IInv, Typed, EndOfInput
  <2>2. /\ NoEnd(toRunner) <=> Head(toRunner).kind # "E" /\ NoEnd(s)
        /\ EndIsLast(toRunner) => EndIsLast(s) /\ (Head(toRunner).kind = "E" => NoInput(s))
        /\ s \in Seq(Sound)
    BY <2>1, QueueTail
  <2>3. Inputs(toRunner) = Inputs(s)
    BY <2>1, InputsHead
  <2> QED BY <2>1, <2>2, <2>3
<1>2. toRunner' = s
  OBVIOUS
<1> HIDE DEF s
<1>3. runner' \in RunnerRec /\ runner'.eof
      /\ UNCHANGED <<runner.state, runner.pending, runner.ack, runner.inputOpen, runner.reported,
                     runner.outputOpen, runner.budget, runner.outgoing>>
  BY DEF IInv, Typed, RunnerRec
<1>4. Typed'
  BY <1>1, <1>2, <1>3 DEF IInv, Typed
<1>5. UNCHANGED <<OutView, InView, OwedView, StatusView, ReturnView>>
  BY <1>1, <1>2, <1>3 DEF OutView, InView, OwedView, StatusView, ReturnView
<1>6. EndOfInput'
  BY <1>1, <1>2, <1>3 DEF IInv, EndOfInput, Exited
<1>7. CreditSum'
  <2>1. UNCHANGED <<Leaving, Crossing, Held, Consumed, Answered, Returning, Outstanding,
                    CtlRuns, RunnerRuns>>
    BY <1>1, <1>2, <1>3 DEF Leaving, Crossing, Held, Consumed, Answered, Returning, Outstanding,
                            CtlRuns, RunnerRuns
  <2> QED BY <2>1, <1>3, CreditNow DEF CreditSum
<1> QED BY <1>4, <1>5, <1>6, <1>7, Untouched, CreditIs DEF IInv

LEMMA RunnerReadsSocketStep ==
    ASSUME IInv, RunnerReadsSocket PROVE IInv'
<1> DEFINE x == Head(toRunner)
<1>1. RunnerRuns /\ toRunner # <<>> /\ toRunner' = Tail(toRunner) /\ UNCHANGED ctl
      /\ toRunner \in Seq(Sound)
  BY DEF RunnerReadsSocket, IInv, Typed
<1>2. CASE x.kind = "I" /\ ~WindowExceeded
  BY <1>1, <1>2, RunnerAccepts DEF RunnerReadsSocket
<1>3. CASE x.kind = "I" /\ WindowExceeded
  <2>1. /\ Leave("failed", Tail(toRunner))
        /\ Silent
    BY <1>3 DEF RunnerReadsSocket, Fail, Silent
  <2>2. Exited'
    <3>1. provider' = Ended(provider, Killed, FALSE) /\ Killed \in Outcome
      BY <2>1 DEF Leave, Outcome
    <3> QED BY <3>1, EndedIs
  <2>3. Skipped
    BY <1>1, <2>2 DEF Skipped
  <2>4. ~CtlRuns
    <3> SUFFICES ASSUME CtlRuns PROVE FALSE
      OBVIOUS
    <3>1. Held + 1 > Window
      BY <1>3 DEF WindowExceeded, Held
    <3>2. Crossing >= 1
      <4> DEFINE c == Inputs(Tail(toRunner))
      <4>1. c \in Seq(Nat) /\ x.value \in Nat /\ Inputs(toRunner) = <<x.value>> \o c
        <5>1. Tail(toRunner) \in Seq(Sound) /\ x \in Sound
          BY <1>1, QueueTail
        <5>2. c \in Seq(Nat) /\ x.value \in Nat
          BY <5>1, <1>3, InputsAre, Frames
        <5>3. Inputs(toRunner) = <<x.value>> \o c
          BY <1>1, <1>3, InputsHead
        <5> QED BY <5>2, <5>3
      <4> HIDE DEF c, x
      <4>2. Len(<<x.value>> \o c) >= 1
        BY <4>1
      <4> QED BY <4>1, <4>2 DEF Crossing
    <3>3. Leaving + Crossing + Held =< Window
      BY <1>1, CreditNow DEF CreditSum
    <3> QED BY <3>1, <3>2, <3>3, CreditNow
  <2> QED BY <1>1, <2>1, <2>3, <2>4, RunnerLeaves
<1>4. CASE x.kind = "E"
  BY <1>1, <1>4, RunnerReadsEnd DEF RunnerReadsSocket
<1>5. CASE x.kind = "S"
  <2>1. /\ UNCHANGED toCtl /\ runner' = [runner EXCEPT !.terminating = TRUE]
        /\ provider' = provider \/ provider' = Ended(provider, Killed, FALSE)
    BY <1>5 DEF RunnerReadsSocket, SignalProvider
  <2>2. Skipped
    BY <1>1, <1>5 DEF Skipped
  <2>3. Inputs(toRunner') = Inputs(toRunner)
    BY <1>1, <1>5, InputsHead
  <2> QED BY <1>1, <2>1, <2>2, <2>3, RunnerTells
<1> QED BY <1>2, <1>3, <1>4, <1>5 DEF RunnerReadsSocket

\* Before the status there is none on its way.
LEMMA NotReported ==
    ASSUME IInv, ~runner.reported
    PROVE  NoStatus(toCtl) /\ NoStatus(runner.outgoing) /\ ctl.result = None
<1>1. Statuses(toCtl) = {} /\ Statuses(runner.outgoing) = {} /\ ctl.result = None
  BY DEF IInv, StatusIsLast
<1>2. toCtl \in Seq(Sound) /\ runner.outgoing \in Seq(Sound)
  BY DEF IInv, Typed, RunnerRec
<1> QED BY <1>1, <1>2, StatusesNone

\* A frame that is neither output nor the status.
LEMMA RunnerSays ==
    ASSUME IInv, NEW x \in Sound, x.kind \in {"A", "B"},
           runner'.outgoing = Append(runner.outgoing, x),
           UNCHANGED <<ctl, provider, toCtl, runner.reported, runner.outputOpen, runner.budget>>
    PROVE  /\ Append(runner.outgoing, x) \in Seq(Sound)
           /\ StatusIsLast' /\ OutputIsExact' /\ OwedIsRead' /\ ReturnIsComplete'
<1>1. runner.outgoing \in Seq(Sound) /\ Append(runner.outgoing, x) \in Seq(Sound)
  BY DEF IInv, Typed, RunnerRec
<1>2. /\ NoOutput(runner'.outgoing) <=> NoOutput(runner.outgoing)
      /\ StatusEnds(runner'.outgoing) <=> StatusEnds(runner.outgoing)
  BY <1>1, QueueAppend
<1>3. Statuses(runner'.outgoing) = Statuses(runner.outgoing)
  BY <1>1, StatusesAppend
<1>4. Outputs(runner'.outgoing) = Outputs(runner.outgoing)
  BY <1>1, OutputsAppend
<1>5. StatusIsLast'
  BY <1>2, <1>3 DEF IInv, StatusIsLast, Exited
<1>6. UNCHANGED <<OutView, OwedView, ReturnView>>
  BY <1>4 DEF OutView, OwedView, ReturnView
<1> QED BY <1>1, <1>5, <1>6, Untouched DEF IInv

LEMMA RunnerAcknowledgesStep ==
    ASSUME IInv, RunnerAcknowledges PROVE IInv'
<1> DEFINE x == F("A", runner.ack)
<1>1. x \in Sound /\ x.kind = "A" /\ x.value = runner.ack
  BY Frames DEF IInv, Typed, RunnerRec
<1> HIDE DEF x
<1>2. /\ UNCHANGED <<ctl, provider, toRunner, toCtl>> /\ runner.outgoing \in Seq(Sound)
      /\ runner' = [runner EXCEPT !.outgoing = Append(@, x), !.ack = 0]
  BY DEF RunnerAcknowledges, IInv, Typed, RunnerRec, x
<1>3. /\ runner'.outgoing = Append(runner.outgoing, x) /\ runner'.ack = 0
      /\ UNCHANGED <<runner.state, runner.pending, runner.eof, runner.inputOpen, runner.reported,
                     runner.outputOpen, runner.budget>>
  BY <1>2 DEF IInv, Typed, RunnerRec
<1>4. /\ Append(runner.outgoing, x) \in Seq(Sound)
      /\ StatusIsLast' /\ OutputIsExact' /\ OwedIsRead' /\ ReturnIsComplete'
  BY <1>1, <1>2, <1>3, RunnerSays
<1>5. Typed'
  BY <1>2, <1>4 DEF IInv, Typed, RunnerRec
<1>6. UNCHANGED <<InView, EndView>>
  BY <1>2, <1>3 DEF InView, EndView
<1>7. CreditSum'
  <2>1. Acknowledged(runner'.outgoing) = Acknowledged(runner.outgoing) + runner.ack
    BY <1>1, <1>2, <1>3, AcknowledgedAppend
  <2>2. Consumed' = 0 /\ Answered' = Answered + Consumed
        /\ UNCHANGED <<Leaving, Crossing, Held, Returning, runner.state>>
    BY <2>1, <1>2, <1>3 DEF Leaving, Crossing, Held, Returning, Consumed, Answered
  <2> QED BY <2>2, <1>2, CreditNow, CreditMoves
<1> QED BY <1>4, <1>5, <1>6, <1>7, Untouched, CreditIs DEF IInv

\* The provider takes the next unit, or what is left for it is dropped.
LEMMA RunnerWrites ==
    ASSUME IInv, UNCHANGED <<ctl, toRunner, toCtl>>, runner.pending # <<>>,
           provider.state = "running", provider.stdinOpen,
           provider' = [provider EXCEPT !.stdin = Append(@, Head(runner.pending))],
           runner' = [runner EXCEPT !.pending = Tail(@), !.ack = @ + 1]
    PROVE  IInv'
<1> DEFINE h == Head(runner.pending)
           t == Tail(runner.pending)
<1>1. runner.pending \in Seq(Nat) /\ provider.stdin \in Seq(Nat) /\ provider.got \in Seq(Nat)
      /\ runner.ack \in Nat /\ runner.ack + 1 \in Nat
  BY DEF IInv, Typed, RunnerRec, ProviderRec
<1>2. runner.pending = <<h>> \o t /\ h \in Nat /\ t \in Seq(Nat)
  BY <1>1, HeadAndTail
<1>3. /\ provider' = [provider EXCEPT !.stdin = Append(@, h)]
      /\ runner' = [runner EXCEPT !.pending = t, !.ack = @ + 1]
  OBVIOUS
<1> HIDE DEF h, t
<1>4. Append(provider.stdin, h) \in Seq(Nat)
  BY <1>1, <1>2
<1>5. Typed'
  <2>1. provider' \in ProviderRec
    BY <1>3, <1>4 DEF IInv, Typed, ProviderRec
  <2>2. runner' \in RunnerRec
    BY <1>1, <1>2, <1>3 DEF IInv, Typed, RunnerRec
  <2> QED BY <2>1, <2>2 DEF IInv, Typed
<1>6. /\ runner'.pending = t /\ runner'.ack = runner.ack + 1
      /\ UNCHANGED <<runner.state, runner.eof, runner.inputOpen, runner.reported, runner.outputOpen,
                     runner.budget, runner.outgoing>>
  BY <1>3 DEF IInv, Typed, RunnerRec
<1>7. /\ provider'.stdin = Append(provider.stdin, h)
      /\ UNCHANGED <<provider.got, provider.stdinOpen, provider.state, provider.status,
                     provider.owed, provider.stdout, provider.written>>
  BY <1>3 DEF IInv, Typed, ProviderRec
<1>8. UNCHANGED <<OutView, EndView, OwedView, StatusView, ReturnView>>
  BY <1>6, <1>7 DEF OutView, EndView, OwedView, StatusView, ReturnView
<1>9. InputIsExact'
  <2> DEFINE now == provider'.got \o provider'.stdin
             got == provider.got
             stdin == provider.stdin
             c == Inputs(toRunner)
             d == Inputs(ctl.outgoing)
             n == ctl.read
  <2>1. c \in Seq(Nat) /\ d \in Seq(Nat) /\ n \in Nat /\ got \in Seq(Nat) /\ stdin \in Seq(Nat)
    BY <1>1, InputsAre DEF IInv, Typed, CtlRec
  <2>2. (((got \o stdin) \o (<<h>> \o t)) \o c) \o d = Upto(n)
    BY <1>2 DEF IInv, InputIsExact
  <2>3. now = got \o Append(stdin, h)
    BY <1>7
  <2> HIDE DEF now, got, stdin, c, d, n
  <2>4. now = Upto(Len(now)) /\ ((now \o t) \o c) \o d = Upto(n)
    <3>1. Handing(got, stdin, h, t, c, d, n, now)
      BY <1>2, <2>1, <2>2, <2>3 DEF Handing
    <3> QED BY <3>1, Handover
  <2> QED BY <2>4, <1>6 DEF InputIsExact, now, c, d, n
<1>10. CreditSum'
  <2>1. Held = Held' + 1 /\ Held' \in Nat
    <3>1. Len(<<h>> \o t) = Len(t) + 1 /\ Len(t) \in Nat
      BY <1>2
    <3> QED BY <3>1, <1>2, <1>6 DEF Held
  <2>2. Consumed' = Consumed + 1
        /\ UNCHANGED <<Leaving, Crossing, Answered, Returning, runner.state>>
    BY <1>6 DEF Leaving, Crossing, Returning, Consumed, Answered
  <2> QED BY <2>1, <2>2, CreditOfWrite
<1> QED BY <1>5, <1>8, <1>9, <1>10, Untouched, CreditIs DEF IInv

LEMMA RunnerDrops ==
    ASSUME IInv, UNCHANGED <<ctl, provider, toRunner, toCtl>>, runner.inputOpen,
           provider.state # "running" \/ ~provider.stdinOpen, runner' = DropInput
    PROVE  IInv'
<1> DEFINE x == F("B", 0)
           k == runner.ack + Len(runner.pending)
<1>1. x \in Sound /\ x.kind = "B" /\ k \in Nat /\ <<>> \in Seq(Nat)
      /\ runner.outgoing \in Seq(Sound)
  BY Frames DEF IInv, Typed, RunnerRec
<1>2. runner' = [runner EXCEPT !.pending = <<>>, !.eof = TRUE, !.ack = k,
                               !.outgoing = Append(@, x)]
  BY DEF DropInput
<1>3. k = runner.ack + Len(runner.pending)
  OBVIOUS
<1> HIDE DEF x, k
<1>4. /\ runner'.outgoing = Append(runner.outgoing, x) /\ runner'.ack = k
      /\ runner'.pending = <<>> /\ runner'.eof = TRUE
      /\ UNCHANGED <<runner.state, runner.inputOpen, runner.reported, runner.outputOpen,
                     runner.budget>>
  BY <1>2 DEF IInv, Typed, RunnerRec
<1>5. /\ Append(runner.outgoing, x) \in Seq(Sound)
      /\ StatusIsLast' /\ OutputIsExact' /\ OwedIsRead' /\ ReturnIsComplete'
  BY <1>1, <1>4, RunnerSays
<1>6. Typed'
  <2>1. runner' \in RunnerRec
    BY <1>1, <1>2, <1>5 DEF IInv, Typed, RunnerRec
  <2> QED BY <2>1 DEF IInv, Typed
<1>7. ~(provider.stdinOpen /\ ~Exited)
  BY DEF IInv, Typed, ProviderRec, Exited
<1>8. EndOfInput' /\ InputIsExact'
  <2>1. EndOfInput'
    BY <1>4, <1>7 DEF IInv, EndOfInput, Exited
  <2>2. InputIsExact'
    BY <1>7 DEF IInv, InputIsExact, Exited
  <2> QED BY <2>1, <2>2
<1>9. CreditSum'
  <2>1. Acknowledged(runner'.outgoing) = Acknowledged(runner.outgoing)
    BY <1>1, <1>4, AcknowledgedAppend
  <2>2. Held' = 0 /\ Consumed' = Consumed + Held
        /\ UNCHANGED <<Leaving, Crossing, Answered, Returning, runner.state>>
    BY <2>1, <1>3, <1>4 DEF Leaving, Crossing, Held, Returning, Consumed, Answered
  <2> QED BY <2>2, CreditNow, CreditMoves
<1> QED BY <1>5, <1>6, <1>8, <1>9, Untouched, CreditIs DEF IInv

LEMMA RunnerWritesStdinStep ==
    ASSUME IInv, RunnerWritesStdin PROVE IInv'
<1>1. CASE /\ provider.state = "running" /\ provider.stdinOpen
           /\ provider' = [provider EXCEPT !.stdin = Append(@, Head(runner.pending))]
           /\ runner' = [runner EXCEPT !.pending = Tail(@), !.ack = @ + 1]
  BY <1>1, RunnerWrites DEF RunnerWritesStdin
<1>2. CASE /\ provider.state # "running" \/ ~provider.stdinOpen
           /\ runner' = DropInput /\ UNCHANGED provider
  BY <1>2, RunnerDrops DEF RunnerWritesStdin
<1> QED BY <1>1, <1>2 DEF RunnerWritesStdin

\* The small steps of a runner that read and send nothing.
LEMMA RunnerClosesStdinStep ==
    ASSUME IInv, RunnerClosesStdin PROVE IInv'
<1>1. /\ UNCHANGED <<ctl, provider, toRunner, toCtl>> /\ runner.eof
      /\ runner' = [runner EXCEPT !.inputOpen = FALSE]
  BY DEF RunnerClosesStdin
<1>2. /\ runner' \in RunnerRec /\ runner'.inputOpen = FALSE
      /\ UNCHANGED <<runner.state, runner.pending, runner.ack, runner.eof, runner.reported,
                     runner.outputOpen, runner.budget, runner.outgoing>>
  BY <1>1 DEF IInv, Typed, RunnerRec
<1>3. Typed'
  BY <1>1, <1>2 DEF IInv, Typed
<1>4. UNCHANGED <<OutView, InView, OwedView, StatusView, ReturnView, CreditView>>
  BY <1>1, <1>2 DEF OutView, InView, OwedView, StatusView, ReturnView, CreditView
<1>5. EndOfInput'
  BY <1>1, <1>2 DEF IInv, EndOfInput, Exited
<1> QED BY <1>3, <1>4, <1>5, Untouched DEF IInv

LEMMA RunnerReadsOutputEofStep ==
    ASSUME IInv, RunnerReadsOutputEof PROVE IInv'
<1>1. /\ UNCHANGED <<ctl, provider, toRunner, toCtl>> /\ provider.stdout = <<>>
      /\ runner' = [runner EXCEPT !.outputOpen = FALSE] /\ Exited
  BY DEF RunnerReadsOutputEof, IInv, Typed, ProviderRec, Exited
<1>2. /\ runner' \in RunnerRec /\ runner'.outputOpen = FALSE
      /\ UNCHANGED <<runner.state, runner.pending, runner.ack, runner.eof, runner.inputOpen,
                     runner.reported, runner.budget, runner.outgoing>>
  BY <1>1 DEF IInv, Typed, RunnerRec
<1>3. Typed'
  BY <1>1, <1>2 DEF IInv, Typed
<1>4. UNCHANGED <<OutView, InView, EndView, ReturnView, CreditView>>
  BY <1>1, <1>2 DEF OutView, InView, EndView, ReturnView, CreditView
<1>5. StatusIsLast'
  BY <1>1, <1>2 DEF IInv, StatusIsLast, Exited
<1>6. OwedIsRead'
  <2>1. provider.owed + Len(provider.stdout) =< provider.written
    <3>1. Len(provider.stdout) = 0 /\ provider.owed \in Nat /\ provider.written \in Nat
      BY <1>1 DEF IInv, Typed, ProviderRec
    <3> QED BY <3>1 DEF IInv, OwedIsRead
  <2> QED BY <2>1, <1>1, <1>2 DEF IInv, OwedIsRead, Exited
<1> QED BY <1>3, <1>4, <1>5, <1>6, Untouched DEF IInv

LEMMA GraceEndsStep ==
    ASSUME IInv, GraceEnds PROVE IInv'
<1> DEFINE l == Len(provider.stdout)
           open == runner.outputOpen /\ provider.stdout # <<>>
<1>1. /\ UNCHANGED <<ctl, toRunner, toCtl>> /\ l \in Nat /\ Exited
      /\ runner' = [runner EXCEPT !.budget = l, !.outputOpen = open]
      /\ provider' = provider \/ provider' = [provider EXCEPT !.lingers = FALSE]
      /\ open \in BOOLEAN /\ (open => runner.outputOpen /\ l > 0)
      /\ ~open => ~runner.outputOpen \/ l = 0
  BY DEF GraceEnds, IInv, Typed, ProviderRec, RunnerRec, Exited
<1> HIDE DEF open
<1>2. /\ provider' \in ProviderRec
      /\ UNCHANGED <<provider.stdin, provider.stdinOpen, provider.got, provider.stdout,
                     provider.written, provider.owed, provider.status, provider.state>>
  BY <1>1 DEF IInv, Typed, ProviderRec
<1>3. /\ runner' \in RunnerRec /\ runner'.outputOpen = open /\ runner'.budget = l
      /\ UNCHANGED <<runner.state, runner.pending, runner.ack, runner.eof, runner.inputOpen,
                     runner.reported, runner.outgoing>>
  BY <1>1 DEF IInv, Typed, RunnerRec
<1>4. Typed'
  BY <1>1, <1>2, <1>3 DEF IInv, Typed
<1>5. UNCHANGED <<OutView, InView, EndView, ReturnView, CreditView>>
  BY <1>1, <1>2, <1>3 DEF OutView, InView, EndView, ReturnView, CreditView
<1>6. StatusIsLast'
  BY <1>1, <1>2, <1>3 DEF IInv, StatusIsLast, Exited
<1>7. OwedIsRead'
  <2> DEFINE n == provider.written
             m == provider.owed
  <2>1. /\ n \in Nat /\ m \in Nat /\ m =< n /\ (~runner.outputOpen => m + l =< n)
    BY DEF IInv, Typed, ProviderRec, OwedIsRead
  <2>2. Len(provider'.stdout) = l /\ provider'.written = n /\ provider'.owed = m /\ Exited'
    BY <1>1, <1>2 DEF Exited
  <2> HIDE DEF n, m, l
  <2>3. m + l =< n + l /\ (~open => m + l =< n)
    BY <2>1, <1>1
  <2> QED BY <2>1, <2>2, <2>3, <1>1, <1>3 DEF OwedIsRead
<1> QED BY <1>4, <1>5, <1>6, <1>7, Untouched DEF IInv

LEMMA RunnerReportsStatusStep ==
    ASSUME IInv, RunnerReportsStatus PROVE IInv'
<1> DEFINE x == F("X", provider.status)
<1>1. /\ UNCHANGED <<ctl, provider, toRunner, toCtl>> /\ Exited /\ ~runner.outputOpen
      /\ ~runner.reported /\ runner.outgoing \in Seq(Sound) /\ toCtl \in Seq(Sound)
      /\ runner' = [runner EXCEPT !.reported = TRUE, !.outgoing = Append(@, x)]
  BY DEF RunnerReportsStatus, IInv, Typed, ProviderRec, RunnerRec, Exited
<1>2. x \in Sound /\ x.kind = "X" /\ x.value = provider.status
  BY <1>1, Frames DEF IInv, StatusIsLast
<1> HIDE DEF x
<1>3. Append(runner.outgoing, x) \in Seq(Sound)
  BY <1>1, <1>2
<1>4. /\ runner' \in RunnerRec /\ runner'.reported = TRUE
      /\ runner'.outgoing = Append(runner.outgoing, x)
      /\ UNCHANGED <<runner.state, runner.pending, runner.ack, runner.eof, runner.inputOpen,
                     runner.outputOpen, runner.budget>>
  BY <1>1, <1>3 DEF IInv, Typed, RunnerRec
<1>5. Typed'
  BY <1>1, <1>4 DEF IInv, Typed
<1>6. Outputs(runner'.outgoing) = Outputs(runner.outgoing)
  BY <1>1, <1>2, <1>4, OutputsAppend
<1>7. UNCHANGED <<OutView, InView, EndView, OwedView, ReturnView>>
  BY <1>1, <1>4, <1>6 DEF OutView, InView, EndView, OwedView, ReturnView
<1>8. StatusIsLast'
  <2>1. StatusEnds(runner'.outgoing)
    BY <1>1, <1>2, <1>4, QueueAppend DEF IInv, StatusIsLast
  <2>2. NoStatus(toCtl) /\ ctl.result = None
    BY <1>1, NotReported
  <2>3. Statuses(runner'.outgoing) = Statuses(runner.outgoing) \cup {provider.status}
    BY <1>1, <1>2, <1>4, StatusesAppend
  <2>4. Statuses(toCtl) \cup Statuses(runner.outgoing) = {}
    BY <1>1 DEF IInv, StatusIsLast
  <2> QED BY <2>1, <2>2, <2>3, <2>4, <1>1, <1>4 DEF IInv, StatusIsLast, Exited
<1>9. CreditSum'
  <2>1. Acknowledged(runner'.outgoing) = Acknowledged(runner.outgoing)
    BY <1>1, <1>2, <1>4, AcknowledgedAppend
  <2>2. UNCHANGED <<Leaving, Crossing, Held, Consumed, Answered, Returning, Outstanding,
                    CtlRuns, RunnerRuns>>
    BY <2>1, <1>1, <1>4 DEF Leaving, Crossing, Held, Consumed, Answered, Returning, Outstanding,
                            CtlRuns, RunnerRuns
  <2> QED BY <2>2, <1>1, <1>4, CreditNow DEF CreditSum
<1> QED BY <1>5, <1>7, <1>8, <1>9, Untouched, CreditIs DEF IInv

\* What is owed, when one more unit is read within the budget.
LEMMA OwedAfterRead ==
    ASSUME NEW l \in Nat, NEW m \in Nat, NEW n \in Nat, NEW k \in Nat \cup {-1},
           k # -1 => k > 0 /\ m + (l + 1) =< n + k,
           NEW k2, k2 = IF k > 0 THEN k - 1 ELSE k
    PROVE  /\ k2 \in Nat \cup {-1}
           /\ k2 # -1 => k # -1
           /\ k # 1 /\ k2 # -1 => k2 > 0 /\ m + l =< n + k2
           /\ k = 1 => m + l =< n
OBVIOUS

LEMMA RunnerReadsOutputStep ==
    ASSUME IInv, RunnerReadsOutput PROVE IInv'
<1> DEFINE h == Head(provider.stdout)
           t == Tail(provider.stdout)
           x == F("O", h)
           k == runner.budget
           k2 == IF k > 0 THEN k - 1 ELSE k
<1>1. /\ UNCHANGED <<ctl, toRunner, toCtl>> /\ runner.outputOpen /\ provider.stdout # <<>>
      /\ provider.stdout \in Seq(Nat) /\ runner.outgoing \in Seq(Sound)
      /\ k \in Nat \cup {-1} /\ runner \in RunnerRec /\ provider \in ProviderRec
  BY DEF RunnerReadsOutput, IInv, Typed, ProviderRec, RunnerRec
<1>2. provider.stdout = <<h>> \o t /\ h \in Nat /\ t \in Seq(Nat)
  BY <1>1, HeadAndTail
<1>3. x \in Sound /\ x.kind = "O" /\ x.value = h
  BY <1>2, Frames
<1>4. /\ runner' = [runner EXCEPT !.outgoing = Append(@, x), !.budget = k2, !.outputOpen = k # 1]
      /\ provider' = [provider EXCEPT !.stdout = t]
  BY DEF RunnerReadsOutput
<1> DEFINE l == Len(t)
           m == provider.owed
           n == provider.written
<1>5. Len(provider.stdout) = l + 1 /\ l \in Nat /\ m \in Nat /\ n \in Nat
  BY <1>1, <1>2 DEF ProviderRec
<1> HIDE DEF h, t, x, l
<1>6. /\ k2 \in Nat \cup {-1}
      /\ k2 # -1 => k # -1
      /\ k # 1 /\ k2 # -1 => k2 > 0 /\ m + l =< n + k2
      /\ k = 1 => m + l =< n
  <2>1. k # -1 => k > 0 /\ m + (l + 1) =< n + k
    BY <1>1, <1>5 DEF IInv, OwedIsRead
  <2> HIDE DEF k, m, n
  <2> QED BY <2>1, <1>1, <1>5, OwedAfterRead
<1> HIDE DEF k2
<1>7. Append(runner.outgoing, x) \in Seq(Sound) /\ (k # 1) \in BOOLEAN
  BY <1>1, <1>3
<1>8. /\ runner' \in RunnerRec /\ runner'.outgoing = Append(runner.outgoing, x)
      /\ runner'.budget = k2 /\ runner'.outputOpen = (k # 1)
      /\ UNCHANGED <<runner.state, runner.pending, runner.ack, runner.eof, runner.inputOpen,
                     runner.reported>>
  BY <1>1, <1>4, <1>6, <1>7 DEF RunnerRec
<1>9. /\ provider' \in ProviderRec /\ provider'.stdout = t
      /\ UNCHANGED <<provider.stdin, provider.stdinOpen, provider.got, provider.written,
                     provider.owed, provider.status, provider.state>>
  BY <1>1, <1>2, <1>4 DEF ProviderRec
<1>10. Typed'
  BY <1>1, <1>8, <1>9 DEF IInv, Typed
<1>11. UNCHANGED <<InView, EndView, ReturnView>>
  BY <1>1, <1>8, <1>9 DEF InView, EndView, ReturnView
<1>12. OutputIsExact'
  <2> DEFINE a == (ctl.delivered \o ctl.pending) \o Outputs(toCtl)
             b == Outputs(runner.outgoing)
  <2>1. a \in Seq(Nat) /\ b \in Seq(Nat)
    BY <1>1, OutputsAre DEF IInv, Typed, CtlRec
  <2>2. Outputs(runner'.outgoing) = Append(b, h)
    BY <1>1, <1>3, <1>8, OutputsAppend
  <2>3. (a \o Append(b, h)) \o t = (a \o b) \o (<<h>> \o t)
    <3> HIDE DEF a, b
    <3>1. a \o Append(b, h) = Append(a \o b, h)
      BY <2>1, <1>2, ConcatAppend
    <3>2. a \o b \in Seq(Nat)
      BY <2>1
    <3>3. Append(a \o b, h) \o t = (a \o b) \o (<<h>> \o t)
      BY <3>2, <1>2, Shift
    <3> QED BY <3>1, <3>3
  <2>4. (a \o b) \o provider.stdout = Upto(n)
    BY DEF IInv, OutputIsExact
  <2>5. (a \o Outputs(runner'.outgoing)) \o provider'.stdout = Upto(n)
    BY <2>2, <2>3, <2>4, <1>2, <1>9
  <2> QED BY <2>5, <1>1, <1>9 DEF OutputIsExact
<1>13. OwedIsRead'
  <2>1. /\ m =< n /\ (k # -1 => Exited)
    BY DEF IInv, OwedIsRead
  <2>2. provider'.owed = m /\ provider'.written = n /\ Len(provider'.stdout) = l
        /\ Exited' = Exited
    BY <1>9 DEF l, Exited
  <2>3. runner'.budget = k2 /\ (runner'.outputOpen <=> k # 1)
    BY <1>8
  <2> HIDE DEF k, m, n
  <2>4. /\ k2 # -1 \/ ~(k # 1) => Exited
        /\ k # 1 /\ k2 # -1 => k2 > 0 /\ m + l =< n + k2
        /\ ~(k # 1) => m + l =< n
    BY <2>1, <1>6
  <2> QED BY <2>1, <2>2, <2>3, <2>4 DEF OwedIsRead
<1>14. StatusIsLast'
  <2>1. ~runner.reported
    BY <1>1 DEF IInv, StatusIsLast
  <2>2. NoStatus(toCtl) /\ NoStatus(runner.outgoing) /\ ctl.result = None
    BY <2>1, NotReported
  <2>3. StatusEnds(runner'.outgoing)
    BY <2>2, <1>1, <1>3, <1>8, QueueAppend DEF IInv, StatusIsLast
  <2>4. Statuses(runner'.outgoing) = Statuses(runner.outgoing)
    BY <1>1, <1>3, <1>8, StatusesAppend
  <2> QED BY <2>1, <2>2, <2>3, <2>4, <1>1, <1>8, <1>9 DEF IInv, StatusIsLast, Exited
<1>15. CreditSum'
  <2>1. Acknowledged(runner'.outgoing) = Acknowledged(runner.outgoing)
    BY <1>1, <1>3, <1>8, AcknowledgedAppend
  <2>2. UNCHANGED <<Leaving, Crossing, Held, Consumed, Answered, Returning, Outstanding,
                    CtlRuns, RunnerRuns>>
    BY <2>1, <1>1, <1>8 DEF Leaving, Crossing, Held, Consumed, Answered, Returning, Outstanding,
                            CtlRuns, RunnerRuns
  <2> QED BY <2>2, <1>1, <1>8, CreditNow DEF CreditSum
<1> QED BY <1>10, <1>11, <1>12, <1>13, <1>14, <1>15, Untouched, CreditIs DEF IInv

LEMMA RunnerFlushesStep ==
    ASSUME IInv, RunnerFlushes PROVE IInv'
<1>1. CASE ~CtlRuns /\ Leave("failed", toRunner) /\ UNCHANGED toCtl
  BY <1>1, RunnerGoes DEF RunnerFlushes
<1>2. CASE /\ toCtl' = Append(toCtl, Head(runner.outgoing))
           /\ runner' = [runner EXCEPT !.outgoing = Tail(@)]
           /\ UNCHANGED provider
  <2> DEFINE x == Head(runner.outgoing)
             s == Tail(runner.outgoing)
  <2>1. /\ UNCHANGED <<ctl, provider, toRunner>> /\ runner.outgoing # <<>>
        /\ runner.outgoing \in Seq(Sound) /\ toCtl \in Seq(Sound)
        /\ StatusEnds(runner.outgoing) /\ StatusEnds(toCtl)
    BY <1>2 DEF RunnerFlushes, IInv, Typed, RunnerRec, StatusIsLast
  <2>2. /\ NoOutput(runner.outgoing) <=> x.kind # "O" /\ NoOutput(s)
        /\ StatusEnds(s) /\ (x.kind = "X" => NoOutput(s))
        /\ x \in Sound /\ s \in Seq(Sound)
    BY <2>1, QueueTail
  <2>3. Statuses(runner.outgoing) = Statuses(s) \cup IF x.kind = "X" THEN {x.value} ELSE {}
    BY <2>1, StatusesTail
  <2>4. Outputs(runner.outgoing) = IF x.kind = "O" THEN <<x.value>> \o Outputs(s) ELSE Outputs(s)
    BY <2>1, OutputsHead
  <2>5. Acknowledged(runner.outgoing) = IF x.kind = "A" THEN x.value + Acknowledged(s)
                                                        ELSE Acknowledged(s)
    BY <2>1, AcknowledgedHead
  <2>6. /\ runner' \in RunnerRec /\ runner'.outgoing = s /\ toCtl' = Append(toCtl, x)
        /\ UNCHANGED <<runner.state, runner.pending, runner.ack, runner.eof, runner.inputOpen,
                       runner.outputOpen, runner.budget, runner.reported>>
    BY <1>2, <2>2 DEF IInv, Typed, RunnerRec
  <2> HIDE DEF x, s
  <2>7. Typed'
    <3>1. toCtl' \in Seq(Sound)
      BY <2>1, <2>2, <2>6
    <3> QED BY <3>1, <2>1, <2>6 DEF IInv, Typed
  <2>8. UNCHANGED <<InView, EndView, OwedView, ReturnView>>
    BY <2>1, <2>6 DEF InView, EndView, OwedView, ReturnView
  <2>9. OutputIsExact'
    <3> DEFINE a == ctl.delivered \o ctl.pending
               b == Outputs(toCtl)
               c == Outputs(s)
               v == x.value
    <3>1. a \in Seq(Nat) /\ b \in Seq(Nat) /\ c \in Seq(Nat) /\ (x.kind = "O" => v \in Nat)
      BY <2>1, <2>2, OutputsAre, Frames DEF IInv, Typed, CtlRec
    <3>2. Outputs(toCtl') = IF x.kind = "O" THEN Append(b, v) ELSE b
      BY <2>1, <2>2, <2>6, OutputsAppend
    <3>3. (a \o Outputs(toCtl')) \o c = (a \o b) \o Outputs(runner.outgoing)
      <4>1. CASE x.kind # "O"
        BY <4>1, <3>2, <2>4
      <4>2. CASE x.kind = "O"
        <5>1. v \in Nat /\ Outputs(toCtl') = Append(b, v) /\ Outputs(runner.outgoing) = <<v>> \o c
          BY <4>2, <3>1, <3>2, <2>4
        <5> HIDE DEF a, b, c, v
        <5>2. a \o Append(b, v) = Append(a \o b, v)
          BY <3>1, <5>1, ConcatAppend
        <5>3. a \o b \in Seq(Nat)
          BY <3>1
        <5>4. Append(a \o b, v) \o c = (a \o b) \o (<<v>> \o c)
          BY <3>1, <5>1, <5>3, Shift
        <5> QED BY <5>1, <5>2, <5>4
      <4> QED BY <4>1, <4>2
    <3> QED BY <3>3, <2>1, <2>6 DEF IInv, OutputIsExact
  <2>10. StatusIsLast'
    <3>1. /\ NoOutput(toCtl') <=> NoOutput(toCtl) /\ x.kind # "O"
          /\ NoStatus(toCtl') <=> NoStatus(toCtl) /\ x.kind # "X"
          /\ StatusEnds(toCtl') <=> StatusEnds(toCtl) /\ (x.kind = "O" => NoStatus(toCtl))
      BY <2>1, <2>2, <2>6, QueueAppend
    <3>2. Statuses(toCtl') = Statuses(toCtl) \cup IF x.kind = "X" THEN {x.value} ELSE {}
      BY <2>1, <2>2, <2>6, StatusesAppend
    <3>3. Statuses(toCtl') \cup Statuses(runner'.outgoing)
             = Statuses(toCtl) \cup Statuses(runner.outgoing)
      BY <3>2, <2>3, <2>6
    <3>4. /\ ~NoStatus(toCtl) => NoOutput(runner.outgoing)
          /\ ctl.result # None => NoOutput(toCtl) /\ NoOutput(runner.outgoing)
      BY DEF IInv, StatusIsLast
    <3>5. /\ StatusEnds(toCtl') /\ StatusEnds(runner'.outgoing)
          /\ ~NoStatus(toCtl') => NoOutput(runner'.outgoing)
          /\ ctl.result # None => NoOutput(toCtl') /\ NoOutput(runner'.outgoing)
      BY <3>1, <3>4, <2>1, <2>2, <2>6
    <3> QED BY <3>3, <3>5, <2>1, <2>6 DEF IInv, StatusIsLast, Exited
  <2>11. CreditSum'
    <3>1. Acknowledged(toCtl') = IF x.kind = "A" THEN Acknowledged(toCtl) + x.value
                                                 ELSE Acknowledged(toCtl)
      BY <2>1, <2>2, <2>6, AcknowledgedAppend
    <3> DEFINE v == IF x.kind = "A" THEN x.value ELSE 0
    <3>2. v \in Nat /\ Acknowledged(s) \in Nat /\ Acknowledged(toCtl) \in Nat
      BY <2>1, <2>2, Frames, AcknowledgedTyped
    <3>3. /\ Answered = Answered' + v /\ Returning' = Returning + v /\ Answered' \in Nat
          /\ UNCHANGED <<Leaving, Crossing, Held, Consumed, runner.state>>
      BY <3>1, <3>2, <2>1, <2>5, <2>6 DEF Answered, Returning, Leaving, Crossing, Held, Consumed
    <3> HIDE DEF v
    <3> QED BY <3>2, <3>3, <2>1, CreditOfAnswer
  <2> QED BY <2>7, <2>8, <2>9, <2>10, <2>11, Untouched, CreditIs DEF IInv
<1> QED BY <1>1, <1>2 DEF RunnerFlushes

----------------------------------------------------------------------------
LEMMA CtlStep == ASSUME IInv, CtlNext PROVE IInv'
BY CtlReadsInputStep, CtlSmallSteps, CtlFlushesStep, CtlReadsSocketStep, CtlReadsSocketEofStep,
   CtlWritesOutputStep, CtlReturnsStep
   DEF CtlNext

LEMMA RunnerStep == ASSUME IInv, RunnerNext PROVE IInv'
<1>1. ASSUME RunnerReadsSocketEof \/ RunnerReturns PROVE IInv'
  BY <1>1, RunnerGoes DEF RunnerReadsSocketEof, RunnerReturns
<1> QED BY <1>1, RunnerReadsSocketStep, RunnerSignalSteps, RunnerAcknowledgesStep,
           RunnerWritesStdinStep, RunnerClosesStdinStep, RunnerReadsOutputStep,
           RunnerReadsOutputEofStep, GraceEndsStep, RunnerReportsStatusStep, RunnerFlushesStep,
           RunnerKilledStep
        DEF RunnerNext

LEMMA ProviderStep == ASSUME IInv, ProviderNext PROVE IInv'
BY ProviderReadsStep, ProviderWritesStep, ProviderSmallSteps DEF ProviderNext

LEMMA StutterStep == ASSUME IInv, UNCHANGED vars PROVE IInv'
<1>1. UNCHANGED <<ctl, runner, provider, toRunner, toCtl>>
  BY DEF vars
<1>2. Typed'
  BY <1>1 DEF IInv, Typed
<1>3. UNCHANGED <<OutView, InView, EndView, OwedView, StatusView, ReturnView, CreditView>>
  BY <1>1 DEF OutView, InView, EndView, OwedView, StatusView, ReturnView, CreditView
<1> QED BY <1>2, <1>3, Untouched DEF IInv

LEMMA Invariant == Spec => []IInv
<1>1. Init => IInv
  BY InitIInv
<1>2. IInv /\ [Next]_vars => IInv'
  BY CtlStep, RunnerStep, ProviderStep, StutterStep DEF Next
<1> QED BY <1>1, <1>2, PTL DEF Spec

(* `muxdeckctl exec` relays exactly, for every size of the window, the     *)
(* queues, the socket and the pipes, however the controller, the runner,   *)
(* the provider and its descendants interleave and end: no byte of either  *)
(* stream is lost, repeated or reordered on its way, a returned status is  *)
(* the provider's and comes after all the output that the provider had     *)
(* written, and the credit of the input window is conserved, so that the   *)
(* runner never takes its controller's input for too much.                 *)
THEOREM Relay == Spec => []RelayIsExact
<1>1. IInv => RelayIsExact
  BY DEF IInv, RelayIsExact, StreamsAreExact
<1> QED BY <1>1, Invariant, PTL

============================================================================
