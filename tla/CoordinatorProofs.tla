-------------------------- MODULE CoordinatorProofs -------------------------
(***************************************************************************)
(* Theorems about Coordinator, for every finite set of owners, every set   *)
(* of commands and every bound: a takeover is safe wherever it stops, and  *)
(* the journal's verdict on a command is what the backend did.             *)
(*                                                                         *)
(* Four stores have to agree though no transaction covers them, so the     *)
(* invariant says of every step of a call what each of them holds then.    *)
(***************************************************************************)
EXTENDS Coordinator, FiniteSetTheorems, TLAPS

Step == {"idle", "effect", "prepare", "dispatch", "send", "waiting", "unsure", "refused",
         "record", "extend", "disown", "release", "release-old", "acquire", "save",
         "confirm", "credentials", "lifecycle", "unlink", "map", "adopt"}
Why == {"start", "resume", "command", "renew", "revoke"}
Numbered == {Expecting(n) : n \in Nat} \cup {None}

RowType == [state: State, intent: Numbered, owner: Owner \cup {None}, generation: Nat,
            outcome: {None}]
CallType == [at: Step, why: Why, owner: Owner \cup {None}, generation: Nat, op: Operation,
             seen: State, number: Nat]
RequestType == [op: Operation, why: Why, number: Nat]
CredentialsType == [owner: Owner, generation: Nat \ {0}, remote: Nat, expires: Nat,
                    revoked: BOOLEAN]
PendingType == [newOwner: Owner, oldOwner: Owner, oldGeneration: 1 .. MaxGeneration,
                expected: Nat]
BackendType == [generation: Nat, revoked: BOOLEAN, granted: [LeaseIds -> Nat],
                done: Seq([op: Operation, generation: Nat])]

(* Every store, file and message has the type that the code gives it.      *)
TypeOK ==
    /\ clock \in Nat
    /\ lease \in LeaseRow
    /\ operations \in [Operation -> RowType]
    /\ credentials \in CredentialsType \cup {NoCredentials}
    /\ pending \in PendingType \cup {NoPending}
    /\ saved \in [LeaseIds -> Nat]
    /\ mapped \in Nat
    /\ call \in CallType
    /\ sent \subseteq RequestType
    /\ sends \in [Command -> Nat]
    /\ backend \in BackendType
    /\ upsets \in Nat

----------------------------------------------------------------------------
Owned == credentials # NoCredentials
Moving == pending # NoPending
Left(op) == operations[op].state \notin {"absent", "prepared"}

(* The epoch of a call: of the journal's lease, or an older one.           *)
EpochOfCall ==
    /\ lease.generation = 0 => lease.revoked
    /\ call.at # "idle" => call.owner \in Owner
    /\ call.at \notin {"idle", "release-old", "acquire"} =>
          /\ 1 =< call.generation /\ call.generation =< lease.generation
          /\ call.generation = lease.generation => call.owner = lease.owner
    /\ Owned => /\ credentials.generation =< lease.generation
                /\ credentials.generation = lease.generation => credentials.owner = lease.owner

(* What a call is about: until it writes them, a start has no credentials, *)
(* and a resume has those of its predecessor and takeover.json.            *)
Expected == IF call.why = "start" THEN 0 ELSE pending.expected

Subject ==
    /\ call.at \in {"effect", "record", "refused"} => call.op \notin LeaseIds
    /\ call.at \in {"prepare", "save", "confirm", "credentials"} => call.op \in LeaseIds
    /\ call.at \in {"effect", "dispatch", "send", "waiting", "unsure", "record", "refused"} =>
          \/ call.op \in LeaseIds
          \/ call.op = Register /\ call.why = "start" /\ ~Owned /\ call.number = 0
          \/ call.op \in Command /\ call.why \in {"command", "renew", "revoke"} /\ Owned
    /\ call.at \in {"prepare", "dispatch", "send", "waiting", "unsure", "save", "confirm",
                    "credentials"} /\ call.op \in LeaseIds =>
          \/ call.why = "start" /\ call.op = InitialLease /\ ~Owned
          \/ call.why = "resume" /\ Moving /\ call.op = TakeoverOf(pending)
    /\ call.at \in {"release-old", "acquire", "lifecycle", "unlink"} =>
          call.why = "resume" /\ Moving
    /\ call.at \in {"extend", "disown", "release"} => Owned
    /\ Moving => Owned

(* The lease that a call asks for, has been granted, and has saved.        *)
LeaseInHand ==
    /\ call.at \in {"prepare", "dispatch", "send", "waiting"} /\ call.op \in LeaseIds =>
          call.number = Expected
    /\ call.at \in {"dispatch", "send", "waiting", "save", "confirm", "credentials"}
          /\ call.op \in LeaseIds => Row.intent = Expecting(Expected)
    /\ call.at \in {"save", "confirm", "credentials"} =>
          call.number = backend.granted[call.op] /\ call.number # 0
    /\ call.at \in {"confirm", "credentials"} => saved[call.op] # 0
    /\ call.at \in {"lifecycle", "unlink"} =>
          credentials.remote = backend.generation /\ HasLease(TakeoverOf(pending))

(* The backend's lease: what was granted was asked for by that id, and     *)
(* what can still be granted is what the stores account for.               *)
Grants ==
    /\ \A op \in LeaseIds : HasLease(op) =>
          /\ backend.granted[op] =< backend.generation
          /\ Left(op) /\ operations[op].intent = Expecting(backend.granted[op] - 1)
    /\ \A r \in sent : r.op \in LeaseIds =>
          /\ operations[r.op].intent = Expecting(r.number)
          /\ \/ HasLease(r.op)
             \/ ~Owned /\ r.op = InitialLease /\ r.number = 0
             \/ Moving /\ r.op = TakeoverOf(pending) /\ r.number = pending.expected

Generations ==
    /\ ~Owned => backend.generation = backend.granted[InitialLease]
    /\ Owned /\ ~Moving => credentials.remote = backend.generation
    /\ Moving => /\ credentials.remote \in {pending.expected, backend.generation}
                 /\ \/ backend.generation = pending.expected
                    \/ /\ backend.generation = pending.expected + 1
                       /\ backend.granted[TakeoverOf(pending)] = backend.generation

(* What was sent was dispatched; a command that is about to leave has not  *)
(* left before.                                                            *)
Dispatched ==
    /\ \A op \in Operation : operations[op].state = "absent" => operations[op] = NoOperation
    /\ \A r \in sent : Left(r.op) /\ (r.op = Register => r.number = 0)
    /\ call.at \in {"send", "waiting"} => Left(call.op)
    /\ call.at = "send" /\ call.op \in Command => sends[call.op] = 0

(* What the backend executed and what the journal says of it.              *)
VerdictsAreTrue ==
    /\ call.at = "record" => Executed(call.op)
    /\ call.at = "refused" => ~Executed(call.op) /\ \A r \in sent : r.op # call.op
    /\ call.at \in {"send", "waiting"} /\ call.op \notin LeaseIds =>
          operations[call.op].state # "rejected"
    /\ \A op \in Operation \ LeaseIds :
          /\ operations[op].state = "confirmed" => Executed(op)
          /\ operations[op].state = "rejected" =>
                ~Executed(op) /\ \A r \in sent : r.op # op

(* Registration is the first effect.                                       *)
RegisteredFirst ==
    Executed(Register)
        \/ /\ backend.done = <<>> /\ backend.generation = 0 /\ backend.revoked
           /\ call.op \notin LeaseIds /\ ~Owned /\ \A r \in sent : r.op \notin LeaseIds

EffectsInOrder ==
    /\ \A i \in DOMAIN backend.done : backend.done[i].generation =< backend.generation
    /\ backend.generation = Cardinality({op \in LeaseIds : HasLease(op)})

IInv ==
    /\ TypeOK /\ EpochOfCall /\ Subject /\ LeaseInHand /\ Grants /\ Generations
    /\ SecretsAreKept /\ CommandsLeaveOnce /\ Dispatched
    /\ VerdictsAreTrue /\ RegisteredFirst /\ EffectsInOrder

----------------------------------------------------------------------------
(* The operators of the model.                                             *)

(* Operation ids of different purposes differ, and so do the payloads for  *)
(* different backend generations (uuid5 and the payload's fingerprint).    *)
LEMMA Ids ==
    /\ Register \in Operation /\ Register \notin LeaseIds /\ Register \notin Command
    /\ InitialLease \in LeaseIds
    /\ LeaseIds \subseteq Operation /\ Command \subseteq Operation
    /\ \A op \in Command : op \notin LeaseIds
    /\ \A op \in Operation : op = Register \/ op \in LeaseIds \/ op \in Command
    /\ \A p \in PendingType : TakeoverOf(p) \in LeaseIds
    /\ \A m, n \in Nat : Expecting(m) = Expecting(n) => m = n
<1>1. Register \notin LeaseIds
  <2>1. Register.name = "register" /\ InitialLease.name = "initial-lease"
    BY DEF Register, InitialLease, Id
  <2>2. \A g, o : Takeover(g, o).name = "takeover"
    BY DEF Takeover, Id
  <2>3. QED
    BY <2>1, <2>2 DEF LeaseIds
<1>2. \A m, n \in Nat : Expecting(m) = Expecting(n) => m = n
  BY DEF Expecting, Id
<1>3. \A p \in PendingType : TakeoverOf(p) \in LeaseIds
  BY DEF PendingType, TakeoverOf, LeaseIds
<1>4. InitialLease \in LeaseIds
  BY DEF LeaseIds
<1>5. QED
  BY <1>1, <1>2, <1>3, <1>4, IdsAssumption

(* The ids of leases are finitely many.                                    *)
LEMMA LeaseIdsFinite == IsFiniteSet(LeaseIds)
<1> DEFINE P == (1 .. MaxGeneration) \X Owner
           T == {Takeover(p[1], p[2]) : p \in P}
<1>1. IsFiniteSet(1 .. MaxGeneration)
  BY FS_Interval, BoundsAssumption
<1>2. IsFiniteSet(P)
  BY <1>1, FS_Product, OwnersAssumption
<1>3. IsFiniteSet(T)
  <2>1. T = {Takeover(p[1], p[2]) : p \in P}
    OBVIOUS
  <2> HIDE DEF P, T
  <2> DEFINE f == [p \in P |-> Takeover(p[1], p[2])]
  <2>2. f \in [P -> T] /\ \A t \in T : \E p \in P : f[p] = t
    BY <2>1
  <2>3. f \in Surjection(P, T)
    BY <2>2 DEF Surjection, Range
  <2> HIDE DEF f
  <2>4. QED
    BY <1>2, <2>3, FS_Surjection
<1>4. LeaseIds = T \cup {InitialLease}
  <2>1. \A g \in 1 .. MaxGeneration, o \in Owner :
           <<g, o>> \in P /\ Takeover(g, o) = Takeover(<<g, o>>[1], <<g, o>>[2])
    OBVIOUS
  <2>2. \A p \in P : p[1] \in 1 .. MaxGeneration /\ p[2] \in Owner
    OBVIOUS
  <2> DEFINE L == {Takeover(g, o) : g \in 1 .. MaxGeneration, o \in Owner}
  <2>3. \A x \in L : x \in T
    <3> SUFFICES ASSUME NEW g \in 1 .. MaxGeneration, NEW o \in Owner
                 PROVE  Takeover(g, o) \in T
      OBVIOUS
    <3>1. \A p \in P : Takeover(p[1], p[2]) \in T
      OBVIOUS
    <3> HIDE DEF T
    <3>2. QED
      BY <2>1, <3>1
  <2>4. \A x \in T : x \in L
    BY <2>2
  <2>5. L = T
    BY <2>3, <2>4
  <2>6. QED
    BY <2>5 DEF LeaseIds
<1>5. IsFiniteSet({InitialLease})
  BY FS_Singleton
<1>6. QED
  BY <1>3, <1>4, <1>5, FS_Union

(* A step of a call that goes on changes nothing of it but the step.       *)
LEMMA CallGoes ==
    ASSUME call \in CallType, NEW s \in Step, Goto(s)
    PROVE  /\ call' \in CallType /\ call'.at = s /\ call'.why = call.why
           /\ call'.owner = call.owner /\ call'.generation = call.generation
           /\ call'.op = call.op /\ call'.seen = call.seen /\ call'.number = call.number
BY DEF CallType, Goto

LEMMA CallEnds ==
    ASSUME End
    PROVE  /\ call' \in CallType /\ call'.at = "idle" /\ call'.op = Register
           /\ call'.op \notin LeaseIds
BY Ids DEF End, NoCall, CallType, Step, Why, State, Pending, Settled

(* What follows a confirmed effect: the lease, for a start; the file, for  *)
(* renew and revoke; nothing, for any other command.                       *)
LEMMA CallAfterEffect ==
    ASSUME call \in CallType, AfterEffect
    PROVE  /\ call' \in CallType
           /\ \/ /\ call.why = "start" /\ call'.at = "prepare" /\ call'.why = "start"
                 /\ call'.owner = call.owner /\ call'.generation = call.generation
                 /\ call'.op = InitialLease /\ call'.number = 0
              \/ /\ \/ call.why = "renew" /\ call'.at = "extend"
                    \/ call.why = "revoke" /\ call'.at = "disown"
                 /\ call'.owner = call.owner /\ call'.generation = call.generation
                 /\ call'.op = call.op
              \/ call.why \notin {"start", "renew", "revoke"} /\ End
<1>1. CASE call.why = "start"
  <2>1. call' = [call EXCEPT !.at = "prepare", !.op = InitialLease, !.number = 0]
    BY <1>1 DEF AfterEffect
  <2>2. QED
    BY <1>1, <2>1, Ids DEF CallType, Step
<1>2. CASE call.why = "renew" /\ Goto("extend")
  BY <1>2, CallGoes DEF Step
<1>3. CASE call.why = "revoke" /\ Goto("disown")
  BY <1>3, CallGoes DEF Step
<1>4. CASE call.why \notin {"start", "renew", "revoke"} /\ End
  BY <1>4, CallEnds
<1>5. QED
  BY <1>1, <1>2, <1>3, <1>4 DEF AfterEffect

(* prepare_operation inserts the row once, with the call's intent.         *)
LEMMA RowPrepared ==
    ASSUME TypeOK, Dispatched, Prepares, call.owner \in Owner
    PROVE  /\ operations' \in [Operation -> RowType]
           /\ \A op \in Operation : op # call.op => operations'[op] = operations[op]
           /\ \/ /\ operations[call.op] = NoOperation
                 /\ operations'[call.op].state = "prepared"
                 /\ operations'[call.op].intent = Expecting(call.number)
              \/ /\ operations[call.op] # NoOperation
                 /\ operations[call.op].state # "absent"
                 /\ operations'[call.op] = operations[call.op]
           /\ \A op \in Operation : operations'[op].state = "absent" => operations'[op] = NoOperation
<1>1. Prepared(Expecting(call.number), call.owner, call.generation) \in RowType
  BY DEF Prepared, RowType, TypeOK, CallType, Numbered, State, Pending
<1>2. call.op \in Operation
  BY DEF TypeOK, CallType
<1>3. QED
  BY <1>1, <1>2 DEF Prepares, Row, Prepared, NoOperation, TypeOK, Dispatched

(* _transition moves one row, one that was pending, and keeps its intent.  *)
LEMMA RowMoves ==
    ASSUME TypeOK, Dispatched, NEW op \in Operation,
           NEW s \in {"dispatched", "uncertain", "confirmed", "rejected"},
           operations[op].state \in Pending,
           operations' = [operations EXCEPT ![op] = Moved(@, s, None)]
    PROVE  /\ operations' \in [Operation -> RowType]
           /\ \A o \in Operation : o # op => operations'[o] = operations[o]
           /\ operations'[op].state = s
           /\ operations'[op].intent = operations[op].intent
           /\ \A o \in Operation : operations'[o].state = "absent" => operations'[o] = NoOperation
<1>1. operations[op] \in RowType
  BY DEF TypeOK
<1>2. /\ Moved(operations[op], s, None) \in RowType
      /\ Moved(operations[op], s, None).state = s
      /\ Moved(operations[op], s, None).intent = operations[op].intent
  BY <1>1 DEF Moved, RowType, State, Pending, Settled
<1>3. QED
  BY <1>2 DEF TypeOK, Dispatched

LEMMA MovesArePending ==
    /\ \A row, s, o, g : MayMove(row, s, o, g) => row.state \in Pending
    /\ \A row, o, g : MayMove(row, "dispatched", o, g) => row.state = "prepared"
    /\ \A row, s : MayReconcile(row, s) => row.state \in Pending
<1>1. \A s, t : t \in Allowed(s) => s \in Pending
  BY DEF Allowed, Pending
<1>2. \A s : "dispatched" \in Allowed(s) => s = "prepared"
  BY DEF Allowed
<1>3. QED
  BY <1>1, <1>2 DEF MayMove, MayReconcile, Reconcilable

(* acquire_lease leaves the row to its holder or begins an epoch.          *)
LEMMA LeaseAcquired ==
    ASSUME TypeOK, EpochOfCall, NEW o \in Owner, Acquirable(o), lease' = Acquired(o)
    PROVE  /\ lease' \in LeaseRow /\ lease'.owner = o
           /\ lease'.generation >= 1 /\ lease'.generation >= lease.generation
           /\ lease'.generation = lease.generation => lease'.owner = lease.owner
BY TTLAssumption
   DEF Acquirable, Acquired, Active, Granted, LeaseRow, TypeOK, EpochOfCall

----------------------------------------------------------------------------
(* The invariant holds initially: nothing has been asked for.              *)
LEMMA InitIInv == Init => IInv
<1> SUFFICES ASSUME Init PROVE IInv
  OBVIOUS
<1> USE Ids DEF Init
<1>1. TypeOK
  BY BoundsAssumption
     DEF TypeOK, NoLease, LeaseRow, NoOperation, RowType, State, NoCredentials, NoPending,
         NoCall, CallType, Step, Why, Numbered, BackendType
<1>2. EpochOfCall
  BY DEF EpochOfCall, NoLease, NoCall, Owned
<1>3. Subject /\ LeaseInHand
  BY DEF Subject, LeaseInHand, NoCall, Moving
<1>4. Grants /\ Generations
  BY DEF Grants, Generations, HasLease, Owned, Moving
<1>5. SecretsAreKept /\ CommandsLeaveOnce
  BY DEF SecretsAreKept, CommandsLeaveOnce, NoOperation
<1>6. Dispatched
  BY DEF Dispatched, NoCall, NoOperation
<1>7. VerdictsAreTrue
  BY DEF VerdictsAreTrue, NoCall, NoOperation
<1>8. RegisteredFirst
  BY DEF RegisteredFirst, NoCall, Owned
<1>9. EffectsInOrder
  <2>1. {op \in LeaseIds : HasLease(op)} = {}
    BY DEF HasLease
  <2>2. backend.generation = Cardinality({op \in LeaseIds : HasLease(op)})
    BY <2>1, FS_EmptySet
  <2>3. QED
    BY <2>2 DEF EffectsInOrder
<1>10. QED
  BY <1>1, <1>2, <1>3, <1>4, <1>5, <1>6, <1>7, <1>8, <1>9 DEF IInv

----------------------------------------------------------------------------
(* Every action keeps it.                                                  *)

(* A call that ends leaves the stores as they are.                         *)
LEMMA EndStep ==
    ASSUME IInv, End, clock' \in Nat, upsets' \in Nat,
           UNCHANGED <<lease, operations, mapped, files, remote>>
    PROVE  IInv'
<1> USE CallEnds DEF IInv, files, remote
<1>1. TypeOK'
  BY DEF TypeOK
<1>2. EpochOfCall'
  BY DEF EpochOfCall, Owned
<1>3. Subject' /\ LeaseInHand'
  BY DEF Subject, LeaseInHand, Moving, Owned
<1>4. Grants' /\ Generations'
  BY DEF Grants, Generations, HasLease, Owned, Moving, Left
<1>5. SecretsAreKept' /\ CommandsLeaveOnce'
  BY DEF SecretsAreKept, CommandsLeaveOnce
<1>6. Dispatched'
  BY DEF Dispatched, Left
<1>7. VerdictsAreTrue'
  BY DEF VerdictsAreTrue, Executed
<1>8. RegisteredFirst'
  BY DEF RegisteredFirst, Owned, Executed
<1>9. EffectsInOrder'
  BY DEF EffectsInOrder, HasLease
<1>10. QED
  BY <1>1, <1>2, <1>3, <1>4, <1>5, <1>6, <1>7, <1>8, <1>9

LEMMA ClockStep == IInv /\ ClockMoves => IInv'
<1> SUFFICES ASSUME IInv, ClockMoves PROVE IInv'
  OBVIOUS
<1> USE DEF IInv, ClockMoves, Upset, files, remote
<1>1. TypeOK'
  BY BoundsAssumption DEF TypeOK
<1>2. (EpochOfCall /\ Subject /\ LeaseInHand)'
  BY DEF EpochOfCall, Owned, Subject, LeaseInHand, Moving, Expected, Row, HasLease
<1>3. (Grants /\ Generations /\ SecretsAreKept /\ CommandsLeaveOnce)'
  BY DEF Grants, Generations, HasLease, Owned, Moving, Left, SecretsAreKept, CommandsLeaveOnce
<1>4. (Dispatched /\ VerdictsAreTrue /\ RegisteredFirst /\ EffectsInOrder)'
  BY DEF Dispatched, Left, VerdictsAreTrue, Executed, RegisteredFirst, Owned, EffectsInOrder,
         HasLease
<1>5. QED
  BY <1>1, <1>2, <1>3, <1>4

LEMMA StartStep == ASSUME NEW o \in Owner PROVE IInv /\ Start(o) => IInv'
<1> SUFFICES ASSUME IInv, Start(o) PROVE IInv'
  OBVIOUS
<1> USE DEF IInv, Start, files, remote
<1>1. /\ lease' \in LeaseRow /\ lease'.owner = o
      /\ lease'.generation >= 1 /\ lease'.generation >= lease.generation
      /\ lease'.generation = lease.generation => lease'.owner = lease.owner
  BY LeaseAcquired
<1>2. /\ call' \in CallType /\ call'.at = "effect" /\ call'.why = "start" /\ call'.owner = o
      /\ call'.generation = lease'.generation /\ call'.op = Register /\ call'.number = 0
  BY <1>1, Ids DEF NoCall, CallType, Step, Why, State, Pending, Settled, LeaseRow
<1> USE <1>2, Ids
<1>3. TypeOK'
  BY <1>1 DEF TypeOK
<1>4. EpochOfCall'
  BY <1>1 DEF EpochOfCall, Owned, TypeOK, LeaseRow
<1>5. Subject' /\ LeaseInHand'
  BY DEF Subject, LeaseInHand, Moving, Owned
<1>6. Grants' /\ Generations'
  BY DEF Grants, Generations, HasLease, Owned, Moving, Left
<1>7. SecretsAreKept' /\ CommandsLeaveOnce'
  BY DEF SecretsAreKept, CommandsLeaveOnce
<1>8. Dispatched' /\ VerdictsAreTrue'
  BY DEF Dispatched, Left, VerdictsAreTrue, Executed
<1>9. RegisteredFirst' /\ EffectsInOrder'
  BY DEF RegisteredFirst, Owned, Executed, EffectsInOrder, HasLease
<1>10. QED
  BY <1>3, <1>4, <1>5, <1>6, <1>7, <1>8, <1>9

LEMMA ResumeStep == ASSUME NEW o \in Owner PROVE IInv /\ Resume(o) => IInv'
<1> SUFFICES ASSUME IInv, Resume(o) PROVE IInv'
  OBVIOUS
<1> USE DEF IInv, Resume, journal, remote
<1>1. /\ call' \in CallType /\ call'.at = "release-old" /\ call'.why = "resume"
      /\ call'.owner = o /\ call'.op = Register
  BY Ids DEF NoCall, CallType, Step, Why, State, Pending, Settled
<1>2. /\ Owned /\ Owned' /\ credentials \in CredentialsType
      /\ pending' \in PendingType /\ Moving'
      /\ Moving => pending' = pending
      /\ ~Moving => pending'.expected = credentials.remote
  BY BoundsAssumption
     DEF Owned, Moving, TypeOK, EpochOfCall, CredentialsType, PendingType, NoPending,
         LeaseRow
<1> USE <1>1, <1>2, Ids
<1>3. TypeOK'
  BY DEF TypeOK
<1>4. EpochOfCall'
  BY DEF EpochOfCall, Owned
<1>5. Subject' /\ LeaseInHand'
  BY DEF Subject, LeaseInHand
<1>6. Grants'
  BY DEF Grants, HasLease, Left
<1>7. Generations'
  BY DEF Generations
<1>8. SecretsAreKept' /\ CommandsLeaveOnce'
  BY DEF SecretsAreKept, CommandsLeaveOnce
<1>9. Dispatched' /\ VerdictsAreTrue'
  BY DEF Dispatched, Left, VerdictsAreTrue, Executed
<1>10. RegisteredFirst' /\ EffectsInOrder'
  BY DEF RegisteredFirst, Executed, EffectsInOrder, HasLease
<1>11. QED
  BY <1>3, <1>4, <1>5, <1>6, <1>7, <1>8, <1>9, <1>10

LEMMA BeginStep ==
    ASSUME NEW why \in {"command", "renew", "revoke"}, NEW op \in Command
    PROVE  IInv /\ Begin(why, op) => IInv'
<1> SUFFICES ASSUME IInv, Begin(why, op) PROVE IInv'
  OBVIOUS
<1> USE DEF IInv, Begin, files, remote
<1>1. /\ lease' \in LeaseRow /\ lease'.generation = lease.generation
      /\ lease'.owner = lease.owner /\ lease'.revoked = lease.revoked
  BY TTLAssumption DEF TypeOK, LeaseRow
<1>2. /\ Owned /\ Owned' /\ credentials \in CredentialsType
  BY DEF Owned, TypeOK
<1>3. /\ call' \in CallType /\ call'.at = "effect" /\ call'.why = why /\ call'.op = op
      /\ call'.owner = credentials.owner /\ call'.generation = credentials.generation
  BY <1>2, Ids DEF CallType, Step, Why, State, Pending, Settled, CredentialsType
<1> USE <1>2, <1>3, Ids
<1>4. TypeOK'
  BY <1>1 DEF TypeOK
<1>5. EpochOfCall'
  BY <1>1 DEF EpochOfCall, TypeOK, LeaseRow, CredentialsType, Holds, Active
<1>6. Subject' /\ LeaseInHand'
  BY DEF Subject, LeaseInHand, Moving
<1>7. Grants' /\ Generations'
  BY DEF Grants, Generations, HasLease, Moving, Left
<1>8. SecretsAreKept' /\ CommandsLeaveOnce'
  BY DEF SecretsAreKept, CommandsLeaveOnce
<1>9. Dispatched' /\ VerdictsAreTrue'
  BY DEF Dispatched, Left, VerdictsAreTrue, Executed
<1>10. RegisteredFirst' /\ EffectsInOrder'
  BY DEF RegisteredFirst, Executed, EffectsInOrder, HasLease
<1>11. QED
  BY <1>4, <1>5, <1>6, <1>7, <1>8, <1>9, <1>10

(* What does not speak of the call: no row goes back, and a lease that is  *)
(* confirmed has its secret.                                               *)
LEMMA StoresKept ==
    ASSUME IInv, UNCHANGED <<files, remote>>,
           \A op \in Operation : Left(op) =>
               Left(op)' /\ operations'[op].intent = operations[op].intent,
           \A op \in LeaseIds : operations'[op].state = "confirmed" =>
               operations[op].state = "confirmed" \/ saved[op] # 0
    PROVE  Grants' /\ Generations' /\ SecretsAreKept' /\ CommandsLeaveOnce' /\ EffectsInOrder'
<1> USE Ids DEF IInv, files, remote
<1>1. Grants'
  BY DEF Grants, HasLease, Owned, Moving, Dispatched, TypeOK, RequestType
<1>2. Generations'
  BY DEF Generations, Owned, Moving
<1>3. SecretsAreKept'
  BY DEF SecretsAreKept
<1>4. CommandsLeaveOnce'
  BY DEF CommandsLeaveOnce, Left
<1>5. EffectsInOrder'
  BY DEF EffectsInOrder, HasLease
<1>6. QED
  BY <1>1, <1>2, <1>3, <1>4, <1>5

(* An operation that is prepared has left nothing, and one that has left   *)
(* is as it was.                                                           *)
LEMMA PreparedKeeps ==
    ASSUME IInv, Prepares, call.owner \in Owner, UNCHANGED <<files, remote>>
    PROVE  /\ operations' \in [Operation -> RowType]
           /\ \A op \in Operation :
                /\ Left(op)' <=> Left(op)
                /\ Left(op) => operations'[op] = operations[op]
                /\ operations'[op].state \in {"confirmed", "rejected"} => Left(op)
                /\ operations'[op].state = "absent" => operations'[op] = NoOperation
           /\ Grants' /\ Generations' /\ SecretsAreKept' /\ CommandsLeaveOnce' /\ EffectsInOrder'
<1>1. /\ operations' \in [Operation -> RowType]
      /\ \A op \in Operation :
           /\ Left(op)' <=> Left(op)
           /\ Left(op) => operations'[op] = operations[op]
           /\ operations'[op].state \in {"confirmed", "rejected"} => Left(op)
           /\ operations'[op].state = "absent" => operations'[op] = NoOperation
  BY RowPrepared DEF IInv, Left, NoOperation
<1>2. \A op \in LeaseIds : operations'[op].state = "confirmed" =>
          operations[op].state = "confirmed"
  BY <1>1, Ids
<1>3. QED
  BY <1>1, <1>2, StoresKept

LEMMA PrepareEffectStep == IInv /\ PrepareEffect => IInv'
<1> SUFFICES ASSUME IInv, PrepareEffect PROVE IInv'
  OBVIOUS
<1> USE DEF IInv, files, remote
<1>0. /\ call.at = "effect" /\ Current /\ Prepares
      /\ UNCHANGED <<clock, lease, mapped, files, remote, upsets>>
  BY DEF PrepareEffect
<1>1. /\ call.owner \in Owner /\ call.op \in Operation /\ call \in CallType
      /\ call.op \notin LeaseIds
  BY <1>0 DEF EpochOfCall, Subject, TypeOK, CallType
<1>2. /\ operations' \in [Operation -> RowType]
      /\ \A op \in Operation :
           /\ Left(op)' <=> Left(op)
           /\ Left(op) => operations'[op] = operations[op]
           /\ operations'[op].state \in {"confirmed", "rejected"} => Left(op)
           /\ operations'[op].state = "absent" => operations'[op] = NoOperation
      /\ Grants' /\ Generations' /\ SecretsAreKept' /\ CommandsLeaveOnce' /\ EffectsInOrder'
  BY <1>0, <1>1, PreparedKeeps
<1>3. /\ \A r \in sent : Left(r.op)' /\ (r.op = Register => r.number = 0)
      /\ \A op \in Operation \ LeaseIds :
          /\ operations'[op].state = "confirmed" => Executed(op)'
          /\ operations'[op].state = "rejected" =>
                ~Executed(op)' /\ \A r \in sent : r.op # op
  BY <1>0, <1>2 DEF Dispatched, VerdictsAreTrue, Executed, TypeOK, RequestType
<1> DEFINE Same == /\ call'.op = call.op /\ call'.why = call.why
                   /\ call'.owner = call.owner /\ call'.generation = call.generation
                   /\ call'.number = call.number
           Dispatches == call' \in CallType /\ call'.at = "dispatch" /\ Same
           Repeats == /\ call' \in CallType /\ call'.at = "send" /\ Same
                      /\ call.op = Register /\ Row.state \in {"dispatched", "uncertain"}
           Follows == Row.state = "confirmed" /\ AfterEffect
<1>4. Dispatches \/ Repeats \/ Follows \/ End
  <2>1. CASE call' = [call EXCEPT !.at = "dispatch", !.seen = "prepared"]
    BY <2>1, <1>1 DEF CallType, Step, State, Pending
  <2>2. CASE /\ Row.state \in {"dispatched", "uncertain"} /\ Idempotent
             /\ call' = [call EXCEPT !.at = "send", !.seen = Row.state]
    BY <2>2, <1>1 DEF CallType, Step, State, Pending, Idempotent
  <2>3. QED
    BY <2>1, <2>2 DEF PrepareEffect
<1> USE <1>0, <1>1, <1>2, <1>3, Ids
<1>5. CASE Dispatches
  <2>1. TypeOK' /\ EpochOfCall'
    BY <1>5 DEF TypeOK, EpochOfCall, Owned
  <2>2. Subject' /\ LeaseInHand'
    BY <1>5 DEF Subject, LeaseInHand, Owned, Moving
  <2>3. Dispatched' /\ VerdictsAreTrue'
    BY <1>5 DEF Dispatched, VerdictsAreTrue
  <2>4. RegisteredFirst'
    BY <1>5 DEF RegisteredFirst, Executed, Owned
  <2>5. QED
    BY <2>1, <2>2, <2>3, <2>4
<1>6. CASE Repeats
  <2>0. Left(call.op)' /\ operations'[call.op].state # "rejected"
    BY <1>6 DEF Left, Row
  <2>1. TypeOK' /\ EpochOfCall'
    BY <1>6 DEF TypeOK, EpochOfCall, Owned
  <2>2. Subject' /\ LeaseInHand'
    BY <1>6 DEF Subject, LeaseInHand, Owned, Moving
  <2>3. Dispatched' /\ VerdictsAreTrue'
    BY <1>6, <2>0 DEF Dispatched, VerdictsAreTrue, Left
  <2>4. RegisteredFirst'
    BY <1>6 DEF RegisteredFirst, Executed, Owned
  <2>5. QED
    BY <2>1, <2>2, <2>3, <2>4
<1>7. CASE Follows
  <2>0. Executed(call.op)
    BY <1>7 DEF VerdictsAreTrue, Row
  <2>1. TypeOK' /\ EpochOfCall'
    BY <1>7, CallAfterEffect, CallEnds DEF TypeOK, EpochOfCall, Owned
  <2>2. Subject' /\ LeaseInHand'
    BY <1>7, CallAfterEffect, CallEnds DEF Subject, LeaseInHand, Owned, Moving, Expected
  <2>3. Dispatched' /\ VerdictsAreTrue'
    BY <1>7, CallAfterEffect, CallEnds DEF Dispatched, VerdictsAreTrue
  <2>4. RegisteredFirst'
    BY <1>7, <2>0, CallAfterEffect, CallEnds DEF RegisteredFirst, Executed, Owned, Subject
  <2>5. QED
    BY <2>1, <2>2, <2>3, <2>4
<1>8. CASE End
  <2>1. TypeOK' /\ EpochOfCall' /\ Subject' /\ LeaseInHand'
    BY <1>8, CallEnds DEF TypeOK, EpochOfCall, Owned, Subject, LeaseInHand, Moving
  <2>2. Dispatched' /\ VerdictsAreTrue' /\ RegisteredFirst'
    BY <1>8, CallEnds DEF Dispatched, VerdictsAreTrue, RegisteredFirst, Executed, Owned
  <2>3. QED
    BY <2>1, <2>2
<1>9. QED
  BY <1>4, <1>5, <1>6, <1>7, <1>8

(* What the journal says of the operations that were sent and decided.     *)
RowsAreTrue ==
    /\ operations \in [Operation -> RowType]
    /\ \A op \in Operation : operations[op].state = "absent" => operations[op] = NoOperation
    /\ \A r \in sent : Left(r.op) /\ (r.op = Register => r.number = 0)
    /\ \A op \in Operation \ LeaseIds :
          /\ operations[op].state = "confirmed" => Executed(op)
          /\ operations[op].state = "rejected" =>
                ~Executed(op) /\ \A r \in sent : r.op # op

(* A transition that the code may make keeps that, and what does not speak *)
(* of the call.                                                            *)
LEMMA MoveKeeps ==
    ASSUME IInv, UNCHANGED <<files, remote>>,
           NEW op \in Operation,
           NEW s \in {"dispatched", "uncertain", "confirmed", "rejected"},
           operations[op].state \in Pending,
           operations' = [operations EXCEPT ![op] = Moved(@, s, None)],
           s = "confirmed" => IF op \in LeaseIds THEN saved[op] # 0 ELSE Executed(op),
           s = "rejected" => ~Executed(op) /\ \A r \in sent : r.op # op
    PROVE  /\ RowsAreTrue' /\ operations'[op].state = s
           /\ operations'[op].intent = operations[op].intent
           /\ \A o \in Operation : o # op => operations'[o] = operations[o]
           /\ Grants' /\ Generations' /\ SecretsAreKept' /\ CommandsLeaveOnce' /\ EffectsInOrder'
<1> USE DEF IInv, files, remote
<1>1. /\ operations' \in [Operation -> RowType]
      /\ \A o \in Operation : o # op => operations'[o] = operations[o]
      /\ operations'[op].state = s
      /\ operations'[op].intent = operations[op].intent
      /\ \A o \in Operation : operations'[o].state = "absent" => operations'[o] = NoOperation
  BY RowMoves
<1>2. \A o \in Operation : Left(o) =>
          Left(o)' /\ operations'[o].intent = operations[o].intent
  BY <1>1 DEF Left
<1>3. Grants' /\ Generations' /\ SecretsAreKept' /\ CommandsLeaveOnce' /\ EffectsInOrder'
  BY <1>1, <1>2, Ids, StoresKept
<1>4. \A r \in sent : Left(r.op)' /\ (r.op = Register => r.number = 0)
  BY <1>2 DEF Dispatched, TypeOK, RequestType
<1>5. \A o \in Operation \ LeaseIds :
          /\ operations'[o].state = "confirmed" => Executed(o)'
          /\ operations'[o].state = "rejected" =>
                ~Executed(o)' /\ \A r \in sent : r.op # o
  BY <1>1 DEF VerdictsAreTrue, Executed
<1>6. QED
  BY <1>1, <1>3, <1>4, <1>5 DEF RowsAreTrue

(* The rows move and the call ends.                                        *)
LEMMA MovedAndEnded ==
    ASSUME IInv, RowsAreTrue', End,
           UNCHANGED <<clock, lease, mapped, files, remote, upsets>>,
           Grants' /\ Generations' /\ SecretsAreKept' /\ CommandsLeaveOnce' /\ EffectsInOrder'
    PROVE  IInv'
<1> USE CallEnds DEF IInv, files, remote
<1>1. TypeOK' /\ EpochOfCall' /\ Subject' /\ LeaseInHand'
  BY DEF TypeOK, EpochOfCall, Owned, Subject, LeaseInHand, Moving, RowsAreTrue
<1>2. Dispatched' /\ VerdictsAreTrue' /\ RegisteredFirst'
  BY DEF Dispatched, VerdictsAreTrue, RegisteredFirst, Executed, Owned, RowsAreTrue
<1>3. QED
  BY <1>1, <1>2

LEMMA DispatchStep == IInv /\ Dispatch => IInv'
<1> SUFFICES ASSUME IInv, Dispatch PROVE IInv'
  OBVIOUS
<1> USE DEF IInv, files, remote
<1>0. /\ call.at = "dispatch" /\ UNCHANGED <<clock, lease, mapped, files, remote, upsets>>
      /\ call \in CallType /\ call.op \in Operation
  BY DEF Dispatch, TypeOK, CallType
<1>1. CASE End /\ UNCHANGED operations
  BY <1>1, <1>0, EndStep DEF TypeOK
<1>2. CASE /\ MayMove(Row, "dispatched", call.owner, call.generation)
           /\ SetRow("dispatched") /\ Goto("send")
  <2>1. Row.state = "prepared" /\ Row.state \in Pending
    BY <1>2, MovesArePending DEF Pending
  <2>2. /\ RowsAreTrue' /\ operations'[call.op].state = "dispatched"
        /\ operations'[call.op].intent = operations[call.op].intent
        /\ \A o \in Operation : o # call.op => operations'[o] = operations[o]
        /\ Grants' /\ Generations' /\ SecretsAreKept' /\ CommandsLeaveOnce' /\ EffectsInOrder'
    BY <1>0, <1>2, <2>1, MoveKeeps DEF SetRow, Row
  <2>3. /\ call' \in CallType /\ call'.at = "send" /\ call'.why = call.why
        /\ call'.owner = call.owner /\ call'.generation = call.generation
        /\ call'.op = call.op /\ call'.number = call.number
    BY <1>0, <1>2, CallGoes DEF Step
  <2> USE <1>0, <2>2, <2>3, Ids
  <2>4. TypeOK' /\ EpochOfCall'
    BY DEF TypeOK, EpochOfCall, Owned, RowsAreTrue
  <2>5. Subject' /\ LeaseInHand'
    BY DEF Subject, LeaseInHand, Owned, Moving, Expected, Row
  <2>6. Dispatched' /\ VerdictsAreTrue'
    <3>1. call.op \in Command => sends[call.op] = 0
      BY <2>1 DEF CommandsLeaveOnce, Row, TypeOK
    <3>2. QED
      BY <3>1 DEF Dispatched, VerdictsAreTrue, RowsAreTrue, Left
  <2>7. RegisteredFirst'
    BY DEF RegisteredFirst, Executed, Owned
  <2>8. QED
    BY <2>4, <2>5, <2>6, <2>7
<1>3. QED
  BY <1>1, <1>2 DEF Dispatch

LEMMA SendStep == IInv /\ Send => IInv'
<1> SUFFICES ASSUME IInv, Send PROVE IInv'
  OBVIOUS
<1> USE DEF IInv, files, journal
<1> DEFINE request == [op |-> call.op, why |-> call.why, number |-> call.number]
<1>0. /\ call.at = "send" /\ UNCHANGED <<journal, files, backend, upsets>>
      /\ call \in CallType /\ call.op \in Operation
      /\ sent' = sent \cup {request} /\ request \in RequestType
      /\ request.op = call.op /\ request.number = call.number
  BY DEF Send, TypeOK, CallType, RequestType
<1>1. /\ call' \in CallType /\ call'.at = "waiting" /\ call'.why = call.why
      /\ call'.owner = call.owner /\ call'.generation = call.generation
      /\ call'.op = call.op /\ call'.number = call.number
  BY <1>0, CallGoes DEF Step, Send
<1>2. sends' \in [Command -> Nat]
  BY DEF Send, TypeOK
<1> USE <1>0, <1>1, <1>2, Ids
<1> HIDE DEF request
<1>3. TypeOK' /\ EpochOfCall'
  BY DEF TypeOK, EpochOfCall, Owned
<1>4. Subject' /\ LeaseInHand'
  BY DEF Subject, LeaseInHand, Owned, Moving, Expected, Row, HasLease
<1>5. Grants'
  BY DEF Grants, HasLease, Left, Owned, Moving, Subject, LeaseInHand, Row, Expected
<1>6. Generations' /\ SecretsAreKept'
  BY DEF Generations, SecretsAreKept, Owned, Moving
<1>7. CommandsLeaveOnce'
  BY DEF CommandsLeaveOnce, Dispatched, Left, Send, TypeOK
<1>8. Dispatched' /\ VerdictsAreTrue'
  BY DEF Dispatched, Left, VerdictsAreTrue, Subject, Executed
<1>9. RegisteredFirst' /\ EffectsInOrder'
  BY DEF RegisteredFirst, Executed, Owned, EffectsInOrder, HasLease
<1>10. QED
  BY <1>3, <1>4, <1>5, <1>6, <1>7, <1>8, <1>9

LEMMA AnswerStep == IInv /\ Answer => IInv'
<1> SUFFICES ASSUME IInv, Answer PROVE IInv'
  OBVIOUS
<1> USE DEF IInv, journal, files, remote
<1>0. /\ call.at = "waiting" /\ UNCHANGED <<journal, files, remote, upsets>>
      /\ call \in CallType /\ call.op \in Operation
  BY DEF Answer, TypeOK, CallType
<1>1. /\ call' \in CallType /\ call'.op = call.op /\ call'.why = call.why
      /\ call'.owner = call.owner /\ call'.generation = call.generation
      /\ \/ /\ call.op \in LeaseIds /\ HasLease(call.op)
            /\ call'.at = "save" /\ call'.number = backend.granted[call.op]
         \/ /\ call.op \notin LeaseIds /\ Executed(call.op)
            /\ call'.at = "record" /\ call'.number = call.number
  <2>1. CASE call.op \in LeaseIds
    <3>1. backend.granted[call.op] \in Nat
      BY <2>1 DEF TypeOK, BackendType
    <3>2. /\ call' = [call EXCEPT !.at = "save", !.number = backend.granted[call.op]]
          /\ HasLease(call.op)
      BY <2>1 DEF Answer
    <3>3. QED
      BY <2>1, <3>1, <3>2, <1>0 DEF CallType, Step
  <2>2. CASE call.op \notin LeaseIds /\ Goto("record") /\ Executed(call.op)
    BY <2>2, <1>0, CallGoes DEF Step
  <2>3. QED
    BY <2>1, <2>2 DEF Answer
<1> USE <1>0, <1>1, Ids
<1>2. TypeOK' /\ EpochOfCall'
  BY DEF TypeOK, EpochOfCall, Owned
<1>3. Subject' /\ LeaseInHand'
  BY DEF Subject, LeaseInHand, Owned, Moving, Expected, Row, HasLease
<1>4. (Grants /\ Generations /\ SecretsAreKept /\ CommandsLeaveOnce)'
  BY DEF Grants, Generations, HasLease, Owned, Moving, Left, SecretsAreKept, CommandsLeaveOnce
<1>5. (Dispatched /\ VerdictsAreTrue /\ RegisteredFirst /\ EffectsInOrder)'
  BY DEF Dispatched, Left, VerdictsAreTrue, Executed, RegisteredFirst, Owned, EffectsInOrder,
         HasLease
<1>6. QED
  BY <1>2, <1>3, <1>4, <1>5

(* No answer, or a refusal: what the backend refused has no request on its *)
(* way any more.                                                           *)
LEMMA RefusedStep == IInv /\ Refused => IInv'
<1> SUFFICES ASSUME IInv, Refused PROVE IInv'
  OBVIOUS
<1> USE DEF IInv, journal, files
<1>0. /\ call.at = "waiting" /\ UNCHANGED <<journal, files, sends, backend>>
      /\ call \in CallType /\ call.op \in Operation
      /\ sent' = {r \in sent : r.op # call.op}
      /\ upsets' \in Nat
      /\ call.op \notin LeaseIds => ~Executed(call.op)
  BY DEF Refused, Upset, TypeOK, CallType, Outdated
<1>1. /\ call' \in CallType /\ call'.op = call.op /\ call'.why = call.why
      /\ call'.owner = call.owner /\ call'.generation = call.generation
      /\ call'.number = call.number
      /\ call'.at = IF call.op \in LeaseIds THEN "unsure" ELSE "refused"
  BY <1>0, CallGoes DEF Step, Refused
<1> USE <1>0, <1>1, Ids
<1>2. TypeOK' /\ EpochOfCall'
  BY DEF TypeOK, EpochOfCall, Owned
<1>3. Subject' /\ LeaseInHand'
  BY DEF Subject, LeaseInHand, Owned, Moving
<1>4. (Grants /\ Generations /\ SecretsAreKept /\ CommandsLeaveOnce)'
  BY DEF Grants, Generations, HasLease, Owned, Moving, Left, SecretsAreKept, CommandsLeaveOnce
<1>5. (Dispatched /\ VerdictsAreTrue /\ RegisteredFirst /\ EffectsInOrder)'
  BY DEF Dispatched, Left, VerdictsAreTrue, Executed, RegisteredFirst, Owned, EffectsInOrder,
         HasLease
<1>6. QED
  BY <1>2, <1>3, <1>4, <1>5

LEMMA NoAnswerStep == IInv /\ NoAnswer => IInv'
<1> SUFFICES ASSUME IInv, NoAnswer PROVE IInv'
  OBVIOUS
<1> USE DEF IInv, journal, files, remote
<1>0. /\ call.at = "waiting" /\ UNCHANGED <<journal, files, remote>>
      /\ call \in CallType /\ upsets' \in Nat
  BY DEF NoAnswer, Upset, TypeOK
<1>1. /\ call' \in CallType /\ call'.op = call.op /\ call'.why = call.why
      /\ call'.owner = call.owner /\ call'.generation = call.generation
      /\ call'.number = call.number /\ call'.at = "unsure"
  BY <1>0, CallGoes DEF Step, NoAnswer
<1> USE <1>0, <1>1, Ids
<1>2. TypeOK' /\ EpochOfCall'
  BY DEF TypeOK, EpochOfCall, Owned
<1>3. Subject' /\ LeaseInHand'
  BY DEF Subject, LeaseInHand, Owned, Moving
<1>4. (Grants /\ Generations /\ SecretsAreKept /\ CommandsLeaveOnce)'
  BY DEF Grants, Generations, HasLease, Owned, Moving, Left, SecretsAreKept, CommandsLeaveOnce
<1>5. (Dispatched /\ VerdictsAreTrue /\ RegisteredFirst /\ EffectsInOrder)'
  BY DEF Dispatched, Left, VerdictsAreTrue, Executed, RegisteredFirst, Owned, EffectsInOrder,
         HasLease
<1>6. QED
  BY <1>2, <1>3, <1>4, <1>5

LEMMA ClassifyStep == IInv /\ Classify => IInv'
<1> SUFFICES ASSUME IInv, Classify PROVE IInv'
  OBVIOUS
<1> USE DEF IInv, files, remote
<1>0. /\ call.at \in {"unsure", "refused"} /\ End /\ call.op \in Operation
      /\ UNCHANGED <<clock, lease, mapped, files, remote, upsets>>
  BY DEF Classify, TypeOK, CallType
<1>1. CASE UNCHANGED operations
  BY <1>1, <1>0, EndStep DEF TypeOK
<1>2. CASE /\ call.at = "unsure" /\ MayMove(Row, "uncertain", call.owner, call.generation)
           /\ SetRow("uncertain")
  <2>1. Row.state \in Pending
    BY <1>2, MovesArePending
  <2>2. /\ RowsAreTrue'
        /\ Grants' /\ Generations' /\ SecretsAreKept' /\ CommandsLeaveOnce' /\ EffectsInOrder'
    BY <1>0, <1>2, <2>1, MoveKeeps DEF SetRow, Row
  <2>3. QED
    BY <1>0, <2>2, MovedAndEnded
<1>3. CASE /\ call.at = "refused" /\ MayMove(Row, "rejected", call.owner, call.generation)
           /\ SetRow("rejected")
  <2>1. Row.state \in Pending
    BY <1>3, MovesArePending
  <2>2. ~Executed(call.op) /\ \A r \in sent : r.op # call.op
    BY <1>3 DEF VerdictsAreTrue
  <2>3. /\ RowsAreTrue'
        /\ Grants' /\ Generations' /\ SecretsAreKept' /\ CommandsLeaveOnce' /\ EffectsInOrder'
    BY <1>0, <1>3, <2>1, <2>2, MoveKeeps DEF SetRow, Row
  <2>4. QED
    BY <1>0, <2>3, MovedAndEnded
<1>4. QED
  BY <1>1, <1>2, <1>3 DEF Classify

LEMMA RecordStep == IInv /\ Record => IInv'
<1> SUFFICES ASSUME IInv, Record PROVE IInv'
  OBVIOUS
<1> USE DEF IInv, files, remote
<1>0. /\ call.at = "record" /\ call.op \in Operation \ LeaseIds /\ call \in CallType
      /\ call.owner \in Owner /\ Executed(call.op)
      /\ UNCHANGED <<clock, lease, mapped, files, remote, upsets>>
  BY DEF Record, TypeOK, CallType, Subject, EpochOfCall, VerdictsAreTrue
<1>1. CASE End /\ UNCHANGED operations
  BY <1>1, <1>0, EndStep DEF TypeOK
<1>2. CASE /\ \/ MayMove(Row, "confirmed", call.owner, call.generation)
              \/ MayReconcile(Row, "confirmed")
           /\ SetRow("confirmed") /\ AfterEffect
  <2>1. Row.state \in Pending
    BY <1>2, MovesArePending
  <2>2. /\ RowsAreTrue' /\ operations'[call.op].intent = operations[call.op].intent
        /\ Grants' /\ Generations' /\ SecretsAreKept' /\ CommandsLeaveOnce' /\ EffectsInOrder'
    BY <1>0, <1>2, <2>1, MoveKeeps DEF SetRow, Row
  <2>3. CASE End
    BY <1>0, <2>2, <2>3, MovedAndEnded
  <2>4. CASE ~End
    <3> USE <1>0, <1>2, <2>2, <2>4, CallAfterEffect, Ids
    <3>1. TypeOK' /\ EpochOfCall'
      BY DEF TypeOK, EpochOfCall, Owned, RowsAreTrue
    <3>2. Subject' /\ LeaseInHand'
      BY DEF Subject, LeaseInHand, Owned, Moving, Expected
    <3>3. Dispatched' /\ VerdictsAreTrue'
      BY DEF Dispatched, VerdictsAreTrue, RowsAreTrue
    <3>4. RegisteredFirst'
      BY DEF RegisteredFirst, Executed, Owned, Subject
    <3>5. QED
      BY <3>1, <3>2, <3>3, <3>4
  <2>5. QED
    BY <2>3, <2>4
<1>3. QED
  BY <1>1, <1>2 DEF Record

(* The steps of renew and revoke, which change the file and the lease.     *)
LEMMA ExtendStep == IInv /\ (Extend \/ Disown) => IInv'
<1> SUFFICES ASSUME IInv, Extend \/ Disown PROVE IInv'
  OBVIOUS
<1> USE DEF IInv, journal, remote
<1>0. /\ call.at \in {"extend", "disown"} /\ UNCHANGED <<journal, pending, saved, remote, upsets>>
      /\ call \in CallType /\ credentials \in CredentialsType /\ Owned
  BY DEF Extend, Disown, TypeOK, Subject, Owned
<1>1. /\ call' \in CallType
      /\ \/ End
         \/ /\ call'.at = "release" /\ call'.op = call.op
            /\ call'.owner = call.owner /\ call'.generation = call.generation
  BY <1>0, CallGoes, CallEnds DEF Step, Extend, Disown
<1>2. /\ credentials' \in CredentialsType /\ Owned'
      /\ credentials'.owner = credentials.owner
      /\ credentials'.generation = credentials.generation
      /\ credentials'.remote = credentials.remote
  <2>1. clock + TTL \in Nat
    BY TTLAssumption DEF TypeOK
  <2>2. CASE credentials' = [credentials EXCEPT !.expires = clock + TTL]
    BY <1>0, <2>1, <2>2 DEF CredentialsType, Owned, NoCredentials
  <2>3. CASE credentials' = [credentials EXCEPT !.revoked = TRUE]
    BY <1>0, <2>3 DEF CredentialsType, Owned, NoCredentials
  <2>4. QED
    BY <2>2, <2>3 DEF Extend, Disown
<1> USE <1>0, <1>1, <1>2, Ids, CallEnds
<1>3. TypeOK' /\ EpochOfCall'
  BY DEF TypeOK, EpochOfCall
<1>4. Subject' /\ LeaseInHand'
  BY DEF Subject, LeaseInHand, Moving
<1>5. (Grants /\ Generations /\ SecretsAreKept /\ CommandsLeaveOnce)'
  BY DEF Grants, Generations, HasLease, Moving, Left, SecretsAreKept, CommandsLeaveOnce
<1>6. (Dispatched /\ VerdictsAreTrue /\ RegisteredFirst /\ EffectsInOrder)'
  BY DEF Dispatched, Left, VerdictsAreTrue, Executed, RegisteredFirst, EffectsInOrder,
         HasLease
<1>7. QED
  BY <1>3, <1>4, <1>5, <1>6

LEMMA ReleaseStep == IInv /\ (Release \/ ReleaseOld) => IInv'
<1> SUFFICES ASSUME IInv, Release \/ ReleaseOld PROVE IInv'
  OBVIOUS
<1> USE DEF IInv, files, remote
<1>0. /\ UNCHANGED <<clock, operations, mapped, files, remote, upsets>>
      /\ call \in CallType /\ lease \in LeaseRow
      /\ call.at # "idle" /\ call.owner \in Owner
  BY DEF Release, ReleaseOld, TypeOK, EpochOfCall
<1>1. /\ call' \in CallType
      /\ \/ End
         \/ /\ call.at = "release-old" /\ call'.at = "acquire"
            /\ call'.why = call.why /\ call'.owner = call.owner /\ call'.op = call.op
  BY <1>0, CallGoes, CallEnds DEF Step, Release, ReleaseOld
<1>2. /\ lease' \in LeaseRow /\ lease'.generation = lease.generation
      /\ lease'.owner = lease.owner
      /\ lease.revoked => lease'.revoked
  BY <1>0 DEF Release, ReleaseOld, LeaseRow
<1> USE <1>0, <1>1, <1>2, Ids, CallEnds
<1>3. TypeOK' /\ EpochOfCall'
  BY DEF TypeOK, EpochOfCall, Owned
<1>4. Subject' /\ LeaseInHand'
  BY DEF Subject, LeaseInHand, Moving, Owned
<1>5. (Grants /\ Generations /\ SecretsAreKept /\ CommandsLeaveOnce)'
  BY DEF Grants, Generations, HasLease, Moving, Owned, Left, SecretsAreKept, CommandsLeaveOnce
<1>6. (Dispatched /\ VerdictsAreTrue /\ RegisteredFirst /\ EffectsInOrder)'
  BY DEF Dispatched, Left, VerdictsAreTrue, Executed, RegisteredFirst, EffectsInOrder,
         HasLease, Owned
<1>7. QED
  BY <1>3, <1>4, <1>5, <1>6

(* The steps of a takeover before it asks for the lease.                   *)
LEMMA AcquireStep == IInv /\ Acquire => IInv'
<1> SUFFICES ASSUME IInv, Acquire PROVE IInv'
  OBVIOUS
<1> USE DEF IInv, files, remote
<1>0. /\ call.at = "acquire" /\ call.owner \in Owner /\ call.why = "resume"
      /\ UNCHANGED <<clock, operations, mapped, files, remote, upsets>>
      /\ call \in CallType /\ pending \in PendingType /\ Moving /\ Owned
      /\ TakeoverOf(pending) \in LeaseIds /\ pending.expected \in Nat
  BY Ids DEF Acquire, TypeOK, EpochOfCall, Subject, Moving, PendingType
<1>1. /\ lease' \in LeaseRow /\ lease'.owner = call.owner
      /\ lease'.generation >= 1 /\ lease'.generation >= lease.generation
      /\ lease'.generation = lease.generation => lease'.owner = lease.owner
  BY <1>0, LeaseAcquired DEF Acquire
<1>2. /\ call' \in CallType /\ call'.at = "prepare" /\ call'.why = "resume"
      /\ call'.owner = call.owner /\ call'.generation = lease'.generation
      /\ call'.op = TakeoverOf(pending) /\ call'.number = pending.expected
  <2> HIDE DEF IInv
  <2>1. call' = [call EXCEPT !.at = "prepare", !.generation = lease'.generation,
                             !.op = TakeoverOf(pending), !.number = pending.expected]
    BY DEF Acquire
  <2>2. lease'.generation \in Nat /\ TakeoverOf(pending) \in Operation
    BY <1>0, <1>1, Ids DEF LeaseRow
  <2>3. QED
    BY <1>0, <2>1, <2>2 DEF CallType, Step
<1> USE <1>0, <1>1, <1>2, Ids
<1>3. TypeOK' /\ EpochOfCall'
  BY DEF TypeOK, EpochOfCall, Owned, LeaseRow, CredentialsType
<1>4. Subject' /\ LeaseInHand'
  BY DEF Subject, LeaseInHand, Moving, Owned, Expected
<1>5. (Grants /\ Generations /\ SecretsAreKept /\ CommandsLeaveOnce)'
  BY DEF Grants, Generations, HasLease, Moving, Owned, Left, SecretsAreKept, CommandsLeaveOnce
<1>6. (Dispatched /\ VerdictsAreTrue /\ RegisteredFirst /\ EffectsInOrder)'
  BY DEF Dispatched, Left, VerdictsAreTrue, Executed, RegisteredFirst, EffectsInOrder,
         HasLease, Owned
<1>7. QED
  BY <1>3, <1>4, <1>5, <1>6

(* A call that asks for a lease: registration is behind it, since its      *)
(* operation is a lease.                                                   *)
LEMMA PrepareLeaseStep == IInv /\ PrepareLease => IInv'
<1> SUFFICES ASSUME IInv, PrepareLease PROVE IInv'
  OBVIOUS
<1> USE DEF IInv, files, remote
<1>0. /\ call.at = "prepare" /\ Prepares
      /\ UNCHANGED <<clock, lease, mapped, files, remote, upsets>>
      /\ call.owner \in Owner /\ call \in CallType /\ call.op \in LeaseIds
      /\ call.op \in Operation /\ call.number = Expected /\ saved[call.op] \in Nat
  BY Ids DEF PrepareLease, EpochOfCall, Subject, LeaseInHand, TypeOK
<1>1. /\ operations' \in [Operation -> RowType]
      /\ \A op \in Operation :
           /\ Left(op)' <=> Left(op)
           /\ Left(op) => operations'[op] = operations[op]
           /\ operations'[op].state \in {"confirmed", "rejected"} => Left(op)
           /\ operations'[op].state = "absent" => operations'[op] = NoOperation
      /\ Grants' /\ Generations' /\ SecretsAreKept' /\ CommandsLeaveOnce' /\ EffectsInOrder'
  BY <1>0, PreparedKeeps
<1>2. RowsAreTrue'
  BY <1>0, <1>1 DEF RowsAreTrue, Dispatched, VerdictsAreTrue, Executed, TypeOK, RequestType
<1>3. \/ Row = NoOperation /\ operations'[call.op].intent = Expecting(call.number)
      \/ /\ Row # NoOperation /\ Row.state # "absent"
         /\ operations'[call.op] = operations[call.op]
  BY <1>0, RowPrepared DEF Row
<1> DEFINE Intended == operations'[call.op].intent = Expecting(call.number)
           Same == /\ call' \in CallType /\ call'.op = call.op /\ call'.why = call.why
                   /\ call'.owner = call.owner /\ call'.generation = call.generation
           Reads == Same /\ call'.at = "confirm" /\ call'.number = saved[call.op] /\ saved[call.op] # 0
           Asks == /\ Same /\ call'.number = call.number
                   /\ \/ call'.at = "dispatch"
                      \/ call'.at = "send" /\ Left(call.op)'
<1>4. End \/ (Intended /\ (Reads \/ Asks))
  <2> DEFINE state == IF Row = NoOperation THEN "prepared" ELSE Row.state
  <2>0. Row \in RowType /\ state \in State
    BY <1>0 DEF TypeOK, Row, RowType, State, Pending
  <2>1. CASE Row # NoOperation /\ Row.intent # Expecting(call.number)
    BY <2>1 DEF PrepareLease
  <2>2. CASE ~(Row # NoOperation /\ Row.intent # Expecting(call.number))
    <3>1. Intended
      BY <1>3, <2>2 DEF Row
    <3>2. CASE saved[call.op] # 0
      <4>1. call' = [call EXCEPT !.at = "confirm", !.seen = state, !.number = saved[call.op]]
        BY <2>2, <3>2 DEF PrepareLease
      <4>2. Reads
        BY <1>0, <2>0, <3>2, <4>1 DEF CallType, Step
      <4>3. QED
        BY <3>1, <4>2
    <3>3. CASE saved[call.op] = 0 /\ state = "confirmed"
      BY <2>2, <3>3 DEF PrepareLease
    <3>4. CASE saved[call.op] = 0 /\ state = "prepared"
      <4>1. call' = [call EXCEPT !.at = "dispatch", !.seen = state]
        BY <2>2, <3>4 DEF PrepareLease
      <4>2. Asks
        BY <1>0, <2>0, <4>1 DEF CallType, Step
      <4>3. QED
        BY <3>1, <4>2
    <3>5. CASE saved[call.op] = 0 /\ state \notin {"confirmed", "prepared"}
      <4>1. call' = [call EXCEPT !.at = "send", !.seen = state]
        BY <2>2, <3>5 DEF PrepareLease
      <4>2. Left(call.op)'
        <5>1. operations'[call.op].state \notin {"absent", "prepared"}
          BY <1>3, <3>5 DEF Row
        <5>2. call'.op = call.op
          BY <1>0, <4>1 DEF CallType
        <5>3. QED
          BY <5>1, <5>2 DEF Left
      <4>3. Asks
        BY <1>0, <2>0, <4>1, <4>2 DEF CallType, Step
      <4>4. QED
        BY <3>1, <4>3
    <3>6. QED
      BY <3>2, <3>3, <3>4, <3>5
  <2>3. QED
    BY <2>1, <2>2
<1>5. CASE End
  BY <1>0, <1>1, <1>2, <1>5, MovedAndEnded
<1>6. CASE Intended /\ (Reads \/ Asks)
  <2> USE <1>0, <1>1, <1>2, <1>6, Ids
  <2>1. TypeOK' /\ EpochOfCall'
    BY DEF TypeOK, EpochOfCall, Owned
  <2>2. Subject'
    BY DEF Subject, Owned, Moving
  <2>3. LeaseInHand'
    BY DEF LeaseInHand, Expected, Row, SecretsAreKept, HasLease
  <2>4. Dispatched' /\ VerdictsAreTrue'
    BY DEF Dispatched, VerdictsAreTrue, RowsAreTrue
  <2>5. RegisteredFirst'
    BY DEF RegisteredFirst, Executed
  <2>6. QED
    BY <2>1, <2>2, <2>3, <2>4, <2>5
<1>7. QED
  BY <1>4, <1>5, <1>6

(* The secret is saved, and the receipt recorded.                          *)
LEMMA SaveStep == IInv /\ Save => IInv'
<1> SUFFICES ASSUME IInv, Save PROVE IInv'
  OBVIOUS
<1> USE DEF IInv, journal, remote
<1>0. /\ call.at = "save" /\ call.op \in LeaseIds /\ call \in CallType
      /\ UNCHANGED <<journal, credentials, pending, remote, upsets>>
      /\ saved' = [saved EXCEPT ![call.op] = call.number]
      /\ call.number = backend.granted[call.op] /\ call.number # 0 /\ call.number \in Nat
  BY DEF Save, Subject, LeaseInHand, TypeOK, CallType
<1>1. /\ call' \in CallType /\ call'.at = "confirm" /\ call'.why = call.why
      /\ call'.owner = call.owner /\ call'.generation = call.generation
      /\ call'.op = call.op /\ call'.number = call.number
  BY <1>0, CallGoes DEF Step, Save
<1>2. /\ saved' \in [LeaseIds -> Nat] /\ saved'[call.op] = call.number
      /\ \A op \in LeaseIds : op # call.op => saved'[op] = saved[op]
  BY <1>0 DEF TypeOK
<1> USE <1>0, <1>1, <1>2, Ids
<1>3. TypeOK' /\ EpochOfCall'
  BY DEF TypeOK, EpochOfCall, Owned
<1>4. Subject' /\ LeaseInHand'
  BY DEF Subject, LeaseInHand, Moving, Owned, Row, Expected, HasLease
<1>5. Grants' /\ Generations' /\ CommandsLeaveOnce'
  BY DEF Grants, Generations, HasLease, Moving, Owned, Left, CommandsLeaveOnce
<1>6. SecretsAreKept'
  BY DEF SecretsAreKept
<1>7. (Dispatched /\ VerdictsAreTrue /\ RegisteredFirst /\ EffectsInOrder)'
  BY DEF Dispatched, Left, VerdictsAreTrue, Executed, RegisteredFirst, EffectsInOrder,
         HasLease, Owned
<1>8. QED
  BY <1>3, <1>4, <1>5, <1>6, <1>7

LEMMA ConfirmStep == IInv /\ Confirm => IInv'
<1> SUFFICES ASSUME IInv, Confirm PROVE IInv'
  OBVIOUS
<1> USE DEF IInv, files, remote
<1>0. /\ call.at = "confirm" /\ call.op \in LeaseIds /\ call.op \in Operation
      /\ call \in CallType /\ saved[call.op] # 0
      /\ UNCHANGED <<clock, lease, mapped, files, remote, upsets>>
  BY Ids DEF Confirm, Subject, LeaseInHand, TypeOK
<1>1. /\ call' \in CallType /\ call'.at = "credentials" /\ call'.why = call.why
      /\ call'.owner = call.owner /\ call'.generation = call.generation
      /\ call'.op = call.op /\ call'.number = call.number
  BY <1>0, CallGoes DEF Step, Confirm
<1>2. /\ RowsAreTrue' /\ operations'[call.op].intent = operations[call.op].intent
      /\ Grants' /\ Generations' /\ SecretsAreKept' /\ CommandsLeaveOnce' /\ EffectsInOrder'
  <2>1. CASE UNCHANGED operations
    <3>1. RowsAreTrue'
      BY <1>0, <2>1 DEF RowsAreTrue, TypeOK, Dispatched, VerdictsAreTrue, Left, Executed
    <3>2. \A op \in Operation : Left(op) => Left(op)'
      BY <2>1 DEF Left
    <3>3. QED
      BY <1>0, <2>1, <3>1, <3>2, StoresKept, Ids
  <2>2. CASE MayReconcile(Row, "confirmed") /\ SetRow("confirmed")
    <3>1. Row.state \in Pending
      BY <2>2, MovesArePending
    <3>2. QED
      BY <1>0, <2>2, <3>1, MoveKeeps DEF SetRow, Row
  <2>3. QED
    BY <2>1, <2>2 DEF Confirm
<1> USE <1>0, <1>1, <1>2, Ids
<1>3. TypeOK' /\ EpochOfCall'
  BY DEF TypeOK, EpochOfCall, Owned, RowsAreTrue
<1>4. Subject' /\ LeaseInHand'
  BY DEF Subject, LeaseInHand, Moving, Owned, Row, Expected, HasLease
<1>5. (Dispatched /\ VerdictsAreTrue /\ RegisteredFirst)'
  BY DEF Dispatched, VerdictsAreTrue, RegisteredFirst, RowsAreTrue, Executed
<1>6. QED
  BY <1>2, <1>3, <1>4, <1>5

(* The lease in hand is the backend's: what was granted was granted over   *)
(* the generation that the operation's intent names.                       *)
LEMMA InHandIsNewest ==
    ASSUME IInv, call.at = "credentials"
    PROVE  call.number = backend.generation /\ HasLease(call.op) /\ call.op \in LeaseIds
<1> USE Ids DEF IInv
<1>1. /\ call.op \in LeaseIds /\ call.number = backend.granted[call.op] /\ call.number # 0
      /\ call.number \in Nat /\ operations[call.op].intent = Expecting(Expected)
  BY DEF Subject, LeaseInHand, TypeOK, CallType, Row
<1>2. /\ operations[call.op].intent = Expecting(call.number - 1)
      /\ call.number =< backend.generation /\ backend.generation \in Nat
  BY <1>1 DEF Grants, HasLease, TypeOK, BackendType
<1>3. CASE call.why = "start"
  BY <1>1, <1>3 DEF Subject, Generations, HasLease
<1>4. CASE call.why = "resume"
  <2>1. Moving /\ pending \in PendingType /\ pending.expected \in Nat
    BY <1>1, <1>4 DEF Subject, Moving, TypeOK, PendingType
  <2>2. Expecting(call.number - 1) = Expecting(pending.expected)
    BY <1>1, <1>2, <1>4 DEF Expected
  <2>3. call.number - 1 = pending.expected
    BY <1>1, <2>1, <2>2
  <2>4. QED
    BY <1>1, <1>2, <2>1, <2>3 DEF Generations, HasLease
<1>5. QED
  BY <1>1, <1>3, <1>4 DEF Subject

LEMMA WriteCredentialsStep == IInv /\ WriteCredentials => IInv'
<1> SUFFICES ASSUME IInv, WriteCredentials PROVE IInv'
  OBVIOUS
<1> USE DEF IInv, journal, remote
<1>0. /\ call.at = "credentials" /\ call.op \in LeaseIds /\ call \in CallType
      /\ UNCHANGED <<journal, pending, saved, remote, upsets>>
      /\ call.number = backend.generation /\ HasLease(call.op) /\ call.number \in Nat
      /\ call.owner \in Owner /\ call.generation \in Nat \ {0}
  BY InHandIsNewest DEF WriteCredentials, EpochOfCall, TypeOK, CallType
<1>1. /\ call' \in CallType /\ call'.why = call.why
      /\ \/ call'.at = "map" /\ call.why = "start"
         \/ call'.at = "lifecycle" /\ call.why # "start"
      /\ call'.owner = call.owner /\ call'.generation = call.generation
      /\ call'.op = call.op /\ call'.number = call.number
  <2>1. CASE call.why = "start" /\ Goto("map")
    BY <1>0, <2>1, CallGoes DEF Step
  <2>2. CASE call.why # "start" /\ Goto("lifecycle")
    BY <1>0, <2>2, CallGoes DEF Step
  <2>3. QED
    BY <2>1, <2>2 DEF WriteCredentials
<1>2. /\ credentials' \in CredentialsType /\ Owned'
      /\ credentials'.owner = call.owner /\ credentials'.generation = call.generation
      /\ credentials'.remote = call.number
  <2>1. clock + TTL \in Nat
    BY TTLAssumption DEF TypeOK
  <2>2. QED
    BY <1>0, <2>1 DEF WriteCredentials, CredentialsType, Owned, NoCredentials
<1>3. \/ call.why = "start" /\ call.op = InitialLease /\ ~Owned /\ ~Moving
      \/ call.why = "resume" /\ Moving /\ call.op = TakeoverOf(pending) /\ Owned
  BY <1>0 DEF Subject
<1> USE <1>0, <1>1, <1>2, Ids
<1>4. TypeOK' /\ EpochOfCall'
  BY DEF TypeOK, EpochOfCall
<1>5. Subject' /\ LeaseInHand'
  BY <1>3 DEF Subject, LeaseInHand, Moving, HasLease
<1>6. Grants' /\ Generations'
  BY <1>3 DEF Grants, Generations, HasLease, Moving, Left
<1>7. SecretsAreKept' /\ CommandsLeaveOnce'
  BY DEF SecretsAreKept, CommandsLeaveOnce
<1>8. (Dispatched /\ VerdictsAreTrue /\ RegisteredFirst /\ EffectsInOrder)'
  BY DEF Dispatched, Left, VerdictsAreTrue, Executed, RegisteredFirst, EffectsInOrder,
         HasLease
<1>9. QED
  BY <1>4, <1>5, <1>6, <1>7, <1>8

(* The end of a start and of a takeover: the mapping, takeover.json, and   *)
(* the operations that the successor finds executed.                       *)
LEMMA LifecycleStep == IInv /\ Lifecycle => IInv'
<1> SUFFICES ASSUME IInv, Lifecycle PROVE IInv'
  OBVIOUS
<1> USE DEF IInv, journal, files, remote
<1>0. /\ call.at = "lifecycle" /\ UNCHANGED <<journal, files, remote, upsets>>
      /\ call \in CallType
  BY DEF Lifecycle, TypeOK
<1>1. /\ call' \in CallType /\ call'.at = "unlink" /\ call'.why = call.why
      /\ call'.owner = call.owner /\ call'.generation = call.generation
      /\ call'.op = call.op
  BY <1>0, CallGoes DEF Step, Lifecycle
<1> USE <1>0, <1>1, Ids
<1>2. TypeOK' /\ EpochOfCall'
  BY DEF TypeOK, EpochOfCall, Owned
<1>3. Subject' /\ LeaseInHand'
  BY DEF Subject, LeaseInHand, Owned, Moving, HasLease
<1>4. (Grants /\ Generations /\ SecretsAreKept /\ CommandsLeaveOnce)'
  BY DEF Grants, Generations, HasLease, Owned, Moving, Left, SecretsAreKept, CommandsLeaveOnce
<1>5. (Dispatched /\ VerdictsAreTrue /\ RegisteredFirst /\ EffectsInOrder)'
  BY DEF Dispatched, Left, VerdictsAreTrue, Executed, RegisteredFirst, Owned, EffectsInOrder,
         HasLease
<1>6. QED
  BY <1>2, <1>3, <1>4, <1>5

LEMMA UnlinkStep == IInv /\ Unlink => IInv'
<1> SUFFICES ASSUME IInv, Unlink PROVE IInv'
  OBVIOUS
<1> USE DEF IInv, journal, remote
<1>0. /\ call.at = "unlink" /\ UNCHANGED <<journal, credentials, saved, remote, upsets>>
      /\ pending' = NoPending /\ ~Moving' /\ call \in CallType
      /\ credentials.remote = backend.generation /\ HasLease(TakeoverOf(pending))
      /\ Moving /\ Owned
  BY DEF Unlink, TypeOK, LeaseInHand, Subject, Moving
<1>1. /\ call' \in CallType /\ call'.at = "map" /\ call'.why = call.why
      /\ call'.owner = call.owner /\ call'.generation = call.generation
      /\ call'.op = call.op
  BY <1>0, CallGoes DEF Step, Unlink
<1> USE <1>0, <1>1, Ids
<1>2. TypeOK' /\ EpochOfCall'
  BY DEF TypeOK, EpochOfCall, Owned
<1>3. Subject' /\ LeaseInHand'
  BY DEF Subject, LeaseInHand
<1>4. (Grants /\ Generations /\ SecretsAreKept /\ CommandsLeaveOnce)'
  BY DEF Grants, Generations, HasLease, Owned, Left, SecretsAreKept, CommandsLeaveOnce
<1>5. (Dispatched /\ VerdictsAreTrue /\ RegisteredFirst /\ EffectsInOrder)'
  BY DEF Dispatched, Left, VerdictsAreTrue, Executed, RegisteredFirst, Owned, EffectsInOrder,
         HasLease
<1>6. QED
  BY <1>2, <1>3, <1>4, <1>5

LEMMA MapStep == IInv /\ Map => IInv'
<1> SUFFICES ASSUME IInv, Map PROVE IInv'
  OBVIOUS
<1> USE DEF IInv, files, remote
<1>0. /\ call.at = "map" /\ UNCHANGED <<clock, lease, operations, files, remote, upsets>>
      /\ call \in CallType /\ mapped' \in Nat
  BY DEF Map, TypeOK, CallType
<1>1. /\ call' \in CallType
      /\ \/ End
         \/ /\ call'.at = "adopt" /\ call'.op = call.op /\ call'.owner = call.owner
            /\ call'.generation = call.generation
  BY <1>0, CallGoes, CallEnds DEF Step, Map
<1> USE <1>0, <1>1, CallEnds, Ids
<1>2. TypeOK' /\ EpochOfCall'
  BY DEF TypeOK, EpochOfCall, Owned
<1>3. Subject' /\ LeaseInHand'
  BY DEF Subject, LeaseInHand, Owned, Moving
<1>4. (Grants /\ Generations /\ SecretsAreKept /\ CommandsLeaveOnce)'
  BY DEF Grants, Generations, HasLease, Owned, Moving, Left, SecretsAreKept, CommandsLeaveOnce
<1>5. (Dispatched /\ VerdictsAreTrue /\ RegisteredFirst /\ EffectsInOrder)'
  BY DEF Dispatched, Left, VerdictsAreTrue, Executed, RegisteredFirst, Owned, EffectsInOrder,
         HasLease
<1>6. QED
  BY <1>2, <1>3, <1>4, <1>5

LEMMA AdoptStep == IInv /\ Adopt => IInv'
<1> SUFFICES ASSUME IInv, Adopt PROVE IInv'
  OBVIOUS
<1> USE DEF IInv, files, remote
<1>0. /\ call.at = "adopt" /\ UNCHANGED <<clock, lease, mapped, files, call, remote, upsets>>
  BY DEF Adopt
<1>1. PICK op \in Command :
        /\ MayReconcile(operations[op], "confirmed") /\ Executed(op)
        /\ operations' = [operations EXCEPT ![op] = Moved(@, "confirmed", None)]
  BY DEF Adopt
<1>2. /\ RowsAreTrue'
      /\ Grants' /\ Generations' /\ SecretsAreKept' /\ CommandsLeaveOnce' /\ EffectsInOrder'
  <2>1. operations[op].state \in Pending
    BY <1>1, MovesArePending
  <2>2. QED
    BY <1>0, <1>1, <2>1, MoveKeeps, Ids
<1> USE <1>0, <1>2, Ids
<1>3. TypeOK' /\ EpochOfCall'
  BY DEF TypeOK, EpochOfCall, Owned, RowsAreTrue
<1>4. Subject' /\ LeaseInHand'
  BY DEF Subject, LeaseInHand, Owned, Moving
<1>5. (Dispatched /\ VerdictsAreTrue /\ RegisteredFirst)'
  BY DEF Dispatched, VerdictsAreTrue, RegisteredFirst, RowsAreTrue, Executed, Owned
<1>6. QED
  BY <1>2, <1>3, <1>4, <1>5

LEMMA ElementTyped ==
    ASSUME NEW S, NEW s \in Seq(S)
    PROVE  \A i \in DOMAIN s : s[i] \in S
OBVIOUS

LEMMA DoneTyped ==
    ASSUME backend \in BackendType
    PROVE  \A i \in DOMAIN backend.done :
               backend.done[i].op \in Operation /\ backend.done[i].generation \in Nat
<1>1. backend.done \in Seq([op: Operation, generation: Nat])
  BY DEF BackendType
<1>2. \A i \in DOMAIN backend.done : backend.done[i] \in [op: Operation, generation: Nat]
  BY <1>1, ElementTyped
<1>3. QED
  BY <1>2

(* The backend grants a lease: to the start that asked for the first, or   *)
(* to the takeover that takeover.json names.                               *)
LEMMA GrantLeaseStep ==
    ASSUME IInv, NEW r \in sent, GrantLease(r),
           UNCHANGED <<journal, files, call, sent, sends, upsets>>
    PROVE  IInv'
<1> USE DEF IInv, journal, files
<1>0. /\ r.op \in LeaseIds /\ backend.granted[r.op] = 0 /\ r.number = backend.generation
      /\ r \in RequestType /\ backend \in BackendType /\ backend.generation \in Nat
      /\ backend' = [backend EXCEPT !.generation = @ + 1, !.revoked = FALSE,
                                    !.granted[r.op] = backend.generation + 1]
  BY DEF GrantLease, HasLease, TypeOK, BackendType
<1>1. /\ backend' \in BackendType /\ backend'.done = backend.done
      /\ backend'.generation = backend.generation + 1
      /\ backend'.granted[r.op] = backend.generation + 1
      /\ \A op \in LeaseIds : op # r.op => backend'.granted[op] = backend.granted[op]
  <2> HIDE DEF IInv
  <2>1. [backend.granted EXCEPT ![r.op] = backend.generation + 1] \in [LeaseIds -> Nat]
    BY <1>0 DEF BackendType
  <2>2. QED
    BY <1>0, <2>1 DEF BackendType
<1>2. /\ operations[r.op].intent = Expecting(r.number) /\ Left(r.op)
      /\ \/ ~Owned /\ r.op = InitialLease /\ r.number = 0
         \/ Moving /\ r.op = TakeoverOf(pending) /\ r.number = pending.expected
  BY <1>0 DEF Grants, HasLease, Dispatched
<1> USE <1>1, <1>2, Ids
<1>3. TypeOK' /\ EpochOfCall'
  BY DEF TypeOK, EpochOfCall, Owned
<1>4. Subject'
  BY DEF Subject, Owned, Moving
<1>5. LeaseInHand'
  BY <1>0 DEF LeaseInHand, Expected, Row, HasLease, Subject, Owned, Moving
<1>6. Grants'
  <2>1. ASSUME NEW op \in LeaseIds, backend'.granted[op] # 0
        PROVE  /\ backend'.granted[op] =< backend'.generation
               /\ Left(op) /\ operations[op].intent = Expecting(backend'.granted[op] - 1)
    <3>1. CASE op = r.op
      <4>1. backend'.granted[op] - 1 = r.number
        BY <1>0, <3>1
      <4>2. QED
        BY <1>0, <3>1, <4>1
    <3>2. CASE op # r.op
      <4>1. backend.granted[op] \in Nat
        BY <1>0 DEF BackendType
      <4>2. /\ backend.granted[op] =< backend.generation
            /\ Left(op) /\ operations[op].intent = Expecting(backend.granted[op] - 1)
        BY <2>1, <3>2 DEF Grants, HasLease
      <4>3. QED
        BY <1>0, <3>2, <4>1, <4>2
    <3>3. QED
      BY <3>1, <3>2
  <2>2. ASSUME NEW q \in sent, q.op \in LeaseIds
        PROVE  /\ operations[q.op].intent = Expecting(q.number)
               /\ \/ backend'.granted[q.op] # 0
                  \/ ~Owned /\ q.op = InitialLease /\ q.number = 0
                  \/ Moving /\ q.op = TakeoverOf(pending) /\ q.number = pending.expected
    <3> HIDE DEF IInv
    <3>1. Grants
      BY DEF IInv
    <3>2. QED
      BY <1>0, <2>2, <3>1 DEF Grants, HasLease
  <2>3. QED
    BY <2>1, <2>2 DEF Grants, HasLease, Left, Owned, Moving
<1>7. Generations'
  BY <1>0 DEF Generations, Owned, Moving, Subject
<1>8. SecretsAreKept' /\ CommandsLeaveOnce'
  BY <1>0 DEF SecretsAreKept, CommandsLeaveOnce
<1>9. Dispatched' /\ VerdictsAreTrue'
  BY DEF Dispatched, Left, VerdictsAreTrue, Executed
<1>10. RegisteredFirst'
  BY <1>0 DEF RegisteredFirst, Executed
<1>11. EffectsInOrder'
  <2> DEFINE S == {op \in LeaseIds : HasLease(op)}
             S2 == {op \in LeaseIds : backend'.granted[op] # 0}
  <2>1. IsFiniteSet(S) /\ r.op \notin S
    BY <1>0, LeaseIdsFinite, FS_Subset DEF HasLease
  <2>2. S2 = S \cup {r.op}
    BY <1>0 DEF HasLease
  <2>3. Cardinality(S2) = Cardinality(S) + 1
    BY <2>1, <2>2, FS_AddElement
  <2>4. backend'.generation = Cardinality(S2)
    BY <2>3 DEF EffectsInOrder
  <2>5. \A i \in DOMAIN backend'.done : backend'.done[i].generation =< backend'.generation
    <3>1. \A i \in DOMAIN backend.done :
              backend.done[i].generation \in Nat /\ backend.done[i].generation =< backend.generation
      BY <1>0, DoneTyped DEF EffectsInOrder
    <3>2. QED
      BY <1>0, <3>1
  <2>6. QED
    BY <2>4, <2>5 DEF EffectsInOrder, HasLease
<1>12. QED
  BY <1>3, <1>4, <1>5, <1>6, <1>7, <1>8, <1>9, <1>10, <1>11

(* The backend executes a registration or a command, under the generation  *)
(* that it was sent for.                                                   *)
LEMMA ExecuteStep ==
    ASSUME IInv, NEW r \in sent, Execute(r),
           UNCHANGED <<journal, files, call, sent, sends, upsets>>
    PROVE  IInv'
<1> USE DEF IInv, journal, files
<1>0. /\ r.op \notin LeaseIds /\ ~Executed(r.op)
      /\ r.op = Register \/ (r.number = backend.generation /\ ~backend.revoked)
      /\ r \in RequestType /\ r.op \in Operation /\ r.number \in Nat /\ r.why \in Why
      /\ backend \in BackendType /\ backend.generation \in Nat
      /\ r.op = Register => r.number = 0
  BY DEF Execute, TypeOK, BackendType, RequestType, Dispatched
<1> DEFINE effect == [op |-> r.op, generation |-> r.number]
<1>1. /\ backend' \in BackendType /\ backend'.done = Append(backend.done, effect)
      /\ backend'.generation = backend.generation /\ backend'.granted = backend.granted
  <2> HIDE DEF IInv
  <2>1. Append(backend.done, effect) \in Seq([op: Operation, generation: Nat])
    BY <1>0 DEF BackendType
  <2>2. (backend.revoked \/ r.why = "revoke") \in BOOLEAN
    OBVIOUS
  <2>3. QED
    BY <1>0, <2>1, <2>2 DEF BackendType, Execute
<1>2. /\ DOMAIN backend'.done = DOMAIN backend.done \cup {Len(backend.done) + 1}
      /\ backend'.done[Len(backend.done) + 1] = effect
      /\ \A i \in DOMAIN backend.done : backend'.done[i] = backend.done[i]
      /\ Len(backend.done) + 1 \notin DOMAIN backend.done
  <2> HIDE DEF IInv, effect
  <2>1. backend.done \in Seq([op: Operation, generation: Nat])
    BY <1>0 DEF BackendType
  <2>2. QED
    BY <1>1, <2>1
<1>3. \A op : Executed(op)' <=> Executed(op) \/ op = r.op
  <2> HIDE DEF IInv
  <2>1. SUFFICES ASSUME NEW op
                 PROVE  (\E i \in DOMAIN backend'.done : backend'.done[i].op = op)
                            <=> Executed(op) \/ op = r.op
    BY DEF Executed
  <2>2. QED
    BY <1>2 DEF Executed
<1> USE <1>1, Ids
<1> HIDE DEF effect
<1>4. TypeOK' /\ EpochOfCall'
  BY DEF TypeOK, EpochOfCall, Owned
<1>5. Subject' /\ LeaseInHand'
  BY DEF Subject, LeaseInHand, Owned, Moving, Expected, Row, HasLease
<1>6. (Grants /\ Generations /\ SecretsAreKept /\ CommandsLeaveOnce)'
  BY DEF Grants, Generations, HasLease, Owned, Moving, Left, SecretsAreKept, CommandsLeaveOnce
<1>7. Dispatched' /\ VerdictsAreTrue'
  BY <1>0, <1>3 DEF Dispatched, Left, VerdictsAreTrue
<1>8. RegisteredFirst'
  BY <1>0, <1>3 DEF RegisteredFirst
<1>9. EffectsInOrder'
  <2>1. effect.generation = r.number /\ r.number =< backend.generation
    BY <1>0 DEF effect
  <2>2. \A i \in DOMAIN backend'.done : backend'.done[i].generation =< backend'.generation
    BY <1>0, <1>2, <2>1 DEF EffectsInOrder
  <2>3. QED
    BY <2>2 DEF EffectsInOrder, HasLease
<1>10. QED
  BY <1>4, <1>5, <1>6, <1>7, <1>8, <1>9

LEMMA IInvStep == IInv /\ [Next]_vars => IInv'
<1> SUFFICES ASSUME IInv, [Next]_vars PROVE IInv'
  OBVIOUS
<1>1. ASSUME NEW o \in Owner, Start(o) PROVE IInv'
  BY <1>1, StartStep
<1>2. ASSUME NEW o \in Owner, Resume(o) PROVE IInv'
  BY <1>2, ResumeStep
<1>3. ASSUME NEW why \in {"command", "renew", "revoke"}, NEW op \in Command, Begin(why, op)
      PROVE  IInv'
  BY <1>3, BeginStep
<1>4. CASE CallNext
  <2>1. CASE PrepareEffect \/ Dispatch \/ Send \/ Answer \/ Refused \/ Classify \/ Record
    BY <2>1, PrepareEffectStep, DispatchStep, SendStep, AnswerStep, RefusedStep, ClassifyStep,
       RecordStep
  <2>2. CASE Extend \/ Disown \/ Release \/ ReleaseOld \/ Acquire \/ PrepareLease \/ Save
    BY <2>2, ExtendStep, ReleaseStep, AcquireStep, PrepareLeaseStep, SaveStep
  <2>3. CASE Confirm \/ WriteCredentials \/ Lifecycle \/ Unlink \/ Map \/ Adopt
    BY <2>3, ConfirmStep, WriteCredentialsStep, LifecycleStep, UnlinkStep, MapStep, AdoptStep
  <2>4. CASE Resumed \/ Raise
    BY <2>4, EndStep DEF Resumed, Raise, IInv, TypeOK, journal
  <2>5. QED
    BY <1>4, <2>1, <2>2, <2>3, <2>4 DEF CallNext
<1>5. CASE NoAnswer
  BY <1>5, NoAnswerStep
<1>6. CASE Die
  BY <1>6, EndStep DEF Die, Upset, IInv, TypeOK, journal
<1>7. CASE ClockMoves
  BY <1>7, ClockStep
<1>8. ASSUME NEW r \in sent, Arrive(r) PROVE IInv'
  BY <1>8, GrantLeaseStep, ExecuteStep DEF Arrive
<1>9. CASE UNCHANGED vars
  <2> USE <1>9 DEF IInv, vars, journal, files, remote
  <2>1. TypeOK'
    BY DEF TypeOK
  <2>2. (EpochOfCall /\ Subject /\ LeaseInHand)'
    BY DEF EpochOfCall, Owned, Subject, LeaseInHand, Moving, Expected, Row, HasLease
  <2>3. (Grants /\ Generations /\ SecretsAreKept /\ CommandsLeaveOnce)'
    BY DEF Grants, Generations, HasLease, Owned, Moving, Left, SecretsAreKept,
           CommandsLeaveOnce
  <2>4. (Dispatched /\ VerdictsAreTrue /\ RegisteredFirst /\ EffectsInOrder)'
    BY DEF Dispatched, Left, VerdictsAreTrue, Executed, RegisteredFirst, Owned,
           EffectsInOrder, HasLease
  <2>5. QED
    BY <2>1, <2>2, <2>3, <2>4
<1>10. QED
  BY <1>1, <1>2, <1>3, <1>4, <1>5, <1>6, <1>7, <1>8, <1>9 DEF Next

(* The invariant holds in every reachable state.                           *)
LEMMA Invariance == Spec => []IInv
<1>1. Init => IInv
  BY InitIInv
<1>2. IInv /\ [Next]_vars => IInv'
  BY IInvStep
<1>3. QED
  BY <1>1, <1>2, PTL DEF Spec

(* Wherever a takeover stops, the backend's lease and its secret can be    *)
(* found again, and no command is sent a second time (project.py _resume,  *)
(* _lease_effect, _effect).                                                *)
THEOREM Takeovers == Spec => []TakeoverIsSafe
<1>1. IInv => TakeoverIsSafe
  <2> SUFFICES ASSUME IInv PROVE TakeoverIsSafe
    OBVIOUS
  <2>1. AuthorityIsTraceable
    BY DEF IInv, AuthorityIsTraceable, EpochOfCall, Generations, Owned, Moving, TypeOK,
           BackendType, PendingType
  <2>2. SecretsAreKept /\ CommandsLeaveOnce
    BY DEF IInv
  <2>3. QED
    BY <2>1, <2>2 DEF TakeoverIsSafe, AuthorityIsKept
<1>2. QED
  BY <1>1, Invariance, PTL

----------------------------------------------------------------------------
(* The refinement: only Execute adds an abstract effect, only Record,      *)
(* Adopt and Classify give a verdict.                                      *)
Verdicts == [op \in Operation |-> VerdictOf(op)]

LEMMA MapsInit == Init => Abstract!Init
<1> SUFFICES ASSUME Init PROVE Abstract!Init
  OBVIOUS
<1>1. backend.done = <<>>
  BY DEF Init
<1>2. Verdicts = [op \in Operation |-> "open"]
  BY DEF Verdicts, VerdictOf, Init, NoOperation
<1>3. QED
  BY <1>1, <1>2 DEF Abstract!Init, Verdicts

LEMMA SameHappened == \A op : Abstract!Happened(op) <=> Executed(op)
BY DEF Abstract!Happened, Executed

(* A step that neither executes nor decides is a stutter.                  *)
LEMMA MapsStutter ==
    ASSUME backend'.done = backend.done,
           \A op \in Operation \ LeaseIds :
              \/ operations'[op].state = operations[op].state
              \/ {operations'[op].state, operations[op].state} \cap Settled = {}
    PROVE  UNCHANGED <<backend.done, Verdicts>>
<1>1. \A op \in Operation : VerdictOf(op)' = VerdictOf(op)
  BY DEF VerdictOf, Settled
<1>2. QED
  BY <1>1 DEF Verdicts

(* A transition of one row.                                                *)
LEMMA MapsMove ==
    ASSUME IInv, NEW op \in Operation,
           NEW s \in {"dispatched", "uncertain", "confirmed", "rejected"},
           operations[op].state \in Pending, UNCHANGED backend,
           operations' = [operations EXCEPT ![op] = Moved(@, s, None)],
           \/ op \in LeaseIds
           \/ (s = "confirmed" => Executed(op)) /\ (s = "rejected" => ~Executed(op))
    PROVE  [Abstract!Next]_<<backend.done, Verdicts>>
<1>1. /\ \A o \in Operation : o # op => operations'[o] = operations[o]
      /\ operations'[op].state = s
  BY RowMoves DEF IInv
<1>2. CASE op \in LeaseIds \/ s \in {"dispatched", "uncertain"}
  BY <1>1, <1>2, MapsStutter DEF Settled, Pending
<1>3. CASE op \notin LeaseIds /\ s = "confirmed"
  <2>1. /\ Verdicts[op] = "open" /\ Verdicts' = [Verdicts EXCEPT ![op] = "done"]
    BY <1>1, <1>3 DEF Verdicts, VerdictOf, Pending
  <2>2. Abstract!Affirm(op)
    BY <1>3, <2>1, SameHappened DEF Abstract!Affirm, Verdicts
  <2>3. QED
    BY <2>2 DEF Abstract!Next
<1>4. CASE op \notin LeaseIds /\ s = "rejected"
  <2>1. /\ Verdicts[op] = "open" /\ Verdicts' = [Verdicts EXCEPT ![op] = "refused"]
    BY <1>1, <1>4 DEF Verdicts, VerdictOf, Pending
  <2>2. Abstract!Refuse(op)
    BY <1>4, <2>1, SameHappened DEF Abstract!Refuse, Verdicts
  <2>3. QED
    BY <2>2 DEF Abstract!Next
<1>5. QED
  BY <1>2, <1>3, <1>4

(* An execution at the backend: not late, since its generation is the      *)
(* newest or it is the first, and not against a verdict.                   *)
LEMMA MapsExecute ==
    ASSUME IInv, NEW r \in sent, Execute(r), UNCHANGED operations
    PROVE  [Abstract!Next]_<<backend.done, Verdicts>>
<1>1. /\ r \in RequestType /\ r.op \in Operation /\ r.number \in Nat
      /\ r.op \notin LeaseIds /\ ~Executed(r.op)
      /\ backend \in BackendType /\ backend.generation \in Nat
  BY DEF IInv, TypeOK, RequestType, BackendType, Execute
<1>2. backend'.done = Append(backend.done, [op |-> r.op, generation |-> r.number])
  BY <1>1 DEF Execute, BackendType
<1>3. Verdicts' = Verdicts /\ Verdicts[r.op] = "open"
  BY <1>1 DEF Verdicts, VerdictOf, IInv, VerdictsAreTrue
<1>4. \A i \in DOMAIN backend.done : backend.done[i].generation =< r.number
  <2>1. CASE r.op = Register
    <3>1. backend.done = <<>>
      BY <1>1, <2>1 DEF IInv, RegisteredFirst
    <3>2. DOMAIN backend.done = {}
      BY <3>1
    <3>3. QED
      BY <3>2
  <2>2. CASE r.op # Register
    BY <2>2 DEF Execute, IInv, EffectsInOrder
  <2>3. QED
    BY <2>1, <2>2
<1>5. r.number \in 0 .. Cardinality(LeaseIds)
  <2> DEFINE S == {op \in LeaseIds : HasLease(op)}
  <2>1. IsFiniteSet(S) /\ Cardinality(S) =< Cardinality(LeaseIds)
    BY LeaseIdsFinite, FS_Subset
  <2>2. Cardinality(LeaseIds) \in Nat
    BY LeaseIdsFinite, FS_CardinalityType
  <2>3. r.number = 0 \/ r.number = Cardinality(S)
    BY <1>1 DEF Execute, IInv, EffectsInOrder, Dispatched
  <2>4. QED
    BY <1>1, <2>1, <2>2, <2>3
<1>6. Abstract!Perform(r.op, r.number)
  BY <1>1, <1>2, <1>3, <1>4, SameHappened DEF Abstract!Perform, Verdicts
<1>7. QED
  BY <1>1, <1>5, <1>6 DEF Abstract!Next

LEMMA MapsStep ==
    IInv /\ [Next]_vars => [Abstract!Next]_<<backend.done, Verdicts>>
<1> SUFFICES ASSUME IInv, [Next]_vars
             PROVE  [Abstract!Next]_<<backend.done, Verdicts>>
  OBVIOUS
<1>1. CASE UNCHANGED <<operations, backend>>
  BY <1>1, MapsStutter
<1>2. CASE PrepareEffect \/ PrepareLease
  <2>1. Prepares /\ call.owner \in Owner /\ UNCHANGED <<files, remote>>
    BY <1>2 DEF PrepareEffect, PrepareLease, IInv, EpochOfCall
  <2>2. \A op \in Operation :
           /\ Left(op)' <=> Left(op)
           /\ Left(op) => operations'[op] = operations[op]
    BY <2>1, PreparedKeeps
  <2>3. \A op \in Operation \ LeaseIds :
           \/ operations'[op].state = operations[op].state
           \/ {operations'[op].state, operations[op].state} \cap Settled = {}
    BY <2>2 DEF Left, Settled
  <2>4. QED
    BY <2>1, <2>3, MapsStutter DEF remote
<1>3. call.op \in Operation
  BY DEF IInv, TypeOK, CallType
<1>4. CASE Dispatch
  <2>1. CASE UNCHANGED operations
    BY <1>1, <1>4, <2>1 DEF Dispatch, remote
  <2>2. CASE MayMove(Row, "dispatched", call.owner, call.generation) /\ SetRow("dispatched")
    BY <1>3, <1>4, <2>2, MapsMove, MovesArePending DEF Dispatch, remote, Row, SetRow
  <2>3. QED
    BY <1>4, <2>1, <2>2 DEF Dispatch
<1>5. CASE Classify
  <2>1. CASE UNCHANGED operations
    BY <1>1, <1>5, <2>1 DEF Classify, remote
  <2>2. CASE /\ call.at = "unsure" /\ MayMove(Row, "uncertain", call.owner, call.generation)
             /\ SetRow("uncertain")
    BY <1>3, <1>5, <2>2, MapsMove, MovesArePending DEF Classify, remote, Row, SetRow
  <2>3. CASE /\ call.at = "refused" /\ MayMove(Row, "rejected", call.owner, call.generation)
             /\ SetRow("rejected")
    <3>1. ~Executed(call.op)
      BY <2>3 DEF IInv, VerdictsAreTrue
    <3>2. QED
      BY <1>3, <1>5, <2>3, <3>1, MapsMove, MovesArePending DEF Classify, remote, Row, SetRow
  <2>4. QED
    BY <1>5, <2>1, <2>2, <2>3 DEF Classify
<1>6. CASE Record
  <2>1. CASE UNCHANGED operations
    BY <1>1, <1>6, <2>1 DEF Record, remote
  <2>2. CASE /\ \/ MayMove(Row, "confirmed", call.owner, call.generation)
                \/ MayReconcile(Row, "confirmed")
             /\ SetRow("confirmed")
    <3>1. Executed(call.op)
      BY <1>6 DEF Record, IInv, VerdictsAreTrue
    <3>2. Row.state \in Pending
      BY <2>2, MovesArePending
    <3>3. QED
      BY <1>3, <1>6, <2>2, <3>1, <3>2, MapsMove DEF Record, remote, Row, SetRow
  <2>3. QED
    BY <1>6, <2>1, <2>2 DEF Record
<1>7. CASE Confirm
  <2>1. CASE UNCHANGED operations
    BY <1>1, <1>7, <2>1 DEF Confirm, remote
  <2>2. CASE MayReconcile(Row, "confirmed") /\ SetRow("confirmed")
    <3>1. call.op \in LeaseIds
      BY <1>7 DEF Confirm, IInv, Subject
    <3>2. Row.state \in Pending
      BY <2>2, MovesArePending
    <3>3. QED
      BY <1>3, <1>7, <2>2, <3>1, <3>2, MapsMove DEF Confirm, remote, Row, SetRow
  <2>3. QED
    BY <1>7, <2>1, <2>2 DEF Confirm
<1>8. CASE Adopt
  <2>1. PICK op \in Command :
          /\ MayReconcile(operations[op], "confirmed") /\ Executed(op)
          /\ operations' = [operations EXCEPT ![op] = Moved(@, "confirmed", None)]
    BY <1>8 DEF Adopt
  <2>2. op \in Operation /\ operations[op].state \in Pending /\ UNCHANGED backend
    BY <1>8, <2>1, Ids, MovesArePending DEF Adopt, remote
  <2>3. QED
    BY <2>1, <2>2, MapsMove
<1>9. ASSUME NEW r \in sent, Arrive(r)
      PROVE  [Abstract!Next]_<<backend.done, Verdicts>>
  <2>1. CASE GrantLease(r)
    <3>1. UNCHANGED operations /\ backend'.done = backend.done
      BY <1>9, <2>1 DEF Arrive, GrantLease, journal, IInv, TypeOK, BackendType
    <3>2. QED
      BY <3>1, MapsStutter
  <2>2. CASE Execute(r)
    BY <1>9, <2>2, MapsExecute DEF Arrive, journal
  <2>3. QED
    BY <1>9, <2>1, <2>2 DEF Arrive
<1>10. CASE CallNext
  <2>1. CASE Send \/ Answer \/ Refused \/ Extend \/ Disown \/ Release \/ ReleaseOld \/ Acquire
             \/ Save
    BY <1>1, <2>1 DEF Send, Answer, Refused, Extend, Disown, Release, ReleaseOld, Acquire,
                      Save, journal, remote
  <2>2. CASE WriteCredentials \/ Lifecycle \/ Unlink \/ Map \/ Resumed \/ Raise
    BY <1>1, <2>2 DEF WriteCredentials, Lifecycle, Unlink, Map, Resumed, Raise, journal, remote
  <2>3. QED
    BY <1>2, <1>4, <1>5, <1>6, <1>7, <1>8, <1>10, <2>1, <2>2 DEF CallNext
<1>11. CASE NoAnswer \/ Die \/ ClockMoves \/ UNCHANGED vars
  BY <1>1, <1>11 DEF NoAnswer, Die, ClockMoves, vars, journal, remote
<1>12. ASSUME NEW o \in Owner, Start(o) \/ Resume(o)
       PROVE  [Abstract!Next]_<<backend.done, Verdicts>>
  BY <1>1, <1>12 DEF Start, Resume, journal, remote
<1>13. ASSUME NEW why \in {"command", "renew", "revoke"}, NEW op \in Command, Begin(why, op)
       PROVE  [Abstract!Next]_<<backend.done, Verdicts>>
  BY <1>1, <1>13 DEF Begin, remote
<1>14. QED
  BY <1>9, <1>10, <1>11, <1>12, <1>13 DEF Next

(* What the journal says of a command is what the backend did, whoever     *)
(* asked and whoever took over: confirmed after it was executed, rejected  *)
(* only if it never will be, executed once, and in the order of the        *)
(* backend's generations (project.py _effect, _resume).                    *)
THEOREM Refinement == Spec => CommandsAreEffects
<1>1. QED
  BY MapsInit, MapsStep, Invariance, PTL
  DEF Spec, CommandsAreEffects, Abstract!Spec, Verdicts

=============================================================================
