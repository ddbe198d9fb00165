------------------------ MODULE EnsureWorkspaceProofs -----------------------
(***************************************************************************)
(* Theorems about FencedReceiver and, further down, about EnsureWorkspace, *)
(* which composes it with the coordinator: for every set of coordinators,  *)
(* intents, operations and receiver threads and every bound.               *)
(*                                                                         *)
(* Of the receiver: the fence holds off a takeover, the evidence is true,  *)
(* and it implements EffectOnce.  Of both: one create request, one real    *)
(* workspace, and a journal that says of the effect what happened to it.   *)
(* The receiver's invariant is used again: seen from the receiver, the     *)
(* coordinator is one of the senders it allows for.                        *)
(***************************************************************************)
EXTENDS EnsureWorkspace, TLAPS

\* What a thread works on is its alone: the row of its operation is the
\* uncertain intent that this thread committed.
IntentIsRecorded ==
    \A w \in Worker : pc[w] # "idle" =>
        /\ request[w].call \in Request
        /\ received[request[w].call.op] =
              [state |-> "uncertain", request |-> request[w].call, receipt |-> "none"]

OneThreadEach ==
    \A v, w \in Worker :
        pc[v] # "idle" /\ pc[w] # "idle" /\ request[v].call.op = request[w].call.op
            => v = w

\* What a thread knows of its effect is so.
AnswerIsTrue ==
    \A w \in Worker :
        /\ pc[w] \in {"admitted", "executing"} => ~Happened(request[w].call.op)
        /\ pc[w] \in {"returned", "bound"} =>
              /\ request[w].answer \in Status
              /\ request[w].answer = "created" => Happened(request[w].call.op)
              /\ request[w].answer = "refused" => ~Happened(request[w].call.op)
        /\ pc[w] = "bound" /\ request[w].answer = "created"
              => request[w].call.op \in bound

AbsentIsEmpty == \A op \in Operation : received[op].state = "absent" => received[op] = NoRow

EpochsIssued ==
    /\ \A i \in DOMAIN performed : performed[i].generation =< lease.generation
    /\ lease.generation =< MaxGeneration

IInv ==
    /\ TypeOK
    /\ FenceHoldsOffTakeover
    /\ EvidenceIsTrue
    /\ IntentIsRecorded
    /\ OneThreadEach
    /\ AnswerIsTrue
    /\ AbsentIsEmpty
    /\ EpochsIssued

----------------------------------------------------------------------------
LEMMA RequestOfOperation ==
    ASSUME NEW r \in Request
    PROVE  r.op \in Operation /\ r.op # None /\ r.generation \in Nat /\ r # NoRequest
  BY NoneAssumption DEF Request, NoRequest

(* An effect that is appended is the only one that is new.                 *)
LEMMA AppendedEffect ==
    ASSUME NEW s \in Seq(Request), NEW c \in Request
    PROVE  /\ Append(s, c) \in Seq(Request)
           /\ DOMAIN Append(s, c) = DOMAIN s \cup {Len(s) + 1}
           /\ \A i \in DOMAIN s : Append(s, c)[i] = s[i]
           /\ Append(s, c)[Len(s) + 1] = c
           /\ Len(s) + 1 \notin DOMAIN s
  OBVIOUS

----------------------------------------------------------------------------
(* What IntentIsRecorded says of one thread.                               *)
LEMMA ThreadsIntent ==
    ASSUME IInv, NEW w \in Worker, pc[w] # "idle"
    PROVE  LET c == request[w].call IN
           /\ c \in Request /\ c.op \in Operation
           /\ received[c.op].state = "uncertain"
           /\ received[c.op].request = c
           /\ received[c.op].receipt = "none"
<1> DEFINE c == request[w].call
<1>1. /\ c \in Request
      /\ received[c.op] = [state |-> "uncertain", request |-> c, receipt |-> "none"]
  BY DEF IInv, IntentIsRecorded
<1>2. QED
  BY <1>1, RequestOfOperation

LEMMA IInvInit == Init => IInv
<1> SUFFICES ASSUME Init PROVE IInv
  OBVIOUS
<1>1. TypeOK
  BY BoundsAssumption DEF Init, TypeOK, NoLease, LeaseRow, ReceiverRow, NoRow, Stage
<1>2. DOMAIN performed = {}
  BY DEF Init
<1>3. EvidenceIsTrue
  BY <1>2 DEF Init, EvidenceIsTrue, NoRow
<1>4. QED
  BY <1>1, <1>2, <1>3, BoundsAssumption
  DEF Init, IInv, FenceHoldsOffTakeover, IntentIsRecorded, OneThreadEach, AnswerIsTrue,
      AbsentIsEmpty, EpochsIssued, Fenced, NoRow, NoLease

----------------------------------------------------------------------------
(* Steps on the coordinators' side change clock and lease only.            *)
LEMMA StoreStep ==
    ASSUME IInv, UNCHANGED <<writer, received, pc, request, bound, performed>>,
           clock' \in 0 .. MaxTime, lease' \in LeaseRow,
           lease'.generation >= lease.generation, lease'.generation =< MaxGeneration,
           writer = None \/ lease' = lease
    PROVE  IInv'
<1>1. TypeOK'
  BY DEF IInv, TypeOK
<1>2. FenceHoldsOffTakeover'
  BY WorkerAssumption DEF IInv, FenceHoldsOffTakeover
<1>3. EvidenceIsTrue'
  BY DEF IInv, EvidenceIsTrue, Happened
<1>4. (IntentIsRecorded /\ OneThreadEach /\ AnswerIsTrue /\ AbsentIsEmpty)'
  BY DEF IInv, IntentIsRecorded, OneThreadEach, AnswerIsTrue, AbsentIsEmpty, Happened
<1>5. EpochsIssued'
  <2>1. \A i \in DOMAIN performed : performed[i].generation \in Nat
    BY RequestOfOperation DEF IInv, TypeOK
  <2> QED
    BY <2>1 DEF IInv, TypeOK, EpochsIssued, LeaseRow
<1>6. QED
  BY <1>1, <1>2, <1>3, <1>4, <1>5 DEF IInv

(* A thread that ends without a commit leaves its row uncertain.           *)
LEMMA ThreadsEnd ==
    ASSUME IInv, UNCHANGED <<clock, lease, received, bound, performed>>,
           NEW S \in SUBSET Worker,
           pc' = [w \in Worker |-> IF w \in S THEN "idle" ELSE pc[w]],
           request' = [w \in Worker |-> IF w \in S
                          THEN [call |-> NoRequest, answer |-> "none"] ELSE request[w]],
           writer' = None \/ writer' = writer,
           \A w \in Worker \ S : pc[w] \in Fenced => writer' = writer
    PROVE  IInv'
<1>1. TypeOK'
  BY DEF IInv, TypeOK, Stage
<1>2. FenceHoldsOffTakeover'
  BY DEF IInv, FenceHoldsOffTakeover, Fenced
<1>3. (EvidenceIsTrue /\ AbsentIsEmpty /\ EpochsIssued)'
  BY DEF IInv, EvidenceIsTrue, AbsentIsEmpty, EpochsIssued, Happened
<1>4. (IntentIsRecorded /\ OneThreadEach /\ AnswerIsTrue)'
  BY DEF IInv, IntentIsRecorded, OneThreadEach, AnswerIsTrue, Happened
<1>5. QED
  BY <1>1, <1>2, <1>3, <1>4 DEF IInv

----------------------------------------------------------------------------
LEMMA AdmitStep ==
    ASSUME IInv, NEW w \in Worker, NEW r \in Request, Admit(w, r)
    PROVE  IInv'
<1> USE DEF Admit
<1>1. TypeOK'
  BY DEF IInv, TypeOK, Stage, ReceiverRow
<1>2. ~Happened(r.op)
  BY RequestOfOperation
  DEF IInv, TypeOK, EvidenceIsTrue, AbsentIsEmpty, NoRow, NoRequest, Happened
<1>3. FenceHoldsOffTakeover'
  BY DEF IInv, TypeOK, FenceHoldsOffTakeover, Fenced
<1>4. EvidenceIsTrue'
  <2>1. \A i \in DOMAIN performed : performed[i].op # r.op
    BY <1>2 DEF Happened
  <2>2. \A op \in Operation \ {r.op} : received'[op] = received[op]
    BY DEF IInv, TypeOK
  <2>3. received'[r.op].receipt = "none"
    BY DEF IInv, TypeOK, Request
  <2>4. \A i \in DOMAIN performed : performed[i].op \in Operation
    BY RequestOfOperation DEF IInv, TypeOK
  <2>5. QED
    BY <2>1, <2>2, <2>3, <2>4 DEF IInv, EvidenceIsTrue, Happened
<1>5. \A v \in Worker : pc[v] # "idle" => request[v].call.op # r.op
  BY ThreadsIntent
<1>6. IntentIsRecorded'
  BY <1>5, RequestOfOperation DEF IInv, TypeOK, IntentIsRecorded
<1>7. OneThreadEach'
  BY <1>5 DEF IInv, TypeOK, OneThreadEach
<1>8. AnswerIsTrue'
  BY <1>2 DEF IInv, TypeOK, AnswerIsTrue, Happened
<1>9. (AbsentIsEmpty /\ EpochsIssued)'
  BY DEF IInv, TypeOK, AbsentIsEmpty, EpochsIssued
<1>10. QED
  BY <1>1, <1>3, <1>4, <1>6, <1>7, <1>8, <1>9 DEF IInv

LEMMA TakeFenceStep ==
    ASSUME IInv, NEW w \in Worker, TakeFence(w)
    PROVE  IInv'
<1> USE DEF TakeFence
<1>1. TypeOK'
  BY DEF IInv, TypeOK, Stage
<1>2. FenceHoldsOffTakeover'
  BY WorkerAssumption DEF IInv, TypeOK, FenceHoldsOffTakeover, Fenced, Holds, Active
<1>3. (EvidenceIsTrue /\ AbsentIsEmpty /\ EpochsIssued)'
  BY DEF IInv, EvidenceIsTrue, AbsentIsEmpty, EpochsIssued, Happened
<1>4. (IntentIsRecorded /\ OneThreadEach /\ AnswerIsTrue)'
  BY DEF IInv, TypeOK, IntentIsRecorded, OneThreadEach, AnswerIsTrue, Happened
<1>5. QED
  BY <1>1, <1>2, <1>3, <1>4 DEF IInv

LEMMA PerformStep ==
    ASSUME IInv, NEW w \in Worker, Perform(w)
    PROVE  IInv'
<1> USE DEF Perform
<1>1. PICK status \in Status, done \in BOOLEAN :
         /\ status = "created" => done
         /\ status = "refused" => ~done
         /\ performed' = IF done THEN Append(performed, request[w].call) ELSE performed
         /\ request' = [request EXCEPT ![w].answer = status]
  OBVIOUS
<1> DEFINE c == request[w].call
<1>2. /\ c \in Request
      /\ received[c.op].request = c /\ received[c.op].receipt = "none"
      /\ ~Happened(c.op)
  <2>1. pc[w] # "idle" /\ ~Happened(c.op)
    BY DEF IInv, AnswerIsTrue
  <2>2. QED
    BY <2>1, ThreadsIntent
<1>3. performed \in Seq(Request)
  BY DEF IInv, TypeOK
<1>4. \A op : Happened(op)' <=> Happened(op) \/ (done /\ op = c.op)
  BY <1>1, <1>2, <1>3, AppendedEffect DEF Happened
<1>5. \A v \in Worker : /\ request'[v].call = request[v].call
                        /\ v # w => request'[v] = request[v] /\ pc'[v] = pc[v]
  BY <1>1 DEF IInv, TypeOK
<1>6. request'[w].answer = status /\ pc'[w] = "returned"
  BY <1>1 DEF IInv, TypeOK
<1>7. TypeOK'
  <2>1. performed' \in Seq(Request)
    BY <1>1, <1>2, <1>3
  <2>2. QED
    BY <1>1, <2>1 DEF IInv, TypeOK, Stage
<1>8. FenceHoldsOffTakeover'
  BY <1>5 DEF IInv, FenceHoldsOffTakeover, Fenced
<1>9. EvidenceIsTrue'
  <2>1. \A i \in DOMAIN performed' : performed'[i] = c \/ \E j \in DOMAIN performed : performed'[i] = performed[j]
    BY <1>1, <1>2, <1>3, AppendedEffect
  <2>2. QED
    BY <1>2, <1>4, <2>1 DEF IInv, EvidenceIsTrue
<1>10. IntentIsRecorded'
  BY <1>5 DEF IInv, IntentIsRecorded
<1>11. OneThreadEach'
  BY <1>5 DEF IInv, OneThreadEach
<1>12. AnswerIsTrue'
  <2>1. \A v \in Worker : v # w /\ pc[v] # "idle" => request[v].call.op # c.op
    BY DEF IInv, OneThreadEach
  <2>2. \A v \in Worker : v # w /\ pc[v] # "idle" =>
            (Happened(request[v].call.op)' <=> Happened(request[v].call.op))
    BY <1>4, <1>5, <2>1
  <2>3. QED
    BY <1>1, <1>2, <1>4, <1>5, <1>6, <2>2 DEF IInv, AnswerIsTrue
<1>13. AbsentIsEmpty'
  BY DEF IInv, AbsentIsEmpty
<1>14. EpochsIssued'
  <2>1. c.generation = lease.generation /\ lease.generation \in Nat
    BY DEF IInv, TypeOK, LeaseRow, FenceHoldsOffTakeover, Fenced
  <2>2. \A i \in DOMAIN performed' : performed'[i].generation =< lease.generation
    BY <1>1, <1>2, <1>3, <2>1, AppendedEffect DEF IInv, EpochsIssued
  <2>3. QED
    BY <2>2 DEF IInv, EpochsIssued
<1>15. QED
  BY <1>7, <1>8, <1>9, <1>10, <1>11, <1>12, <1>13, <1>14 DEF IInv

LEMMA BindStep ==
    ASSUME IInv, NEW w \in Worker, Bind(w)
    PROVE  IInv'
<1> USE DEF Bind
<1>1. request[w].call \in Request /\ pc'[w] = "bound"
  BY DEF IInv, TypeOK, IntentIsRecorded
<1>2. TypeOK'
  BY <1>1, RequestOfOperation DEF IInv, TypeOK, Stage
<1>3. FenceHoldsOffTakeover'
  BY DEF IInv, TypeOK, FenceHoldsOffTakeover, Fenced
<1>4. EvidenceIsTrue'
  BY DEF IInv, EvidenceIsTrue, AnswerIsTrue, Happened
<1>5. (IntentIsRecorded /\ OneThreadEach /\ AbsentIsEmpty /\ EpochsIssued)'
  BY DEF IInv, TypeOK, IntentIsRecorded, OneThreadEach, AbsentIsEmpty, EpochsIssued
<1>6. AnswerIsTrue'
  BY DEF IInv, TypeOK, AnswerIsTrue, Happened
<1>7. QED
  BY <1>2, <1>3, <1>4, <1>5, <1>6 DEF IInv

LEMMA CommitStep ==
    ASSUME IInv, NEW w \in Worker, Commit(w)
    PROVE  IInv'
<1> DEFINE c == request[w].call
<1> USE DEF Commit, Idle
<1>1. /\ c \in Request /\ c.op \in Operation
      /\ received[c.op].request = c /\ received[c.op].receipt = "none"
      /\ request[w].answer \in Status
  <2>1. pc[w] # "idle" /\ request[w].answer \in Status
    BY DEF IInv, AnswerIsTrue
  <2>2. QED
    BY <2>1, ThreadsIntent
<1>2. /\ received' \in [Operation -> ReceiverRow]
      /\ received'[c.op].state = "confirmed"
      /\ received'[c.op].request = c
      /\ received'[c.op].receipt = request[w].answer
      /\ \A op \in Operation \ {c.op} : received'[op] = received[op]
  BY <1>1 DEF IInv, TypeOK, ReceiverRow
<1>3. \A v \in Worker : pc'[v] # "idle" =>
          v # w /\ pc'[v] = pc[v] /\ request'[v] = request[v]
  BY DEF IInv, TypeOK
<1>4. TypeOK'
  BY <1>2 DEF IInv, TypeOK, Stage
<1>5. FenceHoldsOffTakeover'
  BY <1>3 DEF IInv, FenceHoldsOffTakeover, Fenced
<1>6. EvidenceIsTrue'
  <2>1. \A i \in DOMAIN performed : performed[i].op \in Operation
    BY RequestOfOperation DEF IInv, TypeOK
  <2>2. /\ received'[c.op].receipt = "created" => Happened(c.op) /\ c.op \in bound
        /\ received'[c.op].receipt = "refused" => ~Happened(c.op)
    BY <1>2 DEF IInv, AnswerIsTrue
  <2>3. \A op \in Operation : received'[op].request = received[op].request
    BY <1>1, <1>2
  <2>4. \A i \in DOMAIN performed : received'[performed[i].op].request = performed[i]
    BY <2>1, <2>3 DEF IInv, EvidenceIsTrue
  <2>5. \A op \in Operation :
            /\ received'[op].receipt = "created" => Happened(op) /\ op \in bound
            /\ received'[op].receipt = "refused" => ~Happened(op)
    BY <1>2, <2>2 DEF IInv, EvidenceIsTrue
  <2>6. QED
    BY <2>4, <2>5 DEF IInv, EvidenceIsTrue, Happened
<1>7. IntentIsRecorded'
  <2> SUFFICES ASSUME NEW v \in Worker, pc'[v] # "idle"
               PROVE  /\ request'[v].call \in Request
                      /\ received'[request'[v].call.op] =
                            [state |-> "uncertain", request |-> request'[v].call,
                             receipt |-> "none"]
    BY DEF IntentIsRecorded
  <2>1. v # w /\ pc[v] # "idle" /\ pc[w] # "idle" /\ request'[v] = request[v]
    BY <1>3
  <2>2. request[v].call.op # c.op
    BY <2>1 DEF IInv, OneThreadEach
  <2>3. received'[request[v].call.op] = received[request[v].call.op]
    BY <1>2, <2>1, <2>2, ThreadsIntent
  <2>4. QED
    BY <2>1, <2>3 DEF IInv, IntentIsRecorded
<1>8. OneThreadEach'
  BY <1>3 DEF IInv, OneThreadEach
<1>9. AnswerIsTrue'
  BY <1>3 DEF IInv, AnswerIsTrue, Happened
<1>10. (AbsentIsEmpty /\ EpochsIssued)'
  BY <1>2 DEF IInv, AbsentIsEmpty, EpochsIssued
<1>11. QED
  BY <1>4, <1>5, <1>6, <1>7, <1>8, <1>9, <1>10 DEF IInv

LEMMA IInvStep == IInv /\ [Next]_vars => IInv'
<1> SUFFICES ASSUME IInv, [Next]_vars PROVE IInv'
  OBVIOUS
<1>1. lease \in LeaseRow /\ lease.generation \in Nat /\ clock \in Nat
  BY DEF IInv, TypeOK, LeaseRow
<1>2. CASE ClockMoves
  BY <1>1, <1>2, StoreStep DEF ClockMoves, IInv, EpochsIssued
<1>3. CASE Crash
  <2>1. /\ pc' = [w \in Worker |-> IF w \in Worker THEN "idle" ELSE pc[w]]
        /\ request' = [w \in Worker |-> IF w \in Worker
                          THEN [call |-> NoRequest, answer |-> "none"] ELSE request[w]]
    BY <1>3 DEF Crash
  <2>2. QED
    BY <1>3, <2>1, ThreadsEnd DEF Crash
<1>4. ASSUME NEW o \in Owner, AcquireLease(o) PROVE IInv'
  <2>1. /\ lease' \in LeaseRow /\ lease'.generation = lease.generation + 1
        /\ lease'.generation =< MaxGeneration
    BY <1>1, <1>4, TTLAssumption, BoundsAssumption DEF AcquireLease, Granted, LeaseRow
  <2>2. QED
    BY <1>1, <1>4, <2>1, StoreStep DEF AcquireLease, IInv, TypeOK
<1>5. ASSUME NEW o \in Owner, NEW g \in 1 .. lease.generation,
             RenewLease(o, g) \/ ReleaseLease(o, g)
      PROVE  IInv'
  <2>1. lease' \in LeaseRow /\ lease'.generation = lease.generation
    <3>1. CASE RenewLease(o, g)
      BY <1>1, <3>1, TTLAssumption DEF RenewLease, LeaseRow
    <3>2. CASE ReleaseLease(o, g)
      BY <1>1, <3>2 DEF ReleaseLease, LeaseRow
    <3>3. QED
      BY <1>5, <3>1, <3>2
  <2>2. QED
    BY <1>1, <1>5, <2>1, StoreStep DEF RenewLease, ReleaseLease, IInv, TypeOK, EpochsIssued
<1>6. ASSUME NEW w \in Worker, WorkerNext(w) PROVE IInv'
  <2>1. ASSUME NEW r \in Arriving, Admit(w, r) PROVE IInv'
    <3>1. r \in Request
      BY <1>1, <2>1 DEF Arriving, Request
    <3>2. QED
      BY <2>1, <3>1, AdmitStep
  <2>2. CASE Fence(w) \/ RollBack(w)
    <3>1. /\ pc' = [v \in Worker |-> IF v \in {w} THEN "idle" ELSE pc[v]]
          /\ request' = [v \in Worker |-> IF v \in {w}
                            THEN [call |-> NoRequest, answer |-> "none"] ELSE request[v]]
      BY <2>2 DEF Fence, RollBack, Idle, IInv, TypeOK
    <3>2. \A v \in Worker \ {w} : pc[v] \in Fenced => writer' = writer
      BY <2>2 DEF Fence, RollBack, IInv, FenceHoldsOffTakeover
    <3>3. QED
      BY <2>2, <3>1, <3>2, ThreadsEnd DEF Fence, RollBack
  <2>3. QED
    BY <1>6, <2>1, <2>2, TakeFenceStep, PerformStep, BindStep, CommitStep DEF WorkerNext
<1>7. CASE UNCHANGED vars
  BY <1>1, <1>7, StoreStep DEF vars, IInv, TypeOK, EpochsIssued
<1>8. QED
  BY <1>2, <1>3, <1>4, <1>5, <1>6, <1>7 DEF Next

(* The inductive invariant holds in every reachable state.                 *)
THEOREM Invariance == Spec => []IInv
<1>1. QED
  BY IInvInit, IInvStep, PTL DEF Spec

(* While a handler runs, the epoch it runs for is the project's epoch,     *)
(* however many coordinators ask for the lease meanwhile: execute keeps    *)
(* the journal's write lock around the effect.                             *)
THEOREM Fencing == Spec => []FenceHoldsOffTakeover
<1>1. IInv => FenceHoldsOffTakeover
  BY DEF IInv
<1>2. QED
  BY <1>1, Invariance, PTL

(* What the receiver's table and the binding files say about effects is    *)
(* true, whatever crashed or was rolled back between the effect, the file  *)
(* and the commit.                                                         *)
THEOREM Evidence == Spec => []EvidenceIsTrue
<1>1. IInv => EvidenceIsTrue
  BY DEF IInv
<1>2. QED
  BY <1>1, Invariance, PTL

----------------------------------------------------------------------------
(* The refinement: only Perform changes the abstract effects, only Commit  *)
(* the verdicts.                                                           *)
Effect(r) == [op |-> r.op, generation |-> r.generation]

LEMMA EffectsOfAppend ==
    ASSUME NEW s \in Seq(Request), NEW c \in Request
    PROVE  Effects(Append(s, c)) = Append(Effects(s), Effect(c))
<1>1. Effects(s) \in Seq({Effect(r) : r \in Request}) /\ Len(Effects(s)) = Len(s)
  BY DEF Effects, Effect
<1>2. Append(Effects(s), Effect(c)) \in Seq({Effect(r) : r \in Request})
  BY <1>1
<1>3. Effects(Append(s, c)) \in Seq({Effect(r) : r \in Request})
  BY DEF Effects, Effect
<1>4. Len(Effects(Append(s, c))) = Len(Append(Effects(s), Effect(c)))
  BY <1>1 DEF Effects
<1>5. \A i \in 1 .. Len(s) + 1 :
          Effects(Append(s, c))[i] = Append(Effects(s), Effect(c))[i]
  BY <1>1 DEF Effects, Effect
<1>6. QED
  BY <1>1, <1>2, <1>3, <1>4, <1>5

LEMMA MapsInit == Init => Abstract!Init
<1>1. ASSUME Init PROVE Effects(performed) = <<>>
  BY <1>1 DEF Init, Effects
<1>2. ASSUME Init PROVE Verdicts(received) = [op \in Operation |-> "open"]
  BY <1>2 DEF Init, Verdicts, NoRow
<1>3. QED
  BY <1>1, <1>2 DEF Abstract!Init

LEMMA SameHappened ==
    ASSUME NEW op
    PROVE  Abstract!Happened(op) <=> Happened(op)
<1>1. DOMAIN Effects(performed) = DOMAIN performed
  BY DEF Effects
<1>2. \A i \in DOMAIN performed : Effects(performed)[i].op = performed[i].op
  BY DEF Effects
<1>3. QED
  BY <1>1, <1>2 DEF Abstract!Happened, Happened

(* Happened needs a new effect, a verdict a new receipt: every other step  *)
(* is a stutter.                                                           *)
LEMMA MapsStutter ==
    ASSUME UNCHANGED performed,
           \A op \in Operation : received'[op].receipt = received[op].receipt
    PROVE  UNCHANGED <<Effects(performed), Verdicts(received)>>
<1>1. Verdicts(received)' = Verdicts(received)
  BY DEF Verdicts
<1>2. QED
  BY <1>1 DEF Effects

LEMMA MapsPerform ==
    ASSUME IInv, NEW w \in Worker, Perform(w)
    PROVE  [Abstract!Next]_<<Effects(performed), Verdicts(received)>>
<1> DEFINE c == request[w].call
<1>1. /\ c \in Request /\ c.op \in Operation /\ received[c.op].receipt = "none"
      /\ ~Happened(c.op)
  <2>1. pc[w] # "idle" /\ ~Happened(c.op)
    BY DEF IInv, AnswerIsTrue, Perform
  <2>2. QED
    BY <2>1, ThreadsIntent
<1>2. Verdicts(received)' = Verdicts(received) /\ Verdicts(received)[c.op] = "open"
  BY <1>1 DEF Perform, Verdicts
<1>3. CASE performed' = performed
  BY <1>2, <1>3 DEF Effects
<1>4. CASE performed' = Append(performed, c)
  <2>1. Effects(performed)' = Append(Effects(performed), Effect(c))
    BY <1>1, <1>4, EffectsOfAppend DEF IInv, TypeOK
  <2>2. c.generation = lease.generation /\ c.generation \in 1 .. MaxGeneration
    BY <1>1, BoundsAssumption
    DEF Perform, IInv, TypeOK, LeaseRow, FenceHoldsOffTakeover, Fenced, EpochsIssued, Request
  <2>3. \A i \in DOMAIN Effects(performed) :
            Effects(performed)[i].generation =< c.generation
    BY <2>2 DEF Effects, IInv, EpochsIssued
  <2>4. Abstract!Perform(c.op, c.generation)
    BY <1>1, <1>2, <2>1, <2>3, SameHappened DEF Abstract!Perform, Effect
  <2>5. QED
    BY <1>1, <2>2, <2>4 DEF Abstract!Next
<1>5. QED
  BY <1>3, <1>4 DEF Perform

LEMMA MapsCommit ==
    ASSUME IInv, NEW w \in Worker, Commit(w)
    PROVE  [Abstract!Next]_<<Effects(performed), Verdicts(received)>>
<1> DEFINE c == request[w].call
           answer == request[w].answer
<1>1. /\ c \in Request /\ c.op \in Operation /\ received[c.op].receipt = "none"
      /\ answer \in Status
      /\ answer = "created" => Happened(c.op)
      /\ answer = "refused" => ~Happened(c.op)
  <2>1. /\ pc[w] # "idle" /\ answer \in Status
        /\ answer = "created" => Happened(c.op)
        /\ answer = "refused" => ~Happened(c.op)
    BY DEF IInv, AnswerIsTrue, Commit
  <2>2. QED
    BY <2>1, ThreadsIntent
<1>2. Effects(performed)' = Effects(performed)
  BY DEF Commit, Effects
<1>3. /\ received'[c.op].receipt = answer
      /\ \A op \in Operation \ {c.op} : received'[op] = received[op]
  BY <1>1 DEF Commit, IInv, TypeOK, ReceiverRow
<1>4. Verdicts(received)[c.op] = "open"
  BY <1>1 DEF Verdicts
<1>5. CASE answer = "created"
  <2>1. Verdicts(received)' = [Verdicts(received) EXCEPT ![c.op] = "done"]
    BY <1>1, <1>3, <1>5 DEF Verdicts
  <2>2. Abstract!Affirm(c.op)
    BY <1>1, <1>2, <1>4, <1>5, <2>1, SameHappened DEF Abstract!Affirm
  <2>3. QED
    BY <1>1, <2>2 DEF Abstract!Next
<1>6. CASE answer = "refused"
  <2>1. Verdicts(received)' = [Verdicts(received) EXCEPT ![c.op] = "refused"]
    BY <1>1, <1>3, <1>6 DEF Verdicts
  <2>2. Abstract!Refuse(c.op)
    BY <1>1, <1>2, <1>4, <1>6, <2>1, SameHappened DEF Abstract!Refuse
  <2>3. QED
    BY <1>1, <2>2 DEF Abstract!Next
<1>7. CASE answer = "failed"
  <2>1. Verdicts(received)' = Verdicts(received)
    BY <1>1, <1>3, <1>7 DEF Verdicts
  <2>2. QED
    BY <1>2, <2>1
<1>8. QED
  BY <1>1, <1>5, <1>6, <1>7 DEF Status

LEMMA MapsStep ==
    IInv /\ [Next]_vars => [Abstract!Next]_<<Effects(performed), Verdicts(received)>>
<1> SUFFICES ASSUME IInv, [Next]_vars
             PROVE  [Abstract!Next]_<<Effects(performed), Verdicts(received)>>
  OBVIOUS
<1>1. ASSUME NEW w \in Worker, WorkerNext(w)
      PROVE  [Abstract!Next]_<<Effects(performed), Verdicts(received)>>
  <2>1. ASSUME NEW r \in Arriving, Admit(w, r)
        PROVE  [Abstract!Next]_<<Effects(performed), Verdicts(received)>>
    <3>1. \A op \in Operation : received'[op].receipt = received[op].receipt
      BY <2>1 DEF Admit, IInv, TypeOK, AbsentIsEmpty, NoRow
    <3>2. QED
      BY <2>1, <3>1, MapsStutter DEF Admit
  <2>2. CASE TakeFence(w) \/ Fence(w) \/ Bind(w) \/ RollBack(w)
    BY <2>2, MapsStutter DEF TakeFence, Fence, Bind, RollBack
  <2>3. QED
    BY <1>1, <2>1, <2>2, MapsPerform, MapsCommit DEF WorkerNext
<1>2. CASE UNCHANGED <<received, performed>>
  BY <1>2, MapsStutter
<1>3. CASE ClockMoves \/ Crash
  BY <1>3, MapsStutter DEF ClockMoves, Crash
<1>4. ASSUME NEW o \in Owner, NEW g \in Nat,
             AcquireLease(o) \/ RenewLease(o, g) \/ ReleaseLease(o, g)
      PROVE  [Abstract!Next]_<<Effects(performed), Verdicts(received)>>
  BY <1>4, MapsStutter DEF AcquireLease, RenewLease, ReleaseLease
<1>5. 1 .. lease.generation \subseteq Nat
  OBVIOUS
<1>6. QED
  BY <1>1, <1>2, <1>3, <1>4, <1>5 DEF Next, vars

(* The receiver implements EffectOnce: however often a request arrives, at *)
(* however many threads, in whatever order with takeovers and crashes, its *)
(* effect happens at most once, epochs do not act after later ones, and a  *)
(* stored receipt is true and final.                                       *)
THEOREM Refinement == Spec => ImplementsEffectOnce
<1>1. QED
  BY MapsInit, MapsStep, Invariance, PTL
  DEF Spec, ImplementsEffectOnce, Abstract!Spec

----------------------------------------------------------------------------
(* The coordinator and the receiver together.                              *)

Row == operations[Create]

\* The call works on the row that it read or wrote.
OnItsRow == /\ Row.state = call.seen /\ Row.intent = call.intent

(* The types of the coordinator's variables; what a call in progress knows *)
(* of its epoch.                                                           *)
CallTyped ==
    /\ operations \in [Operation -> OperationRow]
    /\ \A op \in Operation \ {Create} : operations[op].state = "absent"
    /\ mapping \in BOOLEAN
    /\ call \in Call
    /\ sent \in SUBSET Request
    /\ config \in Nat

Issued(g) == g \in Nat /\ 1 =< g /\ g =< lease.generation

CallsAreIssued ==
    /\ call.at # "idle" =>
          call.owner \in Owner /\ call.intent \in Intent /\ Issued(call.generation)
    /\ \A r \in sent : Issued(r.generation)

(* The row and the requests: nothing leaves before the row says so.        *)
RowPrecedesRequest ==
    /\ Row.state = "absent" => Row = NoOperation
    /\ Row.state \in {"absent", "prepared"} => sent = {}
    /\ call.at \in {"evidence", "dispatch", "send"} => Row.intent = call.intent
    /\ call.at = "evidence" => Row.state = call.seen /\ call.seen \in Pending
    /\ call.at = "dispatch" => Row.state = "prepared"
    /\ call.at = "send" =>
          /\ sent = {} /\ Row.state = "dispatched"
          /\ Row.owner = call.owner /\ Row.generation = call.generation

(* The row and the effect: it is confirmed after the receiver stored its   *)
(* success.                                                                *)
ConfirmedIsStored ==
    /\ Row.state = "confirmed" => received[Create].receipt = "created"
    /\ call.at = "complete" => received[Create].receipt = "created"
    /\ call.at = "map" \/ mapping => Row.state = "confirmed"
    /\ Row.state # "rejected"

(* worker.json is not of a later epoch than a call in progress.            *)
ConfigIsOlder ==
    /\ config =< lease.generation
    /\ call.at # "idle" => config =< call.generation

AllInv ==
    /\ IInv /\ CallTyped /\ CallsAreIssued /\ SentAtMostOnce
    /\ RowPrecedesRequest /\ ConfirmedIsStored /\ ConfigIsOlder

----------------------------------------------------------------------------
LEMMA LeaseType ==
    ASSUME IInv
    PROVE  lease \in LeaseRow /\ lease.generation \in Nat /\ clock \in Nat
BY DEF IInv, TypeOK, LeaseRow

LEMMA AllInit == InitAll => AllInv
<1> SUFFICES ASSUME InitAll PROVE AllInv
  OBVIOUS
<1>1. IInv
  BY IInvInit DEF InitAll
<1>2. Row = NoOperation
  BY CreateAssumption DEF InitAll, Row
<1>3. CallTyped
  BY DEF InitAll, CallTyped, NoOperation, OperationRow, State, Call, NoCall, Step
<1> QED
  BY <1>1, <1>2, <1>3, LeaseType
     DEF AllInv, InitAll, NoCall, NoOperation, CallsAreIssued, SentAtMostOnce,
         RowPrecedesRequest, ConfirmedIsStored, ConfigIsOlder, Init, NoLease

----------------------------------------------------------------------------
(* The other side: the lease and the receiver move, the call stands still. *)
\* To the receiver, a request the coordinator sent is one that may arrive.
LEMMA ReceiverAllows ==
    ASSUME AllInv, NextAll
    PROVE  [Next]_vars
<1>1. ASSUME NEW w \in Worker, NEW r \in sent \cup Others, Admit(w, r) PROVE Next
  <2>1. CASE r \in sent
    <3>1. r \in Request /\ Issued(r.generation)
      BY <2>1 DEF AllInv, CallTyped, CallsAreIssued
    <3>2. r \in Arriving
      BY <3>1, LeaseType DEF Arriving, Request, Issued, AllInv
    <3> QED BY <1>1, <3>2 DEF Next, WorkerNext
  <2>2. CASE r \in Others
    BY <1>1, <2>2 DEF Others, Next, WorkerNext
  <2> QED BY <2>1, <2>2
<1>2. CASE ReceiverNext
  BY <1>1, <1>2 DEF ReceiverNext, Next, WorkerNext
<1>3. CASE LeaseNext
  BY <1>3 DEF LeaseNext, Next
<1>4. CASE CallNext
  BY <1>4 DEF CallNext, Begin, Prepare, ReadEvidence, Dispatch, Send, ReceiveAnswer, GiveUp,
              Complete, PutMapping, Configure, LoseAuthority, CoordinatorCrash
<1> QED BY <1>2, <1>3, <1>4 DEF NextAll

\* Epochs are only added, and a stored success stays.
LEMMA StoreKeeps ==
    ASSUME IInv, [Next]_vars
    PROVE  /\ lease'.generation >= lease.generation
           /\ received[Create].receipt = "created" => received'[Create].receipt = "created"
<1>0. Create \in Operation /\ lease.generation \in Nat
  BY CreateAssumption, LeaseType
<1>1. ASSUME NEW o \in Owner, NEW g \in 1 .. lease.generation,
             AcquireLease(o) \/ RenewLease(o, g) \/ ReleaseLease(o, g)
      PROVE  lease'.generation >= lease.generation /\ UNCHANGED received
  BY <1>0, <1>1, LeaseType DEF AcquireLease, RenewLease, ReleaseLease, Granted, LeaseRow
<1>2. ASSUME NEW o \in Owner, AcquireLease(o)
      PROVE  lease'.generation >= lease.generation /\ UNCHANGED received
  BY <1>0, <1>2, LeaseType DEF AcquireLease, Granted, LeaseRow
<1>3. ASSUME NEW w \in Worker, NEW r \in Arriving, Admit(w, r)
      PROVE  /\ UNCHANGED lease
             /\ received[Create].receipt = "created" => received'[Create] = received[Create]
  <2>1. received[r.op] = NoRow /\ r.op \in Operation
    BY <1>3 DEF Admit, Arriving, IInv, AbsentIsEmpty
  <2> QED BY <1>0, <1>3, <2>1 DEF Admit, NoRow, IInv, TypeOK
<1>4. ASSUME NEW w \in Worker, Commit(w)
      PROVE  /\ UNCHANGED lease
             /\ received[Create].receipt = "created" => received'[Create] = received[Create]
  <2>1. pc[w] # "idle"
    BY <1>4 DEF Commit
  <2>2. received[request[w].call.op].receipt = "none"
    BY <2>1, ThreadsIntent
  <2> QED BY <1>0, <1>4, <2>2 DEF Commit, IInv, TypeOK
<1>5. ASSUME NEW w \in Worker,
             TakeFence(w) \/ Fence(w) \/ Perform(w) \/ Bind(w) \/ RollBack(w)
      PROVE  UNCHANGED <<lease, received>>
  BY <1>5 DEF TakeFence, Fence, Perform, Bind, RollBack
<1>6. CASE ClockMoves \/ Crash \/ UNCHANGED vars
  BY <1>0, <1>6 DEF ClockMoves, Crash, vars
<1> QED
  BY <1>0, <1>1, <1>2, <1>3, <1>4, <1>5, <1>6 DEF Next, WorkerNext

LEMMA OthersStep ==
    ASSUME AllInv, [Next]_vars, IInv', UNCHANGED coordinatorVars
    PROVE  AllInv'
<1>1. /\ lease'.generation >= lease.generation
      /\ lease.generation \in Nat /\ lease'.generation \in Nat
      /\ received[Create].receipt = "created" => received'[Create].receipt = "created"
  BY StoreKeeps, LeaseType DEF AllInv, IInv, TypeOK, LeaseRow
<1>2. (CallTyped /\ SentAtMostOnce /\ RowPrecedesRequest)'
  BY DEF AllInv, coordinatorVars, CallTyped, SentAtMostOnce, RowPrecedesRequest, Row
<1>3. CallsAreIssued'
  BY <1>1 DEF AllInv, coordinatorVars, CallsAreIssued, Issued
<1>4. ConfirmedIsStored'
  BY <1>1 DEF AllInv, coordinatorVars, ConfirmedIsStored, Row
<1>5. ConfigIsOlder'
  BY <1>1 DEF AllInv, coordinatorVars, ConfigIsOlder, CallTyped
<1> QED BY <1>2, <1>3, <1>4, <1>5 DEF AllInv

----------------------------------------------------------------------------
(* The call moves, the receiver stands still.                              *)
\* What the store has of the row and what the call knows keeps its type.
LEMMA RowMoves ==
    ASSUME AllInv, NEW state \in State,
           operations' = [operations EXCEPT ![Create] = Moved(@, state, None)]
    PROVE  /\ operations' \in [Operation -> OperationRow]
           /\ \A op \in Operation \ {Create} : operations'[op] = operations[op]
           /\ Row'.state = state /\ Row'.intent = Row.intent
           /\ Row'.owner = Row.owner /\ Row'.generation = Row.generation
BY CreateAssumption DEF AllInv, CallTyped, Moved, OperationRow, Row

\* The call of the coordinator that goes to another step knows what it knew.
LEMMA CallGoes ==
    ASSUME AllInv, NEW step \in Step, Goto(step)
    PROVE  /\ call' \in Call /\ call'.at = step
           /\ call'.owner = call.owner /\ call'.generation = call.generation
           /\ call'.intent = call.intent /\ call'.seen = call.seen
BY DEF AllInv, CallTyped, Call, Goto

LEMMA CallEnds ==
    ASSUME Raise PROVE call' \in Call /\ call'.at = "idle"
BY DEF Raise, NoCall, Call, Step, State

\* A call that ends with an exception leaves everything it has done.
LEMMA RaiseStep ==
    ASSUME AllInv, Raise, UNCHANGED <<vars, operations, mapping, sent, config>>
    PROVE  AllInv'
<1>1. IInv'
  BY IInvStep DEF AllInv
<1>2. CallTyped' /\ call'.at = "idle"
  BY CallEnds DEF AllInv, CallTyped
<1> QED
  BY <1>1, <1>2 DEF AllInv, vars, CallsAreIssued, SentAtMostOnce, RowPrecedesRequest,
                    ConfirmedIsStored, ConfigIsOlder, Row, Issued

LEMMA BeginStep ==
    ASSUME AllInv, NEW o \in Owner, NEW g \in 1 .. lease.generation, NEW intent \in Intent,
           Begin(o, g, intent)
    PROVE  AllInv'
<1>1. IInv' /\ g \in Nat /\ lease.generation \in Nat
  BY IInvStep, LeaseType DEF AllInv, Begin
<1>2. /\ call' \in Call /\ call'.at \in {"configure", "prepare"}
      /\ call'.at = "configure" => mapping
      /\ call'.owner = o /\ call'.generation = g /\ call'.intent = intent
  BY <1>1 DEF Begin, Call, Step, State
<1>3. g = lease.generation
  BY DEF Begin, Holds
<1> QED
  BY <1>1, <1>2, <1>3
     DEF AllInv, Begin, vars, CallTyped, CallsAreIssued, SentAtMostOnce, RowPrecedesRequest,
         ConfirmedIsStored, ConfigIsOlder, Row, Issued

LEMMA PrepareStep ==
    ASSUME AllInv, Prepare
    PROVE  AllInv'
<1>1. IInv'
  BY IInvStep DEF AllInv, Prepare
<1>0. /\ UNCHANGED <<vars, mapping, sent, config>> /\ call \in Call /\ call.at = "prepare"
      /\ call.owner \in Owner /\ call.intent \in Intent /\ call.generation \in Nat
      /\ operations \in [Operation -> OperationRow] /\ Row.state \in State
  BY CreateAssumption
     DEF Prepare, AllInv, CallTyped, CallsAreIssued, Issued, Row, OperationRow
<1>2. CASE /\ Row = NoOperation
           /\ operations' = [operations EXCEPT ![Create] =
                  Prepared(call.intent, call.owner, call.generation)]
           /\ call' = [call EXCEPT !.at = "evidence", !.seen = "prepared"]
  <2>1. Row' = Prepared(call.intent, call.owner, call.generation)
    BY <1>0, <1>2, CreateAssumption DEF Row
  <2>2. operations' \in [Operation -> OperationRow]
    BY <1>0, <1>2 DEF Prepared, OperationRow, State, Pending
  <2>3. /\ call' \in Call /\ call'.at = "evidence" /\ call'.seen = "prepared"
        /\ call'.owner = call.owner /\ call'.generation = call.generation
        /\ call'.intent = call.intent
    BY <1>0, <1>2 DEF Call, Step, State, Pending
  <2>4. sent = {}
    BY <1>2 DEF AllInv, RowPrecedesRequest, NoOperation
  <2> QED
    BY <1>0, <1>1, <1>2, <2>1, <2>2, <2>3, <2>4
       DEF AllInv, vars, CallTyped, CallsAreIssued, SentAtMostOnce, RowPrecedesRequest,
           ConfirmedIsStored, ConfigIsOlder, Prepared, NoOperation, Issued, Pending
<1>3. CASE /\ Row # NoOperation /\ Row.intent = call.intent /\ UNCHANGED operations
           /\ call' = [call EXCEPT
                  !.at = IF Row.state = "confirmed" THEN "map" ELSE "evidence",
                  !.seen = Row.state]
  <2>1. /\ call' \in Call /\ call'.seen = Row.state
        /\ call'.at = IF Row.state = "confirmed" THEN "map" ELSE "evidence"
        /\ call'.owner = call.owner /\ call'.generation = call.generation
        /\ call'.intent = call.intent
    BY <1>0, <1>3 DEF Call, Step
  <2>2. Row.state # "absent"
    BY <1>0, <1>3, NoneAssumption DEF AllInv, RowPrecedesRequest
  <2>3. Row.state # "confirmed" => Row.state \in Pending
    BY <1>0, <2>2 DEF AllInv, ConfirmedIsStored, State, Settled
  <2> QED
    BY <1>0, <1>1, <1>3, <2>1, <2>3
       DEF AllInv, vars, CallTyped, CallsAreIssued, SentAtMostOnce, RowPrecedesRequest,
           ConfirmedIsStored, ConfigIsOlder, Issued, Row
<1>4. CASE Raise /\ UNCHANGED operations
  BY <1>0, <1>4, RaiseStep
<1> QED BY <1>2, <1>3, <1>4 DEF Prepare, Row

LEMMA ReadEvidenceStep ==
    ASSUME AllInv, ReadEvidence
    PROVE  AllInv'
<1>0. UNCHANGED <<vars, mapping, sent, config>>
  BY DEF ReadEvidence
\* The receipt of the receiver never names the workspace: it has the keys
\* status and body.
<1>1. ~NamesWorkspace(Stored(received[Create].receipt))
  BY DEF NamesWorkspace, Stored
<1>2. /\ UNCHANGED operations
      /\ \/ call.seen = "prepared" /\ Goto("dispatch")
         \/ Raise
  BY <1>1 DEF ReadEvidence
<1>3. CASE call.seen = "prepared" /\ Goto("dispatch")
  <2>1. /\ call' \in Call /\ call'.at = "dispatch"
        /\ call'.owner = call.owner /\ call'.generation = call.generation
        /\ call'.intent = call.intent
    BY <1>3, CallGoes DEF Step
  <2>2. call.at = "evidence" /\ IInv'
    BY <1>0, IInvStep DEF ReadEvidence, AllInv
  <2> QED
    BY <1>0, <1>2, <1>3, <2>1, <2>2
       DEF AllInv, vars, CallTyped, CallsAreIssued, SentAtMostOnce, RowPrecedesRequest,
           ConfirmedIsStored, ConfigIsOlder, Issued, Row
<1> QED BY <1>0, <1>2, <1>3, RaiseStep

LEMMA DispatchStep ==
    ASSUME AllInv, Dispatch
    PROVE  AllInv'
<1>0. UNCHANGED <<vars, mapping, sent, config>> /\ call.at = "dispatch" /\ IInv'
  BY IInvStep DEF Dispatch, AllInv
<1>1. CASE /\ MayMove(Row, "dispatched", call.owner, call.generation)
           /\ operations' = [operations EXCEPT ![Create] = Moved(@, "dispatched", None)]
           /\ Goto("send")
  <2>1. /\ operations' \in [Operation -> OperationRow]
        /\ Row'.state = "dispatched" /\ Row'.intent = Row.intent
        /\ Row'.owner = Row.owner /\ Row'.generation = Row.generation
    BY <1>1, RowMoves DEF State, Pending
  <2>2. /\ call' \in Call /\ call'.at = "send"
        /\ call'.owner = call.owner /\ call'.generation = call.generation
        /\ call'.intent = call.intent
    BY <1>1, CallGoes DEF Step
  <2>3. /\ Row.owner = call.owner /\ Row.generation = call.generation
        /\ Row.state = "prepared" /\ sent = {}
    BY <1>0, <1>1 DEF MayMove, AllInv, RowPrecedesRequest
  <2> QED
    BY <1>0, <1>1, <2>1, <2>2, <2>3
       DEF AllInv, vars, CallTyped, CallsAreIssued, SentAtMostOnce, RowPrecedesRequest,
           ConfirmedIsStored, ConfigIsOlder, Issued
<1>2. CASE Raise /\ UNCHANGED operations
  BY <1>0, <1>2, RaiseStep
<1> QED BY <1>1, <1>2 DEF Dispatch, Row

LEMMA SendStep ==
    ASSUME AllInv, Send
    PROVE  AllInv'
<1> DEFINE r == [owner |-> call.owner, generation |-> call.generation,
                 op |-> Create, intent |-> call.intent]
<1>0. UNCHANGED <<vars, operations, mapping, config>> /\ call.at = "send" /\ IInv'
  BY IInvStep DEF Send, AllInv
<1>1. /\ call' \in Call /\ call'.at = "waiting"
      /\ call'.owner = call.owner /\ call'.generation = call.generation
      /\ call'.intent = call.intent
  BY CallGoes DEF Send, Step
<1>2. sent = {} /\ sent' = {r}
  BY <1>0 DEF Send, AllInv, RowPrecedesRequest
<1>3. r \in Request /\ Issued(r.generation)
  BY <1>0, CreateAssumption DEF AllInv, CallsAreIssued, Issued, Request
<1>4. /\ Row.intent = r.intent /\ Row.owner = r.owner /\ Row.generation = r.generation
      /\ Row.state = "dispatched"
  BY <1>0 DEF AllInv, RowPrecedesRequest
<1> HIDE DEF r
<1> QED
  BY <1>0, <1>1, <1>2, <1>3, <1>4
     DEF AllInv, vars, CallTyped, CallsAreIssued, SentAtMostOnce, RowPrecedesRequest,
         ConfirmedIsStored, ConfigIsOlder, Issued, Row

LEMMA ReceiveAnswerStep ==
    ASSUME AllInv, ReceiveAnswer
    PROVE  AllInv'
<1>0. UNCHANGED <<vars, operations, mapping, sent, config>> /\ call.at = "waiting" /\ IInv'
  BY IInvStep DEF ReceiveAnswer, AllInv
<1>1. PICK step \in {"complete", "unsure"} :
         /\ Goto(step)
         /\ step = "complete" => received[Create].receipt = "created"
  BY DEF ReceiveAnswer
<1>2. /\ call' \in Call /\ call'.at = step
      /\ call'.owner = call.owner /\ call'.generation = call.generation
      /\ call'.intent = call.intent
  BY <1>1, CallGoes DEF Step
<1> QED
  BY <1>0, <1>1, <1>2
     DEF AllInv, vars, CallTyped, CallsAreIssued, SentAtMostOnce, RowPrecedesRequest,
         ConfirmedIsStored, ConfigIsOlder, Issued, Row

LEMMA GiveUpStep ==
    ASSUME AllInv, GiveUp
    PROVE  AllInv'
<1>0. /\ UNCHANGED <<vars, mapping, sent, config>> /\ call.at = "unsure" /\ IInv' /\ Raise
  BY IInvStep DEF GiveUp, AllInv
<1>1. CASE /\ MayMove(Row, "uncertain", call.owner, call.generation)
           /\ operations' = [operations EXCEPT ![Create] = Moved(@, "uncertain", None)]
  <2>1. /\ operations' \in [Operation -> OperationRow]
        /\ \A op \in Operation \ {Create} : operations'[op] = operations[op]
        /\ Row'.state = "uncertain" /\ Row'.intent = Row.intent
        /\ Row'.owner = Row.owner /\ Row'.generation = Row.generation
    BY <1>1, RowMoves DEF State, Pending
  <2>2. call' \in Call /\ call'.at = "idle"
    BY <1>0, CallEnds
  <2>3. Row.state \notin {"absent", "confirmed"}
    BY <1>1 DEF MayMove, Allowed
  <2>4. SentAtMostOnce'
    BY <1>0, <2>1 DEF AllInv, SentAtMostOnce, Row
  <2> QED
    BY <1>0, <2>1, <2>2, <2>3, <2>4
       DEF AllInv, vars, CallTyped, CallsAreIssued, RowPrecedesRequest,
           ConfirmedIsStored, ConfigIsOlder, Issued
<1>2. CASE UNCHANGED operations
  BY <1>0, <1>2, RaiseStep
<1> QED BY <1>1, <1>2 DEF GiveUp, Row

LEMMA CompleteStep ==
    ASSUME AllInv, Complete
    PROVE  AllInv'
<1>0. /\ UNCHANGED <<vars, mapping, sent, config>> /\ call.at = "complete" /\ IInv'
      /\ received[Create].receipt = "created"
  BY IInvStep DEF Complete, AllInv, ConfirmedIsStored
<1>1. /\ operations' \in [Operation -> OperationRow]
      /\ \A op \in Operation \ {Create} : operations'[op] = operations[op]
      /\ Row'.state = "confirmed" /\ Row'.intent = Row.intent
      /\ Row'.owner = Row.owner /\ Row'.generation = Row.generation
  BY RowMoves DEF Complete, State, Settled
<1>2. /\ call' \in Call /\ call'.at = "map"
      /\ call'.owner = call.owner /\ call'.generation = call.generation
      /\ call'.intent = call.intent
  BY CallGoes DEF Complete, Step
<1>3. Row.state \notin {"absent", "prepared"}
  BY CreateAssumption DEF Complete, MayMove, Allowed, Row
<1>4. SentAtMostOnce'
  BY <1>0, <1>1 DEF AllInv, SentAtMostOnce, Row
<1> QED
  BY <1>0, <1>1, <1>2, <1>3, <1>4
     DEF AllInv, vars, CallTyped, CallsAreIssued, RowPrecedesRequest,
         ConfirmedIsStored, ConfigIsOlder, Issued

LEMMA PutMappingStep ==
    ASSUME AllInv, PutMapping
    PROVE  AllInv'
<1>0. UNCHANGED <<vars, operations, sent, config>> /\ call.at = "map" /\ IInv' /\ mapping'
  BY IInvStep DEF PutMapping, AllInv
<1>1. /\ call' \in Call /\ call'.at = "configure"
      /\ call'.owner = call.owner /\ call'.generation = call.generation
      /\ call'.intent = call.intent
  BY CallGoes DEF PutMapping, Step
<1> QED
  BY <1>0, <1>1
     DEF AllInv, vars, CallTyped, CallsAreIssued, SentAtMostOnce, RowPrecedesRequest,
         ConfirmedIsStored, ConfigIsOlder, Issued, Row, PutMapping

LEMMA ConfigureStep ==
    ASSUME AllInv, Configure
    PROVE  AllInv' /\ config' >= config
<1>0. UNCHANGED <<vars, operations, mapping, sent>> /\ call.at = "configure" /\ IInv'
  BY IInvStep DEF Configure, AllInv
<1>1. config' = call.generation /\ call' \in Call /\ call'.at = "idle"
  BY CallEnds DEF Configure
<1>2. config' \in Nat /\ config' =< lease.generation /\ config' >= config
  BY <1>0, <1>1 DEF AllInv, CallsAreIssued, ConfigIsOlder, Issued, CallTyped
<1> QED
  BY <1>0, <1>1, <1>2
     DEF AllInv, vars, CallTyped, CallsAreIssued, SentAtMostOnce, RowPrecedesRequest,
         ConfirmedIsStored, ConfigIsOlder, Issued, Row

LEMMA AllStep == AllInv /\ [NextAll]_allVars => AllInv'
<1> SUFFICES ASSUME AllInv, [NextAll]_allVars PROVE AllInv'
  OBVIOUS
<1>1. CASE ReceiverNext \/ LeaseNext
  <2>1. [Next]_vars /\ UNCHANGED coordinatorVars
    BY <1>1, ReceiverAllows DEF NextAll, ReceiverNext, LeaseNext
  <2> QED BY <2>1, IInvStep, OthersStep DEF AllInv
<1>2. CASE UNCHANGED allVars
  BY <1>2, IInvStep, OthersStep DEF AllInv, allVars
<1>3. CASE CallNext
  <2>1. CASE LoseAuthority \/ CoordinatorCrash
    BY <2>1, RaiseStep DEF LoseAuthority, CoordinatorCrash
  <2> QED
    BY <1>3, <2>1, BeginStep, PrepareStep, ReadEvidenceStep, DispatchStep, SendStep,
       ReceiveAnswerStep, GiveUpStep, CompleteStep, PutMappingStep, ConfigureStep
       DEF CallNext
<1> QED BY <1>1, <1>2, <1>3 DEF NextAll

LEMMA AllInvariant == SpecAll => []AllInv
BY AllInit, AllStep, PTL DEF SpecAll

----------------------------------------------------------------------------
(* Seen from the receiver, the composed system is one of those that        *)
(* FencedReceiver describes: its coordinator sends nothing that might not  *)
(* arrive there anyway.                                                    *)
THEOREM ReceiverKept == SpecAll => Spec
<1>1. InitAll => Init
  BY DEF InitAll
<1>2. AllInv /\ [NextAll]_allVars => [Next]_vars
  BY ReceiverAllows DEF allVars, vars
<1> QED BY <1>1, <1>2, AllInvariant, PTL DEF SpecAll, Spec

(* The project has one workspace and it exists: whoever calls, after       *)
(* whatever crash of either side, lost lease or repeated request, the      *)
(* create request leaves ensure_project_workspace at most once, under the  *)
(* intent that the journal holds; and a confirmed create and the mapping   *)
(* are there only if the receiver performed it.                            *)
THEOREM OneWorkspace == SpecAll => []OneRealWorkspace
<1>1. AllInv => OneRealWorkspace
  BY CreateAssumption
     DEF AllInv, ConfirmedIsStored, IInv, EvidenceIsTrue, OneRealWorkspace, MappingIsReal, Row
<1> QED BY <1>1, AllInvariant, PTL

(* worker.json never names an older epoch than it did, though it is        *)
(* written without the lease: one call runs at a time, and begins with the *)
(* newest epoch.                                                           *)
THEOREM ConfigForward == SpecAll => ConfigNeverGoesBack
<1>1. AllInv /\ [NextAll]_allVars => [config' >= config]_allVars
  <2> SUFFICES ASSUME AllInv, NextAll PROVE config' >= config
    OBVIOUS
  <2>1. CASE Configure
    BY <2>1, ConfigureStep
  <2>2. CASE UNCHANGED config
    BY <2>2 DEF AllInv, CallTyped
  <2> QED
    BY <2>1, <2>2
       DEF NextAll, CallNext, ReceiverNext, LeaseNext, coordinatorVars, Begin, Prepare,
           ReadEvidence, Dispatch, Send, ReceiveAnswer, GiveUp, Complete, PutMapping,
           LoseAuthority, CoordinatorCrash
<1> QED BY <1>1, AllInvariant, PTL DEF SpecAll, ConfigNeverGoesBack

----------------------------------------------------------------------------
(* The refinement: an effect happens with the receiver's Perform, and the  *)
(* journal's verdict is given by Complete.                                 *)
Said(rows) ==
    [op \in Operation |-> CASE rows[op].state = "confirmed" -> "done"
                            [] rows[op].state = "rejected" -> "refused"
                            [] OTHER -> "open"]

LEMMA OnceSeesEffects ==
    /\ [i \in DOMAIN performed |-> [op |-> performed[i].op,
                                    generation |-> performed[i].generation]]
          = Effects(performed)
    /\ \A op : Once!Happened(op) <=> Happened(op)
BY DEF Effects, Once!Happened, Happened

LEMMA OnceInit == InitAll => Once!Init
<1>1. ASSUME InitAll PROVE Effects(performed) = <<>>
  BY <1>1 DEF InitAll, Init, Effects
<1>2. ASSUME InitAll PROVE Said(operations) = [op \in Operation |-> "open"]
  BY <1>2 DEF InitAll, Said, NoOperation
<1> QED BY <1>1, <1>2, OnceSeesEffects DEF Once!Init, Said

LEMMA OnceStutter ==
    ASSUME UNCHANGED performed,
           \A op \in Operation :
              \/ operations'[op].state = operations[op].state
              \/ {operations'[op].state, operations[op].state} \subseteq
                    {"absent", "prepared", "dispatched", "uncertain"}
    PROVE  UNCHANGED <<Effects(performed), Said(operations)>>
<1>1. Said(operations)' = Said(operations)
  BY DEF Said
<1> QED BY <1>1 DEF Effects

LEMMA OncePerform ==
    ASSUME AllInv, NEW w \in Worker, Perform(w), UNCHANGED operations
    PROVE  [Once!Next]_<<Effects(performed), Said(operations)>>
<1> DEFINE c == request[w].call
<1>1. /\ c \in Request /\ c.op \in Operation /\ received[c.op].receipt = "none"
      /\ ~Happened(c.op)
  <2>1. pc[w] # "idle" /\ ~Happened(c.op)
    BY DEF AllInv, IInv, AnswerIsTrue, Perform
  <2> QED BY <2>1, ThreadsIntent DEF AllInv
<1>2. Said(operations)' = Said(operations) /\ Said(operations)[c.op] = "open"
  BY <1>1, CreateAssumption DEF AllInv, CallTyped, ConfirmedIsStored, Said, Row
<1>3. CASE performed' = performed
  BY <1>2, <1>3 DEF Effects
<1>4. CASE performed' = Append(performed, c)
  <2>1. Effects(performed)' = Append(Effects(performed), Effect(c))
    BY <1>1, <1>4, EffectsOfAppend DEF AllInv, IInv, TypeOK
  <2>2. c.generation = lease.generation /\ c.generation \in 1 .. MaxGeneration
    BY <1>1, BoundsAssumption
       DEF Perform, AllInv, IInv, TypeOK, LeaseRow, FenceHoldsOffTakeover, Fenced,
           EpochsIssued, Request
  <2>3. \A i \in DOMAIN Effects(performed) :
            Effects(performed)[i].generation =< c.generation
    BY <2>2 DEF Effects, AllInv, IInv, EpochsIssued
  <2>4. Once!Perform(c.op, c.generation)
    BY <1>1, <1>2, <2>1, <2>3, OnceSeesEffects DEF Once!Perform, Effect, Effects, Said
  <2>5. \E generation \in 1 .. MaxGeneration : Once!Perform(c.op, generation)
    BY <2>2, <2>4 DEF Once!Perform
  <2>6. Once!Next
    BY <1>1, <2>5 DEF Once!Next
  <2> QED BY <2>6
<1> QED BY <1>3, <1>4 DEF Perform

LEMMA OnceComplete ==
    ASSUME AllInv, Complete
    PROVE  Once!Next
<1>0. /\ received[Create].receipt = "created" /\ UNCHANGED performed
      /\ Row.state \in {"dispatched", "uncertain"}
  BY CreateAssumption
     DEF Complete, AllInv, ConfirmedIsStored, vars, MayMove, Allowed, Row
<1>1. Happened(Create)
  BY <1>0, CreateAssumption DEF AllInv, IInv, EvidenceIsTrue
<1>2. /\ Row'.state = "confirmed"
      /\ \A op \in Operation \ {Create} : operations'[op] = operations[op]
  BY RowMoves DEF Complete, State, Settled
<1>3. Said(operations)' = [Said(operations) EXCEPT ![Create] = "done"]
  BY <1>2, CreateAssumption DEF Said, Row
<1>4. Said(operations)[Create] = "open"
  BY <1>0, CreateAssumption DEF Said, Row
<1>5. Effects(performed)' = Effects(performed)
  BY <1>0 DEF Effects
<1>6. Once!Affirm(Create)
  BY <1>1, <1>3, <1>4, <1>5, OnceSeesEffects DEF Once!Affirm, Effects, Said
<1> QED BY <1>6, CreateAssumption DEF Once!Next

LEMMA OnceStep ==
    AllInv /\ [NextAll]_allVars => [Once!Next]_<<Effects(performed), Said(operations)>>
<1> SUFFICES ASSUME AllInv, [NextAll]_allVars
             PROVE  [Once!Next]_<<Effects(performed), Said(operations)>>
  OBVIOUS
<1>1. CASE UNCHANGED <<performed, operations>>
  BY <1>1, OnceStutter
<1>2. ASSUME NEW w \in Worker, Perform(w), UNCHANGED operations
      PROVE  [Once!Next]_<<Effects(performed), Said(operations)>>
  BY <1>2, OncePerform
<1>3. CASE ReceiverNext \/ LeaseNext
  BY <1>1, <1>2, <1>3
     DEF ReceiverNext, LeaseNext, coordinatorVars, Admit, TakeFence, Fence, Bind, Commit,
         RollBack, Crash, ClockMoves, AcquireLease, RenewLease, ReleaseLease
<1>4. ASSUME NEW state \in Pending,
             Row.state \in {"absent"} \cup Pending, UNCHANGED performed, Row'.state = state,
             \A op \in Operation \ {Create} : operations'[op] = operations[op]
      PROVE  [Once!Next]_<<Effects(performed), Said(operations)>>
  BY <1>4, CreateAssumption, OnceStutter DEF Row, Pending
<1>5. CASE Prepare
  <2>1. CASE UNCHANGED operations
    BY <1>1, <1>5, <2>1 DEF Prepare, vars
  <2>2. CASE Row = NoOperation /\ operations' = [operations EXCEPT ![Create] =
                  Prepared(call.intent, call.owner, call.generation)]
    <3>1. /\ Row'.state = "prepared" /\ Row.state = "absent"
          /\ \A op \in Operation \ {Create} : operations'[op] = operations[op]
      BY <2>2, CreateAssumption DEF Row, AllInv, CallTyped, Prepared, NoOperation
    <3> QED BY <1>4, <1>5, <3>1 DEF Prepare, vars, Pending
  <2> QED BY <1>5, <2>1, <2>2 DEF Prepare, Row
<1>6. ASSUME NEW state \in {"dispatched", "uncertain"},
             MayMove(Row, state, call.owner, call.generation), UNCHANGED performed,
             operations' = [operations EXCEPT ![Create] = Moved(@, state, None)]
      PROVE  [Once!Next]_<<Effects(performed), Said(operations)>>
  <2>1. /\ Row'.state = state
        /\ \A op \in Operation \ {Create} : operations'[op] = operations[op]
    BY <1>6, RowMoves DEF State, Pending
  <2>2. Row.state \in Pending
    BY <1>6 DEF MayMove, Allowed, Pending
  <2> QED BY <1>4, <1>6, <2>1, <2>2 DEF Pending
<1>7. CASE Dispatch \/ GiveUp
  BY <1>1, <1>6, <1>7 DEF Dispatch, GiveUp, vars, Row
<1>8. CASE ReadEvidence
  <2>1. ~NamesWorkspace(Stored(received[Create].receipt))
    BY DEF NamesWorkspace, Stored
  <2> QED BY <1>1, <1>8, <2>1 DEF ReadEvidence, vars
<1>9. CASE CallNext
  BY <1>1, <1>5, <1>7, <1>8, <1>9, OnceComplete
     DEF CallNext, Begin, Send, ReceiveAnswer, PutMapping, Configure, LoseAuthority,
         CoordinatorCrash, vars
<1>10. CASE UNCHANGED allVars
  BY <1>1, <1>10 DEF allVars, vars, coordinatorVars
<1> QED BY <1>3, <1>9, <1>10 DEF NextAll

(* The coordinator and the receiver together implement EffectOnce with the *)
(* journal's row as the verdict: the workspace is created at most once, in *)
(* the order of the epochs, and what the journal says of it is true and    *)
(* never taken back.                                                       *)
THEOREM JournalRefinement == SpecAll => JournalTellsTheTruth
<1>1. /\ [Once!Next]_<<Effects(performed), Said(operations)>>
            <=> [Once!Next]_<<[i \in DOMAIN performed |->
                                  [op |-> performed[i].op,
                                   generation |-> performed[i].generation]],
                              [op \in Operation |->
                                  CASE operations[op].state = "confirmed" -> "done"
                                    [] operations[op].state = "rejected" -> "refused"
                                    [] OTHER -> "open"]>>
  BY DEF Effects, Said
<1> QED
  BY <1>1, OnceInit, OnceStep, AllInvariant, PTL
     DEF SpecAll, JournalTellsTheTruth, Once!Spec

=============================================================================
