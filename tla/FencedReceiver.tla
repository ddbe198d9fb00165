--------------------------- MODULE FencedReceiver ---------------------------
(***************************************************************************)
(* muxpilot/fencing.py: FencedReceiver.execute behind receiver_middleware, *)
(* in the web console's process.  A request for a project-owned terminal   *)
(* carries the coordinator's epoch and an operation id; a worker thread    *)
(* runs it in two transactions of that project's journal.  The first       *)
(* validates the epoch and records the intent as 'uncertain'; the second   *)
(* validates the epoch again and keeps the write lock while the handler    *)
(* performs the effect, so no other connection can commit meanwhile.       *)
(*                                                                         *)
(* The senders are not modelled: any request of any epoch that was ever    *)
(* issued may arrive at any time, any number of times, which covers a      *)
(* client that retries, a network that delays or duplicates, and a         *)
(* coordinator that was taken over.                                        *)
(***************************************************************************)
EXTENDS JournalRows, Sequences, FiniteSets

CONSTANTS
    Worker,         \* threads that run execute's invoke()
    MaxTime,        \* bound: the wall clock stays in 0..MaxTime
    MaxGeneration,  \* bound: generations the lease reaches
    MaxPerformed    \* bound: effects performed before the handlers stop

ASSUME BoundsAssumption ==
    /\ MaxTime \in Nat /\ MaxGeneration \in Nat /\ MaxPerformed \in Nat
ASSUME WorkerAssumption == None \notin Worker

VARIABLES
    clock,      \* time.time()
    lease,      \* the journal's lease row
    writer,     \* the worker holding the journal's write lock, or None
    received,   \* table receiver_operations, by operation id
    pc,         \* where each worker thread is
    request,    \* the request each worker thread executes
    bound,      \* operations whose binding file is on disk
    performed   \* history: the effects that happened, in order

store == <<clock, lease>>
vars == <<clock, lease, writer, received, pc, request, bound, performed>>

----------------------------------------------------------------------------
Request == [owner: Owner, generation: Nat \ {0}, op: Operation, intent: Intent]

NoRequest == [owner |-> None, generation |-> 0, op |-> None, intent |-> None]

\* The receipt effect() returns: the handler's status, as far as it matters.
\* "created" is a status below 300; "refused" and "failed" are the 4xx and
\* 5xx bodies, which are recorded like any other result.
Status == {"created", "refused", "failed"}

ReceiverRow == [state: {"absent", "uncertain", "confirmed"},
                request: Request \cup {NoRequest},
                receipt: Status \cup {"none"}]

NoRow == [state |-> "absent", request |-> NoRequest, receipt |-> "none"]

\* idle: no request; admitted: intent committed, fence not yet taken;
\* executing: fence taken, handler running; returned: the handler answered,
\* its result is not committed; bound: the binding file is written as well.
Stage == {"idle", "admitted", "executing", "returned", "bound"}

Fenced == {"executing", "returned", "bound"}

----------------------------------------------------------------------------
Init == /\ clock = 0
        /\ lease = NoLease
        /\ writer = None
        /\ received = [op \in Operation |-> NoRow]
        /\ pc = [w \in Worker |-> "idle"]
        /\ request = [w \in Worker |-> [call |-> NoRequest, answer |-> "none"]]
        /\ bound = {}
        /\ performed = <<>>

(* The coordinators' side of the same file: transactions that wait for the *)
(* write lock.                                                             *)
ClockMoves == /\ clock' \in 0 .. MaxTime
              /\ UNCHANGED <<lease, writer, received, pc, request, bound,
                             performed>>

AcquireLease(o) ==
    /\ writer = None
    /\ ~Active(lease, clock)
    /\ lease.generation < MaxGeneration
    /\ lease' = Granted(lease, clock, o)
    /\ UNCHANGED <<clock, writer, received, pc, request, bound, performed>>

RenewLease(o, g) ==
    /\ writer = None
    /\ Holds(lease, clock, o, g)
    /\ lease' = [lease EXCEPT !.expires = clock + TTL]
    /\ UNCHANGED <<clock, writer, received, pc, request, bound, performed>>

ReleaseLease(o, g) ==
    /\ writer = None
    /\ Holds(lease, clock, o, g)
    /\ lease' = [lease EXCEPT !.revoked = TRUE]
    /\ UNCHANGED <<clock, writer, received, pc, request, bound, performed>>

----------------------------------------------------------------------------
\* Mutant: only a confirmed row keeps a request from being executed.
AdmitUncertain(w, r) ==
    /\ pc[w] = "idle" /\ writer = None
    /\ Holds(lease, clock, r.owner, r.generation)
    /\ received[r.op].state # "confirmed"
    /\ received' = [received EXCEPT ![r.op] =
                       [state |-> "uncertain", request |-> r, receipt |-> "none"]]
    /\ pc' = [pc EXCEPT ![w] = "admitted"]
    /\ request' = [request EXCEPT ![w] = [call |-> r, answer |-> "none"]]
    /\ UNCHANGED <<clock, lease, writer, bound, performed>>

\* The first transaction.  An id that is already there is answered from its
\* row (same fingerprint and confirmed) or refused; neither changes anything.
Admit(w, r) ==
    /\ pc[w] = "idle" /\ writer = None
    /\ Holds(lease, clock, r.owner, r.generation)
    /\ received[r.op].state = "absent"
    /\ received' = [received EXCEPT ![r.op] =
                       [state |-> "uncertain", request |-> r, receipt |-> "none"]]
    /\ pc' = [pc EXCEPT ![w] = "admitted"]
    /\ request' = [request EXCEPT ![w] = [call |-> r, answer |-> "none"]]
    /\ UNCHANGED <<clock, lease, writer, bound, performed>>

\* Mutant: the epoch is not validated again when the effect starts.
TakeFenceUnchecked(w) ==
    /\ pc[w] = "admitted" /\ writer = None
    /\ writer' = w
    /\ pc' = [pc EXCEPT ![w] = "executing"]
    /\ UNCHANGED <<clock, lease, received, request, bound, performed>>

\* Mutant: the epoch is validated, the lock is not kept.
TakeFenceUnlocked(w) ==
    /\ pc[w] = "admitted" /\ writer = None
    /\ Holds(lease, clock, request[w].call.owner, request[w].call.generation)
    /\ pc' = [pc EXCEPT ![w] = "executing"]
    /\ UNCHANGED <<clock, lease, writer, received, request, bound, performed>>

\* The second transaction opens, and validates the epoch again.
TakeFence(w) ==
    /\ pc[w] = "admitted" /\ writer = None
    /\ Holds(lease, clock, request[w].call.owner, request[w].call.generation)
    /\ writer' = w
    /\ pc' = [pc EXCEPT ![w] = "executing"]
    /\ UNCHANGED <<clock, lease, received, request, bound, performed>>

Idle(w) == /\ pc' = [pc EXCEPT ![w] = "idle"]
           /\ request' = [request EXCEPT ![w] = [call |-> NoRequest,
                                                 answer |-> "none"]]

\* The epoch ended between the two transactions, or the lock did not come in
\* time: the intent stays 'uncertain'.
Fence(w) ==
    /\ pc[w] = "admitted"
    /\ \/ writer # None
       \/ ~Holds(lease, clock, request[w].call.owner, request[w].call.generation)
    /\ Idle(w)
    /\ UNCHANGED <<clock, lease, writer, received, bound, performed>>

\* The handler runs on the event loop while the thread keeps the lock.  A 5xx
\* answer says nothing about whether the effect happened.
Perform(w) ==
    /\ pc[w] = "executing"
    /\ Len(performed) < MaxPerformed
    /\ \E status \in Status, done \in BOOLEAN :
          /\ status = "created" => done
          /\ status = "refused" => ~done
          /\ performed' = IF done THEN Append(performed, request[w].call)
                                  ELSE performed
          /\ request' = [request EXCEPT ![w].answer = status]
    /\ pc' = [pc EXCEPT ![w] = "returned"]
    /\ UNCHANGED <<clock, lease, writer, received, bound>>

\* Mutant: an error answer is bound like a success.
BindAlways(w) ==
    /\ pc[w] = "returned"
    /\ bound' = bound \cup {request[w].call.op}
    /\ pc' = [pc EXCEPT ![w] = "bound"]
    /\ UNCHANGED <<clock, lease, writer, received, request, performed>>

\* persist_binding: a file of its own, written before the commit and only for
\* a success.
Bind(w) ==
    /\ pc[w] = "returned"
    /\ bound' = IF request[w].answer = "created"
                THEN bound \cup {request[w].call.op} ELSE bound
    /\ pc' = [pc EXCEPT ![w] = "bound"]
    /\ UNCHANGED <<clock, lease, writer, received, request, performed>>

\* Mutant: the status of the answer is not looked at.
CommitSuccess(w) ==
    /\ pc[w] = "bound"
    /\ received' = [received EXCEPT ![request[w].call.op].state = "confirmed",
                                    ![request[w].call.op].receipt = "created"]
    /\ writer' = None
    /\ Idle(w)
    /\ UNCHANGED <<clock, lease, bound, performed>>

\* Mutant: the transaction is left open.
CommitKeepsLock(w) ==
    /\ pc[w] = "bound"
    /\ received' = [received EXCEPT ![request[w].call.op].state = "confirmed",
                                    ![request[w].call.op].receipt =
                                        request[w].answer]
    /\ UNCHANGED writer
    /\ Idle(w)
    /\ UNCHANGED <<clock, lease, bound, performed>>

\* The result and the end of the fence are one commit.
Commit(w) ==
    /\ pc[w] = "bound"
    /\ received' = [received EXCEPT ![request[w].call.op].state = "confirmed",
                                    ![request[w].call.op].receipt =
                                        request[w].answer]
    /\ writer' = None
    /\ Idle(w)
    /\ UNCHANGED <<clock, lease, bound, performed>>

\* The handler, persist_binding or the commit raises: the transaction rolls
\* back, whatever has happened outside of it.
RollBack(w) ==
    /\ pc[w] \in Fenced
    /\ writer' = None
    /\ Idle(w)
    /\ UNCHANGED <<clock, lease, received, bound, performed>>

\* The web console's process dies and starts again: the journal keeps what was
\* committed and SQLite drops the lock.
Crash ==
    /\ writer' = None
    /\ pc' = [w \in Worker |-> "idle"]
    /\ request' = [w \in Worker |-> [call |-> NoRequest, answer |-> "none"]]
    /\ UNCHANGED <<clock, lease, received, bound, performed>>

----------------------------------------------------------------------------
Arriving == [owner: Owner, generation: 1 .. lease.generation,
             op: Operation, intent: Intent]

WorkerNext(w) ==
    \/ \E r \in Arriving : Admit(w, r)
    \/ TakeFence(w) \/ Fence(w) \/ Perform(w) \/ Bind(w) \/ Commit(w)
    \/ RollBack(w)

Next ==
    \/ ClockMoves
    \/ Crash
    \/ \E o \in Owner : AcquireLease(o)
    \/ \E o \in Owner, g \in 1 .. lease.generation :
          RenewLease(o, g) \/ ReleaseLease(o, g)
    \/ \E w \in Worker : WorkerNext(w)

Spec == Init /\ [][Next]_vars

(* How a thread comes to its end.  Handlers are bounded ("receiver         *)
(* commands themselves must be bounded"), so it does: a fenced thread      *)
(* answers and commits.                                                    *)
RunsOn(w) == Fence(w) \/ Perform(w) \/ Bind(w) \/ Commit(w)

----------------------------------------------------------------------------
TypeOK ==
    /\ clock \in 0 .. MaxTime
    /\ lease \in LeaseRow
    /\ writer \in Worker \cup {None}
    /\ received \in [Operation -> ReceiverRow]
    /\ pc \in [Worker -> Stage]
    /\ request \in [Worker -> [call: Request \cup {NoRequest},
                              answer: Status \cup {"none"}]]
    /\ bound \in SUBSET Operation
    /\ performed \in Seq(Request)

Happened(op) == \E i \in DOMAIN performed : performed[i].op = op

(* While a handler runs the epoch it runs for is the project's epoch: the  *)
(* write lock keeps acquire_lease and release_lease out, even after the    *)
(* lease ran out of time, and no two handlers of the project overlap.      *)
FenceHoldsOffTakeover ==
    \A w \in Worker : pc[w] \in Fenced =>
        /\ writer = w
        /\ lease.owner = request[w].call.owner
        /\ lease.generation = request[w].call.generation
        /\ ~lease.revoked

(* The evidence is true: an effect is preceded by its committed intent, a  *)
(* stored success names an effect that happened with exactly that intent   *)
(* and epoch, and a stored refusal one that did not happen.  A managed     *)
(* session can be controlled exactly if it is bound: a confirmed launch    *)
(* left its binding on disk, and no binding names a session that was never *)
(* launched.                                                               *)
EvidenceIsTrue ==
    /\ \A i \in DOMAIN performed :
          received[performed[i].op].request = performed[i]
    /\ \A op \in Operation :
          /\ received[op].receipt = "created" => Happened(op) /\ op \in bound
          /\ received[op].receipt = "refused" => ~Happened(op)
    /\ \A op \in bound : Happened(op)

(* Nobody waits for the journal for ever: a fenced thread gives the lock   *)
(* up, so that a takeover waiting for it gets its turn.                    *)
FenceIsReleased == []<>(writer = None)

(* What EffectOnce sees of the receiver.  A stored 5xx answer leaves the   *)
(* operation's verdict open.                                               *)
Effects(seq) == [i \in DOMAIN seq |-> [op |-> seq[i].op, generation |-> seq[i].generation]]

Verdicts(rows) ==
    [op \in Operation |-> CASE rows[op].receipt = "created" -> "done"
                            [] rows[op].receipt = "refused" -> "refused"
                            [] OTHER -> "open"]

Abstract == INSTANCE EffectOnce WITH
    Generation <- 1 .. MaxGeneration,
    effects <- Effects(performed),
    verdict <- Verdicts(received)

(* The receiver implements EffectOnce: an operation id stands for one      *)
(* effect, however often the request for it arrives, at however many       *)
(* workers, with whatever crashes in between; and an old epoch never acts  *)
(* after a newer one: a request that was admitted before a takeover either *)
(* runs before the takeover commits or not at all.                         *)
ImplementsEffectOnce == Abstract!Spec
============================================================================
