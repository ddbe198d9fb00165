---------------------------- MODULE JournalRows ----------------------------
(***************************************************************************)
(* The rows of a project's journal and the rules the store applies to them *)
(* before it writes one: the coordinator lease (table `lease`) and the     *)
(* intents of external effects (table `operations`) of                     *)
(* muxpilot/store.py.  The rules are operators over rows, so that every    *)
(* module that touches the journal uses the same ones: Journal puts them   *)
(* behind the store's calls, FencedReceiver and EnsureWorkspace behind the *)
(* calls of the two programs that share the file.                          *)
(***************************************************************************)
EXTENDS Integers

CONSTANTS
    Owner,      \* coordinator identities that may ask for the lease
    Operation,  \* operation ids (UUIDs)
    Intent,     \* fingerprints of (kind, payload)
    Outcome,    \* receipts and errors an operation can end with
    None,       \* SQL NULL: no owner, no intent, no outcome
    TTL         \* seconds a grant or a renewal lasts

ASSUME NoneAssumption == None \notin Owner \cup Operation \cup Intent \cup Outcome
ASSUME TTLAssumption == TTL \in Nat \ {0}

----------------------------------------------------------------------------
(* The lease: one row, absent until the first acquisition (generation 0).  *)

LeaseRow == [owner: Owner \cup {None}, generation: Nat, expires: Nat,
             revoked: BOOLEAN]

NoLease == [owner |-> None, generation |-> 0, expires |-> 0, revoked |-> TRUE]

\* Mutant: a released lease is honoured until it expires.
ActiveWhileReleased(lease, now) == lease.expires > now

\* The lease is in force at time `now`, whoever holds it.
Active(lease, now) == ~lease.revoked /\ lease.expires > now

\* Mutant: the owner is checked, its generation is not.
HoldsAnyGeneration(lease, now, owner, generation) ==
    Active(lease, now) /\ lease.owner = owner

\* _assert_lease: the caller is the holder, in the epoch it believes in.
Holds(lease, now, owner, generation) ==
    /\ Active(lease, now)
    /\ lease.owner = owner
    /\ lease.generation = generation

\* Mutant: a takeover keeps the generation of the lease it replaces.
GrantedSameGeneration(lease, now, owner) ==
    [owner |-> owner,
     generation |-> IF lease.generation = 0 THEN 1 ELSE lease.generation,
     expires |-> now + TTL, revoked |-> FALSE]

\* Mutant: the time to live has the wrong sign.
GrantedInThePast(lease, now, owner) ==
    [owner |-> owner, generation |-> lease.generation + 1,
     expires |-> now - TTL, revoked |-> FALSE]

\* The row acquire_lease writes over one that is not in force.
Granted(lease, now, owner) ==
    [owner |-> owner, generation |-> lease.generation + 1,
     expires |-> now + TTL, revoked |-> FALSE]

----------------------------------------------------------------------------
(* An operation: what was intended, by which epoch, and how far it got.    *)

Pending == {"prepared", "dispatched", "uncertain"}
Settled == {"confirmed", "rejected"}
State   == {"absent"} \cup Pending \cup Settled

OperationRow == [state: State, intent: Intent \cup {None},
                 owner: Owner \cup {None}, generation: Nat,
                 outcome: Outcome \cup {None}]

NoOperation == [state |-> "absent", intent |-> None, owner |-> None,
                generation |-> 0, outcome |-> None]

Prepared(intent, owner, generation) ==
    [state |-> "prepared", intent |-> intent, owner |-> owner,
     generation |-> generation, outcome |-> None]

\* The table `allowed` of _transition: where the epoch that prepared an
\* operation may take it.
Allowed(state) ==
    CASE state = "prepared"   -> {"dispatched", "rejected", "uncertain"}
      [] state = "dispatched" -> {"confirmed", "rejected", "uncertain"}
      [] state = "uncertain"  -> {"confirmed", "rejected"}
      [] OTHER                -> {}

\* Mutant: a reconciliation may overrule a settled outcome.
ReconcilableAlways(state) == {"confirmed", "rejected", "uncertain"} \ {state, "absent"}

\* permitted_reconciliation: where any current epoch may take one.
Reconcilable(state) ==
    IF state \in Pending THEN {"confirmed", "rejected", "uncertain"} \ {state}
                         ELSE {}

\* Mutant: any epoch moves an operation as if it were its own.
MayMoveAnyEpoch(row, state, owner, generation) == state \in Allowed(row.state)

\* _transition's own checks for a caller that holds the lease.
MayMove(row, state, owner, generation) ==
    /\ row.owner = owner /\ row.generation = generation
    /\ state \in Allowed(row.state)

MayReconcile(row, state) == state \in Reconcilable(row.state)

Moved(row, state, outcome) == [row EXCEPT !.state = state, !.outcome = outcome]
============================================================================
