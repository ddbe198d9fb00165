------------------------------ MODULE Journal ------------------------------
(***************************************************************************)
(* muxpilot/store.py: JournalStore, the private SQLite journal of one      *)
(* project.  Every public call is one BEGIN IMMEDIATE transaction, hence   *)
(* one atomic action; a call that raises rolls back and is no step at all. *)
(* The callers are not modelled: any owner may call with any generation    *)
(* that was ever issued, so a coordinator that crashed, was taken over, or *)
(* wakes up late is just a caller with an old generation.  Beside the      *)
(* database there are the files of the artifacts, which no transaction     *)
(* covers, and backups, from which a journal goes on somewhere else.       *)
(***************************************************************************)
EXTENDS JournalRows, Sequences, FiniteSets

CONSTANTS
    Key,         \* (kind, identity) pairs of the mapping table
    Value,       \* payloads a mapping, contents an artifact can hold
    Path,        \* paths of artifacts
    Published,   \* cursors of the source's events that concern the project
    MaxTime,     \* bound: the wall clock stays in 0..MaxTime
    MaxEvents,   \* bound: length of the audit log
    MaxNotes     \* bound: events in it that no lease check admitted

ASSUME BoundsAssumption == MaxTime \in Nat /\ MaxEvents \in Nat /\ MaxNotes \in Nat
ASSUME KeysAssumption == None \notin Key \cup Value \cup Path
ASSUME PublishedAssumption == Published \subseteq Nat \ {0}

VARIABLES
    clock,       \* time.time(): a wall clock, it may be set back
    lease,       \* the row of table `lease`
    operations,  \* table `operations`, by operation id
    mappings,    \* table `mappings`, by key: payload and version
    inboxAck,    \* checkpoint 'inbox_ack': its sequence
    cursor,      \* table `source_cursors`, of one source
    artifacts,   \* table `artifacts`, by path: the digest
    files,       \* the files of the artifacts
    restored,    \* history of the last restore: the generation it revoked,
                 \* the log it began with, whether it has yet to say so
    events       \* table `events`: the append-only audit log

work == <<operations, mappings, inboxAck>>
evidence == <<cursor, artifacts, files, restored>>
vars == <<clock, lease, work, evidence, events>>

----------------------------------------------------------------------------
(* The columns of an event the properties look at.  `number` is the expiry *)
(* of a lease event, the acknowledged sequence of a decision, the version  *)
(* of a mapping update, the cursor of a source event or of the snapshot    *)
(* after a gap, which began at `previous`.                                 *)

Kind == {"coordinator.acquired", "coordinator.renewed",
         "coordinator.released", "coordinator.decision",
         "operation.prepared", "operation.moved", "operation.reconciled",
         "mapping.updated", "project.repository_remapped", "artifact.recorded",
         "source.event", "audit.gap", "project.restored", "audit.note"}

EventRow == [kind: Kind, actor: Owner \cup {None}, generation: Nat,
             subject: Operation \cup Key \cup Path \cup {None}, state: State,
             data: Intent \cup Outcome \cup Value \cup {None}, number: Nat,
             previous: Nat]

Event(kind, owner, generation) ==
    [kind |-> kind, actor |-> owner, generation |-> generation,
     subject |-> None, state |-> "absent", data |-> None, number |-> 0,
     previous |-> 0]

LeaseEvent(kind, owner, generation, expires) ==
    [Event(kind, owner, generation) EXCEPT !.number = expires]

OperationEvent(kind, owner, generation, op, state, data) ==
    [Event(kind, owner, generation) EXCEPT !.subject = op, !.state = state,
                                           !.data = data]

MappingEvent(owner, generation, key, value, version) ==
    [Event("mapping.updated", owner, generation) EXCEPT
        !.subject = key, !.data = value, !.number = version]

DecisionEvent(owner, generation, sequence) ==
    [Event("coordinator.decision", owner, generation) EXCEPT !.number = sequence]

ArtifactEvent(path, digest) ==
    [Event("artifact.recorded", None, 0) EXCEPT !.subject = path, !.data = digest]

SourceEvent(c) == [Event("source.event", None, 0) EXCEPT !.number = c]

GapEvent(from, to) ==
    [Event("audit.gap", None, 0) EXCEPT !.number = to, !.previous = from]

\* _event: the row and the tables it explains commit together.
Record(event) == /\ Len(events) < MaxEvents
                 /\ events' = Append(events, event)

\* What is recorded by calls that do not look at the lease.
UnfencedKind == {"artifact.recorded", "source.event", "audit.gap",
                 "project.restored", "audit.note"}

Fenced(i) == events[i].kind \notin UnfencedKind

RoomForNotes(n) ==
    /\ Len(events) + n =< MaxEvents
    /\ Cardinality({i \in DOMAIN events : ~Fenced(i)}) + n =< MaxNotes

Note(event) == RoomForNotes(1) /\ Record(event)

\* Generations a caller can hold: those that were issued.
Issued == 1 .. lease.generation

----------------------------------------------------------------------------
Init == /\ clock = 0
        /\ lease = NoLease
        /\ operations = [op \in Operation |-> NoOperation]
        /\ mappings = [key \in Key |-> [payload |-> None, version |-> 0]]
        /\ inboxAck = 0
        /\ cursor = 0
        /\ artifacts = [path \in Path |-> None]
        /\ files = [path \in Path |-> None]
        /\ restored = [revoked |-> 0, log |-> 0, silent |-> FALSE]
        /\ events = <<>>

ClockMoves == /\ clock' \in 0 .. MaxTime
              /\ UNCHANGED <<lease, work, evidence, events>>

\* acquire_lease, when it grants.  While a lease is in force the call returns
\* the row unchanged to its holder and raises for everybody else.
AcquireLease(o) ==
    /\ ~Active(lease, clock)
    /\ lease' = Granted(lease, clock, o)
    /\ Record(LeaseEvent("coordinator.acquired", o, lease'.generation,
                         lease'.expires))
    /\ UNCHANGED <<clock, work, evidence>>

RenewLease(o, g) ==
    /\ Holds(lease, clock, o, g)
    /\ lease' = [lease EXCEPT !.expires = clock + TTL]
    /\ Record(LeaseEvent("coordinator.renewed", o, g, lease'.expires))
    /\ UNCHANGED <<clock, work, evidence>>

ReleaseLease(o, g) ==
    /\ Holds(lease, clock, o, g)
    /\ lease' = [lease EXCEPT !.revoked = TRUE]
    /\ Record(LeaseEvent("coordinator.released", o, g, lease.expires))
    /\ UNCHANGED <<clock, work, evidence>>

----------------------------------------------------------------------------
\* prepare_operation, when it inserts.  For an id that exists it returns the
\* row (same fingerprint) or raises (another one).
PrepareOperation(o, g, op, intent) ==
    /\ Holds(lease, clock, o, g)
    /\ operations[op] = NoOperation
    /\ operations' = [operations EXCEPT ![op] = Prepared(intent, o, g)]
    /\ Record(OperationEvent("operation.prepared", o, g, op, "prepared", intent))
    /\ UNCHANGED <<clock, lease, mappings, inboxAck, evidence>>

\* _transition without reconciliation: mark_dispatched, complete_operation,
\* mark_uncertain and reject_operation differ in the target state only.
Transition(o, g, op, state, outcome) ==
    /\ Holds(lease, clock, o, g)
    /\ MayMove(operations[op], state, o, g)
    /\ operations' = [operations EXCEPT ![op] = Moved(@, state, outcome)]
    /\ Record(OperationEvent("operation.moved", o, g, op, state, outcome))
    /\ UNCHANGED <<clock, lease, mappings, inboxAck, evidence>>

MarkDispatched(o, g, op) == Transition(o, g, op, "dispatched", None)

\* A confirmation needs a receipt; an error text comes with the other two.
CompleteOperation(o, g, op) ==
    \E receipt \in Outcome : Transition(o, g, op, "confirmed", receipt)

MarkUncertain(o, g, op) ==
    \E error \in Outcome : Transition(o, g, op, "uncertain", error)

RejectOperation(o, g, op) ==
    \E error \in Outcome : Transition(o, g, op, "rejected", error)

\* _transition with reconciliation: the caller's epoch need not be the one
\* that prepared the operation.
ReconcileOperation(o, g, op, state) ==
    /\ Holds(lease, clock, o, g)
    /\ MayReconcile(operations[op], state)
    /\ \E outcome \in Outcome :
          /\ operations' = [operations EXCEPT ![op] = Moved(@, state, outcome)]
          /\ Record(OperationEvent("operation.reconciled", o, g, op, state,
                                   outcome))
    /\ UNCHANGED <<clock, lease, mappings, inboxAck, evidence>>

----------------------------------------------------------------------------
\* Mutant: the acknowledgement may fall behind an earlier one.
CommitAnyDecision(o, g, sequence) ==
    /\ Holds(lease, clock, o, g)
    /\ sequence \in 0 .. Len(events)
    /\ inboxAck' = sequence
    /\ Record(DecisionEvent(o, g, sequence))
    /\ UNCHANGED <<clock, lease, operations, mappings, evidence>>

\* commit_decision: the coordinator acknowledges its inbox up to `sequence`.
CommitDecision(o, g, sequence) ==
    /\ Holds(lease, clock, o, g)
    /\ sequence \in inboxAck .. Len(events)
    /\ inboxAck' = sequence
    /\ Record(DecisionEvent(o, g, sequence))
    /\ UNCHANGED <<clock, lease, operations, mappings, evidence>>

\* Mutant: an update leaves the version as it is.
PutMappingSameVersion(o, g, key, value) ==
    /\ Holds(lease, clock, o, g)
    /\ mappings' = [mappings EXCEPT ![key].payload = value]
    /\ Record(MappingEvent(o, g, key, value, mappings[key].version))
    /\ UNCHANGED <<clock, lease, operations, inboxAck, evidence>>

\* put_mapping.  An expected_version that is stale raises, one that is not
\* changes nothing in what the call does.
PutMapping(o, g, key, value) ==
    /\ Holds(lease, clock, o, g)
    /\ mappings' = [mappings EXCEPT ![key] =
                        [payload |-> value, version |-> @.version + 1]]
    /\ Record(MappingEvent(o, g, key, value, mappings[key].version + 1))
    /\ UNCHANGED <<clock, lease, operations, inboxAck, evidence>>

\* remap_repository: no call of the store reads the root that it writes.
RemapRepository(o, g) ==
    /\ Holds(lease, clock, o, g)
    /\ Record(Event("project.repository_remapped", o, g))
    /\ UNCHANGED <<clock, lease, work, evidence>>

\* append_event: nothing compares the epoch the caller gives with the lease.
\* A coordinator gives its own, a worker the one that started it, however late,
\* the operator none.  (The actor is any text of the caller's, here None.)
AppendEvent(g) ==
    /\ Note(Event("audit.note", None, g))
    /\ UNCHANGED <<clock, lease, work, evidence>>

----------------------------------------------------------------------------
(* The events of a source, and where they were lost.                       *)

Entries(page) == {page[i] : i \in DOMAIN page}

\* What the source says when it attests that the page is complete: nothing
\* of the project lies between `previous` and the page's end that is not in it.
Attested(previous, page) ==
    \A c \in Published :
        previous < c /\ (\E d \in Entries(page) : c =< d) => c \in Entries(page)

Ascending(previous, page) ==
    /\ \A i \in DOMAIN page : page[i] > previous
    /\ \A i, j \in DOMAIN page : i < j => page[i] < page[j]

RecordPage(page) ==
    /\ page # <<>> /\ RoomForNotes(Len(page))
    /\ cursor' = page[Len(page)]
    /\ events' = events \o [i \in DOMAIN page |-> SourceEvent(page[i])]
    /\ UNCHANGED <<clock, lease, work, artifacts, files, restored>>

\* Mutant: the page need not begin where the journal ends.
IngestAnyPage(previous, page) ==
    /\ previous >= cursor
    /\ Ascending(previous, page) /\ Attested(previous, page)
    /\ RecordPage(page)

\* ingest_events of an attested page, when it records anything: a page that
\* begins earlier changes nothing, or is refused as a whole.
IngestPage(previous, page) ==
    /\ previous = cursor
    /\ Ascending(previous, page) /\ Attested(previous, page)
    /\ RecordPage(page)

\* Without an attestation the cursors themselves have to be complete.  An
\* event that is recorded already is skipped; the page is what remains.
IngestContiguous(page) ==
    /\ \A i \in DOMAIN page : page[i] = cursor + i
    /\ RecordPage(page)

\* record_feed_gap: the history is gone, the cursor goes on at the snapshot.
RecordFeedGap(snapshot) ==
    /\ snapshot >= cursor
    /\ cursor' = snapshot
    /\ Note(GapEvent(cursor, snapshot))
    /\ UNCHANGED <<clock, lease, work, artifacts, files, restored>>

----------------------------------------------------------------------------
(* Artifacts, and a journal that goes on from a backup.                    *)

\* write_artifact of a path that is not recorded: a file that is there must
\* have the same bytes.  A recorded path is never written again.
MayWrite(path, content) ==
    artifacts[path] = None /\ files[path] \in {None, content}

WriteArtifact(path, content) ==
    /\ MayWrite(path, content)
    /\ files' = [files EXCEPT ![path] = content]
    /\ artifacts' = [artifacts EXCEPT ![path] = content]
    /\ Note(ArtifactEvent(path, content))
    /\ UNCHANGED <<clock, lease, work, cursor, restored>>

\* The file is written and the transaction is not committed.
LeaveOrphan(path, content) ==
    /\ MayWrite(path, content)
    /\ files' = [files EXCEPT ![path] = content]
    /\ UNCHANGED <<clock, lease, work, cursor, artifacts, restored, events>>

\* bound: a journal that had a lease is restored once.
Restorable == restored.revoked = 0

\* Mutant: the lease of the backup is still in force after the restore.
RestoreWithLease ==
    /\ Restorable
    /\ files' = artifacts
    /\ restored' = [revoked |-> lease.generation, log |-> Len(events), silent |-> TRUE]
    /\ UNCHANGED <<clock, lease, work, cursor, artifacts, events>>

\* backup and restore, up to the publication of the new directory.  The
\* journal that was backed up goes on as before; this is the other one, which
\* begins with the recorded artifacts and no lease.  (A backup is refused
\* while a recorded file is damaged.)
Restore ==
    /\ Restorable
    /\ files' = artifacts
    /\ lease' = [lease EXCEPT !.revoked = TRUE]
    /\ restored' = [revoked |-> lease.generation, log |-> Len(events), silent |-> TRUE]
    /\ UNCHANGED <<clock, work, cursor, artifacts, events>>

\* The last step of restore, which may fail or come after other calls.
NoteRestore ==
    /\ restored.silent
    /\ restored' = [restored EXCEPT !.silent = FALSE]
    /\ Note(Event("project.restored", None, 0))
    /\ UNCHANGED <<clock, lease, work, cursor, artifacts, files>>

----------------------------------------------------------------------------
LeaseNext(o, g) == RenewLease(o, g) \/ ReleaseLease(o, g)

OperationNext(o, g, op) ==
    \/ \E intent \in Intent : PrepareOperation(o, g, op, intent)
    \/ MarkDispatched(o, g, op)
    \/ CompleteOperation(o, g, op)
    \/ MarkUncertain(o, g, op)
    \/ RejectOperation(o, g, op)
    \/ \E state \in Settled \cup {"uncertain"} : ReconcileOperation(o, g, op, state)

\* A page has at most as many entries as the log may take.
Pages == UNION {[1 .. n -> Published] : n \in 1 .. MaxNotes}

SourceNext ==
    \/ \E previous \in Published \cup {0}, page \in Pages : IngestPage(previous, page)
    \/ \E page \in Pages : IngestContiguous(page)
    \/ \E snapshot \in Published : RecordFeedGap(snapshot)

FileNext ==
    \/ \E path \in Path, content \in Value :
          WriteArtifact(path, content) \/ LeaveOrphan(path, content)
    \/ Restore
    \/ NoteRestore

Next ==
    \/ ClockMoves
    \/ \E g \in Issued \cup {0} : AppendEvent(g)
    \/ SourceNext
    \/ FileNext
    \/ \E o \in Owner : AcquireLease(o)
    \/ \E o \in Owner, g \in Issued :
        \/ LeaseNext(o, g) \/ RemapRepository(o, g)
        \/ \E op \in Operation : OperationNext(o, g, op)
        \/ \E n \in 0 .. MaxEvents : CommitDecision(o, g, n)
        \/ \E key \in Key, value \in Value : PutMapping(o, g, key, value)

Spec == Init /\ [][Next]_vars

----------------------------------------------------------------------------
(* Type invariant: every table holds rows of its schema. *)
TypeOK ==
    /\ clock \in 0 .. MaxTime
    /\ lease \in LeaseRow
    /\ operations \in [Operation -> OperationRow]
    /\ mappings \in [Key -> [payload: Value \cup {None}, version: Nat]]
    /\ inboxAck \in Nat
    /\ cursor \in Nat
    /\ artifacts \in [Path -> Value \cup {None}]
    /\ files \in [Path -> Value \cup {None}]
    /\ restored \in [revoked: Nat, log: Nat, silent: BOOLEAN]
    /\ events \in Seq(EventRow)

(* Epochs never interleave in the audit log: once a later generation has   *)
(* written anything behind a lease check, no such call of an earlier one   *)
(* is recorded after it.  This is what the generation check of             *)
(* _assert_lease is for; append_event makes none, and a note of a worker   *)
(* that outlives its coordinator stands behind the next epoch.             *)
EpochsInOrder ==
    \A i, j \in DOMAIN events :
        i < j /\ Fenced(i) /\ Fenced(j)
            => events[i].generation =< events[j].generation

(* One generation is one tenure of one coordinator: what it wrote behind a *)
(* lease check has the actor that acquired it, and nothing of the kind     *)
(* follows its release, however long the lease had left to run.  A grant   *)
(* never reuses a generation.                                              *)
OneTenure ==
    \A i, j \in DOMAIN events :
        i < j /\ Fenced(i) /\ Fenced(j)
              /\ events[i].generation = events[j].generation
            => /\ events[i].actor = events[j].actor
               /\ events[i].kind # "coordinator.released"

(* Who held the lease when the journal was backed up gets nothing past a   *)
(* lease check of the one that goes on from the backup.                    *)
RestoreEndsTenures ==
    \A i \in DOMAIN events :
        i > restored.log /\ Fenced(i) => events[i].generation > restored.revoked

(* All together: what the lease checks admitted is a sequence of tenures.  *)
EpochsAreTenures == EpochsInOrder /\ OneTenure /\ RestoreEndsTenures

(* A coordinator moves only what its own epoch prepared; a successor has   *)
(* to reconcile ("operation belongs to an older epoch").                   *)
MovedByItsEpoch ==
    \A j \in DOMAIN events :
        events[j].kind = "operation.moved" =>
            \E i \in 1 .. j - 1 :
                /\ events[i].kind = "operation.prepared"
                /\ events[i].subject = events[j].subject
                /\ events[i].actor = events[j].actor
                /\ events[i].generation = events[j].generation

(* The tables are what a replay of the audit log yields: of every row the  *)
(* last event about it says the state, and a row nothing was said about is *)
(* absent.  Nothing changes without an event and no event is written       *)
(* without its change, which is what makes the log usable as evidence.     *)
About(kinds, x) == {i \in DOMAIN events : events[i].kind \in kinds /\ events[i].subject = x}
Said(kinds) == {i \in DOMAIN events : events[i].kind \in kinds}
LastOf(indices) == CHOOSE i \in indices : \A j \in indices : j =< i

LeaseKinds == {"coordinator.acquired", "coordinator.renewed", "coordinator.released"}
OperationKinds == {"operation.prepared", "operation.moved", "operation.reconciled"}

OperationsMatchLog ==
    \A op \in Operation :
        LET said == About(OperationKinds, op)
        IN  operations[op].state =
                IF said = {} THEN "absent" ELSE events[LastOf(said)].state

MappingsMatchLog ==
    \A key \in Key :
        LET said == About({"mapping.updated"}, key)
        IN  /\ mappings[key].version = Cardinality(said)
            /\ said # {} => /\ mappings[key].payload = events[LastOf(said)].data
                            /\ mappings[key].version = events[LastOf(said)].number

LeaseMatchesLog ==
    IF Said(LeaseKinds) = {} THEN lease = NoLease
    ELSE LET last == events[LastOf(Said(LeaseKinds))]
         IN  lease = [owner |-> last.actor, generation |-> last.generation,
                      expires |-> last.number,
                      revoked |-> \/ last.kind = "coordinator.released"
                                 \/ last.generation = restored.revoked]

RowsMatchLog == OperationsMatchLog /\ MappingsMatchLog /\ LeaseMatchesLog

(* The inbox acknowledgement only moves forward, over events that were in  *)
(* the log when the decision was taken, across takeovers too: a successor  *)
(* neither re-reads what a predecessor acknowledged nor skips ahead.       *)
Decisions == Said({"coordinator.decision"})
AckInOrder ==
    /\ \A i \in Decisions : events[i].number < i
    /\ \A i, j \in Decisions : i < j => events[i].number =< events[j].number
    /\ inboxAck = IF Decisions = {} THEN 0 ELSE events[LastOf(Decisions)].number

(* What the source published up to the cursor is in the log, once and in   *)
(* its order, or lies in a gap the log admits; nothing beyond the cursor   *)
(* is.  This holds for pages that are asked for again, overtake each other *)
(* or are sent in the wrong order.                                         *)
SourceEvents == Said({"source.event"})
InGap(c) == \E i \in Said({"audit.gap"}) : events[i].previous < c /\ c =< events[i].number

FeedIsExact ==
    /\ \A c \in Published :
          c =< cursor <=> InGap(c) \/ \E i \in SourceEvents : events[i].number = c
    /\ \A i, j \in SourceEvents : i < j => events[i].number < events[j].number
    /\ \A i \in SourceEvents : ~InGap(events[i].number)

(* An artifact is recorded once, and its file has the recorded bytes,      *)
(* whatever attempts to write it failed before.                            *)
ArtifactsAreFixed ==
    \A path \in Path :
        LET said == About({"artifact.recorded"}, path)
        IN  /\ Cardinality(said) =< 1
            /\ artifacts[path] = IF said = {} THEN None ELSE events[LastOf(said)].data
            /\ artifacts[path] # None => files[path] = artifacts[path]

(* All together: every table is what the audit log says.                   *)
TablesMatchLog == RowsMatchLog /\ AckInOrder /\ FeedIsExact /\ ArtifactsAreFixed

(* An operation only advances: its intent and its epoch are written once,  *)
(* an uncertain outcome never turns back into something that may be sent,  *)
(* and a settled one is never touched again, not by a late answer and not  *)
(* by a reconciliation.                                                    *)
Rank(state) == CASE state = "absent" -> 0 [] state = "prepared" -> 1
                 [] state = "dispatched" -> 2 [] state = "uncertain" -> 3
                 [] OTHER -> 4

OperationsOnlyAdvance ==
    [][\A op \in Operation :
          operations[op] # NoOperation /\ operations'[op] # operations[op] =>
              /\ operations'[op].intent = operations[op].intent
              /\ operations'[op].owner = operations[op].owner
              /\ operations'[op].generation = operations[op].generation
              /\ Rank(operations'[op].state) > Rank(operations[op].state)]_vars
============================================================================
