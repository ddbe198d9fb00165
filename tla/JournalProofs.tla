--------------------------- MODULE JournalProofs ----------------------------
(***************************************************************************)
(* Proofs about Journal, for every set of owners, operations, keys and     *)
(* values and every bound.  Every step of the store is of one of five      *)
(* kinds: it touches neither lease nor log, somebody acquires a lease that *)
(* is not in force, the holder of the lease records an event of its epoch, *)
(* events that no lease check admitted are recorded, or the journal goes   *)
(* on from a backup.  The invariants of the log are proved per kind.       *)
(***************************************************************************)
EXTENDS Journal, SequenceTheorems, FiniteSetTheorems, TLAPS

\* The step of a caller that holds the lease: one event of its epoch, and a
\* lease row that keeps its owner and its generation.
HolderRecords(o, g, e) ==
    /\ Holds(lease, clock, o, g)
    /\ events' = Append(events, e)
    /\ e \in EventRow
    /\ e.actor = o /\ e.generation = g
    /\ lease'.owner = lease.owner
    /\ lease'.generation = lease.generation
    /\ e.kind = "coordinator.released" => lease'.revoked

\* The new epoch's first event.
AcquirerRecords(o, e) ==
    /\ lease' = Granted(lease, clock, o)
    /\ events' = Append(events, e)
    /\ e \in EventRow
    /\ e.kind = "coordinator.acquired"
    /\ e.actor = o /\ e.generation = lease'.generation

\* Events that no lease check admitted, of any epoch.
NotesRecorded(page) ==
    /\ UNCHANGED lease
    /\ events' = events \o page
    /\ page \in Seq(EventRow)
    /\ \A i \in DOMAIN page : page[i].kind \in UnfencedKind

\* A restore takes the lease away and leaves the log alone.
LeaseWithdrawn ==
    /\ lease' = [lease EXCEPT !.revoked = TRUE]
    /\ UNCHANGED events
    /\ restored'.revoked = lease.generation /\ restored'.log = Len(events)

LogStep ==
    \/ LeaseWithdrawn
    \/ /\ UNCHANGED <<restored.revoked, restored.log>>
       /\ \/ UNCHANGED <<lease, events>>
          \/ \E o \in Owner, e \in EventRow : AcquirerRecords(o, e)
          \/ \E o \in Owner, g \in Nat \ {0}, e \in EventRow : HolderRecords(o, g, e)
          \/ \E page \in Seq(EventRow) : NotesRecorded(page)

----------------------------------------------------------------------------
(* The rows the store writes have the types of their tables.               *)
LEMMA PreparedType ==
    ASSUME NEW o \in Owner, NEW g \in Nat, NEW intent \in Intent
    PROVE  Prepared(intent, o, g) \in OperationRow
  BY DEF Prepared, OperationRow, State, Pending

LEMMA MovedType ==
    ASSUME NEW row \in OperationRow, NEW state \in State,
           NEW outcome \in Outcome \cup {None}
    PROVE  Moved(row, state, outcome) \in OperationRow
  BY DEF Moved, OperationRow

LEMMA GrantedType ==
    ASSUME NEW l \in LeaseRow, NEW o \in Owner, NEW now \in Nat
    PROVE  Granted(l, now, o) \in LeaseRow
  BY TTLAssumption DEF Granted, LeaseRow

(* The events the store writes are rows of its log, under the epoch of the *)
(* call.                                                                   *)
LEMMA LeaseEventType ==
    ASSUME NEW kind \in Kind, NEW o \in Owner, NEW g \in Nat, NEW n \in Nat
    PROVE  /\ LeaseEvent(kind, o, g, n) \in EventRow
           /\ LeaseEvent(kind, o, g, n).actor = o
           /\ LeaseEvent(kind, o, g, n).generation = g
           /\ LeaseEvent(kind, o, g, n).kind = kind
  BY DEF LeaseEvent, Event, EventRow, State

LEMMA OperationEventType ==
    ASSUME NEW kind \in Kind, NEW o \in Owner, NEW g \in Nat,
           NEW op \in Operation, NEW state \in State,
           NEW data \in Intent \cup Outcome \cup {None}
    PROVE  /\ OperationEvent(kind, o, g, op, state, data) \in EventRow
           /\ OperationEvent(kind, o, g, op, state, data).actor = o
           /\ OperationEvent(kind, o, g, op, state, data).generation = g
           /\ OperationEvent(kind, o, g, op, state, data).kind = kind
  BY DEF OperationEvent, Event, EventRow, State

LEMMA MappingEventType ==
    ASSUME NEW o \in Owner, NEW g \in Nat, NEW n \in Nat,
           NEW key \in Key, NEW value \in Value
    PROVE  /\ MappingEvent(o, g, key, value, n) \in EventRow
           /\ MappingEvent(o, g, key, value, n).actor = o
           /\ MappingEvent(o, g, key, value, n).generation = g
           /\ MappingEvent(o, g, key, value, n).kind = "mapping.updated"
  BY DEF MappingEvent, Event, EventRow, Kind, State

LEMMA DecisionType ==
    ASSUME NEW o \in Owner, NEW g \in Nat, NEW n \in Nat
    PROVE  /\ DecisionEvent(o, g, n) \in EventRow
           /\ DecisionEvent(o, g, n).actor = o
           /\ DecisionEvent(o, g, n).generation = g
           /\ DecisionEvent(o, g, n).kind = "coordinator.decision"
  BY DEF DecisionEvent, Event, EventRow, Kind, State

LEMMA RemapType ==
    ASSUME NEW o \in Owner, NEW g \in Nat
    PROVE  LET e == Event("project.repository_remapped", o, g)
           IN  /\ e \in EventRow /\ e.actor = o /\ e.generation = g
               /\ e.kind = "project.repository_remapped"
  BY DEF Event, EventRow, Kind, State

\* What no lease check admitted.
Outside(e) ==
    e \in EventRow /\ e.kind \in UnfencedKind

LEMMA NoteTypes ==
    /\ \A g \in Nat : Outside(Event("audit.note", None, g))
    /\ Outside(Event("project.restored", None, 0))
    /\ \A n \in Nat : Outside(SourceEvent(n))
    /\ \A m, n \in Nat : Outside(GapEvent(m, n))
    /\ \A path \in Path, value \in Value : Outside(ArtifactEvent(path, value))
  BY DEF Outside, UnfencedKind, Event, SourceEvent, GapEvent, ArtifactEvent,
         EventRow, Kind, State

(* A page of a source becomes a sequence of such events.                   *)
AsEvents(page) == [i \in DOMAIN page |-> SourceEvent(page[i])]

LEMMA PageType ==
    ASSUME NEW page \in Pages
    PROVE  /\ Len(page) \in Nat \ {0} /\ DOMAIN page = 1 .. Len(page)
           /\ page[Len(page)] \in Nat
           /\ \A i \in 1 .. Len(page) : page[i] \in Published
           /\ AsEvents(page) \in Seq(EventRow) /\ Len(AsEvents(page)) = Len(page)
           /\ \A i \in DOMAIN AsEvents(page) : Outside(AsEvents(page)[i])
<1>1. PICK n \in 1 .. MaxNotes : page \in [1 .. n -> Published]
  BY DEF Pages
<1>2. n \in Nat /\ n > 0
  BY <1>1, BoundsAssumption
<1>3. Len(page) = n /\ \A i \in 1 .. n : page[i] \in Nat
  <2>1. page \in Seq(Published)
    <3>1. page \in UNION {[1 .. m -> Published] : m \in Nat}
      BY <1>1, <1>2, Zenon
    <3> QED BY <3>1, SeqDef, Zenon
  <2>2. DOMAIN page = 1 .. n /\ DOMAIN page = 1 .. Len(page) /\ Len(page) \in Nat
    BY <1>1, <2>1, LenProperties
  <2>3. 1 .. n = 1 .. Len(page) => n = Len(page)
    BY <1>2, <2>2
  <2>4. \A i \in 1 .. n : page[i] \in Published
    BY <1>1
  <2>5. Published \subseteq Nat
    BY PublishedAssumption
  <2>6. \A i \in 1 .. n : page[i] \in Nat
    BY <2>4, <2>5, Zenon
  <2> QED BY <2>2, <2>3, <2>6, Zenon
<1>4. AsEvents(page) \in [1 .. n -> EventRow]
  BY <1>1, <1>3, NoteTypes DEF AsEvents, Outside
<1>5. \A i \in 1 .. n : Outside(AsEvents(page)[i])
  BY <1>1, <1>3, NoteTypes DEF AsEvents
<1>6. AsEvents(page) \in Seq(EventRow) /\ Len(AsEvents(page)) = n
  BY <1>2, <1>4
<1> QED BY <1>1, <1>2, <1>3, <1>4, <1>5, <1>6

----------------------------------------------------------------------------
(* TypeOK holds in every reachable state: each call of the store writes    *)
(* rows of its schema.                                                     *)
THEOREM Typing == Spec => []TypeOK
<1>1. Init => TypeOK
  BY BoundsAssumption
     DEF Init, TypeOK, NoOperation, NoLease, OperationRow, LeaseRow, State
<1>2. TypeOK /\ [Next]_vars => TypeOK'
  <2> SUFFICES ASSUME TypeOK, [Next]_vars PROVE TypeOK'
    OBVIOUS
  <2> USE BoundsAssumption DEF TypeOK
  <2>0. clock \in Nat /\ lease.generation \in Nat /\ lease.expires \in Nat
    BY DEF LeaseRow
  <2>1. CASE UNCHANGED vars
    BY <2>1 DEF vars, work, evidence
  <2>2. CASE ClockMoves
    BY <2>2 DEF ClockMoves, work, evidence
  <2>3. ASSUME NEW g \in Issued \cup {0}, AppendEvent(g) PROVE TypeOK'
    <3>1. g \in Nat
      BY <2>0 DEF Issued
    <3> QED BY <2>3, <3>1, NoteTypes DEF AppendEvent, Note, Record, Outside, work, evidence
  <2>4. ASSUME NEW o \in Owner, AcquireLease(o) PROVE TypeOK'
    <3>1. lease' \in LeaseRow
      BY <2>4, <2>0, GrantedType DEF AcquireLease
    <3>2. LeaseEvent("coordinator.acquired", o, lease'.generation,
                     lease'.expires) \in EventRow
      BY <3>1, LeaseEventType DEF LeaseRow, Kind
    <3> QED BY <2>4, <3>1, <3>2 DEF AcquireLease, Record, work, evidence
  <2>5. ASSUME NEW o \in Owner, NEW g \in Issued, RenewLease(o, g)
        PROVE  TypeOK'
    <3>1. lease' \in LeaseRow
      BY <2>5, <2>0, TTLAssumption DEF RenewLease, LeaseRow
    <3>2. LeaseEvent("coordinator.renewed", o, g, lease'.expires) \in EventRow
      BY <3>1, <2>0, LeaseEventType DEF LeaseRow, Kind, Issued
    <3> QED BY <2>5, <3>1, <3>2 DEF RenewLease, Record, work, evidence
  <2>6. ASSUME NEW o \in Owner, NEW g \in Issued, ReleaseLease(o, g)
        PROVE  TypeOK'
    <3>1. lease' \in LeaseRow
      BY <2>6 DEF ReleaseLease, LeaseRow
    <3>2. LeaseEvent("coordinator.released", o, g, lease.expires) \in EventRow
      BY <2>0, LeaseEventType DEF Kind, Issued
    <3> QED BY <2>6, <3>1, <3>2 DEF ReleaseLease, Record, work, evidence
  <2>7. ASSUME NEW o \in Owner, NEW g \in Issued, NEW op \in Operation,
               NEW intent \in Intent, PrepareOperation(o, g, op, intent)
        PROVE  TypeOK'
    <3>1. Prepared(intent, o, g) \in OperationRow
      BY <2>0, PreparedType DEF Issued
    <3>2. OperationEvent("operation.prepared", o, g, op, "prepared", intent)
            \in EventRow
      BY <2>0, OperationEventType DEF Kind, State, Pending, Issued
    <3> QED BY <2>7, <3>1, <3>2 DEF PrepareOperation, Record, work, evidence
  <2>8. ASSUME NEW o \in Owner, NEW g \in Issued, NEW op \in Operation,
               NEW state \in State, NEW outcome \in Outcome \cup {None},
               Transition(o, g, op, state, outcome)
        PROVE  TypeOK'
    <3>1. Moved(operations[op], state, outcome) \in OperationRow
      BY MovedType
    <3>2. OperationEvent("operation.moved", o, g, op, state, outcome) \in EventRow
      BY <2>0, OperationEventType DEF Kind, Issued
    <3> QED BY <2>8, <3>1, <3>2 DEF Transition, Record, work, evidence
  <2>9. ASSUME NEW o \in Owner, NEW g \in Issued, NEW op \in Operation,
               NEW state \in Settled \cup {"uncertain"},
               ReconcileOperation(o, g, op, state)
        PROVE  TypeOK'
    <3>1. PICK outcome \in Outcome :
             /\ operations' = [operations EXCEPT ![op] = Moved(@, state, outcome)]
             /\ Record(OperationEvent("operation.reconciled", o, g, op, state,
                                      outcome))
      BY <2>9 DEF ReconcileOperation
    <3>2. Moved(operations[op], state, outcome) \in OperationRow
      BY MovedType DEF State, Settled, Pending
    <3>a. g \in Nat /\ state \in State
      BY <2>0 DEF Issued, State, Settled, Pending
    <3>3. OperationEvent("operation.reconciled", o, g, op, state, outcome)
            \in EventRow
      BY <3>a, OperationEventType DEF Kind
    <3> QED BY <2>9, <3>1, <3>2, <3>3 DEF ReconcileOperation, Record, work, evidence
  <2>10. ASSUME NEW o \in Owner, NEW g \in Issued,
                NEW sequence \in 0 .. MaxEvents, CommitDecision(o, g, sequence)
         PROVE  TypeOK'
    <3>1. DecisionEvent(o, g, sequence) \in EventRow
      BY <2>0, DecisionType DEF Issued
    <3> QED BY <2>10, <3>1 DEF CommitDecision, Record, work, evidence
  <2>11. ASSUME NEW o \in Owner, NEW g \in Issued, NEW key \in Key,
                NEW value \in Value, PutMapping(o, g, key, value)
         PROVE  TypeOK'
    <3>1. mappings[key].version + 1 \in Nat
      OBVIOUS
    <3>2. MappingEvent(o, g, key, value, mappings[key].version + 1) \in EventRow
      BY <2>0, <3>1, MappingEventType DEF Issued
    <3> QED BY <2>11, <3>1, <3>2 DEF PutMapping, Record, work, evidence
  <2>12. ASSUME NEW o \in Owner, NEW g \in Issued, NEW op \in Operation,
                OperationNext(o, g, op)
         PROVE  TypeOK'
    BY <2>7, <2>8, <2>9, <2>12
       DEF OperationNext, MarkDispatched, CompleteOperation, MarkUncertain,
           RejectOperation, State, Pending, Settled
  <2>13. ASSUME NEW o \in Owner, NEW g \in Issued, RemapRepository(o, g)
         PROVE  TypeOK'
    <3>1. Event("project.repository_remapped", o, g) \in EventRow
      BY <2>0, RemapType DEF Issued
    <3> QED BY <2>13, <3>1 DEF RemapRepository, Record, work, evidence
  <2>14. ASSUME NEW page \in Pages, RecordPage(page) PROVE TypeOK'
    <3>1. page[Len(page)] \in Nat /\ AsEvents(page) \in Seq(EventRow)
      BY PageType
    <3>2. events \o AsEvents(page) \in Seq(EventRow)
      BY <3>1, ConcatProperties
    <3>3. events' \in Seq(EventRow) /\ cursor' \in Nat
      BY <2>14, <3>1, <3>2 DEF RecordPage, AsEvents
    <3> QED BY <2>14, <3>3 DEF RecordPage, work
  <2>15. CASE SourceNext
    <3>1. ASSUME NEW snapshot \in Published, RecordFeedGap(snapshot) PROVE TypeOK'
      <4>1. snapshot \in Nat
        BY PublishedAssumption
      <4>2. GapEvent(cursor, snapshot) \in EventRow
        BY <4>1, NoteTypes DEF Outside
      <4> QED BY <3>1, <4>1, <4>2 DEF RecordFeedGap, Note, Record, work
    <3> QED BY <2>15, <2>14, <3>1 DEF SourceNext, IngestPage, IngestContiguous
  <2>16. CASE FileNext
    <3>1. ASSUME NEW path \in Path, NEW content \in Value, WriteArtifact(path, content)
          PROVE  TypeOK'
      <4>1. ArtifactEvent(path, content) \in EventRow
        BY NoteTypes DEF Outside
      <4> QED BY <3>1, <4>1 DEF WriteArtifact, Note, Record, work
    <3>2. ASSUME NEW path \in Path, NEW content \in Value, LeaveOrphan(path, content)
          PROVE  TypeOK'
      BY <3>2 DEF LeaveOrphan, work
    <3>3. CASE Restore
      <4>1. lease' \in LeaseRow
        BY <3>3 DEF Restore, LeaseRow
      <4>2. restored' \in [revoked: Nat, log: Nat, silent: BOOLEAN]
        BY <3>3, <2>0 DEF Restore
      <4> QED BY <3>3, <4>1, <4>2 DEF Restore, work
    <3>4. CASE NoteRestore
      <4>1. restored' \in [revoked: Nat, log: Nat, silent: BOOLEAN]
        BY <3>4 DEF NoteRestore
      <4>2. events' \in Seq(EventRow)
        BY <3>4, NoteTypes DEF NoteRestore, Note, Record, Outside
      <4> QED BY <3>4, <4>1, <4>2 DEF NoteRestore, work
    <3> QED BY <2>16, <3>1, <3>2, <3>3, <3>4 DEF FileNext
  <2> QED
    BY <2>1, <2>2, <2>3, <2>4, <2>5, <2>6, <2>10, <2>11, <2>12, <2>13, <2>15, <2>16
       DEF Next, LeaseNext
<1>3. QED
  BY <1>1, <1>2, PTL DEF Spec

----------------------------------------------------------------------------
(* A single event that no lease check admitted is a page of one.           *)
LEMMA OneNote ==
    ASSUME TypeOK, NEW e, Outside(e), events' = Append(events, e), UNCHANGED lease
    PROVE  \E page \in Seq(EventRow) : NotesRecorded(page)
<1>1. <<e>> \in Seq(EventRow) /\ DOMAIN <<e>> = {1} /\ <<e>>[1] = e
  BY DEF Outside
<1>2. Append(events, e) = events \o <<e>>
  BY <1>1 DEF TypeOK
<1> QED BY <1>1, <1>2 DEF NotesRecorded, Outside

(* Every step of the store is of one of the five kinds.                    *)
LEMMA StepKinds ==
    ASSUME TypeOK, TypeOK', [Next]_vars
    PROVE  LogStep
<1>0. /\ clock \in Nat /\ lease.generation \in Nat /\ lease.expires \in Nat
      /\ lease'.generation \in Nat /\ lease'.expires \in Nat
  BY BoundsAssumption DEF TypeOK, LeaseRow
<1>1. CASE UNCHANGED vars
  BY <1>1 DEF vars, evidence, LogStep
<1>2. CASE ClockMoves
  BY <1>2 DEF ClockMoves, evidence, LogStep
<1>3. ASSUME NEW g \in Issued \cup {0}, AppendEvent(g) PROVE LogStep
  <2>1. g \in Nat
    BY <1>0 DEF Issued
  <2> QED BY <1>3, <2>1, NoteTypes, OneNote DEF AppendEvent, Note, Record, LogStep, evidence
<1>4. ASSUME NEW o \in Owner, AcquireLease(o) PROVE LogStep
  <2> DEFINE e == LeaseEvent("coordinator.acquired", o, lease'.generation,
                             lease'.expires)
  <2>1. /\ e \in EventRow /\ e.actor = o /\ e.generation = lease'.generation
        /\ e.kind = "coordinator.acquired"
    BY <1>0, LeaseEventType DEF Kind
  <2>2. AcquirerRecords(o, e)
    BY <1>4, <2>1 DEF AcquireLease, Record, AcquirerRecords
  <2> QED BY <1>4, <2>1, <2>2 DEF LogStep, AcquireLease, evidence
<1>5. ASSUME NEW o \in Owner, NEW g \in Issued, NEW e,
             HolderRecords(o, g, e), UNCHANGED evidence
      PROVE  LogStep
  BY <1>5, <1>0 DEF LogStep, HolderRecords, Issued, evidence
<1>6. ASSUME NEW o \in Owner, NEW g \in Issued, RenewLease(o, g)
      PROVE  LogStep
  <2> DEFINE e == LeaseEvent("coordinator.renewed", o, g, lease'.expires)
  <2>1. /\ e \in EventRow /\ e.actor = o /\ e.generation = g
        /\ e.kind = "coordinator.renewed"
    BY <1>0, LeaseEventType DEF Kind, Issued
  <2>2. lease'.owner = lease.owner /\ lease'.generation = lease.generation
    BY <1>6 DEF RenewLease, TypeOK, LeaseRow
  <2>3. HolderRecords(o, g, e)
    BY <1>6, <2>1, <2>2 DEF RenewLease, Record, HolderRecords
  <2> QED BY <1>6, <2>3, <1>5 DEF RenewLease
<1>7. ASSUME NEW o \in Owner, NEW g \in Issued, ReleaseLease(o, g)
      PROVE  LogStep
  <2> DEFINE e == LeaseEvent("coordinator.released", o, g, lease.expires)
  <2>1. e \in EventRow /\ e.actor = o /\ e.generation = g
    BY <1>0, LeaseEventType DEF Kind, Issued
  <2>2. /\ lease'.owner = lease.owner /\ lease'.generation = lease.generation
        /\ lease'.revoked
    BY <1>7 DEF ReleaseLease, TypeOK, LeaseRow
  <2>3. HolderRecords(o, g, e)
    BY <1>7, <2>1, <2>2 DEF ReleaseLease, Record, HolderRecords
  <2> QED BY <1>7, <2>3, <1>5 DEF ReleaseLease
<1>8. ASSUME NEW o \in Owner, NEW g \in Issued, NEW op \in Operation,
             NEW intent \in Intent, PrepareOperation(o, g, op, intent)
      PROVE  LogStep
  <2> DEFINE e == OperationEvent("operation.prepared", o, g, op, "prepared",
                                 intent)
  <2>1. /\ e \in EventRow /\ e.actor = o /\ e.generation = g
        /\ e.kind = "operation.prepared"
    BY <1>0, OperationEventType DEF Kind, State, Pending, Issued
  <2>2. HolderRecords(o, g, e)
    BY <1>8, <2>1 DEF PrepareOperation, Record, HolderRecords
  <2> QED BY <1>8, <2>2, <1>5 DEF PrepareOperation
<1>9. ASSUME NEW o \in Owner, NEW g \in Issued, NEW op \in Operation,
             NEW state \in State, NEW outcome \in Outcome \cup {None},
             Transition(o, g, op, state, outcome)
      PROVE  LogStep
  <2> DEFINE e == OperationEvent("operation.moved", o, g, op, state, outcome)
  <2>1. /\ e \in EventRow /\ e.actor = o /\ e.generation = g
        /\ e.kind = "operation.moved"
    BY <1>0, OperationEventType DEF Kind, Issued
  <2>2. HolderRecords(o, g, e)
    BY <1>9, <2>1 DEF Transition, Record, HolderRecords
  <2> QED BY <1>9, <2>2, <1>5 DEF Transition
<1>10. ASSUME NEW o \in Owner, NEW g \in Issued, NEW op \in Operation,
              NEW state \in Settled \cup {"uncertain"},
              ReconcileOperation(o, g, op, state)
       PROVE  LogStep
  <2>1. PICK outcome \in Outcome :
           Record(OperationEvent("operation.reconciled", o, g, op, state,
                                 outcome))
    BY <1>10 DEF ReconcileOperation
  <2> DEFINE e == OperationEvent("operation.reconciled", o, g, op, state, outcome)
  <2>2. /\ e \in EventRow /\ e.actor = o /\ e.generation = g
        /\ e.kind = "operation.reconciled"
    BY <1>0, OperationEventType DEF Kind, Issued, State, Settled, Pending
  <2>3. HolderRecords(o, g, e)
    BY <1>10, <2>1, <2>2 DEF ReconcileOperation, Record, HolderRecords
  <2> QED BY <1>10, <2>3, <1>5 DEF ReconcileOperation
<1>11. ASSUME NEW o \in Owner, NEW g \in Issued,
              NEW sequence \in 0 .. MaxEvents, CommitDecision(o, g, sequence)
       PROVE  LogStep
  <2>1. /\ DecisionEvent(o, g, sequence) \in EventRow
        /\ DecisionEvent(o, g, sequence).actor = o
        /\ DecisionEvent(o, g, sequence).generation = g
        /\ DecisionEvent(o, g, sequence).kind = "coordinator.decision"
    BY <1>0, DecisionType DEF Issued
  <2>2. HolderRecords(o, g, DecisionEvent(o, g, sequence))
    BY <1>11, <2>1 DEF CommitDecision, Record, HolderRecords
  <2> QED BY <1>11, <2>2, <1>5 DEF CommitDecision
<1>12. ASSUME NEW o \in Owner, NEW g \in Issued, NEW key \in Key,
              NEW value \in Value, PutMapping(o, g, key, value)
       PROVE  LogStep
  <2> DEFINE e == MappingEvent(o, g, key, value, mappings[key].version + 1)
  <2>1. mappings[key].version + 1 \in Nat
    BY DEF TypeOK
  <2>a. g \in Nat
    BY <1>0 DEF Issued
  <2>2. /\ e \in EventRow /\ e.actor = o /\ e.generation = g
        /\ e.kind = "mapping.updated"
    BY <2>a, <2>1, MappingEventType
  <2>3. HolderRecords(o, g, e)
    BY <1>12, <2>2 DEF PutMapping, Record, HolderRecords
  <2> QED BY <1>12, <2>3, <1>5 DEF PutMapping
<1>13. ASSUME NEW o \in Owner, NEW g \in Issued, NEW op \in Operation,
              OperationNext(o, g, op)
       PROVE  LogStep
  BY <1>8, <1>9, <1>10, <1>13
     DEF OperationNext, MarkDispatched, CompleteOperation, MarkUncertain,
         RejectOperation, State, Pending, Settled
<1>14. ASSUME NEW o \in Owner, NEW g \in Issued, RemapRepository(o, g)
       PROVE  LogStep
  <2> DEFINE e == Event("project.repository_remapped", o, g)
  <2>1. /\ e \in EventRow /\ e.actor = o /\ e.generation = g
        /\ e.kind = "project.repository_remapped"
    BY <1>0, RemapType DEF Issued
  <2>2. HolderRecords(o, g, e)
    BY <1>14, <2>1 DEF RemapRepository, Record, HolderRecords
  <2> QED BY <1>14, <2>2, <1>5 DEF RemapRepository
<1>15. ASSUME NEW page \in Pages, RecordPage(page) PROVE LogStep
  <2>1. NotesRecorded(AsEvents(page))
    BY <1>15, PageType DEF RecordPage, AsEvents, NotesRecorded, Outside
  <2> QED BY <1>15, <2>1, PageType DEF RecordPage, LogStep
<1>16. CASE SourceNext
  <2>1. ASSUME NEW snapshot \in Published, RecordFeedGap(snapshot) PROVE LogStep
    <3>1. Outside(GapEvent(cursor, snapshot))
      BY NoteTypes, PublishedAssumption DEF TypeOK
    <3> QED BY <2>1, <3>1, OneNote DEF RecordFeedGap, Note, Record, LogStep
  <2> QED BY <1>16, <1>15, <2>1 DEF SourceNext, IngestPage, IngestContiguous
<1>17. CASE FileNext
  <2>1. ASSUME NEW path \in Path, NEW content \in Value, WriteArtifact(path, content)
        PROVE  LogStep
    BY <2>1, NoteTypes, OneNote DEF WriteArtifact, Note, Record, LogStep
  <2>2. ASSUME NEW path \in Path, NEW content \in Value, LeaveOrphan(path, content)
        PROVE  LogStep
    BY <2>2 DEF LeaveOrphan, LogStep
  <2>3. CASE Restore
    BY <2>3 DEF Restore, LogStep, LeaseWithdrawn
  <2>4. CASE NoteRestore
    <3>1. UNCHANGED <<restored.revoked, restored.log>>
      BY <2>4 DEF NoteRestore, TypeOK
    <3> QED BY <2>4, <3>1, NoteTypes, OneNote DEF NoteRestore, Note, Record, LogStep
  <2> QED BY <1>17, <2>1, <2>2, <2>3, <2>4 DEF FileNext
<1> QED
  BY <1>1, <1>2, <1>3, <1>4, <1>6, <1>7, <1>11, <1>12, <1>13, <1>14, <1>16, <1>17
     DEF Next, LeaseNext

----------------------------------------------------------------------------
(* The inductive invariant: the log against the lease row.  No event is    *)
(* ahead of the current generation, those of the current generation are    *)
(* its owner's, and if it was released the row says so.  A generation that *)
(* a restore revoked stays revoked until there is a later one.             *)
LogBehindLease ==
    \A i \in DOMAIN events :
        Fenced(i) =>
            /\ events[i].generation =< lease.generation
            /\ events[i].generation = lease.generation =>
                  /\ events[i].actor = lease.owner
                  /\ events[i].kind = "coordinator.released" => lease.revoked

RestoreBehindLease ==
    /\ restored.revoked =< lease.generation
    /\ restored.revoked = lease.generation => lease.revoked
    /\ restored.log =< Len(events)

RestoreInv == RestoreBehindLease /\ RestoreEndsTenures

EpochInv == LogBehindLease /\ EpochsInOrder /\ OneTenure /\ RestoreInv

(* What Append does to the log: the old rows keep their places.            *)
LEMMA LogGrows ==
    ASSUME events \in Seq(EventRow), NEW e \in EventRow,
           events' = Append(events, e)
    PROVE  /\ events' \in Seq(EventRow)
           /\ DOMAIN events = 1 .. Len(events)
           /\ DOMAIN events' = 1 .. Len(events) + 1
           /\ Len(events) \in Nat
           /\ \A i \in 1 .. Len(events) : events'[i] = events[i]
           /\ events'[Len(events) + 1] = e
  OBVIOUS

(* What a page of notes does to it.                                        *)
LEMMA LogGrowsByPage ==
    ASSUME events \in Seq(EventRow), NEW page \in Seq(EventRow),
           events' = events \o page
    PROVE  /\ DOMAIN events = 1 .. Len(events)
           /\ DOMAIN events' = 1 .. Len(events')
           /\ Len(events) \in Nat /\ Len(events') \in Nat
           /\ Len(events) =< Len(events')
           /\ Len(events') = Len(events) + Len(page)
           /\ \A i \in 1 .. Len(page) : events'[Len(events) + i] = page[i]
           /\ \A i \in 1 .. Len(events) : events'[i] = events[i]
           /\ \A i \in DOMAIN events' \ DOMAIN events :
                 \E j \in DOMAIN page : events'[i] = page[j]
<1>1. /\ events' \in Seq(EventRow)
      /\ Len(events') = Len(events) + Len(page)
      /\ \A i \in 1 .. Len(events) + Len(page) :
            events'[i] = IF i <= Len(events) THEN events[i] ELSE page[i - Len(events)]
  BY ConcatProperties
<1>2. DOMAIN events = 1 .. Len(events) /\ DOMAIN page = 1 .. Len(page)
      /\ Len(events) \in Nat /\ Len(page) \in Nat /\ DOMAIN events' = 1 .. Len(events')
  BY <1>1
<1>3. ASSUME NEW i \in DOMAIN events' \ DOMAIN events
      PROVE  \E j \in DOMAIN page : events'[i] = page[j]
  <2>1. i - Len(events) \in DOMAIN page /\ events'[i] = page[i - Len(events)]
    BY <1>1, <1>2
  <2> QED BY <2>1
<1>4. \A i \in 1 .. Len(page) : events'[Len(events) + i] = page[i]
  BY <1>1, <1>2
<1> QED BY <1>1, <1>2, <1>3, <1>4

LEMMA EpochStep ==
    ASSUME TypeOK, TypeOK', EpochInv, LogStep
    PROVE  EpochInv'
<1> USE DEF EpochInv
<1>a. \A i \in DOMAIN events : events[i] \in EventRow
  BY DEF TypeOK
<1>0. /\ lease.generation \in Nat
      /\ \A i \in DOMAIN events : events[i].generation \in Nat
      /\ restored.revoked \in Nat /\ restored.log \in Nat
  BY <1>a DEF TypeOK, LeaseRow, EventRow
<1>b. DOMAIN events = 1 .. Len(events) /\ Len(events) \in Nat
  BY DEF TypeOK
<1>1. CASE UNCHANGED <<lease, events>> /\ UNCHANGED <<restored.revoked, restored.log>>
  BY <1>1 DEF LogBehindLease, EpochsInOrder, OneTenure, Fenced, RestoreInv,
              RestoreBehindLease, RestoreEndsTenures
<1>2. ASSUME NEW o \in Owner, NEW e \in EventRow, AcquirerRecords(o, e),
             UNCHANGED <<restored.revoked, restored.log>>
      PROVE  EpochInv'
  <2>1. /\ lease'.generation = lease.generation + 1
        /\ lease'.owner = o /\ e.generation = lease'.generation
        /\ e.actor = o /\ e.kind = "coordinator.acquired"
    BY <1>2 DEF AcquirerRecords, Granted
  <2>2. /\ DOMAIN events = 1 .. Len(events)
        /\ DOMAIN events' = 1 .. Len(events) + 1
        /\ Len(events) \in Nat
        /\ \A i \in 1 .. Len(events) : events'[i] = events[i]
        /\ events'[Len(events) + 1] = e
        /\ Len(events') = Len(events) + 1
    BY <1>2, LogGrows DEF AcquirerRecords, TypeOK
  <2>3. LogBehindLease'
    BY <2>1, <2>2, <1>0 DEF LogBehindLease, Fenced
  <2>4. EpochsInOrder'
    BY <2>1, <2>2, <1>0 DEF LogBehindLease, EpochsInOrder, Fenced
  <2>5. OneTenure'
    BY <2>1, <2>2, <1>0 DEF LogBehindLease, OneTenure, Fenced
  <2>6. RestoreInv'
    BY <1>2, <2>1, <2>2, <1>0 DEF RestoreInv, RestoreBehindLease, RestoreEndsTenures, Fenced
  <2> QED BY <2>3, <2>4, <2>5, <2>6
<1>3. ASSUME NEW o \in Owner, NEW g \in Nat \ {0}, NEW e \in EventRow,
             HolderRecords(o, g, e), UNCHANGED <<restored.revoked, restored.log>>
      PROVE  EpochInv'
  <2>1. /\ lease'.generation = lease.generation /\ lease'.owner = lease.owner
        /\ lease.generation = g /\ lease.owner = o /\ ~lease.revoked
        /\ e.generation = g /\ e.actor = o
        /\ e.kind = "coordinator.released" => lease'.revoked
    BY <1>3 DEF HolderRecords, Holds, Active
  <2>2. /\ DOMAIN events = 1 .. Len(events)
        /\ DOMAIN events' = 1 .. Len(events) + 1
        /\ Len(events) \in Nat
        /\ \A i \in 1 .. Len(events) : events'[i] = events[i]
        /\ events'[Len(events) + 1] = e
        /\ Len(events') = Len(events) + 1
    BY <1>3, LogGrows DEF HolderRecords, TypeOK
  <2>3. LogBehindLease'
    BY <2>1, <2>2, <1>0 DEF LogBehindLease, Fenced
  <2>4. EpochsInOrder'
    BY <2>1, <2>2, <1>0 DEF LogBehindLease, EpochsInOrder, Fenced
  <2>5. OneTenure'
    BY <2>1, <2>2, <1>0 DEF LogBehindLease, OneTenure, Fenced
  <2>6. restored.revoked < lease.generation
    BY <1>0, <2>1 DEF RestoreInv, RestoreBehindLease
  <2>7. RestoreInv'
    BY <1>3, <2>1, <2>2, <2>6, <1>0
       DEF RestoreInv, RestoreBehindLease, RestoreEndsTenures, Fenced
  <2> QED BY <2>3, <2>4, <2>5, <2>7
<1>4. ASSUME NEW page \in Seq(EventRow), NotesRecorded(page),
             UNCHANGED <<restored.revoked, restored.log>>
      PROVE  EpochInv'
  <2>1. /\ DOMAIN events = 1 .. Len(events)
        /\ DOMAIN events' = 1 .. Len(events')
        /\ Len(events) \in Nat /\ Len(events') \in Nat
        /\ Len(events) =< Len(events')
        /\ \A i \in 1 .. Len(events) : events'[i] = events[i]
        /\ \A i \in DOMAIN events' \ DOMAIN events :
              \E j \in DOMAIN page : events'[i] = page[j]
    BY <1>4, LogGrowsByPage DEF NotesRecorded, TypeOK
  <2>2. \A i \in DOMAIN events' \ DOMAIN events :
           events'[i].kind \in UnfencedKind
    BY <1>4, <2>1 DEF NotesRecorded
  <2>3. lease' = lease
    BY <1>4 DEF NotesRecorded
  <2>4. LogBehindLease'
    BY <2>1, <2>2, <2>3, <1>0 DEF LogBehindLease, Fenced
  <2>5. EpochsInOrder'
    BY <2>1, <2>2, <1>0 DEF EpochsInOrder, Fenced
  <2>6. OneTenure'
    BY <2>1, <2>2, <1>0 DEF OneTenure, Fenced
  <2>7. RestoreInv'
    BY <1>4, <2>1, <2>2, <2>3, <1>0
       DEF RestoreInv, RestoreBehindLease, RestoreEndsTenures, Fenced
  <2> QED BY <2>4, <2>5, <2>6, <2>7
<1>5. CASE LeaseWithdrawn
  <2>1. /\ lease'.generation = lease.generation /\ lease'.owner = lease.owner
        /\ lease'.revoked /\ events' = events
        /\ restored'.revoked = lease.generation /\ restored'.log = Len(events)
    BY <1>5 DEF LeaseWithdrawn, TypeOK, LeaseRow
  <2>2. LogBehindLease'
    BY <2>1 DEF LogBehindLease, Fenced
  <2>3. EpochsInOrder' /\ OneTenure'
    BY <2>1 DEF EpochsInOrder, OneTenure, Fenced
  <2>4. RestoreInv'
    BY <2>1, <1>0, <1>b DEF RestoreInv, RestoreBehindLease, RestoreEndsTenures, Fenced
  <2> QED BY <2>2, <2>3, <2>4
<1> QED BY <1>1, <1>2, <1>3, <1>4, <1>5 DEF LogStep

LEMMA EpochInvariant == Spec => []EpochInv
<1>1. Init => EpochInv
  BY DEF Init, EpochInv, LogBehindLease, EpochsInOrder, OneTenure, RestoreInv,
         RestoreBehindLease, RestoreEndsTenures, NoLease
<1>2. TypeOK /\ TypeOK' /\ EpochInv /\ [Next]_vars => EpochInv'
  BY StepKinds, EpochStep
<1>3. QED
  BY <1>1, <1>2, Typing, PTL DEF Spec

(* Fencing, for every number of coordinators and every history: of what    *)
(* the lease checks admitted the log never shows an older epoch after a    *)
(* newer one, one generation has one actor, a release is the last word of  *)
(* its epoch, and so is a restore; whatever notes of any epoch stand       *)
(* between.                                                                *)
THEOREM Fencing == Spec => []EpochsAreTenures
<1>1. EpochInv => EpochsAreTenures
  BY DEF EpochInv, RestoreInv, EpochsAreTenures
<1>2. QED
  BY <1>1, EpochInvariant, PTL

----------------------------------------------------------------------------
(* The only way the rules let a row change: forwards, with its intent and  *)
(* its epoch kept.                                                         *)
LEMMA MovesAdvance ==
    ASSUME NEW row \in OperationRow, NEW outcome,
           NEW state \in Allowed(row.state) \cup Reconcilable(row.state)
    PROVE  /\ Moved(row, state, outcome).intent = row.intent
           /\ Moved(row, state, outcome).owner = row.owner
           /\ Moved(row, state, outcome).generation = row.generation
           /\ Rank(Moved(row, state, outcome).state) > Rank(row.state)
  BY DEF OperationRow, Allowed, Reconcilable, Moved, Rank, State, Pending,
         Settled

\* What one step may do to the row of one operation.
Advances(op) ==
    operations[op] # NoOperation /\ operations'[op] # operations[op] =>
        /\ operations'[op].intent = operations[op].intent
        /\ operations'[op].owner = operations[op].owner
        /\ operations'[op].generation = operations[op].generation
        /\ Rank(operations'[op].state) > Rank(operations[op].state)

LEMMA StepAdvances ==
    ASSUME TypeOK, Next
    PROVE  \A op \in Operation : Advances(op)
<1>0. operations \in [Operation -> OperationRow]
  BY DEF TypeOK
<1>1. CASE UNCHANGED operations
  BY <1>1 DEF Advances
<1>2. ASSUME NEW o \in Owner, NEW g \in Issued, NEW op \in Operation,
             NEW intent \in Intent, PrepareOperation(o, g, op, intent)
      PROVE  \A q \in Operation : Advances(q)
  BY <1>0, <1>2 DEF PrepareOperation, Advances
<1>3. ASSUME NEW op \in Operation, NEW outcome,
             NEW state \in Allowed(operations[op].state)
                           \cup Reconcilable(operations[op].state),
             operations' = [operations EXCEPT ![op] = Moved(@, state, outcome)]
      PROVE  \A q \in Operation : Advances(q)
  <2>1. operations'[op] = Moved(operations[op], state, outcome)
    BY <1>0, <1>3
  <2>2. \A q \in Operation \ {op} : operations'[q] = operations[q]
    BY <1>0, <1>3
  <2>3. Advances(op)
    BY <1>0, <2>1, MovesAdvance DEF Advances
  <2>4. \A q \in Operation \ {op} : Advances(q)
    BY <2>2 DEF Advances
  <2> QED BY <2>3, <2>4
<1>4. ASSUME NEW o \in Owner, NEW g \in Issued, NEW op \in Operation,
             NEW state, NEW outcome, Transition(o, g, op, state, outcome)
      PROVE  \A q \in Operation : Advances(q)
  BY <1>3, <1>4 DEF Transition, MayMove
<1>5. ASSUME NEW o \in Owner, NEW g \in Issued, NEW op \in Operation,
             NEW state, ReconcileOperation(o, g, op, state)
      PROVE  \A q \in Operation : Advances(q)
  <2>1. PICK outcome \in Outcome :
           operations' = [operations EXCEPT ![op] = Moved(@, state, outcome)]
    BY <1>5 DEF ReconcileOperation
  <2> QED BY <1>3, <1>5, <2>1 DEF ReconcileOperation, MayReconcile
<1>6. ASSUME NEW o \in Owner, NEW g \in Issued, NEW op \in Operation,
             OperationNext(o, g, op)
      PROVE  \A q \in Operation : Advances(q)
  BY <1>2, <1>4, <1>5, <1>6
     DEF OperationNext, MarkDispatched, CompleteOperation, MarkUncertain,
         RejectOperation
<1> QED
  BY <1>1, <1>6
     DEF Next, LeaseNext, ClockMoves, AcquireLease, RenewLease, ReleaseLease,
         CommitDecision, PutMapping, AppendEvent, RemapRepository, SourceNext,
         IngestPage, IngestContiguous, RecordPage, RecordFeedGap, FileNext,
         WriteArtifact, LeaveOrphan, Restore, NoteRestore, work

(* Operations only advance, for every set of operations and every          *)
(* interleaving of the callers: a settled or uncertain outcome is never    *)
(* taken back and the intent and the epoch are written once.               *)
THEOREM Advancing == Spec => OperationsOnlyAdvance
<1>1. TypeOK /\ [Next]_vars =>
         [\A op \in Operation : Advances(op)]_vars
  BY StepAdvances
<1>2. QED
  BY <1>1, Typing, PTL DEF Spec, OperationsOnlyAdvance, Advances
----------------------------------------------------------------------------
(* The tables are what the log says.  Each table has an invariant of its   *)
(* own that names the last event about a row instead of choosing it.  A    *)
(* step writes events of one topic and the tables of that topic            *)
(* (StepTopics); it preserves the invariants of the other tables because   *)
(* it is silent about them.                                                *)
(* The log from one state to the next.                                     *)

\* The log keeps its rows, and the new ones are of these kinds.
Writes(kinds) ==
    /\ Len(events) =< Len(events')
    /\ \A i \in 1 .. Len(events) : events'[i] = events[i]
    /\ \A i \in (Len(events) + 1) .. Len(events') : events'[i].kind \in kinds

Latest(indices, i) == i \in indices /\ \A j \in indices : j =< i

LogDomain == DOMAIN events = 1 .. Len(events) /\ Len(events) \in Nat

LEMMA Domains == TypeOK => LogDomain
  BY DEF TypeOK, LogDomain

LEMMA RowsTyped ==
    ASSUME TypeOK
    PROVE  \A i \in DOMAIN events : events[i].number \in Nat /\ events[i].previous \in Nat
<1>1. \A i \in DOMAIN events : events[i] \in EventRow
  BY DEF TypeOK
<1> QED BY <1>1 DEF EventRow

LEMMA LatestIsLast ==
    ASSUME NEW S, S \subseteq Nat, NEW i, Latest(S, i)
    PROVE  LastOf(S) = i /\ S # {}
<1>1. i \in S /\ \A j \in S : j =< i
  BY DEF Latest
<1>2. \A k \in S : (\A j \in S : j =< k) => k = i
  BY <1>1
<1>3. LastOf(S) \in S /\ \A j \in S : j =< LastOf(S)
  BY <1>1, Zenon DEF LastOf
<1> QED BY <1>1, <1>2, <1>3

LEMMA Silence ==
    ASSUME TypeOK, TypeOK', NEW K, Writes(K), NEW kinds, K \cap kinds = {}
    PROVE  /\ Said(kinds)' = Said(kinds)
           /\ \A i \in Said(kinds) : events'[i] = events[i]
           /\ \A x : About(kinds, x)' = About(kinds, x)
           /\ \A x : \A i \in About(kinds, x) : events'[i] = events[i]
<1>1. LogDomain /\ LogDomain'
  BY Domains DEF LogDomain, TypeOK
<1>2. \A i : i \in DOMAIN events' /\ events'[i].kind \in kinds
             <=> i \in DOMAIN events /\ events[i].kind \in kinds
  BY <1>1 DEF Writes, LogDomain
<1>3. \A i \in DOMAIN events : events'[i] = events[i]
  BY <1>1 DEF Writes, LogDomain
<1>4. Said(kinds)' = Said(kinds)
  BY <1>2 DEF Said
<1>5. \A x : About(kinds, x)' = About(kinds, x)
  BY <1>2, <1>3 DEF About
<1> QED BY <1>3, <1>4, <1>5 DEF Said, About

\* What an action does that records the event e.
LEMMA Recorded ==
    ASSUME TypeOK, TypeOK', NEW e, Record(e)
    PROVE  /\ e \in EventRow /\ events' = Append(events, e)
           /\ \A kinds : e.kind \in kinds => Writes(kinds)
<1>1. events' = Append(events, e) /\ events \in Seq(EventRow) /\ events' \in Seq(EventRow)
  BY DEF Record, TypeOK
<1>2. e \in EventRow
  BY <1>1, AppendProperties DEF Record
<1> QED BY <1>1, <1>2, LogGrows DEF Writes

\* One event more about its subject.
LEMMA OneSaid ==
    ASSUME TypeOK, TypeOK', NEW e, Record(e), NEW kinds, e.kind \in kinds,
           NEW x, e.subject = x
    PROVE  /\ Len(events) \in Nat /\ Len(events') = Len(events) + 1
           /\ events'[Len(events')] = e
           /\ Said(kinds)' = Said(kinds) \cup {Len(events')}
           /\ Latest(Said(kinds)', Len(events'))
           /\ \A i \in Said(kinds) : i \in 1 .. Len(events) /\ events'[i] = events[i]
           /\ About(kinds, x)' = About(kinds, x) \cup {Len(events')}
           /\ Latest(About(kinds, x)', Len(events'))
           /\ About(kinds, x) \subseteq 1 .. Len(events)
           /\ \A y : y # x => About(kinds, y)' = About(kinds, y)
           /\ \A y : \A i \in About(kinds, y) : events'[i] = events[i]
<1>1. e \in EventRow /\ events' = Append(events, e)
  BY Recorded
<1>2. /\ Len(events) \in Nat /\ Len(events') = Len(events) + 1
      /\ events'[Len(events')] = e
      /\ \A i \in 1 .. Len(events) : events'[i] = events[i]
      /\ DOMAIN events = 1 .. Len(events)
      /\ DOMAIN events' = 1 .. Len(events')
  BY <1>1, LogGrows DEF TypeOK
<1>3. DOMAIN events' = DOMAIN events \cup {Len(events')}
  BY <1>2
<1>4. Said(kinds)' = Said(kinds) \cup {Len(events')} /\ Said(kinds) \subseteq 1 .. Len(events)
  BY <1>2, <1>3 DEF Said
<1>5. /\ About(kinds, x)' = About(kinds, x) \cup {Len(events')}
      /\ About(kinds, x) \subseteq 1 .. Len(events)
  BY <1>2, <1>3 DEF About
<1>6. \A y : y # x => About(kinds, y)' = About(kinds, y)
  BY <1>2, <1>3 DEF About
<1>7. \A y : \A i \in About(kinds, y) : events'[i] = events[i]
  BY <1>2 DEF About
<1>8. Latest(Said(kinds)', Len(events')) /\ Latest(About(kinds, x)', Len(events'))
  BY <1>2, <1>4, <1>5 DEF Latest
<1> QED BY <1>2, <1>4, <1>5, <1>6, <1>7, <1>8

(* What the constructors of events write into their columns.               *)
LEMMA EventColumns ==
    /\ \A k, o, g : LET e == Event(k, o, g) IN
          /\ e.kind = k /\ e.actor = o /\ e.generation = g /\ e.subject = None
    /\ \A k, o, g, op, state, data : LET e == OperationEvent(k, o, g, op, state, data) IN
          /\ e.kind = k /\ e.actor = o /\ e.generation = g /\ e.subject = op
          /\ e.state = state
    /\ \A o, g, key, value, n : LET e == MappingEvent(o, g, key, value, n) IN
          /\ e.kind = "mapping.updated" /\ e.subject = key
          /\ e.data = value /\ e.number = n
    /\ \A k, o, g, n : LET e == LeaseEvent(k, o, g, n) IN
          /\ e.kind = k /\ e.actor = o /\ e.generation = g /\ e.number = n
    /\ \A o, g, n : LET e == DecisionEvent(o, g, n) IN
          /\ e.kind = "coordinator.decision" /\ e.number = n
    /\ \A path, value : LET e == ArtifactEvent(path, value) IN
          /\ e.kind = "artifact.recorded" /\ e.subject = path /\ e.data = value
    /\ \A n : SourceEvent(n).kind = "source.event" /\ SourceEvent(n).number = n
    /\ \A m, n : LET e == GapEvent(m, n) IN
          /\ e.kind = "audit.gap" /\ e.previous = m /\ e.number = n
  BY DEF Event, OperationEvent, MappingEvent, LeaseEvent, DecisionEvent, ArtifactEvent,
         SourceEvent, GapEvent

(* The topics of a step.                                                   *)

OperationTopic == Writes(OperationKinds) /\ UNCHANGED <<lease, mappings, inboxAck, evidence>>
MappingTopic == Writes({"mapping.updated"}) /\ UNCHANGED <<lease, operations, inboxAck, evidence>>
LeaseTopic == Writes(LeaseKinds) /\ UNCHANGED <<work, evidence>>
DecisionTopic == Writes({"coordinator.decision"}) /\ UNCHANGED <<lease, operations, mappings, evidence>>
SourceTopic == /\ Writes({"source.event", "audit.gap"})
               /\ UNCHANGED <<lease, work, artifacts, files, restored>>
FileTopic == /\ Writes({"artifact.recorded", "project.restored"})
             /\ UNCHANGED <<work, cursor>>
NoTopic == /\ Writes({"audit.note", "project.repository_remapped"})
           /\ UNCHANGED <<lease, work, evidence>>

OperationStep == \E o \in Owner, g \in Issued, op \in Operation : OperationNext(o, g, op)
MappingStep == \E o \in Owner, g \in Issued, key \in Key, value \in Value :
                  PutMapping(o, g, key, value)
LeaseStep == \/ \E o \in Owner : AcquireLease(o)
             \/ \E o \in Owner, g \in Issued : LeaseNext(o, g)
DecisionStep == \E o \in Owner, g \in Issued, n \in 0 .. MaxEvents : CommitDecision(o, g, n)

(* A step has one topic.                                                   *)
LEMMA StepTopics ==
    ASSUME TypeOK, TypeOK', [Next]_vars
    PROVE  \/ OperationTopic /\ OperationStep
           \/ MappingTopic /\ MappingStep
           \/ LeaseTopic /\ LeaseStep
           \/ DecisionTopic /\ DecisionStep
           \/ SourceTopic /\ SourceNext
           \/ FileTopic /\ FileNext
           \/ NoTopic
<1>0. ASSUME NEW kinds, UNCHANGED events PROVE Writes(kinds)
  BY <1>0, Domains DEF Writes, LogDomain
<1>1. CASE UNCHANGED vars
  BY <1>1, <1>0 DEF vars, NoTopic
<1>2. CASE ClockMoves
  BY <1>2, <1>0 DEF ClockMoves, NoTopic
<1>3. ASSUME NEW g \in Issued \cup {0}, AppendEvent(g) PROVE NoTopic
  BY <1>3, Recorded, EventColumns DEF AppendEvent, Note, NoTopic
<1>4. ASSUME NEW o \in Owner, NEW g \in Issued, RemapRepository(o, g) PROVE NoTopic
  BY <1>4, Recorded, EventColumns DEF RemapRepository, NoTopic
<1>5. ASSUME NEW o \in Owner, NEW g \in Issued, NEW op \in Operation,
             OperationNext(o, g, op)
      PROVE  OperationTopic
  <2>1. ASSUME NEW intent \in Intent, PrepareOperation(o, g, op, intent)
        PROVE  OperationTopic
    BY <2>1, Recorded, EventColumns DEF PrepareOperation, OperationTopic, OperationKinds
  <2>2. ASSUME NEW state, NEW outcome, Transition(o, g, op, state, outcome)
        PROVE  OperationTopic
    BY <2>2, Recorded, EventColumns DEF Transition, OperationTopic, OperationKinds
  <2>3. ASSUME NEW state, ReconcileOperation(o, g, op, state) PROVE OperationTopic
    BY <2>3, Recorded, EventColumns DEF ReconcileOperation, OperationTopic, OperationKinds
  <2> QED
    BY <1>5, <2>1, <2>2, <2>3
       DEF OperationNext, MarkDispatched, CompleteOperation, MarkUncertain, RejectOperation
<1>6. ASSUME NEW o \in Owner, NEW g \in Issued, NEW key \in Key, NEW value \in Value,
             PutMapping(o, g, key, value)
      PROVE  MappingTopic
  BY <1>6, Recorded, EventColumns DEF PutMapping, MappingTopic
<1>7. ASSUME NEW o \in Owner, AcquireLease(o) PROVE LeaseTopic
  BY <1>7, Recorded, EventColumns DEF AcquireLease, LeaseTopic, LeaseKinds
<1>8. ASSUME NEW o \in Owner, NEW g \in Issued, LeaseNext(o, g) PROVE LeaseTopic
  BY <1>8, Recorded, EventColumns
     DEF LeaseNext, RenewLease, ReleaseLease, LeaseTopic, LeaseKinds
<1>9. ASSUME NEW o \in Owner, NEW g \in Issued, NEW n \in 0 .. MaxEvents,
             CommitDecision(o, g, n)
      PROVE  DecisionTopic
  BY <1>9, Recorded, EventColumns DEF CommitDecision, DecisionTopic
<1>10. ASSUME SourceNext PROVE SourceTopic
  <2>1. ASSUME NEW page \in Pages, RecordPage(page) PROVE SourceTopic
    <3> DEFINE rows == AsEvents(page)
    <3>1. events' = events \o rows /\ rows \in Seq(EventRow)
          /\ \A i \in DOMAIN rows : rows[i].kind = "source.event"
      BY <2>1, PageType, EventColumns DEF RecordPage, AsEvents
    <3>2. Writes({"source.event", "audit.gap"})
      <4>1. \A i \in DOMAIN events' \ DOMAIN events : events'[i].kind = "source.event"
        BY <3>1, LogGrowsByPage DEF TypeOK
      <4>2. /\ DOMAIN events = 1 .. Len(events)
            /\ DOMAIN events' = 1 .. Len(events')
            /\ Len(events) \in Nat /\ Len(events') \in Nat
            /\ Len(events) =< Len(events')
            /\ \A i \in 1 .. Len(events) : events'[i] = events[i]
        BY <3>1, LogGrowsByPage DEF TypeOK
      <4> QED BY <4>1, <4>2 DEF Writes
    <3> QED BY <2>1, <3>2 DEF RecordPage, SourceTopic
  <2>2. ASSUME NEW snapshot \in Published, RecordFeedGap(snapshot) PROVE SourceTopic
    BY <2>2, Recorded, EventColumns DEF RecordFeedGap, Note, SourceTopic
  <2> QED BY <1>10, <2>1, <2>2 DEF SourceNext, IngestPage, IngestContiguous
<1>11. ASSUME FileNext PROVE FileTopic
  <2>1. ASSUME NEW path \in Path, NEW content \in Value, WriteArtifact(path, content)
        PROVE  FileTopic
    BY <2>1, Recorded, EventColumns DEF WriteArtifact, Note, FileTopic
  <2>2. ASSUME NEW path \in Path, NEW content \in Value, LeaveOrphan(path, content)
        PROVE  FileTopic
    BY <2>2, <1>0 DEF LeaveOrphan, FileTopic
  <2>3. CASE Restore
    BY <2>3, <1>0 DEF Restore, FileTopic
  <2>4. CASE NoteRestore
    BY <2>4, Recorded, EventColumns DEF NoteRestore, Note, FileTopic
  <2> QED BY <1>11, <2>1, <2>2, <2>3, <2>4 DEF FileNext
<1> QED
  BY <1>1, <1>2, <1>3, <1>4, <1>5, <1>6, <1>7, <1>8, <1>9, <1>10, <1>11
     DEF Next, OperationStep, MappingStep, LeaseStep, DecisionStep

----------------------------------------------------------------------------
(* The invariant of each table.                                            *)

OperationsLogged ==
    \A op \in Operation :
        LET said == About(OperationKinds, op)
        IN  IF said = {} THEN operations[op].state = "absent"
            ELSE \E i : Latest(said, i) /\ operations[op].state = events[i].state

MappingsLogged ==
    \A key \in Key :
        LET said == About({"mapping.updated"}, key)
        IN  /\ mappings[key].version = Cardinality(said)
            /\ said # {} => \E i : /\ Latest(said, i)
                                  /\ mappings[key].payload = events[i].data
                                  /\ mappings[key].version = events[i].number

\* The lease as the lease event says it, unless a restore withdrew it.
LeaseSaidBy(e) ==
    [owner |-> e.actor, generation |-> e.generation, expires |-> e.number,
     revoked |-> e.kind = "coordinator.released" \/ e.generation = restored.revoked]

LeaseLogged ==
    IF Said(LeaseKinds) = {} THEN lease = NoLease
    ELSE \E i : Latest(Said(LeaseKinds), i) /\ lease = LeaseSaidBy(events[i])

ArtifactsLogged ==
    \A path \in Path :
        LET said == About({"artifact.recorded"}, path)
        IN  \/ said = {} /\ artifacts[path] = None
            \/ \E i : /\ said = {i} /\ artifacts[path] = events[i].data
                      /\ artifacts[path] \in Value /\ files[path] = artifacts[path]

DecisionsLogged ==
    /\ \A i \in Decisions : events[i].number < i
    /\ \A i, j \in Decisions : i < j => events[i].number =< events[j].number
    /\ IF Decisions = {} THEN inboxAck = 0
       ELSE \E i : Latest(Decisions, i) /\ inboxAck = events[i].number

LEMMA OperationsStep ==
    ASSUME TypeOK, TypeOK', [Next]_vars, OperationsLogged
    PROVE  OperationsLogged'
<1>1. CASE UNCHANGED operations /\ \E K : Writes(K) /\ K \cap OperationKinds = {}
  <2>1. \A x : About(OperationKinds, x)' = About(OperationKinds, x)
    BY <1>1, Silence
  <2>2. \A x : \A i \in About(OperationKinds, x) : events'[i] = events[i]
    BY <1>1, Silence
  <2> QED BY <1>1, <2>1, <2>2 DEF OperationsLogged, Latest
<1>2. ASSUME NEW op \in Operation, NEW e, Record(e), e.kind \in OperationKinds,
             e.subject = op, operations' = [operations EXCEPT ![op] = operations'[op]],
             operations'[op].state = e.state
      PROVE  OperationsLogged'
  <2>1. /\ events'[Len(events')] = e
        /\ Latest(About(OperationKinds, op)', Len(events'))
        /\ \A x : x # op => About(OperationKinds, x)' = About(OperationKinds, x)
        /\ \A x : \A i \in About(OperationKinds, x) : events'[i] = events[i]
    BY <1>2, OneSaid
  <2>2. ASSUME NEW q \in Operation, q # op
        PROVE  operations'[q] = operations[q]
    BY <1>2, <2>2 DEF TypeOK
  <2>3. About(OperationKinds, op)' # {}
    BY <2>1 DEF Latest
  <2> QED BY <1>2, <2>1, <2>2, <2>3 DEF OperationsLogged, Latest
<1>3. CASE OperationStep
  <2> PICK o \in Owner, g \in Issued, op \in Operation : OperationNext(o, g, op)
    BY <1>3 DEF OperationStep
  <2>0. operations \in [Operation -> OperationRow]
    BY DEF TypeOK
  <2>1. ASSUME NEW intent \in Intent, PrepareOperation(o, g, op, intent)
        PROVE  OperationsLogged'
    <3> DEFINE e == OperationEvent("operation.prepared", o, g, op, "prepared", intent)
    <3>1. e.kind \in OperationKinds /\ e.subject = op /\ e.state = "prepared"
      BY EventColumns DEF OperationKinds
    <3>2. operations'[op].state = "prepared"
      BY <2>0, <2>1 DEF PrepareOperation, Prepared
    <3>3. Record(e) /\ operations' = [operations EXCEPT ![op] = operations'[op]]
      BY <2>0, <2>1 DEF PrepareOperation
    <3> HIDE DEF e
    <3> QED BY <1>2, <3>1, <3>2, <3>3
  <2>2. ASSUME NEW kind \in OperationKinds, NEW state, NEW outcome,
               operations' = [operations EXCEPT ![op] = Moved(@, state, outcome)],
               Record(OperationEvent(kind, o, g, op, state, outcome))
        PROVE  OperationsLogged'
    <3> DEFINE e == OperationEvent(kind, o, g, op, state, outcome)
    <3>1. e.kind \in OperationKinds /\ e.subject = op /\ e.state = state
      BY EventColumns
    <3>2. operations'[op].state = state
      BY <2>0, <2>2 DEF Moved, OperationRow
    <3>3. Record(e) /\ operations' = [operations EXCEPT ![op] = operations'[op]]
      BY <2>0, <2>2
    <3> HIDE DEF e
    <3> QED BY <1>2, <3>1, <3>2, <3>3
  <2>3. ASSUME NEW state, NEW outcome, Transition(o, g, op, state, outcome)
        PROVE  OperationsLogged'
    BY <2>2, <2>3 DEF Transition, OperationKinds
  <2>4. ASSUME NEW state, ReconcileOperation(o, g, op, state)
        PROVE  OperationsLogged'
    BY <2>2, <2>4 DEF ReconcileOperation, OperationKinds
  <2> QED
    BY <2>1, <2>3, <2>4
       DEF OperationNext, MarkDispatched, CompleteOperation, MarkUncertain, RejectOperation
<1> QED
  BY <1>1, <1>3, StepTopics
     DEF MappingTopic, LeaseTopic, DecisionTopic, SourceTopic, FileTopic, NoTopic,
         OperationKinds, LeaseKinds, work

LEMMA MappingsStep ==
    ASSUME TypeOK, TypeOK', [Next]_vars, MappingsLogged
    PROVE  MappingsLogged'
<1> DEFINE K == {"mapping.updated"}
<1>1. CASE UNCHANGED mappings /\ \E L : Writes(L) /\ L \cap K = {}
  <2>1. \A x : About(K, x)' = About(K, x)
    BY <1>1, Silence
  <2>2. \A x : \A i \in About(K, x) : events'[i] = events[i]
    BY <1>1, Silence
  <2> QED BY <1>1, <2>1, <2>2 DEF MappingsLogged, Latest
<1>2. CASE MappingStep
  <2> PICK o \in Owner, g \in Issued, key \in Key, value \in Value :
         PutMapping(o, g, key, value)
    BY <1>2 DEF MappingStep
  <2> DEFINE version == mappings[key].version + 1
             e == MappingEvent(o, g, key, value, version)
  <2>1. Record(e) /\ e.kind \in K /\ e.subject = key /\ e.data = value /\ e.number = version
    BY EventColumns DEF PutMapping
  <2>2. /\ mappings'[key].payload = value /\ mappings'[key].version = version
        /\ \A k \in Key : k # key => mappings'[k] = mappings[k]
    BY DEF PutMapping, TypeOK
  <2> HIDE DEF e, K
  <2>3. /\ Len(events) \in Nat /\ Len(events') = Len(events) + 1
        /\ events'[Len(events')] = e
        /\ About(K, key)' = About(K, key) \cup {Len(events')}
        /\ About(K, key) \subseteq 1 .. Len(events)
        /\ Latest(About(K, key)', Len(events'))
    BY <2>1, OneSaid
  <2>4. /\ \A x : x # key => About(K, x)' = About(K, x)
        /\ \A x : \A i \in About(K, x) : events'[i] = events[i]
    BY <2>1, OneSaid
  <2>5. Cardinality(About(K, key)') = Cardinality(About(K, key)) + 1
    <3>a. IsFiniteSet(1 .. Len(events))
      BY <2>3, FS_Interval
    <3>1. IsFiniteSet(About(K, key))
      BY <2>3, <3>a, FS_Subset
    <3>2. Len(events') \notin About(K, key)
      BY <2>3
    <3> QED BY <2>3, <3>1, <3>2, FS_AddElement
  <2>6. mappings'[key].version = Cardinality(About(K, key)')
    BY <2>2, <2>5 DEF MappingsLogged, K
  <2>7. \A k \in Key : k # key =>
           LET said == About(K, k)'
           IN  /\ mappings'[k].version = Cardinality(said)
               /\ said # {} => \E i : /\ Latest(said, i)
                                     /\ mappings'[k].payload = events'[i].data
                                     /\ mappings'[k].version = events'[i].number
    BY <2>2, <2>4 DEF MappingsLogged, Latest, K
  <2> QED BY <2>1, <2>2, <2>3, <2>6, <2>7 DEF MappingsLogged, K
<1> QED
  BY <1>1, <1>2, StepTopics
     DEF OperationTopic, LeaseTopic, DecisionTopic, SourceTopic, FileTopic, NoTopic,
         OperationKinds, LeaseKinds, work

LEMMA DecisionsStep ==
    ASSUME TypeOK, TypeOK', [Next]_vars, DecisionsLogged
    PROVE  DecisionsLogged'
<1> DEFINE K == {"coordinator.decision"}
<1>1. CASE UNCHANGED inboxAck /\ \E L : Writes(L) /\ L \cap K = {}
  <2>1. Decisions' = Decisions /\ \A i \in Decisions : events'[i] = events[i]
    BY <1>1, Silence DEF Decisions
  <2> QED BY <1>1, <2>1 DEF DecisionsLogged, Latest
<1>2. CASE DecisionStep
  <2> PICK o \in Owner, g \in Issued, n \in 0 .. MaxEvents : CommitDecision(o, g, n)
    BY <1>2 DEF DecisionStep
  <2> DEFINE e == DecisionEvent(o, g, n)
  <2>1. /\ Record(e) /\ e.kind \in K /\ e.number = n
        /\ n \in inboxAck .. Len(events) /\ inboxAck' = n /\ inboxAck \in Nat
    BY EventColumns DEF CommitDecision, TypeOK
  <2>a. \A i \in Decisions : events[i].number \in Nat
    BY RowsTyped DEF Decisions, Said
  <2> HIDE DEF e, K
  <2>2. /\ Len(events) \in Nat /\ Len(events') = Len(events) + 1
        /\ events'[Len(events')] = e
        /\ Said(K)' = Said(K) \cup {Len(events')}
        /\ Latest(Said(K)', Len(events'))
        /\ \A i \in Said(K) : i \in 1 .. Len(events) /\ events'[i] = events[i]
    BY <2>1, OneSaid
  <2>3. \A i \in Decisions : events[i].number =< inboxAck
    <3> SUFFICES ASSUME NEW i \in Decisions PROVE events[i].number =< inboxAck
      OBVIOUS
    <3> PICK m : Latest(Decisions, m) /\ inboxAck = events[m].number
      BY DEF DecisionsLogged
    <3>1. m \in Decisions /\ i =< m /\ i \in Nat /\ m \in Nat
      BY <2>2 DEF Latest, Decisions, K
    <3>2. i = m \/ i < m
      BY <3>1
    <3> QED BY <3>1, <3>2, <2>a DEF DecisionsLogged
  <2>4. Decisions' = Decisions \cup {Len(events')} /\ Latest(Decisions', Len(events'))
        /\ \A i \in Decisions : i \in 1 .. Len(events) /\ events'[i] = events[i]
    BY <2>2 DEF Decisions, K
  <2>5. \A i \in Decisions' : events'[i].number < i
    BY <2>1, <2>2, <2>4 DEF DecisionsLogged
  <2>6. \A i, j \in Decisions' : i < j => events'[i].number =< events'[j].number
    BY <2>1, <2>2, <2>3, <2>4, <2>a DEF DecisionsLogged
  <2> QED BY <2>1, <2>2, <2>4, <2>5, <2>6 DEF DecisionsLogged
<1> QED
  BY <1>1, <1>2, StepTopics
     DEF OperationTopic, MappingTopic, LeaseTopic, SourceTopic, FileTopic, NoTopic,
         OperationKinds, LeaseKinds, work

LEMMA ArtifactsStep ==
    ASSUME TypeOK, TypeOK', [Next]_vars, ArtifactsLogged
    PROVE  ArtifactsLogged'
<1> DEFINE K == {"artifact.recorded"}
<1>1. ASSUME UNCHANGED artifacts,
             \A path \in Path : artifacts[path] \in Value /\ files[path] = artifacts[path]
                                   => files'[path] = artifacts[path],
             NEW L, Writes(L), L \cap K = {}
      PROVE  ArtifactsLogged'
  <2>1. \A x : About(K, x)' = About(K, x)
    BY <1>1, Silence
  <2>2. \A x : \A i \in About(K, x) : events'[i] = events[i]
    BY <1>1, Silence
  <2> QED BY <1>1, <2>1, <2>2 DEF ArtifactsLogged
<1>2. CASE FileNext
  <2>1. ASSUME NEW path \in Path, NEW content \in Value, WriteArtifact(path, content)
        PROVE  ArtifactsLogged'
    <3> DEFINE e == ArtifactEvent(path, content)
    <3>1. /\ Record(e) /\ e.kind \in K /\ e.subject = path /\ e.data = content
          /\ artifacts[path] = None
      BY <2>1, EventColumns DEF WriteArtifact, Note, MayWrite
    <3>2. /\ artifacts'[path] = content /\ files'[path] = content
          /\ \A p \in Path : p # path => artifacts'[p] = artifacts[p] /\ files'[p] = files[p]
      BY <2>1 DEF WriteArtifact, TypeOK
    <3> HIDE DEF e, K
    <3>3. /\ events'[Len(events')] = e
          /\ About(K, path)' = About(K, path) \cup {Len(events')}
          /\ \A x : x # path => About(K, x)' = About(K, x)
          /\ \A x : \A i \in About(K, x) : events'[i] = events[i]
      BY <3>1, OneSaid
    <3>4. About(K, path) = {}
      BY <3>1, KeysAssumption DEF ArtifactsLogged, K
    <3>5. About(K, path)' = {Len(events')}
      BY <3>3, <3>4
    <3>6. \A p \in Path : p # path =>
             LET said == About(K, p)'
             IN  \/ said = {} /\ artifacts'[p] = None
                 \/ \E i : /\ said = {i} /\ artifacts'[p] = events'[i].data
                           /\ artifacts'[p] \in Value /\ files'[p] = artifacts'[p]
      BY <3>2, <3>3 DEF ArtifactsLogged, K
    <3> QED BY <3>1, <3>2, <3>3, <3>5, <3>6 DEF ArtifactsLogged, K
  <2>2. ASSUME NEW path \in Path, NEW content \in Value, LeaveOrphan(path, content)
        PROVE  ArtifactsLogged'
    <3>1. \A p \in Path : artifacts[p] # None => files'[p] = files[p]
      BY <2>2 DEF LeaveOrphan, MayWrite, TypeOK
    <3>2. Writes({}) /\ UNCHANGED artifacts
      BY <2>2, Domains DEF LeaveOrphan, Writes, LogDomain
    <3> QED BY <1>1, <3>1, <3>2, KeysAssumption
  <2>3. CASE Restore
    <3>1. Writes({}) /\ UNCHANGED artifacts /\ files' = artifacts
      BY <2>3, Domains DEF Restore, Writes, LogDomain
    <3> QED BY <1>1, <3>1
  <2>4. CASE NoteRestore
    <3>1. Writes({"project.restored"})
      BY <2>4, Recorded, EventColumns DEF NoteRestore, Note
    <3> QED BY <1>1, <2>4, <3>1 DEF NoteRestore
  <2> QED BY <1>2, <2>1, <2>2, <2>3, <2>4 DEF FileNext
<1> QED
  BY <1>1, <1>2, StepTopics
     DEF OperationTopic, MappingTopic, LeaseTopic, DecisionTopic, SourceTopic, NoTopic,
         OperationKinds, LeaseKinds, evidence

(* The lease row and the last thing said about it.  Only a restore changes *)
(* the row in silence, and says so in `restored`.                          *)
LEMMA LeaseRowStep ==
    ASSUME TypeOK, TypeOK', [Next]_vars, LeaseLogged, EpochInv
    PROVE  LeaseLogged'
<1>0. /\ restored.revoked \in Nat /\ restored.revoked =< lease.generation
      /\ restored.revoked = lease.generation => lease.revoked
      /\ lease \in LeaseRow /\ lease.generation \in Nat
  BY DEF EpochInv, RestoreInv, RestoreBehindLease, TypeOK, LeaseRow
<1>1. ASSUME UNCHANGED lease, restored'.revoked = restored.revoked,
             NEW L, Writes(L), L \cap LeaseKinds = {}
      PROVE  LeaseLogged'
  <2>1. /\ Said(LeaseKinds)' = Said(LeaseKinds)
        /\ \A i \in Said(LeaseKinds) : events'[i] = events[i]
    BY <1>1, Silence
  <2> QED BY <1>1, <2>1 DEF LeaseLogged, LeaseSaidBy, Latest
<1>2. ASSUME NEW e, Record(e), e.kind \in LeaseKinds, UNCHANGED restored,
             lease' = LeaseSaidBy(e)
      PROVE  LeaseLogged'
  <2>1. events'[Len(events')] = e /\ Latest(Said(LeaseKinds)', Len(events'))
    BY <1>2, OneSaid
  <2>2. Said(LeaseKinds)' # {}
    BY <2>1 DEF Latest
  <2> QED BY <1>2, <2>1, <2>2 DEF LeaseLogged, LeaseSaidBy
<1>3. CASE LeaseStep
  <2>1. ASSUME NEW o \in Owner, AcquireLease(o) PROVE LeaseLogged'
    <3> DEFINE e == LeaseEvent("coordinator.acquired", o, lease'.generation, lease'.expires)
    <3>1. /\ Record(e) /\ e.kind \in LeaseKinds /\ e.actor = o
          /\ e.kind # "coordinator.released"
          /\ e.generation = lease'.generation /\ e.number = lease'.expires
      BY <2>1, EventColumns DEF AcquireLease, LeaseKinds
    <3>2. /\ lease' = [owner |-> o, generation |-> lease'.generation,
                       expires |-> lease'.expires, revoked |-> FALSE]
          /\ lease'.generation = lease.generation + 1
      BY <2>1 DEF AcquireLease, Granted
    <3>3. UNCHANGED restored
      BY <2>1 DEF AcquireLease, evidence
    <3> HIDE DEF e
    <3>4. e.generation # restored.revoked
      BY <1>0, <3>1, <3>2
    <3>5. lease' = LeaseSaidBy(e)
      BY <3>1, <3>2, <3>4 DEF LeaseSaidBy
    <3> QED BY <1>2, <3>1, <3>3, <3>5
  <2>2. ASSUME NEW o \in Owner, NEW g \in Issued, RenewLease(o, g) PROVE LeaseLogged'
    <3> DEFINE e == LeaseEvent("coordinator.renewed", o, g, lease'.expires)
    <3>1. /\ Record(e) /\ e.kind \in LeaseKinds /\ e.actor = o
          /\ e.kind # "coordinator.released"
          /\ e.generation = g /\ e.number = lease'.expires
      BY <2>2, EventColumns DEF RenewLease, LeaseKinds
    <3>2. ~lease.revoked /\ lease.owner = o /\ lease.generation = g
      BY <2>2 DEF RenewLease, Holds, Active
    <3>3. lease' = [owner |-> o, generation |-> g, expires |-> lease'.expires,
                    revoked |-> FALSE]
      BY <1>0, <2>2, <3>2 DEF RenewLease, LeaseRow
    <3>4. UNCHANGED restored
      BY <2>2 DEF RenewLease, evidence
    <3> HIDE DEF e
    <3>5. lease' = LeaseSaidBy(e)
      BY <1>0, <3>1, <3>2, <3>3 DEF LeaseSaidBy
    <3> QED BY <1>2, <3>1, <3>4, <3>5
  <2>3. ASSUME NEW o \in Owner, NEW g \in Issued, ReleaseLease(o, g) PROVE LeaseLogged'
    <3> DEFINE e == LeaseEvent("coordinator.released", o, g, lease.expires)
    <3>1. /\ Record(e) /\ e.kind \in LeaseKinds /\ e.actor = o
          /\ e.kind = "coordinator.released"
          /\ e.generation = g /\ e.number = lease.expires
      BY <2>3, EventColumns DEF ReleaseLease, LeaseKinds
    <3>2. lease.owner = o /\ lease.generation = g
      BY <2>3 DEF ReleaseLease, Holds
    <3>3. lease' = [owner |-> o, generation |-> g, expires |-> lease.expires,
                    revoked |-> TRUE]
      BY <1>0, <2>3, <3>2 DEF ReleaseLease, LeaseRow
    <3>4. UNCHANGED restored
      BY <2>3 DEF ReleaseLease, evidence
    <3> HIDE DEF e
    <3>5. lease' = LeaseSaidBy(e)
      BY <3>1, <3>3 DEF LeaseSaidBy
    <3> QED BY <1>2, <3>1, <3>4, <3>5
  <2> QED BY <1>3, <2>1, <2>2, <2>3 DEF LeaseStep, LeaseNext
<1>4. CASE FileTopic /\ FileNext
  <2>1. CASE Restore
    <3>1. /\ lease' = [lease EXCEPT !.revoked = TRUE]
          /\ restored'.revoked = lease.generation
      BY <2>1 DEF Restore
    <3>2. Writes({})
      BY <2>1, Domains DEF Restore, Writes, LogDomain
    <3>3. /\ Said(LeaseKinds)' = Said(LeaseKinds)
          /\ \A i \in Said(LeaseKinds) : events'[i] = events[i]
      BY <3>2, Silence
    <3>4. CASE Said(LeaseKinds) = {}
      <4>1. lease = NoLease
        BY <3>4 DEF LeaseLogged
      <4>2. lease' = NoLease
        BY <3>1, <4>1 DEF NoLease
      <4> QED BY <3>3, <3>4, <4>2 DEF LeaseLogged
    <3>5. CASE Said(LeaseKinds) # {}
      <4> PICK i : Latest(Said(LeaseKinds), i) /\ lease = LeaseSaidBy(events[i])
        BY <3>5 DEF LeaseLogged
      <4>1. lease' = LeaseSaidBy(events[i])'
        BY <3>1, <3>3 DEF LeaseSaidBy, Latest
      <4> QED BY <3>3, <3>5, <4>1 DEF LeaseLogged, Latest
    <3> QED BY <3>4, <3>5
  <2>2. CASE ~Restore
    <3>1. UNCHANGED lease /\ restored'.revoked = restored.revoked
      BY <1>4, <2>2 DEF FileNext, WriteArtifact, NoteRestore, LeaveOrphan, TypeOK
    <3> QED BY <1>1, <1>4, <3>1 DEF FileTopic, LeaseKinds
  <2> QED BY <2>1, <2>2
<1> QED
  BY <1>1, <1>3, <1>4, StepTopics
     DEF OperationTopic, MappingTopic, DecisionTopic, SourceTopic, NoTopic,
         OperationKinds, LeaseKinds, evidence

----------------------------------------------------------------------------
(* The feed: what is recorded lies behind the cursor.                      *)
FeedLogged ==
    /\ FeedIsExact
    /\ \A i \in SourceEvents : events[i].number =< cursor /\ events[i].number \in Published
    /\ \A i \in Said({"audit.gap"}) : events[i].number =< cursor

\* A page that continues the feed: it ascends from the cursor and leaves
\* nothing out up to its end.
Continues(page) ==
    /\ \A i \in DOMAIN page : page[i] > cursor
    /\ \A i, j \in DOMAIN page : i < j => page[i] < page[j]
    /\ \A c \in Published : cursor < c /\ c =< page[Len(page)] => c \in Entries(page)

LEMMA IngestedPages ==
    ASSUME TypeOK, NEW page \in Pages,
           IngestContiguous(page) \/ \E previous : IngestPage(previous, page)
    PROVE  Continues(page) /\ RecordPage(page)
<1> DEFINE n == Len(page)
<1>1. /\ n \in Nat \ {0} /\ DOMAIN page = 1 .. n /\ cursor \in Nat
      /\ \A i \in 1 .. n : page[i] \in Nat
  BY PageType, PublishedAssumption DEF TypeOK
<1>2. CASE IngestContiguous(page)
  <2>1. \A i \in 1 .. n : page[i] = cursor + i
    BY <1>1, <1>2 DEF IngestContiguous
  <2>2. ASSUME NEW c \in Published, cursor < c, c =< page[n]
        PROVE  c \in Entries(page)
    <3>1. c - cursor \in 1 .. n /\ page[c - cursor] = c
      BY <1>1, <2>1, <2>2, PublishedAssumption
    <3> QED BY <1>1, <3>1 DEF Entries
  <2> HIDE DEF n
  <2>3. \A i \in DOMAIN page : page[i] > cursor
    BY <1>1, <2>1
  <2>4. \A i, j \in DOMAIN page : i < j => page[i] < page[j]
    BY <1>1, <2>1
  <2> QED BY <1>2, <2>2, <2>3, <2>4 DEF IngestContiguous, Continues, n
<1>3. ASSUME NEW previous, IngestPage(previous, page)
      PROVE  Continues(page) /\ RecordPage(page)
  <2>1. page[n] \in Entries(page)
    BY <1>1 DEF Entries
  <2> QED BY <1>1, <1>3, <2>1 DEF IngestPage, Ascending, Attested, Continues
<1> QED BY <1>2, <1>3

LEMMA FeedStep ==
    ASSUME TypeOK, TypeOK', [Next]_vars, FeedLogged
    PROVE  FeedLogged'
<1> DEFINE S == {"source.event"}
           G == {"audit.gap"}
<1>0. /\ LogDomain /\ cursor \in Nat
      /\ \A i \in SourceEvents : events[i].number \in Nat
      /\ \A i \in Said(G) : events[i].number \in Nat /\ events[i].previous \in Nat
  BY RowsTyped, Domains DEF TypeOK, SourceEvents, Said
<1>1. CASE UNCHANGED cursor /\ \E L : Writes(L) /\ L \cap (S \cup G) = {}
  <2>1. PICK L : Writes(L) /\ L \cap (S \cup G) = {}
    BY <1>1
  <2>2. L \cap S = {} /\ L \cap G = {}
    BY <2>1
  <2> HIDE DEF S, G
  <2>3. /\ Said(S)' = Said(S) /\ \A i \in Said(S) : events'[i] = events[i]
        /\ Said(G)' = Said(G) /\ \A i \in Said(G) : events'[i] = events[i]
    BY <2>1, <2>2, Silence
  <2>4. \A c : InGap(c)' = InGap(c)
    BY <2>3 DEF InGap, G
  <2> QED BY <1>1, <2>3, <2>4 DEF FeedLogged, FeedIsExact, SourceEvents, S, G
<1>2. ASSUME NEW page \in Pages, Continues(page), RecordPage(page)
      PROVE  FeedLogged'
  <2> DEFINE n == Len(page)
             old == Len(events)
             rows == AsEvents(page)
  <2>1. /\ n \in Nat \ {0} /\ DOMAIN page = 1 .. n
        /\ rows \in Seq(EventRow) /\ Len(rows) = n
        /\ \A i \in 1 .. n : page[i] \in Published /\ page[i] \in Nat
        /\ \A i \in 1 .. n : rows[i] = SourceEvent(page[i])
    BY PageType, PublishedAssumption DEF AsEvents
  <2>2. events' = events \o rows /\ cursor' = page[n]
    BY <1>2 DEF RecordPage, AsEvents
  <2>3. /\ old \in Nat /\ DOMAIN events = 1 .. old /\ DOMAIN events' = 1 .. (old + n)
        /\ \A i \in 1 .. old : events'[i] = events[i]
        /\ \A i \in 1 .. n : events'[old + i] = rows[i]
    BY <2>1, <2>2, LogGrowsByPage DEF TypeOK
  <2>4. \A i \in 1 .. n : events'[old + i].kind = "source.event"
                         /\ events'[old + i].number = page[i]
    BY <2>1, <2>3, EventColumns
  <2>5. /\ \A k : k \in DOMAIN events' <=> k \in DOMAIN events \/ \E i \in 1 .. n : k = old + i
        /\ \A i \in 1 .. n : old + i \notin DOMAIN events
    <3>1. ASSUME NEW k \in DOMAIN events', k \notin DOMAIN events
          PROVE  \E i \in 1 .. n : k = old + i
      <4>1. k - old \in 1 .. n /\ k = old + (k - old)
        BY <2>1, <2>3, <3>1
      <4> QED BY <4>1
    <3>2. \A i \in 1 .. n : old + i \in DOMAIN events' /\ old + i \notin DOMAIN events
      BY <2>1, <2>3
    <3>3. DOMAIN events \subseteq DOMAIN events'
      BY <2>1, <2>3
    <3> QED BY <3>1, <3>2, <3>3
  <2> HIDE DEF n, old, rows
  <2>6. Said(G)' = Said(G) /\ \A i \in Said(G) : events'[i] = events[i]
    <3>1. \A k \in DOMAIN events : events'[k] = events[k]
      BY <2>3
    <3>2. \A k : k \in Said(G)' <=> k \in Said(G)
      BY <2>4, <2>5, <3>1 DEF Said
    <3> QED BY <3>1, <3>2 DEF Said
  <2>7. \A c : InGap(c)' = InGap(c)
    BY <2>6 DEF InGap
  <2>8. \A k : k \in SourceEvents' <=> k \in SourceEvents \/ \E i \in 1 .. n : k = old + i
    <3>1. \A k \in DOMAIN events : events'[k] = events[k]
      BY <2>3
    <3> QED BY <2>4, <2>5, <3>1 DEF SourceEvents, Said
  <2>9. \A i \in SourceEvents : i \in 1 .. old /\ events'[i] = events[i]
    BY <2>3 DEF SourceEvents, Said
  <2>10. \A i \in 1 .. n : cursor < page[i] /\ page[i] =< page[n]
    <3> SUFFICES ASSUME NEW i \in 1 .. n PROVE cursor < page[i] /\ page[i] =< page[n]
      OBVIOUS
    <3>1. n \in 1 .. n /\ (i = n \/ i < n)
      BY <2>1
    <3> QED BY <1>0, <1>2, <2>1, <3>1 DEF Continues
  <2>11. ASSUME NEW c \in Published
         PROVE  c =< cursor' <=> InGap(c)' \/ \E i \in SourceEvents' : events'[i].number = c
    <3>1. c \in Nat
      BY PublishedAssumption
    <3>2. c =< cursor <=> InGap(c) \/ \E i \in SourceEvents : events[i].number = c
      BY DEF FeedLogged, FeedIsExact
    <3>3. cursor < c /\ c =< page[n] <=> \E i \in 1 .. n : page[i] = c
      BY <1>0, <1>2, <2>1, <2>10, <3>1 DEF Continues, Entries, n
    <3>4. c =< page[n] <=> c =< cursor \/ (cursor < c /\ c =< page[n])
      BY <1>0, <2>1, <2>10, <3>1
    <3>5. (\E i \in SourceEvents' : events'[i].number = c)
             <=> (\E i \in SourceEvents : events[i].number = c) \/ (\E i \in 1 .. n : page[i] = c)
      BY <2>4, <2>8, <2>9
    <3> QED BY <2>2, <2>7, <3>2, <3>3, <3>4, <3>5
  <2>12. ASSUME NEW i \in SourceEvents', NEW j \in SourceEvents', i < j
         PROVE  events'[i].number < events'[j].number
    <3>1. CASE j \in SourceEvents
      <4>1. i \in SourceEvents
        BY <2>1, <2>3, <2>8, <2>9, <2>12, <3>1
      <4> QED BY <2>9, <2>12, <3>1, <4>1 DEF FeedLogged, FeedIsExact
    <3>2. ASSUME NEW b \in 1 .. n, j = old + b, i \in SourceEvents
          PROVE  events'[i].number < events'[j].number
      BY <1>0, <2>1, <2>4, <2>9, <2>10, <3>2 DEF FeedLogged
    <3>3. ASSUME NEW a \in 1 .. n, NEW b \in 1 .. n, i = old + a, j = old + b
          PROVE  events'[i].number < events'[j].number
      <4>1. a \in DOMAIN page /\ b \in DOMAIN page /\ a < b
        BY <2>1, <2>3, <2>12, <3>3
      <4>2. page[a] < page[b]
        BY <1>2, <4>1 DEF Continues
      <4> QED BY <2>4, <3>3, <4>2
    <3> QED BY <2>8, <3>1, <3>2, <3>3
  <2>13. ASSUME NEW i \in SourceEvents'
         PROVE  /\ ~InGap(events[i].number)'
                /\ events'[i].number =< cursor' /\ events'[i].number \in Published
    <3>1. CASE i \in SourceEvents
      <4>1. events'[i] = events[i] /\ events[i].number =< cursor
        BY <2>9, <3>1 DEF FeedLogged
      <4>2. cursor < page[n]
        BY <2>1, <2>10
      <4> QED BY <1>0, <2>1, <2>2, <2>7, <3>1, <4>1, <4>2 DEF FeedLogged, FeedIsExact
    <3>2. ASSUME NEW a \in 1 .. n, i = old + a
          PROVE  /\ ~InGap(events[i].number)'
                 /\ events'[i].number =< cursor' /\ events'[i].number \in Published
      <4>1. events'[i].number = page[a] /\ cursor < page[a] /\ page[a] =< page[n]
        BY <2>4, <2>10, <3>2
      <4>2. ~InGap(page[a])
        BY <1>0, <2>1, <4>1 DEF InGap, FeedLogged
      <4> QED BY <2>1, <2>2, <2>7, <4>1, <4>2
    <3> QED BY <2>8, <3>1, <3>2
  <2>14. \A i \in Said(G)' : events'[i].number =< cursor'
    <3>1. cursor =< cursor' /\ cursor' \in Nat
      BY <1>0, <2>1, <2>2, <2>10
    <3>2. \A i \in Said(G) : events[i].number =< cursor
      BY DEF FeedLogged
    <3> QED BY <1>0, <2>6, <3>1, <3>2
  <2> QED BY <2>11, <2>12, <2>13, <2>14 DEF FeedLogged, FeedIsExact

<1>3. ASSUME NEW snapshot \in Published, RecordFeedGap(snapshot)
      PROVE  FeedLogged'
  <2> DEFINE e == GapEvent(cursor, snapshot)
  <2>1. /\ Record(e) /\ e.kind \in G /\ e.kind \notin S
        /\ e.previous = cursor /\ e.number = snapshot
        /\ cursor' = snapshot /\ cursor =< snapshot /\ snapshot \in Nat
    BY <1>0, <1>3, EventColumns, PublishedAssumption DEF RecordFeedGap, Note
  <2> HIDE DEF e, G
  <2>2. /\ Len(events) \in Nat
        /\ Said(G)' = Said(G) \cup {Len(events')}
        /\ events'[Len(events')] = e
        /\ \A i \in Said(G) : i \in 1 .. Len(events) /\ events'[i] = events[i]
    BY <2>1, OneSaid
  <2>3. Writes(G) /\ G \cap S = {}
    BY <2>1, Recorded DEF G
  <2>4. SourceEvents' = SourceEvents /\ \A i \in SourceEvents : events'[i] = events[i]
    BY <2>3, Silence DEF SourceEvents
  <2>5. \A c : InGap(c)' <=> InGap(c) \/ (cursor < c /\ c =< snapshot)
    BY <2>1, <2>2 DEF InGap, G
  <2>6. ASSUME NEW c \in Published
        PROVE  c =< cursor' <=> InGap(c)' \/ \E i \in SourceEvents' : events'[i].number = c
    <3>1. c =< cursor <=> InGap(c) \/ \E i \in SourceEvents : events[i].number = c
      BY DEF FeedLogged, FeedIsExact
    <3>2. c =< snapshot <=> c =< cursor \/ (cursor < c /\ c =< snapshot)
      BY <1>0, <2>1, PublishedAssumption
    <3> QED BY <2>1, <2>4, <2>5, <3>1, <3>2
  <2>7. \A i \in SourceEvents' : /\ ~InGap(events[i].number)'
                                /\ events'[i].number =< cursor'
                                /\ events'[i].number \in Published
    BY <1>0, <2>1, <2>4, <2>5 DEF FeedLogged, FeedIsExact
  <2>8. \A i, j \in SourceEvents' : i < j => events'[i].number < events'[j].number
    BY <2>4 DEF FeedLogged, FeedIsExact
  <2>9. \A i \in Said(G)' : events'[i].number =< cursor'
    BY <1>0, <2>1, <2>2 DEF FeedLogged, G
  <2> QED BY <2>6, <2>7, <2>8, <2>9 DEF FeedLogged, FeedIsExact, G
<1>4. CASE SourceNext
  BY <1>2, <1>3, <1>4, IngestedPages DEF SourceNext
<1> QED
  BY <1>1, <1>4, StepTopics
     DEF OperationTopic, MappingTopic, LeaseTopic, DecisionTopic, FileTopic, NoTopic,
         OperationKinds, LeaseKinds, evidence

----------------------------------------------------------------------------
(* Who moves an operation: its row names the epoch that prepared it, and   *)
(* the log has that epoch's event.                                         *)
IsPreparation(i, op, owner, generation) ==
    /\ events[i].kind = "operation.prepared" /\ events[i].subject = op
    /\ events[i].actor = owner /\ events[i].generation = generation

PreparedIsLogged ==
    \A op \in Operation :
        operations[op].owner \in Owner =>
            \E i \in DOMAIN events :
                IsPreparation(i, op, operations[op].owner, operations[op].generation)

MovesLogged == PreparedIsLogged /\ MovedByItsEpoch

LEMMA MovesStep ==
    ASSUME TypeOK, TypeOK', [Next]_vars, MovesLogged
    PROVE  MovesLogged'
<1>0. LogDomain /\ operations \in [Operation -> OperationRow]
  BY Domains DEF TypeOK
<1>a. ASSUME NEW K, Writes(K), "operation.moved" \notin K PROVE MovedByItsEpoch'
  <2>1. /\ \A i \in DOMAIN events : events'[i] = events[i]
        /\ \A j \in DOMAIN events' : events'[j].kind = "operation.moved" => j \in DOMAIN events
    BY <1>0, <1>a, Domains DEF Writes, LogDomain, TypeOK
  <2>2. \A j \in DOMAIN events : \A i \in 1 .. j - 1 : i \in DOMAIN events
    BY <1>0 DEF LogDomain
  <2> QED BY <2>1, <2>2 DEF MovedByItsEpoch, MovesLogged
<1>b. ASSUME NEW K, Writes(K),
             \A op \in Operation : /\ operations'[op].owner = operations[op].owner
                                   /\ operations'[op].generation = operations[op].generation
      PROVE  PreparedIsLogged'
  <2>1. \A i \in DOMAIN events : i \in DOMAIN events' /\ events'[i] = events[i]
    BY <1>0, <1>b, Domains DEF Writes, LogDomain, TypeOK
  <2> QED BY <1>b, <2>1 DEF PreparedIsLogged, MovesLogged, IsPreparation
<1>1. CASE UNCHANGED operations /\ \E K : Writes(K) /\ K \cap OperationKinds = {}
  <2>1. "operation.moved" \in OperationKinds
    BY DEF OperationKinds
  <2> QED BY <1>1, <1>a, <1>b, <2>1 DEF MovesLogged
<1>2. ASSUME NEW o \in Owner, NEW g \in Issued, NEW op \in Operation, NEW intent \in Intent,
             PrepareOperation(o, g, op, intent)
      PROVE  MovesLogged'
  <2> DEFINE e == OperationEvent("operation.prepared", o, g, op, "prepared", intent)
  <2>1. /\ Record(e) /\ e.kind = "operation.prepared" /\ e.subject = op
        /\ e.actor = o /\ e.generation = g
    BY <1>2, EventColumns DEF PrepareOperation
  <2>2. /\ operations'[op].owner = o /\ operations'[op].generation = g
        /\ \A q \in Operation : q # op => operations'[q] = operations[q]
    BY <1>0, <1>2 DEF PrepareOperation, Prepared
  <2> HIDE DEF e
  <2>3. Writes({"operation.prepared"}) /\ events' = Append(events, e)
    BY <2>1, Recorded
  <2>4. /\ DOMAIN events' = 1 .. Len(events) + 1
        /\ \A i \in 1 .. Len(events) : events'[i] = events[i]
        /\ events'[Len(events) + 1] = e
    BY <2>1, LogGrows, Recorded DEF TypeOK
  <2>5. \A i \in DOMAIN events : i \in DOMAIN events' /\ events'[i] = events[i]
    BY <1>0, <2>4 DEF LogDomain
  <2>6. Len(events) + 1 \in DOMAIN events'
    BY <1>0, <2>4 DEF LogDomain
  <2>7. /\ \A i \in DOMAIN events : i \in DOMAIN events' /\ events'[i] = events[i]
        /\ \E i \in DOMAIN events' : events'[i] = e
    BY <2>4, <2>5, <2>6
  <2>8. PreparedIsLogged'
    BY <2>1, <2>2, <2>7 DEF PreparedIsLogged, MovesLogged, IsPreparation
  <2> QED BY <1>a, <2>3, <2>8 DEF MovesLogged
<1>3. ASSUME NEW o \in Owner, NEW g \in Issued, NEW op \in Operation, NEW state, NEW outcome,
             Transition(o, g, op, state, outcome)
      PROVE  MovesLogged'
  <2> DEFINE e == OperationEvent("operation.moved", o, g, op, state, outcome)
  <2>1. /\ Record(e) /\ e.subject = op /\ e.actor = o /\ e.generation = g
        /\ operations[op].owner = o /\ operations[op].generation = g
        /\ e.kind = "operation.moved"
    BY <1>3, EventColumns DEF Transition, MayMove
  <2>2. \A q \in Operation : /\ operations'[q].owner = operations[q].owner
                             /\ operations'[q].generation = operations[q].generation
    BY <1>0, <1>3 DEF Transition, Moved, OperationRow
  <2> HIDE DEF e
  <2>3. /\ Writes({"operation.moved"})
        /\ DOMAIN events' = 1 .. Len(events) + 1
        /\ \A i \in 1 .. Len(events) : events'[i] = events[i]
        /\ events'[Len(events) + 1] = e
    BY <2>1, LogGrows, Recorded DEF TypeOK
  <2>4. PICK i \in DOMAIN events : IsPreparation(i, op, o, g)
    BY <2>1 DEF MovesLogged, PreparedIsLogged
  <2>5. ASSUME NEW j \in DOMAIN events', events'[j].kind = "operation.moved"
        PROVE  \E k \in 1 .. j - 1 :
                  /\ events'[k].kind = "operation.prepared"
                  /\ events'[k].subject = events'[j].subject
                  /\ events'[k].actor = events'[j].actor
                  /\ events'[k].generation = events'[j].generation
    <3>1. CASE j = Len(events) + 1
      <4>1. i \in 1 .. j - 1 /\ events'[i] = events[i] /\ events'[j] = e
        BY <1>0, <2>3, <3>1 DEF LogDomain
      <4> QED BY <2>1, <2>4, <4>1 DEF IsPreparation
    <3>2. CASE j \in DOMAIN events
      <4>1. events'[j] = events[j] /\ \A k \in 1 .. j - 1 : events'[k] = events[k]
        BY <1>0, <2>3, <3>2 DEF LogDomain
      <4> QED BY <2>5, <3>2, <4>1 DEF MovesLogged, MovedByItsEpoch
    <3> QED BY <1>0, <2>3, <3>1, <3>2 DEF LogDomain
  <2> QED BY <1>b, <2>2, <2>3, <2>5 DEF MovesLogged, MovedByItsEpoch
<1>4. ASSUME NEW o \in Owner, NEW g \in Issued, NEW op \in Operation, NEW state,
             ReconcileOperation(o, g, op, state)
      PROVE  MovesLogged'
  <2>1. \A q \in Operation : /\ operations'[q].owner = operations[q].owner
                             /\ operations'[q].generation = operations[q].generation
    BY <1>0, <1>4 DEF ReconcileOperation, Moved, OperationRow
  <2>2. Writes({"operation.reconciled"})
    BY <1>4, Recorded, EventColumns DEF ReconcileOperation
  <2> QED BY <1>a, <1>b, <2>1, <2>2 DEF MovesLogged
<1>5. CASE OperationStep
  BY <1>2, <1>3, <1>4, <1>5
     DEF OperationStep, OperationNext, MarkDispatched, CompleteOperation, MarkUncertain,
         RejectOperation
<1> QED
  BY <1>1, <1>5, StepTopics
     DEF MappingTopic, LeaseTopic, DecisionTopic, SourceTopic, FileTopic, NoTopic,
         OperationKinds, LeaseKinds, work

(* A coordinator moves only what its own epoch prepared, for every number  *)
(* of coordinators and every order of their calls.                         *)
THEOREM Ownership == Spec => []MovedByItsEpoch
<1>1. Init => MovesLogged
  BY NoneAssumption DEF Init, MovesLogged, PreparedIsLogged, MovedByItsEpoch, NoOperation
<1>2. TypeOK /\ TypeOK' /\ MovesLogged /\ [Next]_vars => MovesLogged'
  BY MovesStep
<1>3. MovesLogged => MovedByItsEpoch
  BY DEF MovesLogged
<1>4. QED
  BY <1>1, <1>2, <1>3, Typing, PTL DEF Spec

----------------------------------------------------------------------------
Logged == /\ OperationsLogged /\ MappingsLogged /\ LeaseLogged
          /\ ArtifactsLogged /\ DecisionsLogged /\ FeedLogged

LEMMA LoggedMatches ==
    ASSUME TypeOK, Logged
    PROVE  TablesMatchLog
<1>0. /\ \A kinds : Said(kinds) \subseteq Nat
      /\ \A kinds, x : About(kinds, x) \subseteq Nat
  BY Domains DEF Said, About, LogDomain
<1>1. \A kinds, i : Latest(Said(kinds), i) => LastOf(Said(kinds)) = i /\ Said(kinds) # {}
  BY <1>0, LatestIsLast
<1>2. \A kinds, x, i : Latest(About(kinds, x), i)
                          => LastOf(About(kinds, x)) = i /\ About(kinds, x) # {}
  BY <1>0, LatestIsLast
<1>3. OperationsMatchLog
  BY <1>2 DEF Logged, OperationsLogged, OperationsMatchLog
<1>4. MappingsMatchLog
  BY <1>2 DEF Logged, MappingsLogged, MappingsMatchLog
<1>5. LeaseMatchesLog
  BY <1>1 DEF Logged, LeaseLogged, LeaseMatchesLog, LeaseSaidBy
<1>6. AckInOrder
  BY <1>1 DEF Logged, DecisionsLogged, AckInOrder, Decisions
<1>7. ArtifactsAreFixed
  <2> SUFFICES ASSUME NEW path \in Path
               PROVE  LET said == About({"artifact.recorded"}, path)
                      IN  /\ Cardinality(said) =< 1
                          /\ artifacts[path] = IF said = {} THEN None
                                               ELSE events[LastOf(said)].data
                          /\ artifacts[path] # None => files[path] = artifacts[path]
    BY DEF ArtifactsAreFixed
  <2> DEFINE said == About({"artifact.recorded"}, path)
  <2>1. CASE said = {} /\ artifacts[path] = None
    BY <2>1, FS_EmptySet
  <2>2. ASSUME NEW i, said = {i}, artifacts[path] = events[i].data,
               files[path] = artifacts[path]
        PROVE  /\ Cardinality(said) =< 1 /\ said # {}
               /\ artifacts[path] = events[LastOf(said)].data
    <3>1. Latest(said, i)
      BY <1>0, <2>2 DEF Latest
    <3>2. Cardinality(said) = 1
      BY <2>2, FS_Singleton
    <3> QED BY <1>2, <2>2, <3>1, <3>2
  <2> QED BY <2>1, <2>2 DEF Logged, ArtifactsLogged
<1> QED
  BY <1>3, <1>4, <1>5, <1>6, <1>7 DEF TablesMatchLog, RowsMatchLog, Logged, FeedLogged

(* The tables are what the audit log says, for every set of operations,    *)
(* keys and artifacts, every source and every order of calls and restores: *)
(* each row is what the last event about it says, the acknowledgement      *)
(* moves forward only, the feed is exact, artifacts never change.          *)
THEOREM Replay == Spec => []TablesMatchLog
<1>1. Init => Logged
  <2> SUFFICES ASSUME Init PROVE Logged
    OBVIOUS
  <2>1. /\ \A kinds : Said(kinds) = {}
        /\ \A kinds, x : About(kinds, x) = {}
    BY DEF Init, Said, About
  <2>2. Cardinality({}) = 0
    BY FS_EmptySet
  <2>3. FeedLogged
    BY <2>1, PublishedAssumption DEF Init, FeedLogged, FeedIsExact, SourceEvents, InGap
  <2> QED BY <2>1, <2>2, <2>3
    DEF Init, Logged, OperationsLogged, MappingsLogged, LeaseLogged, ArtifactsLogged,
        DecisionsLogged, Decisions, NoOperation
<1>2. TypeOK /\ TypeOK' /\ EpochInv /\ Logged /\ [Next]_vars => Logged'
  BY OperationsStep, MappingsStep, LeaseRowStep, ArtifactsStep, DecisionsStep, FeedStep
     DEF Logged
<1>3. TypeOK /\ Logged => TablesMatchLog
  BY LoggedMatches
<1>4. QED
  BY <1>1, <1>2, <1>3, Typing, EpochInvariant, PTL DEF Spec
============================================================================
