--------------------------- MODULE EnsureWorkspace --------------------------
(***************************************************************************)
(* muxpilot/runtime.py: ensure_project_workspace, the coordinator's side   *)
(* of a fenced effect, composed with the receiver that performs it.  The   *)
(* coordinator (projectd) and the receiver (the web console) are processes *)
(* of their own that share the journal file and talk over HTTP: either may *)
(* crash at any step, a request may arrive late or twice, an answer may be *)
(* lost, and the lease may expire or be taken over in between.             *)
(*                                                                         *)
(* One call runs at a time: ProjectController.dispatch holds the project's *)
(* file lock around it, and the lock goes with the process.  The operation *)
(* id is derived from the project, so every call uses the same one.        *)
(*                                                                         *)
(* Beside it the receiver serves the project's other commands, which take  *)
(* the same write lock: any of them, of any epoch, at any time.            *)
(***************************************************************************)
EXTENDS FencedReceiver

CONSTANT Create    \* uuid5(project, "workspace-create")

ASSUME CreateAssumption == Create \in Operation

VARIABLES
    operations,  \* the journal's table `operations`
    mapping,     \* a mapping muxdeck_workspace/project exists
    call,        \* the call in progress, with what it has read so far
    sent,        \* requests that left the coordinator: they can arrive
                 \* at any later time and more than once
    config       \* generation worker.json names, 0 before it is written

receiverVars == <<writer, received, pc, request, bound, performed>>
coordinatorVars == <<operations, mapping, call, sent, config>>
allVars == <<vars, coordinatorVars>>

----------------------------------------------------------------------------
Step == {"idle", "prepare", "evidence", "dispatch", "send", "waiting",
         "unsure", "complete", "map", "configure"}

Call == [at: Step, owner: Owner \cup {None}, generation: Nat,
         intent: Intent \cup {None}, seen: State]

NoCall == [at |-> "idle", owner |-> None, generation |-> 0, intent |-> None,
           seen |-> "absent"]

\* The call goes on, or ends; ending with an exception or a result is the
\* same to the state.
Goto(step) == call' = [call EXCEPT !.at = step]
Raise == call' = NoCall

\* A transaction of the caller on the journal: it needs the write lock.
Current == writer = None /\ Holds(lease, clock, call.owner, call.generation)

\* The receiver stores {"status": ..., "body": ...}; the coordinator looks for
\* the key "workspace" of the object it finds.
Stored(status) == [status |-> status, body |-> "workspace"]
NamesWorkspace(receipt) == "workspace" \in DOMAIN receipt

----------------------------------------------------------------------------
InitAll == /\ Init
           /\ operations = [op \in Operation |-> NoOperation]
           /\ mapping = FALSE
           /\ call = NoCall
           /\ sent = {}
           /\ config = 0

\* Mutant: the call starts from its credentials without asking the journal.
BeginUnchecked(o, g, intent) ==
    /\ call.at = "idle" /\ writer = None
    /\ call' = [at |-> IF mapping THEN "configure" ELSE "prepare",
                owner |-> o, generation |-> g, intent |-> intent,
                seen |-> "absent"]
    /\ UNCHANGED <<vars, operations, mapping, sent, config>>

\* assert_lease and get_mapping.  The credentials may be of any epoch.
Begin(o, g, intent) ==
    /\ call.at = "idle" /\ writer = None
    /\ Holds(lease, clock, o, g)
    /\ call' = [at |-> IF mapping THEN "configure" ELSE "prepare",
                owner |-> o, generation |-> g, intent |-> intent,
                seen |-> "absent"]
    /\ UNCHANGED <<vars, operations, mapping, sent, config>>

Prepare ==
    /\ call.at = "prepare" /\ Current
    /\ LET row == operations[Create]
       IN  \/ /\ row = NoOperation
              /\ operations' = [operations EXCEPT ![Create] =
                      Prepared(call.intent, call.owner, call.generation)]
              /\ call' = [call EXCEPT !.at = "evidence", !.seen = "prepared"]
           \/ /\ row # NoOperation /\ row.intent = call.intent
              /\ call' = [call EXCEPT
                      !.at = IF row.state = "confirmed" THEN "map" ELSE "evidence",
                      !.seen = row.state]
              /\ UNCHANGED operations
           \/ /\ row # NoOperation /\ row.intent # call.intent
              /\ Raise
              /\ UNCHANGED operations
    /\ UNCHANGED <<vars, mapping, sent, config>>

\* Mutant: a dispatched create of which the receiver knows nothing is repeated.
RetryWithoutEvidence ==
    /\ call.at = "evidence" /\ writer = None
    /\ LET absent == received[Create].state = "absent"
       IN  CASE absent /\ call.seen = "prepared" -> Goto("dispatch")
             [] absent /\ call.seen = "dispatched" -> Goto("send")
             [] OTHER -> Raise
    /\ UNCHANGED <<vars, operations, mapping, sent, config>>

\* _receiver_receipt: what the receiver recorded decides.  Its receipt stands
\* in for the lost answer if it names the workspace; without a row only an
\* intent that was never dispatched may go on.
ReadEvidence ==
    /\ call.at = "evidence" /\ writer = None
    /\ LET row == received[Create]
           recovered == /\ row.state = "confirmed" /\ call.seen \in Pending
                        /\ NamesWorkspace(Stored(row.receipt))
                        /\ Current
                        /\ MayReconcile(operations[Create], "confirmed")
           unsent == row.state = "absent" /\ call.seen = "prepared"
       IN  /\ operations' = IF recovered
                            THEN [operations EXCEPT ![Create] =
                                     Moved(@, "confirmed", None)]
                            ELSE operations
           /\ CASE recovered -> Goto("map")
                [] unsent    -> Goto("dispatch")
                [] OTHER     -> Raise
    /\ UNCHANGED <<vars, mapping, sent, config>>

\* mark_dispatched raises for an operation of another epoch.
Dispatch ==
    /\ call.at = "dispatch" /\ Current
    /\ IF MayMove(operations[Create], "dispatched", call.owner, call.generation)
       THEN /\ operations' = [operations EXCEPT ![Create] =
                                 Moved(@, "dispatched", None)]
            /\ Goto("send")
       ELSE Raise /\ UNCHANGED operations
    /\ UNCHANGED <<vars, mapping, sent, config>>

Send ==
    /\ call.at = "send"
    /\ sent' = sent \cup {[owner |-> call.owner, generation |-> call.generation,
                           op |-> Create, intent |-> call.intent]}
    /\ Goto("waiting")
    /\ UNCHANGED <<vars, operations, mapping, config>>

\* Mutant: a recorded answer counts as a success whatever its status.
ReceiveAnyAnswer ==
    /\ call.at = "waiting"
    /\ \/ received[Create].state = "confirmed" /\ Goto("complete")
       \/ Goto("unsure")
    /\ UNCHANGED <<vars, operations, mapping, sent, config>>

\* A 2xx answer carries the workspace.  Anything else (an error status, a
\* refusal by the fence, a timeout, a dropped connection) raises in the client.
ReceiveAnswer ==
    /\ call.at = "waiting"
    /\ \/ received[Create].receipt = "created" /\ Goto("complete")
       \/ Goto("unsure")
    /\ UNCHANGED <<vars, operations, mapping, sent, config>>

\* mark_uncertain under suppress(Exception): a lost lease or a busy journal
\* leaves the row as it is.  The exception goes on to the caller.
GiveUp ==
    /\ call.at = "unsure"
    /\ \/ /\ Current
          /\ MayMove(operations[Create], "uncertain", call.owner, call.generation)
          /\ operations' = [operations EXCEPT ![Create] =
                               Moved(@, "uncertain", None)]
       \/ ~Current /\ UNCHANGED operations
    /\ Raise
    /\ UNCHANGED <<vars, mapping, sent, config>>

Complete ==
    /\ call.at = "complete" /\ Current
    /\ MayMove(operations[Create], "confirmed", call.owner, call.generation)
    /\ operations' = [operations EXCEPT ![Create] = Moved(@, "confirmed", None)]
    /\ Goto("map")
    /\ UNCHANGED <<vars, mapping, sent, config>>

PutMapping ==
    /\ call.at = "map" /\ Current
    /\ mapping' = TRUE
    /\ Goto("configure")
    /\ UNCHANGED <<vars, operations, sent, config>>

\* worker.json is a file: written without looking at the lease again.
Configure ==
    /\ call.at = "configure"
    /\ config' = call.generation
    /\ Raise
    /\ UNCHANGED <<vars, operations, mapping, sent>>

\* A transaction that finds the lease lost, or the journal busy for too long,
\* raises out of the call.  Reading the evidence needs no lease.
LoseAuthority ==
    /\ \/ call.at \in {"prepare", "dispatch", "complete", "map"} /\ ~Current
       \/ call.at = "evidence" /\ writer # None
    /\ Raise
    /\ UNCHANGED <<vars, operations, mapping, sent, config>>

CoordinatorCrash ==
    /\ call.at # "idle"
    /\ Raise
    /\ UNCHANGED <<vars, operations, mapping, sent, config>>

----------------------------------------------------------------------------
CallNext ==
    \/ \E o \in Owner, g \in 1 .. lease.generation, intent \in Intent :
          Begin(o, g, intent)
    \/ Prepare \/ ReadEvidence \/ Dispatch \/ Send \/ ReceiveAnswer \/ GiveUp
    \/ Complete \/ PutMapping \/ Configure \/ LoseAuthority \/ CoordinatorCrash

\* Requests for other operations come from elsewhere.
Others == {r \in Arriving : r.op # Create}

ReceiverNext ==
    /\ \/ \E w \in Worker :
              \/ \E r \in sent \cup Others : Admit(w, r)
              \/ TakeFence(w) \/ Fence(w) \/ Perform(w) \/ Bind(w)
              \/ Commit(w) \/ RollBack(w)
       \/ Crash
    /\ UNCHANGED coordinatorVars

LeaseNext ==
    /\ \/ ClockMoves
       \/ \E o \in Owner : AcquireLease(o)
       \/ \E o \in Owner, g \in 1 .. lease.generation :
             RenewLease(o, g) \/ ReleaseLease(o, g)
    /\ UNCHANGED coordinatorVars

NextAll == CallNext \/ ReceiverNext \/ LeaseNext

SpecAll == InitAll /\ [][NextAll]_allVars

FairSpecAll ==
    /\ SpecAll
    /\ \A w \in Worker : WF_allVars(RunsOn(w) /\ UNCHANGED coordinatorVars)

----------------------------------------------------------------------------
(* The create request leaves the coordinator at most once in the life of   *)
(* the project, whoever calls, after whatever crash: no blind retry.  And  *)
(* it leaves only under an intent the journal already holds.               *)
SentAtMostOnce ==
    /\ \A r, s \in sent : r = s
    /\ \A r \in sent :
          /\ operations[Create].intent = r.intent
          /\ operations[Create].owner = r.owner
          /\ operations[Create].generation = r.generation
          /\ operations[Create].state # "prepared"

(* What the journal says happened did happen: a confirmed create and the   *)
(* mapping to the workspace exist only if the receiver performed it.       *)
MappingIsReal ==
    /\ operations[Create].state = "confirmed" => Happened(Create)
    /\ mapping => operations[Create].state = "confirmed"

(* Both together: the project has one workspace, and it exists.            *)
OneRealWorkspace == SentAtMostOnce /\ MappingIsReal

(* worker.json is written outside the fence, by a call whose lease may be  *)
(* gone by then; still it never goes back to an older epoch, so workers    *)
(* launched later never carry a generation that a newer file had replaced. *)
ConfigNeverGoesBack == [][config' >= config]_allVars

(* The composed system implements EffectOnce with the journal as verdict:  *)
(* what the coordinator records is decided by what the receiver did.       *)
Once == INSTANCE EffectOnce WITH
    Generation <- 1 .. MaxGeneration,
    effects <- [i \in DOMAIN performed |->
                   [op |-> performed[i].op,
                    generation |-> performed[i].generation]],
    verdict <- [op \in Operation |->
                   CASE operations[op].state = "confirmed" -> "done"
                     [] operations[op].state = "rejected" -> "refused"
                     [] OTHER -> "open"]

JournalTellsTheTruth == Once!Spec
=============================================================================
