----------------------------- MODULE Coordinator -----------------------------
(***************************************************************************)
(* muxpilot/project.py: how a project is started, how a coordinator takes  *)
(* it over, and the commands it sends to the Multica backend meanwhile.    *)
(* Authority is in four places that no transaction covers: the lease of    *)
(* the journal, the lease of the backend, coordinator.json, and, while it  *)
(* moves, takeover.json with the file of the lease's secret.               *)
(*                                                                         *)
(* Calls of one project exclude each other by a lock on a file, which goes *)
(* with the process; any call may end at any step.  A request may reach    *)
(* the backend late, and its answer may be lost.                           *)
(***************************************************************************)
EXTENDS JournalRows, Sequences, FiniteSets

CONSTANTS
    Command,        \* operation ids of commands, given or drawn by the caller
    MaxTime,        \* bound: the wall clock stays in 0..MaxTime
    MaxGeneration,  \* bound: no takeover begins at this generation
    MaxUpsets       \* bound: calls that die, answers that are lost, moves of
                    \* the clock

\* uuid5 of the project and a name: the same for every attempt.
Id(name, generation, owner) == [name |-> name, generation |-> generation, owner |-> owner]
Register == Id("register", 0, None)
InitialLease == Id("initial-lease", 0, None)
Takeover(generation, owner) == Id("takeover", generation, owner)
\* The payload of an operation, as far as it differs between attempts: the
\* backend generation it was written for.
Expecting(n) == Id("expecting", n, None)
LeaseIds == {InitialLease} \cup {Takeover(g, o) : g \in 1 .. MaxGeneration, o \in Owner}

ASSUME BoundsAssumption == MaxTime \in Nat /\ MaxGeneration \in Nat /\ MaxUpsets \in Nat
ASSUME OwnersAssumption == IsFiniteSet(Owner)
ASSUME IdsAssumption ==
    /\ Operation = {Register} \cup LeaseIds \cup Command
    /\ Command \cap (LeaseIds \cup {Register}) = {}
    /\ Intent = {Expecting(n) : n \in 0 .. MaxGeneration + MaxUpsets + 1}

VARIABLES
    clock,       \* time.time()
    lease,       \* the journal's lease row
    operations,  \* the journal's table `operations`
    credentials, \* coordinator.json
    pending,     \* takeover.json
    saved,       \* lease-<operation>.json: the generation it was granted
    mapped,      \* mapping project/multica: the generation it names
    call,        \* the call that holds the project's lock
    sent,        \* requests that left for the backend and may still arrive
    sends,       \* history: how often a command left
    backend,     \* external: Multica's lease, what it granted and executed
    upsets       \* history: how many upsets there were

journal == <<clock, lease, operations, mapped>>
files == <<credentials, pending, saved>>
remote == <<sent, sends, backend>>
vars == <<journal, files, call, remote, upsets>>

----------------------------------------------------------------------------
NoCredentials == [owner |-> None, generation |-> 0, remote |-> 0,
                  expires |-> 0, revoked |-> TRUE]
NoPending == [newOwner |-> None, oldOwner |-> None, oldGeneration |-> 0, expected |-> 0]
TakeoverOf(p) == Takeover(p.oldGeneration, p.newOwner)

\* `why` is what the call is for, `at` its next step, `op` the operation it
\* performs, with the state prepare_operation returned; `number` is the
\* generation that its request carries, and later the one it was granted.
NoCall == [at |-> "idle", why |-> "start", owner |-> None, generation |-> 0,
           op |-> Register, seen |-> "absent", number |-> 0]

Goto(step) == call' = [call EXCEPT !.at = step]
End == call' = NoCall

\* A transaction of the call on the journal asserts its lease.
Current == Holds(lease, clock, call.owner, call.generation)

Row == operations[call.op]
SetRow(state) == operations' = [operations EXCEPT ![call.op] = Moved(@, state, None)]

Upset == upsets < MaxUpsets /\ upsets' = upsets + 1

HasLease(op) == backend.granted[op] # 0
Executed(op) == \E i \in DOMAIN backend.done : backend.done[i].op = op

----------------------------------------------------------------------------
Init ==
    /\ clock = 0 /\ lease = NoLease
    /\ operations = [op \in Operation |-> NoOperation]
    /\ credentials = NoCredentials /\ pending = NoPending
    /\ saved = [op \in LeaseIds |-> 0]
    /\ mapped = 0
    /\ call = NoCall
    /\ sent = {} /\ sends = [op \in Command |-> 0]
    /\ backend = [generation |-> 0, revoked |-> TRUE,
                  granted |-> [op \in LeaseIds |-> 0], done |-> <<>>]
    /\ upsets = 0

ClockMoves ==
    /\ Upset /\ clock' \in 0 .. MaxTime
    /\ UNCHANGED <<lease, operations, mapped, files, call, remote>>

----------------------------------------------------------------------------
(* A call begins.                                                          *)

\* acquire_lease returns the row to its holder while it is in force.
Acquirable(o) == Active(lease, clock) => lease.owner = o
Acquired(o) == IF Active(lease, clock) THEN lease ELSE Granted(lease, clock, o)

\* _start, for a project without coordinator.json: registers it first.
Start(o) ==
    /\ call.at = "idle" /\ credentials = NoCredentials
    /\ Acquirable(o)
    /\ lease' = Acquired(o)
    /\ call' = [NoCall EXCEPT !.at = "effect", !.why = "start", !.owner = o,
                              !.generation = lease'.generation]
    /\ UNCHANGED <<clock, operations, mapped, files, remote, upsets>>

\* _resume records what is to change hands before it touches anything, or
\* takes up what a resume before it recorded.
Resume(o) ==
    /\ call.at = "idle" /\ credentials # NoCredentials
    /\ IF pending = NoPending
       THEN /\ lease.generation < MaxGeneration
            /\ pending' = [newOwner |-> o, oldOwner |-> credentials.owner,
                           oldGeneration |-> credentials.generation,
                           expected |-> credentials.remote]
       ELSE pending.newOwner = o /\ UNCHANGED pending
    /\ call' = [NoCall EXCEPT !.at = "release-old", !.why = "resume", !.owner = o]
    /\ UNCHANGED <<journal, credentials, saved, remote, upsets>>

\* A project tool that sends a command: _authority renews the lease.
Begin(why, op) ==
    /\ call.at = "idle" /\ credentials # NoCredentials
    /\ ~credentials.revoked /\ credentials.expires > clock
    /\ Holds(lease, clock, credentials.owner, credentials.generation)
    /\ lease' = [lease EXCEPT !.expires = clock + TTL]
    /\ call' = [at |-> "effect", why |-> why, owner |-> credentials.owner,
                generation |-> credentials.generation, op |-> op,
                seen |-> "absent", number |-> credentials.remote]
    /\ UNCHANGED <<clock, operations, mapped, files, remote, upsets>>

----------------------------------------------------------------------------
(* _effect: registration, which may be repeated, and commands, which may   *)
(* not.                                                                    *)
Idempotent == call.op = Register

\* What follows a confirmed effect.
AfterEffect ==
    CASE call.why = "start"  -> call' = [call EXCEPT !.at = "prepare", !.op = InitialLease,
                                                     !.number = 0]
      [] call.why = "renew"  -> Goto("extend")
      [] call.why = "revoke" -> Goto("disown")
      [] OTHER               -> End

Prepares ==
    operations' = IF Row = NoOperation
                  THEN [operations EXCEPT ![call.op] =
                           Prepared(Expecting(call.number), call.owner, call.generation)]
                  ELSE operations

\* Mutant: a command whose outcome is unknown is sent again.
PrepareEffectAgain ==
    /\ call.at = "effect" /\ Current
    /\ Prepares
    /\ CASE Row.state \in {"absent", "prepared"} ->
              call' = [call EXCEPT !.at = "dispatch", !.seen = "prepared"]
         [] Row.state = "confirmed" -> AfterEffect
         [] Row.state \in {"dispatched", "uncertain"} ->
              call' = [call EXCEPT !.at = "send", !.seen = Row.state]
         [] OTHER -> End
    /\ UNCHANGED <<clock, lease, mapped, files, remote, upsets>>

\* "no blind retry": only an idempotent effect is repeated.
PrepareEffect ==
    /\ call.at = "effect" /\ Current
    /\ Prepares
    /\ CASE Row.state \in {"absent", "prepared"} ->
              call' = [call EXCEPT !.at = "dispatch", !.seen = "prepared"]
         [] Row.state = "confirmed" -> AfterEffect
         [] Row.state \in {"dispatched", "uncertain"} /\ Idempotent ->
              call' = [call EXCEPT !.at = "send", !.seen = Row.state]
         [] OTHER -> End
    /\ UNCHANGED <<clock, lease, mapped, files, remote, upsets>>

\* mark_dispatched raises for an intent of another epoch.
Dispatch ==
    /\ call.at = "dispatch" /\ Current
    /\ IF MayMove(Row, "dispatched", call.owner, call.generation)
       THEN SetRow("dispatched") /\ Goto("send")
       ELSE End /\ UNCHANGED operations
    /\ UNCHANGED <<clock, lease, mapped, files, remote, upsets>>

Send ==
    /\ call.at = "send"
    /\ sent' = sent \cup {[op |-> call.op, why |-> call.why, number |-> call.number]}
    /\ sends' = IF call.op \in Command THEN [sends EXCEPT ![call.op] = @ + 1] ELSE sends
    /\ Goto("waiting")
    /\ UNCHANGED <<journal, files, backend, upsets>>

\* The answer arrives.
Answer ==
    /\ call.at = "waiting"
    /\ IF call.op \in LeaseIds
       THEN /\ HasLease(call.op)
            /\ call' = [call EXCEPT !.at = "save", !.number = backend.granted[call.op]]
       ELSE Executed(call.op) /\ Goto("record")
    /\ UNCHANGED <<journal, files, remote, upsets>>

\* A request that the backend cannot execute any more: its generation ended.
Outdated(op, number) ==
    IF op \in LeaseIds THEN ~HasLease(op) /\ backend.generation # number
    ELSE /\ op # Register /\ ~Executed(op)
         /\ backend.generation # number \/ backend.revoked

\* The backend refuses with a status below 500: a request that is outdated,
\* or one that it will not execute for another reason.
Refused ==
    /\ call.at = "waiting"
    /\ \/ Outdated(call.op, call.number) /\ UNCHANGED upsets
       \/ call.op \notin LeaseIds /\ ~Executed(call.op) /\ Upset
    /\ sent' = {r \in sent : r.op # call.op}
    /\ Goto(IF call.op \in LeaseIds THEN "unsure" ELSE "refused")
    /\ UNCHANGED <<journal, files, sends, backend>>

\* No answer in time, or one of 500 and more.
NoAnswer ==
    /\ call.at = "waiting" /\ Upset
    /\ Goto("unsure")
    /\ UNCHANGED <<journal, files, remote>>

\* mark_uncertain or reject_operation, which raise for an operation of another
\* epoch; the error goes on to the caller.
Classify ==
    /\ call.at \in {"unsure", "refused"}
    /\ LET state == IF call.at = "unsure" THEN "uncertain" ELSE "rejected"
       IN  IF Current /\ MayMove(Row, state, call.owner, call.generation)
           THEN SetRow(state) ELSE UNCHANGED operations
    /\ End
    /\ UNCHANGED <<clock, lease, mapped, files, remote, upsets>>

\* reconcile_operation if the operation had been dispatched before this call,
\* complete_operation otherwise.
Record ==
    /\ call.at = "record" /\ Current
    /\ IF IF call.seen = "prepared"
          THEN MayMove(Row, "confirmed", call.owner, call.generation)
          ELSE MayReconcile(Row, "confirmed")
       THEN SetRow("confirmed") /\ AfterEffect
       ELSE End /\ UNCHANGED operations
    /\ UNCHANGED <<clock, lease, mapped, files, remote, upsets>>

\* renew: the local credential lives on, in the file only.
Extend ==
    /\ call.at = "extend"
    /\ credentials' = [credentials EXCEPT !.expires = clock + TTL]
    /\ End
    /\ UNCHANGED <<journal, pending, saved, remote, upsets>>

\* revoke: first the file, then the lease.
Disown ==
    /\ call.at = "disown"
    /\ credentials' = [credentials EXCEPT !.revoked = TRUE]
    /\ Goto("release")
    /\ UNCHANGED <<journal, pending, saved, remote, upsets>>

Release ==
    /\ call.at = "release" /\ Current
    /\ lease' = [lease EXCEPT !.revoked = TRUE]
    /\ End
    /\ UNCHANGED <<clock, operations, mapped, files, remote, upsets>>

----------------------------------------------------------------------------
(* _resume, after takeover.json is written.                                *)

\* Mutant: the old lease is left to run out.
ReleaseNothing ==
    /\ call.at = "release-old"
    /\ Goto("acquire")
    /\ UNCHANGED <<journal, files, remote, upsets>>

ReleaseOld ==
    /\ call.at = "release-old"
    /\ lease' = IF Holds(lease, clock, pending.oldOwner, pending.oldGeneration)
                THEN [lease EXCEPT !.revoked = TRUE] ELSE lease
    /\ Goto("acquire")
    /\ UNCHANGED <<clock, operations, mapped, files, remote, upsets>>

\* The lease effect has the takeover's id, not the epoch's.
Acquire ==
    /\ call.at = "acquire" /\ Acquirable(call.owner)
    /\ lease' = Acquired(call.owner)
    /\ call' = [call EXCEPT !.at = "prepare", !.generation = lease'.generation,
                            !.op = TakeoverOf(pending), !.number = pending.expected]
    /\ UNCHANGED <<clock, operations, mapped, files, remote, upsets>>

----------------------------------------------------------------------------
(* _lease_effect: the secret is saved before the receipt is recorded.      *)
PrepareLease ==
    /\ call.at = "prepare" /\ Current
    /\ Prepares
    /\ LET state == IF Row = NoOperation THEN "prepared" ELSE Row.state
       IN  CASE Row # NoOperation /\ Row.intent # Expecting(call.number) -> End
             [] OTHER ->
                  CASE saved[call.op] # 0 ->
                         call' = [call EXCEPT !.at = "confirm", !.seen = state,
                                              !.number = saved[call.op]]
                    [] saved[call.op] = 0 /\ state = "confirmed" -> End
                    [] saved[call.op] = 0 /\ state = "prepared" ->
                         call' = [call EXCEPT !.at = "dispatch", !.seen = state]
                    [] OTHER -> call' = [call EXCEPT !.at = "send", !.seen = state]
    /\ UNCHANGED <<clock, lease, mapped, files, remote, upsets>>

\* Mutant: the receipt is recorded, the secret is not saved.
SaveNothing ==
    /\ call.at = "save"
    /\ Goto("confirm")
    /\ UNCHANGED <<journal, files, remote, upsets>>

Save ==
    /\ call.at = "save"
    /\ saved' = [saved EXCEPT ![call.op] = call.number]
    /\ Goto("confirm")
    /\ UNCHANGED <<journal, credentials, pending, remote, upsets>>

Confirm ==
    /\ call.at = "confirm"
    /\ \/ call.seen = "confirmed" /\ Goto("credentials") /\ UNCHANGED operations
       \/ /\ call.seen # "confirmed" /\ Current /\ MayReconcile(Row, "confirmed")
          /\ SetRow("confirmed") /\ Goto("credentials")
    /\ UNCHANGED <<clock, lease, mapped, files, remote, upsets>>

\* Mutant: the file keeps the backend generation it had.
WriteOldGeneration ==
    /\ call.at = "credentials"
    /\ credentials' = [owner |-> call.owner, generation |-> call.generation,
                       remote |-> credentials.remote, expires |-> clock + TTL,
                       revoked |-> FALSE]
    /\ Goto(IF call.why = "start" THEN "map" ELSE "lifecycle")
    /\ UNCHANGED <<journal, pending, saved, remote, upsets>>

WriteCredentials ==
    /\ call.at = "credentials"
    /\ credentials' = [owner |-> call.owner, generation |-> call.generation,
                       remote |-> call.number, expires |-> clock + TTL, revoked |-> FALSE]
    /\ Goto(IF call.why = "start" THEN "map" ELSE "lifecycle")
    /\ UNCHANGED <<journal, pending, saved, remote, upsets>>

\* The mapping project/lifecycle, which no step here reads.
Lifecycle ==
    /\ call.at = "lifecycle" /\ Current
    /\ Goto("unlink")
    /\ UNCHANGED <<journal, files, remote, upsets>>

Unlink ==
    /\ call.at = "unlink"
    /\ pending' = NoPending
    /\ Goto("map")
    /\ UNCHANGED <<journal, credentials, saved, remote, upsets>>

Map ==
    /\ call.at = "map" /\ Current
    /\ mapped' = call.number
    /\ IF call.why = "start" THEN End ELSE Goto("adopt")
    /\ UNCHANGED <<clock, lease, operations, files, remote, upsets>>

\* Mutant: the successor takes every pending command for done.
AdoptAny ==
    /\ call.at = "adopt" /\ Current
    /\ \E op \in Command :
          /\ MayReconcile(operations[op], "confirmed")
          /\ operations' = [operations EXCEPT ![op] = Moved(@, "confirmed", None)]
    /\ UNCHANGED <<clock, lease, mapped, files, call, remote, upsets>>

\* pending_operations, one after the other: an operation that the backend
\* knows is confirmed from its receipt.
Adopt ==
    /\ call.at = "adopt" /\ Current
    /\ \E op \in Command :
          /\ MayReconcile(operations[op], "confirmed") /\ Executed(op)
          /\ operations' = [operations EXCEPT ![op] = Moved(@, "confirmed", None)]
    /\ UNCHANGED <<clock, lease, mapped, files, call, remote, upsets>>

\* The others stay pending; a lookup may fail.
Resumed ==
    /\ call.at = "adopt"
    /\ End
    /\ UNCHANGED <<journal, files, remote, upsets>>

----------------------------------------------------------------------------
\* A step that does not find its lease, or acquire_lease that finds another
\* owner's, raises.
Raise ==
    /\ \/ /\ call.at \in {"effect", "dispatch", "record", "release", "prepare", "lifecycle",
                          "map"}
          /\ ~Current
       \/ call.at = "confirm" /\ call.seen # "confirmed" /\ ~Current
       \/ call.at = "acquire" /\ ~Acquirable(call.owner)
    /\ End
    /\ UNCHANGED <<journal, files, remote, upsets>>

\* The process dies, or a file cannot be written.
Die ==
    /\ call.at # "idle" /\ Upset
    /\ End
    /\ UNCHANGED <<journal, files, remote>>

----------------------------------------------------------------------------
(* External: the backend, as project.py relies on it.  A lease is granted  *)
(* once per operation id and only over the generation that was expected; a *)
(* command is executed once per id and only for the current generation.    *)
GrantLease(r) ==
    /\ r.op \in LeaseIds /\ ~HasLease(r.op) /\ r.number = backend.generation
    /\ backend' = [backend EXCEPT !.generation = @ + 1, !.revoked = FALSE,
                                  !.granted[r.op] = backend.generation + 1]

Execute(r) ==
    /\ r.op \notin LeaseIds /\ ~Executed(r.op)
    /\ r.op = Register \/ (r.number = backend.generation /\ ~backend.revoked)
    /\ backend' = [backend EXCEPT
           !.done = Append(@, [op |-> r.op, generation |-> r.number]),
           !.revoked = @ \/ r.why = "revoke"]

Arrive(r) ==
    /\ GrantLease(r) \/ Execute(r)
    /\ UNCHANGED <<journal, files, call, sent, sends, upsets>>

----------------------------------------------------------------------------
CallNext ==
    \/ PrepareEffect \/ Dispatch \/ Send \/ Answer \/ Refused \/ Classify \/ Record
    \/ Extend \/ Disown \/ Release \/ ReleaseOld \/ Acquire \/ PrepareLease \/ Save
    \/ Confirm \/ WriteCredentials \/ Lifecycle \/ Unlink \/ Map \/ Adopt \/ Resumed
    \/ Raise

Next ==
    \/ \E o \in Owner : Start(o) \/ Resume(o)
    \/ \E why \in {"command", "renew", "revoke"}, op \in Command : Begin(why, op)
    \/ CallNext \/ NoAnswer \/ Die \/ ClockMoves
    \/ \E r \in sent : Arrive(r)

Spec == Init /\ [][Next]_vars

(* A call goes on, a request that was sent arrives, and a takeover that    *)
(* was begun is tried again.                                               *)
FairSpec ==
    /\ Spec
    /\ WF_vars(CallNext)
    /\ WF_vars(\E r \in sent : Arrive(r))
    /\ \A o \in Owner : SF_vars(pending # NoPending /\ Resume(o))

----------------------------------------------------------------------------
(* No blind retry: a command leaves at most once, whoever asks for it      *)
(* again, in whatever epoch, and only under an intent the journal holds.   *)
CommandsLeaveOnce ==
    \A op \in Command :
        /\ sends[op] =< 1
        /\ sends[op] = 1 => operations[op].state \notin {"absent", "prepared"}

(* The backend's lease moves at most once per takeover, wherever the       *)
(* takeover stopped and however often it was resumed.  coordinator.json    *)
(* names the newest lease, or takeover.json still says which lease may be  *)
(* missing from it; and its journal epoch is the journal's, or an older    *)
(* one, never another owner's.                                             *)
AuthorityIsTraceable ==
    credentials # NoCredentials =>
        /\ credentials.generation =< lease.generation
        /\ credentials.generation = lease.generation => credentials.owner = lease.owner
        /\ IF pending = NoPending THEN credentials.remote = backend.generation
           ELSE /\ backend.generation - pending.expected \in {0, 1}
                /\ credentials.remote \in {pending.expected, backend.generation}

(* And a lease that is confirmed can be used: its secret was saved first, and  *)
(* it is the one the backend granted.                                      *)
SecretsAreKept ==
    \A op \in LeaseIds :
        /\ operations[op].state = "confirmed" => saved[op] # 0
        /\ saved[op] # 0 => saved[op] = backend.granted[op]

(* Both together: a coordinator, or the one that takes it over, has what   *)
(* it needs to act.                                                        *)
AuthorityIsKept == AuthorityIsTraceable /\ SecretsAreKept

(* And a takeover, wherever it stops, neither loses that nor repeats what  *)
(* was asked for before it.                                                *)
TakeoverIsSafe == AuthorityIsKept /\ CommandsLeaveOnce

(* The journal's verdict on a command is what the backend did, across      *)
(* takeovers: a successor confirms only what it found executed, and what   *)
(* was rejected is never executed late.                                    *)
VerdictOf(op) ==
    IF op \in LeaseIds THEN "open"
    ELSE CASE operations[op].state = "confirmed" -> "done"
           [] operations[op].state = "rejected" -> "refused"
           [] OTHER -> "open"
Abstract == INSTANCE EffectOnce WITH
    Generation <- 0 .. Cardinality(LeaseIds),
    effects <- backend.done,
    verdict <- [op \in Operation |-> VerdictOf(op)]
CommandsAreEffects == Abstract!Spec

(* An intent that an epoch left prepared can be dispatched by that epoch   *)
(* only; and the id of a takeover names the epoch it ends, so that it is   *)
(* taken if the clock was set back to before that epoch ran out.           *)
Stranded(op) ==
    /\ operations[op].state = "prepared"
    /\ ~Holds(lease, clock, operations[op].owner, operations[op].generation)
Taken(op, number) == operations[op].intent \notin {None, Expecting(number)}

(* A takeover that is tried again ends, wherever it stopped: with these    *)
(* two exceptions.                                                         *)
TakeoversEnd ==
    pending # NoPending ~>
        \/ pending = NoPending
        \/ Stranded(TakeoverOf(pending)) \/ Taken(TakeoverOf(pending), pending.expected)
=============================================================================
