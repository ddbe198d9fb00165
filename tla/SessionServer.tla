---------------------------- MODULE SessionServer ----------------------------
(***************************************************************************)
(* What tmux_console/app.py does with sessions while they live: launches   *)
(* under a request id (launch_requests.py), the monitor that ends sessions *)
(* when their agent has finished (session_completion.py), the sampler that *)
(* counts ready events (session_attention.py) and streams them to browsers *)
(* (SessionStreamBroker), and the requests of those browsers.              *)
(*                                                                         *)
(* The server is one asyncio loop: an action runs from one await to the    *)
(* next, and the identity lock keeps sampler, monitor and handlers apart.  *)
(* It does not keep agents and their users from acting in tmux.            *)
(***************************************************************************)
EXTENDS Integers, Sequences, FiniteSets

CONSTANTS
    Name,          \* names of sessions
    Request,       \* ids of launch requests
    Browser,
    Task,          \* bound: tasks of the stream
    None,
    Settle,        \* COMPLETION_SETTLE_SECONDS
    Uses,          \* bound: features, browsers and tasks in use together
    MaxIdentity,   \* bound: sessions that are ever created
    MaxEpisodes,   \* bound: times that agents start to work or users mark unread
    MaxFaults      \* bound: commands of tmux that fail, restarts, lost writes

ASSUME BoundsAssumption == {Settle, MaxIdentity, MaxEpisodes, MaxFaults} \subseteq Nat
ASSUME UsesAssumption == Uses \subseteq SUBSET ({"launching", "killing", "reading", "ending"} \cup Browser \cup Task)
ASSUME NoneAssumption == None \notin Name \cup Request \cup Browser
ASSUME LockAssumption == None \notin {"handler", "monitor"} /\ {None, "handler", "monitor"} \cap Task = {}

VARIABLES
    tmux,       \* by name: identity (0: no session), what its agent does,
                \* and the option that the monitor reads ("off": empty)
    born,       \* identities given so far
    worked,     \* identities whose agent has worked since they were armed
    launched,   \* the requests whose session was created, in order
    receipts,   \* launch_requests: the state of each request
    launching,  \* the launch under way
    lock,       \* who has the identity lock
    handler,    \* the request that has it
    monitor,    \* what it has listed and seen, and what it has left to do
    since,      \* _ready_since, as the time that went by since then
    rows,       \* session_attention
    sampler,    \* _sampler: the task that the stream has now
    tasks,      \* by task: what it does and what it has built; one that was
                \* cancelled stays until the loop runs it again
    latest,     \* _latest: what a new subscriber is sent at once
    queue,      \* by subscriber: the snapshot that waits for it, if any
    shown,      \* by browser: the last snapshot it received
    told,       \* the newest event of each identity that any browser was shown
    scenario    \* the features in use, and how much of the bounds is used up

world  == <<tmux, born, worked>>
launch == <<launched, receipts, launching>>
ending == <<monitor, since>>
stream == <<sampler, tasks, latest, queue, shown, told>>
vars == <<world, launch, lock, handler, ending, rows, stream, scenario>>

Identity == 1 .. MaxIdentity
Gone == [id |-> 0, doing |-> "shell", armed |-> "off"]
Done == {"ready", "shell"}   \* it waits for its user, or it is a shell again
Unlisted == [n \in Name |-> [id |-> 0, armed |-> "off"]]
Unseen == [n \in Name |-> [id |-> 0, latest |-> 0]]
Resting == [stage |-> "idle", list |-> Unlisted, todo |-> {}, saw |-> "none"]
Stopped == [stage |-> "off", list |-> Unlisted, payload |-> Unseen]
Started == [Stopped EXCEPT !.stage = "wait"]
Unknown == [awaiting |-> FALSE, latest |-> 0, checked |-> 0]

Init ==
    /\ tmux = [n \in Name |-> Gone]
    /\ born = 0
    /\ worked = {}
    /\ launched = <<>>
    /\ receipts = [r \in Request |-> "none"]
    /\ launching = None
    /\ lock = None
    /\ handler = None
    /\ monitor = Resting
    /\ since = [i \in Identity |-> None]
    /\ rows = [i \in Identity |-> Unknown]
    /\ sampler = None
    /\ tasks = [t \in Task |-> Stopped]
    /\ latest = None
    /\ queue = [b \in {} |-> None]
    /\ shown = [b \in Browser |-> Unseen]
    /\ told = [i \in Identity |-> 0]
    /\ scenario \in [uses : Uses, episodes : {0}, faults : {0}]

Listing == [n \in Name |-> [id |-> tmux[n].id, armed |-> tmux[n].armed]]
Subscribed == DOMAIN queue
Live(n) == tmux[n].id # 0
Fault == /\ scenario.faults < MaxFaults
         /\ scenario' = [scenario EXCEPT !.faults = @ + 1]
Episode == /\ scenario.episodes < MaxEpisodes
           /\ scenario' = [scenario EXCEPT !.episodes = @ + 1]

----------------------------------------------------------------------------
(* Agents and users, at any time.                                          *)
Appears(n) ==
    /\ ~Live(n) /\ born < MaxIdentity
    /\ born' = born + 1
    /\ tmux' = [tmux EXCEPT ![n] = [Gone EXCEPT !.id = born + 1]]

CreateOutside(n) ==
    /\ Appears(n)
    /\ UNCHANGED <<worked, launch, lock, handler, ending, rows, stream, scenario>>

KillOutside(n) ==
    /\ "killing" \in scenario.uses /\ Live(n)
    /\ tmux' = [tmux EXCEPT ![n] = Gone]
    /\ UNCHANGED <<born, worked, launch, lock, handler, ending, rows, stream, scenario>>

Agent(n, doing) ==
    /\ "launching" \notin scenario.uses
    /\ Live(n) /\ tmux[n].doing # doing
    /\ doing = "unknown" => tmux[n].doing = "working"
    /\ tmux' = [tmux EXCEPT ![n].doing = doing]
    /\ IF doing = "working" THEN Episode /\ worked' = worked \cup {tmux[n].id}
                           ELSE UNCHANGED <<worked, scenario>>
    /\ UNCHANGED <<born, launch, lock, handler, ending, rows, stream>>

----------------------------------------------------------------------------
(* Launches, one at a time under their own lock.                           *)

\* Mutant: a request that was left pending is launched again.
ReserveAgain(r, n) ==
    /\ "launching" \in scenario.uses /\ launching = None /\ receipts[r] \in {"none", "pending"}
    /\ receipts' = [receipts EXCEPT ![r] = "pending"]
    /\ launching' = [request |-> r, name |-> n, stage |-> "reserved"]
    /\ UNCHANGED <<world, launched, lock, handler, ending, rows, stream, scenario>>

\* reserve: a request that is known is answered from its row.
Reserve(r, n) ==
    /\ "launching" \in scenario.uses /\ launching = None /\ receipts[r] = "none"
    /\ receipts' = [receipts EXCEPT ![r] = "pending"]
    /\ launching' = [request |-> r, name |-> n, stage |-> "reserved"]
    /\ UNCHANGED <<world, launched, lock, handler, ending, rows, stream, scenario>>

Reserved == launching # None /\ launching.stage = "reserved"

\* tmux creates the session, and its answer may be lost.
Create(answered) ==
    /\ Reserved /\ Appears(launching.name)
    /\ launched' = Append(launched, launching.request)
    /\ IF answered THEN launching' = [launching EXCEPT !.stage = "created"] /\ UNCHANGED scenario
                   ELSE launching' = None /\ Fault
    /\ UNCHANGED <<worked, receipts, lock, handler, ending, rows, stream>>

\* The directory or the name is refused, or tmux does not answer.
CreateFails(definite) ==
    /\ Reserved
    /\ IF definite
       THEN receipts' = [receipts EXCEPT ![launching.request] = "failed"] /\ UNCHANGED scenario
       ELSE Fault /\ UNCHANGED receipts
    /\ launching' = None
    /\ UNCHANGED <<world, launched, lock, handler, ending, rows, stream>>

\* complete: the receipt is stored, or cannot be and stays pending.
Complete(stored) ==
    /\ launching # None /\ launching.stage = "created"
    /\ IF stored THEN receipts' = [receipts EXCEPT ![launching.request] = "complete"] /\ UNCHANGED scenario
                 ELSE Fault /\ UNCHANGED receipts
    /\ launching' = None
    /\ UNCHANGED <<world, launched, lock, handler, ending, rows, stream>>

----------------------------------------------------------------------------
(* Requests of browsers, about a session as they were shown it.            *)
Ask(do, n, event) ==
    /\ lock = None
    /\ lock' = "handler"
    /\ handler' = [do |-> do, name |-> n, was |-> Listing[n], saw |-> "none", event |-> event]
    /\ UNCHANGED <<world, launch, ending, rows, stream>>

Sees(b, n) == Live(n) /\ shown[b][n].id = tmux[n].id

AskToEnd(do, n) ==
    /\ "ending" \in scenario.uses /\ Live(n)
    /\ Ask(do, n, 0)
    /\ UNCHANGED scenario

AskToRead(b, n) ==
    /\ "reading" \in scenario.uses /\ Sees(b, n)
    /\ Ask("read", n, shown[b][n].latest)
    /\ UNCHANGED scenario

AskToUnread(b, n) ==
    /\ "reading" \in scenario.uses /\ Sees(b, n) /\ Episode
    /\ Ask("unread", n, 0)

Handles(do) == handler # None /\ handler.do = do
Answer == lock' = None /\ handler' = None

\* The session that was looked up is still the one of its name.
Same(n, was) == tmux[n].id = was.id

\* Mutant: what the browser did not see is read as well.
ReadAll ==
    /\ Handles("read")
    /\ rows' = [rows EXCEPT ![handler.was.id].checked = rows[handler.was.id].latest]
    /\ Answer
    /\ UNCHANGED <<world, launch, ending, stream, scenario>>

\* SessionAttention.update("read")
Read ==
    /\ Handles("read")
    /\ rows' = [rows EXCEPT ![handler.was.id].checked =
                   IF handler.event > @ THEN handler.event ELSE @]
    /\ Answer
    /\ UNCHANGED <<world, launch, ending, stream, scenario>>

\* SessionAttention.update("unread")
Unread ==
    /\ Handles("unread")
    /\ rows' = [rows EXCEPT ![handler.was.id].latest =
                   IF @ = rows[handler.was.id].checked THEN @ + 1 ELSE @]
    /\ Answer
    /\ UNCHANGED <<world, launch, ending, stream, scenario>>

\* set_enabled(True) looks at every pane before it writes the option.
LookBeforeArming ==
    /\ Handles("arm") /\ handler.saw = "none"
    /\ IF handler.was.armed # "off" THEN Answer
       ELSE /\ handler' = [handler EXCEPT !.saw = IF Same(handler.name, handler.was)
                                                  THEN tmux[handler.name].doing ELSE "unknown"]
            /\ UNCHANGED lock
    /\ UNCHANGED <<world, launch, ending, rows, stream, scenario>>

\* Mutant: a session is armed as if its agent had worked.
ArmWorking ==
    /\ Handles("arm") /\ handler.saw # "none"
    /\ IF Same(handler.name, handler.was)
       THEN /\ tmux' = [tmux EXCEPT ![handler.name].armed = "working"]
            /\ worked' = IF tmux[handler.name].doing = "working"
                         THEN worked \cup {handler.was.id} ELSE worked \ {handler.was.id}
            /\ since' = [since EXCEPT ![handler.was.id] = None]
       ELSE UNCHANGED <<tmux, worked, since>>
    /\ Answer
    /\ UNCHANGED <<born, launch, monitor, rows, stream, scenario>>

\* set_end_when_finished, which tmux does for that session only.
Arm ==
    /\ Handles("arm") /\ handler.saw # "none"
    /\ IF Same(handler.name, handler.was)
       THEN /\ tmux' = [tmux EXCEPT ![handler.name].armed =
                           IF handler.saw = "working" THEN "working" ELSE "waiting"]
            /\ worked' = IF "working" \in {handler.saw, tmux[handler.name].doing}
                         THEN worked \cup {handler.was.id} ELSE worked \ {handler.was.id}
            /\ since' = [since EXCEPT ![handler.was.id] = None]
       ELSE UNCHANGED <<tmux, worked, since>>
    /\ Answer
    /\ UNCHANGED <<born, launch, monitor, rows, stream, scenario>>

Disarm ==
    /\ Handles("disarm")
    /\ IF handler.was.armed # "off" /\ Same(handler.name, handler.was)
       THEN /\ tmux' = [tmux EXCEPT ![handler.name].armed = "off"]
            /\ since' = [since EXCEPT ![handler.was.id] = None]
       ELSE UNCHANGED <<tmux, since>>
    /\ Answer
    /\ UNCHANGED <<born, worked, launch, monitor, rows, stream, scenario>>

\* terminate_session: tmux kills the session that was looked up, or none.
Terminate ==
    /\ Handles("end")
    /\ tmux' = IF Same(handler.name, handler.was)
               THEN [tmux EXCEPT ![handler.name] = Gone] ELSE tmux
    /\ Answer
    /\ UNCHANGED <<born, worked, launch, ending, rows, stream, scenario>>

HandlerFails ==
    /\ handler # None /\ Fault
    /\ Answer
    /\ UNCHANGED <<world, launch, ending, rows, stream>>

HandlerSteps == Read \/ Unread \/ LookBeforeArming \/ Arm \/ Disarm \/ Terminate

----------------------------------------------------------------------------
(* The monitor: it holds the lock from its list to its last session.       *)
Rest == lock' = None /\ monitor' = Resting

\* check: sessions that are not armed any more lose their time.
Inventory ==
    /\ monitor.stage = "idle" /\ lock = None
    /\ LET armed == {n \in Name : tmux[n].armed # "off"}
       IN  /\ since' = [i \in Identity |-> IF \E n \in armed : tmux[n].id = i
                                           THEN since[i] ELSE None]
           /\ IF armed = {} THEN UNCHANGED <<lock, monitor>>
              ELSE /\ lock' = "monitor"
                   /\ monitor' = [stage |-> "look", list |-> Listing, todo |-> armed, saw |-> "none"]
    /\ UNCHANGED <<world, launch, handler, rows, stream, scenario>>

\* The detector's look at a session, which may be gone by now.
Look(n) ==
    /\ monitor.stage = "look" /\ n \in monitor.todo
    /\ monitor' = [monitor EXCEPT !.stage = "act", !.todo = {n} \cup (@ \ {n}),
                                  !.saw = <<n, IF Same(n, monitor.list[n])
                                               THEN tmux[n].doing ELSE "unknown">>]
    /\ UNCHANGED <<world, launch, lock, handler, since, rows, stream, scenario>>

Acting == monitor.stage = "act"
Target == monitor.saw[1]
Saw == monitor.saw[2]
Listed == monitor.list[Target]

Next1 ==
    LET left == monitor.todo \ {Target}
    IN  IF left = {} THEN Rest
        ELSE monitor' = [monitor EXCEPT !.stage = "look", !.todo = left, !.saw = "none"] /\ UNCHANGED lock

\* A busy session: its time starts again, and the option remembers the work.
NoteBusy ==
    /\ Acting /\ Saw = "working"
    /\ since' = [since EXCEPT ![Listed.id] = None]
    /\ tmux' = IF Listed.armed # "working" /\ Same(Target, Listed)
               THEN [tmux EXCEPT ![Target].armed = "working"] ELSE tmux
    /\ Next1
    /\ UNCHANGED <<born, worked, launch, handler, rows, stream, scenario>>

\* It has not worked yet, or is neither busy nor ready.
NotYet ==
    /\ Acting /\ Saw # "working" /\ (Listed.armed # "working" \/ Saw \notin Done)
    /\ since' = IF Listed.armed = "working" THEN [since EXCEPT ![Listed.id] = None] ELSE since
    /\ Next1
    /\ UNCHANGED <<world, launch, handler, rows, stream, scenario>>

Finished == Acting /\ Saw \in Done /\ Listed.armed = "working"

\* Mutant: the time of a session that is ready never starts.
WaitForever ==
    /\ Finished /\ since[Listed.id] \in {None} \cup 0 .. Settle - 1
    /\ UNCHANGED since
    /\ Next1
    /\ UNCHANGED <<world, launch, handler, rows, stream, scenario>>

Wait ==
    /\ Finished /\ since[Listed.id] \in {None} \cup 0 .. Settle - 1
    /\ since' = [since EXCEPT ![Listed.id] = IF @ = None THEN 0 ELSE @]
    /\ Next1
    /\ UNCHANGED <<world, launch, handler, rows, stream, scenario>>

End ==
    /\ Finished /\ since[Listed.id] = Settle
    /\ tmux' = IF Same(Target, Listed) THEN [tmux EXCEPT ![Target] = Gone] ELSE tmux
    /\ since' = [since EXCEPT ![Listed.id] = None]
    /\ Next1
    /\ UNCHANGED <<born, worked, launch, handler, rows, stream, scenario>>

\* A command for one session fails: the others are still looked at.
MonitorFails ==
    /\ Acting /\ Fault
    /\ since' = [since EXCEPT ![Listed.id] = None]
    /\ Next1
    /\ UNCHANGED <<world, launch, handler, rows, stream>>

Tick ==
    /\ \E i \in Identity : since[i] # None /\ since[i] < Settle
    /\ since' = [i \in Identity |-> IF since[i] = None \/ since[i] = Settle
                                    THEN since[i] ELSE since[i] + 1]
    /\ UNCHANGED <<world, launch, lock, handler, monitor, rows, stream, scenario>>

MonitorSteps == \/ \E n \in Name : Look(n)
                \/ NoteBusy \/ NotYet \/ Wait \/ End

----------------------------------------------------------------------------
(* The stream.                                                             *)

\* The first subscriber brings a sampler along.
Subscribe(b) ==
    /\ b \in scenario.uses \ Subscribed
    /\ queue' = [c \in Subscribed \cup {b} |-> IF c = b THEN latest ELSE queue[c]]
    /\ IF sampler # None THEN UNCHANGED <<sampler, tasks>>
       ELSE LET free == {t \in Task \cap scenario.uses : tasks[t].stage = "off"}
            IN  /\ free # {}
                /\ sampler' = CHOOSE t \in free : TRUE   \* they are all alike
                /\ tasks' = [tasks EXCEPT ![sampler'] = Started]
    /\ UNCHANGED <<world, launch, lock, handler, ending, rows, latest, shown, told, scenario>>

Leaves(b) ==
    /\ b \in Subscribed
    /\ queue' = [c \in Subscribed \ {b} |-> queue[c]]
    /\ shown' = [shown EXCEPT ![b] = Unseen]
    /\ UNCHANGED <<world, launch, lock, handler, ending, rows, tasks, told, scenario>>

\* Mutants: the sampler is cancelled when any subscriber leaves, or it is
\* cancelled and never forgotten.
UnsubscribeAny(b) ==
    /\ Leaves(b)
    /\ sampler' = None /\ latest' = None

UnsubscribeKeeping(b) ==
    /\ b \in Subscribed /\ sampler # None
    /\ queue' = [c \in Subscribed \ {b} |-> queue[c]]
    /\ shown' = [shown EXCEPT ![b] = Unseen]
    /\ IF Subscribed # {b} THEN UNCHANGED <<tasks, latest, lock>>
       ELSE /\ tasks' = [tasks EXCEPT ![sampler] = Stopped]
            /\ latest' = None
            /\ lock' = IF lock = sampler THEN None ELSE lock
    /\ UNCHANGED <<world, launch, handler, ending, rows, sampler, told, scenario>>

\* The last subscriber takes the sampler with it: its task is cancelled.
Unsubscribe(b) ==
    /\ Leaves(b)
    /\ IF Subscribed = {b} THEN sampler' = None /\ latest' = None
                           ELSE UNCHANGED <<sampler, latest>>

\* The cancelled task ends where it waits.  Until the loop runs it, it keeps
\* the lock; and it may miss the cancellation, when the command that it
\* waits for has just ended (asyncio.wait_for), and go on.
Cancelled(t) ==
    /\ tasks[t].stage # "off" /\ sampler # t
    /\ tasks' = [tasks EXCEPT ![t] = Stopped]
    /\ lock' = IF lock = t THEN None ELSE lock
    /\ UNCHANGED <<world, launch, handler, ending, rows, sampler, latest, queue, shown, told, scenario>>

\* _build_unlocked lists the sessions, ...
Sample(t) ==
    /\ tasks[t].stage = "wait" /\ lock = None
    /\ lock' = t
    /\ tasks' = [tasks EXCEPT ![t].stage = "listed", ![t].list = Listing]
    /\ UNCHANGED <<world, launch, handler, ending, rows, sampler, latest, queue, shown, told, scenario>>

\* SessionAttention.observe
Observed(row, doing) ==
    [row EXCEPT !.awaiting = doing = "working" \/ (doing = "unknown" /\ @),
                !.latest = IF doing = "ready" /\ row.awaiting THEN @ + 1 ELSE @]

\* ... and looks at them: one that is gone by then is in no known state.
Observe(t) ==
    LET was == tasks[t].list
        doing(n) == IF Same(n, was[n]) THEN tmux[n].doing ELSE "unknown"
        of(i) == CHOOSE n \in Name : was[n].id = i
        seen == {was[n].id : n \in Name} \ {0}
        built == [n \in Name |-> [id |-> was[n].id, latest |->
                     IF was[n].id = 0 THEN 0 ELSE rows'[was[n].id].latest]]
    IN  /\ tasks[t].stage = "listed"
        /\ rows' = [i \in Identity |-> IF i \in seen THEN Observed(rows[i], doing(of(i))) ELSE rows[i]]
        /\ tasks' = [tasks EXCEPT ![t] = [Stopped EXCEPT !.stage = "built", !.payload = built]]
        /\ lock' = None
        /\ UNCHANGED <<world, launch, handler, ending, sampler, latest, queue, shown, told, scenario>>

SampleFails(t) ==
    /\ tasks[t].stage = "listed" /\ Fault
    /\ lock' = None
    /\ tasks' = [tasks EXCEPT ![t] = Started]
    /\ UNCHANGED <<world, launch, handler, ending, rows, sampler, latest, queue, shown, told>>

\* What is new goes to the subscribers in S, in place of what waits there.
Offer(payload, S) ==
    IF payload = latest THEN UNCHANGED <<latest, queue>>
    ELSE /\ latest' = payload
         /\ queue' = [b \in Subscribed |-> IF b \in S THEN payload ELSE queue[b]]

\* Mutants: a task publishes though another one has taken its place, or
\* only one subscriber gets the snapshot.
PublishLate(t) ==
    /\ tasks[t].stage = "built"
    /\ Offer(tasks[t].payload, Subscribed)
    /\ tasks' = [tasks EXCEPT ![t] = IF sampler = t THEN Started ELSE Stopped]
    /\ UNCHANGED <<world, launch, lock, handler, ending, rows, sampler, shown, told, scenario>>

PublishToOne(t) ==
    /\ tasks[t].stage = "built"
    /\ IF sampler = t
       THEN /\ \E b \in Subscribed : Offer(tasks[t].payload, {b})
            /\ tasks' = [tasks EXCEPT ![t] = Started]
       ELSE /\ tasks' = [tasks EXCEPT ![t] = Stopped]
            /\ UNCHANGED <<latest, queue>>
    /\ UNCHANGED <<world, launch, lock, handler, ending, rows, sampler, shown, told, scenario>>

\* A task that finds another one, or none, in its place ends without a word.
Publish(t) ==
    /\ tasks[t].stage = "built"
    /\ IF sampler = t
       THEN /\ Offer(tasks[t].payload, Subscribed)
            /\ tasks' = [tasks EXCEPT ![t] = Started]
       ELSE /\ tasks' = [tasks EXCEPT ![t] = Stopped]
            /\ UNCHANGED <<latest, queue>>
    /\ UNCHANGED <<world, launch, lock, handler, ending, rows, sampler, shown, told, scenario>>

Receive(b) ==
    /\ b \in Subscribed /\ queue[b] # None
    /\ shown' = [shown EXCEPT ![b] = queue[b]]
    /\ told' = [i \in Identity |->
                   IF \E n \in Name : queue[b][n].id = i /\ queue[b][n].latest > told[i]
                   THEN queue[b][CHOOSE n \in Name : queue[b][n].id = i].latest ELSE told[i]]
    /\ queue' = [queue EXCEPT ![b] = None]
    /\ UNCHANGED <<world, launch, lock, handler, ending, rows, sampler, tasks, latest, scenario>>

----------------------------------------------------------------------------
\* The server ends and starts again: tmux and the databases stay.
Restart ==
    /\ Fault
    /\ launching' = None
    /\ lock' = None
    /\ handler' = None
    /\ monitor' = Resting
    /\ since' = [i \in Identity |-> None]
    /\ sampler' = None
    /\ tasks' = [t \in Task |-> Stopped]
    /\ latest' = None
    /\ queue' = [b \in {} |-> None]
    /\ UNCHANGED <<world, launched, receipts, rows, shown, told>>

Next ==
    \/ \E n \in Name :
          \/ CreateOutside(n) \/ KillOutside(n)
          \/ \E doing \in {"working", "unknown", "ready", "shell"} : Agent(n, doing)
          \/ \E r \in Request : Reserve(r, n)
          \/ \E do \in {"arm", "disarm", "end"} : AskToEnd(do, n)
          \/ \E b \in Browser : AskToRead(b, n) \/ AskToUnread(b, n)
    \/ \E b \in BOOLEAN : Create(b) \/ CreateFails(b) \/ Complete(b)
    \/ HandlerSteps \/ HandlerFails
    \/ Inventory \/ MonitorSteps \/ MonitorFails \/ Tick
    \/ \E b \in Browser : Subscribe(b) \/ Unsubscribe(b) \/ Receive(b)
    \/ \E t \in Task : Cancelled(t) \/ Sample(t) \/ Observe(t) \/ SampleFails(t) \/ Publish(t)
    \/ Restart

Spec == Init /\ [][Next]_vars

(* The loop runs what can run.  asyncio.Lock serves its waiters in turn,   *)
(* so the sampler and the monitor get the lock however often others take   *)
(* it, and a task that was cancelled goes on or ends; time goes by;        *)
(* browsers read their stream.                                             *)
FairSpec ==
    /\ Spec
    /\ WF_vars(HandlerSteps) /\ WF_vars(MonitorSteps) /\ WF_vars(Tick)
    /\ SF_vars(Inventory) /\ SF_vars(\E t \in Task : Sample(t) /\ sampler = t)
    /\ WF_vars(\E t \in Task : Observe(t)) /\ WF_vars(\E t \in Task : Publish(t) /\ sampler = t)
    /\ \A b \in Browser : WF_vars(Receive(b))

----------------------------------------------------------------------------
(* A launch request is an operation of EffectOnce: however often the       *)
(* command line sends it again, whatever tmux or the database answers and  *)
(* wherever the server dies, it launches at most one session, and a        *)
(* receipt that says complete or failed is true and final.                 *)
Abstract == INSTANCE EffectOnce WITH
    Operation <- Request,
    Generation <- {1},
    effects <- [i \in DOMAIN launched |-> [op |-> launched[i], generation |-> 1]],
    verdict <- [r \in Request |-> CASE receipts[r] = "complete" -> "done"
                                    [] receipts[r] = "failed" -> "refused"
                                    [] OTHER -> "open"]

LaunchesAreEffects == Abstract!Spec

(* "end after the next work episode": the monitor ends only a session that *)
(* is armed when it dies, and whose agent has worked since it was armed;   *)
(* it never ends another one that took the name.                           *)
EndsOnRequest ==
    [][\A n \in Name : End /\ tmux'[n] # tmux[n] =>
          tmux[n].armed = "working" /\ tmux[n].id \in worked]_vars

(* And it does end it: a session cannot stay armed and finished for ever,  *)
(* though the server restarts, a command fails, and the monitor shares the *)
(* lock with everybody else.                                               *)
EndsWhenFinished ==
    \A n \in Name : \A i \in Identity :
        LET due == tmux[n].id = i /\ tmux[n].armed = "working" /\ tmux[n].doing \in Done
        IN  due ~> ~due

(* A session ends when it was asked to, and only then.                     *)
EndsAsAsked == EndsOnRequest /\ EndsWhenFinished

(* "A read acknowledges only the event that the requesting browser         *)
(* observed": an event that no browser was shown is still unread, whatever *)
(* comes between the snapshot, the request and its handling.               *)
ReadsWhatWasShown == \A i \in Identity : rows[i].checked =< told[i]

(* A ready event reaches every browser that listens, though others come    *)
(* and go, the last one takes the sampler with it, and the task that was   *)
(* cancelled may still be at work when the next one starts.                *)
EventsArrive ==
    \A b \in Browser : \A n \in Name : \A i \in Identity : \A k \in 1 .. MaxEpisodes :
        LET waits == b \in Subscribed /\ tmux[n].id = i /\ rows[i].latest >= k
        IN  waits ~> ~waits \/ (shown[b][n].id = i /\ shown[b][n].latest >= k)

(* And what a browser was shown stays shown while it listens: a late task  *)
(* never brings back a snapshot from before the event.                     *)
EventsStay ==
    [][\A b \in Subscribed \cap Subscribed' : \A n \in Name :
          shown[b][n].id \in {shown'[b][n].id} \ {0} => shown'[b][n].latest >= shown[b][n].latest]_vars

EventsReachBrowsers == EventsArrive /\ EventsStay
=============================================================================
