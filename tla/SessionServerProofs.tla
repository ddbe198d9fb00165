------------------------ MODULE SessionServerProofs -------------------------
(***************************************************************************)
(* Theorems about SessionServer, for every set of names, requests,         *)
(* browsers and tasks and every bound: a read acknowledges what a browser  *)
(* was shown, the monitor ends only sessions that asked for it, a launch   *)
(* request launches at most one, and an event that a browser was shown     *)
(* stays shown.                                                            *)
(***************************************************************************)
EXTENDS SessionServer, TLAPS

Id0 == 0 .. MaxIdentity
Doing == {"working", "unknown", "ready", "shell"}
Armed == {"off", "waiting", "working"}

SessionType == [id: Id0, doing: Doing, armed: Armed]
ListType == [Name -> [id: Id0, armed: Armed]]
Payload == [Name -> [id: Id0, latest: Nat]]
TaskType == [stage: {"off", "wait", "listed", "built"}, list: ListType, payload: Payload]
RowType == [awaiting: BOOLEAN, latest: Nat, checked: Nat]
HandlerType == [do: {"read", "unread", "arm", "disarm", "end"}, name: Name,
                was: [id: Identity, armed: Armed], saw: Doing \cup {"none"}, event: Nat]

(* The types of what the three arguments speak of.                         *)
SessionsTyped ==
    /\ tmux \in [Name -> SessionType]
    /\ born \in Id0
    /\ worked \subseteq Identity
    /\ handler \in HandlerType \cup {None}
    /\ sampler \in Task \cup {None}
    /\ tasks \in [Task -> TaskType]

RowsTyped ==
    /\ rows \in [Identity -> RowType]
    /\ told \in [Identity -> Nat]
    /\ shown \in [Browser -> Payload]
    /\ latest \in Payload \cup {None}
    /\ DOMAIN queue \subseteq Browser /\ queue \in [DOMAIN queue -> Payload \cup {None}]

MonitorTyped ==
    /\ monitor \in [stage: {"idle", "look", "act"}, list: ListType, todo: SUBSET Name,
                    saw: {"none"} \cup (Name \X Doing)]
    /\ monitor.stage = "act" => monitor.saw \in Name \X Doing

LaunchingTyped ==
    launching \in [request: Request, name: Name, stage: {"reserved", "created"}] \cup {None}

Typed == SessionsTyped /\ RowsTyped /\ MonitorTyped /\ LaunchingTyped

----------------------------------------------------------------------------
(* What may be read.  A snapshot has one count for an identity, and what a *)
(* browser shows, or asks to read, has been told.                          *)
OneCount(p) == \A m, n \in Name : p[m].id = p[n].id => p[m].latest = p[n].latest

SnapshotsAgree ==
    /\ \A t \in Task : OneCount(tasks[t].payload)
    /\ latest # None => OneCount(latest)
    /\ \A b \in DOMAIN queue : queue[b] # None => OneCount(queue[b])

ShownIsTold ==
    \A b \in Browser, n \in Name :
        shown[b][n].id # 0 => shown[b][n].latest =< told[shown[b][n].id]

AskedIsTold == handler # None => handler.event =< told[handler.was.id]

ReadInv == Typed /\ SnapshotsAgree /\ ShownIsTold /\ AskedIsTold
              /\ ReadsWhatWasShown

----------------------------------------------------------------------------
(* Whom the monitor ends.  The lock has one holder; identities are given   *)
(* once; and while the monitor has the lock, a session that is still the   *)
(* one it listed is armed as it was listed.                                *)
OneHolder ==
    /\ handler # None => lock = "handler"
    /\ monitor.stage # "idle" => lock = "monitor"
    /\ \A t \in Task : tasks[t].stage = "listed" => lock = t

IdentitiesDiffer ==
    /\ \A n \in Name : tmux[n].id =< born /\ (tmux[n].armed # "off" => tmux[n].id # 0)
    /\ \A m, n \in Name : tmux[m].id = tmux[n].id /\ tmux[n].id # 0 => m = n

WorkIsKnown ==
    \A n \in Name : "working" \in {tmux[n].doing, tmux[n].armed} => tmux[n].id \in worked

ListIsCurrent ==
    monitor.stage # "idle" =>
        /\ \A n \in monitor.todo :
              /\ monitor.list[n].id # 0 /\ monitor.list[n].id =< born
              /\ tmux[n].id = monitor.list[n].id => tmux[n].armed = monitor.list[n].armed
        /\ monitor.stage = "act" =>
              /\ Target \in monitor.todo
              /\ Saw = "working" => Listed.id \in worked

EndInv == Typed /\ OneHolder /\ IdentitiesDiffer /\ WorkIsKnown
             /\ ListIsCurrent

----------------------------------------------------------------------------
(* What was launched.  The launch under way is pending, and its session    *)
(* exists when its stage says so; a receipt says what happened.            *)
Launched(r) == \E i \in DOMAIN launched : launched[i] = r

LaunchInv ==
    /\ Typed
    /\ launched \in Seq(Request)
    /\ receipts \in [Request -> {"none", "pending", "failed", "complete"}]
    /\ launching # None =>
          /\ receipts[launching.request] = "pending"
          /\ launching.stage = "created" <=> Launched(launching.request)
    /\ \A r \in Request :
          /\ receipts[r] \in {"none", "failed"} => ~Launched(r)
          /\ receipts[r] = "complete" => Launched(r)

----------------------------------------------------------------------------
(* Every bound is a number.                                                *)
LEMMA Bounds == Settle \in Nat /\ MaxIdentity \in Nat /\ MaxEpisodes \in Nat /\ MaxFaults \in Nat
BY BoundsAssumption

(* What the server lists is well typed.                                    *)
LEMMA Lists ==
    ASSUME SessionsTyped
    PROVE  /\ Listing \in ListType
           /\ \A n \in Name : Listing[n].id = tmux[n].id /\ Listing[n].armed = tmux[n].armed
           /\ \A n \in Name : Live(n) => Listing[n] \in [id: Identity, armed: Armed]
BY Bounds DEF SessionsTyped, SessionType, ListType, Listing, Live, Id0, Identity, Armed

(* A session that appears takes the next identity, and one that goes       *)
(* leaves its name free.                                                   *)
LEMMA TypeOfAppearing ==
    ASSUME SessionsTyped, NEW n \in Name, Appears(n)
    PROVE  tmux' \in [Name -> SessionType] /\ born' \in Id0
BY Bounds DEF SessionsTyped, SessionType, Appears, Gone, Id0, Doing, Armed

LEMMA TypeOfGone ==
    ASSUME SessionsTyped, NEW n \in Name
    PROVE  [tmux EXCEPT ![n] = Gone] \in [Name -> SessionType]
BY Bounds DEF SessionsTyped, SessionType, Gone, Id0, Doing, Armed

LEMMA TypeOfArming ==
    ASSUME SessionsTyped, NEW n \in Name, NEW a \in Armed
    PROVE  [tmux EXCEPT ![n].armed = a] \in [Name -> SessionType]
BY DEF SessionsTyped, SessionType

(* A request of a browser is about a session that was there.               *)
LEMMA TypeOfAsking ==
    ASSUME SessionsTyped, NEW n \in Name, NEW do \in {"read", "unread", "arm", "disarm", "end"},
           NEW event \in Nat, Live(n), Ask(do, n, event)
    PROVE  handler' \in HandlerType /\ lock' = "handler"
BY Lists DEF Ask, HandlerType

(* A task of the stream starts and stops with nothing built.               *)
LEMMA TypeOfTask ==
    /\ Started \in TaskType /\ Stopped \in TaskType
    /\ Unseen \in Payload /\ OneCount(Unseen)
    /\ Started.stage = "wait" /\ Stopped.stage = "off"
    /\ Started.payload = Unseen /\ Stopped.payload = Unseen
BY Bounds DEF Started, Stopped, Unlisted, Unseen, TaskType, ListType, Payload, Id0, Armed, OneCount

----------------------------------------------------------------------------
(* The types are kept by what agents and users do, ...                     *)
LEMMA TypedOutside ==
    ASSUME Typed, NEW n \in Name,
           CreateOutside(n) \/ KillOutside(n) \/ \E doing \in Doing : Agent(n, doing)
    PROVE  Typed'
<1>1. CASE CreateOutside(n)
  BY <1>1, TypeOfAppearing DEF CreateOutside, Typed, SessionsTyped, RowsTyped, MonitorTyped,
        LaunchingTyped, launch, ending, stream
<1>2. CASE KillOutside(n)
  BY <1>2, TypeOfGone DEF KillOutside, Typed, SessionsTyped, RowsTyped, MonitorTyped,
        LaunchingTyped, launch, ending, stream
<1>3. ASSUME NEW doing \in Doing, Agent(n, doing)  PROVE Typed'
  <2>1. tmux' \in [Name -> SessionType]
    BY <1>3 DEF Agent, Typed, SessionsTyped, SessionType
  <2>2. worked' \subseteq Identity
    <3>1. tmux[n].id \in Identity
      BY <1>3, Bounds DEF Agent, Live, Typed, SessionsTyped, SessionType, Id0, Identity
    <3> QED  BY <1>3, <3>1 DEF Agent, Typed, SessionsTyped
  <2> QED  BY <1>3, <2>1, <2>2 DEF Agent, Typed, SessionsTyped, RowsTyped, MonitorTyped,
        LaunchingTyped, launch, ending, stream
<1> QED  BY <1>1, <1>2, <1>3

(* ... by launches, ...                                                    *)
LEMMA TypedLaunch ==
    ASSUME Typed,
           \/ \E r \in Request, n \in Name : Reserve(r, n)
           \/ \E b \in BOOLEAN : Create(b) \/ CreateFails(b) \/ Complete(b)
    PROVE  Typed'
<1>1. CASE \E b \in BOOLEAN : Create(b)
  <2>1. tmux' \in [Name -> SessionType] /\ born' \in Id0
    <3>1. launching.name \in Name /\ Appears(launching.name) /\ SessionsTyped
      BY <1>1 DEF Create, Reserved, Typed, LaunchingTyped
    <3> QED  BY <3>1, TypeOfAppearing
  <2>2. LaunchingTyped'
    BY <1>1 DEF Create, Reserved, Typed, LaunchingTyped
  <2> QED  BY <1>1, <2>1, <2>2 DEF Create, Typed, SessionsTyped, RowsTyped, MonitorTyped,
        LaunchingTyped, launch, ending, stream
<1>2. CASE ~\E b \in BOOLEAN : Create(b)
  <2>1. LaunchingTyped'
    BY <1>2 DEF Reserve, CreateFails, Complete, Typed, LaunchingTyped
  <2> QED
    BY <1>2, <2>1 DEF Reserve, CreateFails, Complete, Typed, SessionsTyped, RowsTyped, MonitorTyped,
        LaunchingTyped, launch, ending, world, stream
<1> QED  BY <1>1, <1>2

(* ... by the requests of browsers, ...                                    *)
LEMMA TypedAsking ==
    ASSUME Typed, NEW n \in Name,
           \/ \E do \in {"arm", "disarm", "end"} : AskToEnd(do, n)
           \/ \E b \in Browser : AskToRead(b, n) \/ AskToUnread(b, n)
    PROVE  Typed'
<1>1. handler' \in HandlerType
  <2>1. \A b \in Browser : shown[b][n].latest \in Nat
    BY DEF Typed, RowsTyped, Payload
  <2> QED  BY <2>1, TypeOfAsking DEF AskToEnd, AskToRead, AskToUnread, Sees, Typed
<1>2. UNCHANGED <<world, launch, ending, rows, stream>>
  BY DEF AskToEnd, AskToRead, AskToUnread, Ask
<1> QED  BY <1>1, <1>2 DEF Typed, SessionsTyped, RowsTyped, MonitorTyped,
        LaunchingTyped, launch, ending, world, stream

LEMMA TypedHandling ==
    ASSUME Typed, HandlerSteps \/ HandlerFails
    PROVE  Typed'
<1>1. CASE HandlerFails
  BY <1>1 DEF HandlerFails, Answer, Typed, SessionsTyped, RowsTyped, MonitorTyped,
        LaunchingTyped, launch, ending, world, stream
<1>2. handler # None
  BY DEF HandlerSteps, HandlerFails, Read, Unread, LookBeforeArming, Arm, Disarm, Terminate, Handles
<1>h. /\ handler \in HandlerType /\ handler.was.id \in Identity /\ handler.name \in Name
      /\ handler.event \in Nat /\ handler.saw \in Doing \cup {"none"}
  BY <1>2 DEF Typed, SessionsTyped, HandlerType
<1>3. CASE Read
  <2>1. rows' \in [Identity -> RowType]
    BY <1>h, <1>3 DEF Read, Typed, RowsTyped, RowType
  <2> QED  BY <1>3, <2>1 DEF Read, Answer, Typed, SessionsTyped, RowsTyped, MonitorTyped,
        LaunchingTyped, launch, ending, world, stream
<1>4. CASE Unread
  <2>1. rows' \in [Identity -> RowType]
    BY <1>h, <1>4 DEF Unread, Typed, RowsTyped, RowType
  <2> QED  BY <1>4, <2>1 DEF Unread, Answer, Typed, SessionsTyped, RowsTyped, MonitorTyped,
        LaunchingTyped, launch, ending, world, stream
<1>5. CASE LookBeforeArming
  <2>1. tmux[handler.name].doing \in Doing /\ "unknown" \in Doing
    BY <1>h DEF Typed, SessionsTyped, SessionType, Doing
  <2>2. handler' \in HandlerType \cup {None}
    BY <1>h, <1>5, <2>1 DEF LookBeforeArming, Answer, HandlerType
  <2> QED  BY <1>5, <2>2 DEF LookBeforeArming, Typed, SessionsTyped, RowsTyped, MonitorTyped,
        LaunchingTyped, launch, ending, world, stream
<1>6. CASE Arm
  <2>1. tmux' \in [Name -> SessionType]
    <3>1. DEFINE a == IF handler.saw = "working" THEN "working" ELSE "waiting"
    <3>2. a \in Armed /\ SessionsTyped
      BY DEF Armed, Typed
    <3>3. [tmux EXCEPT ![handler.name].armed = a] \in [Name -> SessionType]
      <4> HIDE DEF a
      <4> QED  BY <1>h, <3>2, TypeOfArming
    <3> QED  BY <1>6, <3>2, <3>3 DEF Arm, SessionsTyped
  <2>2. worked' \subseteq Identity
    BY <1>h, <1>6 DEF Arm, Typed, SessionsTyped
  <2> QED  BY <1>6, <2>1, <2>2 DEF Arm, Answer, Typed, SessionsTyped, RowsTyped, MonitorTyped,
        LaunchingTyped, launch, ending, stream
<1>7. CASE Disarm
  <2>1. tmux' \in [Name -> SessionType]
    <3>1. "off" \in Armed /\ SessionsTyped
      BY DEF Armed, Typed
    <3>2. [tmux EXCEPT ![handler.name].armed = "off"] \in [Name -> SessionType]
      BY <1>h, <3>1, TypeOfArming
    <3> QED  BY <1>7, <3>1, <3>2 DEF Disarm, SessionsTyped
  <2> QED  BY <1>7, <2>1 DEF Disarm, Answer, Typed, SessionsTyped, RowsTyped, MonitorTyped,
        LaunchingTyped, launch, ending, stream
<1>8. CASE Terminate
  <2>1. tmux' \in [Name -> SessionType]
    BY <1>h, <1>8, TypeOfGone DEF Terminate, Typed, SessionsTyped
  <2> QED  BY <1>8, <2>1 DEF Terminate, Answer, Typed, SessionsTyped, RowsTyped, MonitorTyped,
        LaunchingTyped, launch, ending, stream
<1> QED  BY <1>1, <1>3, <1>4, <1>5, <1>6, <1>7, <1>8 DEF HandlerSteps

(* ... by the monitor, ...                                                 *)
LEMMA TypeOfRest ==
    ASSUME monitor' = Resting
    PROVE  MonitorTyped'
BY Bounds DEF Resting, Unlisted, MonitorTyped, ListType, Id0, Armed

LEMMA TypeOfNext1 ==
    ASSUME Typed, Next1
    PROVE  MonitorTyped'
<1>1. CASE monitor.todo \ {Target} = {}
  BY <1>1, TypeOfRest DEF Next1, Rest
<1>2. CASE monitor.todo \ {Target} # {}
  BY <1>2 DEF Next1, Typed, MonitorTyped
<1> QED  BY <1>1, <1>2

LEMMA TypedMonitor ==
    ASSUME Typed, Inventory \/ MonitorSteps \/ MonitorFails \/ Tick
    PROVE  Typed'
<1>1. UNCHANGED <<born, worked, handler, rows, stream, launch>>
  BY DEF Inventory, MonitorSteps, Look, NoteBusy, NotYet, Wait, End, MonitorFails, Tick, world
<1>2. tmux' \in [Name -> SessionType]
  <2>1. CASE NoteBusy
    <3>1. Target \in Name /\ "working" \in Armed /\ SessionsTyped
      BY <2>1 DEF NoteBusy, Acting, Target, Armed, Typed, MonitorTyped
    <3>2. [tmux EXCEPT ![Target].armed = "working"] \in [Name -> SessionType]
      BY <3>1, TypeOfArming
    <3> QED  BY <2>1, <3>1, <3>2 DEF NoteBusy, SessionsTyped
  <2>2. CASE End
    <3>1. Target \in Name
      BY <2>2 DEF End, Finished, Acting, Target, Typed, MonitorTyped
    <3> QED  BY <2>2, <3>1, TypeOfGone DEF End, Typed, SessionsTyped
  <2>3. CASE ~NoteBusy /\ ~End
    BY <2>3 DEF Inventory, MonitorSteps, Look, NotYet, Wait, MonitorFails, Tick, world, Typed, SessionsTyped
  <2> QED  BY <2>1, <2>2, <2>3
<1>3. MonitorTyped'
  <2>1. CASE Inventory
    BY <2>1, Lists DEF Inventory, Typed, MonitorTyped
  <2>2. ASSUME NEW n \in Name, Look(n)  PROVE MonitorTyped'
    <3>1. tmux[n].doing \in Doing /\ "unknown" \in Doing
      BY DEF Typed, SessionsTyped, SessionType, Doing
    <3> QED  BY <2>2, <3>1 DEF Look, Typed, MonitorTyped
  <2>3. CASE NoteBusy \/ NotYet \/ Wait \/ End \/ MonitorFails
    BY <2>3, TypeOfNext1 DEF NoteBusy, NotYet, Wait, End, MonitorFails
  <2>4. CASE Tick
    BY <2>4 DEF Tick, Typed, MonitorTyped
  <2> QED  BY <2>1, <2>2, <2>3, <2>4 DEF MonitorSteps
<1> QED  BY <1>1, <1>2, <1>3 DEF Typed, SessionsTyped, RowsTyped, LaunchingTyped, launch, stream

(* ... and by the stream.                                                  *)
LEMMA Builds ==
    ASSUME Typed, NEW t \in Task, Observe(t)
    PROVE  /\ rows' \in [Identity -> RowType]
           /\ tasks'[t] \in TaskType /\ OneCount(tasks'[t].payload)
           /\ tasks'[t].stage = "built"
           /\ \A n \in Name : tasks'[t].payload[n].id # 0 =>
                  tasks'[t].payload[n].latest = rows'[tasks'[t].payload[n].id].latest
           /\ \A i \in Identity : rows'[i].checked = rows[i].checked
           /\ \A i \in Identity : rows'[i].latest >= rows[i].latest
<1> DEFINE was == tasks[t].list
           look(n) == IF Same(n, was[n]) THEN tmux[n].doing ELSE "unknown"
           of(i) == CHOOSE n \in Name : was[n].id = i
           seen == {was[n].id : n \in Name} \ {0}
           built == [n \in Name |-> [id |-> was[n].id, latest |->
                              IF was[n].id = 0 THEN 0 ELSE rows'[was[n].id].latest]]
<1>1. rows' = [i \in Identity |-> IF i \in seen THEN Observed(rows[i], look(of(i))) ELSE rows[i]]
  BY DEF Observe
<1>2. tasks' = [tasks EXCEPT ![t] = [Stopped EXCEPT !.stage = "built", !.payload = built]]
  BY DEF Observe
<1>3. \A n \in Name : was[n].id \in Id0
  BY DEF Typed, SessionsTyped, TaskType, ListType
<1>4. \A i \in Identity : \A doing \in Doing :
          /\ Observed(rows[i], doing) \in RowType
          /\ Observed(rows[i], doing).checked = rows[i].checked
          /\ Observed(rows[i], doing).latest >= rows[i].latest
  <2> TAKE i \in Identity
  <2> TAKE doing \in Doing
  <2> DEFINE w == doing = "working" \/ (doing = "unknown" /\ rows[i].awaiting)
             k == IF doing = "ready" /\ rows[i].awaiting THEN rows[i].latest + 1 ELSE rows[i].latest
  <2>1. rows[i] \in RowType
    BY DEF Typed, RowsTyped
  <2>2. w \in BOOLEAN
    OBVIOUS
  <2>3. k \in Nat /\ k >= rows[i].latest
    <3>1. rows[i].latest \in Nat
      BY <2>1 DEF RowType
    <3> QED  BY <3>1
  <2>4. Observed(rows[i], doing) = [rows[i] EXCEPT !.awaiting = w, !.latest = k]
    BY DEF Observed
  <2> HIDE DEF w, k
  <2> QED  BY <2>1, <2>2, <2>3, <2>4 DEF RowType
<1>a. \A i \in seen : of(i) \in Name
  OBVIOUS
<1>b. \A n \in Name : look(n) \in Doing
  BY DEF Typed, SessionsTyped, SessionType, Doing
<1> HIDE DEF was, look, of, seen
<1>5. rows' \in [Identity -> RowType]
  BY <1>1, <1>4, <1>a, <1>b DEF Typed, RowsTyped
<1>6. built \in Payload /\ OneCount(built)
  BY <1>3, <1>5, Bounds DEF Payload, RowType, OneCount, Id0, Identity
<1>7. \A i \in Identity : rows'[i].checked = rows[i].checked /\ rows'[i].latest >= rows[i].latest
  <2> TAKE i \in Identity
  <2>1. rows[i].latest \in Nat
    BY DEF Typed, RowsTyped, RowType
  <2> QED  BY <1>1, <1>4, <1>a, <1>b, <2>1
<1>8. \A n \in Name : built[n].id # 0 => built[n].latest = rows'[built[n].id].latest
  OBVIOUS
<1> HIDE DEF built
<1>9. tasks'[t].payload = built /\ tasks'[t].stage = "built" /\ tasks'[t] \in TaskType
  <2>1. tasks'[t] = [Stopped EXCEPT !.stage = "built", !.payload = built]
    BY <1>2 DEF Typed, SessionsTyped
  <2> QED  BY <1>6, <2>1, TypeOfTask DEF Stopped, TaskType
<1> QED  BY <1>5, <1>6, <1>7, <1>8, <1>9

StreamSteps == \E t \in Task : Cancelled(t) \/ Sample(t) \/ Observe(t) \/ SampleFails(t) \/ Publish(t)

LEMMA TypedStream ==
    ASSUME Typed, StreamSteps
    PROVE  Typed'
<1>1. PICK t \in Task : Cancelled(t) \/ Sample(t) \/ Observe(t) \/ SampleFails(t) \/ Publish(t)
  BY DEF StreamSteps
<1>2. SessionsTyped'
  <2>1. tasks'[t] \in TaskType
    <3>1. CASE Sample(t)
      BY <3>1, Lists DEF Sample, Typed, SessionsTyped, TaskType
    <3>2. CASE Observe(t)
      BY <3>2, Builds
    <3>3. CASE Cancelled(t) \/ SampleFails(t) \/ Publish(t)
      BY <3>3, TypeOfTask DEF Cancelled, SampleFails, Publish, Typed, SessionsTyped
    <3> QED  BY <1>1, <3>1, <3>2, <3>3
  <2>2. tasks' = [tasks EXCEPT ![t] = tasks'[t]]
    BY <1>1 DEF Cancelled, Sample, Observe, SampleFails, Publish, Typed, SessionsTyped
  <2>3. tasks' \in [Task -> TaskType]
    BY <2>1, <2>2 DEF Typed, SessionsTyped
  <2> QED
    BY <1>1, <2>3 DEF Cancelled, Sample, Observe, SampleFails, Publish, world, Typed, SessionsTyped
<1>3. rows' \in [Identity -> RowType]
  BY <1>1, Builds DEF Cancelled, Sample, SampleFails, Publish, Typed, RowsTyped
<1>4. CASE ~Publish(t)
  BY <1>1, <1>2, <1>3, <1>4 DEF Cancelled, Sample, Observe, SampleFails, Typed, RowsTyped, MonitorTyped,
        LaunchingTyped, launch, ending
<1>5. CASE Publish(t)
  <2>1. tasks[t].payload \in Payload
    BY DEF Typed, SessionsTyped, TaskType
  <2> QED
    BY <1>2, <1>3, <1>5, <2>1 DEF Publish, Offer, Subscribed, Typed, RowsTyped, MonitorTyped,
          LaunchingTyped, launch, ending
<1> QED  BY <1>4, <1>5

LEMMA TypedBrowser ==
    ASSUME Typed, NEW b \in Browser, Subscribe(b) \/ Unsubscribe(b) \/ Receive(b)
    PROVE  Typed'
<1>1. SessionsTyped'
  BY TypeOfTask DEF Subscribe, Unsubscribe, Leaves, Receive, Typed, SessionsTyped, world
<1>2. UNCHANGED <<launch, ending, rows>>
  BY DEF Subscribe, Unsubscribe, Leaves, Receive
<1>3. /\ DOMAIN queue' \subseteq Browser
      /\ queue' \in [DOMAIN queue' -> Payload \cup {None}]
      /\ latest' \in Payload \cup {None}
  BY DEF Subscribe, Unsubscribe, Leaves, Receive, Subscribed, Typed, RowsTyped
<1>4. shown' \in [Browser -> Payload]
  BY TypeOfTask DEF Subscribe, Unsubscribe, Leaves, Receive, Subscribed, Typed, RowsTyped
<1>5. told' \in [Identity -> Nat]
  <2>1. CASE Receive(b)
    <3>1. queue[b] \in Payload
      BY <2>1 DEF Receive, Subscribed, Typed, RowsTyped
    <3>2. ASSUME NEW i \in Identity, \E n \in Name : queue[b][n].id = i
          PROVE  queue[b][CHOOSE n \in Name : queue[b][n].id = i].latest \in Nat
      BY <3>1, <3>2 DEF Payload
    <3> QED  BY <2>1, <3>2 DEF Receive, Typed, RowsTyped
  <2>2. CASE ~Receive(b)
    BY <2>2 DEF Subscribe, Unsubscribe, Leaves, Typed, RowsTyped
  <2> QED  BY <2>1, <2>2
<1> QED
  BY <1>1, <1>2, <1>3, <1>4, <1>5 DEF Typed, RowsTyped, MonitorTyped, LaunchingTyped, launch, ending

LEMMA TypedRestart ==
    ASSUME Typed, Restart
    PROVE  Typed'
<1>1. MonitorTyped'
  BY TypeOfRest DEF Restart
<1>2. SessionsTyped' /\ LaunchingTyped'
  BY TypeOfTask DEF Restart, Typed, SessionsTyped, LaunchingTyped, world
<1> QED  BY <1>1, <1>2 DEF Restart, Typed, RowsTyped

LEMMA Typing0 ==
    ASSUME Init
    PROVE  Typed
<1>1. SessionsTyped
  BY TypeOfTask, Bounds DEF Init, SessionsTyped, SessionType, Gone, Id0, Identity, Doing, Armed
<1>2. rows \in [Identity -> RowType]
  <2>1. Unknown \in RowType
    <3>1. FALSE \in BOOLEAN /\ 0 \in Nat
      OBVIOUS
    <3> QED  BY <3>1 DEF Unknown, RowType
  <2> QED  BY <2>1 DEF Init
<1>3. RowsTyped
  BY <1>2, TypeOfTask DEF Init, RowsTyped
<1>4. MonitorTyped
  BY Bounds DEF Init, Resting, Unlisted, MonitorTyped, ListType, Id0, Armed
<1> QED  BY <1>1, <1>3, <1>4 DEF Init, Typed, LaunchingTyped

LEMMA TypedStep ==
    ASSUME Typed, [Next]_vars
    PROVE  Typed'
<1>1. CASE UNCHANGED vars
  BY <1>1 DEF vars, world, launch, ending, stream, Typed, SessionsTyped, RowsTyped, MonitorTyped,
        LaunchingTyped
<1>2. CASE \E n \in Name : CreateOutside(n) \/ KillOutside(n) \/ \E doing \in Doing : Agent(n, doing)
  BY <1>2, TypedOutside
<1>3. CASE \/ \E r \in Request, n \in Name : Reserve(r, n)
           \/ \E b \in BOOLEAN : Create(b) \/ CreateFails(b) \/ Complete(b)
  BY <1>3, TypedLaunch
<1>4. CASE \E n \in Name : \/ \E do \in {"arm", "disarm", "end"} : AskToEnd(do, n)
                           \/ \E b \in Browser : AskToRead(b, n) \/ AskToUnread(b, n)
  BY <1>4, TypedAsking
<1>5. CASE HandlerSteps \/ HandlerFails
  BY <1>5, TypedHandling
<1>6. CASE Inventory \/ MonitorSteps \/ MonitorFails \/ Tick
  BY <1>6, TypedMonitor
<1>7. CASE \E b \in Browser : Subscribe(b) \/ Unsubscribe(b) \/ Receive(b)
  BY <1>7, TypedBrowser
<1>8. CASE StreamSteps
  BY <1>8, TypedStream
<1>9. CASE Restart
  BY <1>9, TypedRestart
<1> QED  BY <1>1, <1>2, <1>3, <1>4, <1>5, <1>6, <1>7, <1>8, <1>9 DEF Next, StreamSteps, Doing

----------------------------------------------------------------------------
(* Snapshots agree: the sampler builds one, hands it over and starts again *)
(* with none, and nobody changes one that waits.                           *)
LEMMA SnapshotsStep ==
    ASSUME Typed, SnapshotsAgree, [Next]_vars
    PROVE  SnapshotsAgree'
<1>1. ASSUME NEW t \in Task, Observe(t)  PROVE SnapshotsAgree'
  <2>1. tasks' = [tasks EXCEPT ![t] = tasks'[t]]
    BY <1>1 DEF Observe, Typed, SessionsTyped
  <2> QED  BY <1>1, <2>1, Builds DEF Observe, SnapshotsAgree, Typed, SessionsTyped
<1>2. ASSUME NEW t \in Task, Publish(t)  PROVE SnapshotsAgree'
  BY <1>2, TypeOfTask DEF Publish, Offer, Subscribed, SnapshotsAgree, Typed, SessionsTyped
<1>3. ASSUME NEW t \in Task, Cancelled(t) \/ SampleFails(t)  PROVE SnapshotsAgree'
  BY <1>3, TypeOfTask DEF Cancelled, SampleFails, SnapshotsAgree, Typed, SessionsTyped
<1>4. CASE Restart
  BY <1>4, TypeOfTask DEF Restart, SnapshotsAgree
<1>5. ASSUME NEW b \in Browser, Subscribe(b) \/ Unsubscribe(b) \/ Receive(b)
      PROVE  SnapshotsAgree'
  <2>1. \A t \in Task : OneCount(tasks'[t].payload)
    BY <1>5, TypeOfTask DEF Subscribe, Unsubscribe, Leaves, Receive, SnapshotsAgree, Typed, SessionsTyped
  <2> QED  BY <1>5, <2>1 DEF Subscribe, Unsubscribe, Leaves, Receive, Subscribed, SnapshotsAgree,
        Typed, RowsTyped
<1>6. ASSUME NEW t \in Task, Sample(t)  PROVE SnapshotsAgree'
  <2>1. \A u \in Task : tasks'[u].payload = tasks[u].payload
    BY <1>6 DEF Sample, Typed, SessionsTyped, TaskType
  <2> QED  BY <1>6, <2>1 DEF Sample, SnapshotsAgree
<1>7. CASE UNCHANGED stream
  BY <1>7 DEF stream, SnapshotsAgree
<1>8. UNCHANGED stream \/ StreamSteps \/ Restart
         \/ \E b \in Browser : Subscribe(b) \/ Unsubscribe(b) \/ Receive(b)
  BY DEF Next, StreamSteps, vars, CreateOutside, KillOutside, Agent, Reserve, Create, CreateFails,
         Complete, AskToEnd, AskToRead, AskToUnread, Ask, HandlerSteps, Read, Unread, LookBeforeArming,
         Arm, Disarm, Terminate, HandlerFails, Inventory, MonitorSteps, Look, NoteBusy, NotYet, Wait,
         End, MonitorFails, Tick
<1> QED  BY <1>1, <1>2, <1>3, <1>4, <1>5, <1>6, <1>7, <1>8 DEF StreamSteps

(* A browser that receives a snapshot is told what is in it, and what was  *)
(* told before stays told.                                                 *)
LEMMA Tells ==
    ASSUME Typed, SnapshotsAgree, NEW b \in Browser, Receive(b)
    PROVE  /\ \A i \in Identity : told[i] =< told'[i]
           /\ \A n \in Name : queue[b][n].id # 0 => queue[b][n].latest =< told'[queue[b][n].id]
<1> DEFINE q == queue[b]
           of(i) == CHOOSE n \in Name : q[n].id = i
<1>1. q \in Payload /\ OneCount(q)
  BY DEF Receive, Subscribed, Typed, RowsTyped, SnapshotsAgree
<1>2. \A i \in Identity : told'[i] = IF \E n \in Name : q[n].id = i /\ q[n].latest > told[i]
                                     THEN q[of(i)].latest ELSE told[i]
  BY DEF Receive
<1>3. \A i \in Identity : told[i] \in Nat
  BY DEF Typed, RowsTyped
<1>4. \A n \in Name : /\ q[n].id # 0 => q[n].id \in Identity
                      /\ q[n].latest \in Nat
                      /\ q[of(q[n].id)].latest = q[n].latest
  <2> TAKE n \in Name
  <2>1. of(q[n].id) \in Name /\ q[of(q[n].id)].id = q[n].id
    OBVIOUS
  <2> HIDE DEF q, of
  <2> QED  BY <1>1, <2>1, Bounds DEF Payload, OneCount, Id0, Identity
<1> HIDE DEF q, of
<1>5. ASSUME NEW i \in Identity  PROVE told[i] =< told'[i]
  BY <1>2, <1>3, <1>4
<1>6. ASSUME NEW n \in Name, q[n].id # 0  PROVE q[n].latest =< told'[q[n].id]
  <2>1. q[n].id \in Identity /\ q[n].latest \in Nat /\ told[q[n].id] \in Nat
    BY <1>3, <1>4, <1>6
  <2> QED  BY <1>2, <1>4, <2>1
<1> QED  BY <1>5, <1>6 DEF q

LEMMA ToldGrows ==
    ASSUME Typed, SnapshotsAgree, [Next]_vars
    PROVE  \A i \in Identity : told[i] =< told'[i]
<1>1. CASE \E b \in Browser : Receive(b)
  BY <1>1, Tells
<1>2. CASE ~\E b \in Browser : Receive(b)
  <2>1. UNCHANGED told
    BY <1>2 DEF Next, vars, stream, CreateOutside, KillOutside, Agent, Reserve, Create, CreateFails, Complete,
         AskToEnd, AskToRead, AskToUnread, Ask, HandlerSteps, Read, Unread, LookBeforeArming, Arm,
         Disarm, Terminate, HandlerFails, Inventory, MonitorSteps, Look, NoteBusy, NotYet, Wait,
         End, MonitorFails, Tick, Subscribe, Unsubscribe, Leaves, Cancelled, Sample, Observe,
         SampleFails, Publish, Restart
  <2> QED  BY <2>1 DEF Typed, RowsTyped
<1> QED  BY <1>1, <1>2

(* What a browser shows is what it received, or nothing.                   *)
LEMMA ShownRests ==
    ASSUME [Next]_vars, ~\E b \in Browser : Receive(b) \/ Unsubscribe(b)
    PROVE  UNCHANGED shown
BY DEF Next, vars, stream, CreateOutside, KillOutside, Agent, Reserve, Create, CreateFails,
       Complete, AskToEnd, AskToRead, AskToUnread, Ask, HandlerSteps, Read, Unread, LookBeforeArming,
       Arm, Disarm, Terminate, HandlerFails, Inventory, MonitorSteps, Look, NoteBusy, NotYet, Wait,
       End, MonitorFails, Tick, Subscribe, Cancelled, Sample, Observe, SampleFails, Publish, Restart

LEMMA ShownStep ==
    ASSUME ReadInv, [Next]_vars
    PROVE  ShownIsTold'
<1>1. Typed /\ SnapshotsAgree /\ ShownIsTold /\ Typed'
  BY TypedStep DEF ReadInv
<1>2. ASSUME NEW c \in Browser, NEW n \in Name, shown'[c][n].id # 0
      PROVE  shown'[c][n].latest =< told'[shown'[c][n].id]
  <2>1. CASE \E b \in Browser : Receive(b) /\ c = b
    <3>1. shown'[c] = queue[c] /\ Receive(c)
      BY <1>1, <2>1 DEF Receive, Typed, RowsTyped
    <3> QED  BY <1>1, <1>2, <3>1, Tells
  <2>2. CASE \E b \in Browser : Unsubscribe(b) /\ c = b
    <3>1. shown'[c] = Unseen
      BY <1>1, <2>2 DEF Unsubscribe, Leaves, Typed, RowsTyped
    <3> QED  BY <1>2, <3>1 DEF Unseen
  <2>3. CASE shown'[c] = shown[c]
    <3>1. shown[c][n].id \in Identity /\ shown[c][n].latest \in Nat
      BY <1>1, <1>2, <2>3, Bounds DEF Typed, RowsTyped, Payload, Id0, Identity
    <3>2. told[shown[c][n].id] =< told'[shown[c][n].id] /\ told[shown[c][n].id] \in Nat
             /\ told'[shown[c][n].id] \in Nat
      BY <1>1, <3>1, ToldGrows DEF Typed, RowsTyped
    <3>3. shown[c][n].latest =< told[shown[c][n].id]
      BY <1>1, <1>2, <2>3 DEF ShownIsTold
    <3> QED  BY <2>3, <3>1, <3>2, <3>3
  <2>4. CASE \E b \in Browser : (Receive(b) \/ Unsubscribe(b)) /\ c # b
    BY <1>1, <2>3, <2>4 DEF Receive, Unsubscribe, Leaves, Typed, RowsTyped
  <2>5. CASE ~\E b \in Browser : Receive(b) \/ Unsubscribe(b)
    BY <2>3, <2>5, ShownRests
  <2> QED  BY <2>1, <2>2, <2>4, <2>5
<1> QED  BY <1>2 DEF ShownIsTold

(* A request to read is about the session that the browser sees now, and   *)
(* about the event that it shows.                                          *)
LEMMA AskedStep ==
    ASSUME ReadInv, [Next]_vars
    PROVE  AskedIsTold'
<1>1. Typed /\ SnapshotsAgree /\ ShownIsTold /\ AskedIsTold /\ Typed'
  BY TypedStep DEF ReadInv
<1>2. SUFFICES ASSUME handler' # None
               PROVE  handler'.event =< told'[handler'.was.id]
  BY DEF AskedIsTold
<1>3. CASE \E n \in Name : \/ \E do \in {"arm", "disarm", "end"} : AskToEnd(do, n)
                           \/ \E b \in Browser : AskToUnread(b, n)
  <2>1. handler'.event = 0 /\ handler'.was.id \in Identity
    BY <1>1, <1>2, <1>3 DEF AskToEnd, AskToUnread, Ask, Typed, SessionsTyped, HandlerType
  <2>2. told'[handler'.was.id] \in Nat
    BY <1>1, <2>1 DEF Typed, RowsTyped
  <2> QED  BY <2>1, <2>2
<1>4. ASSUME NEW n \in Name, NEW b \in Browser, AskToRead(b, n)
      PROVE  handler'.event =< told'[handler'.was.id]
  <2>1. shown[b][n].id # 0 /\ handler'.event = shown[b][n].latest /\ handler'.was.id = shown[b][n].id
    BY <1>1, <1>4, Lists DEF AskToRead, Ask, Sees, Live, Typed
  <2>2. told' = told
    BY <1>4 DEF AskToRead, Ask, stream
  <2> QED  BY <1>1, <2>1, <2>2 DEF ShownIsTold
<1>5. CASE handler # None /\ handler'.event = handler.event /\ handler'.was = handler.was
  <2>1. handler.was.id \in Identity /\ handler.event \in Nat
    BY <1>1, <1>5 DEF Typed, SessionsTyped, HandlerType
  <2>2. told[handler.was.id] =< told'[handler.was.id] /\ told[handler.was.id] \in Nat
           /\ told'[handler.was.id] \in Nat
    BY <1>1, <2>1, ToldGrows DEF Typed, RowsTyped
  <2>3. handler.event =< told[handler.was.id]
    BY <1>1, <1>5 DEF AskedIsTold
  <2> QED  BY <1>5, <2>1, <2>2, <2>3
<1>6. CASE LookBeforeArming
  <2>1. handler \in HandlerType
    BY <1>1, <1>6 DEF LookBeforeArming, Handles, Typed, SessionsTyped
  <2>2. handler # None /\ handler'.event = handler.event /\ handler'.was = handler.was
    BY <1>2, <1>6, <2>1 DEF LookBeforeArming, Handles, Answer, HandlerType
  <2> QED  BY <1>5, <2>2
<1>7. CASE handler' = handler
  BY <1>2, <1>5, <1>7
<1>8. \/ handler' = handler \/ LookBeforeArming
      \/ \E n \in Name : \/ \E do \in {"arm", "disarm", "end"} : AskToEnd(do, n)
                         \/ \E b \in Browser : AskToRead(b, n) \/ AskToUnread(b, n)
  BY <1>2 DEF Next, vars, CreateOutside, KillOutside, Agent, Reserve, Create, CreateFails, Complete,
         HandlerSteps, Read, Unread, Answer, Arm, Disarm, Terminate, HandlerFails, Inventory,
         MonitorSteps, Look, NoteBusy, NotYet, Wait, End, MonitorFails, Tick, Subscribe, Unsubscribe,
         Leaves, Receive, Cancelled, Sample, Observe, SampleFails, Publish, Restart
<1> QED  BY <1>3, <1>4, <1>6, <1>7, <1>8

LEMMA ReadStep ==
    ASSUME ReadInv, [Next]_vars
    PROVE  ReadInv'
<1>1. Typed /\ SnapshotsAgree /\ AskedIsTold /\ ReadsWhatWasShown /\ Typed'
  BY TypedStep DEF ReadInv
<1>2. ASSUME NEW i \in Identity  PROVE rows'[i].checked =< told'[i]
  <2>1. /\ rows[i].checked \in Nat /\ told[i] \in Nat /\ told'[i] \in Nat
        /\ rows[i].checked =< told[i] /\ told[i] =< told'[i]
    BY <1>1, ToldGrows DEF Typed, RowsTyped, RowType, ReadsWhatWasShown
  <2>2. CASE rows'[i].checked = rows[i].checked
    BY <2>1, <2>2
  <2>3. CASE Read
    <3>1. handler # None /\ told' = told /\ handler \in HandlerType
      BY <1>1, <2>3 DEF Read, Handles, stream, Typed, SessionsTyped
    <3>2. rows'[i].checked = rows[i].checked
             \/ (i = handler.was.id /\ rows'[i].checked = handler.event)
      BY <1>1, <2>3, <3>1 DEF Read, Typed, RowsTyped, RowType, HandlerType
    <3> QED  BY <1>1, <2>2, <3>1, <3>2 DEF AskedIsTold
  <2>4. CASE Unread
    <3>1. rows'[i].checked = rows[i].checked
      BY <1>1, <2>4 DEF Unread, Typed, RowsTyped, RowType
    <3> QED  BY <2>2, <3>1
  <2>5. CASE \E t \in Task : Observe(t)
    BY <1>1, <2>2, <2>5, Builds
  <2>6. CASE UNCHANGED rows
    BY <2>2, <2>6
  <2>7. Read \/ Unread \/ (\E t \in Task : Observe(t)) \/ UNCHANGED rows
    BY DEF Next, vars, CreateOutside, KillOutside, Agent, Reserve, Create, CreateFails, Complete,
         AskToEnd, AskToRead, AskToUnread, Ask, HandlerSteps, LookBeforeArming, Arm,
         Disarm, Terminate, HandlerFails, Inventory, MonitorSteps, Look, NoteBusy, NotYet, Wait,
         End, MonitorFails, Tick, Subscribe, Unsubscribe, Leaves, Receive, Cancelled, Sample, SampleFails,
         Publish, Restart
  <2> QED  BY <2>3, <2>4, <2>5, <2>6, <2>7
<1>3. SnapshotsAgree' /\ ShownIsTold' /\ AskedIsTold'
  BY <1>1, SnapshotsStep, ShownStep, AskedStep
<1> QED  BY <1>1, <1>2, <1>3 DEF ReadInv, ReadsWhatWasShown

LEMMA ReadInit ==
    ASSUME Init
    PROVE  ReadInv
<1>1. Typed /\ SnapshotsAgree
  BY Typing0, TypeOfTask DEF Init, SnapshotsAgree
<1>2. ShownIsTold /\ AskedIsTold
  BY DEF Init, ShownIsTold, AskedIsTold, Unseen
<1>3. ReadsWhatWasShown
  BY DEF Init, ReadsWhatWasShown, Unknown
<1> QED  BY <1>1, <1>2, <1>3 DEF ReadInv

(* "A read acknowledges only the event that the requesting browser         *)
(* observed": an event that no browser was shown is still unread.          *)
THEOREM Reading == Spec => []ReadsWhatWasShown
<1>1. Init => ReadInv
  BY ReadInit
<1>2. ReadInv /\ [Next]_vars => ReadInv'
  BY ReadStep
<1>3. ReadInv => ReadsWhatWasShown
  BY DEF ReadInv
<1> QED  BY <1>1, <1>2, <1>3, PTL DEF Spec

----------------------------------------------------------------------------
(* The lock has one holder, whoever asks for it and whoever lets it go.    *)
LEMMA OneHolderStep ==
    ASSUME Typed, OneHolder, [Next]_vars
    PROVE  OneHolder'
<1>1. CASE \E n \in Name : \/ \E do \in {"arm", "disarm", "end"} : AskToEnd(do, n)
                           \/ \E b \in Browser : AskToRead(b, n) \/ AskToUnread(b, n)
  BY <1>1, LockAssumption DEF OneHolder, AskToEnd, AskToRead, AskToUnread, Ask, ending, stream
<1>2. CASE HandlerSteps \/ HandlerFails
  BY <1>2, LockAssumption DEF OneHolder, HandlerSteps, HandlerFails, Handles, Answer, Read, Unread,
        LookBeforeArming, Arm, Disarm, Terminate, ending, stream
<1>3. CASE Inventory
  BY <1>3, LockAssumption DEF OneHolder, Inventory, stream
<1>4. CASE MonitorSteps \/ MonitorFails \/ Tick
  <2>1. UNCHANGED <<handler, stream>>
    BY <1>4 DEF MonitorSteps, Look, NoteBusy, NotYet, Wait, End, MonitorFails, Tick
  <2>2. UNCHANGED <<lock, monitor>> \/ (monitor.stage # "idle" /\ (Rest \/ UNCHANGED lock))
    BY <1>4 DEF MonitorSteps, Look, NoteBusy, NotYet, Wait, End, Finished, Acting, Next1, MonitorFails, Tick
  <2>3. Resting.stage = "idle"
    BY DEF Resting
  <2> QED  BY <2>1, <2>2, <2>3, LockAssumption DEF OneHolder, Rest, stream
<1>5. CASE StreamSteps
  <2>1. PICK t \in Task : Cancelled(t) \/ Sample(t) \/ Observe(t) \/ SampleFails(t) \/ Publish(t)
    BY <1>5 DEF StreamSteps
  <2>2. UNCHANGED <<handler, monitor>> /\ \A u \in Task \ {t} : tasks'[u] = tasks[u]
    BY <2>1 DEF Cancelled, Sample, Observe, SampleFails, Publish, ending, Typed, SessionsTyped
  <2>3. \/ lock = None /\ lock' = t
        \/ lock = t /\ lock' = None /\ tasks'[t].stage # "listed"
        \/ UNCHANGED lock /\ tasks'[t].stage # "listed"
    BY <2>1, TypeOfTask, Builds
       DEF Cancelled, Sample, Observe, SampleFails, Publish, OneHolder, Typed, SessionsTyped
  <2> QED  BY <2>2, <2>3, LockAssumption DEF OneHolder
<1>6. CASE \E b \in Browser : Subscribe(b) \/ Unsubscribe(b) \/ Receive(b)
  <2>1. UNCHANGED <<lock, handler, monitor>>
    BY <1>6 DEF Subscribe, Unsubscribe, Leaves, Receive, ending
  <2>2. \A t \in Task : tasks'[t] = tasks[t] \/ tasks'[t] = Started
    BY <1>6 DEF Subscribe, Unsubscribe, Leaves, Receive, Typed, SessionsTyped
  <2> QED  BY <2>1, <2>2, TypeOfTask DEF OneHolder
<1>7. CASE Restart
  BY <1>7, TypeOfTask DEF OneHolder, Restart, Resting
<1>8. CASE UNCHANGED <<lock, handler, monitor, tasks>>
  BY <1>8 DEF OneHolder
<1>9. CASE UNCHANGED vars \/ \/ \E n \in Name : \/ CreateOutside(n) \/ KillOutside(n)
                                              \/ \E doing \in Doing : Agent(n, doing)
                                              \/ \E r \in Request : Reserve(r, n)
                             \/ \E b \in BOOLEAN : Create(b) \/ CreateFails(b) \/ Complete(b)
  BY <1>8, <1>9 DEF vars, CreateOutside, KillOutside, Agent, Reserve, Create, CreateFails, Complete,
        ending, stream
<1> QED
  BY <1>1, <1>2, <1>3, <1>4, <1>5, <1>6, <1>7, <1>9 DEF Next, StreamSteps, Doing

(* A handler works while the monitor does not.                             *)
LEMMA HandlerAlone ==
    ASSUME OneHolder, handler # None
    PROVE  monitor.stage = "idle"
BY LockAssumption DEF OneHolder

(* A session keeps its option as long as it lives, or goes: nobody takes   *)
(* the identity of one that was listed.                                    *)
LeftAlone(S) ==
    \A n \in S : IF tmux'[n].id = tmux[n].id THEN tmux'[n].armed = tmux[n].armed
                 ELSE tmux'[n].id = 0 \/ tmux'[n].id > born

MovesOn ==
    \/ UNCHANGED monitor /\ worked \subseteq worked'
    \/ /\ monitor.stage # "idle" /\ monitor'.stage = "look"
       /\ monitor'.todo \subseteq monitor.todo /\ monitor'.list = monitor.list

LEMMA StillCurrent ==
    ASSUME Typed, Typed', ListIsCurrent, born =< born', LeftAlone(monitor'.todo),
           monitor'.stage # "idle" => MovesOn
    PROVE  ListIsCurrent'
<1>1. SUFFICES ASSUME monitor'.stage # "idle"
               PROVE  /\ \A n \in monitor'.todo :
                            /\ monitor'.list[n].id # 0 /\ monitor'.list[n].id =< born'
                            /\ tmux'[n].id = monitor'.list[n].id => tmux'[n].armed = monitor'.list[n].armed
                      /\ monitor'.stage = "act" =>
                            /\ Target' \in monitor'.todo
                            /\ Saw' = "working" => Listed'.id \in worked'
  BY DEF ListIsCurrent
<1>2. monitor.stage # "idle" /\ monitor'.todo \subseteq monitor.todo /\ monitor'.list = monitor.list
  BY <1>1 DEF MovesOn
<1>3. ASSUME NEW n \in monitor'.todo
      PROVE  /\ monitor'.list[n].id # 0 /\ monitor'.list[n].id =< born'
             /\ tmux'[n].id = monitor'.list[n].id => tmux'[n].armed = monitor'.list[n].armed
  <2>1. /\ monitor.list[n].id # 0 /\ monitor.list[n].id =< born
        /\ tmux[n].id = monitor.list[n].id => tmux[n].armed = monitor.list[n].armed
    BY <1>2, <1>3 DEF ListIsCurrent
  <2>2. born \in Nat /\ born' \in Nat /\ monitor.list[n].id \in Nat
    BY <1>2, <1>3, Bounds DEF Typed, SessionsTyped, MonitorTyped, ListType, Id0
  <2>3. IF tmux'[n].id = tmux[n].id THEN tmux'[n].armed = tmux[n].armed
        ELSE tmux'[n].id = 0 \/ tmux'[n].id > born
    BY <1>3 DEF LeftAlone
  <2> QED  BY <1>2, <2>1, <2>2, <2>3
<1>4. ASSUME monitor'.stage = "act"
      PROVE  Target' \in monitor'.todo /\ (Saw' = "working" => Listed'.id \in worked')
  <2>1. UNCHANGED monitor /\ worked \subseteq worked'
    BY <1>1, <1>4 DEF MovesOn
  <2> QED  BY <1>1, <1>4, <2>1 DEF ListIsCurrent, Target, Saw, Listed
<1> QED  BY <1>3, <1>4

(* The four ways in which a session changes.                               *)
Sessions == IdentitiesDiffer /\ WorkIsKnown

LEMMA WhenAppears ==
    ASSUME Typed, Sessions, NEW n \in Name, Appears(n), UNCHANGED worked
    PROVE  Sessions' /\ LeftAlone(Name) /\ born =< born'
<1>1. /\ born' = born + 1 /\ born \in Nat /\ tmux[n].id = 0
      /\ tmux'[n] = [id |-> born + 1, doing |-> "shell", armed |-> "off"]
      /\ \A m \in Name \ {n} : tmux'[m] = tmux[m]
  BY Bounds DEF Appears, Live, Gone, Typed, SessionsTyped, Id0
<1>2. \A m \in Name : tmux[m].id \in Nat
  BY Bounds DEF Typed, SessionsTyped, SessionType, Id0
<1>3. IdentitiesDiffer'
  BY <1>1, <1>2 DEF Sessions, IdentitiesDiffer
<1>4. WorkIsKnown'
  BY <1>1 DEF Sessions, WorkIsKnown
<1>5. LeftAlone(Name)
  BY <1>1, <1>2 DEF LeftAlone
<1> QED  BY <1>1, <1>3, <1>4, <1>5 DEF Sessions

LEMMA WhenGone ==
    ASSUME Typed, Sessions, NEW n \in Name, tmux' = [tmux EXCEPT ![n] = Gone], UNCHANGED <<born, worked>>
    PROVE  Sessions' /\ LeftAlone(Name)
<1>1. /\ tmux'[n] = [id |-> 0, doing |-> "shell", armed |-> "off"]
      /\ \A m \in Name \ {n} : tmux'[m] = tmux[m]
      /\ born \in Nat
  BY Bounds DEF Gone, Typed, SessionsTyped, Id0
<1>2. IdentitiesDiffer'
  BY <1>1 DEF Sessions, IdentitiesDiffer
<1>3. WorkIsKnown'
  BY <1>1 DEF Sessions, WorkIsKnown
<1>4. LeftAlone(Name)
  BY <1>1 DEF LeftAlone, Sessions, IdentitiesDiffer
<1> QED  BY <1>2, <1>3, <1>4 DEF Sessions

LEMMA WhenAgentActs ==
    ASSUME Typed, Sessions, NEW n \in Name, NEW doing \in Doing, Agent(n, doing)
    PROVE  Sessions' /\ LeftAlone(Name) /\ worked \subseteq worked'
<1>1. /\ tmux'[n].id = tmux[n].id /\ tmux'[n].armed = tmux[n].armed /\ tmux'[n].doing = doing
      /\ \A m \in Name \ {n} : tmux'[m] = tmux[m]
      /\ UNCHANGED born
      /\ IF doing = "working" THEN worked' = worked \cup {tmux[n].id} ELSE UNCHANGED worked
  BY DEF Agent, Typed, SessionsTyped, SessionType
<1>2. IdentitiesDiffer'
  <2>1. \A m \in Name : tmux'[m].id = tmux[m].id /\ tmux'[m].armed = tmux[m].armed
    BY <1>1
  <2> QED  BY <1>1, <2>1 DEF Sessions, IdentitiesDiffer
<1>3. WorkIsKnown'
  BY <1>1 DEF Sessions, WorkIsKnown
<1> QED  BY <1>1, <1>2, <1>3 DEF Sessions, LeftAlone

LEMMA WhenArmed ==
    ASSUME Typed, Sessions, NEW n \in Name, NEW a \in Armed, tmux[n].id # 0,
           tmux' = [tmux EXCEPT ![n].armed = a], UNCHANGED born,
           \A i \in worked : i # tmux[n].id => i \in worked',
           "working" \in {tmux[n].doing, a} => tmux[n].id \in worked'
    PROVE  Sessions' /\ LeftAlone(Name \ {n})
<1>1. /\ tmux'[n].id = tmux[n].id /\ tmux'[n].armed = a /\ tmux'[n].doing = tmux[n].doing
      /\ \A m \in Name \ {n} : tmux'[m] = tmux[m]
  BY DEF Typed, SessionsTyped, SessionType
<1>2. IdentitiesDiffer'
  <2>1. \A m \in Name : tmux'[m].id = tmux[m].id /\ (m # n => tmux'[m].armed = tmux[m].armed)
    BY <1>1
  <2> QED  BY <1>1, <2>1 DEF Sessions, IdentitiesDiffer
<1>3. WorkIsKnown'
  <2>1. ASSUME NEW m \in Name \ {n}, "working" \in {tmux'[m].doing, tmux'[m].armed}
        PROVE  tmux'[m].id \in worked'
    <3>1. tmux'[m] = tmux[m] /\ tmux[m].id \in worked
      BY <1>1, <2>1 DEF Sessions, WorkIsKnown
    <3>2. tmux[m].id # tmux[n].id
      BY <2>1 DEF Sessions, IdentitiesDiffer
    <3> QED  BY <3>1, <3>2
  <2> QED  BY <1>1, <2>1 DEF WorkIsKnown
<1>4. LeftAlone(Name \ {n})
  BY <1>1 DEF LeftAlone
<1> QED  BY <1>2, <1>3, <1>4 DEF Sessions

(* Who may change a session, and what the monitor makes of it.             *)
LEMMA EndOutside ==
    ASSUME EndInv, Typed', NEW n \in Name,
           CreateOutside(n) \/ KillOutside(n) \/ \E doing \in Doing : Agent(n, doing)
    PROVE  Sessions' /\ ListIsCurrent'
<1>1. Typed /\ Sessions /\ ListIsCurrent /\ born \in Nat
  BY Bounds DEF EndInv, Sessions, Typed, SessionsTyped, Id0
<1>2. UNCHANGED monitor /\ monitor.todo \subseteq Name
  BY <1>1 DEF CreateOutside, KillOutside, Agent, ending, Typed, MonitorTyped
<1>3. Sessions' /\ LeftAlone(Name) /\ born =< born' /\ worked \subseteq worked'
  <2>1. CASE CreateOutside(n)
    BY <1>1, <2>1, WhenAppears DEF CreateOutside
  <2>2. CASE KillOutside(n)
    <3>1. UNCHANGED <<born, worked>> /\ tmux' = [tmux EXCEPT ![n] = Gone]
      BY <2>2 DEF KillOutside
    <3>2. Sessions' /\ LeftAlone(Name)
      BY <1>1, <3>1, WhenGone
    <3> QED  BY <1>1, <3>1, <3>2
  <2>3. ASSUME NEW doing \in Doing, Agent(n, doing)
        PROVE  Sessions' /\ LeftAlone(Name) /\ born =< born' /\ worked \subseteq worked'
    <3>1. UNCHANGED born
      BY <2>3 DEF Agent
    <3>2. Sessions' /\ LeftAlone(Name) /\ worked \subseteq worked'
      BY <1>1, <2>3, WhenAgentActs
    <3> QED  BY <1>1, <3>1, <3>2
  <2> QED  BY <2>1, <2>2, <2>3
<1>4. LeftAlone(monitor'.todo)
  BY <1>2, <1>3 DEF LeftAlone
<1> QED  BY <1>1, <1>2, <1>3, <1>4, StillCurrent DEF MovesOn

LEMMA EndHandling ==
    ASSUME EndInv, Typed', HandlerSteps \/ HandlerFails
    PROVE  Sessions' /\ ListIsCurrent'
<1>1. Typed /\ Sessions /\ OneHolder
  BY DEF EndInv, Sessions
<1>2. handler # None /\ UNCHANGED <<born, monitor>>
  BY DEF HandlerSteps, HandlerFails, Read, Unread, LookBeforeArming, Arm, Disarm, Terminate, Handles,
         world, ending
<1>3. ListIsCurrent'
  BY <1>1, <1>2, HandlerAlone DEF ListIsCurrent
<1>4. handler \in HandlerType /\ handler.name \in Name /\ handler.was.id \in Identity
         /\ handler.saw \in Doing \cup {"none"}
  BY <1>1, <1>2 DEF Typed, SessionsTyped, HandlerType
<1>5. Same(handler.name, handler.was) => tmux[handler.name].id = handler.was.id /\ handler.was.id # 0
  BY <1>4, Bounds DEF Same, Identity
<1>6. ASSUME Arm  PROVE Sessions'
  <2>1. CASE Same(handler.name, handler.was)
    <3> DEFINE a == IF handler.saw = "working" THEN "working" ELSE "waiting"
    <3>1. a \in Armed /\ (a = "working" <=> handler.saw = "working")
      BY DEF Armed
    <3>2. tmux' = [tmux EXCEPT ![handler.name].armed = a]
      BY <1>6, <2>1 DEF Arm
    <3>3. \A i \in worked : i # tmux[handler.name].id => i \in worked'
      BY <1>5, <1>6, <2>1 DEF Arm
    <3>4. "working" \in {tmux[handler.name].doing, a} => tmux[handler.name].id \in worked'
      BY <1>5, <1>6, <2>1, <3>1 DEF Arm
    <3> HIDE DEF a
    <3> QED  BY <1>1, <1>2, <1>4, <1>5, <2>1, <3>1, <3>2, <3>3, <3>4, WhenArmed
  <2>2. CASE ~Same(handler.name, handler.was)
    BY <1>1, <1>2, <1>6, <2>2 DEF Arm, Sessions, IdentitiesDiffer, WorkIsKnown
  <2> QED  BY <2>1, <2>2
<1>7. ASSUME Disarm  PROVE Sessions'
  <2>1. CASE Same(handler.name, handler.was) /\ handler.was.armed # "off"
    <3>1. "off" \in Armed
      BY DEF Armed
    <3>2. tmux' = [tmux EXCEPT ![handler.name].armed = "off"] /\ UNCHANGED worked
      BY <1>7, <2>1 DEF Disarm
    <3>3. "working" \in {tmux[handler.name].doing, "off"} => tmux[handler.name].id \in worked'
      BY <1>1, <1>4, <3>2 DEF Sessions, WorkIsKnown
    <3> QED  BY <1>1, <1>2, <1>4, <1>5, <2>1, <3>1, <3>2, <3>3, WhenArmed
  <2>2. CASE ~(Same(handler.name, handler.was) /\ handler.was.armed # "off")
    BY <1>1, <1>2, <1>7, <2>2 DEF Disarm, Sessions, IdentitiesDiffer, WorkIsKnown
  <2> QED  BY <2>1, <2>2
<1>8. ASSUME Terminate  PROVE Sessions'
  <2>1. UNCHANGED <<born, worked>> /\ (tmux' = [tmux EXCEPT ![handler.name] = Gone] \/ tmux' = tmux)
    BY <1>8 DEF Terminate
  <2>2. CASE tmux' = tmux
    BY <1>1, <2>1, <2>2 DEF Sessions, IdentitiesDiffer, WorkIsKnown
  <2> QED  BY <1>1, <1>4, <2>1, <2>2, WhenGone
<1>9. ASSUME HandlerFails \/ Read \/ Unread \/ LookBeforeArming  PROVE Sessions'
  BY <1>1, <1>9 DEF HandlerFails, Read, Unread, LookBeforeArming, world, Sessions,
        IdentitiesDiffer, WorkIsKnown
<1> QED  BY <1>3, <1>6, <1>7, <1>8, <1>9 DEF HandlerSteps

LEMMA Unmoved ==
    ASSUME Typed, Typed', Sessions, ListIsCurrent, UNCHANGED <<world, monitor>>
    PROVE  Sessions' /\ ListIsCurrent'
BY DEF world, Sessions, IdentitiesDiffer, WorkIsKnown, ListIsCurrent, Target, Saw, Listed

(* The monitor goes on with what is left to do, or has done with it.       *)
LEMMA GoesOn ==
    ASSUME Typed, Typed', ListIsCurrent, Acting, Next1, UNCHANGED <<born, worked>>,
           LeftAlone(Name \ {Target})
    PROVE  ListIsCurrent'
<1>1. CASE Rest
  BY <1>1 DEF Rest, Resting, ListIsCurrent
<1>2. CASE ~Rest
  <2>1. /\ monitor'.stage = "look" /\ monitor'.list = monitor.list
        /\ monitor'.todo = monitor.todo \ {Target} /\ monitor.stage # "idle"
    BY <1>2 DEF Next1, Typed, MonitorTyped, Acting
  <2>2. monitor'.todo \subseteq Name \ {Target}
    BY <2>1 DEF Typed, MonitorTyped
  <2>3. LeftAlone(monitor'.todo)
    BY <2>2 DEF LeftAlone
  <2>4. born =< born'
    BY Bounds DEF Typed, SessionsTyped, Id0
  <2> QED  BY <2>1, <2>3, <2>4, StillCurrent DEF MovesOn
<1> QED  BY <1>1, <1>2

LEMMA EndMonitor ==
    ASSUME EndInv, Typed', Inventory \/ MonitorSteps \/ MonitorFails \/ Tick
    PROVE  Sessions' /\ ListIsCurrent'
<1>1. Typed /\ Sessions /\ ListIsCurrent /\ OneHolder
  BY DEF EndInv, Sessions
<1>2. UNCHANGED <<born, worked>>
  BY DEF Inventory, MonitorSteps, Look, NoteBusy, NotYet, Wait, End, MonitorFails, Tick, world
<1>a. UNCHANGED tmux => Sessions' /\ LeftAlone(Name)
  BY <1>1, <1>2 DEF Sessions, IdentitiesDiffer, WorkIsKnown, LeftAlone
<1>3. CASE Inventory
  <2>1. UNCHANGED tmux
    BY <1>3 DEF Inventory, world
  <2>2. ASSUME monitor'.stage = "idle"  PROVE ListIsCurrent'
    BY <2>2 DEF ListIsCurrent
  <2>3. ASSUME monitor'.stage # "idle"  PROVE ListIsCurrent'
    <3>1. monitor' = [stage |-> "look", list |-> Listing,
                      todo |-> {n \in Name : tmux[n].armed # "off"}, saw |-> "none"]
      BY <1>3, <2>3 DEF Inventory
    <3>2. \A n \in monitor'.todo : n \in Name /\ tmux[n].armed # "off"
      BY <3>1
    <3>3. monitor'.list = Listing /\ monitor'.stage = "look"
      BY <3>1
    <3>4. \A n \in Name : Listing[n].id = tmux[n].id /\ Listing[n].armed = tmux[n].armed
      BY <1>1, Lists DEF Typed
    <3> QED  BY <1>1, <1>2, <2>1, <3>2, <3>3, <3>4 DEF ListIsCurrent, Sessions, IdentitiesDiffer
  <2> QED  BY <1>a, <2>1, <2>2, <2>3
<1>4. ASSUME NEW n \in Name, Look(n)  PROVE Sessions' /\ ListIsCurrent'
  <2>1. UNCHANGED tmux
    BY <1>4 DEF Look, world
  <2>2. /\ n \in monitor.todo /\ monitor'.list = monitor.list /\ monitor'.todo = monitor.todo
        /\ monitor'.stage = "act" /\ monitor.stage = "look"
        /\ monitor'.saw = <<n, IF Same(n, monitor.list[n]) THEN tmux[n].doing ELSE "unknown">>
    BY <1>1, <1>4 DEF Look, Typed, MonitorTyped
  <2>3. Target' = n /\ Listed' = monitor.list[n]
           /\ (Saw' = "working" => tmux[n].id = monitor.list[n].id /\ tmux[n].doing = "working")
    BY <2>2 DEF Target, Listed, Saw, Same
  <2>4. Saw' = "working" => Listed'.id \in worked
    BY <1>1, <2>3 DEF Sessions, WorkIsKnown
  <2>5. \A m \in monitor.todo :
            /\ monitor.list[m].id # 0 /\ monitor.list[m].id =< born
            /\ tmux[m].id = monitor.list[m].id => tmux[m].armed = monitor.list[m].armed
    BY <1>1, <2>2 DEF ListIsCurrent
  <2>6. ListIsCurrent'
    BY <1>2, <2>1, <2>2, <2>3, <2>4, <2>5 DEF ListIsCurrent
  <2> QED  BY <1>a, <2>1, <2>6
<1>5. Acting => Target \in Name /\ Target \in monitor.todo /\ Saw \in Doing
                  /\ (Saw = "working" => Listed.id \in worked)
  BY <1>1 DEF Acting, Target, Saw, Typed, MonitorTyped, ListIsCurrent
<1>6. CASE NoteBusy
  <2>1. Acting /\ Saw = "working" /\ Next1 /\ Target \in Name /\ Listed.id \in worked
           /\ Listed.id # 0
    BY <1>1, <1>5, <1>6 DEF NoteBusy, ListIsCurrent, Acting, Listed
  <2>2. CASE UNCHANGED tmux
    <3>1. LeftAlone(Name \ {Target})
      BY <1>a, <2>2 DEF LeftAlone
    <3> QED  BY <1>1, <1>2, <1>a, <2>1, <2>2, <3>1, GoesOn
  <2>3. CASE ~UNCHANGED tmux
    <3>1. tmux[Target].id = Listed.id /\ tmux' = [tmux EXCEPT ![Target].armed = "working"]
      BY <1>6, <2>3 DEF NoteBusy, Same
    <3>2. "working" \in Armed
      BY DEF Armed
    <3>3. Sessions' /\ LeftAlone(Name \ {Target})
      BY <1>1, <1>2, <2>1, <3>1, <3>2, WhenArmed
    <3> QED  BY <1>1, <1>2, <2>1, <3>3, GoesOn
  <2> QED  BY <2>2, <2>3
<1>7. CASE NotYet \/ Wait \/ MonitorFails
  <2>1. Acting /\ Next1 /\ UNCHANGED tmux
    BY <1>7 DEF NotYet, Wait, Finished, MonitorFails, world
  <2>2. LeftAlone(Name \ {Target})
    BY <1>a, <2>1 DEF LeftAlone
  <2> QED  BY <1>1, <1>2, <1>a, <2>1, <2>2, GoesOn
<1>8. CASE End
  <2>1. Acting /\ Next1 /\ Target \in Name
    BY <1>5, <1>8 DEF End, Finished
  <2>2. tmux' = [tmux EXCEPT ![Target] = Gone] \/ UNCHANGED tmux
    BY <1>8 DEF End
  <2>3. Sessions' /\ LeftAlone(Name)
    BY <1>1, <1>2, <1>a, <2>1, <2>2, WhenGone
  <2>4. LeftAlone(Name \ {Target})
    BY <2>3 DEF LeftAlone
  <2> QED  BY <1>1, <1>2, <2>1, <2>3, <2>4, GoesOn
<1>9. CASE Tick
  BY <1>1, <1>9, Unmoved DEF Tick
<1> QED  BY <1>3, <1>4, <1>6, <1>7, <1>8, <1>9 DEF MonitorSteps

LEMMA EndStep ==
    ASSUME EndInv, [Next]_vars
    PROVE  EndInv'
<1>1. Typed /\ Typed' /\ Sessions /\ ListIsCurrent /\ OneHolder'
  BY TypedStep, OneHolderStep DEF EndInv, Sessions
<1>s. SUFFICES Sessions' /\ ListIsCurrent'
  BY <1>1 DEF EndInv, Sessions
<1>2. CASE \E n \in Name : CreateOutside(n) \/ KillOutside(n) \/ \E doing \in Doing : Agent(n, doing)
  BY <1>1, <1>2, EndOutside
<1>3. CASE \E b \in BOOLEAN : Create(b)
  <2>1. launching.name \in Name /\ Appears(launching.name) /\ UNCHANGED <<worked, monitor>>
    BY <1>1, <1>3 DEF Create, Reserved, Typed, LaunchingTyped, ending
  <2>2. Sessions' /\ LeftAlone(Name) /\ born =< born'
    BY <1>1, <2>1, WhenAppears
  <2>3. LeftAlone(monitor'.todo)
    BY <1>1, <2>1, <2>2 DEF LeftAlone, Typed, MonitorTyped
  <2> QED  BY <1>1, <2>1, <2>2, <2>3, StillCurrent DEF MovesOn
<1>4. CASE HandlerSteps \/ HandlerFails
  BY <1>1, <1>4, EndHandling
<1>5. CASE Inventory \/ MonitorSteps \/ MonitorFails \/ Tick
  BY <1>1, <1>5, EndMonitor
<1>6. CASE Restart
  BY <1>1, <1>6 DEF Restart, Resting, ListIsCurrent, world, Sessions, IdentitiesDiffer, WorkIsKnown
<1>7. CASE UNCHANGED <<world, monitor>>
  BY <1>1, <1>7, Unmoved
<1>8. CASE UNCHANGED vars \/ \/ \E n \in Name :
                                \/ \E r \in Request : Reserve(r, n)
                                \/ \E do \in {"arm", "disarm", "end"} : AskToEnd(do, n)
                                \/ \E b \in Browser : AskToRead(b, n) \/ AskToUnread(b, n)
                             \/ \E b \in BOOLEAN : CreateFails(b) \/ Complete(b)
                             \/ \E b \in Browser : Subscribe(b) \/ Unsubscribe(b) \/ Receive(b)
                             \/ StreamSteps
  BY <1>7, <1>8 DEF vars, Reserve, AskToEnd, AskToRead, AskToUnread, Ask, CreateFails, Complete,
        Subscribe, Unsubscribe, Leaves, Receive, StreamSteps, Cancelled, Sample, Observe, SampleFails,
        Publish, ending
<1> QED
  BY <1>2, <1>3, <1>4, <1>5, <1>6, <1>8 DEF Next, StreamSteps, Doing

LEMMA EndInit ==
    ASSUME Init
    PROVE  EndInv
<1>1. OneHolder
  BY TypeOfTask DEF Init, OneHolder, Resting
<1>2. Sessions
  BY DEF Init, Gone, Sessions, IdentitiesDiffer, WorkIsKnown
<1>3. ListIsCurrent
  BY DEF Init, Resting, ListIsCurrent
<1> QED  BY <1>1, <1>2, <1>3, Typing0 DEF EndInv, Sessions

(* "end after the next work episode": the monitor ends only a session that *)
(* is armed when it dies and whose agent has worked since it was armed,    *)
(* never another one that took its name in the meantime.                   *)
THEOREM Ending == Spec => EndsOnRequest
<1>1. Init => EndInv
  BY EndInit
<1>2. EndInv /\ [Next]_vars => EndInv'
  BY EndStep
<1>3. ASSUME EndInv, NEW n \in Name, End, tmux'[n] # tmux[n]
      PROVE  tmux[n].armed = "working" /\ tmux[n].id \in worked
  <2>1. Typed /\ WorkIsKnown /\ ListIsCurrent /\ Acting /\ Listed.armed = "working"
    BY <1>3 DEF EndInv, End, Finished
  <2>2. tmux' = [tmux EXCEPT ![Target] = Gone] /\ tmux[Target].id = Listed.id /\ n = Target
    BY <1>3, <2>1 DEF End, Same, Typed, SessionsTyped
  <2>3. tmux[n].armed = "working"
    BY <2>1, <2>2 DEF ListIsCurrent, Acting, Listed
  <2> QED  BY <2>1, <2>3 DEF WorkIsKnown
<1>4. EndInv /\ [Next]_vars => [\A n \in Name : End /\ tmux'[n] # tmux[n] =>
                                   tmux[n].armed = "working" /\ tmux[n].id \in worked]_vars
  BY <1>3
<1> QED  BY <1>1, <1>2, <1>4, PTL DEF Spec, EndsOnRequest

----------------------------------------------------------------------------
(* A launch adds its request to what was launched, and nothing else does.  *)
LEMMA LaunchAppends ==
    ASSUME launched \in Seq(Request), NEW r \in Request, launched' = Append(launched, r)
    PROVE  launched' \in Seq(Request) /\ \A q : Launched(q)' <=> Launched(q) \/ q = r
<1>1. /\ launched' \in Seq(Request)
      /\ DOMAIN launched' = DOMAIN launched \cup {Len(launched) + 1}
      /\ Len(launched) + 1 \notin DOMAIN launched
      /\ \A i \in DOMAIN launched : launched'[i] = launched[i]
      /\ launched'[Len(launched) + 1] = r
  OBVIOUS
<1>2. ASSUME NEW q  PROVE Launched(q)' <=> Launched(q) \/ q = r
  BY <1>1 DEF Launched
<1> QED  BY <1>1, <1>2

LEMMA NoLaunchStep ==
    ASSUME Next, ~\E r \in Request, n \in Name : Reserve(r, n),
           ~\E b \in BOOLEAN : Create(b) \/ CreateFails(b) \/ Complete(b)
    PROVE  UNCHANGED <<launched, receipts>> /\ (launching' = launching \/ launching' = None)
BY DEF Next, CreateOutside, KillOutside, Agent, AskToEnd, AskToRead, AskToUnread, Ask, HandlerSteps,
       Read, Unread, LookBeforeArming, Arm, Disarm, Terminate, HandlerFails, Inventory, MonitorSteps,
       Look, NoteBusy, NotYet, Wait, End, MonitorFails, Tick, Subscribe, Unsubscribe, Leaves, Receive,
       Cancelled, Sample, Observe, SampleFails, Publish, Restart, launch

LEMMA LaunchStep ==
    ASSUME LaunchInv, [Next]_vars
    PROVE  LaunchInv'
<1>1. Typed /\ Typed' /\ launched \in Seq(Request)
  BY TypedStep DEF LaunchInv
<1>2. launching # None => launching.request \in Request /\ launching.stage \in {"reserved", "created"}
  BY <1>1 DEF Typed, LaunchingTyped
<1>3. ASSUME NEW r \in Request, NEW n \in Name, Reserve(r, n)  PROVE LaunchInv'
  <2>1. /\ launching' = [request |-> r, name |-> n, stage |-> "reserved"]
        /\ receipts[r] = "none" /\ receipts' = [receipts EXCEPT ![r] = "pending"]
        /\ UNCHANGED launched
    BY <1>3 DEF Reserve
  <2>2. launching'.request = r /\ launching'.stage = "reserved"
    BY <2>1
  <2> QED  BY <1>1, <2>1, <2>2 DEF LaunchInv, Launched
<1>4. ASSUME NEW b \in BOOLEAN, Create(b)  PROVE LaunchInv'
  <2>1. /\ launching # None /\ launching.stage = "reserved"
        /\ launched' = Append(launched, launching.request) /\ UNCHANGED receipts
        /\ launching' = None \/ launching' = [launching EXCEPT !.stage = "created"]
    BY <1>4 DEF Create, Reserved
  <2>2. launching' # None => launching'.request = launching.request /\ launching'.stage = "created"
    BY <1>1, <2>1 DEF Typed, LaunchingTyped
  <2>3. launched' \in Seq(Request) /\ \A q : Launched(q)' <=> Launched(q) \/ q = launching.request
    BY <1>1, <1>2, <2>1, LaunchAppends
  <2>4. receipts[launching.request] = "pending"
    BY <2>1 DEF LaunchInv
  <2> QED  BY <1>1, <1>2, <2>1, <2>2, <2>3, <2>4 DEF LaunchInv
<1>5. ASSUME NEW b \in BOOLEAN, CreateFails(b) \/ Complete(b)  PROVE LaunchInv'
  <2>1. /\ launching # None /\ launching' = None /\ UNCHANGED launched
        /\ \/ UNCHANGED receipts
           \/ launching.stage = "reserved" /\ receipts' = [receipts EXCEPT ![launching.request] = "failed"]
           \/ launching.stage = "created" /\ receipts' = [receipts EXCEPT ![launching.request] = "complete"]
    BY <1>5 DEF CreateFails, Complete, Reserved
  <2> QED  BY <1>1, <1>2, <2>1 DEF LaunchInv, Launched
<1>6. CASE UNCHANGED <<launched, receipts>> /\ (launching' = launching \/ launching' = None)
  BY <1>1, <1>6 DEF LaunchInv, Launched
<1> QED  BY <1>3, <1>4, <1>5, <1>6, NoLaunchStep DEF vars, launch

LEMMA LaunchInit ==
    ASSUME Init
    PROVE  LaunchInv
BY Typing0 DEF Init, LaunchInv, Launched

(* A launch is performed while its receipt is pending, and a receipt is    *)
(* settled as it happened: every step is one of EffectOnce or a stutter.   *)
Effects == [i \in DOMAIN launched |-> [op |-> launched[i], generation |-> 1]]

VerdictOf(r) == CASE receipts[r] = "complete" -> "done"
                  [] receipts[r] = "failed" -> "refused"
                  [] OTHER -> "open"

Verdicts == [r \in Request |-> VerdictOf(r)]

LEMMA SameHappened ==
    \A r : Abstract!Happened(r) <=> Launched(r)
BY DEF Abstract!Happened, Launched

LEMMA EffectsAppend ==
    ASSUME launched \in Seq(Request), NEW r \in Request, launched' = Append(launched, r)
    PROVE  Effects' = Append(Effects, [op |-> r, generation |-> 1])
<1>1. /\ DOMAIN launched = 1 .. Len(launched) /\ DOMAIN launched' = 1 .. Len(launched) + 1
      /\ \A i \in 1 .. Len(launched) : launched'[i] = launched[i]
      /\ launched'[Len(launched) + 1] = r /\ Len(launched) \in Nat
  OBVIOUS
<1> DEFINE n == Len(launched)
           S == [op: Request, generation: {1}]
<1>2. Effects \in Seq(S) /\ Len(Effects) = n
  <2>1. Effects \in [1 .. n -> S]
    BY <1>1 DEF Effects
  <2> HIDE DEF n, S
  <2>2. n \in Nat
    BY <1>1 DEF n
  <2> QED  BY <2>1, <2>2
<1> QED  BY <1>1, <1>2 DEF Effects

LEMMA MapsInit ==
    ASSUME Init
    PROVE  Abstract!Init
<1>1. Effects = <<>>
  BY DEF Init, Effects
<1>2. Verdicts = [r \in Request |-> "open"]
  BY DEF Init, Verdicts, VerdictOf
<1> QED  BY <1>1, <1>2 DEF Abstract!Init, Effects, Verdicts, VerdictOf

LEMMA MapsStep ==
    ASSUME LaunchInv, [Next]_vars
    PROVE  [Abstract!Next]_<<Effects, Verdicts>>
<1>1. launching # None => /\ launching.request \in Request /\ receipts[launching.request] = "pending"
                          /\ launching.stage = "created" <=> Launched(launching.request)
  BY DEF LaunchInv, Typed, LaunchingTyped
<1>2. CASE UNCHANGED <<launched, receipts>>
  BY <1>2 DEF Effects, Verdicts, VerdictOf
<1>3. ASSUME NEW r \in Request, NEW n \in Name, Reserve(r, n)
      PROVE  UNCHANGED <<Effects, Verdicts>>
  <2>1. UNCHANGED launched /\ \A q \in Request : VerdictOf(q)' = VerdictOf(q)
    BY <1>3 DEF Reserve, VerdictOf, LaunchInv
  <2> QED  BY <2>1 DEF Effects, Verdicts
<1>4. ASSUME NEW b \in BOOLEAN, Create(b)
      PROVE  Abstract!Next
  <2> DEFINE r == launching.request
  <2>1. /\ launching # None /\ launching.stage = "reserved" /\ UNCHANGED receipts
        /\ launched' = Append(launched, r)
    BY <1>4 DEF Create, Reserved
  <2>2. r \in Request /\ receipts[r] = "pending" /\ ~Launched(r)
    BY <1>1, <2>1
  <2>3. Effects' = Append(Effects, [op |-> r, generation |-> 1])
    BY <2>1, <2>2, EffectsAppend DEF LaunchInv
  <2>4. Verdicts[r] = "open" /\ UNCHANGED Verdicts
    BY <2>1, <2>2 DEF Verdicts, VerdictOf
  <2>5. \A i \in DOMAIN Effects : Effects[i].generation =< 1
    BY DEF Effects
  <2> HIDE DEF r
  <2>6. Abstract!Perform(r, 1)
    BY <2>2, <2>3, <2>4, <2>5, SameHappened DEF Abstract!Perform, Effects, Verdicts, VerdictOf
  <2> QED  BY <2>2, <2>6 DEF Abstract!Next
<1>5. ASSUME NEW b \in BOOLEAN, CreateFails(b) \/ Complete(b), receipts' # receipts
      PROVE  Abstract!Next
  <2> DEFINE r == launching.request
  <2>1. /\ launching # None /\ UNCHANGED launched
        /\ \/ launching.stage = "reserved" /\ receipts' = [receipts EXCEPT ![r] = "failed"]
           \/ launching.stage = "created" /\ receipts' = [receipts EXCEPT ![r] = "complete"]
    BY <1>5 DEF CreateFails, Complete, Reserved
  <2>2. r \in Request /\ receipts[r] = "pending" /\ (launching.stage = "created" <=> Launched(r))
    BY <1>1, <2>1
  <2>3. UNCHANGED Effects /\ Verdicts[r] = "open"
    BY <2>1, <2>2 DEF Effects, Verdicts, VerdictOf
  <2>4. CASE launching.stage = "reserved"
    <3>1. Verdicts' = [Verdicts EXCEPT ![r] = "refused"]
      BY <2>1, <2>2, <2>4 DEF Verdicts, VerdictOf, LaunchInv
    <3> HIDE DEF r
    <3>2. Abstract!Refuse(r)
      BY <2>2, <2>3, <2>4, <3>1, SameHappened DEF Abstract!Refuse, Effects, Verdicts, VerdictOf
    <3> QED  BY <2>2, <3>2 DEF Abstract!Next, Abstract!Refuse
  <2>5. CASE launching.stage = "created"
    <3>1. Verdicts' = [Verdicts EXCEPT ![r] = "done"]
      BY <2>1, <2>2, <2>5 DEF Verdicts, VerdictOf, LaunchInv
    <3> HIDE DEF r
    <3>2. Abstract!Affirm(r)
      BY <2>2, <2>3, <2>5, <3>1, SameHappened DEF Abstract!Affirm, Effects, Verdicts, VerdictOf
    <3> QED  BY <2>2, <3>2 DEF Abstract!Next, Abstract!Affirm
  <2> QED  BY <2>1, <2>4, <2>5
<1>6. ASSUME NEW b \in BOOLEAN, CreateFails(b) \/ Complete(b)
      PROVE  UNCHANGED launched
  BY <1>6 DEF CreateFails, Complete
<1> QED  BY <1>2, <1>3, <1>4, <1>5, <1>6, NoLaunchStep DEF vars, launch

(* However often the command line sends a launch request again, whatever   *)
(* tmux or the database answers and wherever the server dies, it launches  *)
(* at most one session, and a receipt that says complete or failed is true *)
(* and final.                                                              *)
THEOREM Launching == Spec => LaunchesAreEffects
<1>1. Init => LaunchInv /\ Abstract!Init
  BY LaunchInit, MapsInit
<1>2. LaunchInv /\ [Next]_vars => LaunchInv' /\ [Abstract!Next]_<<Effects, Verdicts>>
  BY LaunchStep, MapsStep
<1> QED
  BY <1>1, <1>2, PTL DEF Spec, LaunchesAreEffects, Abstract!Spec, Effects, Verdicts, VerdictOf

----------------------------------------------------------------------------
(* What stays shown.  A snapshot is as old as another one when it has no   *)
(* less of the same session.  What a browser shows is no newer than what   *)
(* the sampler published last, that is no newer than what the sampler has  *)
(* built since, and nothing is newer than the rows.                        *)
NoNewer(p, q) == \A n \in Name : p[n].id = q[n].id /\ p[n].id # 0 => p[n].latest =< q[n].latest

Recorded(p, r) == \A n \in Name : p[n].id # 0 => p[n].latest =< r[p[n].id].latest

Building == sampler # None /\ tasks[sampler].stage = "built"

InOrder ==
    /\ sampler = None => latest = None
    /\ \A b \in DOMAIN queue : queue[b] \in {None, latest}
    /\ \A b \in Browser : Recorded(shown[b], rows)
    /\ latest # None => Recorded(latest, rows) /\ \A b \in Browser : NoNewer(shown[b], latest)
    /\ Building => /\ Recorded(tasks[sampler].payload, rows)
                   /\ \A b \in Browser : NoNewer(shown[b], tasks[sampler].payload)
                   /\ latest # None => NoNewer(latest, tasks[sampler].payload)

StayInv == Typed /\ InOrder

(* The rows only grow, ...                                                 *)
LEMMA RowsGrow ==
    ASSUME Typed, [Next]_vars
    PROVE  \A i \in Identity : rows'[i].latest >= rows[i].latest
<1>1. \A i \in Identity : rows[i].latest \in Nat
  BY DEF Typed, RowsTyped, RowType
<1>2. CASE Read
  BY <1>1, <1>2 DEF Read, Typed, RowsTyped, RowType
<1>3. CASE Unread
  BY <1>1, <1>3 DEF Unread, Typed, RowsTyped, RowType
<1>4. CASE \E t \in Task : Observe(t)
  BY <1>4, Builds
<1>5. CASE UNCHANGED rows
  BY <1>1, <1>5
<1>6. Read \/ Unread \/ (\E t \in Task : Observe(t)) \/ UNCHANGED rows
  BY DEF Next, vars, CreateOutside, KillOutside, Agent, Reserve, Create, CreateFails, Complete,
         AskToEnd, AskToRead, AskToUnread, Ask, HandlerSteps, LookBeforeArming, Arm,
         Disarm, Terminate, HandlerFails, Inventory, MonitorSteps, Look, NoteBusy, NotYet, Wait,
         End, MonitorFails, Tick, Subscribe, Unsubscribe, Leaves, Receive, Cancelled, Sample, SampleFails,
         Publish, Restart
<1> QED  BY <1>2, <1>3, <1>4, <1>5, <1>6

(* ... so what they had recorded stays recorded.                           *)
LEMMA StaysRecorded ==
    ASSUME Typed, Typed', [Next]_vars
    PROVE  \A p \in Payload : Recorded(p, rows) => Recorded(p, rows')
<1> TAKE p \in Payload
<1>1. ASSUME NEW n \in Name, p[n].id # 0, p[n].latest =< rows[p[n].id].latest
      PROVE  p[n].latest =< rows'[p[n].id].latest
  <2>1. p[n].id \in Identity /\ p[n].latest \in Nat
    BY <1>1, Bounds DEF Payload, Id0, Identity
  <2>2. rows[p[n].id].latest \in Nat /\ rows'[p[n].id].latest \in Nat
    BY <2>1 DEF Typed, RowsTyped, RowType
  <2> QED  BY <1>1, <2>1, <2>2, RowsGrow
<1> QED  BY <1>1 DEF Recorded

(* Nothing is newer than itself, or than what was recorded later.          *)
LEMMA Newest ==
    ASSUME NEW p \in Payload
    PROVE  NoNewer(p, p) /\ NoNewer(Unseen, p)
BY DEF NoNewer, Payload, Unseen

(* A step of a task leaves the order as it is, unless it builds or         *)
(* publishes.                                                              *)
LEMMA KeepsOrder ==
    ASSUME InOrder, UNCHANGED <<sampler, latest, queue, shown>>,
           latest \in Payload \cup {None}, \A b \in Browser : shown[b] \in Payload,
           \A p \in Payload : Recorded(p, rows) => Recorded(p, rows'),
           Building' => Building /\ tasks'[sampler] = tasks[sampler] /\ tasks[sampler].payload \in Payload
    PROVE  InOrder'
<1>1. \A b \in Browser : Recorded(shown[b], rows')
  BY DEF InOrder
<1>2. latest # None => Recorded(latest, rows') /\ \A b \in Browser : NoNewer(shown[b], latest)
  BY DEF InOrder
<1> DEFINE p == tasks[sampler].payload
<1>3. Building' => /\ Recorded(p, rows') /\ tasks'[sampler].payload = p
                   /\ \A b \in Browser : NoNewer(shown[b], p)
                   /\ latest # None => NoNewer(latest, p)
  BY DEF InOrder
<1> HIDE DEF p
<1> QED  BY <1>1, <1>2, <1>3 DEF InOrder, NoNewer, Recorded

LEMMA InOrderStep ==
    ASSUME StayInv, [Next]_vars
    PROVE  StayInv'
<1>1. Typed /\ Typed' /\ InOrder
  BY TypedStep DEF StayInv
<1>t. /\ \A b \in Browser : shown[b] \in Payload /\ shown'[b] \in Payload
      /\ latest \in Payload \cup {None} /\ latest' \in Payload \cup {None}
      /\ \A t \in Task : tasks[t] \in TaskType /\ tasks'[t] \in TaskType
      /\ \A t \in Task : tasks[t].payload \in Payload /\ tasks'[t].payload \in Payload
      /\ sampler \in Task \cup {None}
  BY <1>1 DEF Typed, SessionsTyped, RowsTyped, TaskType
<1>s. SUFFICES InOrder'
  BY <1>1 DEF StayInv
<1>r. \A p \in Payload : Recorded(p, rows) => Recorded(p, rows')
  BY <1>1, StaysRecorded
<1>2. CASE UNCHANGED stream
  BY <1>1, <1>2, <1>t, <1>r DEF stream, InOrder, Building, NoNewer
<1>3. ASSUME NEW b \in Browser, Subscribe(b)  PROVE InOrder'
  <2>1. UNCHANGED <<latest, shown>> /\ \A c \in DOMAIN queue' : queue'[c] \in {None, latest}
    BY <1>1, <1>3 DEF Subscribe, Subscribed, InOrder
  <2>2. /\ sampler' # None
        /\ IF sampler # None THEN UNCHANGED <<sampler, tasks>> ELSE tasks'[sampler'].stage = "wait"
    <3>1. CASE sampler # None
      BY <1>3, <3>1 DEF Subscribe
    <3>2. CASE sampler = None
      <4>1. sampler' \in Task /\ tasks' = [tasks EXCEPT ![sampler'] = Started]
        BY <1>3, <3>2 DEF Subscribe
      <4> QED  BY <1>1, <3>2, <4>1, TypeOfTask, LockAssumption DEF Typed, SessionsTyped
    <3> QED  BY <3>1, <3>2
  <2> QED  BY <1>1, <1>t, <1>r, <2>1, <2>2 DEF InOrder, Building, NoNewer
<1>4. ASSUME NEW b \in Browser, Unsubscribe(b)  PROVE InOrder'
  <2>1. /\ UNCHANGED tasks /\ \A c \in Browser : shown'[c] \in {Unseen, shown[c]}
        /\ (UNCHANGED <<sampler, latest>> /\ \A c \in DOMAIN queue' : queue'[c] \in {None, latest})
              \/ (sampler' = None /\ latest' = None /\ DOMAIN queue' = {})
    BY <1>1, <1>4 DEF Unsubscribe, Leaves, Subscribed, InOrder, Typed, RowsTyped
  <2>2. \A c \in Browser : Recorded(shown'[c], rows')
    BY <1>1, <1>t, <1>r, <2>1 DEF InOrder, Recorded, Unseen
  <2>3. \A p \in Payload, c \in Browser : NoNewer(shown[c], p) => NoNewer(shown'[c], p)
    BY <2>1, Newest
  <2>4. CASE UNCHANGED <<sampler, latest>> /\ \A c \in DOMAIN queue' : queue'[c] \in {None, latest}
    BY <1>1, <1>t, <1>r, <2>1, <2>2, <2>3, <2>4 DEF InOrder, Building, NoNewer
  <2>5. CASE sampler' = None /\ latest' = None /\ DOMAIN queue' = {}
    BY <2>2, <2>5 DEF InOrder, Building
  <2> QED  BY <2>1, <2>4, <2>5
<1>5. ASSUME NEW b \in Browser, Receive(b)  PROVE InOrder'
  <2>1. /\ UNCHANGED <<sampler, tasks, latest, rows>> /\ latest # None
        /\ \A c \in Browser : shown'[c] \in {latest, shown[c]}
        /\ \A c \in DOMAIN queue' : queue'[c] \in {None, latest}
    BY <1>1, <1>5 DEF Receive, Subscribed, InOrder, Typed, RowsTyped
  <2>2. \A c \in Browser : NoNewer(shown'[c], latest)
    BY <1>1, <1>t, <2>1, Newest DEF InOrder
  <2> QED  BY <1>1, <1>t, <1>r, <2>1, <2>2 DEF InOrder, Building, NoNewer, Recorded
<1>6. CASE Restart
  BY <1>1, <1>6, <1>t, <1>r DEF Restart, InOrder, Building
<1>7. ASSUME NEW t \in Task, Cancelled(t) \/ Sample(t) \/ SampleFails(t)  PROVE InOrder'
  <2>1. UNCHANGED <<sampler, latest, queue, shown>>
    BY <1>7 DEF Cancelled, Sample, SampleFails
  <2>2. tasks'[t].stage # "built" /\ \A u \in Task \ {t} : tasks'[u] = tasks[u]
    BY <1>1, <1>7, <1>t, TypeOfTask DEF Cancelled, Sample, SampleFails, Typed, SessionsTyped, TaskType
  <2>3. Building' => Building /\ tasks'[sampler] = tasks[sampler]
    BY <1>t, <2>1, <2>2 DEF Building
  <2> QED  BY <1>1, <1>t, <1>r, <2>1, <2>3, KeepsOrder DEF Building
<1>8. ASSUME NEW t \in Task, Observe(t)  PROVE InOrder'
  <2>1. UNCHANGED <<sampler, latest, queue, shown>>
    BY <1>8 DEF Observe
  <2>2. \A u \in Task \ {t} : tasks'[u] = tasks[u]
    BY <1>1, <1>8 DEF Observe, Typed, SessionsTyped
  <2> DEFINE p == tasks'[t].payload
  <2>3. Recorded(p, rows') /\ \A q \in Payload : Recorded(q, rows') => NoNewer(q, p)
    <3>1. \A n \in Name : p[n].id # 0 => p[n].latest = rows'[p[n].id].latest
      BY <1>1, <1>8, Builds
    <3>2. \A n \in Name : p[n].latest \in Nat
      BY <1>t DEF Payload
    <3> HIDE DEF p
    <3> QED  BY <3>1, <3>2 DEF Recorded, NoNewer
  <2>4. CASE sampler = t
    <3>1. \A b \in Browser : Recorded(shown[b], rows') /\ NoNewer(shown[b], p)
      BY <1>1, <1>t, <1>r, <2>1, <2>3 DEF InOrder, Recorded
    <3>2. latest # None => Recorded(latest, rows') /\ NoNewer(latest, p)
      BY <1>1, <1>t, <1>r, <2>1, <2>3 DEF InOrder, Recorded
    <3> QED  BY <1>1, <2>1, <2>3, <2>4, <3>1, <3>2 DEF InOrder, Building, NoNewer, Recorded
  <2>5. CASE sampler # t
    <3>1. Building' => Building /\ tasks'[sampler] = tasks[sampler]
      BY <1>t, <2>1, <2>2, <2>5 DEF Building
    <3> QED  BY <1>1, <1>t, <1>r, <2>1, <3>1, KeepsOrder DEF Building
  <2> QED  BY <2>4, <2>5
<1>9. ASSUME NEW t \in Task, Publish(t)  PROVE InOrder'
  <2>1. CASE sampler # t
    <3>1. UNCHANGED <<sampler, latest, queue, shown, rows>>
      BY <1>9, <2>1 DEF Publish
    <3>2. \A u \in Task \ {t} : tasks'[u] = tasks[u]
      BY <1>1, <1>9 DEF Publish, Typed, SessionsTyped
    <3>3. Building' => Building /\ tasks'[sampler] = tasks[sampler]
      BY <1>t, <2>1, <3>1, <3>2 DEF Building
    <3> QED  BY <1>1, <1>t, <1>r, <3>1, <3>3, KeepsOrder DEF Building
  <2>2. CASE sampler = t
    <3>1. /\ Building /\ UNCHANGED <<sampler, shown, rows>> /\ tasks'[t].stage = "wait" /\ t # None
      BY <1>1, <1>9, <2>2, TypeOfTask, LockAssumption DEF Publish, Building, Typed, SessionsTyped
    <3>2. \/ UNCHANGED <<latest, queue>>
          \/ latest' = tasks[t].payload /\ \A b \in DOMAIN queue' : queue'[b] = latest'
      BY <1>9, <2>2 DEF Publish, Offer, Subscribed
    <3> QED  BY <1>1, <1>t, <1>r, <2>2, <3>1, <3>2 DEF InOrder, Building, NoNewer, Recorded
  <2> QED  BY <2>1, <2>2
<1>10. UNCHANGED stream \/ StreamSteps \/ Restart
         \/ \E b \in Browser : Subscribe(b) \/ Unsubscribe(b) \/ Receive(b)
  BY DEF Next, StreamSteps, vars, CreateOutside, KillOutside, Agent, Reserve, Create, CreateFails,
         Complete, AskToEnd, AskToRead, AskToUnread, Ask, HandlerSteps, Read, Unread, LookBeforeArming,
         Arm, Disarm, Terminate, HandlerFails, Inventory, MonitorSteps, Look, NoteBusy, NotYet, Wait,
         End, MonitorFails, Tick
<1> QED  BY <1>2, <1>3, <1>4, <1>5, <1>6, <1>7, <1>8, <1>9, <1>10 DEF StreamSteps

LEMMA InOrderInit ==
    ASSUME Init
    PROVE  StayInv
BY Typing0 DEF Init, StayInv, InOrder, Building, Recorded, Unseen

(* A late task never brings back a snapshot from before an event: what a   *)
(* browser was shown of a session stays shown while it listens, however    *)
(* many browsers come and go and however many samplers they leave behind.  *)
THEOREM Staying == Spec => EventsStay
<1>1. Init => StayInv
  BY InOrderInit
<1>2. StayInv /\ [Next]_vars => StayInv'
  BY InOrderStep
<1> DEFINE Stays == \A b \in Subscribed \cap Subscribed' : \A n \in Name :
                        shown[b][n].id \in {shown'[b][n].id} \ {0} => shown'[b][n].latest >= shown[b][n].latest
<1>3. ASSUME StayInv, [Next]_vars  PROVE [Stays]_vars
  <2>1. Typed /\ InOrder /\ DOMAIN queue \subseteq Browser
    BY <1>3 DEF StayInv, Typed, RowsTyped
  <2>2. ASSUME NEW b \in Browser, NEW n \in Name, b \in Subscribed, b \in Subscribed',
               shown[b][n].id \in {shown'[b][n].id} \ {0}
        PROVE  shown'[b][n].latest >= shown[b][n].latest
    <3>1. shown[b][n].latest \in Nat
      BY <2>1 DEF Typed, RowsTyped, Payload
    <3>2. CASE shown'[b] = shown[b]
      BY <3>1, <3>2
    <3>3. CASE Receive(b)
      <4>1. shown'[b] = latest /\ latest # None /\ latest \in Payload
        BY <2>1, <2>2, <3>3 DEF Receive, Subscribed, InOrder, Typed, RowsTyped
      <4>2. NoNewer(shown[b], latest)
        BY <2>1, <2>2, <4>1 DEF Subscribed, InOrder
      <4>3. latest[n].latest \in Nat
        BY <4>1 DEF Payload
      <4> QED  BY <2>2, <3>1, <4>1, <4>2, <4>3 DEF NoNewer
    <3>4. CASE \E c \in Browser : c # b /\ (Receive(c) \/ Unsubscribe(c))
      BY <2>1, <3>2, <3>4 DEF Receive, Unsubscribe, Leaves, Typed, RowsTyped
    <3>5. ~Unsubscribe(b)
      BY <2>2 DEF Unsubscribe, Leaves, Subscribed
    <3>6. CASE ~\E c \in Browser : Receive(c) \/ Unsubscribe(c)
      BY <1>3, <3>2, <3>6, ShownRests
    <3> QED  BY <3>3, <3>4, <3>5, <3>6
  <2> QED  BY <2>1, <2>2 DEF Subscribed
<1>4. StayInv /\ [Next]_vars => [Stays]_vars
  BY <1>3
<1> QED  BY <1>1, <1>2, <1>4, PTL DEF Spec, EventsStay

=============================================================================
