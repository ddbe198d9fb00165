# A verification project for Muxdeck and Muxpilot

This directory holds TLA+ modules, TLC configurations and TLAPS proofs about the
programs of this repository:

- **Muxdeck**, a web console for tmux sessions: a Python server
  (`tmux_console/`, aiohttp, one process) and a browser application (`src/`,
  React);
- **Muxpilot**, a project coordinator (`muxpilot/`, Python) that drives the
  server over HTTP and shares one SQLite file per project with it.

Paths below are relative to the repository. Sections 1 and 2 are the inventory,
3 describes the modules, 4 the runs, 5 the findings, 6 the proofs, 7 what is
left out, 8 the plan.

## 1. The system

### 1.1 Components

| Component | Source | State it keeps | Operations | Status |
| --- | --- | --- | --- | --- |
| Project journal | `muxpilot/store.py` | lease, operations, mappings, checkpoints, audit log; feed cursors, artifacts | acquire, renew, release; prepare, dispatch, complete, reject, reconcile; put mapping; commit decision; ingest, gap; write artifact, back up, restore | every call that writes is modelled |
| Fenced receiver | `muxpilot/fencing.py` | operations received with their receipts (same file), binding files | admit, take the fence, perform, bind, commit | modelled |
| Project workspace setup | `muxpilot/runtime.py:793` | the progress of one call, `worker.json` | prepare, read evidence, dispatch, send, complete, map, configure | modelled |
| Coordinator | `muxpilot/project.py` | registry and its lock, credentials, `takeover.json`, lease secrets | start, resume and take over, renew, revoke, commands; ingest, plan, integrate, close | the first five modelled |
| Workers, provider bridge | `muxpilot/runtime.py`, `worker.py` | slots, launches | allocate, launch, bridge | planned |
| Workspace store | `tmux_console/workspaces.py`, `workspace_folds.py` | workspaces, pins, callback queues, notes, links, pending undos, the revision of session names, one JSON file | create, delete, arrange, add, move, transfer, pin, forget, undo, rename, record activity, commit | modelled, but notes and links |
| Streams | `tmux_console/app.py:530-749` | subscribers with a queue of one, the latest snapshot, one sampler | subscribe, publish, sample | modelled |
| Page synchronisation | `src/App.tsx`, `src/workspaceSync.ts` | local tabs, canonical record, staged, queued, sent and failed save | edit, stage, save, answer, merge, retry, reload | modelled for the set of tabs |
| Linked tabs | `src/forkSync.ts`, `src/useForkSync.ts` | snapshot, screen, a cell in `localStorage` | open, select, fork, receive, pause, rejoin, close | modelled |
| Stdio relay | `tmux_console/stdio_bridge.py`, `stdio_runner.py` | queues, credit, pipes, socket | read, write, acknowledge, signal, report, leave | modelled after the launch |
| Launch receipts | `tmux_console/launch_requests.py` | pending, complete and failed reservations | reserve, create, complete, fail | modelled |
| Session completion | `tmux_console/session_completion.py` | armed mode, time of readiness | arm, disarm, observe, end | modelled |
| Session attention | `tmux_console/session_attention.py` | latest ready event, last checked | observe, read, unread | modelled |
| Browser views | `tmux_console/workspace_views.py`, `src/useWorkspaceViews.ts` | attachments, focus order, evicted views; paused, rejoining, the poll that is out | attach, focus, size, evict, resume, poll, pause, rejoin | modelled for pages with a view id |
| Callbacks | `tmux_console/callback_messages.py`, `callback_groups.py` | messages, holds, groups, two revisions | add, review, hold, save group, rename | planned |
| Folds | `tmux_console/fold_recovery.py`, `src/useWorkspaceFoldActions.tsx` | the fold with the snapshots of its closed sessions; the confirmed request | confirm, archive, end, delete, recover | modelled |
| Session registry | `tmux_console/session_registry.py` | history of sessions with their origins, rows offered for recovery | reconcile, record, observe, end, withdraw; recreate, restore; titles, agents, listings | modelled but the last three |

`PROJECT.json` lists the remaining parts (tmux driver, authentication, file
browser, transcripts, user interface, scripts) with the reason each is left out:
they do I/O, parse, or format.

### 1.2 How they interact

```
 coordinator --HTTP (epoch, operation id)--> receiver middleware --> handlers --> tmux
      |                                          |
      +------------- journal.sqlite3 ------------+      (two processes, one write lock)

 page --POST activity (base record)--> workspace store --commit--> file
   ^                                        |
   +----- stream: latest record only -------+            (answers, stream, polls: any order)

 tab <--BroadcastChannel--> tab, one localStorage cell    (no lock)

 browser --requests--> handlers --+
 agents, users --> tmux <---------+-- monitor (ends what has finished)
 browser <--stream-- sampler -----+-- one identity lock for the three

 terminal --WebSocket--> handler --registry of views, sizing lock--> tmux client

 caller <-stdin/stdout-> muxdeckctl exec <-Unix socket-> runner <-pipes-> provider
```

The coordinator writes an intent to the journal, sends the request, and the
server opens the same file and performs the request under its write lock after
checking the owner and generation the request carries. The lease may pass to
another coordinator between any two steps, and either process may die.

The server is one asyncio loop. Handlers, the completion monitor and the sampler
of sessions share a FIFO lock, which keeps them from each other but not from
agents and users, who act in tmux directly; what they read of tmux may be out of
date when they use it. The views of a workspace share a lock of their own under
which sizes are given out, one tmux command at a time, while terminals come and
go outside it.

Several pages show one workspace. Each keeps the record its edits are based on
and sends it along; the store refuses a save whose base is not its record (409)
or whose session names are obsolete, and publishes what it accepts. A page
learns of records by three ways that overtake each other, and merges each with
the edits it has not saved yet.

### 1.3 Which behaviours are hard, and what correct means

| Component | Hard because | Correct means |
| --- | --- | --- |
| Journal | callers with old generations, a wall clock that can be set back, pages of a feed in any order, files no transaction covers, restores | epochs do not interleave in what the lease checks let into the log; a generation is one tenure and ends with a restore; operations only advance; the tables are what the log says, and the log what the source published |
| Receiver | crash between effect and receipt; takeover between two transactions; repeated and late requests | an effect happens once, in epoch order; evidence is true; the lock is given up |
| Workspace setup | two processes crash, answers are lost | nothing is sent twice, the journal records what happened |
| Stdio relay | two select loops, bounded queues in both directions, signals, dying processes | byte-exact streams, exact credit, no lost output before a status, no orphan, no hang |
| Linked tabs | no lock around the cell, late messages, tabs that pause | all tabs agree, show it, and never go back |
| Pages | compare-and-set with three sources of records, lost answers, a beacon on unload | nobody undoes another's edit, no obsolete name returns, pages settle |
| Coordinator | authority lies in two databases and two files, a call may end at any step, requests arrive late | no command leaves twice; the authority is never lost between its places; a takeover that is tried again ends |
| Workspace store | a file that may fail to be saved, a tree with groups and folds, undo in any order after other edits | what is shown is what a restart loads; an undo brings back what was taken and nothing else; a rename is a substitution; nothing is stranded |
| Launches, completion, attention | tmux changes between two awaits; tmux or the server fails after the effect | one session per request; a session ends when it was asked to and only then; a mark refers to what was seen; events reach every browser |
| Browser views | sizes are given out across awaits; a view is evicted while it attaches, or while its answer is out | one owner at a time, one in the end; an evicted view takes part in nothing; pages learn of it |
| Folds, registry | several sessions are ended one after the other while tmux, pages and the service itself change; tmux reuses ids and names | only what was confirmed ends, and only when it is saved; records are of the session they name; what ended can be brought back; no edit of a page is lost |
| Callbacks | two windows, messages that come while a hold is cleared | (planned, section 8) |

The hazards in `PROJECT.json` name the line where each of these bites and the
properties that would notice.

## 2. Conventions

One module models one component; `MC*` modules and `.cfg` files instantiate it
for TLC. An action is one atomic step of the code: a `BEGIN IMMEDIATE`
transaction, a task of a browser's event loop, the service of one descriptor by
a `select` loop. A call that raises and rolls back is no step, unless it leaves
something behind. Operators marked `\* Mutant:` are wrong versions of the
definition that follows them; `PROJECT.json` says which property each breaks.
They are not used by any specification.

Data is abstracted to what the properties tell apart: intents, receipts and
payloads are model values, a workspace is its set of tabs, a byte stream is the
numbers of its reads.

## 3. Modules

| Module | Models | Extends / uses |
| --- | --- | --- |
| `JournalRows` | the rows of `lease` and `operations` and the rules for changing one (`_assert_lease`, `acquire_lease`, `_transition`, `reconcile_operation`) | |
| `Journal` | every call of `JournalStore` that writes, with the audit log, the files of artifacts, and restores | `JournalRows` |
| `JournalProofs` | theorems about `Journal`: types, epochs, the course of operations, the tables and the audit log | `Journal`, `TLAPS` |
| `EffectOnce` | abstract: an effect happens at most once, in epoch order, and a verdict is true and final | |
| `FencedReceiver` | `execute` behind the middleware, several threads, crashes | `JournalRows`; implements `EffectOnce` |
| `EnsureWorkspace` | `ensure_project_workspace` composed with the receiver and the project's other commands | `FencedReceiver`; implements `EffectOnce` with the *journal's* state as verdict |
| `EnsureWorkspaceProofs` | theorems about `FencedReceiver` and `EnsureWorkspace`, both refinements among them | `EnsureWorkspace`, `TLAPS` |
| `Coordinator` | starting, resuming and taking over a project, its commands, and the Multica backend as the client sees it | `JournalRows`; implements `EffectOnce` for commands |
| `CoordinatorProofs` | theorems about `Coordinator`, its refinement among them | `Coordinator`, `TLAPS` |
| `StdioRelay` | `_relay` and `serve` with the socket and the provider | |
| `StdioRelayProofs` | theorem about `StdioRelay` | `StdioRelay`, `TLAPS` |
| `ForkSync` | linked browser tabs | |
| `PageSync` | one workspace, its record, the stream, and the pages that edit it | |
| `WorkspaceDoc` | the document of workspaces: normal form, what the loader accepts, families, groups, folds, renaming | |
| `WorkspaceUndo` | what forgetting captures and undoing restores | `WorkspaceDoc` |
| `WorkspaceStore` | the store's operations on the document, its file, its restarts, and the handlers around them | `WorkspaceUndo` |
| `WorkspaceProofs` | theorems about `PageSync`, `ForkSync` and `WorkspaceStore` | these three, `TLAPS` |
| `SessionServer` | launches, the completion monitor, the sampler with its subscribers, and browsers' requests, over one tmux | implements `EffectOnce` for launches |
| `SessionServerProofs` | theorems about `SessionServer`, the refinement by launches among them | `SessionServer`, `TLAPS` |
| `SessionRegistry` | the tables of the registry, each call an operator | |
| `FoldRecovery` | folds that are closed, deleted and recovered, over the registry, one workspace and tmux, with the other handlers that end sessions or bring them back | `SessionRegistry` |
| `FoldRecoveryProofs` | theorems about `FoldRecovery` and the tables of `SessionRegistry` | `FoldRecovery`, `TLAPS` |
| `WorkspaceViews` | terminals of pages, the registry of views, and who owns the size of a session | |
| `WorkspaceViewsProofs` | theorem about `WorkspaceViews` | `WorkspaceViews`, `TLAPS` |

### 3.1 Journal

`lease`, `operations`, `mappings`, `inboxAck` and `events` are the tables;
`clock` is `time.time()`, which may be set back. Callers are not modelled: any
owner may call with any generation that was ever issued, so a coordinator that
crashed, was replaced or wakes up late is a caller with an old generation. Each
action appends its audit event in the same step, as `_event` does inside the
transaction. `AppendEvent` is the one call that looks at no lease
(`store.py:566`): coordinators and workers give it the epoch they remember, which
may be an older one, so any issued epoch and none may be noted at any time. The
properties about epochs are about the calls that `_assert_lease` lets through
(`Fenced`). Columns nobody reads back (hashes, times of the rows, redaction)
are left out.

`cursor` is how far a source's events were taken over. The source is external:
`Published` are the cursors of its events about the project, with holes, since
others' events have cursors too. `Attested` is its word that a page is complete
(`page_complete`), `Ascending` and the guard of `IngestPage` are what
`ingest_events` checks itself. A page may be asked for again, overtake another
or be sent in any order: `previous` and `page` are arbitrary. What is refused or
already recorded is no step.

`files` are the artifacts on disk, written before the transaction that records
them commits: `LeaveOrphan` is a write whose transaction does not. `Restore` is
a journal that goes on from a backup elsewhere: recorded artifacts come along,
orphans do not, and the lease of the backup is withdrawn. From then on the model
follows the restored journal, where a holder of the old lease may still call.
`NoteRestore`, its last step, may be late or never come. Nothing else of a
restore that stops is seen, since the directory is published by one rename.
`RestoreEndsTenures` is about the log behind this point; `FeedIsExact` and
`ArtifactsAreFixed` are parts of `TablesMatchLog`.

### 3.2 FencedReceiver and EffectOnce

A thread goes `idle -> admitted -> executing -> returned -> bound -> idle`. The
first transaction (`Admit`) is one step; the second is split, because the effect
and the binding file are not part of it: `TakeFence` takes the write lock and
checks the lease again, `Perform` is the effect, `Bind` the file, `Commit` the
receipt. `RollBack` may come at any of these, `Crash` too. `performed` is a
history variable: what really happened outside. Requests of any issued epoch
may arrive at any time and any number of times.

`ImplementsEffectOnce` maps `performed` to the abstract effects and a stored
receipt to the verdict; a stored 5xx answer leaves the verdict open, since the
handler failed without saying whether the effect happened.

### 3.3 EnsureWorkspace

One call at a time (the project's file lock), each transaction of it one step;
`call.seen` is the operation's state as the call read it, so the model can act on
it after it changed. `sent` is the set of requests that left the coordinator: they
can be received at any later time and repeatedly. `Send` and the answer are
separate steps; the answer can be lost (`GiveUp`). The receiver is
`FencedReceiver`, which serves the create from `sent` only and every other command
of the project, of any issued epoch, whenever it comes. `config` is the generation
in `worker.json`, written after the last lease check.

### 3.4 StdioRelay

`ctl` and `runner` hold the locals of the two loops, `toRunner` and `toCtl` the
frames in the socket, `provider` the provider with its pipes, and what the
caller got. Each action services one descriptor; guards are the conditions under
which the loops register it (window, queue limits). Signals, grace periods
(`budget`), a broken pipe that drops input but returns its credit, a descendant
that keeps the output pipe open, and the death of either side are modelled.
Standard error is a second pipe that works like standard output and is left out,
like the rendezvous before the launch.

### 3.5 ForkSync

A tab keeps its peer's snapshot, what its screen shows, and what its running
task has still to do (`write`, `post`): with `"race"` in `scenario.may` other
tabs run between its reading of the cell and its writing. `channel` keeps the order of
one sender's messages to one receiver, as `BroadcastChannel` does; messages of
different senders overtake each other. `scenario` chooses which of closing,
pausing, refreshing, expiry and racing a behaviour includes.

### 3.6 PageSync

`page[p]` holds the refs of `App.tsx` that take part: `local`, `canon` (the
record the page knows), `last` (last saved activity), `staged`, `queued`,
`sent`, `failed`. `Apply` is `applyWorkspaceSnapshot`: whether a record is
ignored, whether it is recognised as the page's own save, the merge
(`rebaseTabs`), and the save that follows. `request`, `reply`, `late`, `stream`
and `fetch` are the network: answers can be lost, the stream skips to its latest
snapshot, saves of a page that has gone can arrive later. `HandleSave` is
`record_activity` with its two checks. `touched` and `due` are history
variables for the properties. `Init` is a set of pages whose first save has been
answered; `Reload` covers the fresh one.

### 3.7 Coordinator

One call at a time holds the project's file lock; `call` is where it is. A call
ends, dies (`Die`) or raises (`Raise`), and leaves behind what it has written:
`lease` and `operations` (the journal), `credentials` (`coordinator.json`),
`pending` (`takeover.json`) and `saved` (the files with lease secrets). `sent`
holds the requests that left for the backend: each can arrive at any later time
(`Arrive`), or have its answer lost (`NoAnswer`). `backend` is Multica as
`multica.py` uses it: a lease with a generation, what it granted to which
operation, and the commands it executed; it refuses a request of an older lease
and repeats its answer to a known operation. `_effect` is the chain
`PrepareEffect`, `Dispatch`, `Send`, `Answer`/`Refused`/`Classify`, `Record`;
`_lease_effect` shares it and adds `Save` and `Confirm`; `_resume` walks the
takeover through `Release`, `ReleaseOld`, `Acquire`, `PrepareLease`,
`WriteCredentials`, `Lifecycle` and `Unlink`.

### 3.8 WorkspaceDoc, WorkspaceUndo, WorkspaceStore

`WorkspaceDoc` is the pure part of `workspaces.py` and `workspace_folds.py`: a
workspace is a record of tabs, parents, groups, panes, folds, separators, pins
and callbacks; `Loadable` is what the loader accepts, and each operator is one
normalisation the code applies after a change (families kept together, folds
dropped, groups inherited). `WorkspaceUndo` is `capture_forget_session`,
`forget_session` and `restore_forgotten_session` with its anchors. In
`WorkspaceStore` `memory` is the document the store shows, `disk` its file,
`fenced` the refusal to write after a failed rename, `undo` the pending undos of
`app.py`, `rows` the sessions the registry lists, `running` those of tmux. Every
request runs between two awaits, so one request is one action; whether the
directory could be synced, the registry written or the rename saved is a choice
in it. A session may be renamed to any name that is not running, also to one that
ended and is still listed or pinned. `before`, `lapsed` and `tidy` are history
variables.

### 3.9 SessionServer

`tmux` is what runs under each name: an identity, what its agent does, whether
it is armed. `lock` is the identity lock; the monitor, the samplers and one
handler go from one await to the next under it, and agents, users and other
programs change `tmux` in between. `launching` is a launch with its receipt in
`receipts`; `launched` records what tmux really created. `queue` is the
subscribers' queue of one. `tasks` are the sampling tasks and `sampler` is the
one the broker counts on: the last subscriber who leaves forgets it
(`Unsubscribe`) and cancels it afterwards (`Cancelled`), while a new subscriber
may start the next. A task that is cancelled may still list the sessions, write
rows and reach the comparison at `app.py:612`: `asyncio.wait_for` returns a
result that is there already and swallows the cancellation (Python 3.11,
`tmux.py:567`). Any one command of tmux may fail or answer too late,
and the server may restart, which forgets all but the receipts, the rows and
tmux.

### 3.10 WorkspaceViews

`conn` is one WebSocket of a terminal from its request to its last cleanup:
where its handler is (`at`), where its release by an eviction is (`rel`), how
its socket stands (`open`), the messages it has not read (`inbox`), its tmux
client and whether that ignores its size, as tmux has it and as the registry
believes. `attachments` is a sequence because `sync_sizes` breaks ties by its
order. `sizing` is the lock with the changes that are left to make: the list is
computed when the lock is taken, and each change is checked again, looked up and
told as three steps, between which anything may attach, leave or be evicted.
`page` and `term` are the browser: whether a page is paused, its rejoin, its
poll, and the socket of each terminal. A page that is paused has no terminals.
In the code a poll asked while a rejoin is under way may also be answered
between the end of `resume` and the cleanup of the effect that React runs
afterwards (`useWorkspaceViews.ts:59`), and pauses the page again; the model
takes the two as one step.

### 3.11 SessionRegistry and FoldRecovery

A session is a name and an identity `<<id, server>>`: tmux gives ids from the
start again in each life of its server, so that an id alone may be another
session's. `SessionRegistry` has an operator for each transaction of
`session_registry.py` on its rows; a row that was written at a creation has
server 0 until the session is seen. In `FoldRecovery` `job` is the handler or
sampler that holds the identity lock, with what it read (`live`, `fold`,
`confirmed`) and the sessions it has still to end; `tmux` and `ws` may change
between any two of its awaits. `dialog` is the page's request, which stays after
a failure and is sent again; `recreate` is a handler that read its record before
it waits for the lock. `ended`, `own` and `revived` are history
variables; `revived` are the sessions whose pane has started again since the
handler looked at them last. Ending a session
is three steps (the last look, the command, the mark in the history), because
each may fail alone.

A handler's first list of the sessions is part of its first step: what it has
read by then is protected by the lock, or compared again before it is used.

## 4. Runs

All bounds are CONSTANTS of the `.cfg` files.

| Run | Question | Instance | Distinct states |
| --- | --- | --- | --- |
| `journal` | do epochs stay apart and tables agree with the log, whoever calls in whatever order? | 2 owners, 1 operation, 1 key, 1 artifact, 2 values, a source with cursors 1 and 3, clock 0..1, 5 events of which 2 behind no lease check, 1 restore | 3.6 million |
| `workspace` | coordinator and receiver together, both crashing: does an effect happen once, in epoch order, with true evidence, and is the lock given up? | 2 owners, the create and another operation, 2 intents, 2 threads, 2 generations | 1.4 million |
| `coordinator` | is authority kept through takeovers, does no command leave twice, do takeovers end? | 2 owners, 1 command, 2 generations, clock 0..1, 3 upsets | 251 thousand |
| `stdio` | are both streams exact, and does everything end? | window, socket and pipe of one unit, queues of two, 2 units of input and output together | 676 thousand |
| `fork_sync` | do tabs agree, show it, keep the cell and never go back? | 3 tabs that come and go, one of them pausing; or 2 tabs that race for the cell with expiry and focus; 2 selections, 2 sequence numbers | 358 thousand |
| `page_sync` | do pages keep each other's edits, refuse old names, move forward and settle? | 2 pages, 3 names, 2 edits, 1 upset | 170 thousand |
| `page_sync_closed` | does a closed tab stay closed? (section 5) | as above | |
| `store` | does the file load as shown, is an undo exact, are families together, is nothing stranded? | every tree and grouping of three tabs with forgets and undos in any order; three rich documents with one other request in between | 365 thousand |
| `store_reloads` | does the file always load? (section 5) | as above | |
| `folds` | does only what was confirmed end, is it saved, are records true, can it be brought back, are edits kept? | 2 names, 3 requests, 2 troubles of which 1 fault | 6.3 million |
| `sessions` | one session per launch, ends as asked, marks and events | 1 name, 2 sessions, 2 launch requests, 2 browsers and 2 sampling tasks in four scenarios, 1 work episode each, 1 fault | 236 thousand |
| `views` | who owns the size, is an evicted view out, do pages follow? | 2 pages with one terminal each on one session, two connections of each may overlap; 2 acts of users, or 1 and a fault | 687 thousand |

Why these bounds are enough to be interesting:

- `journal`: five events are two acquisitions, a prepared operation and two moves,
  or a release and a takeover between them; the clock has a time before and at an
  expiry (`TTL = 1`) and may go back. Two events behind no lease check are two
  pages or a page and a gap, in the right order or not, or an artifact and a late
  note of an older epoch; a restore may come anywhere between them. The hole
  between cursors 1 and 3 is what tells a complete page from contiguous cursors.
- `workspace`: two threads with two operations can meet in every stage, two
  generations are a takeover between any two steps, and a request can be
  repeated before and after it.
- `coordinator`: an *upset* is a call that dies, an answer that is lost or a
  move of the clock. Three let a takeover die in any step, be resumed, die again
  and lose an answer; two generations are a start and a takeover.
- `stdio`: with capacities of one unit and queues of two, every queue is full and
  empty within two units, so that back-pressure, credit and partial writes all
  occur. The same run with three units (2.2 million states, three minutes) passes
  as well.
- `fork_sync`: three tabs are the fewest where a message between two of them is
  overtaken by a third's; two sequence numbers give a tie and a winner. The two
  `Scenarios` are apart because with both at once `TabsAgree` is false: see
  `Gentle` in section 6.
- `page_sync`: an *upset* is a lost answer, a skipped snapshot, a refresh, a
  failed fetch, a reload or a rename. One upset and two edits is the fewest
  that meets each conflict path; without the bound `PagesSettle` is false, since
  an environment that delays the stream for ever can keep two pages answering
  each other: the property is claimed for finitely many upsets.
- `store`: three tabs have every shape of a tree that two forgets can take apart
  (a chain, siblings, groups across and inside), and either order of the undos.
  `FilesFound` starts them with all edits spent; the three other documents have
  folds, panes, pins, marks, callbacks and a second workspace, in each of them a
  session lives and others that ended are listed, so that renames meet both, and
  `MaxStoreEdits = 1` request comes between forgets and undos.
- `folds`: three requests close a fold, recover a session and close it again, or
  retry twice; a *trouble* is something another page or a user of tmux does (an
  edit, a pin, a new session under an old name, a pane whose command ends or is
  started again, a restart of tmux), or a fault: a write, a command or an answer
  that is lost, or a restart of the service. Two of them are a restart of tmux and
  a session that gets an old id, a pane that dies and starts again, or a fault and
  what is done about it. One fold of two single tabs is enough for a closing that
  succeeds in part.
- `sessions`: `Uses` names the four scenarios. Launches are on their own, since
  they meet the rest only in tmux; a browser that asks for everything; a browser
  that leaves and comes back, with two samplers, so that the one that was
  cancelled is late, and sessions that die and are replaced; and two browsers with
  two samplers, so that one leaves while the other listens. Two identities are a
  session and the one that takes its name.
- `views`: two acts are an eviction and a rejoin, an eviction and a turn to the
  other page, or two turns; a fault is a connection lost, a client that exits, a
  tmux command that fails, or a restart.

### 4.1 Fairness

Safety is checked of `Spec` (`StoreSpec` of `WorkspaceStore`) or under fairness
that does not restrict it.

- `EnsureWorkspace!FairSpecAll`: a fenced thread runs to its end. The code bounds
  its receiver commands and holds the fence only while one runs
  (`fencing.py:112`). Nothing is assumed of arrivals, crashes or the clock.
- `Coordinator!FairSpec`: a call goes on, a request that was sent arrives, and a
  takeover that was begun is tried again: strongly fair, since other calls hold
  the lock in between and each attempt may die, but only `MaxUpsets` times.
- `StdioRelay!FairSpec`: both loops serve a descriptor that stays ready, grace
  periods end, and the caller reads its output. Nothing is assumed of the
  caller's input, of signals, or of the provider.
- `ForkSync!ForkFairSpec`: tasks end and messages are delivered.
- `PageSync!FairSpec`: timers fire, requests are handled and answered, the
  stream delivers. Nothing is assumed of users and of faults.
- `SessionServer!FairSpec`: handlers, monitor and the broker's own sampler go on,
  time passes, streams deliver. The monitor's and the sampler's turn at the lock
  is strongly fair, because `asyncio.Lock` serves its waiters in their order.
  Nothing is assumed of a sampler that was cancelled but that it gives the lock
  back once it has it, nor of browsers that come and go.
- `WorkspaceViews!FairSpec`: the server's tasks go on and tmux answers, timers
  of pages fire and requests are answered. Nothing is assumed of users and of
  faults.

Deadlock is checked for the journal, the workspace setup and the folds. It is not
for the others, which stop when everybody has left, nobody asks for anything more,
or a bound is reached.

### 4.2 What the properties say together

`EpochsAreTenures`, about what the lease checks let through, is `EpochsInOrder`
(no older epoch after a newer one), `OneTenure` (a generation has one actor and
ends with its release) and `RestoreEndsTenures` (no epoch from before a restore
writes after it);
`OneRealWorkspace` is `SentAtMostOnce` and `MappingIsReal`; `AuthorityIsKept` is
`AuthorityIsTraceable` and `SecretsAreKept`, and `TakeoverIsSafe` is this with
`CommandsLeaveOnce`; `TablesMatchLog` is `RowsMatchLog`,
`AckInOrder`, `FeedIsExact` and `ArtifactsAreFixed`;
`RelayIsExact` is `CreditIsConserved` and `StreamsAreExact`, which is
`OutputIsExact`, `InputIsExact` and `ReturnIsComplete`; `OneOwner` is
`OneContributor` and `EvictedStaysOut`; `RecordsAreTrue` is `SnapshotsAreTrue`,
`GoneIsGone` and `RecoveriesAreKnown`; `EndsTogether` is
`ExitEndsExec` and `NoOrphan`; `TabsAgree` is `ShownIsShared` (with `Converged`)
and `CacheKeepsUp`; `UndoIsFaithful` is `UndoIsExact` and `UndoKeepsEdits`;
`EndsAsAsked` is `EndsOnRequest` and `EndsWhenFinished`; `EventsReachBrowsers` is
`EventsArrive` (an event is shown to every browser that stays) and `EventsStay`
(nothing older is shown afterwards). `ReloadsAsShown` is that the file is what is
shown and that it loads, unless a rename meets a `Clash` (section 5).
`OnlyConfirmedEnd` says of a deletion that a session that was confirmed dead and
runs again stops it, unless it started after the handler last looked at it: all
are looked at before the first is ended, and each again before its own turn, but
nothing is looked at between that and tmux's command.

Four properties are refinements of `EffectOnce`: `ImplementsEffectOnce` of the
receiver, `JournalTellsTheTruth` of the workspace setup with the journal's state
as verdict, `CommandsAreEffects` of the coordinator and `LaunchesAreEffects` of
the session server with its receipts.

## 5. Findings

A run that TLC ends with a counterexample; `PROJECT.json` quotes the lines.

1. **A closed tab comes back** (`page_sync_closed`, `App.tsx:2437`). The stream
   skips to a record later than the page's own save; the page does not recognise
   the save inside it, merges its edit a second time, and reopens what another
   page closed.

2. **A rename writes a file that the loader refuses** (`store_reloads`,
   `workspaces.py:3483`). A session is renamed to the name of one that has ended
   and is still listed, as `tests/test_workspaces.py:2037` does. A workspace that
   has the renamed session in its callback queue only loses the tab of the new
   name, which stays the active one or in a pane; one that does not have it at
   all keeps the new name as an inherited pin, while the rename takes that name
   out of the global pins. The server goes on until it is restarted; then the
   loader refuses the file (`workspaces.py:3940`, `:3946`) and every request for a
   workspace is answered 503 until someone repairs it. `ReloadsAsShown` names
   these renames (`Clash`) and says that nothing else leads to such a file.

Observations that no run rests on:

- `append_event` is not fenced (`store.py:566`). Coordinators give it their own
  epoch (`project.py:679`, `:745`, `:837`, `:883`, `:1366`, `:1513`, `:1740`, `:2000`,
  `:2153`) and workers that of the coordinator that started them
  (`worker.py:130`), so that a note of an epoch that is over may stand behind the
  next one's events, behind its own release, or behind a restore. No row changes
  with it.
- A deletion looks whether a pane is dead and then ends the session
  (`fold_recovery.py:201-205`): one that is started again in between is ended
  too, where `docs/WORKSPACE_FOLDS.md:16` says that a running one is refused.
- A deletion that was confirmed with running sessions is answered `deleted: true`
  and ends none of them if another page has removed the fold and its tabs
  (`fold_recovery.py:117-121`).
- A member that was renamed in tmux before it was ended counts as closed
  (`fold_recovery.py:193`) although it lives under its new name.
- A creation that was never seen leaves a history row of its id without a
  server. When tmux starts again and a recovery gets that id, the row and its
  old origin are taken for the recovered session's (`session_registry.py:488`),
  and the same request made again is refused as if a stranger had the name.
  `RecoveriesAreKnown` leaves this case out.
- `recreate_session` reads its record before it waits for the lock
  (`app.py:2459`). Another session may be found under that record while it
  waits; the record then follows the recreated name, and the other session is in
  the history only.
- `runtime.py:819` looks for `workspace` at the top of a receipt that
  `fencing.py:242` stores as `{"status", "body"}`: a create whose answer was
  lost raises `ResourceConflict` in every later call and is never mapped, where
  `docs/muxpilot/ACCEPTANCE.md:83` says that it is recovered.
  `EnsureWorkspace!ReadEvidence` does what the code does.
- After a crash between preparing and dispatching an intent, no later epoch may
  dispatch it (`store.py:906`), although the request was never sent.
- For the same reason a takeover whose lease intent stays prepared by an epoch
  that is over blocks every later takeover while `takeover.json` is there; and a
  clock that is set back between the two looks at the lease makes the id of a
  takeover one that is taken, so that it ends in `ConflictError` for ever.
  `TakeoversEnd` makes exactly these two exceptions (`Stranded`, `Taken`).
- A controller of `exec` that still has input to send when the runner has closed
  raises on the send (`stdio_bridge.py:190`) before it reads the status that
  waits in its receive buffer.
- A tab that rejoined skips its next publication (`useForkSync.ts:62`): if the
  group still shows what the tab shows, the flag is still set when the user
  selects, and that selection is not shared. `ShownIsShared` leaves such tabs
  out. Without `localStorage`, or after its record expired, a tab that comes
  back starts at sequence one with the sender it had: two selections then have
  the same order, and tabs can stay apart.
- When two forgotten tabs are undone and both had been active, the last one
  undone is not made active again; `UndoIsExact` leaves the active tab out.

## 6. What is proved

Every theorem holds for every value of the constants that the assumptions below
allow: any sets of owners, operations, threads, pages, tabs, names, folds or
terminals, and every bound. `Spec` is the module's own: `SpecAll` in
`EnsureWorkspace`, `ForkSpec` in `ForkSync`, `StoreSpec` in `WorkspaceStore`.

| Module | Theorem | States |
| --- | --- | --- |
| `JournalProofs` | `Typing` | `Spec => []TypeOK` |
| | `Fencing` | `Spec => []EpochsAreTenures` |
| | `Advancing` | `Spec => OperationsOnlyAdvance` |
| | `Ownership` | `Spec => []MovedByItsEpoch` |
| | `Replay` | `Spec => []TablesMatchLog` |
| `EnsureWorkspaceProofs` | `Fencing` | `Spec => []FenceHoldsOffTakeover` |
| | `Evidence` | `Spec => []EvidenceIsTrue` |
| | `Refinement` | `Spec => ImplementsEffectOnce` |
| | `ReceiverKept` | `SpecAll => Spec` (the receiver's) |
| | `OneWorkspace` | `SpecAll => []OneRealWorkspace` |
| | `ConfigForward` | `SpecAll => ConfigNeverGoesBack` |
| | `JournalRefinement` | `SpecAll => JournalTellsTheTruth` |
| `CoordinatorProofs` | `Takeovers` | `Spec => []TakeoverIsSafe` |
| | `Refinement` | `Spec => CommandsAreEffects` |
| `WorkspaceProofs` | `Typing` | `Spec => []TypeOK` |
| | `Forward` | `Spec => RecordsMoveForward` |
| | `NamesInUse` | `Spec => []NoObsoleteName` |
| | `Touching` | `Spec => OnlyTouchedTabsChange` |
| | `LinkedTyping` | `ForkSpec => [](LinkedTypeOK /\ LinkedShow)` |
| | `NeverGoesBack` | `ForkSpec => NeverBack` |
| | `Convergence` | with `Gentle`, `ForkSpec => []ShownIsShared` |
| | `Agreement` | with `Gentle` and `StorageWorks`, `ForkSpec => []TabsAgree` |
| | `NotStranded` | `StoreSpec => []NeverStranded` |
| | `FileIsMemory` | `StoreSpec => [](disk = memory)` |
| `SessionServerProofs` | `Reading` | `Spec => []ReadsWhatWasShown` |
| | `Ending` | `Spec => EndsOnRequest`, the safety half of `EndsAsAsked` |
| | `Launching` | `Spec => LaunchesAreEffects` |
| | `Staying` | `Spec => EventsStay`, the safety half of `EventsReachBrowsers` |
| `FoldRecoveryProofs` | `Records` | `Spec => []RecordsAreTrue` |
| | `Recoverable` | `Spec => []RecoveryStaysEnabled` |
| | `Confirmed` | `Spec => OnlyConfirmedEnd` |
| | `Kept` | `Spec => FoldsAreKept` |
| `WorkspaceViewsProofs` | `Owners` | `Spec => []OneOwner` |
| `StdioRelayProofs` | `Relay` | `Spec => []RelayIsExact` |

From which assumptions, all of them named in the modules and evaluated by TLC in
every run: `None` is none of the values it stands beside (an owner, an
operation, an intent, an outcome, a key, a name, a fold, a request, a
connection, a holder of a lock), nor is `Conflict` a snapshot
(`AnswersAssumption`); cursors and the time to live are positive and bounds are
natural numbers; of the workspace setup, that the id of the create request is
one of the operations (`CreateAssumption`) and that the set of owners is finite;
of the coordinator, that the ids of operations differ by their kind
(`IdsAssumption`, they are derived with `uuid5` from different names); of pages,
that saved tabs are of sessions that exist (`TabsAssumption`); of linked tabs,
that there are finitely many, numbered in the order of their senders
(`LinkedTabsAssumption`), and that `NoSnapshot` is neither a snapshot nor a
selection (`NoSnapshotAssumption`); of folds, that there are finitely many names
(`NamesAssumption`); of `SessionServer`, that an
instance runs some of its parts with some of its browsers and tasks
(`UsesAssumption`) and that a task is neither the handler nor the monitor
(`LockAssumption`); of the relay, that its
capacities are positive and that no status of a process is `None`
(`StatusAssumption`). `NotStranded` and `FileIsMemory` use none.

`Convergence` and `Agreement` have a hypothesis besides, `Gentle`: in every
scenario either nobody pauses or closes, or `localStorage` works, does not expire
and is not raced for. Both scenarios of the run `fork_sync` are of this kind, so
what the theorems add is any number of tabs, selections and publications.
Without it `TabsAgree` is false: with three tabs and three sequence numbers TLC
finds it violated in each of the mixed cases (somebody pauses, or closes, while
tasks race for the cell, or while it expires). Section 5 has one of them, a tab
that comes back and begins again at sequence one.

### 6.1 The journal and the receiver

The argument for `Fencing`. `EpochsInOrder` is not inductive: it says nothing of
the lease row, which decides who may append next. `LogBehindLease` relates the
two: no event is ahead of the row's generation, those of its generation have its
owner as actor, and if one of them is a release then the row is revoked.
`RestoreInv` says that the generation a restore withdrew is below the row's, or
is the row's and revoked. `EpochInv` is these with the three properties. Lemma
`StepKinds` shows that every action treats the log in one of five ways
(`LogStep`): an acquirer raises the generation and records under it; a holder
records under the row's own generation, which is not revoked, and revokes it if
it records a release; whoever calls without a lease check (a source, a writer of
artifacts, `append_event` with any epoch) records any number of events of the
kinds that no check is for; a restore withdraws the lease; or log and row
stay. `EpochStep` proves that each way preserves `EpochInv`; `LogGrows` and
`LogGrowsByPage` say what `Append` and a page do to the positions.

The argument for `Advancing`: `MovesAdvance` shows that both transition tables
only raise the rank of a state and keep intent and epoch, `StepAdvances` that
every action changes an operation by these tables or by preparing an absent
one.

The argument for `Replay`. A row says what the *last* event about it says, so
each table has an invariant that names that event. Lemma `StepTopics` shows that
a step has one topic: it changes one table and records events of that table's
kinds only. For the others `Silence` shows that a log that grows by events of
other kinds keeps what was said last, so each of `OperationsStep`,
`MappingsStep`, `DecisionsStep`, `ArtifactsStep`, `LeaseRowStep` and `FeedStep`
has only its own topic to treat. Two of them need more than the property:
`LeaseRowStep` uses `EpochInv`, because a lease can be withdrawn without an
event: a restore does, and the generation it withdrew is never used again;
`FeedLogged` adds that whatever was
recorded of a source, gaps included, lies behind the cursor, and `IngestedPages`
that a page the store accepts is ascending and begins behind it too.

The argument for `Ownership`. That the log has a preparation before each move
does not follow from the log alone: `PreparedIsLogged` says that the epoch in an
operation's row has its preparation in the log, and the guard of a move compares
the caller with the row.

The argument for the receiver. None of its properties is inductive: a thread
acts on what it read before its transaction. `IInv` adds what ties threads to
tables: an intent a thread works on is recorded as uncertain under its request
(`IntentIsRecorded`); two busy threads never work on one operation
(`OneThreadEach`), which is why a second thread cannot repeat an effect; what a
thread is about to answer is true of the effects (`AnswerIsTrue`); an operation
without a row has no effect (`AbsentIsEmpty`); and epochs in rows were issued
(`EpochsIssued`). One lemma per action shows that it is kept (`AdmitStep`,
`TakeFenceStep`, `PerformStep`, `BindStep`, `CommitStep`; `StoreStep` and
`ThreadsEnd` for the rest). `Fencing` and `Evidence` follow. For `Refinement`,
`MapsPerform` shows that the effect maps to the abstract effect, because the
fence makes its epoch the newest and the missing row makes it the first;
`MapsCommit` that a stored receipt maps to a verdict that is true; and
`MapsStutter` that every other step is a stutter.

### 6.2 The workspace setup and the coordinator

`EnsureWorkspace` is the receiver with a coordinator of its own. `ReceiverKept`
shows that the composed system is one of those `FencedReceiver` describes, so all
that is proved of the receiver holds there too and the rest is about the call.
What the properties lack to be inductive is what a call relies on between two
transactions: no request leaves before the row that announces it is in the
journal as dispatched (`RowPrecedesRequest`), so the second caller finds it and
does not send; a row is confirmed only after the receiver stored its success
(`ConfirmedIsStored`); and `worker.json` is not newer than the call in progress
(`ConfigIsOlder`), because calls do not overlap. `OnceStep` maps each step to one
of `EffectOnce` with the *journal's* row as verdict: the effect is the receiver's
and the verdict comes a process later. A by-product: the receipt the receiver
stores has no key `workspace`, so the branch of `_receiver_receipt` that recovers
a lost answer from it is never taken, as `ReadEvidence` records.

A takeover writes four stores that no transaction covers: the journal, the
backend's leases, `credentials` and `takeover.json`. `IInv` of the coordinator
says what is true of them between any two writes. `Subject` says what the call
at hand is about; `LeaseInHand` which lease it has been granted and has saved;
`Grants` and `Generations` that every lease the backend granted, or can still
grant for a request on its way, is accounted for by credentials or by
`takeover.json`; `EpochOfCall` that a caller with the newest generation is the
lease's owner. `Dispatched`, `VerdictsAreTrue`, `RegisteredFirst` and
`EffectsInOrder` are the same for commands; the last counts the leases to show
that effects follow the backend's generations.

### 6.3 Pages

`Flows` says in five ways how records and a page's own saves travel in a step:
what is known of the store anywhere was known before or is what the store just
made (`Records`), and a page's own (`Own`) are what it kept or what it shows.
`StepFlows` proves it of every action. The invariants then follow from `Flows`
alone: nothing is ahead of the store in either number (`NothingAhead`), from which
`Forward`; whatever is of the store's revision has only names of sessions
(`NamesKnown`), from which `NamesInUse`. For `Touching`, a page exchanges one save
at a time with the store (`Exchange`), keeps no save that is newer than its record
(`SlotsAreOld`), and its own sets of tabs differ from the record of the same time
only where its user touched them (`TouchedOnly`); that is what a three-way merge
has to keep, and why a save that the store accepts changes nothing else.

Of linked tabs, the lemma `StepKinds` shows that a tab publishes a snapshot,
connects, hears of one or keeps its own (`Runs`, or `Takes` for a message),
finishes a task, or leaves; or the cell expires. `NeverGoesBack` needs no more
than that and the types (`ForwardStep`). For agreement, `Present` are the
snapshots there are anywhere: in tabs, in the cell and on their way. Sequence and
sender say which one it is (`Unique`), so that there is one newest among them,
because strict inclusion of finite sets is well-founded. It reaches every
linked tab for one of two reasons, and each has its inductive invariant.

- Tasks follow one another and the cell stays (`OrderlyInv`). One tab at most is
  in a task (`OneTask`); what it is about to write, or else the cell, is the
  newest snapshot (`TopIsNewest`), and every linked tab has it or will hear of it
  (`TopSpreads`). Whoever comes finds it in the cell, and whoever leaves takes
  nothing away that the cell lacks.
- Nobody leaves, but tasks race and the cell may expire or be of no use
  (`StayingInv`). Who made a snapshot is there and has nothing older
  (`MakerKnown`); it tells every other tab of the one it made, or is asked for it,
  or the other tab has something as new (`AllInformed`). While the cell is
  behind, a tab is about to restore it, or will be because it is behind too
  (`CellFollows`).

When all is quiet, nothing is on its way, and either invariant leaves one
snapshot.

### 6.4 Sessions and folds

`Reading` needs that what a browser asks to read was told: a snapshot has one
count for an identity wherever it waits (`SnapshotsAgree`), and both what is
shown and what a handler has been asked are at most that (`ShownIsTold`,
`AskedIsTold`). `Ending` rests on the lock: while the monitor has it, a session
that is still the one it listed is armed as it was listed (`ListIsCurrent`),
because only holders of the lock (`OneHolder`) write the option, and an identity
is never given twice (`IdentitiesDiffer`). `Launching` maps the step that creates
the session to the effect and a receipt to a verdict; the launch under way is the
one that is pending (`LaunchInv`). `Staying` needs an order of the snapshots
there are (`InOrder`): what a browser was shown of a session is no newer than what
was published last, which is what waits in the queues, that is no newer than what
the broker's sampler has built since, and nothing is newer than the rows, which
only grow. A task the broker does not count on any
more may have built anything older; the comparison at `app.py:612` is what keeps
it out.

Of folds, neither `RecordsAreTrue` nor `RecoveryStaysEnabled` is inductive: a
handler acts on sessions it listed several steps ago, and the registry matches
them with rows by name and identity. The proof has three layers. The first is
about the tables of `SessionRegistry`: a reconciliation folds an inventory into
them row by row, in an order that does not matter, and `TakingAll` proves by
induction over that order that complete rows never change whom they are of
(`Grows`), are only ever revived (`OnlyRevived`), and stay one per session
(`OneRowEach`). The second is about tmux: an identity that was given is never
given again (`Issued`, `WorldForward`), so what is dead stays dead, and an
inventory that is acted on late shows nothing that was ended since and everything
that lives (`Fresher`). The third is one conjunct per handler (`FoldingOk`,
`TerminateOk`, `MakingOk`, `SampleOk`): above all that the sessions that are being
ended are in the fold that was saved, unless somebody has changed it since, which
the next comparison notices (`Saved`). `Confirmed` needs one conjunct more
(`Looked`): of the sessions a handler has still to end, one that was confirmed
dead runs only if it has started since the handler looked at it. Tmux keeps that
because it gives no identity twice and a rename keeps what it renames
(`LookedInTmux`), the handler because it looks before each turn and the sessions
it listed differ in their identities (`LookedByHandler`).

Of the store, `NotStranded` needs beside the property that the undos are a list
(`UndoIsList`), so that to add one and to take one away loses no other. To forget
moves a session from the registry to that list in one step; to undo it moves it
back, or leaves the snapshot where it is if the registry cannot be written; when
its time runs out or the server restarts it has lapsed. No other request touches
either (`EditAside`). `FileIsMemory` is the half of `ReloadsAsShown` that every
write keeps, whichever step of it fails (`Follows`).

### 6.5 Views

`OneOwner` says nothing of the changes that are still to be made when
`sync_sizes` waits for tmux, so it is not inductive. `Stays` names who will count
once they are made: whoever counts and is not to be released, and whoever is to be
enabled. `OneStays` says that this is one view per session, `Ordered` that all
releases come first; so while a release is pending the clients that count are
those of before, and when the first is enabled none but those that stay are left
(`Telling`). `Calm` is the other half: what happens outside the lock (attaching,
focusing, leaving, being evicted, exiting) never makes a client count, because a
client attaches ignoring its size, and what is attached is served until it is
detached (`Placed`). `ChangesAre` shows that the changes listed are `Ordered` and
leave one, and for that uses that the registry believes of each client what tmux
was told (`Typed`).

### 6.6 The relay

`RelayIsExact` is inductive in what it says of bytes and credit, not in what it
says of the ends. `EndOfInput` adds that behind an `E` frame there is no input
while anybody could miss it, so a runner that has seen it may close the
provider's stdin. `OwedIsRead` accounts for what the provider owes: once the
grace period is over, the budget covers what is still in the pipe, so cutting a
descendant off cuts off nothing that is owed. `StatusIsLast` says that no status
is on its way before it is reported, none precedes output in a queue, and all of
them are the provider's; with it a controller that has the status has all the
output. `WithinWindow` bounds what the runner can still receive when a status has
stopped the controller's accounting, because then what it had queued is gone.
The proof treats the parts by what they look at (`Untouched`) and the credit by
seven accounts (`Accounts`) between which each step moves one amount. What a queue
contains (`Outputs`, `Inputs`, `Acknowledged`) is a recursive function of the
queue; the lemmas about appending to it and taking its head rest on one about
passes over a list (`FoldTail`).

### 6.7 How far the proofs go

The library's induction theorems take an operator as parameter, which the
installed provers cannot instantiate. `SetInduction` (in `FoldRecoveryProofs`,
`WorkspaceViewsProofs` and `StdioRelayProofs`) replaces them for lists: a set
stands for the predicate, and it follows from the well-foundedness of strict
inclusion of finite sets. It reaches recursive functions over one list (`Among`,
the fold of an inventory, the contents of a queue of frames), but not operators
that take an operator, as the folds of the community modules do.

Model-checked only:

- What `WorkspaceStore` says of the content of documents: that the loader accepts
  them (`Loadable`, the other half of `ReloadsAsShown`, with its exception),
  `UndoIsFaithful`, `RenameIsSubstitution` and `FamiliesStay`. Documents are built
  with folds over sequences, recursion along trees and `CHOOSE`, and what those
  compute takes induction over data.
- Liveness: `FenceIsReleased`, `TakeoversEnd`, `EndsTogether`,
  `SelectionSpreads`, `PagesSettle`, `SizesSettle`, `PagesFollow`, that an event
  reaches the browsers that stay (`EventsArrive`), and that a finished session is
  ended, the other half of `EndsAsAsked`. The prover cannot reason with fairness.

## 7. What is not modelled

- Of the journal: the text of notes and the redaction of secrets, the audit
  export, and files that are damaged after they were written. Planning,
  ingestion, integration and closing in the coordinator; workers and the
  provider bridge.
- Of the workspace store: notes and quick links, which are texts replaced whole;
  of a page: the order, groups, parents and folds it merges with the branch of
  `App.tsx` that is about groups alone (`:2217-2248`), the selected tab.
- The cap on launch receipts and the choice of automatic names; the listing of
  sessions over HTTP, which shares the sampler's builder and has
  `inventoryVersion`.
- Of the views: pages without a view id and terminals that never own a size, the
  numbers and dimensions of a snapshot, the limit of 4096 remembered ids, what a
  terminal sends and shows.
- Callback messages, holds and groups.
- Of the registry: titles, agents, the workspaces of a history row, view events,
  listings, and in `FoldRecovery` a user who has a record of the registry
  forgotten (that is in `WorkspaceStore`); of recovery: which command brings an
  agent back. A fold's branches are single tabs and the workspace has one fold,
  since `WorkspaceDoc` has the rest; one handler at most waits for the lock with
  what it has read.
- tmux itself, terminals, authentication, files, transcripts, metrics, the user
  interface: I/O, parsing and rendering. These are most of the implementation's
  lines: what they keep is a row, a file or a screen that one call changes.

## 8. Plan

What is left, most important first.

1. `Callbacks`: messages, holds and groups with several windows; a repeated
   callback after its review (`callback_messages.py:208`) and a hold cleared
   while a report comes in (`:340`).
2. `Workers`: slots and launches of `runtime.py`, with the provider bridge, over
   `Coordinator` and `StdioRelay`.
3. `PageSync` with the order and the groups of tabs, over `WorkspaceDoc`.

Abstract specifications worth stating: `EffectOnce` (used four times); a
register with compare-and-set for the workspace record and the callback groups.

Theorems worth proving next: the parts of `Loadable` that do not depend on the
order of tabs, one operation at a time: parents among the tabs and without cycles
after a removal (`Promoted`), marks and groups of tabs only.
