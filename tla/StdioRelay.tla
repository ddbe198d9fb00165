----------------------------- MODULE StdioRelay -----------------------------
(***************************************************************************)
(* tmux_console/stdio_bridge.py and stdio_runner.py: `muxdeckctl exec`     *)
(* runs a provider in a tmux pane and relays its stdio over a private Unix *)
(* socket.  The controller (_relay) sits between the caller and the        *)
(* socket, the runner (serve) between the socket and the provider's pipes. *)
(*                                                                         *)
(* The unit of data is one read: bytes are numbered in the order in which  *)
(* they were written, and a frame is one unit.  Both loops are single      *)
(* threaded and serve whatever descriptor select() reports, so an action   *)
(* is the service of one descriptor.                                       *)
(***************************************************************************)
EXTENDS Integers, Sequences

CONSTANTS
    Window,     \* INPUT_WINDOW: input the runner accepts unacknowledged
    Queue,      \* QUEUE_LIMIT: when to stop reading what fills a queue
    SockCap,    \* frames the kernel holds per direction of the socket
    PipeCap,    \* units the kernel holds per pipe of the provider
    MaxIn,      \* bound: units of input the caller has
    MaxOut,     \* bound: units of output the provider writes
    MaxUnits,   \* bound: units of input and output together
    Status,     \* statuses the provider can exit with
    Killed,     \* the status of a provider that died of a signal
    None        \* no status

ASSUME SizesAssumption ==
    /\ {Window, Queue, SockCap, PipeCap} \subseteq Nat \ {0}
    /\ {MaxIn, MaxOut, MaxUnits} \subseteq Nat

ASSUME StatusAssumption == None \notin Status \cup {Killed}

VARIABLES
    ctl,       \* the controller: _relay's locals
    runner,    \* the runner: serve's locals
    provider,  \* the provider process and what the caller got from it
    toRunner,  \* frames in the socket, controller to runner
    toCtl      \* frames in the socket, runner to controller

vars == <<ctl, runner, provider, toRunner, toCtl>>

MoreUnits == ctl.read + provider.written < MaxUnits

----------------------------------------------------------------------------
(* Frames: I input, E end of input, S signal; O output, A acknowledgement, *)
(* B the provider closed its stdin, X exit status, F the runner failed.    *)
Outcome == Status \cup {Killed}

Frame == [kind: {"I", "E", "S", "O", "A", "B", "X", "F"}, value: Outcome \cup Nat]
F(kind, value) == [kind |-> kind, value |-> value]

Init ==
    /\ ctl = [state |-> "running", read |-> 0, eof |-> FALSE, outstanding |-> 0,
              outgoing |-> <<>>, pending |-> <<>>, delivered |-> <<>>,
              result |-> None, closed |-> FALSE, signalled |-> FALSE]
    /\ runner = [state |-> "running", pending |-> <<>>, ack |-> 0, eof |-> FALSE,
                 inputOpen |-> TRUE, outputOpen |-> TRUE, budget |-> -1,
                 outgoing |-> <<>>, reported |-> FALSE, terminating |-> FALSE,
                 reset |-> FALSE]
    /\ provider = [state |-> "running", status |-> None, stdin |-> <<>>,
                   stdinOpen |-> TRUE, got |-> <<>>, stdout |-> <<>>,
                   written |-> 0, owed |-> 0, lingers |-> FALSE]
    /\ toRunner = <<>>
    /\ toCtl = <<>>

----------------------------------------------------------------------------
(* The controller.                                                         *)
CtlRuns == ctl.state = "running"

CanReadInput == /\ CtlRuns /\ ~ctl.eof /\ ctl.result = None /\ ~ctl.closed
                /\ ctl.outstanding < Window
                /\ Len(ctl.outgoing) < Queue

\* Mutant: the controller does not look at its credit.
CtlReadsInputUnchecked ==
    /\ CtlRuns /\ ~ctl.eof /\ ctl.result = None /\ ~ctl.closed
    /\ Len(ctl.outgoing) < Queue /\ ctl.read < MaxIn /\ MoreUnits
    /\ ctl' = [ctl EXCEPT !.read = @ + 1, !.outstanding = @ + 1,
                          !.outgoing = Append(@, F("I", ctl.read + 1))]
    /\ UNCHANGED <<runner, provider, toRunner, toCtl>>

CtlReadsInput ==
    /\ CanReadInput /\ ctl.read < MaxIn /\ MoreUnits
    /\ ctl' = [ctl EXCEPT !.read = @ + 1, !.outstanding = @ + 1,
                          !.outgoing = Append(@, F("I", ctl.read + 1))]
    /\ UNCHANGED <<runner, provider, toRunner, toCtl>>

CtlReadsEof ==
    /\ CanReadInput
    /\ ctl' = [ctl EXCEPT !.eof = TRUE, !.outgoing = Append(@, F("E", 0))]
    /\ UNCHANGED <<runner, provider, toRunner, toCtl>>

\* SIGINT, SIGTERM or SIGHUP of the controller, acted on once.
CtlSignalled ==
    /\ CtlRuns /\ ~ctl.signalled
    /\ ctl' = [ctl EXCEPT !.signalled = TRUE, !.eof = TRUE,
                          !.outgoing = Append(@, F("S", 0))]
    /\ UNCHANGED <<runner, provider, toRunner, toCtl>>

\* The grace period after a signal is over: return without the runner.
CtlGivesUp ==
    /\ CtlRuns /\ ctl.signalled
    /\ ctl' = [ctl EXCEPT !.state = "interrupted"]
    /\ UNCHANGED <<runner, provider, toRunner, toCtl>>

\* Wire.flush: a send to a peer that closed the socket raises.
CtlFlushes ==
    /\ CtlRuns /\ ctl.outgoing # <<>> /\ ctl.result = None /\ ~ctl.closed
    /\ \/ /\ runner.state = "running" /\ Len(toRunner) < SockCap
          /\ toRunner' = Append(toRunner, Head(ctl.outgoing))
          /\ ctl' = [ctl EXCEPT !.outgoing = Tail(@)]
       \/ /\ runner.state # "running"
          /\ ctl' = [ctl EXCEPT !.state = "failed"]
          /\ UNCHANGED toRunner
    /\ UNCHANGED <<runner, provider, toCtl>>

CanReadSocket == CtlRuns /\ ~ctl.closed /\ Len(ctl.pending) < Queue

\* What a frame does to the controller.
Received(frame) ==
    CASE frame.kind = "O" -> [ctl EXCEPT !.pending = Append(@, frame.value)]
      [] frame.kind = "A" ->
            IF frame.value > ctl.outstanding THEN [ctl EXCEPT !.state = "failed"]
            ELSE [ctl EXCEPT !.outstanding = @ - frame.value]
      [] frame.kind = "X" -> [ctl EXCEPT !.result = frame.value, !.outgoing = <<>>]
      [] frame.kind = "B" -> [ctl EXCEPT !.eof = TRUE]
      [] OTHER -> [ctl EXCEPT !.state = "failed"]

CtlReadsSocket ==
    /\ CanReadSocket /\ toCtl # <<>>
    /\ ctl' = Received(Head(toCtl))
    /\ toCtl' = Tail(toCtl)
    /\ UNCHANGED <<runner, provider, toRunner>>

\* The runner is gone and everything it sent was read: end of file, or a
\* reset when it left data of ours unread.
CtlReadsSocketEof ==
    /\ CanReadSocket /\ toCtl = <<>> /\ runner.state # "running"
    /\ ctl' = IF runner.reset THEN [ctl EXCEPT !.state = "failed"]
                              ELSE [ctl EXCEPT !.closed = TRUE]
    /\ UNCHANGED <<runner, provider, toRunner, toCtl>>

CtlWritesOutput ==
    /\ CtlRuns /\ ctl.pending # <<>>
    /\ ctl' = [ctl EXCEPT !.pending = Tail(@),
                          !.delivered = Append(@, Head(ctl.pending))]
    /\ UNCHANGED <<runner, provider, toRunner, toCtl>>

CtlReturns ==
    /\ CtlRuns /\ ctl.result # None /\ ctl.pending = <<>>
    /\ ctl' = [ctl EXCEPT !.state = "returned"]
    /\ UNCHANGED <<runner, provider, toRunner, toCtl>>

\* "disconnected before reporting its exit status"
CtlDisconnected ==
    /\ CtlRuns /\ ctl.closed /\ ctl.result = None
    /\ ctl' = [ctl EXCEPT !.state = "failed"]
    /\ UNCHANGED <<runner, provider, toRunner, toCtl>>

----------------------------------------------------------------------------
(* The runner.                                                             *)
RunnerRuns == runner.state = "running"

\* The end of the provider.  What it wrote until now is owed to the caller; a
\* descendant that holds its stdout open may still write.
Ended(p, status, lingers) ==
    IF p.state = "exited" THEN [p EXCEPT !.lingers = @ /\ lingers]
    ELSE [p EXCEPT !.state = "exited", !.status = status, !.owed = p.written,
                   !.lingers = lingers]

\* Mutant: the provider is left alone.
LeaveProvider(state, unread) ==
    /\ runner' = [runner EXCEPT !.state = state, !.reset = unread # <<>>]
    /\ UNCHANGED provider

\* Leaving serve(): the socket is closed, with a reset if frames of the
\* controller are still unread, and _cleanup kills the provider.
Leave(state, unread) ==
    /\ runner' = [runner EXCEPT !.state = state, !.reset = unread # <<>>]
    /\ provider' = Ended(provider, Killed, FALSE)

\* An error: an F frame is tried first, then as above.
Fail(unread) ==
    /\ Leave("failed", unread)
    /\ \/ toCtl' = Append(toCtl, F("F", 0))
       \/ UNCHANGED toCtl

\* _signal_owned: the provider ends of it, or ignores it until it is killed.
SignalProvider ==
    /\ provider' \in {provider, Ended(provider, Killed, FALSE)}
    /\ runner' = [runner EXCEPT !.terminating = TRUE]

\* An I frame within the window.
AcceptInput(value) ==
    IF runner.eof \/ ~runner.inputOpen THEN [runner EXCEPT !.ack = @ + 1]
    ELSE [runner EXCEPT !.pending = Append(@, value)]

WindowExceeded == /\ ~runner.eof /\ runner.inputOpen
                  /\ Len(runner.pending) + 1 > Window

RunnerReadsSocket ==
    /\ RunnerRuns /\ toRunner # <<>>
    /\ LET frame == Head(toRunner)
       IN  \/ /\ frame.kind = "I"
              /\ IF WindowExceeded THEN Fail(Tail(toRunner))
                 ELSE /\ runner' = AcceptInput(frame.value)
                      /\ UNCHANGED <<provider, toCtl>>
           \/ /\ frame.kind = "E"
              /\ runner' = [runner EXCEPT !.eof = TRUE]
              /\ UNCHANGED <<provider, toCtl>>
           \/ /\ frame.kind = "S"
              /\ SignalProvider
              /\ UNCHANGED toCtl
    /\ toRunner' = Tail(toRunner)
    /\ UNCHANGED ctl

RunnerReadsSocketEof ==
    /\ RunnerRuns /\ toRunner = <<>> /\ ~CtlRuns
    /\ Leave("failed", <<>>)
    /\ UNCHANGED <<ctl, toRunner, toCtl>>

\* A signal of the runner itself: tmux kill-session sends SIGHUP.
RunnerSignalled ==
    /\ RunnerRuns /\ ~runner.terminating
    /\ SignalProvider
    /\ UNCHANGED <<ctl, toRunner, toCtl>>

\* GRACE_SECONDS after a signal: SIGKILL.
RunnerEscalates ==
    /\ RunnerRuns /\ runner.terminating /\ provider.state = "running"
    /\ provider' = Ended(provider, Killed, FALSE)
    /\ UNCHANGED <<ctl, runner, toRunner, toCtl>>

RunnerAcknowledges ==
    /\ RunnerRuns /\ runner.ack > 0 /\ Len(runner.outgoing) < Queue
    /\ runner' = [runner EXCEPT !.outgoing = Append(@, F("A", runner.ack)),
                                !.ack = 0]
    /\ UNCHANGED <<ctl, provider, toRunner, toCtl>>

\* Mutant: a broken pipe drops the input it was for without its credit.
DropInputUnacknowledged ==
    [runner EXCEPT !.pending = <<>>, !.eof = TRUE,
                   !.outgoing = Append(@, F("B", 0))]

\* A write to a stdin nobody reads: the input counts as consumed.
DropInput == [runner EXCEPT !.pending = <<>>, !.eof = TRUE,
                            !.ack = @ + Len(runner.pending),
                            !.outgoing = Append(@, F("B", 0))]

\* Mutant: a full pipe is taken for a broken one.
RunnerDropsAtFullPipe ==
    /\ RunnerRuns /\ runner.inputOpen /\ runner.pending # <<>>
    /\ IF provider.stdinOpen /\ Len(provider.stdin) < PipeCap
       THEN /\ provider' = [provider EXCEPT !.stdin = Append(@, Head(runner.pending))]
            /\ runner' = [runner EXCEPT !.pending = Tail(@), !.ack = @ + 1]
       ELSE /\ runner' = DropInput
            /\ UNCHANGED provider
    /\ UNCHANGED <<ctl, toRunner, toCtl>>

RunnerWritesStdin ==
    /\ RunnerRuns /\ runner.inputOpen /\ runner.pending # <<>>
    /\ \/ /\ provider.state = "running" /\ provider.stdinOpen
          /\ Len(provider.stdin) < PipeCap
          /\ provider' = [provider EXCEPT !.stdin = Append(@, Head(runner.pending))]
          /\ runner' = [runner EXCEPT !.pending = Tail(@), !.ack = @ + 1]
       \/ /\ provider.state # "running" \/ ~provider.stdinOpen
          /\ runner' = DropInput
          /\ UNCHANGED provider
    /\ UNCHANGED <<ctl, toRunner, toCtl>>

RunnerClosesStdin ==
    /\ RunnerRuns /\ runner.inputOpen /\ runner.eof /\ runner.pending = <<>>
    /\ runner' = [runner EXCEPT !.inputOpen = FALSE]
    /\ UNCHANGED <<ctl, provider, toRunner, toCtl>>

\* Output is read while the queue to the controller has room, and up to the
\* budget once the grace period of an exited provider is over.
RunnerReadsOutput ==
    /\ RunnerRuns /\ runner.outputOpen /\ provider.stdout # <<>>
    /\ Len(runner.outgoing) < Queue
    /\ runner' = [runner EXCEPT
          !.outgoing = Append(@, F("O", Head(provider.stdout))),
          !.budget = IF @ > 0 THEN @ - 1 ELSE @,
          !.outputOpen = runner.budget # 1]
    /\ provider' = [provider EXCEPT !.stdout = Tail(@)]
    /\ UNCHANGED <<ctl, toRunner, toCtl>>

RunnerReadsOutputEof ==
    /\ RunnerRuns /\ runner.outputOpen /\ provider.stdout = <<>>
    /\ provider.state # "running" /\ ~provider.lingers
    /\ runner' = [runner EXCEPT !.outputOpen = FALSE]
    /\ UNCHANGED <<ctl, provider, toRunner, toCtl>>

\* Mutant: nothing limits what is read after the grace period.
GraceEndsUnlimited ==
    /\ RunnerRuns /\ provider.state # "running" /\ runner.budget = -1
    /\ runner' = [runner EXCEPT !.budget = 0]
    /\ UNCHANGED <<ctl, provider, toRunner, toCtl>>

\* GRACE_SECONDS after the provider exited its descendants are killed, which
\* takes effect now or later.  The backlog of the pipe is still owed, but who
\* holds it open cannot extend the run.
GraceEnds ==
    /\ RunnerRuns /\ provider.state # "running" /\ runner.budget = -1
    /\ runner' = [runner EXCEPT
          !.budget = Len(provider.stdout),
          !.outputOpen = @ /\ provider.stdout # <<>>]
    /\ provider' \in {provider, [provider EXCEPT !.lingers = FALSE]}
    /\ UNCHANGED <<ctl, toRunner, toCtl>>

\* Mutant: the status is reported while output is still to be read.
RunnerReportsEarly ==
    /\ RunnerRuns /\ provider.state # "running" /\ ~runner.reported
    /\ runner' = [runner EXCEPT !.reported = TRUE,
                                !.outgoing = Append(@, F("X", provider.status))]
    /\ UNCHANGED <<ctl, provider, toRunner, toCtl>>

RunnerReportsStatus ==
    /\ RunnerRuns /\ provider.state # "running" /\ ~runner.outputOpen
    /\ ~runner.reported
    /\ runner' = [runner EXCEPT !.reported = TRUE,
                                !.outgoing = Append(@, F("X", provider.status))]
    /\ UNCHANGED <<ctl, provider, toRunner, toCtl>>

\* Mutant: a partial send counts as a whole one.
RunnerFlushesOnce ==
    /\ RunnerRuns /\ runner.outgoing # <<>>
    /\ \/ /\ CtlRuns /\ Len(toCtl) < SockCap
          /\ toCtl' = Append(toCtl, Head(runner.outgoing))
          /\ runner' = [runner EXCEPT !.outgoing = <<>>]
          /\ UNCHANGED provider
       \/ /\ ~CtlRuns
          /\ Leave("failed", toRunner)
          /\ UNCHANGED toCtl
    /\ UNCHANGED <<ctl, toRunner>>

RunnerFlushes ==
    /\ RunnerRuns /\ runner.outgoing # <<>>
    /\ \/ /\ CtlRuns /\ Len(toCtl) < SockCap
          /\ toCtl' = Append(toCtl, Head(runner.outgoing))
          /\ runner' = [runner EXCEPT !.outgoing = Tail(@)]
          /\ UNCHANGED provider
       \/ /\ ~CtlRuns
          /\ Leave("failed", toRunner)
          /\ UNCHANGED toCtl
    /\ UNCHANGED <<ctl, toRunner>>

RunnerReturns ==
    /\ RunnerRuns /\ runner.reported /\ runner.outgoing = <<>>
    /\ Leave("returned", toRunner)
    /\ UNCHANGED <<ctl, toRunner, toCtl>>

\* SIGKILL of the runner: no cleanup, the provider is on its own.
RunnerKilled ==
    /\ RunnerRuns
    /\ runner' = [runner EXCEPT !.state = "killed", !.reset = toRunner # <<>>]
    /\ UNCHANGED <<ctl, provider, toRunner, toCtl>>

----------------------------------------------------------------------------
(* The provider and its descendants (external).                            *)
ProviderReads ==
    /\ provider.state = "running" /\ provider.stdinOpen /\ provider.stdin # <<>>
    /\ provider' = [provider EXCEPT !.stdin = Tail(@),
                                    !.got = Append(@, Head(provider.stdin))]
    /\ UNCHANGED <<ctl, runner, toRunner, toCtl>>

ProviderWrites ==
    /\ provider.state = "running" \/ provider.lingers
    /\ provider.written < MaxOut /\ MoreUnits /\ Len(provider.stdout) < PipeCap
    /\ provider' = [provider EXCEPT !.written = @ + 1,
                                    !.stdout = Append(@, provider.written + 1)]
    /\ UNCHANGED <<ctl, runner, toRunner, toCtl>>

ProviderClosesStdin ==
    /\ provider.state = "running" /\ provider.stdinOpen
    /\ provider' = [provider EXCEPT !.stdinOpen = FALSE]
    /\ UNCHANGED <<ctl, runner, toRunner, toCtl>>

\* It may leave a descendant behind that holds its stdout open.
ProviderExits(status, lingers) ==
    /\ provider.state = "running"
    /\ provider' = Ended(provider, status, lingers)
    /\ UNCHANGED <<ctl, runner, toRunner, toCtl>>

\* The descendant ends, by itself or of the SIGTERM its owner's exit sends.
DescendantExits ==
    /\ provider.lingers
    /\ provider' = [provider EXCEPT !.lingers = FALSE]
    /\ UNCHANGED <<ctl, runner, toRunner, toCtl>>

----------------------------------------------------------------------------
CtlNext == \/ CtlReadsInput \/ CtlReadsEof \/ CtlSignalled \/ CtlGivesUp
           \/ CtlFlushes \/ CtlReadsSocket \/ CtlReadsSocketEof
           \/ CtlWritesOutput \/ CtlReturns \/ CtlDisconnected

RunnerNext == \/ RunnerReadsSocket \/ RunnerReadsSocketEof \/ RunnerSignalled
              \/ RunnerEscalates \/ RunnerAcknowledges \/ RunnerWritesStdin
              \/ RunnerClosesStdin \/ RunnerReadsOutput \/ RunnerReadsOutputEof
              \/ GraceEnds \/ RunnerReportsStatus \/ RunnerFlushes
              \/ RunnerReturns \/ RunnerKilled

ProviderNext == \/ ProviderReads \/ ProviderWrites \/ ProviderClosesStdin
                \/ DescendantExits
                \/ \E status \in Status, lingers \in BOOLEAN :
                      ProviderExits(status, lingers)

Next == CtlNext \/ RunnerNext \/ ProviderNext

Spec == Init /\ [][Next]_vars

(* Both loops serve every descriptor that stays ready, and time passes: the *)
(* grace periods end.  The caller consumes its output.  Nothing is assumed  *)
(* of the caller's input, of signals, and of the provider.                  *)
Fairness ==
    /\ WF_vars(CtlGivesUp) /\ WF_vars(CtlFlushes) /\ WF_vars(CtlReadsSocket)
    /\ WF_vars(CtlReadsSocketEof) /\ WF_vars(CtlWritesOutput)
    /\ WF_vars(CtlReturns) /\ WF_vars(CtlDisconnected)
    /\ WF_vars(RunnerReadsSocket) /\ WF_vars(RunnerReadsSocketEof)
    /\ WF_vars(RunnerEscalates) /\ WF_vars(RunnerAcknowledges)
    /\ WF_vars(RunnerWritesStdin) /\ WF_vars(RunnerReadsOutput)
    /\ WF_vars(RunnerReadsOutputEof) /\ WF_vars(GraceEnds)
    /\ WF_vars(RunnerReportsStatus) /\ WF_vars(RunnerFlushes)
    /\ WF_vars(RunnerReturns)

FairSpec == Spec /\ Fairness

----------------------------------------------------------------------------
Upto(n) == [i \in 1 .. n |-> i]
Values(frames, kind) ==
    LET kept[i \in 0 .. Len(frames)] ==
            IF i = 0 THEN <<>>
            ELSE IF frames[i].kind = kind THEN Append(kept[i - 1], frames[i].value)
            ELSE kept[i - 1]
    IN  kept[Len(frames)]
Inputs(frames) == Values(frames, "I")
Outputs(frames) == Values(frames, "O")

(* "The controller's stdout/stderr stay byte-exact": whoever has ended and *)
(* however, what the caller got, what the queues and the socket hold and   *)
(* what is in the pipe are together all the provider wrote, in its order.  *)
OutputIsExact ==
    ctl.delivered \o ctl.pending \o Outputs(toCtl)
        \o Outputs(runner.outgoing) \o provider.stdout = Upto(provider.written)

(* The provider gets a prefix of the caller's input, and until it closes   *)
(* its stdin nothing the controller took from the caller is missing from   *)
(* the way there, across the window, the queues and two partial writes.    *)
InputIsExact ==
    LET got == provider.got \o provider.stdin
    IN  /\ got = Upto(Len(got))
        /\ provider.stdinOpen /\ provider.state = "running" =>
              got \o runner.pending \o Inputs(toRunner)
                  \o Inputs(ctl.outgoing) = Upto(ctl.read)

(* A returned status is the provider's own, and the caller has everything  *)
(* the provider had written when it ended, even if a descendant of it kept *)
(* the pipe open and the runner had to cut it off.                         *)
ReturnIsComplete ==
    ctl.state = "returned" =>
        /\ ctl.result = provider.status
        /\ Len(ctl.delivered) >= provider.owed

(* Nothing is lost, repeated or cut off on either way.                     *)
StreamsAreExact == OutputIsExact /\ InputIsExact /\ ReturnIsComplete

(* The credit of the input window is conserved: what the controller counts *)
(* as outstanding is on its way, held by the runner, or being acknowledged *)
(* back, whatever happened to the provider's stdin; and no interleaving of *)
(* input, broken pipes and acknowledgements drives the runner over its     *)
(* window, which it takes for an error: it does not fail while the         *)
(* controller is there.                                                    *)
Acknowledged(frames) ==
    LET sum[i \in 0 .. Len(frames)] ==
            IF i = 0 THEN 0
            ELSE IF frames[i].kind = "A" THEN sum[i - 1] + frames[i].value
            ELSE sum[i - 1]
    IN  sum[Len(frames)]

CreditIsConserved ==
    /\ CtlRuns /\ RunnerRuns /\ ctl.result = None =>
          ctl.outstanding = Len(Inputs(ctl.outgoing))
                            + Len(Inputs(toRunner))
                            + Len(runner.pending) + runner.ack
                            + Acknowledged(runner.outgoing)
                            + Acknowledged(toCtl)
    /\ runner.state = "failed" => ~CtlRuns

(* The bytes and the credit together.                                      *)
RelayIsExact == StreamsAreExact /\ CreditIsConserved

(* exec ends when the provider does, however its stdin, its descendants    *)
(* and the caller's input are left.                                        *)
ExitEndsExec == provider.state = "exited" ~> ~CtlRuns

(* The provider does not outlive exec: when the controller has ended, the  *)
(* runner finds out and kills what is left, unless it was killed itself.   *)
NoOrphan ==
    ~CtlRuns ~> \/ provider.state = "exited" /\ ~provider.lingers
                \/ runner.state = "killed"

(* Both together: neither side is left alone for ever.                     *)
EndsTogether == ExitEndsExec /\ NoOrphan

============================================================================
