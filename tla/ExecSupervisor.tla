--------------------------- MODULE ExecSupervisor ---------------------------
(***************************************************************************)
(* The process supervisor of the guest agent (rish-guest-agent             *)
(* supervisor.rs): Exec, Cancel and Stream requests and the tick that      *)
(* moves stdin, stdout and stderr, enforces deadlines and reaps.           *)
(*                                                                         *)
(* The agent is one thread, so a request never interrupts a tick; the      *)
(* children run beside it, so a tick is cut where a child may act between  *)
(* two of its system calls: begin (deadlines, stdin, first wait), poll     *)
(* (output), end (second wait, completion).  Bytes are counted, not named. *)
(* A deadline is a flag that is set while it is armed; whether it has      *)
(* passed is a choice made when a tick begins.                             *)
(***************************************************************************)
EXTENDS Integers, FiniteSets, Sequences, SequencesExt

CONSTANTS
    MaxConcurrent,  \* max_concurrent_exec
    MaxId,          \* u64::MAX for execution ids
    ChunkSize,      \* max_stream_chunk_size
    Workloads       \* what hosts and processes may do, and the limits they meet

ASSUME SupervisorAssumption ==
    /\ {MaxConcurrent, MaxId, ChunkSize} \subseteq Nat \ {0}
    /\ MaxId >= MaxConcurrent
    /\ \A w \in Workloads :
          /\ {w.limit, w.inputCap, w.output, w.input, w.starts} \subseteq Nat
          /\ {w.interactive, w.faults} \subseteq BOOLEAN

VARIABLES
    load,           \* the workload, which never changes
    executions,     \* execution id -> Execution, for the active ones
    nextId,         \* next_execution_id
    ticking,        \* the execution a tick is at, its stage and its late flag
    events,         \* execution id -> events emitted for it, in order
    procs,          \* execution id -> its process group (external)
    starts          \* executions started

vars == <<load, executions, nextId, ticking, events, procs, starts>>

Requests == load.requests        \* request ids
Channels == load.channels        \* stdout, stderr or console
Limit == load.limit              \* max_stdout_bytes, max_stderr_bytes
InputCap == load.inputCap        \* capacity of the stdin queue
MaxOutput == load.output         \* bound on the bytes a process writes to a channel
MaxInput == load.input           \* bound on the stdin bytes of an execution
MaxStarts == load.starts         \* bound on the executions
Interactive == load.interactive  \* whether executions may attach stdin
Faults == load.faults            \* whether a read or a wait may fail

Ids == 1..MaxId
Active == DOMAIN executions
Idle == [id |-> 0, stage |-> "idle", late |-> FALSE]

Without(f, x) == [y \in DOMAIN f \ {x} |-> f[y]]
With(f, x, v) == [y \in DOMAIN f \cup {x} |-> IF y = x THEN v ELSE f[y]]

-----------------------------------------------------------------------------
(* The process group.  A channel is held open by the leader, by another    *)
(* member of its group, or by a descendant that left the group.  `cut` is  *)
(* history: the channels that the agent gave up before their end.          *)

NewProc(open) ==
    [attached |-> open, state |-> "running", killed |-> FALSE,
     holder |-> [ch \in Channels |-> IF ch \in open THEN "leader" ELSE "none"],
     made |-> [ch \in Channels |-> 0], read |-> [ch \in Channels |-> 0],
     cut |-> {}, got |-> 0, stdin |-> "open", eof |-> FALSE]

ProcWrites(i, ch) ==
    /\ procs[i].holder[ch] # "none" /\ procs[i].made[ch] < MaxOutput
    /\ procs' = [procs EXCEPT ![i].made[ch] = @ + 1]
    /\ UNCHANGED <<executions, nextId, ticking, events, starts>>

(* The leader ends on its own or by a signal; what it held stays open if a *)
(* descendant inherited it.                                                *)
ProcExits(i) ==
    /\ procs[i].state = "running"
    /\ \E heirs \in [Channels -> {"group", "escaped", "none"}] :
          /\ procs[i].killed => \A ch \in Channels : heirs[ch] # "group"
          /\ procs' = [procs EXCEPT ![i].state = "exited",
                                    ![i].holder = [ch \in Channels |->
                                        IF @[ch] = "leader" THEN heirs[ch] ELSE @[ch]]]
    /\ UNCHANGED <<executions, nextId, ticking, events, starts>>

ProcCloses(i, ch) ==
    /\ procs[i].holder[ch] # "none"
    /\ procs' = [procs EXCEPT ![i].holder[ch] = "none"]
    /\ UNCHANGED <<executions, nextId, ticking, events, starts>>

ProcClosesStdin(i) ==
    /\ procs[i].stdin = "open"
    /\ procs' = [procs EXCEPT ![i].stdin = "closed"]
    /\ UNCHANGED <<executions, nextId, ticking, events, starts>>

(* SIGKILL to the group: the leader is about to end and no member writes *)
Killed(p) ==
    [p EXCEPT !.killed = TRUE,
              !.holder = [ch \in Channels |-> IF @[ch] = "group" THEN "none" ELSE @[ch]]]

-----------------------------------------------------------------------------
(* Execution: a pair of the record and its process, since every helper     *)
(* acts on both                                                            *)

NoInput == [some |-> FALSE, writer |-> FALSE, pending |-> 0, close |-> FALSE, accepted |-> 0]

Pair(i) == [e |-> executions[i], p |-> procs[i]]
Put(i, pair) ==
    \E x \in {pair} :
        /\ executions' = [executions EXCEPT ![i] = x.e]
        /\ procs' = [procs EXCEPT ![i] = x.p]

(* stdin = None drops the pipe, if it is still there, with what is queued: *)
(* its reader is at the end of file                                        *)
DropStdin(x) ==
    [e |-> [x.e EXCEPT !.stdin.some = FALSE],
     p |-> [x.p EXCEPT !.eof = @ \/ (x.e.stdin.some /\ x.e.stdin.writer)]]

ForceKill(x) ==
    LET y == DropStdin(x)
    IN [e |-> [y.e EXCEPT !.terminating = TRUE, !.deadline = FALSE, !.forceKillAt = FALSE],
        p |-> IF x.e.status THEN y.p ELSE Killed(y.p)]

(* Mutant: members of the group survive the leader *)
ObserveWithoutCleanup(x, fails) ==
    IF x.e.status THEN x
    ELSE IF fails THEN ForceKill(x)
    ELSE IF x.p.state # "exited" THEN x
    ELSE LET y == DropStdin(x)
         IN [e |-> [y.e EXCEPT !.status = TRUE, !.drain = TRUE], p |-> [y.p EXCEPT !.state = "reaped"]]

(* observe_child_exit: reaps, kills the rest of the group, starts the      *)
(* drain grace period; a wait that fails kills                             *)
ObserveChildExit(x, fails) ==
    IF x.e.status THEN x
    ELSE IF fails THEN ForceKill(x)
    ELSE IF x.p.state # "exited" THEN x
    ELSE LET y == DropStdin(x)
         IN [e |-> [y.e EXCEPT !.status = TRUE, !.drain = TRUE], p |-> Killed([y.p EXCEPT !.state = "reaped"])]

(* flush_pending when the pipe takes n bytes now.  It fails when the       *)
(* reader has closed the pipe and there is something to write.             *)
FlushFails(x) == x.e.stdin.writer /\ x.e.stdin.pending > 0 /\ x.p.stdin = "closed"

(* Mutant: a requested close does not wait for the queue *)
FlushClosesEarly(x, n) ==
    LET closes == x.e.stdin.writer /\ x.e.stdin.close
    IN [e |-> [x.e EXCEPT !.stdin.pending = @ - n, !.stdin.writer = @ /\ ~closes],
        p |-> [x.p EXCEPT !.got = @ + n, !.eof = @ \/ closes]]

Flush(x, n) ==
    LET closes == x.e.stdin.writer /\ x.e.stdin.close /\ x.e.stdin.pending = n
    IN [e |-> [x.e EXCEPT !.stdin.pending = @ - n, !.stdin.writer = @ /\ ~closes],
        p |-> [x.p EXCEPT !.got = @ + n, !.eof = @ \/ closes]]

-----------------------------------------------------------------------------
(* Requests, handled between ticks                                         *)

Owns(i, r) == executions[i].request = r

(* allocate_execution_id takes the first free id from next_execution_id on *)
(* and wraps to 1 after the last.                                          *)
IdAfter(i) == IF i = MaxId THEN 1 ELSE i + 1
Distance(i) == (i - nextId) % MaxId

(* Mutant: an id in use may be handed out again *)
AllocateNext(i) ==
    /\ i = nextId
    /\ nextId' = IdAfter(i)

AllocateExecutionId(i) ==
    /\ i \notin Active
    /\ \A j \in Ids \ Active : Distance(i) <= Distance(j)
    /\ nextId' = IdAfter(i)

(* Mutant: one execution too many *)
HasRoomAtLimit == Cardinality(Active) <= MaxConcurrent

HasRoom == Cardinality(Active) < MaxConcurrent

Start(r, attach, input, timed) ==
    /\ ticking = Idle /\ starts < MaxStarts
    /\ \A i \in Active : ~Owns(i, r)
    /\ HasRoom
    /\ \E i \in Ids :
          /\ AllocateExecutionId(i)
          /\ executions' = With(executions, i,
                [request |-> r,
                 stdin |-> [NoInput EXCEPT !.some = input, !.writer = input],
                 out |-> [ch \in Channels |-> [open |-> ch \in attach, seq |-> 0, sent |-> 0]],
                 deadline |-> timed, forceKillAt |-> FALSE, terminating |-> FALSE,
                 status |-> FALSE, drain |-> FALSE])
          /\ procs' = With(procs, i, NewProc(attach))
          /\ events' = With(events, i, <<>>)
    /\ starts' = starts + 1
    /\ UNCHANGED ticking

(* Mutant: a signal that is not SIGKILL arms no forced kill *)
CancelWithoutGrace(r, kill) ==
    /\ ticking = Idle
    /\ \E i \in Active :
          /\ Owns(i, r)
          /\ ~executions[i].status
          /\ LET x == DropStdin(Pair(i))
                 e == [x.e EXCEPT !.terminating = TRUE, !.deadline = FALSE]
             IN Put(i, [e |-> e, p |-> IF kill THEN Killed(x.p) ELSE x.p])
    /\ UNCHANGED <<nextId, ticking, events, starts>>

(* request_cancel: SIGKILL at once, another signal with a grace period, in *)
(* which the process runs on without its stdin                             *)
Cancel(r, kill) ==
    /\ ticking = Idle
    /\ \E i \in Active :
          /\ Owns(i, r)
          /\ ~executions[i].status
          /\ LET x == DropStdin(Pair(i))
                 e == [x.e EXCEPT !.terminating = TRUE, !.deadline = FALSE, !.forceKillAt = ~kill]
             IN Put(i, [e |-> e, p |-> IF kill THEN Killed(x.p) ELSE x.p])
    /\ UNCHANGED <<nextId, ticking, events, starts>>

Streamable(i) ==
    /\ ticking = Idle /\ ~executions[i].terminating /\ ~executions[i].status
    /\ executions[i].stdin.some /\ executions[i].stdin.writer

(* enqueue: flush, then take the chunk only if all of it fits *)
WriteStdin(i, k) ==
    /\ Streamable(i) /\ ~executions[i].stdin.close /\ ~FlushFails(Pair(i))
    /\ executions[i].stdin.accepted + k <= MaxInput
    /\ \E n \in 0..executions[i].stdin.pending :
          LET x == Flush(Pair(i), n)
              fits == k <= InputCap - x.e.stdin.pending
          IN Put(i, IF fits THEN [x EXCEPT !.e.stdin.pending = @ + k, !.e.stdin.accepted = @ + k] ELSE x)
    /\ UNCHANGED <<nextId, ticking, events, starts>>

(* request_close: remembered even when the flush fails *)
CloseStdin(i) ==
    /\ Streamable(i)
    /\ LET x == [Pair(i) EXCEPT !.e.stdin.close = TRUE]
       IN \/ FlushFails(x) /\ Put(i, x)
          \/ ~FlushFails(x) /\ \E n \in 0..x.e.stdin.pending : Put(i, Flush(x, n))
    /\ UNCHANGED <<nextId, ticking, events, starts>>

-----------------------------------------------------------------------------
(* The tick                                                                *)

(* late: the deadlines of a running execution have passed; drained: so has *)
(* the grace period of one that has exited; fails: the first wait does.    *)
TickBegin(i, late, drained, fails) ==
    /\ ticking = Idle
    /\ late => executions[i].deadline \/ executions[i].forceKillAt
    /\ drained => executions[i].drain
    /\ LET x == Pair(i)
           due == late /\ ((~x.e.terminating /\ x.e.deadline) \/ x.e.forceKillAt)
       IN \E y \in {IF due THEN ForceKill(x) ELSE x} :
          \/ /\ y.e.stdin.some /\ FlushFails(y)
             /\ Put(i, ObserveChildExit(ForceKill(y), fails))
          \/ /\ ~(y.e.stdin.some /\ FlushFails(y))
             /\ \E n \in 0..(IF y.e.stdin.some /\ y.e.stdin.writer THEN y.e.stdin.pending ELSE 0) :
                   Put(i, ObserveChildExit(IF y.e.stdin.some THEN Flush(y, n) ELSE y, fails))
    /\ ticking' = [id |-> i, stage |-> "poll", late |-> drained]
    /\ UNCHANGED <<nextId, events, starts>>

StreamEvent(ch, e, n, eof) ==
    [kind |-> "stream", channel |-> ch, seq |-> e.out[ch].seq, bytes |-> n, eof |-> eof]

(* What a read of an open channel finds: bytes, the end, or nothing yet *)
ReadSize(x, ch) ==
    Min({x.p.made[ch] - x.p.read[ch], ChunkSize, Limit - x.e.out[ch].sent + 1})

(* What polling one channel leaves: its record, what was read, the events  *)
Polled(x, ch, out, n, ev) == [out |-> out, read |-> x.p.read[ch] + n, ev |-> ev]

CloseOutput(x, ch) ==
    IF x.e.out[ch].open
    THEN Polled(x, ch, [x.e.out[ch] EXCEPT !.open = FALSE], 0, <<StreamEvent(ch, x.e, 0, TRUE)>>)
    ELSE Polled(x, ch, x.e.out[ch], 0, <<>>)

ReadOutput(x, ch, n) ==
    LET was == x.e.out[ch]
        kept == Min({n, Limit - was.sent})
    IN Polled(x, ch, [open |-> kept = n, seq |-> was.seq + 1, sent |-> was.sent + kept], n,
              <<StreamEvent(ch, x.e, kept, kept < n)>>)

(* Mutant: a channel nobody holds is at its end whatever it still contains *)
PollOutputHeld(x, ch) ==
    IF x.p.holder[ch] = "none" THEN CloseOutput(x, ch)
    ELSE IF x.e.out[ch].open /\ ReadSize(x, ch) > 0 THEN ReadOutput(x, ch, ReadSize(x, ch))
    ELSE Polled(x, ch, x.e.out[ch], 0, <<>>)

PollOutput(x, ch) ==
    IF x.e.out[ch].open /\ ReadSize(x, ch) > 0 THEN ReadOutput(x, ch, ReadSize(x, ch))
    ELSE IF x.p.holder[ch] = "none" THEN CloseOutput(x, ch)
    ELSE Polled(x, ch, x.e.out[ch], 0, <<>>)

(* Reads fail on the channels `bad`, whose streams end there.  Output that *)
(* overruns its limit and reads that fail kill the group.                  *)
TickPoll ==
    /\ ticking.stage = "poll"
    /\ LET i == ticking.id
           x == Pair(i)
           open == {ch \in Channels : x.e.out[ch].open}
           order == SetToSeq(Channels)
       IN \E bad \in IF Faults /\ ~ticking.late THEN SUBSET open ELSE {{}} :
          LET cut == IF ticking.late THEN open ELSE bad
          IN \E polled \in {[ch \in Channels |-> IF ch \in cut THEN CloseOutput(x, ch) ELSE PollOutput(x, ch)]} :
             LET y == [e |-> [x.e EXCEPT !.out = [ch \in Channels |-> polled[ch].out]],
                       p |-> [x.p EXCEPT !.read = [ch \in Channels |-> polled[ch].read], !.cut = @ \cup cut]]
                 over == \E ch \in Channels : polled[ch].read - x.p.read[ch] > polled[ch].out.sent - x.e.out[ch].sent
             IN /\ Put(i, IF over \/ bad # {} THEN ForceKill(y) ELSE y)
                /\ events' = [events EXCEPT ![i] = @ \o FlattenSeq([k \in DOMAIN order |-> polled[order[k]].ev])]
    /\ ticking' = [ticking EXCEPT !.stage = "end"]
    /\ UNCHANGED <<nextId, starts>>

OutputClosed(e) == \A ch \in Channels : ~e.out[ch].open

Finished(e) == e.status /\ OutputClosed(e)

(* fails: the second wait does *)
TickEnd(fails) ==
    /\ ticking.stage = "end"
    /\ LET i == ticking.id
           x == ObserveChildExit(Pair(i), fails)
       IN IF Finished(x.e)
          THEN /\ executions' = Without(executions, i)
               /\ procs' = [procs EXCEPT ![i] = x.p]
               /\ events' = [events EXCEPT ![i] = Append(@, [kind |-> "exited"])]
          ELSE Put(i, x) /\ UNCHANGED events
    /\ ticking' = Idle
    /\ UNCHANGED <<nextId, starts>>

(* Dropping the handler kills and reaps every group *)
Shutdown ==
    /\ ticking = Idle /\ Active # {}
    /\ procs' = [i \in DOMAIN procs |->
                    IF i \in Active THEN [Killed(procs[i]) EXCEPT !.state = "reaped"] ELSE procs[i]]
    /\ executions' = <<>>
    /\ starts' = MaxStarts
    /\ UNCHANGED <<nextId, ticking, events>>

-----------------------------------------------------------------------------
Init ==
    /\ load \in Workloads
    /\ executions = <<>> /\ nextId = 1 /\ ticking = Idle
    /\ events = <<>> /\ procs = <<>> /\ starts = 0

RequestStep ==
    \/ \E r \in Requests, attach \in SUBSET Channels, timed \in BOOLEAN,
         input \in {FALSE, Interactive} : Start(r, attach, input, timed)
    \/ \E r \in Requests, kill \in BOOLEAN : Cancel(r, kill)
    \/ \E i \in Active : CloseStdin(i) \/ \E k \in 1..2 : WriteStdin(i, k)

TickStep ==
    \/ \E i \in Active, late, drained \in BOOLEAN, fails \in {FALSE, Faults} : TickBegin(i, late, drained, fails)
    \/ TickPoll
    \/ \E fails \in {FALSE, Faults} : TickEnd(fails)

ProcStep ==
    \E i \in DOMAIN procs :
        \/ ProcExits(i)
        \/ Interactive /\ ProcClosesStdin(i)
        \/ \E ch \in Channels : ProcWrites(i, ch) \/ ProcCloses(i, ch)

Next == (RequestStep \/ TickStep \/ ProcStep \/ Shutdown) /\ UNCHANGED load

Spec == Init /\ [][Next]_vars

(* The agent's loop ticks every execution over and over and time passes,   *)
(* so each comes to a tick at which its armed deadlines have passed and    *)
(* waiting does not fail; and the kernel ends a process it was told to     *)
(* kill.                                                                   *)
TickLate(i) ==
    /\ i \in Active
    /\ TickBegin(i, executions[i].deadline \/ executions[i].forceKillAt, executions[i].drain, FALSE)
    /\ UNCHANGED load

KillTakesEffect(i) == i \in DOMAIN procs /\ procs[i].killed /\ ProcExits(i) /\ UNCHANGED load

FairSpec ==
    /\ Spec
    /\ WF_vars((TickPoll \/ \E fails \in {FALSE, Faults} : TickEnd(fails)) /\ UNCHANGED load)
    /\ \A i \in Ids : SF_vars(TickLate(i)) /\ WF_vars(KillTakesEffect(i))

-----------------------------------------------------------------------------
Stream(i, ch) == SelectSeq(events[i], LAMBDA e : e.kind = "stream" /\ e.channel = ch)
Sent(i, ch) == FoldLeft(LAMBDA n, e : n + e.bytes, 0, Stream(i, ch))
Exits(i) == SelectSeq(events[i], LAMBDA e : e.kind = "exited")

(* The table stays within its limits: at most max_concurrent_exec          *)
(* executions, one per request, each with an id of its own process, and    *)
(* the stdin queue within its capacity (start, enqueue).                   *)
TypeOK ==
    /\ nextId \in Ids /\ ticking.stage \in {"idle", "poll", "end"}
    /\ Active \subseteq Ids /\ Cardinality(Active) <= MaxConcurrent
    /\ \A i, j \in Active : executions[i].request = executions[j].request => i = j
    /\ \A i \in Active : executions[i].stdin.pending \in 0..InputCap
    /\ \A i \in Active : procs[i].state = "reaped" <=> executions[i].status

(* ProcessExited comes once and last, after each attached stream has ended *)
(* with exactly one end-of-file event; within a stream the sequence        *)
(* numbers count up from zero (Execution::tick, poll_output).  "When the   *)
(* leader exits, remaining group members are killed": once the exit is     *)
(* reported, no member of the group is left.                               *)
ExitIsLast ==
    \A i \in DOMAIN events :
        /\ \A k \in DOMAIN events[i] : events[i][k].kind = "exited" => k = Len(events[i])
        /\ \A ch \in Channels : \A k \in 1..Len(Stream(i, ch)) :
              /\ Stream(i, ch)[k].seq = k - 1
              /\ Stream(i, ch)[k].eof => k = Len(Stream(i, ch))
        /\ Exits(i) # <<>> =>
              /\ procs[i].state = "reaped"
              /\ \A ch \in Channels : procs[i].holder[ch] \notin {"leader", "group"}
              /\ \A ch \in procs[i].attached : Stream(i, ch) # <<>> /\ Last(Stream(i, ch)).eof

(* A stream never relays more than the process wrote, nor more than the    *)
(* limit; when its end-of-file event is out it has relayed all of that,    *)
(* whatever the process did between the poll and the wait of a tick.  Two  *)
(* kinds of stream are excepted: one still open when the drain grace       *)
(* period ran out (close_output: "Readers are forcibly closed after a      *)
(* 250 ms drain grace period"), and one on which a read failed             *)
(* (finish_output with a fault); the host cannot tell them from the rest.  *)
OutputComplete ==
    \A i \in DOMAIN events : \A ch \in procs[i].attached :
        /\ Sent(i, ch) <= Min({procs[i].made[ch], Limit})
        /\ ch \notin procs[i].cut /\ Stream(i, ch) # <<>> /\ Last(Stream(i, ch)).eof =>
              Sent(i, ch) = Min({procs[i].made[ch], Limit})

(* "Closing a pipe drops it after queued bytes drain": no byte that stdin  *)
(* accepted is lost or given twice, and a process that sees the end of its *)
(* stdin has been given them all, unless the execution is being terminated *)
(* or the process is over.  request_cancel and force_kill drop the pipe    *)
(* with what is queued, so that a process that lives on in the grace       *)
(* period sees an early end; a process nobody asked to stop never does.    *)
StdinEofAfterAll ==
    \A i \in Active : LET stdin == executions[i].stdin
        IN /\ procs[i].got + stdin.pending = stdin.accepted
           /\ procs[i].eof /\ ~executions[i].terminating /\ ~executions[i].status => procs[i].got = stdin.accepted

(* An execution leaves the table only by reporting its exit or when the    *)
(* handler is dropped; a new one never takes its place (start,             *)
(* allocate_execution_id).                                                 *)
NoExecutionLost ==
    [][\A i \in Active :
          \/ i \in Active' /\ executions'[i].request = executions[i].request
          \/ i \notin Active' /\ Len(events'[i]) = Len(events[i]) + 1 /\ Last(events'[i]).kind = "exited"
          \/ Active' = {}]_vars

(* A cancelled or timed out execution is eventually over, also when the    *)
(* process ignores the signal or a descendant keeps its output open.       *)
TerminationCompletes ==
    \A i \in Ids :
        (i \in Active /\ (executions[i].terminating \/ executions[i].deadline)) ~> (i \notin Active)
=============================================================================
