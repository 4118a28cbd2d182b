---------------------------- MODULE GuestSession ----------------------------
(***************************************************************************)
(* A booted guest and the session that runs commands in it: boot_channel,  *)
(* the framed control channel over the second UART, SessionClient's        *)
(* exchanges, and the guest agent's control loop.  The machine underneath  *)
(* is VmWorker: every step of this module is a step of that one, or leaves *)
(* its variables alone.                                                    *)
(*                                                                         *)
(* Data.  A control frame is a record.  Towards the guest it has a size;   *)
(* towards the host it travels as one or two units, so that a frame may be *)
(* split between two reads or lose its tail.  A process writes the numbers *)
(* 1, 2, ... as its output.  A chunk of queued stdin is named by the call  *)
(* it was written for and its position in that call's input.               *)
(***************************************************************************)
EXTENDS VmWorker, SequencesExt

CONSTANTS
    Loads,          \* what the host does with the session; see MCGuestSession
    MaxAdvances,    \* max_advances_per_request; also the boot budget
    MaxFrames,      \* MAX_FRAMES_PER_EXCHANGE
    HostCap,        \* units the host's control output queue holds
    UartCap,        \* size the control UART's receive queue holds
    MaxConcurrent   \* executions the agent runs at once

VARIABLES
    load,    \* the workload of this behaviour
    call,    \* the session thread's call in progress
    result,  \* how the latest call ended
    inbox,   \* StdinInbox: [queued, close]
    wire,    \* the control channel and its UART
    rx,      \* the session's frame decoder: [ready, part, bad]
    guest    \* the agent and the processes it started

linkVars == <<inbox, wire, rx, guest>>
hostVars == <<load, call, result>>
allVars == <<vmVars, load, call, result, inbox, wire, rx, guest>>

\* The kinds of command: no stdin; one buffer of stdin; stdin queued while it
\* runs, without and with a stdin pipe attached in the guest.
Kinds == {"plain", "buffered", "interactive", "attached"}
Attaches(kind) == kind \in {"buffered", "attached"}
Interactive(kind) == kind \in {"interactive", "attached"}

NoCall == [kind |-> "boot", stage |-> "boot", at |-> "top", n |-> 0, id |-> 0,
           ex |-> 0, events |-> <<>>, out |-> <<>>, exited |-> FALSE, adv |-> 0,
           base |-> 0, seen |-> 0, over |-> FALSE, pump |-> 0, shut |-> FALSE,
           status |-> "none"]
NoResult == [n |-> 0, status |-> "none", ex |-> 0, out |-> <<>>]

GuestInit ==
    /\ VmInit
    /\ load \in Loads
    /\ call = NoCall
    /\ result = NoResult
    /\ inbox = [queued |-> <<>>, close |-> FALSE, next |-> 1]
    /\ wire = [down |-> <<>>, uart |-> <<>>, tx |-> <<>>, up |-> <<>>, dropped |-> 0]
    /\ rx = [ready |-> <<>>, part |-> <<>>, bad |-> FALSE]
    /\ guest = [agent |-> "booting", greeted |-> FALSE, cut |-> FALSE, procs |-> <<>>]

-----------------------------------------------------------------------------
(***************************************************************************)
(* Frames.                                                                 *)
(***************************************************************************)
ToGuest(op, id, ex, chunk) ==
    [op |-> op, id |-> id, ex |-> ex, chunk |-> chunk, attach |-> Attaches(call.kind),
     size |-> IF op = "write" THEN load.chunk ELSE 1]

ToHost(op, id, ok, ex, n) ==
    [op |-> op, id |-> id, ok |-> ok, ex |-> ex, n |-> n]

\* A stream frame is the one long enough to be cut in two.
Units(frame) ==
    LET size == IF frame.op = "stream" THEN 2 ELSE 1
    IN  [i \in 1..size |-> [frame |-> frame, part |-> i, size |-> size]]

\* FrameDecoder::push and next_frame.  A length prefix announces the bytes that
\* follow, so a missing tail is filled from the next frame, which does not parse;
\* the decoder refuses everything after that.
Follows(all, i) ==
    IF i = 1 \/ all[i - 1].part = all[i - 1].size THEN all[i].part = 1
    ELSE all[i].part = 2 /\ all[i].frame = all[i - 1].frame

Decode(d, units) ==
    LET all == d.part \o units
        good == SelectSeq([i \in DOMAIN all |-> i], LAMBDA i : \A j \in 1..i : Follows(all, j))
        whole == SelectSeq(good, LAMBDA i : all[i].part = all[i].size)
    IN  IF d.bad THEN d
        ELSE [ready |-> d.ready \o [i \in DOMAIN whole |-> all[whole[i]].frame],
              part |-> IF good = <<>> \/ all[Last(good)].part = all[Last(good)].size
                       THEN <<>> ELSE <<all[Last(good)]>>,
              bad |-> Len(good) < Len(all)]

-----------------------------------------------------------------------------
(***************************************************************************)
(* The guest: one pass of the agent's control loop.                        *)
(***************************************************************************)
Running(g) == {p \in DOMAIN g.procs : ~g.procs[p].exited}

\* `stdin` and `refused` are the chunks its queue took and turned away.
NewProcess(f) ==
    [call |-> f.chunk[1], attach |-> f.attach, stdin |-> <<>>, refused |-> {},
     eof |-> FALSE, wrote |-> 0, exited |-> FALSE]

\* NativeOperationHandler::stream.  The stdin queue answers the requests `fails`
\* with an error: a chunk does not fit behind what the process has not read yet,
\* or the process no longer reads.  A close is remembered all the same.
Stream(g, f, fails) ==
    LET piped == f.ex \in Running(g) /\ g.procs[f.ex].attach
        takes == f.op = "write" /\ ~g.procs[f.ex].eof /\ f.id \notin fails
    IN  IF ~piped THEN [g |-> g, frames |-> <<ToHost("resp", f.id, FALSE, f.ex, 0)>>]
        ELSE [g |-> [g EXCEPT !.procs[f.ex].stdin = IF takes THEN Append(@, f.chunk) ELSE @,
                              !.procs[f.ex].refused = IF f.op = "write" /\ f.id \in fails
                                                      THEN @ \cup {f.chunk} ELSE @,
                              !.procs[f.ex].eof = @ \/ f.op = "close"],
              frames |-> <<ToHost("resp", f.id, takes \/ (f.op = "close" /\ f.id \notin fails), f.ex, 0)>>]

\* GuestAgent::handle for one frame: the new agent and its answer.
Handle(g, f, fails) ==
    CASE (f.op = "hello") = g.greeted ->
            [g |-> [g EXCEPT !.agent = "dead"], frames |-> <<>>]
      [] f.op = "hello" /\ ~g.greeted ->
            [g |-> [g EXCEPT !.greeted = TRUE],
             frames |-> <<ToHost("ack", f.id, TRUE, 0, 0)>>]
      [] f.op = "exec" /\ g.greeted ->
            IF Cardinality(Running(g)) >= MaxConcurrent
            THEN [g |-> g, frames |-> <<ToHost("resp", f.id, FALSE, 0, 0)>>]
            ELSE [g |-> [g EXCEPT !.procs = Append(@, NewProcess(f))],
                  frames |-> <<ToHost("resp", f.id, TRUE, Len(g.procs) + 1, 0)>>]
      [] OTHER -> Stream(g, f, fails)

\* read_available and process_input.  Behind a frame whose tail was lost the
\* decoder takes later frames for the missing bytes: it waits for more, or the
\* text does not parse and the agent's control loop ends (`dies`).
ReadInput(g, frames, dies, fails) ==
    FoldLeft(LAMBDA a, f :
        CASE a.g.agent # "ready" -> a
          [] a.g.agent = "ready" /\ a.g.cut ->
                IF dies THEN [a EXCEPT !.g.agent = "dead"] ELSE a
          [] a.g.agent = "ready" /\ ~a.g.cut /\ f.op = "cut" ->
                [a EXCEPT !.g.cut = TRUE]
          [] OTHER ->
                LET h == Handle(a.g, f, fails)
                IN  [g |-> h.g, tx |-> a.tx \o FlattenSeq([i \in DOMAIN h.frames |-> Units(h.frames[i])])],
        [g |-> g, tx |-> <<>>], frames)

\* One event of one process, as GuestAgent::poll reports it.
PollEvents(g) ==
    {[g |-> g, tx |-> <<>>]}
    \cup {[g |-> [g EXCEPT !.procs[p].wrote = @ + 1],
           tx |-> Units(ToHost("stream", 0, TRUE, p, g.procs[p].wrote + 1))]
             : p \in {q \in Running(g) : g.procs[q].wrote < load.output}}
    \cup {[g |-> [g EXCEPT !.procs[p].exited = TRUE],
           tx |-> Units(ToHost("exit", 0, TRUE, p, 0))] : p \in Running(g)}

StreamIds(frames) == {f.id : f \in {g \in ToSet(frames) : g.op \in {"write", "close"}}}

\* The agents and the transmit queues one pass may leave behind.
AgentPass(g, frames, tx) ==
    CASE g.agent = "ready" ->
            UNION {LET r == ReadInput(g, frames, dies, fails)
                   IN  IF r.g.agent = "dead" THEN {[g |-> r.g, tx |-> tx \o r.tx]}
                       ELSE {[g |-> e.g, tx |-> tx \o r.tx \o e.tx] : e \in PollEvents(r.g)}
                     : dies \in BOOLEAN, fails \in SUBSET StreamIds(frames)}
      [] g.agent = "booting" ->
            {[g |-> [g EXCEPT !.agent = a], tx |-> tx] : a \in {"booting", "ready", "failed"}}
      [] OTHER -> {[g |-> g, tx |-> tx]}

-----------------------------------------------------------------------------
(***************************************************************************)
(* The control channel around one quantum of PureRustMachine.              *)
(***************************************************************************)

\* pump_input.  push_input keeps the bytes that fit; what it refuses is gone.
PumpInput(w) ==
    LET a == FoldLeft(LAMBDA s, f :
                 IF f.size <= s.room
                 THEN [s EXCEPT !.room = @ - f.size, !.uart = Append(@, f)]
                 ELSE [room |-> 0,
                       uart |-> IF s.room = 0 THEN s.uart
                                ELSE Append(s.uart, [f EXCEPT !.op = "cut"])],
                 [room |-> UartCap, uart |-> <<>>], w.down)
    IN  a.uart

\* Mutant: the host's queue grows without bound.
PumpOutputUnbounded(w, tx, k) ==
    [w EXCEPT !.down = <<>>, !.uart = <<>>, !.tx = SubSeq(tx, k + 1, Len(tx)),
              !.up = @ \o SubSeq(tx, 1, k)]

\* pump_output into the host's bounded queue, which counts what it drops.
PumpOutput(w, tx, k) ==
    LET all == w.up \o SubSeq(tx, 1, k)
        kept == IF Len(all) <= HostCap THEN Len(all) ELSE HostCap
    IN  [w EXCEPT !.down = <<>>, !.uart = <<>>, !.tx = SubSeq(tx, k + 1, Len(tx)),
                  !.up = SubSeq(all, 1, kept), !.dropped = @ + Len(all) - kept]

\* A quantum in which the guest ran one pass of its loop; the last unit may
\* still be in the agent's hands when the quantum ends.
QuantumRan ==
    /\ WorkerRan
    /\ machine' # "running" => load.breaks
    /\ \E a \in AgentPass(guest, wire.uart \o PumpInput(wire), wire.tx) :
       \E k \in {n \in 0..Len(a.tx) : n >= Len(a.tx) - 1} :
           /\ guest' = a.g
           /\ wire' = PumpOutput(wire, a.tx, k)
    /\ UNCHANGED <<hostVars, inbox, rx>>

\* A quantum that ran nothing still moved the input into the UART.
QuantumStalled ==
    /\ WorkerNoProgress
    /\ wire' = [wire EXCEPT !.uart = @ \o PumpInput(wire), !.down = <<>>]
    /\ UNCHANGED <<hostVars, inbox, rx, guest>>

\* Mutant: the worker survives a failed step.
QuantumFailsStays ==
    /\ load.breaks
    /\ worker.at = "quantum"
    /\ worker' = [at |-> "recv", left |-> 0]
    /\ reply' = "failed"
    /\ UNCHANGED <<tokenVars, sessionVars, flag, queue, machine, sentAfter>>
    /\ UNCHANGED <<hostVars, linkVars>>

QuantumFails ==
    /\ load.breaks
    /\ WorkerFails
    /\ UNCHANGED <<hostVars, linkVars>>

-----------------------------------------------------------------------------
(***************************************************************************)
(* The session thread.                                                     *)
(***************************************************************************)
End(c, status) == [c EXCEPT !.stage = "end", !.at = "end", !.status = status]
EndOk(c) == End(c, "ok")

\* boot_channel's loop: the markers the guest printed decide, then the budget.
BootRound ==
    /\ caller = "out" /\ call.stage = "boot"
    /\ CASE guest.agent = "ready" ->
              /\ call' = [call EXCEPT !.stage = "hello", !.at = "write"]
              /\ UNCHANGED vmVars
         [] guest.agent = "booting" /\ call.adv < MaxAdvances ->
              BeginRun /\ call' = [call EXCEPT !.adv = @ + 1]
         [] OTHER -> call' = End(call, "boot") /\ UNCHANGED vmVars
    /\ UNCHANGED <<load, result, linkVars>>

\* Mutant: the inbox is not emptied.
InboxKept(kind) == inbox

\* StdinInbox::reset, which only an interactive call does.
InboxFor(kind) ==
    IF Interactive(kind) THEN [queued |-> <<>>, close |-> FALSE, next |-> 1] ELSE inbox

\* execute_observed and execute_interactive up to the first request.  The inbox
\* is emptied, and the client forgets an execution that ended early.
BeginCall ==
    /\ caller = "out" /\ call.stage = "idle" /\ call.n < Len(load.calls)
    /\ LET kind == load.calls[call.n + 1]
           fresh == [NoCall EXCEPT !.kind = kind, !.stage = "exec", !.at = "write",
                                   !.n = call.n + 1, !.id = call.id]
       IN  IF reason = 0
           THEN /\ call' = fresh
                /\ inbox' = InboxFor(kind)
                /\ UNCHANGED vmVars
           ELSE /\ call' = End(fresh, Cause(reason))
                /\ FireToken
                /\ UNCHANGED inbox
    /\ UNCHANGED <<load, result, wire, rx, guest>>

\* SessionClient::request and bootstrap: write the frame, then pump.  With the
\* token fired nothing is written and the advance that follows fails.
WriteRequest ==
    /\ caller = "out" /\ call.at = "write"
    /\ LET op == CASE call.stage = "stdin" -> "write"
                   [] call.stage = "eof" -> "close"
                   [] OTHER -> call.stage
           frame == ToGuest(op, call.id + 1, call.ex, <<call.n, 1>>)
       IN  IF reason = 0
           THEN /\ wire' = [wire EXCEPT !.down = Append(@, frame)]
                /\ call' = [call EXCEPT !.at = "top", !.id = @ + 1, !.adv = 0,
                                        !.seen = 0, !.base = wire.dropped]
                /\ UNCHANGED vmVars
           ELSE BeginRun /\ UNCHANGED <<wire, call>>
    /\ UNCHANGED <<load, result, inbox, rx, guest>>

\* write_pending_stdin: at most one queued chunk, then the close if it was
\* asked for.
PendingFrames ==
    IF call.pump = 0 \/ call.shut \/ reason # 0 THEN <<>>
    ELSE LET write == IF inbox.queued = <<>> THEN <<>>
                      ELSE <<ToGuest("write", call.id + 1, call.pump, Head(inbox.queued))>>
         IN  IF inbox.close
             THEN Append(write, ToGuest("close", call.id + Len(write) + 1, call.pump, <<>>))
             ELSE write

\* The top of pump_observed's loop.
PumpTop ==
    /\ caller = "out" /\ call.at = "top"
    /\ call.stage \in {"hello", "exec", "stdin", "eof", "collect"}
    /\ IF wire.dropped # call.base \/ call.adv >= MaxAdvances
       THEN /\ call' = End(call, IF wire.dropped # call.base THEN "dropped" ELSE "deadline")
            /\ UNCHANGED <<vmVars, wire, inbox>>
       ELSE \E fs \in {PendingFrames} :
            /\ BeginRun
            /\ wire' = [wire EXCEPT !.down = @ \o fs]
            /\ call' = [call EXCEPT !.at = "batch", !.id = @ + Len(fs),
                                    !.shut = @ \/ \E i \in DOMAIN fs : fs[i].op = "close"]
            /\ inbox' = [inbox EXCEPT !.queued =
                            IF \E i \in DOMAIN fs : fs[i].op = "write" THEN Tail(@) ELSE @]
    /\ UNCHANGED <<load, result, rx, guest>>

\* execute_with_stdin's capture closure over a run of frames.  Nothing of the
\* execution may follow its exit.
Capture(c, frames) ==
    LET mine == SelectSeq(frames, LAMBDA f : f.op \in {"stream", "exit"} /\ f.ex = c.ex)
        exits == {i \in DOMAIN mine : mine[i].op = "exit"}
        data == SelectSeq(mine, LAMBDA f : f.op = "stream")
        d == [c EXCEPT !.out = @ \o [i \in DOMAIN data |-> data[i].n],
                       !.exited = @ \/ exits # {},
                       !.over = @ \/ (load.limit > 0 /\ Len(c.out) + Len(data) > load.limit)]
    IN  IF \E i \in DOMAIN mine : c.exited \/ \E j \in exits : j < i
        THEN End(d, "stream") ELSE d

\* Mutant: events that came with the responses are forgotten.
StartCollectFresh(c) ==
    [c EXCEPT !.events = <<>>, !.stage = "collect", !.at = "top", !.adv = 0,
              !.seen = 0, !.base = wire.dropped]

\* What follows the events of the requests: the outcome, or the collecting pump.
StartCollect(c) ==
    LET d == Capture([c EXCEPT !.events = <<>>], c.events)
    IN  CASE d.stage = "end" -> d
          [] d.stage # "end" /\ d.exited -> EndOk(d)
          [] OTHER -> [d EXCEPT !.stage = "collect", !.at = "top", !.adv = 0,
                                !.seen = 0, !.base = wire.dropped]

\* The response a request waited for.
Answered(c, resp) ==
    CASE ~resp.ok -> End(c, "rejected")
      [] resp.ok /\ c.stage = "hello" -> [c EXCEPT !.stage = "idle"]
      [] resp.ok /\ c.stage = "exec" ->
            LET d == [c EXCEPT !.ex = resp.ex,
                               !.pump = IF Interactive(c.kind) THEN resp.ex ELSE 0]
            IN  IF c.kind = "buffered" THEN [d EXCEPT !.stage = "stdin", !.at = "write"]
                ELSE StartCollect(d)
      [] resp.ok /\ c.stage = "stdin" -> [c EXCEPT !.stage = "eof", !.at = "write"]
      [] OTHER -> StartCollect(c)

\* Mutant: an advance that brought no frame does not count.
ConsumeIdleFree(c, frames) ==
    IF frames = <<>> THEN [c EXCEPT !.at = "top"]
    ELSE LET resps == SelectSeq(frames, LAMBDA f : f.op \in {"ack", "resp"} /\ f.id = c.id)
             d == [c EXCEPT !.seen = @ + Len(frames), !.at = "top", !.adv = @ + 1,
                            !.events = @ \o frames]
         IN  IF resps = <<>> THEN d ELSE Answered(d, Last(resps))

\* The frames of one batch: the call afterwards.
Consume(c, frames) ==
    LET seen == [c EXCEPT !.seen = @ + Len(frames)]
        resps == SelectSeq(frames, LAMBDA f : f.op \in {"ack", "resp"} /\ f.id = c.id)
        events == SelectSeq(frames, LAMBDA f : f.op \in {"stream", "exit"})
        again(d) == [d EXCEPT !.at = "top", !.adv = @ + 1]
    IN  IF c.stage = "collect"
        THEN LET d == Capture(seen, events)
             IN  IF d.stage = "end" THEN d ELSE IF d.exited THEN EndOk(d) ELSE again(d)
        ELSE LET d == [seen EXCEPT !.events = @ \o events]
             IN  IF resps = <<>> THEN again(d) ELSE Answered(d, Last(resps))

\* The rest of pump_observed's loop, after an advance that succeeded.  Bytes
\* taken by an advance that also counted a drop are discarded with it.
PumpBatch ==
    /\ caller = "out" /\ call.at = "batch"
    /\ wire' = [wire EXCEPT !.up = <<>>]
    /\ IF wire.dropped # call.base
       THEN /\ call' = End(call, "dropped")
            /\ UNCHANGED <<rx, vmVars>>
       ELSE \E d \in {Decode(rx, wire.up)} :
            LET room == MaxFrames - call.seen
                n == IF Len(d.ready) <= room THEN Len(d.ready) ELSE room
            IN  \E c \in {Consume(call, SubSeq(d.ready, 1, n))} :
                /\ rx' = [d EXCEPT !.ready = SubSeq(@, n + 1, Len(@))]
                /\ call' = CASE n < Len(d.ready) -> End(c, "frames")
                             [] n = Len(d.ready) /\ d.bad -> End(c, "malformed")
                             [] OTHER -> c
                /\ IF c.over THEN FireToken ELSE UNCHANGED vmVars
    /\ UNCHANGED <<load, result, inbox, guest>>

\* An advance failed: the call ends with its error.
AdvanceFailed ==
    /\ Recover
    /\ call' = End(call, err)
    /\ UNCHANGED <<load, result, linkVars>>

\* The call returns to the host.  Output past its limit wins over any other
\* outcome, and a success is checked against the token once more.
EndCall ==
    /\ caller = "out" /\ call.stage = "end" /\ call.n > 0
    /\ LET late == call.status = "ok" /\ ~call.over /\ reason # 0
           status == CASE call.over -> "limit"
                       [] late -> Cause(reason)
                       [] OTHER -> call.status
       IN  /\ result' = [n |-> call.n, status |-> status, ex |-> call.ex,
                         out |-> IF status = "ok" THEN call.out ELSE <<>>]
           /\ IF late THEN FireToken ELSE UNCHANGED vmVars
    /\ call' = [NoCall EXCEPT !.kind = call.kind, !.stage = "idle", !.n = call.n,
                              !.id = call.id, !.pump = call.pump, !.shut = call.shut]
    /\ UNCHANGED <<load, linkVars>>

\* A failed boot drops the machine; so does freeing an idle session.
EndBoot ==
    /\ \/ caller = "failed" /\ ~("session" \in owners)
       \/ caller = "out" /\ call.stage = "end" /\ call.n = 0
    /\ Free
    /\ UNCHANGED <<hostVars, linkVars>>

FreeSession ==
    /\ caller = "out" /\ call.stage = "idle"
    /\ Free
    /\ UNCHANGED <<hostVars, linkVars>>

\* vm_control_ffi: another thread queues stdin for the latest call.
WriteInbox ==
    /\ Interactive(call.kind) /\ inbox.next <= load.stdin
    /\ inbox' = [inbox EXCEPT !.queued = Append(@, <<call.n, inbox.next>>),
                              !.next = @ + 1]
    /\ UNCHANGED <<vmVars, hostVars, wire, rx, guest>>

CloseInbox ==
    /\ Interactive(call.kind) /\ ~inbox.close /\ load.stdin > 0
    /\ inbox' = [inbox EXCEPT !.close = TRUE]
    /\ UNCHANGED <<vmVars, hostVars, wire, rx, guest>>

Machinery == UNCHANGED <<hostVars, linkVars>>

\* The run underneath.  Only an execution carries a deadline, and boot asks for
\* more quanta at a time than an exchange does.
SessionRun ==
    \/ (Launch \/ Started \/ Attach \/ Check \/ ClearFlag \/ Receive) /\ Machinery
    \/ \E late \in BOOLEAN :
          /\ late => load.deadline /\ call.n > 0
          /\ Deadline(late)
          /\ Machinery
    \/ SendStep(IF call.stage = "boot" THEN MaxQuanta ELSE 1) /\ Machinery

SessionNext == SessionRun \/ BootRound \/ BeginCall \/ WriteRequest \/ PumpTop
                  \/ PumpBatch \/ AdvanceFailed \/ EndCall \/ EndBoot \/ FreeSession

HostNext == \/ WriteInbox \/ CloseInbox
            \/ \E r \in Requesters : load.cancel /\ RequesterStep(r) /\ Machinery

MachineNext == \/ (WorkerStart \/ WorkerRecv \/ WorkerLoop) /\ Machinery
               \/ QuantumRan \/ QuantumStalled \/ QuantumFails

GuestNext == SessionNext \/ HostNext \/ MachineNext

(***************************************************************************)
(* Fairness: the threads of the process are scheduled.  The session thread *)
(* finishes the run and the call it is in, the worker serves its queue, a  *)
(* requester that fired the token finishes firing it.  Nothing says that   *)
(* the host makes a call, frees the session, queues stdin or cancels.      *)
(***************************************************************************)
InCall == BootRound \/ WriteRequest \/ PumpTop \/ PumpBatch \/ AdvanceFailed
             \/ EndCall \/ EndBoot

GuestSpec ==
    /\ GuestInit /\ [][GuestNext]_allVars
    /\ WF_vmVars(Launch \/ Started \/ Attach \/ RunStep)
    /\ WF_allVars(InCall)
    /\ WF_vmVars(WorkerStep)
    /\ \A r \in Requesters : WF_vmVars(Upgrade(r) \/ CancelMachine(r))

-----------------------------------------------------------------------------
(* Every field stays in its range: the exchange counts no more frames than *)
(* its limit, the host's control queue and the agent's table stay within   *)
(* their capacities (pump, pump_output, start).                            *)
GuestTypeOK ==
    /\ VmTypeOK
    /\ load \in Loads
    /\ call.stage \in {"boot", "hello", "idle", "exec", "stdin", "eof", "collect", "end"}
    /\ call.kind \in Kinds \cup {"boot"}
    /\ call.n \in 0..Len(load.calls)
    /\ call.seen \in 0..MaxFrames
    /\ Len(wire.up) <= HostCap
    /\ guest.agent \in {"booting", "ready", "failed", "dead"}
    /\ Cardinality(Running(guest)) <= MaxConcurrent

(* A call that succeeds reports exactly what its own process wrote, whole  *)
(* and in order, and that process has exited.  Frames of an execution that *)
(* an earlier, failed call left running may sit in the UART, in the host   *)
(* queue or half-read in the decoder when the call starts, and bytes may   *)
(* have been dropped; execute_with_stdin must neither take them for its    *)
(* own nor miss events that arrived with a response.                       *)
OutcomeFaithful ==
    result.status = "ok" =>
        LET p == guest.procs[result.ex]
        IN  /\ p.call = result.n
            /\ p.exited
            /\ result.out = [i \in 1..p.wrote |-> i]

(* Queued stdin reaches only the execution it was queued for, in order and *)
(* without repeats, across calls that ended early: the inbox is emptied    *)
(* when an interactive call starts and the client forgets its previous     *)
(* execution before it writes anything.  A chunk is missing in the middle  *)
(* only if the agent turned it away; write_pending_stdin does not look at  *)
(* the reply, so the host goes on with the next one, and nothing the host  *)
(* or the UART loses on the way opens such a gap.                          *)
StdinStaysWithItsCall ==
    \A p \in DOMAIN guest.procs :
        LET q == guest.procs[p]
        IN  \A i \in DOMAIN q.stdin :
               /\ q.stdin[i][1] = q.call
               /\ \A j \in 1..i - 1 : q.stdin[j][2] < q.stdin[i][2]
               /\ \A k \in 1..q.stdin[i][2] : <<q.call, k>> \in ToSet(q.stdin) \cup q.refused

(* Every call returns, and so does a boot, whatever the guest does: it may *)
(* stay silent, stop answering, flood the channel, halt or fault, and a    *)
(* requester may fire the token at any point (advance is bounded by the    *)
(* quantum and the pump by its budget).                                    *)
CallsReturn == []<>(caller = "gone" \/ call.stage = "idle")

(* The worker thread does not outlive the machine: once the session is     *)
(* gone it ends, also when the startup timeout gave up on it, and when a   *)
(* requester and not the session held the last reference.                  *)
WorkerEnds == [](caller = "gone" => <>(worker.at \in {"none", "gone"}))

(* A call that fails because its token fired says so: rish.h promises that *)
(* a cancelled exec returns E_VM_CANCELLED, not an error of the provider.  *)
(* The code breaks this: run_bounded and run_quantum each read the flag.   *)
CancelledCallsSaySo == result.status = "stalled" => reason = 0
====
