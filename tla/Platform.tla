------------------------------ MODULE Platform ------------------------------
(***************************************************************************)
(* The interpreted machine of rish-softvm-core around its interrupts: the  *)
(* CPU's step (cpu/mod.rs, cpu/interrupts.rs), the chips of InterruptChips *)
(* wired by memory.rs, two virtio block devices (virtio/block.rs) and the  *)
(* virtio network device (virtio/net.rs) on VirtioQueue.                   *)
(*                                                                         *)
(* One step of the CPU delivers an interrupt, executes one instruction and *)
(* every 64 instructions ticks the devices; `phase` names the part that    *)
(* comes next, and any instruction may be the 64th.  A tick goes through   *)
(* the devices in the order of service_devices; a drain takes one step per *)
(* request, and nothing else runs meanwhile.                               *)
(*                                                                         *)
(* The guest is external.  A workload gives its main program and the       *)
(* handler of each vector as sequences of instructions; an instruction is  *)
(* one register access, or what the driver does to a ring between two.     *)
(***************************************************************************)
EXTENDS InterruptChips, VirtioQueue, SequencesExt

CONSTANTS
    Workloads,       \* the guests and hosts considered
    UartCapacity,    \* input_capacity of a UART
    BacklogCap,      \* RX_BACKLOG_CAP of net.rs
    RxBatch          \* RX_BATCH_PER_POLL of net.rs

ASSUME BoundsAssumption == UartCapacity \in Nat \ {0} /\ BacklogCap \in Nat \ {0} /\ RxBatch \in Nat \ {0}

VARIABLES
    load,            \* the workload, chosen once
    phase,           \* what the CPU's step does next
    cpu,             \* flags and the stack of interrupted programs
    lapic, ioapic, pic, pit, uart,
    disk,            \* per block device: queue, device, backend, driver
    net,             \* the network device, its backend and its driver
    guest            \* what the guest has seen, and the host's serial queues

chips == <<lapic, ioapic, pic, pit, uart>>

devices == <<disk, net>>

vars == <<load, phase, cpu, chips, devices, guest>>

-----------------------------------------------------------------------------
(* Wiring *)

Ports == {"console", "control"}

IrqLine == [console |-> 4, control |-> 3, blk |-> 10, net |-> 11, blk2 |-> 12]

(* cpu.lines is never asserted: every source is a pulse *)
Levels == {}

(* A pulse on `lines` reaches both controllers; the local APIC only records *)
(* the request, and dispatches it at its next tick or register write        *)
Pulse(p, io, l, lines) ==
    /\ pic' = PicPulse(p, lines)
    /\ LET fired == IoapicPulse(io, lines, Levels)
       IN ioapic' = fired.io /\ lapic' = Request(l, fired.fired)

SerialEdges(u) == {IrqLine[p] : p \in {q \in Ports : UartEdge(u[q])}}

-----------------------------------------------------------------------------
(* Delivery: deliver_pending.  A frame is a program with its next           *)
(* instruction and the interrupt flag to restore; `by` and `ended` are      *)
(* history: which controller delivered, and whether the handler wrote EOI.  *)

Frame(code, by) == [code |-> code, at |-> 1, flag |-> cpu.flag, by |-> by, ended |-> FALSE]

Enter(c, v, by) ==
    [c EXCEPT !.flag = @ /\ v \in load.trap, !.waiting = FALSE, !.frames = Append(@, Frame(v, by))]

(* What step() does after the delivery *)
After(c) == IF c.waiting THEN "tick" ELSE "execute"

DeliverShadow ==
    /\ phase = "deliver" /\ ~cpu.halted /\ cpu.shadow
    /\ cpu' = [cpu EXCEPT !.shadow = FALSE]
    /\ phase' = After(cpu)
    /\ UNCHANGED <<load, chips, devices, guest>>

CanDeliver == phase = "deliver" /\ ~cpu.halted /\ ~cpu.shadow

DeliverSoft ==
    /\ CanDeliver /\ cpu.soft # <<>>
    /\ cpu' = [Enter(cpu, Head(cpu.soft), "soft") EXCEPT !.soft = Tail(@)]
    /\ phase' = "execute"
    /\ UNCHANGED <<load, chips, devices, guest>>

DeliverLapic ==
    /\ CanDeliver /\ cpu.soft = <<>> /\ cpu.flag /\ lapic.queue # <<>>
    /\ cpu' = Enter(cpu, Head(lapic.queue), "lapic")
    /\ lapic' = [lapic EXCEPT !.queue = Tail(@)]
    /\ phase' = "execute"
    /\ UNCHANGED <<load, ioapic, pic, pit, uart, devices, guest>>

DeliverPic ==
    /\ CanDeliver /\ cpu.soft = <<>> /\ cpu.flag /\ lapic.queue = <<>>
    /\ \E irq \in PendingIrq(pic) :
          /\ cpu' = Enter(cpu, IrqVector(pic, irq), "pic")
          /\ pic' = Acknowledge(pic, irq)
    /\ phase' = "execute"
    /\ UNCHANGED <<load, lapic, ioapic, pit, uart, devices, guest>>

DeliverNothing ==
    /\ CanDeliver /\ cpu.soft = <<>>
    /\ cpu.flag => lapic.queue = <<>> /\ PendingIrq(pic) = {}
    /\ phase' = After(cpu)
    /\ UNCHANGED <<load, cpu, chips, devices, guest>>

(* run_instructions of a halted CPU *)
Stopped == phase = "deliver" /\ cpu.halted /\ UNCHANGED vars

Deliver == DeliverShadow \/ DeliverSoft \/ DeliverLapic \/ DeliverPic \/ DeliverNothing

-----------------------------------------------------------------------------
(* Execution *)

Top == Last(cpu.frames)

(* A vector the guest never set up returns at once *)
Program(code) == IF code \in DOMAIN load.code THEN load.code[code] ELSE <<[op |-> "iret"]>>

Here == Program(Top.code)[Top.at]

(* The instruction at hand is `op`; it may be the one that reaches the tick *)
Op(op) ==
    /\ phase = "execute" /\ Here.op = op
    /\ phase' \in {"deliver", "tick"}
    /\ UNCHANGED load

Goto(c, at) == [c EXCEPT !.frames[Len(c.frames)].at = at]

Advanced(c) == Goto(c, Top.at + 1)

Retire == cpu' = Advanced(cpu)

Cli == Op("cli") /\ cpu' = [Advanced(cpu) EXCEPT !.flag = FALSE] /\ UNCHANGED <<chips, devices, guest>>

(* Mutant: interrupts are recognised right after sti *)
StiNoShadow ==
    /\ Op("sti") /\ cpu' = [Advanced(cpu) EXCEPT !.flag = TRUE]
    /\ UNCHANGED <<chips, devices, guest>>

Sti ==
    /\ Op("sti") /\ cpu' = [Advanced(cpu) EXCEPT !.flag = TRUE, !.shadow = ~cpu.flag]
    /\ UNCHANGED <<chips, devices, guest>>

Hlt ==
    /\ Op("hlt") /\ cpu' = [Advanced(cpu) EXCEPT !.waiting = cpu.flag, !.halted = ~cpu.flag]
    /\ UNCHANGED <<chips, devices, guest>>

IntN ==
    /\ Op("int") /\ cpu' = [Advanced(cpu) EXCEPT !.soft = Append(@, Here.vector)]
    /\ UNCHANGED <<chips, devices, guest>>

Iret ==
    /\ Op("iret") /\ cpu' = [cpu EXCEPT !.flag = Top.flag, !.frames = Front(@)]
    /\ UNCHANGED <<chips, devices, guest>>

(* Branches, and notes the guest takes, on what it can read *)
Holds(c) ==
    CASE c.on = "noted" -> guest.noted >= c.n
      [] c.on = "input" -> uart[c.port].in # <<>>
      [] c.on = "read" -> Len(guest.read) >= c.n
      [] c.on = "room" -> disk[c.dev].q.free # {} /\ disk[c.dev].next <= Len(load.requests[c.dev])
      [] c.on = "used" -> disk[c.dev].q.last # disk[c.dev].q.used
      [] c.on = "served" -> disk[c.dev].reaped = DOMAIN load.requests[c.dev]
      [] c.on = "frame" -> net.rx.last # net.rx.used
      [] c.on = "sent" -> net.tx.last # net.tx.used
      [] c.on = "space" -> net.tx.free # {} /\ net.next <= load.sends
      [] c.on = "idle" -> net.tx.free = Slots /\ net.next > load.sends

(* LSR is a register of the UART, and reading it polls the edges *)
When ==
    /\ Op("when") /\ cpu' = Goto(cpu, IF Holds(Here.if) THEN Here.to ELSE Top.at + 1)
    /\ IF Here.if.on = "input" THEN Pulse(pic, ioapic, lapic, SerialEdges(uart)) ELSE UNCHANGED <<lapic, ioapic, pic>>
    /\ UNCHANGED <<pit, uart, devices, guest>>

Note ==
    /\ Op("note") /\ Retire /\ guest' = [guest EXCEPT !.noted = Min({@ + 1, 2})]
    /\ UNCHANGED <<chips, devices>>

Done ==
    /\ Op("done") /\ Retire /\ guest' = [guest EXCEPT !.done = TRUE]
    /\ UNCHANGED <<chips, devices>>

CpuOp == Cli \/ Sti \/ Hlt \/ IntN \/ Iret \/ When \/ Note \/ Done

-----------------------------------------------------------------------------
(* Registers of the interrupt controllers and of the PIT *)

LapicEnable ==
    /\ Op("svr") /\ Retire /\ lapic' = DispatchReady([lapic EXCEPT !.on = TRUE])
    /\ UNCHANGED <<ioapic, pic, pit, uart, devices, guest>>

LapicTpr ==
    /\ Op("tpr") /\ Retire /\ lapic' = DispatchReady([lapic EXCEPT !.tpr = Here.n])
    /\ UNCHANGED <<ioapic, pic, pit, uart, devices, guest>>

LapicIpi ==
    /\ Op("ipi") /\ Retire /\ lapic' = SendIpi(lapic, Here.vector)
    /\ UNCHANGED <<ioapic, pic, pit, uart, devices, guest>>

(* The LVT entry and then the initial count *)
LapicTimer ==
    /\ Op("timer") /\ Retire
    /\ lapic' = [lapic EXCEPT !.timer = [masked |-> FALSE, periodic |-> Here.periodic, vector |-> Here.vector,
                                         initial |-> Here.n, current |-> Here.n]]
    /\ UNCHANGED <<ioapic, pic, pit, uart, devices, guest>>

(* Memory::write: the retired vector is passed on, and may fire again *)
Eoi ==
    /\ Op("eoi")
    /\ cpu' = [Advanced(cpu) EXCEPT !.frames[Len(cpu.frames)].ended = TRUE]
    /\ LET end == IoapicEoi(ioapic, Retired(lapic))
       IN ioapic' = end.io /\ lapic' = Request(LapicEoi(lapic), end.fired)
    /\ UNCHANGED <<pic, pit, uart, devices, guest>>

IoapicEntry ==
    /\ Op("entry") /\ Retire /\ ioapic' = WriteEntry(ioapic, Here.pin, Here.entry)
    /\ UNCHANGED <<lapic, pic, pit, uart, devices, guest>>

PicOp ==
    /\ Retire
    /\ \/ Op("icw1") /\ pic' = WriteIcw1(pic, Here.chip, TRUE)
       \/ Op("data") /\ pic' = WriteData(pic, Here.chip, Here.v)
       \/ Op("ocw2") /\ pic' = WriteEoi(pic, Here.chip)
       \/ Op("ocw2s") /\ pic' = WriteSpecificEoi(pic, Here.chip, Here.line)
    /\ UNCHANGED <<lapic, ioapic, pit, uart, devices, guest>>

PitOp ==
    /\ Retire
    /\ \/ Op("mode") /\ pit' = PitMode(pit, Here.periodic)
       \/ Op("count") /\ pit' = PitReload(pit, Here.n)
    /\ UNCHANGED <<lapic, ioapic, pic, uart, devices, guest>>

(* Every access to a UART register polls the edges of both UARTs *)
UartAccess(u) == uart' = u /\ Pulse(pic, ioapic, lapic, SerialEdges(u))

WriteIer ==
    /\ Op("ier") /\ Retire
    /\ UartAccess([uart EXCEPT ![Here.port].rx = Here.rx, ![Here.port].tx = Here.tx])
    /\ UNCHANGED <<pit, devices, guest>>

(* An empty receiver reads as zero *)
ReadRbr ==
    /\ Op("rbr") /\ Retire
    /\ LET in == uart[Here.port].in
       IN /\ guest' = [guest EXCEPT !.read = Append(@, IF in = <<>> THEN 0 ELSE Head(in))]
          /\ UartAccess([uart EXCEPT ![Here.port].in = IF in = <<>> THEN in ELSE Tail(in)])
    /\ UNCHANGED <<pit, devices>>

WriteThr ==
    /\ Op("thr") /\ Retire
    /\ LET full == Len(uart[Here.port].out) >= UartCapacity
       IN UartAccess([uart EXCEPT ![Here.port].out = IF full THEN @ ELSE Append(@, Here.n),
                                  ![Here.port].dropped = IF full THEN @ + 1 ELSE @])
    /\ UNCHANGED <<pit, devices, guest>>

ChipOp ==
    LapicEnable \/ LapicTpr \/ LapicIpi \/ LapicTimer \/ Eoi \/ IoapicEntry \/ PicOp \/ PitOp
        \/ WriteIer \/ ReadRbr \/ WriteThr

-----------------------------------------------------------------------------
(* Block devices: the driver's side.  `answer` is the status byte and the   *)
(* data the device wrote for each request, `next` the next request to post, *)
(* `reaped` the requests the driver has seen completed.                     *)

Disks == DOMAIN load.requests

Unanswered == [status |-> "none", value |-> 0]

(* Queue configuration, QUEUE_READY and DRIVER_OK on fresh rings *)
DiskSetup ==
    /\ Op("setup") /\ Retire
    /\ disk' = [disk EXCEPT ![Here.dev].q = FreshRings(@), ![Here.dev].ok = TRUE]
    /\ UNCHANGED <<chips, net, guest>>

DiskPost ==
    /\ Op("post") /\ Retire
    /\ disk' = [disk EXCEPT ![Here.dev].q = PostBuffer(@, disk[Here.dev].next), ![Here.dev].next = @ + 1]
    /\ UNCHANGED <<chips, net, guest>>

(* QUEUE_NOTIFY only leaves a note for the tick *)
DiskKick ==
    /\ Op("kick") /\ Retire
    /\ disk' = [disk EXCEPT ![Here.dev].q.kick = @ \/ disk[Here.dev].q.ready]
    /\ UNCHANGED <<chips, net, guest>>

DiskAck ==
    /\ Op("ack") /\ Retire /\ disk' = [disk EXCEPT ![Here.dev].irq = FALSE]
    /\ UNCHANGED <<chips, net, guest>>

DiskReap ==
    /\ Op("reap") /\ Retire
    /\ LET q == disk[Here.dev].q
       IN disk' = [disk EXCEPT ![Here.dev].q = ReapBuffer(q), ![Here.dev].reaped = @ \cup {q.at[UsedHead(q)]}]
    /\ UNCHANGED <<chips, net, guest>>

(* Mutant: a reset keeps the position in the available ring *)
ResetKeepsSeen(q) == [q EXCEPT !.ready = FALSE, !.kick = FALSE]

ResetQueue(q) == [q EXCEPT !.ready = FALSE, !.kick = FALSE, !.seen = 0]

(* STATUS = 0, and the driver takes back what it has not seen completed.    *)
(* The fault survives.                                                      *)
DiskReset ==
    /\ Op("reset") /\ Retire
    /\ LET d == disk[Here.dev]
       IN disk' = [disk EXCEPT ![Here.dev] =
             [d EXCEPT !.q = ResetQueue(@), !.ok = FALSE, !.irq = FALSE, !.next = Cardinality(d.reaped) + 1,
                       !.answer = [n \in DOMAIN d.answer |-> IF n \in d.reaped THEN d.answer[n] ELSE Unanswered]]]
    /\ UNCHANGED <<chips, net, guest>>

DiskOp == DiskSetup \/ DiskPost \/ DiskKick \/ DiskAck \/ DiskReap \/ DiskReset

-----------------------------------------------------------------------------
(* The network device: the driver's side.  Frames are numbered by arrival;  *)
(* a buffer carries its frame, or 0 for none.                               *)

(* The frames in buffers the driver has not reaped *)
Frames(q) == SelectSeq(Unreaped(q), LAMBDA f : f # 0)

(* Both queues on fresh rings; what the old ones held is gone *)
NetOn(n) ==
    [n EXCEPT !.rx = FreshRings(@), !.tx = FreshRings(@), !.lost = @ + Len(Frames(n.rx))]

(* STATUS = 0 drops the backlog and resets the backend with it *)
NetReset(n) ==
    [n EXCEPT !.rx = ResetQueue(@), !.tx = ResetQueue(@), !.irq = FALSE,
              !.backlog = <<>>, !.backend = <<>>,
              !.lost = @ + Len(n.backlog) + Len(n.backend)]

(* The frame of the buffer the driver reaps, if it has one *)
Received(q) == SelectSeq(<<q.at[UsedHead(q)]>>, LAMBDA f : f # 0)

NetOp ==
    /\ Retire
    /\ \/ Op("netsetup") /\ net' = NetOn(net)
       \/ Op("netreset") /\ net' = NetReset(net)
       \/ Op("buffer") /\ net' = [net EXCEPT !.rx = PostBuffer(@, 0)]
       \/ Op("take") /\ net' = [net EXCEPT !.rx = ReapBuffer(@), !.given = @ \o Received(net.rx)]
       \/ Op("send") /\ net' = [net EXCEPT !.tx = PostBuffer(@, net.next), !.next = @ + 1]
       \/ Op("notify") /\ net' = [net EXCEPT !.tx.kick = @ \/ net.tx.ready]
       \/ Op("reclaim") /\ net' = [net EXCEPT !.tx = ReapBuffer(@)]
       \/ Op("netack") /\ net' = [net EXCEPT !.irq = FALSE]
    /\ UNCHANGED <<chips, disk, guest>>

Execute == CpuOp \/ ChipOp \/ DiskOp \/ NetOp

-----------------------------------------------------------------------------
(* The tick: service_devices.  load.stages lists "tick", the devices that   *)
(* are attached, and "end".                                                 *)

NextStage == load.stages[1 + CHOOSE i \in DOMAIN load.stages : load.stages[i] = phase]

TickChips ==
    /\ phase = "tick" /\ phase' = NextStage
    /\ pit' = PitAdvance(pit, load.pitTicks)
    /\ Pulse(pic, ioapic, LapicTick(lapic, load.elapsed),
             SerialEdges(uart) \cup (IF PitFires(pit, load.pitTicks) THEN {0} ELSE {}))
    /\ UNCHANGED <<load, cpu, uart, devices, guest>>

TickEnd ==
    /\ phase = "end" /\ phase' = "deliver"
    /\ pic' = SetInput(pic, Levels)
    /\ LET set == SetLines(ioapic, Levels) IN ioapic' = set.io /\ lapic' = Request(lapic, set.fired)
    /\ UNCHANGED <<load, cpu, pit, uart, devices, guest>>

(* An edge on the line of device d if the poll completed something *)
Completed(d, some) ==
    IF some THEN Pulse(pic, ioapic, lapic, {IrqLine[d]}) ELSE UNCHANGED <<pic, ioapic, lapic>>

-----------------------------------------------------------------------------
(* Block devices: poll_kick.  A drain works on `cursor` and keeps it only   *)
(* when it succeeds.                                                        *)

Serviceable(d) == ~d.fault /\ d.q.ready /\ d.ok

DiskPoll(n) ==
    /\ phase = n /\ n \in Disks /\ ~disk[n].busy
    /\ LET d == [disk[n] EXCEPT !.q.kick = FALSE]
           drains == disk[n].q.kick /\ Serviceable(d) /\ ~Overrun(d.q, d.q.seen)
       IN /\ disk' = [disk EXCEPT ![n] =
                IF drains THEN [d EXCEPT !.busy = TRUE, !.cursor = d.q.seen]
                ELSE [d EXCEPT !.fault = @ \/ (disk[n].q.kick /\ Serviceable(d))]]
          /\ phase' = IF drains THEN phase ELSE NextStage
    /\ UNCHANGED <<load, cpu, chips, net, guest>>

Done1(d, status, value) == [d |-> d, answer |-> [status |-> status, value |-> value]]

(* Mutant: a write that fails is answered with success *)
OutcomesSwallowed(d, r) ==
    CASE r.kind = "get_id" -> {Done1(d, "ok", 0)}
      [] r.kind = "flush" -> {Done1(d, "unsupp", 0)}
      [] r.sector \notin DOMAIN d.sectors -> {Done1(d, "ioerr", 0)}
      [] r.kind = "in" -> {Done1(d, "ok", d.sectors[r.sector])}
      [] r.kind = "out" ->
            {Done1(x, "ok", 0) : x \in {[d EXCEPT !.sectors[r.sector] = r.value]} \cup (IF load.writesFail THEN {d} ELSE {})}

(* The outcomes of a request whose chain is a header, data and a status; a  *)
(* write that fails may have been committed.  Flush is not offered.         *)
Outcomes(d, r) ==
    CASE r.kind = "get_id" -> {Done1(d, "ok", 0)}
      [] r.kind = "flush" -> {Done1(d, "unsupp", 0)}
      [] r.sector \notin DOMAIN d.sectors -> {Done1(d, "ioerr", 0)}
      [] r.kind = "in" -> {Done1(d, "ok", d.sectors[r.sector])}
      [] r.kind = "out" ->
            LET written == [d EXCEPT !.sectors[r.sector] = r.value]
            IN {Done1(written, "ok", 0)} \cup
               (IF load.writesFail THEN {Done1(x, "ioerr", 0) : x \in {d, written}} ELSE {})

Current(n) == LET d == disk[n] IN d.q.at[AvailHead(d.q, d.cursor)]

DiskServe(n) ==
    /\ phase = n /\ n \in Disks /\ disk[n].busy /\ disk[n].cursor # disk[n].q.avail
    /\ \E x \in Outcomes(disk[n], load.requests[n][Current(n)]) :
          disk' = [disk EXCEPT ![n] =
              [x.d EXCEPT !.q = WriteUsed(@, AvailHead(@, x.d.cursor)), !.cursor = Next16(@),
                          !.answer[Current(n)] = x.answer]]
    /\ UNCHANGED <<load, phase, cpu, chips, net, guest>>

(* read_at fails: the error leaves the drain, and the fault is latched      *)
DiskReadFails(n) ==
    /\ phase = n /\ n \in Disks /\ disk[n].busy /\ disk[n].cursor # disk[n].q.avail
    /\ load.readsFail
    /\ LET r == load.requests[n][Current(n)] IN r.kind = "in" /\ r.sector \in DOMAIN disk[n].sectors
    /\ disk' = [disk EXCEPT ![n].busy = FALSE, ![n].fault = TRUE]
    /\ phase' = NextStage
    /\ UNCHANGED <<load, cpu, chips, net, guest>>

DiskDrained(n) ==
    /\ phase = n /\ n \in Disks /\ disk[n].busy /\ disk[n].cursor = disk[n].q.avail
    /\ LET some == disk[n].cursor # disk[n].q.seen
       IN /\ disk' = [disk EXCEPT ![n].busy = FALSE, ![n].q.seen = disk[n].cursor, ![n].irq = @ \/ some]
          /\ Completed(n, some)
    /\ phase' = NextStage
    /\ UNCHANGED <<load, cpu, pit, uart, net, guest>>

DiskStep == \E n \in {"blk", "blk2"} : DiskPoll(n) \/ DiskServe(n) \/ DiskReadFails(n) \/ DiskDrained(n)

-----------------------------------------------------------------------------
(* The network device: poll_inner, in the stages "tx", "poll" and "rx".     *)
(* `some` is `completed`.  DRIVER_OK is not looked at.                      *)

NetTxPoll ==
    /\ phase = "tx" /\ ~net.busy
    /\ LET drains == net.tx.kick /\ net.tx.ready
           overrun == drains /\ Overrun(net.tx, net.tx.seen)
       IN IF net.fault
          THEN phase' = "end" /\ UNCHANGED net
          ELSE /\ net' = [net EXCEPT !.tx.kick = FALSE, !.busy = drains /\ ~overrun, !.fault = overrun]
               /\ phase' = IF overrun THEN "end" ELSE IF drains THEN "tx" ELSE NextStage
    /\ UNCHANGED <<load, cpu, chips, disk, guest>>

(* process_tx drops an oversize frame, and the buffer is completed all the same *)
Forward(sent, frame) == IF frame \in load.oversize THEN sent ELSE Append(sent, frame)

NetTransmit ==
    /\ phase = "tx" /\ net.busy /\ net.tx.seen # net.tx.avail
    /\ LET head == AvailHead(net.tx, net.tx.seen)
       IN net' = [net EXCEPT !.tx = [WriteUsed(@, head) EXCEPT !.seen = Next16(@)], !.some = TRUE,
                             !.sent = Forward(@, net.tx.at[head])]
    /\ UNCHANGED <<load, phase, cpu, chips, disk, guest>>

NetTransmitted ==
    /\ phase = "tx" /\ net.busy /\ net.tx.seen = net.tx.avail
    /\ net' = [net EXCEPT !.busy = FALSE]
    /\ phase' = NextStage
    /\ UNCHANGED <<load, cpu, chips, disk, guest>>

(* A frame from outside waits in the backend for the next poll *)
HostFrame ==
    /\ phase = "poll" /\ net.arrived < load.frames
    /\ net' = [net EXCEPT !.arrived = @ + 1, !.backend = Append(@, net.arrived + 1)]
    /\ UNCHANGED <<load, phase, cpu, chips, disk, guest>>

(* The oldest frames give way *)
Backlogged(frames) == SubSeq(frames, Max({1, Len(frames) - BacklogCap + 1}), Len(frames))

(* The backend is polled at most once a millisecond *)
NetPoll(due) ==
    /\ phase = "poll" /\ phase' = NextStage
    /\ LET all == net.backlog \o net.backend
       IN net' = IF due
                 THEN [net EXCEPT !.backend = <<>>, !.backlog = Backlogged(all),
                                  !.dropped = @ + Max({0, Len(all) - BacklogCap})]
                 ELSE net
    /\ UNCHANGED <<load, cpu, chips, disk, guest>>

(* Mutant: buffers are filled only after a kick of the receive queue *)
ReceivesWhenKicked ==
    /\ net.rx.ready /\ net.rx.kick /\ net.backlog # <<>> /\ net.rx.seen # net.rx.avail /\ net.batch < RxBatch
    /\ ~Overrun(net.rx, net.rx.seen)

Receives ==
    /\ net.rx.ready /\ net.backlog # <<>> /\ net.rx.seen # net.rx.avail /\ net.batch < RxBatch
    /\ ~Overrun(net.rx, net.rx.seen)

(* Mutant: the newest frame first *)
PopBack(frames) == [frame |-> Last(frames), rest |-> Front(frames)]

PopFront(frames) == [frame |-> Head(frames), rest |-> Tail(frames)]

(* An oversize frame is dropped, and leaves an empty buffer behind *)
NetReceive ==
    /\ phase = "rx" /\ Receives
    /\ LET head == AvailHead(net.rx, net.rx.seen)
           pop == PopFront(net.backlog)
           big == pop.frame \in load.oversize
       IN net' = [net EXCEPT !.rx = [WriteUsed(@, head) EXCEPT !.seen = Next16(@),
                                                               !.at[head] = IF big THEN 0 ELSE pop.frame],
                             !.backlog = pop.rest, !.batch = @ + 1, !.some = TRUE,
                             !.dropped = IF big THEN @ + 1 ELSE @]
    /\ UNCHANGED <<load, phase, cpu, chips, disk, guest>>

NetDone ==
    /\ phase = "rx" /\ ~Receives
    /\ LET overrun == net.rx.ready /\ net.backlog # <<>> /\ Overrun(net.rx, net.rx.seen)
           some == net.some /\ ~overrun
       IN /\ net' = [net EXCEPT !.some = FALSE, !.batch = 0, !.fault = overrun, !.irq = @ \/ some]
          /\ Completed("net", some)
    /\ phase' = NextStage
    /\ UNCHANGED <<load, cpu, pit, uart, disk, guest>>

NetStep ==
    NetTxPoll \/ NetTransmit \/ NetTransmitted \/ HostFrame \/ (\E due \in BOOLEAN : NetPoll(due))
        \/ NetReceive \/ NetDone

Tick == TickChips \/ DiskStep \/ NetStep \/ TickEnd

-----------------------------------------------------------------------------
(* PureRustMachine::pump_input, between two quanta: what the host queued    *)
(* for a UART moves in, and what does not fit is gone                       *)
PumpInput(p) ==
    /\ phase = "deliver" /\ guest.toRead[p] # <<>>
    /\ guest' = [guest EXCEPT !.toRead[p] = <<>>]
    /\ uart' = [uart EXCEPT ![p].in =
                   @ \o SubSeq(guest.toRead[p], 1, Min({Len(guest.toRead[p]), UartCapacity - Len(@)}))]
    /\ UNCHANGED <<load, phase, cpu, lapic, ioapic, pic, pit, devices>>

PumpOutput(p) ==
    /\ phase = "deliver" /\ uart[p].out # <<>>
    /\ guest' = [guest EXCEPT !.written[p] = @ \o uart[p].out]
    /\ uart' = [uart EXCEPT ![p].out = <<>>]
    /\ UNCHANGED <<load, phase, cpu, lapic, ioapic, pic, pit, devices>>

Pump == \E p \in Ports : PumpInput(p) \/ PumpOutput(p)

-----------------------------------------------------------------------------
NewDisk(n) ==
    [q |-> NewQueue, ok |-> FALSE, irq |-> FALSE, fault |-> FALSE, busy |-> FALSE, cursor |-> 0,
     sectors |-> [x \in load.sectors |-> 0], answer |-> [k \in DOMAIN load.requests[n] |-> Unanswered],
     next |-> 1, reaped |-> {}]

NewNet ==
    [rx |-> NewQueue, tx |-> NewQueue, irq |-> FALSE, fault |-> FALSE, busy |-> FALSE, some |-> FALSE, batch |-> 0,
     backlog |-> <<>>, backend |-> <<>>, arrived |-> 0, dropped |-> 0, lost |-> 0,
     given |-> <<>>, next |-> 1, sent |-> <<>>]

Init ==
    /\ load \in Workloads
    /\ phase = "deliver"
    /\ cpu = [flag |-> FALSE, shadow |-> FALSE, waiting |-> FALSE, halted |-> FALSE, soft |-> <<>>,
              frames |-> <<[code |-> 0, at |-> 1, flag |-> FALSE, by |-> "main", ended |-> FALSE]>>]
    /\ lapic = LapicReset /\ ioapic = IoapicReset /\ pic = PicReset /\ pit = PitReset
    /\ uart = [p \in Ports |-> UartReset]
    /\ disk = [n \in Disks |-> NewDisk(n)]
    /\ net = NewNet
    /\ guest = [noted |-> 0, read |-> <<>>, done |-> FALSE, toRead |-> load.toRead,
                written |-> [p \in Ports |-> <<>>]]

Next == Deliver \/ Execute \/ Tick \/ Pump \/ Stopped

Spec == Init /\ [][Next]_vars

(* Everything runs on one thread that keeps stepping; the countdown reaches *)
(* the tick again and again; host bytes are pumped at every quantum, frames *)
(* from outside keep coming, and the backend's millisecond passes           *)
FairSpec ==
    /\ Spec
    /\ WF_vars(Deliver) /\ WF_vars(Execute) /\ WF_vars(Tick)
    /\ SF_vars(Execute /\ phase' = "tick")
    /\ SF_vars(Pump) /\ SF_vars(HostFrame) /\ SF_vars(NetPoll(TRUE))

-----------------------------------------------------------------------------
(* Properties *)

QueueOK(q) ==
    /\ {q.ready, q.kick} \subseteq BOOLEAN
    /\ {q.seen, q.avail, q.used, q.last} \subseteq 0..IndexMod - 1
    /\ q.free \subseteq Slots
    /\ q.ready => (q.avail - q.seen) % IndexMod <= QueueSize

(* The types, with the bounds the code relies on: the index window of a     *)
(* ring never exceeds its size, the backlog its cap, a running timer its    *)
(* period.                                                                  *)
TypeOK ==
    /\ {cpu.flag, cpu.shadow, cpu.waiting, cpu.halted} \subseteq BOOLEAN
    /\ lapic.timer.current \in 0..lapic.timer.initial
    /\ pit.counter \in 0..Max({pit.reload, 1})
    /\ pic.latched \subseteq 0..15 /\ pic.inputs = Levels /\ ioapic.lines = Levels
    /\ \A n \in Disks : QueueOK(disk[n].q) /\ disk[n].cursor \in 0..IndexMod - 1
    /\ QueueOK(net.rx) /\ QueueOK(net.tx) /\ Len(net.backlog) <= BacklogCap
    /\ \A p \in Ports : Len(uart[p].in) <= UartCapacity /\ Len(uart[p].out) <= UartCapacity

(* The handlers the local APIC started that have not written EOI *)
Unended == {i \in DOMAIN cpu.frames : cpu.frames[i].by = "lapic" /\ ~cpu.frames[i].ended}

(* The local APIC keeps the balance of services and EOIs: the number of    *)
(* vectors in service is the number that wait in the queue of the CPU plus  *)
(* the number of handlers that still owe an EOI.  So dispatch_ready never   *)
(* loses a vector to QUEUE_LIMIT, the last EOI empties the service, and no  *)
(* class stays blocked after it.  It is a balance of counts: an EOI retires *)
(* the highest vector in service, which need not be the one of its handler, *)
(* so a vector may be queued and no longer in service, or in service after  *)
(* its handler wrote EOI.                                                   *)
(* A level entry whose remote-IRR bit blocks its pin waits for a vector     *)
(* that is requested or in service, so some EOI will release it             *)
(* (set_lines and end_of_interrupt of ioapic.rs, Memory::write).            *)
Balanced ==
    /\ Cardinality(lapic.isr) = Len(lapic.queue) + Cardinality(Unended)
    /\ \A p \in Pins : ioapic.entry[p].level /\ ioapic.entry[p].remote
                           => ioapic.entry[p].vector \in lapic.irr \cup lapic.isr

(* The CPU is interrupted only through vectors the guest programmed: a chip *)
(* whose ICW sequence is missing or half done delivers nothing, although    *)
(* both controllers latch every edge (pending_irq).                         *)
NoStrayVector == \A i \in DOMAIN cpu.frames : cpu.frames[i].code \in DOMAIN load.code

(* Requests complete in the order they were posted, each with an answer,    *)
(* across the wrap of the ring indices and across a device reset; a read    *)
(* returns what the last completed write to its sector stored               *)
(* (drain_available, process_request).                                      *)
DiskLinear ==
    \A n \in Disks : LET d == disk[n]
                         rs == load.requests[n]
                         Writes(k) == {m \in 1..k - 1 : rs[m].kind = "out" /\ rs[m].sector = rs[k].sector}
        IN /\ d.reaped = 1..Cardinality(d.reaped)
           /\ \A k \in d.reaped : d.answer[k].status # "none"
           /\ \A k \in DOMAIN rs : rs[k].kind = "in" /\ d.answer[k].status = "ok" =>
                 IF Writes(k) = {} THEN d.answer[k].value = 0
                 ELSE LET m == Max(Writes(k))
                      IN /\ d.answer[m].status # "none"
                         /\ d.answer[m].status = "ok" => d.answer[k].value = rs[m].value

(* Rings, queues and timers stay within the bounds of TypeOK, so that a     *)
(* conforming driver never trips the fail-closed latch: only a host read    *)
(* that fails does (avail_delta, poll_kick).                                *)
FaultsOnlyByHost ==
    /\ TypeOK
    /\ \A n \in Disks : disk[n].fault => load.readsFail
    /\ ~net.fault

(* Frames reach the driver in the order they arrived, and each is given to  *)
(* the driver, waiting, or counted: dropped by a full backlog or for its    *)
(* size, or discarded by a device reset (poll_inner, process_rx, reset).  A *)
(* frame the driver sends reaches the backend once and in order, and its    *)
(* buffer is completed only after that, or because it is oversize.          *)
FramesAccounted ==
    LET all == net.given \o Frames(net.rx) \o net.backlog \o net.backend
        Ordered(fs) == \A i, j \in DOMAIN fs : i < j => fs[i] < fs[j]
    IN /\ Ordered(all) /\ Ordered(net.sent)
       /\ net.arrived = Len(all) + net.dropped + net.lost
       /\ \A f \in ToSet(Unreaped(net.tx)) : f \in ToSet(net.sent) \cup load.oversize

(* No wake-up is lost: a guest that sleeps with sti; hlt until its devices  *)
(* have done their work gets to the end of its program, whatever the        *)
(* instruction at which an edge, a completion or the tick falls.            *)
TaskFinishes == <>(guest.done \/ \E n \in Disks : disk[n].fault)

(* Every frame from outside ends up with the driver or is counted, even if  *)
(* the driver never kicks the receive queue.                                *)
FramesDelivered == <>[](net.arrived = Len(net.given) + net.dropped + net.lost)

(* "a handler that has not written EOI cannot be preempted by an equal or   *)
(* lower priority vector" (lapic.rs)                                        *)
NoEqualPreemption ==
    \A i, j \in Unended : i < j => Class(cpu.frames[j].code) > Class(cpu.frames[i].code)

(* "Host backend I/O failures also complete the request with IOERR and keep *)
(* the device alive" (docs/guest-virtio-blk.md)                             *)
KeepsServing == \A n \in Disks : ~disk[n].fault
=============================================================================
