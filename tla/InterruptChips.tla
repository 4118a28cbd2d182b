--------------------------- MODULE InterruptChips ---------------------------
(***************************************************************************)
(* The interrupt chips of the interpreted machine as functions on records: *)
(* the local APIC (lapic.rs), the I/O APIC (ioapic.rs), the 8259 pair      *)
(* (pic8259.rs), and the two chips that only produce edges, the 16550      *)
(* UART (uart16550.rs) and a channel of the 8254 timer (pit8254.rs).       *)
(* Bitmaps are sets: of vectors in the local APIC, of lines elsewhere.     *)
(***************************************************************************)
EXTENDS Integers, Sequences, FiniteSets, FiniteSetsExt

CONSTANTS
    QueueLimit,      \* QUEUE_LIMIT of lapic.rs
    Pins,            \* the I/O APIC pins in use
    PitMax           \* the largest count of the PIT, u16::MAX

ASSUME QueueLimitAssumption == QueueLimit \in Nat \ {0}

ASSUME PinsAssumption == Pins \subseteq 0..23

ASSUME PitMaxAssumption == PitMax \in Nat \ {0}

-----------------------------------------------------------------------------
(* Local APIC *)

LapicReset ==
    [on |-> FALSE, tpr |-> 0, irr |-> {}, isr |-> {}, queue |-> <<>>,
     timer |-> [masked |-> TRUE, periodic |-> FALSE, vector |-> 0, initial |-> 0, current |-> 0]]

(* The priority class of a vector, or of the task priority register *)
Class(v) == v \div 16

Request(l, vectors) == [l EXCEPT !.irr = @ \cup vectors]

(* Mutant: an equal class may enter service *)
OutranksEqual(l, v) == Class(v) > Class(l.tpr) /\ \A s \in l.isr : Class(v) >= Class(s)

Outranks(l, v) == Class(v) > Class(l.tpr) /\ \A s \in l.isr : Class(v) > Class(s)

(* dispatch_ready: at most one vector enters service, and is queued for the CPU *)
DispatchReady(l) ==
    IF l.on /\ l.irr # {} /\ Outranks(l, Max(l.irr))
    THEN LET v == Max(l.irr)
         IN [l EXCEPT !.irr = @ \ {v}, !.isr = @ \cup {v},
                      !.queue = IF Len(@) < QueueLimit THEN Append(@, v) ELSE @]
    ELSE l

RaiseLvt(l) ==
    IF l.timer.masked \/ ~l.on \/ l.timer.vector < 16 THEN l ELSE Request(l, {l.timer.vector})

Reloaded(t, overshoot) ==
    [t EXCEPT !.current = IF t.periodic THEN t.initial - (overshoot % t.initial) ELSE 0]

AdvanceTimer(l, elapsed) ==
    LET t == l.timer
    IN IF t.initial = 0 \/ t.current = 0 \/ elapsed = 0 THEN l
       ELSE IF elapsed < t.current THEN [l EXCEPT !.timer.current = @ - elapsed]
       ELSE RaiseLvt([l EXCEPT !.timer = Reloaded(t, elapsed - t.current)])

LapicTick(l, elapsed) == DispatchReady(AdvanceTimer(l, elapsed))

(* A write to EOI retires the highest vector in service, whoever writes it *)
Retired(l) == IF l.isr = {} THEN {} ELSE {Max(l.isr)}

LapicEoi(l) == DispatchReady([l EXCEPT !.isr = @ \ Retired(l)])

SendIpi(l, v) == IF v >= 16 THEN DispatchReady(Request(l, {v})) ELSE l

-----------------------------------------------------------------------------
(* I/O APIC: the levels of the input lines and one redirection entry per pin *)

IoapicReset ==
    [lines |-> {},
     entry |-> [p \in Pins |-> [masked |-> TRUE, level |-> FALSE, remote |-> FALSE, vector |-> 0]]]

(* The pins that deliver when `rising` rise *)
Fires(io, rising) ==
    {p \in rising : LET e == io.entry[p] IN ~e.masked /\ ~(e.level /\ e.remote)}

SetLines(io, lines) ==
    LET fires == Fires(io, (lines \ io.lines) \cap Pins)
    IN [io |-> [lines |-> lines,
                entry |-> [p \in Pins |-> [io.entry[p] EXCEPT !.remote = @ \/ (p \in fires /\ io.entry[p].level)]]],
        fired |-> {io.entry[p].vector : p \in fires} \ (0..15)]

(* Memory::ioapic_pulse: a rising and a falling edge; pins do not interact *)
IoapicPulse(io, pins, levels) ==
    LET up == SetLines(io, levels \cup pins)
    IN [io |-> SetLines(up.io, levels \ pins).io, fired |-> up.fired]

(* The entries that wait for the end of one of `vectors` *)
Awaiting(io, vectors) ==
    {p \in Pins : LET e == io.entry[p] IN e.level /\ e.remote /\ e.vector \in vectors}

(* An entry whose line is still asserted fires again *)
IoapicEoi(io, vectors) ==
    LET ends == Awaiting(io, vectors)
        again == {p \in ends : p \in io.lines /\ ~io.entry[p].masked}
    IN [io |-> [io EXCEPT !.entry = [p \in Pins |->
                   [io.entry[p] EXCEPT !.remote = (@ /\ p \notin ends) \/ p \in again]]],
        fired |-> {io.entry[p].vector : p \in again}]

(* The remote bit is read-only *)
WriteEntry(io, p, e) ==
    [io EXCEPT !.entry[p] = [masked |-> e.masked, level |-> e.level, vector |-> e.vector, remote |-> @.remote]]

-----------------------------------------------------------------------------
(* 8259 pair.  `stage` is init_state, `ready` is initialized. *)

Chip == {"master", "slave"}

PicReset ==
    [inputs |-> {}, latched |-> {},
     chip |-> [c \in Chip |-> [base |-> 0, mask |-> {}, stage |-> 0, icw4 |-> FALSE, isr |-> {}, ready |-> FALSE]]]

(* Mutant: only the master needs its base *)
SlaveReadyIgnored(p) == TRUE

SlaveReady(p) == p.chip["slave"].ready

Requests(p, c) ==
    LET offset == IF c = "slave" THEN 8 ELSE 0
    IN {n \in 0..7 : n + offset \in p.inputs \cup p.latched} \ (p.chip[c].mask \cup p.chip[c].isr)

(* The slave's lines rank at line 2 of the master.  At most one element. *)
PendingIrq(p) ==
    LET slave == IF SlaveReady(p) THEN Requests(p, "slave") ELSE {}
        pending == (Requests(p, "master") \ {2}) \cup (IF slave # {} THEN {2} ELSE {})
    IN IF ~p.chip["master"].ready \/ pending = {} THEN {}
       ELSE IF Min(pending) = 2 THEN {8 + Min(slave)} ELSE {Min(pending)}

Acknowledge(p, irq) ==
    IF irq >= 8
    THEN [p EXCEPT !.latched = @ \ {irq}, !.chip["slave"].isr = @ \cup {irq - 8}, !.chip["master"].isr = @ \cup {2}]
    ELSE [p EXCEPT !.latched = @ \ {irq}, !.chip["master"].isr = @ \cup {irq}]

IrqVector(p, irq) == IF irq >= 8 THEN p.chip["slave"].base + irq - 8 ELSE p.chip["master"].base + irq

PicPulse(p, lines) == [p EXCEPT !.latched = @ \cup (lines \cap 0..15)]

SetInput(p, lines) == [p EXCEPT !.latched = @ \cup (lines \ p.inputs), !.inputs = lines]

(* ICW1 forgets the base until the sequence completes *)
WriteIcw1(p, c, icw4) == [p EXCEPT !.chip[c].stage = 1, !.chip[c].icw4 = icw4, !.chip[c].ready = FALSE]

(* A non-specific EOI ends every line of the chip *)
WriteEoi(p, c) == [p EXCEPT !.chip[c].isr = {}]

WriteSpecificEoi(p, c, line) == [p EXCEPT !.chip[c].isr = @ \ {line}]

(* The data port takes ICW2, ICW3 and ICW4 in turn, and the mask otherwise *)
WriteData(p, c, v) ==
    CASE p.chip[c].stage = 1 -> [p EXCEPT !.chip[c].base = v.base, !.chip[c].stage = 2]
      [] p.chip[c].stage = 2 -> [p EXCEPT !.chip[c].stage = 3]
      [] p.chip[c].stage = 3 -> [p EXCEPT !.chip[c].stage = 0, !.chip[c].ready = @ \/ (p.chip[c].icw4 /\ v.x86)]
      [] OTHER -> [p EXCEPT !.chip[c].mask = v.mask]

-----------------------------------------------------------------------------
(* UART: what the host queued, what the guest sent, the two enables *)

UartReset == [in |-> <<>>, out |-> <<>>, rx |-> FALSE, tx |-> FALSE, dropped |-> 0]

(* poll_interrupt_edge: a fresh edge at every poll while the condition holds *)
UartEdge(u) == (u.rx /\ u.in # <<>>) \/ u.tx

-----------------------------------------------------------------------------
(* Channel 0 of the PIT.  A count of zero is a period of one. *)

PitReset == [reload |-> PitMax, counter |-> PitMax, periodic |-> FALSE, output |-> FALSE]

PitFires(c, ticks) == ticks > 0 /\ ticks >= c.counter /\ (c.periodic \/ ~c.output)

PitAdvance(c, ticks) ==
    LET period == Max({c.reload, 1})
    IN IF ticks = 0 THEN c
       ELSE IF ticks < c.counter
       THEN [c EXCEPT !.counter = @ - ticks, !.output = IF c.periodic THEN FALSE ELSE @]
       ELSE [c EXCEPT !.counter = IF c.periodic THEN period - ((ticks - c.counter) % period) ELSE 0, !.output = TRUE]

PitReload(c, count) == [c EXCEPT !.reload = count, !.counter = count, !.output = FALSE]

PitMode(c, periodic) == [c EXCEPT !.periodic = periodic, !.output = FALSE]
=============================================================================
