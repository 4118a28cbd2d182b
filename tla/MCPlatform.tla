---------------------------- MODULE MCPlatform ------------------------------
(***************************************************************************)
(* Guests for Platform.  Each workload is a guest's program, the handlers  *)
(* of its vectors, what the devices hold and what the host sends.          *)
(***************************************************************************)
EXTENDS Platform

I(op) == [op |-> op]
On(dev, op) == [op |-> op, dev |-> dev]
When2(c, to) == [op |-> "when", if |-> c, to |-> to]
Jump(to) == When2([on |-> "noted", n |-> 0], to)
Noted(n) == [on |-> "noted", n |-> n]
Entry(pin, vector, level) ==
    [op |-> "entry", pin |-> pin, entry |-> [masked |-> FALSE, level |-> level, vector |-> vector]]
Masked(e) == [e EXCEPT !.entry.masked = TRUE]
Ier(port, rx, tx) == [op |-> "ier", port |-> port, rx |-> rx, tx |-> tx]
Ipi(v) == [op |-> "ipi", vector |-> v]
Timer(n, periodic) == [op |-> "timer", n |-> n, periodic |-> periodic, vector |-> 236]
Data(v) == [op |-> "data", chip |-> "master", v |-> [base |-> 48, x86 |-> TRUE, mask |-> v]]
Chip8259(op) == [op |-> op, chip |-> "master"]

(* The idle loop of Linux: sleep at position p until c holds *)
Wait(p, c) == <<I("cli"), When2(c, p + 5), I("sti"), I("hlt"), Jump(p)>>

(* The end of a program at position p: note it, and idle or halt *)
Idle(p) == <<I("done"), I("sti"), I("hlt"), Jump(p + 2)>>
Halt == <<I("done"), I("cli"), I("hlt")>>

(* The master is programmed and masked but for `lines`; the slave never *)
InitMaster(lines) ==
    <<Data(0..7), Chip8259("icw1"), Data({}), Data({}), Data({}), Data((0..7) \ lines)>>

NoBytes == [p \in Ports |-> <<>>]

Guest(main, handlers) ==
    [code |-> [v \in {0} \cup DOMAIN handlers |-> IF v = 0 THEN main ELSE handlers[v]], trap |-> {128},
     elapsed |-> 1, pitTicks |-> 1, toRead |-> NoBytes, stages |-> <<"tick", "end">>,
     requests |-> [n \in {} |-> <<>>], sectors |-> {}, writesFail |-> FALSE, readsFail |-> FALSE,
     frames |-> 0, sends |-> 0, oversize |-> {}]

-----------------------------------------------------------------------------
(* Serial lines *)

ReadAll(port, end) ==
    <<When2([on |-> "input", port |-> port], 3), Jump(5), [op |-> "rbr", port |-> port], Jump(1)>> \o end

Bytes(port) == [NoBytes EXCEPT ![port] = <<7, 8>>]

SerialApic(level) ==
    [Guest(<<Entry(4, 52, level), I("svr"), Ier("console", TRUE, FALSE)>>
               \o Wait(4, [on |-> "read", n |-> 2]) \o Idle(9),
           52 :> ReadAll("console", <<I("eoi"), I("iret")>>)) EXCEPT !.toRead = Bytes("console")]

(* Interrupts are enabled while the master is being programmed *)
SerialPic ==
    [Guest(<<Ier("control", TRUE, FALSE), I("sti")>> \o InitMaster({3}) \o Wait(9, [on |-> "read", n |-> 2]) \o Halt,
           51 :> ReadAll("control", <<Chip8259("ocw2"), I("iret")>>)) EXCEPT !.toRead = Bytes("control")]

(* Nothing is masked meanwhile: the edges of the PIT and of the UART wait in *)
(* the half-programmed master until ICW4                                    *)
SerialPicBare ==
    [Guest(<<Ier("control", TRUE, FALSE), I("sti")>> \o Tail(InitMaster({3})) \o Wait(8, [on |-> "read", n |-> 2]) \o Halt,
           (48 :> <<Chip8259("ocw2"), I("iret")>>) @@ (51 :> ReadAll("control", <<Chip8259("ocw2"), I("iret")>>)))
        EXCEPT !.toRead = Bytes("control")]

(* One byte out under the transmit interrupt *)
SerialSend ==
    Guest(InitMaster({4}) \o <<Ier("console", FALSE, TRUE)>> \o Wait(8, Noted(1)) \o Idle(13),
          52 :> <<[op |-> "thr", port |-> "console", n |-> 9], Ier("console", FALSE, FALSE), I("note"),
                  [op |-> "ocw2s", chip |-> "master", line |-> 4], I("iret")>>)

-----------------------------------------------------------------------------
(* Timers and nesting *)

(* The handlers of the periodic timers stop them at the second interrupt: a *)
(* tick may follow every instruction, and would leave the program no time   *)

OneShot ==
    Guest(<<I("svr"), Timer(2, FALSE)>> \o Wait(3, Noted(1)) \o Idle(8),
          236 :> <<I("note"), I("eoi"), I("iret")>>)

Periodic ==
    [Guest(<<I("svr"), Timer(3, TRUE)>> \o Wait(3, Noted(2)) \o Halt,
           236 :> <<I("eoi"), I("note"), When2(Noted(2), 5), I("iret"), Timer(0, FALSE), I("iret")>>) EXCEPT !.elapsed = 6]

PitTimer ==
    Guest(<<Entry(0, 48, FALSE), I("svr"), [op |-> "mode", periodic |-> TRUE], [op |-> "count", n |-> 2]>>
              \o Wait(5, Noted(2)) \o Halt,
          48 :> <<I("note"), I("eoi"), When2(Noted(2), 5), I("iret"), Masked(Entry(0, 48, FALSE)), I("iret")>>)

(* Handlers that end their interrupt first, and then let others in *)
EoiFirst == <<I("eoi"), I("sti"), I("note"), I("iret")>>

Nesting ==
    Guest(<<I("svr"), [op |-> "tpr", n |-> 64], Ipi(49), Ipi(65), Ipi(81), I("sti"), Timer(1, FALSE), Ipi(66),
            [op |-> "int", vector |-> 128], [op |-> "tpr", n |-> 0]>> \o Wait(11, Noted(2)) \o Idle(16),
          [v \in {49, 65, 66, 81, 128, 236} |-> IF v = 128 THEN <<Ipi(81), I("note"), I("iret")>> ELSE EoiFirst])

(* 0x41 lets others in before it ends *)
LateEoi ==
    Guest(<<I("svr"), Ipi(49), Ipi(65), I("sti"), I("note")>> \o Wait(6, Noted(2)) \o Idle(11),
          [v \in {49, 65, 66} |->
              IF v = 65 THEN <<I("sti"), I("note"), I("eoi"), I("iret")>> ELSE <<I("eoi"), Ipi(66), I("note"), I("iret")>>])

-----------------------------------------------------------------------------
(* Block devices *)

R(kind, sector, value) == [kind |-> kind, sector |-> sector, value |-> value]

Mixed == <<R("out", 0, 1), R("in", 0, 0), R("out", 0, 2), R("out", 1, 3), R("in", 0, 0), R("in", 1, 0)>>
Odd == <<R("in", 9, 0), R("get_id", 0, 0), R("out", 0, 4), R("flush", 0, 0), R("in", 0, 0)>>

(* Post up to two requests, kick, and sleep when there is no room *)
Submit(p, d) ==
    <<I("cli"), When2([on |-> "served", dev |-> d], p + 11), When2([on |-> "room", dev |-> d], p + 6),
      I("sti"), I("hlt"), Jump(p), On(d, "post"), When2([on |-> "room", dev |-> d], p + 6), On(d, "kick"),
      I("sti"), Jump(p)>>

OnDisk(d) ==
    <<On(d, "ack"), When2([on |-> "used", dev |-> d], 4), Jump(6), On(d, "reap"), Jump(2), I("eoi"), I("iret")>>

DiskGuest(start, requests) ==
    [Guest(start \o Submit(Len(start) + 1, "blk") \o Idle(Len(start) + 12), 58 :> OnDisk("blk"))
        EXCEPT !.stages = <<"tick", "blk", "end">>, !.requests = "blk" :> requests, !.sectors = {0, 1}]

DiskStart == InitMaster({}) \o <<Entry(10, 58, FALSE), I("svr"), On("blk", "setup")>>

(* A reset with a request posted, kicked twice and perhaps served *)
ResetStart == DiskStart \o <<On("blk", "post"), On("blk", "kick"), On("blk", "kick"), I("sti"), I("cli"),
                             On("blk", "reset"), On("blk", "setup")>>

TwoDisks ==
    LET start == <<Entry(10, 58, FALSE), Entry(12, 74, FALSE), I("svr"), On("blk", "setup"), On("blk2", "setup")>>
    IN [Guest(start \o Submit(6, "blk") \o Submit(17, "blk2") \o Idle(28), 58 :> OnDisk("blk") @@ 74 :> OnDisk("blk2"))
          EXCEPT !.stages = <<"tick", "blk", "blk2", "end">>, !.sectors = {0},
                 !.requests = ("blk" :> <<R("out", 0, 1), R("in", 0, 0)>>) @@ ("blk2" :> <<R("in", 0, 0), R("out", 0, 2)>>)]

-----------------------------------------------------------------------------
(* The network *)

OnNet ==
    <<I("netack"), When2([on |-> "frame"], 4), Jump(7), I("take"), I("buffer"), Jump(2),
      When2([on |-> "sent"], 9), Jump(11), I("reclaim"), Jump(7), I("eoi"), I("iret")>>

Transmit(p) ==
    <<I("cli"), When2([on |-> "idle"], p + 11), When2([on |-> "space"], p + 6), I("sti"), I("hlt"), Jump(p),
      I("send"), I("notify"), I("sti"), Jump(p), Jump(p)>>

NetGuest(again, frames, sends) ==
    LET up == <<I("netsetup"), I("buffer"), I("buffer")>>
        start == <<Entry(11, 59, FALSE), I("svr")>> \o up \o (IF again THEN <<I("sti"), I("note"), I("cli"), I("netreset")>> \o up ELSE <<>>)
    IN [Guest(start \o Transmit(Len(start) + 1) \o Idle(Len(start) + 12), 59 :> OnNet)
          EXCEPT !.stages = <<"tick", "tx", "poll", "rx", "end">>, !.frames = frames, !.sends = sends, !.oversize = {2}]

-----------------------------------------------------------------------------
MCWorkloads ==
    {SerialApic(TRUE), SerialApic(FALSE), SerialPic, SerialPicBare, SerialSend, OneShot, Periodic, PitTimer, Nesting,
     DiskGuest(DiskStart, Mixed), [DiskGuest(DiskStart, Odd) EXCEPT !.writesFail = TRUE],
     DiskGuest(ResetStart, Mixed), [DiskGuest(DiskStart, Odd) EXCEPT !.readsFail = TRUE],
     TwoDisks, NetGuest(FALSE, 4, 0), NetGuest(FALSE, 0, 5), NetGuest(FALSE, 2, 2), NetGuest(TRUE, 2, 1)}

MCLateEoi == {LateEoi}

MCReadsFail == {[DiskGuest(DiskStart, Mixed) EXCEPT !.readsFail = TRUE]}

MCPins == {0, 3, 4, 10, 11, 12}
=============================================================================
