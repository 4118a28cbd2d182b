------------------------------ MODULE TcpProxy ------------------------------
(***************************************************************************)
(* One outbound TCP connection of the network backend (softvm-core         *)
(* net/tcp.rs), between the guest's TCP stack and the host thread that     *)
(* owns the real socket.  handle() runs once per guest frame and poll()    *)
(* once per device tick, both on the interpreter thread; the host thread   *)
(* runs beside them behind two bounded channels.                           *)
(*                                                                         *)
(* Byte number i of a stream is the number i, so a lost, repeated or       *)
(* misplaced byte shows.  Sequence numbers live modulo M (2^32 in the      *)
(* code).  Frames for the guest wait in one queue that sheds its oldest    *)
(* frame when full, which is also what the device's receive backlog does;  *)
(* guest frames reach handle() synchronously and are never lost.           *)
(***************************************************************************)
EXTENDS Integers, Sequences, SequencesExt

CONSTANTS
    M,              \* size of the sequence space
    OurIsn,         \* next_isn when the connection opens
    GuestIsn,       \* the guest's initial sequence number
    ChannelCap,     \* sync_channel(32)
    PendingCap,     \* TCP_PENDING_CAP
    OutCap,         \* OUTPUT_CAP
    Mss,            \* guest_mss
    MaxUnacked,     \* MAX_UNACKED_SEGMENTS
    MaxRetransmits, \* MAX_RETRANSMITS
    Windows,        \* windows the guest advertises
    HostBytes,      \* bound on the bytes the remote host sends
    GuestBytes      \* bound on the bytes the guest sends

ASSUME TcpAssumption ==
    /\ M \in Nat /\ M % 2 = 0 /\ M > 2 * (HostBytes + GuestBytes + 4)
    /\ {OurIsn, GuestIsn} \subseteq 0..(M - 1)
    /\ {ChannelCap, PendingCap, OutCap, Mss, MaxUnacked} \subseteq Nat \ {0}
    /\ {MaxRetransmits, HostBytes, GuestBytes} \subseteq Nat
    /\ Windows \subseteq Nat

VARIABLES
    present,        \* the key is in TcpState.connections
    conn,           \* its TcpConn
    toHost,         \* guest_tx: payloads on their way to the host thread
    fromHost,       \* host_rx: events of the host thread
    out,            \* frames on their way to the guest
    host,           \* the host thread and its socket (external)
    guest           \* the guest's TCP stack (external)

vars == <<present, conn, toHost, fromHost, out, host, guest>>

-----------------------------------------------------------------------------
(* Sequence numbers: the sign of the wrapping difference                   *)

Wrap(n) == n % M
SeqGt(a, b) == Wrap(a - b) \in 1..(M \div 2 - 1)
SeqGe(a, b) == Wrap(a - b) < M \div 2
SeqLt(a, b) == Wrap(a - b) >= M \div 2
SeqLe(a, b) == SeqLt(a, b) \/ a = b

Bytes(first, n) == [i \in 1..n |-> first + i - 1]
IsStream(s) == \A i \in DOMAIN s : s[i] = i

Frame(kind, seq, ack, bytes) == [kind |-> kind, seq |-> seq, ack |-> ack, bytes |-> bytes]

(* A world is everything one backend call can change *)
World == [c |-> conn, up |-> toHost, down |-> fromHost, out |-> out]

EmitFrame(w, f) ==
    [w EXCEPT !.out = Append(IF Len(@) >= OutCap THEN Tail(@) ELSE @, f)]

EmitAck(w) == EmitFrame(w, Frame("ack", w.c.ourNext, w.c.guestNext, <<>>))

Closed(w) == [w EXCEPT !.c.closed = TRUE]

NewConn ==
    [established |-> FALSE, guestNext |-> Wrap(GuestIsn + 1), guestWindow |-> 0,
     ourNext |-> Wrap(OurIsn + 1), ourUna |-> OurIsn,
     pending |-> <<>>, unacked |-> <<>>, timer |-> "off", retransmits |-> 0,
     held |-> <<>>, finSent |-> FALSE, finAcked |-> FALSE, finSeq |-> 0,
     finPending |-> FALSE, guestFin |-> FALSE, guestFinAcked |-> FALSE,
     hostEof |-> FALSE, lingering |-> FALSE, closed |-> FALSE]

-----------------------------------------------------------------------------
(* handle -> process_segment.  A guest segment is                          *)
(* [rst, fin, seq, ack, win, bytes]; every segment of the guest past its   *)
(* SYN carries an ACK.                                                     *)

SegmentEnd(u) == Wrap(u.seq + Len(u.bytes))

(* Mutant: any acknowledgement of something new stops the timer *)
AckStopsTimer(c, seg) ==
    LET new == SeqGt(seg.ack, c.ourUna) /\ SeqLe(seg.ack, c.ourNext)
        left == SelectSeq(c.unacked, LAMBDA u : ~SeqGe(seg.ack, SegmentEnd(u)))
    IN [c EXCEPT !.guestWindow = seg.win,
                 !.unacked = IF new THEN left ELSE @,
                 !.ourUna = IF new THEN seg.ack ELSE @,
                 !.timer = IF new THEN "off" ELSE @,
                 !.established = @ \/ seg.ack = Wrap(OurIsn + 1),
                 !.finAcked = @ \/ (new /\ c.finSent /\ SeqGe(seg.ack, c.ourNext))]

AckSegment(c, seg) ==
    LET window == [c EXCEPT !.guestWindow = seg.win]
        left == SelectSeq(c.unacked, LAMBDA u : ~SeqGe(seg.ack, SegmentEnd(u)))
        popped == IF SeqGt(seg.ack, c.ourUna)
                  THEN [window EXCEPT !.unacked = left, !.ourUna = seg.ack, !.retransmits = 0,
                                      !.timer = IF left = <<>> THEN "off" ELSE @]
                  ELSE window
    IN IF SeqGe(seg.ack, c.ourUna) /\ SeqLe(seg.ack, c.ourNext)
       THEN [popped EXCEPT !.established = @ \/ seg.ack = Wrap(OurIsn + 1),
                           !.finAcked = @ \/ (c.finSent /\ SeqGe(seg.ack, c.ourNext))]
       ELSE window

(* Mutant: a duplicate payload is forwarded again *)
PayloadReplayed(w, seg) ==
    IF seg.bytes = <<>> \/ SeqGt(seg.seq, w.c.guestNext) \/ Len(w.up) >= ChannelCap
    THEN [w |-> w, ack |-> FALSE]
    ELSE [w |-> [w EXCEPT !.up = Append(@, seg.bytes),
                          !.c.guestNext = Wrap(seg.seq + Len(seg.bytes))],
          ack |-> TRUE]

(* Ack says whether the payload asks for an acknowledgement *)
Payload(w, seg) ==
    LET accepted == seg.seq = w.c.guestNext /\ w.c.established /\ ~w.c.guestFin
    IN IF seg.bytes = <<>> THEN [w |-> w, ack |-> FALSE]
       ELSE IF ~accepted THEN [w |-> w, ack |-> SeqLt(seg.seq, w.c.guestNext)]
       ELSE IF host.gone THEN [w |-> Closed(w), ack |-> FALSE]
       ELSE IF Len(w.up) < ChannelCap
            THEN [w |-> [w EXCEPT !.up = Append(@, seg.bytes),
                                  !.c.guestNext = Wrap(@ + Len(seg.bytes))],
                  ack |-> TRUE]
       ELSE [w |-> [w EXCEPT !.c.held = seg.bytes], ack |-> FALSE]

GuestFin(c, seg) ==
    IF seg.fin /\ SegmentEnd(seg) = c.guestNext
    THEN [c EXCEPT !.guestNext = Wrap(@ + 1), !.guestFin = TRUE]
    ELSE c

ProcessSegment(w, seg) ==
    LET paid == Payload([w EXCEPT !.c = AckSegment(@, seg)], seg)
        c == paid.w.c
        finned == GuestFin(c, seg)
        ack == \/ paid.ack
               \/ seg.fin /\ (finned # c \/ SeqLt(SegmentEnd(seg), c.guestNext))
        acked == [finned EXCEPT !.guestFinAcked = @ \/ (ack /\ finned.guestFin)]
        ready == [acked EXCEPT !.finPending = @ \/ (acked.guestFin /\ acked.guestFinAcked /\ ~acked.finSent)]
        dropped == c.closed /\ ~w.c.closed
    IN IF seg.rst
       THEN IF seg.seq \in {w.c.guestNext, Wrap(w.c.guestNext - 1)} THEN Closed(w) ELSE w
       ELSE IF dropped THEN paid.w
       ELSE LET v == [paid.w EXCEPT !.c = ready] IN IF ack THEN EmitAck(v) ELSE v

(* The reset for a connection the backend does not know *)
Unknown(w, seg) ==
    IF seg.rst THEN w ELSE EmitFrame(w, Frame("rst", seg.ack, 0, <<>>))

Handle(seg) == IF present THEN ProcessSegment(World, seg) ELSE Unknown(World, seg)

-----------------------------------------------------------------------------
(* poll: drain, retry, send, retransmit, FIN, teardown, in this order      *)

SendSynAck(w) ==
    EmitFrame([w EXCEPT !.c.unacked = Append(@, [seq |-> OurIsn, bytes |-> <<>>, syn |-> TRUE]),
                        !.c.timer = "armed"],
              Frame("synack", OurIsn, w.c.guestNext, <<>>))

HostEvent(w, e) ==
    CASE e.kind = "connected" ->
           IF ~w.c.established /\ w.c.unacked = <<>> THEN SendSynAck(w) ELSE w
      [] e.kind = "failed" ->
           Closed(EmitFrame(w, Frame("rst", IF w.c.established THEN w.c.ourNext ELSE OurIsn,
                                     w.c.guestNext, <<>>)))
      [] e.kind = "data" -> [w EXCEPT !.c.pending = @ \o e.bytes]
      [] e.kind = "eof" -> [w EXCEPT !.c.hostEof = TRUE, !.c.finPending = TRUE]

(* Mutant: the pending buffer is never full *)
DrainUnbounded(w, e) == HostEvent([w EXCEPT !.down = Tail(@)], e)

(* A full pending buffer leaves the remaining events in the channel *)
DrainOne(w, e) ==
    IF Len(w.c.pending) >= PendingCap THEN w
    ELSE HostEvent([w EXCEPT !.down = Tail(@)], e)

DrainHostEvents(w) ==
    LET v == FoldLeft(DrainOne, w, w.down)
    IN IF host.gone /\ v.down = <<>> /\ Len(v.c.pending) < PendingCap
       THEN [v EXCEPT !.c.hostEof = TRUE, !.c.finPending = TRUE]
       ELSE v

RetryHeld(w) ==
    IF w.c.held = <<>> THEN w
    ELSE IF host.gone THEN Closed([w EXCEPT !.c.held = <<>>])
    ELSE IF Len(w.up) >= ChannelCap THEN w
    ELSE EmitAck([w EXCEPT !.up = Append(@, w.c.held), !.c.held = <<>>,
                           !.c.guestNext = Wrap(@ + Len(w.c.held))])

SendOne(w, i) ==
    LET inFlight == Wrap(w.c.ourNext - w.c.ourUna)
        take == Min({Len(w.c.pending), Mss, w.c.guestWindow - inFlight})
        bytes == SubSeq(w.c.pending, 1, take)
    IN IF Len(w.c.unacked) < MaxUnacked /\ take > 0
       THEN EmitFrame([w EXCEPT !.c.pending = SubSeq(@, take + 1, Len(@)),
                                !.c.unacked = Append(@, [seq |-> w.c.ourNext, bytes |-> bytes, syn |-> FALSE]),
                                !.c.ourNext = Wrap(@ + take),
                                !.c.timer = "armed"],
                      Frame("data", w.c.ourNext, w.c.guestNext, bytes))
       ELSE w

SendPending(w) == FoldLeft(SendOne, w, w.c.pending)

(* Mutant: a retransmission is numbered like a fresh segment *)
ResendRenumbered(w, u) ==
    EmitFrame(w, Frame(IF u.syn THEN "synack" ELSE "data", w.c.ourNext, w.c.guestNext, u.bytes))

Resend(w, u) ==
    EmitFrame(w, Frame(IF u.syn THEN "synack" ELSE "data", u.seq, w.c.guestNext, u.bytes))

Retransmit(w) ==
    LET v == [w EXCEPT !.c.retransmits = @ + 1, !.c.timer = "armed"]
    IN IF w.c.timer # "due" THEN w
       ELSE IF w.c.retransmits >= MaxRetransmits
            THEN Closed(EmitFrame(v, Frame("rst", w.c.ourNext, w.c.guestNext, <<>>)))
       ELSE IF w.c.unacked # <<>> THEN FoldLeft(Resend, v, w.c.unacked)
       ELSE IF w.c.finSent /\ ~w.c.finAcked
            THEN EmitFrame(v, Frame("fin", w.c.finSeq, w.c.guestNext, <<>>))
       ELSE [v EXCEPT !.c.timer = "off"]

MaybeSendFin(w) ==
    IF w.c.finSent \/ ~w.c.finPending \/ w.c.pending # <<>> \/ w.c.unacked # <<>> THEN w
    ELSE EmitFrame([w EXCEPT !.c.finSeq = w.c.ourNext, !.c.ourNext = Wrap(@ + 1),
                             !.c.finSent = TRUE, !.c.timer = "armed"],
                   Frame("fin", w.c.ourNext, w.c.guestNext, <<>>))

(* Mutant: a guest that never closes its side is waited for without limit *)
TeardownUnhurried(w, lingered) ==
    IF w.c.finSent /\ w.c.finAcked /\ w.c.guestFin /\ w.c.guestFinAcked THEN Closed(w) ELSE w

(* The linger deadline is set by the first poll that finds the connection  *)
(* half closed and can only have passed at a later one.                    *)
Teardown(w, lingered) ==
    IF w.c.finSent /\ w.c.finAcked /\ w.c.guestFin /\ w.c.guestFinAcked THEN Closed(w)
    ELSE IF w.c.finAcked /\ ~w.c.guestFin
         THEN [w EXCEPT !.c.closed = w.c.lingering /\ lingered, !.c.lingering = TRUE]
    ELSE w

Unless(w, Op(_)) == IF w.c.closed THEN w ELSE Op(w)

-----------------------------------------------------------------------------
(* The backend's steps                                                     *)

(* Removing the connection drops both channel ends; what the host thread   *)
(* has not yet received stays readable to it.                              *)
Become(w) ==
    /\ conn' = IF w.c.closed THEN NewConn ELSE w.c
    /\ present' = ~w.c.closed
    /\ toHost' = w.up
    /\ fromHost' = IF w.c.closed THEN <<>> ELSE w.down
    /\ out' = w.out

(* A guest segment does not remove the connection: the next poll does *)
Receive(w) ==
    /\ conn' = w.c /\ toHost' = w.up /\ out' = w.out
    /\ UNCHANGED <<present, fromHost, host>>

(* poll at a time when the retransmission deadline has passed iff expired  *)
(* and the linger deadline has passed iff lingered                         *)
Poll(expired, lingered) ==
    /\ present
    /\ \E start \in {[World EXCEPT !.c.timer = IF expired /\ @ = "armed" THEN "due" ELSE @]} :
       \E drained \in {DrainHostEvents(start)} :
       \E retried \in {Unless(drained, RetryHeld)} :
       \E sent \in {Unless(retried, SendPending)} :
       \E resent \in {Unless(sent, Retransmit)} :
       \E finned \in {Unless(resent, MaybeSendFin)} :
       \E done \in {IF finned.c.closed THEN finned ELSE Teardown(finned, lingered)} :
          Become(done)
    /\ UNCHANGED <<host, guest>>

(* virtio reset: NetBackend::reset clears connections and queued frames *)
Reset ==
    /\ guest.state # "off"
    /\ present' = FALSE /\ conn' = NewConn
    /\ fromHost' = <<>> /\ out' = <<>>
    /\ guest' = [guest EXCEPT !.state = "off"]
    /\ UNCHANGED <<toHost, host>>

-----------------------------------------------------------------------------
(* The host thread (net/host.rs), by what the backend sees of it: it dials *)
(* and announces Connected once; it may fail until the remote has          *)
(* answered; it reads the socket into events, blocking while the channel   *)
(* is full, and writes payloads to it; after Eof or ConnectFailed, or once *)
(* the backend has dropped its ends, it exits.                             *)

HostSend(e, h) ==
    /\ ~present \/ Len(fromHost) < ChannelCap
    /\ fromHost' = IF present THEN Append(fromHost, e) ELSE fromHost
    /\ host' = h
    /\ UNCHANGED <<present, conn, toHost, out, guest>>

HostConnect ==
    /\ host.state = "dialing" /\ ~host.gone
    /\ HostSend([kind |-> "connected"], [host EXCEPT !.state = "live"])

HostConnectFails ==
    /\ host.state \in {"dialing", "live"} /\ ~host.gone /\ host.read = 0
    /\ HostSend([kind |-> "failed"], [host EXCEPT !.gone = TRUE])

HostRead(n) ==
    /\ host.state = "live" /\ ~host.gone /\ host.read + n <= HostBytes
    /\ HostSend([kind |-> "data", bytes |-> Bytes(host.read + 1, n)],
                [host EXCEPT !.read = @ + n, !.gone = ~present])

HostEof ==
    /\ host.state = "live" /\ ~host.gone
    /\ HostSend([kind |-> "eof"], [host EXCEPT !.eof = TRUE, !.gone = TRUE])

HostWrite ==
    /\ host.state = "live" /\ ~host.gone /\ toHost # <<>>
    /\ toHost' = Tail(toHost)
    /\ host' = [host EXCEPT !.got = @ \o Head(toHost)]
    /\ UNCHANGED <<present, conn, fromHost, out, guest>>

HostExit ==
    /\ host.state = "live" /\ ~host.gone /\ ~present /\ toHost = <<>>
    /\ host' = [host EXCEPT !.gone = TRUE]
    /\ UNCHANGED <<present, conn, toHost, fromHost, out, guest>>

-----------------------------------------------------------------------------
(* The guest's TCP stack                                                   *)

GuestSeq(i) == Wrap(GuestIsn + 1 + i)
GuestRcvNext == Wrap(OurIsn + 1 + Len(guest.rcvd) + (IF guest.finRcvd THEN 1 ELSE 0))

GuestSegment(first, n, fin, rst, g, w) ==
    [rst |-> rst, fin |-> fin, seq |-> GuestSeq(first), win |-> w,
     ack |-> Wrap(OurIsn + 1 + Len(g.rcvd) + (IF g.finRcvd THEN 1 ELSE 0)),
     bytes |-> Bytes(first + 1, n)]

(* handle: a SYN opens the connection unless the table is full *)
Open(w) ==
    /\ guest.state = "closed" /\ ~present
    /\ present' = TRUE
    /\ conn' = [NewConn EXCEPT !.guestWindow = w]
    /\ toHost' = <<>> /\ fromHost' = <<>>
    /\ host' = [host EXCEPT !.state = "dialing"]
    /\ guest' = [guest EXCEPT !.state = "syn"]
    /\ UNCHANGED out

OpenRefused ==
    /\ guest.state = "closed" /\ ~present
    /\ out' = EmitFrame(World, Frame("rst", 0, 0, <<>>)).out
    /\ guest' = [guest EXCEPT !.state = "syn"]
    /\ UNCHANGED <<present, conn, toHost, fromHost, host>>

GuestAcked(f) ==
    LET n == Wrap(f.ack - GuestSeq(0))
    IN IF n > guest.nxt + 1 \/ n < guest.una THEN guest.una ELSE Min({n, guest.nxt})

GuestTakes(f) ==
    LET g == [guest EXCEPT !.una = IF f.kind = "rst" THEN @ ELSE GuestAcked(f)]
        next == f.seq = GuestRcvNext /\ guest.state = "open" /\ ~guest.finRcvd
    IN CASE f.kind = "rst" ->
              IF guest.state = "syn" \/ f.seq = GuestRcvNext THEN [g EXCEPT !.state = "reset"] ELSE g
         [] f.kind = "synack" -> IF guest.state = "syn" THEN [g EXCEPT !.state = "open"] ELSE g
         [] f.kind = "data" -> IF next THEN [g EXCEPT !.rcvd = @ \o f.bytes] ELSE g
         [] f.kind = "fin" -> IF next THEN [g EXCEPT !.finRcvd = TRUE] ELSE g
         [] OTHER -> g

(* Every frame but a pure ACK and a RST is answered by an ACK *)
GuestReceives(w) ==
    /\ out # <<>> /\ guest.state \in {"syn", "open"}
    /\ LET f == Head(out)
           g == GuestTakes(f)
           v == [World EXCEPT !.out = Tail(@)]
           seg == GuestSegment(g.nxt + (IF g.fin THEN 1 ELSE 0), 0, FALSE, FALSE, g, w)
           answers == f.kind \in {"synack", "data", "fin"} /\ g.state = "open"
       IN /\ guest' = g
          /\ Receive(IF ~answers THEN v ELSE IF present THEN ProcessSegment(v, seg) ELSE Unknown(v, seg))

(* New data, or what is not yet acknowledged again, with or without FIN *)
GuestSends(first, n, fin, w) ==
    /\ guest.state = "open"
    /\ first \in {guest.una, guest.nxt} /\ first + n <= GuestBytes
    /\ n > 0 \/ fin
    /\ guest.fin => first + n <= guest.nxt
    /\ fin => first + n >= guest.nxt
    /\ guest' = [guest EXCEPT !.nxt = Max({@, first + n}), !.fin = @ \/ fin]
    /\ Receive(Handle(GuestSegment(first, n, fin, FALSE, guest, w)))

(* The guest's window opens again *)
GuestWindow(w) ==
    /\ guest.state = "open"
    /\ Receive(Handle(GuestSegment(guest.nxt + (IF guest.fin THEN 1 ELSE 0), 0, FALSE, FALSE, guest, w)))
    /\ UNCHANGED guest

GuestResets ==
    /\ guest.state = "open"
    /\ guest' = [guest EXCEPT !.state = "reset"]
    /\ Receive(Handle(GuestSegment(guest.nxt, 0, FALSE, TRUE, guest, 0)))

-----------------------------------------------------------------------------
Init ==
    /\ present = FALSE /\ conn = NewConn
    /\ toHost = <<>> /\ fromHost = <<>> /\ out = <<>>
    /\ host = [state |-> "none", gone |-> FALSE, read |-> 0, got |-> <<>>, eof |-> FALSE]
    /\ guest = [state |-> "closed", una |-> 0, nxt |-> 0, fin |-> FALSE, rcvd |-> <<>>, finRcvd |-> FALSE]

BackendStep ==
    \/ \E expired, lingered \in BOOLEAN : Poll(expired, lingered)
    \/ Reset

HostStep ==
    \/ HostConnect \/ HostConnectFails \/ HostEof \/ HostWrite \/ HostExit
    \/ \E n \in 1..2 : HostRead(n)

GuestStep ==
    \/ OpenRefused \/ GuestResets
    \/ \E w \in Windows : Open(w) \/ GuestReceives(w) \/ GuestWindow(w)
    \/ \E w \in Windows, first \in 0..GuestBytes, n \in 0..2, fin \in BOOLEAN :
          GuestSends(first, n, fin, w)

Next == BackendStep \/ HostStep \/ GuestStep

Spec == Init /\ [][Next]_vars

(* The device polls the backend for as long as the machine runs, and time  *)
(* passes between polls, so every deadline that stays armed is met.        *)
FairSpec == Spec /\ WF_vars(Poll(TRUE, TRUE))

-----------------------------------------------------------------------------
Forwarded == host.got \o FlattenSeq(toHost)

(* Every field stays in its range, between calls no deadline is left due,  *)
(* and the pending buffer overshoots its cap by at most one event.         *)
TypeOK ==
    /\ present \in BOOLEAN
    /\ {conn.ourNext, conn.ourUna, conn.guestNext, conn.finSeq} \subseteq 0..(M - 1)
    /\ conn.timer \in {"off", "armed"}
    /\ conn.retransmits \in 0..MaxRetransmits
    /\ Len(conn.pending) < PendingCap + 2
    /\ Len(conn.unacked) <= MaxUnacked
    /\ Len(out) <= OutCap
    /\ present => Len(toHost) <= ChannelCap /\ Len(fromHost) <= ChannelCap

(* The guest reads the remote's bytes in order, none lost or repeated,     *)
(* whatever frames the queue shed; and a guest that has not closed its own *)
(* side sees FIN only after the last of them (process_segment,             *)
(* send_pending, retransmit, maybe_send_fin).                              *)
DownstreamFaithful ==
    /\ IsStream(guest.rcvd) /\ Len(guest.rcvd) <= host.read
    /\ guest.finRcvd /\ ~guest.fin => host.gone /\ Len(guest.rcvd) = host.read

(* What reaches the host thread is the guest's stream, each byte once and  *)
(* in order, and what the guest has seen acknowledged has been handed over *)
(* to it (process_segment, retry_held).                                    *)
UpstreamFaithful ==
    /\ IsStream(Forwarded)
    /\ Len(Forwarded) >= guest.una

(* Nothing sent is forgotten: every sequence number between our_una and    *)
(* our_next belongs to a segment kept for retransmission or to the FIN,    *)
(* and while there is one the retransmission deadline is set.              *)
InFlightIsTimed ==
    LET InFlight == {Wrap(conn.ourUna + i) : i \in 0..(Wrap(conn.ourNext - conn.ourUna) - 1)}
        Kept == UNION {{Wrap(u.seq + i) : i \in 0..Max({0, Len(u.bytes) - 1})} : u \in ToSet(conn.unacked)}
                  \cup (IF conn.finSent /\ ~conn.finAcked THEN {conn.finSeq} ELSE {})
    IN conn.unacked # <<>> \/ conn.finSent =>
          /\ InFlight \subseteq Kept
          /\ InFlight # {} => conn.timer = "armed"

(* Once the remote has closed, the connection is gone eventually, whatever *)
(* the guest does, unless it closes its window: the retransmission         *)
(* budget and the linger timeout see to it (poll).                         *)
ClosesAfterHostEof == (present /\ conn.hostEof) ~> (~present \/ conn.guestWindow = 0)

=============================================================================
