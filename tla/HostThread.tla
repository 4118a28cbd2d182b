----------------------------- MODULE HostThread -----------------------------
(***************************************************************************)
(* The thread behind one proxied connection (softvm-core net/host.rs): it  *)
(* dials the remote, shuttles bytes between the socket and the backend's   *)
(* two bounded channels, and until the remote has answered may redial and  *)
(* replay what the guest sent so far.                                      *)
(*                                                                         *)
(* The guest's byte number i is the number i.  The remote and the backend  *)
(* are the environment: connects, writes and reads succeed or fail at the  *)
(* remote's will, the backend pushes payloads, takes events, and drops its *)
(* channel ends together when the connection leaves its table.             *)
(***************************************************************************)
EXTENDS Integers, Sequences, SequencesExt

CONSTANTS
    MaxDials,       \* MAX_DIALS
    ReplayCap,      \* MAX_REPLAY_BYTES
    ChannelCap,     \* sync_channel(32)
    GuestBytes,     \* bound on the bytes the guest sends
    MaxData         \* bound on the chunks the remote sends

ASSUME HostThreadAssumption ==
    /\ {MaxDials, ChannelCap} \subseteq Nat \ {0}
    /\ {ReplayCap, GuestBytes, MaxData} \subseteq Nat

VARIABLES
    pc,             \* "dial", "announce", "replay", "receive", "read" or "done"
    dials,
    announced,
    replay,         \* bytes to rewrite on the next dial
    replayable,
    answered,       \* the current socket has produced a byte
    socket,         \* bytes written to the current socket
    guestRx,        \* payloads from the backend
    hostTx,         \* events in the channel to the backend
    dropped,        \* the backend has dropped its channel ends
    sent,           \* bytes the backend has pushed (environment)
    taken           \* events the backend has taken (environment)

thread == <<pc, dials, announced, replay, replayable, answered, socket>>
environment == <<dropped, sent, taken>>
vars == <<thread, guestRx, hostTx, environment>>

Events == taken \o hostTx
Received == sent - Len(FlattenSeq(guestRx))
Bytes(first, n) == [i \in 1..n |-> first + i - 1]

-----------------------------------------------------------------------------
(* A send blocks while the channel is full and fails once it is dropped *)
Send(e) ==
    /\ dropped \/ Len(hostTx) < ChannelCap
    /\ hostTx' = IF dropped THEN hostTx ELSE Append(hostTx, e)
    /\ UNCHANGED environment

Silent == UNCHANGED <<guestRx, hostTx, environment>>

Finish(e) ==
    /\ Send(e)
    /\ pc' = "done"
    /\ UNCHANGED <<dials, announced, replay, replayable, answered, socket>>

Redial ==
    /\ pc' = "dial"
    /\ UNCHANGED <<dials, announced, replayable, answered, socket>>

MayRedial == ~answered /\ replayable /\ dials < MaxDials

(* Mutant: the replay buffer takes a payload while it has any room *)
FitsPartly(data) == Len(replay) < ReplayCap

Fits(data) == Len(replay) + Len(data) <= ReplayCap

(* Mutant: payloads written before the failed one are not replayed *)
KeepLastOnly(data) == data

Keep(data) == replay \o data

-----------------------------------------------------------------------------
(* Mutant: every successful dial is announced *)
ConnectAnnounced ==
    /\ pc = "dial"
    /\ dials' = dials + 1
    /\ pc' = "announce"
    /\ socket' = <<>> /\ answered' = FALSE
    /\ UNCHANGED <<announced, replay, replayable>>
    /\ Silent

ConnectOk ==
    /\ pc = "dial"
    /\ dials' = dials + 1
    /\ pc' = IF announced THEN "replay" ELSE "announce"
    /\ socket' = <<>> /\ answered' = FALSE
    /\ UNCHANGED <<announced, replay, replayable>>
    /\ Silent

(* connect_timeout bounds the attempt; the last failure is reported *)
ConnectFails ==
    /\ pc = "dial"
    /\ dials' = dials + 1
    /\ IF dials + 1 < MaxDials
       THEN pc' = "dial" /\ Silent
       ELSE pc' = "done" /\ Send("failed") /\ UNCHANGED guestRx
    /\ UNCHANGED <<announced, replay, replayable, answered, socket>>

(* A failed send of Connected is ignored: the loop finds the disconnect *)
Announce ==
    /\ pc = "announce"
    /\ Send("connected")
    /\ announced' = TRUE
    /\ pc' = "replay"
    /\ UNCHANGED <<dials, replay, replayable, answered, socket, guestRx>>

ReplayOk ==
    /\ pc = "replay"
    /\ pc' = "receive"
    /\ socket' = replay
    /\ UNCHANGED <<dials, announced, replay, replayable, answered>>
    /\ Silent

ReplayFails ==
    /\ pc = "replay" /\ replay # <<>>
    /\ \/ dials < MaxDials /\ Redial /\ UNCHANGED replay /\ Silent
       \/ dials >= MaxDials /\ Finish("eof") /\ UNCHANGED guestRx

WriteOk ==
    /\ pc = "receive" /\ guestRx # <<>>
    /\ LET data == Head(guestRx)
       IN /\ socket' = socket \o data
          /\ replay' = IF answered \/ ~replayable THEN replay
                       ELSE IF Fits(data) THEN Keep(data) ELSE <<>>
          /\ replayable' = (replayable /\ (answered \/ Fits(data)))
    /\ guestRx' = Tail(guestRx)
    /\ pc' = "read"
    /\ UNCHANGED <<dials, announced, answered, hostTx, environment>>

(* WRITE_TIMEOUT turns a remote that stops reading into a failure *)
WriteFails ==
    /\ pc = "receive" /\ guestRx # <<>>
    /\ LET data == Head(guestRx)
       IN \/ MayRedial /\ Fits(data) /\ replay' = Keep(data) /\ Redial /\ UNCHANGED <<hostTx, environment>>
          \/ ~(MayRedial /\ Fits(data)) /\ Finish("eof")
    /\ guestRx' = Tail(guestRx)

NothingToWrite ==
    /\ pc = "receive" /\ guestRx = <<>> /\ ~dropped
    /\ pc' = "read"
    /\ UNCHANGED <<dials, announced, replay, replayable, answered, socket>>
    /\ Silent

(* Mutant: a disconnected channel is taken for an empty one *)
DisconnectedIgnored ==
    /\ pc = "receive" /\ guestRx = <<>> /\ dropped
    /\ pc' = "read"
    /\ UNCHANGED <<dials, announced, replay, replayable, answered, socket>>
    /\ Silent

Disconnected ==
    /\ pc = "receive" /\ guestRx = <<>> /\ dropped
    /\ pc' = "done"
    /\ UNCHANGED <<dials, announced, replay, replayable, answered, socket>>
    /\ Silent

(* A read that fails or finds the end of the stream *)
ReadEnds ==
    /\ pc = "read"
    /\ \/ MayRedial /\ Redial /\ UNCHANGED replay /\ Silent
       \/ ~MayRedial /\ Finish("eof") /\ UNCHANGED guestRx

ReadData ==
    /\ pc = "read"
    /\ Len(SelectSeq(Events, LAMBDA e : e = "data")) < MaxData
    /\ answered' = TRUE /\ replay' = <<>>
    /\ Send("data")
    /\ pc' = IF dropped THEN "done" ELSE "receive"
    /\ UNCHANGED <<dials, announced, replayable, socket, guestRx>>

ReadTimesOut ==
    /\ pc = "read"
    /\ pc' = "receive"
    /\ UNCHANGED <<dials, announced, replay, replayable, answered, socket>>
    /\ Silent

-----------------------------------------------------------------------------
(* The backend *)

Push(n) ==
    /\ ~dropped /\ Len(guestRx) < ChannelCap /\ sent + n <= GuestBytes
    /\ guestRx' = Append(guestRx, Bytes(sent + 1, n))
    /\ sent' = sent + n
    /\ UNCHANGED <<thread, hostTx, dropped, taken>>

Take ==
    /\ ~dropped /\ hostTx # <<>>
    /\ taken' = Append(taken, Head(hostTx))
    /\ hostTx' = Tail(hostTx)
    /\ UNCHANGED <<thread, guestRx, dropped, sent>>

Drop ==
    /\ ~dropped
    /\ dropped' = TRUE /\ hostTx' = <<>>
    /\ UNCHANGED <<thread, guestRx, sent, taken>>

-----------------------------------------------------------------------------
Init ==
    /\ pc = "dial" /\ dials = 0 /\ announced = FALSE
    /\ replay = <<>> /\ replayable = TRUE /\ answered = FALSE /\ socket = <<>>
    /\ guestRx = <<>> /\ hostTx = <<>>
    /\ dropped = FALSE /\ sent = 0 /\ taken = <<>>

Dial == ConnectOk \/ ConnectFails
Write == WriteOk \/ WriteFails
ReplayStep == ReplayOk \/ ReplayFails
Read == ReadEnds \/ ReadData \/ ReadTimesOut

ThreadStep == Dial \/ Announce \/ ReplayStep \/ Write \/ NothingToWrite \/ Disconnected \/ Read

BackendStep == Take \/ Drop \/ \E n \in 1..2 : Push(n)

Next == ThreadStep \/ BackendStep

Spec == Init /\ [][Next]_vars

(* The operating system runs the thread, and every call it makes is        *)
(* bounded by a timeout, so it takes its next step unless it waits for     *)
(* room in the event channel.                                              *)
FairSpec == Spec /\ WF_vars(ThreadStep)

-----------------------------------------------------------------------------
(* Every variable stays in its range; the replay buffer stays under its    *)
(* cap although payloads come in any size.                                 *)
TypeOK ==
    /\ pc \in {"dial", "announce", "replay", "receive", "read", "done"}
    /\ dials \in 0..MaxDials
    /\ {announced, replayable, answered, dropped} \subseteq BOOLEAN
    /\ Len(replay) <= ReplayCap
    /\ Len(hostTx) <= ChannelCap /\ Len(guestRx) <= ChannelCap

(* Each socket sees the guest's stream from its first byte, each byte once *)
(* and in order, and while the thread serves the socket nothing it has     *)
(* taken from the channel is missing from it: a redial replays exactly     *)
(* what the dead socket was given (host_thread, "replayed verbatim").      *)
SocketSeesWholeStream ==
    /\ \A i \in DOMAIN socket : socket[i] = i
    /\ pc \in {"receive", "read"} => Len(socket) = Received

(* The backend sees Connected at most once and first, at most one closing  *)
(* event and last, and never a connect failure after data: it would reset  *)
(* a guest in the middle of a transfer.                                    *)
EventOrder ==
    \A i \in DOMAIN Events :
        /\ i > 1 => Events[i] # "connected"
        /\ i = 1 => Events[i] \in {"connected", "failed"}
        /\ i < Len(Events) => Events[i] \notin {"eof", "failed"}
        /\ Events[i] = "failed" => \A j \in 1..(i - 1) : Events[j] # "data"

(* "no teardown path can strand a blocked thread or socket": after the     *)
(* backend has dropped its ends the thread ends, though the remote is      *)
(* silent or the thread was waiting for room.                              *)
DroppedThreadEnds == dropped ~> pc = "done"
=============================================================================
