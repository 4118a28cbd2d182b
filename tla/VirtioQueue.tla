---------------------------- MODULE VirtioQueue -----------------------------
(***************************************************************************)
(* One split virtqueue (virtio/queue.rs) and the driver at its other end.  *)
(* A record holds the device's registers (ready, kick, seen), the rings in *)
(* guest memory (avail, slots, used, usedSlots, at) and the driver's own   *)
(* state (free, last).  A descriptor chain is its head, `at` what the      *)
(* buffers of a head carry.  The driver is external: it posts no more      *)
(* chains than the ring holds and reaps the used ring in order.            *)
(***************************************************************************)
EXTENDS Integers, Sequences, FiniteSets, FiniteSetsExt

CONSTANTS
    QueueSize,       \* entries of a ring
    IndexMod         \* ring indices wrap here, 2^16 in the code

(* Linux configures powers of two: the slot of an index survives the wrap *)
ASSUME QueueAssumption ==
    QueueSize \in Nat \ {0} /\ IndexMod \in Nat /\ IndexMod > QueueSize /\ IndexMod % QueueSize = 0

Slots == 0..QueueSize - 1

NewQueue ==
    [ready |-> FALSE, kick |-> FALSE, seen |-> 0,
     avail |-> 0, slots |-> [s \in Slots |-> 0], used |-> 0, usedSlots |-> [s \in Slots |-> 0],
     at |-> [h \in Slots |-> 0], free |-> Slots, last |-> 0]

(* The driver sets up empty rings and writes QUEUE_READY *)
FreshRings(q) == [NewQueue EXCEPT !.ready = TRUE, !.kick = q.kick, !.seen = q.seen]

Next16(i) == (i + 1) % IndexMod

-----------------------------------------------------------------------------
(* The driver *)

PostBuffer(q, x) ==
    LET h == Min(q.free)
    IN [q EXCEPT !.at[h] = x, !.slots[q.avail % QueueSize] = h, !.avail = Next16(@), !.free = @ \ {h}]

UsedHead(q) == q.usedSlots[q.last % QueueSize]

ReapBuffer(q) == [q EXCEPT !.free = @ \cup {UsedHead(q)}, !.last = Next16(@)]

(* What the completed buffers that the driver has not reaped carry *)
Unreaped(q) ==
    [i \in 1..((q.used - q.last) % IndexMod) |-> q.at[q.usedSlots[(q.last + i - 1) % QueueSize]]]

-----------------------------------------------------------------------------
(* The device *)

(* avail_delta: how many entries the driver published since the last drain *)
AvailDelta(q, seen) == (q.avail - seen) % IndexMod

Overrun(q, seen) == AvailDelta(q, seen) > QueueSize

AvailHead(q, seen) == q.slots[seen % QueueSize]

WriteUsed(q, head) == [q EXCEPT !.usedSlots[q.used % QueueSize] = head, !.used = Next16(@)]
=============================================================================
