# A TLA+ verification of rish

rish runs Linux containers on a phone: it pulls an OCI image into a content
store, boots an x86-64 Linux in an interpreter, and runs commands in it through
an agent in the guest. This directory models the parts of rish whose
correctness depends on the order in which things happen: what survives a crash,
what two threads do to each other, what a lost frame or a late interrupt leads
to. The models are checked with TLC on small instances, and the most important
results are proved with TLAPS for every instance.

`PROJECT.json` is the index: the components and their sources, the runs, the
source lines of every definition (`map`), the hazards of the code with the
properties that watch them, the findings, and the theorems.

## 1. The system

| Part | Crates | State | Who acts on it |
|---|---|---|---|
| Content store | rish-content | blobs, pins, leases, quota accounting | any thread; one mutex; the disk across crashes |
| Pull and startup records | rish-pull, rish-registry | a lease while pulling, then pins and a locator file | one pull at a time, collectors beside it |
| Layers, import, snapshots | rish-layer, rish-guest-importer, rish-snapshot | trees on disk | one thread |
| Runtime planning, OCI model | rish-runtime, rish-oci, rish-core | none: plans are computed | one thread |
| VM worker | rish-softvm-x86_64, rish-vm | the machine, a command queue, a cancel flag | session thread, worker thread, any number of cancelling threads |
| Control session | rish-ffi, rish-guest-protocol | the control channel, the call in progress, queued stdin | session thread, host threads, the guest |
| Guest agent | rish-guest-agent, rish-guest-boot | executions and their processes | the agent's one thread, its children |
| Interpreter | rish-softvm-core `cpu`, `ops`, `arch`, `boot`, `memory.rs` | registers, memory, translation caches | the worker thread |
| Platform devices | rish-softvm-core `devices`, `virtio` | interrupt chips, timers, UARTs, rings | the same thread, at its device tick; the guest's drivers |
| Network backend | rish-softvm-core `net` | connections and flows | the same thread; one host thread per connection |
| Applets, CLI, host apps | rish-applets, rish-cli, `platform/` | files | one thread |

How they interact. A pull takes a lease in the content store, streams blobs
into it, persists a startup record (pins plus a locator) and drops the lease. A
boot reopens the record, starts a worker thread with a machine, and runs it in
bounded commands until the agent's channel comes up. A session call writes a
request frame, then alternates between running the machine for one quantum and
reading what came back. Inside a quantum the CPU executes instructions, and
every 64 of them ticks the devices: timers, disks, the network device and,
behind it, the TCP proxy, whose host threads own the real sockets. The agent in
the guest answers requests and ticks its executions.

## 2. Modules

| Module | Models | Scope |
|---|---|---|
| `ContentStore` | `store.rs`, `quota.rs`, `filesystem.rs` of rish-content | every operation, the crash, the reopen |
| `VerifiedImages` (extends it) | `verified_image/` of rish-pull | persist, rollback, pruning, the locator |
| `TcpProxy` | `net/tcp.rs`, `net/tcp_fin.rs` | one connection, both directions |
| `HostThread` | `net/host.rs` | dial, replay, shuttle, teardown |
| `ExecSupervisor` | the agent's `supervisor.rs` and `streams.rs` | exec, cancel, stream, the tick |
| `VmWorker` | `worker.rs`, `machine.rs`, `vm_cancel.rs` | commands, cancellation, drop |
| `GuestSession` (extends it) | `session.rs`, `vm_channel.rs`, the VM FFI, the agent's loop | boot, calls, the channel |
| `InterruptChips` | `lapic.rs`, `ioapic.rs`, `pic8259.rs`, `uart16550.rs`, `pit8254.rs` | chips as functions on records |
| `VirtioQueue` | `virtio/queue.rs` and a driver | one split ring |
| `Platform` (extends both) | `cpu/interrupts.rs`, `cpu/mod.rs`, `virtio/block.rs`, `virtio/net.rs`, `memory.rs` | step, delivery, tick, devices |

`MC*` modules give the constants their values; `*Proofs` hold the theorems.
Operators marked "Mutant" are plausible bugs of the definition they precede:
replacing the definition by its mutant breaks the property `PROJECT.json`
pairs it with, which shows that the property depends on that line of code.

### ContentStore

A blob is its digest. The directories `blobs/sha256` and `pins` are each kept
twice: as the process sees them and as of their last `sync_directory`. A crash
(`Restart`) leaves any mixture allowed by the two copies, forgets leases and
threads, and rescans. Updates of one directory may reach the disk in any
subset. An ingest is three steps because the code streams without the
lock and then commits under it; a collection holds the lock for its sweep but
may be cut short at any removal. `faulted` and `resurrected` are history
variables: a directory sync failed, and markers that a crash brought back after
their unpin. Left out: temporary files a crash leaves behind (nothing reads
them), the wrap of the 64-bit lease id, reads.

### VerifiedImages

One image, whose record varies. `stage` follows `persist`; every store call is
an action of `ContentStore` with a constraint on who takes it, so a collector
and a crash come between any two. The serialisation of persists is the code's
`PULL_LOCK`. `CanReopen` is what `reopen_for_platform` checks; the validation of
the record's fields is its outcome.

### TcpProxy and HostThread

Byte number *i* of a stream is the number *i*, so loss, repetition and
reordering show. Sequence numbers live modulo `M`. Frames to the guest wait in
one queue that sheds its oldest: this stands for the backend's output queue and
the device's backlog, which shed in the same way. The guest is a TCP stack that
retransmits and acknowledges what it likes and opens and closes its window. The
host thread is behind two bounded channels in both modules. `TcpProxy` takes
from it only its events (connected or failed, data, end of file) in the order
that `EventOrder` checks of `HostThread`.

### ExecSupervisor

The tick is cut at the system calls between which a child can act: begin
(deadlines, stdin, first wait), poll (output), end (second wait, completion).
Bytes are counted. A process may write, exit, fork a member of its group or a
descendant that escapes it, ignore signals, read stdin or close it. A cancel or a
kill drops the stdin pipe with what is queued in it (`DropStdin`): the process
sees an end of file, and only then may it miss bytes that were accepted. In one
workload a read of the output or a wait may fail. The code then ends the stream
and kills the group, or only kills it.

### VmWorker and GuestSession

`VmWorker` has the steps of the session thread inside `run_units` (check, clear
the flag, send, wait, check), those of a thread firing the token (record the
reason, upgrade the weak reference, set the flag), and the worker loop.
`GuestSession` puts the boot loop, the handshake, the three kinds of execution,
the frame decoder, the UART's queue and the agent on top. A frame towards the
host is one or two units, so that it may arrive in halves or lose its tail.
Abstractions: one pass of the agent per quantum; the console and `snapshot` are
left out; the handshake is the accepted one; what a process writes is counted
1, 2, 3. The agent's stdin queue may refuse any chunk, as it does when the
process reads too slowly, and the session does not look at the answer: a
process can miss a chunk in the middle. `StdinStaysWithItsCall` allows such
gaps, remembers what was refused (`refused`), and allows no other gap.

### InterruptChips, VirtioQueue, Platform

The chips are functions on records, bitmaps are sets. `Platform` is the CPU's
step: deliver an interrupt, execute one instruction, and perhaps tick; any
instruction may be the 64th. `Tick` goes through the devices in the order of
`service_devices`; a drain takes one step per request. A guest is a workload: a
program and the handler of each vector, where an instruction is a register
access, a flag instruction, or what a driver does to a ring. The driver is
conforming: malformed rings are out of scope, and every block request is a
header, data and a status. `FLUSH` is not offered and is answered as
unsupported. A workload with a periodic timer has a handler that stops it,
because with the tick after any instruction an unstopped timer may fire before
each instruction of the main program. Left out: register reads without effect,
the UART's divisor and FIFO registers, PIT channels 1 and 2, exceptions and gate
checks.

## 3. The runs

| Run | Result | Question |
|---|---|---|
| `content_store` | passes | Two threads ingest, pin, lease and collect, with failing syncs and a crash: is the accounting exact, the quota respected, and is no root ever lost? |
| `verified_images` | passes | Persists of one image, a collector, a crash: can the selected record be reopened, do record pins stay bounded, is a rollback complete, and is the store used only through its operations? |
| `verified_images_sync_fails` | violation | Is the locator the commit point also when the sync after its rename fails? |
| `tcp_proxy` | passes | Are both streams faithful while frames are shed, windows close and numbers wrap, is everything in flight timed, and does a connection end after the remote closes? |
| `tcp_held_segment` | violation | Is a held segment that the guest retransmits forwarded once? |
| `host_thread` | passes | Does every socket see the whole stream across redials, are events ordered, does a dropped thread end? |
| `exec_supervisor` | passes | Is the exit reported last and alone, is the output complete, does stdin end after its bytes, is no execution lost, and does every termination complete? |
| `guest_session` | passes | Are outcomes those of the call's own process, does stdin stay with its call, does every call return and the worker end? |
| `guest_session_stalled` | violation | Does a cancelled call always say that it was cancelled? |
| `platform` | passes | Eighteen guests: are the vectors in service as many as the EOIs still owed, do disks answer in order, is every frame accounted for, is no wake-up lost? |
| `lapic_late_eoi` | violation | Can an unfinished handler be preempted by its own class? |
| `virtio_read_fails` | violation | Does a failing host read leave the block device alive? |

A run that ends in a violation shows a disagreement between the code and a
sentence of its documentation; the finding in `PROJECT.json` quotes both. Such
a run checks one property, so that nothing else can end it.

What the passing runs exclude. Some properties hold only outside a named case:
`SelectedRecordReopens`, `AtMostTwoRecords` and `RollbackIsComplete` until a
directory sync fails (`Sound`), which is the case of the first violation;
`UpstreamFaithful` with a channel that never fills, which is the case of the
second (`tcp_proxy` gives the channel as many slots as the guest has payloads);
`ClosesAfterHostEof` unless the guest's window is closed, because the code waits
for it without a limit; `TaskFinishes` unless a disk has latched a fault, which
only a failing read does; `OutputComplete` except for a stream that a failed
read or the end of the drain period cut short; `StdinEofAfterAll` unless the
execution is being terminated or has exited, when queued bytes are dropped.
`Balanced` compares counts: an EOI retires the highest vector in service, which
need not be that of the handler that writes it, and `lapic_late_eoi` shows the
consequence. `DownstreamFaithful` lets a guest that closed first see an early
FIN.

### Bounds

Every bound is a named constant. They are chosen so that each limit of the code
is met and exceeded.

- `content_store`: three blobs of one or two bytes under a quota of three bytes,
  so that not all pairs fit; two threads, one name, one lease, one crash. The
  third blob is what a second ingest competes with. The threads and the two
  larger blobs are symmetric. The theorems lift all of these bounds.
- `verified_images`: two graph blobs, three records: the selected one, a staged
  one, and one more that pruning must keep from accumulating. One crash.
- `tcp_proxy`: numbers modulo 32 starting just below the wrap; an output
  queue of two frames, so that frames are shed; windows of 0 and 3;
  one retransmission before the budget is spent; three bytes down, two up.
- `host_thread`: three dials as in the code; a replay cap of three under a stream
  of five bytes, in payloads of one or two.
- `exec_supervisor`: four workloads (output, stdin, table, failing reads and
  waits) chosen at the start, so that their state spaces add up; an output limit
  below what is written, a stdin queue below what is sent, two slots for three
  requests, three ids for four starts.
- `guest_session`: eight workloads; three advances per request, two quanta, a
  host queue of three units, a UART queue of two, two cancelling threads.
- `platform`: eighteen workloads; rings of two entries with indices modulo four,
  so that they wrap; UART queues and the network backlog of two; a LAPIC queue
  of four; a PIT count of two. The local APIC's timer elapses by one per tick.

### Fairness

- `TcpProxy`: weak fairness of `Poll(TRUE, TRUE)`: the device polls its backend
  as long as the machine runs and time passes between polls. Nothing is
  assumed of the guest or the remote.
- `HostThread`: weak fairness of the thread's own steps: each of its calls has a
  timeout. A full event channel disables the step, and nothing says that the
  backend takes events.
- `ExecSupervisor`: the agent's loop ticks every execution again and again, a
  tick comes after each armed deadline has passed (strong fairness, since other
  executions' ticks intervene), a wait does not fail for ever, and the kernel
  ends a process it was told to kill. Nothing is assumed of the process.
  `TerminationCompletes` therefore depends on the grace period running out.
- `GuestSession`: the threads are scheduled: the session thread finishes the call
  it is in, the worker serves its queue, a thread that began to fire the token
  finishes. The guest owes nothing: it may never answer.
- `Platform`: one thread keeps stepping; the countdown reaches the tick again and
  again (strong fairness of an instruction after which the tick comes, since
  the model may also choose not to tick); host bytes are pumped every quantum,
  and the network backend's millisecond passes.

`CHECK_DEADLOCK` is off where the system may stop: a connection that is gone, a
thread that has ended, an agent that was dropped, a session that was freed.

## 4. Theorems

TLAPS proves these for all values of the constants that satisfy the named
assumptions (`StoreAssumption`, `ImageAssumption`, `WorkerConstants`).

- `ContentStoreProofs`: `AccountingTheorem`, `RootsTheorem`, `QuotaTheorem`,
  `CollectionTheorem`, all from `StoreInvariant` (`Spec => []IInv`). None of the
  properties is inductive. `IInv` adds: exactly the client inside a locked
  section holds the mutex (`LockInv`); a sweeping client's marks cover every
  root, and a renamed blob is in the directory (`JobInv`); leases hold only
  files (`LeaseInv`); until a sync fails only the blob just renamed is not yet
  durable (`SyncInv`). The mutex keeps the marks complete: no pin or lease can be
  made during a sweep, which is why a collection acting on marks taken earlier
  is right. The byte counts are cardinalities of sets of pairs (blob, position),
  so that adding and removing a blob are facts about finite sets.
- `VerifiedImagesProofs`: `CompositionRefinesStore`, by one lemma per group of
  steps: each is a step of `ContentStore` or leaves it alone. The four theorems
  above therefore hold of the composition.
- `VmWorkerProofs`: `FiredTokenTheorem`, `WaitingTheorem`, `ShutdownTheorem`.
  `run_units` clears a flag that a requester may just have set, so a cancellation
  can be lost; `Fired` shows that the check on the other side of the run catches
  it. `Flight` follows the one command of a run through queue, worker and reply;
  `Owned` says who may hold the machine in each state of the session thread.
  Together they give that the queue is empty when the last owner goes, so the
  `Shutdown` that `drop` offers without looking is always accepted.
- `GuestSessionProofs`: `SessionRefinesWorker` and `SessionRunsEnd`: the session,
  the guest and the host threads only take steps of the worker's specification,
  so its guarantees hold in every session.

Only model-checked: every liveness property (the prover has no ENABLED and no
fairness); the properties of `TcpProxy`, `HostThread`, `ExecSupervisor` and
`Platform`; those of `VerifiedImages` beyond the refinement and of
`GuestSession` beyond the worker's. What a recursive function computes for every
input is out of the prover's reach too.

## 5. Not modelled

The reasons are with the components in `PROJECT.json`. In short: SSE and x87
instructions (arithmetic on host floats), encodings (packet headers, kernel
images, ACPI tables, JSON), file backends and system calls whose results are
inputs of a model, host applications in other languages, and the applets, which
are filters over whole files. The rest is planned.

Disagreements met on the way that have no run of their own are notes of their
hazards: the FIN that answers a guest's half-close, a SYN on a lingering key, a
close of stdin that overtakes queued chunks, and interactive executions through
the C interface, whose stdin is never attached.

## 6. Plan

1. `PullPipeline`: the coordinator of a pull over `ContentStore` and
   `VerifiedImages` with the pull handle of the C interface: the lease over the
   whole pull, progress and cancellation, failure at each blob. It replaces the
   pulling steps of `VerifiedImages`, and `content_store` becomes a workload of
   that run.
2. `RegistryClient`: authentication with its single retry, redirects and
   response limits as a state machine; references and platform selection as
   operators against a reference definition.
3. `LayerTree`: application of layers (whiteouts, opaque directories, hard
   links) and the importer's staging over an abstract tree, against the
   overlay's definition of the merged tree; the snapshot store's publish step.
4. `Translation`: page walks, the TLB and the code cache with their
   invalidation, against a direct walk.
5. `Instructions`: arithmetic, shifts, flags and string instructions at a small
   width, against their arithmetic definition.
6. `UdpFlows` and the connection table of the TCP proxy (a second incarnation of
   a key), beside `TcpProxy`.
7. `OciRuntime` in the guest agent over `ExecSupervisor`; the guest's init.
8. `Planner`: capabilities, profile and backend selection as operators.
9. Proofs: in every state with one vector in service per class, `Balanced`
   implies that the LAPIC queue stays below `QUEUE_LIMIT`; `EventOrder` and
   `SocketSeesWholeStream` of `HostThread`; `NoExecutionLost` of
   `ExecSupervisor`; `AtMostTwoRecords` of `VerifiedImages`; the ring invariants
   of `VirtioQueue`.

The order is by the state the code shares: the pull first, since it composes
with what is proved, then the parts with an abstract specification to be
checked against, then pure operators.
