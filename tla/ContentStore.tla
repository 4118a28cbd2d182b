---------------------------- MODULE ContentStore ----------------------------
(***************************************************************************)
(* The SHA-256 content-addressed blob store of crates/rish-content: a      *)
(* directory of blobs, persistent pins, process-local leases, a byte quota *)
(* and a mark-and-sweep collector, shared by the threads of one process.   *)
(*                                                                         *)
(* One mutex (State) serialises every operation except the streaming part  *)
(* of an ingest, which runs unlocked between the quota preflight and the   *)
(* commit.  Directory updates become crash-proof only at the sync_directory*)
(* that follows them, so the module keeps, beside each directory as the    *)
(* process sees it, the same directory as of its last sync.                *)
(*                                                                         *)
(* A blob is its digest: ingest names a blob by the hash of what it wrote, *)
(* so content and digest are one value and Size gives its length.          *)
(***************************************************************************)
EXTENDS Integers, FiniteSets

CONSTANTS
    Digests,            \* the blobs the clients may produce
    Size,               \* [Digests -> Nat], the byte length of each blob
    Names,              \* pin names
    Clients,            \* threads sharing clones of one ContentStore
    MaxBlobSize,        \* StoreConfig::max_blob_size
    MaxCommittedBytes,  \* StoreConfig::max_committed_bytes
    MaxLeases,          \* bound: leases created between two restarts
    MaxRestarts,        \* bound: crashes followed by a reopen
    SyncCanFail,        \* whether fsync of a directory may return an error
    Nobody,             \* the mutex is free
    AnyBlob             \* an ingest without an expected descriptor

ASSUME StoreAssumption ==
    /\ IsFiniteSet(Digests)
    /\ Size \in [Digests -> Nat]
    /\ MaxBlobSize \in Nat
    /\ MaxCommittedBytes \in Nat
    /\ MaxLeases \in Nat
    /\ MaxRestarts \in Nat
    /\ SyncCanFail \in BOOLEAN
    /\ Nobody \notin Clients
    /\ AnyBlob \notin Digests

VARIABLES
    blobs,         \* blobs/sha256 as the process sees it
    blobsSynced,   \* blobs/sha256 as of its last sync_directory
    pins,          \* pins/<name>/<digest> markers, as <<name, digest>>
    pinsSynced,    \* the markers as of the last sync of their directory
    leases,        \* State::leases, a function on the live lease ids
    nextLeaseId,   \* State::next_lease_id
    committed,     \* the keys of State::committed_blobs
    committedBytes,\* State::committed_bytes
    lock,          \* the client holding State, or Nobody
    pc,            \* what each client is doing
    job,           \* the arguments of each client's call in progress
    restarts,      \* restarts so far
    resurrected,   \* history: markers a crash brought back after their unpin
    faulted        \* history: the directory sync of a commit, a pin or an unpin failed

vars == <<blobs, blobsSynced, pins, pinsSynced, leases, nextLeaseId, committed,
          committedBytes, lock, pc, job, restarts, resurrected, faulted>>

NoLease == 0
LeaseIds == 1..MaxLeases
Pins == Names \X Digests
NoJob == [lease |-> NoLease, expected |-> AnyBlob, digest |-> AnyBlob,
          marked |-> {}, swept |-> FALSE]

(***************************************************************************)
(* The number of bytes in a set of blobs, as the number of (blob, offset)  *)
(* pairs: the sum the store keeps incrementally.                           *)
(***************************************************************************)
Bytes(D) == UNION {{d} \X (1..Size[d]) : d \in D}
TotalSize(D) == Cardinality(Bytes(D))

LeasedDigests == UNION {leases[l] : l \in DOMAIN leases}
PinnedDigests == {p[2] : p \in pins}
Rooted == LeasedDigests \cup PinnedDigests

Locked == lock # Nobody

-----------------------------------------------------------------------------
(* State: the quota accounting                                             *)

(* Mutant: compares the current total instead of the projected one.        *)
CapacityOfCurrentTotal(d) == committedBytes <= MaxCommittedBytes

EnsureCommittedCapacity(d) == committedBytes + Size[d] <= MaxCommittedBytes

(* Mutant: charges a digest that is already accounted for.                 *)
ObserveChargesTwice(d) ==
    /\ committed' = committed \cup {d}
    /\ committedBytes' = committedBytes + Size[d]

ObserveCommittedBlob(d) ==
    /\ committed' = committed \cup {d}
    /\ committedBytes' = IF d \in committed THEN committedBytes
                                            ELSE committedBytes + Size[d]

RemoveCommittedBlob(d) ==
    /\ committed' = committed \ {d}
    /\ committedBytes' = IF d \in committed THEN committedBytes - Size[d]
                                            ELSE committedBytes

PreflightCommittedQuota(d) == d \in committed \/ EnsureCommittedCapacity(d)

InsertInLease(l, d) ==
    leases' = IF l = NoLease THEN leases
                             ELSE [leases EXCEPT ![l] = @ \cup {d}]

-----------------------------------------------------------------------------
(* Ingest: preflight under the mutex, an unlocked stream, a locked commit  *)

(* The descriptor of a verified ingest is checked before a byte is read.   *)
IngestStart(c, l, expected) ==
    /\ pc[c] = "idle"
    /\ l \in DOMAIN leases \cup {NoLease}
    /\ expected # AnyBlob =>
           /\ ~Locked
           /\ Size[expected] <= MaxBlobSize
           /\ PreflightCommittedQuota(expected)
    /\ pc' = [pc EXCEPT ![c] = "streaming"]
    /\ job' = [job EXCEPT ![c] = [NoJob EXCEPT !.lease = l, !.expected = expected]]
    /\ UNCHANGED <<blobs, blobsSynced, pins, pinsSynced, leases, nextLeaseId,
                   committed, committedBytes, lock, restarts, resurrected, faulted>>

(* The stream fails (I/O, wrong length or digest, larger than the maximum) *)
(* or the commit refuses the blob; the temporary file is removed.          *)
Finish(c) ==
    /\ pc' = [pc EXCEPT ![c] = "idle"]
    /\ job' = [job EXCEPT ![c] = NoJob]

IngestFails(c) ==
    /\ pc[c] = "streaming"
    /\ Finish(c)
    /\ UNCHANGED <<blobs, blobsSynced, pins, pinsSynced, leases, nextLeaseId,
                   committed, committedBytes, lock, restarts, resurrected, faulted>>

Streamed(c, d) ==
    /\ pc[c] = "streaming"
    /\ job[c].expected \in {AnyBlob, d}
    /\ Size[d] <= MaxBlobSize
    /\ ~Locked
    /\ job[c].lease \in DOMAIN leases \cup {NoLease}

(* The blob is already there: nothing to rename, nothing to sync.          *)
CommitExisting(c, d) ==
    /\ Streamed(c, d)
    /\ d \in blobs
    /\ ObserveCommittedBlob(d)
    /\ InsertInLease(job[c].lease, d)
    /\ Finish(c)
    /\ UNCHANGED <<blobs, blobsSynced, pins, pinsSynced, nextLeaseId, lock,
                   restarts, resurrected, faulted>>

(* rename of the temporary file, still holding the mutex.                  *)
CommitRename(c, d) ==
    /\ Streamed(c, d)
    /\ d \notin blobs
    /\ d \in committed \/ EnsureCommittedCapacity(d)
    /\ blobs' = blobs \cup {d}
    /\ ObserveCommittedBlob(d)
    /\ lock' = c
    /\ pc' = [pc EXCEPT ![c] = "renamed"]
    /\ job' = [job EXCEPT ![c].digest = d]
    /\ UNCHANGED <<blobsSynced, pins, pinsSynced, leases, nextLeaseId, restarts,
                   resurrected, faulted>>

(* Mutant: returns success without the directory sync.                     *)
CommitWithoutSync(c) ==
    /\ pc[c] = "renamed"
    /\ InsertInLease(job[c].lease, job[c].digest)
    /\ lock' = Nobody
    /\ Finish(c)
    /\ UNCHANGED <<blobs, blobsSynced, pins, pinsSynced, nextLeaseId, committed,
                   committedBytes, restarts, resurrected, faulted>>

(* sync_directory(blobs), then the lease entry and the return.             *)
CommitSync(c) ==
    /\ pc[c] = "renamed"
    /\ blobsSynced' = blobs
    /\ InsertInLease(job[c].lease, job[c].digest)
    /\ lock' = Nobody
    /\ Finish(c)
    /\ UNCHANGED <<blobs, pins, pinsSynced, nextLeaseId, committed,
                   committedBytes, restarts, resurrected, faulted>>

(* The sync fails: the error return skips the lease, the blob stays.       *)
CommitSyncFails(c) ==
    /\ SyncCanFail
    /\ pc[c] = "renamed"
    /\ lock' = Nobody
    /\ Finish(c)
    /\ faulted' = TRUE
    /\ UNCHANGED <<blobs, blobsSynced, pins, pinsSynced, leases, nextLeaseId,
                   committed, committedBytes, restarts, resurrected>>

-----------------------------------------------------------------------------
(* Pins                                                                    *)

Under(n) == {n} \X Digests
SyncOutcomes == IF SyncCanFail THEN BOOLEAN ELSE {TRUE}

(* A marker is created and its directory synced under the mutex; a marker  *)
(* that is already there is left alone, without a sync.                    *)
Pin(n, d, synced) ==
    /\ ~Locked
    /\ d \in blobs
    /\ pins' = pins \cup {<<n, d>>}
    /\ pinsSynced' = IF synced /\ <<n, d>> \notin pins
                     THEN (pinsSynced \ Under(n)) \cup (pins' \cap Under(n))
                     ELSE pinsSynced
    /\ resurrected' = resurrected \ {<<n, d>>}
    /\ faulted' = (faulted \/ (~synced /\ <<n, d>> \notin pins))
    /\ UNCHANGED <<blobs, blobsSynced, leases, nextLeaseId, committed,
                   committedBytes, lock, pc, job, restarts>>

(* Only the parent of the name's directory is synced: a marker removed     *)
(* beside others of the same name may come back after a crash.             *)
Unpin(n, d, synced) ==
    /\ ~Locked
    /\ <<n, d>> \in pins
    /\ pins' = pins \ {<<n, d>>}
    /\ pinsSynced' = IF synced /\ pins' \cap Under(n) = {}
                     THEN pinsSynced \ Under(n)
                     ELSE pinsSynced
    /\ resurrected' = resurrected \ {<<n, d>>}
    /\ faulted' = (faulted \/ ~synced)
    /\ UNCHANGED <<blobs, blobsSynced, leases, nextLeaseId, committed,
                   committedBytes, lock, pc, job, restarts>>

-----------------------------------------------------------------------------
(* Leases                                                                  *)

CreateLease ==
    /\ ~Locked
    /\ nextLeaseId < MaxLeases
    /\ nextLeaseId' = nextLeaseId + 1
    /\ leases' = [l \in DOMAIN leases \cup {nextLeaseId + 1} |->
                     IF l = nextLeaseId + 1 THEN {} ELSE leases[l]]
    /\ UNCHANGED <<blobs, blobsSynced, pins, pinsSynced, committed,
                   committedBytes, lock, pc, job, restarts, resurrected, faulted>>

AddToLease(l, d) ==
    /\ ~Locked
    /\ l \in DOMAIN leases
    /\ d \in blobs
    /\ leases' = [leases EXCEPT ![l] = @ \cup {d}]
    /\ UNCHANGED <<blobs, blobsSynced, pins, pinsSynced, nextLeaseId, committed,
                   committedBytes, lock, pc, job, restarts, resurrected, faulted>>

RemoveFromLease(l, d) ==
    /\ ~Locked
    /\ l \in DOMAIN leases
    /\ leases' = [leases EXCEPT ![l] = @ \ {d}]
    /\ UNCHANGED <<blobs, blobsSynced, pins, pinsSynced, nextLeaseId, committed,
                   committedBytes, lock, pc, job, restarts, resurrected, faulted>>

(* Lease::release consumes the handle, so no ingest borrows it any more.   *)
ReleaseLease(l) ==
    /\ ~Locked
    /\ l \in DOMAIN leases
    /\ \A c \in Clients : job[c].lease # l
    /\ leases' = [k \in DOMAIN leases \ {l} |-> leases[k]]
    /\ UNCHANGED <<blobs, blobsSynced, pins, pinsSynced, nextLeaseId, committed,
                   committedBytes, lock, pc, job, restarts, resurrected, faulted>>

-----------------------------------------------------------------------------
(* Garbage collection                                                      *)

(* Mutant: pinned blobs are not marked.                                    *)
MarkedWithoutPins(roots) == roots \cup LeasedDigests

(* Marks under the mutex, which stays held over the whole sweep.           *)
Marked(roots) == roots \cup PinnedDigests \cup LeasedDigests

GcMark(c, roots) ==
    /\ pc[c] = "idle"
    /\ ~Locked
    /\ lock' = c
    /\ pc' = [pc EXCEPT ![c] = "sweeping"]
    /\ job' = [job EXCEPT ![c] = [NoJob EXCEPT !.marked = Marked(roots)]]
    /\ UNCHANGED <<blobs, blobsSynced, pins, pinsSynced, leases, nextLeaseId,
                   committed, committedBytes, restarts, resurrected, faulted>>

GcRemove(c, d) ==
    /\ pc[c] = "sweeping"
    /\ d \in blobs \ job[c].marked
    /\ blobs' = blobs \ {d}
    /\ RemoveCommittedBlob(d)
    /\ job' = [job EXCEPT ![c].swept = TRUE]
    /\ UNCHANGED <<blobsSynced, pins, pinsSynced, leases, nextLeaseId, lock, pc,
                   restarts, resurrected, faulted>>

(* The sweep saw every entry (nothing unmarked is left): the directory is  *)
(* synced when something was removed.                                      *)
GcFinish(c) ==
    /\ pc[c] = "sweeping"
    /\ blobs \subseteq job[c].marked
    /\ blobsSynced' = IF job[c].swept THEN blobs ELSE blobsSynced
    /\ lock' = Nobody
    /\ Finish(c)
    /\ UNCHANGED <<blobs, pins, pinsSynced, leases, nextLeaseId, committed,
                   committedBytes, restarts, resurrected, faulted>>

(* A filesystem error ends the sweep early, before or at the sync.         *)
GcFails(c) ==
    /\ pc[c] = "sweeping"
    /\ lock' = Nobody
    /\ Finish(c)
    /\ UNCHANGED <<blobs, blobsSynced, pins, pinsSynced, leases, nextLeaseId,
                   committed, committedBytes, restarts, resurrected, faulted>>

-----------------------------------------------------------------------------
(* A crash and ContentStore::open: what was not synced may or may not have *)
(* reached the disk, leases are gone, the accounting is rebuilt by a scan. *)

(* Mutant: the scan lists the blobs but does not add up their sizes.       *)
ScanWithoutBytes(D) ==
    /\ committed' = D
    /\ committedBytes' = 0

ScanCommittedBlobs(D) ==
    /\ committed' = D
    /\ committedBytes' = TotalSize(D)

Restart(B, P) ==
    /\ restarts < MaxRestarts
    /\ restarts' = restarts + 1
    /\ blobs \cap blobsSynced \subseteq B
    /\ pins \cap pinsSynced \subseteq P
    /\ blobs' = B
    /\ blobsSynced' = B
    /\ pins' = P
    /\ pinsSynced' = P
    /\ resurrected' = (resurrected \cap P) \cup (P \ pins)
    /\ leases' = [l \in {} |-> {}]
    /\ nextLeaseId' = 0
    /\ lock' = Nobody
    /\ pc' = [c \in Clients |-> "idle"]
    /\ job' = [c \in Clients |-> NoJob]
    /\ ScanCommittedBlobs(B)
    /\ UNCHANGED faulted

-----------------------------------------------------------------------------
Init ==
    /\ blobs = {}
    /\ blobsSynced = {}
    /\ pins = {}
    /\ pinsSynced = {}
    /\ leases = [l \in {} |-> {}]
    /\ nextLeaseId = 0
    /\ committed = {}
    /\ committedBytes = 0
    /\ lock = Nobody
    /\ pc = [c \in Clients |-> "idle"]
    /\ job = [c \in Clients |-> NoJob]
    /\ restarts = 0
    /\ resurrected = {}
    /\ faulted = FALSE

ClientStep(c) ==
    \/ \E l \in DOMAIN leases \cup {NoLease}, e \in Digests \cup {AnyBlob} : IngestStart(c, l, e)
    \/ IngestFails(c)
    \/ \E d \in Digests : CommitExisting(c, d)
    \/ \E d \in Digests : CommitRename(c, d)
    \/ CommitSync(c)
    \/ CommitSyncFails(c)
    \/ \E roots \in SUBSET Digests : GcMark(c, roots)
    \/ \E d \in Digests : GcRemove(c, d)
    \/ GcFinish(c)
    \/ GcFails(c)

Next ==
    \/ \E c \in Clients : ClientStep(c)
    \/ \E n \in Names, d \in Digests, ok \in SyncOutcomes : Pin(n, d, ok)
    \/ \E n \in Names, d \in Digests, ok \in SyncOutcomes : Unpin(n, d, ok)
    \/ CreateLease
    \/ \E l \in DOMAIN leases, d \in Digests : AddToLease(l, d)
    \/ \E l \in DOMAIN leases, d \in Digests : RemoveFromLease(l, d)
    \/ \E l \in DOMAIN leases : ReleaseLease(l)
    \/ \E B \in SUBSET (blobs \cup blobsSynced), P \in SUBSET (pins \cup pinsSynced) : Restart(B, P)

Spec == Init /\ [][Next]_vars

-----------------------------------------------------------------------------
(* Properties                                                              *)

JobType == [lease : LeaseIds \cup {NoLease}, expected : Digests \cup {AnyBlob},
            digest : Digests \cup {AnyBlob}, marked : SUBSET Digests, swept : BOOLEAN]

(* Every variable stays in the range of the field it models.               *)
TypeOK ==
    /\ blobs \in SUBSET Digests
    /\ blobsSynced \in SUBSET Digests
    /\ pins \in SUBSET Pins
    /\ pinsSynced \in SUBSET Pins
    /\ DOMAIN leases \subseteq LeaseIds
    /\ leases \in [DOMAIN leases -> SUBSET Digests]
    /\ nextLeaseId \in 0..MaxLeases
    /\ committed \in SUBSET Digests
    /\ committedBytes \in Nat
    /\ lock \in Clients \cup {Nobody}
    /\ pc \in [Clients -> {"idle", "streaming", "renamed", "sweeping"}]
    /\ job \in [Clients -> JobType]
    /\ restarts \in 0..MaxRestarts
    /\ resurrected \in SUBSET Pins
    /\ faulted \in BOOLEAN

(* The incremental accounting of State never drifts from the directory:    *)
(* the charged blobs are exactly the files, each charged once, whatever    *)
(* interleaving of duplicate ingests, sweeps, failures and restarts.       *)
AccountingExact ==
    /\ committed = blobs
    /\ committedBytes = TotalSize(blobs)

(* A step of the running process that grows the committed bytes leaves     *)
(* them within the quota: the check at commit time closes the window       *)
(* between the preflight and the rename ("A unique blob is admitted while  *)
(* holding the process-local store state lock").                           *)
QuotaRespected ==
    [][restarts' = restarts /\ committedBytes' > committedBytes
          => committedBytes' <= MaxCommittedBytes]_vars

(* A leased blob is on disk for as long as the lease holds it, and so is   *)
(* the blob of a pin, except for a marker a crash brought back: leases and *)
(* pins are roots no collection, failure or restart can undercut.  The     *)
(* blob of a pin has also reached the disk, not only the page cache: pin   *)
(* can only find a file whose rename an earlier commit has synced, so a    *)
(* crash leaves no fresh pin without its blob.                             *)
RootsBacked ==
    /\ LeasedDigests \subseteq blobs
    /\ ~faulted => \A p \in pins \ resurrected : p[2] \in blobs \cap blobsSynced

(* No step of the running process takes a blob away from a root.           *)
RootsNeverCollected ==
    [][restarts' = restarts => (blobs \ blobs') \cap Rooted = {}]_vars

=============================================================================
