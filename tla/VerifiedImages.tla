--------------------------- MODULE VerifiedImages ---------------------------
(***************************************************************************)
(* The durable startup records of crates/rish-pull (verified_image),       *)
(* composed with the content store.  Persisting a pulled image prunes old  *)
(* record pins, stores the record blob, pins the image graph and the       *)
(* record, then switches the locator file by rename; a failure rolls the   *)
(* new pins back.  Every store call is an action of ContentStore, so a     *)
(* collector thread and a crash may come between any two of them.          *)
(*                                                                         *)
(* One image key (resolved digest and platform) is modelled: its graph is  *)
(* fixed by the digest, its record varies with the reference pulled.       *)
(***************************************************************************)
EXTENDS ContentStore

CONSTANTS
    Persister,      \* the thread inside pull + persist, serialised by PULL_LOCK
    Collector,      \* a thread collecting garbage
    Graph,          \* the index, manifest, config and layer blobs of the image
    Records,        \* the possible record blobs of the image
    GraphPin,       \* graph_pin_name
    RecordPin,      \* record_pin_name
    NoRecord        \* no locator file

ASSUME ImageAssumption ==
    /\ Persister \in Clients /\ Collector \in Clients /\ Persister # Collector
    /\ Graph \subseteq Digests /\ Records \subseteq Digests
    /\ Graph \cap Records = {}
    /\ GraphPin \in Names /\ RecordPin \in Names /\ GraphPin # RecordPin
    /\ NoRecord \notin Digests

VARIABLES
    locator,        \* the record the locator file selects
    locatorSynced,  \* the locator as of the last sync of its directory
    stage,          \* where persist is
    record,         \* the record being persisted
    previous,       \* previous_record, read from the locator at the start
    created,        \* pins this persist made: created_graph and created_record
    imageFaulted    \* history: the locator's sync or a rollback's unpin failed

imageVars == <<locator, locatorSynced, stage, record, previous, created, imageFaulted>>
allVars == <<vars, imageVars>>

PinSet(n) == {d \in Digests : <<n, d>> \in pins}

Goto(s) == stage' = s

-----------------------------------------------------------------------------
(* The pull: graph blobs are ingested under the lease the image carries    *)

PullLeaseStep ==
    /\ stage = "pulling"
    /\ DOMAIN leases = {}
    /\ CreateLease
    /\ UNCHANGED imageVars

PullBlobStep ==
    /\ stage = "pulling"
    /\ \/ \E l \in DOMAIN leases, g \in Graph \ LeasedDigests : IngestStart(Persister, l, g)
       \/ \E g \in Graph : CommitExisting(Persister, g)
       \/ \E g \in Graph : CommitRename(Persister, g)
       \/ CommitSync(Persister)
       \/ CommitSyncFails(Persister)
       \/ IngestFails(Persister)
    /\ UNCHANGED imageVars

(* Any error of the pull drops the lease; what it stored is garbage.       *)
PullAborts ==
    /\ stage = "pulling"
    /\ \E l \in DOMAIN leases : ReleaseLease(l)
    /\ UNCHANGED imageVars

(* The pull succeeded; persist reads the current locator.                  *)
PersistStart(r) ==
    /\ stage = "pulling"
    /\ pc[Persister] = "idle"
    /\ LeasedDigests = Graph
    /\ previous' = locator
    /\ record' = r
    /\ created' = {}
    /\ Goto("pruneOld")
    /\ UNCHANGED <<vars, locator, locatorSynced, imageFaulted>>

-----------------------------------------------------------------------------
(* persist                                                                 *)

Obsolete(keep) == PinSet(RecordPin) \ {keep}

(* prune_record_pins before staging, and again after the commit.           *)
Prune(at, keep) ==
    /\ stage = at
    /\ \E d \in Obsolete(keep) : Unpin(RecordPin, d, TRUE)
    /\ UNCHANGED imageVars

(* An unpin fails, before or after it removed the marker: persist returns  *)
(* the error, or ignores it once the locator is switched.                  *)
PruneFails(at, keep, next) ==
    /\ stage = at
    /\ \E d \in Obsolete(keep) :
          \/ ~Locked /\ UNCHANGED vars
          \/ SyncCanFail /\ Unpin(RecordPin, d, FALSE)
    /\ Goto(next)
    /\ UNCHANGED <<locator, locatorSynced, record, previous, created, imageFaulted>>

(* Mutant: stages a replacement while leftovers of a crash remain.         *)
PruneOldSkipped ==
    /\ stage = "pruneOld"
    /\ Goto("ingest")
    /\ UNCHANGED <<vars, locator, locatorSynced, record, previous, created, imageFaulted>>

PruneOldDone ==
    /\ stage = "pruneOld"
    /\ Obsolete(previous) = {}
    /\ Goto("ingest")
    /\ UNCHANGED <<vars, locator, locatorSynced, record, previous, created, imageFaulted>>

(* ingest_bytes(record): no lease holds the record blob until its pin.     *)
StoreRecord ==
    /\ stage = "ingest"
    /\ IngestStart(Persister, NoLease, AnyBlob)
    /\ UNCHANGED imageVars

(* Mutant: writes the record beside the store, without its accounting.     *)
StoreRecordDirectly ==
    /\ stage = "ingest"
    /\ pc[Persister] = "streaming"
    /\ ~Locked
    /\ blobs' = blobs \cup {record}
    /\ UNCHANGED <<blobsSynced, pins, pinsSynced, leases, nextLeaseId, committed,
                   committedBytes, lock, pc, job, restarts, resurrected, faulted, imageVars>>

StoreRecordRename ==
    /\ stage = "ingest"
    /\ CommitRename(Persister, record)
    /\ UNCHANGED imageVars

StoreRecordDone ==
    /\ stage = "ingest"
    /\ CommitExisting(Persister, record) \/ CommitSync(Persister)
    /\ Goto("pinGraph")
    /\ UNCHANGED <<locator, locatorSynced, record, previous, created, imageFaulted>>

(* Nothing to roll back yet: the error is returned and the image dropped.  *)
StoreRecordFails ==
    /\ stage = "ingest"
    /\ IngestFails(Persister) \/ CommitSyncFails(Persister)
    /\ Goto("failed")
    /\ UNCHANGED <<locator, locatorSynced, record, previous, created, imageFaulted>>

(* pin_missing over the graph, then over the record.                       *)
Missing(n, D) == D \ PinSet(n)

PinNext(at, n, D, next) ==
    /\ stage = at
    /\ \/ /\ \E d \in Missing(n, D) : Pin(n, d, TRUE) /\ created' = created \cup {<<n, d>>}
          /\ UNCHANGED <<locator, locatorSynced, stage, record, previous, imageFaulted>>
       \/ /\ Missing(n, D) = {}
          /\ Goto(next)
          /\ UNCHANGED <<vars, locator, locatorSynced, record, previous, created, imageFaulted>>

PinGraph == PinNext("pinGraph", GraphPin, Graph, "pinRecord")
PinRecord == PinNext("pinRecord", RecordPin, {record}, "check")

(* A pin fails: its blob was collected, the marker could not be made, or   *)
(* was made and not synced.  Only the pins in created are rolled back.     *)
PinFails(at, n, D) ==
    /\ stage = at
    /\ \E d \in Missing(n, D) :
          \/ ~Locked /\ UNCHANGED vars
          \/ SyncCanFail /\ Pin(n, d, FALSE)
    /\ Goto("rollback")
    /\ UNCHANGED <<locator, locatorSynced, record, previous, created, imageFaulted>>

(* ensure_exact_pin_set, ensure_pin_contains, then the locator's rename.   *)
ChecksPass == PinSet(GraphPin) = Graph /\ record \in PinSet(RecordPin)

RenameLocator ==
    /\ stage = "check"
    /\ ~Locked
    /\ ChecksPass
    /\ locator' = record
    /\ Goto("syncLocator")
    /\ UNCHANGED <<vars, locatorSynced, record, previous, created, imageFaulted>>

(* A graph pin left over from elsewhere, or an I/O error before the rename.*)
CheckFails ==
    /\ stage = "check"
    /\ ~Locked
    /\ Goto("rollback")
    /\ UNCHANGED <<vars, locator, locatorSynced, record, previous, created, imageFaulted>>

(* Mutant: prunes the old record without syncing the new locator.          *)
SyncLocatorSkipped ==
    /\ stage = "syncLocator"
    /\ Goto("pruneNew")
    /\ UNCHANGED <<vars, locator, locatorSynced, record, previous, created, imageFaulted>>

SyncLocator ==
    /\ stage = "syncLocator"
    /\ locatorSynced' = locator
    /\ Goto("pruneNew")
    /\ UNCHANGED <<vars, locator, record, previous, created, imageFaulted>>

(* The sync fails after the rename: the error path rolls the pins back.    *)
SyncLocatorFails ==
    /\ SyncCanFail
    /\ stage = "syncLocator"
    /\ Goto("rollback")
    /\ imageFaulted' = TRUE
    /\ UNCHANGED <<vars, locator, locatorSynced, record, previous, created>>

(* rollback_pins ignores the outcome of each unpin.                        *)
Rollback ==
    /\ stage = "rollback"
    /\ \E p \in created :
          /\ \/ Unpin(p[1], p[2], TRUE) /\ UNCHANGED imageFaulted
             \/ SyncCanFail /\ ~Locked /\ imageFaulted' = TRUE /\ UNCHANGED vars
          /\ created' = created \ {p}
    /\ UNCHANGED <<locator, locatorSynced, stage, record, previous>>

(* Mutant: gives up the rollback half-way.                                 *)
RollbackAbandoned ==
    /\ stage = "rollback"
    /\ Goto("failed")
    /\ UNCHANGED <<vars, locator, locatorSynced, record, previous, created, imageFaulted>>

RollbackDone ==
    /\ stage = "rollback"
    /\ created = {}
    /\ Goto("failed")
    /\ UNCHANGED <<vars, locator, locatorSynced, record, previous, created, imageFaulted>>

PruneNewDone ==
    /\ stage = "pruneNew"
    /\ Obsolete(record) = {}
    /\ Goto("done")
    /\ UNCHANGED <<vars, locator, locatorSynced, record, previous, created, imageFaulted>>

(* The call returns and the image drops its lease; the next pull may start.*)
Return ==
    /\ stage \in {"done", "failed"}
    /\ \E l \in DOMAIN leases : ReleaseLease(l)
    /\ Goto("pulling")
    /\ record' = NoRecord
    /\ previous' = NoRecord
    /\ created' = {}
    /\ UNCHANGED <<locator, locatorSynced, imageFaulted>>

-----------------------------------------------------------------------------
Collect ==
    /\ \/ GcMark(Collector, {})
       \/ \E d \in Digests : GcRemove(Collector, d)
       \/ GcFinish(Collector)
       \/ GcFails(Collector)
    /\ UNCHANGED imageVars

CrashAndReopen(B, P, l) ==
    /\ Restart(B, P)
    /\ locator' = l
    /\ locatorSynced' = l
    /\ Goto("pulling")
    /\ record' = NoRecord
    /\ previous' = NoRecord
    /\ created' = {}
    /\ UNCHANGED imageFaulted

ImageInit ==
    /\ Init
    /\ locator = NoRecord
    /\ locatorSynced = NoRecord
    /\ stage = "pulling"
    /\ record = NoRecord
    /\ previous = NoRecord
    /\ created = {}
    /\ imageFaulted = FALSE

PersistStep ==
    \/ PullLeaseStep
    \/ PullBlobStep
    \/ PullAborts
    \/ \E r \in Records : PersistStart(r)
    \/ Prune("pruneOld", previous) \/ PruneFails("pruneOld", previous, "failed")
    \/ PruneOldDone
    \/ StoreRecord \/ StoreRecordRename \/ StoreRecordDone \/ StoreRecordFails
    \/ PinGraph \/ PinFails("pinGraph", GraphPin, Graph)
    \/ PinRecord \/ PinFails("pinRecord", RecordPin, {record})
    \/ RenameLocator \/ CheckFails \/ SyncLocator \/ SyncLocatorFails
    \/ Rollback \/ RollbackDone
    \/ Prune("pruneNew", record) \/ PruneFails("pruneNew", record, "done")
    \/ PruneNewDone \/ Return

ImageNext ==
    \/ PersistStep
    \/ Collect
    \/ \E B \in SUBSET (blobs \cup blobsSynced), P \in SUBSET (pins \cup pinsSynced),
          l \in {locator, locatorSynced} : CrashAndReopen(B, P, l)

ImageSpec == ImageInit /\ [][ImageNext]_allVars

-----------------------------------------------------------------------------
(* Every step of the composition is a step the content store allows, so    *)
(* what is proved of the store holds here.                                 *)
RefinesContentStore == Spec

(* reopen_for_platform succeeds on this record.                            *)
CanReopen(r) ==
    /\ r \in PinSet(RecordPin) /\ r \in blobs
    /\ PinSet(GraphPin) = Graph /\ Graph \subseteq blobs

(* No directory sync and no rollback has failed so far.                    *)
Sound == ~faulted /\ ~imageFaulted

(* The locator is the commit point of persist: from the instant its rename *)
(* happens the record it selects can be reopened with its whole graph.     *)
LocatorIsCommitPoint == locator # NoRecord => CanReopen(locator)

(* Through pruning, rollbacks, collection and crashes that is so until a   *)
(* directory sync fails, for the locator the process sees and for the one  *)
(* a crash at this instant may leave on disk instead.                      *)
SelectedRecordReopens ==
    Sound => \A l \in {locator, locatorSynced} \ {NoRecord} : CanReopen(l)

(* "After a crash, a serialized writer therefore retains at most the       *)
(* selected record plus one staged replacement": failed or interrupted     *)
(* persists never accumulate record pins, unless a crash brings back a     *)
(* marker whose removal a failing sync left volatile.                      *)
AtMostTwoRecords == Sound \/ restarts = 0 => Cardinality(PinSet(RecordPin)) <= 2

(* A persist that failed leaves the pins of the committed image and no     *)
(* others: after its rollback the graph is pinned as a whole if a locator  *)
(* selects the image, and nothing is pinned otherwise, unless a crash      *)
(* interrupted an earlier persist half-way.                                *)
RollbackIsComplete ==
    stage = "failed" /\ restarts = 0 /\ Sound =>
        IF locator = NoRecord THEN pins = {} ELSE PinSet(GraphPin) = Graph

=============================================================================
