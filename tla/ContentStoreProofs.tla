------------------------- MODULE ContentStoreProofs -------------------------
(***************************************************************************)
(* Proofs about the content store, for any set of blobs, sizes, names and  *)
(* clients, any quota and any number of restarts.                          *)
(***************************************************************************)
EXTENDS ContentStore, FiniteSetTheorems, TLAPS

-----------------------------------------------------------------------------
(* The byte count of a set of blobs                                        *)

(* The bytes of one blob are as many as its size.                          *)
LEMMA OneBlobBytes ==
    ASSUME NEW d \in Digests
    PROVE  /\ IsFiniteSet({d} \X (1..Size[d]))
           /\ Cardinality({d} \X (1..Size[d])) = Size[d]
<1>1. Size[d] \in Nat
  BY StoreAssumption
<1>2. IsFiniteSet({d}) /\ Cardinality({d}) = 1
  BY FS_Singleton
<1>3. IsFiniteSet(1..Size[d]) /\ Cardinality(1..Size[d]) = Size[d]
  BY <1>1, FS_Interval
<1> DEFINE one == {d}
           range == 1..Size[d]
<1>4. IsFiniteSet(one) /\ IsFiniteSet(range)
  BY <1>2, <1>3
<1> HIDE DEF one, range
<1>5. IsFiniteSet(one \X range)
        /\ Cardinality(one \X range) = Cardinality(one) * Cardinality(range)
  BY <1>4, FS_Product
<1>6. 1 * Size[d] = Size[d]
  BY <1>1
<1> QED
  BY <1>2, <1>3, <1>5, <1>6 DEF one, range

(* A set of blobs holds finitely many bytes.                               *)
LEMMA BytesFinite ==
    ASSUME NEW D \in SUBSET Digests
    PROVE  IsFiniteSet(Bytes(D))
<1> DEFINE parts == {{d} \X (1..Size[d]) : d \in D}
<1>1. IsFiniteSet(D)
  BY StoreAssumption, FS_Subset
<1>2. IsFiniteSet(parts)
  <2> DEFINE f == [d \in D |-> {d} \X (1..Size[d])]
  <2>1. f \in Surjection(D, parts)
    BY DEF Surjection
  <2> QED
    BY <1>1, <2>1, FS_Surjection
<1>3. \A T \in parts : IsFiniteSet(T)
  BY OneBlobBytes
<1>4. IsFiniteSet(UNION parts)
  BY <1>2, <1>3, FS_UNION
<1> QED
  BY <1>4 DEF Bytes

(* The total size is a natural number, zero for no blobs.                  *)
LEMMA TotalSizeType ==
    ASSUME NEW D \in SUBSET Digests
    PROVE  TotalSize(D) \in Nat
BY BytesFinite, FS_CardinalityType DEF TotalSize

LEMMA TotalSizeEmpty == TotalSize({}) = 0
<1>1. Bytes({}) = {}
  BY DEF Bytes
<1> QED
  BY <1>1, FS_EmptySet DEF TotalSize

(* Adding a new blob adds its size.                                        *)
LEMMA TotalSizeAdd ==
    ASSUME NEW D \in SUBSET Digests, NEW d \in Digests, d \notin D
    PROVE  TotalSize(D \cup {d}) = TotalSize(D) + Size[d]
<1> DEFINE own == {d} \X (1..Size[d])
<1>1. Bytes(D \cup {d}) = Bytes(D) \cup own
  BY DEF Bytes
<1>2. Bytes(D) \cap own = {}
  BY DEF Bytes
<1>3. IsFiniteSet(Bytes(D)) /\ IsFiniteSet(own) /\ Cardinality(own) = Size[d]
  BY BytesFinite, OneBlobBytes
<1>4. Cardinality(Bytes(D) \cap own) = 0
  BY <1>2, FS_EmptySet
<1>5. Cardinality(Bytes(D)) \in Nat /\ Size[d] \in Nat
  BY <1>3, FS_CardinalityType, StoreAssumption
<1>6. Cardinality(Bytes(D) \cup own)
        = Cardinality(Bytes(D)) + Cardinality(own) - Cardinality(Bytes(D) \cap own)
  BY <1>3, FS_Union
<1>7. Cardinality(Bytes(D) \cup own) = Cardinality(Bytes(D)) + Size[d]
  <2> DEFINE x == Cardinality(Bytes(D))
  <2> HIDE DEF x
  <2>1. x \in Nat
    BY <1>5 DEF x
  <2>2. Cardinality(Bytes(D) \cup own) = x + Size[d] - 0
    BY <1>3, <1>4, <1>6 DEF x
  <2> QED
    BY <1>5, <2>1, <2>2 DEF x
<1> HIDE DEF own
<1> QED
  BY <1>1, <1>7 DEF TotalSize

(* Removing a blob subtracts its size.                                     *)
LEMMA TotalSizeRemove ==
    ASSUME NEW D \in SUBSET Digests, NEW d \in D
    PROVE  TotalSize(D \ {d}) = TotalSize(D) - Size[d]
<1>1. (D \ {d}) \cup {d} = D
  OBVIOUS
<1>2. TotalSize((D \ {d}) \cup {d}) = TotalSize(D \ {d}) + Size[d]
  BY TotalSizeAdd
<1>3. TotalSize(D \ {d}) \in Nat /\ Size[d] \in Nat
  BY TotalSizeType, StoreAssumption
<1> DEFINE rest == TotalSize(D \ {d})
<1>4. TotalSize(D) = rest + Size[d]
  BY <1>1, <1>2
<1>5. rest \in Nat
  BY <1>3
<1> HIDE DEF rest
<1>6. rest = TotalSize(D) - Size[d]
  BY <1>3, <1>4, <1>5
<1> QED
  BY <1>6 DEF rest

-----------------------------------------------------------------------------
(* The inductive invariant                                                 *)

(* Exactly the client inside a locked section holds the mutex.             *)
LockInv ==
    \A c \in Clients : pc[c] \in {"renamed", "sweeping"} <=> lock = c

(* What a client inside a locked section may rely on: its renamed blob is  *)
(* in the directory, and its marks cover every root.                       *)
JobInv ==
    \A c \in Clients :
        /\ pc[c] = "renamed" => job[c].digest \in blobs
        /\ pc[c] = "sweeping" => /\ \A l \in DOMAIN leases : leases[l] \subseteq job[c].marked
                                 /\ \A p \in pins : p[2] \in job[c].marked

(* Leases hold only files that exist.                                      *)
LeaseInv == \A l \in DOMAIN leases : leases[l] \subseteq blobs

(* Until a sync fails, only the file a client has just renamed is not      *)
(* yet durable, and pinned files exist and are durable.                    *)
SyncInv ==
    ~faulted =>
        /\ \A d \in blobs \ blobsSynced : \E c \in Clients : pc[c] = "renamed" /\ job[c].digest = d
        /\ \A p \in pins \ resurrected : p[2] \in blobs /\ p[2] \in blobsSynced

IInv == TypeOK /\ AccountingExact /\ LockInv /\ JobInv /\ LeaseInv /\ SyncInv

(* The empty store satisfies the invariant.                                *)
LEMMA InitInv == Init => IInv
<1> SUFFICES ASSUME Init PROVE IInv
  OBVIOUS
<1> USE StoreAssumption DEF Init
<1>0. faulted \in BOOLEAN
  BY Zenon
<1>1. TypeOK
  BY <1>0 DEF TypeOK, NoJob, JobType, NoLease, LeaseIds, Pins
<1>2. AccountingExact
  BY TotalSizeEmpty DEF AccountingExact
<1>3. LockInv /\ JobInv /\ LeaseInv /\ SyncInv
  BY DEF LockInv, JobInv, LeaseInv, SyncInv
<1> QED
  BY <1>1, <1>2, <1>3 DEF IInv

(* Starting an ingest touches no shared state.                             *)
LEMMA IngestStartInv ==
    ASSUME IInv, NEW c \in Clients, NEW l \in DOMAIN leases \cup {NoLease}, NEW e \in Digests \cup {AnyBlob}, IngestStart(c, l, e)
    PROVE  IInv'
<1> USE StoreAssumption DEF IInv, IngestStart
<1>1. TypeOK'
  BY DEF TypeOK, JobType, NoJob, NoLease, LeaseIds, Pins
<1>2. AccountingExact'
  BY DEF AccountingExact
<1>3. LockInv'
  BY DEF LockInv, TypeOK, Locked
<1>4. JobInv'
  BY DEF JobInv, LockInv, TypeOK, JobType, NoJob, Locked
<1>5. LeaseInv'
  BY DEF LeaseInv, TypeOK
<1>6. SyncInv'
  BY DEF SyncInv, LockInv, TypeOK, JobType, NoJob, Locked
<1> QED
  BY <1>1, <1>2, <1>3, <1>4, <1>5, <1>6 DEF IInv

(* A failed ingest leaves nothing behind.                                  *)
LEMMA IngestFailsInv ==
    ASSUME IInv, NEW c \in Clients, IngestFails(c)
    PROVE  IInv'
<1> USE StoreAssumption DEF IInv, IngestFails
<1>1. TypeOK'
  BY DEF TypeOK, JobType, NoJob, NoLease, LeaseIds, Pins, Finish
<1>2. AccountingExact'
  BY DEF AccountingExact
<1>3. LockInv'
  BY DEF LockInv, TypeOK, Finish
<1>4. JobInv'
  BY DEF JobInv, LockInv, TypeOK, Finish
<1>5. LeaseInv'
  BY DEF LeaseInv, TypeOK
<1>6. SyncInv'
  BY DEF SyncInv, LockInv, TypeOK, Finish
<1> QED
  BY <1>1, <1>2, <1>3, <1>4, <1>5, <1>6 DEF IInv

(* Committing a blob that is already there charges nothing.                *)
LEMMA CommitExistingInv ==
    ASSUME IInv, NEW c \in Clients, NEW d \in Digests, CommitExisting(c, d)
    PROVE  IInv'
<1> USE StoreAssumption DEF IInv, CommitExisting
<1>1. TypeOK'
  BY DEF TypeOK, JobType, NoJob, NoLease, LeaseIds, Pins, Streamed, Finish, ObserveCommittedBlob, InsertInLease, Locked
<1>2. AccountingExact'
  BY TotalSizeType DEF AccountingExact, TypeOK, ObserveCommittedBlob
<1>3. LockInv'
  BY DEF LockInv, TypeOK, Streamed, Finish, Locked
<1>4. JobInv'
  BY DEF JobInv, LockInv, TypeOK, Streamed, Finish, InsertInLease, Locked
<1>5. LeaseInv'
  BY DEF LeaseInv, TypeOK, Streamed, InsertInLease
<1>6. SyncInv'
  BY DEF SyncInv, LockInv, TypeOK, Streamed, Finish, Locked
<1> QED
  BY <1>1, <1>2, <1>3, <1>4, <1>5, <1>6 DEF IInv

(* The rename charges a new blob once and takes the mutex.                 *)
LEMMA CommitRenameInv ==
    ASSUME IInv, NEW c \in Clients, NEW d \in Digests, CommitRename(c, d)
    PROVE  IInv'
<1> USE StoreAssumption DEF IInv, CommitRename
<1>1. TypeOK'
  BY DEF TypeOK, JobType, NoJob, NoLease, LeaseIds, Pins, ObserveCommittedBlob
<1>2. AccountingExact'
  BY TotalSizeAdd DEF AccountingExact, TypeOK, ObserveCommittedBlob
<1>3. LockInv'
  BY DEF LockInv, TypeOK, Streamed, Locked
<1>4. JobInv'
  BY DEF JobInv, LockInv, TypeOK, JobType, NoJob, Streamed, Locked
<1>5. LeaseInv'
  BY DEF LeaseInv, TypeOK, Streamed
<1>6. SyncInv'
  BY DEF SyncInv, LockInv, TypeOK, JobType, NoJob, Streamed, Locked
<1> QED
  BY <1>1, <1>2, <1>3, <1>4, <1>5, <1>6 DEF IInv

(* The sync makes the renamed blob durable, then leases it.                *)
LEMMA CommitSyncInv ==
    ASSUME IInv, NEW c \in Clients, CommitSync(c)
    PROVE  IInv'
<1> USE StoreAssumption DEF IInv, CommitSync
<1> job[c].digest \in Digests
  BY DEF JobInv, TypeOK
<1>1. TypeOK'
  BY DEF TypeOK, JobType, NoJob, NoLease, LeaseIds, Pins, Finish, InsertInLease
<1>2. AccountingExact'
  BY DEF AccountingExact
<1>3. LockInv'
  BY DEF LockInv, TypeOK, Finish
<1>4. JobInv'
  BY DEF JobInv, LockInv, TypeOK, Finish, InsertInLease
<1>5. LeaseInv'
  BY DEF LeaseInv, JobInv, TypeOK, InsertInLease
<1>6. SyncInv'
  BY DEF SyncInv, LockInv, TypeOK, Finish
<1> QED
  BY <1>1, <1>2, <1>3, <1>4, <1>5, <1>6 DEF IInv

(* A failed sync leaves an accounted blob that nothing leases.             *)
LEMMA CommitSyncFailsInv ==
    ASSUME IInv, NEW c \in Clients, CommitSyncFails(c)
    PROVE  IInv'
<1> USE StoreAssumption DEF IInv, CommitSyncFails
<1>1. TypeOK'
  BY DEF TypeOK, JobType, NoJob, NoLease, LeaseIds, Pins, Finish
<1>2. AccountingExact'
  BY DEF AccountingExact
<1>3. LockInv'
  BY DEF LockInv, TypeOK, Finish
<1>4. JobInv'
  BY DEF JobInv, LockInv, TypeOK, Finish
<1>5. LeaseInv'
  BY DEF LeaseInv, TypeOK
<1>6. SyncInv'
  BY DEF SyncInv, LockInv, TypeOK, Finish
<1> QED
  BY <1>1, <1>2, <1>3, <1>4, <1>5, <1>6 DEF IInv

(* The marks cover every root at the time the mutex is taken.              *)
LEMMA GcMarkInv ==
    ASSUME IInv, NEW c \in Clients, NEW roots \in SUBSET Digests, GcMark(c, roots)
    PROVE  IInv'
<1> USE StoreAssumption DEF IInv, GcMark
<1> Marked(roots) \in SUBSET Digests
  BY DEF Marked, PinnedDigests, LeasedDigests, TypeOK, Pins
<1>1. TypeOK'
  BY DEF TypeOK, JobType, NoJob, NoLease, LeaseIds, Pins
<1>2. AccountingExact'
  BY DEF AccountingExact
<1>3. LockInv'
  BY DEF LockInv, TypeOK, Locked
<1>4. JobInv'
  BY DEF JobInv, LockInv, TypeOK, JobType, NoJob, PinnedDigests, LeasedDigests, Marked, Locked
<1>5. LeaseInv'
  BY DEF LeaseInv, TypeOK
<1>6. SyncInv'
  BY DEF SyncInv, LockInv, TypeOK, JobType, NoJob, Locked
<1> QED
  BY <1>1, <1>2, <1>3, <1>4, <1>5, <1>6 DEF IInv

(* A removed blob was unmarked, hence in no lease and under no pin.        *)
LEMMA GcRemoveInv ==
    ASSUME IInv, NEW c \in Clients, NEW d \in Digests, GcRemove(c, d)
    PROVE  IInv'
<1> USE StoreAssumption DEF IInv, GcRemove
<1>1. committed \in SUBSET Digests /\ d \in committed /\ committedBytes = TotalSize(committed)
  BY DEF AccountingExact, TypeOK
<1>2. TotalSize(committed \ {d}) = committedBytes - Size[d] /\ TotalSize(committed \ {d}) \in Nat
  BY <1>1, TotalSizeRemove, TotalSizeType
<1>3. AccountingExact'
  BY <1>1, <1>2 DEF AccountingExact, RemoveCommittedBlob
<1>4. TypeOK'
  BY <1>1, <1>2 DEF TypeOK, JobType, NoJob, NoLease, LeaseIds, Pins, RemoveCommittedBlob
<1>5. LockInv'
  BY DEF LockInv, TypeOK
<1>6. JobInv'
  BY DEF JobInv, LockInv, TypeOK, JobType, NoJob
<1>7. LeaseInv'
  BY DEF LeaseInv, JobInv, TypeOK
<1>8. SyncInv'
  BY DEF SyncInv, LockInv, JobInv, TypeOK, JobType, NoJob
<1> QED
  BY <1>3, <1>4, <1>5, <1>6, <1>7, <1>8 DEF IInv

(* The end of a sweep makes the removals durable.                          *)
LEMMA GcFinishInv ==
    ASSUME IInv, NEW c \in Clients, GcFinish(c)
    PROVE  IInv'
<1> USE StoreAssumption DEF IInv, GcFinish
<1>1. TypeOK'
  BY DEF TypeOK, JobType, NoJob, NoLease, LeaseIds, Pins, Finish
<1>2. AccountingExact'
  BY DEF AccountingExact
<1>3. LockInv'
  BY DEF LockInv, TypeOK, Finish
<1>4. JobInv'
  BY DEF JobInv, LockInv, TypeOK, Finish
<1>5. LeaseInv'
  BY DEF LeaseInv, TypeOK
<1>6. SyncInv'
  BY DEF SyncInv, LockInv, TypeOK, Finish
<1> QED
  BY <1>1, <1>2, <1>3, <1>4, <1>5, <1>6 DEF IInv

(* An interrupted sweep has removed only unmarked blobs.                   *)
LEMMA GcFailsInv ==
    ASSUME IInv, NEW c \in Clients, GcFails(c)
    PROVE  IInv'
<1> USE StoreAssumption DEF IInv, GcFails
<1>1. TypeOK'
  BY DEF TypeOK, JobType, NoJob, NoLease, LeaseIds, Pins, Finish
<1>2. AccountingExact'
  BY DEF AccountingExact
<1>3. LockInv'
  BY DEF LockInv, TypeOK, Finish
<1>4. JobInv'
  BY DEF JobInv, LockInv, TypeOK, Finish
<1>5. LeaseInv'
  BY DEF LeaseInv, TypeOK
<1>6. SyncInv'
  BY DEF SyncInv, LockInv, TypeOK, Finish
<1> QED
  BY <1>1, <1>2, <1>3, <1>4, <1>5, <1>6 DEF IInv

(* A pin names a file, which an unlocked store has already synced.         *)
LEMMA PinInv ==
    ASSUME IInv, NEW n \in Names, NEW d \in Digests, NEW ok \in SyncOutcomes, Pin(n, d, ok)
    PROVE  IInv'
<1> USE StoreAssumption DEF IInv, Pin
<1>1. TypeOK'
  BY DEF TypeOK, JobType, NoJob, NoLease, LeaseIds, Pins, Under
<1>2. AccountingExact'
  BY DEF AccountingExact
<1>3. LockInv'
  BY DEF LockInv, TypeOK, Locked
<1>4. JobInv'
  BY DEF JobInv, LockInv, TypeOK, Locked
<1>5. LeaseInv'
  BY DEF LeaseInv, TypeOK
<1>6. SyncInv'
  BY DEF SyncInv, LockInv, TypeOK, Pins, SyncOutcomes, Locked
<1> QED
  BY <1>1, <1>2, <1>3, <1>4, <1>5, <1>6 DEF IInv

(* Removing a marker removes an obligation.                                *)
LEMMA UnpinInv ==
    ASSUME IInv, NEW n \in Names, NEW d \in Digests, NEW ok \in SyncOutcomes, Unpin(n, d, ok)
    PROVE  IInv'
<1> USE StoreAssumption DEF IInv, Unpin
<1>1. TypeOK'
  BY DEF TypeOK, JobType, NoJob, NoLease, LeaseIds, Pins, Under
<1>2. AccountingExact'
  BY DEF AccountingExact
<1>3. LockInv'
  BY DEF LockInv, TypeOK, Locked
<1>4. JobInv'
  BY DEF JobInv, LockInv, TypeOK, Locked
<1>5. LeaseInv'
  BY DEF LeaseInv, TypeOK
<1>6. SyncInv'
  BY DEF SyncInv, LockInv, TypeOK, Pins, SyncOutcomes, Locked
<1> QED
  BY <1>1, <1>2, <1>3, <1>4, <1>5, <1>6 DEF IInv

(* A new lease is empty.                                                   *)
LEMMA CreateLeaseInv ==
    ASSUME IInv, CreateLease
    PROVE  IInv'
<1> USE StoreAssumption DEF IInv, CreateLease
<1>1. TypeOK'
  BY DEF TypeOK, JobType, NoJob, NoLease, LeaseIds, Pins
<1>2. AccountingExact'
  BY DEF AccountingExact
<1>3. LockInv'
  BY DEF LockInv, TypeOK, Locked
<1>4. JobInv'
  BY DEF JobInv, LockInv, TypeOK, Locked
<1>5. LeaseInv'
  BY DEF LeaseInv, TypeOK
<1>6. SyncInv'
  BY DEF SyncInv, LockInv, TypeOK, Locked
<1> QED
  BY <1>1, <1>2, <1>3, <1>4, <1>5, <1>6 DEF IInv

(* A lease takes only files that exist.                                    *)
LEMMA AddToLeaseInv ==
    ASSUME IInv, NEW l \in DOMAIN leases, NEW d \in Digests, AddToLease(l, d)
    PROVE  IInv'
<1> USE StoreAssumption DEF IInv, AddToLease
<1>1. TypeOK'
  BY DEF TypeOK, JobType, NoJob, NoLease, LeaseIds, Pins
<1>2. AccountingExact'
  BY DEF AccountingExact
<1>3. LockInv'
  BY DEF LockInv, TypeOK, Locked
<1>4. JobInv'
  BY DEF JobInv, LockInv, TypeOK, Locked
<1>5. LeaseInv'
  BY DEF LeaseInv, TypeOK
<1>6. SyncInv'
  BY DEF SyncInv, LockInv, TypeOK, Locked
<1> QED
  BY <1>1, <1>2, <1>3, <1>4, <1>5, <1>6 DEF IInv

(* Shrinking a lease removes an obligation.                                *)
LEMMA RemoveFromLeaseInv ==
    ASSUME IInv, NEW l \in DOMAIN leases, NEW d \in Digests, RemoveFromLease(l, d)
    PROVE  IInv'
<1> USE StoreAssumption DEF IInv, RemoveFromLease
<1>1. TypeOK'
  BY DEF TypeOK, JobType, NoJob, NoLease, LeaseIds, Pins
<1>2. AccountingExact'
  BY DEF AccountingExact
<1>3. LockInv'
  BY DEF LockInv, TypeOK, Locked
<1>4. JobInv'
  BY DEF JobInv, LockInv, TypeOK, Locked
<1>5. LeaseInv'
  BY DEF LeaseInv, TypeOK
<1>6. SyncInv'
  BY DEF SyncInv, LockInv, TypeOK, Locked
<1> QED
  BY <1>1, <1>2, <1>3, <1>4, <1>5, <1>6 DEF IInv

(* Releasing a lease removes its obligations.                              *)
LEMMA ReleaseLeaseInv ==
    ASSUME IInv, NEW l \in DOMAIN leases, ReleaseLease(l)
    PROVE  IInv'
<1> USE StoreAssumption DEF IInv, ReleaseLease
<1>1. TypeOK'
  BY DEF TypeOK, JobType, NoJob, NoLease, LeaseIds, Pins
<1>2. AccountingExact'
  BY DEF AccountingExact
<1>3. LockInv'
  BY DEF LockInv, TypeOK, Locked
<1>4. JobInv'
  BY DEF JobInv, LockInv, TypeOK, Locked
<1>5. LeaseInv'
  BY DEF LeaseInv, TypeOK
<1>6. SyncInv'
  BY DEF SyncInv, LockInv, TypeOK, Locked
<1> QED
  BY <1>1, <1>2, <1>3, <1>4, <1>5, <1>6 DEF IInv

(* What survives a crash satisfies the invariant of a fresh process.       *)
LEMMA RestartInv ==
    ASSUME IInv, NEW B \in SUBSET (blobs \cup blobsSynced), NEW P \in SUBSET (pins \cup pinsSynced), Restart(B, P)
    PROVE  IInv'
<1> USE StoreAssumption DEF IInv, Restart
<1> B \in SUBSET Digests /\ TotalSize(B) \in Nat
  BY TotalSizeType DEF TypeOK
<1>1. TypeOK'
  BY DEF TypeOK, JobType, NoJob, NoLease, LeaseIds, Pins, ScanCommittedBlobs
<1>2. AccountingExact'
  BY DEF AccountingExact, ScanCommittedBlobs
<1>3. LockInv'
  BY DEF LockInv, TypeOK
<1>4. JobInv'
  BY DEF JobInv, LockInv, TypeOK
<1>5. LeaseInv'
  BY DEF LeaseInv, TypeOK
<1>6. SyncInv'
  BY DEF SyncInv, LockInv, TypeOK
<1> QED
  BY <1>1, <1>2, <1>3, <1>4, <1>5, <1>6 DEF IInv

(* Every step preserves the invariant.                                     *)
LEMMA NextInv == IInv /\ [Next]_vars => IInv'
<1> SUFFICES ASSUME IInv, [Next]_vars PROVE IInv'
  OBVIOUS
<1>1. CASE UNCHANGED vars
  BY <1>1 DEF vars, IInv, TypeOK, AccountingExact, LockInv, JobInv, LeaseInv, SyncInv
<1>2. ASSUME NEW c \in Clients, ClientStep(c) PROVE IInv'
  BY <1>2, IngestStartInv, IngestFailsInv, CommitExistingInv, CommitRenameInv, CommitSyncInv,
     CommitSyncFailsInv, GcMarkInv, GcRemoveInv, GcFinishInv, GcFailsInv DEF ClientStep
<1> QED
  BY <1>1, <1>2, PinInv, UnpinInv, CreateLeaseInv, AddToLeaseInv, RemoveFromLeaseInv,
     ReleaseLeaseInv, RestartInv DEF Next

-----------------------------------------------------------------------------
(* Theorems                                                                *)

(* The invariant holds in every reachable state of the store.              *)
THEOREM StoreInvariant == Spec => []IInv
BY InitInv, NextInv, PTL DEF Spec

(* The accounting is exact: the quota is charged with each file of the     *)
(* blob directory once, and with nothing else (observe_committed_blob,     *)
(* remove_committed_blob and the scan at open agree with the directory).   *)
THEOREM AccountingTheorem == Spec => []AccountingExact
<1>1. IInv => AccountingExact
  BY DEF IInv
<1> QED
  BY <1>1, StoreInvariant, PTL

(* Leased and pinned blobs are on disk, whatever collections, failures and *)
(* restarts interleave (garbage_collect_with_roots, commit_temporary, pin).*)
THEOREM RootsTheorem == Spec => []RootsBacked
<1>1. IInv => RootsBacked
  BY DEF IInv, LeaseInv, SyncInv, RootsBacked, LeasedDigests
<1> QED
  BY <1>1, StoreInvariant, PTL

(* The quota: a step of the running process that adds bytes ends within    *)
(* max_committed_bytes, although the preflight of ingest_inner and the     *)
(* commit are separated by an unlocked stream.                             *)
THEOREM QuotaTheorem == Spec => QuotaRespected
<1> DEFINE Within == restarts' = restarts /\ committedBytes' > committedBytes
                        => committedBytes' <= MaxCommittedBytes
<1>1. IInv /\ [Next]_vars => [Within]_vars
  <2> SUFFICES ASSUME IInv, Next, restarts' = restarts, committedBytes' > committedBytes
               PROVE  committedBytes' <= MaxCommittedBytes
    OBVIOUS
  <2> USE StoreAssumption DEF IInv, TypeOK
  <2>0. committedBytes' # committedBytes
    OBVIOUS
  <2>1. ASSUME NEW c \in Clients, NEW d \in Digests, CommitExisting(c, d)
        PROVE  FALSE
    BY <2>1 DEF CommitExisting, ObserveCommittedBlob, AccountingExact
  <2>2. ASSUME NEW c \in Clients, NEW d \in Digests, CommitRename(c, d)
        PROVE  committedBytes' <= MaxCommittedBytes
    BY <2>2 DEF CommitRename, ObserveCommittedBlob, AccountingExact, EnsureCommittedCapacity
  <2>3. ASSUME NEW c \in Clients, NEW d \in Digests, GcRemove(c, d)
        PROVE  FALSE
    BY <2>3 DEF GcRemove, RemoveCommittedBlob
  <2>4. ASSUME NEW B, NEW P, Restart(B, P)
        PROVE  FALSE
    BY <2>4 DEF Restart
  <2>5. ASSUME NEW c \in Clients, ClientStep(c)
        PROVE  committedBytes' <= MaxCommittedBytes
    BY <2>0, <2>1, <2>2, <2>3, <2>5, Zenon DEF ClientStep, IngestStart, IngestFails, CommitSync,
       CommitSyncFails, GcMark, GcFinish, GcFails
  <2> QED
    BY <2>0, <2>4, <2>5, Zenon DEF Next, Pin, Unpin, CreateLease, AddToLease, RemoveFromLease, ReleaseLease
<1> QED
  BY <1>1, StoreInvariant, PTL DEF Spec, QuotaRespected

(* No step of the running process takes a blob from a pin or a lease: the  *)
(* sweep of garbage_collect_with_roots works on marks that stay complete   *)
(* while it holds the mutex.                                               *)
THEOREM CollectionTheorem == Spec => RootsNeverCollected
<1> DEFINE Keeps == restarts' = restarts => (blobs \ blobs') \cap Rooted = {}
<1>1. IInv /\ [Next]_vars => [Keeps]_vars
  <2> SUFFICES ASSUME IInv, Next, restarts' = restarts
               PROVE  (blobs \ blobs') \cap Rooted = {}
    OBVIOUS
  <2>1. ASSUME NEW c \in Clients, NEW d \in Digests, GcRemove(c, d)
        PROVE  (blobs \ blobs') \cap Rooted = {}
    BY <2>1 DEF GcRemove, IInv, JobInv, Rooted, LeasedDigests, PinnedDigests
  <2>2. ASSUME NEW B, NEW P, Restart(B, P)
        PROVE  FALSE
    BY <2>2, StoreAssumption DEF Restart, IInv, TypeOK
  <2>3. ASSUME NEW c \in Clients, ClientStep(c)
        PROVE  (blobs \ blobs') \cap Rooted = {}
    BY <2>1, <2>3 DEF ClientStep, IngestStart, IngestFails, CommitExisting, CommitRename,
       CommitSync, CommitSyncFails, GcMark, GcFinish, GcFails
  <2> QED
    BY <2>2, <2>3 DEF Next, Pin, Unpin, CreateLease, AddToLease, RemoveFromLease, ReleaseLease
<1> QED
  BY <1>1, StoreInvariant, PTL DEF Spec, RootsNeverCollected

=============================================================================
