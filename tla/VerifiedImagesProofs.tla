------------------------ MODULE VerifiedImagesProofs ------------------------
(***************************************************************************)
(* The composition of persist with the content store implements the store, *)
(* for every image graph, every set of records and every other constant.   *)
(***************************************************************************)
EXTENDS VerifiedImages, TLAPS

(* Pull steps are lease and ingest steps of the store.                     *)
LEMMA PullRefines ==
    ASSUME PullLeaseStep \/ PullBlobStep \/ PullAborts
    PROVE  Next
<1>1. CASE PullLeaseStep \/ PullAborts
  BY <1>1 DEF PullLeaseStep, PullAborts, Next
<1>2. CASE PullBlobStep
  <2>1. ClientStep(Persister)
    BY <1>2, ImageAssumption DEF PullBlobStep, ClientStep
  <2> QED
    BY <2>1, ImageAssumption DEF Next
<1> QED
  BY <1>1, <1>2

(* Storing the record is an ingest of the persisting thread.               *)
LEMMA RecordRefines ==
    ASSUME record \in Digests,
           StoreRecord \/ StoreRecordRename \/ StoreRecordDone \/ StoreRecordFails
    PROVE  Next
<1>1. ClientStep(Persister)
  BY ImageAssumption DEF StoreRecord, StoreRecordRename, StoreRecordDone, StoreRecordFails,
     ClientStep
<1> QED
  BY <1>1, ImageAssumption DEF Next

(* Pinning, pruning and rolling back are pins and unpins of the store.     *)
LEMMA PinRefines ==
    ASSUME NEW n \in Names, NEW d \in Digests, NEW ok \in BOOLEAN,
           ok \in SyncOutcomes, Pin(n, d, ok) \/ Unpin(n, d, ok)
    PROVE  Next
BY DEF Next

(* The persisting thread's record is a blob, its created pins are pins.    *)
ImageInv ==
    /\ record \in Records \cup {NoRecord}
    /\ stage # "pulling" => record \in Records
    /\ created \subseteq Pins

LEMMA ImageInitInv == ImageInit => ImageInv
BY DEF ImageInit, ImageInv

LEMMA ImageNextInv == ImageInv /\ [ImageNext]_allVars => ImageInv'
<1> SUFFICES ASSUME ImageInv, [ImageNext]_allVars PROVE ImageInv'
  OBVIOUS
<1> USE ImageAssumption DEF ImageInv, Goto
<1>1. CASE PersistStep
  <2>1. CASE PinGraph \/ PinRecord
    <3>1. ASSUME NEW n \in Names, NEW d \in Digests PROVE <<n, d>> \in Pins
      BY DEF Pins
    <3>2. CASE PinGraph
      BY <3>1, <3>2, Zenon DEF PinGraph, PinNext, Missing
    <3>3. CASE PinRecord
      BY <3>1, <3>3 DEF PinRecord, PinNext, Missing
    <3> QED
      BY <2>1, <3>2, <3>3
  <2>2. CASE \E r \in Records : PersistStart(r)
    BY <2>2 DEF PersistStart
  <2>3. CASE Rollback
    BY <2>3 DEF Rollback
  <2> QED
    BY <1>1, <2>1, <2>2, <2>3 DEF PersistStep, PullLeaseStep, PullBlobStep, PullAborts, imageVars, Prune,
       PruneFails, PruneOldDone, StoreRecord, StoreRecordRename, StoreRecordDone,
       StoreRecordFails, PinFails, RenameLocator, CheckFails, SyncLocator, SyncLocatorFails,
       RollbackDone, PruneNewDone, Return
<1>2. CASE Collect \/ UNCHANGED allVars
  BY <1>2 DEF Collect, imageVars, allVars
<1>3. ASSUME NEW B, NEW P, NEW l, CrashAndReopen(B, P, l) PROVE ImageInv'
  BY <1>3 DEF CrashAndReopen
<1> QED
  BY <1>1, <1>2, <1>3 DEF ImageNext

(* Every step of the composition is a step of the store or leaves it alone.*)
LEMMA ImageStepRefines == ImageInv /\ [ImageNext]_allVars => [Next]_vars
<1> SUFFICES ASSUME ImageInv, [ImageNext]_allVars PROVE [Next]_vars
  OBVIOUS
<1> USE ImageAssumption
<1>1. TRUE \in SyncOutcomes /\ (SyncCanFail => FALSE \in SyncOutcomes)
  BY DEF SyncOutcomes
<1>2. CASE PersistStep
  <2>1. CASE PullLeaseStep \/ PullBlobStep \/ PullAborts
    BY <2>1, PullRefines
  <2>2. CASE StoreRecord \/ StoreRecordRename \/ StoreRecordDone \/ StoreRecordFails
    <3>1. record \in Digests
      BY <2>2 DEF ImageInv, StoreRecord, StoreRecordRename, StoreRecordDone, StoreRecordFails
    <3> QED
      BY <2>2, <3>1, RecordRefines
  <2>3. CASE Prune("pruneOld", previous) \/ Prune("pruneNew", record)
    BY <1>1, <2>3, PinRefines DEF Prune, Obsolete, PinSet
  <2>4. CASE PruneFails("pruneOld", previous, "failed") \/ PruneFails("pruneNew", record, "done")
    BY <1>1, <2>4, PinRefines DEF PruneFails, Obsolete, PinSet
  <2>5. CASE PinGraph
    BY <1>1, <2>5, PinRefines DEF PinGraph, PinNext, Missing
  <2>6. CASE PinRecord
    BY <1>1, <2>6, PinRefines DEF PinRecord, PinNext, Missing, ImageInv
  <2>7. CASE PinFails("pinGraph", GraphPin, Graph)
    BY <1>1, <2>7, PinRefines DEF PinFails, Missing
  <2>8. CASE PinFails("pinRecord", RecordPin, {record})
    BY <1>1, <2>8, PinRefines DEF PinFails, Missing, ImageInv
  <2>9. CASE Rollback
    BY <1>1, <2>9, PinRefines DEF Rollback, ImageInv, Pins
  <2>10. CASE Return
    BY <2>10 DEF Return, Next
  <2> QED
    BY <1>2, <2>1, <2>2, <2>3, <2>4, <2>5, <2>6, <2>7, <2>8, <2>9, <2>10 DEF PersistStep,
       PersistStart, PruneOldDone, RenameLocator, CheckFails, SyncLocator, SyncLocatorFails,
       RollbackDone, PruneNewDone
<1>3. CASE Collect
  <2>1. ClientStep(Collector)
    BY <1>3 DEF Collect, ClientStep
  <2> QED
    BY <2>1 DEF Next
<1>4. CASE UNCHANGED allVars
  BY <1>4 DEF allVars
<1>5. ASSUME NEW B \in SUBSET (blobs \cup blobsSynced), NEW P \in SUBSET (pins \cup pinsSynced),
             NEW l, CrashAndReopen(B, P, l)
      PROVE  Next
  BY <1>5 DEF CrashAndReopen, Next
<1> QED
  BY <1>2, <1>3, <1>4, <1>5 DEF ImageNext

(* persist, the pull and the collector use the store only through its own  *)
(* operations: everything proved of the store holds of the composition.    *)
THEOREM CompositionRefinesStore == ImageSpec => RefinesContentStore
<1>1. ImageInit => Init
  BY DEF ImageInit
<1> QED
  BY <1>1, ImageInitInv, ImageNextInv, ImageStepRefines, PTL DEF ImageSpec, Spec,
     RefinesContentStore
=============================================================================
