------------------------- MODULE GuestSessionProofs -------------------------
(***************************************************************************)
(* The session, the guest and the host threads on top of VmWorker only     *)
(* take steps VmWorker allows, so what is proved of the worker holds of    *)
(* every session: any workload, any bounds, any guest.                     *)
(***************************************************************************)
EXTENDS GuestSession, VmWorkerProofs

(* The runs underneath a call are runs of VmWorker.                        *)
LEMMA RunRefines == SessionRun => VmNext
<1> SUFFICES ASSUME SessionRun PROVE VmNext
  OBVIOUS
<1>1. CASE Launch \/ Started \/ Attach
  BY <1>1 DEF VmNext, SessionStep
<1>2. CASE Check \/ ClearFlag \/ Receive
  BY <1>2 DEF VmNext, SessionStep, RunStep
<1>3. CASE \E late \in BOOLEAN : Deadline(late)
  BY <1>3 DEF VmNext, SessionStep, RunStep
<1>4. CASE SendStep(IF call.stage = "boot" THEN MaxQuanta ELSE 1)
  <2>1. (IF call.stage = "boot" THEN MaxQuanta ELSE 1) \in 1..MaxQuanta
    BY WorkerConstants
  <2> QED
    BY <1>4, <2>1 DEF VmNext, SessionStep, RunStep
<1> QED
  BY <1>1, <1>2, <1>3, <1>4 DEF SessionRun

(* Every other step of the session thread begins a run, fires the token,   *)
(* recovers, frees the machine or leaves the worker alone.                 *)
LEMMA SessionRefines == SessionNext => [VmNext]_vmVars
<1> SUFFICES ASSUME SessionNext PROVE VmNext \/ UNCHANGED vmVars
  OBVIOUS
<1> USE DEF VmNext, SessionStep
<1>1. CASE SessionRun
  BY <1>1, RunRefines
<1>2. CASE BootRound
  BY <1>2 DEF BootRound
<1>3. CASE BeginCall
  BY <1>3 DEF BeginCall
<1>4. CASE WriteRequest
  BY <1>4 DEF WriteRequest
<1>5. CASE PumpTop
  BY <1>5 DEF PumpTop
<1>6. CASE PumpBatch
  BY <1>6 DEF PumpBatch
<1>7. CASE AdvanceFailed
  BY <1>7 DEF AdvanceFailed
<1>8. CASE EndCall
  BY <1>8 DEF EndCall
<1>9. CASE EndBoot \/ FreeSession
  BY <1>9 DEF EndBoot, FreeSession
<1> QED
  BY <1>1, <1>2, <1>3, <1>4, <1>5, <1>6, <1>7, <1>8, <1>9 DEF SessionNext

(* The quanta of the guest are quanta of the worker.                       *)
LEMMA MachineRefines == MachineNext \/ HostNext => [VmNext]_vmVars
<1> SUFFICES ASSUME MachineNext \/ HostNext PROVE VmNext \/ UNCHANGED vmVars
  OBVIOUS
<1>1. CASE MachineNext
  BY <1>1 DEF MachineNext, VmNext, WorkerStep, QuantumRan, QuantumStalled, QuantumFails
<1>2. CASE HostNext
  BY <1>2 DEF HostNext, WriteInbox, CloseInbox, VmNext
<1> QED
  BY <1>1, <1>2

(* A session implements the worker it runs on.                             *)
THEOREM SessionRefinesWorker == GuestSpec => VmSpec
<1>1. GuestInit => VmInit
  BY DEF GuestInit
<1>2. [GuestNext]_allVars => [VmNext]_vmVars
  BY SessionRefines, MachineRefines DEF GuestNext, allVars
<1> QED
  BY <1>1, <1>2, PTL DEF GuestSpec, VmSpec

(* Whatever a session does, a fired token ends its runs within one command *)
(* and run_units is never left waiting.                                    *)
THEOREM SessionRunsEnd == GuestSpec => [](FiredTokenEndsRuns /\ WaitingIsServed)
BY SessionRefinesWorker, FiredTokenTheorem, WaitingTheorem, PTL
=============================================================================
