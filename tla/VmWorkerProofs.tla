--------------------------- MODULE VmWorkerProofs ---------------------------
(***************************************************************************)
(* Proofs about VmWorker, for any number of requesters, any capacity of    *)
(* the command queue and any length of a run.                              *)
(*                                                                         *)
(* FiredTokenEndsRuns is made inductive by Fired: once a run was sent with *)
(* the token fired, the session thread is past the steps between the check *)
(* and the send, and the next check stops it.                              *)
(*                                                                         *)
(* The other two rest on Flight, which follows the one command a run has:  *)
(* it is in the queue, in the worker's hands, or answered, exactly while   *)
(* the session thread waits; and Owned, which says who may hold the        *)
(* machine in each state of the session thread.                            *)
(***************************************************************************)
EXTENDS VmWorker, SequenceTheorems, TLAPS

Fired ==
    /\ sentAfter <= 1
    /\ reason = 0 => sentAfter = 0
    /\ sentAfter = 1 => caller \notin {"deadline", "clear", "send"}

Owned ==
    /\ caller \in RunStates \cup {"out", "attach"} => "session" \in owners
    /\ caller \in {"new", "starting", "gone"} => "session" \notin owners
    /\ caller \in {"new", "starting"} => owners = {} /\ ~attached /\ queue = <<>>
    /\ worker.at \in {"none", "starting"} => owners = {} /\ queue = <<>>
    /\ caller = "new" => worker.at = "none"
    /\ \A r \in Requesters : r \in owners <=> requester[r] = "holding"

Busy == {"loop", "quantum"}

Flight ==
    /\ Len(queue) <= 1
    /\ worker.at = "quantum" => worker.left > 0
    /\ caller # "wait" => worker.at \notin Busy /\ reply = "none"
    /\ caller # "wait" /\ owners # {} => queue = <<>>
    /\ caller # "wait" /\ queue # <<>> => Head(queue) = Shutdown
    /\ caller = "wait" =>
        \/ queue # <<>> /\ Head(queue) # Shutdown /\ reply = "none" /\ worker.at = "recv"
        \/ queue = <<>> /\ reply = "none" /\ worker.at \in Busy
        \/ queue = <<>> /\ reply # "none" /\ worker.at \notin Busy

VmInv == VmTypeOK /\ Fired /\ Owned /\ Flight
-----------------------------------------------------------------------------
(* What sending a command does to the queue.                               *)
LEMMA QueueSend ==
    ASSUME NEW q \in Seq(0..MaxQuanta), NEW k \in 0..MaxQuanta
    PROVE  /\ Append(q, k) \in Seq(0..MaxQuanta)
           /\ Len(Append(q, k)) = Len(q) + 1
           /\ Append(q, k) # <<>>
           /\ q = <<>> => Head(Append(q, k)) = k
OBVIOUS

(* What receiving one does.                                                *)
LEMMA QueueReceive ==
    ASSUME NEW q \in Seq(0..MaxQuanta), q # <<>>
    PROVE  /\ Tail(q) \in Seq(0..MaxQuanta)
           /\ Len(Tail(q)) = Len(q) - 1
           /\ Head(q) \in 0..MaxQuanta
           /\ Len(q) <= 1 => Tail(q) = <<>>
<1>1. Tail(q) \in Seq(0..MaxQuanta) /\ Len(Tail(q)) = Len(q) - 1 /\ Len(q) # 0
  OBVIOUS
<1>2. Head(q) \in 0..MaxQuanta
  BY HeadTailProperties
<1>3. ASSUME Len(q) <= 1 PROVE Tail(q) = <<>>
  <2>1. Len(Tail(q)) = 0
    BY <1>1, <1>3
  <2> QED
    BY <1>1, <2>1, EmptySeq
<1> QED
  BY <1>1, <1>2, <1>3

(* Shutdown is a command.                                                  *)
LEMMA ShutdownType == Shutdown \in 0..MaxQuanta
BY WorkerConstants DEF Shutdown

(* The initial state satisfies the invariant.                              *)
LEMMA VmInitInv == VmInit => VmInv
<1> SUFFICES ASSUME VmInit PROVE VmInv
  OBVIOUS
<1>1. VmSwitches
  BY Zenon DEF VmInit, VmSwitches
<1>2. VmData
  BY WorkerConstants DEF VmInit, VmData, CallerStates, RunStates, Errors, MachineStates
<1>3. Fired /\ Owned /\ Flight
  BY DEF VmInit, Fired, Owned, Flight, Busy, RunStates
<1> QED
  BY <1>1, <1>2, <1>3 DEF VmInv, VmTypeOK

(* Every step keeps the data in their types.                               *)
LEMMA VmDataStep == VmData /\ Flight /\ [VmNext]_vmVars => VmData'
<1> SUFFICES ASSUME VmData, Flight, [VmNext]_vmVars PROVE VmData'
  OBVIOUS
<1> USE WorkerConstants DEF CallerStates, RunStates, Errors, MachineStates
<1>1. CASE Launch
  BY <1>1 DEF Launch, Fail, Cause, tokenVars, workerVars, VmData
<1>2. CASE Started
  BY <1>2 DEF Started, Fail, tokenVars, workerVars, VmData
<1>3. CASE Attach
  BY <1>3 DEF Attach, tokenVars, workerVars, VmData
<1>4. CASE BeginRun
  BY <1>4 DEF BeginRun, tokenVars, workerVars, VmData
<1>5. CASE Check
  BY <1>5 DEF Check, Fail, Cause, tokenVars, workerVars, VmData
<1>6. ASSUME NEW late \in BOOLEAN, Deadline(late) PROVE VmData'
  BY <1>6 DEF Deadline, Fail, tokenVars, workerVars, VmData
<1>7. CASE ClearFlag
  BY <1>7 DEF ClearFlag, tokenVars, workerVars, VmData
<1>8. ASSUME NEW quanta \in 1..MaxQuanta, SendStep(quanta) PROVE VmData'
  <2>1. quanta \in 0..MaxQuanta
    BY <1>8
  <2>2. queue' \in Seq(0..MaxQuanta)
    BY <1>8, <2>1, QueueSend DEF SendStep, VmData
  <2> HIDE DEF Errors, MachineStates
  <2>3. err' \in Errors /\ caller' \in CallerStates /\ sentAfter' \in Nat
    BY <1>8 DEF SendStep, Fail, VmData, Errors
  <2> QED
    BY <1>8, <2>2, <2>3 DEF SendStep, tokenVars, VmData
<1>9. CASE Receive
  BY <1>9 DEF Receive, Fail, tokenVars, workerVars, VmData
<1>10. CASE Recover
  BY <1>10 DEF Recover, tokenVars, workerVars, VmData
<1>11. CASE FireToken
  BY <1>11 DEF FireToken, tokenVars, workerVars, VmData
<1>12. CASE Free
  <2>1. queue' \in Seq(0..MaxQuanta)
    BY <1>12, QueueSend, ShutdownType DEF Free, Release, VmData
  <2>2. owners' \subseteq {"session"} \cup Requesters
    BY <1>12 DEF Free, Release, VmData
  <2> QED
    BY <1>12, <2>1, <2>2 DEF Free, VmData
<1>13. ASSUME NEW r \in Requesters, RequestReason(r) PROVE VmData'
  BY <1>13 DEF RequestReason, tokenVars, workerVars, VmData
<1>14. ASSUME NEW r \in Requesters, Upgrade(r) PROVE VmData'
  <2>1. owners' \subseteq {"session"} \cup Requesters
    BY <1>14 DEF Upgrade, VmData
  <2>2. requester' \in [Requesters -> {"idle", "marked", "holding", "done"}]
    BY <1>14 DEF Upgrade, VmData
  <2> QED
    BY <1>14, <2>1, <2>2 DEF Upgrade, workerVars, VmData
<1>15. ASSUME NEW r \in Requesters, CancelMachine(r) PROVE VmData'
  <2>1. queue' \in Seq(0..MaxQuanta)
    BY <1>15, QueueSend, ShutdownType DEF CancelMachine, VmData
  <2>2. owners' \subseteq {"session"} \cup Requesters
    BY <1>15 DEF CancelMachine, VmData
  <2>3. requester' \in [Requesters -> {"idle", "marked", "holding", "done"}]
    BY <1>15 DEF CancelMachine, VmData
  <2> QED
    BY <1>15, <2>1, <2>2, <2>3 DEF CancelMachine, VmData
<1>16. CASE WorkerStart
  BY <1>16 DEF WorkerStart, tokenVars, workerVars, sessionVars, VmData
<1>17. CASE WorkerRecv
  <2>1. queue' \in Seq(0..MaxQuanta)
    BY <1>17, QueueReceive DEF WorkerRecv, VmData
  <2>2. queue # <<>> => Head(queue) \in 0..MaxQuanta
    BY QueueReceive DEF VmData
  <2>3. worker' \in [at : {"none", "starting", "recv", "loop", "quantum", "gone"},
                    left : 0..MaxQuanta]
    BY <1>17, <2>2 DEF WorkerRecv, VmData
  <2> QED
    BY <1>17, <2>1, <2>3 DEF WorkerRecv, tokenVars, sessionVars, VmData
<1>18. CASE WorkerLoop
  BY <1>18 DEF WorkerLoop, tokenVars, workerVars, sessionVars, VmData
<1>19. CASE WorkerRan
  BY <1>19 DEF WorkerRan, Flight, tokenVars, workerVars, sessionVars, VmData
<1>20. CASE WorkerNoProgress
  BY <1>20 DEF WorkerNoProgress, tokenVars, workerVars, sessionVars, VmData
<1>21. CASE WorkerFails
  BY <1>21 DEF WorkerFails, tokenVars, workerVars, sessionVars, VmData
<1>99. CASE UNCHANGED vmVars
  BY <1>99 DEF vmVars, VmData
<1> QED
  BY <1>1, <1>2, <1>3, <1>4, <1>5, <1>6, <1>7, <1>8, <1>9, <1>10, <1>11, <1>12,
      <1>13, <1>14, <1>15, <1>16, <1>17, <1>18, <1>19, <1>20, <1>21, <1>99
    DEF VmNext, SessionStep, RunStep, RequesterStep, WorkerStep

(* The two switches stay Boolean.                                          *)
LEMMA VmSwitchStep == VmSwitches /\ [VmNext]_vmVars => VmSwitches'
<1> SUFFICES ASSUME VmSwitches, [VmNext]_vmVars PROVE VmSwitches'
  OBVIOUS
<1> USE DEF VmSwitches, tokenVars
<1>1. CASE SessionStep
  <2>1. CASE Launch \/ Started \/ Attach \/ BeginRun \/ Recover \/ FireToken
    BY <2>1, Zenon DEF Launch, Started, Attach, BeginRun, Recover, FireToken
  <2>2. CASE RunStep
    BY <2>2, Zenon DEF RunStep, Check, Deadline, ClearFlag, SendStep, Receive
  <2>3. CASE Free
    BY <2>3, Zenon DEF Free, Release
  <2> QED
    BY <1>1, <2>1, <2>2, <2>3 DEF SessionStep
<1>2. CASE \E r \in Requesters : RequesterStep(r)
  BY <1>2, Zenon DEF RequesterStep, RequestReason, Upgrade, CancelMachine
<1>3. CASE WorkerStep
  BY <1>3, Zenon DEF WorkerStep, WorkerStart, WorkerRecv, WorkerLoop, WorkerRan,
                     WorkerNoProgress, WorkerFails
<1>4. CASE UNCHANGED vmVars
  BY <1>4, Zenon DEF vmVars
<1> QED
  BY <1>1, <1>2, <1>3, <1>4 DEF VmNext

(* Once a run was sent with the token fired, no further one is.            *)
LEMMA FiredStep == VmData /\ Fired /\ [VmNext]_vmVars => Fired'
<1> SUFFICES ASSUME VmData, Fired, [VmNext]_vmVars PROVE Fired'
  OBVIOUS
<1> USE DEF VmData, RunStates
<1>1. CASE Launch
  BY <1>1 DEF Launch, Fail, Cause, tokenVars, workerVars, Fired
<1>2. CASE Started
  BY <1>2 DEF Started, Fail, tokenVars, workerVars, Fired
<1>3. CASE Attach
  BY <1>3 DEF Attach, tokenVars, workerVars, Fired
<1>4. CASE BeginRun
  BY <1>4 DEF BeginRun, tokenVars, workerVars, Fired
<1>5. CASE Check
  BY <1>5 DEF Check, Fail, Cause, tokenVars, workerVars, Fired
<1>6. ASSUME NEW late \in BOOLEAN, Deadline(late) PROVE Fired'
  BY <1>6 DEF Deadline, Fail, tokenVars, workerVars, Fired
<1>7. CASE ClearFlag
  BY <1>7 DEF ClearFlag, tokenVars, workerVars, Fired
<1>8. ASSUME NEW quanta \in 1..MaxQuanta, SendStep(quanta) PROVE Fired'
  BY <1>8 DEF SendStep, Fail, tokenVars, workerVars, Fired
<1>9. CASE Receive
  BY <1>9 DEF Receive, Fail, tokenVars, workerVars, Fired
<1>10. CASE Recover
  BY <1>10 DEF Recover, tokenVars, workerVars, Fired
<1>11. CASE FireToken
  BY <1>11 DEF FireToken, tokenVars, workerVars, Fired
<1>12. CASE Free
  BY <1>12 DEF Free, Release, tokenVars, workerVars, Fired, Shutdown
<1>13. ASSUME NEW r \in Requesters, RequestReason(r) PROVE Fired'
  BY <1>13 DEF RequestReason, tokenVars, workerVars, Fired
<1>14. ASSUME NEW r \in Requesters, Upgrade(r) PROVE Fired'
  BY <1>14 DEF Upgrade, tokenVars, workerVars, Fired
<1>15. ASSUME NEW r \in Requesters, CancelMachine(r) PROVE Fired'
  BY <1>15 DEF CancelMachine, tokenVars, workerVars, Fired, Shutdown
<1>16. CASE WorkerStart
  BY <1>16 DEF WorkerStart, tokenVars, workerVars, sessionVars, Fired
<1>17. CASE WorkerRecv
  BY <1>17 DEF WorkerRecv, Closed, tokenVars, workerVars, sessionVars, Fired,
      Shutdown
<1>18. CASE WorkerLoop
  BY <1>18 DEF WorkerLoop, tokenVars, workerVars, sessionVars, Fired
<1>19. CASE WorkerRan
  BY <1>19 DEF WorkerRan, tokenVars, workerVars, sessionVars, Fired
<1>20. CASE WorkerNoProgress
  BY <1>20 DEF WorkerNoProgress, tokenVars, workerVars, sessionVars, Fired
<1>21. CASE WorkerFails
  BY <1>21 DEF WorkerFails, tokenVars, workerVars, sessionVars, Fired
<1>99. CASE UNCHANGED vmVars
  BY <1>99 DEF vmVars, Fired
<1> QED
  BY <1>1, <1>2, <1>3, <1>4, <1>5, <1>6, <1>7, <1>8, <1>9, <1>10, <1>11, <1>12,
      <1>13, <1>14, <1>15, <1>16, <1>17, <1>18, <1>19, <1>20, <1>21, <1>99
    DEF VmNext, SessionStep, RunStep, RequesterStep, WorkerStep

(* Who holds the machine in each state of the session thread.              *)
LEMMA OwnedStep == VmData /\ Owned /\ Flight /\ [VmNext]_vmVars => Owned'
<1> SUFFICES ASSUME VmData, Owned, Flight, [VmNext]_vmVars PROVE Owned'
  OBVIOUS
<1> USE WorkerConstants DEF VmData, RunStates, Flight, Busy
<1>1. CASE Launch
  BY <1>1 DEF Launch, Fail, Cause, tokenVars, workerVars, Owned
<1>2. CASE Started
  BY <1>2 DEF Started, Fail, tokenVars, workerVars, Owned
<1>3. CASE Attach
  BY <1>3 DEF Attach, tokenVars, workerVars, Owned
<1>4. CASE BeginRun
  BY <1>4 DEF BeginRun, tokenVars, workerVars, Owned
<1>5. CASE Check
  BY <1>5 DEF Check, Fail, Cause, tokenVars, workerVars, Owned
<1>6. ASSUME NEW late \in BOOLEAN, Deadline(late) PROVE Owned'
  BY <1>6 DEF Deadline, Fail, tokenVars, workerVars, Owned
<1>7. CASE ClearFlag
  BY <1>7 DEF ClearFlag, tokenVars, workerVars, Owned
<1>8. ASSUME NEW quanta \in 1..MaxQuanta, SendStep(quanta) PROVE Owned'
  BY <1>8 DEF SendStep, Fail, tokenVars, workerVars, Owned
<1>9. CASE Receive
  BY <1>9 DEF Receive, Fail, tokenVars, workerVars, Owned
<1>10. CASE Recover
  BY <1>10 DEF Recover, tokenVars, workerVars, Owned
<1>11. CASE FireToken
  BY <1>11 DEF FireToken, tokenVars, workerVars, Owned
<1>12. CASE Free
  BY <1>12 DEF Free, Release, tokenVars, workerVars, Owned, Shutdown
<1>13. ASSUME NEW r \in Requesters, RequestReason(r) PROVE Owned'
  BY <1>13 DEF RequestReason, tokenVars, workerVars, Owned
<1>14. ASSUME NEW r \in Requesters, Upgrade(r) PROVE Owned'
  BY <1>14 DEF Upgrade, tokenVars, workerVars, Owned
<1>15. ASSUME NEW r \in Requesters, CancelMachine(r) PROVE Owned'
  BY <1>15 DEF CancelMachine, tokenVars, workerVars, Owned, Shutdown
<1>16. CASE WorkerStart
  BY <1>16 DEF WorkerStart, tokenVars, workerVars, sessionVars, Owned
<1>17. CASE WorkerRecv
  BY <1>17 DEF WorkerRecv, Closed, tokenVars, workerVars, sessionVars, Owned,
      Shutdown
<1>18. CASE WorkerLoop
  BY <1>18 DEF WorkerLoop, tokenVars, workerVars, sessionVars, Owned
<1>19. CASE WorkerRan
  BY <1>19 DEF WorkerRan, tokenVars, workerVars, sessionVars, Owned
<1>20. CASE WorkerNoProgress
  BY <1>20 DEF WorkerNoProgress, tokenVars, workerVars, sessionVars, Owned
<1>21. CASE WorkerFails
  BY <1>21 DEF WorkerFails, tokenVars, workerVars, sessionVars, Owned
<1>99. CASE UNCHANGED vmVars
  BY <1>99 DEF vmVars, Owned
<1> QED
  BY <1>1, <1>2, <1>3, <1>4, <1>5, <1>6, <1>7, <1>8, <1>9, <1>10, <1>11, <1>12,
      <1>13, <1>14, <1>15, <1>16, <1>17, <1>18, <1>19, <1>20, <1>21, <1>99
    DEF VmNext, SessionStep, RunStep, RequesterStep, WorkerStep

(* Where the one command of a run is.                                      *)
LEMMA FlightStep == VmData /\ Owned /\ Flight /\ [VmNext]_vmVars => Flight'
<1> SUFFICES ASSUME VmData, Owned, Flight, [VmNext]_vmVars PROVE Flight'
  OBVIOUS
<1> USE WorkerConstants DEF VmData, RunStates, Owned, Busy
<1>1. CASE Launch
  BY <1>1 DEF Launch, Fail, Cause, tokenVars, workerVars, Flight
<1>2. CASE Started
  BY <1>2 DEF Started, Fail, tokenVars, workerVars, Flight
<1>3. CASE Attach
  BY <1>3 DEF Attach, tokenVars, workerVars, Flight
<1>4. CASE BeginRun
  BY <1>4 DEF BeginRun, tokenVars, workerVars, Flight
<1>5. CASE Check
  BY <1>5 DEF Check, Fail, Cause, tokenVars, workerVars, Flight
<1>6. ASSUME NEW late \in BOOLEAN, Deadline(late) PROVE Flight'
  BY <1>6 DEF Deadline, Fail, tokenVars, workerVars, Flight
<1>7. CASE ClearFlag
  BY <1>7 DEF ClearFlag, tokenVars, workerVars, Flight
<1>8. ASSUME NEW quanta \in 1..MaxQuanta, SendStep(quanta) PROVE Flight'
  <2>1. worker.at # "gone" => worker.at = "recv"
    BY <1>8 DEF SendStep, Flight
  <2>2. quanta \in 0..MaxQuanta /\ quanta # Shutdown
    BY <1>8 DEF Shutdown
  <2>3. queue = <<>> /\ queue \in Seq(0..MaxQuanta)
    BY <1>8 DEF SendStep, Flight
  <2>4. Append(queue, quanta) # <<>> /\ Len(Append(queue, quanta)) = Len(queue) + 1
          /\ Head(Append(queue, quanta)) = quanta
    BY <2>2, <2>3, QueueSend
  <2>5. CASE worker.at = "gone" \/ Len(queue) >= CommandCap
    BY <1>8, <2>3, <2>5 DEF SendStep, Fail, tokenVars, Flight
  <2>6. CASE worker.at # "gone" /\ ~(Len(queue) >= CommandCap)
    <3>1. /\ queue' = Append(queue, quanta) /\ caller' = "wait"
          /\ owners' = owners /\ reply' = reply /\ worker' = worker
      BY <1>8, <2>6 DEF SendStep, tokenVars
    <3>2. Len(queue') <= 1
      BY <2>3, <2>4, <3>1 DEF Flight
    <3>3. reply = "none" /\ worker.at = "recv"
      BY <1>8, <2>1, <2>6 DEF SendStep, Flight
    <3> QED
      BY <2>2, <2>4, <3>1, <3>2, <3>3 DEF Flight
  <2> QED
    BY <2>5, <2>6
<1>9. CASE Receive
  BY <1>9 DEF Receive, Fail, tokenVars, workerVars, Flight
<1>10. CASE Recover
  BY <1>10 DEF Recover, tokenVars, workerVars, Flight
<1>11. CASE FireToken
  BY <1>11 DEF FireToken, tokenVars, workerVars, Flight
<1>12. CASE Free
  <2>1. "session" \in owners => queue = <<>>
    BY <1>12 DEF Free, Flight
  <2>2. Len(queue') <= 1
    <3>1. Len(Append(queue, Shutdown)) = Len(queue) + 1
      BY QueueSend, ShutdownType
    <3>2. Len(<<>>) = 0
      OBVIOUS
    <3> QED
      BY <1>12, <2>1, <3>1, <3>2 DEF Free, Release, Flight
  <2>3. owners' # {} => queue' = <<>>
    BY <1>12, <2>1 DEF Free, Release, Flight
  <2>4. queue' # <<>> => Head(queue') = Shutdown
    <3>1. queue = <<>> => Head(Append(queue, Shutdown)) = Shutdown
      BY QueueSend, ShutdownType
    <3> QED
      BY <1>12, <2>1, <3>1 DEF Free, Release, Flight
  <2> QED
    BY <1>12, <2>2, <2>3, <2>4 DEF Free, Flight
<1>13. ASSUME NEW r \in Requesters, RequestReason(r) PROVE Flight'
  BY <1>13 DEF RequestReason, tokenVars, workerVars, Flight
<1>14. ASSUME NEW r \in Requesters, Upgrade(r) PROVE Flight'
  BY <1>14 DEF Upgrade, tokenVars, workerVars, Flight
<1>15. ASSUME NEW r \in Requesters, CancelMachine(r) PROVE Flight'
  BY <1>15 DEF CancelMachine, tokenVars, workerVars, Flight, Shutdown
<1>16. CASE WorkerStart
  BY <1>16 DEF WorkerStart, tokenVars, workerVars, sessionVars, Flight
<1>17. CASE WorkerRecv
  <2>1. queue # <<>> => Len(Tail(queue)) = Len(queue) - 1 /\ Tail(queue) = <<>>
    BY QueueReceive DEF Flight
  <2>2. queue # <<>> => Head(queue) \in 0..MaxQuanta /\ Len(queue) \in Nat
    BY QueueReceive
  <2>3. queue' = <<>> /\ Len(queue') <= 1
    BY <1>17, <2>1, <2>2 DEF WorkerRecv, Flight
  <2>4. CASE caller = "wait"
    BY <1>17, <2>1, <2>2, <2>3, <2>4 DEF WorkerRecv, Closed, sessionVars, Flight
  <2>5. CASE caller # "wait"
    <3>1. queue # <<>> => owners = {}
      BY <2>5 DEF Flight
    <3>2. worker'.at \notin Busy
      BY <1>17, <2>5 DEF WorkerRecv, Flight, Shutdown
    <3> QED
      BY <1>17, <2>3, <2>5, <3>2 DEF WorkerRecv, sessionVars, Flight
  <2> QED
    BY <2>4, <2>5
<1>18. CASE WorkerLoop
  BY <1>18 DEF WorkerLoop, tokenVars, workerVars, sessionVars, Flight
<1>19. CASE WorkerRan
  BY <1>19 DEF WorkerRan, tokenVars, workerVars, sessionVars, Flight
<1>20. CASE WorkerNoProgress
  BY <1>20 DEF WorkerNoProgress, tokenVars, workerVars, sessionVars, Flight
<1>21. CASE WorkerFails
  BY <1>21 DEF WorkerFails, tokenVars, workerVars, sessionVars, Flight
<1>99. CASE UNCHANGED vmVars
  BY <1>99 DEF vmVars, Flight
<1> QED
  BY <1>1, <1>2, <1>3, <1>4, <1>5, <1>6, <1>7, <1>8, <1>9, <1>10, <1>11, <1>12,
      <1>13, <1>14, <1>15, <1>16, <1>17, <1>18, <1>19, <1>20, <1>21, <1>99
    DEF VmNext, SessionStep, RunStep, RequesterStep, WorkerStep

(* The invariant holds in every reachable state of every instance.         *)
THEOREM VmInvariant == VmSpec => []VmInv
<1>1. VmInv /\ [VmNext]_vmVars => VmInv'
  BY VmDataStep, VmSwitchStep, FiredStep, OwnedStep, FlightStep DEF VmInv, VmTypeOK
<1> QED
  BY <1>1, VmInitInv, PTL DEF VmSpec

(* After the token fires, run_units sends at most one more command,        *)
(* whatever the requesters, the worker and the session thread interleave.  *)
THEOREM FiredTokenTheorem == VmSpec => []FiredTokenEndsRuns
<1>1. VmInv => FiredTokenEndsRuns
  BY DEF VmInv, Fired, FiredTokenEndsRuns
<1> QED
  BY <1>1, VmInvariant, PTL

(* run_units is never left waiting for an answer nobody owes it.           *)
THEOREM WaitingTheorem == VmSpec => []WaitingIsServed
<1>1. VmInv => WaitingIsServed
  BY DEF VmInv, Flight, WaitingIsServed, Busy
<1> QED
  BY <1>1, VmInvariant, PTL

(* The Shutdown that X86_64Machine::drop offers always finds room.         *)
THEOREM ShutdownTheorem == VmSpec => ShutdownIsAccepted
<1> DEFINE Accepted == owners # {} /\ owners' = {} /\ worker.at # "gone"
                          => Len(queue') = Len(queue) + 1
<1>1. VmInv /\ [VmNext]_vmVars => [Accepted]_vmVars
  <2> SUFFICES ASSUME VmInv, VmNext, owners # {}, owners' = {}, worker.at # "gone"
               PROVE  Len(queue') = Len(queue) + 1
    BY DEF vmVars
  <2> USE WorkerConstants DEF VmInv, VmTypeOK, VmData, Owned, Flight, RunStates, Shutdown
  <2>0. Len(Append(queue, Shutdown)) = Len(queue) + 1 /\ Len(<<>>) = 0
    BY QueueSend, ShutdownType
  <2>1. CASE Free
    <3>1. "session" \in owners
      BY <2>1 DEF Free
    <3>2. caller # "wait"
      BY <2>1 DEF Free
    <3>3. queue = <<>> /\ Len(queue) < CommandCap
      BY <2>0, <3>2
    <3> QED
      BY <2>0, <2>1, <3>1, <3>3 DEF Free, Release
  <2>2. ASSUME NEW r \in Requesters, CancelMachine(r)
        PROVE  Len(queue') = Len(queue) + 1
    <3>1. owners = {r} /\ caller # "wait"
      BY <2>2 DEF CancelMachine
    <3>2. queue = <<>> /\ Len(queue) < CommandCap
      BY <2>0, <3>1
    <3> QED
      BY <2>0, <2>2, <3>1, <3>2 DEF CancelMachine
  <2>3. CASE \E r \in Requesters : RequestReason(r) \/ Upgrade(r)
    BY <2>3 DEF RequestReason, Upgrade
  <2>4. CASE WorkerStep
    BY <2>4 DEF WorkerStep, WorkerStart, WorkerRecv, WorkerLoop, WorkerRan,
                WorkerNoProgress, WorkerFails, tokenVars
  <2>5. CASE SessionStep /\ ~Free
    BY <2>5 DEF SessionStep, Launch, Started, Attach, BeginRun, RunStep, Check,
        Deadline,
                ClearFlag, SendStep, Receive, Recover, FireToken, tokenVars
  <2> QED
    BY <2>1, <2>2, <2>3, <2>4, <2>5 DEF VmNext, RequesterStep
<1> QED
  BY <1>1, VmInvariant, PTL DEF VmSpec, ShutdownIsAccepted
=============================================================================
