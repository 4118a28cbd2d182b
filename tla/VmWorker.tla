------------------------------ MODULE VmWorker ------------------------------
(***************************************************************************)
(* One software VM as the host drives it: the worker thread that owns the  *)
(* machine, the handle a session thread calls run_units on, and the        *)
(* cancellation token that any other thread may fire.                      *)
(*                                                                         *)
(* Three kinds of thread take steps.  The session thread launches the      *)
(* machine and then repeats "check the token, run, check the token".  The  *)
(* worker serves its command queue.  A requester fires the token: it       *)
(* records the cause, tries to upgrade the weak machine reference and sets *)
(* the worker's cancel flag, as three steps that interleave with the rest. *)
(***************************************************************************)
EXTENDS Naturals, Sequences, FiniteSets

CONSTANTS
    Requesters,   \* threads that may fire the token
    CommandCap,   \* capacity of the worker's command queue
    MaxQuanta     \* the most provider quanta one run_units may ask for

ASSUME WorkerConstants ==
    /\ "session" \notin Requesters
    /\ CommandCap \in Nat \ {0}
    /\ MaxQuanta \in Nat \ {0}

VARIABLES
    reason,     \* the token's cause: 0 none, 1 cancelled, 2 timed out
    attached,   \* the token's weak reference names the machine
    owners,     \* threads holding a strong reference to the machine
    requester,  \* where each requester stands in request_reason
    caller,     \* where the session thread stands
    err,        \* why its latest step failed
    flag,       \* the worker's cancel flag
    queue,      \* commands the worker has not received
    reply,      \* answer to the command the session thread waits for
    worker,     \* the worker thread: [at, left], left in quanta
    machine,    \* state the provider reports
    sentAfter   \* history: run_units commands sent with the token fired

tokenVars == <<reason, attached, owners, requester>>
workerVars == <<queue, reply, worker, machine>>
vmVars == <<reason, attached, owners, requester, caller, err, flag, queue,
            reply, worker, machine, sentAfter>>

MachineStates == {"running", "halted", "faulted", "stopped"}
RunStates == {"check", "deadline", "clear", "send", "wait", "recheck",
              "redeadline"}
CallerStates == {"new", "starting", "attach", "out", "failed", "gone"}
                    \cup RunStates
Errors == {"none", "cancelled", "timeout", "startup", "busy", "stopped",
           "stalled", "failed", "machine"}

\* A command is a number of quanta to step, or this.
Shutdown == 0

VmSwitches == attached \in BOOLEAN /\ flag \in BOOLEAN

VmData ==
    /\ reason \in 0..2
    /\ owners \subseteq {"session"} \cup Requesters
    /\ requester \in [Requesters -> {"idle", "marked", "holding", "done"}]
    /\ caller \in CallerStates
    /\ err \in Errors
    /\ queue \in Seq(0..MaxQuanta)
    /\ reply \in {"none", "ok", "stalled", "failed"}
    /\ worker \in [at : {"none", "starting", "recv", "loop", "quantum", "gone"},
                   left : 0..MaxQuanta]
    /\ machine \in MachineStates
    /\ sentAfter \in Nat

VmTypeOK == VmSwitches /\ VmData

VmInit ==
    /\ reason = 0
    /\ attached = FALSE
    /\ owners = {}
    /\ requester = [r \in Requesters |-> "idle"]
    /\ caller = "new"
    /\ err = "none"
    /\ flag = FALSE
    /\ queue = <<>>
    /\ reply = "none"
    /\ worker = [at |-> "none", left |-> 0]
    /\ machine = "running"
    /\ sentAfter = 0

-----------------------------------------------------------------------------
(***************************************************************************)
(* The handle.  The last owner to let go runs X86_64Machine::drop: the     *)
(* flag is set, Shutdown is offered to the queue, and the queue's sending  *)
(* side closes.                                                            *)
(***************************************************************************)
\* Mutant: the queue never reports that its senders are gone.
ClosedNever == FALSE

Closed == owners = {} /\ caller \notin {"new", "starting"}

\* Mutant: drop sets the flag and forgets to send Shutdown.
ReleaseQuietly(rest) ==
    /\ owners' = rest
    /\ flag' = (flag \/ rest = {})
    /\ UNCHANGED queue

\* The flag and the queue once `rest` are the owners that remain.
Release(rest) ==
    /\ owners' = rest
    /\ flag' = (flag \/ rest = {})
    /\ queue' = IF rest = {} /\ worker.at # "gone" /\ Len(queue) < CommandCap
                THEN Append(queue, Shutdown) ELSE queue

Fail(why) == caller' = "failed" /\ err' = why

Cause(r) == IF r = 2 THEN "timeout" ELSE "cancelled"

-----------------------------------------------------------------------------
(***************************************************************************)
(* The session thread: boot_channel's launch, then one run at a time.      *)
(***************************************************************************)

\* Cancellation::claim, the check before launch and spawn_worker's spawn.
Launch ==
    /\ caller = "new"
    /\ IF reason # 0
       THEN Fail(Cause(reason)) /\ UNCHANGED worker
       ELSE /\ caller' = "starting"
            /\ worker' = [worker EXCEPT !.at = "starting"]
            /\ UNCHANGED err
    /\ UNCHANGED <<tokenVars, flag, queue, reply, machine, sentAfter>>

\* The startup channel answered, or its timeout ran out first.
Started ==
    /\ caller = "starting"
    /\ \/ /\ worker.at = "recv"
          /\ caller' = "attach"
          /\ owners' = {"session"}
          /\ UNCHANGED err
       \/ Fail("startup") /\ UNCHANGED owners
    /\ UNCHANGED <<reason, attached, requester, flag, workerVars, sentAfter>>

\* Cancellation::attach; its own check is the one the run makes next.
Attach ==
    /\ caller = "attach"
    /\ attached' = TRUE
    /\ caller' = "check"
    /\ UNCHANGED <<reason, owners, requester, err, flag, workerVars, sentAfter>>

BeginRun ==
    /\ caller = "out"
    /\ caller' = "check"
    /\ UNCHANGED <<tokenVars, err, flag, workerVars, sentAfter>>

\* Mutant: the check trusts the worker's flag, which run_units clears.
CheckFlagOnly ==
    /\ caller \in {"check", "recheck"}
    /\ IF ~flag
       THEN /\ caller' = IF caller = "check" THEN "deadline" ELSE "redeadline"
            /\ UNCHANGED <<err, flag>>
       ELSE Fail(Cause(reason)) /\ flag' = TRUE
    /\ UNCHANGED <<tokenVars, workerVars, sentAfter>>

\* Cancellation::check before and after a run: a fired token is fired again,
\* which sets the flag through the weak reference, and the run fails.
Check ==
    /\ caller \in {"check", "recheck"}
    /\ IF reason = 0
       THEN /\ caller' = IF caller = "check" THEN "deadline" ELSE "redeadline"
            /\ UNCHANGED <<err, flag>>
       ELSE Fail(Cause(reason)) /\ flag' = TRUE
    /\ UNCHANGED <<tokenVars, workerVars, sentAfter>>

\* The deadline half of MachineIo::check.  A late call reports a timeout even
\* when another thread recorded its own cause first.
Deadline(late) ==
    /\ caller \in {"deadline", "redeadline"}
    /\ IF late
       THEN /\ reason' = IF reason = 0 THEN 2 ELSE reason
            /\ flag' = TRUE
            /\ Fail("timeout")
       ELSE /\ IF caller = "deadline"
               THEN caller' = "clear" /\ UNCHANGED err
               ELSE IF machine = "running"
                    THEN caller' = "out" /\ err' = "none"
                    ELSE Fail("machine")
            /\ UNCHANGED <<reason, flag>>
    /\ UNCHANGED <<attached, owners, requester, workerVars, sentAfter>>

\* run_units, first half: forget an earlier cancellation.
ClearFlag ==
    /\ caller = "clear"
    /\ flag' = FALSE
    /\ caller' = "send"
    /\ UNCHANGED <<tokenVars, err, workerVars, sentAfter>>

\* run_units, second half: offer the command without waiting.
SendStep(quanta) ==
    /\ caller = "send"
    /\ CASE worker.at = "gone" -> Fail("stopped") /\ UNCHANGED <<queue, sentAfter>>
         [] worker.at # "gone" /\ Len(queue) >= CommandCap ->
                Fail("busy") /\ UNCHANGED <<queue, sentAfter>>
         [] OTHER ->
                /\ queue' = Append(queue, quanta)
                /\ caller' = "wait"
                /\ sentAfter' = IF reason = 0 THEN sentAfter ELSE sentAfter + 1
                /\ UNCHANGED err
    /\ UNCHANGED <<tokenVars, flag, reply, worker, machine>>

\* The reply, or a reply channel whose worker is gone.
Receive ==
    /\ caller = "wait"
    /\ reply # "none" \/ worker.at = "gone"
    /\ IF reply = "ok" THEN caller' = "recheck" /\ UNCHANGED err
       ELSE Fail(IF reply = "none" THEN "stopped" ELSE reply)
    /\ reply' = "none"
    /\ UNCHANGED <<tokenVars, flag, queue, worker, machine, sentAfter>>

\* The failed call returned; a session that survives it may be called again.
Recover ==
    /\ caller = "failed"
    /\ "session" \in owners
    /\ caller' = "out"
    /\ UNCHANGED <<tokenVars, err, flag, workerVars, sentAfter>>

\* The session thread fires its own token: past the output limit, or again when
\* a check of execute_observed finds it fired.
FireToken ==
    /\ caller = "out"
    /\ reason' = IF reason = 0 THEN 1 ELSE reason
    /\ flag' = TRUE
    /\ UNCHANGED <<attached, owners, requester, caller, err, workerVars, sentAfter>>

\* The session is freed, or its boot failed: its reference goes.
Free ==
    /\ caller \in {"out", "failed"}
    /\ caller' = "gone"
    /\ IF "session" \in owners
       THEN Release(owners \ {"session"})
       ELSE UNCHANGED <<owners, flag, queue>>
    /\ UNCHANGED <<reason, attached, requester, err, reply, worker, machine,
                   sentAfter>>

-----------------------------------------------------------------------------
(***************************************************************************)
(* Cancellation::request_reason on another thread.                         *)
(***************************************************************************)
RequestReason(r) ==
    /\ requester[r] = "idle"
    /\ requester' = [requester EXCEPT ![r] = "marked"]
    /\ reason' = IF reason = 0 THEN 1 ELSE reason
    /\ UNCHANGED <<attached, owners, caller, err, flag, workerVars, sentAfter>>

Upgrade(r) ==
    /\ requester[r] = "marked"
    /\ IF attached /\ owners # {}
       THEN /\ requester' = [requester EXCEPT ![r] = "holding"]
            /\ owners' = owners \cup {r}
       ELSE /\ requester' = [requester EXCEPT ![r] = "done"]
            /\ UNCHANGED owners
    /\ UNCHANGED <<reason, attached, caller, err, flag, workerVars, sentAfter>>

\* machine.cancel(), then the upgraded reference goes out of scope.
CancelMachine(r) ==
    /\ requester[r] = "holding"
    /\ requester' = [requester EXCEPT ![r] = "done"]
    /\ owners' = owners \ {r}
    /\ flag' = TRUE
    /\ queue' = IF owners = {r} /\ worker.at # "gone" /\ Len(queue) < CommandCap
                THEN Append(queue, Shutdown) ELSE queue
    /\ UNCHANGED <<reason, attached, caller, err, reply, worker, machine, sentAfter>>

-----------------------------------------------------------------------------
(***************************************************************************)
(* The worker thread.                                                      *)
(***************************************************************************)
sessionVars == <<caller, err>>

\* The provider builds the machine.  Nobody listens after a startup timeout.
WorkerStart ==
    /\ worker.at = "starting"
    /\ \/ worker' = [worker EXCEPT !.at = IF caller = "starting" THEN "recv" ELSE "gone"]
       \/ worker' = [worker EXCEPT !.at = "gone"]
    /\ UNCHANGED <<tokenVars, sessionVars, flag, queue, reply, machine, sentAfter>>

\* worker_loop: the next command, or the end of a queue nobody can send to.
WorkerRecv ==
    /\ worker.at = "recv"
    /\ \/ /\ queue # <<>>
          /\ queue' = Tail(queue)
          /\ IF Head(queue) = Shutdown
             THEN /\ machine' = "stopped"
                  /\ worker' = [worker EXCEPT !.at = "gone"]
             ELSE /\ worker' = [at |-> "loop", left |-> Head(queue)]
                  /\ UNCHANGED machine
       \/ /\ queue = <<>> /\ Closed
          /\ worker' = [worker EXCEPT !.at = "gone"]
          /\ UNCHANGED <<queue, machine>>
    /\ UNCHANGED <<tokenVars, sessionVars, flag, reply, sentAfter>>

\* Mutant: a cancelled run goes back to the queue without answering.
WorkerLoopSilent ==
    /\ worker.at = "loop"
    /\ IF worker.left > 0 /\ ~flag /\ machine = "running"
       THEN worker' = [worker EXCEPT !.at = "quantum"] /\ UNCHANGED reply
       ELSE /\ worker' = [at |-> "recv", left |-> 0]
            /\ reply' = IF worker.left > 0 /\ flag THEN reply ELSE "ok"
    /\ UNCHANGED <<tokenVars, sessionVars, flag, queue, machine, sentAfter>>

\* run_bounded's loop test: another quantum, or the reply.
WorkerLoop ==
    /\ worker.at = "loop"
    /\ IF worker.left > 0 /\ ~flag /\ machine = "running"
       THEN worker' = [worker EXCEPT !.at = "quantum"] /\ UNCHANGED reply
       ELSE worker' = [at |-> "recv", left |-> 0] /\ reply' = "ok"
    /\ UNCHANGED <<tokenVars, sessionVars, flag, queue, machine, sentAfter>>

\* run_quantum when the guest ran: the machine may halt or fault under it.
WorkerRan ==
    /\ worker.at = "quantum"
    /\ ~flag
    /\ machine' \in {"running", "halted", "faulted"}
    /\ worker' = [at |-> "loop", left |-> worker.left - 1]
    /\ UNCHANGED <<tokenVars, sessionVars, flag, queue, reply, sentAfter>>

\* run_quantum when its own should_cancel test found the flag first: no unit
\* ran, the machine still reports running, and run_bounded calls that an error.
WorkerNoProgress ==
    /\ worker.at = "quantum"
    /\ flag
    /\ worker' = [at |-> "gone", left |-> 0]
    /\ reply' = "stalled"
    /\ UNCHANGED <<tokenVars, sessionVars, flag, queue, machine, sentAfter>>

\* The provider reports an error or panics: the outcome is sent and the worker
\* leaves its loop.
WorkerFails ==
    /\ worker.at = "quantum"
    /\ worker' = [at |-> "gone", left |-> 0]
    /\ reply' = "failed"
    /\ UNCHANGED <<tokenVars, sessionVars, flag, queue, machine, sentAfter>>

-----------------------------------------------------------------------------
RunStep ==
    \/ Check
    \/ \E late \in BOOLEAN : Deadline(late)
    \/ ClearFlag
    \/ \E quanta \in 1..MaxQuanta : SendStep(quanta)
    \/ Receive

SessionStep == Launch \/ Started \/ Attach \/ BeginRun \/ RunStep \/ Recover
                  \/ FireToken \/ Free

RequesterStep(r) == RequestReason(r) \/ Upgrade(r) \/ CancelMachine(r)

WorkerStep == WorkerStart \/ WorkerRecv \/ WorkerLoop \/ WorkerRan \/ WorkerNoProgress
                 \/ WorkerFails

VmNext == SessionStep \/ (\E r \in Requesters : RequesterStep(r)) \/ WorkerStep

VmSpec == VmInit /\ [][VmNext]_vmVars

-----------------------------------------------------------------------------
(* A fired token stops the machine within one command: the command whose   *)
(* check came before the token fired is the last that run_units ever sends *)
(* (MachineIo::advance and the boot loop check on both sides of a run      *)
(* because run_units clears the flag a requester may just have set).       *)
FiredTokenEndsRuns == sentAfter <= 1

(* Dropping the machine always gets its Shutdown into the queue, although  *)
(* drop only offers it with try_send and ignores a refusal: no command of  *)
(* an unfinished run can be in the queue when the last reference goes.     *)
ShutdownIsAccepted ==
    [][owners # {} /\ owners' = {} /\ worker.at # "gone"
          => Len(queue') = Len(queue) + 1]_vmVars

(* A session thread that waits for a reply is owed one: its command is     *)
(* queued, is being served, is answered, or the worker is gone and recv    *)
(* reports that.  A run_units call is never left waiting on nothing.       *)
WaitingIsServed ==
    caller = "wait" =>
        \/ queue # <<>> \/ worker.at \in {"loop", "quantum", "gone"} \/ reply # "none"
=============================================================================
