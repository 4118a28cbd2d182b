-------------------------- MODULE MCExecSupervisor --------------------------
(* ExecSupervisor for TLC; the values are in the configurations. *)
EXTENDS ExecSupervisor

CONSTANTS r1, r2, r3, stdout, stderr

(* One execution, two channels, output that may overrun its limit *)
OutputLoad ==
    [requests |-> {r1}, channels |-> {stdout, stderr}, limit |-> 2, inputCap |-> 0,
     output |-> 3, input |-> 0, starts |-> 1, interactive |-> FALSE, faults |-> FALSE]

(* Interactive executions without output *)
InputLoad ==
    [requests |-> {r1}, channels |-> {}, limit |-> 0, inputCap |-> 3,
     output |-> 0, input |-> 4, starts |-> 2, interactive |-> TRUE, faults |-> FALSE]

(* Three requests for two slots, and ids that wrap *)
TableLoad ==
    [requests |-> {r1, r2, r3}, channels |-> {}, limit |-> 0, inputCap |-> 0,
     output |-> 0, input |-> 0, starts |-> 4, interactive |-> FALSE, faults |-> FALSE]

(* Reads and waits that fail *)
FaultLoad ==
    [requests |-> {r1}, channels |-> {stdout}, limit |-> 2, inputCap |-> 1,
     output |-> 2, input |-> 1, starts |-> 1, interactive |-> TRUE, faults |-> TRUE]

MCWorkloads == {OutputLoad, InputLoad, TableLoad, FaultLoad}
=============================================================================
