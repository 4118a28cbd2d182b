\* What is emitted, accepted and kept in the table; cancelled executions end.
CONSTANTS
    MaxConcurrent = 2
    MaxId = 3
    ChunkSize = 2
    Workloads <- MCWorkloads
    r1 = r1
    r2 = r2
    r3 = r3
    stdout = stdout
    stderr = stderr
SPECIFICATION FairSpec
INVARIANTS TypeOK ExitIsLast OutputComplete StdinEofAfterAll
PROPERTIES NoExecutionLost TerminationCompletes
CHECK_DEADLOCK FALSE
