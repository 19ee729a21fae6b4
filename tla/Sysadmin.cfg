\* Two processes over one save file, started three times in all.
CONSTANTS
    Procs = {m1, m2}
    Accounts <- MCAccounts
    Numbers = {0, 2, 3, 4}
    NoFlag = NoFlag
    Files <- MCFiles
    MaxStarts = 3
SPECIFICATION SysadminSpec
SYMMETRY Symmetric
INVARIANTS SysadminTypeOK SomeoneMayRun AdminKept ServedBySysadmin AccessPredicts
\* The bound on the processes started stops the system.
CHECK_DEADLOCK FALSE
