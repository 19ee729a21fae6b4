------------------------------ MODULE Sysadmin ------------------------------
(***************************************************************************)
(* The sysadmin of a file system across the processes that run it: main's  *)
(* start-up, the -change-sysadmin-uid and -change-sysadmin-gid commands,   *)
(* the save file (permissions/sysadmin.go) and, by module Permissions,     *)
(* what the sysadmin held in memory lets callers do.                       *)
(*                                                                         *)
(* Nothing stops two processes from running over one save file, and        *)
(* os.Create empties the file before Encode fills it again.  The processes *)
(* run with persistence, as they do unless -rm-persistence is given.       *)
(***************************************************************************)
EXTENDS Permissions

CONSTANTS
    Procs,      \* processes running at once; one that ended may start again
    Accounts,   \* the users of the machine: records of a uid and a gid
    Numbers,    \* what the change commands may be given
    NoFlag,     \* a flag left out
    Files,      \* metadata that requests ask about
    MaxStarts   \* bound on the processes started

ASSUME SysadminAssumption ==
    /\ Accounts \subseteq [uid : Nat, gid : Nat]
    /\ Numbers \subseteq Nat
    /\ NoFlag \notin Nat
    /\ Files \subseteq [uid : Nat, gid : Nat, mode : SUBSET ModeBits]
    /\ MaxStarts \in Nat

VARIABLES
    pc,         \* where each process is in main
    user,       \* who runs it
    flags,      \* its two change flags
    sys,        \* its SysAdmin
    saved,      \* OptiFSSysadminSave.gob: << >> when absent or not decodable
    starts,     \* processes started
    admin,      \* history: the sysadmin the commands so far should have left
    disturbed   \* history: processes overlapped, or one died with unsaved changes

sysVars == <<pc, user, flags, sys, saved, starts, admin, disturbed>>

\* Only numbers of accounts ever become the sysadmin's.
Ids == {a.uid : a \in Accounts} \cup {a.gid : a \in Accounts} \cup {0}
Sysadmins == [uid : Ids, gid : Ids, set : BOOLEAN]
Stages == {"idle", "change", "mount", "serving", "encode"}
Flags == [uid : Numbers \cup {NoFlag}, gid : Numbers \cup {NoFlag}]

Zero == [uid |-> 0, gid |-> 0, set |-> FALSE]
Nobody == [uid |-> 0, gid |-> 0]
Plain == [uid |-> NoFlag, gid |-> NoFlag]
MadeOf(u) == [uid |-> u.uid, gid |-> u.gid, set |-> TRUE]

SysadminTypeOK ==
    /\ pc \in [Procs -> Stages]
    /\ user \in [Procs -> [uid : Ids, gid : Ids]]
    /\ flags \in [Procs -> Flags]
    /\ sys \in [Procs -> Sysadmins]
    /\ saved \in {<< >>} \cup {<<s>> : s \in Sysadmins}
    /\ starts \in 0..MaxStarts
    /\ admin \in {<< >>} \cup {<<s>> : s \in Sysadmins}
    /\ disturbed \in BOOLEAN

SysadminInit ==
    /\ pc = [p \in Procs |-> "idle"]
    /\ user = [p \in Procs |-> Nobody]
    /\ flags = [p \in Procs |-> Plain]
    /\ sys = [p \in Procs |-> Zero]
    /\ saved = << >>
    /\ starts = 0
    /\ admin = << >>
    /\ disturbed = FALSE

-----------------------------------------------------------------------------
\* RetrieveSysadmin: gob leaves out the fields that are zero, and Decode does
\* not touch what was left out.
Retrieved(into) ==
    IF saved = << >> THEN into
    ELSE [uid |-> IF saved[1].uid = 0 THEN into.uid ELSE saved[1].uid,
          gid |-> IF saved[1].gid = 0 THEN into.gid ELSE saved[1].gid,
          set |-> saved[1].set \/ into.set]

ValidUID(n) == \E a \in Accounts : a.uid = n

\* mutant of ChangeSysadminUID: the account is not looked up.
ChangeSysadminUIDUnchecked(s, n) == [s EXCEPT !.uid = n]

\* A number that names no account changes nothing.
ChangeSysadminUID(s, n) == IF ValidUID(n) THEN [s EXCEPT !.uid = n] ELSE s

\* The group, too, is looked up among the user ids: ValidGID is never called.
ChangeSysadminGID(s, n) == IF ValidUID(n) THEN [s EXCEPT !.gid = n] ELSE s

\* With both flags given only the user id is changed.
ChangedBy(f, s) ==
    IF f.uid # NoFlag THEN ChangeSysadminUID(s, f.uid) ELSE ChangeSysadminGID(s, f.gid)

\* A process that ends takes its memory with it.
Ended(p) ==
    /\ pc' = [pc EXCEPT ![p] = "idle"]
    /\ user' = [user EXCEPT ![p] = Nobody]
    /\ flags' = [flags EXCEPT ![p] = Plain]
    /\ sys' = [sys EXCEPT ![p] = Zero]

Alone(p) == \A q \in Procs \ {p} : pc[q] = "idle"

-----------------------------------------------------------------------------
\* mutant of Start: anyone may run the file system.
StartUnchecked(p, u, f) ==
    LET found == Retrieved(Zero)
        mine == IF found.set THEN found ELSE MadeOf(u) IN
    /\ pc[p] = "idle" /\ starts < MaxStarts
    /\ pc' = [pc EXCEPT ![p] = IF f = Plain THEN "mount" ELSE "change"]
    /\ user' = [user EXCEPT ![p] = u]
    /\ flags' = [flags EXCEPT ![p] = f]
    /\ sys' = [sys EXCEPT ![p] = mine]
    /\ starts' = starts + 1
    /\ admin' = IF admin = << >> \/ (disturbed /\ Alone(p)) THEN <<mine>> ELSE admin
    /\ disturbed' = ~Alone(p)
    /\ UNCHANGED saved

\* main up to the change flags: the first user becomes the sysadmin, others
\* must be the sysadmin or in the sysadmin's group (else log.Fatal, before
\* anything has changed).
Start(p, u, f) ==
    LET found == Retrieved(Zero)
        mine == IF found.set THEN found ELSE MadeOf(u) IN
    /\ pc[p] = "idle" /\ starts < MaxStarts
    /\ found.set => IsUserSysadmin(u, found)
    /\ pc' = [pc EXCEPT ![p] = IF f = Plain THEN "mount" ELSE "change"]
    /\ user' = [user EXCEPT ![p] = u]
    /\ flags' = [flags EXCEPT ![p] = f]
    /\ sys' = [sys EXCEPT ![p] = mine]
    /\ starts' = starts + 1
    /\ admin' = IF admin = << >> \/ (disturbed /\ Alone(p)) THEN <<mine>> ELSE admin
    /\ disturbed' = ~Alone(p)
    /\ UNCHANGED saved

\* A change command, up to the os.Create of SaveSysadmin.
Change(p) ==
    /\ pc[p] = "change"
    /\ IsUserSysadmin(user[p], sys[p])
    /\ sys' = [sys EXCEPT ![p] = ChangedBy(flags[p], @)]
    /\ pc' = [pc EXCEPT ![p] = "encode"]
    /\ saved' = << >>
    /\ admin' = <<ChangedBy(flags[p], sys[p])>>
    /\ UNCHANGED <<user, flags, starts, disturbed>>

\* mutant of Mount: what is retrieved after the mount is decoded into nothing.
MountForgets(p) ==
    /\ pc[p] = "mount"
    /\ sys' = [sys EXCEPT ![p] = Retrieved(Zero)]
    /\ pc' = [pc EXCEPT ![p] = "serving"]
    /\ UNCHANGED <<user, flags, saved, starts, admin, disturbed>>

\* The file system is mounted and the sysadmin retrieved a second time, into
\* the struct in use.
Mount(p) ==
    /\ pc[p] = "mount"
    /\ sys' = [sys EXCEPT ![p] = Retrieved(@)]
    /\ pc' = [pc EXCEPT ![p] = "serving"]
    /\ UNCHANGED <<user, flags, saved, starts, admin, disturbed>>

\* The deferred SaveSysadmin, up to its os.Create.
Unmount(p) ==
    /\ pc[p] = "serving"
    /\ saved' = << >>
    /\ pc' = [pc EXCEPT ![p] = "encode"]
    /\ UNCHANGED <<user, flags, sys, starts, admin, disturbed>>

\* Encode, after which the process ends.
Encode(p) ==
    /\ pc[p] = "encode"
    /\ saved' = <<sys[p]>>
    /\ Ended(p)
    /\ UNCHANGED <<starts, admin, disturbed>>

\* The process is killed.  It takes with it a sysadmin that was set when it
\* started: SetSysadmin saves nothing before the file system is unmounted.
Crash(p) ==
    /\ pc[p] # "idle"
    /\ disturbed' = (disturbed \/ saved # <<sys[p]>>)
    /\ Ended(p)
    /\ UNCHANGED <<saved, starts, admin>>

SysadminNext ==
    \E p \in Procs :
        \/ \E u \in Accounts, f \in Flags : Start(p, u, f)
        \/ Change(p)
        \/ Mount(p)
        \/ Unmount(p)
        \/ Encode(p)
        \/ Crash(p)

SysadminSpec == SysadminInit /\ [][SysadminNext]_sysVars

-----------------------------------------------------------------------------
(* Properties.                                                              *)

\* Whatever overlaps or crashes, the file system is never locked: the saved
\* sysadmin, if any, is a user of the machine, who passes main's check.
SomeoneMayRun ==
    saved # << >> => \E a \in Accounts : IsUserSysadmin(a, Retrieved(Zero))

\* While processes run one at a time and none dies with unsaved changes, what
\* was last set or changed is what the next process finds, through both
\* retrievals and however often the file is rewritten (sysadmin.go:84,
\* "this is saved (persisent), so we only need to get it once").
AdminKept ==
    ~disturbed =>
        /\ (\A p \in Procs : pc[p] = "idle") => saved = admin
        /\ \A p \in Procs : pc[p] = "serving" => sys[p] = admin[1]

\* Who runs the file system is its sysadmin, and still is after the second
\* retrieval.
ServedBySysadmin ==
    ~disturbed => \A p \in Procs : pc[p] = "serving" => IsUserSysadmin(user[p], sys[p])

\* access(2) predicts what the other requests do, each of which goes through
\* the modes in its own way: every mask against CheckPermissions, and reading
\* and writing (Open's check, then the one of Read or Write).
Predicts(caller, s, meta) ==
    /\ \A mask \in SUBSET Operation :
          CheckMask(caller, s, meta, mask) <=>
              \A op \in Operation : MaskBit(op) \in mask => CheckPermissions(caller, s, meta, op)
    /\ CheckMask(caller, s, meta, {MaskBit(0)}) <=>
          CheckOpenPermissions(caller, s, meta, {}) /\ CheckPermissions(caller, s, meta, 0)
    /\ \A f \in SUBSET OpenFlags :
          "WRONLY" \in f /\ "RDWR" \notin f =>
              (CheckMask(caller, s, meta, {MaskBit(1)}) <=> CheckOpenPermissions(caller, s, meta, f))
    /\ CheckMask(caller, s, meta, {MaskBit(0), MaskBit(1)}) <=>
          CheckOpenPermissions(caller, s, meta, {"RDWR"})

AccessPredicts ==
    \A p \in Procs :
        pc[p] = "serving" =>
            \A caller \in Accounts, meta \in Files : Predicts(caller, sys[p], meta)

-----------------------------------------------------------------------------
(* The inductive invariant.                                                 *)

Running(p) == pc[p] # "idle"

\* A sysadmin that is set has the user id of an account.
SetSound(s) == s.set /\ ValidUID(s.uid)

AdminsSound ==
    /\ saved # << >> => SetSound(saved[1])
    /\ \A p \in Procs : Running(p) => SetSound(sys[p])

\* An undisturbed process is alone with the sysadmin in its memory: the file
\* holds the same, or nothing yet, or nothing for now.
OneCopy ==
    ~disturbed =>
        /\ (\A p \in Procs : ~Running(p)) => saved = admin
        /\ \A p \in Procs :
              Running(p) =>
                  /\ Alone(p)
                  /\ admin = <<sys[p]>>
                  /\ saved # << >> => saved = admin
                  /\ pc[p] # "encode" => IsUserSysadmin(user[p], sys[p])

SysadminIInv == SysadminTypeOK /\ AdminsSound /\ OneCopy
=============================================================================
