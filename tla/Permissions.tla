----------------------------- MODULE Permissions -----------------------------
(***************************************************************************)
(* The permission checks of permissions/permissions.go, which the handlers *)
(* of the virtual file system call before they touch anything.             *)
(*                                                                         *)
(* A caller, the sysadmin and the metadata of a node are records; a mode   *)
(* or a mask is the set of its bits, so S_IRUSR is bit 8 and S_IXOTH bit 0. *)
(* Every FUSE request has a caller, so GetUIDGID never fails here.         *)
(***************************************************************************)
EXTENDS Integers

\* Operations, as CheckPermissions numbers them: read, write, execute.
Operation == 0..2

ModeBits == 0..31

\* The bit of a mode that allows the owner an operation, and the bit of an
\* access(2) mask that asks for it.
OwnerBit(op) == 8 - op
MaskBit(op) == 2 - op

\* uid or gid of the sysadmin: either is enough.
IsUserSysadmin(caller, admin) == caller.uid = admin.uid \/ caller.gid = admin.gid

\* How far the bits of the caller's class are below the owner's.
ClassShift(caller, meta) ==
    IF caller.uid = meta.uid THEN 0
    ELSE IF caller.gid = meta.gid THEN 3
    ELSE 6

\* readCheck, writeCheck and execCheck.
checkMode(caller, meta, op) ==
    OwnerBit(op) - ClassShift(caller, meta) \in meta.mode

CheckPermissions(caller, admin, meta, op) ==
    \/ IsUserSysadmin(caller, admin)
    \/ op \in Operation /\ checkMode(caller, meta, op)

\* Only the owner changes a mode or an owner: there is no exemption for the
\* sysadmin here.
IsOwner(caller, meta) == meta.uid = caller.uid

-----------------------------------------------------------------------------
(* access(2).                                                               *)

\* mode << k on 32 bits.
ShiftLeft(mode, k) == {b + k : b \in mode} \cap ModeBits

checkPermissionBits(mask, mode) ==
    \A op \in Operation : MaskBit(op) \in mask => OwnerBit(op) \in mode

\* mutant of CheckMask: the group's and the others' shifts are swapped.
CheckMaskSwapped(caller, admin, meta, mask) ==
    LET shift == ClassShift(caller, meta) IN
    \/ IsUserSysadmin(caller, admin)
    \/ checkPermissionBits(mask, ShiftLeft(meta.mode, IF shift = 0 THEN 0 ELSE 9 - shift))

CheckMask(caller, admin, meta, mask) ==
    \/ IsUserSysadmin(caller, admin)
    \/ checkPermissionBits(mask, ShiftLeft(meta.mode, ClassShift(caller, meta)))

-----------------------------------------------------------------------------
(* open(2).                                                                 *)

\* The flags that checkOpenIntent tests; O_RDONLY is 0, the empty set.
\* Others stands for any other flag the kernel passes on.
OpenFlags == {"WRONLY", "RDWR", "CREAT", "TRUNC", "APPEND", "Others"}

checkOpenIntent(flags) ==
    (IF flags = {} \/ "RDWR" \in flags THEN {0} ELSE {})
        \cup (IF flags \cap (OpenFlags \ {"Others"}) # {} THEN {1} ELSE {})

CheckOpenPermissions(caller, admin, meta, flags) ==
    \/ IsUserSysadmin(caller, admin)
    \/ \A op \in checkOpenIntent(flags) : CheckPermissions(caller, admin, meta, op)
=============================================================================
