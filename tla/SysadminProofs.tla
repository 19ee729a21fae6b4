--------------------------- MODULE SysadminProofs ---------------------------
(***************************************************************************)
(* Proofs about Sysadmin and Permissions, for every set of accounts, files *)
(* and processes.                                                          *)
(***************************************************************************)
EXTENDS Sysadmin, TLAPS

-----------------------------------------------------------------------------
(* The permission checks agree.                                             *)

\* Shifting the mode to the owner's bits asks for the bit of the caller's class.
LEMMA ShiftedBit ==
    ASSUME NEW caller, NEW meta, meta.mode \subseteq ModeBits, NEW op \in Operation
    PROVE  OwnerBit(op) \in ShiftLeft(meta.mode, ClassShift(caller, meta))
              <=> checkMode(caller, meta, op)
<1> DEFINE k == ClassShift(caller, meta)
<1>1. k \in {0, 3, 6} /\ OwnerBit(op) \in 6..8
    BY DEF ClassShift, OwnerBit, Operation
<1>2. OwnerBit(op) \in ShiftLeft(meta.mode, k) <=> \E b \in meta.mode : OwnerBit(op) = b + k
    BY <1>1 DEF ShiftLeft, ModeBits
<1>3. (\E b \in meta.mode : OwnerBit(op) = b + k) <=> OwnerBit(op) - k \in meta.mode
    BY <1>1 DEF ModeBits
<1> QED  BY <1>2, <1>3 DEF checkMode

\* access(2) with any mask allows exactly what CheckPermissions allows for each
\* operation in it, whoever asks.
THEOREM MaskAgrees ==
    ASSUME NEW caller, NEW s, NEW meta, meta.mode \subseteq ModeBits, NEW mask
    PROVE  CheckMask(caller, s, meta, mask) <=>
              \A op \in Operation : MaskBit(op) \in mask => CheckPermissions(caller, s, meta, op)
<1>1. CASE IsUserSysadmin(caller, s)
    BY <1>1 DEF CheckMask, CheckPermissions
<1>2. CASE ~IsUserSysadmin(caller, s)
    <2>1. CheckMask(caller, s, meta, mask) <=>
            \A op \in Operation : MaskBit(op) \in mask =>
                OwnerBit(op) \in ShiftLeft(meta.mode, ClassShift(caller, meta))
        BY <1>2 DEF CheckMask, checkPermissionBits
    <2>2. \A op \in Operation :
            CheckPermissions(caller, s, meta, op) <=> checkMode(caller, meta, op)
        BY <1>2 DEF CheckPermissions
    <2> QED  BY <2>1, <2>2, ShiftedBit
<1> QED  BY <1>1, <1>2

\* access(2) predicts the checks of Open, Read and Write.
LEMMA AccessPredictsAll ==
    ASSUME NEW caller, NEW s, NEW meta, meta.mode \subseteq ModeBits
    PROVE  Predicts(caller, s, meta)
<1> DEFINE Perm(op) == CheckPermissions(caller, s, meta, op)
<1>1. \A mask : CheckMask(caller, s, meta, mask) <=>
                  \A op \in Operation : MaskBit(op) \in mask => Perm(op)
    BY MaskAgrees
<1>2. /\ Operation = {0, 1, 2}
      /\ MaskBit(0) = 2 /\ MaskBit(1) = 1 /\ MaskBit(2) = 0
    BY DEF Operation, MaskBit
<1>3. \A f : CheckOpenPermissions(caller, s, meta, f) <=> \A op \in checkOpenIntent(f) : Perm(op)
    BY DEF CheckOpenPermissions, CheckPermissions
<1>4. checkOpenIntent({}) = {0} /\ checkOpenIntent({"RDWR"}) = {0, 1}
    BY DEF checkOpenIntent, OpenFlags
<1>5. \A f \in SUBSET OpenFlags :
        "WRONLY" \in f /\ "RDWR" \notin f => checkOpenIntent(f) = {1}
    BY DEF checkOpenIntent, OpenFlags
<1>6. CheckMask(caller, s, meta, {MaskBit(0)}) <=> Perm(0)
    BY <1>1, <1>2
<1>7. CheckMask(caller, s, meta, {MaskBit(1)}) <=> Perm(1)
    BY <1>1, <1>2
<1>8. CheckMask(caller, s, meta, {MaskBit(0), MaskBit(1)}) <=> Perm(0) /\ Perm(1)
    BY <1>1, <1>2
<1>9. CheckOpenPermissions(caller, s, meta, {}) <=> Perm(0)
    BY <1>3, <1>4
<1>10. CheckOpenPermissions(caller, s, meta, {"RDWR"}) <=> Perm(0) /\ Perm(1)
    BY <1>3, <1>4
<1>11. \A f \in SUBSET OpenFlags :
        "WRONLY" \in f /\ "RDWR" \notin f =>
            (CheckOpenPermissions(caller, s, meta, f) <=> Perm(1))
    BY <1>3, <1>5
<1> QED  BY <1>1, <1>6, <1>7, <1>8, <1>9, <1>10, <1>11 DEF Predicts

\* The run's AccessPredicts, for every account, file and sysadmin.
THEOREM AccessAlwaysPredicts == SysadminSpec => []AccessPredicts
<1>1. AccessPredicts
    <2> SUFFICES ASSUME NEW p \in Procs, NEW caller \in Accounts, NEW meta \in Files
                 PROVE  Predicts(caller, sys[p], meta)
        BY DEF AccessPredicts
    <2>1. meta.mode \subseteq ModeBits
        BY SysadminAssumption
    <2> QED  BY <2>1, AccessPredictsAll
<1> QED  BY <1>1, PTL

-----------------------------------------------------------------------------
(* What a process makes of the save file.                                   *)

LEMMA AccountIds ==
    /\ \A a \in Accounts : MadeOf(a) \in Sysadmins /\ SetSound(MadeOf(a)) /\ a \in [uid : Ids, gid : Ids]
    /\ Zero \in Sysadmins /\ Nobody \in [uid : Ids, gid : Ids]
    /\ \A n : ValidUID(n) => n \in Ids
BY SysadminAssumption DEF MadeOf, Sysadmins, Ids, SetSound, ValidUID, Zero, Nobody

LEMMA SavedOne ==
    ASSUME SysadminTypeOK, saved # << >>
    PROVE  saved[1] \in Sysadmins /\ saved = <<saved[1]>>
BY DEF SysadminTypeOK

\* Decoding keeps a sysadmin well formed, and gives back what was saved when
\* the struct is blank or already the same.
LEMMA RetrievedSound ==
    ASSUME SysadminTypeOK, AdminsSound, NEW s \in Sysadmins
    PROVE  /\ Retrieved(s) \in Sysadmins
           /\ SetSound(s) => SetSound(Retrieved(s))
           /\ saved # << >> => SetSound(Retrieved(Zero)) /\ Retrieved(Zero) = saved[1]
           /\ saved = << >> => Retrieved(s) = s
           /\ saved = <<s>> => Retrieved(s) = s
<1>1. CASE saved = << >>
    BY <1>1 DEF Retrieved
<1>2. CASE saved # << >>
    <2> DEFINE t == saved[1]
    <2>1. t \in Sysadmins /\ saved = <<t>>
        BY <1>2, SavedOne
    <2>2. SetSound(t)
        BY <1>2 DEF AdminsSound
    <2> HIDE DEF t
    <2>3. Retrieved(s) = [uid |-> IF t.uid = 0 THEN s.uid ELSE t.uid,
                          gid |-> IF t.gid = 0 THEN s.gid ELSE t.gid,
                          set |-> t.set \/ s.set]
        BY <1>2, <2>1 DEF Retrieved
    <2>4. Retrieved(Zero) = [uid |-> IF t.uid = 0 THEN 0 ELSE t.uid,
                             gid |-> IF t.gid = 0 THEN 0 ELSE t.gid,
                             set |-> t.set \/ FALSE]
        BY <1>2, <2>1 DEF Retrieved, Zero
    <2>5. Retrieved(s) \in Sysadmins
        BY <2>1, <2>3 DEF Sysadmins
    <2>6. SetSound(s) => SetSound(Retrieved(s))
        <3>1. Retrieved(s).uid \in {s.uid, t.uid} /\ Retrieved(s).set = (t.set \/ s.set)
            BY <2>3
        <3> QED  BY <2>2, <3>1 DEF SetSound
    <2>7. t.set = TRUE
        BY <2>1, <2>2 DEF SetSound, Sysadmins
    <2>8. Retrieved(Zero) = t
        BY <2>1, <2>4, <2>7 DEF Sysadmins
    <2>9. saved = <<s>> => t = s
        BY <2>1
    <2>10. t = s => Retrieved(s) = s
        BY <2>1, <2>3, <2>7 DEF Sysadmins
    <2> QED  BY <1>2, <2>2, <2>5, <2>6, <2>8, <2>9, <2>10 DEF t
<1> QED  BY <1>1, <1>2

\* A change leaves a well-formed sysadmin well formed.
LEMMA ChangeSound ==
    ASSUME NEW s \in Sysadmins, NEW f \in Flags
    PROVE  ChangedBy(f, s) \in Sysadmins /\ (SetSound(s) => SetSound(ChangedBy(f, s)))
BY AccountIds DEF ChangedBy, ChangeSysadminUID, ChangeSysadminGID, Sysadmins, SetSound

-----------------------------------------------------------------------------
(* The inductive invariant.                                                 *)

LEMMA SysadminInitInv == SysadminInit => SysadminIInv
<1> SUFFICES ASSUME SysadminInit PROVE SysadminIInv
    OBVIOUS
<1>1. SysadminTypeOK
    <2>1. Plain \in Flags
        BY DEF Plain, Flags
    <2>2. 0 \in 0..MaxStarts
        BY SysadminAssumption
    <2> QED  BY <2>1, <2>2, AccountIds DEF SysadminInit, SysadminTypeOK, Stages
<1>2. \A p \in Procs : ~Running(p)
    BY DEF SysadminInit, Running
<1>3. saved = << >> /\ admin = << >>
    BY DEF SysadminInit
<1> QED  BY <1>1, <1>2, <1>3 DEF SysadminIInv, AdminsSound, OneCopy

LEMMA StartInv ==
    ASSUME SysadminIInv, NEW p \in Procs, NEW u \in Accounts, NEW f \in Flags, Start(p, u, f)
    PROVE  SysadminIInv'
<1> DEFINE found == Retrieved(Zero)
           mine == IF found.set THEN found ELSE MadeOf(u)
<1>1. /\ pc[p] = "idle" /\ starts < MaxStarts
      /\ found.set => IsUserSysadmin(u, found)
      /\ pc' = [pc EXCEPT ![p] = IF f = Plain THEN "mount" ELSE "change"]
      /\ user' = [user EXCEPT ![p] = u]
      /\ flags' = [flags EXCEPT ![p] = f]
      /\ sys' = [sys EXCEPT ![p] = mine]
      /\ starts' = starts + 1
      /\ admin' = IF admin = << >> \/ (disturbed /\ Alone(p)) THEN <<mine>> ELSE admin
      /\ disturbed' = ~Alone(p)
      /\ saved' = saved
    BY DEF Start
<1>2. SysadminTypeOK /\ AdminsSound /\ OneCopy
    BY DEF SysadminIInv
<1>3. /\ found \in Sysadmins
      /\ saved # << >> => SetSound(found) /\ found = saved[1] /\ saved = <<found>>
      /\ saved = << >> => found = Zero
    BY <1>2, RetrievedSound, AccountIds, SavedOne
<1>4. mine \in Sysadmins /\ SetSound(mine)
    <2>1. CASE saved = << >>
        BY <1>3, <2>1, AccountIds DEF Zero
    <2>2. CASE saved # << >>
        BY <1>3, <2>2 DEF SetSound
    <2> QED  BY <2>1, <2>2
<1>5. IsUserSysadmin(u, mine)
    BY <1>1 DEF IsUserSysadmin, MadeOf
<1>6. saved # << >> => mine = saved[1] /\ saved = <<mine>>
    BY <1>3 DEF SetSound
<1>7. u \in [uid : Ids, gid : Ids]
    BY AccountIds
<1> HIDE DEF mine, found
<1>8. SysadminTypeOK'
    BY <1>1, <1>2, <1>4, <1>7, SysadminAssumption DEF SysadminTypeOK, Stages
<1>9. AdminsSound'
    BY <1>1, <1>2, <1>4 DEF SysadminTypeOK, AdminsSound, Running
<1>10. OneCopy'
    <2> SUFFICES ASSUME Alone(p) PROVE OneCopy'
        BY <1>1 DEF OneCopy
    <2>1. \A q \in Procs : Running(q)' <=> q = p
        BY <1>1, <1>2 DEF Alone, Running, SysadminTypeOK
    <2>2. Alone(p)'
        BY <2>1 DEF Alone, Running
    <2>3. sys'[p] = mine /\ user'[p] = u
        BY <1>1, <1>2 DEF SysadminTypeOK
    <2>4. admin' = <<mine>>
        <3>1. CASE disturbed \/ admin = << >>
            BY <1>1, <3>1
        <3>2. CASE ~disturbed /\ admin # << >>
            <4>1. \A q \in Procs : ~Running(q)
                BY <1>1 DEF Alone, Running
            <4>2. saved = admin
                BY <1>2, <3>2, <4>1 DEF OneCopy
            <4> QED  BY <1>1, <1>6, <3>2, <4>2
        <3> QED  BY <3>1, <3>2
    <2>5. saved' # << >> => saved' = admin'
        BY <1>1, <1>6, <2>4
    <2> QED  BY <1>5, <2>1, <2>2, <2>3, <2>4, <2>5 DEF OneCopy
<1> QED  BY <1>8, <1>9, <1>10 DEF SysadminIInv

LEMMA ChangeInv ==
    ASSUME SysadminIInv, NEW p \in Procs, Change(p)
    PROVE  SysadminIInv'
<1> DEFINE new == ChangedBy(flags[p], sys[p])
<1>1. /\ pc[p] = "change"
      /\ sys' = [sys EXCEPT ![p] = new]
      /\ pc' = [pc EXCEPT ![p] = "encode"]
      /\ saved' = << >>
      /\ admin' = <<new>>
      /\ UNCHANGED <<user, flags, starts, disturbed>>
    BY DEF Change
<1>2. SysadminTypeOK /\ AdminsSound /\ OneCopy
    BY DEF SysadminIInv
<1>3. new \in Sysadmins /\ SetSound(new)
    BY <1>1, <1>2, ChangeSound DEF SysadminTypeOK, AdminsSound, Running
<1> HIDE DEF new
<1>4. SysadminTypeOK'
    BY <1>1, <1>2, <1>3 DEF SysadminTypeOK, Stages
<1>5. AdminsSound'
    BY <1>1, <1>2, <1>3 DEF SysadminTypeOK, AdminsSound, Running
<1>6. OneCopy'
    <2> SUFFICES ASSUME ~disturbed PROVE OneCopy'
        BY <1>1 DEF OneCopy
    <2>1. Alone(p)
        BY <1>1, <1>2 DEF OneCopy, Running
    <2>2. \A q \in Procs : Running(q)' <=> q = p
        BY <1>1, <1>2, <2>1 DEF Alone, Running, SysadminTypeOK
    <2>3. Alone(p)' /\ pc'[p] = "encode" /\ sys'[p] = new
        BY <1>1, <1>2, <2>1, <2>2 DEF Alone, Running, SysadminTypeOK
    <2> QED  BY <1>1, <2>2, <2>3 DEF OneCopy
<1> QED  BY <1>4, <1>5, <1>6 DEF SysadminIInv

LEMMA MountInv ==
    ASSUME SysadminIInv, NEW p \in Procs, Mount(p)
    PROVE  SysadminIInv'
<1> DEFINE new == Retrieved(sys[p])
<1>1. /\ pc[p] = "mount"
      /\ sys' = [sys EXCEPT ![p] = new]
      /\ pc' = [pc EXCEPT ![p] = "serving"]
      /\ UNCHANGED <<user, flags, saved, starts, admin, disturbed>>
    BY DEF Mount
<1>2. SysadminTypeOK /\ AdminsSound /\ OneCopy
    BY DEF SysadminIInv
<1>3. sys[p] \in Sysadmins /\ SetSound(sys[p])
    BY <1>1, <1>2 DEF SysadminTypeOK, AdminsSound, Running
<1>4. new \in Sysadmins /\ SetSound(new)
    BY <1>2, <1>3, RetrievedSound
<1>5. saved = << >> \/ saved = <<sys[p]>> => new = sys[p]
    BY <1>2, <1>3, RetrievedSound
<1> HIDE DEF new
<1>6. SysadminTypeOK'
    BY <1>1, <1>2, <1>4 DEF SysadminTypeOK, Stages
<1>7. AdminsSound'
    BY <1>1, <1>2, <1>4 DEF SysadminTypeOK, AdminsSound, Running
<1>8. OneCopy'
    <2> SUFFICES ASSUME ~disturbed PROVE OneCopy'
        BY <1>1 DEF OneCopy
    <2>1. /\ Alone(p) /\ admin = <<sys[p]>>
          /\ saved # << >> => saved = admin
          /\ IsUserSysadmin(user[p], sys[p])
        BY <1>1, <1>2 DEF OneCopy, Running
    <2>2. \A q \in Procs : Running(q)' <=> q = p
        BY <1>1, <1>2, <2>1 DEF Alone, Running, SysadminTypeOK
    <2>3. Alone(p)' /\ sys'[p] = sys[p]
        BY <1>1, <1>2, <1>5, <2>1, <2>2 DEF Alone, Running, SysadminTypeOK
    <2> QED  BY <1>1, <2>1, <2>2, <2>3 DEF OneCopy
<1> QED  BY <1>6, <1>7, <1>8 DEF SysadminIInv

LEMMA UnmountInv ==
    ASSUME SysadminIInv, NEW p \in Procs, Unmount(p)
    PROVE  SysadminIInv'
<1>1. /\ pc[p] = "serving"
      /\ saved' = << >>
      /\ pc' = [pc EXCEPT ![p] = "encode"]
      /\ UNCHANGED <<user, flags, sys, starts, admin, disturbed>>
    BY DEF Unmount
<1>2. SysadminTypeOK /\ AdminsSound /\ OneCopy
    BY DEF SysadminIInv
<1>3. SysadminTypeOK'
    BY <1>1, <1>2 DEF SysadminTypeOK, Stages
<1>4. \A q \in Procs : Running(q)' <=> Running(q)
    BY <1>1, <1>2 DEF Running, SysadminTypeOK
<1>5. AdminsSound'
    BY <1>1, <1>2, <1>4 DEF AdminsSound
<1>6. \A q \in Procs : Alone(q)' <=> Alone(q)
    BY <1>4 DEF Alone, Running
<1>7. \A q \in Procs : pc'[q] # "encode" => pc[q] # "encode"
    BY <1>1, <1>2 DEF SysadminTypeOK
<1>8. OneCopy'
    BY <1>1, <1>2, <1>4, <1>6, <1>7 DEF OneCopy, Running
<1> QED  BY <1>3, <1>5, <1>8 DEF SysadminIInv

\* Encode and Crash end a process.
LEMMA EndInv ==
    ASSUME SysadminIInv, NEW p \in Procs, Running(p), Ended(p),
           UNCHANGED <<starts, admin>>,
           \/ saved' = <<sys[p]>> /\ disturbed' = disturbed
           \/ saved' = saved /\ disturbed' = (disturbed \/ saved # <<sys[p]>>)
    PROVE  SysadminIInv'
<1>1. SysadminTypeOK /\ AdminsSound /\ OneCopy
    BY DEF SysadminIInv
<1>2. /\ pc' = [pc EXCEPT ![p] = "idle"]
      /\ user' = [user EXCEPT ![p] = Nobody]
      /\ flags' = [flags EXCEPT ![p] = Plain]
      /\ sys' = [sys EXCEPT ![p] = Zero]
    BY DEF Ended
<1>3. sys[p] \in Sysadmins /\ SetSound(sys[p])
    BY <1>1 DEF SysadminTypeOK, AdminsSound
<1>4. saved' \in {<< >>} \cup {<<s>> : s \in Sysadmins} /\ (saved' # << >> => SetSound(saved'[1]))
    BY <1>1, <1>3 DEF SysadminTypeOK, AdminsSound
<1>5. Plain \in Flags
    BY DEF Plain, Flags
<1>6. SysadminTypeOK'
    BY <1>1, <1>2, <1>4, <1>5, AccountIds DEF SysadminTypeOK, Stages
<1>7. \A q \in Procs : Running(q)' <=> (Running(q) /\ q # p)
    BY <1>1, <1>2 DEF Running, SysadminTypeOK
<1>8. AdminsSound'
    BY <1>1, <1>2, <1>4, <1>7 DEF SysadminTypeOK, AdminsSound
<1>9. OneCopy'
    <2> SUFFICES ASSUME ~disturbed' PROVE OneCopy'
        BY DEF OneCopy
    <2>1. ~disturbed /\ saved' = <<sys[p]>>
        BY <1>1 DEF SysadminTypeOK
    <2>2. Alone(p) /\ admin = <<sys[p]>>
        BY <1>1, <2>1 DEF OneCopy
    <2>3. \A q \in Procs : ~Running(q)'
        BY <1>7, <2>2 DEF Alone, Running
    <2> QED  BY <2>1, <2>2, <2>3 DEF OneCopy
<1> QED  BY <1>6, <1>8, <1>9 DEF SysadminIInv

LEMMA SysadminStepInv == SysadminIInv /\ [SysadminNext]_sysVars => SysadminIInv'
<1> SUFFICES ASSUME SysadminIInv, [SysadminNext]_sysVars PROVE SysadminIInv'
    OBVIOUS
<1>1. CASE UNCHANGED sysVars
    BY <1>1 DEF sysVars, SysadminIInv, SysadminTypeOK, AdminsSound, OneCopy, Running, Alone
<1>2. ASSUME NEW p \in Procs, NEW u \in Accounts, NEW f \in Flags, Start(p, u, f)
      PROVE  SysadminIInv'
    BY <1>2, StartInv
<1>3. ASSUME NEW p \in Procs, Change(p) PROVE SysadminIInv'
    BY <1>3, ChangeInv
<1>4. ASSUME NEW p \in Procs, Mount(p) PROVE SysadminIInv'
    BY <1>4, MountInv
<1>5. ASSUME NEW p \in Procs, Unmount(p) PROVE SysadminIInv'
    BY <1>5, UnmountInv
<1>6. ASSUME NEW p \in Procs, Encode(p) PROVE SysadminIInv'
    BY <1>6, EndInv DEF Encode, Running
<1>7. ASSUME NEW p \in Procs, Crash(p) PROVE SysadminIInv'
    BY <1>7, EndInv DEF Crash, Running
<1> QED  BY <1>1, <1>2, <1>3, <1>4, <1>5, <1>6, <1>7 DEF SysadminNext

\* The inductive invariant, at every stage of processes that overlap and crash.
THEOREM SysadminInvariant == SysadminSpec => []SysadminIInv
BY SysadminInitInv, SysadminStepInv, PTL DEF SysadminSpec

\* A saved sysadmin is always a user who may run the file system.
THEOREM NeverLocked == SysadminSpec => []SomeoneMayRun
<1>1. SysadminIInv => SomeoneMayRun
    <2> SUFFICES ASSUME SysadminIInv, saved # << >>
                 PROVE  \E a \in Accounts : IsUserSysadmin(a, Retrieved(Zero))
        BY DEF SomeoneMayRun
    <2>1. SetSound(Retrieved(Zero))
        BY RetrievedSound, AccountIds DEF SysadminIInv
    <2> QED  BY <2>1 DEF SetSound, ValidUID, IsUserSysadmin
<1> QED  BY <1>1, SysadminInvariant, PTL

\* Whatever SetSysadmin, the change commands and RetrieveSysadmin's merge leave in
\* memory and SaveSysadmin writes is a sysadmin with ids of the right type.
THEOREM SysadminTypes == SysadminSpec => []SysadminTypeOK
<1>1. SysadminIInv => SysadminTypeOK
    BY DEF SysadminIInv
<1> QED  BY <1>1, SysadminInvariant, PTL

\* Changes last: while processes run one at a time and none dies with unsaved
\* changes, the file holds what the changes made so far asked for.
THEOREM ChangesLast == SysadminSpec => []AdminKept
<1>1. SysadminIInv => AdminKept
    BY DEF SysadminIInv, OneCopy, AdminKept, Running
<1> QED  BY <1>1, SysadminInvariant, PTL

\* In the same runs, whoever runs a process that serves passes main's check of the
\* sysadmin in its memory, also after the second retrieval has merged into it.
THEOREM ServesAsSysadmin == SysadminSpec => []ServedBySysadmin
<1>1. SysadminIInv => ServedBySysadmin
    BY DEF SysadminIInv, OneCopy, ServedBySysadmin, Running
<1> QED  BY <1>1, SysadminInvariant, PTL
=============================================================================
