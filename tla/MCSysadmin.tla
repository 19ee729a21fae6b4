----------------------------- MODULE MCSysadmin -----------------------------
(* TLC instance of Sysadmin.                                                *)
EXTENDS Sysadmin, TLC

\* root, a user with a group of the same number, and one whose group has a
\* number that is no user's.
MCAccounts == {[uid |-> 0, gid |-> 0], [uid |-> 1, gid |-> 1], [uid |-> 2, gid |-> 3]}

\* Files of owners in and out of the callers' groups: rwxr-x---, ----w--wx
\* and one whose others may do more than its owner.
MCFiles ==
    [uid : {1, 2}, gid : {1, 3},
     mode : {{8, 7, 6, 5, 3}, {4, 1, 0}, {8, 5, 2, 1}}]

Symmetric == Permutations(Procs)
=============================================================================
