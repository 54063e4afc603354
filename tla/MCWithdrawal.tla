---------------------------- MODULE MCWithdrawal ----------------------------
(***************************************************************************)
(* What services put on the wire in the runs of Withdrawal.                *)
(***************************************************************************)
EXTENDS Withdrawal, TLC

(* Complete announcements.                                                *)
Announcements == {AllKinds}

(* Complete announcements, and instance records alone.                     *)
InstanceOrAll == {AllKinds, InstanceKinds}

(* Instance records and addresses in datagrams of their own.               *)
InstanceOrHost == {InstanceKinds, {"host"}}

(* The families are interchangeable.                                       *)
FamilySymmetry == Permutations(Families)

=============================================================================
