-------------------------- MODULE MCBootPartition --------------------------
(***************************************************************************)
(* Instances of BootPartition for TLC: partitions of two blocks, and a     *)
(* dword modulus of four, so that a download of five dwords wraps to one.  *)
(***************************************************************************)
EXTENDS BootPartition

MCDwValues == {1, 4}
MCPolite == {"await_read", "await_commit", "quiesce"}
MCNoQuiesce == {"await_read", "await_commit"}
=============================================================================
