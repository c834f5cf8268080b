------------------------------ MODULE MCKernel ------------------------------
(* Instance of Kernel for TLC: sentinels are model values, see the .cfg. *)
EXTENDS Kernel
=============================================================================
