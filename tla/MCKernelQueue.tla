---------------------------- MODULE MCKernelQueue ----------------------------
(* The instance of KernelQueue that TLC checks.  Tasks and messages are     *)
(* interchangeable: the model never compares them with anything else.       *)
EXTENDS KernelQueue, TLC

Symmetry == Permutations(Task) \cup Permutations(Message)
===============================================================================
