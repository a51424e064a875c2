---------------------------- MODULE MCLockOrder ----------------------------
(* Three threads, each with any of the operations. *)
EXTENDS LockOrder
CONSTANTS th1, th2, th3
=============================================================================
