----------------------------- MODULE MCTxRelay -----------------------------
(***************************************************************************)
(* TLC instances of TxRelay; the constants are in the .cfg files.          *)
(***************************************************************************)
EXTENDS TxRelay
=============================================================================
