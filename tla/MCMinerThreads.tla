--------------------------- MODULE MCMinerThreads ---------------------------
(* Two threads of the miner, one caller and the shutdown.  An operator who  *)
(* asks for autodetection, and one who asks for background mining: the two *)
(* together hang (README).                                                 *)
EXTENDS MinerThreads

MCUsages == {{<<0, FALSE>>}, {<<1, TRUE>>}}
=============================================================================
