----------------------------- MODULE MCCfgStore -----------------------------
(***************************************************************************)
(* CfgStore on a small instance: one field of two values, two editions and *)
(* a byte that is none, every pair of sector images a boot can find with   *)
(* numbers 1 and 2, and two or three saves on top of them.                 *)
(***************************************************************************)
EXTENDS CfgStore

MCFirstSeqs == {1, 2}
=============================================================================
