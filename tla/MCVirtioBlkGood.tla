-------------------------- MODULE MCVirtioBlkGood --------------------------
(***************************************************************************)
(* The instance of VirtioBlk on the well-formed table: TLC evaluates the   *)
(* hypothesis of HeadsAnsweredCorrect (VirtioBlkProofs) on the constants   *)
(* of every run of this module, so that theorem applies to those runs.     *)
(***************************************************************************)
EXTENDS MCVirtioBlk

\* The well-formed table holds only chains the front end serves and answers.
ASSUME GoodTableWellFormed == WellFormedChains
=============================================================================
