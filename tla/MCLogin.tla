------------------------------ MODULE MCLogin ------------------------------
(***************************************************************************)
(* One account, two devices, one login and one command at a time.          *)
(***************************************************************************)
EXTENDS Login, TLC

Symmetric == Permutations(Devices)
=============================================================================
