---------------------------- MODULE MCWorkOrders ------------------------------
(***************************************************************************)
(* WorkOrders for TLC.  Uuids, users and requests are interchangeable, and *)
(* the properties checked are invariants and a box of actions, so symmetry *)
(* is sound.                                                               *)
(***************************************************************************)
EXTENDS WorkOrders, TLC

Interchangeable ==
  Permutations(Orders) \cup Permutations(Users) \cup Permutations(Requests)
===============================================================================
