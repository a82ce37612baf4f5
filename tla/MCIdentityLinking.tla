-------------------------- MODULE MCIdentityLinking ---------------------------
(***************************************************************************)
(* IdentityLinking for TLC.  Users, identities, tokens and requests are    *)
(* interchangeable, and the properties checked are invariants and a box of *)
(* actions, so symmetry is sound.                                          *)
(***************************************************************************)
EXTENDS IdentityLinking, TLC

Interchangeable ==
  Permutations(Emails) \cup Permutations(Idents) \cup Permutations(Tokens)
    \cup Permutations(Requests)
===============================================================================
