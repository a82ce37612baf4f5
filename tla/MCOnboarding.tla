----------------------------- MODULE MCOnboarding -----------------------------
(***************************************************************************)
(* Onboarding for TLC: the constants' elements are interchangeable, and    *)
(* the properties checked are invariants and action properties, so         *)
(* symmetry is sound.  Usernames must be the emails themselves.            *)
(***************************************************************************)
EXTENDS Onboarding, TLC

ASSUME Usernames = Emails

Interchangeable ==
  Permutations(Emails) \cup Permutations(Passwords) \cup Permutations(Slugs)
    \cup Permutations(Requests)
===============================================================================
