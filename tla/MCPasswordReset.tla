----------------------------- MODULE MCPasswordReset -----------------------------
(* Accounts, with a plan that is billed and one that is not known, and      *)
(* resets of their passwords.                                              *)
EXTENDS PasswordReset, TLC

Offers == {"starter", "chain"}

MCSymmetry ==
  Permutations(Tenants) \cup Permutations(Signups) \cup Permutations(Forgots)
    \cup Permutations(Resets) \cup Permutations(Emails)

==================================================================================
