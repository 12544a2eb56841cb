----------------------------- MODULE MCAccounts -----------------------------
(* A small instance of Accounts: two people, one address typed in two ways and another. *)
EXTENDS Accounts, TLC

MCSpelling == {"ann@x.org", "Ann@x.org", "bob@x.org"}
MClower == [s \in MCSpelling |-> IF s = "Ann@x.org" THEN "ann@x.org" ELSE s]

Symmetry == Permutations(Thread) \cup Permutations(Client)
=============================================================================
