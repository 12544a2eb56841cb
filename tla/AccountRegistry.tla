--------------------------- MODULE AccountRegistry ---------------------------
(***************************************************************************)
(* What accounts, projects and API keys promise, with no workspaces,       *)
(* requests or commits in sight: an address has one account, the account   *)
(* is its person's, a project is its account's for ever, only that person  *)
(* changes it or gives out keys to it, and a revoked key stays revoked.    *)
(***************************************************************************)
EXTENDS Naturals, Sequences

CONSTANTS Client,    \* the people
          Address,   \* the addresses, in the one way they are kept
          Forgetful  \* a restart signs everybody out

VARIABLES accounts,  \* whose address and whose password: account u is accounts[u]
          signedIn,  \* the accounts each person may use now
          owned,     \* the projects: the account each belongs to, who wrote it last
          passes     \* the keys: the project each opens, whether it was revoked

vars == <<accounts, signedIn, owned, passes>>

Init ==
  /\ accounts = <<>> /\ owned = <<>> /\ passes = <<>>
  /\ signedIn = [c \in Client |-> {}]

SignUp(c, address) ==
  /\ \A u \in DOMAIN accounts : accounts[u].email # address
  /\ accounts' = Append(accounts, [email |-> address, password |-> c])
  /\ UNCHANGED <<signedIn, owned, passes>>

SignIn(c, u) ==
  /\ accounts[u].password = c
  /\ signedIn' = [signedIn EXCEPT ![c] = @ \cup {u}]
  /\ UNCHANGED <<accounts, owned, passes>>

SignEverybodyOut ==
  /\ Forgetful
  /\ signedIn' = [c \in Client |-> {}]
  /\ UNCHANGED <<accounts, owned, passes>>

Create(c, u) ==
  /\ u \in signedIn[c]
  /\ owned' = Append(owned, [owner |-> u, editor |-> c])
  /\ UNCHANGED <<accounts, signedIn, passes>>

Edit(c, p) ==
  /\ owned[p].owner \in signedIn[c]
  /\ owned' = [owned EXCEPT ![p].editor = c]
  /\ UNCHANGED <<accounts, signedIn, passes>>

GiveOut(c, p) ==
  /\ owned[p].owner \in signedIn[c]
  /\ passes' = Append(passes, [project |-> p, revoked |-> FALSE])
  /\ UNCHANGED <<accounts, signedIn, owned>>

Withdraw(c, k) ==
  /\ owned[passes[k].project].owner \in signedIn[c]
  /\ passes' = [passes EXCEPT ![k].revoked = TRUE]
  /\ UNCHANGED <<accounts, signedIn, owned>>

Next ==
  \/ SignEverybodyOut
  \/ \E c \in Client :
       \/ \E address \in Address : SignUp(c, address)
       \/ \E u \in DOMAIN accounts : SignIn(c, u) \/ Create(c, u)
       \/ \E p \in DOMAIN owned : Edit(c, p) \/ GiveOut(c, p)
       \/ \E k \in DOMAIN passes : Withdraw(c, k)

Spec == Init /\ [][Next]_vars
=============================================================================
