---------------------------- MODULE ActionLedger ----------------------------
(***************************************************************************)
(* What the agent action log promises, with no requests, clients, policy   *)
(* or monitoring in sight: every action gets one row, a denial and an      *)
(* allowance are final, and an action that waits for approval is settled   *)
(* by somebody who is not the agent that asked.  A settled row may be      *)
(* settled again (two people may answer at the same moment), it never goes *)
(* back to waiting.                                                        *)
(***************************************************************************)
EXTENDS Naturals, Sequences

CONSTANTS Agent,     \* the agents that ask
          Approver,  \* the identities that may settle an action
          Nobody     \* a row nobody has settled

Settled == {"approved_not_executed", "rejected"}

Outcome == [ALLOW            |-> "allowed_not_executed",
            DENY             |-> "blocked",
            REQUIRE_APPROVAL |-> "pending_approval"]

VARIABLE ledger

Entry == [agent    : Agent,
          decision : DOMAIN Outcome,
          result   : {Outcome[d] : d \in DOMAIN Outcome} \cup Settled,
          by       : Approver \cup {Nobody}]

Init == ledger = <<>>

Ask(a, d) ==
  ledger' = Append(ledger,
                   [agent |-> a, decision |-> d, result |-> Outcome[d], by |-> Nobody])

Settle(i, who, result) ==
  /\ ledger[i].decision = "REQUIRE_APPROVAL"
  /\ who # ledger[i].agent
  /\ ledger' = [ledger EXCEPT ![i].result = result, ![i].by = who]

Next ==
  \/ \E a \in Agent, d \in DOMAIN Outcome : Ask(a, d)
  \/ \E i \in DOMAIN ledger, who \in Approver, result \in Settled : Settle(i, who, result)

Spec == Init /\ [][Next]_ledger
=============================================================================
