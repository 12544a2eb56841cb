-------------------------- MODULE MCAgentApproval --------------------------
(* A small instance of AgentApproval: one agent, two spellings of its name, *)
(* one human, and a policy file that is edited while actions are pending.   *)
EXTENDS AgentApproval

\* The string "*" is the only wildcard, "BOT " is a spelling of "bot".
MCRawName == {"", "bot", "BOT ", "ann", "eve", "mail", "send", "*"}
MCName == MCRawName \ {"BOT "}
MCcanon == [r \in MCRawName |-> IF r = "BOT " THEN "bot" ELSE r]

Bot(rules) == [agent |-> "bot", tools |-> {"mail"}, sources |-> {}, rules |-> rules]
AskFirst == [tool |-> "mail", action |-> "*", decision |-> "REQUIRE_APPROVAL"]
NeverSend == [tool |-> "mail", action |-> "send", decision |-> "DENY"]

MCConfigs == {{Bot({AskFirst})}, {Bot({AskFirst, NeverSend})}}

SendMail == [tool |-> "mail", action |-> "send", source |-> "none"]
UseTool(t) == [tool |-> t, action |-> "send", source |-> "none"]

MCApprovers == {"", "BOT ", "ann", "eve"}
MCRequests == {SendMail, UseTool("ann")}
=============================================================================
