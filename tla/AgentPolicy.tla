---------------------------- MODULE AgentPolicy ----------------------------
(***************************************************************************)
(* The pure policy decision of proxy/agent_policy.py.  Strings are         *)
(* members of two sets: RawName, the strings a request may carry, and      *)
(* Name, what canon (strip and lower) makes of them.  A profile holds      *)
(* canonical names only, because profile_from_dict canonicalises them.     *)
(***************************************************************************)

CONSTANTS RawName,    \* strings as a client sends them
          Name,       \* canonical strings
          canon,      \* [RawName -> Name]: strip and lower
          Blank,      \* the canonical string of an empty name
          Star,       \* the canonical string "*"
          Wild,       \* the canonical strings that contain "*"
          NoSource    \* a request that names no data source (None)

ASSUME NameAssumption ==
  /\ canon \in [RawName -> Name]
  /\ Blank \in Name \ Wild
  /\ Wild \subseteq Name
  /\ Star \in Wild
  /\ NoSource \notin RawName

Decision == {"ALLOW", "DENY", "REQUIRE_APPROVAL"}

Rule == [tool : Name, action : Name, decision : Decision]

\* The rules of a profile are a tuple in the code and a set here: evaluate
\* collects the decisions that match in a set, so their order tells nothing.
Profile == [agent : Name, tools : SUBSET Name, sources : SUBSET Name, rules : SUBSET Rule]

Request == [tool : RawName, action : RawName, source : RawName \cup {NoSource}]

OutOfBoundsCode ==
  {"empty_name", "wildcard_request", "unregistered_tool", "unregistered_data_source"}

Code == OutOfBoundsCode \cup
          {"rule_allow", "rule_deny", "rule_require_approval", "default_deny"}

Verdict == [decision : Decision, code : Code]

\* The decisions of the rules that match.  A rule's action may be the wildcard,
\* a rule's tool may not.
Matched(p, tool, action) ==
  {r.decision : r \in {s \in p.rules : s.tool = tool /\ s.action \in {action, Star}}}

Deny(code) == [decision |-> "DENY", code |-> code]

\* The most restrictive decision that matched wins, and none denies.
Strictest(matched) ==
  IF "DENY" \in matched THEN Deny("rule_deny")
  ELSE IF "REQUIRE_APPROVAL" \in matched
       THEN [decision |-> "REQUIRE_APPROVAL", code |-> "rule_require_approval"]
  ELSE IF "ALLOW" \in matched THEN [decision |-> "ALLOW", code |-> "rule_allow"]
  ELSE Deny("default_deny")

\* A data source is checked only when the request names one; a blank one is
\* named, and registered nowhere unless the profile lists a blank name.
SourceRegistered(p, q) == q.source = NoSource \/ canon[q.source] \in p.sources

Evaluate(p, q) ==
  LET tool   == canon[q.tool]
      action == canon[q.action]
  IN  IF Blank \in {tool, action} THEN Deny("empty_name")
      ELSE IF {tool, action} \cap Wild # {} THEN Deny("wildcard_request")
      ELSE IF tool \notin p.tools THEN Deny("unregistered_tool")
      ELSE IF ~SourceRegistered(p, q) THEN Deny("unregistered_data_source")
      ELSE Strictest(Matched(p, tool, action))
=============================================================================
