------------------------- MODULE MCGeneratePipeline -------------------------
(***************************************************************************)
(* A small instance of GeneratePipeline: a user who makes up session ids,  *)
(* another one who names a provider nobody has a key for, a quota of one   *)
(* call, and a server without a Gemini key.                                *)
(***************************************************************************)
EXTENDS GeneratePipeline

Plain == [user |-> "ann", session |-> "s1", big |-> FALSE, attack |-> FALSE, text |-> {},
          route |-> "default", byok |-> FALSE, schema |-> "known"]

MCRequests == {
  Plain,
  [Plain EXCEPT !.session = "s2", !.text = {"email", "person"}],
  [Plain EXCEPT !.user = "bob", !.route = "gemini"],
  [Plain EXCEPT !.route = "gemini", !.byok = TRUE, !.schema = "unknown"],
  [Plain EXCEPT !.text = {"person"}, !.attack = TRUE],
  [Plain EXCEPT !.big = TRUE]}

MCReplies == {[text |-> {}, valid |-> TRUE], [text |-> {"api_key"}, valid |-> FALSE]}
=============================================================================
