--------------------------- MODULE ProviderChain ---------------------------
(***************************************************************************)
(* The providers of proxy/provider.py: which ones a request tries, in      *)
(* order, and for which of them there is a key.  A provider without a key  *)
(* raises MissingCredentialsError and nothing is called.                   *)
(***************************************************************************)
EXTENDS Sequences

CONSTANT ServerKeys     \* the providers the server has a key for

Provider == {"groq", "gemini"}

ASSUME KnownKeys == ServerKeys \subseteq Provider

Route == Provider \cup {"default"}

\* Without a named provider the fallback chain, which gives up with the error of its
\* last provider.
Chain(route) == IF route = "default" THEN <<"groq", "gemini">> ELSE <<route>>

\* A caller's own key counts only for a provider it names.
HasKey(route, byok, p) == p \in ServerKeys \/ (route # "default" /\ byok)
=============================================================================
