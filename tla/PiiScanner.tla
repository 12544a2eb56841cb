----------------------------- MODULE PiiScanner -----------------------------
(***************************************************************************)
(* The PII scanner of proxy/middleware/pii_scanner.py as the threads of    *)
(* one process share it.  Regular expressions see most kinds of PII; names *)
(* are seen by an analyzer that the first scan of the process builds,      *)
(* which takes seconds.  The flag that says the analyzer was looked for is *)
(* set before it is built, so a scan that comes in between goes without.   *)
(*                                                                         *)
(* Here a text is the set of kinds of PII it holds.                        *)
(***************************************************************************)
CONSTANT NerInstalled   \* the analyzer and its language model can be built

ASSUME NerSetting == NerInstalled \in BOOLEAN

VARIABLE scanner        \* _presidio_checked and _presidio_analyzer

\* unused: not looked for yet; loading and missing: looked for, None.
ScannerState == {"unused", "loading", "ready", "missing"}

RegexKind == {"api_key", "card", "email", "phone"}
Kind == RegexKind \cup {"person"}

\* The flag is read and set with no call in between: one thread builds.
StartBuild == scanner = "unused" /\ scanner' = "loading"

FinishBuild == scanner' = IF NerInstalled THEN "ready" ELSE "missing"

\* What a scan finds in a text once the analyzer was looked for.
CanScan == scanner # "unused"
Found(text) == IF scanner = "ready" THEN text ELSE text \cap RegexKind
=============================================================================
