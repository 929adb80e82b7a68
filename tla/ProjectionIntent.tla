--------------------------- MODULE ProjectionIntent ---------------------------
(***************************************************************************)
(* What a validation may do with the wallet's baseline, by the projection  *)
(* version it asks for and the one its identity account stores             *)
(* (validation/handler.rs: derive_projection_intent and the two checks of  *)
(* the compatibility evidence).                                            *)
(***************************************************************************)
EXTENDS Naturals

CONSTANTS
  NoAccount,      \* the wallet has no identity
  Foreign         \* an account without the identity discriminator

\* The projection whose baselines come with evidence of the one before.
Normalized == 2     \* NORMALIZED_TOUCH_PROJECTION_VERSION

\* An older account stores no version and counts as version 0, so that an
\* account is NoAccount, Foreign or a version.
NoIntent == "refused"

\* Mutant of Intent: a capture older than the account updates it.
IntentAtAnyVersion(account, requested, reset) ==
  CASE account = NoAccount -> IF reset THEN NoIntent ELSE "mint"
    [] account = Foreign -> NoIntent
    [] OTHER ->
         CASE requested <= account -> IF reset THEN "reset" ELSE "update"
           [] requested > account -> IF reset THEN NoIntent ELSE "rebaseline"

Intent(account, requested, reset) ==
  CASE account = NoAccount -> IF reset THEN NoIntent ELSE "mint"
    [] account = Foreign -> NoIntent
    [] OTHER ->
         CASE requested < account -> NoIntent
           [] requested = account -> IF reset THEN "reset" ELSE "update"
           [] requested > account -> IF reset THEN NoIntent ELSE "rebaseline"

WritesBaseline(intent) == intent \in {"mint", "rebaseline", "reset"}

Evidence == {"none", "fit", "unfit"}

\* Both checks of the evidence: only a baseline of the normalized projection
\* has it, and it must have it.
EvidenceFits(requested, intent, evidence) ==
  IF requested = Normalized /\ WritesBaseline(intent)
  THEN evidence = "fit"
  ELSE evidence = "none"
==============================================================================
