----------------------------- MODULE Responses -----------------------------
(***************************************************************************)
(* The length of a refusal: AppError's response (error.rs) and the padding *)
(* around it (padding.rs), in bytes.  Of a text only its length is kept.   *)
(*                                                                         *)
(* A refusal is what a client is told: `kind` is the variant, `text` the   *)
(* length of a message or reason the variant carries (with a study's       *)
(* status, where one comes along), `digits` those of the wait it names;    *)
(* both 0 where there is none.                                             *)
(***************************************************************************)
EXTENDS Naturals

Target == 256       \* RESPONSE_PADDING_TARGET
MaxDigits == 20     \* of a u64

\* The messages that are fixed.
MessageLength ==
  [CrossWalletCooldownActive |-> 91, StudyRouteLimited |-> 59,
   IpRateLimited |-> 69, PairedRejected |-> 44, PairedBusy |-> 51,
   PayloadTooLarge |-> 42, RequestBodyTimeout |-> 73, Unauthorized |-> 12,
   RateLimited |-> 12, WalletRateLimited |-> 51, InsufficientQuota |-> 31,
   SolanaRpcUnavailable |-> 57, TransactionSubmissionFailed |-> 54,
   AttestationServiceUnavailable |-> 48, ValidationFailed |-> 19,
   StudyValidationFailed |-> 19, ValidationServiceUnavailable |-> 61,
   ProjectionUpdateRequired |-> 55, PairedRequired |-> 51,
   PairedTechnicalFailure |-> 56, PairedUnavailable |-> 61]

\* The reasons that are fixed.
ReasonLength ==
  [CrossWalletCooldownActive |-> 21, StudyRouteLimited |-> 18,
   IpRateLimited |-> 15, PairedBusy |-> 12, RateLimited |-> 12,
   WalletRateLimited |-> 12, ProjectionUpdateRequired |-> 26,
   PairedRequired |-> 15, PayloadTooLarge |-> 17, RequestBodyTimeout |-> 18,
   PairedTechnicalFailure |-> 17, PairedUnavailable |-> 22]

\* These carry their message, those their reason.
CarriesMessage == {"InvalidRequest", "Forbidden"}
CarriesReason == {"PairedRejected", "ValidationFailed", "StudyValidationFailed"}
NamesWait ==
  {"CrossWalletCooldownActive", "StudyRouteLimited", "IpRateLimited",
   "WalletRateLimited", "PairedBusy"}

Kinds == DOMAIN MessageLength \cup CarriesMessage

\* {"error":"..."}
Message(r) ==
  12 + (IF r.kind \in CarriesMessage THEN r.text ELSE MessageLength[r.kind])

\* ,"reason":"...": the variants with a reason of their own always have one.
Reason(r) ==
  CASE r.kind \in DOMAIN ReasonLength -> 12 + ReasonLength[r.kind]
    [] r.kind = "PairedRejected" -> 12 + r.text
    [] r.kind \in CarriesReason /\ r.text > 0 -> 12 + r.text
    [] OTHER -> 0

\* ,"retry_after":...
Wait(r) == IF r.kind \in NamesWait THEN 15 + r.digits ELSE 0

\* The body before it is padded.
Natural(r) == Message(r) + Reason(r) + Wait(r)

Field == 14         \* ,"_padding":""

\* Mutant of Padded: only what the match at the end builds is padded, not the
\* bodies of the variants that return before it.
PaddedLate(r) ==
  IF r.kind \in {"CrossWalletCooldownActive", "StudyRouteLimited", "IpRateLimited",
                 "PairedRejected", "PairedBusy"}
     \/ Natural(r) + Field >= Target
  THEN Natural(r)
  ELSE Target

\* Padded::new: probed with the field empty, filled up to the target; what is
\* longer already stays as it is.
Padded(r) ==
  LET probe == Natural(r) + Field
      padding == IF probe < Target THEN Target - probe ELSE 0
  IN  probe + padding

\* The longest text of the service's own in a variant that carries one, and of
\* the reasons on its allowlist.
OwnText == 150
============================================================================
