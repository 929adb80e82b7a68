--------------------------- MODULE ChainAccounts ---------------------------
(***************************************************************************)
(* What the executor reads out of the accounts of other programs: the      *)
(* identity (deserialize_identity_state of attestation/sas.rs,             *)
(* recent_timestamps of validation/handler.rs) and the credential          *)
(* (parse_credential_authorized_signers of attestation/sas.rs).            *)
(*                                                                         *)
(* Data is a sequence of cells; a byte is a cell, but for the widths and   *)
(* the base, which are parameters.  Offsets count from zero.               *)
(***************************************************************************)
EXTENDS Integers, Sequences, FiniteSets, SequencesExt

CONSTANTS
  Base,           \* 256
  KeyCells,       \* 32, of a public key
  I64Cells, U32Cells, U16Cells,
  Tag,            \* IDENTITY_DISCRIMINATOR
  RecentOffset,   \* 127
  Slots,          \* 52
  Identities,     \* identities that are written
  Credentials     \* credentials that are written

VARIABLES
  account,        \* what was written, or <<>>
  data            \* the account's data as it is read

accountVars == <<account, data>>

\* How many values so many cells have.
Powers(n) ==
  LET power[k \in 0 .. n] == IF k = 0 THEN 1 ELSE Base * power[k - 1]
  IN  power
Span(width) == Powers(width)[width]

\* to_le_bytes: what is left of v after each cell, and its digit.
Rests(v, width) ==
  LET rest[k \in 0 .. width] == IF k = 0 THEN v ELSE rest[k - 1] \div Base
  IN  rest
Little(v, width) == [i \in 1 .. width |-> Rests(v, width)[i - 1] % Base]

\* from_le_bytes: the value of the last k cells.
Values(cells) ==
  LET value[k \in 0 .. Len(cells)] ==
        IF k = 0 THEN 0 ELSE cells[Len(cells) - k + 1] + Base * value[k - 1]
  IN  value
Unsigned(cells) == Values(cells)[Len(cells)]
Signed(cells) ==
  LET v == Unsigned(cells)
      range == Span(Len(cells))
  IN  IF 2 * v < range THEN v ELSE v - range

\* data[from..from + width].
Slice(from, width) == SubSeq(data, from + 1, from + width)
Holds(from, width) == from + width <= Len(data)

------------------------------------------------------------------------------
(***************************************************************************)
(* The identity.                                                           *)
(***************************************************************************)
VerifiedOffset == Len(Tag) + KeyCells + I64Cells
TrustOffset == VerifiedOffset + I64Cells + U32Cells

IsIdentity == Holds(0, Len(Tag)) /\ Slice(0, Len(Tag)) = Tag

\* deserialize_identity_state; <<>> is an error.
Identity ==
  IF Holds(TrustOffset, U16Cells) /\ IsIdentity
  THEN <<[verified |-> Signed(Slice(VerifiedOffset, I64Cells)),
          trust |-> Unsigned(Slice(TrustOffset, U16Cells))]>>
  ELSE <<>>

\* The slots an account has: all of them, or those it was allocated with.
AvailableSlots ==
  CASE Holds(RecentOffset, Slots * I64Cells) -> Slots
    [] Len(data) <= RecentOffset -> 0
    [] OTHER -> (Len(data) - RecentOffset) \div I64Cells

Positive(times) ==
  LET kept[i \in 0 .. Len(times)] ==
        IF i = 0 THEN <<>>
        ELSE IF times[i] > 0 THEN Append(kept[i - 1], times[i])
        ELSE kept[i - 1]
  IN  kept[Len(times)]

\* recent_timestamps.
RecentTimestamps ==
  IF ~IsIdentity THEN <<>>
  ELSE Positive([i \in 1 .. AvailableSlots |->
                   Signed(Slice(RecentOffset + (i - 1) * I64Cells, I64Cells))])

------------------------------------------------------------------------------
(***************************************************************************)
(* The credential.                                                         *)
(***************************************************************************)
NameOffset == 1 + KeyCells

\* Mutant of CountOffset: the name's length is not skipped.
CountOffsetShort == NameOffset + Unsigned(Slice(NameOffset, U32Cells))

CountOffset == NameOffset + U32Cells + Unsigned(Slice(NameOffset, U32Cells))
SignersOffset == CountOffset + U32Cells
SignerCount == Unsigned(Slice(CountOffset, U32Cells))

\* parse_credential_authorized_signers; <<>> is an error.
Signers ==
  IF /\ Len(data) > 0 /\ data[1] = 0
     /\ Holds(NameOffset, U32Cells) /\ Holds(CountOffset, U32Cells)
     /\ Holds(SignersOffset, SignerCount * KeyCells)
  THEN <<[i \in 1 .. SignerCount |-> Slice(SignersOffset + (i - 1) * KeyCells, KeyCells)]>>
  ELSE <<>>

------------------------------------------------------------------------------
(***************************************************************************)
(* The accounts, as their programs lay them out.                           *)
(***************************************************************************)
Zeros(n) == [i \in 1 .. n |-> 0]

IdentityData(id) ==
  Tag \o Zeros(KeyCells + I64Cells) \o Little(id.verified, I64Cells)
      \o Zeros(U32Cells) \o Little(id.trust, U16Cells)
      \o Zeros(RecentOffset - TrustOffset - U16Cells)
      \o FlattenSeq([i \in 1 .. Slots |-> Little(id.recent[i], I64Cells)])

CredentialData(c) ==
  <<0>> \o Zeros(KeyCells)
      \o Little(Len(c.name), U32Cells) \o c.name
      \o Little(Len(c.signers), U32Cells) \o FlattenSeq(c.signers)

\* What is written fits its width.
AccountsAssumption ==
  /\ Base \in Nat \ {0, 1} /\ KeyCells \in Nat
  /\ I64Cells \in Nat \ {0} /\ U32Cells \in Nat /\ U16Cells \in Nat
  /\ Tag \in Seq(Int) /\ Tag # <<>> /\ Tag[1] # 0
  /\ RecentOffset \in Nat /\ RecentOffset >= TrustOffset + U16Cells
  /\ Slots \in Nat \ {0}
  /\ LET i64 == {v \in Int : -Span(I64Cells) <= 2 * v /\ 2 * v < Span(I64Cells)}
     IN  \A id \in Identities :
           /\ id.verified \in i64 /\ id.trust \in 0 .. Span(U16Cells) - 1
           /\ id.recent \in Seq(i64) /\ Len(id.recent) = Slots
  /\ \A c \in Credentials :
       /\ c.name \in Seq(Int) /\ Len(c.name) < Span(U32Cells)
       /\ c.signers \in Seq(Seq(Int)) /\ Len(c.signers) < Span(U32Cells)
       /\ \A i \in DOMAIN c.signers : Len(c.signers[i]) = KeyCells

NoAccount == <<>>

\* What the account's program wrote.
Written ==
  IF account[1].kind = "identity" THEN IdentityData(account[1].content)
  ELSE CredentialData(account[1].content)

Init == account = NoAccount /\ data = <<>>

Write ==
  /\ account = NoAccount
  /\ \/ \E id \in Identities :
          /\ account' = <<[kind |-> "identity", content |-> id]>>
          /\ data' = IdentityData(id)
     \/ \E c \in Credentials :
          /\ account' = <<[kind |-> "credential", content |-> c]>>
          /\ data' = CredentialData(c)

\* An account that was allocated shorter, or is longer than its content.
Shorten ==
  /\ account # NoAccount
  /\ \E n \in 0 .. Len(data) - 1 : data' = SubSeq(data, 1, n)
  /\ UNCHANGED account

Lengthen ==
  /\ account # NoAccount
  /\ Len(data) \in Len(Written) .. Len(Written) + 1
  /\ data' = Append(data, 1)
  /\ UNCHANGED account

Close ==
  /\ account # NoAccount
  /\ account' = NoAccount /\ data' = <<>>

Next == Write \/ Shorten \/ Lengthen \/ Close

Spec == Init /\ [][Next]_accountVars

------------------------------------------------------------------------------
\* What is read of an account is what its program wrote, or nothing.  An
\* identity of an older layout yields its score and its time as soon as it
\* holds both, and the timestamps it has room for, in order; a credential cut
\* anywhere is refused, never read as one with fewer signers; neither is taken
\* for the other (sas.rs, handler.rs).
AccountsReadBack ==
  account # NoAccount =>
    LET content == account[1].content
    IN  CASE account[1].kind = "identity" ->
               /\ Signers = <<>>
               /\ IF Len(data) < TrustOffset + U16Cells THEN Identity = <<>>
                  ELSE Identity = <<[verified |-> content.verified, trust |-> content.trust]>>
               /\ RecentTimestamps =
                    LET room == {i \in 1 .. Slots : Holds(RecentOffset, i * I64Cells)}
                    IN  Positive(SubSeq(content.recent, 1, Cardinality(room)))
          [] account[1].kind = "credential" ->
               /\ Identity = <<>> /\ RecentTimestamps = <<>>
               /\ Signers = IF Len(data) >= Len(Written) THEN <<content.signers>> ELSE <<>>
=============================================================================
