---------------------------- MODULE MCBanLedger ----------------------------
(* Credential "ann" has a mailbox, and a file id with a base-name alias;   *)
(* credential "bob" is a file whose mailbox is unknown.                   *)
EXTENDS BanLedger, TLC

CONSTANTS ann, annFile, annStem, bob

MCAliases ==
  [n \in Names |-> IF n = annFile THEN <<annFile, annStem>> ELSE <<n>>]

MCStrip == [n \in Names |-> IF n = annFile THEN annStem ELSE n]

MCCredential == [n \in Names |-> IF n = bob THEN "bob" ELSE "ann"]

\* Files: none of the rows below, one under a mailbox beside one of bob, two rows
\* of the same credential that both claim the base name, and one saved before
\* rows were filed under their mailbox.
Saved(reset, email, authId) == [reset |-> reset, email |-> email, authId |-> authId]

MCFiles ==
  { EmptyMap,
    (ann :> Saved(2, ann, annFile)) @@ (bob :> Saved(1, None, bob)),
    (annFile :> Saved(2, None, annFile)) @@ (annStem :> Saved(1, None, annStem)),
    (annFile :> Saved(1, ann, annFile)) @@ (annStem :> Saved(2, ann, annStem)) }
=============================================================================
