---------------------------- MODULE MCBlobQueue ----------------------------
(***************************************************************************)
(* Small instances of BlobQueue.                                           *)
(***************************************************************************)
EXTENDS BlobQueue, TLC

\* Identifiers are drawn at random and never compared but for equality.
Symmetry ==
    Permutations(Account) \cup Permutations(Device) \cup Permutations(Key)
      \cup Permutations(ContentKey) \cup Permutations(Token) \cup Permutations(Blob)
=============================================================================
