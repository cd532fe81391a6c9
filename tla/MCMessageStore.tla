--------------------------- MODULE MCMessageStore ---------------------------
(* Small instances of MessageStore.  No definition tells two keys apart. *)
EXTENDS MessageStore, TLC

KeySymmetry == Permutations(Key)

=============================================================================
