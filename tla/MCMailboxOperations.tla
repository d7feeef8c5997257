------------------------- MODULE MCMailboxOperations -------------------------
(* MailboxOperations with interchangeable callers.                         *)
EXTENDS MailboxOperations, TLC

CallerSymmetry == Permutations(Callers)
=============================================================================
