-------------------------------- MODULE MCLmb -------------------------------
(* Instances of Lmb for TLC. *)
EXTENDS Lmb

\* Two banks with a hole between them, found in descending order
TwoBanks == <<[base |-> 4, size |-> 4], [base |-> 0, size |-> 3]>>
=============================================================================
