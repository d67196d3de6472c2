--------------------------- MODULE MCTxSubmission ---------------------------
(* Small instances of TxSubmission for TLC. *)
EXTENDS TxSubmission
=============================================================================
