------------------------------ MODULE MCSubmission -----------------------------
(* Two full nodes and two transactions, the second of which may be a retry.  *)
EXTENDS Submission, TLC

CONSTANTS n1, n2, t1, t2

MCNodes == {n1, n2}
MCTxs == {t1, t2}
================================================================================
