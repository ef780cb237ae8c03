------------------------ MODULE MCTransactionManager ------------------------
(***************************************************************************)
(* TransactionManager with small fees and bounds.                          *)
(***************************************************************************)
EXTENDS TransactionManager

LowFees == {<<1, 1>>}
=============================================================================
