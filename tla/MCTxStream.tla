---- MODULE MCTxStream ----
EXTENDS TxStream
====
