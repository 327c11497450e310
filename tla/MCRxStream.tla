---- MODULE MCRxStream ----
EXTENDS RxStream
====
