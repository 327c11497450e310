------------------------------ MODULE MCConnect ------------------------------
EXTENDS Connect
=============================================================================
