---- MODULE MCRelay ----
EXTENDS Relay, TLC
Sym == Permutations(Subs)
====
