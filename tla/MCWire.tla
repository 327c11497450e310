------------------------------- MODULE MCWire -------------------------------
EXTENDS Wire

MCExts == {nullopt, <<<<2, 70>>>>, <<<<3, <<9>>>>, <<20, 3>>>>}
MCImms == {nullopt, <<<<4, 1>>>>, <<<<11, <<4, 1>>>>>>}
=============================================================================
