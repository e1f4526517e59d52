------------------------------ MODULE MCWsServer ------------------------------
EXTENDS WsServer, TLC

Sym == Permutations(Conns)
=============================================================================
