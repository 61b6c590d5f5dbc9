------------------------------- MODULE MCTxRing -------------------------------
\* Instances of TxRing for TLC.
EXTENDS TxRing, TLC

CONSTANTS small, large, jumbo

\* Two packets that fit the buffer and one that is a byte too long, which
\* with LenModulus = BufSize + 1 is also the least that a slot cannot announce.
MCLength == small :> 1 @@ large :> 2 @@ jumbo :> 3
===============================================================================
