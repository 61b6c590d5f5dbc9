------------------------------ MODULE MCTxThreads ------------------------------
\* An instance of TxThreads for TLC.
EXTENDS TxThreads, TLC

CONSTANTS small, other, large

\* Two packets that fit the buffer, so that a slot's new content differs from
\* what it held before, and one that is too long.
MCLength == small :> 1 @@ other :> 1 @@ large :> 2

\* Nothing but their identity tells the two that fit apart.
PacketSymmetry == Permutations({small, other})
================================================================================
