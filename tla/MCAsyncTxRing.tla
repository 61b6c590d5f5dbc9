----------------------------- MODULE MCAsyncTxRing -----------------------------
\* An instance of AsyncTxRing for TLC.
EXTENDS AsyncTxRing, TLC

CONSTANTS empty, full, jumbo

\* A packet of no bytes, one as long as the buffer and one that is too long.
MCLength == empty :> 0 @@ full :> 1 @@ jumbo :> 2
================================================================================
