--------------------------- MODULE MC_RTOTimeout ---------------------------
EXTENDS RTOTimeout

\* RetransmissionDelay() samples, in units of 2^8 ns: 100 ms (below the
\* 200 ms floor), 200 ms, and 1 s.
MCDelays == {390625, 781250, 3906250}

\* Past 64, the shift count at which every duration has shifted out.
MCMaxRTOCount == 66
=============================================================================
