----------------------------- MODULE MCPwleQueue -----------------------------
EXTENDS PwleQueue

\* The LUXSHARE_ICT_LT_XLRA1906D's table between 160 and 170 Hz and outside.
MCAllowed == [f \in 1..999 |-> IF f \in 160..170 THEN 35 - 2 * (f - 160) ELSE 38]

\* The greatest that is valid, and those just outside what a primitive that is
\* not braking may have; Width lets two of the greatest wrap around.
MCDurations == {-1, 999, 1000}
==============================================================================
