--------------------------- MODULE MCAsyncServer ---------------------------
\* Four connections against a limit of two: both permits in use, a third
\* connection turned away, a fourth waiting when the signal comes.
EXTENDS AsyncServer

CONSTANTS c1, c2, c3, c4

MCConn == {c1, c2, c3, c4}
=============================================================================
