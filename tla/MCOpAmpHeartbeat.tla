-------------------------- MODULE MCOpAmpHeartbeat --------------------------
EXTENDS OpAmpHeartbeat

CONSTANTS spoilt, long

Both(heartbeat, poll) == [heartbeat |-> heartbeat, poll |-> poll]

\* One configuration sets the intervals to zero and to a negative number, one
\* makes the polling interval too long.
MCOptionsOf == [h \in Hashes |-> IF h = spoilt THEN Both(0, -1) ELSE Both(2, 3)]

\* Of the second ones, one is not positive and one is too long.
MCStartOptions == {Both(1, 2), Both(0, 3)}

\* Of the seconds, 1 gives 2 milliseconds, and 2 wraps around.
MCAnswers == {[seconds |-> 1, hash |-> spoilt], [seconds |-> 2, hash |-> long]}
=============================================================================
