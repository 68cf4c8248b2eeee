------------------------------ MODULE MCHeartbeat ------------------------------
EXTENDS HeartbeatScheduler

ShortDurations == {None, 0, 1, 2, 3, 4}
DefaultAndTooShort == {0, 1}
=============================================================================
