----------------------------- MODULE MCThrottler -----------------------------
\* Instances of Throttler for TLC; the .cfg files give the constants.
EXTENDS Throttler
=============================================================================
