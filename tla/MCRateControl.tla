---------------------------- MODULE MCRateControl ----------------------------
(* Instances of RateControl for TLC, with the numbers of throttle.py where    *)
(* they fit: seconds, pages, and a recovery after fewer visits.               *)
EXTENDS RateControl

MCReadings == {30, 390}
MCResets == {600}
\* Below the floor (a Retry-After of 0 too) and above the ladder.
MCRetryAfters == {1, 40}
=============================================================================
