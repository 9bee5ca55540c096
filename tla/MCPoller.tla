------------------------------ MODULE MCPoller ------------------------------
(* Instances of Poller for TLC.                                            *)
EXTENDS Poller

CONSTANTS d1, h1, h2

MCSenders == Devices \X {0, 1}

=============================================================================
