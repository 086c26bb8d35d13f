-------------------------- MODULE MCEventCallbacks --------------------------
(***************************************************************************)
(* Small instances of EventCallbacks for TLC.                              *)
(***************************************************************************)
EXTENDS EventCallbacks

CONSTANTS app, net

OneThread == {app}
TwoThreads == {app, net}
\* The mask byte 1 of OnPollUpdate with 0, 1 and 2 or-ed into it.
PollMasks == [s \in 0..2 |-> IF s = 2 THEN 3 ELSE 1]
OwnMask == [s \in {0} |-> 1]
UnnumberedIds == {0, ANY_REQUEST_ID}
=============================================================================
