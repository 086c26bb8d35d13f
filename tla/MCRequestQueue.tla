--------------------------- MODULE MCRequestQueue ---------------------------
(***************************************************************************)
(* Small instances of RequestQueue for TLC.  The uint16_t counter has 16   *)
(* values and a request id is one of 8, so the id wraps as the mask 0x7F   *)
(* makes it wrap, only sooner.                                             *)
(***************************************************************************)
EXTENDS RequestQueueRefinement

CONSTANTS app, net

OneThread == {app}
TwoThreads == {app, net}
UnnumberedIds == {0, ANY_REQUEST_ID}
=============================================================================
