---------------------------- MODULE MCGatewayPoll ----------------------------
\* A small instance of GatewayPoll for TLC.
EXTENDS GatewayPoll

\* Up to three options with up to two votes each: no vote, ties of two and of
\* three options, and the winner in each place.
SmallPolls == UNION {[1..n -> 0..2] : n \in 1..3}
=============================================================================
