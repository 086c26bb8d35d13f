----------------------------- MODULE MCPollRuns -----------------------------
(***************************************************************************)
(* Small instances of PollRuns for TLC, with a poll and a match poll that  *)
(* have their own names and topics.                                        *)
(***************************************************************************)
EXTENDS PollRuns

OwnNames == [p \in Polls |-> p]
OwnTopics == [p \in Polls |-> p]
=============================================================================
