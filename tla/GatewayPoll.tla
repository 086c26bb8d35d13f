----------------------------- MODULE GatewayPoll -----------------------------
(***************************************************************************)
(* What gateway::SDK::StartPollWithID makes of the updates of a poll       *)
(* (src/gateway.cpp:165-203): the winner of each, found by                 *)
(* GetPollWinnerIndex (src/gamelink.cpp:127-142), is given to OnUpdate,    *)
(* and that of the last one to OnComplete too.  RunMatchPollWithID does    *)
(* the same for each channel of a match and for all of them together.      *)
(*                                                                         *)
(* Abstracted: mean, count and the other fields that are copied.           *)
(***************************************************************************)
EXTENDS Integers, Sequences

CONSTANT Responses   \* the results an update may have: votes for each option

\* Votes are counted, and a poll has options: for a poll without, the code
\* reads the first element of an empty vector.
ASSUME ResponsesAssumption == Responses \subseteq Seq(Nat) \ {<<>>}

VARIABLES
  pc,         \* "idle", or "loop" in GetPollWinnerIndex
  results,    \* its argument
  final,      \* whether the poll is over
  i, winner, index,  \* its local variables; i and index count from 0
  updated,    \* history: what OnUpdate was called with last, none at first
  completed   \* history: what OnComplete was called with last

loopVars == <<i, winner, index>>
vars == <<pc, results, final, loopVars, updated, completed>>

Nothing == [Winner |-> 0, WinningVoteCount |-> 0, Results |-> <<>>]

Init ==
  /\ pc = "idle" /\ results = <<>> /\ final = FALSE
  /\ i = 0 /\ winner = 0 /\ index = 0
  /\ updated = Nothing /\ completed = Nothing

ReceiveUpdate ==
  /\ pc = "idle" /\ ~final
  /\ results' \in Responses /\ final' \in BOOLEAN
  /\ i' = 0 /\ winner' = 0 /\ index' = 0
  /\ pc' = "loop"
  /\ UNCHANGED <<updated, completed>>

\* Mutant: of two options with as many votes the later one wins.
CountLastWins ==
  /\ pc = "loop" /\ i < Len(results)
  /\ IF results[i + 1] >= winner
     THEN winner' = results[i + 1] /\ index' = i
     ELSE UNCHANGED <<winner, index>>
  /\ i' = i + 1
  /\ UNCHANGED <<pc, results, final, updated, completed>>

\* One round of the loop of GetPollWinnerIndex.
Count ==
  /\ pc = "loop" /\ i < Len(results)
  /\ IF results[i + 1] > winner
     THEN winner' = results[i + 1] /\ index' = i
     ELSE UNCHANGED <<winner, index>>
  /\ i' = i + 1
  /\ UNCHANGED <<pc, results, final, updated, completed>>

Update ==
  [Winner |-> index, WinningVoteCount |-> results[index + 1], Results |-> results]

\* It returns, and the callback calls those of the application.
Report ==
  /\ pc = "loop" /\ i >= Len(results)
  /\ updated' = Update
  /\ completed' = IF final THEN Update ELSE completed
  /\ pc' = "idle"
  /\ UNCHANGED <<results, final, loopVars>>

Next == ReceiveUpdate \/ Count \/ Report

Spec == Init /\ [][Next]_vars
-----------------------------------------------------------------------------
\* u names the first of the options with the most votes.
NamesWinner(u) ==
  LET w == u.Winner + 1
  IN  /\ w \in DOMAIN u.Results
      /\ u.WinningVoteCount = u.Results[w]
      /\ \A j \in DOMAIN u.Results : /\ u.Results[j] <= u.Results[w]
                                     /\ j < w => u.Results[j] < u.Results[w]

\* Whatever the votes, ties and options without any included, the application
\* is told the first of the options with the most votes, with their number
\* ("Index of winning result", include/gamelink.h:33; the test that four times
\* no vote gives the index 0, test/gamelink.cpp:135).
WinnerNamed ==
  /\ updated # Nothing => NamesWinner(updated)
  /\ completed # Nothing => NamesWinner(completed)
=============================================================================
