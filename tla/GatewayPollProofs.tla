-------------------------- MODULE GatewayPollProofs --------------------------
(***************************************************************************)
(* Proof about GatewayPoll, for any number of options and of votes.        *)
(***************************************************************************)
EXTENDS GatewayPoll, TLAPS

\* Of the options counted so far, index is the first with the most votes.
LoopInv ==
  pc = "loop" =>
    /\ results \in Seq(Nat) /\ results # <<>>
    /\ i \in 0..Len(results) /\ winner \in Nat
    /\ index \in Nat /\ index < Len(results) /\ index <= i
    /\ \A j \in 1..i : results[j] <= winner /\ (j <= index => results[j] < winner)
    /\ i = 0 => winner = 0 /\ index = 0
    /\ i > 0 => results[index + 1] = winner

Inv == LoopInv /\ WinnerNamed

LEMMA ReceiveUpdateStep ==
  ASSUME Inv, ReceiveUpdate
  PROVE  Inv'
  <1>1. results' \in Seq(Nat) /\ results' # <<>>
    BY ResponsesAssumption DEF ReceiveUpdate, ResponsesAssumption
  <1>2. Len(results') \in Nat \ {0}
    BY <1>1
  <1>3. LoopInv'
    BY <1>1, <1>2 DEF ReceiveUpdate, LoopInv
  <1>4. QED
    BY <1>3 DEF Inv, WinnerNamed, ReceiveUpdate

LEMMA CountStep ==
  ASSUME Inv, Count
  PROVE  Inv'
  <1>1. /\ results \in Seq(Nat) /\ Len(results) \in Nat
        /\ i \in Nat /\ i < Len(results) /\ i' = i + 1
        /\ winner \in Nat /\ index \in Nat /\ index < Len(results) /\ index <= i
        /\ UNCHANGED <<pc, results>>
    BY DEF Inv, LoopInv, Count
  <1>2. results[i + 1] \in Nat
    BY <1>1
  <1>3. \A j \in 1..i : results[j] \in Nat
    BY <1>1
  <1>4. \A j \in 1..i' : j \in 1..i \/ j = i + 1
    BY <1>1
  <1>5. CASE results[i + 1] > winner
    <2>1. winner' = results[i + 1] /\ index' = i
      BY <1>5 DEF Count
    <2>2. \A j \in 1..i : results[j] < winner'
      BY <1>1, <1>2, <1>3, <1>5, <2>1, SMTT(30) DEF Inv, LoopInv, Count
    <2>3. \A j \in 1..i' : results[j] <= winner' /\ (j <= index' => results[j] < winner')
      BY <1>1, <1>2, <1>3, <1>4, <2>1, <2>2
    <2>4. LoopInv'
      BY <1>1, <1>2, <1>5, <2>1, <2>3 DEF Inv, LoopInv
    <2>5. QED
      BY <2>4 DEF Inv, WinnerNamed, Count
  <1>6. CASE ~(results[i + 1] > winner)
    <2>1. winner' = winner /\ index' = index
      BY <1>6 DEF Count
    <2>2. \A j \in 1..i' : results[j] <= winner' /\ (j <= index' => results[j] < winner')
      BY <1>1, <1>2, <1>4, <1>6, <2>1, SMTT(30) DEF Inv, LoopInv, Count
    <2>3. i = 0 => index = 0 /\ results[1] = winner
      <3>1. ASSUME i = 0 PROVE winner = 0
        BY <3>1, <1>1 DEF Inv, LoopInv, Count
      <3>2. QED
        BY <1>1, <1>2, <1>6, <3>1
    <2>4. results[index' + 1] = winner'
      BY <1>1, <2>1, <2>3 DEF Inv, LoopInv, Count
    <2>5. LoopInv'
      BY <1>1, <2>1, <2>2, <2>4 DEF Inv, LoopInv, Count
    <2>6. QED
      BY <2>5 DEF Inv, WinnerNamed, Count
  <1>7. QED
    BY <1>5, <1>6

LEMMA ReportStep ==
  ASSUME Inv, Report
  PROVE  Inv'
  <1>1. /\ results \in Seq(Nat) /\ results # <<>> /\ i = Len(results)
        /\ index \in Nat /\ index < Len(results)
        /\ i > 0 /\ results[index + 1] = winner
        /\ \A j \in 1..i : results[j] <= winner /\ (j <= index => results[j] < winner)
    BY DEF Inv, LoopInv, Report
  <1>2. /\ Update.Winner = index /\ Update.WinningVoteCount = results[index + 1]
        /\ Update.Results = results
    BY DEF Update
  <1>3. DOMAIN results = 1..i /\ index + 1 \in 1..i
        /\ \A j \in 1..i : j < index + 1 => j <= index
    BY <1>1
  <1>4. NamesWinner(Update)
    BY <1>1, <1>2, <1>3 DEF NamesWinner
  <1>5. WinnerNamed'
    BY <1>4 DEF Inv, WinnerNamed, Report
  <1>6. QED
    BY <1>5 DEF Inv, LoopInv, Report

\* For every number of options and every count of votes, the option reported is
\* the first with the most votes (src/gamelink.cpp:127-142, src/gateway.cpp:165).
THEOREM WinnerIsNamed == Spec => []WinnerNamed
  <1>1. Init => Inv
    BY DEF Init, Inv, LoopInv, WinnerNamed
  <1>2. Inv /\ [Next]_vars => Inv'
    <2> SUFFICES ASSUME Inv, [Next]_vars PROVE Inv'
      OBVIOUS
    <2>1. CASE UNCHANGED vars
      BY <2>1 DEF vars, loopVars, Inv, LoopInv, WinnerNamed
    <2>2. QED
      BY <2>1, ReceiveUpdateStep, CountStep, ReportStep DEF Next
  <1>3. Inv => WinnerNamed
    BY DEF Inv
  <1>4. QED
    BY <1>1, <1>2, <1>3, PTL DEF Spec
=============================================================================
