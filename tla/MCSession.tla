------------------------------ MODULE MCSession ------------------------------
(***************************************************************************)
(* A small instance of Session for TLC.                                    *)
(***************************************************************************)
EXTENDS Session

OneFlag == <<"state">>
TwoGames == {[client |-> "c", game |-> "g1"], [client |-> "c", game |-> "g2"]}
=============================================================================
