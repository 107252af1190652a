-------------------------- MODULE MCReconciliation --------------------------
(***************************************************************************)
(* EngineRuns on a small box of inputs: three charges that separate the    *)
(* two rules and tie on the due date, with their ids in the order of each  *)
(* rule.                                                                   *)
(***************************************************************************)
EXTENDS EngineRuns

MCMoney == 0..4
MCName  == {"resident"}
MCWords == [n \in MCName |-> {n}]

Kind == <<"LEVY", "SERVICE_CHARGE", "LEVY">>
Due  == <<5, 5, 1>>
Ids(rule) == IF rule = "OLDEST_FIRST" THEN <<3, 1, 2>> ELSE <<2, 3, 1>>

MCListed ==
  [rule \in Rules |->
     [k \in 1..3 |-> LET id == Ids(rule)[k]
                     IN  [id |-> id, kind |-> Kind[id], due |-> Due[id]]]]
=============================================================================
