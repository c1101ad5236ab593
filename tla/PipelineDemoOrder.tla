-------------------------- MODULE PipelineDemoOrder --------------------------
(***************************************************************************)
(* The pipeline demo with a history: everything that pop() has returned to *)
(* each stage, from the first item on.  The history changes no step of the *)
(* demo.                                                                   *)
(***************************************************************************)
EXTENDS PipelineDemo

VARIABLE taken      \* by stage: the items that it has popped, the oldest first

historyVars == <<vars, taken>>

HistoryInit == Init /\ taken = [s \in Stages |-> <<>>]

\* A stage that goes from pop() to its staleness test has just been given an item.
Record ==
    taken' = [s \in Stages |-> IF stage[s] = "pop" /\ stage'[s] = "judge"
                               THEN Append(taken[s], item'[s]) ELSE taken[s]]

HistoryNext == Next /\ Record

HistorySpec == HistoryInit /\ [][HistoryNext]_historyVars

(* Of any two items of one source that a stage pops in the course of a run,  *)
(* the first is the one that was generated first, whatever bursts, evictions *)
(* and items of other sources come between them.                             *)
StreamOrder ==
    \A s \in Stages : \A i, k \in 1 .. Len(taken[s]) :
        i < k /\ taken[s][i][1] = taken[s][k][1] => taken[s][i][2] < taken[s][k][2]

-----------------------------------------------------------------------------
(* The inductive invariant behind it.                                      *)

TakenBy(s) == {taken[s][i] : i \in 1 .. Len(taken[s])}

\* The item v is on the route of its source, behind the generator, and ahead of what
\* is queued for s and of all that is still upstream of s.
Ahead(s, v) ==
    /\ v \in Item /\ v[1] \in Sources /\ s \in Route(v[1])
    /\ v[2] <= generated[v[1]]
    /\ \A u \in Queued(s) : v[1] = u[1] => v[2] < u[2]
    /\ \A t \in Stages : Rank[s] < Rank[t] =>
           \A u \in Live(t) : v[1] = u[1] => v[2] < u[2]

TakenAhead == \A s \in Stages : \A v \in TakenBy(s) : Ahead(s, v)

(* A stage gets the items of a source in order because all it has got is     *)
(* ahead of all that can still reach it.                                     *)
OrderInv == taken \in [Stages -> Seq(Item)] /\ TakenAhead /\ StreamOrder
=============================================================================
