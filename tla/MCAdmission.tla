---------------------------- MODULE MCAdmission ----------------------------
(***************************************************************************)
(* Two small native tasks and one large trial on one table.                *)
(***************************************************************************)
EXTENDS QueueAdmission, TLC

CONSTANTS n1, n2, s1

ThreeKeys == {n1, n2, s1}

\* The large request needs all that the small ones share.
Sizes == (n1 :> 1 @@ n2 :> 1 @@ s1 :> 2)

Equal == [k \in Keys |-> 0]
Says(limit, budget, held, rank) == [limit |-> limit, budget |-> budget, held |-> held, rank |-> rank]

Plenty == Says(2, 3, {}, Equal)

\* Plenty, one worker at a time, a small budget, a pause and a priority.
SmallJournals ==
    {Plenty, Says(1, 3, {}, Equal), Says(2, 1, {}, Equal),
     Says(2, 2, {s1}, Equal), Says(2, 2, {}, [Equal EXCEPT ![n2] = 1, ![s1] = 1])}
=============================================================================
