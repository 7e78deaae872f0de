---------------------------- MODULE MCTurnOrder ----------------------------
(* Two stacks a side, the fastest of each side of the same speed.           *)
EXTENDS TurnOrder, TLC

TwoEach == {<<0, 1>>, <<0, 2>>, <<1, 1>>, <<1, 2>>}
TwoAgainstOne == TwoEach \ {<<1, 2>>}
OneAgainstTwo == TwoEach \ {<<0, 2>>}

Speeds == (<<0, 1>> :> 3) @@ (<<0, 2>> :> 1) @@ (<<1, 1>> :> 3) @@ (<<1, 2>> :> 2)
SpeedOf == [t \in Slots |-> Speeds[t]]

Left1 == {<<0, 1>>}
Left2 == {<<0, 2>>}
Right1 == {<<1, 1>>}
=============================================================================
