--------------------------- MODULE MCBattlefield ---------------------------
(* Small armies for the runs of Battlefield.                                *)
EXTENDS Battlefield, TLC

Narrow(hex) == [kind |-> "living", wide |-> FALSE, hex |-> hex]
Wide(hex) == [kind |-> "living", wide |-> TRUE, hex |-> hex]
Phoenix(hex) == [kind |-> "phoenix", wide |-> TRUE, hex |-> hex]

(* A wide stack and a narrow one against a phoenix.                         *)
WideAndNarrow ==
  (<<0, 1>> :> Wide(1)) @@ (<<0, 2>> :> Narrow(3)) @@ (<<1, 1>> :> Phoenix(5))

(* One narrow stack on each side, and two on the attacker's.                *)
Duel == (<<0, 1>> :> Narrow(1)) @@ (<<1, 1>> :> Narrow(3))
TwoAgainstOne == Duel @@ (<<0, 2>> :> Narrow(2))

(* A wide stack and a narrow one of the same side.                          *)
Friends == (<<0, 1>> :> Wide(1)) @@ (<<0, 2>> :> Narrow(4))

FirstShoots == {<<0, 1>>}
=============================================================================
