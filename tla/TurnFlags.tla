----------------------------- MODULE TurnFlags -----------------------------
(***************************************************************************)
(* All that the order of turns knows of one stack, as a set of marks, and  *)
(* all that a battle may do to them: "dead"; "held" by Blind, Paralyze or  *)
(* Petrify; "hypno", under Hypnotize; "took", when its turn of this round  *)
(* is taken or lost.  BattleStack, with its strengths, hit points and      *)
(* shields, implements this; and what TurnOrder does to a slot of the      *)
(* battle is one of these changes.                                         *)
(***************************************************************************)
EXTENDS Integers

VARIABLES
  marks,     \* of the stack
  round      \* parity of the round

vars == <<marks, round>>

(* A hit frees a held stack and costs it its turn.  A hypnotized stack also *)
(* loses its turn, but stays hypnotized.                                    *)
Hit(m) ==
  (m \ {"held"}) \cup IF "held" \in m \/ "hypno" \in m THEN {"took"} ELSE {}

Hurt(m) == {Hit(m), Hit(m) \cup {"dead"}}

(* The ability of the creature that strikes may hold the survivors.         *)
Struck(m) == Hurt(m) \cup {Hit(m) \cup {"held"}}

(* The spells that hold, that hypnotize, that drive mad in place of         *)
(* hypnosis, and that take both off.                                        *)
Enchanted(m) ==
  {m \cup {"held"}, m \cup {"hypno"}, m \ {"hypno"}, m \ {"held", "hypno"}}

(* The dead keep the marks they died with, also when they are raised.       *)
Spelled(m) ==
  IF "dead" \in m THEN {m \ {"dead"}} ELSE Enchanted(m) \cup Hurt(m)

(* The next round gives the turn back, wears the effects off, and burns.    *)
Refreshed(m) == SUBSET (m \ {"took"})
Rounded(m) ==
  IF "dead" \in m THEN {m} ELSE Refreshed(m) \cup UNION {Hurt(x) : x \in Refreshed(m)}

-----------------------------------------------------------------------------
Init == marks = {} /\ round = 0

Spell == marks' \in Spelled(marks) /\ UNCHANGED round
Blow == "dead" \notin marks /\ marks' \in Struck(marks) /\ UNCHANGED round
OwnBlow ==
  "dead" \notin marks /\ marks' = marks \ {"hypno"} /\ UNCHANGED round
Round == marks' \in Rounded(marks) /\ round' = 1 - round
Reuse ==                             \* a summoned stack takes the slot
  "dead" \in marks /\ marks' = {} /\ UNCHANGED round

Next == Spell \/ Blow \/ OwnBlow \/ Round \/ Reuse

Spec == Init /\ [][Next]_vars
=============================================================================
