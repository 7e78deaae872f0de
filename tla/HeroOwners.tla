---------------------------- MODULE HeroOwners ----------------------------
(***************************************************************************)
(* What the bookkeeping of HeroPool is for, without lists, offers, marks   *)
(* and places: every hero serves one player, is free or in jail; only who  *)
(* has the move takes a hero, and only one who serves nobody; a hero is    *)
(* lost one at a time, or with the player he serves; and players go out    *)
(* for good, in any number but never all.                                  *)
(***************************************************************************)
EXTENDS Integers, FiniteSets

CONSTANTS
  Hero,        \* the heroes of the game
  Jailed,      \* those whom the map puts in jails
  NumPlayers,  \* who plays
  MaxOwned     \* heroes a player may own

Seat   == 0 .. NumPlayers - 1
Idle   == -1                         \* serves nobody
Prison == 65

VARIABLES
  post,    \* whom each hero serves, Idle or Prison
  fallen,  \* the players who are out
  turn     \* who has the move

vars == <<post, fallen, turn>>

Standing   == Seat \ fallen
Serving(p) == {h \in Hero : post[h] = p}

\* The heroes of those in dying serve nobody any more.
Deposed(m, dying) == [h \in Hero |-> IF m[h] \in dying THEN Idle ELSE m[h]]
Dying             == {dying \in SUBSET Standing : dying # Standing}

Least(S) == CHOOSE p \in S : \A q \in S : p <= q

\* The next one of S in the order of play.
After(S) ==
  LET later == {p \in S : p > turn} IN Least(IF later # {} THEN later ELSE S)

-----------------------------------------------------------------------------
Init ==
  /\ \E first \in [Seat -> Hero \ Jailed] :
       /\ \A p, q \in Seat : p # q => first[p] # first[q]
       /\ post \in [Hero -> Seat \cup {Idle, Prison}]
       /\ \A h \in Hero :
            /\ post[h] = Prison <=> h \in Jailed
            /\ \A p \in Seat : post[h] = p <=> h = first[p]
  /\ fallen = {} /\ turn = 0

Join(h) ==                           \* hired, or freed from a jail
  /\ turn \in Standing /\ post[h] \in {Idle, Prison}
  /\ Cardinality(Serving(turn)) < MaxOwned
  /\ post' = [post EXCEPT ![h] = turn]
  /\ UNCHANGED <<fallen, turn>>

Lose(h, dying) ==                    \* in a battle, or dismissed
  /\ turn \in Standing /\ post[h] \in Standing
  /\ post' = Deposed([post EXCEPT ![h] = Idle], dying)
  /\ fallen' = fallen \cup dying
  /\ UNCHANGED turn

Fall(dying) ==
  /\ turn \in Standing /\ dying # {}
  /\ post' = Deposed(post, dying) /\ fallen' = fallen \cup dying
  /\ UNCHANGED turn

Pass(dying) ==                       \* the end of a turn
  /\ post' = Deposed(post, dying) /\ fallen' = fallen \cup dying
  /\ turn' = After(Standing \ dying)

Next == \/ \E h \in Hero : Join(h)
        \/ \E dying \in Dying : Fall(dying) \/ Pass(dying)
                                \/ \E h \in Hero : Lose(h, dying)

Spec == Init /\ [][Next]_vars
=============================================================================
