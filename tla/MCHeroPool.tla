----------------------------- MODULE MCHeroPool -----------------------------
(***************************************************************************)
(* A few heroes for two players, on three places: the third is unused.     *)
(* The heroes that are not in jail are interchangeable.                    *)
(***************************************************************************)
EXTENDS HeroPool, TLC

CONSTANTS h1, h2, h3, h4, h5, prisoner

SomeHeroes  == {h1, h2, h3, h4, h5, prisoner}
SomeJailed  == {prisoner}
Alike       == Permutations(SomeHeroes \ SomeJailed)
=============================================================================
