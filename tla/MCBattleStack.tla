--------------------------- MODULE MCBattleStack ---------------------------
(* Which effects meet which creatures in the run of BattleStack.            *)
EXTENDS BattleStack

CastableOn == [k \in Kinds |->
  CASE k = "elemental" -> {"Haste", "Slow", "BloodLust", "AntiMagic",
                           "Stoneskin", "Steelskin", "ForceShield"}
    [] k = "rebirth" -> {"Blind", "Paralyze", "Petrify", "Hypnotize", "Berserker",
                         "Burn"}
    [] k = "vampire" -> {"ForceShield", "Burn", "Daze", "Shield"}
    [] k = "ghost" -> {"Haste", "Petrify", "Burn", "ForceShield"}
    [] k = "troll" -> {"Bless", "Curse", "Burn"}
    [] OTHER -> {}]
=============================================================================
