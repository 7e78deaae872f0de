--------------------------- MODULE Session_proofs ---------------------------
(***************************************************************************)
(* Theorems about Session, for every campaign that satisfies               *)
(* CampaignsAssumption, all scripts and values, and any number of saves,   *)
(* loads, crashes and days.  The invariant says the same of the game that  *)
(* is being played and of every game in a file: its campaign is OnWay, its *)
(* heroes Started as the history says, and its script and variable are     *)
(* those of its history unless scripts of two maps got mixed.              *)
(***************************************************************************)
EXTENDS Session, NatLemmas, FiniteSetTheorems, TLAPS

CampType(D, c) ==
  /\ DOMAIN c = {"currentMapID", "mapChoice", "mapsPlayed", "daysPlayed", "savedHeroData"}
  /\ c.currentMapID \in Scenarios(D) \cup {-1}
  /\ c.mapChoice \subseteq Scenarios(D) /\ c.mapsPlayed \subseteq Scenarios(D)
  /\ c.daysPlayed \in [Scenarios(D) -> Nat]
  /\ \A k \in DOMAIN c.savedHeroData : c.savedHeroData[k] \in Nat

HistType(D, h) ==
  /\ DOMAIN h = {"won", "days", "carried", "start", "script", "val", "chase", "mixed"}
  /\ h.won \in Scenarios(D) \cup {-1} /\ h.days \in Nat
  /\ h.won = -1 => h.days = 0
  /\ h.val \in Values \cup {Initial}
  /\ h.chase \in BOOLEAN /\ h.mixed \in BOOLEAN

(* The scenario whose heroes are in savedHeroData: the current one once it  *)
(* is won, and the one won before until then.                               *)
Source(c, h) == IF c.currentMapID \in c.mapsPlayed THEN c.currentMapID ELSE h.won

Kept(D, c, h) ==
  Source(c, h) # -1 =>
    \A k \in 1 .. Cardinality(D.toSave[Source(c, h)]) :
      k \in DOMAIN c.savedHeroData /\ c.savedHeroData[k] = h.carried[k]

OnWay(D, c, h) ==
  /\ c.mapChoice = D.mapsToComplete[h.won] /\ c.currentMapID \in c.mapChoice
  /\ \A k \in c.mapsPlayed : k <= h.won \/ k = c.currentMapID
  /\ c.daysPlayed[c.currentMapID] = h.days
  /\ Kept(D, c, h)

Started(D, c, h) ==
  c.currentMapID \notin c.mapsPlayed =>
    \A p \in D.toLoad[c.currentMapID] :
      h.start[p] = h.carried[RankIn(D.toLoad[c.currentMapID], p)]

Game(D, c, t, n, h) ==
  /\ CampType(D, c) /\ HistType(D, h) /\ t \in Seq(Nat) /\ n \in 1 .. MaxDay[D]
  /\ OnWay(D, c, h) /\ Started(D, c, h)

(* Scripts, in memory and in a file.                                        *)
ScriptOK(x, ch, c, h) ==
  ~h.mixed =>
    /\ x.of = ScriptOf(c.currentMapID)
    /\ x.of \in Declares =>
         /\ x.val = h.val \/ (Savable(h.val) /\ x.val = RoundTrip(h.val))
         /\ ch = h.chase

TextOK(f) ==
  ~f.hist.mixed =>
    /\ f.script = ScriptOf(f.camp.currentMapID)
    /\ IF f.script \in Declares
         THEN /\ Savable(f.hist.val)
              /\ f.text \in {ToText(f.hist.val), ToText(RoundTrip(f.hist.val))}
              /\ f.chase = f.hist.chase
         ELSE f.text = NoText

FileOK(D, s, f) ==
  Intact(f) =>
    /\ Game(D, f.camp, f.team, f.day, f.hist) /\ TextOK(f)
    /\ f.chase \in BOOLEAN /\ f.script \in Scripted \cup {NoScript}
    /\ IF s = UserFile THEN f.camp.currentMapID \notin f.camp.mapsPlayed
                       ELSE f.camp.currentMapID = s

Types ==
  /\ d \in Campaigns /\ mode \in {"off", "menu", "choosing", "map", "won"}
  /\ CampType(d, camp) /\ HistType(d, hist)
  /\ team \in Seq(Nat) /\ day \in 1 .. MaxDay[d]
  /\ chase \in BOOLEAN /\ reported \in BOOLEAN
  /\ DOMAIN lua = {"of", "val"} /\ lua.of \in Scripted \cup {NoScript}
  /\ gMapName \in Scenarios(d) \cup {NoMap}
  /\ DOMAIN disk = Slots

Playing ==
  /\ OnWay(d, camp, hist) /\ Started(d, camp, hist)
  /\ camp.currentMapID \notin camp.mapsPlayed
  /\ ScriptOK(lua, chase, camp, hist)

Won ==
  /\ OnWay(d, camp, hist) /\ camp.currentMapID \in camp.mapsPlayed
  /\ Intact(disk[camp.currentMapID])
  /\ disk[camp.currentMapID].camp = camp /\ disk[camp.currentMapID].day = day

Choosing ==
  /\ OnWay(d, camp, hist) /\ \A k \in camp.mapsPlayed : k <= hist.won
  /\ \A m \in camp.mapChoice : camp.daysPlayed[m] = hist.days
  /\ VictoryKept

Files == \A s \in Slots : FileOK(d, s, disk[s])

IInv ==
  /\ Types /\ Files
  /\ mode = "map" => Playing
  /\ mode = "won" => Won
  /\ mode = "choosing" => Choosing
-----------------------------------------------------------------------------
(***************************************************************************)
(* Values in texts.                                                        *)
(***************************************************************************)

(* What a text can hold comes back as it was, and what came back once comes *)
(* back the same ever after (PushStringNumBoolToLUA of GetMVValueFromLua).  *)
LEMMA SingleSettles ==
  ASSUME NEW v, WellFormedSingle(v)
  PROVE  LET w == Pushed(Printed(v))
         IN  /\ w.type = v.type /\ WellFormedSingle(w)
             /\ Pushed(Printed(w)) = w
             /\ ExactSingle(v) => w = v
<1> DEFINE w == Pushed(Printed(v))
<1>1. w = [type |-> v.type,
           val |-> IF v.type = "int" THEN AtoI(v.val)
                   ELSE IF v.type = "number" THEN 2 * ((v.val + 1) \div 2) ELSE v.val]
  BY DEF Pushed, Printed
<1>2. w.type = v.type  BY <1>1
<1>3. Pushed(Printed(w)) =
        [type |-> v.type,
         val |-> IF v.type = "int" THEN AtoI(w.val)
                 ELSE IF v.type = "number" THEN 2 * ((w.val + 1) \div 2) ELSE w.val]
  BY <1>2 DEF Pushed, Printed
<1>4. CASE v.type = "int"
  <2>1. v.val \in Int /\ w.val = AtoI(v.val)  BY <1>1, <1>4 DEF WellFormedSingle
  <2>2. AtoI(v.val) \in Int /\ AtoI(AtoI(v.val)) = AtoI(v.val)
    BY <2>1, IntMaxAssumption DEF AtoI, IntMin
  <2>3. ExactSingle(v) => AtoI(v.val) = v.val
    BY <2>1, <1>4, IntMaxAssumption DEF ExactSingle, AtoI, IntMin
  <2> QED  BY <1>1, <1>2, <1>3, <1>4, <2>1, <2>2, <2>3 DEF WellFormedSingle
<1>5. CASE v.type = "number"
  <2>1. v.val \in Int /\ w.val = 2 * ((v.val + 1) \div 2)
    BY <1>1, <1>5 DEF WellFormedSingle
  <2>2. \A n \in Int : LET r == 2 * ((n + 1) \div 2)
                       IN  r \in Int /\ 2 * ((r + 1) \div 2) = r /\ (n % 2 = 0 => r = n)
    OBVIOUS
  <2>3. ExactSingle(v) => w.val = v.val
    BY <2>1, <2>2, <1>5 DEF ExactSingle
  <2>4. w.val \in Int /\ 2 * ((w.val + 1) \div 2) = w.val  BY <2>1, <2>2
  <2> QED  BY <1>1, <1>2, <1>3, <1>5, <2>3, <2>4 DEF WellFormedSingle
<1>6. CASE v.type \notin {"int", "number"}
  BY <1>1, <1>2, <1>3, <1>6 DEF WellFormedSingle
<1> QED  BY <1>4, <1>5, <1>6

LEMMA TableText ==
  ASSUME NEW v, v.type = "table"
  PROVE  /\ ToText(v).type = "table"
         /\ DOMAIN ToText(v).text = Names(v)
         /\ \A n \in Names(v) : ToText(v).text[n] = Printed(Under(v, n))
         /\ RoundTrip(v) = [type |-> "table",
              val |-> [k \in {"string"} \X Names(v) |-> Pushed(Printed(Under(v, k[2])))]]
<1>1. ToText(v) = [type |-> "table", text |-> [n \in Names(v) |-> Printed(Under(v, n))]]
  BY DEF ToText
<1>2. RoundTrip(v) = [type |-> "table",
        val |-> [k \in {"string"} \X Names(v) |-> Pushed(ToText(v).text[k[2]])]]
  BY <1>1 DEF RoundTrip, FromText
<1>3. \A k \in {"string"} \X Names(v) : ToText(v).text[k[2]] = Printed(Under(v, k[2]))
  BY <1>1
<1> QED  BY <1>1, <1>2, <1>3

LEMMA UnderIsValue ==
  ASSUME NEW v, NEW n \in Names(v)
  PROVE  \E k \in DOMAIN v.val : k[2] = n /\ Under(v, n) = v.val[k]
<1>1. \E k \in DOMAIN v.val : k[2] = n  BY DEF Names
<1> QED  BY <1>1 DEF Under

(* What a load makes of a variable is exactly what the next save and load   *)
(* make of it: however often a game is saved, a value changes once at most, *)
(* and not at all if a text can hold it.                                    *)
THEOREM RoundTripSettles ==
  ASSUME NEW v, WellFormed(v), Savable(v)
  PROVE  /\ RoundTrip(RoundTrip(v)) = RoundTrip(v) /\ Savable(RoundTrip(v))
         /\ Exact(v) => RoundTrip(v) = v
         /\ ToText(v).type # "none" /\ ToText(RoundTrip(v)).type # "none"
<1> DEFINE w == RoundTrip(v)
<1>1. CASE v.type = "table"
  <2>1. w = [type |-> "table",
             val |-> [k \in {"string"} \X Names(v) |-> Pushed(Printed(Under(v, k[2])))]]
    BY <1>1, TableText
  <2>2. w.type = "table" /\ DOMAIN w.val = {"string"} \X Names(v)  BY <2>1
  <2>3. Names(w) = Names(v)
    <3>1. \A n \in Names(v) : <<"string", n>> \in DOMAIN w.val  BY <2>2
    <3>2. \A k \in DOMAIN w.val : k[2] \in Names(v)  BY <2>2
    <3>3. Names(w) = {k[2] : k \in DOMAIN w.val}  BY DEF Names
    <3>4. \A n \in Names(v) : \E k \in DOMAIN w.val : n = k[2]
      BY <3>1
    <3> HIDE DEF w
    <3> QED  BY <3>2, <3>3, <3>4
  <2>4. \A n \in Names(v) : WellFormedSingle(Under(v, n)) /\ Under(v, n).type \in Single
    <3> TAKE n \in Names(v)
    <3>1. PICK k \in DOMAIN v.val : Under(v, n) = v.val[k]  BY UnderIsValue
    <3> QED  BY <3>1, <1>1 DEF WellFormed, Savable, Single
  <2>5. \A n \in Names(v) : Under(w, n) = Pushed(Printed(Under(v, n)))
    <3> TAKE n \in Names(v)
    <3>1. PICK k \in DOMAIN w.val : k[2] = n /\ Under(w, n) = w.val[k]
      BY <2>3, UnderIsValue
    <3>2. w.val[k] = Pushed(Printed(Under(v, k[2])))  BY <2>1, <2>2
    <3> QED  BY <3>1, <3>2
  <2>6. \A n \in Names(v) : Pushed(Printed(Under(w, n))) = Under(w, n)
    <3> TAKE n \in Names(v)
    <3>1. WellFormedSingle(Under(v, n))  BY <2>4
    <3> QED  BY <2>5, <3>1, SingleSettles
  <2>7. RoundTrip(w) = [type |-> "table",
             val |-> [k \in {"string"} \X Names(v) |-> Pushed(Printed(Under(w, k[2])))]]
    <3> HIDE DEF w
    <3> QED  BY <2>2, <2>3, TableText
  <2>8. \A k \in {"string"} \X Names(v) :
          Pushed(Printed(Under(w, k[2]))) = Pushed(Printed(Under(v, k[2])))
    BY <2>5, <2>6
  <2>9. RoundTrip(w) = w
    <3> HIDE DEF w
    <3> QED  BY <2>1, <2>7, <2>8
  <2>10. Savable(w)
    <3>1. \A k \in DOMAIN w.val : w.val[k].type \in Single
      <4> TAKE k \in DOMAIN w.val
      <4>1. k[2] \in Names(v) /\ w.val[k] = Pushed(Printed(Under(v, k[2])))
        BY <2>1, <2>2
      <4>2. WellFormedSingle(Under(v, k[2])) /\ Under(v, k[2]).type \in Single
        BY <4>1, <2>4
      <4> QED  BY <4>1, <4>2, SingleSettles
    <3> QED  BY <2>2, <3>1 DEF Savable
  <2>11. ASSUME Exact(v)  PROVE w = v
    <3>1. \A k \in DOMAIN v.val : k = <<"string", k[2]>> /\ ExactSingle(v.val[k])
      BY <2>11, <1>1 DEF Exact, WellFormed
    <3>2. DOMAIN v.val = {"string"} \X Names(v)
      <4>1. \A k \in DOMAIN v.val : k[2] \in Names(v)  BY DEF Names
      <4>2. \A n \in Names(v) : <<"string", n>> \in DOMAIN v.val
        <5> TAKE n \in Names(v)
        <5>1. PICK k \in DOMAIN v.val : k[2] = n  BY DEF Names
        <5> QED  BY <5>1, <3>1
      <4>3. \A k \in DOMAIN v.val : k \in {"string"} \X Names(v)  BY <4>1, <3>1
      <4>4. \A k \in {"string"} \X Names(v) : k \in DOMAIN v.val  BY <4>2
      <4> QED  BY <4>3, <4>4
    <3>3. \A k \in DOMAIN v.val : Pushed(Printed(Under(v, k[2]))) = v.val[k]
      <4> TAKE k \in DOMAIN v.val
      <4>1. k[2] \in Names(v)  BY DEF Names
      <4>2. PICK i \in DOMAIN v.val : i[2] = k[2] /\ Under(v, k[2]) = v.val[i]
        BY <4>1, UnderIsValue
      <4>3. i = <<"string", i[2]>> /\ k = <<"string", k[2]>>  BY <3>1
      <4>4. i = k  BY <4>2, <4>3
      <4>5. WellFormedSingle(v.val[k]) /\ ExactSingle(v.val[k])
        BY <3>1, <1>1 DEF WellFormed
      <4> QED  BY <4>2, <4>4, <4>5, SingleSettles
    <3>4. v = [type |-> "table", val |-> [k \in DOMAIN v.val |-> v.val[k]]]
      BY <1>1 DEF WellFormed
    <3>5. [k \in {"string"} \X Names(v) |-> Pushed(Printed(Under(v, k[2])))]
            = [k \in DOMAIN v.val |-> v.val[k]]
      BY <3>2, <3>3
    <3> QED  BY <2>1, <3>4, <3>5
  <2>12. ToText(v).type = "table" /\ ToText(w).type = "table"
    <3> HIDE DEF w
    <3> QED  BY <1>1, <2>2, TableText
  <2> QED  BY <2>9, <2>10, <2>11, <2>12
<1>2. CASE v.type # "table"
  <2>1. WellFormedSingle(v) /\ v.type \in Single
    BY <1>2 DEF WellFormed, Savable
  <2>2. Printed(v).type = v.type  BY DEF Printed
  <2>3. w = Pushed(Printed(v))
    BY <1>2, <2>2 DEF RoundTrip, ToText, FromText
  <2>4. w.type = v.type /\ Pushed(Printed(w)) = w /\ (ExactSingle(v) => w = v)
    BY <2>1, <2>3, SingleSettles
  <2>5. Printed(w).type = w.type  BY DEF Printed
  <2>6. RoundTrip(w) = w
    <3> HIDE DEF w
    <3> QED  BY <1>2, <2>4, <2>5 DEF RoundTrip, ToText, FromText
  <2>7. Savable(w)  BY <2>1, <2>4 DEF Savable
  <2>8. Exact(v) => w = v  BY <1>2, <2>4 DEF Exact
  <2>9. ToText(v).type = v.type /\ ToText(w).type = v.type
    <3> HIDE DEF w
    <3> QED  BY <1>2, <2>2, <2>4, <2>5 DEF ToText
  <2> QED  BY <2>1, <2>6, <2>7, <2>8, <2>9 DEF Single
<1> QED  BY <1>1, <1>2
-----------------------------------------------------------------------------
(***************************************************************************)
(* Campaigns.                                                              *)
(***************************************************************************)

(* The rank of a place in a set of places is one of the numbers under which *)
(* heroes are kept.                                                         *)
LEMMA RankBounded ==
  ASSUME NEW S \in SUBSET Nat, IsFiniteSet(S), NEW p \in S
  PROVE  RankIn(S, p) \in 1 .. Cardinality(S)
<1> DEFINE L == {q \in S : q < p}
<1>1. IsFiniteSet(S \ {p}) /\ Cardinality(S \ {p}) = Cardinality(S) - 1
  BY FS_RemoveElement
<1>2. L \in SUBSET (S \ {p})  OBVIOUS
<1>3. IsFiniteSet(L) /\ Cardinality(L) <= Cardinality(S \ {p})
  <2> HIDE DEF L
  <2> QED  BY <1>1, <1>2, FS_Subset
<1>4. Cardinality(L) \in Nat /\ Cardinality(S) \in Nat
  <2> HIDE DEF L
  <2> QED  BY <1>3, FS_CardinalityType
<1>5. RankIn(S, p) = Cardinality(L) + 1  BY DEF RankIn
<1> HIDE DEF L
<1> QED  BY <1>1, <1>3, <1>4, <1>5

LEMMA CampaignFacts ==
  ASSUME NEW D \in Campaigns
  PROVE  /\ D.numMaps \in Nat \ {0} /\ Scenarios(D) = 0 .. D.numMaps - 1
         /\ -1 \notin Scenarios(D)
         /\ \A k \in Scenarios(D) \cup {-1} :
              /\ D.mapsToComplete[k] \subseteq Scenarios(D)
              /\ \A m \in D.mapsToComplete[k] : k < m
              /\ k \notin {D.numMaps - 1, D.special} \/ k = -1 => D.mapsToComplete[k] # {}
         /\ MaxDay[D] \in Nat \ {0}
BY CampaignsAssumption, ScriptsAssumption DEF Scenarios

LEMMA NewCampaignType ==
  ASSUME NEW D \in Campaigns, NEW days \in [Scenarios(D) -> Nat]
  PROVE  CampType(D, InitNewCampaign(D, days))
<1>1. DOMAIN << >> = {}  OBVIOUS
<1> QED  BY <1>1 DEF CampType, InitNewCampaign

LEMMA BlankType ==
  ASSUME NEW D \in Campaigns
  PROVE  CampType(D, Blank(D))
BY NewCampaignType DEF Blank

(* Assignments to the fields of a campaign.                                 *)
LEMMA CampFields ==
  ASSUME NEW D, NEW c, CampType(D, c), NEW n, NEW q, NEW z, NEW y
  PROVE  /\ LET w == [c EXCEPT !.mapChoice = n, !.mapsPlayed = @ \cup q]
            IN  /\ DOMAIN w = DOMAIN c /\ w.currentMapID = c.currentMapID
                /\ w.mapChoice = n /\ w.mapsPlayed = c.mapsPlayed \cup q
                /\ w.daysPlayed = c.daysPlayed /\ w.savedHeroData = c.savedHeroData
         /\ LET w == [c EXCEPT !.currentMapID = n,
                        !.daysPlayed = [k \in DOMAIN @ |-> IF k \in z THEN y ELSE @[k]]]
            IN  /\ DOMAIN w = DOMAIN c /\ w.currentMapID = n
                /\ w.mapChoice = c.mapChoice /\ w.mapsPlayed = c.mapsPlayed
                /\ w.daysPlayed = [k \in DOMAIN c.daysPlayed |->
                                     IF k \in z THEN y ELSE c.daysPlayed[k]]
                /\ w.savedHeroData = c.savedHeroData
BY DEF CampType

(* What HandleVictory makes of a campaign.                                  *)
LEMMA VictoryFacts ==
  ASSUME NEW D \in Campaigns, NEW c, CampType(D, c), NEW today \in Nat
  PROVE  LET w == Victory(D, c, today)
             next == D.mapsToComplete[c.currentMapID]
         IN  /\ CampType(D, w)
             /\ w.mapsPlayed = c.mapsPlayed \cup ({c.currentMapID} \ {-1})
             /\ w.mapChoice = next
             /\ w.savedHeroData = c.savedHeroData
             /\ ~IsCompleted(D, w) /\ next # {} =>
                  /\ w.currentMapID \in next
                  /\ \A m \in next : w.daysPlayed[m] =
                       IF c.currentMapID = -1 THEN 0 ELSE today + c.daysPlayed[c.currentMapID]
<1> DEFINE next == D.mapsToComplete[c.currentMapID]
           days == IF c.currentMapID = -1 THEN 0 ELSE Days(c, today)
           won  == [c EXCEPT !.mapChoice = next,
                             !.mapsPlayed = @ \cup ({c.currentMapID} \ {-1})]
           first == IF next = {} THEN -1 ELSE CHOOSE m \in next : \A k \in next : m <= k
           far  == [won EXCEPT !.currentMapID = first,
                      !.daysPlayed = [k \in DOMAIN @ |-> IF k \in next THEN days ELSE @[k]]]
           w    == Victory(D, c, today)
<1>1. w = IF IsCompleted(D, won) THEN won ELSE far
  BY DEF Victory
<1>2. next \subseteq Scenarios(D) /\ -1 \notin Scenarios(D)
  BY CampaignFacts DEF CampType
<1>3. days \in Nat  BY DEF CampType, Days
<1>4. /\ DOMAIN won = DOMAIN c /\ won.currentMapID = c.currentMapID
      /\ won.mapChoice = next
      /\ won.mapsPlayed = c.mapsPlayed \cup ({c.currentMapID} \ {-1})
      /\ won.daysPlayed = c.daysPlayed /\ won.savedHeroData = c.savedHeroData
  <2> HIDE DEF next
  <2> QED  BY CampFields
<1>5. first \in Scenarios(D) \cup {-1} /\ (next # {} => first \in next)
  <2>1. CASE next = {}  BY <2>1
  <2>2. CASE next # {}
    <3>1. next \in SUBSET (0 .. D.numMaps - 1) /\ D.numMaps - 1 \in Nat
      BY <1>2, CampaignFacts
    <3>2. \E m \in next : \A k \in next : m <= k
      <4> HIDE DEF next
      <4> QED  BY <2>2, <3>1, Smallest
    <3> QED  BY <2>2, <3>2, <1>2
  <2> QED  BY <2>1, <2>2
<1>7. c.mapsPlayed \cup ({c.currentMapID} \ {-1}) \subseteq Scenarios(D)
  BY DEF CampType
<1>8. CampType(D, won)
  <2> HIDE DEF next, won
  <2> QED  BY <1>2, <1>4, <1>7 DEF CampType
<1>6. /\ DOMAIN far = DOMAIN won /\ far.currentMapID = first
      /\ far.mapChoice = next /\ far.mapsPlayed = won.mapsPlayed
      /\ far.daysPlayed = [k \in DOMAIN c.daysPlayed |->
                             IF k \in next THEN days ELSE c.daysPlayed[k]]
      /\ far.savedHeroData = c.savedHeroData
  <2> HIDE DEF next, days, first, won
  <2> QED  BY <1>4, <1>8, CampFields
<1>9. CampType(D, far)
  <2>1. [k \in DOMAIN c.daysPlayed |-> IF k \in next THEN days ELSE c.daysPlayed[k]]
          \in [Scenarios(D) -> Nat]
    BY <1>3 DEF CampType
  <2>2. won.mapsPlayed \subseteq Scenarios(D)  BY <1>8 DEF CampType
  <2> HIDE DEF next, days, first, won, far
  <2> QED  BY <1>2, <1>4, <1>5, <1>6, <2>1, <2>2 DEF CampType
<1>10. IsCompleted(D, w) = IsCompleted(D, won)
  <2>1. won.mapsPlayed = w.mapsPlayed
    <3> HIDE DEF won, far, w
    <3> QED  BY <1>1, <1>6
  <2> QED  BY <2>1 DEF IsCompleted
<1>11. ASSUME ~IsCompleted(D, w), next # {}
       PROVE  /\ w.currentMapID \in next
              /\ \A m \in next : w.daysPlayed[m] = days
  <2>1. w = far  BY <1>1, <1>10, <1>11
  <2>2. DOMAIN c.daysPlayed = Scenarios(D)  BY DEF CampType
  <2> HIDE DEF next, days, first, won, far, w
  <2> QED  BY <1>2, <1>5, <1>6, <1>11, <2>1, <2>2
<1>12. /\ w.mapsPlayed = c.mapsPlayed \cup ({c.currentMapID} \ {-1})
       /\ w.mapChoice = next /\ w.savedHeroData = c.savedHeroData
  <2> HIDE DEF next, days, first, won, far, w
  <2> QED  BY <1>1, <1>4, <1>6
<1>13. CampType(D, w)  BY <1>1, <1>8, <1>9
<1> QED  BY <1>11, <1>12, <1>13 DEF Days
-----------------------------------------------------------------------------
(***************************************************************************)
(* Heroes.                                                                 *)
(***************************************************************************)

(* LoadCampaignSavedHero finds the heroes whom SaveCampaignHero kept.       *)
LEMMA LoadedFacts ==
  ASSUME NEW D \in Campaigns, NEW m \in Scenarios(D), NEW c, CampType(D, c)
  PROVE  LET t == Loaded(D.heroes[m], c.savedHeroData, D.toLoad[m])
         IN  /\ t \in Seq(Nat)
             /\ \A p \in D.toLoad[m] :
                  RankIn(D.toLoad[m], p) \in DOMAIN c.savedHeroData =>
                    t[p] = c.savedHeroData[RankIn(D.toLoad[m], p)]
<1> DEFINE team0 == D.heroes[m]
           S == D.toLoad[m]
           saved == c.savedHeroData
           t == Loaded(team0, saved, S)
<1>1. team0 \in Seq(Nat) /\ S \subseteq DOMAIN team0  BY CampaignsAssumption
<1>2. t = [p \in 1 .. Len(team0) |->
             IF p \notin S THEN team0[p]
             ELSE IF RankIn(S, p) \in DOMAIN saved THEN saved[RankIn(S, p)] ELSE 0]
  BY <1>1 DEF Loaded
<1>3. \A k \in DOMAIN saved : saved[k] \in Nat  BY DEF CampType
<1>4. t \in [1 .. Len(team0) -> Nat]
  <2> HIDE DEF t, team0, S, saved
  <2> QED  BY <1>1, <1>2, <1>3
<1>5. t \in Seq(Nat) /\ S \subseteq 1 .. Len(team0)
  <2> HIDE DEF t, team0, S, saved
  <2> QED  BY <1>1, <1>4
<1>6. \A p \in S : RankIn(S, p) \in DOMAIN saved => t[p] = saved[RankIn(S, p)]
  <2> HIDE DEF t, team0, S, saved
  <2> QED  BY <1>2, <1>5
<1> QED  BY <1>5, <1>6

(* The heroes that go on are under the numbers from 1 on.                   *)
LEMMA AutosavedFacts ==
  ASSUME d \in Campaigns, CampType(d, camp), camp.currentMapID \in Scenarios(d),
         team \in Seq(Nat), NEW g \in Garbage
  PROVE  LET S == d.toSave[camp.currentMapID]
             w == Autosaved(g)
         IN  /\ CampType(d, w)
             /\ w.currentMapID = camp.currentMapID /\ w.mapChoice = camp.mapChoice
             /\ w.mapsPlayed = camp.mapsPlayed \cup {camp.currentMapID}
             /\ w.daysPlayed = camp.daysPlayed
             /\ \A k \in 1 .. Cardinality(S) :
                  /\ k \in DOMAIN w.savedHeroData
                  /\ w.savedHeroData[k] =
                       IF PlaceAt(S, k) \in DOMAIN team THEN team[PlaceAt(S, k)] ELSE g
<1> DEFINE S == d.toSave[camp.currentMapID]
           saved == Saved(camp.savedHeroData, team, S, g)
           w == [camp EXCEPT !.mapsPlayed = @ \cup {camp.currentMapID}, !.savedHeroData = saved]
<1>1. Cardinality(S) \in Nat  BY CampaignsAssumption, FS_CardinalityType
<1>2. g \in Nat  BY ScriptsAssumption
<1>3. /\ \A k \in 1 .. Cardinality(S) :
           /\ k \in DOMAIN saved
           /\ saved[k] = IF PlaceAt(S, k) \in DOMAIN team THEN team[PlaceAt(S, k)] ELSE g
      /\ \A k \in DOMAIN saved : saved[k] \in Nat
  <2>1. \A x \in DOMAIN team : team[x] \in Nat  OBVIOUS
  <2>2. saved = [k \in DOMAIN camp.savedHeroData \cup 1 .. Cardinality(S) |->
                   IF k > Cardinality(S) THEN camp.savedHeroData[k]
                   ELSE IF PlaceAt(S, k) \in DOMAIN team THEN team[PlaceAt(S, k)] ELSE g]
    BY DEF Saved
  <2>3. \A k \in DOMAIN camp.savedHeroData : camp.savedHeroData[k] \in Nat  BY DEF CampType
  <2>4. ASSUME NEW k \in DOMAIN saved  PROVE saved[k] \in Nat
    <3>1. CASE k > Cardinality(S) /\ k \in DOMAIN camp.savedHeroData
      <4> HIDE DEF S
      <4> QED  BY <2>2, <2>3, <3>1
    <3>2. CASE k > Cardinality(S) /\ k \in 1 .. Cardinality(S)
      <4> HIDE DEF S, saved
      <4> QED  BY <1>1, <3>2
    <3>3. CASE ~(k > Cardinality(S))
      <4>1. saved[k] = IF PlaceAt(S, k) \in DOMAIN team THEN team[PlaceAt(S, k)] ELSE g
        <5> HIDE DEF S
        <5> QED  BY <2>2, <3>3
      <4> HIDE DEF S, saved
      <4> QED  BY <1>2, <2>1, <4>1
    <3> QED  BY <2>2, <3>1, <3>2, <3>3
  <2>5. ASSUME NEW k \in 1 .. Cardinality(S)
        PROVE  /\ k \in DOMAIN saved
               /\ saved[k] = IF PlaceAt(S, k) \in DOMAIN team THEN team[PlaceAt(S, k)] ELSE g
    <3>1. ~(k > Cardinality(S))
      <4> HIDE DEF S
      <4> QED  BY <1>1
    <3> HIDE DEF S
    <3> QED  BY <2>2, <3>1
  <2> QED  BY <2>4, <2>5
<1>4. /\ DOMAIN w = DOMAIN camp /\ w.currentMapID = camp.currentMapID
      /\ w.mapChoice = camp.mapChoice /\ w.mapsPlayed = camp.mapsPlayed \cup {camp.currentMapID}
      /\ w.daysPlayed = camp.daysPlayed /\ w.savedHeroData = saved
  <2> HIDE DEF saved
  <2> QED  BY DEF CampType
<1>5. CampType(d, w)
  <2> HIDE DEF saved, w
  <2> QED  BY <1>3, <1>4 DEF CampType
<1>6. Autosaved(g) = w  BY DEF Autosaved
<1> HIDE DEF w
<1> QED  BY <1>3, <1>4, <1>5, <1>6
-----------------------------------------------------------------------------
(***************************************************************************)
(* Games and files.                                                        *)
(***************************************************************************)

(* Whether scripts got mixed changes nothing else about a history.          *)
LEMMA MixedOnly ==
  ASSUME NEW D, NEW c, NEW t, NEW n, NEW h, NEW b \in BOOLEAN, Game(D, c, t, n, h)
  PROVE  LET x == [h EXCEPT !.mixed = b]
         IN  /\ Game(D, c, t, n, x) /\ x.mixed = b
             /\ x.won = h.won /\ x.val = h.val /\ x.chase = h.chase
<1> DEFINE x == [h EXCEPT !.mixed = b]
<1>1. /\ DOMAIN x = DOMAIN h /\ x.won = h.won /\ x.days = h.days /\ x.carried = h.carried
      /\ x.start = h.start /\ x.val = h.val /\ x.chase = h.chase /\ x.mixed = b
  BY DEF Game, HistType
<1> HIDE DEF x
<1>2. HistType(D, x)  BY <1>1 DEF Game, HistType
<1>3. OnWay(D, c, x)
  BY <1>1 DEF Game, OnWay, Kept, Source
<1>4. Started(D, c, x)  BY <1>1 DEF Game, Started
<1> QED  BY <1>1, <1>2, <1>3, <1>4 DEF Game, x

LEMMA NewFile ==
  ASSUME Types, Files, NEW slot \in Slots, NEW w, FileOK(d, slot, w),
         d' = d, disk' = [disk EXCEPT ![slot] = w]
  PROVE  /\ DOMAIN disk' = Slots' /\ Files'
         /\ disk'[slot] = w /\ \A s \in Slots : s # slot => disk'[s] = disk[s]
<1>1. Slots' = Slots  BY DEF Slots, Scenarios
<1>2. /\ DOMAIN disk' = Slots /\ disk'[slot] = w
      /\ \A s \in Slots : s # slot => disk'[s] = disk[s]
  BY DEF Types
<1> QED  BY <1>1, <1>2 DEF Files

LEMMA SameFiles ==
  ASSUME Types, Files, d' = d, disk' = disk
  PROVE  /\ DOMAIN disk' = Slots' /\ Files'
<1>1. Slots' = Slots  BY DEF Slots, Scenarios
<1> QED  BY <1>1 DEF Files, Types

LEMMA TornFile ==
  ASSUME NEW D, NEW s
  PROVE  FileOK(D, s, Torn) /\ FileOK(D, s, NoFile)
BY DEF FileOK, Intact, Torn, NoFile

(* What SaveGame writes is a game like the one that is played.              *)
LEMMA WrittenOK ==
  ASSUME Types, NEW c, NEW h, Game(d, c, team, day, h), ScriptOK(lua, chase, c, h),
         ~CannotSave, NEW slot,
         IF slot = UserFile THEN c.currentMapID \notin c.mapsPlayed
                            ELSE c.currentMapID = slot
  PROVE  FileOK(d, slot, Written(c, h)) /\ Intact(Written(c, h))
<1> DEFINE w == Written(c, h)
           b == h.mixed \/ ScriptOf(gMapName) # ScriptOf(c.currentMapID)
<1>1. /\ w.is = "game" /\ w.camp = c /\ w.team = team /\ w.day = day
      /\ w.text = IF HasVars THEN ToText(lua.val) ELSE NoText
      /\ w.chase = (HasVars /\ chase) /\ w.script = ScriptOf(gMapName)
      /\ w.hist = [h EXCEPT !.mixed = b]
  BY DEF Written
<1>2. b \in BOOLEAN  BY DEF Game, HistType
<1>3. /\ Game(d, c, team, day, w.hist) /\ w.hist.mixed = b
      /\ w.hist.val = h.val /\ w.hist.chase = h.chase
  <2> HIDE DEF b, w
  <2> QED  BY <1>1, <1>2, MixedOnly
<1>4. w.chase \in BOOLEAN  BY <1>1 DEF Types
<1>5. w.script \in Scripted \cup {NoScript}  BY <1>1 DEF ScriptOf
<1>6. TextOK(w)
  <2> SUFFICES ASSUME ~w.hist.mixed  PROVE TextOK(w)  BY DEF TextOK
  <2>1. ~h.mixed /\ w.script = ScriptOf(c.currentMapID)  BY <1>1, <1>3
  <2>2. lua.of = w.script
    <3> HIDE DEF w
    <3> QED  BY <2>1 DEF ScriptOK
  <2>3. CASE w.script \in Declares
    <3>1. HasVars /\ Savable(lua.val)
      <4> HIDE DEF w
      <4> QED  BY <2>2, <2>3 DEF HasVars, CannotSave
    <3>2. /\ lua.val = h.val \/ (Savable(h.val) /\ lua.val = RoundTrip(h.val))
          /\ chase = h.chase
      <4> HIDE DEF w
      <4> QED  BY <2>1, <2>2, <2>3 DEF ScriptOK
    <3> HIDE DEF w, b
    <3> QED  BY <1>1, <1>3, <2>1, <2>3, <3>1, <3>2 DEF TextOK, Types
  <2>4. CASE w.script \notin Declares
    <3> HIDE DEF w, b
    <3> QED  BY <1>1, <2>1, <2>2, <2>4 DEF TextOK, HasVars
  <2> QED  BY <2>3, <2>4
<1> HIDE DEF w, b
<1> QED  BY <1>1, <1>3, <1>4, <1>5, <1>6 DEF FileOK, Intact, w
-----------------------------------------------------------------------------
(***************************************************************************)
(* The invariant, step by step.                                            *)
(***************************************************************************)

LEMMA NewHistoryType ==
  ASSUME NEW D
  PROVE  HistType(D, NewHistory)
BY DEF HistType, NewHistory

LEMMA InitIInv == Init => IInv
<1> SUFFICES ASSUME Init  PROVE IInv  OBVIOUS
<1>1. d \in Campaigns /\ mode = "off" /\ camp = Blank(d) /\ hist = NewHistory
      /\ disk = [s \in Slots |-> NoFile]
  BY DEF Init
<1>2. 1 \in 1 .. MaxDay[d]  BY <1>1, CampaignFacts
<1>3. lua = [of |-> NoScript, val |-> Initial]  BY DEF Init, Script
<1>4. Types
  <2>1. CampType(d, camp) /\ HistType(d, hist)
    BY <1>1, BlankType, NewHistoryType
  <2>2. DOMAIN lua = {"of", "val"} /\ lua.of = NoScript  BY <1>3
  <2>3. << >> \in Seq(Nat)  OBVIOUS
  <2> QED  BY <1>1, <1>2, <2>1, <2>2, <2>3 DEF Init, Types
<1>5. Files  BY <1>1, TornFile DEF Files
<1> QED  BY <1>1, <1>4, <1>5 DEF IInv

LEMMA EndedKeeps ==
  ASSUME IInv, Ended, d' = d,
         \/ disk' = disk
         \/ \E s \in Slots : disk' = [disk EXCEPT ![s] = Torn]
  PROVE  IInv'
<1>1. d \in Campaigns /\ Types /\ Files  BY DEF IInv, Types
<1>2. 1 \in 1 .. MaxDay[d]  BY <1>1, CampaignFacts
<1>3. DOMAIN disk' = Slots' /\ Files'
  <2>1. CASE disk' = disk  BY <1>1, <2>1, SameFiles
  <2>2. ASSUME NEW s \in Slots, disk' = [disk EXCEPT ![s] = Torn]
        PROVE  DOMAIN disk' = Slots' /\ Files'
    BY <1>1, <2>2, TornFile, NewFile
  <2> QED  BY <2>1, <2>2
<1>4. lua' = [of |-> NoScript, val |-> Initial]  BY DEF Ended, Script
<1>5. Types'
  <2>1. CampType(d, camp') /\ HistType(d, hist')
    BY <1>1, BlankType, NewHistoryType DEF Ended
  <2>2. DOMAIN lua' = {"of", "val"} /\ lua'.of = NoScript  BY <1>4
  <2>3. << >> \in Seq(Nat)  OBVIOUS
  <2> QED  BY <1>1, <1>2, <1>3, <2>1, <2>2, <2>3 DEF Ended, Types
<1> QED  BY <1>3, <1>5 DEF IInv, Ended

(* The program goes on in the menus, with its files as they were.           *)
LEMMA MenuKeeps ==
  ASSUME IInv, GoesOn("menu"), UNCHANGED <<d, team, day, chase, disk>>,
         CampType(d, camp'), HistType(d, hist')
  PROVE  IInv'
<1>1. Types /\ Files  BY DEF IInv
<1>2. DOMAIN disk' = Slots' /\ Files'  BY <1>1, SameFiles
<1>3. Types'  BY <1>1, <1>2 DEF Types, GoesOn
<1> QED  BY <1>2, <1>3 DEF IInv, GoesOn

LEMMA NewCampaignKeeps == IInv /\ NewCampaign => IInv'
<1> SUFFICES ASSUME IInv, NewCampaign  PROVE IInv'  OBVIOUS
<1> DEFINE c == InitNewCampaign(d, camp.daysPlayed)
<1>1. d \in Campaigns /\ Types /\ Files  BY DEF IInv, Types
<1>2. /\ camp' = Victory(d, c, 0) /\ hist' = NewHistory /\ GoesOn("choosing")
      /\ UNCHANGED <<d, team, day, chase, disk>>
  BY DEF NewCampaign
<1>3. DOMAIN disk' = Slots' /\ Files'  BY <1>1, <1>2, SameFiles
<1>4. /\ CampType(d, c) /\ c.currentMapID = -1 /\ c.mapsPlayed = {}
  BY <1>1, NewCampaignType DEF InitNewCampaign, Types, CampType
<1>5. d.mapsToComplete[-1] # {}  BY <1>1, CampaignFacts
<1> HIDE DEF c
<1>6. /\ CampType(d, camp') /\ camp'.mapsPlayed = {}
      /\ camp'.mapChoice = d.mapsToComplete[-1]
      /\ ~IsCompleted(d, camp') =>
           /\ camp'.currentMapID \in d.mapsToComplete[-1]
           /\ \A m \in d.mapsToComplete[-1] : camp'.daysPlayed[m] = 0
  BY <1>1, <1>2, <1>4, <1>5, VictoryFacts
<1>7. ~IsCompleted(d, camp')  BY <1>6 DEF IsCompleted
<1>8. Types'  BY <1>1, <1>2, <1>3, <1>6, NewHistoryType DEF Types, GoesOn
<1>9. hist'.won = -1 /\ hist'.days = 0  BY <1>2 DEF NewHistory
<1>10. OnWay(d, camp', hist')
  BY <1>6, <1>7, <1>9 DEF OnWay, Kept, Source
<1>11. Choosing'
  BY <1>2, <1>6, <1>7, <1>9, <1>10 DEF Choosing, VictoryKept
<1> QED  BY <1>2, <1>3, <1>8, <1>11 DEF IInv, GoesOn

(* InitMap begins scenario m with the heroes that the history says.         *)
LEMMA InitMapKeeps ==
  ASSUME IInv, NEW m \in Scenarios(d), InitMap(m),
         camp.mapChoice = d.mapsToComplete[hist.won], m \in camp.mapChoice,
         \A k \in camp.mapsPlayed : k <= hist.won,
         camp.daysPlayed[m] = hist.days, Kept(d, camp, hist),
         camp.currentMapID \in camp.mapChoice
  PROVE  IInv'
<1> DEFINE c == [camp EXCEPT !.currentMapID = m,
                             !.daysPlayed[0] = IF m = 0 THEN 0 ELSE @]
           t == Loaded(d.heroes[m], c.savedHeroData, d.toLoad[m])
<1>1. d \in Campaigns /\ Types /\ Files /\ CampType(d, camp) /\ HistType(d, hist)
  BY DEF IInv, Types
<1>2. /\ mode' = "map" /\ camp' = c /\ day' = 1 /\ chase' = FALSE /\ team' = t
      /\ gMapName' = m /\ lua' = [of |-> ScriptOf(m), val |-> Initial]
      /\ UNCHANGED <<d, reported, disk>>
  BY DEF InitMap, ScriptingInit, Script
<1>3. /\ DOMAIN c = DOMAIN camp /\ c.currentMapID = m /\ c.mapChoice = camp.mapChoice
      /\ c.mapsPlayed = camp.mapsPlayed /\ c.savedHeroData = camp.savedHeroData
      /\ c.daysPlayed = [camp.daysPlayed EXCEPT ![0] = IF m = 0 THEN 0 ELSE @]
  BY <1>1 DEF CampType
<1> HIDE DEF c
<1>4. c.daysPlayed \in [Scenarios(d) -> Nat] /\ (m # 0 => c.daysPlayed[m] = hist.days)
      /\ (m = 0 => c.daysPlayed[m] = 0)
  <2>1. camp.daysPlayed \in [Scenarios(d) -> Nat]  BY <1>1 DEF CampType
  <2>2. 0 \in Scenarios(d)  BY <1>1, CampaignFacts
  <2>3. c.daysPlayed = [k \in Scenarios(d) |->
          IF k # 0 THEN camp.daysPlayed[k] ELSE IF m = 0 THEN 0 ELSE camp.daysPlayed[0]]
    BY <1>3, <2>1, <2>2
  <2> QED  BY <2>1, <2>3
<1>5. CampType(d, c)  BY <1>1, <1>3, <1>4 DEF CampType
<1>6. t \in Seq(Nat) /\ \A p \in d.toLoad[m] :
        RankIn(d.toLoad[m], p) \in DOMAIN c.savedHeroData =>
          t[p] = c.savedHeroData[RankIn(d.toLoad[m], p)]
  BY <1>1, <1>5, LoadedFacts
<1> HIDE DEF t
<1>7. /\ DOMAIN hist' = DOMAIN hist /\ hist'.won = hist.won /\ hist'.days = hist.days
      /\ hist'.carried = hist.carried /\ hist'.start = t /\ hist'.val = Initial
      /\ hist'.chase = FALSE /\ hist'.mixed = FALSE
  <2>1. hist' = [hist EXCEPT !.start = team', !.script = ScriptOf(m), !.val = Initial,
                             !.chase = FALSE, !.mixed = FALSE]
    BY DEF InitMap
  <2> QED  BY <1>1, <1>2, <2>1 DEF HistType
<1>8. HistType(d, hist')  BY <1>1, <1>7 DEF HistType
<1>9. 1 \in 1 .. MaxDay[d]  BY <1>1, CampaignFacts
<1>10. DOMAIN disk' = Slots' /\ Files'  BY <1>1, <1>2, SameFiles
<1>11. ScriptOf(m) \in Scripted \cup {NoScript}  BY DEF ScriptOf
<1>12. Types'
  BY <1>1, <1>2, <1>5, <1>6, <1>8, <1>9, <1>10, <1>11 DEF Types
<1>13. /\ hist.won \in Scenarios(d) \cup {-1} /\ hist.won < m
       /\ camp.currentMapID > hist.won /\ m \in Nat /\ hist.won \in Int
       /\ camp.currentMapID \in Int /\ \A k \in camp.mapsPlayed : k \in Int
  <2>1. hist.won \in Scenarios(d) \cup {-1}  BY <1>1 DEF HistType
  <2>2. camp.currentMapID \in Scenarios(d) /\ camp.mapsPlayed \subseteq Scenarios(d)
    BY <1>1, <2>1, CampaignFacts DEF CampType
  <2>3. \A k \in Scenarios(d) : k \in Nat  BY <1>1, CampaignFacts
  <2> QED  BY <1>1, <2>1, <2>2, <2>3, CampaignFacts
<1>14. m \notin camp.mapsPlayed /\ camp.currentMapID \notin camp.mapsPlayed
  BY <1>13
<1>15. m = 0 => hist.days = 0
  <2>1. m = 0 => hist.won = -1  BY <1>1, <1>13, CampaignFacts
  <2> QED  BY <2>1, <1>1 DEF HistType
<1>16. Kept(d, c, hist')
  BY <1>3, <1>7, <1>14 DEF Kept, Source
<1>17. OnWay(d, c, hist')
  BY <1>3, <1>4, <1>7, <1>15, <1>16 DEF OnWay
<1>18. Started(d, c, hist')
  <2> SUFFICES ASSUME NEW p \in d.toLoad[m]
               PROVE  t[p] = hist.carried[RankIn(d.toLoad[m], p)]
    BY <1>3, <1>7 DEF Started
  <2>1. hist.won # -1  BY <1>1, CampaignsAssumption
  <2>2. hist.won \in Scenarios(d)  BY <1>13, <2>1
  <2>3. /\ d.heroes[m] \in Seq(Nat) /\ d.toLoad[m] \subseteq DOMAIN d.heroes[m]
        /\ IsFiniteSet(d.toSave[hist.won])
        /\ Cardinality(d.toLoad[m]) <= Cardinality(d.toSave[hist.won])
    BY <1>1, <2>2, CampaignsAssumption
  <2>4. d.toLoad[m] \in SUBSET (1 .. Len(d.heroes[m])) /\ Len(d.heroes[m]) \in Nat
    BY <2>3
  <2>5. IsFiniteSet(d.toLoad[m]) /\ d.toLoad[m] \in SUBSET Nat
    <3>1. IsFiniteSet(1 .. Len(d.heroes[m]))  BY <2>4, FS_Interval
    <3> QED  BY <2>4, <3>1, FS_Subset
  <2>6. /\ RankIn(d.toLoad[m], p) \in 1 .. Cardinality(d.toLoad[m])
        /\ Cardinality(d.toLoad[m]) \in Nat /\ Cardinality(d.toSave[hist.won]) \in Nat
    BY <2>3, <2>5, RankBounded, FS_CardinalityType
  <2>7. RankIn(d.toLoad[m], p) \in 1 .. Cardinality(d.toSave[hist.won])  BY <2>3, <2>6
  <2>8. Source(camp, hist) = hist.won  BY <1>14 DEF Source
  <2>9. /\ RankIn(d.toLoad[m], p) \in DOMAIN camp.savedHeroData
        /\ camp.savedHeroData[RankIn(d.toLoad[m], p)] = hist.carried[RankIn(d.toLoad[m], p)]
    BY <2>1, <2>7, <2>8 DEF Kept
  <2> QED  BY <1>3, <1>6, <2>9
<1>19. ScriptOK(lua', chase', c, hist')
  BY <1>2, <1>3, <1>7 DEF ScriptOK
<1>20. Playing'
  BY <1>2, <1>3, <1>14, <1>17, <1>18, <1>19 DEF Playing
<1> QED  BY <1>2, <1>10, <1>12, <1>20 DEF IInv

LEMMA ChooseKeeps ==
  ASSUME IInv, NEW m \in Scenarios(d), Choose(m)
  PROVE  IInv'
<1>1. Choosing /\ m \in camp.mapChoice /\ InitMap(m)  BY DEF Choose, IInv
<1> QED  BY <1>1, InitMapKeeps DEF Choosing, OnWay

LEMMA RestartKeeps == IInv /\ Restart => IInv'
<1> SUFFICES ASSUME IInv, Restart  PROVE IInv'  OBVIOUS
<1> DEFINE m == camp.currentMapID
<1>1. Playing /\ InitMap(m)  BY DEF Restart, IInv
<1>2. m \in camp.mapChoice  BY <1>1 DEF Playing, OnWay
<1>3. m \in Scenarios(d)  BY <1>2 DEF IInv, Types, CampType
<1>4. \A k \in camp.mapsPlayed : k <= hist.won  BY <1>1 DEF Playing, OnWay
<1> QED  BY <1>1, <1>2, <1>3, <1>4, InitMapKeeps DEF Playing, OnWay

LEMMA ToMenuKeeps == IInv /\ (StartProgram \/ Cancel \/ Lose) => IInv'
<1> SUFFICES ASSUME IInv, StartProgram \/ Cancel \/ Lose  PROVE IInv'  OBVIOUS
<1>1. GoesOn("menu") /\ UNCHANGED <<d, camp, team, day, chase, disk, hist>>
  BY DEF StartProgram, Cancel, Lose, game
<1>2. CampType(d, camp') /\ HistType(d, hist')  BY <1>1 DEF IInv, Types
<1> QED  BY <1>1, <1>2, MenuKeeps

(* Of a history, the way here, the heroes carried and those at the beginning *)
(* are what the campaign is compared with.                                   *)
LEMMA SameWay ==
  ASSUME NEW D, NEW c, NEW h, NEW x, OnWay(D, c, h), Started(D, c, h),
         x.won = h.won, x.days = h.days, x.carried = h.carried, x.start = h.start
  PROVE  OnWay(D, c, x) /\ Started(D, c, x)
BY DEF OnWay, Kept, Source, Started

LEMMA HandleVictoryKeeps == IInv /\ HandleVictory => IInv'
<1> SUFFICES ASSUME IInv, HandleVictory  PROVE IInv'  OBVIOUS
<1> DEFINE m == camp.currentMapID
           next == d.mapsToComplete[m]
<1>1. d \in Campaigns /\ Types /\ Files /\ CampType(d, camp) /\ HistType(d, hist) /\ Won
  BY DEF IInv, Types, HandleVictory
<1>2. /\ camp' = Victory(d, camp, day)
      /\ GoesOn(IF IsCompleted(d, camp') THEN "menu" ELSE "choosing")
      /\ hist' = [hist EXCEPT !.won = m, !.days = @ + day]
      /\ UNCHANGED <<d, team, day, chase, disk>>
  BY DEF HandleVictory
<1>3. day \in Nat  BY <1>1 DEF Types
<1>4. m \in Scenarios(d) /\ m # -1 /\ m \in d.mapsToComplete[hist.won] /\ m \in camp.mapsPlayed
  BY <1>1, CampaignFacts DEF Won, OnWay, CampType
<1>5. /\ DOMAIN hist' = DOMAIN hist /\ hist'.won = m /\ hist'.days = hist.days + day
      /\ hist'.carried = hist.carried /\ hist'.val = hist.val
      /\ hist'.chase = hist.chase /\ hist'.mixed = hist.mixed
  BY <1>1, <1>2 DEF HistType
<1>6. HistType(d, hist')  BY <1>1, <1>3, <1>4, <1>5 DEF HistType
<1>7. /\ CampType(d, camp') /\ camp'.mapsPlayed = camp.mapsPlayed \cup {m}
      /\ camp'.mapChoice = next /\ camp'.savedHeroData = camp.savedHeroData
      /\ ~IsCompleted(d, camp') /\ next # {} =>
           /\ camp'.currentMapID \in next
           /\ \A k \in next : camp'.daysPlayed[k] = day + camp.daysPlayed[m]
  BY <1>1, <1>2, <1>3, <1>4, VictoryFacts
<1>8. CASE IsCompleted(d, camp')
  BY <1>2, <1>6, <1>7, <1>8, MenuKeeps
<1>9. CASE ~IsCompleted(d, camp')
  <2>1. m \notin {d.numMaps - 1, d.special}  BY <1>7, <1>9 DEF IsCompleted
  <2>2. next # {}  BY <1>1, <1>4, <2>1, CampaignFacts
  <2>3. camp'.currentMapID \in next
    BY <1>7, <1>9, <2>2
  <2>4. \A k \in next : camp'.daysPlayed[k] = hist'.days
    <3>1. camp.daysPlayed[m] = hist.days /\ hist.days \in Nat
      BY <1>1 DEF Won, OnWay, HistType
    <3> QED  BY <1>3, <1>5, <1>7, <1>9, <2>2, <3>1
  <2>5. \A k \in camp'.mapsPlayed : k <= m
    <3>1. hist.won < m /\ hist.won \in Int /\ m \in Int
      BY <1>1, <1>4, CampaignFacts DEF HistType
    <3>2. \A k \in camp.mapsPlayed : k \in Int /\ (k <= hist.won \/ k = m)
      BY <1>1, CampaignFacts DEF Won, OnWay, CampType
    <3> QED  BY <1>7, <3>1, <3>2
  <2>6. camp'.currentMapID \notin camp'.mapsPlayed
    <3>1. m < camp'.currentMapID /\ m \in Int /\ camp'.currentMapID \in Int
      BY <1>1, <1>4, <2>3, CampaignFacts
    <3> QED  BY <2>5, <3>1
  <2>7. Kept(d, camp', hist')
    <3>1. Source(camp', hist') = m  BY <1>5, <2>6 DEF Source
    <3>2. Source(camp, hist) = m  BY <1>4 DEF Source
    <3>3. Kept(d, camp, hist)  BY <1>1 DEF Won, OnWay
    <3> QED  BY <1>5, <1>7, <3>1, <3>2, <3>3 DEF Kept
  <2>8. OnWay(d, camp', hist')
    <3>1. \A k \in camp'.mapsPlayed : k <= hist'.won \/ k = camp'.currentMapID
      BY <1>5, <2>5
    <3>2. camp'.mapChoice = d.mapsToComplete[hist'.won]  BY <1>5, <1>7
    <3>3. camp'.currentMapID \in camp'.mapChoice  BY <1>7, <2>3
    <3> HIDE DEF m, next
    <3> QED  BY <2>3, <2>4, <2>7, <3>1, <3>2, <3>3 DEF OnWay
  <2>9. VictoryKept'
    BY <1>1, <1>2, <1>5 DEF VictoryKept, Won
  <2>10. Choosing'
    <3> HIDE DEF m, next
    <3> QED  BY <1>2, <1>5, <1>7, <2>4, <2>5, <2>8, <2>9 DEF Choosing
  <2>11. DOMAIN disk' = Slots' /\ Files'  BY <1>1, <1>2, SameFiles
  <2>12. Types'  BY <1>1, <1>2, <1>6, <1>7, <1>9, <2>11 DEF Types, GoesOn
  <2> QED  BY <1>2, <1>9, <2>10, <2>11, <2>12 DEF IInv, GoesOn
<1> QED  BY <1>8, <1>9

LEMMA NextDayKeeps == IInv /\ NextDay => IInv'
<1> SUFFICES ASSUME IInv, NextDay  PROVE IInv'  OBVIOUS
<1>1. Types /\ Files /\ Playing /\ d \in Campaigns  BY DEF IInv, Types, NextDay
<1>2. /\ mode' = "map" /\ day < MaxDay[d] /\ day' = day + 1
      /\ UNCHANGED <<d, camp, team, chase, disk, hist, lua, gMapName, reported>>
  BY DEF NextDay, GoesOn
<1>3. DOMAIN disk' = Slots' /\ Files'  BY <1>1, <1>2, SameFiles
<1>4. day' \in 1 .. MaxDay[d]  BY <1>1, <1>2, CampaignFacts DEF Types
<1>5. Types'  BY <1>1, <1>2, <1>3, <1>4 DEF Types
<1>6. Playing'  BY <1>1, <1>2 DEF Playing
<1> QED  BY <1>2, <1>3, <1>5, <1>6 DEF IInv

LEMMA HeroesChangeKeeps == IInv /\ HeroesChange => IInv'
<1> SUFFICES ASSUME IInv, HeroesChange  PROVE IInv'  OBVIOUS
<1>1. Types /\ Files /\ Playing  BY DEF IInv, HeroesChange
<1>2. mode' = "map" /\ UNCHANGED <<d, camp, day, chase, disk, hist, lua, gMapName, reported>>
  BY DEF HeroesChange, GoesOn
<1>3. DOMAIN disk' = Slots' /\ Files'  BY <1>1, <1>2, SameFiles
<1>4. team' \in Seq(Nat)
  <2>1. team \in Seq(Nat)  BY <1>1 DEF Types
  <2>2. CASE \E p \in DOMAIN team : team' = [team EXCEPT ![p] = @ + 1]
    BY <2>1, <2>2
  <2>3. ASSUME NEW p \in DOMAIN team,
               team' = [i \in 1 .. Len(team) - 1 |-> IF i < p THEN team[i] ELSE team[i + 1]]
        PROVE  team' \in Seq(Nat)
    <3>1. Len(team) - 1 \in Nat  BY <2>1
    <3>2. \A i \in 1 .. Len(team) - 1 : team[i] \in Nat /\ team[i + 1] \in Nat  BY <2>1
    <3> QED  BY <2>3, <3>1, <3>2
  <2>4. CASE team' = Append(team, 1)  BY <2>1, <2>4
  <2> QED  BY <2>2, <2>3, <2>4 DEF HeroesChange
<1>5. Types'  BY <1>1, <1>2, <1>3, <1>4 DEF Types
<1>6. Playing'  BY <1>1, <1>2 DEF Playing
<1> QED  BY <1>2, <1>3, <1>5, <1>6 DEF IInv

LEMMA SetVariableKeeps ==
  ASSUME IInv, NEW v \in Values, SetVariable(v)
  PROVE  IInv'
<1>1. Types /\ Files /\ Playing /\ HistType(d, hist)  BY DEF IInv, Types, SetVariable
<1>2. /\ mode' = "map" /\ lua' = [lua EXCEPT !.val = v] /\ hist' = [hist EXCEPT !.val = v]
      /\ UNCHANGED <<d, camp, team, day, chase, disk, gMapName, reported>>
  BY DEF SetVariable, game
<1>3. DOMAIN disk' = Slots' /\ Files'  BY <1>1, <1>2, SameFiles
<1>4. /\ DOMAIN hist' = DOMAIN hist /\ hist'.won = hist.won /\ hist'.days = hist.days
      /\ hist'.carried = hist.carried /\ hist'.start = hist.start /\ hist'.val = v
      /\ hist'.chase = hist.chase /\ hist'.mixed = hist.mixed
  BY <1>1, <1>2 DEF HistType
<1>5. DOMAIN lua' = DOMAIN lua /\ lua'.of = lua.of /\ lua'.val = v
  BY <1>1, <1>2 DEF Types
<1>6. HistType(d, hist')  BY <1>1, <1>4 DEF HistType
<1>7. Types'  BY <1>1, <1>2, <1>3, <1>5, <1>6 DEF Types
<1>8. OnWay(d, camp, hist') /\ Started(d, camp, hist')
  BY <1>1, <1>4, SameWay DEF Playing
<1>9. ScriptOK(lua', chase, camp, hist')
  BY <1>1, <1>4, <1>5 DEF Playing, ScriptOK
<1>10. Playing'  BY <1>1, <1>2, <1>8, <1>9 DEF Playing
<1> QED  BY <1>2, <1>3, <1>7, <1>10 DEF IInv

LEMMA ChaseKeeps == IInv /\ ForceComputerPlayerChase => IInv'
<1> SUFFICES ASSUME IInv, ForceComputerPlayerChase  PROVE IInv'  OBVIOUS
<1>1. Types /\ Files /\ Playing /\ HistType(d, hist)
  BY DEF IInv, Types, ForceComputerPlayerChase
<1>2. /\ mode' = "map" /\ chase' = ~chase /\ hist' = [hist EXCEPT !.chase = chase']
      /\ UNCHANGED <<d, camp, team, day, lua, disk, gMapName, reported>>
  BY DEF ForceComputerPlayerChase, GoesOn
<1>3. DOMAIN disk' = Slots' /\ Files'  BY <1>1, <1>2, SameFiles
<1>4. /\ DOMAIN hist' = DOMAIN hist /\ hist'.won = hist.won /\ hist'.days = hist.days
      /\ hist'.carried = hist.carried /\ hist'.start = hist.start /\ hist'.val = hist.val
      /\ hist'.chase = chase' /\ hist'.mixed = hist.mixed
  BY <1>1, <1>2 DEF HistType
<1>5. chase' \in BOOLEAN  BY <1>2
<1>6. HistType(d, hist')  BY <1>1, <1>4, <1>5 DEF HistType
<1>7. Types'  BY <1>1, <1>2, <1>3, <1>5, <1>6 DEF Types
<1>8. OnWay(d, camp, hist') /\ Started(d, camp, hist')
  BY <1>1, <1>4, SameWay DEF Playing
<1>9. ScriptOK(lua, chase', camp, hist')
  BY <1>1, <1>4 DEF Playing, ScriptOK
<1>10. Playing'  BY <1>1, <1>2, <1>8, <1>9 DEF Playing
<1> QED  BY <1>2, <1>3, <1>7, <1>10 DEF IInv

LEMMA SaveFailsKeeps ==
  ASSUME IInv, NEW slot \in Slots, SaveFails(slot), d' = d
  PROVE  IInv'
BY EndedKeeps DEF SaveFails

LEMMA SaveKeeps == IInv /\ Save => IInv'
<1> SUFFICES ASSUME IInv, Save  PROVE IInv'  OBVIOUS
<1>1. Types /\ Files /\ Playing /\ UserFile \in Slots /\ d' = d
  BY DEF IInv, Save, Slots
<1>2. CASE SaveFails(UserFile)  BY <1>1, <1>2, SaveFailsKeeps
<1>3. ASSUME GoesOn("map"), Saves(UserFile, camp, hist), UNCHANGED <<game, hist>>
      PROVE  IInv'
  <2>1. /\ mode' = "map" /\ disk' = [disk EXCEPT ![UserFile] = Written(camp, hist)]
        /\ UNCHANGED <<d, camp, team, day, chase, hist, lua, gMapName, reported>>
    BY <1>1, <1>3 DEF GoesOn, Saves, game
  <2>2. Game(d, camp, team, day, hist)  BY <1>1 DEF Game, Types, Playing
  <2>3. FileOK(d, UserFile, Written(camp, hist))
    BY <1>1, <1>3, <2>2, WrittenOK DEF Playing, Saves
  <2>4. DOMAIN disk' = Slots' /\ Files'  BY <1>1, <2>1, <2>3, NewFile
  <2>5. Types'  BY <1>1, <2>1, <2>4 DEF Types
  <2>6. Playing'  BY <1>1, <2>1 DEF Playing
  <2> QED  BY <2>1, <2>4, <2>5, <2>6 DEF IInv
<1> QED  BY <1>2, <1>3 DEF Save

LEMMA WinKeeps == IInv /\ Win => IInv'
<1> SUFFICES ASSUME IInv, Win  PROVE IInv'  OBVIOUS
<1> DEFINE m == camp.currentMapID
<1>1. /\ d \in Campaigns /\ Types /\ Files /\ Playing /\ d' = d
      /\ CampType(d, camp) /\ HistType(d, hist)
  BY DEF IInv, Types, Win
<1>2. m \in Scenarios(d) /\ m # -1 /\ m # UserFile /\ m \in Slots
  BY <1>1, CampaignFacts DEF Playing, OnWay, CampType, UserFile, Slots
<1>3. CASE SaveFails(m)  BY <1>1, <1>2, <1>3, SaveFailsKeeps
<1>4. ASSUME NEW g \in Garbage, GoesOn("won"),
             camp' = Autosaved(g), hist' = [hist EXCEPT !.carried = GoOn(g)],
             Saves(m, camp', hist'), UNCHANGED <<team, day, chase>>
      PROVE  IInv'
  <2> DEFINE S == d.toSave[m]
  <2>1. /\ CampType(d, camp') /\ camp'.currentMapID = m /\ camp'.mapChoice = camp.mapChoice
        /\ camp'.mapsPlayed = camp.mapsPlayed \cup {m}
        /\ camp'.daysPlayed = camp.daysPlayed
        /\ \A k \in 1 .. Cardinality(S) :
             /\ k \in DOMAIN camp'.savedHeroData
             /\ camp'.savedHeroData[k] =
                  IF PlaceAt(S, k) \in DOMAIN team THEN team[PlaceAt(S, k)] ELSE g
    <3>1. team \in Seq(Nat)  BY <1>1 DEF Types
    <3>2. camp' = Autosaved(g) /\ g \in Garbage  BY <1>4
    <3>3. camp.currentMapID \in Scenarios(d)  BY <1>2
    <3> HIDE DEF m, S
    <3>4. LET T == d.toSave[camp.currentMapID]
          IN  /\ CampType(d, camp') /\ camp'.currentMapID = camp.currentMapID
              /\ camp'.mapChoice = camp.mapChoice
              /\ camp'.mapsPlayed = camp.mapsPlayed \cup {camp.currentMapID}
              /\ camp'.daysPlayed = camp.daysPlayed
              /\ \A k \in 1 .. Cardinality(T) :
                   /\ k \in DOMAIN camp'.savedHeroData
                   /\ camp'.savedHeroData[k] =
                        IF PlaceAt(T, k) \in DOMAIN team THEN team[PlaceAt(T, k)] ELSE g
      BY <1>1, <3>1, <3>2, <3>3, AutosavedFacts
    <3> QED  BY <3>4 DEF m, S
  <2>2. /\ DOMAIN hist' = DOMAIN hist /\ hist'.won = hist.won /\ hist'.days = hist.days
        /\ hist'.carried = GoOn(g) /\ hist'.val = hist.val
        /\ hist'.chase = hist.chase /\ hist'.mixed = hist.mixed
    BY <1>1, <1>4 DEF HistType
  <2>3. HistType(d, hist')  BY <1>1, <2>2 DEF HistType
  <2>4. \A k \in 1 .. Cardinality(S) : GoOn(g)[k] =
          IF PlaceAt(S, k) \in DOMAIN team THEN team[PlaceAt(S, k)] ELSE g
    BY DEF GoOn
  <2> HIDE DEF S
  <2>5. m \in camp'.mapsPlayed  BY <2>1
  <2>6. Kept(d, camp', hist')
    <3>1. Source(camp', hist') = m  BY <2>1, <2>5 DEF Source
    <3>2. \A k \in 1 .. Cardinality(S) :
            k \in DOMAIN camp'.savedHeroData /\ camp'.savedHeroData[k] = hist'.carried[k]
      BY <2>1, <2>2, <2>4
    <3> QED  BY <3>1, <3>2 DEF Kept, S
  <2>7. OnWay(d, camp', hist')
    <3>1. OnWay(d, camp, hist)  BY <1>1 DEF Playing
    <3>2. \A k \in camp'.mapsPlayed : k <= hist'.won \/ k = camp'.currentMapID
      BY <2>1, <2>2, <3>1 DEF OnWay
    <3>3. /\ camp'.mapChoice = d.mapsToComplete[hist'.won]
          /\ camp'.currentMapID \in camp'.mapChoice
          /\ camp'.daysPlayed[camp'.currentMapID] = hist'.days
      BY <2>1, <2>2, <3>1 DEF OnWay
    <3> QED  BY <2>6, <3>2, <3>3 DEF OnWay
  <2>8. Started(d, camp', hist')  BY <2>1, <2>5 DEF Started
  <2>9. Game(d, camp', team, day, hist')
    BY <1>1, <2>1, <2>3, <2>7, <2>8 DEF Game, Types
  <2>10. ScriptOK(lua, chase, camp', hist')
    BY <1>1, <2>1, <2>2 DEF Playing, ScriptOK
  <2>11. ~CannotSave /\ disk' = [disk EXCEPT ![m] = Written(camp', hist')]
    BY <1>4 DEF Saves
  <2>12. FileOK(d, m, Written(camp', hist')) /\ Intact(Written(camp', hist'))
    BY <1>1, <1>2, <2>1, <2>9, <2>10, <2>11, WrittenOK
  <2>13. DOMAIN disk' = Slots' /\ Files' /\ disk'[m] = Written(camp', hist')
    <3> HIDE DEF m
    <3> QED  BY <1>1, <1>2, <2>11, <2>12, NewFile
  <2>14. Written(camp', hist').camp = camp' /\ Written(camp', hist').day = day
    BY DEF Written
  <2>15. Won'
    BY <1>4, <1>1, <2>1, <2>5, <2>7, <2>12, <2>13, <2>14 DEF Won
  <2>16. Types'
    BY <1>1, <1>4, <2>1, <2>3, <2>13 DEF Types, GoesOn
  <2> QED  BY <1>4, <2>13, <2>15, <2>16 DEF IInv, GoesOn
<1> QED  BY <1>3, <1>4 DEF Win

(* A script that a file starts gets the variable of the file.               *)
LEMMA LuaAfterFacts ==
  ASSUME Types, NEW f, f.script \in Scripted \cup {NoScript}
  PROVE  /\ DOMAIN LuaAfter(f) = {"of", "val"}
         /\ LuaAfter(f).of \in Scripted \cup {NoScript}
         /\ ~(f.script = NoScript /\ lua.of # NoScript) =>
              /\ LuaAfter(f).of = f.script
              /\ f.script # NoScript /\ f.text # NoText =>
                   LuaAfter(f).val = FromText(f.text)
<1> DEFINE x == IF f.script = NoScript THEN lua ELSE Script(f.script)
<1>1. DOMAIN x = {"of", "val"} /\ x.of \in Scripted \cup {NoScript}
  BY DEF Types, Script
<1>2. ~(f.script = NoScript /\ lua.of # NoScript) => x.of = f.script
  BY DEF Script
<1>3. LuaAfter(f) =
        IF f.text = NoText \/ x.of = NoScript THEN x ELSE [x EXCEPT !.val = FromText(f.text)]
  BY DEF LuaAfter
<1> HIDE DEF x
<1> QED  BY <1>1, <1>2, <1>3

LEMMA LoadKeeps ==
  ASSUME IInv, NEW slot \in Slots, Load(slot)
  PROVE  IInv'
<1> DEFINE f == disk[slot]
<1>1. /\ d \in Campaigns /\ Types /\ Files /\ d' = d /\ disk' = disk
      /\ FileOK(d, slot, f)
  BY DEF IInv, Types, Files, Load
<1>2. CASE ~Intact(f)
  <2>1. Ended  BY <1>2 DEF Load
  <2> QED  BY <1>1, <2>1, EndedKeeps
<1>3. CASE Intact(f)
  <2> DEFINE mixed == f.hist.mixed \/ (f.script = NoScript /\ lua.of # NoScript)
             m == f.camp.currentMapID
  <2>1. /\ camp' = f.camp /\ team' = f.team /\ day' = f.day /\ chase' = f.chase
        /\ lua' = LuaAfter(f) /\ reported' = (reported \/ Reports(f))
        /\ hist' = [f.hist EXCEPT !.mixed = mixed]
        /\ mode' = (IF m \in f.camp.mapsPlayed THEN "won" ELSE "map")
        /\ gMapName' = gMapName
    BY <1>3 DEF Load, ReadGame
  <2>2. /\ Game(d, f.camp, f.team, f.day, f.hist) /\ TextOK(f)
        /\ f.chase \in BOOLEAN /\ f.script \in Scripted \cup {NoScript}
        /\ IF slot = UserFile THEN m \notin f.camp.mapsPlayed ELSE m = slot
    BY <1>1, <1>3 DEF FileOK
  <2>3. mixed \in BOOLEAN  BY <2>2 DEF Game, HistType
  <2> HIDE DEF f, mixed
  <2>4. /\ Game(d, f.camp, f.team, f.day, hist') /\ hist'.mixed = mixed
        /\ hist'.val = f.hist.val /\ hist'.chase = f.hist.chase
    BY <2>1, <2>2, <2>3, MixedOnly
  <2>5. DOMAIN disk' = Slots' /\ Files'  BY <1>1, SameFiles
  <2>6. DOMAIN lua' = {"of", "val"} /\ lua'.of \in Scripted \cup {NoScript}
    BY <1>1, <2>1, <2>2, LuaAfterFacts
  <2>7. Types'
    <3>1. reported' \in BOOLEAN  BY <1>1, <2>1 DEF Types, Reports
    <3>2. /\ CampType(d, camp') /\ HistType(d, hist') /\ team' \in Seq(Nat)
          /\ day' \in 1 .. MaxDay[d]
      BY <2>1, <2>4 DEF Game
    <3>3. chase' \in BOOLEAN  BY <2>1, <2>2
    <3>4. gMapName' \in Scenarios(d) \cup {NoMap}  BY <1>1, <2>1 DEF Types
    <3>5. mode' \in {"won", "map"}  BY <2>1
    <3> QED  BY <1>1, <2>5, <2>6, <3>1, <3>2, <3>3, <3>4, <3>5 DEF Types
  <2>8. ASSUME mode' = "map"  PROVE Playing'
    <3>1. OnWay(d, camp', hist') /\ Started(d, camp', hist')  BY <2>1, <2>4 DEF Game
    <3>2. m \notin f.camp.mapsPlayed  BY <2>1, <2>8
    <3>3. ScriptOK(lua', chase', camp', hist')
      <4> SUFFICES ASSUME ~hist'.mixed
                   PROVE  /\ lua'.of = ScriptOf(m)
                          /\ lua'.of \in Declares =>
                               /\ \/ lua'.val = hist'.val
                                  \/ Savable(hist'.val) /\ lua'.val = RoundTrip(hist'.val)
                               /\ chase' = hist'.chase
        BY <2>1 DEF ScriptOK
      <4>1. ~f.hist.mixed /\ ~(f.script = NoScript /\ lua.of # NoScript)
        BY <2>4 DEF mixed
      <4>2. lua'.of = f.script
        BY <1>1, <2>1, <2>2, <4>1, LuaAfterFacts
      <4>3. f.script = ScriptOf(m)  BY <2>2, <4>1 DEF TextOK
      <4>4. ASSUME f.script \in Declares
            PROVE  /\ Savable(hist'.val) /\ lua'.val = RoundTrip(hist'.val)
                   /\ chase' = hist'.chase
        <5> DEFINE v == f.hist.val
        <5>1. Savable(v) /\ f.text \in {ToText(v), ToText(RoundTrip(v))} /\ f.chase = f.hist.chase
          BY <2>2, <4>1, <4>4 DEF TextOK
        <5>2. v \in Values \cup {Initial}  BY <2>2 DEF Game, HistType
        <5>3. WellFormed(v)  BY <5>1, <5>2, ScriptsAssumption
        <5> HIDE DEF v
        <5>4. /\ RoundTrip(RoundTrip(v)) = RoundTrip(v)
              /\ ToText(v).type # "none" /\ ToText(RoundTrip(v)).type # "none"
          BY <5>1, <5>3, RoundTripSettles
        <5>5. f.text # NoText  BY <5>1, <5>4 DEF NoText
        <5>6. f.script # NoScript  BY <4>4, ScriptsAssumption
        <5>7. lua'.val = FromText(f.text)
          BY <1>1, <2>1, <2>2, <4>1, <5>5, <5>6, LuaAfterFacts
        <5>8. FromText(f.text) = RoundTrip(v)
          <6>1. FromText(ToText(v)) = RoundTrip(v)  BY DEF RoundTrip
          <6>2. FromText(ToText(RoundTrip(v))) = RoundTrip(RoundTrip(v))  BY DEF RoundTrip
          <6> QED  BY <5>1, <5>4, <6>1, <6>2
        <5> QED  BY <2>1, <2>4, <5>1, <5>7, <5>8 DEF v
      <4> QED  BY <4>2, <4>3, <4>4
    <3> QED  BY <1>1, <2>1, <3>1, <3>2, <3>3 DEF Playing
  <2>9. ASSUME mode' = "won"  PROVE Won'
    <3>1. m \in f.camp.mapsPlayed  BY <2>1, <2>9
    <3>2. m = slot  BY <2>2, <3>1
    <3>3. OnWay(d, camp', hist')  BY <2>1, <2>4 DEF Game
    <3> QED  BY <1>1, <1>3, <2>1, <3>1, <3>2, <3>3 DEF Won, f
  <2> QED  BY <2>1, <2>5, <2>7, <2>8, <2>9 DEF IInv
<1> QED  BY <1>2, <1>3

LEMMA NextKeeps == IInv /\ [Next]_vars => IInv'
<1> SUFFICES ASSUME IInv, [Next]_vars  PROVE IInv'  OBVIOUS
<1>1. CASE InMenus
  BY <1>1, ToMenuKeeps, NewCampaignKeeps, HandleVictoryKeeps, ChooseKeeps DEF InMenus
<1>2. CASE OnMap
  BY <1>2, RestartKeeps, NextDayKeeps, HeroesChangeKeeps, ChaseKeeps, WinKeeps,
     ToMenuKeeps, SetVariableKeeps DEF OnMap
<1>3. CASE InFiles
  <2>1. CASE Quit  BY <2>1, EndedKeeps DEF Quit
  <2>2. CASE Save  BY <2>2, SaveKeeps
  <2>3. CASE \E s \in Slots : Load(s)  BY <2>3, LoadKeeps
  <2> QED  BY <1>3, <2>1, <2>2, <2>3 DEF InFiles
<1>4. CASE UNCHANGED vars
  <2>1. /\ Slots' = Slots
        /\ UNCHANGED <<d, mode, camp, team, day, chase, lua, gMapName, reported, disk, hist>>
    BY <1>4 DEF vars, Slots, Scenarios
  <2>2. Types' /\ Files'  BY <2>1 DEF IInv, Types, Files
  <2>3. /\ mode' = "map" => Playing'
        /\ mode' = "won" => Won'
        /\ mode' = "choosing" => Choosing'
    BY <2>1 DEF IInv, Playing, Won, Choosing, VictoryKept
  <2> QED  BY <2>2, <2>3 DEF IInv
<1> QED  BY <1>1, <1>2, <1>3, <1>4 DEF Next

THEOREM Invariant == Spec => []IInv
BY InitIInv, NextKeeps, PTL DEF Spec
-----------------------------------------------------------------------------
(***************************************************************************)
(* What follows from the invariant.                                        *)
(***************************************************************************)

(* Every variable, and every game in a file, has its type.                  *)
THEOREM TypesCorrect == Spec => []TypeOK
<1>1. IInv => TypeOK
  <2> SUFFICES ASSUME IInv  PROVE TypeOK  OBVIOUS
  <2>1. Types /\ Files  BY DEF IInv
  <2>2. ASSUME NEW s \in Slots, Intact(disk[s])
        PROVE  disk[s].team \in Seq(Nat) /\ disk[s].script \in Scripted \cup {NoScript}
    BY <2>1, <2>2 DEF Files, FileOK, Game
  <2> QED  BY <2>1, <2>2 DEF Types, CampType, HistType, TypeOK
<1> QED  BY <1>1, Invariant, PTL

(* The heroes whom a scenario begins with are those who won the one before  *)
(* it, whatever the campaign's sets of places, and whatever was saved,      *)
(* loaded, lost and begun again in between (LoadCampaignSavedHero).         *)
THEOREM HeroesCarriedCorrect == Spec => []HeroesCarried
<1>1. IInv => HeroesCarried
  BY DEF IInv, Playing, Started, HeroesCarried
<1> QED  BY <1>1, Invariant, PTL

(* Only scenarios that the one won last opens are played or offered, there  *)
(* is one to choose until the campaign is over, and the days add up.        *)
THEOREM WayCorrect == Spec => []WayMatches
<1>1. IInv => WayMatches
  <2>1. ASSUME NEW c, NEW h, OnWay(d, c, h)
        PROVE  /\ c.mapChoice = d.mapsToComplete[h.won] /\ c.mapChoice # {}
               /\ c.currentMapID \in c.mapChoice
               /\ c.daysPlayed[c.currentMapID] = h.days
    BY <2>1 DEF OnWay
  <2> QED  BY <2>1 DEF IInv, Playing, Choosing, WayMatches, OnTheWay
<1> QED  BY <1>1, Invariant, PTL

(* A program that dies while the next scenario is being chosen loses        *)
(* nothing: the autosave leads to the same choice (Autosave, HandleVictory).*)
THEOREM VictoryCorrect == Spec => []VictoryKept
<1>1. IInv => VictoryKept
  BY DEF IInv, Choosing, VictoryKept
<1> QED  BY <1>1, Invariant, PTL

(* Unless scripts of two maps got mixed the script of the map runs.         *)
THEOREM ScriptsCorrect == Spec => []ScriptsMatch
<1>1. IInv => ScriptsMatch
  BY DEF IInv, Playing, ScriptOK, ScriptsMatch
<1> QED  BY <1>1, Invariant, PTL

(* However often a game is saved and loaded, its variable is what it was or *)
(* what one load makes of it, and exactly what it was if a text can hold it.*)
THEOREM NothingLostCorrect == Spec => []NothingLost
<1>1. IInv => NothingLost
  <2> SUFFICES ASSUME IInv, mode = "map", ~hist.mixed, HasVars
               PROVE  /\ lua.val \in {hist.val, RoundTrip(hist.val)}
                      /\ Exact(hist.val) => lua.val = hist.val
                      /\ chase = hist.chase
    BY DEF NothingLost
  <2>1. /\ lua.val = hist.val \/ (Savable(hist.val) /\ lua.val = RoundTrip(hist.val))
        /\ chase = hist.chase
    BY DEF IInv, Playing, ScriptOK, HasVars
  <2>2. hist.val \in Values \cup {Initial}  BY DEF IInv, Types, HistType
  <2>3. Savable(hist.val) /\ Exact(hist.val) => RoundTrip(hist.val) = hist.val
    BY <2>2, RoundTripSettles, ScriptsAssumption
  <2> QED  BY <2>1, <2>3
<1> QED  BY <1>1, Invariant, PTL

(* The program reports variables without a script only when scripts of two  *)
(* maps got mixed (WriteMapVariablesToLUA).                                 *)
THEOREM ReportsOnlyMixed == Spec => [][reported' /\ ~reported => hist'.mixed]_vars
<1>1. IInv /\ [Next]_vars => [reported' /\ ~reported => hist'.mixed]_vars
  <2> SUFFICES ASSUME IInv, Next, reported', ~reported  PROVE hist'.mixed
    OBVIOUS
  <2>1. PICK s \in Slots : Load(s)
    <3>1. CASE InMenus
      BY <3>1 DEF InMenus, StartProgram, NewCampaign, Cancel, HandleVictory, Choose,
         InitMap, GoesOn
    <3>2. CASE OnMap
      BY <3>2 DEF OnMap, Restart, InitMap, NextDay, HeroesChange, ForceComputerPlayerChase,
         Win, Lose, SetVariable, GoesOn, SaveFails, Ended
    <3>3. ~Save /\ ~Quit
      BY DEF Save, Quit, SaveFails, Ended, GoesOn
    <3> QED  BY <3>1, <3>2, <3>3 DEF Next, InFiles
  <2>2. Intact(disk[s])  BY <2>1 DEF Load, Ended
  <2>3. Types /\ FileOK(d, s, disk[s])  BY <2>1 DEF IInv, Files
  <2>4. PICK f : f = disk[s]  OBVIOUS
  <2>5. /\ reported' = (reported \/ Reports(f))
        /\ hist' = [f.hist EXCEPT !.mixed = f.hist.mixed \/ (f.script = NoScript /\ lua.of # NoScript)]
    BY <2>1, <2>2, <2>4 DEF Load, ReadGame
  <2>6. f.text # NoText /\ LuaAfter(f).of = NoScript  BY <2>5 DEF Reports
  <2>7. TextOK(f) /\ f.script \in Scripted \cup {NoScript} /\ HistType(d, f.hist)
    BY <2>2, <2>3, <2>4 DEF FileOK, Game
  <2>8. hist'.mixed = (f.hist.mixed \/ (f.script = NoScript /\ lua.of # NoScript))
    BY <2>5, <2>7 DEF HistType
  <2>9. CASE f.script = NoScript /\ lua.of # NoScript  BY <2>8, <2>9
  <2>10. CASE ~(f.script = NoScript /\ lua.of # NoScript)
    <3>1. f.script = NoScript  BY <2>3, <2>6, <2>7, <2>10, LuaAfterFacts
    <3>2. f.script \notin Declares  BY <3>1, ScriptsAssumption
    <3>3. f.hist.mixed  BY <2>6, <2>7, <3>2 DEF TextOK
    <3> QED  BY <2>8, <3>3
  <2> QED  BY <2>9, <2>10
<1> QED  BY <1>1, Invariant, PTL DEF Spec

=============================================================================
