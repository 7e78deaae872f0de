SPECIFICATION Spec
CONSTANTS
  h1 = h1
  h2 = h2
  h3 = h3
  h4 = h4
  h5 = h5
  prisoner = prisoner
  NoHero = NoHero
  Hero <- SomeHeroes
  Jailed <- SomeJailed
  MaxPlayers = 3
  NumPlayers = 2
  MaxOwned = 2
  Crowd = 4
  Budget = 2
SYMMETRY Alike
INVARIANTS TypeOK OwnedOnce StatusMatches OffersFree
PROPERTY RetreatedWaits
