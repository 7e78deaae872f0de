SPECIFICATION Spec
CONSTANTS
  small = small
  glyphs = glyphs
  wall = wall
  c1 = c1
  c2 = c2
  spellIcon = spellIcon
  o1 = o1
  o2 = o2
  o3 = o3
  o4 = o4
  None = None
  Half = 8
  Files <- CacheFiles
  Fonts <- CacheFonts
  IconOf <- CacheIconOf
  Leaky <- CacheLeaky
  OwnerOf <- CacheOwnerOf
  Clients <- CacheClients
  Objects <- CacheObjects
INVARIANTS TypeOK NoDangling CountsUsers ExpungeSafe
PROPERTY ImplementsHandles
CHECK_DEADLOCK FALSE
