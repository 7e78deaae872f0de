-------------------------- MODULE MCResourceCache --------------------------
(***************************************************************************)
(* A small instance of the resource manager: a font, the icon it draws     *)
(* with, the fire wall icon that drawing leaks, two ordinary pointers and  *)
(* gCurLoadedSpellIcon.  One address more than there are files lets a file *)
(* be loaded again at another place; 4-bit counts let the leak wrap.       *)
(***************************************************************************)
EXTENDS ResourceCache

CONSTANTS small, glyphs, wall, c1, c2, spellIcon, o1, o2, o3, o4

CacheFiles   == {small, glyphs, wall}
CacheFonts   == {small}
CacheIconOf  == [f \in CacheFonts |-> glyphs]
CacheLeaky   == {wall}
CacheClients == {c1, c2, spellIcon}
CacheOwnerOf == [f \in CacheLeaky |-> spellIcon]
CacheObjects == {o1, o2, o3, o4}
=============================================================================
