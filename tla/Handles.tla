------------------------------ MODULE Handles ------------------------------
(***************************************************************************)
(* What the resource manager promises the rest of the game, without lists, *)
(* addresses or reference counts: every pointer variable of the program    *)
(* (a client) holds at most one file of the data archives, and a file is   *)
(* in memory exactly while somebody needs it.  A loaded font needs the     *)
(* icon its glyphs are drawn from.  The files in Pinned are also fetched   *)
(* by code that never gives them back, so of them the promise is only that *)
(* they are not dropped under a pointer.                                   *)
(***************************************************************************)
EXTENDS Naturals, FiniteSets

CONSTANTS Files,    \* the files of the archives
          Fonts,    \* those of them that are fonts
          IconOf,   \* the icon file a font is drawn from
          Pinned,   \* files that the drawing code fetches and never releases
          Clients,  \* the pointer variables of the game
          None      \* no file

VARIABLES holds,    \* the file each client holds, or None
          memory,   \* the files in memory
          open      \* the archives are open

vars == <<holds, memory, open>>

\* The files that must be in memory when the clients hold h.
Needed(h) ==
  LET direct == {h[c] : c \in {d \in Clients : h[d] # None}}
  IN direct \cup {IconOf[f] : f \in direct \cap Fonts}

\* Memory holds what is needed and, beyond that, only pinned files.
Exact(h, m) == Needed(h) \subseteq m /\ m \ Needed(h) \subseteq Pinned

Init == holds = [c \in Clients |-> None] /\ memory = {} /\ open = TRUE

\* A client takes a file; one that is in memory is shared.
Take(c, f) ==
  /\ open /\ holds[c] = None
  /\ holds' = [holds EXCEPT ![c] = f]
  /\ memory' = memory \cup Needed(holds')
  /\ UNCHANGED open

\* A client gives its file back; only what was needed for it may go.
Release(c) ==
  /\ open /\ holds[c] # None
  /\ holds' = [holds EXCEPT ![c] = None]
  /\ memory' \subseteq memory
  /\ memory \ memory' \subseteq Needed(holds)
  /\ Exact(holds', memory')
  /\ UNCHANGED open

\* The drawing code fetches a pinned file.
Pin(f) ==
  /\ open
  /\ memory' = memory \cup {f}
  /\ UNCHANGED <<holds, open>>

\* The archives are closed and the memory is given back file by file.
Shut == open /\ open' = FALSE /\ UNCHANGED <<holds, memory>>

Drop(f) == ~open /\ memory' = memory \ {f} /\ UNCHANGED <<holds, open>>

Next == \/ \E c \in Clients, f \in Files : Take(c, f)
        \/ \E c \in Clients : Release(c)
        \/ \E f \in Pinned : Pin(f)
        \/ Shut
        \/ \E f \in Files : Drop(f)

Spec == Init /\ [][Next]_vars
=============================================================================
