--------------------------- MODULE ResourceCache ---------------------------
(***************************************************************************)
(* The resource manager (resource/resourceManager.cpp): a linked list of   *)
(* the files read from the .AGG archives, each with a reference count in a *)
(* signed 16-bit field.  A Get function counts one more user of a loaded   *)
(* file or loads it; Dispose counts one less and deletes the file when the *)
(* count is no longer positive; Close expunges the list.                   *)
(*                                                                         *)
(* A font is itself a user: its constructor gets the icon its glyphs are   *)
(* drawn from and its destructor disposes of that icon, so deleting a font *)
(* re-enters the manager.  combatManager::DrawFrame, CycleCombatScreen and *)
(* army::DrawToBuffer get an icon on every call and never dispose of it,   *)
(* so the count of a file in Leaky runs through all its 2^16 values.       *)
(***************************************************************************)
EXTENDS Integers, Sequences, FiniteSets

CONSTANTS
  Files, Fonts, IconOf,
  Leaky,      \* files the drawing code gets without disposing of them
  OwnerOf,    \* the one pointer variable that holds a leaky file as well
  Clients,    \* pointer variables of the game that hold a resource
  Objects,    \* addresses of resource objects
  None,       \* the null pointer
  Half        \* 2^15: the count is a number in -Half .. Half - 1

ASSUME FilesAssumption ==
  /\ Fonts \subseteq Files /\ Leaky \subseteq Files \ Fonts
  /\ IconOf \in [Fonts -> Files \ (Fonts \cup Leaky)]
  /\ OwnerOf \in [Leaky -> Clients]
  /\ None \notin Files \cup Objects

ASSUME HoldersAssumption ==
  /\ IsFiniteSet(Clients) /\ IsFiniteSet(Objects) /\ Clients \cap Objects = {}
  /\ Half \in Nat /\ Cardinality(Clients) + Cardinality(Objects) < Half

Holders == Clients \cup Objects
Pointer == Objects \cup {None}

VARIABLES
  list,       \* the loaded resources, firstLoadedResource first
  live,       \* the objects allocated and not deleted
  fileID,     \* the file an object was loaded from
  count,      \* referenceCount
  ref,        \* what a client points at; what icon a font object points at
  expunging,  \* the flag of the same name
  cursor,     \* Expunge's variable res
  ready       \* the manager is open

vars == <<list, live, fileID, count, ref, expunging, cursor, ready>>

-----------------------------------------------------------------------------
(***************************************************************************)
(* The list and the count.                                                 *)
(***************************************************************************)

\* Mutant: a count of more than 16 bits.
Wrap_Wide(n) == n

\* The count is signed and 16 bits wide; it changes by one at a time.
Wrap(n) == IF n = Half THEN -Half ELSE IF n = -Half - 1 THEN Half - 1 ELSE n

\* Query: the first resource of the list that was loaded from file f.
Found(f, o) ==
  \E i \in 1 .. Len(list) :
    /\ list[i] = o /\ fileID[o] = f
    /\ \A j \in 1 .. i - 1 : fileID[list[j]] # f

Missing(f) == \A i \in 1 .. Len(list) : fileID[list[i]] # f

\* AddResource: the new resource becomes the first.
AddResource(o, l) == <<o>> \o l

\* RemoveResource: the resource is unlinked, and nothing happens without it.
RemoveResource(o, l) ==
  IF \E k \in 1 .. Len(l) : l[k] = o
    THEN LET k == CHOOSE k \in 1 .. Len(l) : l[k] = o
         IN [i \in 1 .. Len(l) - 1 |-> IF i < k THEN l[i] ELSE l[i + 1]]
    ELSE l

\* Mutants: the test comes before the count is taken down, or is strict.
Unused_Early(n) == n <= 1
Unused_Late(n) == n < 0

\* Dispose deletes a resource once its count is no longer positive.
Unused(n) == n <= 0

\* The resource after o in the list.
NextOf(o) ==
  IF \E i \in 1 .. Len(list) - 1 : list[i] = o
    THEN list[1 + CHOOSE i \in 1 .. Len(list) - 1 : list[i] = o]
    ELSE None

-----------------------------------------------------------------------------
Init ==
  /\ list = <<>> /\ live = {} /\ ready = TRUE
  /\ fileID \in [Objects -> Files]
  /\ count = [o \in Objects |-> 0]
  /\ ref = [h \in Holders |-> None]
  /\ expunging = FALSE /\ cursor = None

\* The program is at a point where it may call the manager.
Idle == ready /\ ~expunging

\* A free pointer variable that may hold file f.
MayHold(c, f) == Idle /\ ref[c] = None /\ (f \in Leaky => c = OwnerOf[f])

\* Loading file f: the archive is read into a new object with a count of 1.
Load(o, f) ==
  /\ o \in Objects \ live
  /\ fileID' = [fileID EXCEPT ![o] = f]
  /\ count' = [count EXCEPT ![o] = 1]
  /\ live' = live \cup {o}
  /\ list' = AddResource(o, list)

\* GetIcon, GetBitmap, ... of a file that is loaded.
GetLoaded(c, f) ==
  /\ MayHold(c, f)
  /\ \E o \in Objects :
       /\ Found(f, o)
       /\ count' = [count EXCEPT ![o] = Wrap(@ + 1)]
       /\ ref' = [ref EXCEPT ![c] = o]
  /\ UNCHANGED <<list, live, fileID, expunging, cursor, ready>>

\* The same of a file that is not loaded and is no font.
GetNew(c, f) ==
  /\ MayHold(c, f) /\ f \notin Fonts /\ Missing(f)
  /\ \E o \in Objects : Load(o, f) /\ ref' = [ref EXCEPT ![c] = o]
  /\ UNCHANGED <<expunging, cursor, ready>>

\* GetFont of a font that is not loaded: its constructor gets the icon, and
\* the font is added to the list after that.
GetFontWithIcon(c, f) ==
  /\ MayHold(c, f) /\ f \in Fonts /\ Missing(f)
  /\ \E o \in Objects \ live, i \in Objects :
       /\ Found(IconOf[f], i)
       /\ count' = [count EXCEPT ![i] = Wrap(@ + 1), ![o] = 1]
       /\ fileID' = [fileID EXCEPT ![o] = f]
       /\ live' = live \cup {o}
       /\ ref' = [ref EXCEPT ![c] = o, ![o] = i]
       /\ list' = AddResource(o, list)
  /\ UNCHANGED <<expunging, cursor, ready>>

GetFontLoadingIcon(c, f) ==
  /\ MayHold(c, f) /\ f \in Fonts /\ Missing(f) /\ Missing(IconOf[f])
  /\ \E o, i \in Objects \ live :
       /\ o # i
       /\ count' = [count EXCEPT ![i] = 1, ![o] = 1]
       /\ fileID' = [fileID EXCEPT ![i] = IconOf[f], ![o] = f]
       /\ live' = live \cup {i, o}
       /\ ref' = [ref EXCEPT ![c] = o, ![o] = i]
       /\ list' = AddResource(o, AddResource(i, list))
  /\ UNCHANGED <<expunging, cursor, ready>>

\* The drawing code gets a leaky icon and forgets it.
DrawLoaded(f) ==
  /\ Idle
  /\ \E o \in Objects : Found(f, o) /\ count' = [count EXCEPT ![o] = Wrap(@ + 1)]
  /\ UNCHANGED <<list, live, fileID, ref, expunging, cursor, ready>>

DrawNew(f) ==
  /\ Idle /\ Missing(f)
  /\ \E o \in Objects : Load(o, f)
  /\ UNCHANGED <<ref, expunging, cursor, ready>>

\* Dispose of a resource that keeps other users.
DisposeShared(c) ==
  /\ Idle /\ ref[c] # None
  /\ ~Unused(Wrap(count[ref[c]] - 1))
  /\ count' = [count EXCEPT ![ref[c]] = Wrap(@ - 1)]
  /\ ref' = [ref EXCEPT ![c] = None]
  /\ UNCHANGED <<list, live, fileID, expunging, cursor, ready>>

\* Dispose of the last use of a resource that points at no other.
DisposeLast(c) ==
  /\ Idle /\ ref[c] # None
  /\ LET o == ref[c] IN
       /\ Unused(Wrap(count[o] - 1)) /\ ref[o] = None
       /\ count' = [count EXCEPT ![o] = 0]
       /\ list' = RemoveResource(o, list)
       /\ live' = live \ {o}
       /\ ref' = [ref EXCEPT ![c] = None]
  /\ UNCHANGED <<fileID, expunging, cursor, ready>>

\* Mutant: the font's destructor forgets its icon.
DisposeFont_KeepsIcon(c) ==
  /\ Idle /\ ref[c] # None
  /\ LET o == ref[c] IN
       /\ Unused(Wrap(count[o] - 1)) /\ ref[o] # None
       /\ ~Unused(Wrap(count[ref[o]] - 1))
       /\ count' = [count EXCEPT ![o] = 0]
       /\ list' = RemoveResource(o, list)
       /\ live' = live \ {o}
       /\ ref' = [ref EXCEPT ![c] = None, ![o] = None]
  /\ UNCHANGED <<fileID, expunging, cursor, ready>>

\* Dispose of the last use of a font: its destructor disposes of the icon,
\* which stays for its other users ...
DisposeFont(c) ==
  /\ Idle /\ ref[c] # None
  /\ LET o == ref[c] IN
       /\ Unused(Wrap(count[o] - 1)) /\ ref[o] # None
       /\ ~Unused(Wrap(count[ref[o]] - 1))
       /\ count' = [count EXCEPT ![o] = 0, ![ref[o]] = Wrap(@ - 1)]
       /\ list' = RemoveResource(o, list)
       /\ live' = live \ {o}
       /\ ref' = [ref EXCEPT ![c] = None, ![o] = None]
  /\ UNCHANGED <<fileID, expunging, cursor, ready>>

\* ... or goes with the font.
DisposeFontAndIcon(c) ==
  /\ Idle /\ ref[c] # None
  /\ LET o == ref[c] IN
       /\ Unused(Wrap(count[o] - 1)) /\ ref[o] # None
       /\ Unused(Wrap(count[ref[o]] - 1))
       /\ count' = [count EXCEPT ![o] = 0, ![ref[o]] = 0]
       /\ list' = RemoveResource(ref[o], RemoveResource(o, list))
       /\ live' = live \ {o, ref[o]}
       /\ ref' = [ref EXCEPT ![c] = None, ![o] = None]
  /\ UNCHANGED <<fileID, expunging, cursor, ready>>

\* Close: Expunge walks the list and deletes every resource, used or not.
ExpungeStart ==
  /\ Idle
  /\ expunging' = TRUE
  /\ cursor' = IF list = <<>> THEN None ELSE Head(list)
  /\ UNCHANGED <<list, live, fileID, count, ref, ready>>

\* Mutant: Dispose also works while the list is expunged.
DisposedWith_Icon(o) == {ref[o]} \ {None}

\* What a font's destructor disposes of while the list is expunged: Dispose
\* returns at once.
DisposedWith(o) == {}

ExpungeNext ==
  /\ expunging /\ cursor # None
  /\ cursor' = NextOf(cursor)
  /\ list' = RemoveResource(cursor, list)
  /\ live' = live \ ({cursor} \cup DisposedWith(cursor))
  /\ count' = [count EXCEPT ![cursor] = 0]
  /\ ref' = [ref EXCEPT ![cursor] = None]
  /\ UNCHANGED <<fileID, expunging, ready>>

ExpungeEnd ==
  /\ expunging /\ cursor = None
  /\ expunging' = FALSE /\ ready' = FALSE /\ list' = <<>>
  /\ UNCHANGED <<live, fileID, count, ref, cursor>>

Get(c, f) == \/ GetLoaded(c, f) \/ GetNew(c, f)
             \/ GetFontWithIcon(c, f) \/ GetFontLoadingIcon(c, f)

Dispose(c) == \/ DisposeShared(c) \/ DisposeLast(c)
              \/ DisposeFont(c) \/ DisposeFontAndIcon(c)

Draw(f) == DrawLoaded(f) \/ DrawNew(f)

Next ==
  \/ \E c \in Clients, f \in Files : Get(c, f)
  \/ \E c \in Clients : Dispose(c)
  \/ \E f \in Leaky : Draw(f)
  \/ ExpungeStart \/ ExpungeNext \/ ExpungeEnd

Spec == Init /\ [][Next]_vars

-----------------------------------------------------------------------------
(***************************************************************************)
(* Properties.                                                             *)
(***************************************************************************)

Loaded == {list[i] : i \in 1 .. Len(list)}
UsersOf(r, o) == {h \in Holders : r[h] = o}

TypeOK ==
  /\ list \in Seq(Objects) /\ live \subseteq Objects
  /\ fileID \in [Objects -> Files]
  /\ count \in [Objects -> -Half .. Half - 1]
  /\ ref \in [Holders -> Pointer]
  /\ expunging \in BOOLEAN /\ cursor \in Pointer /\ ready \in BOOLEAN

\* While the manager is in use nobody points at a deleted resource, not even
\* when the count of a leaked icon has wrapped to a negative number, and a
\* pointer to a leaky file is only ever its owner's (resourceManager::Dispose,
\* ++referenceCount in every Get, combat.cpp:787 and 1257, army.cpp:2730).
NoDangling ==
  Idle => \A h \in Holders : ref[h] # None => ref[h] \in live

\* The count of a file that is not leaked is the number of its users, and a
\* loaded file has one: nothing is deleted early and nothing is kept after
\* its last Dispose, through the re-entrant one of a font too.
CountsUsers ==
  Idle => \A o \in live : fileID[o] \notin Leaky =>
            count[o] = Cardinality(UsersOf(ref, o)) /\ count[o] > 0

\* No file is in memory twice, and the list links exactly the live objects:
\* every Get of one file shares one object (Query before every load).
LoadedOnce ==
  /\ ready => Loaded = live
  /\ \A i, j \in 1 .. Len(list) : fileID[list[i]] = fileID[list[j]] => i = j

\* Expunge's cursor is never an object that was deleted under it, although
\* deleting a font disposes of an icon that may come next in the list; and
\* closing frees everything.
ExpungeSafe ==
  /\ cursor # None => cursor \in live
  /\ ~ready => live = {}

\* The file a client holds, and the files in memory.
Held == [c \in Clients |-> IF ref[c] = None THEN None ELSE fileID[ref[c]]]
InMemory == {fileID[o] : o \in live}

\* The manager implements Handles: a file is in memory exactly while it is
\* needed, except for leaked ones.
Abstract == INSTANCE Handles WITH
  Pinned <- Leaky, holds <- Held, memory <- InMemory, open <- Idle

ImplementsHandles == Abstract!Spec
=============================================================================
