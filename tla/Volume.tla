------------------------------- MODULE Volume -------------------------------
(***************************************************************************)
(* The file system as chgen's planner sees it (internal/project/run.go and *)
(* inputs.go): directories that are real, symbolic links or not there, and *)
(* the entries of the real ones.  A volume may ignore case: then names     *)
(* with the same folding name one entry.                                   *)
(*                                                                         *)
(* A path is [dir, name], spelled as the configuration or a listing spells *)
(* it; links do not lead to links.                                         *)
(***************************************************************************)
EXTENDS Naturals

CONSTANTS
  Directories, Names,
  Folded             \* case and Unicode folding of the names of both

Nowhere == "nowhere"
ASSUME NamesAssumption ==
  /\ Nowhere \notin Directories \cup Names
  /\ Directories \cup Names \cup {Nowhere} \subseteq DOMAIN Folded

VARIABLE disk        \* [sensitive, target, entry]

Paths == [dir: Directories, name: Names]

NoPath == [dir |-> Nowhere, name |-> Nowhere]
Absent == [kind |-> "absent", inode |-> 0, to |-> NoPath]
File(i) == [kind |-> "file", inode |-> i, to |-> NoPath]
Folder == [kind |-> "folder", inode |-> 0, to |-> NoPath]
Device == [kind |-> "device", inode |-> 0, to |-> NoPath]
Link(p) == [kind |-> "link", inode |-> 0, to |-> p]

Same(x, y) == IF disk.sensitive THEN x = y ELSE Folded[x] = Folded[y]

(***************************************************************************)
(* Looking up a path.                                                      *)
(***************************************************************************)
\* target[d] is d for a real directory, where a link points, or Nowhere.
Present(e) == disk.target[e] # Nowhere
OneOf(entries) == IF entries = {} THEN Nowhere ELSE CHOOSE e \in entries : TRUE
DirectoryEntry(d) == OneOf({e \in Directories : Same(e, d) /\ Present(e)})
IsReal(e) == e # Nowhere /\ disk.target[e] = e

\* The real directory that d leads to.
IfReal(e) == IF IsReal(e) THEN e ELSE Nowhere
FollowDirectory(e) ==
  IF e = Nowhere \/ IsReal(e) THEN e ELSE IfReal(DirectoryEntry(disk.target[e]))
Home(d) == FollowDirectory(DirectoryEntry(d))
Exists(d) == Home(d) # Nowhere

\* The names in a real directory, and what lstat and stat find at a path.
NamesIn(home) == IF home = Nowhere THEN {} ELSE {n \in Names : disk.entry[home][n].kind # "absent"}
Listing(d) == NamesIn(Home(d))
EntryNamed(home, names) == IF names = {} THEN Absent ELSE disk.entry[home][OneOf(names)]
LstatIn(home, name) == EntryNamed(home, {n \in NamesIn(home) : Same(n, name)})
Lstat(p) == LstatIn(Home(p.dir), p.name)
Follow(e) == IF e.kind = "link" THEN Lstat(e.to) ELSE e
Stat(p) == Follow(Lstat(p))

(***************************************************************************)
(* Canonical paths: links are followed, the rest keeps its spelling.       *)
(***************************************************************************)
CanonicalFrom(d, e) ==
  IF e = Nowhere \/ IsReal(e) THEN d                    \* for Nowhere, nothing is there yet
  ELSE IF FollowDirectory(e) = Nowhere THEN Nowhere     \* a link that leads nowhere
  ELSE disk.target[e]
CanonicalDirectory(d) == CanonicalFrom(d, DirectoryEntry(d))

In(dir, name) == IF dir = Nowhere THEN NoPath ELSE [dir |-> dir, name |-> name]
CanonicalLeaf(p, found) ==
  IF Follow(found).kind = "absent" THEN NoPath
  ELSE IF found.kind = "link" THEN In(CanonicalDirectory(found.to.dir), found.to.name)
  ELSE In(CanonicalDirectory(p.dir), p.name)
CanonicalExistingPath(p) == CanonicalLeaf(p, Lstat(p))

CanonicalPotential(p, found) ==
  IF found.kind = "absent" THEN In(CanonicalDirectory(p.dir), p.name) ELSE CanonicalLeaf(p, found)
CanonicalPotentialPath(p) == CanonicalPotential(p, Lstat(p))

\* Keys are the spelling (a seeded fault).
FoldedNameAsSpelled(x) == x
FoldedName(x) == Folded[x]
PortableCollisionKey(p) == <<FoldedName(p.dir), FoldedName(p.name)>>

(***************************************************************************)
(* What the volume itself takes for one place.                             *)
(***************************************************************************)
Spelling(x) == IF disk.sensitive THEN x ELSE Folded[x]
PlaceFrom(d, home) == Spelling(IF home = Nowhere THEN d ELSE home)
DirectoryPlace(d) == PlaceFrom(d, Home(d))
Place(p) == <<DirectoryPlace(p.dir), Spelling(p.name)>>
=============================================================================
