-------------------------- MODULE OutputPlanProofs --------------------------
(***************************************************************************)
(* Theorems about OutputPlan, for every configuration, volume and folding: *)
(* on an undisturbed volume the plan that is accepted is safe, although    *)
(* the planner compares keys and identities and the volume has places; a   *)
(* plan is refused only for a reason; and on a volume that changes, no     *)
(* file that nobody touched is forgotten or made up.                       *)
(***************************************************************************)
EXTENDS OutputPlan, Integers, TLAPS

-----------------------------------------------------------------------------
(***************************************************************************)
(* Keys, places and identities on one volume.                              *)
(***************************************************************************)
LEMMA ChosenOne == ASSUME NEW S, S # {} PROVE OneOf(S) \in S
  BY DEF OneOf

\* What a directory path leads to: the four cases of DirectoryEntry.
LEMMA EntryFound ==
  ASSUME NEW d PROVE
  LET e == DirectoryEntry(d) IN
  \/ e = Nowhere /\ \A x \in Directories : ~(Same(x, d) /\ Present(x))
  \/ e \in Directories /\ e # Nowhere /\ Same(e, d) /\ Present(e)
<1> DEFINE S == {e \in Directories : Same(e, d) /\ Present(e)}
<1>1. CASE S = {}
  BY <1>1 DEF DirectoryEntry, OneOf
<1>2. CASE S # {}
  <2>1. OneOf(S) \in S  BY <1>2, ChosenOne
  <2> QED  BY <2>1, NamesAssumption DEF DirectoryEntry
<1> QED  BY <1>1, <1>2

\* Following the links of a directory once is enough, and changes nothing
\* about where it leads.
LEMMA CanonicalStays ==
  ASSUME NEW d, CanonicalDirectory(d) # Nowhere
  PROVE  /\ CanonicalDirectory(CanonicalDirectory(d)) = CanonicalDirectory(d)
         /\ Home(CanonicalDirectory(d)) = Home(d)
<1> DEFINE e == DirectoryEntry(d)
<1>1. CASE e = Nowhere \/ IsReal(e)
  BY <1>1 DEF CanonicalDirectory, CanonicalFrom
<1>2. CASE ~(e = Nowhere \/ IsReal(e))
  <2>1. FollowDirectory(e) # Nowhere /\ CanonicalDirectory(d) = disk.target[e]
    BY <1>2 DEF CanonicalDirectory, CanonicalFrom
  <2>2. IsReal(DirectoryEntry(disk.target[e]))
    BY <1>2, <2>1 DEF FollowDirectory, IfReal
  <2> QED  BY <1>2, <2>1, <2>2 DEF CanonicalDirectory, CanonicalFrom, Home, FollowDirectory, IfReal
<1> QED  BY <1>1, <1>2

\* The volume's place of a directory, folded, is the folded canonical path.
LEMMA PlaceFolds ==
  ASSUME NEW d, CanonicalDirectory(d) # Nowhere
  PROVE  Folded[CanonicalDirectory(d)] = IF disk.sensitive THEN Folded[DirectoryPlace(d)] ELSE DirectoryPlace(d)
<1> DEFINE e == DirectoryEntry(d)
<1>1. CASE e = Nowhere
  BY <1>1 DEF CanonicalDirectory, CanonicalFrom, DirectoryPlace, PlaceFrom, Home, FollowDirectory, Spelling
<1>2. CASE e # Nowhere /\ IsReal(e)
  <2>1. Same(e, d)  BY <1>2, EntryFound
  <2>2. Home(d) = e /\ CanonicalDirectory(d) = d
    BY <1>2 DEF CanonicalDirectory, CanonicalFrom, Home, FollowDirectory
  <2>3. Folded[e] = Folded[d]  BY <2>1 DEF Same
  <2> QED  BY <1>2, <2>2, <2>3 DEF DirectoryPlace, PlaceFrom, Spelling
<1>3. CASE e # Nowhere /\ ~IsReal(e)
  <2> DEFINE t == disk.target[e]
  <2>1. FollowDirectory(e) # Nowhere /\ CanonicalDirectory(d) = t
    BY <1>3 DEF CanonicalDirectory, CanonicalFrom
  <2>2. IsReal(DirectoryEntry(t)) /\ Home(d) = DirectoryEntry(t) /\ DirectoryEntry(t) # Nowhere
    BY <1>3, <2>1 DEF FollowDirectory, IfReal, Home, IsReal
  <2>3. Same(DirectoryEntry(t), t)  BY <2>2, EntryFound
  <2>4. Folded[DirectoryEntry(t)] = Folded[t]  BY <2>3 DEF Same
  <2> QED  BY <2>1, <2>2, <2>4 DEF DirectoryPlace, PlaceFrom, Spelling
<1> QED  BY <1>1, <1>2, <1>3

LEMMA PlaceGivesKey ==
  ASSUME NEW c, NEW d, CanonicalDirectory(c) # Nowhere, CanonicalDirectory(d) # Nowhere,
         DirectoryPlace(c) = DirectoryPlace(d)
  PROVE  Folded[CanonicalDirectory(c)] = Folded[CanonicalDirectory(d)]
BY PlaceFolds

\* Two canonical directories in one place are one directory.
LEMMA PlaceGivesHome ==
  ASSUME NEW c, NEW d, CanonicalDirectory(c) = c, CanonicalDirectory(d) = d,
         c # Nowhere, d # Nowhere, Home(c) # Nowhere, Home(d) # Nowhere,
         DirectoryPlace(c) = DirectoryPlace(d)
  PROVE  Home(c) = Home(d)
<1>1. CASE disk.sensitive
  BY <1>1 DEF DirectoryPlace, PlaceFrom, Spelling
<1>2. CASE ~disk.sensitive
  <2>1. Folded[c] = Folded[d]  BY PlaceGivesKey
  <2>2. \A x : Same(x, c) <=> Same(x, d)  BY <1>2, <2>1 DEF Same
  <2>3. {x \in Directories : Same(x, c) /\ Present(x)} = {x \in Directories : Same(x, d) /\ Present(x)}
    BY <2>2
  <2> QED  BY <2>3 DEF Home, DirectoryEntry
<1> QED  BY <1>1, <1>2

LEMMA HomeHasCanonical ==
  ASSUME NEW d, d # Nowhere, Home(d) # Nowhere PROVE CanonicalDirectory(d) # Nowhere
<1> DEFINE e == DirectoryEntry(d)
<1>1. e = Nowhere \/ Present(e)  BY EntryFound
<1> QED  BY <1>1 DEF CanonicalDirectory, CanonicalFrom, Home, Present

LEMMA FileHasHome ==
  ASSUME NEW p, Lstat(p).kind # "absent"
  PROVE  Home(p.dir) # Nowhere
BY DEF Lstat, LstatIn, NamesIn, EntryNamed, Absent

\* The canonical path of a file is the file that stat finds.
LEMMA OpenedIsStat ==
  ASSUME NEW p, Opened(p) # NoPath
  PROVE  /\ Lstat(Opened(p)) = Stat(p)
         /\ Opened(p).dir # Nowhere
         /\ CanonicalDirectory(Opened(p).dir) = Opened(p).dir
<1>1. \A d, n : In(CanonicalDirectory(d), n) # NoPath =>
        /\ Lstat(In(CanonicalDirectory(d), n)) = LstatIn(Home(d), n)
        /\ In(CanonicalDirectory(d), n).dir # Nowhere
        /\ CanonicalDirectory(In(CanonicalDirectory(d), n).dir) = In(CanonicalDirectory(d), n).dir
  BY CanonicalStays DEF In, Lstat
<1>2. CASE Lstat(p).kind = "link"
  <2>1. Opened(p) = In(CanonicalDirectory(Lstat(p).to.dir), Lstat(p).to.name)
    BY <1>2 DEF Opened, CanonicalExistingPath, CanonicalLeaf
  <2>2. Stat(p) = LstatIn(Home(Lstat(p).to.dir), Lstat(p).to.name)
    BY <1>2 DEF Stat, Follow, Lstat
  <2> QED  BY <1>1, <2>1, <2>2
<1>3. CASE Lstat(p).kind # "link"
  <2>1. Opened(p) = In(CanonicalDirectory(p.dir), p.name)
    BY <1>3 DEF Opened, CanonicalExistingPath, CanonicalLeaf
  <2>2. Stat(p) = LstatIn(Home(p.dir), p.name)
    BY <1>3 DEF Stat, Follow, Lstat
  <2> QED  BY <1>1, <2>1, <2>2
<1> QED  BY <1>2, <1>3

LEMMA HomeIsReal == ASSUME NEW d PROVE Home(d) \in Directories \cup {Nowhere}
<1>1. \A x : DirectoryEntry(x) \in Directories \cup {Nowhere}  BY EntryFound
<1> QED  BY <1>1 DEF Home, FollowDirectory, IfReal

\* Files have an identity, and links name a directory.
LEMMA EntriesWell ==
  ASSUME NEW p, disk \in Disks
  PROVE  /\ Lstat(p).kind = "file" => Lstat(p).inode # 0
         /\ Lstat(p).kind = "link" => Lstat(p).to.dir # Nowhere
<1> DEFINE names == {n \in NamesIn(Home(p.dir)) : Same(n, p.name)}
<1>1. CASE names = {}
  BY <1>1 DEF Lstat, LstatIn, EntryNamed, Absent
<1>2. CASE names # {}
  <2>1. OneOf(names) \in names  BY <1>2, ChosenOne
  <2>2. Home(p.dir) \in Directories /\ OneOf(names) \in Names
    BY <2>1, HomeIsReal DEF NamesIn
  <2>3. Lstat(p) = disk.entry[Home(p.dir)][OneOf(names)]
    BY <1>2 DEF Lstat, LstatIn, EntryNamed
  <2>4. Lstat(p).kind = "link" => Lstat(p).to \in Paths  BY <2>2, <2>3, DisksAssumption
  <2> QED  BY <2>2, <2>3, <2>4, DisksAssumption, NamesAssumption DEF Paths
<1> QED  BY <1>1, <1>2

\* What the planner records of an output and of a file, if nobody interferes.
Plan(o) == [path |-> o, canonical |-> CanonicalPotentialPath(o),
            directory |-> CanonicalDirectory(o.dir), inode |-> Lstat(o).inode]
GoodOutput(o) ==
  /\ CanonicalPotentialPath(o) # NoPath
  /\ CanonicalDirectory(o.dir) # Nowhere
  /\ Lstat(o).kind \in {"absent", "file"}
Read(p) == [path |-> p, canonical |-> Opened(p), inode |-> Stat(p).inode]
GoodInput(p) == Opened(p) # NoPath /\ Stat(p).kind = "file"

LEMMA OutputCanonical ==
  ASSUME NEW o, GoodOutput(o)
  PROVE  CanonicalPotentialPath(o) = [dir |-> CanonicalDirectory(o.dir), name |-> o.name]
<1>1. CASE Lstat(o).kind = "absent"
  BY <1>1 DEF GoodOutput, CanonicalPotentialPath, CanonicalPotential, In
<1>2. CASE Lstat(o).kind = "file"
  BY <1>2 DEF GoodOutput, CanonicalPotentialPath, CanonicalPotential, CanonicalLeaf, Follow, In
<1> QED  BY <1>1, <1>2 DEF GoodOutput

LEMMA OutputsApart ==
  ASSUME NEW a, NEW b, GoodOutput(a), GoodOutput(b), ~Collide(Plan(a), Plan(b)),
         FoldedName(Plan(a).directory) # FoldedName(Plan(b).directory)
  PROVE  ~OneFile(a, b) /\ DirectoryPlace(a.dir) # DirectoryPlace(b.dir)
<1>1. DirectoryPlace(a.dir) # DirectoryPlace(b.dir)
  BY PlaceGivesKey DEF GoodOutput, Plan, FoldedName
<1>2. ~SameFile(Lstat(a), Lstat(b))  BY DEF Collide, SameFile, Plan
<1> QED  BY <1>1, <1>2 DEF OneFile, Place

LEMMA OutputApartFromFile ==
  ASSUME NEW o, NEW f, GoodOutput(o), Opened(f) # NoPath, ~Collide(Plan(o), Read(f))
  PROVE  ~OneFile(o, Opened(f))
<1> DEFINE c == Opened(f)
<1>1. c.dir # Nowhere /\ CanonicalDirectory(c.dir) = c.dir /\ Lstat(c) = Stat(f)
  BY OpenedIsStat
<1>2. ~SameFile(Lstat(o), Lstat(c))  BY <1>1 DEF Collide, SameFile, Plan, Read
<1>3. Place(o) # Place(c)
  <2> SUFFICES ASSUME DirectoryPlace(o.dir) = DirectoryPlace(c.dir), Spelling(o.name) = Spelling(c.name)
               PROVE  FALSE
    BY DEF Place
  <2>1. Folded[CanonicalDirectory(o.dir)] = Folded[c.dir]
    BY <1>1, PlaceGivesKey DEF GoodOutput
  <2>2. Folded[o.name] = Folded[c.name]  BY DEF Spelling
  <2> QED  BY <2>1, <2>2, OutputCanonical DEF Collide, SameKey, PortableCollisionKey, FoldedName, Plan, Read
<1> QED  BY <1>2, <1>3 DEF OneFile

LEMMA FilesApart ==
  ASSUME NEW f, NEW g, disk \in Disks, GoodInput(f), GoodInput(g), ~Duplicate(Read(f), Read(g))
  PROVE  ~OneFile(Opened(f), Opened(g))
<1> DEFINE c == Opened(f)
           d == Opened(g)
<1>1. /\ c.dir # Nowhere /\ CanonicalDirectory(c.dir) = c.dir /\ Lstat(c) = Stat(f)
      /\ d.dir # Nowhere /\ CanonicalDirectory(d.dir) = d.dir /\ Lstat(d) = Stat(g)
  BY OpenedIsStat DEF GoodInput
<1>2. ~SameFile(Lstat(c), Lstat(d))  BY <1>1 DEF Duplicate, SameFile, Read
<1>3. Place(c) # Place(d)
  <2> SUFFICES ASSUME DirectoryPlace(c.dir) = DirectoryPlace(d.dir), Spelling(c.name) = Spelling(d.name)
               PROVE  FALSE
    BY DEF Place
  <2>1. Home(c.dir) # Nowhere /\ Home(d.dir) # Nowhere  BY <1>1, FileHasHome DEF GoodInput
  <2>2. Home(c.dir) = Home(d.dir)  BY <1>1, <2>1, PlaceGivesHome
  <2>3. \A n : Same(n, c.name) <=> Same(n, d.name)  BY DEF Same, Spelling
  <2>4. {n \in NamesIn(Home(c.dir)) : Same(n, c.name)} = {n \in NamesIn(Home(d.dir)) : Same(n, d.name)}
    BY <2>2, <2>3
  <2>5. Lstat(c) = Lstat(d)  BY <2>2, <2>4 DEF Lstat, LstatIn
  <2>6. Lstat(c).inode # 0  BY <1>1, EntriesWell DEF GoodInput
  <2> QED  BY <1>2, <2>5, <2>6 DEF SameFile
<1> QED  BY <1>2, <1>3 DEF OneFile
-----------------------------------------------------------------------------
(***************************************************************************)
(* The inductive invariant: as long as nobody has interfered, everything   *)
(* that the planner recorded is what the volume says, and what it compared *)
(* is apart.                                                               *)
(***************************************************************************)
Expanding == {"entry", "read", "select", "identify"}
Packages == DOMAIN config.packages

Where ==
  /\ kind \in {"schema", "queries"}
  /\ package \in Nat \ {0}
  /\ phase \in {"begin", "resolve", "inspect", "decide", "accepted"} \cup Expanding
  /\ phase = "begin" => package = 1 /\ Len(outputs) = 0
  /\ phase \in {"resolve", "inspect"} => package \in Packages /\ Len(outputs) = package - 1
  /\ phase \in Expanding => package \in Packages /\ Len(outputs) = Len(config.packages)
  /\ phase \in {"decide", "accepted"} =>
       package = Len(config.packages) + 1 /\ Len(outputs) = Len(config.packages)

ConfigInv ==
  phase # "begin" =>
    /\ Opened(config.file) # NoPath
    /\ configFile = [canonical |-> Opened(config.file), inode |-> Stat(config.file).inode]

OutputsInv ==
  /\ outputs \in Seq({Plan(o) : o \in PlannedOutputs})
  /\ \A i \in DOMAIN outputs :
       /\ i \in Packages
       /\ outputs[i] = Plan(config.packages[i].output)
       /\ GoodOutput(config.packages[i].output)
       /\ ~Collide(outputs[i], configFile)
  /\ \A i, j \in DOMAIN outputs : i < j =>
       /\ ~Collide(outputs[j], outputs[i])
       /\ FoldedName(outputs[j].directory) # FoldedName(outputs[i].directory)

HandInv ==
  /\ phase = "inspect" => resolving = CanonicalPotentialPath(Output) /\ resolving # NoPath
  /\ phase = "identify" => chosen # {} /\ resolving = Opened(Selected) /\ resolving # NoPath
  /\ \A p \in chosen : Stat(p).kind = "file"

InputsInv ==
  /\ DOMAIN inputs = Packages
  /\ \A i \in Packages :
       /\ DOMAIN inputs[i] = {"schema", "queries"}
       /\ \A k \in {"schema", "queries"} : \A f \in inputs[i][k] :
            /\ f = Read(f.path) /\ GoodInput(f.path)
            /\ \A g \in inputs[i][k] : f # g => ~Duplicate(f, g)
       /\ phase \in Expanding \cup {"decide", "accepted"} /\ i < package =>
            \A f \in inputs[i].schema, g \in inputs[i].queries : ~Duplicate(f, g)

DecidedInv ==
  phase = "accepted" =>
    \A f \in AllInputs : ~Collide(configFile, f) /\ \A i \in DOMAIN outputs : ~Collide(outputs[i], f)

PlanInv ==
  /\ disturbed \in Nat
  /\ Undisturbed /\ phase # "refused" =>
       /\ disk \in Disks /\ config \in Configurations
       /\ Where /\ ConfigInv /\ OutputsInv /\ HandInv /\ InputsInv /\ DecidedInv

LEMMA InitPlan == Init => PlanInv
<1> SUFFICES ASSUME Init PROVE PlanInv  OBVIOUS
<1> USE DEF Init
<1>1. Where  BY DEF Where, Expanding
<1>2. ConfigInv  BY DEF ConfigInv
<1>3. OutputsInv  BY DEF OutputsInv
<1>4. HandInv  BY DEF HandInv
<1>5. InputsInv  BY DEF InputsInv, Packages, Expanding
<1>6. DecidedInv  BY DEF DecidedInv
<1> QED  BY <1>1, <1>2, <1>3, <1>4, <1>5, <1>6 DEF PlanInv

\* The invariant is sound: what it says of an accepted plan is its safety.
LEMMA PlanIsSafe == PlanInv => AcceptedIsSafe
<1> SUFFICES ASSUME PlanInv, phase = "accepted", Undisturbed
             PROVE  /\ \A i, j \in DOMAIN outputs : i # j =>
                          /\ ~OneFile(outputs[i].path, outputs[j].path)
                          /\ DirectoryPlace(outputs[i].path.dir) # DirectoryPlace(outputs[j].path.dir)
                    /\ \A o \in PlannedOutputs :
                          /\ ~OneFile(o, Opened(config.file))
                          /\ \A f \in AllInputs : ~OneFile(o, Opened(f.path))
                    /\ \A i \in DOMAIN inputs : \A f, g \in InputsOf(i) :
                          f # g => ~OneFile(Opened(f.path), Opened(g.path))
  BY DEF AcceptedIsSafe
<1>0. /\ disk \in Disks /\ config \in Configurations
      /\ Where /\ ConfigInv /\ OutputsInv /\ InputsInv /\ DecidedInv
  BY DEF PlanInv
<1>a. \A i \in DOMAIN outputs : outputs[i].path = config.packages[i].output /\ GoodOutput(outputs[i].path)
                                /\ outputs[i] = Plan(outputs[i].path)
  BY <1>0 DEF OutputsInv, Plan
<1>b. \A o \in PlannedOutputs : \E i \in DOMAIN outputs : outputs[i].path = o
  <2>1. DOMAIN outputs = Packages
    BY <1>0, ConfigurationsAssumption DEF OutputsInv, Where, Packages
  <2> QED  BY <1>a, <2>1 DEF PlannedOutputs, Packages
<1>c. \A a, b : Collide(a, b) <=> Collide(b, a)  BY DEF Collide, SameKey, SameFile
<1>d. \A a, b : Duplicate(a, b) <=> Duplicate(b, a)  BY DEF Duplicate, SameFile
<1>e. \A i \in DOMAIN inputs : \A f \in InputsOf(i) : f = Read(f.path) /\ GoodInput(f.path) /\ f \in AllInputs
  BY <1>0 DEF InputsInv, InputsOf, AllInputs
<1>1. ASSUME NEW i \in DOMAIN outputs, NEW j \in DOMAIN outputs, i # j
      PROVE  /\ ~OneFile(outputs[i].path, outputs[j].path)
             /\ DirectoryPlace(outputs[i].path.dir) # DirectoryPlace(outputs[j].path.dir)
  <2>0. i \in Int /\ j \in Int  BY <1>0 DEF OutputsInv
  <2>1. /\ ~Collide(outputs[i], outputs[j])
        /\ FoldedName(outputs[i].directory) # FoldedName(outputs[j].directory)
    BY <1>0, <1>1, <1>c, <2>0 DEF OutputsInv
  <2> QED  BY <1>a, <2>1, OutputsApart
<1>2. ASSUME NEW o \in PlannedOutputs PROVE ~OneFile(o, Opened(config.file))
  <2>1. PICK i \in DOMAIN outputs : outputs[i].path = o  BY <1>b
  <2>2. ~Collide(Plan(o), configFile)  BY <1>0, <1>a, <2>1 DEF OutputsInv
  <2>3. Opened(config.file) # NoPath
        /\ configFile = [canonical |-> Opened(config.file), inode |-> Stat(config.file).inode]
    BY <1>0 DEF ConfigInv
  <2>4. ~Collide(Plan(o), Read(config.file))
    BY <2>2, <2>3 DEF Collide, SameKey, SameFile, Read
  <2> QED  BY <1>a, <2>1, <2>3, <2>4, OutputApartFromFile
<1>3. ASSUME NEW o \in PlannedOutputs, NEW f \in AllInputs PROVE ~OneFile(o, Opened(f.path))
  <2>1. PICK i \in DOMAIN outputs : outputs[i].path = o  BY <1>b
  <2>2. ~Collide(Plan(o), f)  BY <1>0, <1>a, <2>1 DEF DecidedInv
  <2>3. f = Read(f.path) /\ GoodInput(f.path)  BY <1>e DEF AllInputs
  <2> QED  BY <1>a, <2>1, <2>2, <2>3, OutputApartFromFile DEF GoodInput
<1>4. ASSUME NEW i \in DOMAIN inputs, NEW f \in InputsOf(i), NEW g \in InputsOf(i), f # g
      PROVE  ~OneFile(Opened(f.path), Opened(g.path))
  <2>1. i \in Packages /\ i < package
    BY <1>0, ConfigurationsAssumption DEF InputsInv, Where, Packages
  <2>2. ~Duplicate(f, g)  BY <1>0, <1>4, <1>d, <2>1 DEF InputsInv, InputsOf
  <2> QED  BY <1>0, <1>e, <2>2, FilesApart
<1> QED  BY <1>1, <1>2, <1>3, <1>4
-----------------------------------------------------------------------------
(***************************************************************************)
(* The steps of the planner.                                               *)
(***************************************************************************)
LEMMA SameVolume ==
  ASSUME disk' = disk
  PROVE  \A p : /\ Lstat(p)' = Lstat(p) /\ Stat(p)' = Stat(p) /\ Opened(p)' = Opened(p)
                /\ CanonicalPotentialPath(p)' = CanonicalPotentialPath(p)
                /\ CanonicalDirectory(p)' = CanonicalDirectory(p)
<1>1. \A x : DirectoryEntry(x)' = DirectoryEntry(x)
  BY DEF DirectoryEntry, Same, Present
<1>2. \A x : FollowDirectory(x)' = FollowDirectory(x)
  BY <1>1 DEF FollowDirectory, IsReal, IfReal
<1>3. \A x : Home(x)' = Home(x)  BY <1>1, <1>2 DEF Home
<1>4. \A x : CanonicalDirectory(x)' = CanonicalDirectory(x)
  BY <1>1, <1>2 DEF CanonicalDirectory, CanonicalFrom, IsReal
<1>5. \A x, n : LstatIn(x, n)' = LstatIn(x, n)
  BY DEF LstatIn, EntryNamed, NamesIn, Same
<1>6. \A p : Lstat(p)' = Lstat(p)  BY <1>3, <1>5 DEF Lstat
<1>7. \A e : Follow(e)' = Follow(e)  BY <1>6 DEF Follow
<1>8. \A p, e : CanonicalLeaf(p, e)' = CanonicalLeaf(p, e)
  BY <1>4, <1>7 DEF CanonicalLeaf
<1> QED
  BY <1>4, <1>6, <1>7, <1>8
  DEF Stat, Opened, CanonicalExistingPath, CanonicalPotentialPath, CanonicalPotential

LEMMA SameRecords ==
  ASSUME disk' = disk
  PROVE  \A p : /\ Plan(p)' = Plan(p) /\ GoodOutput(p)' = GoodOutput(p)
                /\ Read(p)' = Read(p) /\ GoodInput(p)' = GoodInput(p)
BY SameVolume DEF Plan, GoodOutput, Read, GoodInput

\* What a step leaves alone stays true.
LEMMA KeepsConfig ==
  ASSUME UNCHANGED <<disk, config, configFile>>, ConfigInv, phase # "begin" PROVE ConfigInv'
BY SameVolume DEF ConfigInv

LEMMA KeepsOutputs ==
  ASSUME UNCHANGED <<disk, config, configFile, outputs>>, OutputsInv PROVE OutputsInv'
<1>1. {Plan(o) : o \in PlannedOutputs}' = {Plan(o) : o \in PlannedOutputs}
  BY SameRecords DEF PlannedOutputs
<1> QED
  BY <1>1, SameRecords
  DEF OutputsInv, Packages, Collide, SameKey, SameFile, PortableCollisionKey, FoldedName

LEMMA KeepsInputs ==
  ASSUME UNCHANGED <<disk, config, package, inputs>>, InputsInv,
         phase \in Expanding \cup {"decide"} \/ phase' \notin Expanding \cup {"decide", "accepted"}
  PROVE  InputsInv'
BY SameRecords DEF InputsInv, Packages, Duplicate, SameFile, Expanding

LEMMA NoDecision == ASSUME phase' # "accepted" PROVE DecidedInv'
BY DEF DecidedInv

\* The planner at work on a volume that nobody has touched.
Working ==
  /\ disk \in Disks /\ config \in Configurations
  /\ Where /\ ConfigInv /\ OutputsInv /\ HandInv /\ InputsInv /\ DecidedInv
Worked == Where' /\ ConfigInv' /\ OutputsInv' /\ HandInv' /\ InputsInv' /\ DecidedInv'

LEMMA BeginStep == ASSUME Working, Begin, phase' # "refused" PROVE Worked
<1>0. /\ phase = "begin" /\ Stat(config.file).kind # "absent"
      /\ configFile' = [canonical |-> Opened(config.file), inode |-> Stat(config.file).inode]
      /\ phase' = "resolve"
      /\ UNCHANGED <<disk, config, package, kind, chosen, resolving, outputs, inputs>>
  BY DEF Begin, Refuse, Opened, world, place, expansion
<1>1. Where'
  BY <1>0, ConfigurationsAssumption DEF Working, Where, Packages, Expanding
<1>2. ConfigInv'
  <2>1. Opened(config.file) # NoPath
    <3> DEFINE found == Lstat(config.file)
    <3>1. CASE found.kind = "link"
      <4>1. Home(found.to.dir) # Nowhere
        BY <1>0, <3>1, FileHasHome DEF Stat, Follow
      <4>2. found.to.dir # Nowhere  BY <3>1, EntriesWell DEF Working
      <4>3. CanonicalDirectory(found.to.dir) # Nowhere
        BY <4>1, <4>2, HomeHasCanonical
      <4> QED  BY <1>0, <3>1, <4>3 DEF Opened, CanonicalExistingPath, CanonicalLeaf, Stat, In, NoPath
    <3>2. CASE found.kind # "link"
      <4>1. Home(config.file.dir) # Nowhere
        BY <1>0, <3>2, FileHasHome DEF Stat, Follow
      <4>2. config.file.dir # Nowhere  BY ConfigurationsAssumption DEF Working
      <4>3. CanonicalDirectory(config.file.dir) # Nowhere
        BY <4>1, <4>2, HomeHasCanonical
      <4> QED  BY <1>0, <3>2, <4>3 DEF Opened, CanonicalExistingPath, CanonicalLeaf, Stat, In, NoPath
    <3> QED  BY <3>1, <3>2
  <2> QED  BY <1>0, <2>1, SameVolume DEF ConfigInv
<1>3. OutputsInv'
  <2>1. DOMAIN outputs = {}  BY <1>0 DEF Working, Where, OutputsInv
  <2>2. {Plan(o) : o \in PlannedOutputs}' = {Plan(o) : o \in PlannedOutputs}
    BY <1>0, SameRecords DEF PlannedOutputs
  <2> QED  BY <1>0, <2>1, <2>2 DEF Working, OutputsInv
<1>4. HandInv'  BY <1>0, SameVolume DEF Working, HandInv
<1>5. InputsInv'  BY <1>0, KeepsInputs DEF Working, Expanding
<1> QED  BY <1>0, <1>1, <1>2, <1>3, <1>4, <1>5, NoDecision DEF Worked

LEMMA ResolveOutputStep == ASSUME Working, ResolveOutput, phase' # "refused" PROVE Worked
<1>0. /\ phase = "resolve" /\ phase' = "inspect"
      /\ resolving' = CanonicalPotentialPath(Output) /\ resolving' # NoPath
      /\ UNCHANGED <<disk, config, package, kind, chosen, configFile, outputs, inputs>>
  BY DEF ResolveOutput, Refuse, world, place, records
<1>1. Where'  BY <1>0 DEF Working, Where, Packages, Expanding
<1>2. ConfigInv'  BY <1>0, KeepsConfig DEF Working
<1>3. OutputsInv'  BY <1>0, KeepsOutputs DEF Working
<1>4. HandInv'
  <2>1. Output' = Output  BY <1>0 DEF Output
  <2> QED  BY <1>0, <2>1, SameVolume DEF Working, HandInv
<1>5. InputsInv'  BY <1>0, KeepsInputs DEF Working, Expanding
<1> QED  BY <1>0, <1>1, <1>2, <1>3, <1>4, <1>5, NoDecision DEF Worked

LEMMA InspectOutputStep == ASSUME Working, InspectOutput, phase' # "refused" PROVE Worked
<1> DEFINE planned == Plan(Output)
<1>0. /\ phase = "inspect"
      /\ GoodOutput(Output) /\ ~InTheWay(planned)
      /\ outputs' = Append(outputs, planned)
      /\ \/ package < Len(config.packages) /\ package' = package + 1 /\ phase' = "resolve"
         \/ package >= Len(config.packages) /\ package' = 1 /\ phase' = "entry"
      /\ UNCHANGED <<disk, config, kind, chosen, configFile, inputs>>
  BY DEF Working, HandInv, Where, InspectOutput, Refuse, GoodOutput, Plan, world
<1>p. package \in Packages /\ Packages = 1 .. Len(config.packages) /\ Len(config.packages) \in Nat \ {0}
      /\ Len(outputs) = package - 1
  BY <1>0, ConfigurationsAssumption DEF Working, Where, Packages
<1>1. Where'
  <2>1. Len(outputs') = package  BY <1>0, <1>p DEF Working, OutputsInv
  <2> QED  BY <1>0, <1>p, <2>1 DEF Working, Where, Packages, Expanding
<1>2. ConfigInv'  BY <1>0, KeepsConfig DEF Working
<1>3. OutputsInv'
  <2> DEFINE S == {Plan(o) : o \in PlannedOutputs}
  <2>1. S' = S  BY <1>0, SameRecords DEF PlannedOutputs
  <2>2. planned \in S  BY <1>p DEF PlannedOutputs, Output, Packages
  <2>3. outputs \in Seq(S) /\ outputs' \in Seq(S)  BY <1>0, <2>2 DEF Working, OutputsInv
  <2>4. DOMAIN outputs = 1 .. (package - 1) /\ DOMAIN outputs' = 1 .. package
    BY <1>0, <1>p, <2>3
  <2>5. (\A i \in 1 .. (package - 1) : outputs'[i] = outputs[i]) /\ outputs'[package] = planned
    BY <1>0, <1>p, <2>3, <2>4
  <2>6. ASSUME NEW i \in DOMAIN outputs'
        PROVE  /\ i \in Packages' /\ outputs'[i] = Plan(config.packages[i].output)'
               /\ GoodOutput(config.packages[i].output)' /\ ~Collide(outputs[i], configFile)'
    <3>1. /\ i \in Packages /\ outputs'[i] = Plan(config.packages[i].output)
          /\ GoodOutput(config.packages[i].output) /\ ~Collide(outputs'[i], configFile)
      BY <1>0, <1>p, <2>4, <2>5 DEF Working, OutputsInv, InTheWay, Output
    <3> QED
      BY <1>0, <3>1, SameRecords DEF Packages, Collide, SameKey, SameFile, PortableCollisionKey, FoldedName
  <2>7. ASSUME NEW i \in DOMAIN outputs', NEW j \in DOMAIN outputs', i < j
        PROVE  ~Collide(outputs'[j], outputs'[i])
               /\ FoldedName(outputs'[j].directory) # FoldedName(outputs'[i].directory)
    BY <1>0, <1>p, <2>4, <2>5, <2>7 DEF Working, OutputsInv, InTheWay
  <2>8. \A i, j \in DOMAIN outputs' : Collide(outputs[j], outputs[i])' <=> Collide(outputs'[j], outputs'[i])
    BY DEF Collide, SameKey, SameFile, PortableCollisionKey, FoldedName
  <2> QED  BY <2>1, <2>3, <2>6, <2>7, <2>8 DEF OutputsInv, FoldedName
<1>4. HandInv'  BY <1>0, SameVolume DEF Working, HandInv
<1>5. InputsInv'
  BY <1>0, <1>p, SameRecords DEF Working, InputsInv, Packages, Duplicate, SameFile, Expanding
<1> QED  BY <1>0, <1>1, <1>2, <1>3, <1>4, <1>5, NoDecision DEF Worked

\* A step that only moves the planner within an entry.
LEMMA ExpandingStep ==
  ASSUME Working, phase \in Expanding, phase' \in Expanding,
         UNCHANGED <<world, place, configFile, outputs, inputs>>, HandInv'
  PROVE  Worked
<1>0. UNCHANGED <<disk, config, package, kind, configFile, outputs, inputs>>
  BY DEF world, place
<1>1. Where'  BY <1>0 DEF Working, Where, Packages, Expanding
<1>2. ConfigInv'  BY <1>0, KeepsConfig DEF Working, Expanding
<1>3. OutputsInv'  BY <1>0, KeepsOutputs DEF Working
<1>4. InputsInv'  BY <1>0, KeepsInputs DEF Working
<1> QED  BY <1>1, <1>2, <1>3, <1>4, NoDecision DEF Worked, Expanding

LEMMA OpenPathStep == ASSUME Working, OpenPath, phase' # "refused" PROVE Worked
<1>0. /\ phase = "entry" /\ phase' = "select"
      /\ Stat(Entry.path).kind = "file" /\ chosen' = {Entry.path}
      /\ UNCHANGED <<world, place, configFile, outputs, inputs>>
  BY DEF OpenPath, Refuse, records
<1>1. HandInv'  BY <1>0, SameVolume DEF HandInv, world
<1> QED  BY <1>0, <1>1, ExpandingStep DEF Expanding

LEMMA OpenDirectoryStep == ASSUME Working, OpenDirectory, phase' # "refused" PROVE Worked
<1>0. /\ phase = "entry" /\ phase' = "read" /\ UNCHANGED chosen
      /\ UNCHANGED <<world, place, configFile, outputs, inputs>>
  BY DEF OpenDirectory, Refuse, records
<1>1. HandInv'  BY <1>0, SameVolume DEF Working, HandInv, world
<1> QED  BY <1>0, <1>1, ExpandingStep DEF Expanding

LEMMA OpenGlobStep == ASSUME Working, OpenGlob PROVE Worked
<1>0. /\ phase = "entry" /\ phase' = "read" /\ UNCHANGED chosen
      /\ UNCHANGED <<world, place, configFile, outputs, inputs>>
  BY DEF OpenGlob, records
<1>1. HandInv'  BY <1>0, SameVolume DEF Working, HandInv, world
<1> QED  BY <1>0, <1>1, ExpandingStep DEF Expanding

LEMMA ReadDirectoryStep == ASSUME Working, ReadDirectory, phase' # "refused" PROVE Worked
<1>0. /\ phase = "read" /\ phase' = "read" /\ UNCHANGED chosen
      /\ UNCHANGED <<world, place, configFile, outputs, inputs>>
  BY DEF ReadDirectory, Refuse, records
<1>1. HandInv'  BY <1>0, SameVolume DEF Working, HandInv, world
<1> QED  BY <1>0, <1>1, ExpandingStep DEF Expanding

LEMMA StatMatchStep == ASSUME Working, StatMatch, phase' # "refused" PROVE Worked
<1>0. /\ phase = "read" /\ phase' = "read"
      /\ \A p \in chosen' : p \in chosen \/ Stat(p).kind = "file"
      /\ UNCHANGED <<world, place, configFile, outputs, inputs>>
  BY DEF StatMatch, Refuse, records
<1>1. HandInv'  BY <1>0, SameVolume DEF Working, HandInv, world
<1> QED  BY <1>0, <1>1, ExpandingStep DEF Expanding

LEMMA EndMatchesStep == ASSUME Working, EndMatches, phase' # "refused" PROVE Worked
<1>0. /\ phase = "read" /\ phase' = "select" /\ UNCHANGED chosen
      /\ UNCHANGED <<world, place, configFile, outputs, inputs>>
  BY DEF EndMatches, Refuse, records, expansion
<1>1. HandInv'  BY <1>0, SameVolume DEF Working, HandInv, world
<1> QED  BY <1>0, <1>1, ExpandingStep DEF Expanding

LEMMA ResolveInputStep == ASSUME Working, ResolveInput, phase' # "refused" PROVE Worked
<1>0. /\ phase = "select" /\ phase' = "identify" /\ UNCHANGED chosen /\ chosen # {}
      /\ resolving' = Opened(Selected) /\ resolving' # NoPath
      /\ UNCHANGED <<world, place, configFile, outputs, inputs>>
  BY DEF ResolveInput, Refuse, records, Opened
<1>1. HandInv'
  <2>1. Selected' = Selected  BY <1>0 DEF Selected
  <2> QED  BY <1>0, <2>1, SameVolume DEF Working, HandInv, world
<1> QED  BY <1>0, <1>1, ExpandingStep DEF Expanding

LEMMA IdentifyInputStep == ASSUME Working, IdentifyInput, phase' # "refused" PROVE Worked
<1> DEFINE item == Read(Selected)
<1>0. /\ phase = "identify" /\ phase' = "select"
      /\ \A previous \in Recorded : ~Duplicate(previous, item)
      /\ inputs' = [inputs EXCEPT ![package][kind] = @ \cup {item}]
      /\ chosen' = chosen \ {Selected}
      /\ UNCHANGED <<disk, config, package, kind, configFile, outputs>>
  BY DEF Working, HandInv, IdentifyInput, Refuse, Read, world, place
<1>1. Where'  BY <1>0 DEF Working, Where, Packages, Expanding
<1>2. ConfigInv'  BY <1>0, KeepsConfig DEF Working
<1>3. OutputsInv'  BY <1>0, KeepsOutputs DEF Working
<1>4. HandInv'  BY <1>0, SameVolume DEF Working, HandInv
<1>5. InputsInv'
  <2>0. /\ package \in Packages /\ kind \in {"schema", "queries"}
        /\ DOMAIN inputs = Packages /\ \A i \in Packages : DOMAIN inputs[i] = {"schema", "queries"}
    BY <1>0 DEF Working, Where, InputsInv, Expanding
  <2>1. GoodInput(Selected) /\ item = Read(item.path) /\ item.path = Selected
    <3>1. Selected \in chosen  BY <1>0 DEF Working, HandInv, Selected
    <3> QED  BY <1>0, <3>1 DEF Working, HandInv, GoodInput, Read
  <2>2. \A i \in Packages, k \in {"schema", "queries"} :
          inputs'[i][k] = IF i = package /\ k = kind THEN inputs[i][k] \cup {item} ELSE inputs[i][k]
    BY <1>0, <2>0
  <2>3. DOMAIN inputs' = Packages' /\ \A i \in Packages : DOMAIN inputs'[i] = {"schema", "queries"}
    BY <1>0, <2>0 DEF Packages
  <2> HIDE DEF item
  <2>4. ASSUME NEW i \in Packages, NEW k \in {"schema", "queries"}, NEW f \in inputs'[i][k]
        PROVE  f = Read(f.path) /\ GoodInput(f.path)
    <3>1. f = item \/ f \in inputs[i][k]  BY <2>2
    <3> QED  BY <2>1, <3>1 DEF Working, InputsInv
  <2>5. ASSUME NEW i \in Packages, NEW k \in {"schema", "queries"},
               NEW f \in inputs'[i][k], NEW g \in inputs'[i][k], f # g
        PROVE  ~Duplicate(f, g)
    <3>1. \A x \in inputs[package][kind] : ~Duplicate(x, item) /\ ~Duplicate(item, x)
      BY <1>0 DEF Recorded, Duplicate, SameFile
    <3>2. CASE f \in inputs[i][k] /\ g \in inputs[i][k]
      BY <2>5, <3>2 DEF Working, InputsInv
    <3>3. CASE ~(f \in inputs[i][k] /\ g \in inputs[i][k])
      <4>1. i = package /\ k = kind /\ (f = item \/ g = item)  BY <2>2, <3>3
      <4>2. f \in inputs[i][k] \cup {item} /\ g \in inputs[i][k] \cup {item}  BY <2>2
      <4> QED  BY <2>5, <3>1, <4>1, <4>2
    <3> QED  BY <3>2, <3>3
  <2>6. ASSUME NEW i \in Packages, i < package
        PROVE  inputs'[i].schema = inputs[i].schema /\ inputs'[i].queries = inputs[i].queries
    <3>1. i # package  BY <2>0, <2>6, ConfigurationsAssumption DEF Working, Packages
    <3> QED  BY <2>2, <3>1
  <2>7. \A i \in Packages : i < package =>
          \A f \in inputs'[i].schema, g \in inputs'[i].queries : ~Duplicate(f, g)
    BY <1>0, <2>6 DEF Working, InputsInv, Expanding
  <2> QED
    BY <1>0, <2>3, <2>4, <2>5, <2>7, SameRecords DEF InputsInv, Packages, Duplicate, SameFile
<1> QED  BY <1>0, <1>1, <1>2, <1>3, <1>4, <1>5, NoDecision DEF Worked

LEMMA EndEntryStep == ASSUME Working, EndEntry, phase' # "refused" PROVE Worked
<1>0. /\ phase = "select" /\ chosen = {}
      /\ UNCHANGED <<disk, config, expansion, configFile, outputs, inputs>>
  BY DEF EndEntry, Refuse, world, records
<1>p. package \in Packages /\ Packages = 1 .. Len(config.packages) /\ Len(config.packages) \in Nat
  BY <1>0, ConfigurationsAssumption DEF Working, Where, Packages, Expanding
<1>c. \/ UNCHANGED <<package, kind>> /\ phase' = "entry"
      \/ kind = "schema" /\ kind' = "queries" /\ package' = package /\ phase' = "entry"
      \/ /\ kind = "queries" /\ kind' = "schema" /\ package' = package + 1 /\ ~Overlap
         /\ phase' = IF package = Len(config.packages) THEN "decide" ELSE "entry"
  BY DEF EndEntry, Refuse, Working, Where
<1>1. Where'
  BY <1>0, <1>p, <1>c DEF Working, Where, Packages, Expanding
<1>2. ConfigInv'  BY <1>0, KeepsConfig DEF Working
<1>3. OutputsInv'  BY <1>0, KeepsOutputs DEF Working
<1>4. HandInv'  BY <1>0, <1>c, SameVolume DEF Working, HandInv, expansion
<1>5. InputsInv'
  <2>1. \A i \in Packages : i < package' =>
          \A f \in inputs[i].schema, g \in inputs[i].queries : ~Duplicate(f, g)
    <3>1. CASE package' = package
      BY <1>0, <3>1 DEF Working, InputsInv, Expanding
    <3>2. CASE kind = "queries" /\ package' = package + 1 /\ ~Overlap
      <4>1. \A f \in inputs[package].schema, g \in inputs[package].queries : ~Duplicate(f, g)
        BY <3>2 DEF Overlap, Recorded
      <4>2. \A i \in Packages : i < package' => i < package \/ i = package
        BY <1>p, <3>2
      <4> QED  BY <1>0, <4>1, <4>2 DEF Working, InputsInv, Expanding
    <3> QED  BY <1>c, <3>1, <3>2
  <2> QED
    BY <1>0, <2>1, SameRecords DEF Working, InputsInv, Packages, Duplicate, SameFile
<1> QED  BY <1>0, <1>c, <1>1, <1>2, <1>3, <1>4, <1>5, NoDecision DEF Worked

LEMMA DecideStep == ASSUME Working, Decide, phase' # "refused" PROVE Worked
<1>0. /\ phase = "decide" /\ phase' = "accepted"
      /\ \A f \in AllInputs : ~Collide(configFile, f) /\ \A i \in DOMAIN outputs : ~Collide(outputs[i], f)
      /\ UNCHANGED <<disk, config, package, kind, chosen, configFile, outputs, inputs>>
  BY DEF Decide, world, place, expansion, records
<1>1. Where'  BY <1>0 DEF Working, Where, Packages, Expanding
<1>2. ConfigInv'  BY <1>0, KeepsConfig DEF Working
<1>3. OutputsInv'  BY <1>0, KeepsOutputs DEF Working
<1>4. HandInv'  BY <1>0, SameVolume DEF Working, HandInv
<1>5. InputsInv'  BY <1>0, KeepsInputs DEF Working
<1>6. DecidedInv'
  BY <1>0 DEF DecidedInv, AllInputs, InputsOf, Collide, SameKey, SameFile, PortableCollisionKey, FoldedName
<1> QED  BY <1>1, <1>2, <1>3, <1>4, <1>5, <1>6 DEF Worked

LEMMA StutterStep == ASSUME Working, UNCHANGED vars PROVE Worked
<1>0. UNCHANGED <<disk, config, phase, package, kind, chosen, resolving, configFile, outputs, inputs>>
  BY DEF vars, world, place, expansion, records
<1>1. Where'  BY <1>0 DEF Working, Where, Packages, Expanding
<1>2. ConfigInv'  BY <1>0, SameVolume DEF Working, ConfigInv
<1>3. OutputsInv'  BY <1>0, KeepsOutputs DEF Working
<1>4. HandInv'  BY <1>0, SameVolume DEF Working, HandInv, Selected, Output
<1>5. InputsInv'
  BY <1>0, SameRecords DEF Working, InputsInv, Packages, Duplicate, SameFile
<1>6. DecidedInv'
  BY <1>0 DEF Working, DecidedInv, AllInputs, InputsOf, Collide, SameKey, SameFile, PortableCollisionKey, FoldedName
<1> QED  BY <1>1, <1>2, <1>3, <1>4, <1>5, <1>6 DEF Worked
-----------------------------------------------------------------------------
LEMMA NextPlan == PlanInv /\ [Next]_vars => PlanInv'
<1> SUFFICES ASSUME PlanInv, [Next]_vars PROVE PlanInv'  OBVIOUS
<1> DEFINE Own == \/ Begin \/ ResolveOutput \/ InspectOutput
                  \/ OpenPath \/ OpenDirectory \/ OpenGlob \/ ReadDirectory \/ StatMatch \/ EndMatches
                  \/ ResolveInput \/ IdentifyInput \/ EndEntry \/ Decide \/ UNCHANGED vars
<1>1. CASE Remove \/ Create \/ Move \/ Relink
  <2>1. disturbed' = disturbed + 1  BY <1>1 DEF Remove, Create, Move, Relink, Disturb
  <2> QED  BY <2>1 DEF PlanInv, Undisturbed
<1>2. CASE Own
  <2>1. phase # "refused" \/ phase' = phase
    BY <1>2 DEF Begin, ResolveOutput, InspectOutput, OpenPath, OpenDirectory, OpenGlob, ReadDirectory,
       StatMatch, EndMatches, ResolveInput, IdentifyInput, EndEntry, Decide, Refuse, vars, world
  <2>2. UNCHANGED <<disk, config, disturbed>>
    BY <1>2 DEF Begin, ResolveOutput, InspectOutput, OpenPath, OpenDirectory, OpenGlob, ReadDirectory,
       StatMatch, EndMatches, ResolveInput, IdentifyInput, EndEntry, Decide, Refuse, vars, world
  <2>3. ASSUME Undisturbed', phase' # "refused" PROVE Worked
    <3>1. Working  BY <2>1, <2>2, <2>3 DEF PlanInv, Undisturbed, Working
    <3> QED
      BY <1>2, <2>3, <3>1, BeginStep, ResolveOutputStep, InspectOutputStep, OpenPathStep,
         OpenDirectoryStep, OpenGlobStep, ReadDirectoryStep, StatMatchStep, EndMatchesStep,
         ResolveInputStep, IdentifyInputStep, EndEntryStep, DecideStep, StutterStep
  <2> QED  BY <2>1, <2>2, <2>3 DEF PlanInv, Working, Worked, Undisturbed
<1> QED  BY <1>1, <1>2 DEF Next

\* The inductive invariant: as long as nobody interferes, the planner's records
\* are what the volume says, and everything it compared is apart.
THEOREM PlanInvariant == Spec => []PlanInv
<1> QED  BY InitPlan, NextPlan, PTL DEF Spec

\* On an undisturbed volume an accepted plan installs every output at a place
\* and in a directory of its own, over neither the configuration nor any input.
THEOREM AcceptedPlansAreSafe == Spec => []AcceptedIsSafe
<1> QED  BY PlanInvariant, PlanIsSafe, PTL
-----------------------------------------------------------------------------
(***************************************************************************)
(* Why a plan is refused: what the planner has in hand are files that the  *)
(* entries select, and of the current entry none is forgotten.             *)
(***************************************************************************)
Kinds == {"schema", "queries"}
Dirs(e) == IF e.is = "directory" THEN {e.dir} ELSE {d \in e.dirs : e.wild => Present(d)}
WantedNames(e) == IF e.is = "glob" THEN e.names ELSE SqlNames
Matching(e) ==
  {p \in Paths : p.dir \in Dirs(e) /\ Exists(p.dir) /\ p.name \in Listing(p.dir) \cap WantedNames(e)}

Before == {"begin", "resolve", "inspect"}
EntryInv ==
  /\ phase \in Before => entry = 1 /\ kind = "schema"
  /\ phase \in Expanding => entry \in DOMAIN Entries
  /\ phase # "read" => matches = {}
  /\ phase \notin {"read", "select", "identify"} => chosen = {}
  /\ phase \in {"read", "select", "identify"} => chosen \subseteq Selects(Entry)

ReadInv ==
  phase = "read" =>
    /\ Entry.is \in {"directory", "glob"}
    /\ directories \subseteq Dirs(Entry)
    /\ matches \subseteq Matching(Entry)
    /\ \A p \in Selects(Entry) : p \in chosen \/ p \in matches \/ p.dir \in directories

\* The planner has not come to these entries yet.
Later(i, k) == phase \in Before \/ i > package \/ (i = package /\ kind = "schema" /\ k = "queries")
Sourced(f) ==
  \/ \E b \in DOMAIN Entries : b < entry /\ f.path \in Selects(Entries[b])
  \/ phase \in {"select", "identify"} /\ f.path \in Selects(Entry) \ chosen
SourcesInv ==
  /\ \A i \in Packages, k \in Kinds :
       /\ \A f \in inputs[i][k] : f.path \in Wanted(i, k)
       /\ phase \in Before \cup Expanding /\ Later(i, k) => inputs[i][k] = {}
  /\ phase \in Expanding => \A f \in Recorded : Sourced(f)

SelectionInv == EntryInv /\ ReadInv /\ SourcesInv
Choosing == Working /\ SelectionInv

LEMMA InitSelection == Init => SelectionInv
<1> SUFFICES ASSUME Init PROVE SelectionInv  OBVIOUS
<1> USE DEF Init, Before, Expanding
<1>1. EntryInv  BY DEF EntryInv
<1>2. ReadInv  BY DEF ReadInv
<1>3. SourcesInv
  <2>1. \A i \in Packages, k \in Kinds : inputs[i][k] = {}  BY DEF Packages, Kinds
  <2> QED  BY <2>1 DEF SourcesInv
<1> QED  BY <1>1, <1>2, <1>3 DEF SelectionInv

SelectedFrom(dirs, wanted) ==
  {p \in Paths : /\ p.dir \in dirs /\ Exists(p.dir)
                 /\ p.name \in Listing(p.dir) \cap wanted \cap SqlNames
                 /\ Stat(p).kind \notin {"folder"}}

\* What an entry selects does not depend on the planner.
LEMMA SameSelects ==
  ASSUME disk' = disk
  PROVE  \A e : Selects(e)' = Selects(e) /\ Dirs(e)' = Dirs(e) /\ Matching(e)' = Matching(e)
<1>1. \A x : DirectoryEntry(x)' = DirectoryEntry(x) /\ Present(x)' = Present(x)
  BY DEF DirectoryEntry, Same, Present
<1>2. \A x : FollowDirectory(x)' = FollowDirectory(x)
  BY <1>1 DEF FollowDirectory, IsReal, IfReal
<1>3. \A x : Home(x)' = Home(x)  BY <1>1, <1>2 DEF Home
<1>4. \A x : Exists(x)' = Exists(x) /\ Listing(x)' = Listing(x)
  BY <1>3 DEF Exists, Listing, NamesIn
<1>5. ASSUME NEW e PROVE Selects(e)' = Selects(e)
  <2> DEFINE wild == {d \in e.dirs : e.wild => Present(d)}
             names == IF e.is = "glob" THEN e.names ELSE Names
  <2>1. wild' = wild  BY <1>1
  <2>2. \A dirs, wanted : SelectedFrom(dirs, wanted)' = SelectedFrom(dirs, wanted)
    BY <1>4, SameVolume DEF SelectedFrom
  <2>3. CASE e.is = "path"  BY <2>3 DEF Selects
  <2>4. CASE e.is = "directory"
    <3>1. Selects(e) = SelectedFrom({e.dir}, Names) /\ Selects(e)' = SelectedFrom({e.dir}, Names)'
      BY <2>4 DEF Selects, SelectedFrom
    <3> QED  BY <2>2, <3>1
  <2>5. CASE e.is \notin {"path", "directory"}
    <3>1. Selects(e) = SelectedFrom(wild, names) /\ Selects(e)' = SelectedFrom(wild, names)'
      BY <2>5 DEF Selects, SelectedFrom
    <3> QED  BY <2>1, <2>2, <3>1
  <2> QED  BY <2>3, <2>4, <2>5
<1>6. \A e : Dirs(e)' = Dirs(e)  BY <1>1 DEF Dirs
<1>7. \A e : Matching(e)' = Matching(e)  BY <1>4, <1>6 DEF Matching
<1> QED  BY <1>5, <1>6, <1>7

\* The current entry is one of the configuration's.
LEMMA GoodEntry ==
  ASSUME Choosing, phase \in Expanding
  PROVE  /\ package \in Packages /\ kind \in Kinds
         /\ entry \in DOMAIN Entries /\ DOMAIN Entries = 1 .. Len(Entries) /\ Len(Entries) \in Nat \ {0}
         /\ Entry.is = "path" => Entry.path \in Paths
         /\ Entry.is \in {"directory", "glob"} => Dirs(Entry) \subseteq Directories
         /\ Selects(Entry) \subseteq Wanted(package, kind)
<1>1. package \in Packages /\ kind \in Kinds /\ entry \in DOMAIN Entries /\ config \in Configurations
  BY DEF Choosing, Working, Where, SelectionInv, EntryInv, Kinds
<1>2. /\ DOMAIN Entries = 1 .. Len(Entries) /\ Len(Entries) \in Nat \ {0}
      /\ Entry.is = "path" => Entry.path \in Paths
      /\ Entry.is = "directory" => Entry.dir \in Directories
      /\ Entry.is = "glob" => Entry.dirs \subseteq Directories
  BY <1>1, EntriesAssumption DEF Packages, Kinds, Entries, Entry
<1>3. Selects(Entry) \subseteq Wanted(package, kind)
  BY <1>1 DEF Wanted, Entry, Entries
<1> QED  BY <1>1, <1>2, <1>3 DEF Dirs

LEMMA SelectsIs ==
  ASSUME NEW e
  PROVE  /\ e.is = "path" => Selects(e) = {e.path}
         /\ e.is \in {"directory", "glob"} =>
              Selects(e) = {p \in Matching(e) : p.name \in SqlNames /\ Stat(p).kind # "folder"}
<1>1. CASE e.is = "path"  BY <1>1 DEF Selects
<1>2. CASE e.is = "directory"
  <2>1. \A d : Listing(d) \subseteq Names  BY DEF Listing, NamesIn
  <2>2. Selects(e) = {p \in Paths : /\ p.dir \in {e.dir} /\ Exists(p.dir)
                                    /\ p.name \in Listing(p.dir) \cap Names \cap SqlNames
                                    /\ Stat(p).kind \notin {"folder"}}
    BY <1>2 DEF Selects
  <2> QED  BY <1>2, <2>1, <2>2 DEF Matching, Dirs, WantedNames
<1>3. CASE e.is = "glob"
  <2>2. Selects(e) = {p \in Paths : /\ p.dir \in {d \in e.dirs : e.wild => Present(d)} /\ Exists(p.dir)
                                    /\ p.name \in Listing(p.dir) \cap e.names \cap SqlNames
                                    /\ Stat(p).kind \notin {"folder"}}
    BY <1>3 DEF Selects
  <2> QED  BY <1>3, <2>2 DEF Matching, Dirs, WantedNames
<1> QED  BY <1>1, <1>2, <1>3

\* A file that stat finds has a canonical path.
LEMMA FoundIsOpened ==
  ASSUME NEW p, disk \in Disks, p.dir # Nowhere, Stat(p).kind # "absent"
  PROVE  Opened(p) # NoPath
<1> DEFINE found == Lstat(p)
<1>1. CASE found.kind = "link"
  <2>1. Home(found.to.dir) # Nowhere  BY <1>1, FileHasHome DEF Stat, Follow
  <2>2. found.to.dir # Nowhere  BY <1>1, EntriesWell
  <2>3. CanonicalDirectory(found.to.dir) # Nowhere  BY <2>1, <2>2, HomeHasCanonical
  <2> QED  BY <1>1, <2>3 DEF Opened, CanonicalExistingPath, CanonicalLeaf, Stat, In, NoPath
<1>2. CASE found.kind # "link"
  <2>1. Home(p.dir) # Nowhere  BY <1>2, FileHasHome DEF Stat, Follow
  <2>2. CanonicalDirectory(p.dir) # Nowhere  BY <2>1, HomeHasCanonical
  <2> QED  BY <1>2, <2>2 DEF Opened, CanonicalExistingPath, CanonicalLeaf, Stat, In, NoPath
<1> QED  BY <1>1, <1>2

LEMMA FoundIsPotential ==
  ASSUME NEW p, Stat(p).kind # "absent" PROVE CanonicalPotentialPath(p) = Opened(p)
<1>1. Lstat(p).kind # "absent"  BY DEF Stat, Follow
<1> QED  BY <1>1 DEF CanonicalPotentialPath, CanonicalPotential, Opened, CanonicalExistingPath
-----------------------------------------------------------------------------
(***************************************************************************)
(* The steps keep the selection.                                           *)
(***************************************************************************)
LEMMA KeepsSelects ==
  ASSUME UNCHANGED <<disk, config>>
  PROVE  Packages' = Packages /\ \A i \in Packages, k \in Kinds : Wanted(i, k)' = Wanted(i, k)
<1>1. ASSUME NEW i \in Packages, NEW k \in Kinds PROVE Wanted(i, k)' = Wanted(i, k)
  <2>1. \A j \in DOMAIN config.packages[i][k] :
          Selects(config.packages[i][k][j])' = Selects(config.packages[i][k][j])
    BY SameSelects
  <2> QED  BY <2>1 DEF Wanted
<1> QED  BY <1>1 DEF Packages

\* Steps before the first entry.
LEMMA BeforeSelection ==
  ASSUME Choosing, phase \in Before, phase' \in Before,
         UNCHANGED <<disk, config, kind, entry, matches, chosen, inputs>>
  PROVE  SelectionInv'
<1>1. EntryInv'  BY DEF Choosing, SelectionInv, EntryInv, Before, Expanding
<1>2. ReadInv'  BY DEF ReadInv, Before
<1>3. SourcesInv'
  <2>1. \A i \in Packages, k \in Kinds : inputs[i][k] = {}
    BY DEF Choosing, SelectionInv, SourcesInv, Later
  <2> QED  BY <2>1, KeepsSelects DEF SourcesInv, Before, Expanding
<1> QED  BY <1>1, <1>2, <1>3 DEF SelectionInv

\* The current entry keeps what it selects as long as the planner stays with it.
LEMMA SameEntry ==
  ASSUME UNCHANGED <<disk, config, package, kind, entry>>
  PROVE  /\ Entries' = Entries /\ Entry' = Entry
         /\ Selects(Entry)' = Selects(Entry) /\ Dirs(Entry)' = Dirs(Entry) /\ Matching(Entry)' = Matching(Entry)
         /\ \A b \in DOMAIN Entries : Selects(Entries[b])' = Selects(Entries[b])
<1>1. Entries' = Entries /\ Entry' = Entry  BY DEF Entries, Entry
<1> QED  BY <1>1, SameSelects

LEMMA EntrySources ==
  ASSUME Choosing, phase \in Expanding, phase' \in Expanding,
         UNCHANGED <<disk, config, package, kind, entry, inputs>>,
         phase \in {"entry", "read"} \/ (phase = "select" /\ phase' = "identify" /\ chosen' = chosen)
  PROVE  SourcesInv'
<1>1. /\ Packages' = Packages /\ Recorded' = Recorded
      /\ \A i \in Packages, k \in Kinds : Wanted(i, k)' = Wanted(i, k)
  BY KeepsSelects DEF Recorded
<1>2. \A i \in Packages, k \in Kinds : Later(i, k)' => Later(i, k)
  BY DEF Later, Before, Expanding
<1>3. ASSUME NEW f \in Recorded PROVE Sourced(f)'
  <2>1. Sourced(f)  BY DEF Choosing, SelectionInv, SourcesInv
  <2> QED  BY <2>1, SameEntry DEF Sourced, Expanding
<1> QED  BY <1>1, <1>2, <1>3 DEF Choosing, SelectionInv, SourcesInv, Expanding, Before
LEMMA BeginSelection == ASSUME Choosing, Begin, phase' # "refused" PROVE SelectionInv'
<1>0. /\ phase \in Before /\ phase' \in Before
      /\ UNCHANGED <<disk, config, kind, entry, matches, chosen, inputs>>
  BY DEF Begin, Refuse, Before, world, place, expansion
<1> QED  BY <1>0, BeforeSelection

LEMMA ResolveOutputSelection == ASSUME Choosing, ResolveOutput, phase' # "refused" PROVE SelectionInv'
<1>0. /\ phase \in Before /\ phase' \in Before
      /\ UNCHANGED <<disk, config, kind, entry, matches, chosen, inputs>>
  BY DEF ResolveOutput, Refuse, Before, world, place, records
<1> QED  BY <1>0, BeforeSelection

LEMMA InspectOutputSelection == ASSUME Choosing, InspectOutput, phase' # "refused" PROVE SelectionInv'
<1>0. /\ phase = "inspect" /\ phase' \in {"resolve", "entry"}
      /\ phase' = "entry" => package' = 1
      /\ UNCHANGED <<disk, config, kind, entry, matches, chosen, inputs>>
  BY DEF InspectOutput, Refuse, world
<1>1. CASE phase' = "resolve"  BY <1>0, <1>1, BeforeSelection DEF Before
<1>2. CASE phase' = "entry"
  <2>1. \A i \in Packages, k \in Kinds : inputs[i][k] = {}
    BY <1>0 DEF Choosing, SelectionInv, SourcesInv, Later, Before
  <2>2. entry = 1 /\ kind = "schema" /\ matches = {} /\ chosen = {}
    BY <1>0 DEF Choosing, SelectionInv, EntryInv, Before
  <2>3. 1 \in Packages /\ 1 \in DOMAIN config.packages[1].schema
    BY ConfigurationsAssumption, EntriesAssumption DEF Choosing, Working, Packages
  <2>4. EntryInv'
    BY <1>0, <1>2, <2>2, <2>3 DEF EntryInv, Entries, Before, Expanding
  <2>5. ReadInv'  BY <1>2 DEF ReadInv
  <2>6. Recorded' = {}
    BY <1>0, <1>2, <2>1, <2>2, <2>3 DEF Recorded, Kinds
  <2>7. SourcesInv'  BY <1>0, <2>1, <2>6, KeepsSelects DEF SourcesInv
  <2> QED  BY <2>4, <2>5, <2>7 DEF SelectionInv
<1> QED  BY <1>0, <1>1, <1>2

LEMMA OpenPathSelection == ASSUME Choosing, OpenPath, phase' # "refused" PROVE SelectionInv'
<1>0. /\ phase = "entry" /\ phase' = "select" /\ chosen' = {Entry.path} /\ Entry.is = "path"
      /\ UNCHANGED <<disk, config, package, kind, entry, matches, inputs>>
  BY DEF OpenPath, Refuse, world, place, records
<1>1. EntryInv'
  <2>1. Selects(Entry) = {Entry.path}  BY <1>0, SelectsIs
  <2> QED
    BY <1>0, <2>1, SameEntry DEF Choosing, SelectionInv, EntryInv, Before, Expanding
<1>2. ReadInv'  BY <1>0 DEF ReadInv
<1>3. SourcesInv'  BY <1>0, EntrySources DEF Expanding
<1> QED  BY <1>1, <1>2, <1>3 DEF SelectionInv

\* Reading begins with all directories of the entry, or those that are there.
LEMMA OpenSelection ==
  ASSUME Choosing, OpenDirectory \/ OpenGlob, phase' # "refused" PROVE SelectionInv'
<1>0. /\ phase = "entry" /\ phase' = "read" /\ directories' = Dirs(Entry)
      /\ Entry.is \in {"directory", "glob"}
      /\ UNCHANGED <<disk, config, package, kind, entry, matches, chosen, inputs>>
  <2>1. CASE OpenDirectory
    BY <2>1 DEF OpenDirectory, Refuse, world, place, records, Dirs
  <2>2. CASE OpenGlob
    <3>1. directories' = Dirs(Entry)
      <4>1. CASE Entry.wild  BY <2>2, <4>1 DEF OpenGlob, Dirs
      <4>2. CASE ~Entry.wild  BY <2>2, <4>2 DEF OpenGlob, Dirs
      <4> QED  BY <4>1, <4>2
    <3> QED  BY <2>2, <3>1 DEF OpenGlob, world, place, records
  <2> QED  BY <2>1, <2>2
<1>1. matches = {} /\ chosen = {} /\ entry \in DOMAIN Entries
  BY <1>0 DEF Choosing, SelectionInv, EntryInv, Expanding
<1>2. EntryInv'
  BY <1>0, <1>1, SameEntry DEF EntryInv, Before, Expanding
<1>3. ReadInv'
  <2>1. \A p \in Selects(Entry) : p.dir \in Dirs(Entry)
    BY <1>0, SelectsIs DEF Matching
  <2> QED  BY <1>0, <1>1, <2>1, SameEntry DEF ReadInv
<1>4. SourcesInv'  BY <1>0, EntrySources DEF Expanding
<1> QED  BY <1>2, <1>3, <1>4 DEF SelectionInv

\* A directory that has been read has left its files in the matches.
LEMMA ReadDirectorySelection == ASSUME Choosing, ReadDirectory, phase' # "refused" PROVE SelectionInv'
<1>0. /\ phase = "read" /\ phase' = "read" /\ Entry.is \in {"directory", "glob"}
      /\ UNCHANGED <<disk, config, package, kind, entry, chosen, inputs>>
  BY DEF Choosing, SelectionInv, ReadInv, ReadDirectory, Refuse, world, place, records
<1>1. PICK d \in directories :
        /\ directories' = directories \ {d}
        /\ matches' = IF Exists(d) THEN matches \cup [dir: {d}, name: Listing(d) \cap WantedNames(Entry)]
                      ELSE matches
  BY <1>0 DEF ReadDirectory, Refuse, WantedNames
<1>2. d \in Dirs(Entry) /\ d \in Directories
  BY <1>0, GoodEntry DEF Choosing, SelectionInv, ReadInv, Expanding
<1>3. matches' \subseteq Matching(Entry)
  <2>1. \A n \in Listing(d) : n \in Names  BY DEF Listing, NamesIn
  <2>2. Exists(d) => [dir: {d}, name: Listing(d) \cap WantedNames(Entry)] \subseteq Matching(Entry)
    BY <1>2, <2>1 DEF Matching, Paths
  <2> QED  BY <1>0, <1>1, <2>2 DEF Choosing, SelectionInv, ReadInv
<1>4. ASSUME NEW p \in Selects(Entry)
      PROVE  p \in chosen \/ p \in matches' \/ p.dir \in directories'
  <2>1. p \in chosen \/ p \in matches \/ p.dir \in directories
    BY <1>0 DEF Choosing, SelectionInv, ReadInv
  <2>2. CASE p.dir = d
    <3>1. p \in Matching(Entry)  BY <1>0, SelectsIs
    <3>2. p \in Paths /\ Exists(d) /\ p.name \in Listing(d) \cap WantedNames(Entry)
      BY <2>2, <3>1 DEF Matching
    <3>3. p \in [dir: {d}, name: Listing(d) \cap WantedNames(Entry)]
      BY <2>2, <3>2 DEF Paths
    <3> QED  BY <1>1, <3>2, <3>3
  <2>3. CASE p.dir # d  BY <1>1, <2>1, <2>3
  <2> QED  BY <2>2, <2>3
<1>5. EntryInv'
  BY <1>0, SameEntry DEF Choosing, SelectionInv, EntryInv, Before, Expanding
<1>6. ReadInv'
  <2>1. directories' \subseteq Dirs(Entry)
    BY <1>0, <1>1 DEF Choosing, SelectionInv, ReadInv
  <2> QED  BY <1>0, <1>3, <1>4, <2>1, SameEntry DEF ReadInv
<1>7. SourcesInv'  BY <1>0, EntrySources DEF Expanding
<1> QED  BY <1>5, <1>6, <1>7 DEF SelectionInv

LEMMA StatMatchSelection == ASSUME Choosing, StatMatch, phase' # "refused" PROVE SelectionInv'
<1> DEFINE p == CHOOSE p \in matches : TRUE
           passed == Stat(p).kind = "folder" \/ p.name \notin SqlNames
<1>0. /\ phase = "read" /\ phase' = "read" /\ matches # {} /\ Entry.is \in {"directory", "glob"}
      /\ matches' = matches \ {p}
      /\ chosen' = IF passed THEN chosen ELSE chosen \cup {p}
      /\ UNCHANGED <<disk, config, package, kind, entry, directories, inputs>>
  BY DEF Choosing, SelectionInv, ReadInv, StatMatch, Refuse, world, place, records
<1>1. p \in matches  BY <1>0
<1> HIDE DEF p
<1>2. p \in Matching(Entry)  BY <1>0, <1>1 DEF Choosing, SelectionInv, ReadInv
<1>3. p \in Selects(Entry) <=> ~passed  BY <1>0, <1>2, SelectsIs
<1>4. chosen' \subseteq Selects(Entry)
  BY <1>0, <1>3 DEF Choosing, SelectionInv, EntryInv
<1>5. EntryInv'
  BY <1>0, <1>4, SameEntry DEF Choosing, SelectionInv, EntryInv, Before, Expanding
<1>6. ReadInv'
  <2>1. \A q \in Selects(Entry) : q \in chosen' \/ q \in matches' \/ q.dir \in directories'
    BY <1>0, <1>3 DEF Choosing, SelectionInv, ReadInv
  <2> QED  BY <1>0, <2>1, SameEntry DEF Choosing, SelectionInv, ReadInv
<1>7. SourcesInv'  BY <1>0, EntrySources DEF Expanding
<1> QED  BY <1>5, <1>6, <1>7 DEF SelectionInv

LEMMA EndMatchesSelection == ASSUME Choosing, EndMatches, phase' # "refused" PROVE SelectionInv'
<1>0. /\ phase = "read" /\ phase' = "select" /\ matches = {}
      /\ UNCHANGED <<disk, config, package, kind, entry, matches, chosen, inputs>>
  BY DEF EndMatches, Refuse, world, place, records, expansion
<1>1. EntryInv'
  BY <1>0, SameEntry DEF Choosing, SelectionInv, EntryInv, Before, Expanding
<1>2. ReadInv'  BY <1>0 DEF ReadInv
<1>3. SourcesInv'  BY <1>0, EntrySources DEF Expanding
<1> QED  BY <1>1, <1>2, <1>3 DEF SelectionInv

LEMMA ResolveInputSelection == ASSUME Choosing, ResolveInput, phase' # "refused" PROVE SelectionInv'
<1>0. /\ phase = "select" /\ phase' = "identify"
      /\ UNCHANGED <<disk, config, package, kind, entry, matches, chosen, inputs>>
  BY DEF ResolveInput, Refuse, world, place, records
<1>1. EntryInv'
  BY <1>0, SameEntry DEF Choosing, SelectionInv, EntryInv, Before, Expanding
<1>2. ReadInv'  BY <1>0 DEF ReadInv
<1>3. SourcesInv'  BY <1>0, EntrySources DEF Expanding
<1> QED  BY <1>1, <1>2, <1>3 DEF SelectionInv

LEMMA IdentifyInputSelection == ASSUME Choosing, IdentifyInput, phase' # "refused" PROVE SelectionInv'
<1> DEFINE item == Read(Selected)
<1>0. /\ phase = "identify" /\ phase' = "select"
      /\ inputs' = [inputs EXCEPT ![package][kind] = @ \cup {item}]
      /\ chosen' = chosen \ {Selected}
      /\ UNCHANGED <<disk, config, package, kind, entry, matches>>
  BY DEF Choosing, Working, HandInv, IdentifyInput, Refuse, Read, world, place
<1>1. Selected \in chosen /\ chosen \subseteq Selects(Entry)
  BY <1>0 DEF Choosing, Working, HandInv, SelectionInv, EntryInv, Selected
<1>2. item.path = Selected  BY DEF Read
<1> HIDE DEF item
<1>3. EntryInv'
  BY <1>0, <1>1, SameEntry DEF Choosing, SelectionInv, EntryInv, Before, Expanding
<1>4. ReadInv'  BY <1>0 DEF ReadInv
<1>5. SourcesInv'
  <2>1. /\ package \in Packages /\ kind \in Kinds /\ DOMAIN inputs = Packages
        /\ \A i \in Packages : DOMAIN inputs[i] = Kinds
    BY <1>0, GoodEntry DEF Choosing, Working, InputsInv, Kinds, Expanding
  <2>2. \A i \in Packages, k \in Kinds :
          inputs'[i][k] = IF i = package /\ k = kind THEN inputs[i][k] \cup {item} ELSE inputs[i][k]
    BY <1>0, <2>1
  <2>3. item.path \in Wanted(package, kind)
    BY <1>0, <1>1, <1>2, GoodEntry DEF Expanding
  <2>4. ASSUME NEW i \in Packages, NEW k \in Kinds
        PROVE  /\ \A f \in inputs'[i][k] : f.path \in Wanted(i, k)
               /\ Later(i, k)' => inputs'[i][k] = {}
    <3>1. \A f \in inputs'[i][k] : f.path \in Wanted(i, k)
      <4>1. \A f \in inputs[i][k] : f.path \in Wanted(i, k)
        BY DEF Choosing, SelectionInv, SourcesInv
      <4>2. \A f \in inputs'[i][k] : f \in inputs[i][k] \/ (f = item /\ i = package /\ k = kind)
        BY <2>2
      <4> QED  BY <2>3, <4>1, <4>2
    <3>2. Later(i, k)' => Later(i, k) /\ ~(i = package /\ k = kind)
      <4>1. package \in Nat  BY DEF Choosing, Working, Where
      <4> QED  BY <1>0, <4>1 DEF Later, Before
    <3> QED
      BY <1>0, <2>2, <3>1, <3>2 DEF Choosing, SelectionInv, SourcesInv, Expanding
  <2>5. ASSUME NEW f \in Recorded' PROVE Sourced(f)'
    <3>1. f = item \/ f \in Recorded  BY <1>0, <2>1, <2>2 DEF Recorded
    <3>2. CASE f = item
      BY <1>0, <1>1, <1>2, <3>2, SameEntry DEF Sourced
    <3>3. CASE f \in Recorded
      <4>1. Sourced(f)
        BY <1>0, <3>3 DEF Choosing, SelectionInv, SourcesInv, Expanding
      <4> QED  BY <1>0, <4>1, SameEntry DEF Sourced
    <3> QED  BY <3>1, <3>2, <3>3
  <2> QED  BY <1>0, <2>4, <2>5, KeepsSelects DEF SourcesInv
<1> QED  BY <1>3, <1>4, <1>5 DEF SelectionInv

LEMMA EndEntrySelection == ASSUME Choosing, EndEntry, phase' # "refused" PROVE SelectionInv'
<1>0. /\ phase = "select" /\ chosen = {} /\ matches = {}
      /\ UNCHANGED <<disk, config, matches, chosen, inputs>>
  BY DEF Choosing, SelectionInv, EntryInv, EndEntry, Refuse, world, records, expansion
<1>1. /\ package \in Packages /\ kind \in Kinds /\ entry \in DOMAIN Entries
      /\ DOMAIN Entries = 1 .. Len(Entries) /\ Len(Entries) \in Nat \ {0}
      /\ Packages = 1 .. Len(config.packages) /\ Len(config.packages) \in Nat
  BY <1>0, GoodEntry, ConfigurationsAssumption DEF Expanding, Packages, Choosing, Working
<1>2. \/ /\ UNCHANGED <<package, kind>> /\ phase' = "entry"
         /\ entry < Len(Entries) /\ entry' = entry + 1
      \/ /\ kind = "schema" /\ kind' = "queries" /\ package' = package /\ phase' = "entry" /\ entry' = 1
      \/ /\ kind = "queries" /\ kind' = "schema" /\ package' = package + 1 /\ entry' = 1
         /\ phase' = IF package = Len(config.packages) THEN "decide" ELSE "entry"
  BY <1>1 DEF EndEntry, Refuse, Kinds
<1>3. (package' \in Packages /\ kind' \in Kinds) \/ phase' = "decide"
  BY <1>1, <1>2 DEF Kinds
<1>4. phase' = "entry" => entry' \in DOMAIN Entries'
  <2>1. CASE UNCHANGED <<package, kind>> /\ entry' = entry + 1 /\ entry < Len(Entries)
    <3>1. Entries' = Entries  BY <1>0, <2>1 DEF Entries
    <3> QED  BY <1>1, <2>1, <3>1
  <2>2. CASE entry' = 1 /\ package' \in Packages /\ kind' \in Kinds
    BY <1>0, <2>2, EntriesAssumption DEF Entries, Choosing, Working, Packages, Kinds
  <2> QED  BY <1>2, <1>3, <2>1, <2>2
<1>5. EntryInv'
  BY <1>0, <1>2, <1>4 DEF EntryInv, Before, Expanding
<1>6. ReadInv'  BY <1>2 DEF ReadInv
<1>7. \A i \in Packages, k \in Kinds : Later(i, k)' => Later(i, k)
  BY <1>0, <1>1, <1>2 DEF Later, Before, Kinds
<1>8. ASSUME phase' = "entry", NEW f \in Recorded' PROVE Sourced(f)'
  <2>1. CASE UNCHANGED <<package, kind>> /\ entry' = entry + 1
    <3>1. f \in Recorded  BY <1>0, <2>1 DEF Recorded
    <3>2. Sourced(f)  BY <1>0, <3>1 DEF Choosing, SelectionInv, SourcesInv, Expanding
    <3>3. \E b \in DOMAIN Entries : b < entry + 1 /\ f.path \in Selects(Entries[b])
      BY <1>1, <3>2 DEF Sourced, Entry
    <3>4. Entries' = Entries /\ \A b \in DOMAIN Entries : Selects(Entries[b])' = Selects(Entries[b])
      BY <1>0, <2>1, SameSelects DEF Entries
    <3> QED  BY <2>1, <3>3, <3>4 DEF Sourced
  <2>2. CASE Later(package', kind')
    <3>1. package' \in Packages /\ kind' \in Kinds  BY <1>3, <1>8
    <3>2. inputs[package'][kind'] = {}
      BY <1>0, <2>2, <3>1 DEF Choosing, SelectionInv, SourcesInv, Expanding
    <3> QED  BY <1>0, <1>8, <3>2 DEF Recorded
  <2> QED  BY <1>1, <1>2, <2>1, <2>2 DEF Later
<1>9. SourcesInv'
  <2>1. phase' \in {"entry", "decide"}  BY <1>2
  <2> QED
    BY <1>0, <1>7, <1>8, <2>1, KeepsSelects DEF Choosing, SelectionInv, SourcesInv, Expanding, Before
<1> QED  BY <1>5, <1>6, <1>9 DEF SelectionInv

LEMMA DecideSelection == ASSUME Choosing, Decide, phase' # "refused" PROVE SelectionInv'
<1>0. /\ phase = "decide" /\ phase' = "accepted"
      /\ UNCHANGED <<disk, config, matches, chosen, inputs>>
  BY DEF Decide, world, expansion, records
<1>1. EntryInv'
  BY <1>0 DEF Choosing, SelectionInv, EntryInv, Before, Expanding
<1>2. ReadInv'  BY <1>0 DEF ReadInv
<1>3. SourcesInv'
  BY <1>0, KeepsSelects DEF Choosing, SelectionInv, SourcesInv, Before, Expanding
<1> QED  BY <1>1, <1>2, <1>3 DEF SelectionInv

LEMMA StutterSelection == ASSUME Choosing, UNCHANGED vars PROVE SelectionInv'
<1>0. UNCHANGED <<disk, config, phase, package, kind, entry, directories, matches, chosen, inputs>>
  BY DEF vars, world, place, expansion, records
<1>1. EntryInv'
  BY <1>0, SameEntry DEF Choosing, SelectionInv, EntryInv
<1>2. ReadInv'  BY <1>0, SameEntry DEF Choosing, SelectionInv, ReadInv
<1>3. SourcesInv'
  <2>1. \A f \in Recorded : Sourced(f)' = Sourced(f)
    BY <1>0, SameEntry DEF Sourced
  <2>2. \A i \in Packages, k \in Kinds : Later(i, k)' = Later(i, k)
    BY <1>0 DEF Later
  <2> QED
    BY <1>0, <2>1, <2>2, KeepsSelects DEF Choosing, SelectionInv, SourcesInv, Recorded
<1> QED  BY <1>1, <1>2, <1>3 DEF SelectionInv
-----------------------------------------------------------------------------
(***************************************************************************)
(* A refusal has a cause.                                                  *)
(***************************************************************************)
\* The causes, one by one.
LEMMA Causes ==
  /\ Stat(config.file).kind = "absent" => Cause
  /\ \A o \in PlannedOutputs : BadOutput(o) \/ Alike(o, config.file) => Cause
  /\ \A i, j \in Packages : i # j =>
       /\ Folded[CanonicalDirectory(config.packages[i].output.dir)]
            = Folded[CanonicalDirectory(config.packages[j].output.dir)] => Cause
       /\ Alike(config.packages[i].output, config.packages[j].output) => Cause
  /\ \A i \in Packages, k \in Kinds : \A j \in DOMAIN config.packages[i][k] :
       BadEntry(config.packages[i][k][j]) => Cause
  /\ \A i \in Packages : SelectedTwice(i) => Cause
  /\ \A i \in Packages, k \in Kinds : \A p \in Wanted(i, k) :
       /\ Alike(p, config.file) => Cause
       /\ \A o \in PlannedOutputs : Alike(p, o) => Cause
<1>1. \A i \in Packages, k \in Kinds : \A p \in Wanted(i, k) : p \in UNION {WantedBy(j) : j \in Packages}
  BY DEF WantedBy, Kinds
<1> QED  BY <1>1 DEF Cause, Packages, Kinds

\* Nothing but the configuration and the volume is a cause.
LEMMA SameCause == ASSUME UNCHANGED <<disk, config>> PROVE Cause' = Cause
<1>1. \A i \in Packages, k \in Kinds : Wanted(i, k)' = Wanted(i, k)
  BY KeepsSelects
<1>2. \A p, q : Alike(p, q)' = Alike(p, q)
  BY SameVolume DEF Alike, PortableCollisionKey, FoldedName, SameFile
<1>3. \A o : BadOutput(o)' = BadOutput(o)
  BY SameVolume DEF BadOutput
<1>4. \A e : BadEntry(e)' = BadEntry(e)
  <2>1. \A d : Exists(d)' = Exists(d) /\ Listing(d)' = Listing(d) /\ Present(d)' = Present(d)
    <3>1. \A x : DirectoryEntry(x)' = DirectoryEntry(x) /\ Present(x)' = Present(x)
      BY DEF DirectoryEntry, Same, Present
    <3>2. \A x : FollowDirectory(x)' = FollowDirectory(x)
      BY <3>1 DEF FollowDirectory, IsReal, IfReal
    <3>3. \A x : Home(x)' = Home(x)  BY <3>1, <3>2 DEF Home
    <3> QED  BY <3>1, <3>3 DEF Exists, Listing, NamesIn
  <2> QED  BY <2>1, SameVolume, SameSelects DEF BadEntry
<1>5. ASSUME NEW i \in Packages PROVE SelectedTwice(i)' = SelectedTwice(i)
  <2> DEFINE Twice(p, q) == Opened(p) = Opened(q) \/ SameFile(Stat(p), Stat(q))
             Common(d, e) == Selects(d) \cap Selects(e) # {}
             OfOneKind == \E k \in Kinds : \E p, q \in Wanted(i, k) : p # q /\ Twice(p, q)
             OfBothKinds == \E p \in Wanted(i, "schema"), q \in Wanted(i, "queries") : Twice(p, q)
             OfTwoEntries == \E k \in Kinds : \E a, b \in DOMAIN config.packages[i][k] :
               a # b /\ Common(config.packages[i][k][a], config.packages[i][k][b])
  <2>1. \A p, q : Twice(p, q)' = Twice(p, q)  BY SameVolume DEF SameFile
  <2> HIDE DEF Twice
  <2>2. OfOneKind' = OfOneKind  BY <1>1, <2>1
  <2>3. OfBothKinds' = OfBothKinds  BY <1>1, <2>1 DEF Kinds
  <2>4. OfTwoEntries' = OfTwoEntries
    <3>1. \A d, e : Common(d, e)' = Common(d, e)  BY SameSelects
    <3> HIDE DEF Common
    <3> QED  BY <3>1
  <2>5. SelectedTwice(i) = (OfOneKind \/ OfBothKinds \/ OfTwoEntries)
    BY DEF SelectedTwice, Kinds, Twice, Common
  <2>6. SelectedTwice(i)' = (OfOneKind' \/ OfBothKinds' \/ OfTwoEntries')
    BY DEF SelectedTwice, Kinds, Twice, Common
  <2> HIDE DEF OfOneKind, OfBothKinds, OfTwoEntries
  <2> QED  BY <2>2, <2>3, <2>4, <2>5, <2>6
<1>6. UNION {WantedBy(i) : i \in Packages}' = UNION {WantedBy(i) : i \in Packages}
  BY <1>1, KeepsSelects DEF WantedBy, Kinds
<1>7. PlannedOutputs' = PlannedOutputs  BY DEF PlannedOutputs
<1> QED
  BY <1>2, <1>3, <1>4, <1>5, <1>6, <1>7, SameVolume DEF Cause, Packages

LEMMA BeginRefused == ASSUME Choosing, Begin, phase' = "refused" PROVE Cause
  BY Causes DEF Begin

LEMMA ResolveOutputRefused == ASSUME Choosing, ResolveOutput, phase' = "refused" PROVE Cause
<1>0. phase = "resolve" /\ (CanonicalPotentialPath(Output) = NoPath \/ Output.name \notin OutputNames)
  BY DEF ResolveOutput
<1>1. Output \in PlannedOutputs
  BY <1>0 DEF Choosing, Working, Where, Output, PlannedOutputs, Packages
<1>2. CASE Output.name \notin OutputNames
  BY <1>1, <1>2, Causes DEF BadOutput
<1>4. CASE CanonicalPotentialPath(Output) = NoPath /\ CanonicalDirectory(Output.dir) # Nowhere
  <2>1. CASE Lstat(Output).kind = "absent"
    BY <1>4, <2>1 DEF CanonicalPotentialPath, CanonicalPotential, In, NoPath
  <2>2. CASE Lstat(Output).kind = "file"
    BY <1>4, <2>2 DEF CanonicalPotentialPath, CanonicalPotential, CanonicalLeaf, Follow, In, NoPath
  <2>3. CASE Lstat(Output).kind \notin {"absent", "file"}
    BY <1>1, <2>3, Causes DEF BadOutput
  <2> QED  BY <2>1, <2>2, <2>3
<1>5. CASE CanonicalDirectory(Output.dir) = Nowhere
  BY <1>1, <1>5, Causes DEF BadOutput
<1> QED  BY <1>0, <1>2, <1>4, <1>5

\* The identity and the key that are compared are those of the path itself.
LEMMA GoodIsAlike ==
  ASSUME NEW o, GoodOutput(o)
  PROVE  Plan(o).canonical = CanonicalPotentialPath(o) /\ Plan(o).inode = Stat(o).inode
  BY DEF GoodOutput, Plan, Stat, Follow

LEMMA ReadIsAlike ==
  ASSUME NEW p, Stat(p).kind # "absent"
  PROVE  Read(p).canonical = CanonicalPotentialPath(p) /\ Read(p).inode = Stat(p).inode
  BY FoundIsPotential DEF Read

LEMMA CollideIsAlike ==
  ASSUME NEW a, NEW b, NEW p, NEW q, Collide(a, b),
         a.canonical = CanonicalPotentialPath(p), a.inode = Stat(p).inode,
         b.canonical = CanonicalPotentialPath(q), b.inode = Stat(q).inode
  PROVE  Alike(p, q)
  BY DEF Collide, SameKey, SameFile, Alike

\* What is known of the configuration file.
LEMMA ConfigIsAlike ==
  ASSUME Choosing, phase # "begin"
  PROVE  configFile.canonical = CanonicalPotentialPath(config.file) /\ configFile.inode = Stat(config.file).inode
<1>1. Opened(config.file) # NoPath
      /\ configFile = [canonical |-> Opened(config.file), inode |-> Stat(config.file).inode]
  BY DEF Choosing, Working, ConfigInv
<1>2. Stat(config.file).kind # "absent"
  BY <1>1 DEF Opened, CanonicalExistingPath, CanonicalLeaf, Stat
<1> QED  BY <1>1, <1>2, FoundIsPotential

LEMMA InspectOutputRefused == ASSUME Choosing, InspectOutput, phase' = "refused" PROVE Cause
<1> DEFINE planned == Plan(Output)
<1>0. /\ phase = "inspect" /\ CanonicalPotentialPath(Output) # NoPath
      /\ \/ CanonicalDirectory(Output.dir) = Nowhere
         \/ Lstat(Output).kind \notin {"absent", "file"}
         \/ InTheWay(planned)
  BY DEF InspectOutput, Choosing, Working, HandInv, Plan
<1>1. package \in Packages /\ Output \in PlannedOutputs /\ Output = config.packages[package].output
  BY <1>0 DEF Choosing, Working, Where, Output, PlannedOutputs, Packages
<1>2. CASE ~GoodOutput(Output)
  BY <1>0, <1>1, <1>2, Causes DEF BadOutput, GoodOutput
<1>3. CASE GoodOutput(Output) /\ InTheWay(planned)
  <2>1. CASE Collide(planned, configFile)
    <3>1. Alike(Output, config.file)
      BY <1>0, <1>3, <2>1, GoodIsAlike, ConfigIsAlike, CollideIsAlike
    <3> QED  BY <1>1, <3>1, Causes
  <2>2. CASE \E i \in DOMAIN outputs : \/ Collide(planned, outputs[i])
                                       \/ FoldedName(planned.directory) = FoldedName(outputs[i].directory)
    <3>1. PICK i \in DOMAIN outputs : \/ Collide(planned, outputs[i])
                                      \/ FoldedName(planned.directory) = FoldedName(outputs[i].directory)
      BY <2>2
    <3>2. /\ i \in Packages /\ outputs[i] = Plan(config.packages[i].output)
          /\ GoodOutput(config.packages[i].output)
      BY DEF Choosing, Working, OutputsInv
    <3>3. i # package
      <4>1. DOMAIN outputs = 1 .. Len(outputs) /\ Len(outputs) = package - 1 /\ package \in Nat
        BY <1>0 DEF Choosing, Working, Where, OutputsInv
      <4> QED  BY <4>1
    <3>4. CASE Collide(planned, outputs[i])
      <4>1. Alike(Output, config.packages[i].output)
        BY <1>3, <3>2, <3>4, GoodIsAlike, CollideIsAlike
      <4> QED  BY <1>1, <3>2, <3>3, <4>1, Causes
    <3>5. CASE FoldedName(planned.directory) = FoldedName(outputs[i].directory)
      <4>1. Folded[CanonicalDirectory(Output.dir)] = Folded[CanonicalDirectory(config.packages[i].output.dir)]
        BY <3>2, <3>5 DEF FoldedName, Plan
      <4> QED  BY <1>1, <3>2, <3>3, <4>1, Causes
    <3> QED  BY <3>1, <3>4, <3>5
  <2> QED  BY <1>3, <2>1, <2>2 DEF InTheWay
<1> QED  BY <1>0, <1>2, <1>3 DEF GoodOutput

\* An entry that cannot be expanded is to blame itself.
LEMMA BadEntryIsCause ==
  ASSUME Choosing, phase \in Expanding, BadEntry(Entry) PROVE Cause
  BY GoodEntry, Causes DEF Entry, Entries

LEMMA OpenPathRefused == ASSUME Choosing, OpenPath, phase' = "refused" PROVE Cause
<1>1. phase = "entry" /\ Entry.is = "path" /\ Stat(Entry.path).kind # "file"
  BY DEF OpenPath
<1>2. BadEntry(Entry)  BY <1>1, SelectsIs DEF BadEntry
<1> QED  BY <1>1, <1>2, BadEntryIsCause DEF Expanding

LEMMA OpenDirectoryRefused == ASSUME Choosing, OpenDirectory, phase' = "refused" PROVE Cause
<1>1. phase = "entry" /\ Entry.is = "directory" /\ ~Exists(Entry.dir)
  BY DEF OpenDirectory
<1>2. Selects(Entry) = {}  BY <1>1, SelectsIs DEF Matching, Dirs
<1> QED  BY <1>1, <1>2, BadEntryIsCause DEF Expanding, BadEntry

LEMMA ReadDirectoryRefused == ASSUME Choosing, ReadDirectory, phase' = "refused" PROVE Cause
<1>1. phase = "read" /\ Entry.is = "directory" /\ \E d \in directories : ~Exists(d)
  BY DEF ReadDirectory
<1>2. ~Exists(Entry.dir)  BY <1>1 DEF Choosing, SelectionInv, ReadInv, Dirs
<1>3. Selects(Entry) = {}  BY <1>1, <1>2, SelectsIs DEF Matching, Dirs
<1> QED  BY <1>1, <1>3, BadEntryIsCause DEF Expanding, BadEntry

LEMMA StatMatchRefused == ASSUME Choosing, StatMatch, phase' = "refused" PROVE Cause
<1> DEFINE p == CHOOSE p \in matches : TRUE
           passed == Stat(p).kind = "folder" \/ p.name \notin SqlNames
<1>1. /\ phase = "read" /\ matches # {} /\ Entry.is \in {"directory", "glob"}
      /\ Stat(p).kind = "absent" \/ (Stat(p).kind = "device" /\ ~passed)
  BY DEF Choosing, SelectionInv, ReadInv, StatMatch
<1>2. p \in matches  BY <1>1
<1> HIDE DEF p
<1>3. p \in Matching(Entry)  BY <1>1, <1>2 DEF Choosing, SelectionInv, ReadInv
<1>4. CASE p.name \in SqlNames
  <2>1. p \in Selects(Entry)  BY <1>1, <1>3, <1>4, SelectsIs
  <2>2. BadEntry(Entry)  BY <1>1, <2>1 DEF BadEntry
  <2> QED  BY <1>1, <2>2, BadEntryIsCause DEF Expanding
<1>5. CASE p.name \notin SqlNames
  <2>1. Entry.is = "glob" /\ Stat(p).kind = "absent"
    BY <1>1, <1>3, <1>5 DEF Matching, WantedNames
  <2>2. BadEntry(Entry)  BY <1>3, <2>1 DEF BadEntry, Matching, Dirs, WantedNames
  <2> QED  BY <1>1, <2>2, BadEntryIsCause DEF Expanding
<1> QED  BY <1>4, <1>5

LEMMA EndMatchesRefused == ASSUME Choosing, EndMatches, phase' = "refused" PROVE Cause
<1>1. phase = "read" /\ directories = {} /\ matches = {} /\ chosen = {}
  BY DEF EndMatches
<1>2. Selects(Entry) = {}  BY <1>1 DEF Choosing, SelectionInv, ReadInv
<1> QED  BY <1>1, <1>2, BadEntryIsCause DEF Expanding, BadEntry

LEMMA SelectedIsFile ==
  ASSUME Choosing, phase \in {"select", "identify"}, chosen # {}
  PROVE  /\ Selected \in chosen /\ Selected \in Selects(Entry)
         /\ Stat(Selected).kind = "file" /\ Opened(Selected) # NoPath
<1>1. Selected \in chosen  BY DEF Selected
<1>2. Selected \in Selects(Entry) /\ Stat(Selected).kind = "file" /\ disk \in Disks
  BY <1>1 DEF Choosing, Working, HandInv, SelectionInv, EntryInv
<1>3. Selected \in Paths
  <2>1. \A e : e.is # "path" => Selects(e) \subseteq Paths
    BY DEF Selects
  <2>2. Entry.is = "path" => Selects(Entry) \subseteq Paths
    BY GoodEntry, SelectsIs DEF Expanding
  <2> QED  BY <1>2, <2>1, <2>2
<1>4. Selected.dir # Nowhere  BY <1>3, NamesAssumption DEF Paths
<1> QED  BY <1>1, <1>2, <1>4, FoundIsOpened

LEMMA ResolveInputRefused == ASSUME Choosing, ResolveInput, phase' = "refused" PROVE Cause
<1>1. phase = "select" /\ chosen # {} /\ Opened(Selected) = NoPath
  BY DEF ResolveInput, Opened
<1> QED  BY <1>1, SelectedIsFile

LEMMA IdentifyInputRefused == ASSUME Choosing, IdentifyInput, phase' = "refused" PROVE Cause
<1> DEFINE item == Read(Selected)
<1>1. /\ phase = "identify" /\ chosen # {}
      /\ Stat(Selected).kind = "absent" \/ \E previous \in Recorded : Duplicate(previous, item)
  BY DEF Choosing, Working, HandInv, IdentifyInput, Read
<1>2. /\ Selected \in chosen /\ Selected \in Selects(Entry) /\ Stat(Selected).kind = "file"
  BY <1>1, SelectedIsFile
<1>3. PICK previous \in Recorded : Duplicate(previous, item)  BY <1>1, <1>2
<1>4. /\ package \in Packages /\ kind \in Kinds /\ entry \in DOMAIN Entries
      /\ Selects(Entry) \subseteq Wanted(package, kind) /\ DOMAIN Entries = 1 .. Len(Entries)
  BY <1>1, GoodEntry DEF Expanding
<1> DEFINE q == previous.path
<1>5. q \in Wanted(package, kind) /\ previous = Read(q) /\ Sourced(previous)
  BY <1>1, <1>4 DEF Choosing, Working, InputsInv, SelectionInv, SourcesInv, Recorded, Kinds, Expanding
<1>6. CASE q # Selected
  <2>1. Opened(q) = Opened(Selected) \/ SameFile(Stat(q), Stat(Selected))
    BY <1>3, <1>5 DEF Duplicate, SameFile, Read
  <2>2. SelectedTwice(package)
    BY <1>2, <1>4, <1>5, <1>6, <2>1 DEF SelectedTwice, Kinds
  <2> QED  BY <1>4, <2>2, Causes
<1>7. CASE q = Selected
  <2>1. PICK b \in DOMAIN Entries : b < entry /\ q \in Selects(Entries[b])
    BY <1>2, <1>5, <1>7 DEF Sourced
  <2>2. b # entry /\ Selected \in Selects(Entries[b]) \cap Selects(Entries[entry])
    BY <1>2, <1>4, <1>7, <2>1 DEF Entry
  <2>3. SelectedTwice(package)
    BY <1>4, <2>1, <2>2 DEF SelectedTwice, Kinds, Entries
  <2> QED  BY <1>4, <2>3, Causes
<1> QED  BY <1>6, <1>7

LEMMA EndEntryRefused == ASSUME Choosing, EndEntry, phase' = "refused" PROVE Cause
<1>1. phase = "select" /\ Overlap  BY DEF EndEntry
<1>2. PICK s \in inputs[package].schema, q \in Recorded : kind = "queries" /\ Duplicate(s, q)
  BY <1>1 DEF Overlap
<1>3. package \in Packages  BY <1>1, GoodEntry DEF Expanding
<1>4. /\ s.path \in Wanted(package, "schema") /\ s = Read(s.path)
      /\ q.path \in Wanted(package, "queries") /\ q = Read(q.path)
  BY <1>2, <1>3 DEF Choosing, Working, InputsInv, SelectionInv, SourcesInv, Recorded, Kinds
<1>5. Opened(s.path) = Opened(q.path) \/ SameFile(Stat(s.path), Stat(q.path))
  BY <1>2, <1>4 DEF Duplicate, SameFile, Read
<1>6. SelectedTwice(package)  BY <1>4, <1>5 DEF SelectedTwice
<1> QED  BY <1>3, <1>6, Causes

LEMMA DecideRefused == ASSUME Choosing, Decide, phase' = "refused" PROVE Cause
<1>1. phase = "decide"
      /\ \E f \in AllInputs : Collide(configFile, f) \/ \E i \in DOMAIN outputs : Collide(outputs[i], f)
  BY DEF Decide
<1>2. PICK f \in AllInputs : Collide(configFile, f) \/ \E i \in DOMAIN outputs : Collide(outputs[i], f)
  BY <1>1
<1>3. PICK i \in Packages, k \in Kinds : f \in inputs[i][k]
  BY DEF AllInputs, InputsOf, Choosing, Working, InputsInv, Kinds
<1>4. f.path \in Wanted(i, k) /\ f = Read(f.path) /\ Stat(f.path).kind = "file"
  BY <1>3 DEF Choosing, Working, InputsInv, GoodInput, SelectionInv, SourcesInv, Kinds
<1>5. \A a, b : Collide(a, b) <=> Collide(b, a)  BY DEF Collide, SameKey, SameFile
<1>6. f.canonical = CanonicalPotentialPath(f.path) /\ f.inode = Stat(f.path).inode
  BY <1>4, ReadIsAlike
<1>7. CASE Collide(configFile, f)
  <2>1. Alike(f.path, config.file)
    BY <1>1, <1>5, <1>6, <1>7, ConfigIsAlike, CollideIsAlike
  <2> QED  BY <1>3, <1>4, <2>1, Causes
<1>8. CASE \E j \in DOMAIN outputs : Collide(outputs[j], f)
  <2>1. PICK j \in DOMAIN outputs : Collide(outputs[j], f)  BY <1>8
  <2>2. /\ j \in Packages /\ outputs[j] = Plan(config.packages[j].output)
        /\ GoodOutput(config.packages[j].output)
    BY DEF Choosing, Working, OutputsInv
  <2>3. Alike(f.path, config.packages[j].output)
    BY <1>5, <1>6, <2>1, <2>2, GoodIsAlike, CollideIsAlike
  <2>4. config.packages[j].output \in PlannedOutputs  BY <2>2 DEF PlannedOutputs, Packages
  <2> QED  BY <1>3, <1>4, <2>3, <2>4, Causes
<1> QED  BY <1>2, <1>7, <1>8
-----------------------------------------------------------------------------
\* A planner at work has in hand what its entries select; one that has refused
\* had a cause.
CausedInv ==
  Undisturbed => IF phase = "refused" THEN Cause ELSE SelectionInv

LEMMA NextCaused == PlanInv /\ CausedInv /\ [Next]_vars => CausedInv'
<1> SUFFICES ASSUME PlanInv, CausedInv, [Next]_vars, Undisturbed'
             PROVE  IF phase' = "refused" THEN Cause' ELSE SelectionInv'
  BY DEF CausedInv
<1>1. ~(Remove \/ Create \/ Move \/ Relink)
  BY DEF PlanInv, Undisturbed, Remove, Create, Move, Relink, Disturb
<1> DEFINE Own == \/ Begin \/ ResolveOutput \/ InspectOutput
                  \/ OpenPath \/ OpenDirectory \/ OpenGlob \/ ReadDirectory \/ StatMatch \/ EndMatches
                  \/ ResolveInput \/ IdentifyInput \/ EndEntry \/ Decide \/ UNCHANGED vars
<1>2. Own  BY <1>1 DEF Next
<1>3. /\ UNCHANGED <<disk, config, disturbed>>
      /\ phase # "refused" \/ phase' = phase
  BY <1>2 DEF Begin, ResolveOutput, InspectOutput, OpenPath, OpenDirectory, OpenGlob, ReadDirectory,
     StatMatch, EndMatches, ResolveInput, IdentifyInput, EndEntry, Decide, Refuse, vars, world
<1>4. Undisturbed /\ Cause' = Cause  BY <1>3, SameCause DEF Undisturbed
<1>5. CASE phase = "refused"  BY <1>3, <1>4, <1>5 DEF CausedInv
<1>6. CASE phase # "refused"
  <2>1. Choosing  BY <1>4, <1>6 DEF PlanInv, CausedInv, Choosing, Working
  <2>2. CASE phase' = "refused"
    <3>1. ~OpenGlob /\ ~UNCHANGED vars  BY <1>6, <2>2 DEF OpenGlob, vars
    <3> QED
      BY <1>2, <1>4, <2>1, <2>2, <3>1, BeginRefused, ResolveOutputRefused, InspectOutputRefused,
         OpenPathRefused, OpenDirectoryRefused, ReadDirectoryRefused, StatMatchRefused,
         EndMatchesRefused, ResolveInputRefused, IdentifyInputRefused, EndEntryRefused, DecideRefused
  <2>3. CASE phase' # "refused"
    BY <1>2, <2>1, <2>3, BeginSelection, ResolveOutputSelection, InspectOutputSelection,
       OpenPathSelection, OpenSelection, ReadDirectorySelection, StatMatchSelection,
       EndMatchesSelection, ResolveInputSelection, IdentifyInputSelection, EndEntrySelection,
       DecideSelection, StutterSelection
  <2> QED  BY <2>2, <2>3
<1> QED  BY <1>5, <1>6

\* The inductive invariant of the expansion: as long as nobody interferes, the
\* files found so far and the directories still to read are those of the entry.
THEOREM CausedInvariant == Spec => []CausedInv
<1>1. Init => CausedInv
  BY InitSelection DEF Init, CausedInv
<1> QED  BY <1>1, NextCaused, PlanInvariant, PTL DEF Spec

\* On an undisturbed volume every refusal has a reason in the configuration or
\* on the volume: no order of reading or comparing refuses a valid plan.
THEOREM RefusalsHaveCauses == Spec => []RefusedForCause
<1>1. CausedInv => RefusedForCause
  BY DEF CausedInv, RefusedForCause
<1> QED  BY <1>1, CausedInvariant, PTL
-----------------------------------------------------------------------------
(***************************************************************************)
(* What nobody touched: on a volume that changes, the planner is right     *)
(* about every file that no other program touched.                         *)
(***************************************************************************)
DiskInv ==
  /\ disk \in [sensitive: BOOLEAN, target: [Directories -> Directories \cup {Nowhere}],
               entry: [Directories -> [Names -> Found]]]
  /\ \A e \in Directories, n \in Names :
       disk.entry[e][n].kind = "link" => disk.entry[e][n].to \in Paths

PositionInv ==
  /\ config \in Configurations /\ kind \in Kinds
  /\ DOMAIN inputs = Packages /\ \A i \in Packages : DOMAIN inputs[i] = Kinds
  /\ phase \in Before \cup Expanding \cup {"decide", "accepted"}
  /\ phase \in Before => kind = "schema" /\ entry = 1
  /\ phase = "begin" => package = 1
  /\ phase # "begin" /\ phase \in Before \cup Expanding => package \in Packages
  /\ phase \in Expanding => entry \in DOMAIN Entries
  /\ phase = "read" => Entry.is \in {"directory", "glob"} /\ directories \subseteq Directories
  /\ phase # "read" => matches = {}
  /\ phase \notin {"read", "select", "identify"} => chosen = {}
  /\ phase = "identify" => chosen # {}

\* What the planner has in hand of the current entry.
RightInput(p, selected) == p \in Paths /\ (UntouchedFile(p) => p \in selected /\ Stat(p).kind = "file")
InHandInv ==
  /\ phase \in {"read", "select", "identify"} => \A p \in chosen : RightInput(p, Selects(Entry))
  /\ phase = "read" =>
       /\ \A p \in matches : p \in Paths /\ (UntouchedFile(p) => p \in Matching(Entry))
       /\ \A p \in Paths : p.dir \in directories /\ UntouchedFile(p) => p.dir \in Dirs(Entry)
       /\ \A p \in Selects(Entry) :
            UntouchedFile(p) => p \in chosen \/ p \in matches \/ p.dir \in directories
  /\ phase \in {"select", "identify"} =>
       \A p \in Selects(Entry) : UntouchedFile(p) => p \in chosen \/ \E f \in Recorded : f.path = p

\* The planner is through with the j-th entry.
Through(i, k, j) ==
  \/ phase \in {"decide", "accepted"}
  \/ /\ phase \in Expanding
     /\ \/ i < package
        \/ i = package /\ k = "schema" /\ kind = "queries"
        \/ i = package /\ k = kind /\ j < entry
KeptInv ==
  \A i \in Packages, k \in Kinds :
    /\ \A f \in inputs[i][k] : RightInput(f.path, Wanted(i, k))
    /\ \A j \in DOMAIN config.packages[i][k] :
         Through(i, k, j) => \A p \in Selects(config.packages[i][k][j]) :
                               UntouchedFile(p) => \E f \in inputs[i][k] : f.path = p

StableInv == DiskInv /\ (phase # "refused" => PositionInv /\ InHandInv /\ KeptInv)
-----------------------------------------------------------------------------
\* An untouched file keeps what is at its path, whatever others do elsewhere.
Other == Remove \/ Create \/ Move \/ Relink
SameAt(p) ==
  /\ Home(p.dir)' = Home(p.dir) /\ Present(p.dir)' = Present(p.dir)
  /\ Lstat(p)' = Lstat(p)
  /\ (p.name \in Listing(p.dir)') <=> (p.name \in Listing(p.dir))

\* What a change leaves of the volume.
LEMMA OtherSteps ==
  ASSUME DiskInv, disturbed \in Nat, Other
  PROVE  /\ DiskInv' /\ touched \subseteq touched' /\ disk'.sensitive = disk.sensitive
         /\ \A d \in Directories, n \in Names :
              disk'.entry[d][n] # disk.entry[d][n] => [dir |-> d, name |-> n] \in touched'
         /\ UNCHANGED <<config, phase, place, expansion, records>>
<1>0. /\ touched \subseteq touched' /\ UNCHANGED <<config, phase, place, expansion, records>>
  BY DEF Other, Remove, Create, Move, Relink, Disturb
<1>a. ASSUME NEW p \in Paths, NEW e \in Found, e.kind # "link" \/ e.to \in Paths,
             NEW d, d \in [sensitive: BOOLEAN, target: [Directories -> Directories \cup {Nowhere}],
                           entry: [Directories -> [Names -> Found]]],
             \A x \in Directories, n \in Names : d.entry[x][n].kind = "link" => d.entry[x][n].to \in Paths
      PROVE  /\ With(p, e, d) \in [sensitive: BOOLEAN, target: [Directories -> Directories \cup {Nowhere}],
                                   entry: [Directories -> [Names -> Found]]]
             /\ \A x \in Directories, n \in Names :
                  /\ With(p, e, d).entry[x][n].kind = "link" => With(p, e, d).entry[x][n].to \in Paths
                  /\ [dir |-> x, name |-> n] # p => With(p, e, d).entry[x][n] = d.entry[x][n]
             /\ With(p, e, d).sensitive = d.sensitive /\ With(p, e, d).target = d.target
  <2>1. p.dir \in Directories /\ p.name \in Names /\ p = [dir |-> p.dir, name |-> p.name]
    BY DEF Paths
  <2>2. \A x \in Directories, n \in Names :
          With(p, e, d).entry[x][n] = IF x = p.dir /\ n = p.name THEN e ELSE d.entry[x][n]
    BY <1>a, <2>1 DEF With
  <2>3. /\ With(p, e, d).sensitive = d.sensitive /\ With(p, e, d).target = d.target
        /\ With(p, e, d) \in [sensitive: BOOLEAN, target: [Directories -> Directories \cup {Nowhere}],
                              entry: [Directories -> [Names -> Found]]]
    BY <1>a, <2>1 DEF With
  <2> QED  BY <1>a, <2>1, <2>2, <2>3
<1>b. Absent \in Found /\ Absent.kind # "link" /\ File(NewInode) \in Found /\ File(NewInode).kind # "link"
  BY DEF Absent, File, NewInode, Found
<1>c. RealPaths \subseteq Paths /\ \A p \in Paths : EntryOf(p) \in Found
                                                    /\ (EntryOf(p).kind = "link" => EntryOf(p).to \in Paths)
  BY TroubledAssumption DEF RealPaths, EntryOf, DiskInv, Paths
<1>1. CASE Remove
  <2>1. PICK p \in RealPaths : disk' = With(p, Absent, disk) /\ touched' = touched \cup {p}
    BY <1>1 DEF Remove, Disturb
  <2> QED  BY <1>0, <1>a, <1>b, <1>c, <2>1 DEF DiskInv
<1>2. CASE Create
  <2>1. PICK p \in RealPaths : disk' = With(p, File(NewInode), disk) /\ touched' = touched \cup {p}
    BY <1>2 DEF Create, Disturb
  <2> QED  BY <1>0, <1>a, <1>b, <1>c, <2>1 DEF DiskInv
<1>3. CASE Move
  <2>1. PICK p \in RealPaths, q \in RealPaths :
          disk' = With(q, EntryOf(p), With(p, Absent, disk)) /\ touched' = touched \cup {p, q}
    BY <1>3 DEF Move, Disturb
  <2> DEFINE half == With(p, Absent, disk)
  <2>2. /\ half \in [sensitive: BOOLEAN, target: [Directories -> Directories \cup {Nowhere}],
                     entry: [Directories -> [Names -> Found]]]
        /\ \A x \in Directories, n \in Names :
             /\ half.entry[x][n].kind = "link" => half.entry[x][n].to \in Paths
             /\ [dir |-> x, name |-> n] # p => half.entry[x][n] = disk.entry[x][n]
        /\ half.sensitive = disk.sensitive
    BY <1>a, <1>b, <1>c DEF DiskInv
  <2> HIDE DEF half
  <2>3. /\ disk' \in [sensitive: BOOLEAN, target: [Directories -> Directories \cup {Nowhere}],
                      entry: [Directories -> [Names -> Found]]]
        /\ \A x \in Directories, n \in Names :
             /\ disk'.entry[x][n].kind = "link" => disk'.entry[x][n].to \in Paths
             /\ [dir |-> x, name |-> n] # q => disk'.entry[x][n] = half.entry[x][n]
        /\ disk'.sensitive = half.sensitive
    <3>1. disk' = With(q, EntryOf(p), half)  BY <2>1 DEF half
    <3>2. EntryOf(p) \in Found /\ (EntryOf(p).kind # "link" \/ EntryOf(p).to \in Paths)  BY <1>c
    <3> QED  BY <1>a, <1>c, <2>2, <3>1, <3>2
  <2> QED  BY <1>0, <2>1, <2>2, <2>3 DEF DiskInv
<1>4. CASE Relink
  <2>1. PICK e \in Links, to \in Directories \cup {Nowhere} : disk' = [disk EXCEPT !.target[e] = to]
    BY <1>4 DEF Relink
  <2>2. disk'.entry = disk.entry /\ disk'.sensitive = disk.sensitive
        /\ disk' \in [sensitive: BOOLEAN, target: [Directories -> Directories \cup {Nowhere}],
                      entry: [Directories -> [Names -> Found]]]
    BY <2>1, TroubledAssumption DEF DiskInv
  <2> QED  BY <1>0, <2>2 DEF DiskInv
<1> QED  BY <1>1, <1>2, <1>3, <1>4 DEF Other

\* Where a directory leads changes only by a link of its own name.
LEMMA HomesStay ==
  ASSUME DiskInv, Other, NEW p \in Paths, Untouched(p)'
  PROVE  Home(p.dir)' = Home(p.dir) /\ Present(p.dir)' = Present(p.dir)
<1>0. p.dir \in Directories /\ p.name \in Names  BY DEF Paths
<1>1. CASE Remove \/ Create \/ Move
  <2>1. \A q, e, d : With(q, e, d).target = d.target /\ With(q, e, d).sensitive = d.sensitive
    BY DEF With
  <2>2. disk'.target = disk.target /\ disk'.sensitive = disk.sensitive
    <3>1. CASE Remove  BY <2>1, <3>1 DEF Remove
    <3>2. CASE Create  BY <2>1, <3>2 DEF Create
    <3>3. CASE Move
      <4>1. PICK q \in RealPaths, r \in RealPaths : disk' = With(r, EntryOf(q), With(q, Absent, disk))
        BY <3>3 DEF Move
      <4> QED  BY <2>1, <4>1
    <3> QED  BY <1>1, <3>1, <3>2, <3>3
  <2>3. \A x : DirectoryEntry(x)' = DirectoryEntry(x) /\ Present(x)' = Present(x)
    BY <2>2 DEF DirectoryEntry, Same, Present
  <2>4. \A x : FollowDirectory(x)' = FollowDirectory(x)
    BY <2>2, <2>3 DEF FollowDirectory, IsReal, IfReal
  <2> QED  BY <2>3, <2>4 DEF Home
<1>2. CASE Relink
  <2>1. PICK e \in Links, to \in Directories \cup {Nowhere} :
          /\ ~IsReal(e) /\ to \notin Links
          /\ \A d \in Directories : Same(d, e) /\ Present(d) => d = e
          /\ touched' = touched \cup [dir: {e}, name: Names]
          /\ disk' = [disk EXCEPT !.target[e] = to]
    BY <1>2 DEF Relink, Disturb
  <2>2. /\ e \in Directories /\ disk'.sensitive = disk.sensitive
        /\ disk'.target[e] = to /\ \A d \in Directories : d # e => disk'.target[d] = disk.target[d]
    BY <2>1, TroubledAssumption DEF DiskInv
  <2>3. Folded[e] # Folded[p.dir]
    <3>1. [dir |-> e, name |-> p.name] \in touched'  BY <1>0, <2>1
    <3> QED  BY <3>1 DEF Untouched
  <2>4. \A x : Same(x, p.dir)' <=> Same(x, p.dir)  BY <2>2 DEF Same
  <2>5. \A x, y : Same(x, y)' <=> Same(x, y)  BY <2>2 DEF Same
  <2>6. \A x \in Directories : Present(x) /\ x # e <=> Present(x)' /\ x # e
    BY <2>2 DEF Present
  <2>7. ~Same(e, p.dir)  BY <2>3 DEF Same
  <2>8. DirectoryEntry(p.dir)' = DirectoryEntry(p.dir)
    <3>1. {x \in Directories : Same(x, p.dir) /\ Present(x)}' = {x \in Directories : Same(x, p.dir) /\ Present(x)}
      BY <2>5, <2>6, <2>7
    <3> QED  BY <3>1 DEF DirectoryEntry
  <2>9. ASSUME NEW d PROVE IfReal(DirectoryEntry(d))' = IfReal(DirectoryEntry(d))
    <3> DEFINE S == {x \in Directories : Same(x, d) /\ Present(x)}
    <3>1. CASE ~Same(e, d)
      <4>1. S' = S  BY <2>5, <2>6, <3>1
      <4>2. DirectoryEntry(d)' = DirectoryEntry(d)  BY <4>1 DEF DirectoryEntry
      <4>3. DirectoryEntry(d) # e  BY <2>2, <3>1, EntryFound, NamesAssumption
      <4>4. DirectoryEntry(d) = Nowhere \/ DirectoryEntry(d) \in Directories  BY EntryFound
      <4> QED  BY <2>2, <4>2, <4>3, <4>4 DEF IfReal, IsReal
    <3>2. CASE Same(e, d)
      <4>1. S \subseteq {e} /\ S' \subseteq {e}
        <5>1. \A x \in Directories : Same(x, d) => Same(x, e)  BY <3>2 DEF Same
        <5> QED  BY <2>1, <2>5, <2>6, <5>1
      <4>2. DirectoryEntry(d) \in {e, Nowhere} /\ DirectoryEntry(d)' \in {e, Nowhere}
        BY <4>1 DEF DirectoryEntry, OneOf
      <4>3. ~IsReal(e) /\ ~IsReal(e)'
        BY <2>1, <2>2 DEF IsReal
      <4> QED  BY <4>2, <4>3 DEF IfReal
    <3> QED  BY <3>1, <3>2
  <2>10. DirectoryEntry(p.dir) = Nowhere
         \/ (DirectoryEntry(p.dir) \in Directories /\ DirectoryEntry(p.dir) # e)
    BY <2>7, EntryFound
  <2>11. \A x : x = Nowhere \/ (x \in Directories /\ x # e) => FollowDirectory(x)' = FollowDirectory(x)
    <3> SUFFICES ASSUME NEW x \in Directories, x # e PROVE FollowDirectory(x)' = FollowDirectory(x)
      BY DEF FollowDirectory
    <3>1. disk'.target[x] = disk.target[x]  BY <2>2
    <3>2. IfReal(DirectoryEntry(disk.target[x]))' = IfReal(DirectoryEntry(disk.target[x]))
      <4> DEFINE t == disk.target[x]
      <4> HIDE DEF t
      <4>1. \A d : IfReal(DirectoryEntry(d))' = IfReal(DirectoryEntry(d))  BY <2>9
      <4> QED  BY <3>1, <4>1 DEF t
    <3> QED  BY <3>1, <3>2 DEF FollowDirectory, IsReal
  <2>12. p.dir # e  BY <2>3
  <2>13. Home(p.dir)' = Home(p.dir)  BY <2>8, <2>10, <2>11 DEF Home
  <2>14. Present(p.dir)' = Present(p.dir)  BY <1>0, <2>2, <2>12 DEF Present
  <2> QED  BY <2>13, <2>14
<1> QED  BY <1>1, <1>2 DEF Other
LEMMA EntryStays ==
  ASSUME DiskInv, disturbed \in Nat, Other, NEW p \in Paths, Untouched(p)'
  PROVE  SameAt(p) /\ Untouched(p)
<1> DEFINE h == Home(p.dir)
           named == {n \in NamesIn(h) : Same(n, p.name)}
<1>0. /\ touched \subseteq touched' /\ disk'.sensitive = disk.sensitive
      /\ \A d \in Directories, n \in Names :
              disk'.entry[d][n] # disk.entry[d][n] => [dir |-> d, name |-> n] \in touched'
      /\ p.dir \in Directories /\ p.name \in Names
  BY OtherSteps DEF Paths
<1>1. Home(p.dir)' = h /\ Present(p.dir)' = Present(p.dir)  BY HomesStay
<1>2. h \in Directories \cup {Nowhere}  BY HomeIsReal
<1>3. ASSUME NEW n \in Names, Same(n, p.name), h # Nowhere
      PROVE  disk'.entry[h][n] = disk.entry[h][n]
  <2>1. Folded[n] = Folded[p.name]  BY <1>3 DEF Same
  <2>2. [dir |-> h, name |-> n] \notin touched'
    BY <1>1, <2>1 DEF Untouched
  <2> QED  BY <1>0, <1>2, <1>3, <2>2
<1>4. Same(p.name, p.name)  BY DEF Same
<1>5. \A n : Same(n, p.name)' <=> Same(n, p.name)  BY <1>0 DEF Same
<1>6. NamesIn(Home(p.dir))' \cap {n \in Names : Same(n, p.name)} = NamesIn(h) \cap {n \in Names : Same(n, p.name)}
  BY <1>1, <1>3 DEF NamesIn
<1>7. {n \in NamesIn(Home(p.dir)) : Same(n, p.name)}' = named
  BY <1>5, <1>6 DEF NamesIn
<1>8. (p.name \in Listing(p.dir)') <=> (p.name \in Listing(p.dir))
  BY <1>0, <1>4, <1>6 DEF Listing
<1>9. Lstat(p)' = Lstat(p)
  <2>1. CASE named = {}
    BY <1>7, <2>1 DEF Lstat, LstatIn, EntryNamed
  <2>2. CASE named # {}
    <3>1. OneOf(named) \in named  BY <2>2, ChosenOne
    <3>2. h # Nowhere /\ OneOf(named) \in Names /\ Same(OneOf(named), p.name)
      BY <3>1 DEF NamesIn
    <3>3. Lstat(p) = disk.entry[h][OneOf(named)]
      BY <2>2 DEF Lstat, LstatIn, EntryNamed
    <3>4. Lstat(p)' = disk'.entry[h][OneOf(named)]
      BY <1>1, <1>7, <2>2 DEF Lstat, LstatIn, EntryNamed
    <3> QED  BY <1>3, <3>2, <3>3, <3>4
  <2> QED  BY <2>1, <2>2
<1>10. Untouched(p)
  BY <1>0, <1>1 DEF Untouched
<1> QED  BY <1>1, <1>8, <1>9, <1>10 DEF SameAt

LEMMA LinksName ==
  ASSUME DiskInv, NEW p PROVE Lstat(p).kind = "link" => Lstat(p).to \in Paths
<1> DEFINE named == {n \in NamesIn(Home(p.dir)) : Same(n, p.name)}
<1>1. CASE named = {}
  BY <1>1 DEF Lstat, LstatIn, EntryNamed, Absent
<1>2. CASE named # {}
  <2>1. OneOf(named) \in named  BY <1>2, ChosenOne
  <2>2. Home(p.dir) \in Directories /\ OneOf(named) \in Names
    BY <2>1, HomeIsReal DEF NamesIn
  <2>3. Lstat(p) = disk.entry[Home(p.dir)][OneOf(named)]
    BY <1>2 DEF Lstat, LstatIn, EntryNamed
  <2> QED  BY <2>2, <2>3 DEF DiskInv
<1> QED  BY <1>1, <1>2

LEMMA FileStays ==
  ASSUME DiskInv, disturbed \in Nat, Other, NEW p \in Paths, UntouchedFile(p)'
  PROVE  SameAt(p) /\ UntouchedFile(p) /\ Stat(p)' = Stat(p)
<1>1. SameAt(p) /\ Untouched(p)  BY EntryStays DEF UntouchedFile
<1>2. CASE Lstat(p).kind # "link"
  BY <1>1, <1>2 DEF SameAt, UntouchedFile, Stat, Follow
<1>3. CASE Lstat(p).kind = "link"
  <2>0. Lstat(p)' = Lstat(p)  BY <1>1 DEF SameAt
  <2>1. PICK q \in Paths : q = Lstat(p).to  BY <1>3, LinksName
  <2>2. Exists(q.dir)' /\ Untouched(q)'
    BY <1>3, <2>0, <2>1 DEF UntouchedFile
  <2>3. SameAt(q) /\ Untouched(q)  BY <2>2, EntryStays
  <2>4. Exists(q.dir)  BY <2>2, <2>3 DEF SameAt, Exists
  <2>5. UntouchedFile(p)  BY <1>1, <2>1, <2>3, <2>4 DEF UntouchedFile
  <2>6. Stat(p) = Lstat(q)  BY <1>3, <2>1 DEF Stat, Follow
  <2>7. Stat(p)' = Lstat(q)'  BY <1>3, <2>0, <2>1 DEF Stat, Follow
  <2> QED  BY <1>1, <2>3, <2>5, <2>6, <2>7 DEF SameAt
<1> QED  BY <1>2, <1>3

\* So an untouched file is selected, or matched, exactly if it was.
LEMMA SelectionStays ==
  ASSUME DiskInv, disturbed \in Nat, Other, NEW p \in Paths, UntouchedFile(p)', NEW e
  PROVE  /\ p \in Selects(e)' <=> p \in Selects(e)
         /\ p \in Matching(e)' <=> p \in Matching(e)
         /\ p.dir \in Dirs(e)' <=> p.dir \in Dirs(e)
<1>1. SameAt(p) /\ Stat(p)' = Stat(p)  BY FileStays
<1>2. Exists(p.dir)' <=> Exists(p.dir)  BY <1>1 DEF SameAt, Exists
<1>3. p.dir \in Dirs(e)' <=> p.dir \in Dirs(e)  BY <1>1 DEF SameAt, Dirs
<1>4. p \in Matching(e)' <=> p \in Matching(e)
  BY <1>1, <1>2, <1>3 DEF SameAt, Matching
<1>5. p \in Selects(e)' <=> p \in Selects(e)
  <2>1. CASE e.is = "path"  BY <2>1 DEF Selects
  <2>2. CASE e.is # "path"
    <3> DEFINE dirs == IF e.is = "directory" THEN {e.dir} ELSE {d \in e.dirs : e.wild => Present(d)}
               wanted == IF e.is = "glob" THEN e.names ELSE Names
    <3>1. p.dir \in dirs' <=> p.dir \in dirs  BY <1>1 DEF SameAt
    <3>2. Selects(e) = SelectedFrom(dirs, wanted)
      BY <2>2 DEF Selects, SelectedFrom
    <3>3. Selects(e)' = SelectedFrom(dirs, wanted)'
      BY <2>2 DEF Selects, SelectedFrom
    <3>4. p \in SelectedFrom(dirs, wanted)' <=> p \in SelectedFrom(dirs, wanted)
      <4> HIDE DEF dirs, wanted
      <4> QED  BY <1>1, <1>2, <3>1 DEF SameAt, SelectedFrom
    <3> QED  BY <3>2, <3>3, <3>4
  <2> QED  BY <2>1, <2>2
<1> QED  BY <1>3, <1>4, <1>5

LEMMA WantedStays ==
  ASSUME DiskInv, disturbed \in Nat, Other, NEW p \in Paths, UntouchedFile(p)', NEW i, NEW k
  PROVE  p \in Wanted(i, k)' <=> p \in Wanted(i, k)
<1>1. config' = config
  <2>1. UNCHANGED <<config, phase, place, expansion, records>>  BY OtherSteps
  <2> QED  BY <2>1
<1>2. \A e : p \in Selects(e)' <=> p \in Selects(e)  BY SelectionStays
<1> QED  BY <1>1, <1>2 DEF Wanted

LEMMA SelectsPaths ==
  ASSUME config \in Configurations, NEW i \in Packages, NEW k \in Kinds, NEW j \in DOMAIN config.packages[i][k]
  PROVE  Selects(config.packages[i][k][j]) \subseteq Paths
<1> DEFINE e == config.packages[i][k][j]
<1>1. e.is = "path" => e.path \in Paths  BY EntriesAssumption DEF Packages, Kinds
<1> HIDE DEF e
<1>2. Selects(e) \subseteq Paths  BY <1>1 DEF Selects
<1> QED  BY <1>2 DEF e

\* What others do leaves what the planner has in hand and has recorded right
\* about the files that are untouched still.
LEMMA OtherStable == ASSUME StableInv, disturbed \in Nat, Other PROVE StableInv'
<1>0. /\ DiskInv /\ DiskInv'
      /\ UNCHANGED <<config, phase, package, kind, entry, directories, matches, chosen, inputs>>
  <2>1. DiskInv  BY DEF StableInv
  <2>2. DiskInv' /\ UNCHANGED <<config, phase, place, expansion, records>>  BY <2>1, OtherSteps
  <2> QED  BY <2>1, <2>2 DEF place, expansion, records
<1>1. ASSUME phase # "refused" PROVE PositionInv' /\ InHandInv' /\ KeptInv'
  <2>0. PositionInv /\ InHandInv /\ KeptInv  BY <1>1 DEF StableInv
  <2>1. Packages' = Packages /\ Entries' = Entries /\ Entry' = Entry /\ Recorded' = Recorded
    BY <1>0 DEF Packages, Entries, Entry, Recorded
  <2>2. PositionInv'  BY <1>0, <2>0, <2>1 DEF PositionInv
  <2>3. \A p \in Paths : UntouchedFile(p)' =>
          /\ UntouchedFile(p) /\ Stat(p)' = Stat(p)
          /\ \A e : /\ p \in Selects(e)' <=> p \in Selects(e)
                    /\ p \in Matching(e)' <=> p \in Matching(e)
                    /\ p.dir \in Dirs(e)' <=> p.dir \in Dirs(e)
          /\ \A i, k : p \in Wanted(i, k)' <=> p \in Wanted(i, k)
    BY <1>0, FileStays, SelectionStays, WantedStays
  <2>4. \A i \in Packages, k \in Kinds : \A j \in DOMAIN config.packages[i][k] :
          Selects(config.packages[i][k][j])' \subseteq Paths
    <3>1. \A i \in Packages, k \in Kinds : \A j \in DOMAIN config.packages[i][k] :
            config.packages[i][k][j].is = "path" => config.packages[i][k][j].path \in Paths
      BY <2>0, EntriesAssumption DEF PositionInv, Packages, Kinds
    <3>2. \A e : (e.is = "path" => e.path \in Paths) => Selects(e)' \subseteq Paths
      BY <1>0 DEF Selects
    <3> QED  BY <1>0, <3>1, <3>2
  <2>5. Selects(Entry)' \subseteq Paths \/ phase \notin Expanding
    BY <1>0, <2>0, <2>4 DEF PositionInv, Entry, Entries, Expanding, Before
  <2>6. InHandInv'
    BY <1>0, <2>0, <2>1, <2>3, <2>5 DEF InHandInv, RightInput, Expanding
  <2>7. KeptInv'
    <3>1. ASSUME NEW i \in Packages, NEW k \in Kinds
          PROVE  \A f \in inputs[i][k] : RightInput(f.path, Wanted(i, k))'
      BY <2>0, <2>3, <1>0 DEF KeptInv, RightInput
    <3>2. ASSUME NEW i \in Packages, NEW k \in Kinds, NEW j \in DOMAIN config.packages[i][k],
                 Through(i, k, j), NEW p \in Selects(config.packages[i][k][j])', UntouchedFile(p)'
          PROVE  \E f \in inputs[i][k] : f.path = p
      <4>1. p \in Paths  BY <2>4
      <4>2. p \in Selects(config.packages[i][k][j]) /\ UntouchedFile(p)
        BY <1>0, <2>3, <3>2, <4>1
      <4> QED  BY <2>0, <3>2, <4>2 DEF KeptInv
    <3>3. \A i, k, j : Through(i, k, j)' <=> Through(i, k, j)  BY <1>0 DEF Through
    <3> QED  BY <1>0, <2>1, <3>1, <3>2, <3>3 DEF KeptInv, RightInput
  <2> QED  BY <2>2, <2>6, <2>7
<1> QED  BY <1>0, <1>1 DEF StableInv
-----------------------------------------------------------------------------
\* The planner's own steps.
Planning ==
  /\ DiskInv /\ PositionInv /\ InHandInv /\ KeptInv
  /\ phase' # "refused" /\ UNCHANGED <<disk, config, touched>>
Planned == PositionInv' /\ InHandInv' /\ KeptInv'

LEMMA SameHand ==
  ASSUME UNCHANGED <<disk, config, touched>>
  PROVE  /\ \A p : UntouchedFile(p)' <=> UntouchedFile(p)
         /\ \A p, S : RightInput(p, S)' <=> RightInput(p, S)
         /\ Packages' = Packages /\ \A i \in Packages, k \in Kinds : Wanted(i, k)' = Wanted(i, k)
<1>1. \A x : DirectoryEntry(x)' = DirectoryEntry(x)  BY DEF DirectoryEntry, Same, Present
<1>2. \A x : FollowDirectory(x)' = FollowDirectory(x)  BY <1>1 DEF FollowDirectory, IsReal, IfReal
<1>3. \A x : Home(x)' = Home(x)  BY <1>1, <1>2 DEF Home
<1>4. \A p : Untouched(p)' <=> Untouched(p)  BY <1>3 DEF Untouched
<1>5. \A p : UntouchedFile(p)' <=> UntouchedFile(p)
  BY <1>3, <1>4, SameVolume DEF UntouchedFile, Exists
<1>6. \A p, S : RightInput(p, S)' <=> RightInput(p, S)  BY <1>5, SameVolume DEF RightInput
<1> QED  BY <1>5, <1>6, KeepsSelects

\* The packages, and the entry at hand.
LEMMA EntryAtHand ==
  ASSUME PositionInv
  PROVE  /\ Packages = 1 .. Len(config.packages) /\ Len(config.packages) \in Nat \ {0}
         /\ \A i \in Packages, k \in Kinds :
              /\ DOMAIN config.packages[i][k] = 1 .. Len(config.packages[i][k])
              /\ Len(config.packages[i][k]) \in Nat \ {0}
         /\ phase \in Expanding =>
              /\ package \in Packages /\ kind \in Kinds
              /\ DOMAIN Entries = 1 .. Len(Entries) /\ Len(Entries) \in Nat \ {0} /\ entry \in DOMAIN Entries
              /\ Selects(Entry) \subseteq Paths /\ Selects(Entry) \subseteq Wanted(package, kind)
              /\ Entry.is = "path" => Entry.path \in Paths
              /\ Entry.is \in {"directory", "glob"} => Dirs(Entry) \subseteq Directories
<1>1. Packages = 1 .. Len(config.packages) /\ Len(config.packages) \in Nat \ {0}
  BY ConfigurationsAssumption DEF PositionInv, Packages
<1>2. \A i \in Packages, k \in Kinds :
        /\ DOMAIN config.packages[i][k] = 1 .. Len(config.packages[i][k])
        /\ Len(config.packages[i][k]) \in Nat \ {0}
  BY EntriesAssumption DEF PositionInv, Packages, Kinds
<1>3. ASSUME phase \in Expanding
      PROVE  /\ package \in Packages /\ kind \in Kinds
             /\ DOMAIN Entries = 1 .. Len(Entries) /\ Len(Entries) \in Nat \ {0} /\ entry \in DOMAIN Entries
             /\ Selects(Entry) \subseteq Paths /\ Selects(Entry) \subseteq Wanted(package, kind)
             /\ Entry.is = "path" => Entry.path \in Paths
             /\ Entry.is \in {"directory", "glob"} => Dirs(Entry) \subseteq Directories
  <2>1. package \in Packages /\ kind \in Kinds /\ entry \in DOMAIN Entries /\ config \in Configurations
    BY <1>3 DEF PositionInv, Expanding
  <2>2. DOMAIN Entries = 1 .. Len(Entries) /\ Len(Entries) \in Nat \ {0}
    BY <1>2, <2>1 DEF Entries
  <2>3. /\ Entry.is = "path" => Entry.path \in Paths
        /\ Entry.is = "directory" => Entry.dir \in Directories
        /\ Entry.is = "glob" => Entry.dirs \subseteq Directories
    BY <2>1, EntriesAssumption DEF Packages, Kinds, Entries, Entry
  <2>4. Selects(Entry) \subseteq Paths  BY <2>1, SelectsPaths DEF Entry, Entries
  <2>5. Selects(Entry) \subseteq Wanted(package, kind)  BY <2>1 DEF Wanted, Entry, Entries
  <2> QED  BY <2>1, <2>2, <2>3, <2>4, <2>5 DEF Dirs
<1> QED  BY <1>1, <1>2, <1>3

\* Records that stay, and entries that the planner was through with before.
LEMMA KeepsKept ==
  ASSUME Planning, UNCHANGED inputs,
         \A i \in Packages, k \in Kinds : \A j \in DOMAIN config.packages[i][k] :
           Through(i, k, j)' => Through(i, k, j)
  PROVE  KeptInv'
<1>1. \A i \in Packages, k \in Kinds : \A f \in inputs[i][k] : RightInput(f.path, Wanted(i, k))'
  <2>1. \A i \in Packages, k \in Kinds : \A f \in inputs[i][k] : RightInput(f.path, Wanted(i, k))
    BY DEF Planning, KeptInv
  <2>2. \A i \in Packages, k \in Kinds : Wanted(i, k)' = Wanted(i, k)  BY SameHand DEF Planning
  <2>3. \A p, S : RightInput(p, S)' <=> RightInput(p, S)  BY SameHand DEF Planning
  <2> QED  BY <2>1, <2>2, <2>3
<1>2. \A i \in Packages, k \in Kinds : \A j \in DOMAIN config.packages[i][k] :
        Selects(config.packages[i][k][j])' = Selects(config.packages[i][k][j])
  BY SameSelects DEF Planning
<1>3. Packages' = Packages /\ \A p : UntouchedFile(p)' <=> UntouchedFile(p)
  BY SameHand DEF Planning
<1> QED  BY <1>1, <1>2, <1>3 DEF Planning, KeptInv

\* Steps before the first entry.
LEMMA BeforeStable ==
  ASSUME Planning, phase \in Before, phase' \in Before \ {"begin"}, package' \in Packages,
         UNCHANGED <<kind, entry, matches, chosen, inputs>>
  PROVE  Planned
<1>0. Packages' = Packages  BY SameHand DEF Planning
<1>1. PositionInv'  BY <1>0 DEF Planning, PositionInv, Before, Expanding
<1>2. InHandInv'  BY DEF InHandInv, Before
<1>3. KeptInv'
  <2>1. \A i, k, j : ~Through(i, k, j)'  BY DEF Through, Before, Expanding
  <2> QED  BY <2>1, KeepsKept
<1> QED  BY <1>1, <1>2, <1>3 DEF Planned

LEMMA BeginStable == ASSUME Planning, Begin PROVE Planned
<1>0. /\ phase = "begin" /\ phase' = "resolve"
      /\ UNCHANGED <<package, kind, entry, matches, chosen, inputs>>
  BY DEF Planning, Begin, Refuse, place, expansion
<1>1. package \in Packages  BY <1>0, EntryAtHand DEF Planning, PositionInv
<1> QED  BY <1>0, <1>1, BeforeStable DEF Before

LEMMA ResolveOutputStable == ASSUME Planning, ResolveOutput PROVE Planned
<1>0. /\ phase = "resolve" /\ phase' = "inspect"
      /\ UNCHANGED <<package, kind, entry, matches, chosen, inputs>>
  BY DEF Planning, ResolveOutput, Refuse, place, records
<1>1. package \in Packages  BY <1>0 DEF Planning, PositionInv, Before
<1> QED  BY <1>0, <1>1, BeforeStable DEF Before

LEMMA InspectOutputStable == ASSUME Planning, InspectOutput PROVE Planned
<1>0. /\ phase = "inspect"
      /\ \/ package < Len(config.packages) /\ package' = package + 1 /\ phase' = "resolve"
         \/ package' = 1 /\ phase' = "entry"
      /\ UNCHANGED <<kind, entry, matches, chosen, inputs>>
  BY DEF Planning, InspectOutput, Refuse
<1>1. /\ Packages = 1 .. Len(config.packages) /\ Len(config.packages) \in Nat \ {0} /\ package \in Packages
      /\ \A i \in Packages, k \in Kinds :
              /\ DOMAIN config.packages[i][k] = 1 .. Len(config.packages[i][k])
              /\ Len(config.packages[i][k]) \in Nat \ {0}
      /\ kind = "schema" /\ entry = 1 /\ matches = {} /\ chosen = {}
  BY <1>0, EntryAtHand DEF Planning, PositionInv, Before
<1>2. CASE phase' = "resolve"
  BY <1>0, <1>1, <1>2, BeforeStable DEF Before
<1>3. CASE phase' = "entry"
  <2>1. package' = 1 /\ 1 \in Packages /\ 1 \in DOMAIN config.packages[1].schema
    BY <1>0, <1>1, <1>3 DEF Kinds
  <2>2. PositionInv'
    BY <1>0, <1>1, <1>3, <2>1, SameHand DEF Planning, PositionInv, Before, Expanding, Entries
  <2>3. InHandInv'  BY <1>3 DEF InHandInv
  <2>4. KeptInv'
    <3>1. ASSUME NEW i \in Packages, NEW k \in Kinds, NEW j \in DOMAIN config.packages[i][k]
          PROVE  ~Through(i, k, j)'
      <4>1. i \in Nat \ {0} /\ j \in Nat \ {0}  BY <1>1
      <4>2. package' = 1 /\ entry' = 1 /\ kind' = "schema"  BY <1>0, <1>1, <2>1
      <4> QED  BY <1>3, <4>1, <4>2 DEF Through
    <3> QED  BY <1>0, <3>1, KeepsKept
  <2> QED  BY <2>2, <2>3, <2>4 DEF Planned
<1> QED  BY <1>0, <1>2, <1>3

\* Steps within an entry that record nothing.
LEMMA WithinEntry ==
  ASSUME Planning, phase \in Expanding, phase' \in Expanding, UNCHANGED <<place, inputs>>,
         phase' = "read" => Entry.is \in {"directory", "glob"} /\ directories' \subseteq Directories,
         phase' # "read" => matches' = {}, phase' = "entry" => chosen' = {},
         phase' = "identify" => chosen' # {},
         InHandInv'
  PROVE  Planned
<1>0. /\ package \in Packages /\ kind \in Kinds /\ entry \in DOMAIN Entries
      /\ UNCHANGED <<package, kind, entry>>
  BY EntryAtHand DEF Planning, place
<1>1. Packages' = Packages /\ Entries' = Entries /\ Entry' = Entry
  BY <1>0, SameHand DEF Planning, Entries, Entry
<1>2. PositionInv'
  BY <1>0, <1>1 DEF Planning, PositionInv, Before, Expanding
<1>3. KeptInv'
  <2>1. \A i, k, j : Through(i, k, j)' => Through(i, k, j)
    BY <1>0 DEF Through, Expanding
  <2> QED  BY <2>1, KeepsKept
<1> QED  BY <1>2, <1>3 DEF Planned

\* What the current entry selects while the planner stays with it.
LEMMA StaysHere ==
  ASSUME Planning, UNCHANGED <<place, inputs>>
  PROVE  /\ Entry' = Entry /\ Recorded' = Recorded
         /\ Selects(Entry)' = Selects(Entry) /\ Dirs(Entry)' = Dirs(Entry) /\ Matching(Entry)' = Matching(Entry)
         /\ \A p : UntouchedFile(p)' <=> UntouchedFile(p)
         /\ \A p : RightInput(p, Selects(Entry))' <=> RightInput(p, Selects(Entry))
<1>0. UNCHANGED <<disk, config, package, kind, entry>>  BY DEF Planning, place
<1>1. Recorded' = Recorded  BY <1>0 DEF Recorded
<1>2. /\ Entry' = Entry /\ Selects(Entry)' = Selects(Entry)
      /\ Dirs(Entry)' = Dirs(Entry) /\ Matching(Entry)' = Matching(Entry)
  BY <1>0, SameEntry
<1>3. \A p, S : RightInput(p, S)' <=> RightInput(p, S)  BY SameHand DEF Planning
<1>4. \A p : UntouchedFile(p)' <=> UntouchedFile(p)  BY SameHand DEF Planning
<1> QED  BY <1>1, <1>2, <1>3, <1>4

LEMMA OpenPathStable == ASSUME Planning, OpenPath PROVE Planned
<1>0. /\ phase = "entry" /\ phase' = "select" /\ Entry.is = "path"
      /\ Stat(Entry.path).kind = "file" /\ chosen' = {Entry.path}
      /\ UNCHANGED <<place, matches, inputs>>
  BY DEF Planning, OpenPath, Refuse, records
<1>1. matches = {}  BY <1>0 DEF Planning, PositionInv
<1>2. Selects(Entry) = {Entry.path} /\ Entry.path \in Paths
  BY <1>0, SelectsIs, EntryAtHand DEF Planning, Expanding
<1>3. InHandInv'
  <2>1. RightInput(Entry.path, Selects(Entry))  BY <1>0, <1>2 DEF RightInput
  <2> QED  BY <1>0, <1>2, <2>1, StaysHere DEF InHandInv
<1> QED  BY <1>0, <1>1, <1>3, WithinEntry DEF Expanding

LEMMA OpenStable == ASSUME Planning, OpenDirectory \/ OpenGlob PROVE Planned
<1>0. /\ phase = "entry" /\ phase' = "read" /\ directories' = Dirs(Entry)
      /\ Entry.is \in {"directory", "glob"}
      /\ UNCHANGED <<place, matches, chosen, inputs>>
  <2>1. CASE OpenDirectory
    BY <2>1 DEF Planning, OpenDirectory, Refuse, records, Dirs
  <2>2. CASE OpenGlob
    <3>1. directories' = Dirs(Entry)
      <4>1. CASE Entry.wild  BY <2>2, <4>1 DEF OpenGlob, Dirs
      <4>2. CASE ~Entry.wild  BY <2>2, <4>2 DEF OpenGlob, Dirs
      <4> QED  BY <4>1, <4>2
    <3> QED  BY <2>2, <3>1 DEF OpenGlob, records
  <2> QED  BY <2>1, <2>2
<1>1. matches = {} /\ chosen = {}  BY <1>0 DEF Planning, PositionInv
<1>2. Dirs(Entry) \subseteq Directories  BY <1>0, EntryAtHand DEF Planning, Expanding
<1>3. \A p \in Selects(Entry) : p.dir \in Dirs(Entry)  BY <1>0, SelectsIs DEF Matching
<1>4. InHandInv'  BY <1>0, <1>1, <1>3, StaysHere DEF InHandInv
<1> QED  BY <1>0, <1>1, <1>2, <1>4, WithinEntry DEF Expanding

LEMMA ReadDirectoryStable == ASSUME Planning, ReadDirectory PROVE Planned
<1>0. /\ phase = "read" /\ phase' = "read" /\ Entry.is \in {"directory", "glob"}
      /\ directories \subseteq Directories
      /\ UNCHANGED <<place, chosen, inputs>>
  BY DEF Planning, PositionInv, ReadDirectory, Refuse, records
<1>1. PICK d \in directories :
        /\ directories' = directories \ {d}
        /\ matches' = IF Exists(d) THEN matches \cup [dir: {d}, name: Listing(d) \cap WantedNames(Entry)]
                      ELSE matches
  BY <1>0 DEF Planning, ReadDirectory, Refuse, WantedNames
<1>2. \A n \in Listing(d) : n \in Names  BY DEF Listing, NamesIn
<1>3. ASSUME NEW p \in matches'
      PROVE  p \in Paths /\ (UntouchedFile(p) => p \in Matching(Entry))
  <2>1. CASE p \in matches
    BY <1>0, <2>1 DEF Planning, InHandInv
  <2>2. CASE p \notin matches
    <3>1. Exists(d) /\ p \in [dir: {d}, name: Listing(d) \cap WantedNames(Entry)]
      BY <1>1, <1>3, <2>2
    <3>2. p \in Paths /\ p.dir = d /\ p.name \in Listing(d) \cap WantedNames(Entry)
      BY <1>0, <1>2, <3>1 DEF Paths
    <3>3. UntouchedFile(p) => d \in Dirs(Entry)
      BY <1>0, <3>2 DEF Planning, InHandInv
    <3> QED  BY <3>1, <3>2, <3>3 DEF Matching
  <2> QED  BY <2>1, <2>2
<1>4. ASSUME NEW p \in Selects(Entry), UntouchedFile(p)
      PROVE  p \in chosen \/ p \in matches' \/ p.dir \in directories'
  <2>1. p \in chosen \/ p \in matches \/ p.dir \in directories
    BY <1>0, <1>4 DEF Planning, InHandInv
  <2>2. CASE p.dir = d
    <3>1. p \in Matching(Entry)  BY <1>0, SelectsIs
    <3>2. p \in Paths /\ Exists(d) /\ p.name \in Listing(d) \cap WantedNames(Entry)
      BY <2>2, <3>1 DEF Matching
    <3>3. p \in [dir: {d}, name: Listing(d) \cap WantedNames(Entry)]
      BY <2>2, <3>2 DEF Paths
    <3> QED  BY <1>1, <3>2, <3>3
  <2>3. CASE p.dir # d  BY <1>1, <2>1, <2>3
  <2> QED  BY <2>2, <2>3
<1>5. InHandInv'
  <2>1. /\ \A p \in chosen : RightInput(p, Selects(Entry))
        /\ \A p \in Paths : p.dir \in directories /\ UntouchedFile(p) => p.dir \in Dirs(Entry)
    BY <1>0 DEF Planning, InHandInv
  <2>2. directories' \subseteq directories  BY <1>1
  <2> QED  BY <1>0, <1>3, <1>4, <2>1, <2>2, StaysHere DEF InHandInv
<1> QED  BY <1>0, <1>1, <1>5, WithinEntry DEF Expanding

LEMMA StatMatchStable == ASSUME Planning, StatMatch PROVE Planned
<1> DEFINE p == CHOOSE p \in matches : TRUE
           passed == Stat(p).kind = "folder" \/ p.name \notin SqlNames
<1>0. /\ phase = "read" /\ phase' = "read" /\ matches # {} /\ Entry.is \in {"directory", "glob"}
      /\ directories \subseteq Directories
      /\ ~passed => Stat(p).kind = "file"
      /\ matches' = matches \ {p}
      /\ chosen' = IF passed THEN chosen ELSE chosen \cup {p}
      /\ UNCHANGED <<place, directories, inputs>>
  BY DEF Planning, PositionInv, StatMatch, Refuse, records
<1>1. p \in matches  BY <1>0
<1> HIDE DEF p
<1>2. p \in Paths /\ (UntouchedFile(p) => p \in Matching(Entry))
  BY <1>0, <1>1 DEF Planning, InHandInv
<1>3. UntouchedFile(p) => (p \in Selects(Entry) <=> ~passed)
  BY <1>0, <1>2, SelectsIs
<1>4. \A q \in chosen' : RightInput(q, Selects(Entry))
  <2>1. \A q \in chosen : RightInput(q, Selects(Entry))  BY <1>0 DEF Planning, InHandInv
  <2>2. ~passed => RightInput(p, Selects(Entry))  BY <1>0, <1>2, <1>3 DEF RightInput
  <2> QED  BY <1>0, <2>1, <2>2
<1>5. \A q \in Selects(Entry) :
        UntouchedFile(q) => q \in chosen' \/ q \in matches' \/ q.dir \in directories'
  BY <1>0, <1>3 DEF Planning, InHandInv
<1>6. InHandInv'
  BY <1>0, <1>4, <1>5, StaysHere DEF Planning, InHandInv
<1> QED  BY <1>0, <1>6, WithinEntry DEF Expanding

LEMMA EndMatchesStable == ASSUME Planning, EndMatches PROVE Planned
<1>0. /\ phase = "read" /\ phase' = "select" /\ matches = {} /\ directories = {}
      /\ UNCHANGED <<place, matches, chosen, inputs>>
  BY DEF Planning, EndMatches, Refuse, records, expansion
<1>1. InHandInv'
  BY <1>0, StaysHere DEF Planning, InHandInv
<1> QED  BY <1>0, <1>1, WithinEntry DEF Expanding

LEMMA ResolveInputStable == ASSUME Planning, ResolveInput PROVE Planned
<1>0. /\ phase = "select" /\ phase' = "identify" /\ chosen # {}
      /\ UNCHANGED <<place, matches, chosen, inputs>>
  BY DEF Planning, ResolveInput, Refuse, records
<1>1. matches = {}  BY <1>0 DEF Planning, PositionInv
<1>2. InHandInv'
  BY <1>0, StaysHere DEF Planning, InHandInv
<1> QED  BY <1>0, <1>1, <1>2, WithinEntry DEF Expanding

LEMMA IdentifyInputStable == ASSUME Planning, IdentifyInput PROVE Planned
<1> DEFINE item == [path |-> Selected, canonical |-> resolving, inode |-> Stat(Selected).inode]
<1>0. /\ phase = "identify" /\ phase' = "select" /\ chosen # {} /\ matches = {}
      /\ inputs' = [inputs EXCEPT ![package][kind] = @ \cup {item}]
      /\ chosen' = chosen \ {Selected}
      /\ UNCHANGED <<package, kind, entry, matches>>
  BY DEF Planning, PositionInv, IdentifyInput, Refuse, place
<1>1. Selected \in chosen /\ item.path = Selected  BY <1>0 DEF Selected
<1> HIDE DEF item
<1>2. /\ package \in Packages /\ kind \in Kinds /\ entry \in DOMAIN Entries
      /\ Selects(Entry) \subseteq Wanted(package, kind)
  BY <1>0, EntryAtHand DEF Planning, Expanding
<1>3. RightInput(Selected, Selects(Entry)) /\ \A p \in chosen' : RightInput(p, Selects(Entry))
  BY <1>0, <1>1 DEF Planning, InHandInv
<1>4. \A i \in Packages, k \in Kinds :
        inputs'[i][k] = IF i = package /\ k = kind THEN inputs[i][k] \cup {item} ELSE inputs[i][k]
  BY <1>0, <1>2 DEF Planning, PositionInv
<1>5. /\ Packages' = Packages /\ \A i \in Packages, k \in Kinds : Wanted(i, k)' = Wanted(i, k)
      /\ \A p, S : RightInput(p, S)' <=> RightInput(p, S)
      /\ \A p : UntouchedFile(p)' <=> UntouchedFile(p)
  BY SameHand DEF Planning
<1>6. Entries' = Entries /\ Entry' = Entry /\ Selects(Entry)' = Selects(Entry)
  BY <1>0, SameEntry DEF Planning
<1>7. PositionInv'
  <2>1. DOMAIN inputs' = Packages /\ \A i \in Packages : DOMAIN inputs'[i] = Kinds
    BY <1>0 DEF Planning, PositionInv
  <2> QED  BY <1>0, <1>2, <1>5, <1>6, <2>1 DEF Planning, PositionInv, Before, Expanding
<1>8. InHandInv'
  <2>1. \A p \in Selects(Entry) : UntouchedFile(p) => p \in chosen \/ \E f \in Recorded : f.path = p
    BY <1>0 DEF Planning, InHandInv
  <2>2. Recorded' = Recorded \cup {item}  BY <1>0, <1>2, <1>4 DEF Recorded
  <2>3. \A p \in Selects(Entry) : UntouchedFile(p) => p \in chosen' \/ \E f \in Recorded' : f.path = p
    BY <1>0, <1>1, <2>1, <2>2
  <2> QED  BY <1>0, <1>3, <1>5, <1>6, <2>3 DEF InHandInv
<1>9. KeptInv'
  <2>1. ASSUME NEW i \in Packages, NEW k \in Kinds, NEW f \in inputs'[i][k]
        PROVE  RightInput(f.path, Wanted(i, k))
    <3>1. CASE f \in inputs[i][k]  BY <3>1 DEF Planning, KeptInv
    <3>2. CASE f \notin inputs[i][k]
      <4>1. f = item /\ i = package /\ k = kind  BY <1>4, <2>1, <3>2
      <4> QED  BY <1>1, <1>2, <1>3, <4>1 DEF RightInput
    <3> QED  BY <3>1, <3>2
  <2>2. \A i \in Packages, k \in Kinds : inputs[i][k] \subseteq inputs'[i][k]  BY <1>4
  <2>3. \A i, k, j : Through(i, k, j)' <=> Through(i, k, j)
    BY <1>0 DEF Through, Expanding
  <2>4. \A i \in Packages, k \in Kinds : \A j \in DOMAIN config.packages[i][k] :
          /\ Selects(config.packages[i][k][j])' = Selects(config.packages[i][k][j])
          /\ Through(i, k, j) => \A p \in Selects(config.packages[i][k][j]) :
                                   UntouchedFile(p) => \E f \in inputs'[i][k] : f.path = p
    BY <2>2, SameSelects DEF Planning, KeptInv
  <2> QED  BY <1>5, <2>1, <2>3, <2>4 DEF Planning, KeptInv
<1> QED  BY <1>7, <1>8, <1>9 DEF Planned

\* With the last chosen file recorded the planner is through with the entry.
LEMMA EndEntryStable == ASSUME Planning, EndEntry PROVE Planned
<1>0. phase = "select" /\ chosen = {} /\ matches = {} /\ UNCHANGED <<matches, chosen, inputs>>
  BY DEF Planning, PositionInv, EndEntry, Refuse, records, expansion
<1>1. /\ package \in Packages /\ kind \in Kinds /\ entry \in DOMAIN Entries
      /\ DOMAIN Entries = 1 .. Len(Entries) /\ Len(Entries) \in Nat \ {0}
      /\ Packages = 1 .. Len(config.packages) /\ Len(config.packages) \in Nat
      /\ \A i \in Packages, k \in Kinds :
              /\ DOMAIN config.packages[i][k] = 1 .. Len(config.packages[i][k])
              /\ Len(config.packages[i][k]) \in Nat \ {0}
  BY <1>0, EntryAtHand DEF Planning, Expanding
<1>2. \/ /\ UNCHANGED <<package, kind>> /\ phase' = "entry"
         /\ entry < Len(Entries) /\ entry' = entry + 1
      \/ /\ kind = "schema" /\ kind' = "queries" /\ package' = package /\ phase' = "entry" /\ entry' = 1
         /\ entry = Len(Entries)
      \/ /\ kind = "queries" /\ kind' = "schema" /\ package' = package + 1 /\ entry' = 1
         /\ phase' = IF package = Len(config.packages) THEN "decide" ELSE "entry"
         /\ entry = Len(Entries)
  BY <1>1 DEF Planning, EndEntry, Refuse, Kinds
<1>3. Packages' = Packages  BY SameHand DEF Planning
<1>4. (package' \in Packages /\ kind' \in Kinds) \/ phase' = "decide"
  BY <1>1, <1>2 DEF Kinds
<1>5. phase' = "entry" => entry' \in DOMAIN Entries'
  <2>1. CASE UNCHANGED <<package, kind>> /\ entry' = entry + 1 /\ entry < Len(Entries)
    <3>1. Entries' = Entries  BY <2>1 DEF Planning, Entries
    <3> QED  BY <1>1, <2>1, <3>1
  <2>2. CASE entry' = 1 /\ package' \in Packages /\ kind' \in Kinds
    <3>1. Entries' = config.packages[package'][kind']  BY DEF Planning, Entries
    <3> QED  BY <1>1, <2>2, <3>1
  <2> QED  BY <1>2, <1>4, <2>1, <2>2
<1>6. PositionInv'
  BY <1>0, <1>1, <1>2, <1>3, <1>4, <1>5 DEF Planning, PositionInv, Before, Expanding, Kinds
<1>7. InHandInv'  BY <1>2 DEF InHandInv
<1>8. ASSUME NEW i \in Packages, NEW k \in Kinds, NEW j \in DOMAIN config.packages[i][k], Through(i, k, j)'
      PROVE  Through(i, k, j) \/ (i = package /\ k = kind /\ j = entry)
  <2>1. i \in Nat /\ package \in Nat /\ i <= Len(config.packages)
        /\ j \in Nat \ {0} /\ j <= Len(config.packages[i][k]) /\ entry \in Nat /\ entry <= Len(Entries)
    BY <1>1
  <2>2. i = package /\ k = kind => j <= Len(Entries)  BY <2>1 DEF Entries
  <2>3. CASE UNCHANGED <<package, kind>> /\ phase' = "entry" /\ entry' = entry + 1
    BY <1>0, <1>8, <2>1, <2>3 DEF Through, Expanding
  <2>4. CASE kind = "schema" /\ kind' = "queries" /\ package' = package /\ phase' = "entry" /\ entry' = 1
             /\ entry = Len(Entries)
    BY <1>0, <1>8, <2>1, <2>2, <2>4 DEF Through, Expanding
  <2>5. CASE /\ kind = "queries" /\ kind' = "schema" /\ package' = package + 1 /\ entry' = 1
             /\ phase' = IF package = Len(config.packages) THEN "decide" ELSE "entry"
             /\ entry = Len(Entries)
    <3>1. i < package \/ i = package
      BY <1>8, <2>1, <2>5 DEF Through, Expanding
    <3>2. CASE i < package  BY <1>0, <3>2 DEF Through, Expanding
    <3>3. CASE i = package
      BY <1>0, <2>1, <2>2, <2>5, <3>3 DEF Through, Expanding, Kinds
    <3> QED  BY <3>1, <3>2, <3>3
  <2> QED  BY <1>2, <2>3, <2>4, <2>5
<1>9. KeptInv'
  <2>1. ASSUME NEW i \in Packages, NEW k \in Kinds, NEW j \in DOMAIN config.packages[i][k], Through(i, k, j)',
               NEW p \in Selects(config.packages[i][k][j]), UntouchedFile(p)
        PROVE  \E f \in inputs[i][k] : f.path = p
    <3>1. CASE Through(i, k, j)  BY <2>1, <3>1 DEF Planning, KeptInv
    <3>2. CASE i = package /\ k = kind /\ j = entry
      BY <1>0, <2>1, <3>2 DEF Planning, InHandInv, Entry, Entries, Recorded
    <3> QED  BY <1>8, <2>1, <3>1, <3>2
  <2>2. ASSUME NEW i \in Packages, NEW k \in Kinds
        PROVE  \A f \in inputs[i][k] : RightInput(f.path, Wanted(i, k))'
    <3>1. \A f \in inputs[i][k] : RightInput(f.path, Wanted(i, k))  BY DEF Planning, KeptInv
    <3>2. Wanted(i, k)' = Wanted(i, k) /\ \A p, S : RightInput(p, S)' <=> RightInput(p, S)
      BY SameHand DEF Planning
    <3> QED  BY <1>0, <3>1, <3>2
  <2>3. /\ \A e : Selects(e)' = Selects(e)
        /\ \A p : UntouchedFile(p)' <=> UntouchedFile(p)
    BY SameHand, SameSelects DEF Planning
  <2> QED  BY <1>0, <1>3, <2>1, <2>2, <2>3 DEF Planning, KeptInv
<1> QED  BY <1>6, <1>7, <1>9 DEF Planned

LEMMA RestStable ==
  ASSUME Planning, Decide \/ UNCHANGED vars PROVE Planned
<1>0. UNCHANGED <<package, kind, entry, directories, matches, chosen, inputs>>
  BY DEF Decide, vars, place, expansion, records
<1>1. phase' = phase \/ (phase = "decide" /\ phase' = "accepted")
  BY DEF Planning, Decide, vars
<1>2. Packages' = Packages /\ Entries' = Entries /\ Entry' = Entry
  BY <1>0, SameHand DEF Planning, Entries, Entry
<1>3. PositionInv'
  BY <1>0, <1>1, <1>2 DEF Planning, PositionInv, Before, Expanding
<1>4. InHandInv'
  BY <1>0, <1>1, StaysHere DEF Planning, InHandInv, place
<1>5. KeptInv'
  <2>1. \A i, k, j : Through(i, k, j)' => Through(i, k, j)
    BY <1>0, <1>1 DEF Through, Expanding
  <2> QED  BY <1>0, <2>1, KeepsKept
<1> QED  BY <1>3, <1>4, <1>5 DEF Planned
-----------------------------------------------------------------------------
LEMMA InitStable == Init => StableInv
<1> SUFFICES ASSUME Init PROVE StableInv  OBVIOUS
<1>1. DiskInv  BY DisksAssumption DEF Init, DiskInv
<1>2. PositionInv
  BY DEF Init, PositionInv, Packages, Kinds, Before, Expanding
<1>3. InHandInv  BY DEF Init, InHandInv
<1>4. KeptInv
  <2>1. \A i \in Packages, k \in Kinds : inputs[i][k] = {}  BY DEF Init, Packages, Kinds
  <2>2. \A i, k, j : ~Through(i, k, j)  BY DEF Init, Through, Expanding
  <2> QED  BY <2>1, <2>2 DEF KeptInv
<1> QED  BY <1>1, <1>2, <1>3, <1>4 DEF StableInv

LEMMA NextStable == StableInv /\ disturbed \in Nat /\ [Next]_vars => StableInv'
<1> SUFFICES ASSUME StableInv, disturbed \in Nat, [Next]_vars PROVE StableInv'  OBVIOUS
<1> DEFINE Own == \/ Begin \/ ResolveOutput \/ InspectOutput
                  \/ OpenPath \/ OpenDirectory \/ OpenGlob \/ ReadDirectory \/ StatMatch \/ EndMatches
                  \/ ResolveInput \/ IdentifyInput \/ EndEntry \/ Decide \/ UNCHANGED vars
<1>1. CASE Other  BY <1>1, OtherStable
<1>2. CASE Own
  <2>1. phase # "refused" \/ phase' = phase
    BY <1>2 DEF Begin, ResolveOutput, InspectOutput, OpenPath, OpenDirectory, OpenGlob, ReadDirectory,
       StatMatch, EndMatches, ResolveInput, IdentifyInput, EndEntry, Decide, Refuse, vars, world
  <2>2. UNCHANGED <<disk, config, touched>>
    BY <1>2 DEF Begin, ResolveOutput, InspectOutput, OpenPath, OpenDirectory, OpenGlob, ReadDirectory,
       StatMatch, EndMatches, ResolveInput, IdentifyInput, EndEntry, Decide, Refuse, vars, world
  <2>3. DiskInv'  BY <2>2 DEF StableInv, DiskInv
  <2>4. ASSUME phase' # "refused" PROVE Planned
    <3>1. Planning  BY <2>1, <2>2, <2>4 DEF StableInv, Planning
    <3> QED
      BY <1>2, <3>1, BeginStable, ResolveOutputStable, InspectOutputStable, OpenPathStable, OpenStable,
         ReadDirectoryStable, StatMatchStable, EndMatchesStable, ResolveInputStable,
         IdentifyInputStable, EndEntryStable, RestStable
  <2> QED  BY <2>3, <2>4 DEF StableInv, Planned
<1> QED  BY <1>1, <1>2 DEF Next, Other

\* The inductive invariant: of the files that are untouched still, the planner
\* has in hand and records what the entries select, and forgets none.
THEOREM StableInvariant == Spec => []StableInv
<1>1. PlanInv => disturbed \in Nat  BY DEF PlanInv
<1> QED  BY <1>1, PlanInvariant, InitStable, NextStable, PTL DEF Spec

\* Whatever other programs do while the plan is made, a file that nobody
\* touched is an input of the accepted plan exactly if an entry selects it.
THEOREM StableInputsAreSelected == Spec => []StableInputsSelected
<1>1. StableInv => StableInputsSelected
  <2> SUFFICES ASSUME StableInv, phase = "accepted", NEW i \in DOMAIN inputs, NEW k \in {"schema", "queries"}
               PROVE  {p \in Wanted(i, k) : UntouchedFile(p)}
                        = {f.path : f \in {g \in inputs[i][k] : Exists(g.path.dir) /\ UntouchedFile(g.path)}}
    BY DEF StableInputsSelected, Wanted
  <2>1. i \in Packages /\ k \in Kinds  BY DEF StableInv, PositionInv, Kinds
  <2>2. \A f \in inputs[i][k] : RightInput(f.path, Wanted(i, k))
    BY <2>1 DEF StableInv, KeptInv
  <2>3. \A p \in Wanted(i, k) : UntouchedFile(p) => \E f \in inputs[i][k] : f.path = p
    BY <2>1 DEF StableInv, KeptInv, Through, Wanted
  <2>4. ASSUME NEW f \in inputs[i][k], UntouchedFile(f.path)
        PROVE  f.path \in Wanted(i, k) /\ Exists(f.path.dir)
    <3>1. f.path \in Wanted(i, k) /\ Stat(f.path).kind = "file"
      BY <2>2, <2>4 DEF RightInput
    <3>2. Lstat(f.path).kind # "absent"  BY <3>1 DEF Stat, Follow
    <3> QED  BY <3>1, <3>2, FileHasHome DEF Exists
  <2> QED  BY <2>3, <2>4
<1> QED  BY <1>1, StableInvariant, PTL
=============================================================================
