------------------------ MODULE SchemaCatalogProofs ------------------------
(***************************************************************************)
(* Theorems about SchemaCatalog, for inputs of any length over any names   *)
(* and columns: names stay apart, storage is never shared, the order of a  *)
(* table lists its columns, and the catalog implements SchemaReplay: no    *)
(* statement loses, duplicates or edits the definition of another table.   *)
(***************************************************************************)
EXTENDS SchemaCatalog, SequenceTheorems, TLAPS

\* What holds of a map of tables, the published one or a RENAME's clone.
Sound(t) ==
  /\ IsMap(t, Names, Table)
  /\ DOMAIN t \cap external = {} /\ Migrations \notin DOMAIN t
  /\ \A n \in DOMAIN t :
       /\ t[n].name = n
       /\ t[n].columns <= statement /\ t[n].order <= statement /\ t[n].engine <= statement
  /\ \A n, m \in DOMAIN t : n # m =>
       /\ t[n].columns # t[m].columns
       /\ t[n].order # t[m].order
       /\ t[n].engine # NoEngine => t[n].engine # t[m].engine

StorageInv ==
  /\ statement \in 0..MaxStatements /\ external \subseteq Names
  /\ Sound(physical) /\ Sound(pending)
  /\ phase \in {"reading", "alter"} => DOMAIN pending = {}
-----------------------------------------------------------------------------
\* Every reference of a table in a map is a number.
LEMMA TableRefs ==
  ASSUME NEW t, IsMap(t, Names, Table), NEW m \in DOMAIN t
  PROVE  /\ t[m] \in Table /\ t[m].name \in Names
         /\ t[m].columns \in Nat /\ t[m].order \in Nat /\ t[m].engine \in Nat
<1>1. Refs \subseteq Nat /\ NoEngine \in Nat
  BY NamesAssumption DEF Refs, NoEngine
<1>2. t[m] \in Table
  BY DEF IsMap
<1> QED
  BY <1>1, <1>2 DEF Table

\* Both catalogs are empty.
LEMMA InitStorageInv == Init => StorageInv
  BY NamesAssumption DEF Init, StorageInv, Sound, IsMap, Empty

\* A table whose storage the current statement allocates shares none of it.
LEMMA AllocateSound ==
  ASSUME StorageInv, NextStatement, NEW n \in Names, n \notin DOMAIN physical \cup external,
         n # Migrations, NEW cols, NEW order, NEW engine, Allocate(n, cols, order, engine)
  PROVE  StorageInv'
<1> DEFINE r == statement'
           t == [name |-> n, columns |-> r, order |-> r, origin |-> r,
                 engine |-> IF engine = Unused THEN NoEngine ELSE r]
<1>1. /\ statement \in Nat /\ statement' = statement + 1 /\ r \in Refs /\ MaxStatements \in Nat
      /\ external' = external /\ pending' = pending
  BY NamesAssumption DEF NextStatement, StorageInv, Refs, Allocate
<1>2. t \in Table /\ t.name = n /\ t.columns = r /\ t.order = r /\ t.engine \in {NoEngine, r}
  BY <1>1 DEF Table
<1>3. physical' = With(physical, n, t)
  BY DEF Allocate
<1> HIDE DEF t
<1>4. /\ DOMAIN physical' = DOMAIN physical \cup {n}
      /\ physical'[n] = t
      /\ \A m \in DOMAIN physical : physical'[m] = physical[m]
      /\ physical' \in [DOMAIN physical \cup {n} -> Table]
  BY <1>2, <1>3 DEF With, StorageInv, Sound, IsMap
<1>5. \A m \in DOMAIN physical :
         /\ physical[m].columns \in Nat /\ physical[m].order \in Nat
         /\ physical[m].engine \in Nat
  BY NamesAssumption, TableRefs DEF StorageInv, Sound
<1>6. \A m \in DOMAIN pending :
         /\ pending[m].columns \in Nat /\ pending[m].order \in Nat
         /\ pending[m].engine \in Nat
  BY NamesAssumption, TableRefs DEF StorageInv, Sound
<1>7. Sound(physical)'
  BY <1>1, <1>2, <1>4, <1>5 DEF StorageInv, Sound, IsMap, NoEngine
<1>8. Sound(pending)'
  BY <1>1, <1>6 DEF StorageInv, Sound
<1> QED
  BY <1>1, <1>7, <1>8 DEF StorageInv, NextStatement, Refs

\* A step that leaves the tables and the external names alone.
LEMMA FrameSound ==
  ASSUME StorageInv, UNCHANGED <<physical, external, pending>>,
         phase' \in {"reading", "alter"} => phase \in {"reading", "alter"},
         NextStatement \/ UNCHANGED statement
  PROVE  StorageInv'
<1>1. /\ statement \in Nat /\ statement' \in 0..MaxStatements /\ statement <= statement'
  BY NamesAssumption DEF StorageInv, NextStatement
<1>2. \A t \in {physical, pending} : \A m \in DOMAIN t :
         t[m].columns \in Nat /\ t[m].order \in Nat /\ t[m].engine \in Nat
  BY NamesAssumption, TableRefs DEF StorageInv, Sound
<1> QED
  BY <1>1, <1>2 DEF StorageInv, Sound

\* A sound map stays sound when the statement counter moves on.
LEMMA Later ==
  ASSUME NEW t, Sound(t), statement \in Nat, statement' \in Nat, statement <= statement',
         external' = external
  PROVE  /\ IsMap(t, Names, Table)
         /\ DOMAIN t \cap external' = {} /\ Migrations \notin DOMAIN t
         /\ \A n \in DOMAIN t :
              /\ t[n].name = n
              /\ t[n].columns <= statement' /\ t[n].order <= statement'
              /\ t[n].engine <= statement'
         /\ \A n, m \in DOMAIN t : n # m =>
              /\ t[n].columns # t[m].columns
              /\ t[n].order # t[m].order
              /\ t[n].engine # NoEngine => t[n].engine # t[m].engine
  BY TableRefs DEF Sound

\* Giving a table another name keeps its storage.
LEMMA Renamed ==
  ASSUME NEW x \in Table, NEW n \in Names
  PROVE  LET y == [x EXCEPT !.name = n] IN
         /\ y \in Table /\ y.name = n /\ y.columns = x.columns /\ y.order = x.order
         /\ y.engine = x.engine
  BY DEF Table

\* A pair of a RENAME takes the table under a to the free name b.
LEMMA MoveSound ==
  ASSUME NEW t, Sound(t), NEW a \in DOMAIN t, NEW b \in Names,
         b \notin DOMAIN t \cup external, b # Migrations
  PROVE  Sound(With(Without(t, a), b, [t[a] EXCEPT !.name = b]))
<1> DEFINE y == [t[a] EXCEPT !.name = b]
           u == With(Without(t, a), b, y)
<1>1. t[a] \in Table
  BY TableRefs DEF Sound
<1>2. /\ y \in Table /\ y.name = b /\ y.columns = t[a].columns /\ y.order = t[a].order
      /\ y.engine = t[a].engine
  BY <1>1, Renamed
<1> HIDE DEF y
<1>3. /\ DOMAIN u = (DOMAIN t \ {a}) \cup {b} /\ u[b] = y
      /\ \A m \in DOMAIN t \ {a} : u[m] = t[m]
      /\ u \in [DOMAIN u -> Table]
  BY <1>2 DEF With, Without, Restrict, Sound, IsMap
<1> HIDE DEF u
<1>4. Sound(u)
  BY <1>2, <1>3 DEF Sound, IsMap
<1> QED
  BY <1>4 DEF u, y

\* EXCHANGE swaps two definitions.
LEMMA ExchangeSound ==
  ASSUME Sound(physical), NEW a \in DOMAIN physical, NEW b \in DOMAIN physical, a # b
  PROVE  Sound([physical EXCEPT ![a] = [physical[b] EXCEPT !.name = a],
                                ![b] = [physical[a] EXCEPT !.name = b]])
<1> DEFINE x == [physical[b] EXCEPT !.name = a]
           y == [physical[a] EXCEPT !.name = b]
           u == [physical EXCEPT ![a] = x, ![b] = y]
<1>1. /\ physical[a] \in Table /\ physical[b] \in Table /\ a \in Names /\ b \in Names
      /\ physical \in [DOMAIN physical -> Table]
  BY TableRefs DEF Sound, IsMap
<1>2. /\ x \in Table /\ x.name = a /\ x.columns = physical[b].columns
      /\ x.order = physical[b].order /\ x.engine = physical[b].engine
      /\ y \in Table /\ y.name = b /\ y.columns = physical[a].columns
      /\ y.order = physical[a].order /\ y.engine = physical[a].engine
  BY <1>1, Renamed
<1> HIDE DEF x, y
<1>3. /\ DOMAIN u = DOMAIN physical /\ u[a] = x /\ u[b] = y
      /\ \A m \in DOMAIN physical \ {a, b} : u[m] = physical[m]
      /\ u \in [DOMAIN u -> Table]
  BY <1>1, <1>2
<1> HIDE DEF u
<1>4. Sound(u)
  BY <1>2, <1>3 DEF Sound, IsMap
<1> QED
  BY <1>4 DEF u, x, y

\* Every kind of CREATE TABLE keeps the storage apart.
LEMMA CreateKeeps == StorageInv /\ Create => StorageInv'
<1> SUFFICES ASSUME StorageInv, NEW n \in Names, NEW flag \in BOOLEAN,
                    NEW clause \in Clauses \cup {Unused},
                    \/ \E body \in Bodies :
                         CreateExternal(n, body, clause) \/ CreateTable(n, flag, body, clause)
                    \/ \E source \in Names : CreateTableAs(n, flag, source, clause)
             PROVE  StorageInv'
  BY DEF Create
<1>1. ASSUME NextStatement, Skip PROVE StorageInv'
  BY <1>1, FrameSound DEF Skip
<1>2. ASSUME NextStatement, Refuse PROVE StorageInv'
  BY <1>2, FrameSound DEF Refuse
<1>3. ASSUME NEW body \in Bodies, CreateExternal(n, body, clause) PROVE StorageInv'
  <2>1. CASE Refuse
    BY <1>2, <1>3, <2>1 DEF CreateExternal
  <2>2. CASE ~Refuse
    <3>1. /\ NextStatement /\ n \notin DOMAIN physical \cup external
          /\ external' = external \cup {n} /\ physical' = physical /\ pending' = pending
          /\ phase' = phase /\ phase = "reading"
      BY <1>3, <2>2 DEF CreateExternal, NextStatement
    <3>2. statement \in Nat /\ statement' \in 0..MaxStatements /\ statement <= statement'
      BY <3>1, NamesAssumption DEF StorageInv, NextStatement
    <3>3. DOMAIN pending = {}
      BY <3>1 DEF StorageInv
    <3>4. Sound(physical)' /\ Sound(pending)'
      BY <3>1, <3>2, <3>3, TableRefs DEF StorageInv, Sound
    <3> QED
      BY <3>1, <3>2, <3>4 DEF StorageInv
  <2> QED
    BY <2>1, <2>2
<1>4. ASSUME NEW body \in Bodies, CreateTable(n, flag, body, clause) PROVE StorageInv'
  <2>1. CASE /\ n \notin DOMAIN physical \cup external \cup {Migrations}
             /\ Allocate(n, ParseColumns(body), ParseOrder(body), clause)
    BY <1>4, <2>1, AllocateSound DEF CreateTable, CreateChecks
  <2> QED
    BY <1>1, <1>2, <1>4, <2>1 DEF CreateTable, CreateChecks
<1>5. ASSUME NEW source \in Names, CreateTableAs(n, flag, source, clause) PROVE StorageInv'
  <2> DEFINE s == physical[source]
             engine == IF clause # Unused THEN Inherit(clause, s.engine)
                       ELSE IF s.engine = NoEngine THEN Unused ELSE engines[s.engine]
  <2>1. CASE /\ n \notin DOMAIN physical \cup external \cup {Migrations}
             /\ Allocate(n, columns[s.columns], orders[s.order], engine)
    BY <1>5, <2>1, AllocateSound DEF CreateTableAs, CreateChecks
  <2> QED
    BY <1>1, <1>2, <1>5, <2>1 DEF CreateTableAs, CreateChecks
<1> QED
  BY <1>3, <1>4, <1>5

\* DROP, EXCHANGE and RENAME keep the storage apart.
LEMMA MoveKeeps == StorageInv /\ Move => StorageInv'
<1> SUFFICES ASSUME StorageInv, Move PROVE StorageInv'
  OBVIOUS
<1>1. ASSUME NextStatement, Skip PROVE StorageInv'
  BY <1>1, FrameSound DEF Skip
<1>2. ASSUME Refuse, NextStatement \/ UNCHANGED statement PROVE StorageInv'
  BY <1>2, FrameSound DEF Refuse
<1>0. statement \in Nat /\ MaxStatements \in Nat
  BY NamesAssumption DEF StorageInv
<1>3. ASSUME NEW n \in Names, NEW flag \in BOOLEAN, DropTable(n, flag) PROVE StorageInv'
  <2>1. CASE /\ physical' = Without(physical, n)
             /\ UNCHANGED <<external, phase, pending>>
    <3>1. NextStatement /\ statement' \in 0..MaxStatements /\ statement <= statement'
      BY <1>0, <1>3 DEF DropTable, NextStatement
    <3>2. Sound(physical')
      BY <2>1 DEF StorageInv, Sound, IsMap, Without, Restrict
    <3>3. Sound(physical)' /\ Sound(pending)'
      BY <1>0, <2>1, <3>1, <3>2, Later DEF StorageInv, Sound
    <3> QED
      BY <2>1, <3>1, <3>3 DEF StorageInv
  <2> QED
    BY <1>1, <1>2, <1>3, <2>1 DEF DropTable
<1>4. CASE BeginRename
  <2>1. statement' \in 0..MaxStatements /\ statement <= statement'
    BY <1>0, <1>4 DEF BeginRename, NextStatement
  <2>2. Sound(physical)' /\ Sound(pending)'
    BY <1>0, <1>4, <2>1, Later DEF BeginRename, StorageInv, Sound
  <2> QED
    BY <1>4, <2>1, <2>2 DEF BeginRename, StorageInv
<1>5. CASE PublishRename
  BY <1>5, NamesAssumption DEF PublishRename, StorageInv, Sound, Empty, IsMap
<1>6. ASSUME NEW a \in Names, NEW b \in Names, Exchange(a, b) PROVE StorageInv'
  <2>1. CASE Refuse
    BY <1>2, <1>6, <2>1 DEF Exchange
  <2>2. CASE ~Refuse
    <3>1. /\ NextStatement /\ a # b /\ a \in DOMAIN physical /\ b \in DOMAIN physical
          /\ physical' = [physical EXCEPT ![a] = [physical[b] EXCEPT !.name = a],
                                          ![b] = [physical[a] EXCEPT !.name = b]]
          /\ UNCHANGED <<external, phase, pending>>
      BY <1>6, <2>2 DEF Exchange
    <3>2. statement' \in 0..MaxStatements /\ statement <= statement'
      BY <1>0, <3>1 DEF NextStatement
    <3>3. Sound(physical')
      BY <3>1, ExchangeSound DEF StorageInv
    <3>4. statement' \in Nat /\ external' = external /\ Sound(pending) /\ pending' = pending
      BY <1>0, <3>1, <3>2 DEF StorageInv
    <3>5. Sound(physical)'
      BY <1>0, <3>2, <3>3, <3>4, Later DEF Sound
    <3>6. Sound(pending)'
      BY <1>0, <3>2, <3>4, Later DEF Sound
    <3> QED
      BY <3>1, <3>2, <3>5, <3>6 DEF StorageInv
  <2> QED
    BY <2>1, <2>2
<1>7. ASSUME NEW a \in Names, NEW b \in Names, RenamePair(a, b) PROVE StorageInv'
  <2>1. CASE Refuse
    BY <1>2, <1>7, <2>1 DEF RenamePair
  <2>2. CASE ~Refuse
    <3>1. /\ a \in DOMAIN pending /\ b \notin DOMAIN pending \cup external /\ b # Migrations
          /\ pending' = With(Without(pending, a), b, [pending[a] EXCEPT !.name = b])
          /\ UNCHANGED <<statement, physical, external, phase>> /\ phase = "rename"
      BY <1>7, <2>2 DEF RenamePair
    <3>2. Sound(pending')
      BY <3>1, MoveSound DEF StorageInv
    <3>3. Sound(physical)' /\ Sound(pending)'
      BY <3>1, <3>2 DEF StorageInv, Sound
    <3> QED
      BY <3>1, <3>3 DEF StorageInv
  <2> QED
    BY <2>1, <2>2
<1> QED
  BY <1>3, <1>4, <1>5, <1>6, <1>7 DEF Move

\* No clause of an ALTER TABLE touches the tables or the names.
LEMMA AlterKeeps == StorageInv /\ Alter => StorageInv'
<1> SUFFICES ASSUME StorageInv, Alter PROVE StorageInv'
  OBVIOUS
<1> USE DEF Refuse, Skip, ClauseDone, Altering, Store, storage
<1>1. ASSUME NEW n \in Names, NEW supported \in BOOLEAN, BeginAlter(n, supported)
      PROVE  StorageInv'
  BY <1>1, FrameSound DEF BeginAlter, NextStatement
<1>2. ASSUME NEW d \in Definitions, NEW flag \in BOOLEAN,
             \/ \E after \in ColumnNames \cup {"none"} : AddColumn(d, flag, after)
             \/ ModifyColumn(d, flag)
             \/ DropColumn(d.name, flag)
      PROVE  StorageInv'
  BY <1>2, FrameSound DEF AddColumn, ModifyColumn, DropColumn
<1>3. ASSUME RemoveTTL \/ \E s \in Settings : ModifySetting(s) \/ ResetSetting(s)
      PROVE  StorageInv'
  BY <1>3, FrameSound DEF RemoveTTL, ModifySetting, ResetSetting, AlterEngine
<1>4. CASE EndAlter \/ IgnoredClause
  BY <1>4, FrameSound DEF EndAlter, IgnoredClause
<1> QED
  BY <1>1, <1>2, <1>3, <1>4 DEF Alter

\* Every step keeps the storage apart.
LEMMA StepStorageInv == StorageInv /\ [Next]_vars => StorageInv'
<1> SUFFICES ASSUME StorageInv, [Next]_vars PROVE StorageInv'
  OBVIOUS
<1>1. CASE IgnoredStatement \/ UnsupportedStatement \/ UnsupportedPart \/ Return \/ UNCHANGED vars
  BY <1>1, FrameSound DEF IgnoredStatement, UnsupportedStatement, UnsupportedPart, Return,
                          Skip, Refuse, vars
<1> QED
  BY <1>1, CreateKeeps, MoveKeeps, AlterKeeps DEF Next

\* In the catalog and in the map a RENAME works on, every table has storage of
\* its own, allocated by a statement that has begun: the strengthening that
\* CatalogsStayApart and StorageIsNeverShared follow from.
THEOREM StorageInvariant == Spec => []StorageInv
  BY InitStorageInv, StepStorageInv, PTL DEF Spec

\* Whatever the inputs create, rename and exchange, no name is in both
\* catalogs, every table is stored under its own name, and the table of
\* golang-migrate never becomes a physical table.
THEOREM CatalogsStayApart == Spec => []CatalogsApart
<1>1. StorageInv => CatalogsApart
  BY DEF StorageInv, Sound, CatalogsApart
<1> QED
  BY <1>1, StorageInvariant, PTL

\* No two tables share a column map, a column order or an engine, so a copy
\* stays independent of its source.
THEOREM StorageIsNeverShared == Spec => []NoSharedStorage
<1>1. StorageInv => NoSharedStorage
  BY DEF StorageInv, Sound, NoSharedStorage
<1> QED
  BY <1>1, StorageInvariant, PTL
-----------------------------------------------------------------------------
\* A column map in which computed columns, and only they, are not insertable.
Honest(cols) == \A c \in DOMAIN cols : cols[c].insertable <=> cols[c].expr # "alias"

HonestInv == DOMAIN columns = Refs /\ \A r \in Refs : Honest(columns[r])

\* What a column definition parses to.
LEMMA ParsedHonest ==
  /\ \A d : ParseColumn(d).insertable <=> ParseColumn(d).expr # "alias"
  /\ \A body : Honest(ParseColumns(body))
  BY DEF ParseColumn, ParseColumns, Honest

\* Writing one honest map through a reference, wherever it leads.
LEMMA WriteHonest ==
  ASSUME HonestInv, NEW r, NEW cols, r \in Refs => Honest(cols),
         columns' = [columns EXCEPT ![r] = cols]
  PROVE  HonestInv'
<1>1. DOMAIN columns' = Refs
  BY DEF HonestInv
<1>2. ASSUME NEW q \in Refs PROVE columns'[q] = IF q = r THEN cols ELSE columns[q]
  BY DEF HonestInv
<1> QED
  BY <1>1, <1>2 DEF HonestInv

\* A new table has parsed columns or those of an honest source.
LEMMA CreateHonest == StorageInv /\ HonestInv /\ Create => HonestInv'
<1> SUFFICES ASSUME StorageInv, HonestInv, NEW n \in Names, NEW flag \in BOOLEAN,
                    NEW clause \in Clauses \cup {Unused},
                    \/ \E body \in Bodies :
                         CreateExternal(n, body, clause) \/ CreateTable(n, flag, body, clause)
                    \/ \E source \in Names : CreateTableAs(n, flag, source, clause)
             PROVE  HonestInv'
  BY DEF Create
<1>1. CASE columns' = columns
  BY <1>1 DEF HonestInv
<1>2. ASSUME NEW body \in Bodies, CreateTable(n, flag, body, clause), columns' # columns
      PROVE  HonestInv'
  <2>1. columns' = [columns EXCEPT ![statement'] = ParseColumns(body)]
    BY <1>2 DEF CreateTable, CreateChecks, Allocate, Skip, Refuse
  <2> QED
    BY <2>1, ParsedHonest, WriteHonest
<1>3. ASSUME NEW source \in Names, CreateTableAs(n, flag, source, clause), columns' # columns
      PROVE  HonestInv'
  <2> DEFINE s == physical[source]
  <2>1. source \in DOMAIN physical /\ columns' = [columns EXCEPT ![statement'] = columns[s.columns]]
    BY <1>3 DEF CreateTableAs, CreateChecks, Allocate, Skip, Refuse
  <2>2. s.columns \in Refs
    BY <2>1 DEF StorageInv, Sound, IsMap, Table
  <2>3. Honest(columns[s.columns])
    BY <2>2 DEF HonestInv
  <2> QED
    BY <2>1, <2>3, WriteHonest
<1> QED
  BY <1>1, <1>2, <1>3 DEF CreateExternal, Refuse

\* A clause stores parsed columns or keeps what was known of them.
LEMMA AlterHonest == StorageInv /\ HonestInv /\ Alter => HonestInv'
<1> SUFFICES ASSUME HonestInv, Alter PROVE HonestInv'
  OBVIOUS
<1> DEFINE r == physical[target].columns
<1>0. r \in Refs => Honest(Cols)
  BY DEF HonestInv, Cols
<1>1. CASE columns' = columns
  BY <1>1 DEF HonestInv
<1>2. ASSUME NEW d \in Definitions, NEW flag \in BOOLEAN,
             NEW after \in ColumnNames \cup {"none"}, AddColumn(d, flag, after), columns' # columns
      PROVE  HonestInv'
  <2>1. columns' = [columns EXCEPT ![r] = With(Cols, d.name, ParseColumn(d))]
    BY <1>2 DEF AddColumn, Store, storage, Refuse
  <2>2. r \in Refs => Honest(With(Cols, d.name, ParseColumn(d)))
    BY <1>0, ParsedHonest DEF Honest, With
  <2> QED
    BY <2>1, <2>2, WriteHonest
<1>3. ASSUME NEW d \in Definitions, NEW flag \in BOOLEAN, ModifyColumn(d, flag), columns' # columns
      PROVE  HonestInv'
  <2>1. /\ d.name \in DOMAIN Cols
        /\ columns' = [columns EXCEPT ![r] = [Cols EXCEPT ![d.name] = Retype(d, Cols[d.name])]]
    BY <1>3 DEF ModifyColumn, Store, storage, Refuse
  <2>2. r \in Refs => (Retype(d, Cols[d.name]).insertable <=> Retype(d, Cols[d.name]).expr # "alias")
    BY <1>0, <2>1, ParsedHonest DEF Honest, Retype
  <2>3. r \in Refs => Honest([Cols EXCEPT ![d.name] = Retype(d, Cols[d.name])])
    BY <1>0, <2>1, <2>2 DEF Honest
  <2> QED
    BY <2>1, <2>3, WriteHonest
<1>4. ASSUME NEW d \in Definitions, NEW flag \in BOOLEAN, DropColumn(d.name, flag),
             columns' # columns
      PROVE  HonestInv'
  <2>1. columns' = [columns EXCEPT ![r] = Without(Cols, d.name)]
    BY <1>4 DEF DropColumn, Store, storage, Refuse
  <2>2. r \in Refs => Honest(Without(Cols, d.name))
    BY <1>0 DEF Honest, Without, Restrict
  <2> QED
    BY <2>1, <2>2, WriteHonest
<1>5. ASSUME \/ \E n \in Names, supported \in BOOLEAN : BeginAlter(n, supported)
             \/ RemoveTTL \/ IgnoredClause \/ EndAlter
             \/ \E s \in Settings : ModifySetting(s) \/ ResetSetting(s)
      PROVE  columns' = columns
  <2>1. ASSUME NEW altered, AlterEngine(altered) PROVE columns' = columns
    BY <2>1 DEF AlterEngine
  <2>2. CASE IgnoredClause
    BY <2>2 DEF IgnoredClause, storage
  <2>3. CASE EndAlter \/ \E n \in Names, supported \in BOOLEAN : BeginAlter(n, supported)
    BY <2>3 DEF EndAlter, BeginAlter, Skip, Refuse
  <2> QED
    BY <1>5, <2>1, <2>2, <2>3 DEF RemoveTTL, ModifySetting, ResetSetting
<1> QED
  BY <1>1, <1>2, <1>3, <1>4, <1>5 DEF Alter

\* Every map of columns is honest, whatever tables refer to it.
LEMMA HonestInvariant == Spec => []HonestInv
<1>1. Init => HonestInv
  BY DEF Init, HonestInv, Honest, Empty
<1>2. StorageInv /\ HonestInv /\ [Next]_vars => HonestInv'
  <2> SUFFICES ASSUME StorageInv, HonestInv, [Next]_vars PROVE HonestInv'
    OBVIOUS
  <2>1. CASE columns' = columns
    BY <2>1 DEF HonestInv
  <2> QED
    BY <2>1, CreateHonest, AlterHonest
    DEF Next, Move, DropTable, BeginRename, PublishRename, Exchange, RenamePair,
        IgnoredStatement, UnsupportedStatement, UnsupportedPart, Return, Skip, Refuse, vars
<1> QED
  BY <1>1, <1>2, StorageInvariant, PTL DEF Spec

\* A computed column never becomes insertable and no other column stops being
\* insertable, through any chain of MODIFY COLUMN and CREATE TABLE AS.
THEOREM ComputedStaysComputed == Spec => []ComputedNeverInsertable
<1>1. StorageInv /\ HonestInv => ComputedNeverInsertable
  <2> SUFFICES ASSUME StorageInv, HonestInv, NEW n \in DOMAIN physical
               PROVE  Honest(columns[physical[n].columns])
    BY DEF ComputedNeverInsertable, Honest
  <2>1. physical[n].columns \in Refs
    BY DEF StorageInv, Sound, IsMap, Table
  <2> QED
    BY <2>1 DEF HonestInv
<1> QED
  BY <1>1, HonestInvariant, StorageInvariant, PTL
-----------------------------------------------------------------------------
(***************************************************************************)
(* The contents of the storage: the order of a table and its column map.   *)
(***************************************************************************)
\* The order lists each column of the map once.
Lists(order, cols) == IsInjective(order) /\ Range(order) = DOMAIN cols

LEMMA AppendLists ==
  ASSUME NEW S, NEW s \in Seq(S), IsInjective(s), NEW e \in S, e \notin Range(s)
  PROVE  Append(s, e) \in Seq(S) /\ IsInjective(Append(s, e)) /\ Range(Append(s, e)) = Range(s) \cup {e}
<1>1. /\ DOMAIN s = 1 .. Len(s) /\ Len(s) \in Nat /\ DOMAIN Append(s, e) = 1 .. (Len(s) + 1)
      /\ \A i \in 1 .. Len(s) : Append(s, e)[i] = s[i]
      /\ Append(s, e)[Len(s) + 1] = e
  OBVIOUS
<1>2. IsInjective(Append(s, e))
  BY <1>1 DEF IsInjective, Range
<1>3. ASSUME NEW x PROVE x \in Range(Append(s, e)) <=> x \in Range(s) \cup {e}
  BY <1>1 DEF Range
<1> QED  BY <1>2, <1>3

\* A sequence put together from two pieces.
LEMMA ConcatAt ==
  ASSUME NEW S, NEW p \in Seq(S), NEW q \in Seq(S)
  PROVE  /\ p \o q \in Seq(S) /\ DOMAIN (p \o q) = 1 .. (Len(p) + Len(q))
         /\ \A k \in 1 .. Len(p) : (p \o q)[k] = p[k]
         /\ \A k \in 1 .. Len(q) : (p \o q)[Len(p) + k] = q[k]
BY ConcatProperties

LEMMA InRange == ASSUME NEW f, NEW k \in DOMAIN f PROVE f[k] \in Range(f)
BY DEF Range

LEMMA InsertLists ==
  ASSUME NEW S, NEW s \in Seq(S), IsInjective(s), NEW e \in S, e \notin Range(s),
         NEW i \in 1 .. (Len(s) + 1)
  PROVE  InsertAt(s, i, e) \in Seq(S) /\ IsInjective(InsertAt(s, i, e))
         /\ Range(InsertAt(s, i, e)) = Range(s) \cup {e}
<1> DEFINE p == SubSeq(s, 1, i - 1) q == SubSeq(s, i, Len(s)) pe == p \o <<e>> t == pe \o q
<1>1. DOMAIN s = 1 .. Len(s) /\ Len(s) \in Nat /\ i \in Nat
  OBVIOUS
<1>2. p \in Seq(S) /\ Len(p) = i - 1 /\ \A k \in 1 .. (i - 1) : p[k] = s[k]
  BY <1>1
<1>3. \A k \in i .. Len(s) : s[k] \in S
  BY <1>1
<1>4. /\ q \in Seq(S) /\ Len(q) = Len(s) - i + 1
      /\ \A k \in 1 .. (Len(s) - i + 1) : q[k] = s[i + k - 1]
  BY <1>1, <1>3, SubSeqProperties
<1> HIDE DEF p, q
<1>5. /\ pe \in Seq(S) /\ Len(pe) = i /\ pe[i] = e
      /\ \A k \in 1 .. (i - 1) : pe[k] = s[k]
  BY <1>1, <1>2
<1> HIDE DEF pe
<1>6. /\ t \in Seq(S) /\ DOMAIN t = 1 .. (i + Len(q))
      /\ \A k \in 1 .. i : t[k] = pe[k]
      /\ \A k \in 1 .. Len(q) : t[i + k] = q[k]
  BY <1>4, <1>5, ConcatAt
<1> HIDE DEF t
<1>7. /\ DOMAIN t = 1 .. (Len(s) + 1) /\ t[i] = e
      /\ \A k \in 1 .. (i - 1) : t[k] = s[k]
  BY <1>1, <1>4, <1>5, <1>6
<1>8. ASSUME NEW k \in i .. Len(s) PROVE t[k + 1] = s[k]
  <2>1. k - i + 1 \in 1 .. Len(q) /\ i + (k - i + 1) = k + 1 /\ i + (k - i + 1) - 1 = k
    BY <1>1, <1>4
  <2> QED  BY <2>1, <1>4, <1>6
<1> DEFINE Was(k) == IF k < i THEN k ELSE k - 1
<1>9. ASSUME NEW k \in DOMAIN t, k # i PROVE Was(k) \in DOMAIN s /\ t[k] = s[Was(k)]
  <2>1. CASE k < i  BY <1>1, <1>7, <2>1
  <2>2. CASE ~(k < i)
    <3>1. k - 1 \in i .. Len(s) /\ (k - 1) + 1 = k  BY <1>1, <1>7, <1>9, <2>2
    <3> QED  BY <1>1, <1>8, <2>2, <3>1
  <2> QED  BY <2>1, <2>2
<1>10. \A k, l \in DOMAIN t : k # i /\ l # i /\ Was(k) = Was(l) => k = l
  BY <1>1, <1>7
<1> HIDE DEF Was
<1>11. \A k \in DOMAIN s : s[k] # e
  BY InRange
<1>12. IsInjective(t)
  BY <1>7, <1>9, <1>10, <1>11 DEF IsInjective
<1>13. ASSUME NEW x \in Range(t) PROVE x \in Range(s) \cup {e}
  BY <1>7, <1>9, <1>13 DEF Range
<1>14. ASSUME NEW k \in DOMAIN s PROVE s[k] \in Range(t)
  <2>1. CASE k < i
    <3>1. k \in DOMAIN t /\ t[k] = s[k]  BY <1>1, <1>7, <2>1
    <3> QED  BY <3>1, InRange
  <2>2. CASE ~(k < i)
    <3>1. k + 1 \in DOMAIN t /\ t[k + 1] = s[k]  BY <1>1, <1>7, <1>8, <2>2
    <3> QED  BY <3>1, InRange
  <2> QED  BY <2>1, <2>2
<1>15. e \in Range(t)
  <2>1. i \in DOMAIN t  BY <1>1, <1>7
  <2> QED  BY <2>1, <1>7, InRange
<1>16. Range(t) = Range(s) \cup {e}
  BY <1>13, <1>14, <1>15 DEF Range
<1>17. InsertAt(s, i, e) = t
  BY DEF InsertAt, t, pe, p, q
<1> QED  BY <1>6, <1>12, <1>16, <1>17

LEMMA RemoveLists ==
  ASSUME NEW S, NEW s \in Seq(S), IsInjective(s), NEW e \in Range(s)
  PROVE  RemoveFirst(s, e) \in Seq(S) /\ IsInjective(RemoveFirst(s, e))
         /\ Range(RemoveFirst(s, e)) = Range(s) \ {e}
<1>1. DOMAIN s = 1 .. Len(s) /\ Len(s) \in Nat
  OBVIOUS
<1>2. PICK i \in 1 .. Len(s) : s[i] = e  BY <1>1 DEF Range
<1>3. {k \in 1 .. Len(s) : s[k] = e} = {i}  BY <1>1, <1>2 DEF IsInjective
<1>4. RemoveFirst(s, e) = RemoveAt(s, i)
  <2>1. SelectInSeq(s, LAMBDA v : v = e) = i
    <3>1. Min({i}) = i BY DEF Min
    <3> QED BY <1>2, <1>3, <3>1 DEF SelectInSeq
  <2> QED  BY <1>2, <2>1 DEF RemoveFirst
<1> DEFINE p == SubSeq(s, 1, i - 1) q == SubSeq(s, i + 1, Len(s)) t == p \o q
<1>5. p \in Seq(S) /\ Len(p) = i - 1 /\ \A k \in 1 .. (i - 1) : p[k] = s[k]
  BY <1>1
<1>6. \A k \in (i + 1) .. Len(s) : s[k] \in S
  BY <1>1
<1>7. q \in Seq(S) /\ Len(q) = Len(s) - i /\ \A k \in 1 .. (Len(s) - i) : q[k] = s[i + k]
  <2>1. i + 1 \in Int /\ Len(s) \in Int  BY <1>1
  <2>2. /\ q \in Seq(S) /\ Len(q) = (IF i + 1 <= Len(s) THEN Len(s) - (i + 1) + 1 ELSE 0)
        /\ \A k \in 1 .. (Len(s) - (i + 1) + 1) : q[k] = s[(i + 1) + k - 1]
    BY <2>1, <1>6, SubSeqProperties
  <2> HIDE DEF q
  <2>3. \A k \in 1 .. (Len(s) - i) : (i + 1) + k - 1 = i + k
    BY <1>1
  <2> QED  BY <1>1, <2>2, <2>3
<1> HIDE DEF p, q
<1>8. /\ t \in Seq(S) /\ DOMAIN t = 1 .. (Len(p) + Len(q))
      /\ \A k \in 1 .. Len(p) : t[k] = p[k]
      /\ \A k \in 1 .. Len(q) : t[Len(p) + k] = q[k]
  <2>1. p \in Seq(S) /\ q \in Seq(S)  BY <1>5, <1>7
  <2> QED  BY <2>1, ConcatAt
<1> HIDE DEF t
<1>9. /\ DOMAIN t = 1 .. (Len(s) - 1)
      /\ \A k \in 1 .. (i - 1) : t[k] = s[k]
  BY <1>1, <1>5, <1>7, <1>8
<1>10. ASSUME NEW k \in i .. (Len(s) - 1) PROVE t[k] = s[k + 1]
  <2> DEFINE j == k - i + 1
  <2>1. j \in 1 .. Len(q) /\ j \in 1 .. (Len(s) - i) /\ Len(p) + j = k /\ i + j = k + 1
    BY <1>1, <1>5, <1>7
  <2> HIDE DEF j
  <2>2. t[Len(p) + j] = q[j]  BY <2>1, <1>8
  <2>3. q[j] = s[i + j]  BY <2>1, <1>7
  <2> QED  BY <2>1, <2>2, <2>3
<1> DEFINE Was(k) == IF k < i THEN k ELSE k + 1
<1>11. ASSUME NEW k \in DOMAIN t PROVE Was(k) \in DOMAIN s /\ Was(k) # i /\ t[k] = s[Was(k)]
  <2>1. CASE k < i  BY <1>1, <1>9, <2>1
  <2>2. CASE ~(k < i)  BY <1>1, <1>9, <1>10, <2>2
  <2> QED  BY <2>1, <2>2
<1>12. \A k, l \in DOMAIN t : Was(k) = Was(l) => k = l
  BY <1>1, <1>9
<1> HIDE DEF Was
<1>13. IsInjective(t)
  BY <1>11, <1>12 DEF IsInjective
<1>14. ASSUME NEW k \in DOMAIN t PROVE t[k] \in Range(s) /\ t[k] # e
  BY <1>1, <1>2, <1>11, InRange DEF IsInjective
<1>15. ASSUME NEW k \in DOMAIN s, k # i PROVE s[k] \in Range(t)
  <2>1. CASE k < i
    <3>1. k \in DOMAIN t /\ t[k] = s[k]  BY <1>1, <1>9, <2>1
    <3> QED  BY <3>1, InRange
  <2>2. CASE ~(k < i)
    <3>1. k - 1 \in DOMAIN t /\ k - 1 \in i .. (Len(s) - 1) /\ (k - 1) + 1 = k
      BY <1>1, <1>9, <1>15, <2>2
    <3>2. t[k - 1] = s[k]  BY <1>10, <3>1
    <3> QED  BY <3>1, <3>2, InRange
  <2> QED  BY <2>1, <2>2
<1>16. Range(t) = Range(s) \ {e}
  BY <1>2, <1>14, <1>15 DEF Range
<1>17. RemoveAt(s, i) = t
  BY DEF RemoveAt, t, p, q
<1> QED  BY <1>4, <1>8, <1>13, <1>16, <1>17
-----------------------------------------------------------------------------
\* Both columns and order of a table come from one statement.
Twins(t) == \A n \in DOMAIN t : t[n].columns = t[n].order

ContentInv ==
  /\ DOMAIN columns = Refs /\ \A r \in Refs : IsMap(columns[r], ColumnNames, Column)
  /\ orders \in [Refs -> Seq(ColumnNames)]
  /\ engines \in [Refs -> Engine]
  /\ phase \in {"reading", "alter", "rename", "returned", "failed"}
  /\ target \in Names \cup {"none"} /\ progress \in BOOLEAN
  /\ phase = "alter" => target \in DOMAIN physical
  /\ Twins(physical) /\ Twins(pending)
  /\ phase # "failed" => \A r \in Refs : Lists(orders[r], columns[r])

\* A definition parses to a column, a list of them to a map and an order.
LEMMA ParsedColumns ==
  /\ \A d \in Definitions : ParseColumn(d) \in Column
  /\ \A body \in Bodies : /\ IsMap(ParseColumns(body), ColumnNames, Column)
                          /\ ParseOrder(body) \in Seq(ColumnNames)
                          /\ Range(ParseOrder(body)) = DOMAIN ParseColumns(body)
<1>1. ASSUME NEW d \in Definitions PROVE ParseColumn(d) \in Column
  BY InputsAssumption DEF ParseColumn, Column
<1>2. ASSUME NEW body \in Bodies
      PROVE  /\ IsMap(ParseColumns(body), ColumnNames, Column)
             /\ ParseOrder(body) \in Seq(ColumnNames)
             /\ Range(ParseOrder(body)) = DOMAIN ParseColumns(body)
  <2>1. body \in Seq(Definitions)  BY InputsAssumption
  <2>2. DOMAIN body = 1 .. Len(body) /\ Len(body) \in Nat /\ \A k \in DOMAIN body : body[k] \in Definitions
    BY <2>1
  <2>3. \A k \in DOMAIN body : body[k].name \in ColumnNames  BY <2>2 DEF ColumnNames
  <2>4. ParseOrder(body) \in Seq(ColumnNames)  BY <2>2, <2>3 DEF ParseOrder
  <2>5. Range(ParseOrder(body)) = DOMAIN ParseColumns(body)
    BY DEF Range, ParseOrder, ParseColumns
  <2>6. ASSUME NEW c \in {body[k].name : k \in DOMAIN body}
        PROVE  c \in ColumnNames
               /\ ParseColumn(body[CHOOSE k \in DOMAIN body : body[k].name = c]) \in Column
    BY <1>1, <2>2, <2>3
  <2>7. IsMap(ParseColumns(body), ColumnNames, Column)
    BY <2>6 DEF IsMap, ParseColumns
  <2> QED  BY <2>4, <2>5, <2>7
<1> QED  BY <1>1, <1>2

\* A step that leaves storage and tables alone.
LEMMA FrameContent ==
  ASSUME ContentInv, UNCHANGED <<physical, pending, columns, orders, engines, target>>,
         phase' \in {phase, "failed"} \/ (phase' \in {"reading", "returned"} /\ phase # "failed"),
         progress' \in BOOLEAN
  PROVE  ContentInv'
BY DEF ContentInv, Twins

\* Writing a column map and an order through one reference.
LEMMA WriteContent ==
  ASSUME ContentInv, NEW r \in Refs, NEW cols, NEW order, IsMap(cols, ColumnNames, Column),
         order \in Seq(ColumnNames),
         columns' = [columns EXCEPT ![r] = cols], orders' = [orders EXCEPT ![r] = order]
  PROVE  /\ DOMAIN columns' = Refs /\ \A q \in Refs : IsMap(columns'[q], ColumnNames, Column)
         /\ orders' \in [Refs -> Seq(ColumnNames)]
         /\ phase # "failed" /\ Lists(order, cols) => \A q \in Refs : Lists(orders'[q], columns'[q])
<1>1. \A q \in Refs : /\ columns'[q] = IF q = r THEN cols ELSE columns[q]
                      /\ orders'[q] = IF q = r THEN order ELSE orders[q]
  BY DEF ContentInv
<1>2. DOMAIN columns' = Refs /\ orders' \in [Refs -> Seq(ColumnNames)]
  BY DEF ContentInv
<1> QED  BY <1>1, <1>2 DEF ContentInv

\* The storage of a new table.
LEMMA AllocateContent ==
  ASSUME StorageInv, ContentInv, NextStatement, NEW n \in Names,
         NEW cols, NEW order, NEW engine, Allocate(n, cols, order, engine),
         IsMap(cols, ColumnNames, Column), order \in Seq(ColumnNames), Lists(order, cols),
         engine \in Engine
  PROVE  ContentInv'
<1> DEFINE r == statement'
<1>1. r \in Refs
  BY NamesAssumption DEF NextStatement, StorageInv, Refs
<1>2. /\ columns' = [columns EXCEPT ![r] = cols] /\ orders' = [orders EXCEPT ![r] = order]
      /\ engines' = [engines EXCEPT ![r] = engine]
      /\ UNCHANGED <<external, phase, target, pending, progress>> /\ phase = "reading"
  BY DEF Allocate, NextStatement
<1>3. /\ DOMAIN columns' = Refs /\ \A q \in Refs : IsMap(columns'[q], ColumnNames, Column)
      /\ orders' \in [Refs -> Seq(ColumnNames)]
      /\ \A q \in Refs : Lists(orders'[q], columns'[q])
  BY <1>1, <1>2, WriteContent
<1>4. engines' \in [Refs -> Engine]
  BY <1>1, <1>2 DEF ContentInv
<1>5. Twins(physical')
  BY DEF Allocate, With, Twins, ContentInv
<1> QED
  BY <1>2, <1>3, <1>4, <1>5 DEF ContentInv, Twins

LEMMA EngineFields ==
  /\ Unused \in Engine /\ Clauses \subseteq Engine
  /\ \A e \in Engine, k \in {c.key : c \in Clauses} \cup {"none"} : [e EXCEPT !.key = k] \in Engine
  /\ \A e \in Engine : [e EXCEPT !.ttl = FALSE] \in Engine
  /\ \A e \in Engine, s \in SUBSET Settings : [e EXCEPT !.settings = s] \in Engine
BY InputsAssumption DEF Engine, Unused

LEMMA TableContent ==
  ASSUME StorageInv, ContentInv, phase # "failed", NEW n \in DOMAIN physical
  PROVE  LET s == physical[n] IN
         /\ s.columns \in Refs /\ s.order = s.columns /\ s.engine \in Refs \cup {NoEngine}
         /\ IsMap(columns[s.columns], ColumnNames, Column)
         /\ orders[s.order] \in Seq(ColumnNames) /\ Lists(orders[s.order], columns[s.columns])
         /\ s.engine # NoEngine => engines[s.engine] \in Engine
<1>1. physical[n] \in Table
  BY DEF StorageInv, Sound, IsMap
<1>2. physical[n].columns \in Refs /\ physical[n].engine \in Refs \cup {NoEngine}
  BY <1>1 DEF Table
<1> QED  BY <1>2 DEF ContentInv, Twins

LEMMA CreateContent == StorageInv /\ ContentInv /\ Create => ContentInv'
<1> SUFFICES ASSUME StorageInv, ContentInv, NEW n \in Names, NEW flag \in BOOLEAN,
                    NEW clause \in Clauses \cup {Unused},
                    \/ \E body \in Bodies :
                         CreateExternal(n, body, clause) \/ CreateTable(n, flag, body, clause)
                    \/ \E source \in Names : CreateTableAs(n, flag, source, clause)
             PROVE  ContentInv'
  BY DEF Create
<1>1. ASSUME Skip \/ Refuse PROVE ContentInv'
  BY <1>1, FrameContent DEF Skip, Refuse, ContentInv
<1>2. clause \in Engine
  BY EngineFields
<1>3. ASSUME NEW body \in Bodies, CreateExternal(n, body, clause) PROVE ContentInv'
  <2>1. CASE UNCHANGED <<physical, columns, orders, engines, phase, target, pending, progress>>
    BY <2>1, FrameContent DEF ContentInv
  <2> QED  BY <1>1, <1>3, <2>1 DEF CreateExternal
<1>4. ASSUME NEW body \in Bodies, CreateTable(n, flag, body, clause) PROVE ContentInv'
  <2>1. CASE /\ NextStatement /\ IsInjective(ParseOrder(body))
             /\ Allocate(n, ParseColumns(body), ParseOrder(body), clause)
    BY <2>1, <1>2, ParsedColumns, AllocateContent DEF Lists
  <2> QED
    BY <1>1, <1>4, <2>1 DEF CreateTable, CreateChecks
<1>5. ASSUME NEW source \in Names, CreateTableAs(n, flag, source, clause) PROVE ContentInv'
  <2> DEFINE s == physical[source]
             engine == IF clause # Unused THEN Inherit(clause, s.engine)
                       ELSE IF s.engine = NoEngine THEN Unused ELSE engines[s.engine]
  <2>1. CASE /\ NextStatement /\ source \in DOMAIN physical
             /\ Allocate(n, columns[s.columns], orders[s.order], engine)
    <3>1. /\ IsMap(columns[s.columns], ColumnNames, Column)
          /\ orders[s.order] \in Seq(ColumnNames) /\ Lists(orders[s.order], columns[s.columns])
          /\ s.engine # NoEngine => engines[s.engine] \in Engine
      BY <2>1, TableContent DEF NextStatement
    <3>2. \A e \in Engine : e.key \in {c.key : c \in Clauses} \cup {"none"}
      BY DEF Engine
    <3>3. Inherit(clause, s.engine) \in Engine
      BY <1>2, <3>1, <3>2, EngineFields DEF Inherit
    <3>4. engine \in Engine
      BY <3>1, <3>3, EngineFields
    <3> HIDE DEF engine
    <3> QED
      BY <2>1, <3>1, <3>4, AllocateContent
  <2> QED
    BY <1>1, <1>5, <2>1 DEF CreateTableAs, CreateChecks
<1> QED
  BY <1>3, <1>4, <1>5

LEMMA MoveContent == StorageInv /\ ContentInv /\ Move => ContentInv'
<1> SUFFICES ASSUME StorageInv, ContentInv, Move PROVE ContentInv'
  OBVIOUS
<1>1. ASSUME Skip \/ Refuse PROVE ContentInv'
  BY <1>1, FrameContent DEF Skip, Refuse, ContentInv
<1>2. ASSUME UNCHANGED <<columns, orders, engines, target>>, Twins(physical'), Twins(pending'),
             progress' \in BOOLEAN, phase \in {"reading", "rename"},
             phase' \in {"reading", "rename"}
      PROVE  ContentInv'
  BY <1>2 DEF ContentInv, Twins
<1>3. ASSUME NEW n \in Names, NEW flag \in BOOLEAN, DropTable(n, flag) PROVE ContentInv'
  <2>1. CASE /\ NextStatement /\ physical' = Without(physical, n)
             /\ UNCHANGED <<columns, orders, engines, phase, target, pending, progress>>
    <3>1. Twins(physical') /\ Twins(pending')
      BY <2>1 DEF ContentInv, Twins, Without, Restrict
    <3> QED  BY <1>2, <2>1, <3>1 DEF ContentInv, NextStatement
  <2> QED  BY <1>1, <1>3, <2>1 DEF DropTable
<1>4. CASE BeginRename
  BY <1>2, <1>4 DEF BeginRename, NextStatement, ContentInv
<1>5. CASE PublishRename
  BY <1>2, <1>5 DEF PublishRename, ContentInv, Twins, Empty
<1>6. ASSUME NEW a \in Names, NEW b \in Names, Exchange(a, b) PROVE ContentInv'
  <2>1. CASE Refuse  BY <1>1, <2>1
  <2>2. CASE ~Refuse
    <3>1. /\ NextStatement /\ a # b /\ a \in DOMAIN physical /\ b \in DOMAIN physical
          /\ physical' = [physical EXCEPT ![a] = [physical[b] EXCEPT !.name = a],
                                          ![b] = [physical[a] EXCEPT !.name = b]]
          /\ UNCHANGED <<columns, orders, engines, phase, target, pending, progress>>
      BY <1>6, <2>2 DEF Exchange
    <3>2. physical[a] \in Table /\ physical[b] \in Table
      BY <3>1, TableRefs DEF StorageInv, Sound
    <3> DEFINE x == [physical[b] EXCEPT !.name = a] y == [physical[a] EXCEPT !.name = b]
    <3>3. x.columns = x.order /\ y.columns = y.order
      BY <3>1, <3>2, Renamed DEF ContentInv, Twins
    <3> HIDE DEF x, y
    <3>4. \A n \in DOMAIN physical' : physical'[n] \in {x, y, physical[n]}
      BY <3>1 DEF x, y
    <3>5. DOMAIN physical' = DOMAIN physical
      BY <3>1
    <3>6. ASSUME NEW n \in DOMAIN physical' PROVE physical'[n].columns = physical'[n].order
      <4>1. n \in DOMAIN physical /\ physical[n].columns = physical[n].order
        BY <3>5 DEF ContentInv, Twins
      <4>2. physical'[n] = x \/ physical'[n] = y \/ physical'[n] = physical[n]
        BY <3>4
      <4> QED  BY <3>3, <4>1, <4>2
    <3>7. Twins(physical') /\ Twins(pending')
      BY <3>1, <3>6 DEF ContentInv, Twins
    <3> QED  BY <1>2, <3>1, <3>7 DEF ContentInv, NextStatement
  <2> QED  BY <2>1, <2>2
<1>7. ASSUME NEW a \in Names, NEW b \in Names, RenamePair(a, b) PROVE ContentInv'
  <2>1. CASE Refuse  BY <1>1, <2>1
  <2>2. CASE ~Refuse
    <3> DEFINE x == [pending[a] EXCEPT !.name = b]
    <3>1. /\ a \in DOMAIN pending /\ pending' = With(Without(pending, a), b, x)
          /\ progress' = TRUE /\ phase = "rename"
          /\ UNCHANGED <<physical, columns, orders, engines, phase, target>>
      BY <1>7, <2>2 DEF RenamePair
    <3>2. pending[a] \in Table
      BY <3>1, TableRefs DEF StorageInv, Sound
    <3>3. x.columns = x.order
      BY <3>1, <3>2, Renamed DEF ContentInv, Twins
    <3> HIDE DEF x
    <3>4. Twins(physical') /\ Twins(pending')
      BY <3>1, <3>3 DEF ContentInv, Twins, With, Without, Restrict
    <3> QED  BY <1>2, <3>1, <3>4 DEF ContentInv
  <2> QED  BY <2>1, <2>2
<1> QED
  BY <1>3, <1>4, <1>5, <1>6, <1>7 DEF Move

\* A clause that stores a map and the order that lists it.
LEMMA StoreContent ==
  ASSUME StorageInv, ContentInv, Altering, NEW cols, NEW order, Store(cols, order),
         IsMap(cols, ColumnNames, Column), order \in Seq(ColumnNames),
         UNCHANGED <<physical, external, target, pending>>,
         \/ phase' = phase /\ progress' = TRUE /\ Lists(order, cols)
         \/ phase' = "failed" /\ UNCHANGED progress
  PROVE  ContentInv'
<1> DEFINE r == physical[target].columns
<1>1. r \in Refs /\ physical[target].order = r /\ phase # "failed"
  BY TableContent DEF Altering, ContentInv
<1>2. /\ columns' = [columns EXCEPT ![r] = cols] /\ orders' = [orders EXCEPT ![r] = order]
      /\ engines' = engines
  BY <1>1 DEF Store
<1>3. /\ DOMAIN columns' = Refs /\ \A q \in Refs : IsMap(columns'[q], ColumnNames, Column)
      /\ orders' \in [Refs -> Seq(ColumnNames)]
      /\ Lists(order, cols) => \A q \in Refs : Lists(orders'[q], columns'[q])
  BY <1>1, <1>2, WriteContent
<1> QED
  BY <1>2, <1>3 DEF ContentInv, Twins

LEMMA AddContent ==
  ASSUME StorageInv, ContentInv, NEW d \in Definitions, NEW flag \in BOOLEAN,
         NEW after \in ColumnNames \cup {"none"}, AddColumn(d, flag, after)
  PROVE  ContentInv'
<1>1. CASE UNCHANGED storage /\ ClauseDone
  BY <1>1, FrameContent DEF storage, ClauseDone
<1>2. CASE Refuse
  BY <1>2, FrameContent DEF Refuse, ContentInv
<1>3. CASE d.name \notin DOMAIN Cols
  <2> DEFINE cols == With(Cols, d.name, ParseColumn(d))
             at == 1 + CHOOSE k \in DOMAIN Order : Order[k] = after
             order == IF after = "none" THEN Append(Order, d.name) ELSE InsertAt(Order, at, d.name)
  <2>1. /\ Altering /\ phase = "alter" /\ target \in DOMAIN physical /\ d.name \in ColumnNames
    BY DEF AddColumn, Altering, ContentInv, ColumnNames
  <2>2. IsMap(Cols, ColumnNames, Column) /\ Order \in Seq(ColumnNames) /\ Lists(Order, Cols)
    BY <2>1, TableContent DEF Cols, Order
  <2>3. d.name \notin Range(Order) /\ IsInjective(Order)
    BY <1>3, <2>2 DEF Lists
  <2>4. IsMap(cols, ColumnNames, Column) /\ DOMAIN cols = DOMAIN Cols \cup {d.name}
    BY <2>1, <2>2, ParsedColumns DEF IsMap, With
  <2>5. ASSUME after = "none" \/ Contains(Order, after)
        PROVE  order \in Seq(ColumnNames) /\ Lists(order, cols)
    <3>1. CASE after = "none"
      BY <2>1, <2>2, <2>3, <2>4, <3>1, AppendLists DEF Lists
    <3>2. CASE after # "none"
      <4>1. \E k \in DOMAIN Order : Order[k] = after
        BY <2>2, <2>5, <3>2 DEF Contains
      <4>2. at \in 1 .. (Len(Order) + 1)
        BY <2>2, <4>1
      <4> HIDE DEF at, cols
      <4>3. /\ InsertAt(Order, at, d.name) \in Seq(ColumnNames)
            /\ IsInjective(InsertAt(Order, at, d.name))
            /\ Range(InsertAt(Order, at, d.name)) = Range(Order) \cup {d.name}
        BY <2>1, <2>2, <2>3, <4>2, InsertLists
      <4> QED
        BY <2>2, <2>4, <3>2, <4>3 DEF Lists
    <3> QED  BY <3>1, <3>2
  <2>6. CASE Store(cols, order) /\ ClauseDone /\ (after = "none" \/ Contains(Order, after))
    <3> HIDE DEF cols, order
    <3> QED  BY <2>1, <2>4, <2>5, <2>6, StoreContent DEF ClauseDone
  <2>7. CASE Store(cols, Order) /\ phase' = "failed" /\ UNCHANGED <<physical, external, target, pending, progress>>
    <3> HIDE DEF cols
    <3> QED  BY <2>1, <2>2, <2>4, <2>7, StoreContent
  <2>8. \/ Store(cols, order) /\ ClauseDone /\ (after = "none" \/ Contains(Order, after))
        \/ Store(cols, Order) /\ phase' = "failed" /\ UNCHANGED <<physical, external, target, pending, progress>>
    BY <1>3 DEF AddColumn
  <2> QED
    BY <2>6, <2>7, <2>8
<1> QED
  BY <1>1, <1>2, <1>3 DEF AddColumn

LEMMA ModifyContent ==
  ASSUME StorageInv, ContentInv, NEW d \in Definitions, NEW flag \in BOOLEAN, ModifyColumn(d, flag)
  PROVE  ContentInv'
<1>1. CASE UNCHANGED storage /\ ClauseDone
  BY <1>1, FrameContent DEF storage, ClauseDone
<1>2. CASE Refuse
  BY <1>2, FrameContent DEF Refuse, ContentInv
<1>3. CASE d.name \in DOMAIN Cols /\ Store([Cols EXCEPT ![d.name] = Retype(d, Cols[d.name])], Order) /\ ClauseDone
  <2> DEFINE cols == [Cols EXCEPT ![d.name] = Retype(d, Cols[d.name])]
  <2>1. /\ Altering /\ phase = "alter" /\ target \in DOMAIN physical
    BY DEF ModifyColumn, Altering, ContentInv
  <2>2. IsMap(Cols, ColumnNames, Column) /\ Order \in Seq(ColumnNames) /\ Lists(Order, Cols)
    BY <2>1, TableContent DEF Cols, Order
  <2>3. Cols[d.name] \in Column  BY <1>3, <2>2 DEF IsMap
  <2>4. Retype(d, Cols[d.name]) \in Column
    BY <2>3, ParsedColumns DEF Retype, Column
  <2>5. IsMap(cols, ColumnNames, Column) /\ DOMAIN cols = DOMAIN Cols
    BY <2>2, <2>4 DEF IsMap
  <2> HIDE DEF cols
  <2>6. Lists(Order, cols)  BY <2>2, <2>5 DEF Lists
  <2>7. Store(cols, Order)  BY <1>3 DEF cols
  <2> QED  BY <1>3, <2>1, <2>2, <2>5, <2>6, <2>7, StoreContent DEF ClauseDone
<1> QED
  BY <1>1, <1>2, <1>3 DEF ModifyColumn

LEMMA DropContent ==
  ASSUME StorageInv, ContentInv, NEW c, NEW flag \in BOOLEAN, DropColumn(c, flag)
  PROVE  ContentInv'
<1>1. CASE UNCHANGED storage /\ ClauseDone
  BY <1>1, FrameContent DEF storage, ClauseDone
<1>2. CASE Refuse
  BY <1>2, FrameContent DEF Refuse, ContentInv
<1>3. CASE c \in DOMAIN Cols /\ Store(Without(Cols, c), RemoveFirst(Order, c)) /\ ClauseDone
  <2> DEFINE cols == Without(Cols, c) order == RemoveFirst(Order, c)
  <2>1. /\ Altering /\ phase = "alter" /\ target \in DOMAIN physical
    BY DEF DropColumn, Altering, ContentInv
  <2>2. IsMap(Cols, ColumnNames, Column) /\ Order \in Seq(ColumnNames) /\ Lists(Order, Cols)
    BY <2>1, TableContent DEF Cols, Order
  <2>3. IsMap(cols, ColumnNames, Column) /\ DOMAIN cols = DOMAIN Cols \ {c}
    BY <2>2 DEF IsMap, Without, Restrict
  <2>4. order \in Seq(ColumnNames) /\ Lists(order, cols)
    BY <1>3, <2>2, <2>3, RemoveLists DEF Lists
  <2> HIDE DEF cols, order
  <2>5. Store(cols, order)  BY <1>3 DEF cols, order
  <2> QED  BY <1>3, <2>1, <2>3, <2>4, <2>5, StoreContent DEF ClauseDone
<1> QED
  BY <1>1, <1>2, <1>3 DEF DropColumn

LEMMA EngineContent ==
  ASSUME StorageInv, ContentInv, NEW altered, AlterEngine(altered),
         TableEngine \in Engine => altered \in Engine
  PROVE  ContentInv'
<1> DEFINE r == physical[target].engine
<1>1. r # NoEngine => r \in Refs /\ altered \in Engine
  BY TableContent DEF AlterEngine, Altering, ContentInv, TableEngine
<1>2. engines' \in [Refs -> Engine]
  BY <1>1 DEF AlterEngine, ContentInv
<1> QED
  BY <1>2 DEF AlterEngine, Altering, ClauseDone, ContentInv, Twins

LEMMA AlterContent == StorageInv /\ ContentInv /\ Alter => ContentInv'
<1> SUFFICES ASSUME StorageInv, ContentInv, Alter PROVE ContentInv'
  OBVIOUS
<1>1. ASSUME NEW n \in Names, NEW supported \in BOOLEAN, BeginAlter(n, supported)
      PROVE  ContentInv'
  <2>1. CASE Skip \/ Refuse
    BY <2>1, FrameContent DEF Skip, Refuse, ContentInv
  <2>2. CASE /\ phase' = "alter" /\ target' = n /\ n \in DOMAIN physical /\ phase = "reading"
             /\ UNCHANGED <<physical, columns, orders, engines, pending, progress>>
    BY <2>2 DEF ContentInv, Twins
  <2> QED  BY <1>1, <2>1, <2>2 DEF BeginAlter, NextStatement
<1>2. ASSUME NEW d \in Definitions, NEW flag \in BOOLEAN,
             \/ \E after \in ColumnNames \cup {"none"} : AddColumn(d, flag, after)
             \/ ModifyColumn(d, flag)
             \/ DropColumn(d.name, flag)
      PROVE  ContentInv'
  BY <1>2, AddContent, ModifyContent, DropContent
<1>3. CASE RemoveTTL
  BY <1>3, EngineContent, EngineFields DEF RemoveTTL
<1>4. ASSUME NEW s \in Settings, ModifySetting(s) \/ ResetSetting(s) PROVE ContentInv'
  <2>1. TableEngine \in Engine => TableEngine.settings \in SUBSET Settings
    BY DEF Engine
  <2>2. TableEngine \in Engine =>
          /\ [TableEngine EXCEPT !.settings = @ \cup {s}] \in Engine
          /\ [TableEngine EXCEPT !.settings = @ \ {s}] \in Engine
    BY <2>1, EngineFields
  <2> QED  BY <1>4, <2>2, EngineContent DEF ModifySetting, ResetSetting
<1>5. CASE IgnoredClause
  BY <1>5, FrameContent DEF IgnoredClause, storage, ClauseDone
<1>6. CASE EndAlter
  BY <1>6 DEF EndAlter, Altering, ContentInv, Twins
<1> QED
  BY <1>1, <1>2, <1>3, <1>4, <1>5, <1>6 DEF Alter

LEMMA InitContent == Init => ContentInv
<1> SUFFICES ASSUME Init PROVE ContentInv  OBVIOUS
<1>1. <<>> \in Seq(ColumnNames)  OBVIOUS
<1>2. IsMap(Empty, ColumnNames, Column) /\ Lists(<<>>, Empty) /\ Twins(Empty)
  BY DEF IsMap, Empty, Lists, IsInjective, Range, Twins
<1> QED
  BY <1>1, <1>2, EngineFields DEF Init, ContentInv

\* Every table's order, as long as nothing was refused, lists what its map
\* holds, whatever statement allocated or altered them: the strengthening that
\* the two theorems below follow from.
THEOREM ContentInvariant == Spec => [](StorageInv /\ ContentInv)
<1>1. StorageInv /\ ContentInv /\ [Next]_vars => ContentInv'
  <2> SUFFICES ASSUME StorageInv, ContentInv, [Next]_vars PROVE ContentInv'
    OBVIOUS
  <2>1. CASE IgnoredStatement \/ UnsupportedStatement \/ UnsupportedPart
    BY <2>1, FrameContent DEF IgnoredStatement, UnsupportedStatement, UnsupportedPart,
                              Skip, Refuse, ContentInv
  <2>2. CASE Return \/ UNCHANGED vars
    BY <2>2, FrameContent DEF Return, vars, ContentInv
  <2> QED
    BY <2>1, <2>2, CreateContent, MoveContent, AlterContent DEF Next
<1> QED
  BY <1>1, InitContent, StorageInvariant, PTL DEF Spec

\* The maps, orders and engines hold what the code's types say, for inputs of
\* any length.
THEOREM CatalogTypeCorrect == Spec => []TypeOK
<1>1. StorageInv /\ ContentInv => TypeOK
  BY DEF StorageInv, Sound, ContentInv, TypeOK
<1> QED  BY <1>1, ContentInvariant, PTL

\* Every ADD, ADD AFTER, MODIFY and DROP COLUMN edits the map and the slice of a
\* table alike, so a positional insert names each column once (schema.go).
THEOREM OrderFollowsColumns == Spec => []OrderListsColumns
<1>1. StorageInv /\ ContentInv => OrderListsColumns
  <2> SUFFICES ASSUME StorageInv, ContentInv, phase # "failed", NEW n \in DOMAIN physical
               PROVE  Lists(orders[physical[n].order], columns[physical[n].columns])
    BY DEF OrderListsColumns, Lists
  <2> QED  BY TableContent
<1> QED  BY <1>1, ContentInvariant, PTL
-----------------------------------------------------------------------------
(***************************************************************************)
(* The catalog implements SchemaReplay.                                    *)
(***************************************************************************)
\* What the promise sees of the physical catalog while nothing was refused.
Shown == [n \in DOMAIN physical |-> Definition(physical[n])]

Live == phase \in {"reading", "alter", "rename"}
IsWell(d) == Lists(d.order, d.columns) /\ Honest(d.columns)

\* A table's column reference is the statement that declared it.
Born(t) == \A n \in DOMAIN t : t[n].origin = t[n].columns

\* t holds the tables of the catalog under other names.
Carries(t, from) ==
  /\ from \in [DOMAIN t -> DOMAIN physical] /\ IsInjective(from) /\ Range(from) = DOMAIN physical
  /\ \A n \in DOMAIN t : t[n] = [physical[from[n]] EXCEPT !.name = n]

ReplayInv ==
  /\ Born(physical) /\ Born(pending)
  /\ phase = "rename" => \E from : Carries(pending, from)

ShownInv == StorageInv /\ ContentInv /\ HonestInv /\ ReplayInv

LEMMA ShownNow ==
  /\ DOMAIN Shown = DOMAIN physical
  /\ \A n \in DOMAIN physical :
       Shown[n] = [columns |-> columns[physical[n].columns], order |-> orders[physical[n].order],
                   origin |-> physical[n].origin,
                   engine |-> IF physical[n].engine = NoEngine THEN Unused
                              ELSE engines[physical[n].engine]]
  BY DEF Shown, Definition

LEMMA ShownNext ==
  /\ DOMAIN Shown' = DOMAIN physical'
  /\ \A n \in DOMAIN physical' :
       Shown'[n] = [columns |-> columns'[physical'[n].columns], order |-> orders'[physical'[n].order],
                    origin |-> physical'[n].origin,
                    engine |-> IF physical'[n].engine = NoEngine THEN Unused
                               ELSE engines'[physical'[n].engine]]
  BY DEF Shown, Definition

\* The steps of the promise, in terms of what is shown.
LEMMA StutterStep ==
  ASSUME Live, Live', Shown' = Shown, external' = external
  PROVE  UNCHANGED Promise!vars
  BY DEF Promise!vars, Live, Shown

LEMMA FailStep ==
  ASSUME Live, phase' = "failed"
  PROVE  Promise!Next
  BY DEF Promise!Next, Promise!Fail, Live

LEMMA SameWords ==
  /\ \A d : IsWell(d) => Promise!WellFormed(d)
  /\ \A t : Promise!Origins(t) = {t[m].origin : m \in DOMAIN t}
  /\ \A f, S : Promise!Restrict(f, S) = Restrict(f, S)
  BY DEF Promise!WellFormed, Promise!Origins, Promise!Restrict, Promise!IsInjective, Promise!Range,
         IsWell, Lists, Honest, IsInjective, Range, Restrict

\* What the promise calls tables.
Tables == IF phase = "failed" THEN Empty
          ELSE [n \in DOMAIN physical |-> Definition(physical[n])]

LEMMA LiveTables ==
  ASSUME Live, Live'
  PROVE  /\ Tables = Shown /\ Tables' = Shown' /\ Promise!Reading
         /\ external' = external =>
              (IF phase = "failed" THEN {} ELSE external)' = (IF phase = "failed" THEN {} ELSE external)
  BY DEF Live, Tables, Shown, Promise!Reading

LEMMA DeclareStep ==
  ASSUME Live, Live', NEW n \in Names, n \notin DOMAIN physical \cup external \cup {Migrations},
         DOMAIN Shown' = DOMAIN Shown \cup {n}, Restrict(Shown', DOMAIN Shown) = Shown,
         IsWell(Shown'[n]), Shown'[n].origin \notin {Shown[m].origin : m \in DOMAIN Shown},
         external' = external
  PROVE  Promise!Next
<1>1. /\ Tables = Shown /\ Tables' = Shown'
      /\ external' = external => (IF phase = "failed" THEN {} ELSE external)' = (IF phase = "failed" THEN {} ELSE external)
  BY LiveTables
<1>2. n \notin DOMAIN Tables \cup (IF phase = "failed" THEN {} ELSE external) \cup {Migrations}
  BY <1>1, ShownNow DEF Live
<1>3. Promise!Restrict(Tables', DOMAIN Tables) = Tables
  BY <1>1, SameWords
<1>4. Promise!WellFormed(Tables'[n])
  BY <1>1, SameWords
<1>5. Tables'[n].origin \notin Promise!Origins(Tables)
  BY <1>1, SameWords
<1>6. Promise!Declare(n)
  BY <1>1, <1>2, <1>3, <1>4, <1>5, LiveTables DEF Promise!Declare, Tables
<1> QED  BY <1>6 DEF Promise!Next

LEMMA ForgetStep ==
  ASSUME Live, Live', NEW n \in Names, n \in DOMAIN physical,
         Shown' = Restrict(Shown, DOMAIN Shown \ {n}), external' = external
  PROVE  Promise!Next
<1>1. /\ Tables = Shown /\ Tables' = Shown' /\ n \in DOMAIN Tables
      /\ (IF phase = "failed" THEN {} ELSE external)' = (IF phase = "failed" THEN {} ELSE external)
  BY LiveTables, ShownNow
<1>2. Tables' = Promise!Restrict(Tables, DOMAIN Tables \ {n})
  BY <1>1, SameWords
<1>3. Promise!Forget(n)
  BY <1>1, <1>2, LiveTables DEF Promise!Forget, Tables
<1> QED  BY <1>3 DEF Promise!Next

LEMMA ReshapeStep ==
  ASSUME Live, Live', NEW n \in Names, n \in DOMAIN physical, DOMAIN Shown' = DOMAIN Shown,
         \A m \in DOMAIN Shown \ {n} : Shown'[m] = Shown[m],
         IsWell(Shown'[n]), Shown'[n].origin = Shown[n].origin, external' = external
  PROVE  Promise!Next
<1>1. /\ Tables = Shown /\ Tables' = Shown' /\ n \in DOMAIN Tables
      /\ (IF phase = "failed" THEN {} ELSE external)' = (IF phase = "failed" THEN {} ELSE external)
  BY LiveTables, ShownNow
<1>2. Promise!WellFormed(Tables'[n])
  BY <1>1, SameWords
<1>3. Promise!Reshape(n)
  BY <1>1, <1>2, LiveTables DEF Promise!Reshape, Tables
<1> QED  BY <1>3 DEF Promise!Next

LEMMA RearrangeStep ==
  ASSUME Live, Live', NEW from \in [DOMAIN Shown' -> DOMAIN Shown], IsInjective(from),
         Range(from) = DOMAIN Shown, \A n \in DOMAIN Shown' : Shown'[n] = Shown[from[n]],
         DOMAIN Shown' \cap (external \cup {Migrations}) = {}, external' = external
  PROVE  Promise!Next
<1>1. /\ Tables = Shown /\ Tables' = Shown'
      /\ (IF phase = "failed" THEN {} ELSE external)' = (IF phase = "failed" THEN {} ELSE external)
  BY LiveTables
<1>2. DOMAIN Tables' \cap ((IF phase = "failed" THEN {} ELSE external) \cup {Migrations}) = {}
  BY <1>1 DEF Live
<1>3. /\ from \in [DOMAIN Tables' -> DOMAIN Tables] /\ Promise!IsInjective(from)
      /\ \A t \in DOMAIN Tables : \E n \in DOMAIN Tables' : from[n] = t
  BY <1>1 DEF IsInjective, Promise!IsInjective, Range
<1>4. from \in Promise!Bijection(DOMAIN Tables', DOMAIN Tables)
  BY <1>3 DEF Promise!Bijection, Promise!Injection, Promise!Surjection
<1>5. Promise!Rearrange
  BY <1>1, <1>2, <1>4, LiveTables DEF Promise!Rearrange, Tables
<1> QED  BY <1>5 DEF Promise!Next

LEMMA ExternalStep ==
  ASSUME Live, Live', NEW n \in Names, n \notin DOMAIN physical \cup external,
         Shown' = Shown, external' = external \cup {n}
  PROVE  Promise!Next
<1>1. /\ Tables = Shown /\ Tables' = Shown' /\ n \notin DOMAIN Tables
      /\ (IF phase = "failed" THEN {} ELSE external) = external
      /\ (IF phase = "failed" THEN {} ELSE external)' = external'
  BY LiveTables, ShownNow DEF Live
<1>2. Promise!DeclareExternal(n)
  BY <1>1, LiveTables DEF Promise!DeclareExternal, Tables
<1> QED  BY <1>2 DEF Promise!Next
-----------------------------------------------------------------------------
\* Tables whose contents a step does not write are shown as before.
LEMMA SameShown ==
  ASSUME physical' = physical, UNCHANGED storage
  PROVE  Shown' = Shown
  BY ShownNow, ShownNext DEF Shown, Definition, storage

\* A table under any name, its origin kept.
LEMMA RenamedOrigin ==
  ASSUME NEW x \in Table, NEW n \in Names
  PROVE  [x EXCEPT !.name = n].origin = x.origin
  BY DEF Table

\* The invariant of names: creation, and every kind of move.
LEMMA StepReplayInv == StorageInv /\ ReplayInv /\ [Next]_vars => ReplayInv'
<1> SUFFICES ASSUME StorageInv, ReplayInv, [Next]_vars PROVE ReplayInv'
  OBVIOUS
<1>1. ASSUME UNCHANGED <<physical, pending>>, phase' = "rename" => phase = "rename" PROVE ReplayInv'
  BY <1>1 DEF ReplayInv, Born, Carries
<1>2. ASSUME Skip \/ Refuse PROVE ReplayInv'
  BY <1>1, <1>2 DEF Skip, Refuse
<1>3. ASSUME Born(physical'), pending' = pending, phase' = "reading" PROVE ReplayInv'
  BY <1>3 DEF ReplayInv, Born
<1>4. CASE Create
  <2>1. ASSUME NEW n, NEW cols, NEW order, NEW engine, NextStatement, Allocate(n, cols, order, engine)
        PROVE  ReplayInv'
    <3>1. Born(physical')
      BY <2>1 DEF Allocate, With, ReplayInv, Born
    <3> QED  BY <1>3, <2>1, <3>1 DEF Allocate, NextStatement
  <2> QED
    BY <1>1, <1>2, <1>4, <2>1 DEF Create, CreateExternal, CreateTable, CreateTableAs, CreateChecks
<1>5. CASE Alter
  BY <1>1, <1>2, <1>5 DEF Alter, BeginAlter, AddColumn, ModifyColumn, DropColumn, RemoveTTL,
                          ModifySetting, ResetSetting, AlterEngine, IgnoredClause, EndAlter, ClauseDone
<1>6. CASE IgnoredStatement \/ UnsupportedStatement \/ UnsupportedPart \/ Return \/ UNCHANGED vars
  BY <1>1, <1>2, <1>6 DEF IgnoredStatement, UnsupportedStatement, UnsupportedPart, Return, vars
<1>7. CASE Move
  <2>1. ASSUME NEW n \in Names, NEW flag \in BOOLEAN, DropTable(n, flag) PROVE ReplayInv'
    <3>1. CASE NextStatement /\ physical' = Without(physical, n) /\ UNCHANGED <<phase, pending>>
      <4>1. Born(physical')
        BY <3>1 DEF Without, Restrict, ReplayInv, Born
      <4> QED  BY <1>3, <3>1, <4>1 DEF NextStatement
    <3> QED  BY <1>2, <2>1, <3>1 DEF DropTable
  <2>2. CASE BeginRename
    <3> DEFINE same == [n \in DOMAIN physical |-> n]
    <3>1. pending' = physical /\ physical' = physical
      BY <2>2 DEF BeginRename
    <3>2. ASSUME NEW n \in DOMAIN physical PROVE physical[n] = [physical[n] EXCEPT !.name = n]
      <4>1. physical[n] \in Table /\ physical[n].name = n
        BY TableRefs DEF StorageInv, Sound
      <4> QED  BY <4>1 DEF Table
    <3>3. Carries(pending, same)'
      BY <3>1, <3>2 DEF Carries, IsInjective, Range
    <3> QED  BY <3>1, <3>3 DEF ReplayInv, Born
  <2>3. CASE PublishRename
    <3>1. Born(physical') /\ Born(pending')
      BY <2>3 DEF PublishRename, ReplayInv, Born, Empty
    <3> QED  BY <2>3, <3>1 DEF PublishRename, ReplayInv
  <2>4. ASSUME NEW a \in Names, NEW b \in Names, Exchange(a, b), ~Refuse PROVE ReplayInv'
    <3> DEFINE x == [physical[b] EXCEPT !.name = a]
               y == [physical[a] EXCEPT !.name = b]
    <3>1. /\ NextStatement /\ a # b /\ a \in DOMAIN physical /\ b \in DOMAIN physical
          /\ physical' = [physical EXCEPT ![a] = x, ![b] = y]
          /\ UNCHANGED <<phase, pending>>
      BY <2>4 DEF Exchange
    <3>2. physical[a] \in Table /\ physical[b] \in Table
      BY <3>1, TableRefs DEF StorageInv, Sound
    <3>3. x.origin = x.columns /\ y.origin = y.columns
      BY <3>1, <3>2, Renamed, RenamedOrigin DEF ReplayInv, Born
    <3> HIDE DEF x, y
    <3>4. \A n \in DOMAIN physical : physical'[n] = IF n = b THEN y ELSE IF n = a THEN x ELSE physical[n]
      BY <3>1
    <3>5. Born(physical')
      BY <3>1, <3>3, <3>4 DEF ReplayInv, Born
    <3> QED  BY <1>3, <3>1, <3>5 DEF NextStatement
  <2>5. ASSUME NEW a \in Names, NEW b \in Names, RenamePair(a, b), ~Refuse PROVE ReplayInv'
    <3> DEFINE x == [pending[a] EXCEPT !.name = b]
    <3>1. /\ a \in DOMAIN pending /\ b \notin DOMAIN pending /\ pending' = With(Without(pending, a), b, x)
          /\ phase = "rename" /\ UNCHANGED <<physical, phase>>
      BY <2>5 DEF RenamePair
    <3>2. pending[a] \in Table
      BY <3>1, TableRefs DEF StorageInv, Sound
    <3>3. PICK from : Carries(pending, from)
      BY <3>1 DEF ReplayInv
    <3> DEFINE to == [n \in (DOMAIN pending \ {a}) \cup {b} |-> IF n = b THEN from[a] ELSE from[n]]
    <3>4. /\ from[a] \in DOMAIN physical /\ physical[from[a]] \in Table
          /\ pending[a] = [physical[from[a]] EXCEPT !.name = a]
      BY <3>1, <3>3, TableRefs DEF Carries, StorageInv, Sound
    <3>5. x = [physical[from[a]] EXCEPT !.name = b]
      BY <3>1, <3>4 DEF Table
    <3>6. x.origin = x.columns
      BY <3>1, <3>2, Renamed, RenamedOrigin DEF ReplayInv, Born
    <3> HIDE DEF x
    <3>7. /\ DOMAIN pending' = (DOMAIN pending \ {a}) \cup {b} /\ pending'[b] = x
          /\ \A n \in DOMAIN pending \ {a} : pending'[n] = pending[n]
      BY <3>1 DEF With, Without, Restrict
    <3>8. Carries(pending', to)
      <4>1. to \in [DOMAIN pending' -> DOMAIN physical]
        BY <3>3, <3>4, <3>7 DEF Carries
      <4>2. IsInjective(to)
        BY <3>1, <3>3 DEF Carries, IsInjective
      <4>3. Range(to) = DOMAIN physical
        BY <3>1, <3>3 DEF Carries, Range
      <4>4. ASSUME NEW n \in DOMAIN pending' PROVE pending'[n] = [physical[to[n]] EXCEPT !.name = n]
        BY <3>1, <3>3, <3>5, <3>7, <4>4 DEF Carries
      <4> QED  BY <4>1, <4>2, <4>3, <4>4 DEF Carries
    <3>9. Born(physical') /\ Born(pending')
      BY <3>1, <3>6, <3>7 DEF ReplayInv, Born
    <3>10. Carries(pending, to)'
      BY <3>1, <3>8 DEF Carries
    <3> QED  BY <3>9, <3>10 DEF ReplayInv
  <2> QED
    BY <1>2, <1>7, <2>1, <2>2, <2>3, <2>4, <2>5 DEF Move
<1> QED
  BY <1>4, <1>5, <1>6, <1>7 DEF Next
-----------------------------------------------------------------------------
\* Every definition shown is well formed.
LEMMA ShownWell ==
  ShownInv /\ phase # "failed" =>
    \A n \in DOMAIN physical : IsWell(Shown[n]) /\ Shown[n].origin = physical[n].columns
<1> SUFFICES ASSUME ShownInv, phase # "failed", NEW n \in DOMAIN physical
             PROVE  IsWell(Shown[n]) /\ Shown[n].origin = physical[n].columns
  OBVIOUS
<1>1. /\ physical[n].columns \in Refs
      /\ Lists(orders[physical[n].order], columns[physical[n].columns])
      /\ physical[n].origin = physical[n].columns
  BY TableContent DEF ShownInv, ReplayInv, Born
<1>2. Honest(columns[physical[n].columns])
  BY <1>1 DEF ShownInv, HonestInv
<1> QED  BY <1>1, <1>2, ShownNow DEF IsWell

LEMMA ShownWellNext ==
  (ShownInv /\ phase # "failed" =>
    \A n \in DOMAIN physical : IsWell(Shown[n]) /\ Shown[n].origin = physical[n].columns)'
  BY ShownWell, PTL

\* Writing through the references of one table is not seen in any other.
LEMMA OthersShown ==
  ASSUME ShownInv, phase # "failed", physical' = physical, NEW n \in DOMAIN physical,
         \A r \in Refs : r # physical[n].columns => columns'[r] = columns[r] /\ orders'[r] = orders[r],
         \A r \in Refs : r # physical[n].engine => engines'[r] = engines[r]
  PROVE  \A m \in DOMAIN Shown \ {n} : Shown'[m] = Shown[m]
<1> SUFFICES ASSUME NEW m \in DOMAIN physical, m # n PROVE Shown'[m] = Shown[m]
  BY ShownNow
<1>1. /\ physical[m].columns \in Refs /\ physical[m].order = physical[m].columns
      /\ physical[m].engine \in Refs \cup {NoEngine}
  BY TableContent DEF ShownInv
<1>2. /\ physical[m].columns # physical[n].columns
      /\ physical[m].engine # NoEngine => physical[m].engine # physical[n].engine
  BY DEF ShownInv, StorageInv, Sound
<1>3. /\ columns'[physical[m].columns] = columns[physical[m].columns]
      /\ orders'[physical[m].order] = orders[physical[m].order]
      /\ physical[m].engine # NoEngine => engines'[physical[m].engine] = engines[physical[m].engine]
  BY <1>1, <1>2
<1> QED  BY <1>3, ShownNow, ShownNext

\* A clause that writes through the references of its table reshapes it.
LEMMA ClauseStep ==
  ASSUME ShownInv, ShownInv', phase = "alter", ClauseDone,
         LET t == physical[target] IN
         /\ \A r \in Refs : r # t.columns => columns'[r] = columns[r] /\ orders'[r] = orders[r]
         /\ \A r \in Refs : r # t.engine => engines'[r] = engines[r]
  PROVE  Promise!Next
<1>1. target \in DOMAIN physical /\ target \in Names /\ physical' = physical
  BY DEF ShownInv, StorageInv, Sound, ContentInv, IsMap, ClauseDone
<1>2. Live /\ Live' /\ external' = external
  BY DEF Live, ClauseDone
<1>3. \A m \in DOMAIN Shown \ {target} : Shown'[m] = Shown[m]
  BY <1>1, OthersShown
<1>4. /\ IsWell(Shown'[target]) /\ Shown'[target].origin = physical[target].columns
      /\ Shown[target].origin = physical[target].columns
  BY <1>1, <1>2, ShownWell, ShownWellNext DEF Live
<1>5. DOMAIN Shown' = DOMAIN Shown
  BY <1>1, ShownNow, ShownNext
<1> QED  BY <1>1, <1>2, <1>3, <1>4, <1>5, ReshapeStep

\* CREATE TABLE declares one definition under a free name.
LEMMA AllocateStep ==
  ASSUME ShownInv, ShownInv', NextStatement, NEW n \in Names,
         n \notin DOMAIN physical \cup external \cup {Migrations},
         NEW cols, NEW order, NEW engine, Allocate(n, cols, order, engine)
  PROVE  Promise!Next
<1> DEFINE r == statement'
<1>1. /\ statement \in Nat /\ r = statement + 1 /\ phase = "reading" /\ phase' = "reading"
      /\ external' = external
  BY NamesAssumption DEF ShownInv, StorageInv, NextStatement, Allocate
<1>2. /\ DOMAIN physical' = DOMAIN physical \cup {n} /\ physical'[n].columns = r
      /\ \A m \in DOMAIN physical : physical'[m] = physical[m]
  BY DEF Allocate, With
<1>3. \A q \in Refs : q # r => /\ columns'[q] = columns[q] /\ orders'[q] = orders[q]
                               /\ engines'[q] = engines[q]
  BY DEF Allocate, ShownInv, ContentInv
<1>4. ASSUME NEW m \in DOMAIN physical PROVE Shown'[m] = Shown[m] /\ Shown[m].origin # r
  <2>1. /\ physical[m].columns \in Refs /\ physical[m].order = physical[m].columns
        /\ physical[m].engine \in Refs \cup {NoEngine}
    BY <1>1, TableContent DEF ShownInv
  <2>2. /\ physical[m].columns \in Nat /\ physical[m].order \in Nat /\ physical[m].engine \in Nat
        /\ physical[m].columns <= statement /\ physical[m].order <= statement
        /\ physical[m].engine <= statement
    BY TableRefs DEF ShownInv, StorageInv, Sound
  <2>3. physical[m].columns # r /\ physical[m].order # r /\ physical[m].engine # r
    BY <1>1, <2>2
  <2>4. Shown'[m] = Shown[m]
    BY <1>2, <1>3, <2>1, <2>3, ShownNow, ShownNext
  <2> QED  BY <1>1, <2>3, <2>4, ShownWell
<1>5. IsWell(Shown'[n]) /\ Shown'[n].origin = r
  BY <1>1, <1>2, ShownWellNext
<1>6. DOMAIN Shown' = DOMAIN Shown \cup {n} /\ DOMAIN Shown = DOMAIN physical
  BY <1>2, ShownNow, ShownNext
<1>7. Restrict(Shown', DOMAIN Shown) = Shown
  BY <1>4, <1>6 DEF Restrict, Shown
<1>8. Shown'[n].origin \notin {Shown[m].origin : m \in DOMAIN Shown}
  BY <1>4, <1>5, <1>6
<1>9. Live /\ Live'
  BY <1>1 DEF Live
<1> QED  BY <1>1, <1>5, <1>6, <1>7, <1>8, <1>9, DeclareStep

\* A statement or clause that shows nothing, and one that is refused.
LEMMA QuietStep ==
  ASSUME Live, Live', UNCHANGED <<physical, external>>, UNCHANGED storage
  PROVE  UNCHANGED Promise!vars
  BY SameShown, StutterStep

LEMMA RefuseStep ==
  ASSUME Live, Refuse
  PROVE  Promise!Next
  BY FailStep DEF Refuse

LEMMA SkipStep ==
  ASSUME NextStatement, Skip
  PROVE  UNCHANGED Promise!vars
  BY QuietStep DEF NextStatement, Skip, Live, storage

\* The step of the promise that each CREATE TABLE takes.
LEMMA CreateRefines ==
  ASSUME ShownInv, ShownInv', Create
  PROVE  Promise!Next \/ UNCHANGED Promise!vars
<1>0. PICK n \in Names, flag \in BOOLEAN, clause \in Clauses \cup {Unused} :
         \/ \E body \in Bodies : CreateExternal(n, body, clause) \/ CreateTable(n, flag, body, clause)
         \/ \E source \in Names : CreateTableAs(n, flag, source, clause)
  BY DEF Create
<1>1. ASSUME NextStatement, Skip \/ Refuse PROVE Promise!Next \/ UNCHANGED Promise!vars
  BY <1>1, SkipStep, RefuseStep DEF NextStatement, Live
<1>2. ASSUME NEW body \in Bodies, CreateExternal(n, body, clause)
      PROVE  Promise!Next \/ UNCHANGED Promise!vars
  <2>1. CASE /\ NextStatement /\ n \notin DOMAIN physical \cup external
             /\ external' = external \cup {n}
             /\ UNCHANGED <<physical, columns, orders, engines, phase>>
    <3>1. Shown' = Shown
      BY <2>1, SameShown DEF storage
    <3> QED  BY <2>1, <3>1, ExternalStep DEF NextStatement, Live
  <2> QED  BY <1>1, <1>2, <2>1 DEF CreateExternal
<1>3. ASSUME NEW body \in Bodies, CreateTable(n, flag, body, clause)
      PROVE  Promise!Next \/ UNCHANGED Promise!vars
  BY <1>1, <1>3, AllocateStep DEF CreateTable, CreateChecks
<1>4. ASSUME NEW source \in Names, CreateTableAs(n, flag, source, clause)
      PROVE  Promise!Next \/ UNCHANGED Promise!vars
  BY <1>1, <1>4, AllocateStep DEF CreateTableAs, CreateChecks
<1> QED  BY <1>0, <1>2, <1>3, <1>4

\* Tables of the catalog under other names.
LEMMA CarryStep ==
  ASSUME ShownInv, ShownInv', Live, Live', NEW from, Carries(physical', from),
         UNCHANGED external, UNCHANGED storage
  PROVE  Promise!Next
<1>1. /\ from \in [DOMAIN Shown' -> DOMAIN Shown] /\ IsInjective(from) /\ Range(from) = DOMAIN Shown
  BY ShownNow, ShownNext DEF Carries
<1>2. ASSUME NEW n \in DOMAIN Shown' PROVE Shown'[n] = Shown[from[n]]
  <2>1. /\ n \in DOMAIN physical' /\ from[n] \in DOMAIN physical
        /\ physical'[n] = [physical[from[n]] EXCEPT !.name = n]
    BY ShownNext DEF Carries
  <2>2. n \in Names /\ physical[from[n]] \in Table
    BY <2>1, TableRefs DEF ShownInv, StorageInv, Sound, IsMap
  <2>3. /\ physical'[n].columns = physical[from[n]].columns
        /\ physical'[n].order = physical[from[n]].order
        /\ physical'[n].engine = physical[from[n]].engine
        /\ physical'[n].origin = physical[from[n]].origin
    BY <2>1, <2>2, Renamed, RenamedOrigin
  <2>4. columns' = columns /\ orders' = orders /\ engines' = engines
    BY DEF storage
  <2>5. Shown'[n] = [columns |-> columns'[physical'[n].columns], order |-> orders'[physical'[n].order],
                     origin |-> physical'[n].origin,
                     engine |-> IF physical'[n].engine = NoEngine THEN Unused
                                ELSE engines'[physical'[n].engine]]
    BY <2>1, ShownNext
  <2> DEFINE s == physical[from[n]]
  <2>6. Shown[from[n]] = [columns |-> columns[s.columns], order |-> orders[s.order],
                          origin |-> s.origin,
                          engine |-> IF s.engine = NoEngine THEN Unused ELSE engines[s.engine]]
    BY <2>1, ShownNow
  <2> QED  BY <2>3, <2>4, <2>5, <2>6
<1>3. DOMAIN Shown' \cap (external \cup {Migrations}) = {}
  BY ShownNext DEF ShownInv, StorageInv, Sound
<1> QED  BY <1>1, <1>2, <1>3, RearrangeStep

\* The step of the promise that a DROP, RENAME or EXCHANGE takes.
LEMMA MoveRefines ==
  ASSUME ShownInv, ShownInv', Move
  PROVE  Promise!Next \/ UNCHANGED Promise!vars
<1>1. ASSUME NEW n \in Names, NEW flag \in BOOLEAN, DropTable(n, flag)
      PROVE  Promise!Next \/ UNCHANGED Promise!vars
  <2>1. CASE /\ n \in DOMAIN physical /\ physical' = Without(physical, n)
             /\ UNCHANGED <<external, columns, orders, engines, phase>>
    <3>1. DOMAIN physical' = DOMAIN physical \ {n} /\ \A m \in DOMAIN physical' : physical'[m] = physical[m]
      BY <2>1 DEF Without, Restrict
    <3>2. Shown' = Restrict(Shown, DOMAIN Shown \ {n})
      BY <2>1, <3>1, ShownNow, ShownNext DEF Restrict, Shown
    <3> QED  BY <1>1, <2>1, <3>2, ForgetStep DEF DropTable, NextStatement, Live
  <2> QED  BY <1>1, <2>1, SkipStep, RefuseStep DEF DropTable, NextStatement, Live
<1>2. CASE BeginRename
  BY <1>2, QuietStep DEF BeginRename, NextStatement, Live, storage
<1>3. CASE PublishRename
  <2>1. PICK from : Carries(pending, from)
    BY <1>3 DEF PublishRename, ShownInv, ReplayInv
  <2>2. Carries(physical', from)
    BY <1>3, <2>1 DEF PublishRename
  <2> QED  BY <1>3, <2>2, CarryStep DEF PublishRename, Live, storage
<1>4. ASSUME NEW a \in Names, NEW b \in Names, Exchange(a, b)
      PROVE  Promise!Next \/ UNCHANGED Promise!vars
  <2>1. CASE Refuse
    BY <1>4, <2>1, RefuseStep DEF Exchange, NextStatement, Live
  <2>2. CASE ~Refuse
    <3> DEFINE x == [physical[b] EXCEPT !.name = a]
               y == [physical[a] EXCEPT !.name = b]
               from == [n \in DOMAIN physical |-> IF n = a THEN b ELSE IF n = b THEN a ELSE n]
    <3>1. /\ NextStatement /\ a # b /\ a \in DOMAIN physical /\ b \in DOMAIN physical
          /\ physical' = [physical EXCEPT ![a] = x, ![b] = y]
          /\ UNCHANGED <<external, columns, orders, engines, phase>>
      BY <1>4, <2>2 DEF Exchange
    <3>2. ASSUME NEW n \in DOMAIN physical PROVE physical'[n] = [physical[from[n]] EXCEPT !.name = n]
      <4>1. physical[n] \in Table /\ physical[n].name = n
        BY TableRefs DEF ShownInv, StorageInv, Sound
      <4>2. physical[n] = [physical[n] EXCEPT !.name = n]
        BY <4>1 DEF Table
      <4> HIDE DEF x, y
      <4>3. physical'[n] = IF n = b THEN y ELSE IF n = a THEN x ELSE physical[n]
        BY <3>1
      <4> QED  BY <3>1, <4>2, <4>3 DEF x, y
    <3>3. DOMAIN physical' = DOMAIN physical
      BY <3>1
    <3>4. IsInjective(from) /\ Range(from) = DOMAIN physical /\ from \in [DOMAIN physical -> DOMAIN physical]
      BY <3>1 DEF IsInjective, Range
    <3> HIDE DEF from
    <3>5. Carries(physical', from)
      BY <3>2, <3>3, <3>4 DEF Carries
    <3> QED  BY <3>1, <3>5, CarryStep DEF NextStatement, Live, storage
  <2> QED  BY <2>1, <2>2
<1>5. ASSUME NEW a \in Names, NEW b \in Names, RenamePair(a, b)
      PROVE  Promise!Next \/ UNCHANGED Promise!vars
  BY <1>5, QuietStep, RefuseStep DEF RenamePair, Live, storage
<1> QED  BY <1>1, <1>2, <1>3, <1>4, <1>5 DEF Move

\* The step of the promise that each clause of an ALTER TABLE takes.
LEMMA AlterRefines ==
  ASSUME ShownInv, ShownInv', Alter
  PROVE  Promise!Next \/ UNCHANGED Promise!vars
<1>1. ASSUME Altering, Refuse \/ (UNCHANGED storage /\ ClauseDone)
      PROVE  Promise!Next \/ UNCHANGED Promise!vars
  BY <1>1, RefuseStep, QuietStep DEF Altering, ClauseDone, Live
<1>2. ASSUME NEW cols, NEW order, Altering, Store(cols, order), ClauseDone
      PROVE  Promise!Next
  <2>1. target \in DOMAIN physical /\ phase = "alter"
    BY <1>2 DEF Altering, ShownInv, ContentInv
  <2>2. physical[target].order = physical[target].columns
    BY <2>1, TableContent DEF ShownInv
  <2>3. \A r \in Refs : r # physical[target].columns => columns'[r] = columns[r] /\ orders'[r] = orders[r]
    BY <1>2, <2>2 DEF Store, ShownInv, ContentInv
  <2>4. \A r \in Refs : r # physical[target].engine => engines'[r] = engines[r]
    BY <1>2 DEF Store
  <2> QED  BY <1>2, <2>1, <2>3, <2>4, ClauseStep
<1>3. ASSUME NEW altered, AlterEngine(altered) PROVE Promise!Next
  <2>1. \A r \in Refs : r # physical[target].engine => engines'[r] = engines[r]
    BY <1>3 DEF AlterEngine, ShownInv, ContentInv
  <2> QED  BY <1>3, <2>1, ClauseStep DEF AlterEngine, Altering
<1>4. ASSUME NEW n \in Names, NEW supported \in BOOLEAN, BeginAlter(n, supported)
      PROVE  Promise!Next \/ UNCHANGED Promise!vars
  BY <1>4, SkipStep, RefuseStep, QuietStep DEF BeginAlter, NextStatement, Live, storage
<1>5. ASSUME NEW d \in Definitions, NEW flag \in BOOLEAN, NEW after \in ColumnNames \cup {"none"},
             AddColumn(d, flag, after)
      PROVE  Promise!Next \/ UNCHANGED Promise!vars
  <2>1. CASE phase' = "failed"
    BY <1>5, <2>1, FailStep DEF AddColumn, Altering, Live
  <2>2. CASE phase' # "failed"
    BY <1>1, <1>2, <1>5, <2>2 DEF AddColumn, Refuse
  <2> QED  BY <2>1, <2>2
<1>6. ASSUME NEW d \in Definitions, NEW flag \in BOOLEAN, ModifyColumn(d, flag) \/ DropColumn(d.name, flag)
      PROVE  Promise!Next \/ UNCHANGED Promise!vars
  BY <1>1, <1>2, <1>6 DEF ModifyColumn, DropColumn
<1>7. CASE RemoveTTL \/ \E s \in Settings : ModifySetting(s) \/ ResetSetting(s)
  BY <1>3, <1>7 DEF RemoveTTL, ModifySetting, ResetSetting
<1>8. CASE IgnoredClause
  BY <1>1, <1>8 DEF IgnoredClause
<1>9. CASE EndAlter
  BY <1>9, QuietStep DEF EndAlter, Altering, Live, storage
<1> QED  BY <1>4, <1>5, <1>6, <1>7, <1>8, <1>9 DEF Alter

\* Whatever the inputs hold, every statement, clause and pair declares, forgets,
\* reshapes or renames definitions as SchemaReplay says, or shows nothing: no
\* ALTER, RENAME or CREATE AS loses or edits the definition of another table
\* (ParseSchemaCatalogs).
THEOREM CatalogImplementsSchemaReplay == Spec => ImplementsSchemaReplay
<1>1. Init => Promise!Init
  BY DEF Init, Promise!Init, Empty
<1>2. Init => ReplayInv
  BY DEF Init, ReplayInv, Born, Empty
<1>3. Spec => []ShownInv
  BY <1>2, StepReplayInv, StorageInvariant, ContentInvariant, HonestInvariant, PTL DEF Spec, ShownInv
<1>4. ShownInv /\ ShownInv' /\ [Next]_vars => [Promise!Next]_(Promise!vars)
  <2> SUFFICES ASSUME ShownInv, ShownInv', [Next]_vars
               PROVE  Promise!Next \/ UNCHANGED Promise!vars
    OBVIOUS
  <2>1. CASE IgnoredStatement
    BY <2>1, SkipStep DEF IgnoredStatement
  <2>2. CASE UnsupportedStatement \/ UnsupportedPart
    BY <2>2, RefuseStep DEF UnsupportedStatement, UnsupportedPart, NextStatement, Live
  <2>3. CASE Return
    <3>1. Promise!Return
      BY <2>3 DEF Return, Promise!Return, Definition
    <3> QED  BY <3>1 DEF Promise!Next
  <2>4. CASE UNCHANGED vars
    BY <2>4 DEF vars, Promise!vars, Definition
  <2> QED
    BY <2>1, <2>2, <2>3, <2>4, CreateRefines, MoveRefines, AlterRefines DEF Next
<1> QED
  BY <1>1, <1>3, <1>4, PTL DEF Spec, ImplementsSchemaReplay, Promise!Spec
=============================================================================
