---------------------------- MODULE Composition ----------------------------
(***************************************************************************)
(* Composed queries (internal/engine/composition.go, server_composition.go *)
(* and composition_emit.go): a query with optional blocks and table        *)
(* choices becomes one variant per combination; every variant is resolved  *)
(* by itself, and their signatures are merged into that of one method,     *)
(* whose generated switch picks a variant from its arguments.              *)
(*                                                                         *)
(* What the resolver, or the server, infers of a line of SQL is part of    *)
(* the line: its parameters, result columns and table slots, with types    *)
(* that may be those of a selected table, and what it leaves unchecked     *)
(* (asserted columns, unverified expressions and settings).                *)
(***************************************************************************)
EXTENDS Integers, Sequences, FiniteSets, SequencesExt

CONSTANTS
  Queries,
  None,          \* no option; also a name that is not an exported identifier
  ColumnType,    \* the type that a column of each table gives
  Unknown,       \* the type of what does not resolve
  Doubtful,      \* tables over whose columns the resolver leaves a type unverified
  Catalog,       \* physical tables of the schema
  ExternalTables,
  MaxVersion

MaxVariants == 32
MaxOptions == 5

Column == [name : STRING, type : STRING]
Use == [name : STRING, type : STRING, external : BOOLEAN]
Line ==
  [is : {"sql"}, slots : SUBSET STRING, params : SUBSET Use, columns : Seq(Column),
   unchecked : SUBSET [name : STRING, over : STRING \cup {None}]]
  \cup [is : {"if"}, name : STRING \cup {None}]
  \cup [is : {"end", "else"}]
TableChoice == [name : STRING, tables : Seq(STRING)]
Query ==
  [server : BOOLEAN, exec : BOOLEAN, choices : Seq(TableChoice), lines : Seq(Line), annotated : SUBSET STRING]

\* A table choice names at least one table, and none twice (parseTableChoice).
ASSUME QueriesAssumption ==
  \A q \in Queries :
    /\ q \in Query
    /\ \A i \in DOMAIN q.choices : q.choices[i].tables # <<>> /\ IsInjective(q.choices[i].tables)

VARIABLES
  query,
  phase, at,
  active, parts, options,    \* parsing: the open block, the parts so far, the options so far
  variants,
  merged,                    \* [types, presence, columns, unchecked]
  owner,                     \* the option that owns a parameter
  version                    \* of the server

parsing == <<active, parts, options>>
vars == <<query, phase, at, parsing, variants, merged, owner, version>>

Nothing == [types |-> <<>>, presence |-> <<>>, columns |-> <<>>, unchecked |-> {}]

Init ==
  /\ query \in Queries
  /\ phase = "read" /\ at = 1
  /\ active = None /\ parts = <<>> /\ options = <<>>
  /\ variants = <<>>
  /\ merged = Nothing
  /\ owner = <<>>
  /\ version = 1

Refuse ==
  /\ phase' = "refused"
  /\ UNCHANGED <<query, at, parsing, variants, merged, owner, version>>

Enter(next) == phase' = next /\ at' = 1
-----------------------------------------------------------------------------
(***************************************************************************)
(* parseConditionalSQL: directives switch between the base text and one    *)
(* block; nothing nests.                                                   *)
(***************************************************************************)
Malformed(line) ==
  \/ line.is = "else"
  \/ line.is = "end" /\ active = None
  \/ line.is = "if" /\ (line.name = None \/ active # None)

ReadLine ==
  /\ phase = "read" /\ at <= Len(query.lines)
  /\ LET line == query.lines[at]
     IN \/ Malformed(line) /\ Refuse
        \/ /\ ~Malformed(line)
           /\ at' = at + 1
           /\ active' = CASE line.is = "if" -> line.name [] line.is = "end" -> None [] OTHER -> active
           /\ parts' = IF line.is = "sql" THEN Append(parts, [option |-> active, text |-> line]) ELSE parts
           /\ options' = IF line.is = "if" /\ line.name \notin Range(options)
                         THEN Append(options, line.name) ELSE options
           /\ UNCHANGED <<query, phase, variants, merged, owner, version>>

EndLines ==
  /\ phase = "read" /\ at > Len(query.lines)
  /\ \/ active # None /\ Refuse
     \/ /\ active = None
        /\ Enter("count")
        /\ UNCHANGED <<query, parsing, variants, merged, owner, version>>
-----------------------------------------------------------------------------
(***************************************************************************)
(* The variants: the low bits of a variant's number are its options, what  *)
(* is left selects a table per choice.                                     *)
(***************************************************************************)
TableChoices == query.choices
ChoiceNames == {TableChoices[i].name : i \in DOMAIN TableChoices}
Composed == options # <<>> \/ TableChoices # <<>>

\* The number of variants over the options and the first choices.
VariantCount ==
  LET count[i \in 0 .. Len(TableChoices)] ==
        IF i = 0 THEN 2 ^ Len(options) ELSE count[i - 1] * Len(TableChoices[i].tables)
  IN count

\* The last choice is not looked at (a seeded fault).
TooManyButLast(count) ==
  \/ Len(options) > MaxOptions
  \/ \E i \in 1 .. (Len(TableChoices) - 1) : count[i - 1] > MaxVariants \div Len(TableChoices[i].tables)

TooMany(count) ==
  \/ Len(options) > MaxOptions
  \/ \E i \in DOMAIN TableChoices : count[i - 1] > MaxVariants \div Len(TableChoices[i].tables)

SharedName ==
  \/ \E i, j \in DOMAIN TableChoices : i # j /\ TableChoices[i].name = TableChoices[j].name
  \/ ChoiceNames \cap Range(options) # {}

WrongTable ==
  \E i \in DOMAIN TableChoices : \E t \in Range(TableChoices[i].tables) :
    IF query.server THEN t \in ExternalTables ELSE t \notin Catalog

CountVariants ==
  /\ phase = "count"
  /\ LET refused == \/ query.exec /\ (query.server \/ Composed)
                    \/ TooMany(VariantCount)
                    \/ SharedName
                    \/ WrongTable
     IN \/ refused /\ Refuse
        \/ /\ ~refused
           /\ Enter("resolve")
           /\ UNCHANGED <<query, parsing, variants, merged, owner, version>>

Masks == 0 .. (VariantCount[Len(TableChoices)] - 1)
Bit(mask, i) == (mask \div 2 ^ (i - 1)) % 2 = 1
Enabled(mask) == {options[i] : i \in {j \in DOMAIN options : Bit(mask, j)}}

\* Every choice is selected by the same remainder (a seeded fault).
SelectedTableUndivided(mask, i) ==
  TableChoices[i].tables[((mask \div VariantCount[0]) % Len(TableChoices[i].tables)) + 1]

SelectedTable(mask, i) ==
  TableChoices[i].tables[((mask \div VariantCount[i - 1]) % Len(TableChoices[i].tables)) + 1]
SelectedTables(mask) ==
  [n \in ChoiceNames |-> SelectedTable(mask, CHOOSE i \in DOMAIN TableChoices : TableChoices[i].name = n)]

\* The elements of a sequence at the given positions.
Selected(seq, positions) ==
  LET selected[i \in 0 .. Len(seq)] ==
        IF i = 0 THEN <<>>
        ELSE IF i \in positions THEN Append(selected[i - 1], seq[i]) ELSE selected[i - 1]
  IN selected[Len(seq)]

\* compositionSQL: the base text and the enabled blocks.
CompositionSQL(mask) ==
  LET Taken(part) == part.option = None \/ part.option \in Enabled(mask)
  IN Selected([i \in DOMAIN parts |-> parts[i].text], {i \in DOMAIN parts : Taken(parts[i])})

(***************************************************************************)
(* What resolving a text yields.                                           *)
(***************************************************************************)
TypeOf(type, tables) == IF type \in DOMAIN tables THEN ColumnType[tables[type]] ELSE type

Typed(item, tables) == [item EXCEPT !.type = TypeOf(@, tables)]

ColumnsOf(text, tables) ==
  LET LineColumns(line) == [i \in DOMAIN line.columns |-> Typed(line.columns[i], tables)]
  IN FlattenSeq([i \in DOMAIN text |-> LineColumns(text[i])])
UsesOf(text, tables) ==
  UNION {{Typed(use, tables) : use \in text[i].params} : i \in DOMAIN text}
SlotsOf(text) == UNION {text[i].slots : i \in DOMAIN text}
UncheckedOf(text, tables) ==
  LET Doubted(item) == item.over \in DOMAIN tables => tables[item.over] \in Doubtful
  IN UNION {{item.name : item \in {u \in text[i].unchecked : Doubted(u)}} : i \in DOMAIN text}

\* Two uses of a parameter that disagree.
Clash(uses) == \E u, w \in uses : u.name = w.name /\ u # w
Unresolved(columns, uses) ==
  \/ \E i \in DOMAIN columns : columns[i].type = Unknown
  \/ \E u \in uses : u.type = Unknown

NamesOf(uses) == {u.name : u \in uses}
UseOf(uses, n) == CHOOSE u \in uses : u.name = n
Parameters(uses) == [n \in NamesOf(uses) |-> [type |-> UseOf(uses, n).type, external |-> UseOf(uses, n).external]]

Prepared == UNION {variants[i].uses : i \in DOMAIN variants}

ResolveVariant ==
  /\ phase = "resolve" /\ at - 1 \in Masks
  /\ LET text == CompositionSQL(at - 1)
         tables == SelectedTables(at - 1)
         uses == UsesOf(text, tables)
         columns == ColumnsOf(text, tables)
         refused == \/ SlotsOf(text) # ChoiceNames
                    \/ Clash(uses)
                    \/ query.server /\ Clash(Prepared \cup uses)
                    \/ ~query.server /\ Unresolved(columns, uses)
     IN \/ refused /\ Refuse
        \/ /\ ~refused
           /\ variants' = Append(variants, [text |-> text, tables |-> tables, columns |-> columns,
                                            uses |-> uses, unchecked |-> UncheckedOf(text, tables),
                                            version |-> 0])
           /\ at' = at + 1
           /\ UNCHANGED <<query, phase, parsing, merged, owner, version>>

Unannotated == \E n \in query.annotated : n \notin NamesOf(Prepared)

EndResolve ==
  /\ phase = "resolve" /\ at - 1 \notin Masks
  /\ \/ query.server /\ Unannotated /\ Refuse
     \/ /\ ~(query.server /\ Unannotated)
        /\ Enter(IF query.server THEN "describe" ELSE IF Composed THEN "merge" ELSE "plain")
        /\ UNCHANGED <<query, parsing, variants, merged, owner, version>>

\* The server describes every variant.
DescribeVariant ==
  /\ phase = "describe" /\ at \in DOMAIN variants
  /\ \/ Unresolved(variants[at].columns, variants[at].uses) /\ Refuse
     \/ /\ ~Unresolved(variants[at].columns, variants[at].uses)
        /\ variants' = [variants EXCEPT ![at].version = version]
        /\ at' = at + 1
        /\ UNCHANGED <<query, phase, parsing, merged, owner, version>>

EndDescribe ==
  /\ phase = "describe" /\ at \notin DOMAIN variants
  /\ LET changed == \E i \in DOMAIN variants : variants[i].version # variants[1].version
     IN \/ changed /\ Refuse
        \/ /\ ~changed
           /\ Enter(IF Composed THEN "merge" ELSE "plain")
           /\ UNCHANGED <<query, parsing, variants, merged, owner, version>>
-----------------------------------------------------------------------------
(***************************************************************************)
(* mergeQueryVariants.                                                     *)
(***************************************************************************)
KeepsColumns(columns) ==
  /\ Len(columns) = Len(variants[1].columns)
  /\ \A i \in DOMAIN columns : /\ columns[i].name = variants[1].columns[i].name
                               /\ columns[i].type = variants[1].columns[i].type
ChangesParameter(params) ==
  \E n \in DOMAIN params \cap DOMAIN merged.types : merged.types[n] # params[n]

Known(n) == n \in DOMAIN merged.types

MergedTypes(params) ==
  [n \in DOMAIN merged.types \cup DOMAIN params |-> IF Known(n) THEN merged.types[n] ELSE params[n]]
MergedPresence(params) ==
  [n \in DOMAIN merged.types \cup DOMAIN params |->
     (IF Known(n) THEN merged.presence[n] ELSE {}) \cup (IF n \in DOMAIN params THEN {at} ELSE {})]

\* The last variant decides (a seeded fault).
MergedUncheckedLast(unchecked) == unchecked

MergedUnchecked(unchecked) == merged.unchecked \cup unchecked

MergeVariant ==
  /\ phase = "merge" /\ at \in DOMAIN variants
  /\ LET params == Parameters(variants[at].uses)
         columns == variants[at].columns
         refused == ~KeepsColumns(columns) \/ ChangesParameter(params)
     IN \/ refused /\ Refuse
        \/ /\ ~refused
           /\ merged' = [types |-> MergedTypes(params), presence |-> MergedPresence(params),
                         columns |-> variants[1].columns,
                         unchecked |-> MergedUnchecked(variants[at].unchecked)]
           /\ at' = at + 1
           /\ UNCHANGED <<query, phase, parsing, variants, owner, version>>

Having(i) == {m + 1 : m \in {mask \in Masks : Bit(mask, i)}}

\* It is enough that the variants with the option have the parameter (a seeded fault).
OwnsAtLeast(i, n) == Having(i) \subseteq merged.presence[n]

\* An option owns a parameter that exactly its variants have.
Owns(i, n) == merged.presence[n] = Having(i)

\* A parameter has the name of an option or choice, and so of a field.
FieldTaken == (Range(options) \cup ChoiceNames) \cap DOMAIN merged.types # {}

EndMerge ==
  /\ phase = "merge" /\ at \notin DOMAIN variants
  /\ LET refused == FieldTaken \/ (~query.server /\ Unannotated)
     IN \/ refused /\ Refuse
        \/ /\ ~refused
           /\ owner' = [n \in DOMAIN merged.types |->
                          IF \E i \in DOMAIN options : Owns(i, n)
                          THEN options[CHOOSE i \in DOMAIN options : Owns(i, n)] ELSE None]
           /\ Enter("accepted")
           /\ UNCHANGED <<query, parsing, variants, merged, version>>

\* The server is upgraded.
Upgrade ==
  /\ phase = "describe" /\ version < MaxVersion
  /\ version' = version + 1
  /\ UNCHANGED <<query, phase, at, parsing, variants, merged, owner>>

Next ==
  \/ ReadLine \/ EndLines \/ CountVariants
  \/ ResolveVariant \/ EndResolve \/ DescribeVariant \/ EndDescribe
  \/ MergeVariant \/ EndMerge
  \/ Upgrade

Spec == Init /\ [][Next]_vars
-----------------------------------------------------------------------------
(***************************************************************************)
(* Calls of the generated method: an option is on if its pointer is set,   *)
(* and every choice names one of its tables (renderCompositionSetup).      *)
(***************************************************************************)
CaseMatches(mask, call) ==
  /\ \A i \in DOMAIN options : Bit(mask, i) <=> options[i] \in call.on
  /\ \A n \in ChoiceNames : SelectedTables(mask)[n] = call.tables[n]

\* A field of the argument: in the struct of its owner, or in the main one.
CompositionAccess(n) == owner[n]
-----------------------------------------------------------------------------
(***************************************************************************)
(* What the source says, without parts and masks.                          *)
(***************************************************************************)
Lines == query.lines
OptionNames == {Lines[j].name : j \in {i \in DOMAIN Lines : Lines[i].is = "if"}}
Opens(j, l) ==
  Lines[j].is = "if" /\ j < l /\ \A k \in (j + 1) .. (l - 1) : Lines[k].is # "end"
InBlock(l) == {Lines[j].name : j \in {i \in DOMAIN Lines : Opens(i, l)}}
TablesOf(n) == UNION {Range(TableChoices[i].tables) : i \in {j \in DOMAIN TableChoices : TableChoices[j].name = n}}
Selections == {t \in [ChoiceNames -> UNION {Range(TableChoices[i].tables) : i \in DOMAIN TableChoices}] :
                 \A n \in ChoiceNames : t[n] \in TablesOf(n)}
Calls == [on: SUBSET OptionNames, tables: Selections]

Kept(l, call) == Lines[l].is = "sql" /\ InBlock(l) \subseteq call.on
KeptText(call) == Selected(Lines, {l \in DOMAIN Lines : Kept(l, call)})
CallUses(call) == UsesOf(KeptText(call), call.tables)
CallColumns(call) == ColumnsOf(KeptText(call), call.tables)

\* Every call that the types allow selects exactly one variant, whose text is
\* the base and the blocks of the options that are on, over the chosen tables
\* (renderCompositionSetup against parseConditionalSQL and selectedTables).
EveryCallHasItsVariant ==
  phase = "accepted" =>
    \A call \in Calls : \E mask \in Masks :
      /\ \A other \in Masks : CaseMatches(other, call) <=> other = mask
      /\ variants[mask + 1].text = KeptText(call)
      /\ variants[mask + 1].tables = call.tables

\* The one signature fits every variant: its parameters have the types the
\* variant resolved, its columns too, what a variant leaves unchecked is visible, and
\* a parameter in an option's struct is there exactly when that option is on,
\* so that no case of the switch follows a nil pointer (mergeQueryVariants).
SignatureFitsEveryVariant ==
  phase = "accepted" =>
    \A m \in DOMAIN variants :
      LET v == variants[m] params == Parameters(v.uses)
      IN /\ DOMAIN params \subseteq DOMAIN merged.types
         /\ \A n \in DOMAIN params : merged.types[n] = params[n]
         /\ Len(v.columns) = Len(merged.columns)
         /\ \A i \in DOMAIN v.columns : /\ merged.columns[i].name = v.columns[i].name
                                        /\ merged.columns[i].type = v.columns[i].type
         /\ v.unchecked \subseteq merged.unchecked
         /\ \A n \in DOMAIN merged.types : \A i \in DOMAIN options :
              CompositionAccess(n) = options[i] => (n \in DOMAIN params <=> Bit(m - 1, i))

Blocks(n) ==
  {InBlock(l) : l \in {k \in DOMAIN Lines : Lines[k].is = "sql" /\ n \in NamesOf(Lines[k].params)}}

\* A parameter whose uses all stand in blocks of one option, and nowhere else,
\* lives in that option's struct, every other one in the main struct.
OwnersFollowTheBlocks ==
  phase = "accepted" =>
    \A n \in DOMAIN merged.types :
      CompositionAccess(n) = IF \E o \in OptionNames : Blocks(n) = {{o}}
                             THEN CHOOSE o \in OptionNames : Blocks(n) = {{o}} ELSE None

IllFormed ==
  \/ \E l \in DOMAIN Lines : Lines[l].is = "else" \/ (Lines[l].is = "if" /\ Lines[l].name = None)
  \/ \E l \in DOMAIN Lines : Lines[l].is = "if" /\ InBlock(l) # {}
  \/ \E l \in DOMAIN Lines : Lines[l].is = "end" /\ InBlock(l) = {}
  \/ InBlock(Len(Lines) + 1) # {}

\* A reason to refuse that lies in the query itself, or the server.
Cause ==
  LET all == UNION {CallUses(call) : call \in Calls}
  IN \/ IllFormed
     \/ query.exec /\ (query.server \/ OptionNames # {} \/ TableChoices # <<>>)
     \/ \E i, j \in DOMAIN TableChoices : i # j /\ TableChoices[i].name = TableChoices[j].name
     \/ ChoiceNames \cap OptionNames # {}
     \/ WrongTable
     \/ Cardinality(Calls) > MaxVariants
     \/ \E call \in Calls : \/ SlotsOf(KeptText(call)) # ChoiceNames
                            \/ Unresolved(CallColumns(call), CallUses(call))
     \/ Clash(all)
     \/ \E c, d \in Calls :
          [i \in DOMAIN CallColumns(c) |-> <<CallColumns(c)[i].name, CallColumns(c)[i].type>>]
            # [i \in DOMAIN CallColumns(d) |-> <<CallColumns(d)[i].name, CallColumns(d)[i].type>>]
     \/ (OptionNames # {} \/ TableChoices # <<>>) /\ (OptionNames \cup ChoiceNames) \cap NamesOf(all) # {}
     \/ ~(query.annotated \subseteq NamesOf(all))
     \/ version > 1

\* A composed query is accepted exactly if nothing in it, taken over all calls
\* and in no order, is a reason to refuse it.
RefusedExactlyForCause ==
  /\ phase = "refused" => Cause
  /\ phase = "accepted" /\ version = 1 => ~Cause
=============================================================================
