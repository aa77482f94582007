------------------------- MODULE CompositionProofs -------------------------
(***************************************************************************)
(* For every query, with any number of lines, choices and parameters: the  *)
(* merged signature of an accepted query fits each of its variants; each   *)
(* call takes the one variant whose text is the base and the blocks that   *)
(* are on; parameters live in the struct of the option whose blocks they   *)
(* stand in; and a query is refused exactly if it has a cause.             *)
(***************************************************************************)
EXTENDS Composition, TLAPS, RecursionTheorems, FiniteSetTheorems, SequenceTheorems

IsSeq(s) == \E S : s \in Seq(S)

\* The variants whose signature is merged.
Merged == IF phase = "accepted" THEN DOMAIN variants ELSE 1 .. (at - 1)

\* The merged signature fits variant m.
Fits(m) ==
  LET v == variants[m] params == Parameters(v.uses)
  IN /\ DOMAIN params \subseteq DOMAIN merged.types
     /\ \A n \in DOMAIN params : merged.types[n] = params[n]
     /\ Len(v.columns) = Len(merged.columns)
     /\ \A i \in DOMAIN v.columns : /\ merged.columns[i].name = v.columns[i].name
                                    /\ merged.columns[i].type = v.columns[i].type
     /\ v.unchecked \subseteq merged.unchecked

OptionsInv ==
  /\ IsSeq(options)
  /\ \A i \in DOMAIN options : options[i] # None
  /\ \A i, j \in DOMAIN options : options[i] = options[j] => i = j

VariantsInv ==
  /\ at \in Nat \ {0} /\ IsSeq(variants)
  /\ phase \in {"read", "count"} => variants = <<>>
  /\ phase = "resolve" => Len(variants) = at - 1
  /\ \A m \in DOMAIN variants : m - 1 \in Masks

MergeInv ==
  /\ phase \in {"read", "count", "resolve", "describe"} => merged = Nothing
  /\ phase \in {"merge", "accepted"} =>
       /\ Merged \subseteq DOMAIN variants
       /\ Merged # {} => merged.columns = variants[1].columns
       /\ DOMAIN merged.presence = DOMAIN merged.types
       /\ \A n \in DOMAIN merged.types :
            merged.presence[n] = {m \in Merged : n \in NamesOf(variants[m].uses)}
       /\ \A m \in Merged : Fits(m)

\* An owner is the option that exactly the variants with the parameter have.
OwnerInv ==
  phase = "accepted" =>
    \A n \in DOMAIN merged.types :
      \/ owner[n] = None
      \/ \E i \in DOMAIN options : owner[n] = options[i] /\ Owns(i, n)

CompositionInv == OptionsInv /\ VariantsInv /\ MergeInv /\ OwnerInv
-----------------------------------------------------------------------------
LEMMA AppendFacts ==
  ASSUME NEW s, IsSeq(s), NEW e
  PROVE  /\ IsSeq(Append(s, e))
         /\ DOMAIN Append(s, e) = 1 .. (Len(s) + 1) /\ DOMAIN s = 1 .. Len(s) /\ Len(s) \in Nat
         /\ Len(Append(s, e)) = Len(s) + 1
         /\ \A i \in 1 .. Len(s) : Append(s, e)[i] = s[i]
         /\ Append(s, e)[Len(s) + 1] = e
<1>1. PICK S : s \in Seq(S)  BY DEF IsSeq
<1>2. s \in Seq(S \cup {e}) /\ e \in S \cup {e}  BY <1>1
<1>3. Append(s, e) \in Seq(S \cup {e})  BY <1>2
<1> QED  BY <1>2, <1>3 DEF IsSeq

LEMMA SeqDomain == ASSUME NEW s, IsSeq(s) PROVE DOMAIN s = 1 .. Len(s) /\ Len(s) \in Nat
BY DEF IsSeq

LEMMA InitComposition == Init => CompositionInv
<1> SUFFICES ASSUME Init PROVE CompositionInv  OBVIOUS
<1>1. IsSeq(<<>>)
  <2>1. <<>> \in Seq({})  OBVIOUS
  <2> QED  BY <2>1 DEF IsSeq
<1> QED  BY <1>1 DEF Init, CompositionInv, OptionsInv, VariantsInv, MergeInv, OwnerInv

(***************************************************************************)
(* Parsing.                                                                *)
(***************************************************************************)
LEMMA ReadLineStep == ASSUME CompositionInv, ReadLine PROVE CompositionInv'
<1> DEFINE line == query.lines[at]
<1> USE DEF CompositionInv
<1>1. CASE phase' = "refused"
  BY <1>1 DEF ReadLine, Refuse, OptionsInv, VariantsInv, MergeInv, OwnerInv, parsing, Masks
<1>2. CASE phase' = phase
  <2>1. OptionsInv'
    <3>1. CASE options' = options  BY <3>1 DEF OptionsInv
    <3>2. CASE /\ options' = Append(options, line.name) /\ line.is = "if"
               /\ line.name \notin Range(options) /\ ~Malformed(line)
      <4>1. line.name # None  BY <3>2 DEF Malformed
      <4>2. \A i \in DOMAIN options : options[i] # line.name  BY <3>2 DEF Range
      <4> QED  BY <3>2, <4>1, <4>2, AppendFacts DEF OptionsInv
    <3> QED  BY <1>2, <3>1, <3>2 DEF ReadLine, Refuse, parsing
  <2>2. VariantsInv' /\ MergeInv' /\ OwnerInv'
    BY <1>2 DEF ReadLine, Refuse, parsing, VariantsInv, MergeInv, OwnerInv
  <2> QED  BY <2>1, <2>2
<1> QED  BY <1>1, <1>2 DEF ReadLine, Refuse

LEMMA EndLinesStep == ASSUME CompositionInv, EndLines PROVE CompositionInv'
<1> USE DEF CompositionInv
<1>1. CASE phase' = "refused"
  BY <1>1 DEF EndLines, Refuse, Enter, OptionsInv, VariantsInv, MergeInv, OwnerInv, parsing, Masks
<1>2. CASE phase' = "count" /\ at' = 1 /\ phase = "read"
  BY <1>2 DEF EndLines, Refuse, Enter, OptionsInv, VariantsInv, MergeInv, OwnerInv, parsing, Masks
<1> QED  BY <1>1, <1>2 DEF EndLines, Refuse, Enter

LEMMA CountVariantsStep == ASSUME CompositionInv, CountVariants PROVE CompositionInv'
<1> USE DEF CompositionInv
<1>1. variants = <<>> /\ variants' = variants
  BY DEF CountVariants, Refuse, Enter, VariantsInv
<1>2. phase' = "refused" \/ (phase' = "resolve" /\ at' = 1)
  BY DEF CountVariants, Refuse, Enter
<1>3. OptionsInv' /\ MergeInv' /\ OwnerInv'
  BY <1>2 DEF CountVariants, Refuse, Enter, OptionsInv, MergeInv, OwnerInv, parsing
<1>4. at' \in Nat \ {0}
  BY DEF CountVariants, Refuse, Enter, VariantsInv
<1>5. Len(variants') = 0 /\ DOMAIN variants' = {} /\ IsSeq(variants')
  BY <1>1 DEF VariantsInv
<1>6. phase' = "resolve" => at' = 1
  BY DEF CountVariants, Refuse, Enter
<1>7. VariantsInv'
  BY <1>1, <1>2, <1>4, <1>5, <1>6 DEF VariantsInv
<1> QED  BY <1>3, <1>7

(***************************************************************************)
(* The variants.                                                           *)
(***************************************************************************)
LEMMA SameCount == ASSUME UNCHANGED <<query, options>> PROVE Masks' = Masks
BY DEF Masks, VariantCount, TableChoices

LEMMA ResolveVariantStep == ASSUME CompositionInv, ResolveVariant PROVE CompositionInv'
<1> USE DEF CompositionInv
<1>1. UNCHANGED <<query, options, merged, owner>>
  BY DEF ResolveVariant, Refuse, parsing
<1>2. Masks' = Masks  BY <1>1, SameCount
<1>3. phase' \in {"refused", "resolve"} /\ phase = "resolve"
  BY DEF ResolveVariant, Refuse
<1>4. OptionsInv'  BY <1>1 DEF OptionsInv
<1>5. MergeInv' /\ OwnerInv'
  BY <1>1, <1>3 DEF MergeInv, OwnerInv
<1>6. VariantsInv'
  <2>1. CASE UNCHANGED <<variants, at>> /\ phase' = "refused"
    BY <2>1, <1>2 DEF VariantsInv
  <2>2. CASE \E v : /\ variants' = Append(variants, v) /\ at' = at + 1
                    /\ at - 1 \in Masks /\ phase' = phase
    <3>1. PICK v : variants' = Append(variants, v)  BY <2>2
    <3>2. /\ IsSeq(variants') /\ Len(variants') = at
          /\ DOMAIN variants' = 1 .. at /\ DOMAIN variants = 1 .. (at - 1) /\ at \in Nat \ {0}
      BY <3>1, <1>3, AppendFacts DEF VariantsInv
    <3>3. ASSUME NEW m \in DOMAIN variants' PROVE m - 1 \in Masks'
      <4>1. m \in DOMAIN variants \/ m = at  BY <3>2
      <4> QED  BY <4>1, <2>2, <1>2 DEF VariantsInv
    <3> QED  BY <2>2, <1>3, <3>2, <3>3 DEF VariantsInv
  <2> QED  BY <2>1, <2>2 DEF ResolveVariant, Refuse
<1> QED  BY <1>4, <1>5, <1>6

\* Between phases, with the variants and the merged signature kept.
LEMMA EnterStep ==
  ASSUME CompositionInv, UNCHANGED <<query, options, variants, merged, owner>>,
         at' \in Nat \ {0}, phase' \in {"describe", "plain", "refused"},
         phase \in {"resolve", "describe"}
  PROVE  CompositionInv'
<1> USE DEF CompositionInv
<1>1. Masks' = Masks  BY SameCount
<1>2. OptionsInv'  BY DEF OptionsInv
<1>3. VariantsInv'  BY <1>1 DEF VariantsInv
<1>4. MergeInv' /\ OwnerInv'  BY DEF MergeInv, OwnerInv
<1> QED  BY <1>2, <1>3, <1>4

\* Before the first variant is merged.
LEMMA EnterMerge ==
  ASSUME CompositionInv, UNCHANGED <<query, options, variants, merged, owner>>,
         at' = 1, phase' = "merge", phase \in {"resolve", "describe"}
  PROVE  CompositionInv'
<1> USE DEF CompositionInv
<1>1. Masks' = Masks  BY SameCount
<1>2. OptionsInv'  BY DEF OptionsInv
<1>3. VariantsInv'  BY <1>1 DEF VariantsInv
<1>4. Merged' = {}  BY DEF Merged
<1>5. merged' = Nothing  BY DEF MergeInv
<1>6. MergeInv'
  BY <1>4, <1>5 DEF MergeInv, Nothing
<1>7. OwnerInv'  BY DEF OwnerInv
<1> QED  BY <1>2, <1>3, <1>6, <1>7

LEMMA EndResolveStep == ASSUME CompositionInv, EndResolve PROVE CompositionInv'
<1>1. UNCHANGED <<query, options, variants, merged, owner>> /\ phase = "resolve"
  BY DEF EndResolve, Refuse, parsing
<1>2. CASE phase' = "refused" /\ at' = at
  BY <1>1, <1>2, EnterStep DEF CompositionInv, VariantsInv
<1>3. CASE at' = 1 /\ phase' \in {"describe", "plain"}
  BY <1>1, <1>3, EnterStep
<1>4. CASE at' = 1 /\ phase' = "merge"
  BY <1>1, <1>4, EnterMerge
<1> QED  BY <1>2, <1>3, <1>4 DEF EndResolve, Refuse, Enter

LEMMA EndDescribeStep == ASSUME CompositionInv, EndDescribe PROVE CompositionInv'
<1>1. UNCHANGED <<query, options, variants, merged, owner>> /\ phase = "describe"
  BY DEF EndDescribe, Refuse, parsing
<1>2. CASE phase' = "refused" /\ at' = at
  BY <1>1, <1>2, EnterStep DEF CompositionInv, VariantsInv
<1>3. CASE at' = 1 /\ phase' = "plain"
  BY <1>1, <1>3, EnterStep
<1>4. CASE at' = 1 /\ phase' = "merge"
  BY <1>1, <1>4, EnterMerge
<1> QED  BY <1>2, <1>3, <1>4 DEF EndDescribe, Refuse, Enter

LEMMA DescribeVariantStep == ASSUME CompositionInv, DescribeVariant PROVE CompositionInv'
<1> USE DEF CompositionInv
<1>1. UNCHANGED <<query, options, merged, owner>> /\ phase = "describe"
  BY DEF DescribeVariant, Refuse, parsing
<1>2. Masks' = Masks  BY <1>1, SameCount
<1>3. IsSeq(variants') /\ DOMAIN variants' = DOMAIN variants
  <2>1. PICK S : variants \in Seq(S)  BY DEF VariantsInv, IsSeq
  <2>2. CASE variants' = variants  BY <2>2, <2>1 DEF IsSeq
  <2>3. CASE /\ at \in DOMAIN variants
             /\ variants' = [variants EXCEPT ![at].version = version]
    <3> DEFINE e == [variants[at] EXCEPT !.version = version]  T == S \cup {e}
    <3>1. variants' = [variants EXCEPT ![at] = e]  BY <2>3
    <3> HIDE DEF e
    <3>2. variants \in Seq(T) /\ e \in T  BY <2>1
    <3>3. variants' \in Seq(T)  BY <3>1, <3>2, <2>3
    <3> QED  BY <3>1, <3>3 DEF IsSeq
  <2> QED  BY <2>2, <2>3 DEF DescribeVariant, Refuse
<1>4. phase' \in {"describe", "refused"} /\ at' \in Nat \ {0}
  BY <1>1 DEF DescribeVariant, Refuse, VariantsInv
<1>5. OptionsInv'  BY <1>1 DEF OptionsInv
<1>6. VariantsInv'  BY <1>1, <1>2, <1>3, <1>4 DEF VariantsInv
<1>7. MergeInv' /\ OwnerInv'  BY <1>1, <1>4 DEF MergeInv, OwnerInv
<1> QED  BY <1>5, <1>6, <1>7

(***************************************************************************)
(* The merge.                                                              *)
(***************************************************************************)
LEMMA MergeOneVariant ==
  ASSUME CompositionInv, phase = "merge", phase' = phase, at \in DOMAIN variants, at' = at + 1,
         UNCHANGED <<query, options, variants, owner>>,
         KeepsColumns(variants[at].columns), ~ChangesParameter(Parameters(variants[at].uses)),
         merged' = [types |-> MergedTypes(Parameters(variants[at].uses)),
                    presence |-> MergedPresence(Parameters(variants[at].uses)),
                    columns |-> variants[1].columns,
                    unchecked |-> MergedUnchecked(variants[at].unchecked)]
  PROVE  MergeInv'
<1> DEFINE params == Parameters(variants[at].uses)
<1>1. DOMAIN params = NamesOf(variants[at].uses)  BY DEF Parameters
<1>2. /\ Merged = 1 .. (at - 1) /\ Merged' = 1 .. at /\ at \in Nat \ {0}
      /\ DOMAIN variants = 1 .. Len(variants) /\ Len(variants) \in Nat
  BY SeqDomain DEF Merged, CompositionInv, VariantsInv
<1>3. /\ Merged # {} => merged.columns = variants[1].columns
      /\ DOMAIN merged.presence = DOMAIN merged.types
      /\ \A n \in DOMAIN merged.types :
            merged.presence[n] = {m \in Merged : n \in NamesOf(variants[m].uses)}
      /\ \A m \in Merged : Fits(m)
  BY DEF CompositionInv, MergeInv
<1>4. merged'.columns = variants[1].columns
  OBVIOUS
<1>5. /\ DOMAIN merged'.types = DOMAIN merged.types \cup DOMAIN params
      /\ DOMAIN merged'.presence = DOMAIN merged.types \cup DOMAIN params
      /\ \A n \in DOMAIN merged.types : merged'.types[n] = merged.types[n]
      /\ \A n \in DOMAIN params : merged'.types[n] = params[n]
      /\ merged'.unchecked = merged.unchecked \cup variants[at].unchecked
  <2>1. merged'.types = MergedTypes(params) /\ merged'.presence = MergedPresence(params)
        /\ merged'.unchecked = MergedUnchecked(variants[at].unchecked)
    OBVIOUS
  <2>2. \A n \in DOMAIN params \cap DOMAIN merged.types : merged.types[n] = params[n]
    BY DEF ChangesParameter
  <2> HIDE DEF params
  <2> QED  BY <2>1, <2>2 DEF MergedTypes, MergedPresence, MergedUnchecked, Known
<1>6. ASSUME NEW n \in DOMAIN merged'.types
      PROVE  merged'.presence[n] = {m \in Merged' : n \in NamesOf(variants[m].uses)}
  <2>1. merged'.presence[n] = (IF n \in DOMAIN merged.types THEN merged.presence[n] ELSE {})
                                \cup (IF n \in DOMAIN params THEN {at} ELSE {})
    <3>1. merged'.presence = MergedPresence(params)  OBVIOUS
    <3> HIDE DEF params
    <3> QED  BY <3>1, <1>5 DEF MergedPresence, Known
  <2>2. n \notin DOMAIN merged.types => \A m \in Merged : n \notin NamesOf(variants[m].uses)
    BY <1>3 DEF Fits, Parameters
  <2>3. {m \in Merged' : n \in NamesOf(variants[m].uses)}
          = {m \in Merged : n \in NamesOf(variants[m].uses)} \cup (IF n \in DOMAIN params THEN {at} ELSE {})
    <3>1. Merged' = Merged \cup {at} /\ at \notin Merged  BY <1>2
    <3> HIDE DEF params
    <3> QED  BY <3>1, <1>1
  <2>4. CASE n \in DOMAIN merged.types
    <3> HIDE DEF params
    <3> QED  BY <2>1, <2>3, <2>4, <1>3
  <2>5. CASE n \notin DOMAIN merged.types
    <3>1. {m \in Merged : n \in NamesOf(variants[m].uses)} = {}  BY <2>2, <2>5
    <3> HIDE DEF params
    <3> QED  BY <2>1, <2>3, <2>5, <3>1
  <2> QED  BY <2>4, <2>5
<1>7. ASSUME NEW m \in Merged' PROVE Fits(m)'
  <2>1. CASE m \in Merged
    <3>1. Fits(m) /\ merged.columns = variants[1].columns  BY <1>3, <2>1
    <3>2. /\ DOMAIN Parameters(variants[m].uses) \subseteq DOMAIN merged'.types
          /\ \A n \in DOMAIN Parameters(variants[m].uses) :
                merged'.types[n] = Parameters(variants[m].uses)[n]
          /\ variants[m].unchecked \subseteq merged'.unchecked
      <4> HIDE DEF params
      <4> QED  BY <3>1, <1>5 DEF Fits
    <3>3. merged'.columns = merged.columns  BY <3>1, <1>4
    <3> QED  BY <3>1, <3>2, <3>3 DEF Fits
  <2>2. CASE m = at
    <3>1. /\ DOMAIN params \subseteq DOMAIN merged'.types
          /\ \A n \in DOMAIN params : merged'.types[n] = params[n]
          /\ variants[m].unchecked \subseteq merged'.unchecked
      <4> HIDE DEF params
      <4> QED  BY <1>5, <2>2
    <3>2. /\ Len(variants[m].columns) = Len(merged'.columns)
          /\ \A i \in DOMAIN variants[m].columns :
                /\ merged'.columns[i].name = variants[m].columns[i].name
                /\ merged'.columns[i].type = variants[m].columns[i].type
      BY <2>2, <1>4 DEF KeepsColumns
    <3> QED  BY <3>1, <3>2, <2>2 DEF Fits
  <2> QED  BY <2>1, <2>2, <1>2
<1>8. Merged' \subseteq DOMAIN variants'  BY <1>2
<1>9. /\ DOMAIN merged'.presence = DOMAIN merged'.types
      /\ merged'.columns = variants'[1].columns
      /\ phase' = "merge"
  BY <1>5, <1>4
<1>10. \A n \in DOMAIN merged'.types :
         merged'.presence[n] = {m \in Merged' : n \in NamesOf(variants'[m].uses)}
  BY <1>6
<1> HIDE DEF params
<1> QED  BY <1>7, <1>8, <1>9, <1>10 DEF MergeInv

LEMMA MergeVariantStep == ASSUME CompositionInv, MergeVariant PROVE CompositionInv'
<1> USE DEF CompositionInv
<1>1. UNCHANGED <<query, options, variants, owner>> /\ phase = "merge"
  BY DEF MergeVariant, Refuse, parsing
<1>2. Masks' = Masks  BY <1>1, SameCount
<1>3. phase' \in {"merge", "refused"} /\ at' \in Nat \ {0}
  BY <1>1 DEF MergeVariant, Refuse, VariantsInv
<1>4. OptionsInv' /\ VariantsInv' /\ OwnerInv'
  BY <1>1, <1>2, <1>3 DEF OptionsInv, VariantsInv, OwnerInv
<1>5. MergeInv'
  <2>1. CASE phase' = "refused"  BY <2>1 DEF MergeInv
  <2>2. CASE phase' # "refused"
    BY <2>2, <1>1, MergeOneVariant DEF MergeVariant, Refuse
  <2> QED  BY <2>1, <2>2
<1> QED  BY <1>4, <1>5

LEMMA EndMergeStep == ASSUME CompositionInv, EndMerge PROVE CompositionInv'
<1> USE DEF CompositionInv
<1>1. UNCHANGED <<query, options, variants, merged>> /\ phase = "merge"
  BY DEF EndMerge, Refuse, Enter, parsing
<1>2. Masks' = Masks  BY <1>1, SameCount
<1>3. phase' \in {"accepted", "refused"} /\ at' \in Nat \ {0}
  BY <1>1 DEF EndMerge, Refuse, Enter, VariantsInv
<1>4. OptionsInv' /\ VariantsInv'
  BY <1>1, <1>2, <1>3 DEF OptionsInv, VariantsInv
<1>5. CASE phase' = "refused"
  BY <1>5, <1>4 DEF MergeInv, OwnerInv
<1>6. CASE phase' = "accepted"
  <2>1. at \notin DOMAIN variants
        /\ owner' = [n \in DOMAIN merged.types |->
                       IF \E i \in DOMAIN options : Owns(i, n)
                       THEN options[CHOOSE i \in DOMAIN options : Owns(i, n)] ELSE None]
    BY <1>6 DEF EndMerge, Refuse, Enter
  <2>2. Merged = 1 .. (at - 1) /\ Merged' = DOMAIN variants
    BY <1>1, <1>6 DEF Merged
  <2>3. Merged' = Merged
    <3>1. /\ DOMAIN variants = 1 .. Len(variants) /\ Len(variants) \in Nat
          /\ at \in Nat \ {0} /\ 1 .. (at - 1) \subseteq DOMAIN variants
      BY <1>1, <2>2, SeqDomain DEF VariantsInv, MergeInv
    <3>2. at - 1 = Len(variants)  BY <3>1, <2>1
    <3> QED  BY <3>1, <3>2, <2>2
  <2>4. \A m : Fits(m)' <=> Fits(m)
    BY <1>1 DEF Fits
  <2>5. MergeInv'
    BY <1>1, <1>6, <2>3, <2>4 DEF MergeInv
  <2>6. \A i, n : Owns(i, n)' <=> Owns(i, n)
    BY <1>1, <1>2 DEF Owns, Having
  <2>7. OwnerInv'
    BY <1>1, <2>1, <2>6 DEF OwnerInv
  <2> QED  BY <1>4, <2>5, <2>7
<1> QED  BY <1>3, <1>5, <1>6

\* The server's upgrade, and steps that change nothing.
LEMMA OtherSteps ==
  ASSUME CompositionInv, UNCHANGED <<query, phase, at, options, variants, merged, owner>>
  PROVE  CompositionInv'
<1> USE DEF CompositionInv
<1>1. Masks' = Masks  BY SameCount
<1>2. \A m : Fits(m)' <=> Fits(m)  BY DEF Fits
<1>3. \A i, n : Owns(i, n)' <=> Owns(i, n)  BY <1>1 DEF Owns, Having
<1>4. Merged' = Merged  BY DEF Merged
<1>5. OptionsInv' /\ VariantsInv'  BY <1>1 DEF OptionsInv, VariantsInv
<1>6. MergeInv'  BY <1>2, <1>4 DEF MergeInv
<1>7. OwnerInv'  BY <1>3 DEF OwnerInv
<1> QED  BY <1>5, <1>6, <1>7

LEMMA NextComposition == CompositionInv /\ [Next]_vars => CompositionInv'
<1> SUFFICES ASSUME CompositionInv, [Next]_vars PROVE CompositionInv'  OBVIOUS
<1>1. CASE ReadLine  BY <1>1, ReadLineStep
<1>2. CASE EndLines  BY <1>2, EndLinesStep
<1>3. CASE CountVariants  BY <1>3, CountVariantsStep
<1>4. CASE ResolveVariant  BY <1>4, ResolveVariantStep
<1>5. CASE EndResolve  BY <1>5, EndResolveStep
<1>6. CASE DescribeVariant  BY <1>6, DescribeVariantStep
<1>7. CASE EndDescribe  BY <1>7, EndDescribeStep
<1>8. CASE MergeVariant  BY <1>8, MergeVariantStep
<1>9. CASE EndMerge  BY <1>9, EndMergeStep
<1>10. CASE Upgrade  BY <1>10, OtherSteps DEF Upgrade, parsing
<1>11. CASE UNCHANGED vars  BY <1>11, OtherSteps DEF vars, parsing
<1> QED
  BY <1>1, <1>2, <1>3, <1>4, <1>5, <1>6, <1>7, <1>8, <1>9, <1>10, <1>11 DEF Next

\* The merge of a query keeps, over any prefix of its variants, a signature that
\* fits every one of them (mergeQueryVariants).
THEOREM CompositionInvariant == Spec => []CompositionInv
<1> QED  BY InitComposition, NextComposition, PTL DEF Spec

\* The field of an owned parameter is there exactly when its option is on.
LEMMA OwnedParameters ==
  ASSUME CompositionInv, phase = "accepted", NEW m \in DOMAIN variants,
         NEW n \in DOMAIN merged.types, NEW i \in DOMAIN options, owner[n] = options[i]
  PROVE  n \in NamesOf(variants[m].uses) <=> Bit(m - 1, i)
<1>1. options[i] # None  BY DEF CompositionInv, OptionsInv
<1>2. PICK j \in DOMAIN options : owner[n] = options[j] /\ Owns(j, n)
  BY <1>1 DEF CompositionInv, OwnerInv
<1>3. Owns(i, n)  BY <1>2 DEF CompositionInv, OptionsInv
<1>4. Merged = DOMAIN variants  BY DEF Merged
<1>5. n \in NamesOf(variants[m].uses) <=> m \in merged.presence[n]
  BY <1>4 DEF CompositionInv, MergeInv
<1>6. m - 1 \in Masks /\ m \in Int
  BY SeqDomain DEF CompositionInv, VariantsInv
<1>7. m \in Having(i) <=> Bit(m - 1, i)
  <2>1. ASSUME Bit(m - 1, i) PROVE m \in Having(i)
    <3>1. m = (m - 1) + 1  BY <1>6
    <3> QED  BY <3>1, <1>6, <2>1 DEF Having
  <2>2. ASSUME m \in Having(i) PROVE Bit(m - 1, i)
    <3>1. PICK mask \in Masks : Bit(mask, i) /\ m = mask + 1  BY <2>2 DEF Having
    <3>2. mask \in Int  BY DEF Masks
    <3>3. mask = m - 1  BY <3>1, <3>2
    <3> QED  BY <3>1, <3>3
  <2> QED  BY <2>1, <2>2
<1> QED  BY <1>3, <1>5, <1>7 DEF Owns

LEMMA FitsEveryVariant == CompositionInv => SignatureFitsEveryVariant
<1> SUFFICES ASSUME CompositionInv, phase = "accepted", NEW m \in DOMAIN variants
             PROVE  /\ Fits(m)
                    /\ \A n \in DOMAIN merged.types : \A i \in DOMAIN options :
                         owner[n] = options[i] =>
                           (n \in DOMAIN Parameters(variants[m].uses) <=> Bit(m - 1, i))
  BY DEF SignatureFitsEveryVariant, Fits, CompositionAccess
<1>1. Fits(m)  BY DEF Merged, CompositionInv, MergeInv
<1>2. DOMAIN Parameters(variants[m].uses) = NamesOf(variants[m].uses)  BY DEF Parameters
<1> QED  BY <1>1, <1>2, OwnedParameters

\* The one signature of an accepted query fits each variant the generated switch
\* may pick, and a field in an option's struct is used exactly in the variants
\* that have the option, for any query (mergeQueryVariants).
THEOREM MergedSignatureFits == Spec => []SignatureFitsEveryVariant
<1> QED  BY CompositionInvariant, FitsEveryVariant, PTL
-----------------------------------------------------------------------------
(***************************************************************************)
(* Sequences, and what Selected keeps of them.                             *)
(***************************************************************************)
SelectedRun(f, s, T) ==
  /\ DOMAIN f = 0 .. Len(s) /\ f[0] = <<>>
  /\ \A i \in 1 .. Len(s) : f[i] = IF i \in T THEN Append(f[i - 1], s[i]) ELSE f[i - 1]

LEMMA SelectedRuns ==
  ASSUME NEW S, NEW s \in Seq(S), NEW T
  PROVE  \E f : SelectedRun(f, s, T) /\ f \in [0 .. Len(s) -> Seq(S)] /\ Selected(s, T) = f[Len(s)]
<1> DEFINE n == Len(s)
           V == Seq(S)
           Then(v, i) == IF i \in T THEN Append(v, s[i]) ELSE v
           Pass == [i \in 1 .. n |-> [v \in V |-> Then(v, i)]]
           Is(f) == f = [i \in 0 .. n |-> IF i = 0 THEN <<>> ELSE Then(f[i - 1], i)]
<1>0. n \in Nat /\ <<>> \in V /\ \A i \in 1 .. n, v \in V : Then(v, i) \in V
  OBVIOUS
<1>1. Pass \in [1 .. n -> [V -> V]]
  <2> HIDE DEF V, Then, n
  <2> QED
    BY <1>0
<1>2. PICK f \in [0 .. n -> V] : Runs(f, <<>>, n, Pass)
  <2> HIDE DEF Pass, V, n
  <2> QED
    BY <1>0, <1>1, LoopRuns
<1>3. f[0] = <<>> /\ \A i \in 1 .. n : f[i] = Then(f[i - 1], i)
  <2>1. \A i \in 1 .. n : f[i - 1] \in V
    <3> HIDE DEF V, n
    <3>1. \A i \in 1 .. n : i - 1 \in 0 .. n
      BY <1>0
    <3> QED
      BY <3>1
  <2> HIDE DEF V, n, Then
  <2> QED
    BY <1>2, <2>1 DEF Runs
<1>4. Is(f)
  <2> HIDE DEF V, n, Then
  <2> QED
    BY <1>0, <1>3
<1>5. Selected(s, T) = (CHOOSE g : Is(g))[n]
  BY DEF Selected
<1> DEFINE g == CHOOSE h : Is(h)
<1>6. Is(g)
  <2> HIDE DEF Is
  <2> QED
    BY <1>4
<1> HIDE DEF g
<1>7. DOMAIN g = 0 .. n /\ g[0] = <<>> /\ \A i \in 1 .. n : g[i] = Then(g[i - 1], i)
  <2> HIDE DEF V, n, Then
  <2> QED
    BY <1>0, <1>6
<1>8. \A i \in 0 .. n : g[i] \in V
  <2> DEFINE P == {j \in 0 .. n : g[j] \in V}
  <2>1. 0 \in P
    <3> HIDE DEF V, n, Then
    <3> QED
      BY <1>7, <1>0
  <2>2. \A i \in 1 .. n : i - 1 \in P => i \in P
    <3> HIDE DEF V, n, Then
    <3> QED
      BY <1>7, <1>0
  <2> HIDE DEF P
  <2>3. \A i \in 0 .. n : i \in P
    BY <2>1, <2>2, <1>0, UpTo
  <2> QED
    BY <2>3 DEF P
<1>9. g \in [0 .. n -> V]
  <2>1. g = [i \in 0 .. n |-> g[i]]
    BY <1>6
  <2> HIDE DEF V, n
  <2> QED
    BY <1>8, <2>1
<1>10. SelectedRun(g, s, T)
  BY <1>7 DEF SelectedRun
<1> QED
  BY <1>5, <1>9, <1>10 DEF g

\* Selections agree as far as the sequences and the positions do.
LEMMA SelectionsAgree ==
  ASSUME NEW f, NEW s, NEW T, SelectedRun(f, s, T), NEW g, NEW t, NEW U, SelectedRun(g, t, U),
         NEW m \in Nat, Len(s) \in Nat, Len(t) \in Nat, m <= Len(s), m <= Len(t),
         \A i \in 1 .. m : s[i] = t[i] /\ (i \in T <=> i \in U)
  PROVE  f[m] = g[m]
<1> DEFINE P == {i \in 0 .. m : f[i] = g[i]}
<1>1. 0 \in P
  BY DEF SelectedRun
<1>2. ASSUME NEW i \in 1 .. m, i - 1 \in P PROVE i \in P
  <2>1. i \in 1 .. Len(s) /\ i \in 1 .. Len(t)
    OBVIOUS
  <2>2. /\ f[i] = IF i \in T THEN Append(f[i - 1], s[i]) ELSE f[i - 1]
        /\ g[i] = IF i \in U THEN Append(g[i - 1], t[i]) ELSE g[i - 1]
    BY <2>1 DEF SelectedRun
  <2> QED
    BY <2>2, <1>2
<1>3. m \in 0 .. m
  OBVIOUS
<1> HIDE DEF P
<1>4. m \in P
  BY <1>1, <1>2, <1>3, UpTo
<1> QED
  BY <1>4 DEF P

LEMMA SelectedAgree ==
  ASSUME NEW s, IsSeq(s), NEW T, NEW U, \A i \in DOMAIN s : i \in T <=> i \in U
  PROVE  Selected(s, T) = Selected(s, U)
<1>1. PICK S : s \in Seq(S)
  BY DEF IsSeq
<1>2. PICK f : SelectedRun(f, s, T) /\ Selected(s, T) = f[Len(s)]
  BY <1>1, SelectedRuns
<1>3. PICK g : SelectedRun(g, s, U) /\ Selected(s, U) = g[Len(s)]
  BY <1>1, SelectedRuns
<1>4. Len(s) \in Nat /\ DOMAIN s = 1 .. Len(s)
  BY <1>1
<1> QED
  BY <1>2, <1>3, <1>4, SelectionsAgree

LEMMA SelectedEmpty == ASSUME NEW T PROVE Selected(<<>>, T) = <<>>
<1>1. <<>> \in Seq({}) /\ Len(<<>>) = 0
  OBVIOUS
<1>2. PICK f : SelectedRun(f, <<>>, T) /\ Selected(<<>>, T) = f[Len(<<>>)]
  BY <1>1, SelectedRuns
<1> QED
  BY <1>1, <1>2 DEF SelectedRun

LEMMA SelectedAppend ==
  ASSUME NEW s, IsSeq(s), NEW e, NEW T, NEW U, \A i \in DOMAIN s : i \in T <=> i \in U
  PROVE  Selected(Append(s, e), U) =
           IF Len(s) + 1 \in U THEN Append(Selected(s, T), e) ELSE Selected(s, T)
<1> DEFINE t == Append(s, e)
           n == Len(s)
<1>1. /\ IsSeq(t) /\ Len(t) = n + 1 /\ n \in Nat /\ DOMAIN s = 1 .. n
      /\ \A i \in 1 .. n : t[i] = s[i]
      /\ t[n + 1] = e
  BY AppendFacts
<1> HIDE DEF t
<1>2. PICK S : s \in Seq(S)
  BY DEF IsSeq
<1>3. PICK R : t \in Seq(R)
  BY <1>1 DEF IsSeq
<1>4. PICK f : SelectedRun(f, s, T) /\ Selected(s, T) = f[n]
  BY <1>2, SelectedRuns
<1>5. PICK g : SelectedRun(g, t, U) /\ Selected(t, U) = g[n + 1]
  BY <1>1, <1>3, SelectedRuns
<1> HIDE DEF n
<1>6. f[n] = g[n]
  BY <1>1, <1>4, <1>5, SelectionsAgree DEF n
<1>7. g[n + 1] = IF n + 1 \in U THEN Append(g[n], e) ELSE g[n]
  <2>1. n + 1 \in 1 .. Len(t) /\ (n + 1) - 1 = n
    BY <1>1
  <2> QED
    BY <1>1, <1>5, <2>1 DEF SelectedRun
<1> QED
  BY <1>4, <1>5, <1>6, <1>7 DEF t, n

LEMMA RangeAppend ==
  ASSUME NEW s, IsSeq(s), NEW e
  PROVE  Range(Append(s, e)) = Range(s) \cup {e}
<1> DEFINE t == Append(s, e)
           n == Len(s)
<1>1. /\ DOMAIN t = 1 .. (n + 1) /\ DOMAIN s = 1 .. n /\ n \in Nat
      /\ \A i \in 1 .. n : t[i] = s[i]
      /\ t[n + 1] = e
  BY AppendFacts
<1> HIDE DEF t, n
<1>2. Range(t) \subseteq Range(s) \cup {e}
  BY <1>1 DEF Range
<1>3. Range(s) \subseteq Range(t)
  <2>1. \A i \in DOMAIN s : i \in DOMAIN t /\ t[i] = s[i]
    BY <1>1
  <2> QED
    BY <2>1 DEF Range
<1>4. e \in Range(t)
  <2>1. n + 1 \in DOMAIN t
    BY <1>1
  <2> QED
    BY <1>1, <2>1 DEF Range
<1> QED
  BY <1>2, <1>3, <1>4 DEF t

\* A selection is a sequence of the elements at the positions.
LEMMA SelectedElements ==
  ASSUME NEW S, NEW s \in Seq(S), NEW T
  PROVE  /\ Selected(s, T) \in Seq(S)
         /\ Range(Selected(s, T)) = {s[i] : i \in {j \in DOMAIN s : j \in T}}
<1> DEFINE n == Len(s)
<1>1. PICK f : SelectedRun(f, s, T) /\ f \in [0 .. n -> Seq(S)] /\ Selected(s, T) = f[n]
  BY SelectedRuns
<1>2. n \in Nat /\ DOMAIN s = 1 .. n /\ \A i \in 1 .. n : s[i] \in S
  OBVIOUS
<1> DEFINE Chosen(m) == {s[i] : i \in {j \in 1 .. m : j \in T}}
           P == {m \in 0 .. n : Range(f[m]) = Chosen(m)}
<1>3. 0 \in P
  <2>1. Range(<<>>) = {}
    BY DEF Range
  <2>2. Chosen(0) = {}
    OBVIOUS
  <2> QED
    BY <1>1, <1>2, <2>1, <2>2 DEF SelectedRun
<1>4. ASSUME NEW m \in 1 .. n, m - 1 \in P PROVE m \in P
  <2>1. /\ f[m] = IF m \in T THEN Append(f[m - 1], s[m]) ELSE f[m - 1]
        /\ m - 1 \in 0 .. n /\ f[m - 1] \in Seq(S)
    <3>1. m - 1 \in 0 .. n
      BY <1>2
    <3>2. f[m - 1] \in Seq(S)
      BY <1>1, <3>1
    <3> QED
      BY <1>1, <3>1, <3>2 DEF SelectedRun
  <2>2. Range(f[m - 1]) = Chosen(m - 1)
    BY <1>4
  <2>3. 1 .. m = 1 .. (m - 1) \cup {m}
    BY <1>2
  <2>4. CASE m \in T
    <3>1. Chosen(m) = Chosen(m - 1) \cup {s[m]}
      BY <2>3, <2>4
    <3>2. IsSeq(f[m - 1])
      BY <2>1 DEF IsSeq
    <3>3. Range(Append(f[m - 1], s[m])) = Range(f[m - 1]) \cup {s[m]}
      BY <3>2, RangeAppend
    <3>4. m \in 0 .. n
      BY <1>2
    <3> HIDE DEF Chosen, n
    <3> QED
      BY <2>1, <2>2, <2>4, <3>1, <3>3, <3>4
  <2>5. CASE m \notin T
    <3>1. Chosen(m) = Chosen(m - 1)
      BY <2>3, <2>5
    <3> QED
      BY <2>1, <2>2, <2>5, <3>1
  <2> QED
    BY <2>4, <2>5
<1>5. n \in 0 .. n
  BY <1>2
<1> HIDE DEF P
<1>6. n \in P
  BY <1>2, <1>3, <1>4, <1>5, UpTo
<1> QED
  BY <1>1, <1>2, <1>5, <1>6 DEF P
-----------------------------------------------------------------------------
(***************************************************************************)
(* Parsing: what has been read of the source.                              *)
(***************************************************************************)
LineBefore(p) == [i \in 1 .. p |-> Lines[i]]
TextOf(on) ==
  Selected([i \in DOMAIN parts |-> parts[i].text],
           {i \in DOMAIN parts : parts[i].option = None \/ parts[i].option \in on})
KeptUpTo(p, on) ==
  Selected(LineBefore(p), {l \in 1 .. p : Lines[l].is = "sql" /\ InBlock(l) \subseteq on})

WellFormed(l) ==
  /\ Lines[l].is # "else"
  /\ Lines[l].is = "if" => Lines[l].name # None /\ InBlock(l) = {}
  /\ Lines[l].is = "end" => InBlock(l) # {}

NamesUpTo(p) == {Lines[l].name : l \in {i \in 1 .. p : Lines[i].is = "if"}}

\* The first p lines are read.
Parsed(p) ==
  /\ p \in 0 .. Len(Lines) /\ IsSeq(parts)
  /\ \A l \in 1 .. p : WellFormed(l)
  /\ Range(options) = NamesUpTo(p)
  /\ InBlock(p + 1) = IF active = None THEN {} ELSE {active}
  /\ \A l \in 1 .. (p + 1) : InBlock(l) = {} \/ \E o \in Range(options) : InBlock(l) = {o}
  /\ \A on : TextOf(on) = KeptUpTo(p, on)

ParseInv ==
  /\ query \in Queries
  /\ phase = "read" => Parsed(at - 1)
  /\ phase \notin {"read", "refused"} => Parsed(Len(Lines)) /\ active = None

LEMMA QueryType ==
  ASSUME query \in Queries
  PROVE  /\ query \in Query /\ Lines \in Seq(Line) /\ IsSeq(Lines)
         /\ DOMAIN Lines = 1 .. Len(Lines) /\ Len(Lines) \in Nat
         /\ TableChoices \in Seq(TableChoice) /\ IsSeq(TableChoices)
         /\ DOMAIN TableChoices = 1 .. Len(TableChoices) /\ Len(TableChoices) \in Nat
<1>1. query \in Query
  BY QueriesAssumption
<1>2. query.lines \in Seq(Line) /\ query.choices \in Seq(TableChoice)
  BY <1>1 DEF Query
<1> QED
  BY <1>1, <1>2 DEF Lines, TableChoices, IsSeq

LEMMA LineType ==
  ASSUME query \in Queries, NEW l \in DOMAIN Lines
  PROVE  /\ Lines[l] \in Line
         /\ Lines[l].is \in {"sql", "if", "end", "else"}
         /\ Lines[l].is = "sql" => /\ Lines[l].params \subseteq Use
                                   /\ Lines[l].columns \in Seq(Column)
<1>1. Lines[l] \in Line
  BY QueryType
<1> QED
  BY <1>1 DEF Line

\* A line opens or closes a block for those after it.
LEMMA NextBlock ==
  ASSUME query \in Queries, NEW l \in DOMAIN Lines
  PROVE  InBlock(l + 1) = IF Lines[l].is = "end" THEN {}
                          ELSE InBlock(l) \cup IF Lines[l].is = "if" THEN {Lines[l].name} ELSE {}
<1>0. DOMAIN Lines = 1 .. Len(Lines) /\ Len(Lines) \in Nat
  BY QueryType
<1>1. ASSUME NEW j \in DOMAIN Lines
      PROVE  Opens(j, l + 1) <=> /\ Lines[l].is # "end"
                                 /\ Opens(j, l) \/ (j = l /\ Lines[l].is = "if")
  <2>1. CASE j < l
    <3>1. (j + 1) .. ((l + 1) - 1) = (j + 1) .. (l - 1) \cup {l}
      BY <1>0, <2>1
    <3> QED
      BY <1>0, <2>1, <3>1 DEF Opens
  <2>2. CASE j = l
    <3>1. (j + 1) .. ((l + 1) - 1) = {}
      BY <1>0, <2>2
    <3> QED
      BY <1>0, <2>2, <3>1 DEF Opens
  <2>3. CASE j > l
    BY <1>0, <2>3 DEF Opens
  <2> QED
    BY <1>0, <2>1, <2>2, <2>3
<1>2. CASE Lines[l].is = "end"
  BY <1>1, <1>2 DEF InBlock
<1>3. CASE Lines[l].is = "if"
  <2>1. \A j \in DOMAIN Lines : Opens(j, l + 1) <=> Opens(j, l) \/ j = l
    BY <1>1, <1>3
  <2> QED
    BY <1>3, <2>1 DEF InBlock
<1>4. CASE Lines[l].is \notin {"end", "if"}
  <2>1. \A j \in DOMAIN Lines : Opens(j, l + 1) <=> Opens(j, l)
    BY <1>1, <1>4
  <2> QED
    BY <1>4, <2>1 DEF InBlock
<1> QED
  BY <1>2, <1>3, <1>4

LEMMA InitParse == Init => ParseInv
<1> SUFFICES ASSUME Init PROVE ParseInv
  OBVIOUS
<1>1. query \in Queries /\ phase = "read" /\ at - 1 = 0 /\ active = None /\ parts = <<>> /\ options = <<>>
  BY DEF Init
<1>2. Len(Lines) \in Nat /\ 0 \in 0 .. Len(Lines) /\ DOMAIN Lines = 1 .. Len(Lines)
  BY <1>1, QueryType
<1>3. IsSeq(parts) /\ DOMAIN parts = {} /\ DOMAIN options = {}
  <2>1. <<>> \in Seq({}) /\ DOMAIN <<>> = {}
    OBVIOUS
  <2> QED
    BY <1>1, <2>1 DEF IsSeq
<1>4. InBlock(1) = {}
  <2>1. \A j \in DOMAIN Lines : ~Opens(j, 1)
    BY <1>2 DEF Opens
  <2> QED
    BY <2>1 DEF InBlock
<1>5. Range(options) = {} /\ NamesUpTo(0) = {}
  BY <1>3 DEF Range, NamesUpTo
<1>6. ASSUME NEW on PROVE TextOf(on) = KeptUpTo(0, on)
  <2>1. [i \in DOMAIN parts |-> parts[i].text] = <<>>
    BY <1>3
  <2>2. LineBefore(0) = <<>>
    BY DEF LineBefore
  <2> QED
    BY <2>1, <2>2, SelectedEmpty DEF TextOf, KeptUpTo
<1>7. 0 + 1 = 1 /\ \A l \in 1 .. 1 : l = 1
  OBVIOUS
<1>8. \A l \in 1 .. 0 : WellFormed(l)
  OBVIOUS
<1>9. Parsed(0)
  BY <1>1, <1>2, <1>3, <1>4, <1>5, <1>6, <1>7, <1>8 DEF Parsed
<1> QED
  BY <1>1, <1>9 DEF ParseInv

\* One more line in the text, or not.
LEMMA KeptNext ==
  ASSUME query \in Queries, NEW l \in DOMAIN Lines, NEW on
  PROVE  KeptUpTo(l, on) = IF Lines[l].is = "sql" /\ InBlock(l) \subseteq on
                           THEN Append(KeptUpTo(l - 1, on), Lines[l]) ELSE KeptUpTo(l - 1, on)
<1> DEFINE s == LineBefore(l - 1)
           T == {k \in 1 .. (l - 1) : Lines[k].is = "sql" /\ InBlock(k) \subseteq on}
           U == {k \in 1 .. l : Lines[k].is = "sql" /\ InBlock(k) \subseteq on}
<1>1. /\ DOMAIN Lines = 1 .. Len(Lines) /\ Len(Lines) \in Nat
      /\ \A k \in 1 .. Len(Lines) : Lines[k] \in Line
  BY QueryType
<1>2. s \in Seq(Line) /\ Len(s) = l - 1 /\ DOMAIN s = 1 .. (l - 1)
  BY <1>1 DEF LineBefore
<1>3. LineBefore(l) = Append(s, Lines[l])
  <2>1. LineBefore(l) \in Seq(Line) /\ Len(LineBefore(l)) = l
    BY <1>1 DEF LineBefore
  <2>2. Append(s, Lines[l]) \in Seq(Line) /\ Len(Append(s, Lines[l])) = l
    BY <1>1, <1>2
  <2>3. \A i \in 1 .. l : LineBefore(l)[i] = Append(s, Lines[l])[i]
    <3>1. ASSUME NEW i \in 1 .. l PROVE LineBefore(l)[i] = Append(s, Lines[l])[i]
      <4>1. LineBefore(l)[i] = Lines[i]
        BY DEF LineBefore
      <4>2. CASE i = l
        BY <4>1, <4>2, <1>1, <1>2
      <4>3. CASE i # l
        <5>1. i \in 1 .. (l - 1) /\ s[i] = Lines[i]
          BY <4>3, <1>1 DEF LineBefore
        <5> QED
          BY <4>1, <5>1, <1>1, <1>2
      <4> QED
        BY <4>2, <4>3
    <3> QED
      BY <3>1
  <2> QED
    BY <2>1, <2>2, <2>3, SeqEqual
<1>4. \A i \in DOMAIN s : i \in T <=> i \in U
  BY <1>1, <1>2
<1>5. l \in U <=> Lines[l].is = "sql" /\ InBlock(l) \subseteq on
  BY <1>1
<1>6. IsSeq(s)
  BY <1>2 DEF IsSeq
<1>7. (l - 1) + 1 = l
  BY <1>1
<1>8. KeptUpTo(l, on) = Selected(LineBefore(l), U) /\ KeptUpTo(l - 1, on) = Selected(s, T)
  BY Zenon DEF KeptUpTo
<1> HIDE DEF s, T, U
<1>9. Selected(Append(s, Lines[l]), U) =
        IF Len(s) + 1 \in U THEN Append(Selected(s, T), Lines[l]) ELSE Selected(s, T)
  BY <1>4, <1>6, SelectedAppend
<1> QED
  BY <1>2, <1>3, <1>5, <1>7, <1>8, <1>9

\* Reading one more line.
LEMMA ReadMore ==
  ASSUME query \in Queries, NEW l, Parsed(l - 1), l \in DOMAIN Lines, OptionsInv,
         ~Malformed(Lines[l]), UNCHANGED query,
         active' = CASE Lines[l].is = "if" -> Lines[l].name [] Lines[l].is = "end" -> None [] OTHER -> active,
         parts' = IF Lines[l].is = "sql" THEN Append(parts, [option |-> active, text |-> Lines[l]]) ELSE parts,
         options' = IF Lines[l].is = "if" /\ Lines[l].name \notin Range(options)
                    THEN Append(options, Lines[l].name) ELSE options
  PROVE  Parsed(l)'
<1> DEFINE line == Lines[l]
<1>0. /\ DOMAIN Lines = 1 .. Len(Lines) /\ Len(Lines) \in Nat /\ l \in 1 .. Len(Lines)
      /\ line \in Line /\ line.is \in {"sql", "if", "end", "else"}
      /\ (l - 1) + 1 = l
  BY QueryType, LineType
<1>1. Lines' = Lines
  BY DEF Lines
<1>2. \A k : InBlock(k)' = InBlock(k)
  BY <1>1 DEF InBlock, Opens
<1>3. \A k : WellFormed(k)' <=> WellFormed(k)
  BY <1>1, <1>2 DEF WellFormed
<1>4. InBlock(l) = (IF active = None THEN {} ELSE {active}) /\ IsSeq(parts) /\ Range(options) = NamesUpTo(l - 1)
  BY <1>0 DEF Parsed
<1>5. WellFormed(l)
  BY <1>0, <1>4 DEF Malformed, WellFormed
<1>6. \A k \in 1 .. l : WellFormed(k)
  <2>1. \A k \in 1 .. l : k = l \/ k \in 1 .. (l - 1)
    BY <1>0
  <2> QED
    BY <1>5, <2>1 DEF Parsed
<1>7. InBlock(l + 1) = IF active' = None THEN {} ELSE {active'}
  <2>1. InBlock(l + 1) = IF line.is = "end" THEN {}
                         ELSE InBlock(l) \cup IF line.is = "if" THEN {line.name} ELSE {}
    BY NextBlock
  <2>2. CASE line.is = "if"
    BY <1>4, <1>5, <2>1, <2>2 DEF WellFormed
  <2>3. CASE line.is = "end"
    BY <2>1, <2>3
  <2>4. CASE line.is \notin {"if", "end"}
    BY <1>4, <2>1, <2>4
  <2> QED
    BY <2>2, <2>3, <2>4
<1>8. Range(options') = NamesUpTo(l)
  <2>1. NamesUpTo(l) = NamesUpTo(l - 1) \cup IF line.is = "if" THEN {line.name} ELSE {}
    <3>1. 1 .. l = 1 .. (l - 1) \cup {l}
      BY <1>0
    <3> QED
      BY <3>1 DEF NamesUpTo
  <2>2. CASE line.is = "if" /\ line.name \notin Range(options)
    <3>1. options' = Append(options, line.name)
      BY <2>2
    <3>2. Range(options') = Range(options) \cup {line.name}
      BY <3>1, RangeAppend DEF OptionsInv
    <3> QED
      BY <2>1, <2>2, <3>2, <1>4
  <2>3. CASE ~(line.is = "if" /\ line.name \notin Range(options))
    <3>1. options' = options
      BY <2>3
    <3> QED
      BY <2>1, <2>3, <3>1, <1>4
  <2> QED
    BY <2>2, <2>3
<1>9. NamesUpTo(l)' = NamesUpTo(l)
  BY <1>1 DEF NamesUpTo
<1>10. \A k \in 1 .. (l + 1) : InBlock(k) = {} \/ \E o \in Range(options') : InBlock(k) = {o}
  <2>1. Range(options) \subseteq Range(options')
    <3>1. NamesUpTo(l - 1) \subseteq NamesUpTo(l)
      BY <1>0 DEF NamesUpTo
    <3> QED
      BY <3>1, <1>4, <1>8
  <2>2. \A k \in 1 .. (l + 1) : k = l + 1 \/ k \in 1 .. ((l - 1) + 1)
    BY <1>0
  <2>3. \A k \in 1 .. ((l - 1) + 1) : InBlock(k) = {} \/ \E o \in Range(options) : InBlock(k) = {o}
    BY DEF Parsed
  <2>4. InBlock(l + 1) = {} \/ \E o \in Range(options') : InBlock(l + 1) = {o}
    <3>1. CASE line.is = "if"
      <4>1. line.name \in NamesUpTo(l)
        BY <3>1, <1>0 DEF NamesUpTo
      <4> QED
        BY <4>1, <3>1, <1>7, <1>8
    <3>2. CASE line.is = "end"
      BY <3>2, <1>7
    <3>3. CASE line.is \notin {"if", "end"}
      <4>1. active' = active
        BY <3>3
      <4>2. InBlock(l) = {} \/ \E o \in Range(options) : InBlock(l) = {o}
        <5>1. l \in 1 .. ((l - 1) + 1)
          BY <1>0
        <5> QED
          BY <5>1, <2>3
      <4> QED
        BY <4>1, <4>2, <2>1, <1>4, <1>7
    <3> QED
      BY <3>1, <3>2, <3>3
  <2> QED
    BY <2>1, <2>2, <2>3, <2>4
<1>11. IsSeq(parts')
  BY <1>4, AppendFacts
<1>12. ASSUME NEW on PROVE TextOf(on)' = KeptUpTo(l, on)
  <2> DEFINE s == [i \in DOMAIN parts |-> parts[i].text]
             T == {i \in DOMAIN parts : parts[i].option = None \/ parts[i].option \in on}
             part == [option |-> active, text |-> line]
  <2>1. TextOf(on) = Selected(s, T) /\ TextOf(on) = KeptUpTo(l - 1, on)
    BY Zenon DEF TextOf, Parsed
  <2>2. KeptUpTo(l, on) = IF line.is = "sql" /\ InBlock(l) \subseteq on
                          THEN Append(KeptUpTo(l - 1, on), line) ELSE KeptUpTo(l - 1, on)
    BY KeptNext
  <2>3. CASE line.is # "sql"
    <3>1. parts' = parts
      BY <2>3
    <3>2. TextOf(on)' = TextOf(on)
      BY <3>1 DEF TextOf
    <3> QED
      BY <2>1, <2>2, <2>3, <3>2
  <2>4. CASE line.is = "sql"
    <3>1. parts' = Append(parts, part)
      BY <2>4
    <3> DEFINE more == Append(parts, part)
               t == [i \in DOMAIN more |-> more[i].text]
               U == {i \in DOMAIN more : more[i].option = None \/ more[i].option \in on}
               n == Len(parts)
    <3>2. /\ DOMAIN more = 1 .. (n + 1) /\ DOMAIN parts = 1 .. n /\ n \in Nat
          /\ \A i \in 1 .. n : more[i] = parts[i]
          /\ more[n + 1] = part
      BY <1>4, AppendFacts
    <3>3. TextOf(on)' = Selected(t, U)
      BY <3>1 DEF TextOf
    <3>4. DOMAIN s = 1 .. n /\ DOMAIN t = 1 .. (n + 1) /\ \A i \in 1 .. n : t[i] = s[i]
      <4> HIDE DEF more, n
      <4> QED
        BY <3>2
    <3>5. t[n + 1] = line
      <4> HIDE DEF more, n
      <4>1. n + 1 \in DOMAIN more /\ more[n + 1].text = line
        BY <3>2
      <4> QED
        BY <4>1
    <3>6. \A i \in DOMAIN s : i \in T <=> i \in U
      <4> HIDE DEF more, n
      <4> QED
        BY <3>2
    <3>7. n + 1 \in U <=> InBlock(l) \subseteq on
      <4> HIDE DEF more, n
      <4>1. n + 1 \in DOMAIN more /\ more[n + 1].option = active
        BY <3>2
      <4>2. n + 1 \in U <=> active = None \/ active \in on
        BY <4>1
      <4> QED
        BY <4>2, <1>4
    <3>8. IsSeq(s) /\ Len(s) = n /\ t = Append(s, line)
      <4> DEFINE S == {s[i] : i \in 1 .. n} \cup {line}
      <4>1. s \in Seq(S) /\ Len(s) = n
        <5> HIDE DEF s, n
        <5>1. s = [i \in 1 .. n |-> s[i]]
          BY <3>4 DEF s
        <5> QED
          BY <5>1, <3>2
      <4>2. t \in Seq(S) /\ Len(t) = n + 1
        <5>1. t = [i \in 1 .. (n + 1) |-> t[i]]
          BY <3>4 DEF t
        <5>2. \A i \in 1 .. (n + 1) : t[i] \in S
          <6>1. \A i \in 1 .. (n + 1) : i = n + 1 \/ i \in 1 .. n
            BY <3>2
          <6> HIDE DEF s, t, n
          <6> QED
            BY <6>1, <3>4, <3>5
        <5> HIDE DEF s, t, n, S
        <5> QED
          BY <5>1, <5>2, <3>2
      <4>3. Append(s, line) \in Seq(S) /\ Len(Append(s, line)) = n + 1
            /\ Append(s, line)[n + 1] = line /\ \A i \in 1 .. n : Append(s, line)[i] = s[i]
        <5>1. line \in S
          OBVIOUS
        <5> HIDE DEF s, n, S, line
        <5> QED
          BY <5>1, <4>1, <3>2
      <4>4. \A i \in 1 .. (n + 1) : t[i] = Append(s, line)[i]
        <5>1. \A i \in 1 .. (n + 1) : i = n + 1 \/ i \in 1 .. n
          BY <3>2
        <5> HIDE DEF s, t, n, line
        <5> QED
          BY <5>1, <4>3, <3>4, <3>5
      <4> HIDE DEF s, t, n, S, line
      <4>5. t = Append(s, line)
        BY <4>2, <4>3, <4>4, SeqEqual
      <4> QED
        BY <4>1, <4>5 DEF IsSeq
    <3> HIDE DEF s, T, t, U, n, line
    <3>9. Selected(Append(s, line), U) =
            IF Len(s) + 1 \in U THEN Append(Selected(s, T), line) ELSE Selected(s, T)
      BY <3>6, <3>8, SelectedAppend
    <3> QED
      BY <2>1, <2>2, <2>4, <3>3, <3>7, <3>8, <3>9
  <2> QED
    BY <2>3, <2>4
<1>13. \A on : KeptUpTo(l, on)' = KeptUpTo(l, on)
  <2>1. LineBefore(l)' = LineBefore(l)
    BY <1>1 DEF LineBefore
  <2>2. \A on : {k \in 1 .. l : Lines[k].is = "sql" /\ InBlock(k) \subseteq on}'
                = {k \in 1 .. l : Lines[k].is = "sql" /\ InBlock(k) \subseteq on}
    BY <1>1, <1>2
  <2> QED
    BY <2>1, <2>2 DEF KeptUpTo
<1>14. l \in 0 .. Len(Lines')
  BY <1>0, <1>1
<1>15. \A k \in 1 .. l : WellFormed(k)'
  BY <1>3, <1>6
<1>16. Range(options') = NamesUpTo(l)'
  BY <1>8, <1>9
<1>17. InBlock(l + 1)' = IF active' = None THEN {} ELSE {active'}
  BY <1>2, <1>7
<1>18. \A k \in 1 .. (l + 1) : InBlock(k)' = {} \/ \E o \in Range(options') : InBlock(k)' = {o}
  BY <1>2, <1>10
<1>19. \A on : TextOf(on)' = KeptUpTo(l, on)'
  <2>1. ASSUME NEW on PROVE TextOf(on)' = KeptUpTo(l, on)'
    <3>1. TextOf(on)' = KeptUpTo(l, on)
      BY <1>12
    <3>2. KeptUpTo(l, on)' = KeptUpTo(l, on)
      BY <1>13
    <3> QED
      BY <3>1, <3>2
  <2> QED
    BY <2>1
<1> QED
  BY <1>11, <1>14, <1>15, <1>16, <1>17, <1>18, <1>19 DEF Parsed

LEMMA ParsedKept ==
  ASSUME UNCHANGED <<query, parsing>>, NEW p, Parsed(p)
  PROVE  Parsed(p)'
<1>1. Lines' = Lines /\ active' = active /\ parts' = parts /\ options' = options
  BY DEF Lines, parsing
<1>2. \A k : InBlock(k)' = InBlock(k)
  BY <1>1 DEF InBlock, Opens
<1>3. \A k : WellFormed(k)' <=> WellFormed(k)
  BY <1>1, <1>2 DEF WellFormed
<1>4. NamesUpTo(p)' = NamesUpTo(p)
  BY <1>1 DEF NamesUpTo
<1>5. \A on : TextOf(on)' = TextOf(on)
  BY <1>1 DEF TextOf
<1>6. \A on : KeptUpTo(p, on)' = KeptUpTo(p, on)
  <2>1. LineBefore(p)' = LineBefore(p)
    BY <1>1 DEF LineBefore
  <2>2. \A on : {k \in 1 .. p : Lines[k].is = "sql" /\ InBlock(k) \subseteq on}'
                = {k \in 1 .. p : Lines[k].is = "sql" /\ InBlock(k) \subseteq on}
    BY <1>1, <1>2
  <2> QED
    BY <2>1, <2>2 DEF KeptUpTo
<1>7. p \in 0 .. Len(Lines') /\ IsSeq(parts')
  BY <1>1 DEF Parsed
<1>8. \A l \in 1 .. p : WellFormed(l)'
  BY <1>3 DEF Parsed
<1>9. Range(options') = NamesUpTo(p)'
  BY <1>1, <1>4 DEF Parsed
<1>10. InBlock(p + 1)' = IF active' = None THEN {} ELSE {active'}
  BY <1>1, <1>2 DEF Parsed
<1>11. \A l \in 1 .. (p + 1) : InBlock(l)' = {} \/ \E o \in Range(options') : InBlock(l)' = {o}
  BY <1>1, <1>2 DEF Parsed
<1>12. \A on : TextOf(on)' = KeptUpTo(p, on)'
  <2>1. ASSUME NEW on PROVE TextOf(on)' = KeptUpTo(p, on)'
    <3>1. TextOf(on)' = TextOf(on) /\ KeptUpTo(p, on)' = KeptUpTo(p, on)
      BY <1>5, <1>6
    <3>2. TextOf(on) = KeptUpTo(p, on)
      BY DEF Parsed
    <3> QED
      BY <3>1, <3>2
  <2> QED
    BY <2>1
<1> QED
  BY <1>7, <1>8, <1>9, <1>10, <1>11, <1>12 DEF Parsed

LEMMA ReadLineParse ==
  ASSUME ParseInv, CompositionInv, ReadLine
  PROVE  ParseInv' /\ (phase' = "refused" => IllFormed)
<1>1. PICK l : l = at
  OBVIOUS
<1>2. /\ phase = "read" /\ query \in Queries /\ query' = query /\ Parsed(l - 1)
      /\ l \in Nat \ {0} /\ l <= Len(Lines)
      /\ DOMAIN Lines = 1 .. Len(Lines) /\ Len(Lines) \in Nat /\ Lines = query.lines
  <2>1. query \in Queries /\ phase = "read"
    BY DEF ParseInv, ReadLine
  <2> QED
    BY <1>1, <2>1, QueryType DEF ParseInv, ReadLine, Refuse, CompositionInv, VariantsInv, Lines
<1>3. l \in DOMAIN Lines /\ (l - 1) + 1 = l
  BY <1>2
<1>4. CASE phase' = "refused"
  <2>1. Malformed(Lines[l])
    BY <1>1, <1>2, <1>4 DEF ReadLine, Refuse
  <2>2. InBlock(l) = IF active = None THEN {} ELSE {active}
    BY <1>2, <1>3 DEF Parsed
  <2>3. IllFormed
    BY <1>3, <2>1, <2>2 DEF IllFormed, Malformed
  <2> QED
    BY <1>2, <1>4, <2>3 DEF ParseInv
<1>5. CASE phase' # "refused"
  <2> DEFINE line == Lines[l]
  <2>1. /\ ~Malformed(line) /\ at' = l + 1 /\ phase' = "read"
        /\ active' = CASE line.is = "if" -> line.name [] line.is = "end" -> None [] OTHER -> active
        /\ parts' = IF line.is = "sql" THEN Append(parts, [option |-> active, text |-> line]) ELSE parts
        /\ options' = IF line.is = "if" /\ line.name \notin Range(options)
                      THEN Append(options, line.name) ELSE options
    BY <1>1, <1>2, <1>5 DEF ReadLine, Refuse
  <2>2. Parsed(l)'
    BY <1>2, <1>3, <2>1, ReadMore DEF CompositionInv
  <2>3. at' - 1 = l
    BY <1>2, <2>1
  <2>4. Parsed(at - 1)'
    BY <2>2, <2>3 DEF Parsed
  <2> QED
    BY <1>2, <1>5, <2>1, <2>4 DEF ParseInv
<1> QED
  BY <1>4, <1>5

LEMMA EndLinesParse ==
  ASSUME ParseInv, CompositionInv, EndLines
  PROVE  ParseInv' /\ (phase' = "refused" => IllFormed)
<1>1. /\ phase = "read" /\ query \in Queries /\ Parsed(at - 1) /\ at \in Nat \ {0}
      /\ at > Len(Lines) /\ UNCHANGED <<query, parsing>>
      /\ DOMAIN Lines = 1 .. Len(Lines) /\ Len(Lines) \in Nat
  <2>1. query \in Queries /\ phase = "read"
    BY DEF ParseInv, EndLines
  <2> QED
    BY <2>1, QueryType DEF ParseInv, EndLines, Refuse, CompositionInv, VariantsInv, Lines
<1>2. PICK n : n = Len(Lines)
  OBVIOUS
<1>3. at - 1 = n /\ Parsed(n)
  <2>1. at - 1 \in 0 .. n
    BY <1>1, <1>2 DEF Parsed
  <2>2. at - 1 = n
    BY <1>1, <1>2, <2>1
  <2> QED
    BY <1>1, <2>2
<1>4. Parsed(n)' /\ Len(Lines)' = n
  BY <1>1, <1>2, <1>3, ParsedKept DEF Lines
<1>5. CASE phase' = "refused"
  <2>1. active # None
    BY <1>1, <1>5 DEF EndLines, Enter
  <2>2. InBlock(n + 1) # {}
    BY <1>3, <2>1 DEF Parsed
  <2> QED
    BY <1>1, <1>2, <1>5, <2>2 DEF IllFormed, ParseInv
<1>6. CASE phase' # "refused"
  <2>1. active' = None /\ phase' = "count"
    BY <1>1, <1>6 DEF EndLines, Refuse, Enter, parsing
  <2>2. Parsed(Len(Lines))'
    BY <1>4 DEF Parsed
  <2> QED
    BY <1>1, <2>1, <2>2 DEF ParseInv
<1> QED
  BY <1>5, <1>6

LEMMA ParseKept ==
  ASSUME ParseInv, UNCHANGED <<query, parsing>>, phase' # "read" \/ UNCHANGED <<phase, at>>,
         phase = "read" => phase' \in {"read", "refused"},
         phase = "refused" => phase' = "refused"
  PROVE  ParseInv'
<1>1. query' \in Queries /\ active' = active
  BY DEF ParseInv, parsing
<1>2. CASE phase = "read" /\ phase' = "read"
  <2>1. PICK p : p = at - 1
    OBVIOUS
  <2>2. at' - 1 = p /\ Parsed(p)
    BY <1>2, <2>1 DEF ParseInv
  <2>3. Parsed(p)'
    BY <2>2, ParsedKept
  <2>4. Parsed(at - 1)'
    BY <2>2, <2>3 DEF Parsed
  <2> QED
    BY <1>1, <1>2, <2>4 DEF ParseInv
<1>3. CASE phase \notin {"read", "refused"}
  <2>1. PICK p : p = Len(Lines)
    OBVIOUS
  <2>2. Parsed(p) /\ active = None
    BY <1>3, <2>1 DEF ParseInv
  <2>3. Parsed(p)' /\ Len(Lines)' = p
    BY <2>1, <2>2, ParsedKept DEF Lines
  <2>4. Parsed(Len(Lines))'
    BY <2>3 DEF Parsed
  <2> QED
    BY <1>1, <1>3, <2>2, <2>4 DEF ParseInv
<1>4. CASE phase' = "refused"
  BY <1>1, <1>4 DEF ParseInv
<1> QED
  BY <1>2, <1>3, <1>4

LEMMA NextParse ==
  ASSUME ParseInv, CompositionInv, [Next]_vars
  PROVE  ParseInv' /\ (phase # "refused" /\ phase' = "refused" /\ phase = "read" => IllFormed)
<1>1. CASE ReadLine
  BY <1>1, ReadLineParse
<1>2. CASE EndLines
  BY <1>2, EndLinesParse
<1>3. CASE CountVariants
  BY <1>3, ParseKept DEF CountVariants, Refuse, Enter
<1>4. CASE ResolveVariant
  BY <1>4, ParseKept DEF ResolveVariant, Refuse
<1>5. CASE EndResolve
  BY <1>5, ParseKept DEF EndResolve, Refuse, Enter
<1>6. CASE DescribeVariant
  BY <1>6, ParseKept DEF DescribeVariant, Refuse
<1>7. CASE EndDescribe
  BY <1>7, ParseKept DEF EndDescribe, Refuse, Enter
<1>8. CASE MergeVariant
  BY <1>8, ParseKept DEF MergeVariant, Refuse
<1>9. CASE EndMerge
  BY <1>9, ParseKept DEF EndMerge, Refuse, Enter
<1>10. CASE Upgrade
  BY <1>10, ParseKept DEF Upgrade
<1>11. CASE UNCHANGED vars
  BY <1>11, ParseKept DEF vars
<1> QED
  BY <1>1, <1>2, <1>3, <1>4, <1>5, <1>6, <1>7, <1>8, <1>9, <1>10, <1>11 DEF Next
-----------------------------------------------------------------------------
(***************************************************************************)
(* Counting: a call is its digits, one for each option and table choice.   *)
(***************************************************************************)
Digits == Len(options) + Len(TableChoices)
Radix == [j \in 1 .. Digits |-> IF j <= Len(options) THEN 2 ELSE Len(TableChoices[j - Len(options)].tables)]
Numbers == Numerals(Digits, Radix)
OnOf(d) == {options[i] : i \in {j \in DOMAIN options : d[j] = 1}}
ChoiceOf(n) == CHOOSE i \in DOMAIN TableChoices : TableChoices[i].name = n
TablesBy(d) == [n \in ChoiceNames |-> TableChoices[ChoiceOf(n)].tables[d[Len(options) + ChoiceOf(n)] + 1]]
CallBy(d) == [on |-> OnOf(d), tables |-> TablesBy(d)]

\* What parsing leaves to be counted.
Counted == query \in Queries /\ OptionsInv /\ Range(options) = OptionNames /\ ~SharedName

LEMMA ChoiceType ==
  ASSUME query \in Queries, NEW i \in DOMAIN TableChoices
  PROVE  /\ TableChoices[i].name \in STRING /\ TableChoices[i].tables \in Seq(STRING)
         /\ Len(TableChoices[i].tables) \in Nat \ {0}
         /\ DOMAIN TableChoices[i].tables = 1 .. Len(TableChoices[i].tables)
         /\ IsInjective(TableChoices[i].tables)
<1>1. TableChoices[i] \in TableChoice
  BY QueryType
<1>2. TableChoices[i].tables # <<>> /\ IsInjective(TableChoices[i].tables)
  BY QueriesAssumption DEF TableChoices
<1>3. TableChoices[i].name \in STRING /\ TableChoices[i].tables \in Seq(STRING)
  BY <1>1 DEF TableChoice
<1>4. Len(TableChoices[i].tables) \in Nat \ {0}
  BY <1>2, <1>3
<1> QED
  BY <1>2, <1>3, <1>4

LEMMA ChoiceIs ==
  ASSUME Counted
  PROVE  /\ \A i \in DOMAIN TableChoices : TableChoices[i].name \in ChoiceNames /\ ChoiceOf(TableChoices[i].name) = i
         /\ \A n \in ChoiceNames : ChoiceOf(n) \in DOMAIN TableChoices /\ TableChoices[ChoiceOf(n)].name = n
<1>1. \A i, j \in DOMAIN TableChoices : TableChoices[i].name = TableChoices[j].name => i = j
  BY DEF Counted, SharedName
<1>2. \A n \in ChoiceNames : ChoiceOf(n) \in DOMAIN TableChoices /\ TableChoices[ChoiceOf(n)].name = n
  <2>1. ASSUME NEW n \in ChoiceNames
        PROVE  ChoiceOf(n) \in DOMAIN TableChoices /\ TableChoices[ChoiceOf(n)].name = n
    <3>1. \E i \in DOMAIN TableChoices : TableChoices[i].name = n
      BY DEF ChoiceNames
    <3> QED
      BY <3>1 DEF ChoiceOf
  <2> QED
    BY <2>1
<1>3. \A i \in DOMAIN TableChoices : TableChoices[i].name \in ChoiceNames
  BY DEF ChoiceNames
<1> QED
  BY <1>1, <1>2, <1>3

LEMMA RadixType ==
  ASSUME Counted
  PROVE  /\ Len(options) \in Nat /\ DOMAIN options = 1 .. Len(options)
         /\ Len(TableChoices) \in Nat /\ DOMAIN TableChoices = 1 .. Len(TableChoices)
         /\ Digits \in Nat /\ Radix \in [1 .. Digits -> Nat \ {0}]
         /\ \A i \in DOMAIN options : i \in 1 .. Digits /\ Radix[i] = 2
         /\ \A i \in DOMAIN TableChoices :
              Len(options) + i \in 1 .. Digits /\ Radix[Len(options) + i] = Len(TableChoices[i].tables)
<1> DEFINE n == Len(options)
           k == Len(TableChoices)
<1>1. n \in Nat /\ DOMAIN options = 1 .. n /\ k \in Nat /\ DOMAIN TableChoices = 1 .. k
  BY QueryType, SeqDomain DEF Counted, OptionsInv
<1>2. \A i \in 1 .. k : Len(TableChoices[i].tables) \in Nat \ {0}
  BY <1>1, ChoiceType DEF Counted
<1>3. Digits = n + k
  BY DEF Digits
<1> HIDE DEF n, k
<1>4. Digits \in Nat
  BY <1>1, <1>3
<1>5. Radix = [j \in 1 .. Digits |-> IF j <= n THEN 2 ELSE Len(TableChoices[j - n].tables)]
  BY DEF Radix, n
<1>6. ASSUME NEW j \in 1 .. Digits PROVE Radix[j] \in Nat \ {0}
  <2>1. CASE j <= n
    BY <1>5, <2>1
  <2>2. CASE ~(j <= n)
    <3>1. j - n \in 1 .. k
      BY <1>1, <1>3, <2>2
    <3> QED
      BY <1>2, <1>5, <2>2, <3>1
  <2> QED
    BY <2>1, <2>2
<1>7. Radix \in [1 .. Digits -> Nat \ {0}]
  BY <1>5, <1>6
<1>8. \A i \in DOMAIN options : i \in 1 .. Digits /\ Radix[i] = 2
  BY <1>1, <1>3, <1>5
<1>9. ASSUME NEW i \in DOMAIN TableChoices
      PROVE  n + i \in 1 .. Digits /\ Radix[n + i] = Len(TableChoices[i].tables)
  <2>1. n + i \in 1 .. Digits /\ ~(n + i <= n) /\ (n + i) - n = i
    BY <1>1, <1>3
  <2> QED
    BY <1>5, <2>1
<1> QED
  BY <1>1, <1>4, <1>7, <1>8, <1>9 DEF n, k

LEMMA TableAt ==
  ASSUME Counted, NEW d \in Numbers, NEW i \in DOMAIN TableChoices
  PROVE  /\ d[Len(options) + i] + 1 \in DOMAIN TableChoices[i].tables
         /\ TablesBy(d)[TableChoices[i].name] = TableChoices[i].tables[d[Len(options) + i] + 1]
<1>1. Len(options) + i \in 1 .. Digits /\ Radix[Len(options) + i] = Len(TableChoices[i].tables)
  BY RadixType
<1> DEFINE v == d[Len(options) + i]
           t == TableChoices[i].tables
<1>2. v \in Nat /\ v < Len(t)
  BY <1>1 DEF Numbers, Numerals
<1>3. DOMAIN t = 1 .. Len(t) /\ Len(t) \in Nat
  BY ChoiceType DEF Counted
<1>4. v + 1 \in DOMAIN t
  <2> HIDE DEF v, t
  <2> QED
    BY <1>2, <1>3
<1>5. TableChoices[i].name \in ChoiceNames /\ ChoiceOf(TableChoices[i].name) = i
  BY ChoiceIs
<1> QED
  BY <1>4, <1>5 DEF TablesBy

LEMMA CallByCalls ==
  ASSUME Counted, NEW d \in Numbers
  PROVE  CallBy(d) \in Calls
<1>1. OnOf(d) \subseteq OptionNames
  BY DEF OnOf, Counted, Range
<1>2. ASSUME NEW n \in ChoiceNames
      PROVE  TablesBy(d)[n] \in TablesOf(n) /\ TablesBy(d)[n] \in UNION {Range(TableChoices[i].tables) : i \in DOMAIN TableChoices}
  <2>1. PICK i \in DOMAIN TableChoices : TableChoices[i].name = n
    BY DEF ChoiceNames
  <2>2. TablesBy(d)[n] \in Range(TableChoices[i].tables)
    BY <2>1, TableAt DEF Range
  <2> QED
    BY <2>1, <2>2 DEF TablesOf
<1>3. TablesBy(d) \in Selections
  <2>1. TablesBy(d) = [n \in ChoiceNames |-> TablesBy(d)[n]]
    BY DEF TablesBy
  <2> QED
    BY <1>2, <2>1 DEF Selections
<1> QED
  BY <1>1, <1>3 DEF CallBy, Calls

LEMMA CallByInjective ==
  ASSUME Counted, NEW d \in Numbers, NEW e \in Numbers, CallBy(d) = CallBy(e)
  PROVE  d = e
<1>0. d = [j \in 1 .. Digits |-> d[j]] /\ e = [j \in 1 .. Digits |-> e[j]]
  BY DEF Numbers, Numerals
<1>1. OnOf(d) = OnOf(e) /\ TablesBy(d) = TablesBy(e)
  BY DEF CallBy
<1>2. ASSUME NEW i \in DOMAIN options PROVE d[i] = e[i]
  <2>1. i \in 1 .. Digits /\ Radix[i] = 2
    BY RadixType
  <2>2. d[i] \in {0, 1} /\ e[i] \in {0, 1}
    BY <2>1 DEF Numbers, Numerals
  <2>3. \A j \in DOMAIN options : options[i] = options[j] => i = j
    BY DEF Counted, OptionsInv
  <2>4. options[i] \in OnOf(d) <=> d[i] = 1
    BY <2>3 DEF OnOf
  <2>5. options[i] \in OnOf(e) <=> e[i] = 1
    BY <2>3 DEF OnOf
  <2> QED
    BY <1>1, <2>2, <2>4, <2>5
<1>3. ASSUME NEW i \in DOMAIN TableChoices PROVE d[Len(options) + i] = e[Len(options) + i]
  <2> DEFINE t == TableChoices[i].tables
             v == d[Len(options) + i]
             w == e[Len(options) + i]
  <2>1. v + 1 \in DOMAIN t /\ w + 1 \in DOMAIN t /\ t[v + 1] = t[w + 1]
    BY <1>1, TableAt
  <2>2. IsInjective(t)
    BY ChoiceType DEF Counted
  <2>3. v + 1 = w + 1
    <3> HIDE DEF t, v, w
    <3> QED
      BY <2>1, <2>2 DEF IsInjective
  <2>4. v \in Nat /\ w \in Nat
    BY RadixType DEF Numbers, Numerals
  <2> HIDE DEF v, w
  <2>5. v = w
    BY <2>3, <2>4
  <2> QED
    BY <2>5 DEF v, w
<1>4. ASSUME NEW j \in 1 .. Digits PROVE d[j] = e[j]
  <2>1. j \in DOMAIN options \/ \E i \in DOMAIN TableChoices : j = Len(options) + i
    <3>1. CASE j <= Len(options)
      BY <3>1, RadixType
    <3>2. CASE ~(j <= Len(options))
      <4>1. j - Len(options) \in DOMAIN TableChoices /\ j = Len(options) + (j - Len(options))
        BY <3>2, RadixType DEF Digits
      <4> QED
        BY <4>1
    <3> QED
      BY <3>1, <3>2
  <2> QED
    BY <1>2, <1>3, <2>1
<1> QED
  BY <1>0, <1>4

LEMMA CallByOnto ==
  ASSUME Counted, NEW call \in Calls
  PROVE  \E d \in Numbers : CallBy(d) = call
<1> DEFINE n == Len(options)
           Place(i) == CHOOSE p \in DOMAIN TableChoices[i].tables :
                         TableChoices[i].tables[p] = call.tables[TableChoices[i].name]
           d == [j \in 1 .. Digits |-> IF j <= n THEN (IF options[j] \in call.on THEN 1 ELSE 0) ELSE Place(j - n) - 1]
<1>1. /\ call.on \subseteq OptionNames /\ call.tables \in Selections /\ DOMAIN call.tables = ChoiceNames
      /\ call = [on |-> call.on, tables |-> call.tables]
      /\ \A m \in ChoiceNames : call.tables[m] \in TablesOf(m)
  BY DEF Calls, Selections
<1>2. /\ n \in Nat /\ DOMAIN options = 1 .. n /\ Digits \in Nat /\ Digits = n + Len(TableChoices)
      /\ DOMAIN TableChoices = 1 .. Len(TableChoices) /\ Len(TableChoices) \in Nat
      /\ \A i \in DOMAIN options : i \in 1 .. Digits /\ Radix[i] = 2
      /\ \A i \in DOMAIN TableChoices : n + i \in 1 .. Digits /\ Radix[n + i] = Len(TableChoices[i].tables)
  BY RadixType DEF Digits
<1>3. ASSUME NEW i \in DOMAIN TableChoices
      PROVE  /\ Place(i) \in 1 .. Len(TableChoices[i].tables) /\ Len(TableChoices[i].tables) \in Nat
             /\ TableChoices[i].tables[Place(i)] = call.tables[TableChoices[i].name]
  <2>1. TableChoices[i].name \in ChoiceNames
    BY ChoiceIs
  <2>2. call.tables[TableChoices[i].name] \in TablesOf(TableChoices[i].name)
    BY <1>1, <2>1
  <2>3. PICK j \in DOMAIN TableChoices : TableChoices[j].name = TableChoices[i].name
                                          /\ call.tables[TableChoices[i].name] \in Range(TableChoices[j].tables)
    BY <2>2 DEF TablesOf
  <2>4. i = j
    BY <2>3 DEF Counted, SharedName
  <2>5. \E p \in DOMAIN TableChoices[i].tables : TableChoices[i].tables[p] = call.tables[TableChoices[i].name]
    BY <2>3, <2>4 DEF Range
  <2>6. DOMAIN TableChoices[i].tables = 1 .. Len(TableChoices[i].tables) /\ Len(TableChoices[i].tables) \in Nat
    BY ChoiceType DEF Counted
  <2> QED
    BY <2>5, <2>6
<1> HIDE DEF n, Place
<1>4. \A i \in DOMAIN options : d[i] = IF options[i] \in call.on THEN 1 ELSE 0
  BY <1>2
<1>5. ASSUME NEW i \in DOMAIN TableChoices PROVE d[n + i] = Place(i) - 1
  <2>1. ~(n + i <= n) /\ (n + i) - n = i /\ n + i \in 1 .. Digits
    BY <1>2
  <2> QED
    BY <2>1
<1>6. ASSUME NEW j \in 1 .. Digits PROVE d[j] \in Nat /\ d[j] < Radix[j]
  <2>1. CASE j \in DOMAIN options
    BY <2>1, <1>2, <1>4
  <2>2. ASSUME NEW i \in DOMAIN TableChoices, j = n + i PROVE d[j] \in Nat /\ d[j] < Radix[j]
    <3>1. d[j] = Place(i) - 1 /\ Radix[j] = Len(TableChoices[i].tables)
      BY <2>2, <1>2, <1>5
    <3> HIDE DEF d
    <3> QED
      BY <3>1, <1>3
  <2>3. j \in DOMAIN options \/ \E i \in DOMAIN TableChoices : j = n + i
    <3>1. CASE j <= n
      BY <3>1, <1>2
    <3>2. CASE ~(j <= n)
      <4>1. j - n \in DOMAIN TableChoices /\ j = n + (j - n)
        BY <3>2, <1>2
      <4> QED
        BY <4>1
    <3> QED
      BY <3>1, <3>2
  <2> QED
    BY <2>1, <2>2, <2>3
<1>7. d = [j \in 1 .. Digits |-> d[j]]
  OBVIOUS
<1> HIDE DEF d
<1>8. d \in Numbers
  BY <1>6, <1>7 DEF Numbers, Numerals
<1>9. OnOf(d) = call.on
  <2>1. OnOf(d) = {options[i] : i \in {j \in DOMAIN options : options[j] \in call.on}}
    BY <1>4 DEF OnOf
  <2>2. call.on \subseteq Range(options)
    BY <1>1 DEF Counted
  <2> QED
    BY <2>1, <2>2 DEF Range
<1>10. TablesBy(d) = call.tables
  <2>1. ASSUME NEW m \in ChoiceNames PROVE TablesBy(d)[m] = call.tables[m]
    <3>1. PICK i \in DOMAIN TableChoices : TableChoices[i].name = m
      BY DEF ChoiceNames
    <3>2. TablesBy(d)[m] = TableChoices[i].tables[d[n + i] + 1]
      BY <1>8, <3>1, TableAt DEF n
    <3>3. d[n + i] + 1 = Place(i)
      BY <1>3, <1>5
    <3> QED
      BY <3>1, <3>2, <3>3, <1>3
  <2>2. TablesBy(d) = [m \in ChoiceNames |-> TablesBy(d)[m]]
    BY DEF TablesBy
  <2>3. call.tables = [m \in ChoiceNames |-> call.tables[m]]
    BY <1>1 DEF Selections
  <2> QED
    BY <2>1, <2>2, <2>3
<1> QED
  BY <1>1, <1>8, <1>9, <1>10 DEF CallBy

\* The digits of a number, over weights of the radix.
DigitsOf(m, weight) == [j \in 1 .. Digits |-> Digit(m, Radix, weight, j)]

LEMMA NumbersAreChoices ==
  ASSUME Counted, NEW weight, Weighs(Digits, Radix, weight)
  PROVE  /\ \A m \in 0 .. (weight[Digits] - 1) : DigitsOf(m, weight) \in Numbers
         /\ \A m, o \in 0 .. (weight[Digits] - 1) : DigitsOf(m, weight) = DigitsOf(o, weight) => m = o
         /\ \A d \in Numbers : \E m \in 0 .. (weight[Digits] - 1) : DigitsOf(m, weight) = d
         /\ weight[Digits] \in Nat \ {0}
<1>1. Digits \in Nat /\ Radix \in [1 .. Digits -> Nat \ {0}]
  BY RadixType
<1>2. weight \in [0 .. Digits -> Nat \ {0}]
  BY DEF Weighs
<1>3. ASSUME NEW m \in 0 .. (weight[Digits] - 1) PROVE DigitsOf(m, weight) \in Numbers
  <2>1. ASSUME NEW j \in 1 .. Digits PROVE Digit(m, Radix, weight, j) \in Nat /\ Digit(m, Radix, weight, j) < Radix[j]
    <3> DEFINE w == weight[j - 1]
               r == Radix[j]
    <3>1. w \in Nat /\ w > 0 /\ r \in Nat /\ r > 0 /\ m \in Nat
      BY <1>1, <1>2
    <3> HIDE DEF w, r
    <3>2. m \div w \in Nat
      BY <3>1, Division
    <3> DEFINE x == m \div w
    <3> HIDE DEF x
    <3>3. x % r \in 0 .. (r - 1)
      BY <3>1, <3>2, Division DEF x
    <3>4. Digit(m, Radix, weight, j) = x % r
      BY DEF Digit, x, w, r
    <3>5. Radix[j] = r
      BY DEF r
    <3> QED
      BY <3>1, <3>3, <3>4, <3>5
  <2>2. \A j \in 1 .. Digits : DigitsOf(m, weight)[j] = Digit(m, Radix, weight, j)
    BY DEF DigitsOf
  <2>3. DigitsOf(m, weight) \in [1 .. Digits -> Nat]
    BY <2>1 DEF DigitsOf
  <2> QED
    BY <2>1, <2>2, <2>3 DEF Numbers, Numerals
<1>4. ASSUME NEW m \in 0 .. (weight[Digits] - 1), NEW o \in 0 .. (weight[Digits] - 1),
             DigitsOf(m, weight) = DigitsOf(o, weight)
      PROVE  m = o
  <2>1. \A j \in 1 .. Digits : Digit(m, Radix, weight, j) = Digit(o, Radix, weight, j)
    <3>1. ASSUME NEW j \in 1 .. Digits PROVE Digit(m, Radix, weight, j) = Digit(o, Radix, weight, j)
      <4>1. DigitsOf(m, weight)[j] = Digit(m, Radix, weight, j) /\ DigitsOf(o, weight)[j] = Digit(o, Radix, weight, j)
        BY DEF DigitsOf
      <4> QED
        BY <1>4, <4>1
    <3> QED
      BY <3>1
  <2> QED
    BY <2>1, NumberUnique
<1>5. ASSUME NEW d \in Numbers PROVE \E m \in 0 .. (weight[Digits] - 1) : DigitsOf(m, weight) = d
  <2>1. d \in [1 .. Digits -> Nat] /\ \A j \in 1 .. Digits : d[j] < Radix[j]
    BY DEF Numbers, Numerals
  <2>2. PICK m \in 0 .. (weight[Digits] - 1) : \A j \in 1 .. Digits : Digit(m, Radix, weight, j) = d[j]
    BY NumberExists DEF Numbers
  <2>3. DigitsOf(m, weight) = [j \in 1 .. Digits |-> d[j]]
    BY <2>2 DEF DigitsOf
  <2>4. d = [j \in 1 .. Digits |-> d[j]]
    BY <2>1
  <2> QED
    BY <2>3, <2>4
<1>6. weight[Digits] \in Nat \ {0}
  BY <1>1, <1>2
<1> QED
  BY <1>3, <1>4, <1>5, <1>6

\* There are as many calls as numbers below the weight of all digits.
LEMMA CallsCount ==
  ASSUME Counted, NEW weight, Weighs(Digits, Radix, weight)
  PROVE  Cardinality(Calls) = weight[Digits]
<1> DEFINE w == weight[Digits]
           N == 0 .. (w - 1)
           f == [m \in N |-> CallBy(DigitsOf(m, weight))]
<1>1. /\ \A m \in N : DigitsOf(m, weight) \in Numbers
      /\ \A m, o \in N : DigitsOf(m, weight) = DigitsOf(o, weight) => m = o
      /\ \A d \in Numbers : \E m \in N : DigitsOf(m, weight) = d
      /\ w \in Nat \ {0}
  BY NumbersAreChoices
<1> HIDE DEF w
<1>2. IsFiniteSet(N) /\ Cardinality(N) = w
  <2>1. 0 \in Int /\ w - 1 \in Int /\ ~(0 > w - 1) /\ (w - 1) - 0 + 1 = w
    BY <1>1
  <2> QED
    BY <2>1, FS_Interval
<1> HIDE DEF N
<1>3. f \in [N -> Calls]
  BY <1>1, CallByCalls
<1>4. \A m, o \in N : f[m] = f[o] => m = o
  <2>1. ASSUME NEW m \in N, NEW o \in N, f[m] = f[o] PROVE m = o
    <3>1. CallBy(DigitsOf(m, weight)) = CallBy(DigitsOf(o, weight))
      BY <2>1
    <3>2. DigitsOf(m, weight) = DigitsOf(o, weight)
      BY <1>1, <3>1, CallByInjective
    <3> QED
      BY <1>1, <3>2
  <2> QED
    BY <2>1
<1>5. \A c \in Calls : \E m \in N : f[m] = c
  <2>1. ASSUME NEW c \in Calls PROVE \E m \in N : f[m] = c
    <3>1. PICK d \in Numbers : CallBy(d) = c
      BY CallByOnto
    <3>2. PICK m \in N : DigitsOf(m, weight) = d
      BY <1>1
    <3>3. f[m] = c
      BY <3>1, <3>2
    <3> QED
      BY <3>3
  <2> QED
    BY <2>1
<1> HIDE DEF f
<1>6. f \in Bijection(N, Calls)
  BY <1>3, <1>4, <1>5, Zenon DEF Bijection, Injection, Surjection, IsInjective
<1>7. ExistsBijection(N, Calls)
  BY <1>6 DEF ExistsBijection
<1>8. Cardinality(Calls) = w
  BY <1>2, <1>7, FS_Bijection
<1> QED
  BY <1>8 DEF w

\* The weights of the digits, by VariantCount.
Weights == [j \in 0 .. Digits |-> IF j <= Len(options) THEN 2 ^ j ELSE VariantCount[j - Len(options)]]

LEMMA Powers ==
  /\ 2 ^ 0 = 1 /\ 2 ^ 5 = 32 /\ \A j \in 0 .. 5 : 2 ^ j \in Nat \ {0} /\ 2 ^ j <= 32
  /\ \A j \in 1 .. 5 : 2 ^ j = 2 ^ (j - 1) * 2
<1>1. 2 ^ 0 = 1 /\ 2 ^ 1 = 2 /\ 2 ^ 2 = 4 /\ 2 ^ 3 = 8 /\ 2 ^ 4 = 16 /\ 2 ^ 5 = 32
  OBVIOUS
<1>2. ASSUME NEW j \in 0 .. 5 PROVE 2 ^ j \in Nat \ {0} /\ 2 ^ j <= 32
  <2>1. j = 0 \/ j = 1 \/ j = 2 \/ j = 3 \/ j = 4 \/ j = 5
    OBVIOUS
  <2>2. 2 ^ j \in {1, 2, 4, 8, 16, 32}
    BY <1>1, <2>1, Zenon
  <2> QED
    BY <2>2
<1>3. ASSUME NEW j \in 1 .. 5 PROVE 2 ^ j = 2 ^ (j - 1) * 2
  <2>1. \/ j = 1 /\ j - 1 = 0
        \/ j = 2 /\ j - 1 = 1
        \/ j = 3 /\ j - 1 = 2
        \/ j = 4 /\ j - 1 = 3
        \/ j = 5 /\ j - 1 = 4
    OBVIOUS
  <2>2. 2 = 1 * 2 /\ 4 = 2 * 2 /\ 8 = 4 * 2 /\ 16 = 8 * 2 /\ 32 = 16 * 2
    OBVIOUS
  <2> QED
    BY <1>1, <2>1, <2>2, Zenon
<1> QED
  BY <1>1, <1>2, <1>3

LEMMA CountRuns ==
  ASSUME Counted, Len(options) <= MaxOptions
  PROVE  /\ VariantCount \in [0 .. Len(TableChoices) -> Nat \ {0}]
         /\ VariantCount[0] = 2 ^ Len(options)
         /\ \A i \in DOMAIN TableChoices : VariantCount[i] = VariantCount[i - 1] * Len(TableChoices[i].tables)
<1> DEFINE n == Len(options)
           k == Len(TableChoices)
           V == Nat \ {0}
           Size(i) == Len(TableChoices[i].tables)
           Pass == [i \in 1 .. k |-> [v \in V |-> v * Size(i)]]
           Is(f) == f = [i \in 0 .. k |-> IF i = 0 THEN 2 ^ n ELSE f[i - 1] * Size(i)]
<1>0. /\ n \in 0 .. 5 /\ k \in Nat /\ DOMAIN TableChoices = 1 .. k
      /\ \A i \in 1 .. k : Size(i) \in V
  <2>1. n \in 0 .. 5 /\ k \in Nat /\ DOMAIN TableChoices = 1 .. k
    <3>1. n \in Nat /\ k \in Nat /\ DOMAIN TableChoices = 1 .. k
      BY RadixType
    <3>2. n <= 5
      BY DEF MaxOptions
    <3> HIDE DEF n, k
    <3> QED
      BY <3>1, <3>2
  <2>2. \A i \in 1 .. k : Size(i) \in V
    BY <2>1, ChoiceType DEF Counted
  <2> QED
    BY <2>1, <2>2
<1>1. 2 ^ n \in V
  BY <1>0, Powers
<1>2. \A i \in 1 .. k, v \in V : v * Size(i) \in V
  <2>1. ASSUME NEW i \in 1 .. k, NEW v \in V PROVE v * Size(i) \in V
    <3>1. Size(i) \in V
      BY <1>0
    <3> HIDE DEF Size
    <3> QED
      BY <3>1
  <2> QED
    BY <2>1
<1> HIDE DEF Size, n, k, V
<1>3. Pass \in [1 .. k -> [V -> V]]
  BY <1>2
<1>4. PICK f \in [0 .. k -> V] : Runs(f, 2 ^ n, k, Pass)
  <2> HIDE DEF Pass
  <2> QED
    BY <1>0, <1>1, <1>3, LoopRuns
<1>5. f[0] = 2 ^ n /\ \A i \in 1 .. k : f[i] = f[i - 1] * Size(i)
  <2>1. \A i \in 1 .. k : i - 1 \in 0 .. k
    BY <1>0
  <2>2. \A i \in 1 .. k : f[i - 1] \in V
    BY <2>1
  <2> QED
    BY <1>4, <2>2 DEF Runs
<1>6. Is(f)
  BY <1>0, <1>5
<1>7. VariantCount = CHOOSE g : Is(g)
  BY DEF VariantCount, n, k, Size
<1>8. Is(VariantCount)
  <2> HIDE DEF Is
  <2> QED
    BY <1>6, <1>7
<1> DEFINE g == VariantCount
<1> HIDE DEF g
<1>9. g = [i \in 0 .. k |-> IF i = 0 THEN 2 ^ n ELSE g[i - 1] * Size(i)]
  BY <1>8 DEF g
<1>10. DOMAIN g = 0 .. k /\ g[0] = 2 ^ n /\ \A i \in 1 .. k : g[i] = g[i - 1] * Size(i)
  <2>1. \A i \in 1 .. k : i \in 0 .. k /\ i # 0
    BY <1>0
  <2>2. 0 \in 0 .. k
    BY <1>0
  <2> QED
    BY <1>9, <2>1, <2>2
<1>11. \A i \in 0 .. k : g[i] \in V
  <2> DEFINE P == {j \in 0 .. k : g[j] \in V}
  <2>1. 0 \in P
    BY <1>0, <1>1, <1>10
  <2>2. \A i \in 1 .. k : i - 1 \in P => i \in P
    <3>1. ASSUME NEW i \in 1 .. k, i - 1 \in P PROVE i \in P
      <4>1. g[i - 1] \in V /\ i \in 0 .. k
        BY <1>0, <3>1
      <4>2. g[i] \in V
        BY <1>2, <1>10, <4>1
      <4> QED
        BY <4>1, <4>2
    <3> QED
      BY <3>1
  <2> HIDE DEF P
  <2>3. \A i \in 0 .. k : i \in P
    BY <1>0, <2>1, <2>2, UpTo
  <2> QED
    BY <2>3 DEF P
<1>12. g \in [0 .. k -> V]
  BY <1>9, <1>11
<1> QED
  BY <1>0, <1>10, <1>12 DEF n, k, V, Size, g

LEMMA WeightsWeigh ==
  ASSUME Counted, Len(options) <= MaxOptions
  PROVE  /\ Weighs(Digits, Radix, Weights)
         /\ Weights[Digits] = VariantCount[Len(TableChoices)]
         /\ \A i \in DOMAIN options : Weights[i - 1] = 2 ^ (i - 1)
         /\ \A i \in DOMAIN TableChoices :
              /\ Weights[(Len(options) + i) - 1] = VariantCount[i - 1]
              /\ Weights[Len(options) + i] = VariantCount[i]
<1> DEFINE n == Len(options)
           k == Len(TableChoices)
           c == VariantCount
<1>0. /\ n \in 0 .. 5 /\ k \in Nat /\ DOMAIN TableChoices = 1 .. k /\ DOMAIN options = 1 .. n
      /\ Digits = n + k /\ Digits \in Nat /\ Radix \in [1 .. Digits -> Nat \ {0}]
      /\ \A i \in 1 .. n : Radix[i] = 2
      /\ \A i \in 1 .. k : Radix[n + i] = Len(TableChoices[i].tables)
  BY RadixType DEF MaxOptions, Digits
<1>1. /\ c \in [0 .. k -> Nat \ {0}] /\ c[0] = 2 ^ n
      /\ \A i \in 1 .. k : c[i] = c[i - 1] * Radix[n + i]
  BY <1>0, CountRuns
<1>2. Weights = [j \in 0 .. Digits |-> IF j <= n THEN 2 ^ j ELSE c[j - n]]
  BY DEF Weights
<1> HIDE DEF n, k, c
<1>3. \A j \in 0 .. n : Weights[j] = 2 ^ j
  BY <1>0, <1>2
<1>4. ASSUME NEW i \in 0 .. k PROVE Weights[n + i] = c[i]
  <2>1. CASE i = 0
    BY <2>1, <1>0, <1>1, <1>3
  <2>2. CASE i # 0
    <3>1. n + i \in 0 .. Digits /\ ~(n + i <= n) /\ (n + i) - n = i
      BY <2>2, <1>0
    <3> QED
      BY <3>1, <1>2
  <2> QED
    BY <2>1, <2>2
<1>5. \A j \in 0 .. Digits : j \in 0 .. n \/ \E i \in 1 .. k : j = n + i
  <2>1. ASSUME NEW j \in 0 .. Digits, ~(j <= n) PROVE \E i \in 1 .. k : j = n + i
    <3>1. j - n \in 1 .. k /\ j = n + (j - n)
      BY <2>1, <1>0
    <3> QED
      BY <3>1
  <2> QED
    BY <2>1, <1>0
<1>6. ASSUME NEW j \in 0 .. Digits PROVE Weights[j] \in Nat \ {0}
  <2>1. CASE j \in 0 .. n
    <3>1. j \in 0 .. 5 /\ Weights[j] = 2 ^ j
      BY <2>1, <1>0, <1>3
    <3>2. 2 ^ j \in Nat \ {0}
      BY <3>1, Powers
    <3> QED
      BY <3>1, <3>2
  <2>2. ASSUME NEW i \in 1 .. k, j = n + i PROVE Weights[j] \in Nat \ {0}
    <3>1. i \in 0 .. k
      BY <1>0
    <3>2. Weights[n + i] = c[i] /\ c[i] \in Nat \ {0}
      BY <3>1, <1>1, <1>4
    <3> QED
      BY <2>2, <3>2
  <2> QED
    BY <2>1, <2>2, <1>5
<1>7. ASSUME NEW j \in 1 .. Digits PROVE Weights[j] = Weights[j - 1] * Radix[j]
  <2>1. CASE j \in 0 .. n
    <3>1. j \in 1 .. 5 /\ j - 1 \in 0 .. n /\ j \in 1 .. n
      BY <2>1, <1>0
    <3>2. Weights[j] = 2 ^ j /\ Weights[j - 1] = 2 ^ (j - 1) /\ Radix[j] = 2
      BY <3>1, <1>0, <1>3
    <3> QED
      BY <3>1, <3>2, Powers
  <2>2. ASSUME NEW i \in 1 .. k, j = n + i PROVE Weights[j] = Weights[j - 1] * Radix[j]
    <3>1. i - 1 \in 0 .. k /\ i \in 0 .. k /\ j - 1 = n + (i - 1)
      BY <2>2, <1>0
    <3>2. Weights[j] = c[i] /\ Weights[j - 1] = c[i - 1]
      BY <2>2, <3>1, <1>4
    <3> QED
      BY <2>2, <3>2, <1>1
  <2> QED
    BY <2>1, <2>2, <1>5, <1>0
<1>8. Weights[0] = 1
  <2>1. 0 \in 0 .. n
    BY <1>0
  <2>2. Weights[0] = 2 ^ 0
    BY <2>1, <1>3
  <2>3. 2 ^ 0 = 1
    BY Powers
  <2> QED
    BY <2>2, <2>3
<1>9. Weighs(Digits, Radix, Weights)
  <2>1. Weights \in [0 .. Digits -> Nat \ {0}]
    BY <1>2, <1>6
  <2> QED
    BY <2>1, <1>0, <1>7, <1>8 DEF Weighs
<1>10. Weights[Digits] = c[k]
  BY <1>0, <1>4
<1>11. \A i \in 1 .. n : Weights[i - 1] = 2 ^ (i - 1)
  BY <1>0, <1>3
<1>12. ASSUME NEW i \in 1 .. k PROVE Weights[(n + i) - 1] = c[i - 1] /\ Weights[n + i] = c[i]
  <2>1. i - 1 \in 0 .. k /\ i \in 0 .. k /\ (n + i) - 1 = n + (i - 1)
    BY <1>0
  <2> QED
    BY <2>1, <1>4
<1> QED
  BY <1>0, <1>9, <1>10, <1>11, <1>12 DEF n, k, c

\* The counting loop stops exactly at more variants than are allowed.
LEMMA TooManyCalls ==
  ASSUME Counted
  PROVE  TooMany(VariantCount) <=> Cardinality(Calls) > MaxVariants
<1> DEFINE n == Len(options)
           k == Len(TableChoices)
           c == VariantCount
           Size(i) == Len(TableChoices[i].tables)
<1>0. /\ n \in Nat /\ k \in Nat /\ DOMAIN TableChoices = 1 .. k /\ DOMAIN options = 1 .. n
      /\ Digits = n + k /\ Digits \in Nat /\ Radix \in [1 .. Digits -> Nat \ {0}]
      /\ \A i \in 1 .. n : Radix[i] = 2
  BY RadixType DEF Digits
<1>1. CASE n > 5
  <2>1. PICK w : Weighs(Digits, Radix, w)
    BY <1>0, WeightsExist
  <2> HIDE DEF n, k
  <2>2. /\ w[0] = 1 /\ w[1] = w[0] * 2 /\ w[2] = w[1] * 2 /\ w[3] = w[2] * 2
        /\ w[4] = w[3] * 2 /\ w[5] = w[4] * 2 /\ w[6] = w[5] * 2
    <3>1. 1 .. 6 \subseteq 1 .. Digits /\ 1 .. 6 \subseteq 1 .. n
      BY <1>0, <1>1
    <3>2. \A j \in 1 .. 6 : w[j] = w[j - 1] * 2
      BY <1>0, <3>1, <2>1 DEF Weighs
    <3> QED
      BY <3>2, <2>1 DEF Weighs
  <2>3. w[6] = 64
    BY <2>2
  <2>4. 6 \in 0 .. Digits /\ Digits \in 6 .. Digits
    BY <1>0, <1>1
  <2>5. PICK p \in Nat \ {0} : w[Digits] = w[6] * p
    BY <2>1, <2>4, WeightDivides
  <2>6. Cardinality(Calls) = w[Digits]
    BY <2>1, CallsCount
  <2>7. TooMany(VariantCount)
    BY <1>1 DEF TooMany, MaxOptions, n
  <2> QED
    BY <2>3, <2>5, <2>6, <2>7 DEF MaxVariants
<1>2. CASE n <= 5
  <2>1. /\ Weighs(Digits, Radix, Weights) /\ Weights[Digits] = c[k]
        /\ \A i \in 1 .. k : Weights[n + i] = c[i]
    BY <1>0, <1>2, WeightsWeigh DEF MaxOptions
  <2>2. Cardinality(Calls) = c[k]
    BY <2>1, CallsCount
  <2>3. /\ c \in [0 .. k -> Nat \ {0}] /\ c[0] = 2 ^ n
        /\ \A i \in 1 .. k : c[i] = c[i - 1] * Size(i)
    BY <1>0, <1>2, CountRuns DEF MaxOptions
  <2>4. \A i \in 1 .. k : Size(i) \in Nat \ {0}
    BY <1>0, ChoiceType DEF Counted
  <2>5. TooMany(c) <=> \E i \in 1 .. k : c[i - 1] > 32 \div Size(i)
    <3>1. ~(n > 5)
      BY <1>0, <1>2
    <3>2. TooMany(c) <=> n > 5 \/ \E i \in DOMAIN TableChoices : c[i - 1] > 32 \div Size(i)
      BY Zenon DEF TooMany, MaxOptions, MaxVariants
    <3>3. DOMAIN TableChoices = 1 .. k
      BY <1>0
    <3> HIDE DEF n, k, c, Size
    <3> QED
      BY <3>1, <3>2, <3>3, Zenon
  <2> HIDE DEF n, k, c, Size
  <2>6. ASSUME NEW i \in 1 .. k PROVE c[i - 1] > 32 \div Size(i) <=> c[i] > 32
    <3>1. i - 1 \in 0 .. k
      BY <1>0
    <3>2. PICK a \in Nat : a = c[i - 1]
      BY <2>3, <3>1
    <3>3. PICK b \in Nat \ {0} : b = Size(i)
      BY <2>4
    <3>4. c[i] = a * b
      BY <2>3, <3>2, <3>3
    <3>5. PICK q \in Nat : q = 32 \div b
      BY <3>3
    <3>6. PICK r \in 0 .. (b - 1) : 32 = b * q + r
      <4>1. 32 \in Nat /\ b \in Nat /\ b > 0
        BY <3>3
      <4>2. 32 % b \in 0 .. (b - 1) /\ 32 = b * (32 \div b) + (32 % b)
        BY <4>1, Division
      <4> QED
        BY <3>5, <4>2
    <3>7. b * a \in Nat /\ b * q \in Nat /\ a * b = b * a
      BY <3>2, <3>3, <3>5, Products
    <3>8. a > q => b * q + b <= b * a
      BY <3>2, <3>3, <3>5, StepsApart
    <3>9. a < q => b * a + b <= b * q
      BY <3>2, <3>3, <3>5, StepsApart
    <3>10. a = q => b * a = b * q
      OBVIOUS
    <3>11. a > q <=> b * a > 32
      BY <3>2, <3>3, <3>5, <3>6, <3>7, <3>8, <3>9, <3>10
    <3> QED
      BY <3>2, <3>3, <3>4, <3>5, <3>7, <3>11
  <2>7. ASSUME NEW i \in 1 .. k, c[i] > 32 PROVE c[k] > 32
    <3>1. n + i \in 0 .. Digits /\ Digits \in (n + i) .. Digits
      BY <1>0
    <3>2. PICK p \in Nat \ {0} : Weights[Digits] = Weights[n + i] * p
      BY <2>1, <3>1, WeightDivides
    <3>3. c[k] = c[i] * p
      BY <2>1, <3>2
    <3>4. c[i] \in Nat
      BY <1>0, <2>3
    <3>5. c[i] * p = c[i] \/ c[i] + c[i] <= c[i] * p
      <4>1. CASE p = 1
        BY <4>1, <3>4
      <4>2. CASE p # 1
        <5>1. 1 < p /\ 1 \in Nat /\ p \in Nat
          BY <4>2
        <5>2. c[i] * 1 + c[i] <= c[i] * p
          BY <5>1, <3>4, StepsApart
        <5> QED
          BY <5>2, <3>4
      <4> QED
        BY <4>1, <4>2
    <3>6. c[i] * p \in Nat
      BY <3>4, Products
    <3> QED
      BY <2>7, <3>3, <3>4, <3>5, <3>6
  <2>8. k = 0 => c[k] <= 32
    <3>1. n \in 0 .. 5
      BY <1>0, <1>2
    <3>2. 2 ^ n <= 32
      BY <3>1, Powers
    <3> QED
      BY <2>3, <3>2
  <2>9. k # 0 => k \in 1 .. k
    BY <1>0
  <2>10. c[k] \in Nat
    BY <1>0, <2>3
  <2>11. TooMany(c) <=> c[k] > 32
    <3>1. ASSUME TooMany(c) PROVE c[k] > 32
      BY <3>1, <2>5, <2>6, <2>7
    <3>2. ASSUME c[k] > 32 PROVE TooMany(c)
      <4>1. k # 0
        BY <3>2, <2>8, <2>10
      <4> QED
        BY <3>2, <4>1, <2>5, <2>6, <2>9
    <3> QED
      BY <3>1, <3>2
  <2> QED
    BY <2>2, <2>11 DEF MaxVariants, c
<1> QED
  BY <1>0, <1>1, <1>2
-----------------------------------------------------------------------------
(***************************************************************************)
(* Masks and calls are the same.                                           *)
(***************************************************************************)
CallOf(mask) == [on |-> Enabled(mask), tables |-> SelectedTables(mask)]

LEMMA MaskDigits ==
  ASSUME Counted, ~TooMany(VariantCount)
  PROVE  /\ Masks = 0 .. (Weights[Digits] - 1) /\ Weighs(Digits, Radix, Weights)
         /\ \A mask : CallOf(mask) = CallBy(DigitsOf(mask, Weights))
<1>0. Len(options) <= MaxOptions
  <2>1. Len(options) \in Nat /\ ~(Len(options) > MaxOptions)
    BY RadixType DEF TooMany
  <2> QED
    BY <2>1 DEF MaxOptions
<1>1. /\ Weighs(Digits, Radix, Weights)
      /\ Weights[Digits] = VariantCount[Len(TableChoices)]
      /\ \A i \in DOMAIN options : Weights[i - 1] = 2 ^ (i - 1)
      /\ \A i \in DOMAIN TableChoices : Weights[(Len(options) + i) - 1] = VariantCount[i - 1]
  BY <1>0, WeightsWeigh
<1>2. Masks = 0 .. (Weights[Digits] - 1)
  BY <1>1 DEF Masks
<1>3. ASSUME NEW mask PROVE CallOf(mask) = CallBy(DigitsOf(mask, Weights))
  <2> DEFINE d == DigitsOf(mask, Weights)
  <2>1. \A j \in 1 .. Digits : d[j] = (mask \div Weights[j - 1]) % Radix[j]
    BY DEF DigitsOf, Digit
  <2> HIDE DEF d
  <2>2. ASSUME NEW i \in DOMAIN options PROVE Bit(mask, i) <=> d[i] = 1
    <3>1. i \in 1 .. Digits /\ Radix[i] = 2 /\ Weights[i - 1] = 2 ^ (i - 1)
      BY <1>1, RadixType
    <3>2. d[i] = (mask \div Weights[i - 1]) % Radix[i]
      BY <2>1, <3>1
    <3>3. d[i] = (mask \div 2 ^ (i - 1)) % 2
      BY <3>1, <3>2, Zenon
    <3> QED
      BY <3>3, Zenon DEF Bit
  <2>3. Enabled(mask) = OnOf(d)
    BY <2>2 DEF Enabled, OnOf
  <2>4. ASSUME NEW n \in ChoiceNames
        PROVE  SelectedTables(mask)[n] = TableChoices[ChoiceOf(n)].tables[d[Len(options) + ChoiceOf(n)] + 1]
    <3>1. PICK i : i = ChoiceOf(n) /\ i \in DOMAIN TableChoices
      BY ChoiceIs
    <3>2. /\ Len(options) + i \in 1 .. Digits /\ Radix[Len(options) + i] = Len(TableChoices[i].tables)
          /\ Weights[(Len(options) + i) - 1] = VariantCount[i - 1]
      BY <1>1, <3>1, RadixType
    <3>3. d[Len(options) + i] = (mask \div Weights[(Len(options) + i) - 1]) % Radix[Len(options) + i]
      BY <2>1, <3>2
    <3>4. d[Len(options) + i] = (mask \div VariantCount[i - 1]) % Len(TableChoices[i].tables)
      BY <3>2, <3>3, Zenon
    <3>5. SelectedTables(mask)[n] = SelectedTable(mask, i)
      BY <3>1 DEF SelectedTables, ChoiceOf
    <3>6. SelectedTable(mask, i) = TableChoices[i].tables[d[Len(options) + i] + 1]
      BY <3>4, Zenon DEF SelectedTable
    <3> QED
      BY <3>1, <3>5, <3>6, Zenon
  <2>5. SelectedTables(mask) = [n \in ChoiceNames |-> SelectedTables(mask)[n]]
    BY DEF SelectedTables
  <2>6. SelectedTables(mask) = TablesBy(d)
    BY <2>4, <2>5, Zenon DEF TablesBy
  <2> QED
    BY <2>3, <2>6, Zenon DEF CallOf, CallBy, d
<1> QED
  BY <1>1, <1>2, <1>3

\* Every mask is that of one call, and every call has one (selectedTables).
LEMMA MasksAreCalls ==
  ASSUME Counted, ~TooMany(VariantCount)
  PROVE  /\ \A mask \in Masks : CallOf(mask) \in Calls
         /\ \A m, o \in Masks : CallOf(m) = CallOf(o) => m = o
         /\ \A call \in Calls : \E mask \in Masks : CallOf(mask) = call
         /\ 0 \in Masks
<1>1. /\ Masks = 0 .. (Weights[Digits] - 1) /\ Weighs(Digits, Radix, Weights)
      /\ \A mask : CallOf(mask) = CallBy(DigitsOf(mask, Weights))
  BY MaskDigits
<1>2. /\ \A m \in Masks : DigitsOf(m, Weights) \in Numbers
      /\ \A m, o \in Masks : DigitsOf(m, Weights) = DigitsOf(o, Weights) => m = o
      /\ \A d \in Numbers : \E m \in Masks : DigitsOf(m, Weights) = d
      /\ Weights[Digits] \in Nat \ {0}
  BY <1>1, NumbersAreChoices
<1>3. ASSUME NEW mask \in Masks PROVE CallOf(mask) \in Calls
  BY <1>1, <1>2, CallByCalls
<1>4. ASSUME NEW m \in Masks, NEW o \in Masks, CallOf(m) = CallOf(o) PROVE m = o
  <2>1. CallBy(DigitsOf(m, Weights)) = CallBy(DigitsOf(o, Weights))
    BY <1>1, <1>4
  <2>2. DigitsOf(m, Weights) = DigitsOf(o, Weights)
    BY <1>2, <2>1, CallByInjective
  <2> QED
    BY <1>2, <2>2
<1>5. ASSUME NEW call \in Calls PROVE \E mask \in Masks : CallOf(mask) = call
  <2>1. PICK d \in Numbers : CallBy(d) = call
    BY CallByOnto
  <2>2. PICK mask \in Masks : DigitsOf(mask, Weights) = d
    BY <1>2
  <2> QED
    BY <1>1, <2>1, <2>2
<1>6. 0 \in Masks
  BY <1>1, <1>2
<1> QED
  BY <1>3, <1>4, <1>5, <1>6

\* A case of the switch is taken by the call of its mask alone.
LEMMA CaseOfCall ==
  ASSUME Counted, NEW mask, NEW call \in Calls
  PROVE  /\ CaseMatches(mask, call) <=> CallOf(mask) = call
         /\ \A i \in DOMAIN options : Bit(mask, i) <=> options[i] \in Enabled(mask)
<1>1. /\ call.on \subseteq Range(options) /\ call.tables \in [ChoiceNames -> UNION {Range(TableChoices[i].tables) : i \in DOMAIN TableChoices}]
      /\ call = [on |-> call.on, tables |-> call.tables]
  BY DEF Calls, Selections, Counted
<1>2. ASSUME NEW i \in DOMAIN options PROVE Bit(mask, i) <=> options[i] \in Enabled(mask)
  <2>1. \A j \in DOMAIN options : options[i] = options[j] => i = j
    BY DEF Counted, OptionsInv
  <2> QED
    BY <2>1 DEF Enabled
<1>3. (\A i \in DOMAIN options : Bit(mask, i) <=> options[i] \in call.on) <=> Enabled(mask) = call.on
  <2>1. \A o \in Enabled(mask) \cup call.on : \E i \in DOMAIN options : o = options[i]
    BY <1>1 DEF Enabled, Range
  <2>2. ASSUME \A i \in DOMAIN options : Bit(mask, i) <=> options[i] \in call.on
        PROVE  Enabled(mask) = call.on
    BY <1>2, <2>1, <2>2
  <2> QED
    BY <1>2, <2>2
<1>4. (\A n \in ChoiceNames : SelectedTables(mask)[n] = call.tables[n]) <=> SelectedTables(mask) = call.tables
  <2>1. SelectedTables(mask) = [n \in ChoiceNames |-> SelectedTables(mask)[n]]
    BY DEF SelectedTables
  <2>2. call.tables = [n \in ChoiceNames |-> call.tables[n]]
    BY <1>1
  <2> QED
    BY <2>1, <2>2
<1>5. CallOf(mask) = call <=> Enabled(mask) = call.on /\ SelectedTables(mask) = call.tables
  BY <1>1 DEF CallOf
<1> QED
  BY <1>2, <1>3, <1>4, <1>5 DEF CaseMatches
-----------------------------------------------------------------------------
(***************************************************************************)
(* What is known of the variants.                                          *)
(***************************************************************************)
Resolves(v, mask) ==
  /\ "version" \in DOMAIN v
  /\ v.text = CompositionSQL(mask) /\ v.tables = SelectedTables(mask)
  /\ v.columns = ColumnsOf(v.text, v.tables) /\ v.uses = UsesOf(v.text, v.tables)
  /\ SlotsOf(v.text) = ChoiceNames /\ ~Clash(v.uses)
  /\ query.server \/ ~Unresolved(v.columns, v.uses)

Described(v) == v.version \in 1 .. version /\ ~Unresolved(v.columns, v.uses)

Countable ==
  /\ ~(query.exec /\ (query.server \/ Composed))
  /\ ~TooMany(VariantCount) /\ ~SharedName /\ ~WrongTable

ResolvedInv ==
  /\ version \in Nat \ {0}
  /\ phase \notin {"read", "count", "refused"} => Countable
  /\ \A m \in DOMAIN variants : Resolves(variants[m], m - 1)
  /\ phase \in {"describe", "plain", "merge", "accepted"} =>
       (\A mask \in Masks : mask + 1 \in DOMAIN variants) /\ (query.server => ~Unannotated)
  /\ phase = "describe" => query.server /\ \A m \in DOMAIN variants : m < at => Described(variants[m])
  /\ phase \in {"merge", "accepted"} =>
       Composed /\ (query.server => \A m \in DOMAIN variants : Described(variants[m]))
  /\ phase = "accepted" => ~FieldTaken /\ ~Unannotated

LEMMA InitResolved == Init => ResolvedInv
<1> SUFFICES ASSUME Init PROVE ResolvedInv
  OBVIOUS
<1>1. phase = "read" /\ version = 1 /\ DOMAIN variants = {}
  BY DEF Init
<1> QED
  BY <1>1 DEF ResolvedInv

LEMMA SameQuery ==
  ASSUME UNCHANGED <<query, parsing>>
  PROVE  /\ Masks' = Masks /\ (Composed' <=> Composed) /\ (Countable' <=> Countable)
         /\ \A v, mask : Resolves(v, mask)' <=> Resolves(v, mask)
<1>1. parts' = parts /\ options' = options /\ query' = query /\ TableChoices' = TableChoices
      /\ VariantCount' = VariantCount /\ ChoiceNames' = ChoiceNames
  BY DEF parsing, TableChoices, VariantCount, ChoiceNames
<1>2. Masks' = Masks /\ (Composed' <=> Composed)
  BY <1>1 DEF Masks, Composed
<1>3. /\ (SharedName' <=> SharedName) /\ (WrongTable' <=> WrongTable)
      /\ (TooMany(VariantCount)' <=> TooMany(VariantCount))
  BY <1>1 DEF SharedName, WrongTable, TooMany
<1>4. \A mask : SelectedTables(mask)' = SelectedTables(mask) /\ CompositionSQL(mask)' = CompositionSQL(mask)
  BY <1>1 DEF SelectedTables, SelectedTable, CompositionSQL, Enabled
<1>5. \A v, mask : Resolves(v, mask)' <=> Resolves(v, mask)
  BY <1>1, <1>4 DEF Resolves
<1> QED
  BY <1>1, <1>2, <1>3, <1>5 DEF Countable

\* Between phases, with the variants kept.
LEMMA ResolvedKept ==
  ASSUME ResolvedInv, UNCHANGED <<query, parsing, variants>>, version' \in Nat \ {0}, version <= version',
         phase' \in {"refused", phase}, phase = phase' => at' = at /\ merged' = merged
  PROVE  ResolvedInv'
<1>1. /\ Masks' = Masks /\ (Composed' <=> Composed) /\ (Countable' <=> Countable)
      /\ \A v, mask : Resolves(v, mask)' <=> Resolves(v, mask)
  BY SameQuery
<1>2. \A v : Described(v) => Described(v)'
  BY DEF Described, ResolvedInv
<1>3. Unannotated' <=> Unannotated
  BY DEF Unannotated, Prepared
<1>4. \A m \in DOMAIN variants' : Resolves(variants[m], m - 1)'
  BY <1>1 DEF ResolvedInv
<1>5. CASE phase' = "refused"
  BY <1>4, <1>5 DEF ResolvedInv
<1>6. CASE phase' = phase
  <2>1. FieldTaken' <=> FieldTaken
    BY <1>6 DEF FieldTaken, ChoiceNames, TableChoices, parsing
  <2> QED
    BY <1>1, <1>2, <1>3, <1>4, <1>6, <2>1 DEF ResolvedInv
<1> QED
  BY <1>5, <1>6

LEMMA ReadLineResolved == ASSUME CompositionInv, ResolvedInv, ReadLine \/ EndLines PROVE ResolvedInv'
<1>1. phase = "read" /\ variants = <<>> /\ UNCHANGED <<variants, version>> /\ phase' \in {"read", "count", "refused"}
  BY DEF ReadLine, EndLines, Refuse, Enter, CompositionInv, VariantsInv
<1>2. DOMAIN variants' = {} /\ version' \in Nat \ {0}
  BY <1>1 DEF ResolvedInv
<1> QED
  BY <1>1, <1>2 DEF ResolvedInv

LEMMA CountVariantsResolved == ASSUME CompositionInv, ResolvedInv, CountVariants PROVE ResolvedInv'
<1>1. variants = <<>> /\ UNCHANGED <<query, parsing, variants, version>> /\ phase' \in {"resolve", "refused"}
  BY DEF CountVariants, Refuse, Enter, CompositionInv, VariantsInv
<1>2. DOMAIN variants' = {} /\ version' \in Nat \ {0}
  BY <1>1 DEF ResolvedInv
<1>3. phase' = "resolve" => Countable
  BY <1>1 DEF CountVariants, Refuse, Enter, Countable
<1>4. Countable' <=> Countable
  BY <1>1, SameQuery
<1> QED
  BY <1>1, <1>2, <1>3, <1>4 DEF ResolvedInv

LEMMA ResolveVariantResolved == ASSUME CompositionInv, ResolvedInv, ResolveVariant PROVE ResolvedInv'
<1>1. UNCHANGED <<query, parsing, version>> /\ phase = "resolve" /\ phase' \in {"resolve", "refused"}
  BY DEF ResolveVariant, Refuse
<1>2. (Countable' <=> Countable) /\ \A v, mask : Resolves(v, mask)' <=> Resolves(v, mask)
  BY <1>1, SameQuery
<1>3. CASE variants' = variants
  BY <1>1, <1>2, <1>3 DEF ResolvedInv
<1>4. CASE variants' # variants
  <2> DEFINE mask == at - 1
             text == CompositionSQL(mask)
             tables == SelectedTables(mask)
             v == [text |-> text, tables |-> tables, columns |-> ColumnsOf(text, tables),
                   uses |-> UsesOf(text, tables), unchecked |-> UncheckedOf(text, tables), version |-> 0]
  <2>1. /\ variants' = Append(variants, v) /\ at' = at + 1
        /\ SlotsOf(text) = ChoiceNames /\ ~Clash(UsesOf(text, tables))
        /\ query.server \/ ~Unresolved(ColumnsOf(text, tables), UsesOf(text, tables))
    BY <1>4 DEF ResolveVariant, Refuse
  <2>2. Resolves(v, mask)
    BY <2>1 DEF Resolves
  <2> HIDE DEF v, text, tables
  <2>3. /\ DOMAIN variants' = 1 .. (Len(variants) + 1) /\ DOMAIN variants = 1 .. Len(variants)
        /\ Len(variants) = at - 1 /\ at \in Nat \ {0}
        /\ \A i \in 1 .. Len(variants) : variants'[i] = variants[i]
        /\ variants'[Len(variants) + 1] = v
    BY <1>1, <2>1, AppendFacts DEF CompositionInv, VariantsInv
  <2>4. ASSUME NEW m \in DOMAIN variants' PROVE Resolves(variants'[m], m - 1)
    <3>1. CASE m = at
      BY <2>2, <2>3, <3>1
    <3>2. CASE m # at
      <4>1. m \in DOMAIN variants /\ variants'[m] = variants[m]
        BY <2>3, <3>2
      <4> QED
        BY <4>1 DEF ResolvedInv
    <3> QED
      BY <3>1, <3>2
  <2>5. \A m \in DOMAIN variants' : Resolves(variants[m], m - 1)'
    <3>1. ASSUME NEW m \in DOMAIN variants' PROVE Resolves(variants[m], m - 1)'
      <4>1. PICK u : u = variants'[m]
        OBVIOUS
      <4>2. Resolves(u, m - 1)
        BY <2>4, <4>1
      <4>3. Resolves(u, m - 1)'
        BY <1>2, <4>2
      <4> QED
        BY <4>1, <4>3 DEF Resolves
    <3> QED
      BY <3>1
  <2> QED
    BY <1>1, <1>2, <2>5 DEF ResolvedInv
<1> QED
  BY <1>3, <1>4

LEMMA CountedQuery ==
  ASSUME ParseInv, CompositionInv, phase \notin {"read", "refused"}, ~SharedName
  PROVE  Counted
<1>1. Range(options) = NamesUpTo(Len(Lines))
  BY DEF ParseInv, Parsed
<1>2. NamesUpTo(Len(Lines)) = OptionNames
  <2>1. DOMAIN Lines = 1 .. Len(Lines)
    BY QueryType DEF ParseInv
  <2> QED
    BY <2>1 DEF NamesUpTo, OptionNames
<1> QED
  BY <1>1, <1>2 DEF Counted, ParseInv, CompositionInv

LEMMA EndResolveResolved ==
  ASSUME ParseInv, CompositionInv, ResolvedInv, EndResolve PROVE ResolvedInv'
<1>1. UNCHANGED <<query, parsing, variants, version>> /\ phase = "resolve" /\ at - 1 \notin Masks
      /\ phase' \in {"refused", "describe", "merge", "plain"}
  BY DEF EndResolve, Refuse, Enter
<1>2. CASE phase' = "refused"
  BY <1>1, <1>2, ResolvedKept DEF ResolvedInv
<1>3. CASE phase' # "refused"
  <2>1. /\ ~(query.server /\ Unannotated) /\ at' = 1
        /\ phase' = IF query.server THEN "describe" ELSE IF Composed THEN "merge" ELSE "plain"
    BY <1>3 DEF EndResolve, Refuse, Enter
  <2>2. /\ Masks' = Masks /\ (Composed' <=> Composed) /\ (Countable' <=> Countable)
        /\ \A v, mask : Resolves(v, mask)' <=> Resolves(v, mask)
    BY <1>1, SameQuery
  <2>3. Unannotated' <=> Unannotated
    BY <1>1 DEF Unannotated, Prepared
  <2>4. ASSUME NEW mask \in Masks PROVE mask + 1 \in DOMAIN variants
    <3>1. DOMAIN variants = 1 .. (at - 1) /\ at \in Nat \ {0}
      BY <1>1, SeqDomain DEF CompositionInv, VariantsInv
    <3>2. Countable
      BY <1>1 DEF ResolvedInv
    <3>3. Counted
      BY <1>1, <3>2, CountedQuery DEF Countable
    <3>4. Masks = 0 .. (Weights[Digits] - 1) /\ Weights[Digits] \in Nat \ {0}
      BY <3>2, <3>3, MaskDigits, NumbersAreChoices DEF Countable
    <3>5. PICK w \in Nat : Masks = 0 .. (w - 1)
      BY <3>4
    <3> QED
      BY <1>1, <3>1, <3>5
  <2>6. \A m \in DOMAIN variants' : Resolves(variants[m], m - 1)'
    BY <1>1, <2>2 DEF ResolvedInv
  <2>7. \A m \in DOMAIN variants : ~(m < 1)
    BY SeqDomain DEF CompositionInv, VariantsInv
  <2> QED
    BY <1>1, <2>1, <2>2, <2>3, <2>4, <2>6, <2>7 DEF ResolvedInv
<1> QED
  BY <1>2, <1>3

LEMMA DescribeVariantResolved ==
  ASSUME CompositionInv, ResolvedInv, DescribeVariant PROVE ResolvedInv'
<1>1. UNCHANGED <<query, parsing, version, merged>> /\ phase = "describe" /\ phase' \in {"describe", "refused"}
      /\ at \in DOMAIN variants
  BY DEF DescribeVariant, Refuse
<1>2. CASE phase' = "refused"
  <2>1. variants' = variants
    BY <1>2 DEF DescribeVariant, Refuse
  <2> QED
    BY <1>1, <1>2, <2>1, ResolvedKept DEF ResolvedInv
<1>3. CASE phase' = "describe"
  <2> DEFINE v == variants[at]
             w == [v EXCEPT !.version = version]
  <2>1. /\ ~Unresolved(v.columns, v.uses)
        /\ variants' = [variants EXCEPT ![at].version = version] /\ at' = at + 1
    BY <1>3 DEF DescribeVariant, Refuse
  <2>2. /\ Masks' = Masks /\ (Countable' <=> Countable)
        /\ \A u, mask : Resolves(u, mask)' <=> Resolves(u, mask)
    BY <1>1, SameQuery
  <2>3. DOMAIN variants' = DOMAIN variants /\ \A m \in DOMAIN variants : m # at => variants'[m] = variants[m]
    BY <2>1
  <2>4. variants'[at] = w
    BY <1>1, <2>1
  <2>5. w.text = v.text /\ w.tables = v.tables /\ w.columns = v.columns /\ w.uses = v.uses
    OBVIOUS
  <2>6. Resolves(v, at - 1)
    BY <1>1 DEF ResolvedInv
  <2>7. DOMAIN w = DOMAIN v /\ w.version = version
    BY <2>6 DEF Resolves
  <2> HIDE DEF w, v
  <2>8. Resolves(w, at - 1)
    BY <2>5, <2>6, <2>7 DEF Resolves
  <2>9. ASSUME NEW m \in DOMAIN variants' PROVE Resolves(variants'[m], m - 1)
    <3>1. CASE m = at
      BY <2>4, <2>8, <3>1
    <3>2. CASE m # at
      BY <2>3, <3>2 DEF ResolvedInv
    <3> QED
      BY <3>1, <3>2
  <2>10. \A m \in DOMAIN variants' : Resolves(variants[m], m - 1)'
    <3>1. ASSUME NEW m \in DOMAIN variants' PROVE Resolves(variants[m], m - 1)'
      <4>1. PICK u : u = variants'[m]
        OBVIOUS
      <4>2. Resolves(u, m - 1)
        BY <2>9, <4>1
      <4>3. Resolves(u, m - 1)'
        BY <2>2, <4>2
      <4> QED
        BY <4>1, <4>3 DEF Resolves
    <3> QED
      BY <3>1
  <2>11. ASSUME NEW m \in DOMAIN variants', m < at' PROVE Described(variants[m])'
    <3>1. version \in Nat \ {0} /\ version' = version
      BY <1>1 DEF ResolvedInv
    <3>2. CASE m = at
      BY <2>1, <2>4, <2>5, <2>7, <3>1, <3>2 DEF Described, v
    <3>3. CASE m # at
      <4>1. m < at
        BY <2>1, <2>3, <2>11, <3>3, <1>1, SeqDomain DEF CompositionInv, VariantsInv
      <4>2. Described(variants[m])
        BY <1>1, <2>3, <4>1 DEF ResolvedInv
      <4> QED
        BY <2>3, <3>1, <3>3, <4>2 DEF Described
    <3> QED
      BY <3>2, <3>3
  <2>12. Unannotated' <=> Unannotated
    <3>1. \A m \in DOMAIN variants : variants'[m].uses = variants[m].uses
      BY <2>3, <2>4, <2>5 DEF v
    <3> QED
      BY <1>1, <2>3, <3>1 DEF Unannotated, Prepared
  <2> QED
    BY <1>1, <1>3, <2>2, <2>3, <2>10, <2>11, <2>12 DEF ResolvedInv
<1> QED
  BY <1>1, <1>2, <1>3

LEMMA EndDescribeResolved == ASSUME CompositionInv, ResolvedInv, EndDescribe PROVE ResolvedInv'
<1>1. UNCHANGED <<query, parsing, variants, version>> /\ phase = "describe" /\ at \notin DOMAIN variants
      /\ phase' \in {"refused", "merge", "plain"}
  BY DEF EndDescribe, Refuse, Enter
<1>2. CASE phase' = "refused"
  BY <1>1, <1>2, ResolvedKept DEF ResolvedInv
<1>3. CASE phase' # "refused"
  <2>1. phase' = IF Composed THEN "merge" ELSE "plain"
    BY <1>3 DEF EndDescribe, Refuse, Enter
  <2>2. /\ Masks' = Masks /\ (Composed' <=> Composed) /\ (Countable' <=> Countable)
        /\ \A v, mask : Resolves(v, mask)' <=> Resolves(v, mask)
    BY <1>1, SameQuery
  <2>3. Unannotated' <=> Unannotated
    BY <1>1 DEF Unannotated, Prepared
  <2>4. \A m \in DOMAIN variants' : Resolves(variants[m], m - 1)'
    BY <1>1, <2>2 DEF ResolvedInv
  <2>5. \A m \in DOMAIN variants : m < at
    <3>1. DOMAIN variants = 1 .. Len(variants) /\ Len(variants) \in Nat /\ at \in Nat \ {0}
      BY <1>1, SeqDomain DEF CompositionInv, VariantsInv
    <3> QED
      BY <1>1, <3>1
  <2>6. \A m \in DOMAIN variants : Described(variants[m])'
    BY <1>1, <2>5 DEF ResolvedInv, Described
  <2> QED
    BY <1>1, <2>1, <2>2, <2>3, <2>4, <2>6 DEF ResolvedInv
<1> QED
  BY <1>2, <1>3

LEMMA MergeVariantResolved == ASSUME CompositionInv, ResolvedInv, MergeVariant PROVE ResolvedInv'
<1>1. UNCHANGED <<query, parsing, variants, version>> /\ phase = "merge" /\ phase' \in {"merge", "refused"}
  BY DEF MergeVariant, Refuse
<1>2. /\ Masks' = Masks /\ (Composed' <=> Composed) /\ (Countable' <=> Countable)
      /\ \A v, mask : Resolves(v, mask)' <=> Resolves(v, mask)
  BY <1>1, SameQuery
<1>3. Unannotated' <=> Unannotated
  BY <1>1 DEF Unannotated, Prepared
<1>4. \A m \in DOMAIN variants' : Resolves(variants[m], m - 1)'
  BY <1>1, <1>2 DEF ResolvedInv
<1>5. \A v : Described(v)' <=> Described(v)
  BY <1>1 DEF Described
<1> QED
  BY <1>1, <1>2, <1>3, <1>4, <1>5 DEF ResolvedInv

LEMMA EndMergeResolved == ASSUME CompositionInv, ResolvedInv, EndMerge PROVE ResolvedInv'
<1>1. UNCHANGED <<query, parsing, variants, merged, version>> /\ phase = "merge"
      /\ phase' \in {"accepted", "refused"}
  BY DEF EndMerge, Refuse, Enter
<1>2. /\ Masks' = Masks /\ (Composed' <=> Composed) /\ (Countable' <=> Countable)
      /\ \A v, mask : Resolves(v, mask)' <=> Resolves(v, mask)
  BY <1>1, SameQuery
<1>3. Unannotated' <=> Unannotated
  BY <1>1 DEF Unannotated, Prepared
<1>4. \A m \in DOMAIN variants' : Resolves(variants[m], m - 1)'
  BY <1>1, <1>2 DEF ResolvedInv
<1>5. \A v : Described(v)' <=> Described(v)
  BY <1>1 DEF Described
<1>6. FieldTaken' <=> FieldTaken
  BY <1>1 DEF FieldTaken, ChoiceNames, TableChoices, parsing
<1>7. phase' = "accepted" => ~FieldTaken /\ ~Unannotated
  <2>1. query.server => ~Unannotated
    BY <1>1 DEF ResolvedInv
  <2> QED
    BY <2>1 DEF EndMerge, Refuse, Enter
<1> QED
  BY <1>1, <1>2, <1>3, <1>4, <1>5, <1>6, <1>7 DEF ResolvedInv

LEMMA NextResolved == ASSUME ParseInv, CompositionInv, ResolvedInv, [Next]_vars PROVE ResolvedInv'
<1>1. CASE ReadLine \/ EndLines
  BY <1>1, ReadLineResolved
<1>2. CASE CountVariants
  BY <1>2, CountVariantsResolved
<1>3. CASE ResolveVariant
  BY <1>3, ResolveVariantResolved
<1>4. CASE EndResolve
  BY <1>4, EndResolveResolved
<1>5. CASE DescribeVariant
  BY <1>5, DescribeVariantResolved
<1>6. CASE EndDescribe
  BY <1>6, EndDescribeResolved
<1>7. CASE MergeVariant
  BY <1>7, MergeVariantResolved
<1>8. CASE EndMerge
  BY <1>8, EndMergeResolved
<1>9. CASE Upgrade
  BY <1>9, ResolvedKept DEF Upgrade, ResolvedInv
<1>10. CASE UNCHANGED vars
  BY <1>10, ResolvedKept DEF vars, ResolvedInv
<1> QED
  BY <1>1, <1>2, <1>3, <1>4, <1>5, <1>6, <1>7, <1>8, <1>9, <1>10 DEF Next

\* The invariants of the merge, of parsing and of the variants together.
VariantsKnown == CompositionInv /\ ParseInv /\ ResolvedInv

\* What parsing has read and what resolving found stay true to the source, from the
\* first directive to the merge (parseConditionalSQL, resolveComposedQuery).
THEOREM VariantsAreKnown == Spec => []VariantsKnown
<1>1. Init => VariantsKnown
  BY InitComposition, InitParse, InitResolved DEF VariantsKnown
<1>2. VariantsKnown /\ [Next]_vars => VariantsKnown'
  BY NextComposition, NextParse, NextResolved DEF VariantsKnown
<1> QED
  BY <1>1, <1>2, PTL DEF Spec
-----------------------------------------------------------------------------
(***************************************************************************)
(* Every call has its variant.                                             *)
(***************************************************************************)
\* The text of a mask is what the source keeps for its call.
LEMMA TextOfCall ==
  ASSUME ParseInv, phase \notin {"read", "refused"}, NEW mask
  PROVE  CompositionSQL(mask) = KeptText(CallOf(mask))
<1> DEFINE on == Enabled(mask)
           p == Len(Lines)
<1>1. DOMAIN Lines = 1 .. p /\ IsSeq(Lines) /\ Lines \in Seq(Line)
  BY QueryType DEF ParseInv
<1>2. CompositionSQL(mask) = TextOf(on)
  BY DEF CompositionSQL, TextOf
<1>3. TextOf(on) = KeptUpTo(p, on)
  <2> HIDE DEF on
  <2> QED
    BY Zenon DEF ParseInv, Parsed
<1>4. LineBefore(p) = Lines
  BY <1>1 DEF LineBefore
<1>5. CallOf(mask).on = on
  BY DEF CallOf
<1> HIDE DEF on
<1>6. {l \in 1 .. p : Lines[l].is = "sql" /\ InBlock(l) \subseteq on} = {l \in DOMAIN Lines : Kept(l, CallOf(mask))}
  BY <1>1, <1>5 DEF Kept
<1>7. KeptUpTo(p, on) = KeptText(CallOf(mask))
  BY <1>4, <1>6, Zenon DEF KeptUpTo, KeptText
<1> QED
  BY <1>2, <1>3, <1>7

\* The variants, by their calls.
LEMMA VariantsByCall ==
  ASSUME VariantsKnown, NEW m \in DOMAIN variants, phase \notin {"read", "count", "refused"}
  PROVE  /\ Counted /\ ~TooMany(VariantCount) /\ m - 1 \in Masks /\ (m - 1) + 1 = m
         /\ CallOf(m - 1) \in Calls
         /\ variants[m].text = KeptText(CallOf(m - 1)) /\ variants[m].tables = CallOf(m - 1).tables
         /\ variants[m].uses = CallUses(CallOf(m - 1))
         /\ variants[m].columns = CallColumns(CallOf(m - 1))
<1>1. Counted /\ ~TooMany(VariantCount)
  BY CountedQuery DEF VariantsKnown, ResolvedInv, Countable
<1>2. m - 1 \in Masks /\ (m - 1) + 1 = m
  BY SeqDomain DEF VariantsKnown, CompositionInv, VariantsInv
<1>3. CallOf(m - 1) \in Calls
  BY <1>1, <1>2, MasksAreCalls
<1>4. Resolves(variants[m], m - 1)
  BY DEF VariantsKnown, ResolvedInv
<1>5. CompositionSQL(m - 1) = KeptText(CallOf(m - 1))
  BY TextOfCall DEF VariantsKnown
<1>6. CallOf(m - 1).tables = SelectedTables(m - 1)
  BY DEF CallOf
<1> QED
  BY <1>1, <1>2, <1>3, <1>4, <1>5, <1>6, Zenon DEF Resolves, CallUses, CallColumns

LEMMA CallsHaveVariants == VariantsKnown => EveryCallHasItsVariant
<1> SUFFICES ASSUME VariantsKnown, phase = "accepted", NEW call \in Calls
             PROVE  \E mask \in Masks :
                      /\ \A other \in Masks : CaseMatches(other, call) <=> other = mask
                      /\ variants[mask + 1].text = KeptText(call)
                      /\ variants[mask + 1].tables = call.tables
  BY DEF EveryCallHasItsVariant
<1>1. Counted /\ ~TooMany(VariantCount) /\ \A mask \in Masks : mask + 1 \in DOMAIN variants
  BY CountedQuery DEF VariantsKnown, ResolvedInv, Countable
<1>2. PICK mask \in Masks : CallOf(mask) = call
  BY <1>1, MasksAreCalls
<1>3. ASSUME NEW other \in Masks PROVE CaseMatches(other, call) <=> other = mask
  BY <1>1, <1>2, CaseOfCall, MasksAreCalls
<1>4. mask \in Int /\ (mask + 1) - 1 = mask
  BY DEF Masks
<1>5. PICK m : m = mask + 1
  OBVIOUS
<1>6. m \in DOMAIN variants /\ m - 1 = mask
  BY <1>1, <1>4, <1>5
<1>7. variants[m].text = KeptText(CallOf(m - 1)) /\ variants[m].tables = CallOf(m - 1).tables
  BY <1>6, VariantsByCall
<1> QED
  BY <1>2, <1>3, <1>5, <1>6, <1>7

\* In an accepted query each call that the types allow takes exactly one case of
\* the switch, and its statement is the base text and the blocks that are on, over
\* the tables chosen, for any query (renderCompositionSetup, selectedTables).
THEOREM CallsTakeTheirVariants == Spec => []EveryCallHasItsVariant
<1> QED
  BY VariantsAreKnown, CallsHaveVariants, PTL
-----------------------------------------------------------------------------
(***************************************************************************)
(* Owners follow the blocks.                                               *)
(***************************************************************************)
\* A parameter of the merged signature is one of a variant; who owns it.
OwnedInv ==
  /\ phase \in {"merge", "accepted"} => \A n \in DOMAIN merged.types : merged.presence[n] # {}
  /\ phase = "accepted" =>
       \A n \in DOMAIN merged.types :
         owner[n] = IF \E i \in DOMAIN options : Owns(i, n)
                    THEN options[CHOOSE i \in DOMAIN options : Owns(i, n)] ELSE None

LEMMA OwnedKept ==
  ASSUME OwnedInv, UNCHANGED <<query, parsing, merged, owner>>, phase' = phase \/ phase' = "refused"
  PROVE  OwnedInv'
<1>1. options' = options /\ Masks' = Masks
  BY SameQuery DEF parsing
<1>2. \A i, n : Owns(i, n)' <=> Owns(i, n)
  BY <1>1 DEF Owns, Having
<1> QED
  BY <1>1, <1>2 DEF OwnedInv

LEMMA OwnedOutside ==
  ASSUME phase' \notin {"merge", "accepted"}
  PROVE  OwnedInv'
BY DEF OwnedInv

LEMMA OwnedEnter ==
  ASSUME CompositionInv, phase \in {"resolve", "describe"}, merged' = merged, phase' # "accepted"
  PROVE  OwnedInv'
<1>1. DOMAIN merged'.types = {}
  BY DEF CompositionInv, MergeInv, Nothing
<1> QED
  BY <1>1 DEF OwnedInv

LEMMA MergeVariantOwned ==
  ASSUME CompositionInv, OwnedInv, MergeVariant
  PROVE  OwnedInv'
<1>1. phase = "merge" /\ phase' \in {"merge", "refused"}
  BY DEF MergeVariant, Refuse
<1>2. CASE phase' = "refused"
  BY <1>2, OwnedOutside
<1>3. CASE phase' = "merge"
  <2> DEFINE params == Parameters(variants[at].uses)
  <2>1. merged'.types = MergedTypes(params) /\ merged'.presence = MergedPresence(params)
    BY <1>3 DEF MergeVariant, Refuse
  <2> HIDE DEF params
  <2>2. ASSUME NEW n \in DOMAIN merged'.types PROVE merged'.presence[n] # {}
    <3>1. n \in DOMAIN merged.types \cup DOMAIN params
      BY <2>1, <2>2 DEF MergedTypes
    <3>2. merged'.presence[n] = (IF n \in DOMAIN merged.types THEN merged.presence[n] ELSE {})
                                  \cup (IF n \in DOMAIN params THEN {at} ELSE {})
      BY <2>1, <3>1 DEF MergedPresence, Known
    <3>3. n \in DOMAIN merged.types => merged.presence[n] # {}
      BY <1>1 DEF OwnedInv
    <3> QED
      BY <3>1, <3>2, <3>3
  <2> QED
    BY <1>3, <2>2 DEF OwnedInv
<1> QED
  BY <1>1, <1>2, <1>3

LEMMA EndMergeOwned ==
  ASSUME CompositionInv, OwnedInv, EndMerge
  PROVE  OwnedInv'
<1>1. phase = "merge" /\ phase' \in {"accepted", "refused"} /\ UNCHANGED <<query, parsing, merged>>
  BY DEF EndMerge, Refuse, Enter
<1>2. CASE phase' = "refused"
  BY <1>2, OwnedOutside
<1>3. CASE phase' = "accepted"
  <2>1. owner' = [n \in DOMAIN merged.types |->
                    IF \E i \in DOMAIN options : Owns(i, n)
                    THEN options[CHOOSE i \in DOMAIN options : Owns(i, n)] ELSE None]
    BY <1>3 DEF EndMerge, Refuse, Enter
  <2>2. options' = options /\ Masks' = Masks
    BY <1>1, SameQuery DEF parsing
  <2>3. \A i, n : Owns(i, n)' <=> Owns(i, n)
    BY <1>1, <2>2 DEF Owns, Having
  <2>4. \A n \in DOMAIN merged'.types : merged'.presence[n] # {}
    BY <1>1 DEF OwnedInv
  <2>5. ASSUME NEW n \in DOMAIN merged'.types
        PROVE  owner'[n] = IF \E i \in DOMAIN options' : Owns(i, n)'
                           THEN options'[CHOOSE i \in DOMAIN options' : Owns(i, n)'] ELSE None
    <3>1. n \in DOMAIN merged.types
      BY <1>1, <2>5
    <3>2. owner'[n] = IF \E i \in DOMAIN options : Owns(i, n)
                      THEN options[CHOOSE i \in DOMAIN options : Owns(i, n)] ELSE None
      BY <2>1, <3>1
    <3>3. (CHOOSE i \in DOMAIN options' : Owns(i, n)') = CHOOSE i \in DOMAIN options : Owns(i, n)
      BY <2>2, <2>3
    <3> QED
      BY <2>2, <2>3, <3>2, <3>3
  <2> QED
    BY <1>3, <2>4, <2>5 DEF OwnedInv
<1> QED
  BY <1>1, <1>2, <1>3

LEMMA NextOwned == ASSUME CompositionInv, OwnedInv, [Next]_vars PROVE OwnedInv'
<1>1. CASE ReadLine \/ EndLines \/ CountVariants
  <2>1. phase' \notin {"merge", "accepted"}
    BY <1>1 DEF ReadLine, EndLines, CountVariants, Refuse, Enter
  <2> QED
    BY <2>1, OwnedOutside
<1>2. CASE ResolveVariant \/ DescribeVariant
  <2>1. phase' \notin {"merge", "accepted"}
    BY <1>2 DEF ResolveVariant, DescribeVariant, Refuse
  <2> QED
    BY <2>1, OwnedOutside
<1>3. CASE EndResolve \/ EndDescribe
  BY <1>3, OwnedEnter DEF EndResolve, EndDescribe, Refuse, Enter
<1>4. CASE MergeVariant
  BY <1>4, MergeVariantOwned
<1>5. CASE EndMerge
  BY <1>5, EndMergeOwned
<1>6. CASE Upgrade
  BY <1>6, OwnedKept DEF Upgrade
<1>7. CASE UNCHANGED vars
  BY <1>7, OwnedKept DEF vars
<1> QED
  BY <1>1, <1>2, <1>3, <1>4, <1>5, <1>6, <1>7 DEF Next

\* The parameters of a call are those of the lines that it keeps.
LEMMA KeptLines ==
  ASSUME query \in Queries, NEW call
  PROVE  /\ KeptText(call) \in Seq(Line)
         /\ Range(KeptText(call)) = {Lines[l] : l \in {k \in DOMAIN Lines : Kept(k, call)}}
<1>1. Lines \in Seq(Line)
  BY QueryType
<1> QED
  BY <1>1, SelectedElements DEF KeptText

LEMMA NamesOfCall ==
  ASSUME query \in Queries, NEW call, NEW n
  PROVE  n \in NamesOf(CallUses(call)) <=>
           \E l \in DOMAIN Lines : Kept(l, call) /\ n \in NamesOf(Lines[l].params)
<1> DEFINE text == KeptText(call)
<1>1. Range(text) = {Lines[l] : l \in {k \in DOMAIN Lines : Kept(k, call)}}
  BY KeptLines
<1>2. \A l \in DOMAIN Lines : Kept(l, call) => Lines[l].params \subseteq Use
  BY LineType DEF Kept
<1>3. \A i \in DOMAIN text : text[i].params \subseteq Use
  BY <1>1, <1>2 DEF Range
<1>4. \A use \in Use : Typed(use, call.tables).name = use.name
  BY DEF Use, Typed
<1>5. n \in NamesOf(CallUses(call)) <=> \E i \in DOMAIN text : n \in NamesOf(text[i].params)
  <2>1. CallUses(call) = UNION {{Typed(use, call.tables) : use \in text[i].params} : i \in DOMAIN text}
    BY DEF CallUses, UsesOf
  <2> HIDE DEF text
  <2>2. n \in NamesOf(CallUses(call)) <=>
          \E i \in DOMAIN text : \E use \in text[i].params : n = Typed(use, call.tables).name
    BY <2>1 DEF NamesOf
  <2>3. \A i \in DOMAIN text : \A use \in text[i].params : Typed(use, call.tables).name = use.name
    BY <1>3, <1>4
  <2> QED
    BY <2>2, <2>3 DEF NamesOf
<1> HIDE DEF text
<1>6. (\E i \in DOMAIN text : n \in NamesOf(text[i].params)) <=>
        \E line \in Range(text) : n \in NamesOf(line.params)
  BY DEF Range
<1> QED
  BY <1>1, <1>5, <1>6

\* A variant has a parameter if a block that uses it is enabled.
LEMMA NamesOfBlocks ==
  ASSUME query \in Queries, NEW call, NEW n
  PROVE  n \in NamesOf(CallUses(call)) <=> \E b \in Blocks(n) : b \subseteq call.on
BY NamesOfCall DEF Blocks, Kept

\* Any options can be on together.
LEMMA AnyOptions ==
  ASSUME Counted, ~TooMany(VariantCount), NEW on \in SUBSET Range(options)
  PROVE  \E mask \in Masks : Enabled(mask) = on
<1>1. 0 \in Masks /\ CallOf(0) \in Calls
  BY MasksAreCalls
<1>2. CallOf(0).tables \in Selections
  BY <1>1 DEF Calls
<1>3. [on |-> on, tables |-> CallOf(0).tables] \in Calls
  BY <1>2 DEF Calls, Counted
<1>4. PICK mask \in Masks : CallOf(mask) = [on |-> on, tables |-> CallOf(0).tables]
  BY <1>3, MasksAreCalls
<1>5. Enabled(mask) = on
  BY <1>4 DEF CallOf
<1> QED
  BY <1>5

LEMMA OwnsItsBlocks ==
  ASSUME VariantsKnown, OwnedInv, phase = "accepted", NEW n \in DOMAIN merged.types, NEW i \in DOMAIN options
  PROVE  Owns(i, n) <=> Blocks(n) = {{options[i]}}
<1>1. /\ Counted /\ ~TooMany(VariantCount) /\ query \in Queries
      /\ \A mask \in Masks : mask + 1 \in DOMAIN variants /\ (mask + 1) - 1 = mask
  <2>1. \A mask \in Masks : mask + 1 \in DOMAIN variants /\ (mask + 1) - 1 = mask
    BY DEF VariantsKnown, ResolvedInv, Masks
  <2> QED
    BY <2>1, CountedQuery DEF VariantsKnown, ResolvedInv, Countable, Counted
<1>2. /\ merged.presence[n] = {m \in DOMAIN variants : n \in NamesOf(variants[m].uses)}
      /\ merged.presence[n] # {}
  BY DEF VariantsKnown, CompositionInv, MergeInv, Merged, OwnedInv
<1>3. ASSUME NEW mask \in Masks
      PROVE  /\ mask + 1 \in merged.presence[n] <=> \E b \in Blocks(n) : b \subseteq Enabled(mask)
             /\ mask + 1 \in Having(i) <=> options[i] \in Enabled(mask)
  <2>1. PICK m : m = mask + 1
    OBVIOUS
  <2>2. m \in DOMAIN variants /\ m - 1 = mask
    BY <1>1, <2>1
  <2>3. variants[m].uses = CallUses(CallOf(m - 1))
    BY <2>2, VariantsByCall
  <2>4. CallOf(m - 1).on = Enabled(mask)
    BY <2>2 DEF CallOf
  <2>5. n \in NamesOf(variants[m].uses) <=> \E b \in Blocks(n) : b \subseteq Enabled(mask)
    BY <1>1, <2>3, <2>4, NamesOfBlocks
  <2>6. Bit(mask, i) <=> options[i] \in Enabled(mask)
    <3>1. CallOf(mask) \in Calls
      BY <1>1, MasksAreCalls
    <3> QED
      BY <1>1, <3>1, CaseOfCall
  <2>7. \A o \in Masks : o + 1 = mask + 1 => o = mask
    BY DEF Masks
  <2>8. mask + 1 \in Having(i) <=> Bit(mask, i)
    BY <2>7 DEF Having
  <2> QED
    BY <1>2, <2>1, <2>2, <2>5, <2>6, <2>8
<1>4. \A m \in merged.presence[n] \cup Having(i) : \E mask \in Masks : m = mask + 1
  <2>1. \A m \in DOMAIN variants : m - 1 \in Masks /\ m = (m - 1) + 1
    BY SeqDomain DEF VariantsKnown, CompositionInv, VariantsInv
  <2> QED
    BY <1>2, <2>1 DEF Having
<1>5. Owns(i, n) <=> \A mask \in Masks : (\E b \in Blocks(n) : b \subseteq Enabled(mask)) <=> options[i] \in Enabled(mask)
  <2> DEFINE S == merged.presence[n]
             T == Having(i)
  <2>1. Owns(i, n) <=> S = T
    BY DEF Owns
  <2> HIDE DEF S, T
  <2>2. \A m \in S \cup T : \E mask \in Masks : m = mask + 1
    BY <1>4 DEF S, T
  <2>3. S = T <=> \A mask \in Masks : mask + 1 \in S <=> mask + 1 \in T
    BY <2>2
  <2>4. ASSUME NEW mask \in Masks
        PROVE  /\ mask + 1 \in S <=> \E b \in Blocks(n) : b \subseteq Enabled(mask)
               /\ mask + 1 \in T <=> options[i] \in Enabled(mask)
    BY <1>3 DEF S, T
  <2> QED
    BY <2>1, <2>3, <2>4, Zenon
<1>6. ASSUME Blocks(n) = {{options[i]}} PROVE Owns(i, n)
  BY <1>5, <1>6
<1>7. ASSUME Owns(i, n) PROVE Blocks(n) = {{options[i]}}
  <2>1. ASSUME NEW b \in Blocks(n) PROVE b = {options[i]}
    <3>1. b = {} \/ \E o \in Range(options) : b = {o}
      <4>1. /\ Parsed(Len(Lines)) /\ DOMAIN Lines = 1 .. Len(Lines) /\ Len(Lines) \in Nat
        BY <1>1, QueryType DEF VariantsKnown, ParseInv
      <4>2. \A l \in DOMAIN Lines : InBlock(l) = {} \/ \E o \in Range(options) : InBlock(l) = {o}
        <5>1. \A l \in DOMAIN Lines : l \in 1 .. (Len(Lines) + 1)
          BY <4>1
        <5> QED
          BY <4>1, <5>1 DEF Parsed
      <4> QED
        BY <4>2 DEF Blocks
    <3>2. b \subseteq Range(options)
      BY <3>1
    <3>3. PICK mask \in Masks : Enabled(mask) = b
      BY <1>1, <3>2, AnyOptions
    <3>4. options[i] \in b
      BY <1>5, <1>7, <3>3
    <3> QED
      BY <3>1, <3>4
  <2>2. Blocks(n) # {}
    <3>1. PICK m : m \in merged.presence[n]
      BY <1>2
    <3>2. PICK mask \in Masks : m = mask + 1
      BY <1>4, <3>1
    <3> QED
      BY <1>3, <3>1, <3>2
  <2> QED
    BY <2>1, <2>2
<1> QED
  BY <1>6, <1>7

LEMMA OwnersByBlocks == VariantsKnown /\ OwnedInv => OwnersFollowTheBlocks
<1> SUFFICES ASSUME VariantsKnown, OwnedInv, phase = "accepted", NEW n \in DOMAIN merged.types
             PROVE  owner[n] = IF \E o \in OptionNames : Blocks(n) = {{o}}
                               THEN CHOOSE o \in OptionNames : Blocks(n) = {{o}} ELSE None
  BY DEF OwnersFollowTheBlocks, CompositionAccess
<1>1. owner[n] = IF \E i \in DOMAIN options : Owns(i, n)
                 THEN options[CHOOSE i \in DOMAIN options : Owns(i, n)] ELSE None
  BY DEF OwnedInv
<1>2. \A i \in DOMAIN options : Owns(i, n) <=> Blocks(n) = {{options[i]}}
  BY OwnsItsBlocks
<1>3. OptionNames = {options[i] : i \in DOMAIN options}
  <2>1. Range(options) = OptionNames
    BY CountedQuery DEF VariantsKnown, ResolvedInv, Countable, Counted
  <2> QED
    BY <2>1 DEF Range
<1>4. CASE \E i \in DOMAIN options : Owns(i, n)
  <2> DEFINE i == CHOOSE j \in DOMAIN options : Owns(j, n)
             o == CHOOSE p \in OptionNames : Blocks(n) = {{p}}
  <2>1. i \in DOMAIN options /\ Owns(i, n) /\ owner[n] = options[i]
    BY <1>1, <1>4
  <2> HIDE DEF i
  <2>2. options[i] \in OptionNames /\ Blocks(n) = {{options[i]}}
    BY <1>2, <1>3, <2>1
  <2>3. o \in OptionNames /\ Blocks(n) = {{o}}
    BY <2>2
  <2> HIDE DEF o
  <2>4. o = options[i]
    <3>1. {o} = {options[i]}
      BY <2>2, <2>3
    <3> QED
      BY <3>1
  <2> QED
    BY <2>1, <2>2, <2>4 DEF o
<1>5. CASE ~\E i \in DOMAIN options : Owns(i, n)
  <2>1. ~\E o \in OptionNames : Blocks(n) = {{o}}
    BY <1>2, <1>3, <1>5
  <2> QED
    BY <1>1, <1>5, <2>1
<1> QED
  BY <1>4, <1>5

LEMMA OwnersAreKnown == Spec => []OwnedInv
<1>1. Init => OwnedInv
  BY DEF Init, OwnedInv
<1>2. VariantsKnown /\ OwnedInv /\ [Next]_vars => OwnedInv'
  BY NextOwned DEF VariantsKnown
<1> QED
  BY <1>1, <1>2, VariantsAreKnown, PTL DEF Spec

\* A parameter lives in the struct of an option exactly if all its uses stand in
\* blocks of that option, for any query (mergeQueryVariants).
THEOREM OwnersAreOfBlocks == Spec => []OwnersFollowTheBlocks
<1> QED
  BY OwnersAreKnown, VariantsAreKnown, OwnersByBlocks, PTL
-----------------------------------------------------------------------------
(***************************************************************************)
(* Refusals and their causes.                                              *)
(***************************************************************************)
LEMMA FlattenIsSeq ==
  ASSUME NEW S, NEW s \in Seq(Seq(S))
  PROVE  FlattenSeq(s) \in Seq(S)
<1> DEFINE n == Len(s)
           V == Seq(S)
           Then(v, i) == IF i = 1 THEN s[i] ELSE v \o s[i]
           Pass == [i \in 1 .. n |-> [v \in V |-> Then(v, i)]]
           Is(f) == f = [i \in 1 .. n |-> IF i = 1 THEN s[i] ELSE f[i - 1] \o s[i]]
<1>0. n \in Nat /\ <<>> \in V /\ \A i \in 1 .. n : s[i] \in V
  OBVIOUS
<1>1. \A i \in 1 .. n, v \in V : Then(v, i) \in V
  BY <1>0
<1>2. CASE n = 0
  <2>1. FlattenSeq(s) = s
    BY <1>2 DEF FlattenSeq
  <2>2. s = <<>>
    BY <1>2
  <2>3. FlattenSeq(s) = <<>>
    BY <2>1, <2>2, Zenon
  <2> QED
    BY <2>3
<1>3. CASE n # 0
  <2>1. Pass \in [1 .. n -> [V -> V]]
    <3> HIDE DEF V, Then, n
    <3> QED
      BY <1>1
  <2>2. PICK f \in [0 .. n -> V] : Runs(f, <<>>, n, Pass)
    <3> HIDE DEF Pass, V, n
    <3> QED
      BY <1>0, <2>1, LoopRuns
  <2>3. \A i \in 1 .. n : f[i] = Then(f[i - 1], i)
    <3> HIDE DEF V, n, Then
    <3>1. \A i \in 1 .. n : i - 1 \in 0 .. n
      BY <1>0
    <3>2. \A i \in 1 .. n : f[i - 1] \in V
      BY <3>1
    <3> QED
      BY <2>2, <3>2 DEF Runs
  <2> DEFINE h == [i \in 1 .. n |-> f[i]]
  <2>4. Is(h)
    <3>1. ASSUME NEW i \in 1 .. n PROVE h[i] = IF i = 1 THEN s[i] ELSE h[i - 1] \o s[i]
      <4>1. CASE i = 1
        BY <2>3, <4>1
      <4>2. CASE i # 1
        <5>1. i - 1 \in 1 .. n
          BY <1>0, <4>2
        <5>2. h[i] = f[i] /\ h[i - 1] = f[i - 1]
          BY <5>1
        <5> QED
          BY <2>3, <4>2, <5>2
      <4> QED
        BY <4>1, <4>2
    <3>2. h = [i \in 1 .. n |-> h[i]]
      OBVIOUS
    <3> HIDE DEF h, n, V
    <3>3. h = [i \in 1 .. n |-> IF i = 1 THEN s[i] ELSE h[i - 1] \o s[i]]
      BY <3>1, <3>2, Zenon
    <3> QED
      BY <3>3
  <2>5. FlattenSeq(s) = (CHOOSE g : Is(g))[n]
    BY <1>3 DEF FlattenSeq
  <2> DEFINE g == CHOOSE e : Is(e)
  <2>6. Is(g)
    <3> HIDE DEF Is, h
    <3> QED
      BY <2>4
  <2> HIDE DEF g
  <2>7. \A i \in 1 .. n : g[i] = IF i = 1 THEN s[i] ELSE g[i - 1] \o s[i]
    <3> HIDE DEF n, V
    <3> QED
      BY <2>6
  <2>8. n \in {i \in 0 .. n : i = 0 \/ g[i] \in V}
    <3> DEFINE P == {i \in 0 .. n : i = 0 \/ g[i] \in V}
    <3>1. 0 \in P
      BY <1>0
    <3>2. ASSUME NEW i \in 1 .. n, i - 1 \in P PROVE i \in P
      <4>1. s[i] \in V /\ i \in 0 .. n
        BY <1>0
      <4>2. CASE i = 1
        BY <2>7, <4>1, <4>2
      <4>3. CASE i # 1
        <5>0. i - 1 # 0
          BY <4>3
        <5>1. g[i - 1] \in V /\ g[i] = g[i - 1] \o s[i]
          <6>1. g[i - 1] \in V
            <7> HIDE DEF V
            <7> QED
              BY <3>2, <5>0
          <6>2. g[i] = g[i - 1] \o s[i]
            <7> HIDE DEF V, P
            <7> QED
              BY <2>7, <4>3
          <6> QED
            BY <6>1, <6>2
        <5>2. g[i] \in V
          BY <4>1, <5>1
        <5> QED
          BY <4>1, <5>2
      <4> QED
        BY <4>2, <4>3
    <3>3. n \in 0 .. n
      BY <1>0
    <3> HIDE DEF P
    <3> QED
      BY <1>0, <3>1, <3>2, <3>3, UpTo DEF P
  <2> QED
    BY <1>3, <2>5, <2>8 DEF g
<1> QED
  BY <1>2, <1>3

\* The columns and parameters of a call.
LEMMA CallTypes ==
  ASSUME query \in Queries, NEW call
  PROVE  /\ IsSeq(CallColumns(call))
         /\ \A u \in CallUses(call) : u = [name |-> u.name, type |-> u.type, external |-> u.external]
<1> DEFINE text == KeptText(call)
           T == {Typed(c, call.tables) : c \in Column}
           L == [i \in DOMAIN text |-> [j \in DOMAIN text[i].columns |-> Typed(text[i].columns[j], call.tables)]]
<1>1. text \in Seq(Line) /\ Range(text) = {Lines[l] : l \in {k \in DOMAIN Lines : Kept(k, call)}}
  BY KeptLines
<1>2. \A l \in DOMAIN Lines : Kept(l, call) => Lines[l].params \subseteq Use /\ Lines[l].columns \in Seq(Column)
  BY LineType DEF Kept
<1>3. \A i \in DOMAIN text : text[i].params \subseteq Use /\ text[i].columns \in Seq(Column)
  BY <1>1, <1>2 DEF Range
<1>4. CallColumns(call) = FlattenSeq(L)
  BY DEF CallColumns, ColumnsOf
<1>5. CallUses(call) = UNION {{Typed(use, call.tables) : use \in text[i].params} : i \in DOMAIN text}
  BY DEF CallUses, UsesOf
<1>6. DOMAIN text = 1 .. Len(text) /\ Len(text) \in Nat
  BY <1>1
<1> HIDE DEF text
<1>7. L \in Seq(Seq(T))
  <2>1. ASSUME NEW i \in DOMAIN text PROVE L[i] \in Seq(T)
    <3> DEFINE c == text[i].columns
    <3>1. c \in Seq(Column)
      BY <1>3
    <3> HIDE DEF c
    <3>2. DOMAIN c = 1 .. Len(c) /\ Len(c) \in Nat /\ \A j \in 1 .. Len(c) : c[j] \in Column
      BY <3>1
    <3>3. L[i] = [j \in 1 .. Len(c) |-> Typed(c[j], call.tables)]
      BY <3>2 DEF c
    <3>4. \A j \in 1 .. Len(c) : Typed(c[j], call.tables) \in T
      BY <3>2
    <3> HIDE DEF T, L
    <3> QED
      BY <3>2, <3>3, <3>4
  <2>2. L = [i \in 1 .. Len(text) |-> L[i]]
    BY <1>6
  <2> HIDE DEF L, T
  <2> QED
    BY <1>6, <2>1, <2>2
<1>8. CallColumns(call) \in Seq(T)
  <2> HIDE DEF L, T
  <2> QED
    BY <1>4, <1>7, FlattenIsSeq
<1>9. ASSUME NEW u \in CallUses(call) PROVE u = [name |-> u.name, type |-> u.type, external |-> u.external]
  <2>1. PICK i \in DOMAIN text : u \in {Typed(use, call.tables) : use \in text[i].params}
    BY <1>5
  <2>2. PICK use \in Use : u = Typed(use, call.tables)
    BY <1>3, <2>1
  <2>3. use = [name |-> use.name, type |-> use.type, external |-> use.external]
    BY DEF Use
  <2>4. PICK ty : ty = TypeOf(use.type, call.tables)
    OBVIOUS
  <2>5. Typed(use, call.tables) = [name |-> use.name, type |-> ty, external |-> use.external]
    BY <2>3, <2>4 DEF Typed
  <2> QED
    BY <2>2, <2>5
<1> QED
  BY <1>8, <1>9 DEF IsSeq

AllUses == UNION {CallUses(call) : call \in Calls}

\* The variants have the uses of all calls, once all are resolved.
LEMMA PreparedUses ==
  ASSUME VariantsKnown, phase \notin {"read", "count", "refused"}
  PROVE  /\ Prepared \subseteq AllUses
         /\ (\A mask \in Masks : mask + 1 \in DOMAIN variants) => Prepared = AllUses
<1>1. Prepared \subseteq AllUses
  <2>1. ASSUME NEW m \in DOMAIN variants PROVE variants[m].uses \subseteq AllUses
    BY VariantsByCall DEF AllUses
  <2> QED
    BY <2>1 DEF Prepared
<1>2. ASSUME \A mask \in Masks : mask + 1 \in DOMAIN variants, NEW call \in Calls
      PROVE  CallUses(call) \subseteq Prepared
  <2>1. Counted /\ ~TooMany(VariantCount)
    BY CountedQuery DEF VariantsKnown, ResolvedInv, Countable
  <2>2. PICK mask \in Masks : CallOf(mask) = call
    BY <2>1, MasksAreCalls
  <2>3. (mask + 1) - 1 = mask
    BY DEF Masks
  <2>4. PICK m \in DOMAIN variants : m - 1 = mask
    BY <1>2, <2>3
  <2>5. variants[m].uses = CallUses(call)
    BY <2>2, <2>4, VariantsByCall
  <2> QED
    BY <2>5 DEF Prepared
<1> QED
  BY <1>1, <1>2 DEF AllUses

\* A call of an accepted query, and the variant that is its case.
LEMMA VariantOfCall ==
  ASSUME VariantsKnown, phase \in {"describe", "merge", "accepted"}, NEW call \in Calls
  PROVE  \E m \in DOMAIN variants : CallOf(m - 1) = call
<1>1. Counted /\ ~TooMany(VariantCount)
  BY CountedQuery DEF VariantsKnown, ResolvedInv, Countable
<1>2. PICK mask \in Masks : CallOf(mask) = call
  BY <1>1, MasksAreCalls
<1>3. mask + 1 \in DOMAIN variants /\ (mask + 1) - 1 = mask
  BY DEF VariantsKnown, ResolvedInv, Masks
<1> QED
  BY <1>2, <1>3

LEMMA ComposedSource ==
  ASSUME ParseInv, CompositionInv, phase \notin {"read", "refused"}
  PROVE  /\ Range(options) = OptionNames
         /\ Composed <=> OptionNames # {} \/ TableChoices # <<>>
<1>1. Range(options) = OptionNames
  <2>1. DOMAIN Lines = 1 .. Len(Lines)
    BY QueryType DEF ParseInv
  <2> QED
    BY <2>1 DEF ParseInv, Parsed, NamesUpTo, OptionNames
<1>2. options # <<>> <=> Range(options) # {}
  <2>1. PICK S : options \in Seq(S)
    BY DEF CompositionInv, OptionsInv, IsSeq
  <2>2. DOMAIN options = 1 .. Len(options) /\ Len(options) \in Nat /\ (options # <<>> <=> Len(options) # 0)
    BY <2>1
  <2>3. Len(options) # 0 => 1 \in DOMAIN options
    BY <2>2
  <2>4. Len(options) = 0 => DOMAIN options = {}
    BY <2>2
  <2> QED
    BY <2>2, <2>3, <2>4 DEF Range
<1> QED
  BY <1>1, <1>2 DEF Composed

LEMMA CountVariantsCause ==
  ASSUME VariantsKnown, CountVariants, phase' = "refused"
  PROVE  Cause
<1>1. phase = "count"
  BY DEF CountVariants
<1>2. /\ Range(options) = OptionNames
      /\ Composed <=> OptionNames # {} \/ TableChoices # <<>>
  BY <1>1, ComposedSource DEF VariantsKnown
<1>3. CASE query.exec /\ (query.server \/ Composed)
  BY <1>2, <1>3 DEF Cause
<1>4. CASE SharedName
  BY <1>2, <1>4 DEF Cause, SharedName
<1>5. CASE WrongTable
  BY <1>5 DEF Cause
<1>6. CASE TooMany(VariantCount) /\ ~SharedName
  <2>1. Counted
    BY <1>1, <1>6, CountedQuery DEF VariantsKnown
  <2>2. Cardinality(Calls) > MaxVariants
    BY <1>6, <2>1, TooManyCalls
  <2> QED
    BY <2>2 DEF Cause
<1> QED
  BY <1>3, <1>4, <1>5, <1>6 DEF CountVariants, Enter

\* Two uses that disagree are a cause, and so is what a call leaves unresolved.
LEMMA ClashCause ==
  ASSUME NEW uses, uses \subseteq AllUses, Clash(uses)
  PROVE  Cause
<1>1. Clash(AllUses)
  BY DEF Clash
<1> QED
  BY <1>1 DEF Cause, AllUses

LEMMA ResolveVariantCause ==
  ASSUME VariantsKnown, ResolveVariant, phase' = "refused"
  PROVE  Cause
<1>1. phase = "resolve" /\ at - 1 \in Masks
  BY DEF ResolveVariant
<1>2. PICK call : call = CallOf(at - 1)
  OBVIOUS
<1>3. Counted /\ ~TooMany(VariantCount)
  BY <1>1, CountedQuery DEF VariantsKnown, ResolvedInv, Countable
<1>4. call \in Calls
  BY <1>1, <1>2, <1>3, MasksAreCalls
<1>5. CompositionSQL(at - 1) = KeptText(call) /\ SelectedTables(at - 1) = call.tables
  BY <1>1, <1>2, TextOfCall DEF VariantsKnown, CallOf
<1>6. /\ UsesOf(CompositionSQL(at - 1), SelectedTables(at - 1)) = CallUses(call)
      /\ ColumnsOf(CompositionSQL(at - 1), SelectedTables(at - 1)) = CallColumns(call)
  BY <1>5 DEF CallUses, CallColumns
<1>7. \/ SlotsOf(KeptText(call)) # ChoiceNames
      \/ Clash(CallUses(call)) \/ Clash(Prepared \cup CallUses(call))
      \/ Unresolved(CallColumns(call), CallUses(call))
  BY <1>1, <1>5, <1>6 DEF ResolveVariant
<1>8. CASE SlotsOf(KeptText(call)) # ChoiceNames \/ Unresolved(CallColumns(call), CallUses(call))
  BY <1>4, <1>8 DEF Cause
<1>9. CallUses(call) \subseteq AllUses /\ Prepared \subseteq AllUses
  BY <1>1, <1>4, PreparedUses DEF AllUses
<1>10. CASE Clash(CallUses(call)) \/ Clash(Prepared \cup CallUses(call))
  <2>1. Prepared \cup CallUses(call) \subseteq AllUses
    BY <1>9
  <2> QED
    BY <1>9, <1>10, <2>1, ClashCause
<1> QED
  BY <1>7, <1>8, <1>10

\* All masks have their variant when there is none left to resolve.
LEMMA AllResolved ==
  ASSUME VariantsKnown, phase = "resolve", at - 1 \notin Masks
  PROVE  \A mask \in Masks : mask + 1 \in DOMAIN variants
<1>1. DOMAIN variants = 1 .. (at - 1) /\ at \in Nat \ {0}
  BY SeqDomain DEF VariantsKnown, CompositionInv, VariantsInv
<1>2. Countable /\ Counted
  BY CountedQuery DEF VariantsKnown, ResolvedInv, Countable
<1>3. Masks = 0 .. (Weights[Digits] - 1) /\ Weights[Digits] \in Nat \ {0}
  BY <1>2, MaskDigits, NumbersAreChoices DEF Countable
<1>4. PICK w \in Nat : Masks = 0 .. (w - 1)
  BY <1>3
<1> QED
  BY <1>1, <1>4

LEMMA UnannotatedCause ==
  ASSUME VariantsKnown, phase \in {"resolve", "merge"}, \A mask \in Masks : mask + 1 \in DOMAIN variants, Unannotated
  PROVE  Cause
<1>1. Prepared = AllUses
  BY PreparedUses
<1>2. ~(query.annotated \subseteq NamesOf(AllUses))
  BY <1>1 DEF Unannotated
<1> QED
  BY <1>2 DEF Cause, AllUses

LEMMA DescribeCause ==
  ASSUME VariantsKnown, DescribeVariant \/ EndDescribe, phase' = "refused"
  PROVE  Cause
<1>1. phase = "describe"
  BY DEF DescribeVariant, EndDescribe
<1>2. CASE DescribeVariant
  <2>1. at \in DOMAIN variants /\ Unresolved(variants[at].columns, variants[at].uses)
    BY <1>1, <1>2 DEF DescribeVariant
  <2>2. PICK m \in DOMAIN variants : m = at
    BY <2>1
  <2>3. /\ CallOf(m - 1) \in Calls /\ variants[m].uses = CallUses(CallOf(m - 1))
        /\ variants[m].columns = CallColumns(CallOf(m - 1))
    BY <1>1, VariantsByCall
  <2>4. Unresolved(CallColumns(CallOf(m - 1)), CallUses(CallOf(m - 1)))
    BY <2>1, <2>2, <2>3
  <2> QED
    BY <2>3, <2>4 DEF Cause
<1>3. CASE EndDescribe
  <2>1. at \notin DOMAIN variants
    BY <1>3 DEF EndDescribe
  <2>2. PICK i \in DOMAIN variants : variants[i].version # variants[1].version
    BY <1>1, <1>3 DEF EndDescribe, Enter
  <2>3. DOMAIN variants = 1 .. Len(variants) /\ Len(variants) \in Nat /\ at \in Nat \ {0}
    BY SeqDomain DEF VariantsKnown, CompositionInv, VariantsInv
  <2>4. \A m \in DOMAIN variants : m < at
    BY <2>1, <2>3
  <2>5. 1 \in DOMAIN variants
    BY <2>3
  <2>6. variants[i].version \in 1 .. version /\ variants[1].version \in 1 .. version /\ version \in Nat \ {0}
    BY <1>1, <2>4, <2>5 DEF VariantsKnown, ResolvedInv, Described
  <2>7. version > 1
    BY <2>2, <2>6
  <2> QED
    BY <2>7 DEF Cause
<1> QED
  BY <1>2, <1>3

\* A parameter of the merged signature has the type and the source that each merged
\* variant gives it.
LEMMA MergedUse ==
  ASSUME VariantsKnown, NEW m \in DOMAIN variants, Fits(m), phase \in {"merge", "accepted"},
         NEW u \in variants[m].uses
  PROVE  /\ u.name \in DOMAIN merged.types
         /\ merged.types[u.name] = [type |-> u.type, external |-> u.external]
<1> DEFINE uses == variants[m].uses
<1>1. ~Clash(uses)
  BY DEF VariantsKnown, ResolvedInv, Resolves
<1> HIDE DEF uses
<1>2. u \in uses
  BY DEF uses
<1>3. UseOf(uses, u.name) = u
  <2>1. UseOf(uses, u.name) \in uses /\ UseOf(uses, u.name).name = u.name
    BY <1>2 DEF UseOf
  <2> QED
    BY <1>1, <1>2, <2>1 DEF Clash
<1>4. u.name \in NamesOf(uses)
  BY <1>2 DEF NamesOf
<1>5. u.name \in DOMAIN Parameters(uses) /\ Parameters(uses)[u.name] = [type |-> u.type, external |-> u.external]
  BY <1>3, <1>4 DEF Parameters
<1>6. /\ DOMAIN Parameters(uses) \subseteq DOMAIN merged.types
      /\ \A n \in DOMAIN Parameters(uses) : merged.types[n] = Parameters(uses)[n]
  BY DEF Fits, uses
<1> QED
  BY <1>5, <1>6

\* The names of columns and their types, as a refusal compares them.
Shape(call) == [i \in DOMAIN CallColumns(call) |-> <<CallColumns(call)[i].name, CallColumns(call)[i].type>>]

LEMMA KeepsColumnsByShape ==
  ASSUME VariantsKnown, phase = "merge", NEW m \in DOMAIN variants, 1 \in DOMAIN variants,
         Shape(CallOf(m - 1)) = Shape(CallOf(0))
  PROVE  KeepsColumns(variants[m].columns)
<1> DEFINE a == CallColumns(CallOf(m - 1))
           b == CallColumns(CallOf(0))
<1>1. variants[m].columns = a
  BY VariantsByCall
<1>2. variants[1].columns = b
  <2>1. PICK o \in DOMAIN variants : o = 1
    OBVIOUS
  <2>2. variants[o].columns = CallColumns(CallOf(o - 1))
    BY VariantsByCall
  <2>3. o - 1 = 0
    BY <2>1
  <2> QED
    BY <2>1, <2>2, <2>3
<1>3. IsSeq(a) /\ IsSeq(b)
  BY CallTypes DEF VariantsKnown, ParseInv
<1>4. [i \in DOMAIN a |-> <<a[i].name, a[i].type>>] = [i \in DOMAIN b |-> <<b[i].name, b[i].type>>]
  BY DEF Shape
<1> HIDE DEF a, b
<1>5. DOMAIN a = DOMAIN b /\ \A i \in DOMAIN a : a[i].name = b[i].name /\ a[i].type = b[i].type
  <2> DEFINE f == [i \in DOMAIN a |-> <<a[i].name, a[i].type>>]
             g == [i \in DOMAIN b |-> <<b[i].name, b[i].type>>]
  <2>1. DOMAIN f = DOMAIN a /\ DOMAIN g = DOMAIN b /\ f = g
    BY <1>4
  <2>2. ASSUME NEW i \in DOMAIN a PROVE a[i].name = b[i].name /\ a[i].type = b[i].type
    <3>1. f[i] = <<a[i].name, a[i].type>>
      OBVIOUS
    <3>2. g[i] = <<b[i].name, b[i].type>>
      BY <2>1
    <3>3. <<a[i].name, a[i].type>> = <<b[i].name, b[i].type>>
      <4> HIDE DEF f, g
      <4> QED
        BY <2>1, <3>1, <3>2
    <3> QED
      BY <3>3
  <2> QED
    BY <2>1, <2>2
<1>6. Len(a) = Len(b)
  <2>1. DOMAIN a = 1 .. Len(a) /\ DOMAIN b = 1 .. Len(b) /\ Len(a) \in Nat /\ Len(b) \in Nat
    BY <1>3, SeqDomain
  <2>2. \A x, y \in Nat : x < y => y \in 1 .. y /\ y \notin 1 .. x
    OBVIOUS
  <2>3. ~(Len(a) < Len(b)) /\ ~(Len(b) < Len(a))
    BY <1>5, <2>1, <2>2
  <2>4. \A x, y \in Nat : ~(x < y) /\ ~(y < x) => x = y
    OBVIOUS
  <2> QED
    BY <2>1, <2>3, <2>4, Zenon
<1> QED
  BY <1>1, <1>2, <1>5, <1>6 DEF KeepsColumns

LEMMA MergeVariantCause ==
  ASSUME VariantsKnown, OwnedInv, MergeVariant, phase' = "refused"
  PROVE  Cause
<1>1. phase = "merge" /\ at \in DOMAIN variants
  BY DEF MergeVariant
<1>2. PICK m \in DOMAIN variants : m = at
  BY <1>1
<1>3. ~KeepsColumns(variants[m].columns) \/ ChangesParameter(Parameters(variants[m].uses))
  BY <1>1, <1>2 DEF MergeVariant
<1>4. /\ DOMAIN variants = 1 .. Len(variants) /\ Len(variants) \in Nat /\ 1 \in DOMAIN variants
  BY <1>1, SeqDomain DEF VariantsKnown, CompositionInv, VariantsInv
<1>5. CallOf(m - 1) \in Calls /\ CallOf(0) \in Calls
  <2>1. CallOf(m - 1) \in Calls /\ Counted /\ ~TooMany(VariantCount)
    BY <1>1, VariantsByCall
  <2> QED
    BY <2>1, MasksAreCalls
<1>6. CASE ~KeepsColumns(variants[m].columns)
  <2>1. Shape(CallOf(m - 1)) # Shape(CallOf(0))
    BY <1>1, <1>4, <1>6, KeepsColumnsByShape
  <2> QED
    BY <1>5, <2>1 DEF Cause, Shape
<1>7. CASE ChangesParameter(Parameters(variants[m].uses))
  <2>1. PICK n \in DOMAIN Parameters(variants[m].uses) \cap DOMAIN merged.types :
          merged.types[n] # Parameters(variants[m].uses)[n]
    BY <1>7 DEF ChangesParameter
  <2>2. merged.presence[n] # {} /\ merged.presence[n] = {o \in Merged : n \in NamesOf(variants[o].uses)}
    BY <1>1 DEF OwnedInv, VariantsKnown, CompositionInv, MergeInv
  <2>3. PICK o \in Merged : n \in NamesOf(variants[o].uses)
    BY <2>2
  <2>4. o \in DOMAIN variants /\ Fits(o)
    BY <1>1 DEF VariantsKnown, CompositionInv, MergeInv
  <2>5. PICK u \in variants[o].uses : u.name = n
    BY <2>3 DEF NamesOf
  <2>6. merged.types[n] = [type |-> u.type, external |-> u.external]
    BY <1>1, <2>4, <2>5, MergedUse
  <2>7. n \in NamesOf(variants[m].uses)
        /\ Parameters(variants[m].uses)[n] = [type |-> UseOf(variants[m].uses, n).type,
                                               external |-> UseOf(variants[m].uses, n).external]
    BY <2>1 DEF Parameters
  <2>8. PICK w \in variants[m].uses : w = UseOf(variants[m].uses, n) /\ w.name = n
    BY <2>7 DEF UseOf, NamesOf
  <2>9. u # w
    BY <2>1, <2>6, <2>7, <2>8
  <2>10. Clash(variants[o].uses \cup variants[m].uses)
    BY <2>5, <2>8, <2>9 DEF Clash
  <2>11. Prepared \subseteq AllUses
    BY <1>1, PreparedUses
  <2>12. variants[o].uses \cup variants[m].uses \subseteq AllUses
    BY <2>4, <2>11 DEF Prepared
  <2> QED
    BY <2>10, <2>12, ClashCause
<1> QED
  BY <1>3, <1>6, <1>7

LEMMA EndMergeCause ==
  ASSUME VariantsKnown, OwnedInv, EndMerge, phase' = "refused"
  PROVE  Cause
<1>1. phase = "merge" /\ (FieldTaken \/ Unannotated)
  BY DEF EndMerge, Enter
<1>2. \A mask \in Masks : mask + 1 \in DOMAIN variants
  BY <1>1 DEF VariantsKnown, ResolvedInv
<1>3. CASE Unannotated
  BY <1>1, <1>2, <1>3, UnannotatedCause
<1>4. CASE FieldTaken
  <2>1. DOMAIN merged.types \subseteq NamesOf(AllUses)
    <3>1. ASSUME NEW n \in DOMAIN merged.types PROVE n \in NamesOf(AllUses)
      <4>1. merged.presence[n] # {} /\ merged.presence[n] = {o \in Merged : n \in NamesOf(variants[o].uses)}
        BY <1>1 DEF OwnedInv, VariantsKnown, CompositionInv, MergeInv
      <4>2. PICK o \in Merged : n \in NamesOf(variants[o].uses)
        BY <4>1
      <4>3. o \in DOMAIN variants
        BY <1>1 DEF VariantsKnown, CompositionInv, MergeInv
      <4>4. variants[o].uses \subseteq AllUses
        BY <1>1, <4>3, PreparedUses DEF Prepared
      <4> QED
        BY <4>2, <4>4 DEF NamesOf
    <3> QED
      BY <3>1
  <2>2. Range(options) = OptionNames /\ (OptionNames # {} \/ TableChoices # <<>>)
    BY <1>1, ComposedSource DEF VariantsKnown, ResolvedInv
  <2>3. (OptionNames \cup ChoiceNames) \cap NamesOf(AllUses) # {}
    BY <1>4, <2>1, <2>2 DEF FieldTaken
  <2> QED
    BY <2>2, <2>3 DEF Cause, AllUses
<1> QED
  BY <1>1, <1>3, <1>4

\* The causes one by one: in the source, in the number of calls, in one call, or in
\* two calls that do not fit.
SourceCause ==
  \/ IllFormed
  \/ query.exec /\ (query.server \/ OptionNames # {} \/ TableChoices # <<>>)
  \/ \E i, j \in DOMAIN TableChoices : i # j /\ TableChoices[i].name = TableChoices[j].name
  \/ ChoiceNames \cap OptionNames # {}
  \/ WrongTable
NumberCause == Cardinality(Calls) > MaxVariants
CallCause ==
  \E call \in Calls : SlotsOf(KeptText(call)) # ChoiceNames \/ Unresolved(CallColumns(call), CallUses(call))
ShapeCause == \E c, d \in Calls : Shape(c) # Shape(d)
UsesCause ==
  \/ Clash(AllUses)
  \/ (OptionNames # {} \/ TableChoices # <<>>) /\ (OptionNames \cup ChoiceNames) \cap NamesOf(AllUses) # {}
  \/ ~(query.annotated \subseteq NamesOf(AllUses))

LEMMA CausesAre ==
  Cause <=> SourceCause \/ NumberCause \/ CallCause \/ ShapeCause \/ UsesCause \/ version > 1
<1>1. ShapeCause <=>
        \E c, d \in Calls :
          [i \in DOMAIN CallColumns(c) |-> <<CallColumns(c)[i].name, CallColumns(c)[i].type>>]
            # [i \in DOMAIN CallColumns(d) |-> <<CallColumns(d)[i].name, CallColumns(d)[i].type>>]
  BY DEF ShapeCause, Shape
<1> QED
  BY <1>1, Zenon DEF Cause, SourceCause, NumberCause, CallCause, UsesCause, AllUses

LEMMA SameCause ==
  ASSUME UNCHANGED <<query, version>>
  PROVE  Cause' <=> Cause
<1>1. Lines' = Lines /\ TableChoices' = TableChoices /\ query' = query /\ version' = version
  BY DEF Lines, TableChoices
<1>2. OptionNames' = OptionNames /\ ChoiceNames' = ChoiceNames
  BY <1>1 DEF OptionNames, ChoiceNames
<1>3. \A l : InBlock(l)' = InBlock(l)
  BY <1>1 DEF InBlock, Opens
<1>4. \A n : TablesOf(n)' = TablesOf(n)
  BY <1>1 DEF TablesOf
<1>5. Selections' = Selections
  BY <1>1, <1>2, <1>4 DEF Selections
<1>6. Calls' = Calls
  BY <1>2, <1>5 DEF Calls
<1>7. \A c : KeptText(c)' = KeptText(c)
  BY <1>1, <1>3 DEF KeptText, Kept
<1>8. \A c : CallUses(c)' = CallUses(c) /\ CallColumns(c)' = CallColumns(c)
  BY <1>7 DEF CallUses, CallColumns
<1>9. (IllFormed' <=> IllFormed) /\ (WrongTable' <=> WrongTable)
  BY <1>1, <1>3 DEF IllFormed, WrongTable
<1>10. AllUses' = AllUses
  BY <1>6, <1>8 DEF AllUses
<1>11. \A c : Shape(c)' = Shape(c)
  BY <1>8 DEF Shape
<1>12. SourceCause' <=> SourceCause
  BY <1>1, <1>2, <1>9 DEF SourceCause
<1>13. NumberCause' <=> NumberCause
  BY <1>6 DEF NumberCause
<1>14. CallCause' <=> CallCause
  BY <1>2, <1>6, <1>7, <1>8 DEF CallCause
<1>15. ShapeCause' <=> ShapeCause
  BY <1>6, <1>11 DEF ShapeCause
<1>16. UsesCause' <=> UsesCause
  BY <1>1, <1>2, <1>10 DEF UsesCause
<1>17. Cause' <=> (SourceCause \/ NumberCause \/ CallCause \/ ShapeCause \/ UsesCause \/ version > 1)'
  BY CausesAre, PTL
<1> QED
  BY <1>1, <1>12, <1>13, <1>14, <1>15, <1>16, <1>17, CausesAre

LEMMA RefusedForCause ==
  ASSUME VariantsKnown, OwnedInv, [Next]_vars, phase = "refused" => Cause
  PROVE  (phase = "refused" => Cause)'
<1>1. UNCHANGED <<query, version>> => (Cause' <=> Cause)
  BY SameCause
<1>2. ASSUME phase' = "refused" PROVE Cause'
  <2>1. CASE ReadLine \/ EndLines
    <3>1. phase = "read" /\ UNCHANGED <<query, version>>
      BY <2>1 DEF ReadLine, EndLines, Refuse
    <3>2. IllFormed
      BY <1>2, <3>1, NextParse DEF VariantsKnown
    <3> QED
      BY <1>1, <3>1, <3>2 DEF Cause
  <2>2. CASE CountVariants
    BY <1>1, <1>2, <2>2, CountVariantsCause DEF CountVariants, Refuse, Enter
  <2>3. CASE ResolveVariant
    BY <1>1, <1>2, <2>3, ResolveVariantCause DEF ResolveVariant, Refuse
  <2>4. CASE EndResolve
    <3>1. phase = "resolve" /\ at - 1 \notin Masks /\ Unannotated /\ UNCHANGED <<query, version>>
      BY <1>2, <2>4 DEF EndResolve, Refuse, Enter
    <3> QED
      BY <1>1, <3>1, AllResolved, UnannotatedCause
  <2>5. CASE DescribeVariant \/ EndDescribe
    <3>1. UNCHANGED <<query, version>>
      BY <1>2, <2>5 DEF DescribeVariant, EndDescribe, Refuse, Enter
    <3> QED
      BY <1>1, <1>2, <2>5, <3>1, DescribeCause
  <2>6. CASE MergeVariant
    BY <1>1, <1>2, <2>6, MergeVariantCause DEF MergeVariant, Refuse
  <2>7. CASE EndMerge
    BY <1>1, <1>2, <2>7, EndMergeCause DEF EndMerge, Refuse, Enter
  <2>8. CASE Upgrade
    BY <1>2, <2>8 DEF Upgrade
  <2>9. CASE UNCHANGED vars
    BY <1>1, <1>2, <2>9 DEF vars
  <2> QED
    BY <2>1, <2>2, <2>3, <2>4, <2>5, <2>6, <2>7, <2>8, <2>9 DEF Next
<1> QED
  BY <1>2
-----------------------------------------------------------------------------
\* An accepted query has no cause, unless the server was upgraded.
LEMMA CallFits ==
  ASSUME VariantsKnown, phase = "accepted", NEW call \in Calls
  PROVE  /\ SlotsOf(KeptText(call)) = ChoiceNames
         /\ ~Unresolved(CallColumns(call), CallUses(call))
         /\ \A u \in CallUses(call) : /\ u.name \in DOMAIN merged.types
                                      /\ merged.types[u.name] = [type |-> u.type, external |-> u.external]
         /\ Len(CallColumns(call)) = Len(merged.columns)
         /\ \A i \in DOMAIN CallColumns(call) : /\ merged.columns[i].name = CallColumns(call)[i].name
                                                /\ merged.columns[i].type = CallColumns(call)[i].type
<1>1. PICK m \in DOMAIN variants : CallOf(m - 1) = call
  BY VariantOfCall
<1>2. /\ variants[m].text = KeptText(call) /\ variants[m].uses = CallUses(call)
      /\ variants[m].columns = CallColumns(call)
  BY <1>1, VariantsByCall
<1>3. Fits(m)
  BY DEF VariantsKnown, CompositionInv, MergeInv, Merged
<1>4. Resolves(variants[m], m - 1) /\ (query.server => Described(variants[m]))
  BY DEF VariantsKnown, ResolvedInv
<1>5. SlotsOf(KeptText(call)) = ChoiceNames /\ ~Unresolved(CallColumns(call), CallUses(call))
  BY <1>2, <1>4 DEF Resolves, Described
<1>6. \A u \in CallUses(call) : /\ u.name \in DOMAIN merged.types
                                /\ merged.types[u.name] = [type |-> u.type, external |-> u.external]
  BY <1>2, <1>3, MergedUse
<1>7. /\ Len(CallColumns(call)) = Len(merged.columns)
      /\ \A i \in DOMAIN CallColumns(call) : /\ merged.columns[i].name = CallColumns(call)[i].name
                                             /\ merged.columns[i].type = CallColumns(call)[i].type
  BY <1>2, <1>3 DEF Fits
<1> QED
  BY <1>5, <1>6, <1>7

LEMMA NoClash ==
  ASSUME VariantsKnown, phase = "accepted"
  PROVE  ~Clash(AllUses)
<1>1. SUFFICES ASSUME NEW u \in AllUses, NEW w \in AllUses, u.name = w.name PROVE u = w
  BY DEF Clash
<1>2. ASSUME NEW x \in AllUses
      PROVE  /\ merged.types[x.name] = [type |-> x.type, external |-> x.external]
             /\ x = [name |-> x.name, type |-> x.type, external |-> x.external]
  <2>1. PICK call \in Calls : x \in CallUses(call)
    BY DEF AllUses
  <2> QED
    BY <2>1, CallFits, CallTypes DEF VariantsKnown, ParseInv
<1>3. u.type = w.type /\ u.external = w.external
  <2>1. [type |-> u.type, external |-> u.external] = [type |-> w.type, external |-> w.external]
    BY <1>1, <1>2
  <2> QED
    BY <2>1
<1>4. u = [name |-> u.name, type |-> u.type, external |-> u.external]
      /\ w = [name |-> w.name, type |-> w.type, external |-> w.external]
  BY <1>2
<1> QED
  BY <1>1, <1>3, <1>4, Zenon

LEMMA SameShape ==
  ASSUME VariantsKnown, phase = "accepted", NEW c \in Calls, NEW d \in Calls
  PROVE  Shape(c) = Shape(d)
<1> DEFINE a == CallColumns(c)
           b == CallColumns(d)
<1>1. IsSeq(a) /\ IsSeq(b)
  BY CallTypes DEF VariantsKnown, ParseInv
<1>2. /\ Len(a) = Len(b)
      /\ \A i \in DOMAIN a : merged.columns[i].name = a[i].name /\ merged.columns[i].type = a[i].type
      /\ \A i \in DOMAIN b : merged.columns[i].name = b[i].name /\ merged.columns[i].type = b[i].type
  BY CallFits
<1>3. Shape(c) = [i \in DOMAIN a |-> <<a[i].name, a[i].type>>] /\ Shape(d) = [i \in DOMAIN b |-> <<b[i].name, b[i].type>>]
  BY DEF Shape
<1> HIDE DEF a, b
<1>4. DOMAIN a = DOMAIN b
  BY <1>1, <1>2, SeqDomain
<1>5. \A i \in DOMAIN a : <<a[i].name, a[i].type>> = <<b[i].name, b[i].type>>
  BY <1>2, <1>4
<1> QED
  BY <1>3, <1>4, <1>5

LEMMA WellFormedSource ==
  ASSUME VariantsKnown, phase = "accepted"
  PROVE  ~IllFormed
<1>1. /\ Parsed(Len(Lines)) /\ active = None /\ DOMAIN Lines = 1 .. Len(Lines)
  BY QueryType DEF VariantsKnown, ParseInv
<1>2. PICK p : p = Len(Lines)
  OBVIOUS
<1>3. (\A l \in 1 .. p : WellFormed(l)) /\ InBlock(p + 1) = {}
  BY <1>1, <1>2 DEF Parsed
<1> QED
  BY <1>1, <1>2, <1>3 DEF IllFormed, WellFormed

LEMMA AcceptedWithoutCause ==
  ASSUME VariantsKnown, phase = "accepted", version = 1
  PROVE  ~Cause
<1>1. /\ Range(options) = OptionNames
      /\ Composed <=> OptionNames # {} \/ TableChoices # <<>>
  BY ComposedSource DEF VariantsKnown
<1>2. Countable /\ Counted /\ ~FieldTaken /\ ~Unannotated
  BY CountedQuery DEF VariantsKnown, ResolvedInv, Countable
<1>3. ~IllFormed
  BY WellFormedSource
<1>4. ~(query.exec /\ (query.server \/ OptionNames # {} \/ TableChoices # <<>>))
  BY <1>1, <1>2 DEF Countable
<1>5. /\ ~\E i, j \in DOMAIN TableChoices : i # j /\ TableChoices[i].name = TableChoices[j].name
      /\ ChoiceNames \cap OptionNames = {} /\ ~WrongTable
  BY <1>1, <1>2 DEF Countable, SharedName
<1>6. ~(Cardinality(Calls) > MaxVariants)
  BY <1>2, TooManyCalls DEF Countable
<1>7. ~\E call \in Calls : SlotsOf(KeptText(call)) # ChoiceNames \/ Unresolved(CallColumns(call), CallUses(call))
  BY CallFits
<1>8. ~Clash(AllUses)
  BY NoClash
<1>9. ~\E c, d \in Calls : Shape(c) # Shape(d)
  BY SameShape
<1>10. (OptionNames \cup ChoiceNames) \cap NamesOf(AllUses) = {}
  <2>1. NamesOf(AllUses) \subseteq DOMAIN merged.types
    <3>1. ASSUME NEW u \in AllUses PROVE u.name \in DOMAIN merged.types
      <4>1. PICK call \in Calls : u \in CallUses(call)
        BY DEF AllUses
      <4> QED
        BY <4>1, CallFits
    <3> QED
      BY <3>1 DEF NamesOf
  <2> QED
    BY <1>1, <1>2, <2>1 DEF FieldTaken
<1>11. query.annotated \subseteq NamesOf(AllUses)
  <2>1. Prepared \subseteq AllUses
    BY PreparedUses
  <2> QED
    BY <1>2, <2>1 DEF Unannotated, NamesOf
<1>12. ~(version > 1)
  OBVIOUS
<1> QED
  BY <1>3, <1>4, <1>5, <1>6, <1>7, <1>8, <1>9, <1>10, <1>11, <1>12 DEF Cause, Shape, AllUses

\* A query is refused exactly if it has a cause, whatever the order in which its
\* lines, variants and parameters are looked at, for any query (parseConditionalSQL,
\* resolveComposedQuery, mergeQueryVariants, and the same for the server).
THEOREM RefusalHasItsCause == Spec => []RefusedExactlyForCause
<1> DEFINE Caused == phase = "refused" => Cause
<1>1. Init => Caused
  BY DEF Init
<1>2. VariantsKnown /\ OwnedInv /\ Caused /\ [Next]_vars => Caused'
  BY RefusedForCause
<1>3. VariantsKnown /\ Caused => RefusedExactlyForCause
  BY AcceptedWithoutCause DEF RefusedExactlyForCause
<1> HIDE DEF Caused
<1> QED
  BY <1>1, <1>2, <1>3, VariantsAreKnown, OwnersAreKnown, PTL DEF Spec
=============================================================================
