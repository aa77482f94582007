------------------------- MODULE MCServerContracts -------------------------
(***************************************************************************)
(* Instances of ServerContracts for TLC.  Both packages may hold the same  *)
(* SQL, so that they share a report; a comment changes the generated code  *)
(* and nothing else.                                                       *)
(***************************************************************************)
EXTENDS ServerContracts, TLC

CONSTANTS s1, s2

MCTexts == [sql: {"param"}, notes: {"a", "b"}] \cup {[sql |-> "plain", notes |-> "a"]}
MCExternal == [c \in {"schema"} |-> "id UInt64"]
Call(input, output, check, examples) ==
  [input |-> input, output |-> output, check |-> check, database |-> "d", examples |-> examples]

\* Examples by package, equal or not, and by the bare query name.
Same == 1 :> "x" @@ 2 :> "x"
Different == 1 :> "x" @@ 2 :> "y"
MCOptions ==
  {Call(FALSE, TRUE, FALSE, e) : e \in {Same, Different}}
    \cup {Call(TRUE, FALSE, c, e) : c \in BOOLEAN, e \in {Same, Different}}
    \cup {Call(FALSE, FALSE, TRUE, Same), Call(TRUE, TRUE, FALSE, Same)}

BareOnly == Bare :> "x"
Mixed == Bare :> "x" @@ 3 :> "x"
MCMixedOptions ==
  {Call(i, ~i, FALSE, e) : i \in BOOLEAN, e \in {BareOnly, Mixed, Empty}}
    \cup {Call(TRUE, FALSE, TRUE, Mixed)}

Interchangeable == Permutations(Sessions)
=============================================================================
