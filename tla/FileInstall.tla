---------------------------- MODULE FileInstall ----------------------------
(***************************************************************************)
(* What chgen promises about its output files, without saying how.         *)
(*                                                                         *)
(* Several runs of the program may work on the same outputs.  A run first  *)
(* prepares everything; from then on it may replace the outputs, one at a  *)
(* time, in plan order, each by a complete new file.  It may end at any    *)
(* moment, so a run that ends early has replaced a prefix of the outputs,  *)
(* and a run that never became ready has replaced none.  Other programs    *)
(* may change a file at any moment, but never into a run's content.        *)
(*                                                                         *)
(* OutputCommit is shown to implement this specification.                  *)
(***************************************************************************)
EXTENDS Naturals

CONSTANTS
  Runs,       \* invocations of chgen
  Outputs,    \* positions in the plan, 1..n
  Foreign     \* what an output can hold that no run generated

VARIABLES
  file,       \* file[i]: what output i holds
  phase,      \* phase[r]: how far run r is
  installed   \* installed[r]: the outputs run r has replaced

vars == <<file, phase, installed>>

Init ==
  /\ file \in [Outputs -> Foreign]
  /\ phase = [r \in Runs |-> "preparing"]
  /\ installed = [r \in Runs |-> {}]

\* Every output of the run is prepared; the first replacement may follow.
GetReady(r) ==
  /\ phase[r] = "preparing"
  /\ phase' = [phase EXCEPT ![r] = "installing"]
  /\ UNCHANGED <<file, installed>>

\* The next output in plan order becomes the run's complete new file.
Replace(r, i) ==
  /\ phase[r] = "installing"
  /\ installed[r] = {j \in Outputs : j < i}
  /\ file' = [file EXCEPT ![i] = r]
  /\ installed' = [installed EXCEPT ![r] = @ \cup {i}]
  /\ UNCHANGED phase

\* A run returns, or dies; a power loss ends several at once.
End(S) ==
  /\ phase' = [r \in Runs |-> IF r \in S THEN "ended" ELSE phase[r]]
  /\ UNCHANGED <<file, installed>>

\* Another program edits or removes an output.
Change(i, c) ==
  /\ file' = [file EXCEPT ![i] = c]
  /\ UNCHANGED <<phase, installed>>

Next ==
  \/ \E r \in Runs : GetReady(r)
  \/ \E r \in Runs, i \in Outputs : Replace(r, i)
  \/ \E S \in SUBSET Runs : End(S)
  \/ \E i \in Outputs, c \in Foreign : Change(i, c)

Spec == Init /\ [][Next]_vars
=============================================================================
