------------------------- MODULE MCDFGSpecToNonSpec -------------------------
(***************************************************************************)
(* Instances of DFGSpecToNonSpec for TLC.  Each .cfg picks the register   *)
(* file, the node kinds and formats, and an InputFilter: the filters      *)
(* below carve out the inputs on which one of the defects recorded in     *)
(* README.md shows, so that a passing run checks everything else.         *)
(***************************************************************************)
EXTENDS DFGSpecToNonSpec, TLC

(* Every well-formed pair of descriptors.                                  *)
AnyInput(c, e, k, rc) == TRUE

(* No JSValue int32 in a check GPR is moved to an entry FPR: moveTo and   *)
(* swapWith unbox it as a double (lines 576-579, 627).                     *)
NoBoxedIntIntoFPR(c, e, k, rc) ==
  \A g \in GPRs, f \in FPRs :
     c[g].node # NoNode /\ c[g].node = e[f].node => k[c[g].node] # "Int"

(* When an entry FPR is filled through regT0 (lines 1106-1118), regT0 is  *)
(* not an entry register that the shuffle has already set.                 *)
NoFPRFillOverRegT0(c, e, k, rc) ==
  (\E f \in FPRs : NeedsFillIn(c, e, f))
    => e[RegT0].node = NoNode \/ NeedsFillIn(c, e, RegT0)

(* An entry register marked spilled holds a node the check holds in a     *)
(* register: Part 3 skips it otherwise (lines 1108, 1121).                 *)
SpilledEntryHeldByCheck(c, e, k, rc) ==
  \A r \in AllocRegs : e[r].spilled => RegisterOf(c, e[r].node) # NoReg

(* No node is Integer in a check register and in a spilled entry register: *)
(* line 1009 boxes the check register in place before it is moved.       *)
NoSpilledIntegerPair(c, e, k, rc) ==
  \A r \in AllocRegs :
     e[r].spilled /\ e[r].format = "Integer" =>
       RegisterOf(c, e[r].node) = NoReg \/ c[RegisterOf(c, e[r].node)].format # "Integer"

(* The permutation graph of the inputs: where check register r's value    *)
(* must go, and the register reached after i such moves.                  *)
ShuffleTarget(c, e, r) == RegisterOf(e, c[r].node)

RECURSIVE After(_, _, _, _)
After(c, e, r, i) ==
  IF i = 0 \/ r = NoReg THEN r ELSE After(c, e, ShuffleTarget(c, e, r), i - 1)

RegIndex(r) == IF IsFPR(r) THEN NumGPRs + r[2] ELSE r[2]

(* The cycle of length >= 3 that starts (lowest index, lines 1087-1094) at *)
(* a GPR whose value goes to an FPR is saved with a zero-extension (line  *)
(* 751) and comes back as garbage: no such cycle is among the inputs.     *)
NoLongCycleFromGPRIntoFPR(c, e, k, rc) ==
  \A g \in GPRs :
     LET members == {After(c, e, g, i) : i \in 1 .. NumRegs}
     IN  ~ /\ After(c, e, g, NumRegs) # NoReg /\ g \in members
           /\ Cardinality(members) >= 3
           /\ IsFPR(ShuffleTarget(c, e, g))
           /\ \A m \in members : RegIndex(g) <= RegIndex(m)

MixedRegisterInput(c, e, k, rc) ==
  /\ NoBoxedIntIntoFPR(c, e, k, rc) /\ NoFPRFillOverRegT0(c, e, k, rc)
  /\ NoLongCycleFromGPRIntoFPR(c, e, k, rc)

(* Some FPR is free on both sides: FindScratchRegisters makes it          *)
(* scratchFPR1 for good, and the FPRs a chain walk frees only ever become *)
(* scratchFPR2, which a long FPR cycle would need both FPRs to use.       *)
ScratchFPRInput(c, e, k, rc) ==
  /\ MixedRegisterInput(c, e, k, rc)
  /\ \E f \in FPRs : c[f].node = NoNode /\ e[f].node = NoNode

SpilledEntryInput(c, e, k, rc) ==
  /\ MixedRegisterInput(c, e, k, rc)
  /\ SpilledEntryHeldByCheck(c, e, k, rc) /\ NoSpilledIntegerPair(c, e, k, rc)

NodeSymmetry == Permutations(Nodes)

=============================================================================
