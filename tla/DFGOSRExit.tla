----------------------------- MODULE DFGOSRExit -----------------------------
(***************************************************************************)
(* The OSR exit that JITCompiler::exitSpeculativeWithOSR emits             *)
(* (DFGJITCompiler.cpp, lines 104-453): the code that runs when a          *)
(* speculation check of DFG code fails and must rebuild the baseline JIT's *)
(* call frame, every variable boxed in its home slot, before jumping into  *)
(* baseline code.                                                          *)
(*                                                                         *)
(* The exit's recoveries are an input chosen in Init and never changed.    *)
(* The emitted code is straight-line: pc walks its numbered steps, and idx *)
(* is the recovery index of the loop the step runs, one action per         *)
(* iteration.  A recovery index is the variable it recovers (the model has *)
(* no arguments), so operandForIndex and variableForIndex are the          *)
(* identity and isVariable holds.                                          *)
(***************************************************************************)
EXTENDS Integers, FiniteSets, Sequences, FiniteSetsExt

CONSTANTS NumVars, NumGPRs, NumFPRs,
          InputFilter(_),  \* restricts the exits a run enumerates
          LastSetChoices   \* the m_lastSetOperand values a run enumerates

ASSUME NumVars \in Nat /\ NumGPRs \in Nat \ {0} /\ NumFPRs \in Nat
(* Step 6 boxes FPR i into GPR i (line 269).                               *)
ASSUME NumFPRs <= NumGPRs

Vars == 0 .. NumVars - 1
GPRs == 0 .. NumGPRs - 1          \* GPRInfo::toRegister(i)
FPRs == 0 .. NumFPRs - 1          \* FPRInfo::toRegister(i)
RegT0 == 0                        \* regT0 = toRegister(0) = cachedResultRegister

INSTANCE DFGValues WITH Nodes <- Vars, NoNode <- -1

JSUndefined == Of(-1, "ptr")      \* JSValue::encode(jsUndefined())

(* ValueRecovery: a technique and its register, slot or constant.  For    *)
(* Constant, r = 1 stands for jsUndefined() and r = 0 for any other value. *)
GPRTechniques == {"InGPR", "UnboxedInt32InGPR"}
InRegister == GPRTechniques \cup {"InFPR"}
Recoveries ==
  {[t |-> "AlreadyInRegisterFile", r |-> 0]}
  \cup {[t |-> t, r |-> g] : t \in GPRTechniques, g \in GPRs}
  \cup {[t |-> "InFPR", r |-> f] : f \in FPRs}
  \cup {[t |-> "DisplacedInRegisterFile", r |-> u] : u \in Vars}
  \cup {[t |-> "Constant", r |-> c] : c \in {0, 1}}

IsUndefinedConstant(x) == x = [t |-> "Constant", r |-> 1]

(* The place a recovery claims: no two variables claim the same one.       *)
Claim(x) ==
  CASE x.t \in GPRTechniques            -> <<"gpr", x.r>>
    [] x.t = "InFPR"                    -> <<"fpr", x.r>>
    [] x.t = "DisplacedInRegisterFile"  -> <<"slot", x.r>>
    [] OTHER                            -> <<"none", 0>>

WellFormedExit(rc) ==
  /\ \A v, w \in Vars : v # w /\ Claim(rc[v]) = Claim(rc[w]) => Claim(rc[v])[1] = "none"
  /\ \A v \in Vars : rc[v].t = "DisplacedInRegisterFile" =>
        rc[v].r # v /\ rc[rc[v].r].t # "AlreadyInRegisterFile"

(* SpeculationRecovery: the register whose speculative add or boolean     *)
(* check the exit undoes (lines 133-150).                                  *)
NoRecovery == [type |-> "None", dest |-> -1]
SpeculationRecoveries(rc) ==
  {NoRecovery}
  \cup {[type |-> "SpeculativeAdd", dest |-> g] :
          g \in {rc[v].r : v \in {w \in Vars : rc[w].t \in GPRTechniques}}}
  \cup {[type |-> "BooleanSpeculationCheck", dest |-> g] :
          g \in {rc[v].r : v \in {w \in Vars : rc[w].t = "InGPR"}}}

NoOperand == NumVars   \* m_lastSetOperand = std::numeric_limits<int>::max()
ASSUME LastSetChoices \subseteq Vars \cup {NoOperand}

(* The emitted code's steps, in the order of the comments 2) to 14).       *)
Steps == <<"recover", "rebox", "dumpGPRs", "boxDoubles", "dumpDoubles",
           "loadDisplaced", "storeDisplaced", "stageDisplaced",
           "unstageDisplaced", "drainPoisoned", "loadUndefined", "constants",
           "finish", "done">>
StepNo(name) == CHOOSE i \in 1 .. Len(Steps) : Steps[i] = name
LoopSteps == {StepNo(s) : s \in {"rebox", "dumpGPRs", "boxDoubles", "dumpDoubles",
                "loadDisplaced", "storeDisplaced", "stageDisplaced",
                "unstageDisplaced", "drainPoisoned", "constants"}}

MaxScratch == 2 * NumVars

VARIABLES
  rec,               \* exit.valueRecovery(index), per variable
  specRec,           \* the SpeculationRecovery, or NoRecovery
  lastSet,           \* exit.m_lastSetOperand
  slot,              \* the register file: each variable's home slot
  gpr, fpr,          \* machine registers
  scratch,           \* the OSR scratch buffer
  pc, idx,           \* the step and the loop's recovery index
  scratchIndex, displacementIndex,
  alreadyBoxed,      \* the GPR recovery already boxed, or -1
  header             \* call-frame header words written by steps 11 and 13

input == <<rec, specRec, lastSet>>
vars == <<rec, specRec, lastSet, slot, gpr, fpr, scratch, pc, idx,
          scratchIndex, displacementIndex, alreadyBoxed, header>>

----------------------------------------------------------------------------
(* Step 3, lines 158-223: what the exit's recoveries need.                 *)

(* A variable is poisoned when it is held in a register and a displaced   *)
(* recovery reads its slot: storing it must wait until step 9.            *)
PoisonedGPROnly(v) ==
  /\ \E w \in Vars : rec[w].t = "DisplacedInRegisterFile" /\ rec[w].r = v
  /\ rec[v].t \in GPRTechniques

Poisoned(v) ==
  /\ \E w \in Vars : rec[w].t = "DisplacedInRegisterFile" /\ rec[w].r = v
  /\ rec[v].t \in InRegister

Having(t) == {v \in Vars : rec[v].t = t}
NumPoisoned == Cardinality({v \in Vars : Poisoned(v)})
NumDisplaced == Cardinality(Having("DisplacedInRegisterFile"))
HaveUnboxedInt32s == Having("UnboxedInt32InGPR") # {}
HaveFPRs == Having("InFPR") # {}
HaveConstants == Having("Constant") # {}
HaveUndefined == \E v \in Vars : IsUndefinedConstant(rec[v])

UseRegisterShuffleStrict == NumDisplaced < NumGPRs
UseRegisterShuffleOffByOne == NumDisplaced <= NumGPRs + 1

(* Line 295: the displaced values fit in the GPRs.                         *)
UseRegisterShuffle == NumDisplaced <= NumGPRs

ScratchBufferSize ==
  NumPoisoned + (IF NumDisplaced <= NumGPRs THEN 0 ELSE NumDisplaced)

(* Whether the code for a step is emitted at all.                         *)
Emitted(i) ==
  CASE Steps[i] = "rebox"                          -> HaveUnboxedInt32s
    [] Steps[i] \in {"boxDoubles", "dumpDoubles"}  -> HaveFPRs
    [] Steps[i] \in {"loadDisplaced", "storeDisplaced"} ->
          NumDisplaced > 0 /\ UseRegisterShuffle
    [] Steps[i] \in {"stageDisplaced", "unstageDisplaced"} ->
          NumDisplaced > 0 /\ ~UseRegisterShuffle
    [] Steps[i] = "drainPoisoned"                  -> NumPoisoned > 0
    [] Steps[i] = "loadUndefined"                  -> HaveConstants /\ HaveUndefined
    [] Steps[i] = "constants"                      -> HaveConstants
    [] OTHER                                       -> TRUE

NextStep(i) == Min({j \in i + 1 .. Len(Steps) : Emitted(j)})

(* Whether the loop of step i does anything for recovery index v.         *)
Acts(i, v) ==
  CASE Steps[i] = "rebox" ->
          rec[v].t = "UnboxedInt32InGPR" /\ rec[v].r # alreadyBoxed
    [] Steps[i] = "dumpGPRs" -> rec[v].t \in GPRTechniques
    [] Steps[i] \in {"boxDoubles", "dumpDoubles"} -> rec[v].t = "InFPR"
    [] Steps[i] = "drainPoisoned" -> Poisoned(v)
    [] Steps[i] = "constants" -> rec[v].t = "Constant"
    [] OTHER -> rec[v].t = "DisplacedInRegisterFile"

----------------------------------------------------------------------------
(* The state when the check's jump lands on the exit.                     *)

HolderOf(claim) == {v \in Vars : Claim(rec[v]) = claim}

(* A slot holds the displaced value moved into it, its own variable's     *)
(* value when that is AlreadyInRegisterFile, and something stale else.    *)
InitialSlot(v) ==
  IF HolderOf(<<"slot", v>>) # {}
    THEN Of(CHOOSE w \in HolderOf(<<"slot", v>>) : TRUE, "ptr")
    ELSE IF rec[v].t = "AlreadyInRegisterFile" THEN Of(v, "ptr") ELSE Garbage

InitialGPR(g) ==
  IF HolderOf(<<"gpr", g>>) = {} THEN Garbage
  ELSE LET v == CHOOSE w \in HolderOf(<<"gpr", g>>) : TRUE
       IN  CASE specRec.dest = g /\ specRec.type = "SpeculativeAdd" -> Of(v, "sum")
             [] specRec.dest = g -> Of(v, "xbool")
             [] rec[v].t = "UnboxedInt32InGPR" -> Of(v, "raw")
             [] OTHER -> Of(v, "ptr")

InitialFPR(f) ==
  IF HolderOf(<<"fpr", f>>) = {} THEN Garbage
  ELSE Of(CHOOSE w \in HolderOf(<<"fpr", f>>) : TRUE, "fp")

Init ==
  /\ rec \in {rc \in [Vars -> Recoveries] : WellFormedExit(rc) /\ InputFilter(rc)}
  /\ specRec \in SpeculationRecoveries(rec)
  /\ lastSet \in LastSetChoices
  /\ slot = [v \in Vars |-> InitialSlot(v)]
  /\ gpr = [g \in GPRs |-> InitialGPR(g)]
  /\ fpr = [f \in FPRs |-> InitialFPR(f)]
  /\ scratch = [i \in 0 .. MaxScratch - 1 |-> Garbage]
  /\ pc = StepNo("recover")
  /\ idx = 0 /\ scratchIndex = 0 /\ displacementIndex = 0
  /\ alreadyBoxed = -1
  /\ header = {}

----------------------------------------------------------------------------
(* Moving on to step j: the counters the code sets before j's loop.       *)
Enter(j) ==
  /\ pc' = j
  /\ idx' = 0
  /\ scratchIndex' =
        CASE Steps[j] = "dumpGPRs"         -> 0                 \* line 242
          [] Steps[j] = "unstageDisplaced" -> NumPoisoned       \* line 340
          [] pc < StepNo("drainPoisoned") /\ StepNo("drainPoisoned") <= j -> 0  \* line 355
          [] OTHER                         -> scratchIndex
  /\ displacementIndex' =
        IF Steps[j] \in {"loadDisplaced", "storeDisplaced"} THEN 0 ELSE displacementIndex

(* Step 2, lines 133-150: undo the speculative add or boolean check.      *)
Recover ==
  /\ pc = StepNo("recover")
  /\ gpr' = CASE specRec.type = "SpeculativeAdd" ->
                   [gpr EXCEPT ![specRec.dest] = OrPtrTagTypeNumber(Sub32Operand(@))]
              [] specRec.type = "BooleanSpeculationCheck" ->
                   [gpr EXCEPT ![specRec.dest] = XorPtrValueFalse(@)]
              [] OTHER -> gpr
  /\ alreadyBoxed' = IF specRec.type = "SpeculativeAdd" THEN specRec.dest ELSE -1
  /\ Enter(NextStep(pc))
  /\ UNCHANGED <<input, slot, fpr, scratch, header>>

Iterating(name) == pc = StepNo(name) /\ idx < NumVars /\ Acts(pc, idx) /\ idx' = idx + 1

(* Store a register's content to the variable's slot, or to the next     *)
(* scratch entry when the variable is poisoned (lines 249-252, 281-284).  *)
StoreOrPoison(v, c) ==
  IF Poisoned(v)
    THEN /\ scratch' = [scratch EXCEPT ![scratchIndex] = c]
         /\ scratchIndex' = scratchIndex + 1
         /\ UNCHANGED slot
    ELSE /\ slot' = [slot EXCEPT ![v] = c]
         /\ UNCHANGED <<scratch, scratchIndex>>

(* loadPtr(scratch + scratchIndex++, regT0); storePtr(regT0, v's slot).   *)
ScratchToSlot(v) ==
  /\ gpr' = [gpr EXCEPT ![RegT0] = scratch[scratchIndex]]
  /\ slot' = [slot EXCEPT ![v] = scratch[scratchIndex]]
  /\ scratchIndex' = scratchIndex + 1

(* Step 4, lines 230-236.                                                  *)
Rebox ==
  /\ Iterating("rebox")
  /\ gpr' = [gpr EXCEPT ![rec[idx].r] = OrPtrTagTypeNumber(@)]
  /\ UNCHANGED <<input, slot, fpr, scratch, pc, scratchIndex, displacementIndex,
                 alreadyBoxed, header>>

(* Step 5, lines 242-257.                                                  *)
DumpGPR ==
  /\ Iterating("dumpGPRs")
  /\ StoreOrPoison(idx, gpr[rec[idx].r])
  /\ UNCHANGED <<input, gpr, fpr, pc, displacementIndex, alreadyBoxed, header>>

(* Step 6, lines 264-271: boxDouble(fpr, gpr) into the same-index GPR.    *)
BoxDoubleIntoGPR ==
  /\ Iterating("boxDoubles")
  /\ gpr' = [gpr EXCEPT ![rec[idx].r] = BoxDouble(fpr[rec[idx].r])]
  /\ UNCHANGED <<input, slot, fpr, scratch, pc, scratchIndex, displacementIndex,
                 alreadyBoxed, header>>

(* Step 7, lines 276-285.                                                  *)
DumpDouble ==
  /\ Iterating("dumpDoubles")
  /\ StoreOrPoison(idx, gpr[rec[idx].r])
  /\ UNCHANGED <<input, gpr, fpr, pc, displacementIndex, alreadyBoxed, header>>

(* Step 8, lines 299-312: load every displaced value into a GPR, then     *)
(* store every GPR to the displaced variable's own slot.                   *)
LoadDisplaced ==
  /\ Iterating("loadDisplaced")
  /\ gpr' = [gpr EXCEPT ![displacementIndex] = slot[rec[idx].r]]
  /\ displacementIndex' = displacementIndex + 1
  /\ UNCHANGED <<input, slot, fpr, scratch, pc, scratchIndex, alreadyBoxed, header>>

StoreDisplaced ==
  /\ Iterating("storeDisplaced")
  /\ slot' = [slot EXCEPT ![idx] = gpr[displacementIndex]]
  /\ displacementIndex' = displacementIndex + 1
  /\ UNCHANGED <<input, gpr, fpr, scratch, pc, scratchIndex, alreadyBoxed, header>>

(* Step 8, lines 332-347: more displaced values than GPRs go through the  *)
(* scratch buffer, after the poisoned entries.                             *)
StageDisplaced ==
  /\ Iterating("stageDisplaced")
  /\ gpr' = [gpr EXCEPT ![RegT0] = slot[rec[idx].r]]
  /\ scratch' = [scratch EXCEPT ![scratchIndex] = slot[rec[idx].r]]
  /\ scratchIndex' = scratchIndex + 1
  /\ UNCHANGED <<input, slot, fpr, pc, displacementIndex, alreadyBoxed, header>>

UnstageDisplaced ==
  /\ Iterating("unstageDisplaced")
  /\ ScratchToSlot(idx)
  /\ UNCHANGED <<input, fpr, scratch, pc, displacementIndex, alreadyBoxed, header>>

(* Step 9, lines 355-374: the poisoned variables, in variable order.      *)
DrainPoisoned ==
  /\ Iterating("drainPoisoned")
  /\ ScratchToSlot(idx)
  /\ UNCHANGED <<input, fpr, scratch, pc, displacementIndex, alreadyBoxed, header>>

LoadUndefinedSkipped ==
  /\ pc = StepNo("loadUndefined")
  /\ Enter(NextStep(pc))
  /\ UNCHANGED <<input, slot, gpr, fpr, scratch, alreadyBoxed, header>>

(* Step 10, lines 380-393.                                                 *)
LoadUndefined ==
  /\ pc = StepNo("loadUndefined")
  /\ gpr' = [gpr EXCEPT ![RegT0] = JSUndefined]
  /\ Enter(NextStep(pc))
  /\ UNCHANGED <<input, slot, fpr, scratch, alreadyBoxed, header>>

StoreConstant ==
  /\ Iterating("constants")
  /\ slot' = [slot EXCEPT ![idx] = IF IsUndefinedConstant(rec[idx]) THEN gpr[RegT0]
                                                                     ELSE Of(idx, "ptr")]
  /\ UNCHANGED <<input, gpr, fpr, scratch, pc, scratchIndex, displacementIndex,
                 alreadyBoxed, header>>

(* A loop iteration whose recovery the step has nothing to do for.        *)
SkipRecovery ==
  /\ pc \in LoopSteps /\ idx < NumVars /\ ~Acts(pc, idx)
  /\ idx' = idx + 1
  /\ UNCHANGED <<input, slot, gpr, fpr, scratch, pc, scratchIndex, displacementIndex,
                 alreadyBoxed, header>>

EndLoop ==
  /\ pc \in LoopSteps /\ idx = NumVars
  /\ Enter(NextStep(pc))
  /\ UNCHANGED <<input, slot, gpr, fpr, scratch, alreadyBoxed, header>>

(* Steps 11-14, lines 424-448: reset the execute counter, load the last   *)
(* set operand into cachedResultRegister, store the code block, jump.     *)
Finish ==
  /\ pc = StepNo("finish")
  /\ header' = {"executeCounter", "codeBlock"}
  /\ gpr' = IF lastSet # NoOperand THEN [gpr EXCEPT ![RegT0] = slot[lastSet]] ELSE gpr
  /\ pc' = StepNo("done")
  /\ UNCHANGED <<input, slot, fpr, scratch, idx, scratchIndex, displacementIndex,
                 alreadyBoxed>>

(* Baseline code runs on: the exit has nothing more to do.                 *)
Landed == pc = StepNo("done") /\ UNCHANGED vars

Next ==
  \/ Recover \/ Rebox \/ DumpGPR \/ BoxDoubleIntoGPR \/ DumpDouble
  \/ LoadDisplaced \/ StoreDisplaced \/ StageDisplaced \/ UnstageDisplaced
  \/ DrainPoisoned \/ LoadUndefined \/ StoreConstant \/ SkipRecovery \/ EndLoop
  \/ Finish \/ Landed

Spec == Init /\ [][Next]_vars

----------------------------------------------------------------------------
TypeOK ==
  /\ rec \in [Vars -> Recoveries]
  /\ slot \in [Vars -> Content]
  /\ gpr \in [GPRs -> Content] /\ fpr \in [FPRs -> Content]
  /\ scratch \in [0 .. MaxScratch - 1 -> Content]
  /\ pc \in 1 .. Len(Steps) /\ idx \in 0 .. NumVars
  /\ scratchIndex \in 0 .. MaxScratch /\ displacementIndex \in 0 .. NumGPRs
  /\ alreadyBoxed \in GPRs \cup {-1}
  /\ header \subseteq {"executeCounter", "codeBlock"}

Locations == {slot[v] : v \in Vars} \cup {gpr[g] : g \in GPRs}
               \cup {fpr[f] : f \in FPRs} \cup {scratch[i] : i \in 0 .. MaxScratch - 1}

(* Non-destruction: while the exit runs, the value of every variable that *)
(* is not a constant is still somewhere, in a slot, a register or the     *)
(* scratch buffer; no store of steps 5-9 overwrites the only copy.        *)
NoValueLost ==
  \A v \in Vars : rec[v].t # "Constant" => \E c \in Locations : c.n = v

(* OSR stability: when the exit jumps to baseline code every variable's   *)
(* slot holds that variable's value as a JSValue (jsUndefined() for an    *)
(* undefined constant), and cachedResultRegister the last set operand.    *)
FrameCanonical ==
  pc = StepNo("done") =>
    /\ \A v \in Vars : IF IsUndefinedConstant(rec[v]) THEN slot[v] = JSUndefined
                                                     ELSE Holds(slot[v], v, "JS")
    /\ lastSet # NoOperand => gpr[RegT0] = slot[lastSet]

(* The scratch buffer sized at line 223 is never read or written past its *)
(* end by steps 5, 7, 8 and 9.                                             *)
ScratchInBounds == scratchIndex <= ScratchBufferSize
=============================================================================
