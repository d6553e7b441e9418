-------------------------- MODULE DFGSpecToNonSpec --------------------------
(***************************************************************************)
(* The register shuffle that links a speculation failure of the DFG       *)
(* speculative path to the matching entry of the non-speculative path:    *)
(* JITCompiler::jumpFromSpeculativeToNonSpeculative together with         *)
(* GeneralizedRegister and ShuffledRegister (DFGJITCompiler.cpp).         *)
(*                                                                         *)
(* The emitted code is straight-line, so the model runs each emitted      *)
(* instruction as it is emitted: regs and stack are the machine state the *)
(* code produces, the other variables are the compiler's own state.  The *)
(* descriptors of one check/entry pair are chosen in Init and never       *)
(* change.                                                                 *)
(***************************************************************************)
EXTENDS Integers, FiniteSets, FiniteSetsExt, DFGValues

CONSTANTS
  NumGPRs,               \* GPRInfo::numberOfRegisters
  NumFPRs,               \* FPRInfo::numberOfRegisters
  KindChoices,           \* kinds a node's value may have
  GPRFormatChoices,      \* formats a node may have in a GPR
  CheckSpilledChoices,   \* values of SpeculationCheck RegisterInfo::isSpilled
  EntrySpilledChoices,   \* values of EntryLocation RegisterInfo::isSpilled
  RecoveryChoices,       \* SpeculationRecovery types that may be attached
  InputFilter(_, _, _, _) \* further restriction of (check, entry, kind, recovery)

ASSUME NumGPRs \in Nat \ {0} /\ NumFPRs \in Nat
ASSUME KindChoices \subseteq Kinds /\ GPRFormatChoices \subseteq {"Integer", "JS"}

G(i) == <<"gpr", i>>
F(i) == <<"fpr", i>>
GPRs == {G(i) : i \in 0 .. NumGPRs - 1}
FPRs == {F(i) : i \in 0 .. NumFPRs - 1}
AllocRegs == GPRs \cup FPRs
NumRegs == NumGPRs + NumFPRs
InvalidGPRReg == G(-1)
InvalidFPRReg == F(-1)
TagMaskRegister == <<"tagMask", 0>>     \* reserved GPR, holds TagMask
AllRegs == AllocRegs \cup {TagMaskRegister}
RegT0 == G(0)                              \* GPRInfo::regT0
NoReg == <<"none", 0>>
IsFPR(r) == r[1] = "fpr"

(* lookupForRegister: GPRs first, then FPRs.                               *)
RegAt(k) == IF k < NumGPRs THEN G(k) ELSE F(k - NumGPRs)

NoInfo == [node |-> NoNode, format |-> "None", spilled |-> FALSE]
RegisterInfo == [node : Nodes, format : Formats, spilled : BOOLEAN] \cup {NoInfo}

VARIABLES
  check,      \* SpeculationCheck: m_gprInfo and m_fprInfo
  entry,      \* EntryLocation: m_gprInfo and m_fprInfo
  kind,       \* kind of each node's runtime value
  recovery,   \* the SpeculationRecovery of the check, if any
  regs,       \* contents of the machine registers
  stack,      \* contents of each node's register-file slot
  pc,         \* which part of the function is being emitted
  idx,        \* index of the loop being run
  cur,        \* the ShuffledRegister a permutation walk is at
  cyc,        \* the cycle being rotated: start, next, scratch, FPR pair
  sr,         \* the ShuffledRegister arrays gprs and fprs
  scratchGPR, scratchFPR1, scratchFPR2,
  needToRestoreTagMaskRegister

inputs == <<check, entry, kind, recovery>>
machine == <<regs, stack>>
vars == <<check, entry, kind, recovery, regs, stack, pc, idx, cur, cyc, sr,
          scratchGPR, scratchFPR1, scratchFPR2, needToRestoreTagMaskRegister>>

----------------------------------------------------------------------------
(* Descriptors.  A node sits in at most one register of each side.         *)

FormatOK(r, f, k) ==
  IF IsFPR(r) THEN f = "Double" /\ k # "Other"
              ELSE f \in GPRFormatChoices /\ (f = "Integer" => k = "Int")

FormatsFor(r) == IF IsFPR(r) THEN {"Double"} ELSE GPRFormatChoices

SideInfos(r, spills) ==
  {NoInfo} \cup [node : Nodes, format : FormatsFor(r), spilled : spills]

(* All descriptors of one side, before the kinds of the nodes are known.   *)
RegisterMaps(spills) ==
  {m \in {[r \in AllocRegs |-> IF IsFPR(r) THEN mf[r] ELSE mg[r]] :
            mg \in [GPRs -> SideInfos(G(0), spills)],
            mf \in [FPRs -> SideInfos(F(0), spills)]} :
     \A r1, r2 \in AllocRegs : r1 # r2 /\ m[r1].node # NoNode => m[r1].node # m[r2].node}

CheckMaps == RegisterMaps(CheckSpilledChoices)
EntryMaps == RegisterMaps(EntrySpilledChoices)

WellFormed(m, k) ==
  \A r \in AllocRegs : m[r].node # NoNode => FormatOK(r, m[r].format, k[m[r].node])

(* A node moves between an FPR and a GPR only in a JSValue format: moveTo *)
(* and swapWith box an FPR into a GPR whatever the GPR's format (lines     *)
(* 556-572, 610-628), and spec 4.1 lists no Int32 <-> Double conversion.  *)
Convertible(c, e) ==
  \A r1, r2 \in AllocRegs :
     c[r1].node # NoNode /\ c[r1].node = e[r2].node /\ IsFPR(r1) # IsFPR(r2)
       => "Integer" \notin {c[r1].format, e[r2].format}

(* The NodeToRegisterMaps built at lines 918-942.                          *)
RegisterOf(m, n) ==
  IF n # NoNode /\ \E r \in AllocRegs : m[r].node = n
  THEN CHOOSE r \in AllocRegs : m[r].node = n ELSE NoReg
EntryRegisterOf(n) == RegisterOf(entry, n)
CheckRegisterOf(n) == RegisterOf(check, n)

NoRecovery == [type |-> "None", dest |-> NoReg, src |-> NoReg]
Recoveries(c, k) ==
  LET holds(r, kd) == c[r].node # NoNode /\ k[c[r].node] = kd
  IN  {NoRecovery}
      \cup {[type |-> "SpeculativeAdd", dest |-> ds[1], src |-> ds[2]] :
              ds \in {<<d, s>> \in GPRs \X GPRs : d # s /\ holds(d, "Int") /\ holds(s, "Int")}}
      \cup {[type |-> "BooleanSpeculationCheck", dest |-> d, src |-> NoReg] :
              d \in {r \in GPRs : holds(r, "Other")}}

(* What a check register holds when the check fails: its node in its       *)
(* format, except for the destination of a recovery.                       *)
InitialContent(r) ==
  CASE r = TagMaskRegister -> TagMaskValue
    [] r = recovery.dest /\ recovery.type = "SpeculativeAdd" -> Of(check[r].node, "sum")
    [] r = recovery.dest -> Of(check[r].node, "xbool")
    [] check[r].node # NoNode -> Encode(check[r].node, kind[check[r].node], check[r].format)
    [] OTHER -> Garbage

InRegisterUnspilled(n) ==
  CheckRegisterOf(n) # NoReg /\ ~check[CheckRegisterOf(n)].spilled

----------------------------------------------------------------------------
(* GeneralizedRegister (lines 534-651).                                    *)

(* Mutant of Convert: forgets the zero-extension to Integer.              *)
ConvertNoZeroExtend(rg, r, old, new) ==
  IF NeedDataFormatConversion(old, new) /\ old = "Integer"
  THEN [rg EXCEPT ![r] = OrPtrTagTypeNumber(@)] ELSE rg

(* Mutant of DoubleToJS: the int32 path forgets to or in the tag.         *)
DoubleToJSUntagged(rg, f, g, scratchFPR) ==
  IF scratchFPR = InvalidFPRReg
  THEN [rg EXCEPT ![g] = BoxDouble(rg[f])]
  ELSE LET ok == ConvertsToInt32(rg[f], kind)
           tried == [rg EXCEPT ![scratchFPR] = IF ok THEN rg[f] ELSE Garbage]
       IN  IF ok THEN [tried EXCEPT ![g] = Of(rg[f].n, "raw")]
                 ELSE [tried EXCEPT ![g] = BoxDouble(tried[f])]

(* convert: in-place conversion of a register.                             *)
Convert(rg, r, old, new) ==
  CASE ~NeedDataFormatConversion(old, new) -> rg
    [] old = "Integer" -> [rg EXCEPT ![r] = OrPtrTagTypeNumber(@)]
    [] OTHER           -> [rg EXCEPT ![r] = ZeroExtend32ToPtr(@)]

(* An FPR boxed into a GPR, first trying an int32 when a scratch FPR is    *)
(* at hand (lines 557-571, 612-625); the scratch FPR is overwritten.       *)
DoubleToJS(rg, f, g, scratchFPR) ==
  IF scratchFPR = InvalidFPRReg
  THEN [rg EXCEPT ![g] = BoxDouble(rg[f])]
  ELSE LET ok == ConvertsToInt32(rg[f], kind)
           tried == [rg EXCEPT ![scratchFPR] = IF ok THEN rg[f] ELSE Garbage]
       IN  IF ok THEN [tried EXCEPT ![g] = Of(rg[f].n, "boxI")]
                 ELSE [tried EXCEPT ![g] = BoxDouble(tried[f])]

(* moveTo.                                                                 *)
MoveTo(rg, from, to, myFmt, otherFmt, scratchFPR) ==
  CASE IsFPR(from) /\ IsFPR(to) -> [rg EXCEPT ![to] = rg[from]]
    [] IsFPR(from) -> DoubleToJS(rg, from, to, scratchFPR)
    [] IsFPR(to)   -> [rg EXCEPT ![to] = UnboxDouble(rg[from])]
    [] ~NeedDataFormatConversion(myFmt, otherFmt) -> [rg EXCEPT ![to] = rg[from]]
    [] myFmt = "Integer" -> [rg EXCEPT ![to] = OrPtrTagTypeNumber(rg[from])]
    [] OTHER             -> [rg EXCEPT ![to] = ZeroExtend32ToPtr(rg[from])]

(* Mutant of SwapFPRWithGPR: the GPR is not saved to the scratch GPR.     *)
SwapFPRWithGPRNoSave(rg, f, g, sGPR, sFPR) ==
  LET boxed == DoubleToJS(rg, f, g, sFPR)
  IN  [boxed EXCEPT ![f] = UnboxDouble(boxed[sGPR])]

(* swapWith, an FPR with a GPR (lines 610-628).                            *)
SwapFPRWithGPR(rg, f, g, sGPR, sFPR) ==
  LET saved == [rg EXCEPT ![sGPR] = rg[g]]
      boxed == DoubleToJS(saved, f, g, sFPR)
  IN  [boxed EXCEPT ![f] = UnboxDouble(boxed[sGPR])]

(* The conversion applied to a GPR after a swap (lines 638-650).           *)
AfterSwap(c, oldFmt, newFmt) ==
  CASE ~NeedDataFormatConversion(oldFmt, newFmt) -> c
    [] oldFmt = "Integer" -> OrPtrTagTypeNumber(c)
    [] newFmt = "Integer" -> ZeroExtend32ToPtr(c)
    [] OTHER -> c

(* swapWith.                                                               *)
SwapWith(rg, a, b, aFmt, aNew, bFmt, bNew, sGPR, sFPR) ==
  CASE IsFPR(a) /\ IsFPR(b) ->
         IF sFPR = InvalidFPRReg
         THEN [rg EXCEPT ![sGPR] = MoveDoubleToPtr(rg[a]), ![a] = rg[b],
                         ![b] = MovePtrToDouble(MoveDoubleToPtr(rg[a]))]
         ELSE [rg EXCEPT ![sFPR] = rg[a], ![a] = rg[b], ![b] = rg[a]]
    [] IsFPR(a) -> SwapFPRWithGPR(rg, a, b, sGPR, sFPR)
    [] IsFPR(b) -> SwapFPRWithGPR(rg, b, a, sGPR, sFPR)
    [] OTHER -> [rg EXCEPT ![a] = AfterSwap(rg[b], bFmt, aNew),
                           ![b] = AfterSwap(rg[a], aFmt, bNew)]

----------------------------------------------------------------------------
(* ShuffledRegister (lines 661-781).                                       *)

NoLink == [previous |-> NoReg, hasFrom |-> FALSE, hasTo |-> FALSE, handled |-> FALSE]

(* Mutant of IsEndOfNonCyclingPermutation: forgets the hasFrom test.      *)
IsEndOfChainHasToOnly(r) == sr[r].hasTo

IsEndOfNonCyclingPermutation(r) == sr[r].hasTo /\ ~sr[r].hasFrom

(* Mutant of SaveToScratch: the start register is not saved.              *)
SaveToScratchSkipped(rg, this, next, scratch, fprPair) == rg

(* A long cycle first saves its start register into the scratch register  *)
(* (lines 742-755): as a JSDouble in a GPR or a double in the second      *)
(* scratch FPR when the start and the next register are both FPRs.        *)
SaveToScratch(rg, this, next, scratch, fprPair) ==
  IF fprPair
  THEN MoveTo(rg, this, scratch, "Double",
              IF IsFPR(scratch) THEN "Double" ELSE "JSDouble", scratchFPR1)
  ELSE MoveTo(rg, this, scratch, check[this].format, entry[next].format, scratchFPR1)

(* Registers of the cycle through r, walking the previous links.           *)
RECURSIVE CycleFrom(_, _)
CycleFrom(start, r) ==
  IF sr[r].previous \in {start, NoReg} THEN {r}
  ELSE {r} \cup CycleFrom(start, sr[r].previous)

(* Mutant of FreedFPRs: records GPRs as scratch FPRs too.                 *)
FreedFPRsAnyReg(r) ==
  IF scratchFPR1 = InvalidFPRReg THEN <<r, scratchFPR2>> ELSE <<scratchFPR1, r>>

(* A register just handled by a chain walk is recorded as a scratch FPR   *)
(* (lines 690-697, 701-708).                                               *)
FreedFPRs(r) ==
  IF ~IsFPR(r) THEN <<scratchFPR1, scratchFPR2>>
  ELSE IF scratchFPR1 = InvalidFPRReg THEN <<r, scratchFPR2>>
  ELSE <<scratchFPR1, r>>

----------------------------------------------------------------------------
(* Init: a failing check, its entry, and the machine state at the failure. *)

Init ==
  /\ kind \in [Nodes -> KindChoices]
  /\ check \in CheckMaps /\ WellFormed(check, kind)
  /\ entry \in EntryMaps /\ WellFormed(entry, kind) /\ Convertible(check, entry)
  /\ recovery \in {rc \in Recoveries(check, kind) : rc.type \in RecoveryChoices}
  /\ InputFilter(check, entry, kind, recovery)
  /\ regs = [r \in AllRegs |-> InitialContent(r)]
  /\ stack = [n \in Nodes |-> IF InRegisterUnspilled(n) THEN Garbage
                                                       ELSE JSEncoding(n, kind[n])]
  /\ pc = "recovery"
  /\ idx = 0
  /\ cur = NoReg
  /\ cyc = [start |-> NoReg, next |-> NoReg, scratch |-> NoReg, fprPair |-> FALSE]
  /\ sr = [r \in AllocRegs |-> NoLink]
  /\ scratchGPR = InvalidGPRReg
  /\ scratchFPR1 = InvalidFPRReg
  /\ scratchFPR2 = InvalidFPRReg
  /\ needToRestoreTagMaskRegister = FALSE

(* Undo what the speculative operation did before its check (878-905).    *)
PerformRecovery ==
  /\ pc = "recovery"
  /\ LET d == recovery.dest IN
     regs' = CASE recovery.type = "SpeculativeAdd" ->
                    [regs EXCEPT ![d] = IF check[d].format # "Integer"
                                        THEN OrPtrTagTypeNumber(Sub32Operand(@))
                                        ELSE Sub32Operand(@)]
               [] recovery.type = "BooleanSpeculationCheck" ->
                    [regs EXCEPT ![d] = XorPtrValueFalse(@)]
               [] OTHER -> regs
  /\ pc' = "scan"
  /\ UNCHANGED <<inputs, stack, idx, cur, cyc, sr, scratchGPR, scratchFPR1,
                 scratchFPR2, needToRestoreTagMaskRegister>>

(* Mutant of FreeOnBothSides: a register the entry leaves free is taken   *)
(* even while it still holds a value of the check.                         *)
FreeOnEntrySide(r) == entry[r].node = NoNode

FreeOnBothSides(r) == check[r].node = NoNode /\ entry[r].node = NoNode

(* Registers free on both sides are scratch (910-944): the last such GPR, *)
(* the first and the last such FPR.                                        *)
FindScratchRegisters ==
  LET freeG == {i \in 0 .. NumGPRs - 1 : FreeOnBothSides(G(i))}
      freeF == {i \in 0 .. NumFPRs - 1 : FreeOnBothSides(F(i))}
  IN
  /\ pc = "scan"
  /\ scratchGPR' = IF freeG = {} THEN InvalidGPRReg ELSE G(Max(freeG))
  /\ scratchFPR1' = IF freeF = {} THEN InvalidFPRReg ELSE F(Min(freeF))
  /\ scratchFPR2' = IF Cardinality(freeF) < 2 THEN InvalidFPRReg ELSE F(Max(freeF))
  /\ pc' = "spillGPRs"
  /\ UNCHANGED <<inputs, machine, idx, cur, cyc, sr, needToRestoreTagMaskRegister>>

(* Link a check register to the entry register of its node.                *)
Link(r, to) ==
  IF to = NoReg THEN sr
  ELSE [sr EXCEPT ![r].hasFrom = TRUE, ![to].previous = r, ![to].hasTo = TRUE]

(* Mutant of MustSpill: ignores a spilled entry register.                 *)
MustSpillUnlinkedOnly(r) ==
  ~check[r].spilled /\ EntryRegisterOf(check[r].node) = NoReg

(* The value of check register r must be written to its slot: the entry   *)
(* does not hold it in a register, or holds it there spilled, and the     *)
(* check has not spilled it already (987-1002).                            *)
MustSpill(r) ==
  LET to == EntryRegisterOf(check[r].node)
  IN  ~check[r].spilled /\ (to # NoReg => entry[to].spilled)

(* A check register whose value no entry register needs, and which the    *)
(* entry leaves free, can be used for scratch (lines 991-995, 1033-1036).  *)
UsableForScratch(r, to) == to = NoReg /\ entry[r].node = NoNode

(* Part 1 for one GPR (970-1011).                                          *)
SpillGPR ==
  /\ pc = "spillGPRs" /\ idx < NumGPRs
  /\ LET r == G(idx)
         n == check[r].node
         to == EntryRegisterOf(n)
         boxed == IF check[r].format = "Integer" THEN OrPtrTagTypeNumber(regs[r]) ELSE regs[r]
     IN /\ n # NoNode
        /\ sr' = Link(r, to)
        /\ scratchGPR' = IF UsableForScratch(r, to) THEN r ELSE scratchGPR
        /\ regs' = IF MustSpill(r) THEN [regs EXCEPT ![r] = boxed] ELSE regs
        /\ stack' = IF MustSpill(r) THEN [stack EXCEPT ![n] = boxed] ELSE stack
  /\ idx' = idx + 1
  /\ UNCHANGED <<inputs, pc, cur, cyc, scratchFPR1, scratchFPR2, needToRestoreTagMaskRegister>>

(* Without a free GPR, the tag mask register is borrowed (1013-1016).     *)
BorrowTagMaskRegister ==
  /\ pc = "spillGPRs" /\ idx = NumGPRs
  /\ scratchGPR' = IF scratchGPR = InvalidGPRReg THEN TagMaskRegister ELSE scratchGPR
  /\ needToRestoreTagMaskRegister' = (scratchGPR = InvalidGPRReg)
  /\ pc' = "spillFPRs"
  /\ idx' = 0
  /\ UNCHANGED <<inputs, machine, cur, cyc, sr, scratchFPR1, scratchFPR2>>

(* Part 1 for one FPR (1018-1054).  Line 1040 tests "else if              *)
(* (scratchFPR2)", true for InvalidFPRReg and for every FPR but fpr0.     *)
SpillFPR ==
  /\ pc = "spillFPRs" /\ idx < NumFPRs
  /\ LET r == F(idx)
         n == check[r].node
         to == EntryRegisterOf(n)
         boxed == BoxDouble(regs[r])
         free == UsableForScratch(r, to)
     IN /\ n # NoNode
        /\ sr' = Link(r, to)
        /\ scratchFPR1' = IF free /\ scratchFPR1 = InvalidFPRReg THEN r ELSE scratchFPR1
        /\ scratchFPR2' = IF free /\ scratchFPR1 # InvalidFPRReg /\ scratchFPR2 # F(0)
                          THEN r ELSE scratchFPR2
        /\ regs' = IF MustSpill(r) THEN [regs EXCEPT ![scratchGPR] = boxed] ELSE regs
        /\ stack' = IF MustSpill(r) THEN [stack EXCEPT ![n] = boxed] ELSE stack
  /\ idx' = idx + 1
  /\ UNCHANGED <<inputs, pc, cur, cyc, scratchGPR, needToRestoreTagMaskRegister>>

(* Part 2, chains: a walk starts at each unhandled chain end (1078-1085). *)
StartChain ==
  /\ pc = "chains" /\ idx < NumRegs
  /\ IsEndOfNonCyclingPermutation(RegAt(idx)) /\ ~sr[RegAt(idx)].handled
  /\ pc' = "chainWalk"
  /\ cur' = RegAt(idx)
  /\ UNCHANGED <<inputs, machine, idx, cyc, sr, scratchGPR, scratchFPR1,
                 scratchFPR2, needToRestoreTagMaskRegister>>

(* handleNonCyclingPermutation, one move from the tail backwards (687-699).*)
ChainMove ==
  /\ pc = "chainWalk" /\ sr[cur].previous # NoReg
  /\ LET p == sr[cur].previous IN
     /\ regs' = MoveTo(regs, p, cur, check[p].format, entry[cur].format, scratchFPR1)
     /\ cur' = p
  /\ sr' = [sr EXCEPT ![cur].handled = TRUE]
  /\ scratchFPR1' = FreedFPRs(cur)[1] /\ scratchFPR2' = FreedFPRs(cur)[2]
  /\ UNCHANGED <<inputs, stack, pc, idx, cyc, scratchGPR, needToRestoreTagMaskRegister>>

(* The head of the chain (700-708).                                        *)
ChainHead ==
  /\ pc = "chainWalk" /\ sr[cur].previous = NoReg
  /\ sr' = [sr EXCEPT ![cur].handled = TRUE]
  /\ scratchFPR1' = FreedFPRs(cur)[1] /\ scratchFPR2' = FreedFPRs(cur)[2]
  /\ pc' = "chains"
  /\ idx' = idx + 1
  /\ UNCHANGED <<inputs, machine, cur, cyc, scratchGPR, needToRestoreTagMaskRegister>>

(* Part 2, cycles: each remaining permutation is a cycle (1087-1094).  The *)
(* walk that measures it marks it handled (713-728); a cycle of one is    *)
(* converted in place, of two swapped, and a longer one saves its first   *)
(* register into a scratch register before it is rotated (730-755).       *)
StartCycle ==
  /\ pc = "cycles" /\ idx < NumRegs
  /\ ~sr[RegAt(idx)].handled /\ (sr[RegAt(idx)].hasFrom \/ sr[RegAt(idx)].hasTo)
  /\ LET this == RegAt(idx)
         prev == sr[this].previous
         members == CycleFrom(this, this)
         next == CHOOSE m \in members : sr[m].previous = this
         fprPair == IsFPR(this) /\ IsFPR(next)
         scratch == IF fprPair /\ scratchFPR2 # InvalidFPRReg THEN scratchFPR2 ELSE scratchGPR
     IN /\ sr' = [r \in AllocRegs |-> IF r \in members THEN [sr[r] EXCEPT !.handled = TRUE]
                                                       ELSE sr[r]]
        /\ CASE Cardinality(members) = 1 ->
                  /\ regs' = Convert(regs, this, check[this].format, entry[this].format)
                  /\ idx' = idx + 1 /\ UNCHANGED <<pc, cur, cyc>>
             [] Cardinality(members) = 2 ->
                  /\ regs' = SwapWith(regs, this, prev, check[this].format, entry[this].format,
                                      check[prev].format, entry[prev].format,
                                      scratchGPR, scratchFPR1)
                  /\ idx' = idx + 1 /\ UNCHANGED <<pc, cur, cyc>>
             [] OTHER ->
                  /\ regs' = SaveToScratch(regs, this, next, scratch, fprPair)
                  /\ cyc' = [start |-> this, next |-> next, scratch |-> scratch, fprPair |-> fprPair]
                  /\ cur' = this
                  /\ pc' = "cycleRotate"
                  /\ UNCHANGED idx
  /\ UNCHANGED <<inputs, stack, scratchGPR, scratchFPR1, scratchFPR2, needToRestoreTagMaskRegister>>

(* One move of the rotation of a long cycle (757-762).                     *)
CycleMove ==
  /\ pc = "cycleRotate" /\ sr[cur].previous # cyc.start
  /\ LET p == sr[cur].previous IN
     /\ regs' = MoveTo(regs, p, cur, check[p].format, entry[cur].format, scratchFPR1)
     /\ cur' = p
  /\ UNCHANGED <<inputs, stack, pc, idx, cyc, sr, scratchGPR, scratchFPR1,
                 scratchFPR2, needToRestoreTagMaskRegister>>

(* The saved value goes to the register after the start (764-771).        *)
CycleRestore ==
  /\ pc = "cycleRotate" /\ sr[cur].previous = cyc.start
  /\ regs' = IF cyc.fprPair
             THEN MoveTo(regs, cyc.scratch, cyc.next,
                         IF IsFPR(cyc.scratch) THEN "Double" ELSE "JSDouble", "Double", scratchFPR1)
             ELSE MoveTo(regs, cyc.scratch, cyc.next, entry[cyc.next].format,
                         entry[cyc.next].format, scratchFPR1)
  /\ pc' = "cycles"
  /\ idx' = idx + 1
  /\ UNCHANGED <<inputs, stack, cur, cyc, sr, scratchGPR, scratchFPR1, scratchFPR2,
                 needToRestoreTagMaskRegister>>

(* Part 3: an entry register whose node the shuffle did not bring there,  *)
(* and that the entry does not mark spilled, is filled (1106-1137).       *)
NeedsFillIn(c, e, r) ==
  LET n == e[r].node IN
  /\ n # NoNode /\ ~e[r].spilled
  /\ RegisterOf(c, n) # NoReg => c[RegisterOf(c, n)].spilled

NeedsFill(r) == NeedsFillIn(check, entry, r)

(* Mutant of NumericToDouble: no branch on the int32 tag.                  *)
NumericToDoubleUntested(t) == UnboxDouble(t)

(* The double a JSValue number loaded into regT0 becomes (lines 51-57).    *)
NumericToDouble(t) ==
  IF IsTaggedInt32(t) THEN ConvertInt32ToDouble(t) ELSE UnboxDouble(t)

(* fillNumericToDouble through regT0 (43-60).                              *)
FillFPR ==
  /\ pc = "fillFPRs" /\ idx < NumFPRs /\ NeedsFill(F(idx))
  /\ LET t == stack[entry[F(idx)].node] IN
     regs' = [regs EXCEPT ![RegT0] = t, ![F(idx)] = NumericToDouble(t)]
  /\ idx' = idx + 1
  /\ UNCHANGED <<inputs, stack, pc, cur, cyc, sr, scratchGPR, scratchFPR1, scratchFPR2,
                 needToRestoreTagMaskRegister>>

(* fillInt32ToInteger (63-78) and fillToJS (81-101).                       *)
FillGPR ==
  /\ pc = "fillGPRs" /\ idx < NumGPRs /\ NeedsFill(G(idx))
  /\ LET t == stack[entry[G(idx)].node] IN
     regs' = [regs EXCEPT ![G(idx)] = IF entry[G(idx)].format = "Integer"
                                       THEN ZeroExtend32ToPtr(t) ELSE t]
  /\ idx' = idx + 1
  /\ UNCHANGED <<inputs, stack, pc, cur, cyc, sr, scratchGPR, scratchFPR1, scratchFPR2,
                 needToRestoreTagMaskRegister>>

(* A loop iteration that stops at a "continue".                            *)
Skips(r) ==
  CASE pc \in {"spillGPRs", "spillFPRs"} -> check[r].node = NoNode
    [] pc = "chains" -> ~IsEndOfNonCyclingPermutation(r) \/ sr[r].handled
    [] pc = "cycles" -> sr[r].handled \/ ~(sr[r].hasFrom \/ sr[r].hasTo)
    [] OTHER -> ~NeedsFill(r)

LoopRegister ==
  CASE pc = "spillGPRs" -> G(idx) [] pc = "spillFPRs" -> F(idx)
    [] pc = "fillGPRs" -> G(idx)  [] pc = "fillFPRs" -> F(idx)
    [] OTHER -> RegAt(idx)

LoopBound ==
  CASE pc \in {"spillGPRs", "fillGPRs"} -> NumGPRs
    [] pc \in {"spillFPRs", "fillFPRs"} -> NumFPRs
    [] OTHER -> NumRegs

NextLoop == [spillFPRs |-> "chains", chains |-> "cycles", cycles |-> "fillFPRs",
             fillFPRs |-> "fillGPRs", fillGPRs |-> "restore"]

SkipIteration ==
  /\ pc \in {"spillGPRs", "spillFPRs", "chains", "cycles", "fillFPRs", "fillGPRs"}
  /\ idx < LoopBound /\ Skips(LoopRegister)
  /\ idx' = idx + 1
  /\ UNCHANGED <<inputs, machine, pc, cur, cyc, sr, scratchGPR, scratchFPR1, scratchFPR2,
                 needToRestoreTagMaskRegister>>

EndLoop ==
  /\ pc \in DOMAIN NextLoop /\ idx = LoopBound
  /\ pc' = NextLoop[pc]
  /\ idx' = 0
  /\ UNCHANGED <<inputs, machine, cur, cyc, sr, scratchGPR, scratchFPR1, scratchFPR2,
                 needToRestoreTagMaskRegister>>

(* Restore a borrowed tag mask register and jump to the entry (1139-1143).*)
RestoreAndJump ==
  /\ pc = "restore"
  /\ regs' = IF needToRestoreTagMaskRegister
             THEN [regs EXCEPT ![TagMaskRegister] = TagMaskValue] ELSE regs
  /\ pc' = "done"
  /\ UNCHANGED <<inputs, stack, idx, cur, cyc, sr, scratchGPR, scratchFPR1, scratchFPR2,
                 needToRestoreTagMaskRegister>>

(* The linking code has been emitted; nothing more happens.               *)
Finished == pc = "done" /\ UNCHANGED vars

Next ==
  \/ PerformRecovery \/ FindScratchRegisters
  \/ SpillGPR \/ BorrowTagMaskRegister \/ SpillFPR
  \/ StartChain \/ ChainMove \/ ChainHead
  \/ StartCycle \/ CycleMove \/ CycleRestore
  \/ FillFPR \/ FillGPR
  \/ SkipIteration \/ EndLoop \/ RestoreAndJump
  \/ Finished

(* The compiler runs this function to completion on its own thread.       *)
Spec == Init /\ [][Next]_vars /\ WF_vars(Next)

----------------------------------------------------------------------------
(* Properties.                                                             *)

Phases == {"recovery", "scan", "spillGPRs", "spillFPRs", "chains", "chainWalk",
           "cycles", "cycleRotate", "fillFPRs", "fillGPRs", "restore", "done"}

TypeOK ==
  /\ check \in [AllocRegs -> RegisterInfo] /\ entry \in [AllocRegs -> RegisterInfo]
  /\ kind \in [Nodes -> Kinds]
  /\ regs \in [AllRegs -> Content] /\ stack \in [Nodes -> Content]
  /\ pc \in Phases /\ idx \in 0 .. NumRegs
  /\ cur \in AllocRegs \cup {NoReg}
  /\ sr \in [AllocRegs -> [previous : AllocRegs \cup {NoReg}, hasFrom : BOOLEAN,
                           hasTo : BOOLEAN, handled : BOOLEAN]]
  /\ scratchGPR \in GPRs \cup {InvalidGPRReg, TagMaskRegister}
  /\ {scratchFPR1, scratchFPR2} \subseteq FPRs \cup {InvalidFPRReg}
  /\ needToRestoreTagMaskRegister \in BOOLEAN

LiveNodes == ({check[r].node : r \in AllocRegs} \cup {entry[r].node : r \in AllocRegs}) \ {NoNode}

(* A node must be in its register-file slot at the entry when the entry   *)
(* does not hold it in a register or marks it spilled.                     *)
InMemoryAtEntry(n) ==
  EntryRegisterOf(n) = NoReg \/ entry[EntryRegisterOf(n)].spilled

(* NON-DESTRUCTION (spec 5, 8.2): at every point of the emitted code,     *)
(* every node live at the check or at the entry can still be recovered,   *)
(* from a register or from its slot: no move, swap, conversion, scratch   *)
(* use or fill overwrites the last copy of a live value.                  *)
NoLiveValueLost ==
  \A n \in LiveNodes : stack[n].n = n \/ \E r \in AllRegs : regs[r].n = n

(* VALUE PRESERVATION (spec 8.1): when the code jumps to the entry, every *)
(* entry register holds its node in the entry's format, every node the   *)
(* entry expects in memory is in its slot as a JSValue, and the tag mask  *)
(* register holds TagMask again.                                           *)
EntryStateReached ==
  pc = "done" =>
    /\ \A r \in AllocRegs : entry[r].node # NoNode =>
         Holds(regs[r], entry[r].node, entry[r].format)
    /\ \A n \in LiveNodes : InMemoryAtEntry(n) => stack[n].n = n /\ IsJSValue(stack[n])
    /\ regs[TagMaskRegister] = TagMaskValue

(* Part 1 is over and no walk of Part 2 has run yet (line 1055).         *)
Part2Starts == pc = "chains" /\ idx = 0 /\ \A r \in AllocRegs : ~sr[r].handled

(* SCRATCH DISCOVERY (spec 8.3, the debug ASSERTs at lines 1041, 1056-1073 *)
(* and 1087, 1096): the two scratch FPRs are never the same register, and *)
(* when Part 2 starts, the pre-scan and the choices of Part 1 together     *)
(* have found a scratch GPR, no scratch register (but a borrowed tag mask  *)
(* register) is a source or a destination of the shuffle, and a second    *)
(* scratch FPR exists only beside a first.                                 *)
ScratchRegistersUnshuffled ==
  /\ (scratchFPR1 = InvalidFPRReg /\ scratchFPR2 = InvalidFPRReg) \/ scratchFPR1 # scratchFPR2
  /\ Part2Starts =>
       /\ scratchGPR # InvalidGPRReg
       /\ \A r \in ({scratchGPR, scratchFPR1, scratchFPR2} \cap AllocRegs) :
            ~sr[r].hasTo /\ ~sr[r].hasFrom
       /\ scratchFPR1 = InvalidFPRReg => scratchFPR2 = InvalidFPRReg

(* The linking code for a check is always completely emitted: every walk  *)
(* over the permutation graph ends.                                        *)
Termination == <>(pc = "done")
=============================================================================
