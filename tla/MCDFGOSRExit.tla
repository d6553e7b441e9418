---------------------------- MODULE MCDFGOSRExit ----------------------------
(***************************************************************************)
(* Instances of DFGOSRExit for TLC.  The filters select the exits a run   *)
(* enumerates; NoPoisonedFPRBeforeGPR leaves out the ones on which the    *)
(* poisoned-variable defect of README.md shows.                            *)
(***************************************************************************)
EXTENDS DFGOSRExit

AnyExit(rc) == TRUE

(* The first variable, or no last set operand.                             *)
FirstOrNone == {0, NoOperand}
NoneSet == {NoOperand}

PoisonedIn(rc, v) ==
  /\ \E w \in Vars : rc[w].t = "DisplacedInRegisterFile" /\ rc[w].r = v
  /\ rc[v].t \in InRegister

(* No poisoned FPR variable precedes a poisoned GPR variable: steps 5 and *)
(* 7 fill the scratch buffer GPRs first, step 9 drains it in variable     *)
(* order (lines 250, 282, 357-367).                                       *)
NoPoisonedFPRBeforeGPR(rc) ==
  \A v, w \in Vars :
     PoisonedIn(rc, v) /\ PoisonedIn(rc, w) /\ rc[v].t = "InFPR" => rc[w].t = "InFPR" \/ w < v

(* At least two poisoned variables, one of them in an FPR.                 *)
TwoPoisonedOneFPR(rc) ==
  \E v, w \in Vars : v # w /\ PoisonedIn(rc, v) /\ PoisonedIn(rc, w) /\ rc[v].t = "InFPR"
=============================================================================
