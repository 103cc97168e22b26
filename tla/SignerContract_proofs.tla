------------------------- MODULE SignerContract_proofs -------------------------
(***************************************************************************)
(* What the signing contract guarantees, for any set of artifacts in which *)
(* 0 keeps its meaning of "no single artifact".  The three invariants are  *)
(* inductive as they stand, because a call can only end through an action  *)
(* that says what it rests on.                                             *)
(***************************************************************************)
EXTENDS SignerContract, TLAPS

Outcomes ==
  [status : CallStatus, verdict : VerifyVerdict,
   artifact : Artifacts \cup {0}]

LEMMA OutcomeType ==
  ASSUME NEW s \in CallStatus, NEW v \in VerifyVerdict,
         NEW a \in Artifacts \cup {0}
  PROVE  OutcomeOf(s, v, a) \in Outcomes
  BY DEF OutcomeOf, Outcomes

LEMMA StatusValues ==
  /\ {"signed", "verified", "skipped_no_credential", "failed"} \subseteq SigningStatus
  /\ {"passed", "failed", "not_run"} \subseteq VerifyVerdict
  /\ SigningStatus \subseteq CallStatus /\ {"none", "raised"} \subseteq CallStatus
  BY DEF SigningStatus, CallStatus, VerifyVerdict

(* backends/base.py, the contract's type invariant: what a backend touched  *)
(* and what it reports are artifacts of the glob.                           *)
THEOREM ContractTypeCorrect == Spec => []ContractTypeOK
<1> DEFINE Sets == busy \in BOOLEAN /\ touched \subseteq Artifacts /\ passed \subseteq Artifacts
<1>1. ContractTypeOK <=> Sets /\ outcome \in Outcomes
  BY DEF ContractTypeOK, Outcomes
<1>2. ContractTypeOK' <=> Sets' /\ outcome' \in Outcomes
  BY DEF ContractTypeOK, Outcomes
<1>3. NoOutcome \in Outcomes /\ RaisedOutcome \in Outcomes
  BY OutcomeType, StatusValues DEF NoOutcome, RaisedOutcome
<1>4. Init => ContractTypeOK
  BY <1>1, <1>3 DEF Init
<1>5. ContractTypeOK /\ [Next]_contractVars => ContractTypeOK'
  <2> SUFFICES ASSUME Sets, outcome \in Outcomes, [Next]_contractVars
               PROVE  Sets' /\ outcome' \in Outcomes
    BY <1>1, <1>2
  <2>1. Sets'
    <3>1. CASE Accept \/ Decline
      BY <3>1 DEF Accept, Decline
    <3>2. ASSUME NEW a \in Artifacts,
                 \/ VerifyOnly(a) \/ Touch(a) \/ Check(a) \/ Abandon(a)
                 \/ ReturnSigned(a) \/ ReturnFailed(a)
                 \/ ReturnUnverified(a) \/ ReturnLateSkip(a)
          PROVE  Sets'
      BY <3>2 DEF VerifyOnly, Touch, Check, Abandon, ReturnSigned, ReturnFailed,
                  ReturnUnverified, ReturnLateSkip, TouchedOnceMore
    <3>3. CASE UNCHANGED contractVars
      BY <3>3 DEF contractVars
    <3> QED
      BY <3>1, <3>2, <3>3 DEF Next
  <2>2. outcome' \in Outcomes
    <3>1. CASE Accept
      BY <3>1 DEF Accept
    <3>2. CASE Decline
      BY <3>2, OutcomeType, StatusValues DEF Decline
    <3>3. ASSUME NEW a \in Artifacts, Touch(a) \/ Check(a) \/ Abandon(a)
          PROVE  outcome' \in Outcomes
      BY <1>3, <3>3 DEF Touch, Check, Abandon
    <3>4. ASSUME NEW a \in Artifacts,
                 \/ VerifyOnly(a) \/ ReturnSigned(a) \/ ReturnFailed(a)
                 \/ ReturnUnverified(a) \/ ReturnLateSkip(a)
          PROVE  outcome' \in Outcomes
      BY <3>4, OutcomeType, StatusValues
      DEF VerifyOnly, ReturnSigned, ReturnFailed, ReturnUnverified, ReturnLateSkip
    <3>5. CASE UNCHANGED contractVars
      BY <3>5 DEF contractVars
    <3> QED
      BY <3>1, <3>2, <3>3, <3>4, <3>5 DEF Next
  <2> QED
    BY <2>1, <2>2
<1> QED
  BY <1>4, <1>5, PTL DEF Spec

(* result.py, VerifyVerdict, "a SIGNED status is never trusted on a         *)
(* backend's bare word": without the deviation TrustsTool every success     *)
(* rests on an accepting verifier.                                          *)
THEOREM ContractSuccessIsChecked ==
  ASSUME 0 \notin Artifacts
  PROVE  Spec => []SuccessIsChecked
<1> USE DEF SuccessIsChecked, IsSuccess, OutcomeOf, NoOutcome, RaisedOutcome
<1>1. Init => SuccessIsChecked
  BY DEF Init
<1>2. SuccessIsChecked /\ [Next]_contractVars => SuccessIsChecked'
  <2> SUFFICES ASSUME SuccessIsChecked, [Next]_contractVars
               PROVE  SuccessIsChecked'
    OBVIOUS
  <2>1. CASE Accept \/ Decline
    BY <2>1 DEF Accept, Decline
  <2>2. ASSUME NEW a \in Artifacts, VerifyOnly(a)
        PROVE  SuccessIsChecked'
    BY <2>2 DEF VerifyOnly
  <2>3. ASSUME NEW a \in Artifacts, Touch(a) \/ Check(a) \/ Abandon(a)
        PROVE  SuccessIsChecked'
    BY <2>3 DEF Touch, Check, Abandon
  <2>4. ASSUME NEW a \in Artifacts, ReturnSigned(a)
        PROVE  SuccessIsChecked'
    BY <2>4 DEF ReturnSigned
  <2>5. ASSUME NEW a \in Artifacts,
               ReturnFailed(a) \/ ReturnUnverified(a) \/ ReturnLateSkip(a)
        PROVE  SuccessIsChecked'
    BY <2>5 DEF ReturnFailed, ReturnUnverified, ReturnLateSkip
  <2>6. CASE UNCHANGED contractVars
    BY <2>6 DEF contractVars
  <2> QED
    BY <2>1, <2>2, <2>3, <2>4, <2>5, <2>6 DEF Next
<1> QED
  BY <1>1, <1>2, PTL DEF Spec

(* result.py, SigningStatus, skipped "means it was never attempted":        *)
(* without the deviation LateSkip a skip leaves every artifact alone.       *)
THEOREM ContractSkipTouchesNothing == Spec => []SkipTouchesNothing
<1> USE DEF SkipTouchesNothing, IsSkipped, OutcomeOf, NoOutcome, RaisedOutcome
<1>1. Init => SkipTouchesNothing
  BY DEF Init
<1>2. SkipTouchesNothing /\ [Next]_contractVars => SkipTouchesNothing'
  <2> SUFFICES ASSUME SkipTouchesNothing, [Next]_contractVars
               PROVE  SkipTouchesNothing'
    OBVIOUS
  <2>1. CASE Accept \/ Decline
    BY <2>1 DEF Accept, Decline
  <2>2. ASSUME NEW a \in Artifacts, VerifyOnly(a) \/ Touch(a) \/ Check(a) \/ Abandon(a)
        PROVE  SkipTouchesNothing'
    BY <2>2 DEF VerifyOnly, Touch, Check, Abandon
  <2>3. ASSUME NEW a \in Artifacts, ReturnSigned(a) \/ ReturnFailed(a)
        PROVE  SkipTouchesNothing'
    BY <2>3 DEF ReturnSigned, ReturnFailed
  <2>4. ASSUME NEW a \in Artifacts, ReturnUnverified(a) \/ ReturnLateSkip(a)
        PROVE  SkipTouchesNothing'
    BY <2>4 DEF ReturnUnverified, ReturnLateSkip
  <2>5. CASE UNCHANGED contractVars
    BY <2>5 DEF contractVars
  <2> QED
    BY <2>1, <2>2, <2>3, <2>4, <2>5 DEF Next
<1> QED
  BY <1>1, <1>2, PTL DEF Spec

==============================================================================
