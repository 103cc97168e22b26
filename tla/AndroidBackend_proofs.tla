------------------------- MODULE AndroidBackend_proofs -------------------------
(***************************************************************************)
(* What sealward/backends/android.py guarantees whatever the tools answer  *)
(* and however they come and go.  The argument is one inductive invariant: *)
(* a call that is still signing has neither a verdict nor an accepted      *)
(* artifact of its own, and only apksigner leads to the verifier.          *)
(***************************************************************************)
EXTENDS AndroidBackend, TLAPS

Outcomes ==
  [status : CallStatus, verdict : VerifyVerdict, artifact : 0..1]

(* What a call in progress knows about its own verifier. *)
Unjudged ==
  /\ pc \in {"apksigner", "jarsigner", "verifying"} => judged = "none" /\ passed = {}
  /\ pc = "verifying" => signer = "apksigner" /\ touched = {1}

IInv == TypeOK /\ Unjudged /\ VerdictIsTruthful /\ ApksignerIsVerified

LEMMA OutcomeType ==
  ASSUME NEW s \in CallStatus, NEW v \in VerifyVerdict, NEW a \in 0..1
  PROVE  OutcomeOf(s, v, a) \in Outcomes
  BY DEF OutcomeOf, Outcomes

LEMMA OutcomeFields ==
  ASSUME NEW s, NEW v, NEW a
  PROVE  OutcomeOf(s, v, a).status = s /\ OutcomeOf(s, v, a).verdict = v
  BY DEF OutcomeOf

(* Every status and verdict android.py returns is one of result.py's. *)
LEMMA ReturnedValues ==
  /\ {"signed", "verified", "skipped_no_credential", "skipped_tool_absent", "failed"}
       \subseteq SigningStatus
  /\ {"passed", "failed", "not_run"} \subseteq VerifyVerdict
  /\ NoOutcome \in Outcomes /\ RaisedOutcome \in Outcomes
  /\ SigningStatus \subseteq CallStatus
  /\ ResolvedArtifact \in 0..1
  BY OutcomeType
  DEF SigningStatus, CallStatus, VerifyVerdict, NoOutcome, RaisedOutcome, ResolvedArtifact

(* android.py:405-412.  A verdict is "not_run" exactly for an exit code of  *)
(* _run's own, and 0 is never read on an unsigned APK.                      *)
LEMMA VerdictOfExits ==
  ASSUME NEW e \in VerifyExits
  PROVE  /\ e \in Exits
         /\ VerdictOf(e) \in VerifyVerdict
         /\ VerdictOf(e) = "not_run" <=> e \in {"none", "timeout", "missing"}
         /\ VerdictOf(e) = "passed" => apk \in {"v1", "v2"}
  BY DEF VerifyExits, VerdictOf, Exits, VerifyVerdict

LEMMA InitEstablishes == Init => IInv
<1> SUFFICES ASSUME Init PROVE IInv
  OBVIOUS
<1>1. TypeOK
  BY ReturnedValues DEF Init, TypeOK, Outcomes
<1>2. Unjudged /\ VerdictIsTruthful /\ ApksignerIsVerified
  BY OutcomeFields DEF Init, Unjudged, VerdictIsTruthful, ApksignerIsVerified, NoOutcome
<1> QED
  BY <1>1, <1>2 DEF IInv

(* The steps that return without a subprocess. *)
LEMMA AtOnceKeeps ==
  ASSUME IInv, NEW o \in Outcomes, ReturnsAtOnce(o),
         o.verdict = "not_run", o.status # "signed"
  PROVE  IInv'
<1> USE DEF ReturnsAtOnce, NewCall
<1>1. TypeOK'
  BY DEF IInv, TypeOK, Outcomes
<1>2. Unjudged' /\ VerdictIsTruthful' /\ ApksignerIsVerified'
  BY DEF IInv, Unjudged, VerdictIsTruthful, ApksignerIsVerified
<1> QED
  BY <1>1, <1>2 DEF IInv

LEMMA SignCallKeeps ==
  ASSUME IInv, NEW usable \in BOOLEAN, NEW password \in BOOLEAN,
         SignCall(usable, password)
  PROVE  IInv'
<1>1. CASE SignSkipsToolAbsent
  BY <1>1, AtOnceKeeps, OutcomeType, OutcomeFields, ReturnedValues DEF SignSkipsToolAbsent
<1>2. CASE SignSkipsNoCredential(usable, password)
  BY <1>2, AtOnceKeeps, OutcomeType, OutcomeFields, ReturnedValues DEF SignSkipsNoCredential
<1>3. CASE SignFailsNoMatch(usable, password)
  BY <1>3, AtOnceKeeps, OutcomeType, OutcomeFields, ReturnedValues DEF SignFailsNoMatch
<1>4. CASE SignBegins(usable, password)
  <2>1. TypeOK'
    BY <1>4 DEF SignBegins, NewCall, IInv, TypeOK
  <2>2. Unjudged' /\ VerdictIsTruthful' /\ ApksignerIsVerified'
    BY <1>4 DEF SignBegins, NewCall, Unjudged, VerdictIsTruthful, ApksignerIsVerified
  <2> QED
    BY <2>1, <2>2 DEF IInv
<1> QED
  BY <1>1, <1>2, <1>3, <1>4 DEF SignCall

(* The steps of a tool: a failure carries no verdict, and jarsigner's       *)
(* success does not claim one.                                              *)
LEMMA SigningKeeps ==
  ASSUME IInv,
         \/ ApksignerSucceeds \/ ApksignerFails
         \/ JarsignerSucceeds \/ JarsignerFails
  PROVE  IInv'
<1> USE DEF IInv, ToolMayWrite, Returns
<1>1. CASE ApksignerSucceeds
  <2>1. TypeOK'
    BY <1>1 DEF ApksignerSucceeds, TypeOK, ApkStates, AndroidTools
  <2>2. Unjudged' /\ VerdictIsTruthful' /\ ApksignerIsVerified'
    BY <1>1 DEF ApksignerSucceeds, Unjudged, VerdictIsTruthful, ApksignerIsVerified
  <2> QED
    BY <2>1, <2>2
<1>2. CASE ApksignerFails \/ JarsignerFails
  <2>1. outcome' = OutcomeOf("failed", "not_run", 1) /\ outcome' \in Outcomes
    BY <1>2, OutcomeType, ReturnedValues DEF ApksignerFails, JarsignerFails, SigningFails
  <2>2. TypeOK'
    BY <1>2, <2>1 DEF ApksignerFails, JarsignerFails, SigningFails, TypeOK, ApkStates, Outcomes
  <2>3. Unjudged' /\ VerdictIsTruthful' /\ ApksignerIsVerified'
    BY <1>2, <2>1, OutcomeFields
    DEF ApksignerFails, JarsignerFails, SigningFails, Unjudged, VerdictIsTruthful,
        ApksignerIsVerified
  <2> QED
    BY <2>2, <2>3
<1>3. CASE JarsignerSucceeds
  <2>1. outcome' = OutcomeOf("signed", "not_run", 1) /\ outcome' \in Outcomes
    BY <1>3, OutcomeType, ReturnedValues DEF JarsignerSucceeds
  <2>2. TypeOK'
    BY <1>3, <2>1 DEF JarsignerSucceeds, TypeOK, ApkStates, AndroidTools, Outcomes
  <2>3. Unjudged' /\ VerdictIsTruthful' /\ ApksignerIsVerified'
    BY <1>3, <2>1, OutcomeFields
    DEF JarsignerSucceeds, Unjudged, VerdictIsTruthful, ApksignerIsVerified
  <2> QED
    BY <2>2, <2>3
<1> QED
  BY <1>1, <1>2, <1>3

(* The verifier's answer becomes the outcome. *)
LEMMA VerifierKeeps ==
  ASSUME IInv, VerifyAfterSign \/ Verify
  PROVE  IInv'
<1>1. CASE VerifyAfterSign
  <2> USE <1>1 DEF IInv, VerifyAfterSign, Returns
  <2>1. PICK e \in VerifyExits :
          /\ judged' = e
          /\ passed' = IF VerdictOf(e) = "passed" THEN {1} ELSE {}
          /\ outcome' = OutcomeOf(IF VerdictOf(e) = "passed" THEN "signed" ELSE "failed",
                                  VerdictOf(e), 1)
    OBVIOUS
  <2>2. outcome' \in Outcomes
    BY <2>1, VerdictOfExits, OutcomeType, ReturnedValues
  <2>3. TypeOK'
    BY <2>1, <2>2, VerdictOfExits DEF TypeOK, Outcomes
  <2>4. /\ outcome'.verdict = VerdictOf(e)
        /\ outcome'.status = "signed" => VerdictOf(e) = "passed"
    BY <2>1, OutcomeFields
  <2>5. Unjudged' /\ VerdictIsTruthful' /\ ApksignerIsVerified'
    BY <2>1, <2>4, VerdictOfExits DEF Unjudged, VerdictIsTruthful, ApksignerIsVerified
  <2> QED
    BY <2>3, <2>5
<1>2. CASE Verify
  <2> USE <1>2 DEF IInv, Verify, NewCall
  <2>1. PICK e \in VerifyExits :
          /\ judged' = e
          /\ passed' = IF VerdictOf(e) = "passed" THEN {1} ELSE {}
          /\ outcome' = OutcomeOf(IF VerdictOf(e) = "passed" THEN "verified" ELSE "failed",
                                  VerdictOf(e), 1)
    OBVIOUS
  <2>2. outcome' \in Outcomes
    BY <2>1, VerdictOfExits, OutcomeType, ReturnedValues
  <2>3. TypeOK'
    BY <2>1, <2>2, VerdictOfExits DEF TypeOK, Outcomes
  <2>4. outcome'.verdict = VerdictOf(e) /\ outcome'.status # "signed"
    BY <2>1, OutcomeFields
  <2>5. Unjudged' /\ VerdictIsTruthful' /\ ApksignerIsVerified'
    BY <2>1, <2>4, VerdictOfExits DEF Unjudged, VerdictIsTruthful, ApksignerIsVerified
  <2> QED
    BY <2>3, <2>5
<1> QED
  BY <1>1, <1>2

(* What happens outside of the backend. *)
LEMMA OutsideKeeps ==
  ASSUME IInv, Rebuild \/ Reprovision \/ UNCHANGED vars
  PROVE  IInv'
<1>1. TypeOK'
  BY DEF IInv, TypeOK, Rebuild, Reprovision, vars, history, ApkStates
<1>2. Unjudged' /\ VerdictIsTruthful' /\ ApksignerIsVerified'
  BY DEF IInv, Unjudged, VerdictIsTruthful, ApksignerIsVerified, Rebuild, Reprovision,
         vars, history
<1> QED
  BY <1>1, <1>2 DEF IInv

(* A call that ends without an answer had not consulted its verifier. *)
LEMMA CallAbandonedKeeps ==
  ASSUME IInv, CallAbandoned
  PROVE  IInv'
<1>1. /\ outcome' \in Outcomes /\ outcome'.verdict = "not_run"
      /\ outcome'.status # "signed"
  BY ReturnedValues, OutcomeFields DEF CallAbandoned, Returns, NoOutcome, RaisedOutcome
<1>2. /\ pc # "idle" /\ pc' = "idle" /\ apk' \in ApkStates /\ touched' \subseteq {1}
      /\ UNCHANGED <<path, signer, judged, passed>>
  BY DEF CallAbandoned, Returns, ToolMayWrite, IInv, TypeOK, ApkStates
<1>3. TypeOK'
  BY <1>1, <1>2 DEF IInv, TypeOK, Outcomes
<1>4. judged' = "none"
  BY <1>2 DEF IInv, TypeOK, Unjudged
<1>5. Unjudged' /\ VerdictIsTruthful' /\ ApksignerIsVerified'
  BY <1>1, <1>2, <1>4 DEF Unjudged, VerdictIsTruthful, ApksignerIsVerified
<1> QED
  BY <1>3, <1>5 DEF IInv

LEMMA StepKeeps == IInv /\ [Next]_vars => IInv'
<1> SUFFICES ASSUME IInv, [Next]_vars PROVE IInv'
  OBVIOUS
<1>1. CASE \E usable, password \in BOOLEAN : SignCall(usable, password)
  BY <1>1, SignCallKeeps
<1>2. CASE Running
  BY <1>2, SigningKeeps, VerifierKeeps DEF Running
<1>3. CASE VerifySkips
  BY <1>3, AtOnceKeeps, OutcomeType, OutcomeFields, ReturnedValues DEF VerifySkips
<1>4. CASE VerifyFailsMissing
  BY <1>4, AtOnceKeeps, OutcomeType, OutcomeFields, ReturnedValues DEF VerifyFailsMissing
<1>5. CASE Verify
  BY <1>5, VerifierKeeps
<1>6. CASE Rebuild \/ Reprovision \/ UNCHANGED vars
  BY <1>6, OutsideKeeps
<1>7. CASE CallAbandoned
  BY <1>7, CallAbandonedKeeps
<1>8. CASE RaisesAtOnce
  BY <1>8, AtOnceKeeps, OutcomeFields, ReturnedValues DEF RaisesAtOnce, RaisedOutcome
<1> QED
  BY <1>1, <1>2, <1>3, <1>4, <1>5, <1>6, <1>7, <1>8 DEF Next

LEMMA Invariance == Spec => []IInv
  BY InitEstablishes, StepKeeps, PTL DEF Spec

(* android.py's state: every variable keeps its type. *)
THEOREM TypeCorrect == Spec => []TypeOK
<1>1. IInv => TypeOK
  BY DEF IInv
<1> QED
  BY <1>1, Invariance, PTL

(* android.py:405-412.  The verdict a call returns is a verdict: it is      *)
(* "not_run" exactly when apksigner verify did not run to its end.          *)
THEOREM VerdictsAreTruthful == Spec => []VerdictIsTruthful
<1>1. IInv => VerdictIsTruthful
  BY DEF IInv
<1> QED
  BY <1>1, Invariance, PTL

(* android.py:309-320.  What apksigner signed is never SIGNED unverified,   *)
(* also when apksigner disappears between its two runs.                     *)
THEOREM ApksignerAlwaysVerified == Spec => []ApksignerIsVerified
<1>1. IInv => ApksignerIsVerified
  BY DEF IInv
<1> QED
  BY <1>1, Invariance, PTL

(* android.py:277-291, 389-390.  A step that ends a call with a success     *)
(* whose verdict is "passed" finds a signed APK on disk.                    *)
THEOREM SuccessesAreGenuine == Spec => SuccessIsGenuine
<1>1. [Next]_vars =>
        (<<pc, outcome>>' # <<pc, outcome>> /\ pc' = "idle"
           /\ IsSuccess(outcome'.status) /\ outcome'.verdict = "passed" =>
             apk \in {"v1", "v2"})
  <2> SUFFICES ASSUME [Next]_vars, <<pc, outcome>>' # <<pc, outcome>>, pc' = "idle",
                      outcome'.verdict = "passed"
               PROVE  apk \in {"v1", "v2"}
    OBVIOUS
  <2>1. CASE VerifyAfterSign \/ Verify
    <3>1. PICK e \in VerifyExits : outcome'.verdict = VerdictOf(e)
      BY <2>1, OutcomeFields DEF VerifyAfterSign, Verify, Returns
    <3> QED
      BY <3>1, VerdictOfExits
  <2>2. ASSUME NEW usable \in BOOLEAN, NEW password \in BOOLEAN,
               SignCall(usable, password)
        PROVE  FALSE
    BY <2>2, OutcomeFields
    DEF SignCall, SignSkipsToolAbsent, SignSkipsNoCredential, SignFailsNoMatch,
        SignBegins, ReturnsAtOnce
  <2>3. ASSUME \/ ApksignerSucceeds \/ ApksignerFails
               \/ JarsignerSucceeds \/ JarsignerFails
        PROVE  FALSE
    BY <2>3, OutcomeFields
    DEF ApksignerSucceeds, ApksignerFails, JarsignerSucceeds, JarsignerFails,
        SigningFails, Returns
  <2>4. ASSUME VerifySkips \/ VerifyFailsMissing PROVE FALSE
    BY <2>4, OutcomeFields DEF VerifySkips, VerifyFailsMissing, ReturnsAtOnce
  <2>5. ASSUME Rebuild \/ Reprovision \/ UNCHANGED vars PROVE FALSE
    BY <2>5 DEF Rebuild, Reprovision, vars
  <2>6. ASSUME CallAbandoned \/ RaisesAtOnce PROVE FALSE
    BY <2>6, OutcomeFields
    DEF CallAbandoned, RaisesAtOnce, ReturnsAtOnce, Returns, NoOutcome, RaisedOutcome
  <2> QED
    BY <2>1, <2>2, <2>3, <2>4, <2>5, <2>6 DEF Next, Running
<1> QED
  BY <1>1, PTL DEF Spec, SuccessIsGenuine

------------------------------------------------------------------------------
(* The actions of the contract, for the one artifact there is. *)
LEMMA StepRefines ==
  IInv /\ [Next]_vars => [Contract!Next]_(Contract!contractVars)
<1> SUFFICES ASSUME IInv, [Next]_vars
             PROVE  Contract!Next \/ UNCHANGED Contract!contractVars
  OBVIOUS
<1> USE DEF OutcomeOf, NoOutcome, RaisedOutcome, SigningStatus, Contract!OutcomeOf,
            Contract!NoOutcome, Contract!RaisedOutcome, Contract!SigningStatus
<1>0. touched \subseteq {1} /\ passed \subseteq {1}
  BY DEF IInv, TypeOK
<1>1. ASSUME NEW o, ReturnsAtOnce(o), o.verdict = "not_run", o.artifact \in 0..1,
             o.status \in {"failed", "skipped_tool_absent", "skipped_no_credential"},
             o = OutcomeOf(o.status, o.verdict, o.artifact)
      PROVE  Contract!Next
  BY <1>1 DEF ReturnsAtOnce, NewCall, Contract!Next, Contract!Decline
<1>2. ASSUME NEW usable \in BOOLEAN, NEW password \in BOOLEAN, SignCall(usable, password)
      PROVE  Contract!Next
  <2>1. CASE SignSkipsToolAbsent
    BY <1>1, <2>1, ReturnedValues DEF SignSkipsToolAbsent
  <2>2. CASE SignSkipsNoCredential(usable, password)
    BY <1>1, <2>2, ReturnedValues DEF SignSkipsNoCredential
  <2>3. CASE SignFailsNoMatch(usable, password)
    BY <1>1, <2>3 DEF SignFailsNoMatch
  <2>4. CASE SignBegins(usable, password)
    BY <2>4 DEF SignBegins, NewCall, Contract!Next, Contract!Accept
  <2> QED
    BY <1>2, <2>1, <2>2, <2>3, <2>4 DEF SignCall
<1>3. ASSUME ApksignerSucceeds PROVE Contract!Next
  <2>1. Contract!Touch(1)
    BY <1>0, <1>3 DEF ApksignerSucceeds, Contract!Touch
  <2> QED
    BY <2>1 DEF Contract!Next
<1>4. ASSUME ApksignerFails \/ JarsignerFails PROVE Contract!Next
  <2>1. Contract!ReturnFailed(1)
    BY <1>0, <1>4 DEF ApksignerFails, JarsignerFails, SigningFails, Returns,
                      Contract!ReturnFailed, Contract!TouchedOnceMore
  <2> QED
    BY <2>1 DEF Contract!Next
<1>5. ASSUME JarsignerSucceeds PROVE Contract!Next
  <2>1. Contract!ReturnUnverified(1)
    BY <1>0, <1>5 DEF JarsignerSucceeds, Returns, Contract!ReturnUnverified
  <2> QED
    BY <2>1 DEF Contract!Next
<1>6. ASSUME VerifyAfterSign PROVE Contract!Next
  <2>1. PICK e \in VerifyExits :
          /\ passed' = IF VerdictOf(e) = "passed" THEN {1} ELSE {}
          /\ outcome' = OutcomeOf(IF VerdictOf(e) = "passed" THEN "signed" ELSE "failed",
                                  VerdictOf(e), 1)
    BY <1>6 DEF VerifyAfterSign, Returns
  <2>2. VerdictOf(e) \in {"passed", "failed", "not_run"}
    BY VerdictOfExits DEF VerifyVerdict
  <2>3. pc = "verifying" /\ pc' = "idle" /\ touched = {1} /\ touched' = {1} /\ passed = {}
    BY <1>6 DEF VerifyAfterSign, Returns, IInv, Unjudged
  <2>4. Contract!ReturnSigned(1) \/ Contract!ReturnFailed(1)
    BY <2>1, <2>2, <2>3
    DEF Contract!ReturnSigned, Contract!ReturnFailed, Contract!TouchedOnceMore
  <2> QED
    BY <2>4 DEF Contract!Next
<1>7. ASSUME Verify PROVE Contract!Next
  <2>1. PICK e \in VerifyExits :
          /\ passed' = IF VerdictOf(e) = "passed" THEN {1} ELSE {}
          /\ outcome' = OutcomeOf(IF VerdictOf(e) = "passed" THEN "verified" ELSE "failed",
                                  VerdictOf(e), 1)
    BY <1>7 DEF Verify
  <2>2. VerdictOf(e) \in {"passed", "failed", "not_run"}
    BY VerdictOfExits DEF VerifyVerdict
  <2>3. pc = "idle" /\ pc' = "idle" /\ touched' = {}
    BY <1>7 DEF Verify, NewCall
  <2>4. Contract!VerifyOnly(1) \/ Contract!Decline
    BY <2>1, <2>2, <2>3 DEF Contract!VerifyOnly, Contract!Decline
  <2> QED
    BY <2>4 DEF Contract!Next
<1>8. ASSUME VerifySkips \/ VerifyFailsMissing PROVE Contract!Next
  BY <1>1, <1>8 DEF VerifySkips, VerifyFailsMissing
<1>9. ASSUME CallAbandoned \/ RaisesAtOnce PROVE Contract!Next
  <2>1. CASE CallAbandoned
    <3>1. touched' \in {touched, touched \cup {1}}
      BY <1>0, <2>1 DEF CallAbandoned
    <3> QED
      BY <2>1, <3>1 DEF CallAbandoned, Returns, Contract!Abandon,
                        Contract!TouchedOnceMore, Contract!Next
  <2>2. CASE RaisesAtOnce
    BY <2>2 DEF RaisesAtOnce, ReturnsAtOnce, NewCall, Contract!Abandon, Contract!Next
  <2> QED
    BY <1>9, <2>1, <2>2
<1>10. ASSUME Rebuild \/ Reprovision \/ UNCHANGED vars
       PROVE  UNCHANGED Contract!contractVars
  BY <1>10 DEF Rebuild, Reprovision, vars, history, Contract!contractVars
<1> QED
  BY <1>2, <1>3, <1>4, <1>5, <1>6, <1>7, <1>8, <1>9, <1>10 DEF Next, Running

(* The Android backend does what backends/base.py allows, with jarsigner's  *)
(* unverified SIGNED and an exception as the only deviations.               *)
THEOREM ContractImplemented == Spec => ImplementsContract
<1>1. Init => Contract!Init
  BY DEF Init, Contract!Init, NoOutcome, Contract!NoOutcome, OutcomeOf, Contract!OutcomeOf
<1> QED
  BY <1>1, StepRefines, Invariance, PTL DEF Spec, ImplementsContract, Contract!Spec

(* The contract's theorems, about the machine that this backend refines.    *)
Theory ==
  INSTANCE SignerContract_proofs WITH
    Artifacts <- {1}, LateSkip <- FALSE, TrustsTool <- TRUE, Raises <- TRUE,
    busy <- pc # "idle",
    touched <- touched,
    passed <- passed,
    outcome <- outcome

LEMMA SameContract == Contract!Spec => Theory!Spec
<1>1. Contract!Init => Theory!Init
  BY DEF Contract!Init, Theory!Init, Contract!NoOutcome, Theory!NoOutcome,
         Contract!OutcomeOf, Theory!OutcomeOf
<1>2. [Contract!Next]_(Contract!contractVars) => [Theory!Next]_(Theory!contractVars)
  BY DEF Contract!Next, Theory!Next, Contract!contractVars, Theory!contractVars,
         Contract!Accept, Theory!Accept, Contract!Decline, Theory!Decline,
         Contract!VerifyOnly, Theory!VerifyOnly, Contract!Touch, Theory!Touch,
         Contract!Check, Theory!Check, Contract!Abandon, Theory!Abandon,
         Contract!ReturnSigned, Theory!ReturnSigned, Contract!ReturnFailed,
         Theory!ReturnFailed, Contract!ReturnUnverified, Theory!ReturnUnverified,
         Contract!ReturnLateSkip, Theory!ReturnLateSkip, Contract!TouchedOnceMore,
         Theory!TouchedOnceMore, Contract!NoOutcome, Theory!NoOutcome,
         Contract!OutcomeOf, Theory!OutcomeOf, Contract!SigningStatus,
         Theory!SigningStatus, Contract!RaisedOutcome, Theory!RaisedOutcome
<1> QED
  BY <1>1, <1>2, PTL DEF Contract!Spec, Theory!Spec

(* backends/base.py:138-152 with result.py, what the refinement buys in     *)
(* spite of the unverified jarsigner: a call that says it was skipped ran   *)
(* no signing tool on the artifact.                                         *)
THEOREM ContractHonoured == Spec => []Contract!SkipTouchesNothing
<1>1. Theory!Spec => []Theory!SkipTouchesNothing
  BY Theory!ContractSkipTouchesNothing, PTL
<1>2. Contract!SkipTouchesNothing <=> Theory!SkipTouchesNothing
  BY DEF Contract!SkipTouchesNothing, Theory!SkipTouchesNothing, Contract!IsSkipped,
         Theory!IsSkipped
<1> QED
  BY <1>1, <1>2, ContractImplemented, SameContract, PTL DEF ImplementsContract

(* How far SignedIsVerified fails: a SIGNED outcome is the work of one of   *)
(* the two tools in this very call, and of apksigner's it holds.            *)
SignedByTool == pc = "idle" /\ outcome.status = "signed" => signer \in AndroidTools

(* result.py:86-91 and 57, android.py:309-320.  "SIGNED is verified" is     *)
(* kept by every call that jarsigner did not sign in.                       *)
THEOREM OnlyJarsignerIsUnverified == Spec => [](signer # "jarsigner" => SignedIsVerified)
<1> USE OutcomeFields DEF SignedByTool
<1>1. Init => SignedByTool
  BY DEF Init, NoOutcome
<1>2. IInv /\ SignedByTool /\ [Next]_vars => SignedByTool'
  <2> SUFFICES ASSUME IInv, SignedByTool, [Next]_vars PROVE SignedByTool'
    OBVIOUS
  <2>1. ASSUME NEW usable \in BOOLEAN, NEW password \in BOOLEAN,
               SignCall(usable, password)
        PROVE  SignedByTool'
    BY <2>1 DEF SignCall, SignSkipsToolAbsent, SignSkipsNoCredential, SignFailsNoMatch,
                SignBegins, ReturnsAtOnce
  <2>2. CASE ApksignerSucceeds \/ ApksignerFails \/ JarsignerFails
    BY <2>2 DEF ApksignerSucceeds, ApksignerFails, JarsignerFails, SigningFails, Returns
  <2>3. CASE JarsignerSucceeds
    BY <2>3 DEF JarsignerSucceeds, AndroidTools
  <2>4. CASE VerifyAfterSign
    BY <2>4 DEF VerifyAfterSign, IInv, Unjudged, AndroidTools
  <2>5. CASE VerifySkips \/ VerifyFailsMissing
    BY <2>5 DEF VerifySkips, VerifyFailsMissing, ReturnsAtOnce
  <2>6. CASE Verify
    BY <2>6 DEF Verify
  <2>7. CASE Rebuild \/ Reprovision \/ UNCHANGED vars
    BY <2>7 DEF Rebuild, Reprovision, vars, history
  <2>8. CASE CallAbandoned \/ RaisesAtOnce
    BY <2>8 DEF CallAbandoned, RaisesAtOnce, ReturnsAtOnce, Returns, NoOutcome, RaisedOutcome
  <2> QED
    BY <2>1, <2>2, <2>3, <2>4, <2>5, <2>6, <2>7, <2>8 DEF Next, Running
<1>3. IInv /\ SignedByTool => (signer # "jarsigner" => SignedIsVerified)
  BY DEF IInv, ApksignerIsVerified, SignedIsVerified, AndroidTools
<1> QED
  BY <1>1, <1>2, <1>3, Invariance, PTL DEF Spec

==============================================================================
