--------------------------- MODULE IosBackend_proofs ---------------------------
(***************************************************************************)
(* What the run of IosBackend checks for an app, its framework and one     *)
(* more bundle, for every number of artifacts and every nesting.           *)
(*                                                                         *)
(* The loop of sign() leaves a trail: everything before the loop position  *)
(* was signed and verified in this call, nothing after it was touched, and *)
(* a signature before the position can only have been broken by a bundle   *)
(* of the same glob that lies inside of it.                                *)
(***************************************************************************)
EXTENDS IosBackend, TLAPS

Outcomes ==
  [status : CallStatus, verdict : VerifyVerdict, artifact : 0..NArtifacts]

(* The signature of the i-th match is valid, or a listed bundle is inside. *)
Stands(i) ==
  \/ disk[artifacts[i]] = "signed"
  \/ \E j \in DOMAIN artifacts : <<artifacts[i], artifacts[j]>> \in Inside

Trail ==
  /\ pc # "idle" =>
       \A i \in DOMAIN artifacts : i < index => artifacts[i] \in touched \cap passed
  /\ pc = "verifying" => artifacts[index] \in touched
  /\ pc = "signing" => touched \subseteq {artifacts[i] : i \in 1..(index - 1)}
  /\ pc = "verifying" => touched \subseteq {artifacts[i] : i \in 1..index}

Standing ==
  pc # "idle" /\ ~disturbed => \A i \in DOMAIN artifacts : i < index => Stands(i)

Claims == EverySignatureVerified /\ SignedStandsOutsideNests

IInv == TypeOK /\ Trail /\ Standing /\ Claims

------------------------------------------------------------------------------
USE NArtifactsAssumption

(* What a listing is: a sequence of artifacts that is not too long. *)
LEMMA ListingFacts ==
  ASSUME NEW s \in Listings
  PROVE  /\ s \in Seq(Artifacts)
         /\ Len(s) \in 0..NArtifacts
         /\ DOMAIN s = 1..Len(s)
         /\ \A i \in DOMAIN s : s[i] \in Artifacts
<1>1. PICK n \in 0..NArtifacts : s \in [1..n -> Artifacts]
  BY DEF Listings
<1> QED
  BY <1>1

LEMMA OutcomeType ==
  ASSUME NEW s \in CallStatus, NEW v \in VerifyVerdict,
         NEW a \in 0..NArtifacts
  PROVE  OutcomeOf(s, v, a) \in Outcomes
  BY DEF OutcomeOf, Outcomes

LEMMA OutcomeFields ==
  ASSUME NEW s, NEW v, NEW a
  PROVE  OutcomeOf(s, v, a).status = s /\ OutcomeOf(s, v, a).verdict = v
  BY DEF OutcomeOf

(* Every status and verdict ios.py returns is one of result.py's. *)
LEMMA ReturnedValues ==
  /\ {"signed", "verified", "skipped_no_credential", "skipped_tool_absent", "failed"}
       \subseteq SigningStatus
  /\ {"passed", "failed", "not_run"} \subseteq VerifyVerdict
  /\ 0 \in 0..NArtifacts /\ Artifacts \subseteq 0..NArtifacts
  /\ SigningStatus \subseteq CallStatus
  /\ NoOutcome \in Outcomes /\ RaisedOutcome \in Outcomes
  BY OutcomeType
  DEF SigningStatus, CallStatus, VerifyVerdict, NoOutcome, RaisedOutcome, Artifacts

(* A call in progress stands at an artifact of its listing. *)
LEMMA LoopFacts ==
  ASSUME TypeOK, pc # "idle"
  PROVE  /\ index \in DOMAIN artifacts /\ index \in 1..Len(artifacts)
         /\ Current \in Artifacts
         /\ DOMAIN artifacts = 1..Len(artifacts)
         /\ Len(artifacts) \in 1..NArtifacts
  BY ListingFacts DEF TypeOK, Current

(* Writing to one artifact breaks at most the seals around it. *)
LEMMA SealFacts ==
  ASSUME TypeOK, NEW a \in Artifacts, NEW s \in BundleStates
  PROVE  /\ Seal(disk, a, s) \in [Artifacts -> BundleStates]
         /\ Seal(disk, a, s)[a] = s
         /\ \A b \in Artifacts :
              disk[b] = "signed" /\ <<b, a>> \notin Inside /\ b # a =>
                Seal(disk, a, s)[b] = "signed"
  BY DEF Seal, TypeOK, BundleStates

LEMMA InitEstablishes == Init => IInv
<1> SUFFICES ASSUME Init PROVE IInv
  OBVIOUS
<1>1. <<>> \in [1..0 -> Artifacts]
  OBVIOUS
<1>2. artifacts \in Listings
  BY <1>1 DEF Init, Listings
<1>3. TypeOK
  <2>1. outcome \in Outcomes /\ index \in 1..NArtifacts
    BY ReturnedValues DEF Init
  <2>2. disturbed \in BOOLEAN /\ touched \subseteq Artifacts /\ passed \subseteq Artifacts
    BY DEF Init
  <2> QED
    BY <1>2, <2>1, <2>2 DEF Init, TypeOK, Outcomes
<1>4. Trail /\ Standing /\ Claims
  BY OutcomeFields
  DEF Init, Trail, Standing, Claims, EverySignatureVerified, SignedStandsOutsideNests, NoOutcome
<1> QED
  BY <1>3, <1>4 DEF IInv

------------------------------------------------------------------------------
(* A call that answers at once, and one that begins. *)
LEMMA AtOnceKeeps ==
  ASSUME IInv, pc = "idle", pc' = "idle", UNCHANGED <<disk, locals>>,
         outcome' \in Outcomes, outcome'.status # "signed",
         disturbed' = FALSE, touched' = {}, passed' \subseteq Artifacts
  PROVE  IInv'
<1>1. TypeOK'
  BY DEF IInv, TypeOK, Outcomes, locals
<1>2. Trail' /\ Standing' /\ Claims'
  BY DEF Trail, Standing, Claims, EverySignatureVerified, SignedStandsOutsideNests
<1> QED
  BY <1>1, <1>2 DEF IInv

LEMMA SignCallKeeps ==
  ASSUME IInv, NEW codesign \in BOOLEAN, NEW usable \in BOOLEAN, NEW match \in BOOLEAN,
         SignCall(codesign, usable, match)
  PROVE  IInv'
<1>1. CASE SignSkipsToolAbsent(codesign) \/ SignSkipsNoCredential(codesign, usable, match)
  <2>1. PICK s \in {"skipped_tool_absent", "skipped_no_credential"} :
          ReturnsAtOnce(OutcomeOf(s, "not_run", 0))
    BY <1>1 DEF SignSkipsToolAbsent, SignSkipsNoCredential, Skipped
  <2>2. outcome' \in Outcomes /\ outcome'.status # "signed"
    BY <2>1, OutcomeType, OutcomeFields, ReturnedValues DEF ReturnsAtOnce
  <2>3. /\ pc = "idle" /\ pc' = "idle" /\ UNCHANGED <<disk, locals>>
        /\ disturbed' = FALSE /\ touched' = {} /\ passed' \subseteq Artifacts
    BY <2>1 DEF ReturnsAtOnce
  <2> QED
    BY <2>2, <2>3, AtOnceKeeps
<1>2. CASE SignBegins(codesign, usable, match)
  <2> USE <1>2 DEF SignBegins
  <2>1. artifacts' \in Listings /\ artifacts' # <<>>
    BY DEF Expand
  <2>2. 1 \in DOMAIN artifacts'
    BY <2>1, ListingFacts
  <2>3. TypeOK'
    <3>1. index' \in 1..NArtifacts /\ index' \in DOMAIN artifacts'
      BY <2>2
    <3>2. disturbed' \in BOOLEAN /\ touched' \subseteq Artifacts /\ passed' \subseteq Artifacts
      OBVIOUS
    <3> QED
      BY <2>1, <3>1, <3>2 DEF IInv, TypeOK
  <2>4. \A i \in DOMAIN artifacts' : ~(i < 1)
    BY <2>1, ListingFacts
  <2>5. Trail' /\ Standing' /\ Claims'
    BY <2>4
    DEF Trail, Standing, Claims, EverySignatureVerified, SignedStandsOutsideNests
  <2> QED
    BY <2>3, <2>5 DEF IInv
<1> QED
  BY <1>1, <1>2 DEF SignCall

(* A step that ends the call without a signature to claim. *)
LEMMA EndingKeeps ==
  ASSUME IInv, pc' = "idle", outcome' \in Outcomes, outcome'.status # "signed",
         UNCHANGED <<locals, disturbed, passed>>,
         disk' \in [Artifacts -> BundleStates], touched' \subseteq Artifacts
  PROVE  IInv'
<1>1. TypeOK'
  BY DEF IInv, TypeOK, Outcomes, locals
<1>2. Trail' /\ Standing' /\ Claims'
  BY DEF Trail, Standing, Claims, EverySignatureVerified, SignedStandsOutsideNests
<1> QED
  BY <1>1, <1>2 DEF IInv

(* codesign --sign on the current artifact. *)
LEMMA ToolFacts ==
  ASSUME IInv, pc = "signing", ToolMayWrite
  PROVE  /\ disk' \in [Artifacts -> BundleStates]
         /\ \A b \in Artifacts :
              disk[b] = "signed" /\ <<b, Current>> \notin Inside => disk'[b] = "signed"
<1>1. TypeOK /\ Current \in Artifacts
  BY LoopFacts DEF IInv
<1>2. CASE UNCHANGED disk
  BY <1>1, <1>2 DEF TypeOK
<1>3. CASE disk' = Seal(disk, Current, "signed")
  BY <1>1, <1>3, SealFacts DEF BundleStates
<1> QED
  BY <1>2, <1>3 DEF ToolMayWrite

LEMMA ToolSucceedsKeeps ==
  ASSUME IInv, ToolSucceeds
  PROVE  IInv'
<1> USE DEF ToolSucceeds
<1>1. /\ TypeOK /\ Current \in Artifacts /\ index \in DOMAIN artifacts
      /\ DOMAIN artifacts = 1..Len(artifacts) /\ Len(artifacts) \in Nat
  BY LoopFacts DEF IInv
<1>2. UNCHANGED <<artifacts, index, disturbed, passed, outcome>>
  BY DEF locals
<1>3. TypeOK'
  BY <1>1, <1>2, ToolFacts DEF TypeOK
<1>4. Trail'
  BY <1>1, <1>2 DEF IInv, Trail, Current
<1>5. Standing'
  <2> SUFFICES ASSUME ~disturbed, NEW i \in DOMAIN artifacts, i < index PROVE Stands(i)'
    BY <1>2 DEF Standing
  <2>1. artifacts[i] \in Artifacts
    BY <1>1, ListingFacts DEF TypeOK
  <2>2. Stands(i)
    BY DEF IInv, Standing
  <2>3. CASE <<artifacts[i], Current>> \in Inside
    BY <1>1, <1>2, <2>3 DEF Stands, Current
  <2>4. CASE <<artifacts[i], Current>> \notin Inside
    BY <1>2, <2>1, <2>2, <2>4, ToolFacts DEF Stands
  <2> QED
    BY <2>3, <2>4
<1>6. Claims'
  BY DEF Claims, EverySignatureVerified, SignedStandsOutsideNests
<1> QED
  BY <1>3, <1>4, <1>5, <1>6 DEF IInv

LEMMA VerifyPassesKeeps ==
  ASSUME IInv, VerifyPasses
  PROVE  IInv'
<1> USE DEF VerifyPasses
<1>1. /\ TypeOK /\ Current \in Artifacts /\ index \in 1..Len(artifacts)
      /\ DOMAIN artifacts = 1..Len(artifacts) /\ Len(artifacts) \in 1..NArtifacts
  BY LoopFacts DEF IInv
<1>2. UNCHANGED <<disk, artifacts, disturbed, touched>> /\ passed' = passed \cup {Current}
  OBVIOUS
<1>3. \A i \in DOMAIN artifacts : i <= index => artifacts[i] \in touched \cap passed'
  BY <1>1, <1>2 DEF IInv, Trail, Current
<1>4. ~disturbed => \A i \in DOMAIN artifacts : i <= index => Stands(i)
  BY <1>1 DEF IInv, Standing, Stands, Current
<1>5. CASE HasNext
  <2>1. index' = index + 1 /\ pc' = "signing" /\ outcome' = outcome
    BY <1>5
  <2>2. index + 1 \in DOMAIN artifacts
    BY <1>1, <1>5 DEF HasNext
  <2>3. TypeOK'
    BY <1>1, <1>2, <2>1, <2>2 DEF TypeOK
  <2>4. \A i \in DOMAIN artifacts : i < index + 1 => i <= index
    BY <1>1
  <2>5. Trail'
    <3>1. touched \subseteq {artifacts[i] : i \in 1..index} /\ (index + 1) - 1 = index
      BY <1>1 DEF IInv, Trail
    <3> QED
      BY <1>2, <1>3, <2>1, <2>4, <3>1 DEF Trail
  <2>6. Standing'
    BY <1>2, <1>4, <2>1, <2>4 DEF Standing, Stands
  <2>7. Claims'
    BY <2>1 DEF Claims, EverySignatureVerified, SignedStandsOutsideNests
  <2> QED
    BY <2>3, <2>5, <2>6, <2>7 DEF IInv
<1>6. CASE ~HasNext
  <2>1. /\ index' = index /\ pc' = "idle"
        /\ outcome' = OutcomeOf("signed", "passed", SignedArtifact)
    BY <1>6 DEF Returns
  <2>2. \A i \in DOMAIN artifacts : i <= index
    BY <1>1, <1>6 DEF HasNext
  <2>3. outcome' \in Outcomes
    BY <1>1, <2>1, OutcomeType, ReturnedValues DEF SignedArtifact
  <2>4. TypeOK'
    BY <1>1, <1>2, <2>1, <2>3 DEF TypeOK, Outcomes
  <2>5. Trail' /\ Standing'
    BY <2>1 DEF Trail, Standing
  <2>6. Claims'
    BY <1>2, <1>3, <1>4, <2>1, <2>2
    DEF Claims, EverySignatureVerified, SignedStandsOutsideNests, Stands
  <2> QED
    BY <2>4, <2>5, <2>6 DEF IInv
<1> QED
  BY <1>5, <1>6

LEMMA RunningKeeps ==
  ASSUME IInv, Running
  PROVE  IInv'
<1>1. TypeOK
  BY DEF IInv
<1>2. CASE ToolFails
  <2>1. Current \in Artifacts
    BY <1>1, <1>2, LoopFacts DEF ToolFails
  <2> QED
    BY <1>1, <1>2, <2>1, EndingKeeps, ToolFacts, OutcomeType, OutcomeFields, ReturnedValues
    DEF ToolFails, Returns, TypeOK
<1>3. CASE ToolRaises
  <2>1. Current \in Artifacts
    BY <1>1, <1>3, LoopFacts DEF ToolRaises
  <2> QED
    BY <1>1, <1>3, <2>1, EndingKeeps, ToolFacts, OutcomeFields, ReturnedValues
    DEF ToolRaises, Returns, TypeOK, RaisedOutcome
<1>4. CASE VerifyFails
  <2>1. Current \in Artifacts
    BY <1>1, <1>4, LoopFacts DEF VerifyFails
  <2>2. outcome' \in Outcomes /\ outcome'.status # "signed" /\ pc' = "idle"
    BY <1>4, <2>1, OutcomeType, OutcomeFields, ReturnedValues DEF VerifyFails, Returns
  <2> QED
    BY <1>1, <1>4, <2>2, EndingKeeps DEF VerifyFails, TypeOK, history
<1> QED
  BY <1>2, <1>3, <1>4, ToolSucceedsKeeps, VerifyPassesKeeps DEF Running

(* Calls of verify(), the build and the end of the process. *)
LEMMA OutsideKeeps ==
  ASSUME IInv, NEW codesign \in BOOLEAN, NEW a \in Artifacts,
         \/ VerifySkips(codesign, a) \/ Verify(codesign, a)
         \/ Rebuild(a) \/ CallAbandoned \/ RaisesAtOnce \/ UNCHANGED vars
  PROVE  IInv'
<1>1. CASE VerifySkips(codesign, a)
  <2>1. outcome' \in Outcomes /\ outcome'.status # "signed"
    BY <1>1, OutcomeType, OutcomeFields, ReturnedValues DEF VerifySkips, ReturnsAtOnce
  <2>2. /\ pc = "idle" /\ pc' = "idle" /\ UNCHANGED <<disk, locals>>
        /\ disturbed' = FALSE /\ touched' = {} /\ passed' \subseteq Artifacts
    BY <1>1 DEF VerifySkips, ReturnsAtOnce
  <2> QED
    BY <2>1, <2>2, AtOnceKeeps
<1>2. CASE Verify(codesign, a)
  <2>1. outcome' \in Outcomes /\ outcome'.status # "signed" /\ passed' \subseteq Artifacts
    BY <1>2, OutcomeType, OutcomeFields, ReturnedValues DEF Verify
  <2> QED
    BY <1>2, <2>1, AtOnceKeeps DEF Verify
<1>3. CASE Rebuild(a)
  <2>1. disk' \in [Artifacts -> BundleStates]
    BY <1>3, SealFacts DEF Rebuild, IInv, BundleStates
  <2>2. /\ disturbed' = TRUE
        /\ UNCHANGED <<pc, artifacts, index, outcome, touched, passed>>
    BY <1>3 DEF Rebuild, locals
  <2>3. TypeOK'
    BY <2>1, <2>2 DEF IInv, TypeOK
  <2>4. Trail' /\ Standing' /\ Claims'
    BY <2>2 DEF IInv, Trail, Standing, Claims, EverySignatureVerified,
                SignedStandsOutsideNests
  <2> QED
    BY <2>3, <2>4 DEF IInv
<1>4. CASE CallAbandoned
  <2>1. outcome' \in Outcomes /\ outcome'.status # "signed" /\ pc' = "idle"
    BY <1>4, OutcomeFields, ReturnedValues
    DEF CallAbandoned, Returns, NoOutcome, RaisedOutcome
  <2>2. Current \in Artifacts
    BY <1>4, LoopFacts DEF CallAbandoned, IInv
  <2>3. disk' \in [Artifacts -> BundleStates] /\ touched' \subseteq Artifacts
    BY <1>4, <2>2, ToolFacts DEF CallAbandoned, IInv, TypeOK
  <2> QED
    BY <1>4, <2>1, <2>3, EndingKeeps DEF CallAbandoned
<1>5. CASE UNCHANGED vars
  <2>1. UNCHANGED <<disk, pc, artifacts, index, outcome, disturbed, touched, passed>>
    BY <1>5 DEF vars, locals, history
  <2>2. TypeOK'
    BY <2>1 DEF IInv, TypeOK
  <2>3. Trail' /\ Standing' /\ Claims'
    BY <2>1 DEF IInv, Trail, Standing, Stands, Claims, EverySignatureVerified,
                SignedStandsOutsideNests
  <2> QED
    BY <2>2, <2>3 DEF IInv
<1>6. CASE RaisesAtOnce
  <2>1. outcome' \in Outcomes /\ outcome'.status # "signed"
    BY <1>6, OutcomeFields, ReturnedValues DEF RaisesAtOnce, ReturnsAtOnce, RaisedOutcome
  <2> QED
    BY <1>6, <2>1, AtOnceKeeps DEF RaisesAtOnce, ReturnsAtOnce
<1> QED
  BY <1>1, <1>2, <1>3, <1>4, <1>5, <1>6

LEMMA StepKeeps == IInv /\ [Next]_vars => IInv'
<1> SUFFICES ASSUME IInv, [Next]_vars PROVE IInv'
  OBVIOUS
<1>1. 1 \in Artifacts /\ TRUE \in BOOLEAN
  BY DEF Artifacts
<1> QED
  BY <1>1, SignCallKeeps, RunningKeeps, OutsideKeeps DEF Next

LEMMA Invariance == Spec => []IInv
  BY InitEstablishes, StepKeeps, PTL DEF Spec

------------------------------------------------------------------------------
(* ios.py's state, for every number of artifacts: every variable keeps its  *)
(* type, and a call in progress stands at an artifact of its listing.       *)
THEOREM TypeCorrect == Spec => []TypeOK
<1>1. IInv => TypeOK
  BY DEF IInv
<1> QED
  BY <1>1, Invariance, PTL

(* ios.py:196-219.  SIGNED: every listed artifact was signed and accepted   *)
(* by codesign --verify within this call.                                   *)
THEOREM AllSignaturesVerified == Spec => []EverySignatureVerified
<1>1. IInv => EverySignatureVerified
  BY DEF IInv, Claims
<1> QED
  BY <1>1, Invariance, PTL

(* ios.py:196-219.  With no interference from the build, what SIGNED covers *)
(* is validly signed on return, except around nested bundles of the glob.   *)
THEOREM SignedStands == Spec => []SignedStandsOutsideNests
<1>1. IInv => SignedStandsOutsideNests
  BY DEF IInv, Claims
<1> QED
  BY <1>1, Invariance, PTL

------------------------------------------------------------------------------
LEMMA StepRefines ==
  IInv /\ [Next]_vars => [Contract!Next]_(Contract!contractVars)
<1> SUFFICES ASSUME IInv, [Next]_vars
             PROVE  Contract!Next \/ UNCHANGED Contract!contractVars
  OBVIOUS
<1> USE DEF OutcomeOf, NoOutcome, RaisedOutcome, SigningStatus, Contract!OutcomeOf,
            Contract!NoOutcome, Contract!RaisedOutcome, Contract!SigningStatus
<1>0. 1 \in Artifacts /\ TypeOK
  BY DEF Artifacts, IInv
<1>1. ASSUME NEW codesign \in BOOLEAN, NEW usable \in BOOLEAN, NEW match \in BOOLEAN,
             SignCall(codesign, usable, match)
      PROVE  Contract!Next
  <2>1. CASE SignSkipsToolAbsent(codesign) \/ SignSkipsNoCredential(codesign, usable, match)
    BY <2>1 DEF SignSkipsToolAbsent, SignSkipsNoCredential, ReturnsAtOnce, Skipped,
                Contract!Next, Contract!Decline
  <2>2. CASE SignBegins(codesign, usable, match)
    BY <2>2 DEF SignBegins, Contract!Next, Contract!Accept
  <2> QED
    BY <1>1, <2>1, <2>2 DEF SignCall
<1>2. ASSUME ToolSucceeds PROVE Contract!Next
  <2>1. PICK a \in Artifacts : a = Current
    BY <1>0, <1>2, LoopFacts DEF ToolSucceeds
  <2>2. Contract!Touch(a)
    BY <1>2, <2>1 DEF ToolSucceeds, Contract!Touch
  <2> QED
    BY <2>2 DEF Contract!Next
<1>3. ASSUME ToolFails PROVE Contract!Next
  <2>1. PICK a \in Artifacts : a = Current
    BY <1>0, <1>3, LoopFacts DEF ToolFails
  <2>2. Contract!ReturnFailed(a)
    BY <1>3, <2>1 DEF ToolFails, Returns, Contract!ReturnFailed, Contract!TouchedOnceMore
  <2> QED
    BY <2>2 DEF Contract!Next
<1>4. ASSUME ToolRaises PROVE Contract!Next
  <2>1. PICK a \in Artifacts : a = Current
    BY <1>0, <1>4, LoopFacts DEF ToolRaises
  <2>2. Contract!Abandon(a)
    BY <1>4, <2>1 DEF ToolRaises, Returns, Contract!Abandon, Contract!TouchedOnceMore
  <2> QED
    BY <2>2 DEF Contract!Next
<1>5. ASSUME VerifyPasses PROVE Contract!Next
  <2>1. PICK a \in Artifacts : a = Current
    BY <1>0, <1>5, LoopFacts DEF VerifyPasses
  <2>2. /\ pc = "verifying" /\ touched' = touched /\ passed' = passed \cup {a}
        /\ a \in touched
    BY <1>5, <2>1 DEF VerifyPasses, IInv, Trail, Current
  <2>3. CASE HasNext
    <3>1. Contract!Check(a)
      BY <1>5, <2>2, <2>3 DEF VerifyPasses, Contract!Check
    <3> QED
      BY <3>1 DEF Contract!Next
  <2>4. CASE ~HasNext
    <3>1. pc' = "idle" /\ outcome' = OutcomeOf("signed", "passed", SignedArtifact)
      BY <1>5, <2>4 DEF VerifyPasses, Returns
    <3>2. \A i \in 1..index : artifacts[i] \in passed'
      <4>1. index \in Nat /\ DOMAIN artifacts = 1..Len(artifacts) /\ index \in 1..Len(artifacts)
        BY <1>0, <2>2, LoopFacts
      <4>2. \A i \in DOMAIN artifacts : i < index => artifacts[i] \in passed
        BY <2>2 DEF IInv, Trail
      <4>3. artifacts[index] \in passed'
        BY <2>1, <2>2 DEF Current
      <4> QED
        BY <2>2, <4>1, <4>2, <4>3
    <3>3. touched \subseteq passed'
      BY <2>2, <3>2 DEF IInv, Trail
    <3>4. Contract!ReturnSigned(a)
      BY <2>1, <2>2, <3>1, <3>3 DEF SignedArtifact, Contract!ReturnSigned
    <3> QED
      BY <3>4 DEF Contract!Next
  <2> QED
    BY <2>3, <2>4
<1>6. ASSUME VerifyFails PROVE Contract!Next
  <2>1. PICK a \in Artifacts : a = Current
    BY <1>0, <1>6, LoopFacts DEF VerifyFails
  <2>2. Contract!ReturnFailed(a)
    BY <1>6, <2>1
    DEF VerifyFails, Returns, history, Contract!ReturnFailed, Contract!TouchedOnceMore
  <2> QED
    BY <2>2 DEF Contract!Next
<1>7. ASSUME NEW codesign \in BOOLEAN, NEW a \in Artifacts,
             VerifySkips(codesign, a) \/ Verify(codesign, a)
      PROVE  Contract!Next
  <2>1. CASE VerifySkips(codesign, a)
    BY <2>1 DEF VerifySkips, ReturnsAtOnce, Contract!Next, Contract!Decline
  <2>2. CASE Verify(codesign, a)
    <3>1. Contract!VerifyOnly(a) \/ Contract!Decline
      BY <2>2 DEF Verify, Contract!VerifyOnly, Contract!Decline
    <3> QED
      BY <3>1 DEF Contract!Next
  <2> QED
    BY <1>7, <2>1, <2>2
<1>8. ASSUME CallAbandoned \/ RaisesAtOnce PROVE Contract!Next
  <2>1. CASE CallAbandoned
    <3>1. PICK a \in Artifacts : a = Current
      BY <1>0, <2>1, LoopFacts DEF CallAbandoned
    <3>2. Contract!Abandon(a)
      BY <2>1, <3>1 DEF CallAbandoned, Returns, Contract!Abandon, Contract!TouchedOnceMore
    <3> QED
      BY <3>2 DEF Contract!Next
  <2>2. CASE RaisesAtOnce
    <3>1. Contract!Abandon(1)
      BY <2>2 DEF RaisesAtOnce, ReturnsAtOnce, Contract!Abandon
    <3> QED
      BY <1>0, <3>1 DEF Contract!Next
  <2> QED
    BY <1>8, <2>1, <2>2
<1>9. ASSUME NEW a \in Artifacts, Rebuild(a) PROVE UNCHANGED Contract!contractVars
  BY <1>9 DEF Rebuild, Contract!contractVars
<1>10. ASSUME UNCHANGED vars PROVE UNCHANGED Contract!contractVars
  BY <1>10 DEF vars, history, Contract!contractVars
<1> QED
  BY <1>1, <1>2, <1>3, <1>4, <1>5, <1>6, <1>7, <1>8, <1>9, <1>10 DEF Next, Running

(* The iOS backend does what backends/base.py allows, except that a call    *)
(* may raise: the SIGNED it returns for a whole glob stands for verified    *)
(* artifacts.                                                               *)
THEOREM ContractImplemented == Spec => ImplementsContract
<1>1. Init => Contract!Init
  BY DEF Init, Contract!Init, NoOutcome, Contract!NoOutcome, OutcomeOf, Contract!OutcomeOf
<1> QED
  BY <1>1, StepRefines, Invariance, PTL DEF Spec, ImplementsContract, Contract!Spec

(* The contract's theorems, about the machine that this backend refines.    *)
Theory ==
  INSTANCE SignerContract_proofs WITH
    Artifacts <- Artifacts, LateSkip <- FALSE, TrustsTool <- FALSE, Raises <- TRUE,
    busy <- pc # "idle",
    touched <- touched,
    passed <- passed,
    outcome <- outcome

LEMMA SameContract == Contract!Spec => Theory!Spec
<1>1. Contract!Init => Theory!Init
  BY DEF Contract!Init, Theory!Init, Contract!NoOutcome, Theory!NoOutcome,
         Contract!OutcomeOf, Theory!OutcomeOf
<1>2. [Contract!Next]_(Contract!contractVars) => [Theory!Next]_(Theory!contractVars)
  BY DEF Contract!Next, Theory!Next, Contract!contractVars, Theory!contractVars,
         Contract!Accept, Theory!Accept, Contract!Decline, Theory!Decline,
         Contract!VerifyOnly, Theory!VerifyOnly, Contract!Touch, Theory!Touch,
         Contract!Check, Theory!Check, Contract!Abandon, Theory!Abandon,
         Contract!ReturnSigned, Theory!ReturnSigned, Contract!ReturnFailed,
         Theory!ReturnFailed, Contract!ReturnUnverified, Theory!ReturnUnverified,
         Contract!ReturnLateSkip, Theory!ReturnLateSkip, Contract!TouchedOnceMore,
         Theory!TouchedOnceMore, Contract!NoOutcome, Theory!NoOutcome,
         Contract!OutcomeOf, Theory!OutcomeOf, Contract!SigningStatus,
         Theory!SigningStatus, Contract!RaisedOutcome, Theory!RaisedOutcome
<1> QED
  BY <1>1, <1>2, PTL DEF Contract!Spec, Theory!Spec

(* backends/base.py:138-152 with result.py, what the refinement buys: a     *)
(* SIGNED that names no bundle stands for all that codesign ran on, and     *)
(* codesign --verify accepted each of them; a skip has run on none.         *)
THEOREM ContractHonoured == Spec => [](Contract!SuccessIsChecked /\ Contract!SkipTouchesNothing)
<1>1. 0 \notin Artifacts
  BY DEF Artifacts
<1>2. Theory!Spec => []Theory!SuccessIsChecked
  BY <1>1, Theory!ContractSuccessIsChecked
<1>3. Contract!SuccessIsChecked <=> Theory!SuccessIsChecked
  BY DEF Contract!SuccessIsChecked, Theory!SuccessIsChecked, Contract!IsSuccess,
         Theory!IsSuccess
<1>4. Theory!Spec => []Theory!SkipTouchesNothing
  BY Theory!ContractSkipTouchesNothing, PTL
<1>5. Contract!SkipTouchesNothing <=> Theory!SkipTouchesNothing
  BY DEF Contract!SkipTouchesNothing, Theory!SkipTouchesNothing, Contract!IsSkipped,
         Theory!IsSkipped
<1> QED
  BY <1>2, <1>3, <1>4, <1>5, ContractImplemented, SameContract, PTL DEF ImplementsContract

------------------------------------------------------------------------------
(* The safety half of CallReturns: the subprocesses that a call in progress *)
(* may still run, a codesign --sign and a codesign --verify per artifact.   *)
WorkLeft ==
  IF pc = "idle" THEN 0
  ELSE 2 * (Len(artifacts) - index) + (IF pc = "signing" THEN 2 ELSE 1)

(* ios.py:196-219.  Every subprocess of a call lowers that number, which    *)
(* is at most 2 * NArtifacts: an artifact is signed once and verified once, *)
(* and nothing outside the call raises the number again.                    *)
CallShrinks ==
  [][pc # "idle" => /\ WorkLeft' <= WorkLeft
                    /\ Running => WorkLeft' < WorkLeft]_vars

THEOREM CallsShrink == Spec => [](WorkLeft \in 0..(2 * NArtifacts)) /\ CallShrinks
<1>1. IInv => WorkLeft \in 0..(2 * NArtifacts)
  <2> SUFFICES ASSUME IInv PROVE WorkLeft \in 0..(2 * NArtifacts)
    OBVIOUS
  <2>1. CASE pc = "idle"
    BY <2>1 DEF WorkLeft
  <2>2. CASE pc # "idle"
    BY <2>2, LoopFacts DEF IInv, WorkLeft
  <2> QED
    BY <2>1, <2>2
<1>2. IInv /\ [Next]_vars =>
        [pc # "idle" => /\ WorkLeft' <= WorkLeft
                        /\ Running => WorkLeft' < WorkLeft]_vars
  <2> SUFFICES ASSUME IInv, Next, pc # "idle"
               PROVE  /\ WorkLeft' <= WorkLeft
                      /\ Running => WorkLeft' < WorkLeft
    OBVIOUS
  <2>1. /\ index \in Nat /\ Len(artifacts) \in Nat /\ index <= Len(artifacts)
        /\ WorkLeft \in Nat /\ WorkLeft > 0
    BY LoopFacts DEF IInv, WorkLeft
  <2>2. ASSUME ToolSucceeds PROVE WorkLeft' \in 0..(WorkLeft - 1)
    BY <2>1, <2>2 DEF ToolSucceeds, locals, WorkLeft
  <2>3. ASSUME pc' = "idle" PROVE WorkLeft' \in 0..(WorkLeft - 1)
    <3>1. WorkLeft' = 0
      BY <2>3 DEF WorkLeft
    <3> HIDE DEF WorkLeft
    <3> QED
      BY <2>1, <3>1
  <2>4. ASSUME VerifyPasses, HasNext PROVE WorkLeft' \in 0..(WorkLeft - 1)
    BY <2>1, <2>4 DEF VerifyPasses, HasNext, WorkLeft
  <2>5. ASSUME VerifyPasses, ~HasNext PROVE pc' = "idle"
    BY <2>5 DEF VerifyPasses, Returns
  <2>6. ASSUME ToolFails \/ ToolRaises \/ VerifyFails \/ CallAbandoned PROVE pc' = "idle"
    BY <2>6 DEF ToolFails, ToolRaises, VerifyFails, CallAbandoned, Returns
  <2>7. ASSUME NEW a \in Artifacts, Rebuild(a) PROVE WorkLeft' = WorkLeft
    BY <2>7 DEF Rebuild, locals, WorkLeft
  <2>8. \/ Running \/ CallAbandoned
        \/ \E a \in Artifacts : Rebuild(a)
    BY DEF Next, SignCall, SignSkipsToolAbsent, SignSkipsNoCredential, SignBegins,
           VerifySkips, Verify, RaisesAtOnce, ReturnsAtOnce
  <2> HIDE DEF WorkLeft
  <2>9. Running \/ CallAbandoned => WorkLeft' \in 0..(WorkLeft - 1)
    BY <2>2, <2>3, <2>4, <2>5, <2>6 DEF Running
  <2> QED
    BY <2>1, <2>7, <2>8, <2>9
<1> QED
  BY <1>1, <1>2, Invariance, PTL DEF Spec, CallShrinks

==============================================================================
