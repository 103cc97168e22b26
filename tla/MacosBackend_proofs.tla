-------------------------- MODULE MacosBackend_proofs --------------------------
(***************************************************************************)
(* What sealward/backends/macos.py guarantees while Apple answers late and *)
(* the build replaces the bundle under a running call.  Two facts carry    *)
(* the argument: a staple never outlives the ticket and the Developer ID   *)
(* signature under it, and a call that reaches the verifiers either ran    *)
(* every stage or left an ad-hoc signature that no ticket can join.        *)
(***************************************************************************)
EXTENDS MacosBackend, TLAPS

Outcomes ==
  [status : CallStatus, verdict : VerifyVerdict,
   artifact : Artifacts \cup {0}]

Verifying == pc \in {"verify_codesign", "verify_spctl", "verify_stapler"}

(* Apple only knows Developer ID signatures, and the stapler Apple's ticket. *)
StapleNeedsTicket ==
  /\ ticket => sig = "devid"
  /\ stapled => ticket

(* What is behind a call that has come as far as pc. *)
Progress ==
  /\ pc \in {"codesign", "notarize", "staple"} => mode = "sign"
  /\ pc = "codesign" => touched = {}
  /\ pc # "idle" => passed = {}
  /\ pc \in {"notarize", "staple"} => touched = Artifacts
  /\ pc = "staple" => {"codesign", "notarize"} \subseteq stages
  /\ Verifying /\ mode = "sign" /\ adHoc => sig # "devid"
  /\ Verifying /\ mode = "sign" /\ ~adHoc =>
       {"codesign", "notarize", "staple"} \subseteq stages
  /\ Verifying /\ mode = "sign" => touched = Artifacts
  /\ Verifying /\ mode = "verify" => touched = {}

Claims == AdHocClaimsNothing /\ SignedRanEveryStage

IInv == TypeOK /\ StapleNeedsTicket /\ Progress /\ Claims

------------------------------------------------------------------------------
LEMMA OutcomeType ==
  ASSUME NEW s \in CallStatus, NEW v \in VerifyVerdict,
         NEW a \in Artifacts \cup {0}
  PROVE  OutcomeOf(s, v, a) \in Outcomes
  BY DEF OutcomeOf, Outcomes

LEMMA OutcomeFields ==
  ASSUME NEW s, NEW v, NEW a
  PROVE  OutcomeOf(s, v, a).status = s /\ OutcomeOf(s, v, a).verdict = v
  BY DEF OutcomeOf

(* Every status and verdict macos.py returns is one of result.py's. *)
LEMMA ReturnedValues ==
  /\ {"signed", "verified", "skipped_no_credential", "skipped_tool_absent", "failed"}
       \subseteq SigningStatus
  /\ {"passed", "failed", "not_run"} \subseteq VerifyVerdict
  /\ {0, 1} \subseteq Artifacts \cup {0}
  /\ SigningStatus \subseteq CallStatus
  /\ NoOutcome \in Outcomes /\ RaisedOutcome \in Outcomes
  BY OutcomeType
  DEF SigningStatus, CallStatus, VerifyVerdict, NoOutcome, RaisedOutcome, Artifacts

(* TypeOK, one typing per variable. *)
Flags ==
  /\ submitted \in BOOLEAN /\ ticket \in BOOLEAN /\ stapled \in BOOLEAN
  /\ xcrun \in BOOLEAN /\ adHoc \in BOOLEAN /\ notary \in BOOLEAN
Sorts ==
  /\ sig \in Signatures
  /\ pc \in {"idle", "codesign", "notarize", "staple",
             "verify_codesign", "verify_spctl", "verify_stapler"}
  /\ mode \in {"sign", "verify"}
  /\ accepted \subseteq {"codesign", "spctl"}
  /\ outcome \in Outcomes
  /\ stages \subseteq {"codesign", "notarize", "staple"}
  /\ touched \subseteq Artifacts
  /\ passed \subseteq Artifacts
OnItsWayToApple ==
  pc \in {"notarize", "staple"} => mode = "sign" /\ ~adHoc /\ notary /\ "codesign" \in stages
Typed == Flags /\ Sorts /\ OnItsWayToApple

LEMMA TypeParts == (TypeOK <=> Typed) /\ (TypeOK' <=> Typed')
<1>1. TypeOK <=> Typed
  BY Zenon DEF TypeOK, Typed, Flags, Sorts, OnItsWayToApple, Outcomes
<1>2. TypeOK' <=> Typed'
  BY Zenon DEF TypeOK, Typed, Flags, Sorts, OnItsWayToApple, Outcomes
<1> QED
  BY <1>1, <1>2

LEMMA InitEstablishes == Init => IInv
<1> SUFFICES ASSUME Init PROVE IInv
  OBVIOUS
<1>1. Typed
  BY ReturnedValues DEF Init, Typed, Flags, Sorts, OnItsWayToApple, Signatures
<1>2. StapleNeedsTicket /\ Progress /\ Claims
  BY OutcomeFields
  DEF Init, StapleNeedsTicket, Progress, Verifying, Claims, AdHocClaimsNothing,
      SignedRanEveryStage, NoOutcome
<1> QED
  BY <1>1, <1>2, TypeParts DEF IInv

------------------------------------------------------------------------------
(* A call that is refused, and one that begins. *)
LEMMA AtOnceKeeps ==
  ASSUME IInv, NEW o \in Outcomes, ReturnsAtOnce(o), o.status # "signed"
  PROVE  IInv'
<1> USE DEF ReturnsAtOnce, bundle, locals
<1>1. Typed'
  BY TypeParts DEF IInv, Typed, Flags, Sorts, OnItsWayToApple
<1>2. StapleNeedsTicket' /\ Progress' /\ Claims'
  BY DEF IInv, StapleNeedsTicket, Progress, Verifying, Claims, AdHocClaimsNothing,
         SignedRanEveryStage
<1> QED
  BY <1>1, <1>2, TypeParts DEF IInv

LEMMA BeginningKeeps ==
  ASSUME IInv, xcrun' \in BOOLEAN, adHoc' \in BOOLEAN, notary' \in BOOLEAN,
         \/ Begins("sign", "codesign")
         \/ Begins("verify", "verify_codesign")
  PROVE  IInv'
<1> USE DEF Begins, bundle
<1>1. Typed'
  BY TypeParts DEF IInv, Typed, Flags, Sorts, OnItsWayToApple
<1>2. StapleNeedsTicket' /\ Progress' /\ Claims'
  BY DEF IInv, StapleNeedsTicket, Progress, Verifying, Claims, AdHocClaimsNothing,
         SignedRanEveryStage
<1> QED
  BY <1>1, <1>2, TypeParts DEF IInv

(* codesign: whatever it did to the bundle, no staple and no ticket of an   *)
(* ad-hoc signature is left.                                                *)
LEMMA CodesignKeepsBundle ==
  ASSUME IInv, CodesignMayWrite
  PROVE  /\ sig' \in Signatures
         /\ submitted' \in BOOLEAN /\ ticket' \in BOOLEAN /\ stapled' \in BOOLEAN
         /\ StapleNeedsTicket'
         /\ CodesignWrites /\ adHoc => sig' # "devid"
<1>1. Flags /\ sig \in Signatures
  BY TypeParts DEF IInv, Typed, Sorts
<1>2. CASE CodesignWrites
  <2>1. /\ stapled' = FALSE /\ sig' \in Signatures
        /\ adHoc => sig' # "devid"
        /\ ~adHoc => sig' = "devid"
    BY <1>2 DEF CodesignWrites, Signatures
  <2>2. ticket' \in BOOLEAN /\ (adHoc => ~ticket') /\ submitted' \in BOOLEAN
    BY <1>1, <1>2, Zenon DEF CodesignWrites, Flags
  <2> QED
    BY <2>1, <2>2 DEF StapleNeedsTicket
<1>3. CASE UNCHANGED bundle /\ ~CodesignWrites
  BY <1>1, <1>3, Zenon DEF bundle, IInv, Flags, StapleNeedsTicket
<1> QED
  BY <1>2, <1>3 DEF CodesignMayWrite

LEMMA CodesignKeeps ==
  ASSUME IInv, CodesignSucceeds \/ CodesignWithoutNotary \/ CodesignFails
  PROVE  IInv'
<1>1. CodesignMayWrite
  BY DEF CodesignSucceeds, CodesignWithoutNotary, CodesignFails, CodesignMayWrite
<1>2. Typed
  BY TypeParts DEF IInv
<1>3. CASE CodesignSucceeds
  <2>1. Typed'
    <3>1. Flags'
      BY <1>1, <1>2, <1>3, CodesignKeepsBundle, Zenon DEF CodesignSucceeds, Typed, Flags, locals
    <3>2. Sorts'
      BY <1>1, <1>2, <1>3, CodesignKeepsBundle
      DEF CodesignSucceeds, AfterCodesign, Typed, Sorts, locals
    <3>3. OnItsWayToApple'
      BY <1>2, <1>3
      DEF CodesignSucceeds, AfterCodesign, IInv, Progress, Typed, OnItsWayToApple, locals
    <3> QED
      BY <3>1, <3>2, <3>3 DEF Typed
  <2>2. Progress'
    BY <1>1, <1>2, <1>3, CodesignKeepsBundle
    DEF CodesignSucceeds, AfterCodesign, IInv, Progress, Verifying, Typed, Flags, Sorts, OnItsWayToApple, locals
  <2>3. Claims'
    BY <1>3 DEF CodesignSucceeds, AfterCodesign, Claims, AdHocClaimsNothing,
                SignedRanEveryStage
  <2> QED
    BY <1>1, <2>1, <2>2, <2>3, CodesignKeepsBundle, TypeParts DEF IInv
<1>4. CASE CodesignWithoutNotary \/ CodesignFails
  <2>1. PICK s \in {"failed", "skipped_no_credential"}, v \in {"failed", "not_run"} :
          Returns(OutcomeOf(s, v, 1))
    BY <1>4 DEF CodesignWithoutNotary, CodesignFails
  <2>2. outcome' \in Outcomes /\ outcome'.status # "signed" /\ pc' = "idle"
    BY <2>1, OutcomeType, OutcomeFields, ReturnedValues DEF Returns
  <2>3. Typed'
    BY <1>1, <1>2, <1>4, <2>2, CodesignKeepsBundle
    DEF CodesignWithoutNotary, CodesignFails, Typed, Flags, Sorts, OnItsWayToApple, locals
  <2>4. Progress' /\ Claims'
    BY <2>2 DEF Progress, Verifying, Claims, AdHocClaimsNothing, SignedRanEveryStage
  <2> QED
    BY <1>1, <2>3, <2>4, CodesignKeepsBundle, TypeParts DEF IInv
<1> QED
  BY <1>3, <1>4

(* notarytool and the stapler. *)
LEMMA AppleKeeps ==
  ASSUME IInv, \/ NotarizeAccepted \/ NotarizeFails \/ StapleSucceeds \/ StapleFails
  PROVE  IInv'
<1>1. Typed
  BY TypeParts DEF IInv
<1>2. CASE NotarizeAccepted \/ StapleSucceeds
  <2>1. Typed'
    <3>1. Flags'
      BY <1>1, <1>2, Zenon DEF NotarizeAccepted, StapleSucceeds, Typed, Flags, locals
    <3>2. Sorts'
      BY <1>1, <1>2 DEF NotarizeAccepted, StapleSucceeds, Typed, Sorts, locals
    <3>3. OnItsWayToApple'
      BY <1>1, <1>2 DEF NotarizeAccepted, StapleSucceeds, Typed, OnItsWayToApple, locals
    <3> QED
      BY <3>1, <3>2, <3>3 DEF Typed
  <2>2. StapleNeedsTicket' /\ Progress' /\ Claims'
    BY <1>1, <1>2
    DEF NotarizeAccepted, StapleSucceeds, IInv, StapleNeedsTicket, Progress, Verifying,
        Claims, AdHocClaimsNothing, SignedRanEveryStage, Typed, Flags, Sorts, OnItsWayToApple, locals
  <2> QED
    BY <2>1, <2>2, TypeParts DEF IInv
<1>3. CASE NotarizeFails
  <2>1. outcome' \in Outcomes /\ outcome'.status # "signed" /\ pc' = "idle"
    BY <1>3, OutcomeType, OutcomeFields, ReturnedValues
    DEF NotarizeFails, Returns
  <2>2. Typed'
    BY <1>1, <1>3, <2>1 DEF NotarizeFails, Typed, Flags, Sorts, OnItsWayToApple, locals, bundle, history
  <2>3. StapleNeedsTicket' /\ Progress' /\ Claims'
    BY <1>3, <2>1
    DEF NotarizeFails, IInv, StapleNeedsTicket, Progress, Verifying, Claims,
        AdHocClaimsNothing, SignedRanEveryStage, bundle
  <2> QED
    BY <2>2, <2>3, TypeParts DEF IInv
<1>4. CASE StapleFails
  <2>1. outcome' \in Outcomes /\ outcome'.status # "signed" /\ pc' = "idle"
    BY <1>4, OutcomeType, OutcomeFields, ReturnedValues DEF StapleFails, Returns
  <2>2. stapled' \in BOOLEAN /\ (stapled' => stapled \/ ticket)
    BY <1>1, <1>4, Zenon DEF StapleFails, StaplerMayWrite, Typed, Flags
  <2>3. UNCHANGED <<sig, submitted, ticket, mode, xcrun, adHoc, notary, accepted, stages,
                    touched, passed>>
    BY <1>4 DEF StapleFails, StaplerMayWrite, locals, history
  <2>4. Flags'
    BY <1>1, <2>2, <2>3, Zenon DEF Typed, Flags
  <2>5. Sorts' /\ OnItsWayToApple'
    BY <1>1, <2>1, <2>3 DEF Typed, Sorts, OnItsWayToApple
  <2>6. StapleNeedsTicket'
    BY <2>2, <2>3, Zenon DEF IInv, StapleNeedsTicket
  <2>7. Progress' /\ Claims'
    BY <2>1 DEF Progress, Verifying, Claims, AdHocClaimsNothing, SignedRanEveryStage
  <2> QED
    BY <2>4, <2>5, <2>6, <2>7, TypeParts DEF IInv, Typed
<1> QED
  BY <1>2, <1>3, <1>4

(* The verifiers.  A joint verdict needs the staple, hence a ticket and a   *)
(* Developer ID signature, at the last of the three runs.                   *)
LEMMA VerifyingKeeps ==
  ASSUME IInv, VerifyCodesign \/ VerifySpctl
  PROVE  IInv'
<1>1. Typed
  BY TypeParts DEF IInv
<1>2. Typed'
  BY <1>1 DEF VerifyCodesign, VerifySpctl, Typed, Flags, Sorts, OnItsWayToApple, bundle, history
<1>3. StapleNeedsTicket' /\ Progress' /\ Claims'
  BY DEF VerifyCodesign, VerifySpctl, IInv, StapleNeedsTicket, Progress, Verifying, Claims,
         AdHocClaimsNothing, SignedRanEveryStage, bundle, history
<1> QED
  BY <1>2, <1>3, TypeParts DEF IInv

LEMMA VerifyEnds ==
  ASSUME IInv, VerifyStapler
  PROVE  /\ pc = "verify_stapler" /\ pc' = "idle"
         /\ UNCHANGED <<bundle, locals, stages, touched>>
         /\ \/ /\ outcome' = OutcomeOf(SuccessStatus, "passed", 1)
               /\ passed' = Artifacts
               /\ stapled
            \/ outcome' = OutcomeOf("failed", "failed", 1) /\ UNCHANGED passed
<1>1. PICK stapler \in BOOLEAN :
        /\ stapler => xcrun /\ Vouches("stapler")
        /\ IF AllOk(stapler)
           THEN /\ passed' = Artifacts
                /\ Returns(OutcomeOf(SuccessStatus, "passed", 1))
           ELSE Returns(OutcomeOf("failed", "failed", 1)) /\ UNCHANGED passed
  BY DEF VerifyStapler
<1>2. Vouches("stapler") => stapled
  BY DEF Vouches
<1> QED
  BY <1>1, <1>2 DEF VerifyStapler, AllOk, Returns

LEMMA VerifyEndsKeeps ==
  ASSUME IInv, VerifyStapler
  PROVE  IInv'
<1>1. Typed
  BY TypeParts DEF IInv
<1>2. SuccessStatus \in SigningStatus
  BY ReturnedValues DEF SuccessStatus
<1>3. outcome' \in Outcomes
  BY <1>2, VerifyEnds, OutcomeType, ReturnedValues
<1>4. Typed'
  BY <1>1, <1>3, VerifyEnds DEF Typed, Flags, Sorts, OnItsWayToApple, bundle, locals
<1>5. ASSUME outcome'.status = "signed"
      PROVE  mode = "sign" /\ ~adHoc /\ {"codesign", "notarize", "staple"} \subseteq stages
  <2>1. stapled /\ mode = "sign"
    BY <1>1, <1>5, VerifyEnds, OutcomeFields DEF SuccessStatus, Typed, Flags, Sorts, OnItsWayToApple
  <2>2. sig = "devid"
    BY <2>1 DEF IInv, StapleNeedsTicket
  <2> QED
    BY <1>1, <2>1, <2>2, VerifyEnds DEF IInv, Progress, Verifying, Typed, Flags, Sorts, OnItsWayToApple
<1>6. StapleNeedsTicket' /\ Progress'
  BY VerifyEnds DEF IInv, StapleNeedsTicket, Progress, Verifying, bundle
<1>7. Claims'
  <2>1. CASE outcome'.status = "signed"
    <3>1. adHoc' = adHoc /\ stages' = stages
      BY VerifyEnds, Zenon DEF locals
    <3>2. stages = {"codesign", "notarize", "staple"}
      BY <1>1, <1>5, <2>1 DEF Typed, Sorts
    <3>3. ~adHoc'
      BY <1>5, <2>1, <3>1, Zenon
    <3> QED
      BY <3>1, <3>2, <3>3 DEF Claims, AdHocClaimsNothing, SignedRanEveryStage
  <2>2. CASE outcome'.status # "signed"
    BY <2>2 DEF Claims, AdHocClaimsNothing, SignedRanEveryStage
  <2> QED
    BY <2>1, <2>2
<1> QED
  BY <1>4, <1>6, <1>7, TypeParts DEF IInv

(* What happens around the call, and an exception that leaves it. *)
LEMMA OutsideKeeps ==
  ASSUME IInv, LateAcceptance \/ Rebuild \/ UNCHANGED vars
  PROVE  IInv'
<1>1. Typed
  BY TypeParts DEF IInv
<1>2. Typed'
  <2>1. Flags'
    BY <1>1, Zenon DEF LateAcceptance, Rebuild, vars, bundle, locals, Typed, Flags
  <2>2. /\ sig' \in {sig, "none"}
        /\ UNCHANGED <<pc, mode, adHoc, notary, accepted, outcome, stages, touched, passed>>
    BY Zenon DEF LateAcceptance, Rebuild, vars, bundle, locals, history
  <2>3. Sorts'
    BY <1>1, <2>2 DEF Typed, Sorts, Signatures
  <2>4. OnItsWayToApple'
    BY <1>1, <2>2, Zenon DEF Typed, OnItsWayToApple
  <2> QED
    BY <2>1, <2>3, <2>4 DEF Typed
<1>3. StapleNeedsTicket' /\ Progress' /\ Claims'
  BY DEF LateAcceptance, Rebuild, vars, IInv, StapleNeedsTicket, Progress, Verifying, Claims,
         AdHocClaimsNothing, SignedRanEveryStage, bundle, locals, history
<1> QED
  BY <1>2, <1>3, TypeParts DEF IInv

LEMMA CallAbandonedKeeps ==
  ASSUME IInv, CallAbandoned
  PROVE  IInv'
<1>1. Typed
  BY TypeParts DEF IInv
<1>2. outcome' \in Outcomes /\ outcome'.status # "signed" /\ pc' = "idle"
  BY ReturnedValues, OutcomeFields DEF CallAbandoned, Returns, NoOutcome, RaisedOutcome
<1>3. /\ sig' \in Signatures /\ submitted' \in BOOLEAN /\ ticket' \in BOOLEAN
      /\ stapled' \in BOOLEAN /\ touched' \subseteq Artifacts
      /\ StapleNeedsTicket'
  <2>1. CASE CodesignMayWrite /\ touched' = Artifacts
    BY <2>1, CodesignKeepsBundle
  <2>2. CASE submitted' \in BOOLEAN /\ UNCHANGED <<sig, ticket, stapled, touched>>
    BY <1>1, <2>2 DEF IInv, StapleNeedsTicket, Typed, Flags, Sorts, OnItsWayToApple
  <2>3. CASE UNCHANGED <<bundle, touched>>
    BY <1>1, <2>3 DEF IInv, StapleNeedsTicket, Typed, Flags, Sorts, OnItsWayToApple, bundle
  <2>4. CASE StaplerMayWrite /\ UNCHANGED touched
    <3>1. UNCHANGED <<sig, submitted, ticket, touched>> /\ stapled' \in {stapled, stapled \/ ticket}
      BY <2>4 DEF StaplerMayWrite
    <3>2. stapled' \in BOOLEAN /\ (stapled' => stapled \/ ticket)
      BY <1>1, <3>1, Zenon DEF Typed, Flags
    <3>3. /\ sig' \in Signatures /\ submitted' \in BOOLEAN /\ ticket' \in BOOLEAN
          /\ touched' \subseteq Artifacts
      BY <1>1, <3>1 DEF Typed, Flags, Sorts
    <3> QED
      BY <3>1, <3>2, <3>3, Zenon DEF IInv, StapleNeedsTicket
  <2> QED
    BY <2>1, <2>2, <2>3, <2>4 DEF CallAbandoned
<1>4. Typed'
  BY <1>1, <1>2, <1>3 DEF CallAbandoned, Typed, Flags, Sorts, OnItsWayToApple, locals
<1>5. Progress' /\ Claims'
  BY <1>2 DEF Progress, Verifying, Claims, AdHocClaimsNothing, SignedRanEveryStage
<1> QED
  BY <1>3, <1>4, <1>5, TypeParts DEF IInv

LEMMA StepKeeps == IInv /\ [Next]_vars => IInv'
<1> SUFFICES ASSUME IInv, [Next]_vars PROVE IInv'
  OBVIOUS
<1>1. ASSUME NEW local \in BOOLEAN, NEW usable \in BOOLEAN, NEW identity \in BOOLEAN,
             NEW profile \in BOOLEAN, SignCall(local, usable, identity, profile)
      PROVE  IInv'
  <2>1. CASE SignSkipsToolAbsent \/ SignSkipsNoCredential(local, usable)
    BY <2>1, AtOnceKeeps, OutcomeType, OutcomeFields, ReturnedValues
    DEF SignSkipsToolAbsent, SignSkipsNoCredential, Skipped
  <2>2. CASE SignBegins(local, usable, identity, profile)
    BY <2>2, BeginningKeeps DEF SignBegins, IsAdHoc
  <2> QED
    BY <1>1, <2>1, <2>2 DEF SignCall
<1>2. CASE Running
  BY <1>2, CodesignKeeps, AppleKeeps, VerifyingKeeps, VerifyEndsKeeps DEF Running
<1>3. CASE VerifySkips
  BY <1>3, AtOnceKeeps, OutcomeType, OutcomeFields, ReturnedValues DEF VerifySkips
<1>4. CASE \E haveXcrun \in BOOLEAN : VerifyBegins(haveXcrun)
  BY <1>4, BeginningKeeps DEF VerifyBegins
<1>5. CASE CallAbandoned
  BY <1>5, CallAbandonedKeeps
<1>6. CASE LateAcceptance \/ Rebuild \/ UNCHANGED vars
  BY <1>6, OutsideKeeps
<1>7. CASE RaisesAtOnce
  BY <1>7, AtOnceKeeps, OutcomeFields, ReturnedValues DEF RaisesAtOnce, RaisedOutcome
<1> QED
  BY <1>1, <1>2, <1>3, <1>4, <1>5, <1>6, <1>7 DEF Next

LEMMA Invariance == Spec => []IInv
  BY InitEstablishes, StepKeeps, PTL DEF Spec

------------------------------------------------------------------------------
(* macos.py's state: every variable keeps its type, and only a codesigned   *)
(* Developer ID bundle is on its way to Apple.                              *)
THEOREM TypeCorrect == Spec => []TypeOK
<1>1. IInv => TypeOK
  BY DEF IInv
<1> QED
  BY <1>1, Invariance, PTL

(* macos.py:223-226, 246-248.  With verifiers that only vouch for what they *)
(* are trusted to, an ad-hoc call never reports SIGNED, also not over a     *)
(* bundle that an earlier call notarized and stapled.                       *)
THEOREM AdHocNeverClaims == Spec => []AdHocClaimsNothing
<1>1. IInv => AdHocClaimsNothing
  BY DEF IInv, Claims
<1> QED
  BY <1>1, Invariance, PTL

(* macos.py:197.  SIGNED only when codesign, notarytool and the stapler all *)
(* exited 0 in this very call.                                              *)
THEOREM SignedRanAllStages == Spec => []SignedRanEveryStage
<1>1. IInv => SignedRanEveryStage
  BY DEF IInv, Claims
<1> QED
  BY <1>1, Invariance, PTL

(* macos.py:329-399.  However the build and Apple interleave with the three *)
(* verifiers, a success finds a bundle that is signed with a Developer ID,  *)
(* notarized and stapled at that very moment.                               *)
THEOREM SuccessesAreGenuine == Spec => SuccessIsGenuine
<1>1. IInv /\ [Next]_vars =>
        (<<pc, outcome>>' # <<pc, outcome>> /\ pc' = "idle" /\ IsSuccess(outcome'.status) =>
           sig = "devid" /\ ticket /\ stapled)
  <2> SUFFICES ASSUME IInv, [Next]_vars, <<pc, outcome>>' # <<pc, outcome>>,
                      pc' = "idle", outcome'.status \in {"signed", "verified"}
               PROVE  sig = "devid" /\ ticket /\ stapled
    BY DEF IsSuccess
  <2>1. CASE VerifyStapler
    BY <2>1, VerifyEnds, OutcomeFields DEF IInv, StapleNeedsTicket
  <2>2. ASSUME \/ CodesignSucceeds \/ CodesignWithoutNotary \/ CodesignFails
               \/ NotarizeAccepted \/ NotarizeFails \/ StapleSucceeds \/ StapleFails
               \/ VerifyCodesign \/ VerifySpctl
        PROVE  FALSE
    BY <2>2, OutcomeFields
    DEF CodesignSucceeds, AfterCodesign, CodesignWithoutNotary, CodesignFails,
        NotarizeAccepted, NotarizeFails, StapleSucceeds, StapleFails, VerifyCodesign,
        VerifySpctl, Returns
  <2>3. ASSUME NEW local \in BOOLEAN, NEW usable \in BOOLEAN, NEW identity \in BOOLEAN,
               NEW profile \in BOOLEAN, SignCall(local, usable, identity, profile)
        PROVE  FALSE
    BY <2>3, OutcomeFields
    DEF SignCall, SignSkipsToolAbsent, SignSkipsNoCredential, SignBegins, Begins,
        ReturnsAtOnce, Skipped
  <2>4. ASSUME VerifySkips \/ \E haveXcrun \in BOOLEAN : VerifyBegins(haveXcrun)
        PROVE  FALSE
    BY <2>4, OutcomeFields DEF VerifySkips, VerifyBegins, Begins, ReturnsAtOnce
  <2>5. ASSUME \/ CallAbandoned \/ RaisesAtOnce
               \/ LateAcceptance \/ Rebuild \/ UNCHANGED vars
        PROVE  FALSE
    BY <2>5, OutcomeFields
    DEF CallAbandoned, RaisesAtOnce, ReturnsAtOnce, Returns, NoOutcome, RaisedOutcome,
        LateAcceptance, Rebuild, vars
  <2> QED
    BY <2>1, <2>2, <2>3, <2>4, <2>5 DEF Next, Running
<1> QED
  BY <1>1, Invariance, PTL DEF Spec, SuccessIsGenuine

------------------------------------------------------------------------------
(* The actions of the contract, for the one artifact there is. *)
LEMMA StepRefines ==
  IInv /\ [Next]_vars => [Contract!Next]_(Contract!contractVars)
<1> SUFFICES ASSUME IInv, [Next]_vars
             PROVE  Contract!Next \/ UNCHANGED Contract!contractVars
  OBVIOUS
<1> USE DEF OutcomeOf, NoOutcome, RaisedOutcome, SigningStatus, Contract!OutcomeOf,
            Contract!NoOutcome, Contract!RaisedOutcome, Contract!SigningStatus
<1>0. /\ Artifacts = {1}
      /\ touched \subseteq {1} /\ passed \subseteq {1}
      /\ mode \in {"sign", "verify"}
  BY TypeParts DEF IInv, Typed, Sorts, Artifacts
<1>1. ASSUME NEW local \in BOOLEAN, NEW usable \in BOOLEAN, NEW identity \in BOOLEAN,
             NEW profile \in BOOLEAN, SignCall(local, usable, identity, profile)
      PROVE  Contract!Next
  <2>1. CASE SignSkipsToolAbsent \/ SignSkipsNoCredential(local, usable)
    BY <2>1 DEF SignSkipsToolAbsent, SignSkipsNoCredential, ReturnsAtOnce, Skipped,
                Contract!Next, Contract!Decline
  <2>2. CASE SignBegins(local, usable, identity, profile)
    BY <2>2 DEF SignBegins, Begins, Contract!Next, Contract!Accept
  <2> QED
    BY <1>1, <2>1, <2>2 DEF SignCall
<1>2. ASSUME CodesignSucceeds PROVE Contract!Next
  <2>1. Contract!Touch(1)
    BY <1>0, <1>2 DEF CodesignSucceeds, AfterCodesign, Contract!Touch
  <2> QED
    BY <1>0, <2>1 DEF Contract!Next
<1>3. ASSUME CodesignWithoutNotary PROVE Contract!Next
  <2>1. Contract!ReturnLateSkip(1)
    BY <1>0, <1>3 DEF CodesignWithoutNotary, Returns, Contract!ReturnLateSkip
  <2> QED
    BY <1>0, <2>1 DEF Contract!Next
<1>4. ASSUME CodesignFails \/ NotarizeFails \/ StapleFails PROVE Contract!Next
  <2>1. Contract!ReturnFailed(1)
    BY <1>0, <1>4 DEF CodesignFails, NotarizeFails, StapleFails, Returns, history,
                      Contract!ReturnFailed, Contract!TouchedOnceMore
  <2> QED
    BY <1>0, <2>1 DEF Contract!Next
<1>5. ASSUME NotarizeAccepted \/ StapleSucceeds \/ VerifyCodesign \/ VerifySpctl
      PROVE  UNCHANGED Contract!contractVars
  BY <1>5 DEF NotarizeAccepted, StapleSucceeds, VerifyCodesign, VerifySpctl, history,
              Contract!contractVars
<1>6. ASSUME VerifyStapler PROVE Contract!Next
  <2>1. /\ pc # "idle" /\ pc' = "idle" /\ touched' = touched /\ passed = {}
        /\ mode = "sign" => touched = {1}
        /\ mode = "verify" => touched = {}
    BY <1>0, <1>6, VerifyEnds DEF IInv, Progress, Verifying
  <2>2. CASE passed' = Artifacts /\ outcome' = OutcomeOf(SuccessStatus, "passed", 1)
    <3>1. CASE mode = "sign"
      <4>1. Contract!ReturnSigned(1)
        BY <1>0, <2>1, <2>2, <3>1 DEF SuccessStatus, Contract!ReturnSigned
      <4> QED
        BY <1>0, <4>1 DEF Contract!Next
    <3>2. CASE mode = "verify"
      <4>1. Contract!VerifyOnly(1)
        BY <1>0, <2>1, <2>2, <3>2 DEF SuccessStatus, Contract!VerifyOnly
      <4> QED
        BY <1>0, <4>1 DEF Contract!Next
    <3> QED
      BY <1>0, <3>1, <3>2
  <2>3. CASE outcome' = OutcomeOf("failed", "failed", 1) /\ UNCHANGED passed
    <3>1. Contract!ReturnFailed(1)
      BY <2>1, <2>3 DEF Contract!ReturnFailed, Contract!TouchedOnceMore
    <3> QED
      BY <1>0, <3>1 DEF Contract!Next
  <2> QED
    BY <1>6, <2>2, <2>3, VerifyEnds
<1>7. ASSUME VerifySkips PROVE Contract!Next
  BY <1>0, <1>7 DEF VerifySkips, ReturnsAtOnce, Contract!Next, Contract!Decline
<1>8. ASSUME NEW haveXcrun \in BOOLEAN, VerifyBegins(haveXcrun) PROVE Contract!Next
  BY <1>8 DEF VerifyBegins, Begins, Contract!Next, Contract!Accept
<1>9. ASSUME CallAbandoned \/ RaisesAtOnce PROVE Contract!Next
  <2>1. Contract!Abandon(1)
    <3>1. CASE CallAbandoned
      <4>1. touched' \in {touched, touched \cup {1}}
        BY <1>0, <3>1 DEF CallAbandoned
      <4> QED
        BY <3>1, <4>1 DEF CallAbandoned, Returns, Contract!Abandon, Contract!TouchedOnceMore
    <3>2. CASE RaisesAtOnce
      BY <3>2 DEF RaisesAtOnce, ReturnsAtOnce, Contract!Abandon
    <3> QED
      BY <1>9, <3>1, <3>2
  <2> QED
    BY <1>0, <2>1 DEF Contract!Next
<1>10. ASSUME LateAcceptance \/ Rebuild \/ UNCHANGED vars
       PROVE  UNCHANGED Contract!contractVars
  BY <1>10 DEF LateAcceptance, Rebuild, vars, history, Contract!contractVars
<1> QED
  BY <1>1, <1>2, <1>3, <1>4, <1>5, <1>6, <1>7, <1>8, <1>9, <1>10 DEF Next, Running

(* The macOS backend does what backends/base.py allows, with the skip after *)
(* codesign (no notarization profile) and an exception as the only          *)
(* deviations.                                                              *)
THEOREM ContractImplemented == Spec => ImplementsContract
<1>1. Init => Contract!Init
  BY DEF Init, Contract!Init, NoOutcome, Contract!NoOutcome, OutcomeOf, Contract!OutcomeOf
<1> QED
  BY <1>1, StepRefines, Invariance, PTL DEF Spec, ImplementsContract, Contract!Spec

(* The contract's theorems, about the machine that this backend refines.    *)
Theory ==
  INSTANCE SignerContract_proofs WITH
    Artifacts <- Artifacts, LateSkip <- TRUE, TrustsTool <- FALSE, Raises <- TRUE,
    busy <- pc # "idle",
    touched <- touched,
    passed <- passed,
    outcome <- outcome

LEMMA SameContract == Contract!Spec => Theory!Spec
<1>1. Contract!Init => Theory!Init
  BY DEF Contract!Init, Theory!Init, Contract!NoOutcome, Theory!NoOutcome,
         Contract!OutcomeOf, Theory!OutcomeOf
<1>2. [Contract!Next]_(Contract!contractVars) => [Theory!Next]_(Theory!contractVars)
  BY DEF Contract!Next, Theory!Next, Contract!contractVars, Theory!contractVars,
         Contract!Accept, Theory!Accept, Contract!Decline, Theory!Decline,
         Contract!VerifyOnly, Theory!VerifyOnly, Contract!Touch, Theory!Touch,
         Contract!Check, Theory!Check, Contract!Abandon, Theory!Abandon,
         Contract!ReturnSigned, Theory!ReturnSigned, Contract!ReturnFailed,
         Theory!ReturnFailed, Contract!ReturnUnverified, Theory!ReturnUnverified,
         Contract!ReturnLateSkip, Theory!ReturnLateSkip, Contract!TouchedOnceMore,
         Theory!TouchedOnceMore, Contract!NoOutcome, Theory!NoOutcome,
         Contract!OutcomeOf, Theory!OutcomeOf, Contract!SigningStatus,
         Theory!SigningStatus, Contract!RaisedOutcome, Theory!RaisedOutcome
<1> QED
  BY <1>1, <1>2, PTL DEF Contract!Spec, Theory!Spec

(* backends/base.py:138-152 with result.py, what the refinement buys in     *)
(* spite of the late skip: a SIGNED or VERIFIED names a bundle on which the *)
(* tools ran in this call and which the verifiers accepted in this call.    *)
THEOREM ContractHonoured == Spec => []Contract!SuccessIsChecked
<1>1. 0 \notin Artifacts
  BY DEF Artifacts
<1>2. Theory!Spec => []Theory!SuccessIsChecked
  BY <1>1, Theory!ContractSuccessIsChecked
<1>3. Contract!SuccessIsChecked <=> Theory!SuccessIsChecked
  BY DEF Contract!SuccessIsChecked, Theory!SuccessIsChecked, Contract!IsSuccess,
         Theory!IsSuccess
<1> QED
  BY <1>2, <1>3, ContractImplemented, SameContract, PTL DEF ImplementsContract

(* macos.py:246-266, the extent of the late skip: a skip that left a new    *)
(* signature behind is the one for the missing notarization profile, after  *)
(* a codesign with a Developer ID; no verifier has accepted anything, and   *)
(* SKIPPED_TOOL_ABSENT always means that nothing was run.                   *)
LateSkipIsUnnotarized ==
  pc = "idle" /\ IsSkipped(outcome.status) /\ touched # {} =>
    /\ outcome.status = "skipped_no_credential" /\ outcome.artifact = 1
    /\ ~adHoc /\ ~notary /\ stages = {"codesign"}

THEOREM LateSkipExtent == Spec => []LateSkipIsUnnotarized
<1> USE DEF LateSkipIsUnnotarized, OutcomeOf, NoOutcome, RaisedOutcome, Skipped, IsSkipped
<1>1. Init => LateSkipIsUnnotarized
  BY DEF Init
<1>2. LateSkipIsUnnotarized /\ [Next]_vars => LateSkipIsUnnotarized'
  <2> SUFFICES ASSUME LateSkipIsUnnotarized, [Next]_vars PROVE LateSkipIsUnnotarized'
    OBVIOUS
  <2>1. ASSUME NEW local \in BOOLEAN, NEW usable \in BOOLEAN, NEW identity \in BOOLEAN,
               NEW profile \in BOOLEAN, SignCall(local, usable, identity, profile)
        PROVE  LateSkipIsUnnotarized'
    BY <2>1 DEF SignCall, SignSkipsToolAbsent, SignSkipsNoCredential, SignBegins,
                ReturnsAtOnce, Begins
  <2>2. CASE CodesignSucceeds \/ CodesignFails
    BY <2>2 DEF CodesignSucceeds, CodesignFails, Returns, AfterCodesign
  <2>3. CASE CodesignWithoutNotary
    BY <2>3 DEF CodesignWithoutNotary, Returns, locals
  <2>4. CASE NotarizeAccepted \/ NotarizeFails \/ StapleSucceeds \/ StapleFails
    BY <2>4 DEF NotarizeAccepted, NotarizeFails, StapleSucceeds, StapleFails, Returns
  <2>5. CASE VerifyCodesign \/ VerifySpctl \/ VerifyStapler
    BY <2>5 DEF VerifyCodesign, VerifySpctl, VerifyStapler, Returns, SuccessStatus
  <2>6. CASE VerifySkips \/ \E haveXcrun \in BOOLEAN : VerifyBegins(haveXcrun)
    BY <2>6 DEF VerifySkips, VerifyBegins, ReturnsAtOnce, Begins
  <2>7. CASE CallAbandoned \/ RaisesAtOnce
    BY <2>7 DEF CallAbandoned, RaisesAtOnce, ReturnsAtOnce, Returns
  <2>8. CASE LateAcceptance \/ Rebuild \/ UNCHANGED vars
    BY <2>8 DEF LateAcceptance, Rebuild, vars, locals, history
  <2> QED
    BY <2>1, <2>2, <2>3, <2>4, <2>5, <2>6, <2>7, <2>8 DEF Next, Running
<1> QED
  BY <1>1, <1>2, PTL DEF Spec

==============================================================================
