------------------------------ MODULE IosBackend ------------------------------
(***************************************************************************)
(* sealward/backends/ios.py: codesign with an identity that Fastlane Match *)
(* supplies.  The loop signs and verifies one artifact before it goes on   *)
(* to the next, in the sorted order of a recursive glob, so an app comes   *)
(* before the frameworks and extensions inside it; signing one of those    *)
(* afterwards changes the bytes that the app's own signature seals.        *)
(*                                                                         *)
(* codesign's launch failures and timeouts leave _run_sign as exceptions,  *)
(* whatever sign()'s docstring says; _verify_signature catches its own,    *)
(* but not an output that is no text.                                      *)
(*                                                                         *)
(* Not modelled here: entitlements, redaction, tool versions.              *)
(***************************************************************************)
EXTENDS Outcome, Sequences

CONSTANTS
  NArtifacts,   \* files the glob can match
  Inside        \* <<a, b>>: bundle b is nested in bundle a

ASSUME NArtifactsAssumption == NArtifacts \in Nat \ {0}

Artifacts == 1..NArtifacts

(* A nested bundle has a longer path, so it sorts after what contains it. *)
ASSUME InsideAssumption == Inside \subseteq {p \in Artifacts \X Artifacts : p[1] < p[2]}

(* "broken": signed, but the sealed bytes have changed since. *)
BundleStates == {"absent", "unsigned", "broken", "signed"}

VARIABLES
  disk,       \* what every artifact looks like on disk
  pc,         \* "idle", or the subprocess that runs next
  artifacts,  \* sorted expansion of the glob
  index,      \* loop position in artifacts
  outcome,    \* what the last call returned
  disturbed,  \* history: the build wrote something since the call began
  touched,    \* history: artifacts codesign --sign ran on in this call
  passed      \* history: artifacts codesign --verify accepted in this call

locals == <<artifacts, index>>
history == <<disturbed, touched, passed>>
vars == <<disk, pc, locals, outcome, history>>

Listings == UNION {[1..n -> Artifacts] : n \in 0..NArtifacts}

(* _expand: the existing matches in sorted order. *)
Expand(d) ==
  {s \in Listings :
     /\ \A i, j \in DOMAIN s : i < j => s[i] < s[j]
     /\ {s[i] : i \in DOMAIN s} = {a \in Artifacts : d[a] # "absent"}}

Init ==
  /\ disk \in [Artifacts -> BundleStates]
  /\ pc = "idle"
  /\ artifacts = <<>>
  /\ index = 1
  /\ outcome = NoOutcome
  /\ disturbed = FALSE
  /\ touched = {}
  /\ passed = {}

ReturnsAtOnce(o) ==
  /\ pc = "idle"
  /\ outcome' = o
  /\ disturbed' = FALSE /\ touched' = {} /\ passed' = {}
  /\ UNCHANGED <<disk, pc, locals>>

(* codesign: is it on PATH? *)
SignSkipsToolAbsent(codesign) ==
  ~codesign /\ ReturnsAtOnce(Skipped("skipped_tool_absent"))

(* usable: the resolver's verdict, under the profile that _profile_for      *)
(* infers; match: the Match secret and one store variable are set.  A glob  *)
(* without matches is reported as a missing credential, too.                *)
SignSkipsNoCredential(codesign, usable, match) ==
  /\ codesign
  /\ ~usable \/ ~match \/ <<>> \in Expand(disk)
  /\ ReturnsAtOnce(Skipped("skipped_no_credential"))

SignBegins(codesign, usable, match) ==
  /\ pc = "idle"
  /\ codesign /\ usable /\ match
  /\ artifacts' \in Expand(disk)
  /\ artifacts' # <<>>
  /\ index' = 1
  /\ pc' = "signing"
  /\ disturbed' = FALSE /\ touched' = {} /\ passed' = {}
  /\ UNCHANGED <<disk, outcome>>

------------------------------------------------------------------------------
Current == artifacts[index]

Returns(o) == pc' = "idle" /\ outcome' = o

(* Bytes of a changed: the seal of everything around it is broken. *)
Seal(d, a, s) ==
  [b \in Artifacts |->
     IF b = a THEN s
     ELSE IF <<b, a>> \in Inside /\ d[b] = "signed" THEN "broken"
     ELSE d[b]]

(* A run of codesign --sign may or may not write a signature. *)
ToolMayWrite ==
  \/ UNCHANGED disk
  \/ disk[Current] # "absent" /\ disk' = Seal(disk, Current, "signed")

ToolSucceeds ==
  /\ pc = "signing"
  /\ disk[Current] # "absent"
  /\ ToolMayWrite
  /\ touched' = touched \cup {Current}
  /\ pc' = "verifying"
  /\ UNCHANGED <<locals, outcome, disturbed, passed>>

ToolFails ==
  /\ pc = "signing"
  /\ ToolMayWrite
  /\ touched' = touched \cup {Current}
  /\ Returns(OutcomeOf("failed", "not_run", Current))
  /\ UNCHANGED <<locals, disturbed, passed>>

ToolRaises ==
  /\ pc = "signing"
  /\ ToolMayWrite
  /\ touched' = touched \cup {Current}
  /\ Returns(RaisedOutcome)
  /\ UNCHANGED <<locals, disturbed, passed>>

(* What SIGNED names: the one artifact, or the glob itself. *)
SignedArtifact == IF Len(artifacts) = 1 THEN Current ELSE 0

HasNextOffByOne == index <= Len(artifacts)
HasNext == index < Len(artifacts)

(* A loop that only asked the verifier about the last artifact. *)
VerifyPassesUnchecked ==
  /\ pc = "verifying"
  /\ IF HasNext
     THEN /\ index' = index + 1
          /\ pc' = "signing"
          /\ UNCHANGED <<outcome, passed>>
     ELSE /\ disk[Current] = "signed"
          /\ passed' = passed \cup {Current}
          /\ Returns(OutcomeOf("signed", "passed", SignedArtifact))
          /\ UNCHANGED index
  /\ UNCHANGED <<disk, artifacts, disturbed, touched>>

(* Trusted: codesign --verify exits 0 only on a valid signature. *)
VerifyPasses ==
  /\ pc = "verifying"
  /\ disk[Current] = "signed"
  /\ passed' = passed \cup {Current}
  /\ IF HasNext
     THEN index' = index + 1 /\ pc' = "signing" /\ UNCHANGED outcome
     ELSE Returns(OutcomeOf("signed", "passed", SignedArtifact)) /\ UNCHANGED index
  /\ UNCHANGED <<disk, artifacts, disturbed, touched>>

(* A loop that signed an artifact again until it verified. *)
VerifyFailsSignsAgain ==
  /\ pc = "verifying"
  /\ pc' = "signing"
  /\ UNCHANGED <<disk, locals, outcome, history>>

(* "not_run" when the verifier cannot be launched or outruns its timeout. *)
VerifyFails ==
  /\ pc = "verifying"
  /\ \E verdict \in {"failed", "not_run"} :
       Returns(OutcomeOf("failed", verdict, Current))
  /\ UNCHANGED <<disk, locals, history>>

------------------------------------------------------------------------------
(* verify(a), a call of its own. *)
VerifySkips(codesign, a) ==
  ~codesign /\ ReturnsAtOnce(OutcomeOf("skipped_tool_absent", "not_run", a))

Verify(codesign, a) ==
  /\ pc = "idle"
  /\ codesign
  /\ disturbed' = FALSE /\ touched' = {}
  /\ \/ /\ disk[a] = "signed"
        /\ passed' = {a}
        /\ outcome' = OutcomeOf("verified", "passed", a)
     \/ /\ passed' = {}
        /\ \E verdict \in {"failed", "not_run"} :
             outcome' = OutcomeOf("failed", verdict, a)
  /\ UNCHANGED <<disk, pc, locals>>

(* Outside: the build writes or removes a bundle. *)
Rebuild(a) ==
  /\ \E s \in {"absent", "unsigned"} : disk' = Seal(disk, a, s)
  /\ disturbed' = TRUE
  /\ UNCHANGED <<pc, locals, outcome, touched, passed>>

(* The process is killed or an exception ends the call; codesign may have   *)
(* signed by then.                                                          *)
CallAbandoned ==
  /\ pc # "idle"
  /\ \E o \in {NoOutcome, RaisedOutcome} : Returns(o)
  /\ \/ pc = "signing" /\ ToolMayWrite /\ touched' = touched \cup {Current}
     \/ UNCHANGED <<disk, touched>>
  /\ UNCHANGED <<locals, disturbed, passed>>

(* Or it raised before it changed anything: the resolver, or the decoding   *)
(* of what codesign --verify printed.                                       *)
RaisesAtOnce == ReturnsAtOnce(RaisedOutcome)

SignCall(codesign, usable, match) ==
  \/ SignSkipsToolAbsent(codesign)
  \/ SignSkipsNoCredential(codesign, usable, match)
  \/ SignBegins(codesign, usable, match)

Running == ToolSucceeds \/ ToolFails \/ ToolRaises \/ VerifyPasses \/ VerifyFails

Next ==
  \/ \E codesign, usable, match \in BOOLEAN : SignCall(codesign, usable, match)
  \/ Running
  \/ \E codesign \in BOOLEAN, a \in Artifacts :
       VerifySkips(codesign, a) \/ Verify(codesign, a)
  \/ \E a \in Artifacts : Rebuild(a)
  \/ CallAbandoned \/ RaisesAtOnce

Spec == Init /\ [][Next]_vars

(* _SUBPROCESS_TIMEOUT_S bounds every subprocess. *)
FairSpec == Spec /\ WF_vars(Running)

------------------------------------------------------------------------------
(* Every variable has its type. *)
TypeOK ==
  /\ disk \in [Artifacts -> BundleStates]
  /\ pc \in {"idle", "signing", "verifying"}
  /\ artifacts \in Listings
  /\ index \in 1..NArtifacts
  /\ outcome \in [status : CallStatus, verdict : VerifyVerdict,
                   artifact : 0..NArtifacts]
  /\ disturbed \in BOOLEAN
  /\ touched \subseteq Artifacts
  /\ passed \subseteq Artifacts
  /\ pc # "idle" => index \in DOMAIN artifacts

(* ios.py:196-219.  SIGNED covers the glob: every artifact it listed was    *)
(* signed and then accepted by codesign --verify, within this very call.    *)
EverySignatureVerified ==
  pc = "idle" /\ outcome.status = "signed" =>
    \A i \in DOMAIN artifacts : artifacts[i] \in touched \cap passed

(* ios.py:196-219.  Unless the build interferes, what SIGNED covers is      *)
(* still validly signed when sign() returns -- for artifacts that contain   *)
(* no other listed artifact.  (One that does was verified before its        *)
(* content was signed again.)                                               *)
SignedStandsOutsideNests ==
  pc = "idle" /\ outcome.status = "signed" /\ ~disturbed =>
    \A i \in DOMAIN artifacts :
      \/ disk[artifacts[i]] = "signed"
      \/ \E j \in DOMAIN artifacts : <<artifacts[i], artifacts[j]>> \in Inside

(* backends/base.py:138-152, the signing contract, except that a call may   *)
(* raise.                                                                   *)
Contract ==
  INSTANCE SignerContract WITH
    Artifacts <- Artifacts, LateSkip <- FALSE, TrustsTool <- FALSE, Raises <- TRUE,
    busy <- pc # "idle",
    touched <- touched,
    passed <- passed,
    outcome <- outcome
ImplementsContract == Contract!Spec

(* Every call ends: the loop runs two bounded subprocesses per artifact. *)
CallReturns == (pc # "idle") ~> (pc = "idle")

==============================================================================
