----------------------------- MODULE MacosBackend -----------------------------
(***************************************************************************)
(* sealward/backends/macos.py: codesign, notarytool, stapler, then three   *)
(* verifiers, one action per subprocess.  The artifact is the literal      *)
(* target.artifact_glob, so there is one.  Notarization waits up to half   *)
(* an hour for Apple, during which the build may replace the bundle, and   *)
(* Apple may accept a submission after notarytool gave up on it.           *)
(*                                                                         *)
(* _run raises on a timeout or a missing binary, whatever its docstring    *)
(* says, and nothing catches it.                                           *)
(***************************************************************************)
EXTENDS Outcome

Artifacts == {1}
Signatures == {"none", "adhoc", "devid"}

VARIABLES
  sig,        \* signature on the bundle's current bytes
  submitted,  \* Apple holds a submission of these bytes
  ticket,     \* Apple issued a notarization ticket for these bytes
  stapled,    \* that ticket is stapled to the bundle
  pc,         \* "idle", or the subprocess that runs next
  mode,       \* which entry point runs: "sign" or "verify"
  xcrun,      \* xcrun is on PATH (the call began with codesign on PATH)
  adHoc,      \* local of sign(): no Developer ID, sign with identity "-"
  notary,     \* target.notarization_profile is set
  accepted,   \* local of verify(): the verifiers that exited 0
  outcome,    \* what the last call returned
  stages,     \* history: the stages of this sign() that exited 0
  touched,    \* history: artifacts codesign ran on in this call
  passed      \* history: artifacts that verify() accepted in this call

bundle == <<sig, submitted, ticket, stapled>>
locals == <<mode, xcrun, adHoc, notary, accepted>>
history == <<stages, touched, passed>>
vars == <<bundle, pc, locals, outcome, history>>

Init ==
  /\ sig = "none"
  /\ submitted = FALSE
  /\ ticket = FALSE
  /\ stapled = FALSE
  /\ pc = "idle"
  /\ mode = "sign"
  /\ xcrun \in BOOLEAN
  /\ adHoc = FALSE
  /\ notary = FALSE
  /\ accepted = {}
  /\ outcome = NoOutcome
  /\ stages = {}
  /\ touched = {}
  /\ passed = {}

ReturnsAtOnce(o) ==
  /\ pc = "idle"
  /\ outcome' = o
  /\ stages' = {} /\ touched' = {} /\ passed' = {}
  /\ UNCHANGED <<bundle, pc, locals>>

Returns(o) == pc' = "idle" /\ outcome' = o

Begins(m, first) ==
  /\ pc = "idle"
  /\ pc' = first
  /\ mode' = m
  /\ accepted' = {}
  /\ stages' = {} /\ touched' = {} /\ passed' = {}
  /\ UNCHANGED <<bundle, outcome>>

(* Not on macOS, no codesign, or no xcrun. *)
SignSkipsToolAbsent == ReturnsAtOnce(Skipped("skipped_tool_absent"))

(* local: the handle is a LOCAL_FILE one; usable: the resolver's verdict on *)
(* it under the dev profile.                                                *)
SignSkipsNoCredential(local, usable) ==
  /\ ~usable /\ ~local
  /\ ReturnsAtOnce(Skipped("skipped_no_credential"))

(* identity: the keychain holds a Developer ID Application identity. *)
IsAdHoc(local, identity) == local /\ ~identity

SignBegins(local, usable, identity, profile) ==
  /\ usable \/ local
  /\ xcrun' = TRUE
  /\ adHoc' = IsAdHoc(local, identity)
  /\ notary' = profile
  /\ Begins("sign", "codesign")

------------------------------------------------------------------------------
(* codesign --force writes a new signature, which drops a stapled ticket;   *)
(* the ticket of an earlier identical signature may still apply.  Trusted:  *)
(* it has done so when it exits 0.  When it does not, it may have as well.  *)
CodesignWrites ==
  /\ sig' = IF adHoc THEN "adhoc" ELSE "devid"
  /\ stapled' = FALSE
  /\ ticket' \in IF adHoc THEN {FALSE} ELSE {FALSE, ticket}
  /\ submitted' \in IF adHoc THEN {FALSE} ELSE {FALSE, submitted}

CodesignMayWrite == CodesignWrites \/ UNCHANGED bundle

AfterCodesignAlwaysNotarize == "notarize"

(* After codesign an ad-hoc signature goes straight to the verifiers. *)
AfterCodesign == IF adHoc THEN "verify_codesign" ELSE "notarize"

CodesignSucceeds ==
  /\ pc = "codesign"
  /\ adHoc \/ notary
  /\ CodesignWrites
  /\ touched' = Artifacts
  /\ stages' = {"codesign"}
  /\ pc' = AfterCodesign
  /\ UNCHANGED <<locals, outcome, passed>>

(* notarization_credential_missing: a Developer ID signature was made, and  *)
(* the call still reports a skip.                                           *)
CodesignWithoutNotary ==
  /\ pc = "codesign"
  /\ ~adHoc /\ ~notary
  /\ CodesignWrites
  /\ touched' = Artifacts
  /\ stages' = {"codesign"}
  /\ Returns(OutcomeOf("skipped_no_credential", "not_run", 1))
  /\ UNCHANGED <<locals, passed>>

CodesignFails ==
  /\ pc = "codesign"
  /\ CodesignMayWrite
  /\ touched' = Artifacts
  /\ Returns(OutcomeOf("failed", "failed", 1))
  /\ UNCHANGED <<locals, stages, passed>>

(* notarytool reports "status: Accepted" only for a Developer ID signature. *)
NotarizeAccepted ==
  /\ pc = "notarize"
  /\ sig = "devid"
  /\ submitted' = TRUE
  /\ ticket' = TRUE
  /\ stages' = stages \cup {"notarize"}
  /\ pc' = "staple"
  /\ UNCHANGED <<sig, stapled, locals, outcome, touched, passed>>

(* A submission whose failure was not looked at. *)
NotarizeFailsIgnored ==
  /\ pc = "notarize"
  /\ submitted' \in BOOLEAN
  /\ pc' = "staple"
  /\ UNCHANGED <<sig, ticket, stapled, locals, outcome, history>>

(* Rejected, or still in progress: exit 0 without "status: Accepted". *)
NotarizeFails ==
  /\ pc = "notarize"
  /\ submitted' \in BOOLEAN
  /\ Returns(OutcomeOf("failed", "failed", 1))
  /\ UNCHANGED <<sig, ticket, stapled, locals, history>>

StapleSucceeds ==
  /\ pc = "staple"
  /\ ticket
  /\ stapled' = TRUE
  /\ stages' = stages \cup {"staple"}
  /\ pc' = "verify_codesign"
  /\ UNCHANGED <<sig, submitted, ticket, locals, outcome, touched, passed>>

(* A stapler that failed or was killed may still have stapled. *)
StaplerMayWrite ==
  /\ stapled' \in {stapled, stapled \/ ticket}
  /\ UNCHANGED <<sig, submitted, ticket>>

StapleFails ==
  /\ pc = "staple"
  /\ StaplerMayWrite
  /\ Returns(OutcomeOf("failed", "failed", 1))
  /\ UNCHANGED <<locals, history>>

------------------------------------------------------------------------------
(* verify(): what each verifier vouches for when it exits 0. *)
Vouches(v) ==
  CASE v = "codesign" -> sig # "none"
    [] v = "spctl"    -> sig = "devid" /\ ticket
    [] v = "stapler"  -> stapled

(* All three run whatever the first ones say; only the verdict is joint. *)
VerifyCodesign ==
  /\ pc = "verify_codesign"
  /\ \/ Vouches("codesign") /\ accepted' = accepted \cup {"codesign"}
     \/ UNCHANGED accepted
  /\ pc' = "verify_spctl"
  /\ UNCHANGED <<bundle, mode, xcrun, adHoc, notary, outcome, history>>

VerifySpctl ==
  /\ pc = "verify_spctl"
  /\ \/ Vouches("spctl") /\ accepted' = accepted \cup {"spctl"}
     \/ UNCHANGED accepted
  /\ pc' = "verify_stapler"
  /\ UNCHANGED <<bundle, mode, xcrun, adHoc, notary, outcome, history>>

(* A verdict that let the stapler's answer pass (`|| true`), one that spared *)
(* ad-hoc signatures the distribution checks.                               *)
AllOkForAdHoc(stapler) ==
  "codesign" \in accepted /\ (adHoc \/ ("spctl" \in accepted /\ stapler))
AllOkWithoutStapler(stapler) == {"codesign", "spctl"} \subseteq accepted
AllOk(stapler) == {"codesign", "spctl"} \subseteq accepted /\ stapler

(* A sign() that handed on the outcome of the verify() it called. *)
SuccessStatusUnconverted == "verified"

(* sign() turns a passed verdict into SIGNED, verify() into VERIFIED. *)
SuccessStatus == IF mode = "sign" THEN "signed" ELSE "verified"

(* The last verifier runs and the verdict is drawn. *)
VerifyStapler ==
  /\ pc = "verify_stapler"
  /\ \E stapler \in BOOLEAN :
       /\ stapler => xcrun /\ Vouches("stapler")
       /\ IF AllOk(stapler)
          THEN /\ passed' = Artifacts
               /\ Returns(OutcomeOf(SuccessStatus, "passed", 1))
          ELSE Returns(OutcomeOf("failed", "failed", 1)) /\ UNCHANGED passed
  /\ UNCHANGED <<bundle, locals, stages, touched>>

VerifySkips == ReturnsAtOnce(OutcomeOf("skipped_tool_absent", "not_run", 1))

VerifyBegins(haveXcrun) ==
  /\ xcrun' = haveXcrun
  /\ adHoc' = FALSE
  /\ notary' = FALSE
  /\ Begins("verify", "verify_codesign")

------------------------------------------------------------------------------
(* A subprocess outruns its timeout or is missing, and the exception leaves *)
(* sign() or verify(); or the process is killed.  What the subprocess did   *)
(* until then stays done.                                                   *)
CallAbandoned ==
  /\ pc # "idle"
  /\ \/ pc = "codesign" /\ CodesignMayWrite /\ touched' = Artifacts
     \/ /\ pc = "notarize"
        /\ submitted' \in BOOLEAN
        /\ UNCHANGED <<sig, ticket, stapled, touched>>
     \/ pc = "staple" /\ StaplerMayWrite /\ UNCHANGED touched
     \/ UNCHANGED <<bundle, touched>>
  /\ \E o \in {NoOutcome, RaisedOutcome} : Returns(o)
  /\ UNCHANGED <<locals, stages, passed>>

(* Or it raised before it changed anything: the resolver, or `security      *)
(* find-identity`.                                                          *)
RaisesAtOnce == ReturnsAtOnce(RaisedOutcome)

(* Outside: Apple accepts a submission late; the build replaces the bundle. *)
LateAcceptance ==
  /\ submitted
  /\ sig = "devid"
  /\ ticket' = TRUE
  /\ UNCHANGED <<sig, submitted, stapled, pc, locals, outcome, history>>

Rebuild ==
  /\ sig' = "none"
  /\ submitted' = FALSE /\ ticket' = FALSE /\ stapled' = FALSE
  /\ UNCHANGED <<pc, locals, outcome, history>>

SignCall(local, usable, identity, profile) ==
  \/ SignSkipsToolAbsent
  \/ SignSkipsNoCredential(local, usable)
  \/ SignBegins(local, usable, identity, profile)

Running ==
  \/ CodesignSucceeds \/ CodesignWithoutNotary \/ CodesignFails
  \/ NotarizeAccepted \/ NotarizeFails
  \/ StapleSucceeds \/ StapleFails
  \/ VerifyCodesign \/ VerifySpctl \/ VerifyStapler

Next ==
  \/ \E local, usable, identity, profile \in BOOLEAN :
       SignCall(local, usable, identity, profile)
  \/ Running
  \/ VerifySkips
  \/ \E haveXcrun \in BOOLEAN : VerifyBegins(haveXcrun)
  \/ CallAbandoned \/ RaisesAtOnce
  \/ LateAcceptance
  \/ Rebuild

Spec == Init /\ [][Next]_vars

------------------------------------------------------------------------------
(* Every variable has its type; only a codesigned Developer ID bundle is on  *)
(* its way to Apple, never an ad-hoc one.                                    *)
TypeOK ==
  /\ sig \in Signatures
  /\ {submitted, ticket, stapled, xcrun, adHoc, notary} \subseteq BOOLEAN
  /\ pc \in {"idle", "codesign", "notarize", "staple",
             "verify_codesign", "verify_spctl", "verify_stapler"}
  /\ mode \in {"sign", "verify"}
  /\ accepted \subseteq {"codesign", "spctl"}
  /\ outcome \in [status : CallStatus, verdict : VerifyVerdict,
                   artifact : Artifacts \cup {0}]
  /\ stages \subseteq {"codesign", "notarize", "staple"}
  /\ touched \subseteq Artifacts
  /\ passed \subseteq Artifacts
  /\ pc \in {"notarize", "staple"} =>
       mode = "sign" /\ ~adHoc /\ notary /\ "codesign" \in stages

(* macos.py:329-399.  The three verifiers run one after the other while the *)
(* build goes on; a success still means that the bundle on disk at the end  *)
(* is signed with a Developer ID, notarized and stapled, all at once.       *)
SuccessIsGenuine ==
  [][<<pc, outcome>>' # <<pc, outcome>> /\ pc' = "idle" /\ IsSuccess(outcome'.status) =>
       sig = "devid" /\ ticket /\ stapled]_vars

(* macos.py:223-226, 246-248, "ad-hoc is dev-only and never claims          *)
(* notarized": the verify-after-sign of an ad-hoc call never passes, also   *)
(* not over a bundle that an earlier call notarized and stapled.  It rests  *)
(* on what Vouches trusts spctl and the stapler with.  tests/               *)
(* test_backends.py:458-481 expects the opposite, SIGNED, of a machine      *)
(* whose every subprocess exits 0, spctl on an ad-hoc bundle included.      *)
AdHocClaimsNothing ==
  pc = "idle" /\ mode = "sign" /\ adHoc => outcome.status # "signed"

(* macos.py:197, "codesign -> notarytool -> stapler -> verify": SIGNED only *)
(* when each stage of this very call exited 0, also when Apple accepts an   *)
(* earlier submission of the same signature behind its back.                *)
SignedRanEveryStage ==
  pc = "idle" /\ outcome.status = "signed" =>
    stages = {"codesign", "notarize", "staple"}

(* result.py:52-54, skipped "means it was never attempted because a         *)
(* precondition was absent": no artifact was touched.                       *)
SkipTouchesNothing ==
  pc = "idle" /\ IsSkipped(outcome.status) => touched = {}

(* backends/base.py:138-152, with the late skip and the exceptions as known *)
(* deviations.                                                              *)
Contract ==
  INSTANCE SignerContract WITH
    Artifacts <- Artifacts, LateSkip <- TRUE, TrustsTool <- FALSE, Raises <- TRUE,
    busy <- pc # "idle",
    touched <- touched,
    passed <- passed,
    outcome <- outcome
ImplementsContract == Contract!Spec

==============================================================================
