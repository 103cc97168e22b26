---------------------------- MODULE AndroidBackend ----------------------------
(***************************************************************************)
(* sealward/backends/android.py: apksigner with its own verifier, or the   *)
(* legacy jarsigner with none.  A call works on the first file the glob    *)
(* matches, so there is one APK here.  Tools may be installed or removed   *)
(* at any time, also between apksigner's two runs, and _run turns that     *)
(* (127) and a timeout (124) into exit codes instead of raising.           *)
(*                                                                         *)
(* Not modelled here: redaction, key aliases, and the v4 .idsig file,      *)
(* which only appears in a success's evidence.                             *)
(***************************************************************************)
EXTENDS Outcome

AndroidTools == {"apksigner", "jarsigner"}

(* An APK is missing, unsigned, or signed under Scheme v1 or v2+. *)
ApkStates == {"absent", "unsigned", "v1", "v2"}

(* How a subprocess ends: exit 0, another exit code, or no exit code of its *)
(* own, when _run invents 124 or 127.                                       *)
Exits == {"zero", "nonzero", "timeout", "missing"}

VARIABLES
  apk,       \* the APK on disk
  path,      \* tools on PATH
  pc,        \* "idle", "apksigner" or "jarsigner" to sign, "verifying"
  outcome,   \* what the last call returned
  signer,    \* history: the tool that signed in this call
  judged,    \* history: how apksigner verify ended in this call
  touched,   \* history: artifacts a signing tool ran on in this call
  passed     \* history: artifacts apksigner verify accepted in this call

history == <<signer, judged, touched, passed>>
vars == <<apk, path, pc, outcome, history>>

Init ==
  /\ apk \in ApkStates
  /\ path \in SUBSET AndroidTools
  /\ pc = "idle"
  /\ outcome = NoOutcome
  /\ signer = "none"
  /\ judged = "none"
  /\ touched = {}
  /\ passed = {}

NewCall ==
  /\ pc = "idle"
  /\ signer' = "none"
  /\ touched' = {}

ReturnsAtOnce(o) ==
  /\ NewCall
  /\ outcome' = o
  /\ judged' = "none"
  /\ passed' = {}
  /\ UNCHANGED <<apk, path, pc>>

(* _resolve_artifact: None when nothing matches. *)
ResolvedArtifact == IF apk = "absent" THEN 0 ELSE 1

SignSkipsToolAbsent ==
  /\ path = {}
  /\ ReturnsAtOnce(OutcomeOf("skipped_tool_absent", "not_run", ResolvedArtifact))

(* usable: the resolver's verdict; password: the keystore password is set. *)
SignSkipsNoCredential(usable, password) ==
  /\ path # {}
  /\ ~usable \/ ~password
  /\ ReturnsAtOnce(OutcomeOf("skipped_no_credential", "not_run", ResolvedArtifact))

SignFailsNoMatch(usable, password) ==
  /\ path # {}
  /\ usable /\ password
  /\ apk = "absent"
  /\ ReturnsAtOnce(OutcomeOf("failed", "not_run", 0))

SignBegins(usable, password) ==
  /\ path # {}
  /\ usable /\ password
  /\ apk # "absent"
  /\ NewCall
  /\ pc' = IF "apksigner" \in path THEN "apksigner" ELSE "jarsigner"
  /\ judged' = "none"
  /\ passed' = {}
  /\ UNCHANGED <<apk, path, outcome>>

------------------------------------------------------------------------------
(* Whatever its exit code, a run may or may not have signed the APK. *)
ToolMayWrite(scheme) == apk' \in {apk, IF apk = "absent" THEN "absent" ELSE scheme}

Returns(o) == pc' = "idle" /\ outcome' = o

SigningFails(scheme) ==
  /\ ToolMayWrite(scheme)
  /\ touched' = {1}
  /\ Returns(OutcomeOf("failed", "not_run", 1))
  /\ UNCHANGED <<path, signer, judged, passed>>

(* _sign_with_apksigner, up to the verifier. *)
ApksignerSucceeds ==
  /\ pc = "apksigner"
  /\ "apksigner" \in path
  /\ apk # "absent"
  /\ ToolMayWrite("v2")
  /\ touched' = {1}
  /\ signer' = "apksigner"
  /\ pc' = "verifying"
  /\ UNCHANGED <<path, outcome, judged, passed>>

ApksignerFails == pc = "apksigner" /\ SigningFails("v2")

(* _sign_with_jarsigner: no verifier exists, and the verdict says so. *)
JarsignerSucceeds ==
  /\ pc = "jarsigner"
  /\ "jarsigner" \in path
  /\ apk # "absent"
  /\ ToolMayWrite("v1")
  /\ touched' = {1}
  /\ signer' = "jarsigner"
  /\ Returns(OutcomeOf("signed", "not_run", 1))
  /\ UNCHANGED <<path, judged, passed>>

JarsignerFails == pc = "jarsigner" /\ SigningFails("v1")

(* How `apksigner verify` may end.  Trusted: 0 only on a signed APK. *)
VerifyExits ==
  IF "apksigner" \notin path THEN {"missing"}
  ELSE {e \in Exits \ {"missing"} : e = "zero" => apk \in {"v1", "v2"}}

(* _run_verify with None for a verifier that did not run, without a special *)
(* case for 124 and 127, and as it is.                                      *)
VerdictOrNone(e) ==
  CASE e = "zero" -> "passed"
    [] e \in {"timeout", "missing"} -> "none"
    [] OTHER -> "failed"
VerdictOfAnyExit(e) == IF e = "zero" THEN "passed" ELSE "failed"
VerdictOf(e) ==
  CASE e = "zero" -> "passed"
    [] e \in {"timeout", "missing"} -> "not_run"
    [] OTHER -> "failed"

(* A sign() that took apksigner's exit code for a proof. *)
VerifyAfterSignTrusting ==
  /\ pc = "verifying"
  /\ Returns(OutcomeOf("signed", "passed", 1))
  /\ UNCHANGED <<apk, path, history>>

(* A sign() that only a failed verdict can stop. *)
VerifyAfterSignUnlessFailed ==
  /\ pc = "verifying"
  /\ \E e \in VerifyExits :
       /\ judged' = e
       /\ passed' = IF VerdictOf(e) = "passed" THEN {1} ELSE {}
       /\ Returns(OutcomeOf(IF VerdictOf(e) = "failed" THEN "failed" ELSE "signed",
                            VerdictOf(e), 1))
  /\ UNCHANGED <<apk, path, signer, touched>>

VerifyAfterSign ==
  /\ pc = "verifying"
  /\ \E e \in VerifyExits :
       /\ judged' = e
       /\ passed' = IF VerdictOf(e) = "passed" THEN {1} ELSE {}
       /\ Returns(OutcomeOf(IF VerdictOf(e) = "passed" THEN "signed" ELSE "failed",
                            VerdictOf(e), 1))
  /\ UNCHANGED <<apk, path, signer, touched>>

------------------------------------------------------------------------------
(* verify(), a call of its own: only apksigner can verify. *)
VerifySkips ==
  /\ "apksigner" \notin path
  /\ ReturnsAtOnce(OutcomeOf("skipped_tool_absent", "not_run", 1))

VerifyFailsMissing ==
  /\ "apksigner" \in path
  /\ apk = "absent"
  /\ ReturnsAtOnce(OutcomeOf("failed", "not_run", 1))

Verify ==
  /\ "apksigner" \in path
  /\ apk # "absent"
  /\ NewCall
  /\ \E e \in VerifyExits :
       /\ judged' = e
       /\ passed' = IF VerdictOf(e) = "passed" THEN {1} ELSE {}
       /\ outcome' = OutcomeOf(IF VerdictOf(e) = "passed" THEN "verified" ELSE "failed",
                               VerdictOf(e), 1)
  /\ UNCHANGED <<apk, path, pc>>

------------------------------------------------------------------------------
(* Outside: the build writes or removes the APK, tools come and go.         *)
Rebuild ==
  /\ apk' \in {"absent", "unsigned"}
  /\ UNCHANGED <<path, pc, outcome, history>>

Reprovision ==
  /\ path' \in SUBSET AndroidTools
  /\ UNCHANGED <<apk, pc, outcome, history>>

(* The process is killed or an exception ends the call; the signing tool    *)
(* may have run by then.                                                    *)
CallAbandoned ==
  /\ pc # "idle"
  /\ \E o \in {NoOutcome, RaisedOutcome} : Returns(o)
  /\ \/ pc = "apksigner" /\ ToolMayWrite("v2") /\ touched' = {1}
     \/ pc = "jarsigner" /\ ToolMayWrite("v1") /\ touched' = {1}
     \/ UNCHANGED <<apk, touched>>
  /\ UNCHANGED <<path, signer, judged, passed>>

(* Or it raised before it changed anything: the resolver, or the decoding   *)
(* of what apksigner verify printed.                                        *)
RaisesAtOnce == ReturnsAtOnce(RaisedOutcome)

SignCall(usable, password) ==
  \/ SignSkipsToolAbsent
  \/ SignSkipsNoCredential(usable, password)
  \/ SignFailsNoMatch(usable, password)
  \/ SignBegins(usable, password)

Running ==
  \/ ApksignerSucceeds \/ ApksignerFails
  \/ JarsignerSucceeds \/ JarsignerFails
  \/ VerifyAfterSign

Next ==
  \/ \E usable, password \in BOOLEAN : SignCall(usable, password)
  \/ Running
  \/ VerifySkips \/ VerifyFailsMissing \/ Verify
  \/ Rebuild \/ Reprovision
  \/ CallAbandoned \/ RaisesAtOnce

Spec == Init /\ [][Next]_vars

------------------------------------------------------------------------------
(* Every variable has its type. *)
TypeOK ==
  /\ apk \in ApkStates
  /\ path \subseteq AndroidTools
  /\ pc \in {"idle", "apksigner", "jarsigner", "verifying"}
  /\ outcome \in [status : CallStatus, verdict : VerifyVerdict,
                   artifact : 0..1]
  /\ signer \in AndroidTools \cup {"none"}
  /\ judged \in Exits \cup {"none"}
  /\ touched \subseteq {1}
  /\ passed \subseteq {1}

(* android.py:277-291, 389-390.  A success that claims a passed verdict is  *)
(* returned only when the APK on disk carries a signature at that moment.   *)
SuccessIsGenuine ==
  [][<<pc, outcome>>' # <<pc, outcome>> /\ pc' = "idle"
       /\ IsSuccess(outcome'.status) /\ outcome'.verdict = "passed" =>
         apk \in {"v1", "v2"}]_vars

(* android.py:405-412.  A verdict is a verdict: "passed" or "failed" when   *)
(* apksigner verify ran to its end in this call, "not_run" when it was not  *)
(* started, was killed at its timeout, or had been uninstalled.             *)
VerdictIsTruthful ==
  pc = "idle" /\ outcome.status # "none" =>
    (outcome.verdict = "not_run" <=> judged \in {"none", "timeout", "missing"})

(* result.py:86-91 and 57: a backend that signs must run verification, and  *)
(* SIGNED is a signature that was produced and verified.                    *)
SignedIsVerified ==
  pc = "idle" /\ outcome.status = "signed" => outcome.verdict = "passed"

(* android.py:309-320 with result.py:86-91.  The one gap in the above is    *)
(* the legacy tool: what apksigner signed is never SIGNED unverified, also  *)
(* when it disappears between its two runs.                                 *)
ApksignerIsVerified ==
  pc = "idle" /\ outcome.status = "signed" /\ signer = "apksigner" =>
    outcome.verdict = "passed" /\ passed = {1}

(* backends/base.py:138-152, with jarsigner as a known deviation. *)
Contract ==
  INSTANCE SignerContract WITH
    Artifacts <- {1}, LateSkip <- FALSE, TrustsTool <- TRUE, Raises <- TRUE,
    busy <- pc # "idle",
    touched <- touched,
    passed <- passed,
    outcome <- outcome
ImplementsContract == Contract!Spec

==============================================================================
