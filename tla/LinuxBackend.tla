----------------------------- MODULE LinuxBackend -----------------------------
(***************************************************************************)
(* sealward/backends/linux.py: detached signatures by gpg, minisign or     *)
(* cosign.  Unlike Authenticode the proof lives in sidecar files, which    *)
(* outlive the bytes they were made for, and which of them verify() looks  *)
(* at depends on the tools installed when it is called.                    *)
(*                                                                         *)
(* A sidecar is "current" when it matches the artifact's bytes, "stale"    *)
(* when it was made for other bytes or is damaged.  The build may write    *)
(* files, and an operator may install, replace or remove tools, between    *)
(* any two steps of a call: a step ends where the code runs a subprocess,  *)
(* so a tool's version, the choice of a tool and a digest are read in one  *)
(* step and used in a later one.                                           *)
(*                                                                         *)
(* Not modelled here: stderr redaction, and globs that match the sidecars  *)
(* themselves.                                                             *)
(***************************************************************************)
EXTENDS Outcome

CONSTANT NArtifacts    \* files the globs can match

ASSUME NArtifactsAssumption == NArtifacts \in Nat \ {0}

Artifacts == 1..NArtifacts
LinuxTools == {"gpg", "minisign", "cosign"}

(* .sha256, .sig, .minisig and .cosign.bundle, by what writes them. *)
Sidecars == {"sha256"} \cup LinuxTools
Freshness == {"none", "stale", "current"}

VARIABLES
  present,    \* artifacts that exist
  sidecar,    \* state of every sidecar file of every artifact
  path,       \* signing tools on PATH
  cosignOk,   \* cosign's version is readable and at least 2.6
  pc,         \* "idle", or the next step of sign() or of verify()
  artifact,   \* local: the artifact of the call, 0 before the first
  tool,       \* local of sign(): the tool it selected; "none" in verify()
  checksum,   \* local of sign(): is the digest it computed still right?
  verifier,   \* local of verify(): the tool it selected
  accepted,   \* local of sign(): the verdict that verify() returned
  outcome,    \* what the last call returned
  rebuilt,    \* history: did the build change the artifact after the call
              \*   began ("during"), or after the verifier ran ("since")?
  retooled,   \* history: the tools changed since the last call began
  swapped,    \* history: they changed after the call last read cosign's
              \*   version and before its verifier ran
  touched,    \* history: artifacts the signing tool ran on in this call
  passed      \* history: artifacts a verifier accepted in this call

machine == <<path, cosignOk>>
locals == <<artifact, tool, checksum, verifier, accepted>>
history == <<rebuilt, retooled, swapped, touched, passed>>
vars == <<present, sidecar, machine, pc, locals, outcome, history>>

------------------------------------------------------------------------------
(* _preferred_tool: gpg, then minisign, then cosign. *)
PreferredTool ==
  IF "gpg" \in path THEN "gpg"
  ELSE IF "minisign" \in path THEN "minisign"
  ELSE IF "cosign" \in path THEN "cosign"
  ELSE "none"

(* A sign() that carried on without an artifact. *)
FirstArtifactOrNone(pattern) ==
  IF pattern \cap present = {} THEN {0}
  ELSE {a \in pattern \cap present : \A b \in pattern \cap present : a <= b}

(* _first_artifact, for a glob that names the artifacts in pattern. *)
FirstArtifact(pattern) ==
  {a \in pattern \cap present : \A b \in pattern \cap present : a <= b}

(* A floor that any cosign passes. *)
AnyCosign == "cosign" \in path

(* What _tool_version and _cosign_version_ok can say: yes only when cosign  *)
(* is there and at its floor, no also when its version command fails.       *)
CosignAtFloor == "cosign" \in path /\ cosignOk

(* What is trusted: a verifier that exits 0 has seen a sidecar that matches *)
(* the artifact's bytes.  A cosign below the floor is not trusted so far:   *)
(* some bundle is all it needs.                                             *)
VerifierMayAccept ==
  /\ verifier \in path
  /\ artifact \in present
  /\ sidecar[artifact][verifier] # "none"
  /\ sidecar[artifact][verifier] = "stale" => verifier = "cosign" /\ ~cosignOk

------------------------------------------------------------------------------
Init ==
  /\ present \in SUBSET Artifacts
  /\ sidecar = [a \in Artifacts |-> [k \in Sidecars |-> "none"]]
  /\ path \in SUBSET LinuxTools
  /\ cosignOk \in BOOLEAN
  /\ pc = "idle"
  /\ artifact = 0
  /\ tool = "none"
  /\ checksum = "none"
  /\ verifier = "none"
  /\ accepted = FALSE
  /\ outcome = NoOutcome
  /\ rebuilt = "never"
  /\ retooled = FALSE
  /\ swapped = FALSE
  /\ touched = {}
  /\ passed = {}

NewCall ==
  /\ pc = "idle"
  /\ rebuilt' = "never"
  /\ retooled' = FALSE
  /\ swapped' = FALSE
  /\ touched' = {}
  /\ passed' = {}

(* sign() returned, or raised, o without running a tool on a file. *)
ReturnsAtOnce(o) ==
  /\ NewCall
  /\ outcome' = o
  /\ UNCHANGED <<present, sidecar, machine, pc, locals>>

SignSkipsToolAbsent ==
  PreferredTool = "none" /\ ReturnsAtOnce(Skipped("skipped_tool_absent"))

(* usable is the verdict of CustodyResolver().resolve on the key handle ... *)
SignSkipsNoCredential(usable) ==
  /\ PreferredTool # "none"
  /\ ~usable
  /\ ReturnsAtOnce(Skipped("skipped_no_credential"))

(* ... which may raise instead.                                             *)
SignRaisesAtOnce == PreferredTool # "none" /\ ReturnsAtOnce(RaisedOutcome)

SignFailsNoMatch(usable, pattern) ==
  /\ PreferredTool # "none"
  /\ usable
  /\ FirstArtifact(pattern) = {}
  /\ ReturnsAtOnce(OutcomeOf("failed", "not_run", 0))

SignBegins(usable, pattern) ==
  /\ PreferredTool # "none"
  /\ usable
  /\ NewCall
  /\ artifact' \in FirstArtifact(pattern)
  /\ tool' = PreferredTool
  /\ checksum' = "none"
  /\ verifier' = "none"
  /\ accepted' = FALSE
  /\ pc' = "hashing"
  /\ UNCHANGED <<present, sidecar, machine, outcome>>

(* verify(a), a call of its own. *)
VerifyBegins(a) ==
  /\ NewCall
  /\ artifact' = a
  /\ tool' = "none"
  /\ checksum' = "none"
  /\ verifier' = "none"
  /\ accepted' = FALSE
  /\ pc' = "selecting"
  /\ UNCHANGED <<present, sidecar, machine, outcome>>

------------------------------------------------------------------------------
(* sign() as far as its call of verify().                                   *)

(* _sha256 reads the artifact, and raises when it is gone ... *)
Hash ==
  /\ pc = "hashing"
  /\ artifact \in present
  /\ checksum' = "current"
  /\ pc' = "writing"
  /\ UNCHANGED <<present, sidecar, machine, artifact, tool, verifier, accepted, outcome,
                 history>>

(* A checksum file that was written once and then left alone. *)
ChecksumFileKept == IF sidecar[artifact]["sha256"] = "none" THEN checksum
                    ELSE sidecar[artifact]["sha256"]
ChecksumFile == checksum

(* ... and write_text puts what it read beside it, replacing the old file. *)
WriteChecksum ==
  /\ pc = "writing"
  /\ sidecar' = [sidecar EXCEPT ![artifact]["sha256"] = ChecksumFile]
  /\ pc' = IF tool = "cosign" THEN "vetting" ELSE "signing"
  /\ UNCHANGED <<present, machine, locals, outcome, history>>

(* _sign_cosign asks cosign for its version before it runs it ... *)
SignVetsCosign ==
  /\ pc = "vetting"
  /\ CosignAtFloor
  /\ swapped' = FALSE
  /\ pc' = "signing"
  /\ UNCHANGED <<present, sidecar, machine, locals, outcome, rebuilt, retooled, touched,
                 passed>>

SignFails == outcome' = OutcomeOf("failed", "not_run", artifact) /\ pc' = "idle"

(* ... and refuses below the floor, or when it got no version.              *)
SignRefusesCosign ==
  /\ pc = "vetting"
  /\ swapped' = FALSE
  /\ SignFails
  /\ UNCHANGED <<present, sidecar, machine, locals, rebuilt, retooled, touched, passed>>

(* The tool that is on PATH by now exits 0 and its sidecar is a file.  That *)
(* may still be the one an earlier call left.                               *)
ToolSucceeds ==
  /\ pc = "signing"
  /\ tool \in path
  /\ artifact \in present
  /\ \E f \in {"current", sidecar[artifact][tool]} \ {"none"} :
       sidecar' = [sidecar EXCEPT ![artifact][tool] = f]
  /\ touched' = {artifact}
  /\ pc' = "selecting"
  /\ UNCHANGED <<present, machine, locals, outcome, rebuilt, retooled, swapped, passed>>

(* The tool ended any other way; what it had written by then stays. *)
ToolMayHaveWritten ==
  /\ \E f \in Freshness :
       /\ f = "current" => artifact \in present
       /\ f # sidecar[artifact][tool] => tool \in path
       /\ sidecar' = [sidecar EXCEPT ![artifact][tool] = f]
  /\ touched' = {artifact}

(* Non-zero exit, timeout, tool gone, or no sidecar afterwards. *)
ToolFails ==
  /\ pc = "signing"
  /\ ToolMayHaveWritten
  /\ SignFails
  /\ UNCHANGED <<present, machine, locals, rebuilt, retooled, swapped, passed>>

------------------------------------------------------------------------------
(* verify(), called by sign() or on its own.  It returns o: to sign(), which *)
(* has yet to look at it, or to the caller.                                 *)
VerifyReturns(o) ==
  /\ passed' = IF o.verdict = "passed" THEN {artifact} ELSE {}
  /\ \/ /\ tool = "none"
        /\ outcome' = o
        /\ pc' = "idle"
        /\ UNCHANGED accepted
     \/ /\ tool # "none"
        /\ accepted' = (o.verdict = "passed")
        /\ pc' = "closing"
        /\ UNCHANGED outcome
  /\ UNCHANGED <<present, sidecar, machine, artifact, tool, checksum, rebuilt, retooled,
                 touched>>

Verified == OutcomeOf("verified", "passed", artifact)
NotVerified == OutcomeOf("failed", "failed", artifact)

VerifyFindsNoTool ==
  /\ pc = "selecting"
  /\ PreferredTool = "none"
  /\ VerifyReturns(OutcomeOf("skipped_tool_absent", "not_run", artifact))
  /\ UNCHANGED <<verifier, swapped>>

VerifyFindsNoSidecar ==
  /\ pc = "selecting"
  /\ PreferredTool # "none"
  /\ sidecar[artifact][PreferredTool] = "none"
  /\ verifier' = PreferredTool
  /\ VerifyReturns(NotVerified)
  /\ UNCHANGED swapped

VerifySelects ==
  /\ pc = "selecting"
  /\ PreferredTool # "none"
  /\ sidecar[artifact][PreferredTool] # "none"
  /\ verifier' = PreferredTool
  /\ pc' = IF PreferredTool = "cosign" THEN "checking" ELSE "verifying"
  /\ UNCHANGED <<present, sidecar, machine, artifact, tool, checksum, accepted, outcome,
                 history>>

(* _verify_cosign reads the version again ... *)
VerifyVetsCosign ==
  /\ pc = "checking"
  /\ CosignAtFloor
  /\ swapped' = FALSE
  /\ pc' = "digesting"
  /\ UNCHANGED <<present, sidecar, machine, locals, outcome, rebuilt, retooled, touched,
                 passed>>

VerifyRefusesCosign ==
  /\ pc = "checking"
  /\ swapped' = FALSE
  /\ VerifyReturns(NotVerified)
  /\ UNCHANGED verifier

(* ... and hashes the artifact again, which raises when it is gone.  What   *)
(* it does with the digest afterwards decides nothing: "digest in combined  *)
(* or ok" holds of every green verify.                                      *)
VerifyHashes ==
  /\ pc = "digesting"
  /\ artifact \in present
  /\ pc' = "verifying"
  /\ UNCHANGED <<present, sidecar, machine, locals, outcome, history>>

VerifierAccepts ==
  /\ pc = "verifying"
  /\ VerifierMayAccept
  /\ VerifyReturns(Verified)
  /\ UNCHANGED <<verifier, swapped>>

(* It rejects, runs into its timeout, or is gone. *)
VerifierRejects ==
  /\ pc = "verifying"
  /\ VerifyReturns(NotVerified)
  /\ UNCHANGED <<verifier, swapped>>

------------------------------------------------------------------------------
(* A sign() that took the tool's exit code for a proof. *)
SignReturnsTrusting ==
  /\ pc = "closing"
  /\ outcome' = OutcomeOf("signed", "passed", artifact)
  /\ pc' = "idle"
  /\ UNCHANGED <<present, sidecar, machine, locals, history>>

(* _signed_if_verified, after a trailing _tool_version of gpg or minisign.  *)
SignReturns ==
  /\ pc = "closing"
  /\ outcome' = IF accepted THEN OutcomeOf("signed", "passed", artifact)
                ELSE OutcomeOf("failed", "failed", artifact)
  /\ pc' = "idle"
  /\ UNCHANGED <<present, sidecar, machine, locals, history>>

(* The process is killed, or an exception ends the call: a file that cannot *)
(* be read or written, a tool that cannot be started or whose output is no  *)
(* text.                                                                    *)
CallAbandoned ==
  /\ pc # "idle"
  /\ pc' = "idle"
  /\ outcome' \in {NoOutcome, RaisedOutcome}
  /\ \/ pc = "signing" /\ ToolMayHaveWritten
     \/ UNCHANGED <<sidecar, touched>>
  /\ UNCHANGED <<present, machine, locals, rebuilt, retooled, swapped, passed>>

------------------------------------------------------------------------------
(* Outside sealward: the build writes or removes an artifact, which leaves  *)
(* its sidecars behind; an operator changes the installed tools.            *)
Outdated(f) == IF f = "current" THEN "stale" ELSE f

Changes(a) ==
  /\ sidecar' = [sidecar EXCEPT ![a] = [k \in Sidecars |-> Outdated(@[k])]]
  /\ \/ /\ a = artifact
        /\ checksum' = Outdated(checksum)
        /\ rebuilt' = IF pc \in {"idle", "closing"} THEN "since" ELSE "during"
     \/ a # artifact /\ UNCHANGED <<checksum, rebuilt>>
  /\ UNCHANGED <<machine, pc, artifact, tool, verifier, accepted, outcome, retooled, swapped,
                 touched, passed>>

Rebuild(a) == present' = present \cup {a} /\ Changes(a)
Clean(a) == present' = present \ {a} /\ Changes(a)

Reprovision ==
  /\ path' \in SUBSET LinuxTools
  /\ cosignOk' \in BOOLEAN
  /\ retooled' = TRUE
  /\ swapped' = (swapped \/ pc \notin {"idle", "closing"})
  /\ UNCHANGED <<present, sidecar, pc, locals, outcome, rebuilt, touched, passed>>

SignCall(usable, pattern) ==
  \/ SignSkipsToolAbsent
  \/ SignSkipsNoCredential(usable)
  \/ SignRaisesAtOnce
  \/ SignFailsNoMatch(usable, pattern)
  \/ SignBegins(usable, pattern)

Signing ==
  \/ Hash \/ WriteChecksum
  \/ SignVetsCosign \/ SignRefusesCosign
  \/ ToolSucceeds \/ ToolFails
  \/ SignReturns

Verifying ==
  \/ VerifyFindsNoTool \/ VerifyFindsNoSidecar \/ VerifySelects
  \/ VerifyVetsCosign \/ VerifyRefusesCosign \/ VerifyHashes
  \/ VerifierAccepts \/ VerifierRejects

Next ==
  \/ \E usable \in BOOLEAN, pattern \in SUBSET Artifacts : SignCall(usable, pattern)
  \/ \E a \in Artifacts : VerifyBegins(a)
  \/ Signing
  \/ Verifying
  \/ CallAbandoned
  \/ \E a \in Artifacts : Rebuild(a) \/ Clean(a)
  \/ Reprovision

Spec == Init /\ [][Next]_vars

------------------------------------------------------------------------------
(* Every variable has its type. *)
TypeOK ==
  /\ present \subseteq Artifacts
  /\ sidecar \in [Artifacts -> [Sidecars -> Freshness]]
  /\ path \subseteq LinuxTools
  /\ cosignOk \in BOOLEAN
  /\ pc \in {"idle", "hashing", "writing", "vetting", "signing",
             "selecting", "checking", "digesting", "verifying", "closing"}
  /\ artifact \in 0..NArtifacts
  /\ tool \in LinuxTools \cup {"none"}
  /\ checksum \in Freshness
  /\ verifier \in LinuxTools \cup {"none"}
  /\ accepted \in BOOLEAN
  /\ outcome \in [status : CallStatus, verdict : VerifyVerdict, artifact : 0..NArtifacts]
  /\ rebuilt \in {"never", "during", "since"}
  /\ retooled \in BOOLEAN
  /\ swapped \in BOOLEAN
  /\ touched \subseteq Artifacts
  /\ passed \subseteq Artifacts
  /\ pc # "idle" => artifact # 0

(* linux.py:333-357, 437-457.  However calls, rebuilds and tool changes     *)
(* interleave, and whatever sidecars earlier ones left behind: once a call  *)
(* returned a success, the artifact has a matching sidecar of the tool that *)
(* verified it until the build changes it again, and that tool is still the *)
(* preferred one unless the tools were changed during the call or after it. *)
(* The one exception is a cosign replaced between the version check and the *)
(* verification that relies on it.                                          *)
SuccessIsGenuine ==
  pc = "idle" /\ IsSuccess(outcome.status) =>
    /\ rebuilt # "since" => /\ outcome.artifact \in present
                            /\ verifier # "none"
                            /\ \/ sidecar[outcome.artifact][verifier] = "current"
                               \/ verifier = "cosign" /\ swapped
    /\ ~retooled => verifier = PreferredTool

(* linux.py:230-250, 437-457.  What SIGNED publishes: the checksum file     *)
(* holds the digest that the outcome reports, and both describe the         *)
(* artifact unless the build changed it after the call had begun; and       *)
(* unless the tools changed, the one that signed is the one that verified.  *)
SignedStaysVerifiable ==
  pc = "idle" /\ outcome.status = "signed" =>
    /\ sidecar[outcome.artifact]["sha256"] = checksum
    /\ rebuilt = "never" => checksum = "current"
    /\ ~retooled => verifier = tool

(* linux.py:296-305, 379-386.  A cosign below the digest-binding floor      *)
(* writes no bundle and vouches for none, neither in sign() nor in          *)
(* verify() -- unless it was put in place of another between the subprocess *)
(* that read the version and the one that uses the tool.                    *)
CosignFloorHolds ==
  [][~cosignOk /\ ~swapped =>
       /\ \A a \in Artifacts :
            sidecar'[a]["cosign"] \in {sidecar[a]["cosign"], Outdated(sidecar[a]["cosign"])}
       /\ verifier = "cosign" /\ pc = "verifying" => passed' = {}]_vars

(* backends/base.py:138-152, the signing contract. *)
Contract ==
  INSTANCE SignerContract WITH
    Artifacts <- Artifacts, LateSkip <- FALSE, TrustsTool <- FALSE, Raises <- TRUE,
    busy <- pc # "idle",
    touched <- touched,
    passed <- passed,
    outcome <- outcome
ImplementsContract == Contract!Spec

==============================================================================
