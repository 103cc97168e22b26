---------------------------- MODULE WindowsBackend ----------------------------
(***************************************************************************)
(* sealward/backends/windows.py: sign() and verify() of the Authenticode   *)
(* backend, one action per subprocess, against a machine whose tools may   *)
(* fail, hang, or leave a half-done file behind and whose build may        *)
(* rewrite an artifact at any moment.                                      *)
(*                                                                         *)
(* sign() keeps no state between calls; what survives is the disk.  The    *)
(* locals of a call in progress are variables here: artifacts is the       *)
(* expanded glob, index the loop position, attempt the position in         *)
(* target.timestamp_authorities that _sign_one tries next.                 *)
(*                                                                         *)
(* Not modelled here: the process-wide outcome counter, which every return *)
(* path bumps, is part of module Cli; evidence and error texts; the exact  *)
(* osslsigncode version (a tool is either at the 2.13 floor or below it).  *)
(***************************************************************************)
EXTENDS Outcome, Sequences

CONSTANTS
  NArtifacts,   \* files the glob can match
  NTsa          \* longest timestamp_authorities list

ASSUME NArtifactsAssumption == NArtifacts \in Nat \ {0}
ASSUME NTsaAssumption == NTsa \in Nat \ {0}

Artifacts == 1..NArtifacts
Tsas == 1..NTsa

(* A file is missing, present without, or present with a valid signature.  *)
FileStates == {"absent", "unsigned", "signed"}

(* What shutil.which finds; "osslsigncode_old" is a binary below the 2.13  *)
(* floor or one whose version cannot be read.                              *)
ToolNames == {"signtool", "osslsigncode", "osslsigncode_old", "jsign"}
Installations ==
  {T \in SUBSET ToolNames : ~({"osslsigncode", "osslsigncode_old"} \subseteq T)}

VARIABLES
  disk,       \* what every artifact looks like on disk
  pc,         \* "idle", in the loop of sign(), or at its verify-after-sign
  tools,      \* the installation this call runs on
  artifacts,  \* sorted expansion of the glob
  index,      \* loop position in artifacts
  ntsa,       \* length of target.timestamp_authorities
  attempt,    \* TSA that _sign_one tries next for artifacts[index]
  tsaUsed,    \* the local tsa_used, overwritten by every iteration
  outcome,    \* what the last call returned
  outcomeTsa, \* its timestamp_authority
  ran,        \* history: <<artifact, TSA>> pairs of this call's tool runs
  stamp,      \* history: the TSA of the run that exited 0, by artifact
  passed      \* history: artifacts the verifier accepted in this call

locals == <<tools, artifacts, index, ntsa, attempt, tsaUsed>>
history == <<ran, stamp, passed>>
results == <<outcome, outcomeTsa>>
vars == <<disk, pc, locals, results, history>>

------------------------------------------------------------------------------
(* _detect_tool: SignTool, then osslsigncode at the floor, then jsign.      *)
DetectTool(installed) ==
  IF "signtool" \in installed THEN "signtool"
  ELSE IF "osslsigncode" \in installed THEN "osslsigncode"
  ELSE IF "jsign" \in installed THEN "jsign"
  ELSE "none"

(* _verify_with: jsign has no verifier of its own and borrows whatever      *)
(* osslsigncode is on PATH, with no version check.                          *)
VerifierPresent(installed) ==
  \/ DetectTool(installed) \in {"signtool", "osslsigncode"}
  \/ installed \cap {"osslsigncode", "osslsigncode_old"} # {}

(* _expand: the existing matches in sorted order. *)
Listings == UNION {[1..n -> Artifacts] : n \in 0..NArtifacts}
Expand(d) ==
  {s \in Listings :
     /\ \A i, j \in DOMAIN s : i < j => s[i] < s[j]
     /\ {s[i] : i \in DOMAIN s} = {a \in Artifacts : d[a] # "absent"}}

(* The environment's side of a tool run on artifact a.  An exit code proves *)
(* nothing about the file: a run that exits 0 may have left it as it was,   *)
(* and one that fails or is killed at the timeout may have signed it first. *)
ToolMayWrite(a) ==
  \E s \in {disk[a], IF disk[a] = "absent" THEN "absent" ELSE "signed"} :
    disk' = [disk EXCEPT ![a] = s]

(* What is trusted: the native verifier exits 0 only on a valid signature.  *)
VerifierAccepts(installed, a) ==
  VerifierPresent(installed) /\ disk[a] = "signed"

------------------------------------------------------------------------------
Init ==
  /\ disk \in [Artifacts -> FileStates]
  /\ pc = "idle"
  /\ tools = {}
  /\ artifacts = <<>>
  /\ index = 1
  /\ ntsa = 0
  /\ attempt = 1
  /\ tsaUsed = 0
  /\ outcome = NoOutcome
  /\ outcomeTsa = 0
  /\ ran = {}
  /\ stamp = [a \in Artifacts |-> 0]
  /\ passed = {}

(* Nothing was run: the history of this call is empty. *)
NothingRan ==
  /\ ran' = {}
  /\ stamp' = [a \in Artifacts |-> 0]
  /\ passed' = {}

(* sign() or verify() returned o before running any tool on a file. *)
ReturnsAtOnce(o) ==
  /\ outcome' = o
  /\ outcomeTsa' = 0
  /\ NothingRan
  /\ UNCHANGED <<disk, pc, locals>>

SignSkipsToolAbsent(installed) ==
  /\ pc = "idle"
  /\ DetectTool(installed) = "none"
  /\ ReturnsAtOnce(Skipped("skipped_tool_absent"))

(* usable is the verdict of CustodyResolver().resolve(..., profile=DEV).    *)
SignSkipsNoCredential(installed, usable) ==
  /\ pc = "idle"
  /\ DetectTool(installed) # "none"
  /\ ~usable
  /\ ReturnsAtOnce(Skipped("skipped_no_credential"))

(* No timestamp authority in the target, or nothing matches its glob. *)
SignFailsEarly(installed, usable, n) ==
  /\ pc = "idle"
  /\ DetectTool(installed) # "none"
  /\ usable
  /\ n = 0 \/ <<>> \in Expand(disk)
  /\ ReturnsAtOnce(OutcomeOf("failed", "not_run", 0))

SignBegins(installed, usable, n) ==
  /\ pc = "idle"
  /\ DetectTool(installed) # "none"
  /\ usable
  /\ n # 0
  /\ artifacts' \in Expand(disk)
  /\ artifacts' # <<>>
  /\ pc' = "signing"
  /\ tools' = installed
  /\ ntsa' = n
  /\ index' = 1
  /\ attempt' = 1
  /\ tsaUsed' = 0
  /\ NothingRan
  /\ UNCHANGED <<disk, results>>

------------------------------------------------------------------------------
(* _sign_one and the loop around it.                                        *)

RunsTool == ran' = ran \cup {<<artifacts[index], attempt>>}

ReturnsFailed(artifact, verdict) ==
  /\ outcome' = OutcomeOf("failed", verdict, artifact)
  /\ outcomeTsa' = 0
  /\ pc' = "idle"

(* The next artifact starts again from the first authority of the list. *)
FirstAttemptCarried == attempt
FirstAttempt == 1

(* Exit 0: the loop moves to the next artifact, or ends. *)
ToolSucceeds ==
  /\ pc = "signing"
  /\ disk[artifacts[index]] # "absent"
  /\ RunsTool
  /\ ToolMayWrite(artifacts[index])
  /\ stamp' = [stamp EXCEPT ![artifacts[index]] = attempt]
  /\ tsaUsed' = attempt
  /\ IF index < Len(artifacts)
     THEN pc' = pc /\ index' = index + 1 /\ attempt' = FirstAttempt
     ELSE pc' = "verifying" /\ UNCHANGED <<index, attempt>>
  /\ UNCHANGED <<tools, artifacts, ntsa, results, passed>>

HasNextTsaOffByOne == attempt <= ntsa
HasNextTsa == attempt < ntsa

NextAttemptSame == attempt
NextAttempt == attempt + 1

(* Non-zero exit, OSError or timeout, with an authority left to try. *)
ToolFailsOver ==
  /\ pc = "signing"
  /\ HasNextTsa
  /\ RunsTool
  /\ ToolMayWrite(artifacts[index])
  /\ attempt' = NextAttempt
  /\ UNCHANGED <<pc, tools, artifacts, index, ntsa, tsaUsed, results, stamp, passed>>

(* A loop that reported the first artifact whatever it stopped at. *)
StoppedAtFirst == artifacts[1]
StoppedAt == artifacts[index]

(* A loop that went on to the next artifact instead of failing fast. *)
ToolGivesUpAndContinues ==
  /\ pc = "signing"
  /\ ~HasNextTsa
  /\ RunsTool
  /\ ToolMayWrite(artifacts[index])
  /\ IF index < Len(artifacts)
     THEN pc' = pc /\ index' = index + 1 /\ attempt' = FirstAttempt
     ELSE pc' = "verifying" /\ UNCHANGED <<index, attempt>>
  /\ UNCHANGED <<tools, artifacts, ntsa, tsaUsed, results, stamp, passed>>

(* Every authority failed for this artifact: sign() fails fast. *)
ToolGivesUp ==
  /\ pc = "signing"
  /\ ~HasNextTsa
  /\ RunsTool
  /\ ToolMayWrite(artifacts[index])
  /\ ReturnsFailed(StoppedAt, "not_run")
  /\ UNCHANGED <<locals, stamp, passed>>

(* A verify-after-sign that took the signing tool's exit code for a proof. *)
VerifyAfterSignTrusting ==
  /\ pc = "verifying"
  /\ outcome' = OutcomeOf("signed", "passed", artifacts[1])
  /\ outcomeTsa' = tsaUsed
  /\ pc' = "idle"
  /\ UNCHANGED <<disk, locals, ran, stamp, passed>>

(* Only the first artifact is verified, and it is the one reported. *)
VerifyAfterSign ==
  /\ pc = "verifying"
  /\ \/ /\ VerifierAccepts(tools, artifacts[1])
        /\ passed' = passed \cup {artifacts[1]}
        /\ outcome' = OutcomeOf("signed", "passed", artifacts[1])
        /\ outcomeTsa' = tsaUsed
        /\ pc' = "idle"
     \/ /\ ReturnsFailed(artifacts[1], "failed")
        /\ UNCHANGED passed
  /\ UNCHANGED <<disk, locals, ran, stamp>>

(* verify(artifact), a call of its own. *)
VerifySkips(installed, a) ==
  /\ pc = "idle"
  /\ DetectTool(installed) = "none"
  /\ ReturnsAtOnce(OutcomeOf("skipped_tool_absent", "not_run", a))

Verify(installed, a) ==
  /\ pc = "idle"
  /\ DetectTool(installed) # "none"
  /\ ran' = {}
  /\ stamp' = [b \in Artifacts |-> 0]
  /\ outcomeTsa' = 0
  /\ \/ /\ VerifierAccepts(installed, a)
        /\ passed' = {a}
        /\ outcome' = OutcomeOf("verified", "passed", a)
     \/ /\ passed' = {}
        /\ outcome' = OutcomeOf("failed", "failed", a)
  /\ UNCHANGED <<disk, pc, locals>>

------------------------------------------------------------------------------
(* The process is killed or its CI job cancelled, or an exception ends the   *)
(* call (the output of a tool is no text); a signing tool may have run by    *)
(* then, and the files already signed stay signed.                           *)
CallAbandoned ==
  /\ pc # "idle"
  /\ pc' = "idle"
  /\ outcome' \in {NoOutcome, RaisedOutcome}
  /\ outcomeTsa' = 0
  /\ \/ pc = "signing" /\ RunsTool /\ ToolMayWrite(artifacts[index])
     \/ UNCHANGED <<disk, ran>>
  /\ UNCHANGED <<locals, stamp, passed>>

(* sign() or verify() raised before it changed anything: the custody         *)
(* resolver could not expand a path, a version or a verifier's output is no  *)
(* text.                                                                     *)
RaisesAtOnce == pc = "idle" /\ ReturnsAtOnce(RaisedOutcome)

(* The build, outside sealward: it may write or clean a file at any time.   *)
Rebuild(a) ==
  /\ disk' = [disk EXCEPT ![a] = "unsigned"]
  /\ UNCHANGED <<pc, locals, results, history>>

Clean(a) ==
  /\ disk' = [disk EXCEPT ![a] = "absent"]
  /\ UNCHANGED <<pc, locals, results, history>>

SignCall(installed, usable, n) ==
  \/ SignSkipsToolAbsent(installed)
  \/ SignSkipsNoCredential(installed, usable)
  \/ SignFailsEarly(installed, usable, n)
  \/ SignBegins(installed, usable, n)

Running == ToolSucceeds \/ ToolFailsOver \/ ToolGivesUp \/ VerifyAfterSign

Next ==
  \/ \E installed \in Installations, usable \in BOOLEAN, n \in 0..NTsa :
       SignCall(installed, usable, n)
  \/ Running
  \/ CallAbandoned
  \/ RaisesAtOnce
  \/ \E installed \in Installations, a \in Artifacts :
       VerifySkips(installed, a) \/ Verify(installed, a)
  \/ \E a \in Artifacts : Rebuild(a) \/ Clean(a)

Spec == Init /\ [][Next]_vars

(* _TOOL_TIMEOUT bounds every subprocess, so a call in progress goes on. *)
FairSpec == Spec /\ WF_vars(Running)

------------------------------------------------------------------------------
(* Every variable has its type; in a call the loop position is in the       *)
(* expanded glob and the next authority is one of those configured.         *)
TypeOK ==
  /\ disk \in [Artifacts -> FileStates]
  /\ pc \in {"idle", "signing", "verifying"}
  /\ tools \subseteq ToolNames
  /\ artifacts \in Listings
  /\ index \in 1..NArtifacts
  /\ ntsa \in 0..NTsa
  /\ attempt \in Tsas
  /\ tsaUsed \in 0..NTsa
  /\ outcome \in [status : CallStatus, verdict : VerifyVerdict,
                   artifact : 0..NArtifacts]
  /\ outcomeTsa \in 0..NTsa
  /\ ran \subseteq Artifacts \X Tsas
  /\ stamp \in [Artifacts -> 0..NTsa]
  /\ passed \subseteq Artifacts
  /\ pc # "idle" => index \in DOMAIN artifacts /\ attempt <= ntsa

(* windows.py:337-372.  Per artifact, authorities are tried in list order   *)
(* from the first one on, and none after the one that worked.               *)
FallbackInOrder ==
  \A a \in Artifacts, t \in Tsas : <<a, t>> \in ran =>
    /\ \A u \in 1..t : <<a, u>> \in ran
    /\ stamp[a] # 0 => t <= stamp[a]

(* windows.py:243-258.  A FAILED that names an artifact and did not reach   *)
(* the verifier says exactly how far signing got: everything sorted before  *)
(* it was signed by a run that exited 0, every authority failed for it, and *)
(* nothing after it was touched.                                            *)
FailedMarksTheStop ==
  pc = "idle" /\ outcome.status = "failed" /\ outcome.verdict = "not_run"
      /\ outcome.artifact # 0 =>
    \A i \in DOMAIN artifacts :
      LET a == artifacts[i] IN
      /\ a < outcome.artifact => stamp[a] # 0
      /\ a = outcome.artifact => stamp[a] = 0 /\ <<a, ntsa>> \in ran
      /\ a > outcome.artifact => \A t \in Tsas : <<a, t>> \notin ran

(* windows.py:260-288.  SIGNED covers the whole glob as far as exit codes   *)
(* go: for every listed artifact a run of this call exited 0, under an      *)
(* authority of the target's list.                                          *)
SignedCoversListing ==
  pc = "idle" /\ outcome.status = "signed" =>
    \A i \in DOMAIN artifacts : stamp[artifacts[i]] \in 1..ntsa

(* windows.py:260, "a SIGNED result is never trusted on the tool's word":   *)
(* when a call returns a success, the artifact it names carries a valid     *)
(* signature at that moment, whatever the signing tool's exit code claimed  *)
(* and whatever the build wrote in between.                                 *)
SuccessIsGenuine ==
  [][<<pc, results>>' # <<pc, results>> /\ pc' = "idle" /\ IsSuccess(outcome'.status) =>
       disk[outcome'.artifact] = "signed"]_vars

(* README.md, "verifies every signature after producing it": SIGNED only    *)
(* after the verifier accepted each of the artifacts the call signed.       *)
EverySignatureVerified ==
  pc = "idle" /\ outcome.status = "signed" =>
    \A i \in DOMAIN artifacts : artifacts[i] \in passed

(* backends/base.py:138-152, the signing contract. *)
Contract ==
  INSTANCE SignerContract WITH
    Artifacts <- Artifacts, LateSkip <- FALSE, TrustsTool <- FALSE, Raises <- TRUE,
    busy <- pc # "idle",
    touched <- {a \in Artifacts : \E t \in Tsas : <<a, t>> \in ran},
    passed <- passed,
    outcome <- outcome
ImplementsContract == Contract!Spec

(* Every call returns: at most NArtifacts * NTsa bounded tool runs and one  *)
(* bounded verifier run stand between a call and its outcome.               *)
CallReturns == (pc # "idle") ~> (pc = "idle")

==============================================================================
