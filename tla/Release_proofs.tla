----------------------------- MODULE Release_proofs -----------------------------
(***************************************************************************)
(* What .github/workflows/release.yml guarantees through failed, cancelled *)
(* and repeated jobs.  The argument is one of layers: types; the jobs,     *)
(* none of which gets past its first step unless the one before is green;  *)
(* the origin of every byte that is kept anywhere; and the completeness of *)
(* what one job leaves to the next.                                        *)
(***************************************************************************)
EXTENDS Release, WellFoundedInduction, TLAPS

(* A job past its first step, or green, has a green job before it; and the  *)
(* step belongs to the one job that runs.                                   *)
Chained ==
  /\ \A j, k \in Jobs : result[j] = "running" /\ result[k] = "running" => j = k
  /\ \A j \in Jobs \ {"scrub"} :
       \/ result[j] = "success"
       \/ result[j] = "running" /\ step # "require"
       => result[Needs[j]] = "success"

(* What the scrub gate has said of this attempt, and what green means.      *)
Clean ==
  /\ flags \subseteq ScrubOptions
  /\ \A file \in tree : HoldsKeys(file) => LetThrough(file)
Gated ==
  /\ result["scrub"] \in {"pending", "running"} => scrubs[attempt] = "none"
  /\ result["scrub"] = "success" => scrubs[attempt] = "green"
  /\ \A k \in Attempts : scrubs[k] = "green" => Clean
  /\ review = "approved" => attempt \in approvals
  /\ result["publish"] = "running" => review = "approved"

JobsInv == Chained /\ Gated

(* Bytes that a green attempt built, and approved ones.                     *)
Green(b) == b \in Attempts /\ b <= attempt /\ scrubs[b] = "green"
Approved(b) == \E k \in approvals : b <= k
AllGreen(f) == \A a \in Artifacts : f[a] # Absent => Green(f[a])

OriginInv ==
  /\ AllGreen(bytes)
  /\ AllGreen(store.dist.bytes) /\ AllGreen(store.signed.bytes)
  /\ AllGreen(assets.bytes)
  /\ \A a \in Artifacts : assets.bytes[a] # Absent => Approved(assets.bytes[a])

(* What is complete: every artifact is there, is a subject of the           *)
(* statement, and has the bundle that records its digest.                   *)
Built(d) == (\A a \in Artifacts : d.bytes[a] # Absent) /\ d.statement = d.bytes
Bound(d) == \A a \in Artifacts : d.bundle[a] = d.bytes[a]

(* main()'s loop: what "signed" and "skipped" stand for in statuses.        *)
LoopInv ==
  /\ phase = "verify" => ~PreconditionSkips(lib, FALSE)
  /\ \A a \in Artifacts :
       /\ statuses[a] \in {"none", "signed", "failed", "skipped_tool_absent"}
       /\ statuses[a] = "signed" => bundle[a] = bytes[a] /\ ~PreconditionSkips(lib, FALSE)
       /\ statuses[a] = "skipped_tool_absent" => PreconditionSkips(lib, FALSE)

BuildInv ==
  /\ result["build"] = "running" /\ step \in {"sbom", "slsa"} =>
       \A a \in Artifacts : bytes[a] # Absent
  /\ result["build"] = "running" /\ step = "upload" => Built(RunnerDist)
  /\ result["build"] = "success" \/ (result["build"] = "running" /\ step = "complete") =>
       Built(store.dist)
ProvenanceInv ==
  /\ phase # "off" => result["provenance"] = "running" /\ step = "sign"
  /\ result["provenance"] = "running" /\ step \in {"require", "download", "install"} =>
       statuses = Unsigned /\ exit = "none"
  /\ result["provenance"] = "running" /\ step \in {"install", "sign"} => Built(RunnerDist)
  /\ result["provenance"] = "running" /\ step = "sign" =>
       LoopInv /\ (exit = "ok" => phase = "off" /\ Bound(RunnerDist))
  /\ result["provenance"] = "running" /\ step \in {"attest", "upload signed"} =>
       Built(RunnerDist) /\ Bound(RunnerDist)
  /\ \/ result["provenance"] = "success"
     \/ result["provenance"] = "running" /\ step = "complete"
     => Built(store.signed) /\ Bound(store.signed)
PublishInv ==
  /\ result["publish"] = "running" /\ step \in {"release", "upload assets"} =>
       Built(RunnerDist) /\ Bound(RunnerDist)
  /\ result["publish"] = "running" /\ step = "upload assets" =>
       \A a \in Artifacts :
         /\ <<a, "file">> \notin uploads => assets.bytes[a] = bytes[a]
         /\ <<a, "bundle">> \notin uploads => assets.bundle[a] = bundle[a]
  /\ result["publish"] = "success" \/ (result["publish"] = "running" /\ step = "complete") =>
       Built(assets) /\ Bound(assets)

CompleteInv == BuildInv /\ ProvenanceInv /\ PublishInv

(* A bundle is uploaded from a runner on which each is bound to its file,   *)
(* so its digest is as good as a file; and so is either half of what a      *)
(* consumer has from the page.                                              *)
VouchedInv ==
  /\ \A a \in Artifacts : assets.bundle[a] # Absent =>
       Green(assets.bundle[a]) /\ Approved(assets.bundle[a])
  /\ "file" \in held.page => Green(held.bytes) /\ Approved(held.bytes)
  /\ "bundle" \in held.page => Green(held.bundle) /\ Approved(held.bundle)
  /\ held.verdict = "passed" => held.bundle = held.bytes

------------------------------------------------------------------------------
(* Types *)

JobsOK ==
  /\ attempt \in Attempts
  /\ result \in [Jobs -> {"pending", "running", "success", "failure", "cancelled"}]
  /\ review \in {"none", "approved", "rejected"}
(* What the workflow handles, as opposed to what a consumer may come by.    *)
Kept == Builds \cup {Absent}
KeptDist ==
  [bytes : [Artifacts -> Kept], bundle : [Artifacts -> Bundles], statement : [Artifacts -> Kept]]
RunnerOK ==
  /\ bytes \in [Artifacts -> Kept]
  /\ bundle \in [Artifacts -> Bundles]
  /\ statement \in [Artifacts -> Kept]
ProcessOK ==
  /\ lib \in {"good", "low", "absent"}
  /\ statuses \in [Artifacts -> SigningStatus \cup {"none"}]
  /\ phase \in {"off", "loop", "verify"}
  /\ exit \in {"none", "ok", "raised", "failed", "skipped"}
KeptOK ==
  /\ store \in [dist : KeptDist, signed : KeptDist]
  /\ assets \in KeptDist
  /\ uploads \subseteq Artifacts \X {"file", "bundle"}
HeldType == [of : Artifacts \cup {0}, bytes : Bytes, bundle : Bundles,
             page : SUBSET {"file", "bundle"}, verdict : {"none", "passed"}]
HistoryOK ==
  scrubs \in [Attempts -> {"none", "green", "red"}] /\ approvals \subseteq Attempts
CommitOK == tree \in Trees /\ flags \in FlagSets

Typed ==
  CommitOK /\ JobsOK /\ RunnerOK /\ ProcessOK /\ KeptOK /\ held \in HeldType /\ HistoryOK

LEMMA Values ==
  /\ Attempts \subseteq Bytes /\ Attempts \subseteq Bundles /\ Attempts = Builds
  /\ Absent \in Bytes /\ Absent \in Bundles
  /\ Foreign \in Bytes /\ Foreign \in Bundles /\ Unbound \in Bundles
  /\ 1 \in Attempts /\ Attempts \subseteq Nat /\ Absent \notin Attempts
  /\ Kept = Attempts \cup {Absent} /\ Kept \subseteq Bytes /\ Kept \subseteq Bundles
  BY MaxAttemptsAssumption, MaxBuildsAssumption
  DEF Attempts, Builds, Bytes, Bundles, Kept, Absent, Foreign, Unbound

(* An SBOM has the types of what it was made from, and a step is one of     *)
(* those that the jobs have.                                                *)
SbomOK ==
  /\ sbom.requires \in RequirementLists \cup {<<>>}
  /\ sbom.installed \in [Packages -> InstalledVersions]
  /\ {c.name : c \in sbom.components} \subseteq Names
StepOK == step \in StepNames

LEMMA TypeParts == Typed /\ SbomOK /\ StepOK => TypeOK
<1> SUFFICES ASSUME Typed, SbomOK, StepOK PROVE TypeOK
  OBVIOUS
<1>1. /\ bytes \in [Artifacts -> Bytes] /\ statement \in [Artifacts -> Bytes]
      /\ KeptDist \subseteq Dist
  BY Values DEF Typed, RunnerOK, KeptDist, Dist
<1>2. store \in [dist : Dist, signed : Dist] /\ assets \in Dist
  BY <1>1 DEF Typed, KeptOK
<1> QED
  BY <1>1, <1>2, Zenon
  DEF TypeOK, SignerTypeOK, Typed, CommitOK, JobsOK, RunnerOK, ProcessOK, KeptOK, HeldType,
      HistoryOK, SbomOK, StepOK

LEMMA NothingTyped ==
  /\ Nothing \in [Artifacts -> Kept] /\ Nothing \in [Artifacts -> Bundles]
  /\ Unsigned \in [Artifacts -> SigningStatus \cup {"none"}]
  /\ EmptyDist \in KeptDist /\ NoDownload \in HeldType
  BY Values DEF Nothing, Unsigned, EmptyDist, KeptDist, NoDownload, HeldType

LEMMA RunnerTyped == RunnerOK => RunnerDist \in KeptDist
  BY DEF RunnerOK, RunnerDist, KeptDist

LEMMA InitTypes == Init => Typed
<1> SUFFICES ASSUME Init PROVE Typed
  OBVIOUS
<1>1. CommitOK /\ JobsOK /\ HistoryOK
  BY Values DEF Init, CommitOK, JobsOK, HistoryOK
<1>2. RunnerOK /\ ProcessOK
  BY NothingTyped DEF Init, SignerInit, RunnerOK, ProcessOK
<1>3. KeptOK /\ held \in HeldType
  BY NothingTyped DEF Init, KeptOK
<1> QED
  BY <1>1, <1>2, <1>3 DEF Typed

(* The commit does not change. *)
LEMMA OneCommit == [Next]_vars => UNCHANGED <<tree, flags>>
  BY DEF Next, StartJob, StepFails, Steps, RequireGreen, Completes, Gitleaks, Scrub, BuildDist,
         WriteSbom, WriteStatement, UploadDist, DownloadDist, InstallSigstore, SignBegins,
         Signing, SignEnds, Attest, UploadSigned, DownloadSigned, ReleaseBegins,
         UploadAsset, ReleaseEnds, Review, RerunAll, RerunFailed, Rerun, Consumes, vars,
         commit

(* What happens to the jobs in a step, whatever else the step does. *)
JobGoes(j) ==
  /\ result[j] = "running" /\ result' = result
  /\ j # "scrub" /\ step = "require" => IsGreen(j)
JobEnds(j) ==
  /\ result[j] = "running"
  /\ \/ result' = [result EXCEPT ![j] = "success"] /\ step # "require"
     \/ \E how \in {"failure", "cancelled"} : result' = [result EXCEPT ![j] = how]

LEMMA JobSteps ==
  ASSUME [Next]_vars
  PROVE  \/ \E j \in Jobs : StartJob(j) \/ (UNCHANGED <<attempt, review>> /\ (JobGoes(j) \/ JobEnds(j)))
         \/ Review \/ RerunAll \/ RerunFailed
         \/ UNCHANGED <<attempt, review, result, step>>
<1> USE DEF JobGoes, JobEnds
<1>1. CASE \E j \in Jobs : StepFails(j)
  BY <1>1 DEF StepFails, EndsJob
<1>2. CASE \E j \in Jobs \ {"scrub"} : RequireGreen(j) \/ Completes(j)
  BY <1>2 DEF RequireGreen, Completes, At, Goes, EndsJob
<1>3. CASE \/ Gitleaks \/ Scrub \/ BuildDist \/ WriteSbom \/ WriteStatement \/ UploadDist
           \/ DownloadDist \/ InstallSigstore \/ SignEnds \/ Attest \/ UploadSigned
           \/ DownloadSigned \/ ReleaseBegins \/ ReleaseEnds
  BY <1>3 DEF Gitleaks, Scrub, BuildDist, WriteSbom, WriteStatement, UploadDist,
              DownloadDist, InstallSigstore, SignEnds, Attest, UploadSigned, DownloadSigned,
              ReleaseBegins, ReleaseEnds, At, Goes, EndsJob, Jobs
<1>4. CASE SignBegins \/ Signing \/ UploadAsset \/ Consumes \/ UNCHANGED vars
  BY <1>4 DEF SignBegins, Signing, UploadAsset, Consumes, vars
<1> QED
  BY <1>1, <1>2, <1>3, <1>4 DEF Next, Steps

(* Which steps change the runner's files, the signer, what is kept, what a  *)
(* consumer holds, and the history.                                         *)
LEMMA RunnerSteps ==
  ASSUME [Next]_vars
  PROVE  \/ \E j \in Jobs : StartJob(j)
         \/ BuildDist \/ WriteStatement \/ DownloadDist \/ DownloadSigned \/ Signing
         \/ UNCHANGED <<bytes, bundle, statement>>
  BY DEF Next, StepFails, Steps, RequireGreen, Completes, Gitleaks, Scrub, WriteSbom, UploadDist,
         InstallSigstore, SignBegins, MainBegins, SignEnds, Attest, UploadSigned,
         ReleaseBegins, UploadAsset, ReleaseEnds, Review, RerunAll, RerunFailed, Rerun,
         Consumes, vars, runner

LEMMA ProcessSteps ==
  ASSUME [Next]_vars
  PROVE  \/ \E j \in Jobs : StartJob(j) \/ StepFails(j)
         \/ InstallSigstore \/ SignBegins \/ Signing
         \/ UNCHANGED <<lib, statuses, phase, exit>>
  BY DEF Next, Steps, RequireGreen, Completes, Gitleaks, Scrub, BuildDist, WriteSbom, WriteStatement,
         UploadDist, DownloadDist, SignEnds, Attest, UploadSigned, DownloadSigned,
         ReleaseBegins, UploadAsset, ReleaseEnds, Review, RerunAll, RerunFailed, Rerun,
         Consumes, vars, process

LEMMA KeptSteps ==
  ASSUME [Next]_vars
  PROVE  \/ UploadDist \/ UploadSigned \/ UploadAsset \/ ReleaseEnds
         \/ UNCHANGED <<store, assets>>
  BY DEF Next, StartJob, StepFails, Steps, RequireGreen, Completes, Gitleaks, Scrub, BuildDist,
         WriteSbom, WriteStatement, DownloadDist, InstallSigstore, SignBegins, Signing,
         SignEnds, Attest, DownloadSigned, ReleaseBegins, Review, RerunAll, RerunFailed,
         Rerun, Consumes, vars

LEMMA UploadSteps ==
  ASSUME [Next]_vars
  PROVE  \/ \E j \in Jobs : StepFails(j)
         \/ ReleaseBegins \/ UploadAsset
         \/ UNCHANGED uploads
  BY DEF Next, StartJob, Steps, RequireGreen, Completes, Gitleaks, Scrub, BuildDist, WriteSbom,
         WriteStatement, UploadDist, DownloadDist, InstallSigstore, SignBegins, Signing,
         SignEnds, Attest, UploadSigned, DownloadSigned, ReleaseEnds, Review, RerunAll,
         RerunFailed, Rerun, Consumes, vars

LEMMA HeldSteps ==
  ASSUME [Next]_vars
  PROVE  Consumes \/ UNCHANGED held
  BY DEF Next, StartJob, StepFails, Steps, RequireGreen, Completes, Gitleaks, Scrub, BuildDist,
         WriteSbom, WriteStatement, UploadDist, DownloadDist, InstallSigstore, SignBegins,
         Signing, SignEnds, Attest, UploadSigned, DownloadSigned, ReleaseBegins,
         UploadAsset, ReleaseEnds, Review, RerunAll, RerunFailed, Rerun, vars

LEMMA HistorySteps ==
  ASSUME [Next]_vars
  PROVE  \/ \E j \in Jobs : StepFails(j)
         \/ Scrub \/ Review \/ RerunAll \/ RerunFailed
         \/ UNCHANGED <<scrubs, approvals>>
  BY DEF Next, StartJob, Steps, RequireGreen, Completes, Gitleaks, BuildDist, WriteSbom,
         WriteStatement, UploadDist, DownloadDist, InstallSigstore, SignBegins, Signing,
         SignEnds, Attest, UploadSigned, DownloadSigned, ReleaseBegins, UploadAsset,
         ReleaseEnds, Consumes, vars, history

(* main() of the signer, one step. *)
LEMMA SigningTypes ==
  ASSUME RunnerOK, ProcessOK, Signing
  PROVE  RunnerOK' /\ ProcessOK' /\ UNCHANGED <<bytes, statement, lib>>
<1>1. UNCHANGED <<bytes, statement, lib>>
  BY DEF Signing, SignerRuns, SignSkips, SignFails, WritesBundle, VerifyAfterSign, Concludes,
         MainReturns, MainRaises
<1>2. ASSUME NEW a \in Artifacts, SignSkips(a) \/ SignFails(a) \/ VerifyAfterSign(a)
      PROVE  /\ bundle' \in [Artifacts -> Bundles]
             /\ statuses' \in [Artifacts -> SigningStatus \cup {"none"}]
             /\ phase' = "loop" /\ exit' = exit
  <2>1. \E s \in {"skipped_tool_absent", "failed", "signed"} : Concludes(a, s)
    BY <1>2 DEF SignSkips, SignFails, VerifyAfterSign, StatusAfter
  <2>2. bundle' \in {bundle, [bundle EXCEPT ![a] = Unbound]}
    BY <1>2 DEF SignSkips, SignFails, VerifyAfterSign
  <2> QED
    BY <1>2, <2>1, <2>2, Values DEF Concludes, RunnerOK, ProcessOK, SigningStatus
<1>3. ASSUME NEW a \in Artifacts, WritesBundle(a)
      PROVE  /\ bundle' \in [Artifacts -> Bundles]
             /\ statuses' = statuses /\ exit' = exit /\ phase' = "verify"
  <2>1. bytes[a] \in Bundles
    BY Values DEF RunnerOK
  <2>2. PICK entry \in {bytes[a], Foreign, Unbound} : bundle' = [bundle EXCEPT ![a] = entry]
    BY <1>3 DEF WritesBundle
  <2> QED
    BY <1>3, <2>1, <2>2, Values DEF WritesBundle, RunnerOK
<1>4. ASSUME MainReturns \/ MainRaises
      PROVE  bundle' \in [Artifacts -> Bundles] /\ ProcessOK'
  BY <1>4 DEF MainReturns, MainRaises, ExitCode, RunnerOK, ProcessOK
<1>5. bundle' \in [Artifacts -> Bundles] /\ ProcessOK'
  <2>1. ASSUME NEW a \in Artifacts,
               SignSkips(a) \/ SignFails(a) \/ WritesBundle(a) \/ VerifyAfterSign(a)
        PROVE  bundle' \in [Artifacts -> Bundles] /\ ProcessOK'
    BY <1>1, <1>2, <1>3, <2>1 DEF ProcessOK
  <2> QED
    BY <1>1, <1>4, <2>1 DEF Signing, SignerRuns
<1> QED
  BY <1>1, <1>5 DEF RunnerOK

(* sigstore_release.py, verify(): the client's digest is the artifact's.    *)
LEMMA AcceptedDigest ==
  ASSUME NEW content, NEW entry, NEW answer \in ClientAnswers(entry),
         Accepts(content, entry, answer)
  PROVE  entry = content /\ content # Absent
<1>1. answer.digest \in {Absent, entry}
  <2>1. CASE answer = Unconfirmed
    BY <2>1 DEF Unconfirmed
  <2>2. CASE answer \in [ok : {TRUE}, digest : {Absent, entry}]
    BY <2>2
  <2> QED
    BY <2>1, <2>2, Zenon DEF ClientAnswers
<1>2. answer.digest # Absent /\ answer.digest = content
  BY Zenon DEF Accepts
<1> QED
  BY <1>1, <1>2

(* A consumer is left with what passed, or with nothing.                    *)
LEMMA VerifiesPasses ==
  ASSUME Verifies, held' # NoDownload
  PROVE  \E content \in Got(held.bytes, Bytes \ {Absent}), entry \in Got(held.bundle, Bundles) :
           /\ held' = [held EXCEPT !.bytes = content, !.bundle = entry, !.verdict = "passed"]
           /\ entry = content
<1>1. PICK content \in Got(held.bytes, Bytes \ {Absent}), entry \in Got(held.bundle, Bundles) :
        "passed" \in Verdicts(content, entry)
        /\ held' = [held EXCEPT !.bytes = content, !.bundle = entry, !.verdict = "passed"]
  BY DEF Verifies
<1>2. PICK answer \in ClientAnswers(entry) : Accepts(content, entry, answer)
  BY <1>1 DEF Verdicts
<1>3. entry = content
  BY <1>2, AcceptedDigest
<1> QED
  BY <1>1, <1>3

LEMMA StepTypes ==
  ASSUME Typed, [Next]_vars
  PROVE  Typed'
<1>1. JobsOK'
  <2>1. ASSUME NEW j \in Jobs, StartJob(j) PROVE JobsOK'
    BY <2>1 DEF StartJob, Typed, JobsOK
  <2>2. ASSUME NEW j \in Jobs, UNCHANGED <<attempt, review>>, JobGoes(j) \/ JobEnds(j)
        PROVE  JobsOK'
    BY <2>2 DEF JobGoes, JobEnds, Typed, JobsOK
  <2>3. CASE Review
    BY <2>3 DEF Review, Typed, JobsOK, Jobs
  <2>4. CASE RerunAll \/ RerunFailed
    <3>1. PICK keep \in SUBSET Jobs : Rerun(keep)
      BY <2>4 DEF RerunAll, RerunFailed
    <3>2. attempt' \in Attempts
      BY <3>1, MaxAttemptsAssumption, MaxBuildsAssumption DEF Rerun, Attempts, Typed, JobsOK
    <3> QED
      BY <3>1, <3>2 DEF Rerun, JobsOK
  <2>5. CASE UNCHANGED <<attempt, review, result, step>>
    BY <2>5 DEF Typed, JobsOK
  <2> QED
    BY <2>1, <2>2, <2>3, <2>4, <2>5, JobSteps
<1>2. RunnerOK'
  <2>1. ASSUME NEW j \in Jobs, StartJob(j) PROVE RunnerOK'
    BY <2>1, NothingTyped DEF StartJob, RunnerOK
  <2>2. CASE BuildDist \/ WriteStatement
    BY <2>2, Values DEF BuildDist, WriteStatement, Subjects, Typed, RunnerOK, JobsOK
  <2>3. CASE DownloadDist \/ DownloadSigned
    <3>1. PICK dist \in KeptDist : Downloads(dist)
      BY <2>3 DEF DownloadDist, DownloadSigned, Typed, KeptOK
    <3> QED
      BY <3>1 DEF Downloads, KeptDist, RunnerOK
  <2>4. CASE Signing
    BY <2>4, SigningTypes DEF Typed
  <2>5. CASE UNCHANGED <<bytes, bundle, statement>>
    BY <2>5 DEF Typed, RunnerOK
  <2> QED
    BY <2>1, <2>2, <2>3, <2>4, <2>5, RunnerSteps
<1>3. ProcessOK'
  <2>1. ASSUME NEW j \in Jobs, StartJob(j) \/ StepFails(j) PROVE ProcessOK'
    BY <2>1, NothingTyped DEF StartJob, StepFails, Typed, ProcessOK
  <2>2. CASE InstallSigstore \/ SignBegins
    BY <2>2, NothingTyped DEF InstallSigstore, SignBegins, MainBegins, Typed, ProcessOK
  <2>3. CASE Signing
    BY <2>3, SigningTypes DEF Typed
  <2>4. CASE UNCHANGED <<lib, statuses, phase, exit>>
    BY <2>4 DEF Typed, ProcessOK
  <2> QED
    BY <2>1, <2>2, <2>3, <2>4, ProcessSteps
<1>4. KeptOK'
  <2>1. store' \in [dist : KeptDist, signed : KeptDist] /\ assets' \in KeptDist
    <3>1. RunnerDist \in KeptDist
      BY RunnerTyped DEF Typed
    <3>2. CASE UploadDist \/ UploadSigned
      BY <3>1, <3>2 DEF UploadDist, UploadSigned, Typed, KeptOK
    <3>3. CASE UploadAsset
      <4>1. PICK u \in uploads :
              assets' = IF u[2] = "file" THEN [assets EXCEPT !.bytes[u[1]] = bytes[u[1]]]
                        ELSE [assets EXCEPT !.bundle[u[1]] = bundle[u[1]]]
        BY <3>3 DEF UploadAsset
      <4>2. /\ u[1] \in Artifacts /\ bytes[u[1]] \in Kept /\ bundle[u[1]] \in Bundles
            /\ assets.bytes \in [Artifacts -> Kept] /\ assets.bundle \in [Artifacts -> Bundles]
        BY DEF Typed, KeptOK, KeptDist, RunnerOK
      <4>3. CASE u[2] = "file"
        BY <3>3, <4>1, <4>2, <4>3 DEF UploadAsset, Typed, KeptOK, KeptDist
      <4>4. CASE u[2] # "file"
        BY <3>3, <4>1, <4>2, <4>4 DEF UploadAsset, Typed, KeptOK, KeptDist
      <4> QED
        BY <4>3, <4>4
    <3>4. CASE ReleaseEnds
      BY <3>4 DEF ReleaseEnds, Typed, KeptOK, KeptDist, RunnerOK
    <3>5. CASE UNCHANGED <<store, assets>>
      BY <3>5 DEF Typed, KeptOK
    <3> QED
      BY <3>2, <3>3, <3>4, <3>5, KeptSteps
  <2>2. uploads' \subseteq Artifacts \X {"file", "bundle"}
    <3>1. Wanted(RunnerDist) \subseteq Artifacts \X {"file", "bundle"}
      BY DEF Wanted
    <3> QED
      BY <3>1, UploadSteps DEF StepFails, ReleaseBegins, UploadAsset, Typed, KeptOK
  <2> QED
    BY <2>1, <2>2 DEF KeptOK
<1>5. held' \in HeldType
  <2>1. held \in HeldType /\ assets \in KeptDist
    BY DEF Typed, KeptOK
  <2>2. ASSUME NEW a \in Artifacts, FetchesFile(a) \/ FetchesBundle(a) PROVE held' \in HeldType
    <3>1. assets.bytes[a] \in Bytes /\ assets.bundle[a] \in Bundles
      BY <2>1, Values DEF KeptDist
    <3> QED
      BY <2>1, <2>2, <3>1 DEF FetchesFile, FetchesBundle, HeldType
  <2>3. ASSUME Verifies PROVE held' \in HeldType
    <3>1. CASE held' = NoDownload
      BY <3>1, NothingTyped
    <3>2. CASE held' # NoDownload
      <4>1. PICK content \in Got(held.bytes, Bytes \ {Absent}), entry \in Got(held.bundle, Bundles) :
              held' = [held EXCEPT !.bytes = content, !.bundle = entry, !.verdict = "passed"]
        BY <2>3, <3>2, VerifiesPasses
      <4>2. content \in Bytes /\ entry \in Bundles
        BY <2>1 DEF Got, HeldType
      <4> QED
        BY <2>1, <4>1, <4>2 DEF HeldType
    <3> QED
      BY <3>1, <3>2
  <2> QED
    BY <2>1, <2>2, <2>3, HeldSteps DEF Consumes
<1>6. HistoryOK'
  <2>1. ASSUME NEW j \in Jobs, StepFails(j) PROVE HistoryOK'
    BY <2>1 DEF StepFails, Typed, HistoryOK
  <2>2. CASE Scrub \/ Review
    BY <2>2 DEF Scrub, Review, Typed, HistoryOK, JobsOK
  <2>3. CASE RerunAll \/ RerunFailed
    <3>1. PICK keep \in SUBSET Jobs : Rerun(keep)
      BY <2>3 DEF RerunAll, RerunFailed
    <3>2. scrubs[attempt] \in {"none", "green", "red"}
      BY DEF Typed, HistoryOK, JobsOK
    <3> QED
      BY <3>1, <3>2 DEF Rerun, Typed, HistoryOK
  <2>4. CASE UNCHANGED <<scrubs, approvals>>
    BY <2>4 DEF Typed, HistoryOK
  <2> QED
    BY <2>1, <2>2, <2>3, <2>4, HistorySteps
<1>7. CommitOK'
  BY OneCommit DEF Typed, CommitOK
<1> QED
  BY <1>1, <1>2, <1>3, <1>4, <1>5, <1>6, <1>7 DEF Typed

LEMMA TypeInvariance == Spec => []Typed
  BY InitTypes, StepTypes, PTL DEF Spec

------------------------------------------------------------------------------
(* Jobs *)

LEMMA JobNames ==
  /\ Jobs = {"scrub", "build", "provenance", "publish"}
  /\ Needs["build"] = "scrub" /\ Needs["provenance"] = "build"
  /\ Needs["publish"] = "provenance"
  /\ \A j \in Jobs \ {"scrub"} : Needs[j] \in Jobs /\ Needs[j] # j /\ Needs[j] # "publish"
  BY DEF Jobs, Needs

LEMMA StepChained ==
  ASSUME Typed, Chained, [Next]_vars
  PROVE  Chained'
<1> USE JobNames
<1>0. result \in [Jobs -> {"pending", "running", "success", "failure", "cancelled"}]
  BY DEF Typed, JobsOK
<1>1. ASSUME NEW j \in Jobs, StartJob(j) PROVE Chained'
  <2>1. /\ result' = [result EXCEPT ![j] = "running"] /\ result[j] = "pending"
        /\ \A k \in Jobs : result[k] # "running"
        /\ j # "scrub" => step' = "require"
    BY <1>1 DEF StartJob, FirstStep
  <2>2. \A k \in Jobs : result'[k] = IF k = j THEN "running" ELSE result[k]
    BY <1>0, <2>1
  <2> QED
    BY <2>1, <2>2 DEF Chained
<1>2. ASSUME NEW j \in Jobs, JobGoes(j) PROVE Chained'
  BY <1>2 DEF JobGoes, IsGreen, Chained
<1>3. ASSUME NEW j \in Jobs, JobEnds(j) PROVE Chained'
  <2>1. result[j] = "running"
    BY <1>3 DEF JobEnds
  <2>2. PICK how \in {"success", "failure", "cancelled"} :
          /\ result' = [result EXCEPT ![j] = how]
          /\ how = "success" => step # "require"
    BY <1>3 DEF JobEnds
  <2>3. \A k \in Jobs : result'[k] = IF k = j THEN how ELSE result[k]
    BY <1>0, <2>2
  <2>4. \A k \in Jobs : result'[k] = "running" => FALSE
    BY <2>1, <2>2, <2>3 DEF Chained
  <2>5. ASSUME NEW k \in Jobs \ {"scrub"}, result'[k] = "success"
        PROVE  result'[Needs[k]] = "success"
    <3>1. result[Needs[k]] = "success"
      BY <2>1, <2>2, <2>3, <2>5 DEF Chained
    <3> QED
      BY <2>1, <2>3, <3>1
  <2> QED
    BY <2>4, <2>5 DEF Chained
<1>4. CASE Review
  <2>1. /\ result["publish"] = "pending" /\ step' = step
        /\ result' \in {result, [result EXCEPT !["publish"] = "failure"]}
    BY <1>4 DEF Review
  <2> QED
    BY <1>0, <2>1 DEF Chained
<1>5. CASE RerunAll \/ RerunFailed
  <2>1. PICK keep \in SUBSET Jobs :
          Rerun(keep) /\ keep \in {{}, {j \in Jobs : result[j] = "success"}}
    BY <1>5 DEF RerunAll, RerunFailed
  <2>2. result' = [j \in Jobs |-> IF j \in keep THEN "success" ELSE "pending"]
    BY <2>1 DEF Rerun
  <2> QED
    BY <2>1, <2>2 DEF Chained
<1>6. CASE UNCHANGED <<attempt, review, result, step>>
  BY <1>6 DEF Chained
<1> QED
  BY <1>1, <1>2, <1>3, <1>4, <1>5, <1>6, JobSteps

(* pre_publish_secret_scrub.py: what exit code 0 says of the tree. *)
LEMMA GreenIsClean ==
  ASSUME tree \subseteq Files, ScrubExit(flags, tree) = 0
  PROVE  Clean
<1>1. flags \subseteq ScrubOptions /\ ScanTree(tree) = {}
  BY DEF ScrubExit
<1>2. ASSUME NEW file \in tree PROVE HoldsKeys(file) => LetThrough(file)
  <2>1. file.body \in {"clean", "secret", "late"}
    BY DEF Files
  <2>2. ~Finding(file)
    BY <1>1 DEF ScanTree
  <2> QED
    BY <2>1, <2>2, Zenon DEF Finding, ContentFinding, HoldsKeys, LetThrough
<1> QED
  BY <1>1, <1>2 DEF Clean

LEMMA GateSteps ==
  ASSUME [Next]_vars
  PROVE  \/ \E j \in Jobs : StartJob(j) \/ StepFails(j)
         \/ Scrub \/ Review \/ RerunAll \/ RerunFailed
         \/ /\ UNCHANGED <<attempt, review, scrubs, approvals>>
            /\ \/ UNCHANGED result
               \/ \E j \in Jobs \ {"scrub"}, how \in {"success", "failure"} :
                    result' = [result EXCEPT ![j] = how]
<1>1. CASE \E j \in Jobs \ {"scrub"} : RequireGreen(j) \/ Completes(j)
  BY <1>1 DEF RequireGreen, Completes, Goes, EndsJob, history
<1>2. CASE \/ Gitleaks \/ BuildDist \/ WriteSbom \/ WriteStatement \/ UploadDist
           \/ DownloadDist \/ InstallSigstore \/ SignEnds \/ Attest \/ UploadSigned
           \/ DownloadSigned \/ ReleaseBegins \/ ReleaseEnds
  BY <1>2 DEF Gitleaks, BuildDist, WriteSbom, WriteStatement, UploadDist,
              DownloadDist, InstallSigstore, SignEnds, Attest, UploadSigned, DownloadSigned,
              ReleaseBegins, ReleaseEnds, Goes, EndsJob, Jobs, history
<1>3. CASE SignBegins \/ Signing \/ UploadAsset \/ Consumes \/ UNCHANGED vars
  BY <1>3 DEF SignBegins, Signing, UploadAsset, Consumes, vars, history
<1> QED
  BY <1>1, <1>2, <1>3 DEF Next, Steps

LEMMA StepGated ==
  ASSUME Typed, Chained, Gated, [Next]_vars
  PROVE  Gated'
<1> USE JobNames
<1>0. /\ result \in [Jobs -> {"pending", "running", "success", "failure", "cancelled"}]
      /\ scrubs \in [Attempts -> {"none", "green", "red"}]
      /\ attempt \in Attempts /\ attempt \in Nat /\ approvals \subseteq Attempts
  BY Values DEF Typed, JobsOK, HistoryOK
<1>1. Clean' = Clean
  BY OneCommit DEF Clean, HoldsKeys, LetThrough
<1>2. ASSUME NEW j \in Jobs, StartJob(j) PROVE Gated'
  BY <1>0, <1>1, <1>2 DEF StartJob, history, Gated
<1>3. ASSUME NEW j \in Jobs, StepFails(j) PROVE Gated'
  BY <1>0, <1>1, <1>3 DEF StepFails, EndsJob, Gated
<1>4. CASE Scrub
  <2>1. tree \subseteq Files
    BY TreesAssumption DEF Typed, CommitOK
  <2>2. ScrubExit(flags, tree) = 0 => Clean
    BY <2>1, GreenIsClean
  <2>3. /\ result' = [result EXCEPT !["scrub"] = IF ScrubExit(flags, tree) = 0
                                                THEN "success" ELSE "failure"]
        /\ scrubs' = [scrubs EXCEPT ![attempt] = IF ScrubExit(flags, tree) = 0
                                                 THEN "green" ELSE "red"]
        /\ UNCHANGED <<attempt, review, approvals>>
    BY <1>4 DEF Scrub, EndsJob
  <2> QED
    BY <1>0, <1>1, <2>2, <2>3 DEF Gated
<1>5. CASE Review
  BY <1>0, <1>1, <1>5 DEF Review, Gated
<1>6. CASE RerunAll \/ RerunFailed
  <2>1. PICK keep \in SUBSET Jobs :
          Rerun(keep) /\ keep \in {{}, {j \in Jobs : result[j] = "success"}}
    BY <1>6 DEF RerunAll, RerunFailed
  <2>2. /\ result' = [j \in Jobs |-> IF j \in keep THEN "success" ELSE "pending"]
        /\ scrubs' = [scrubs EXCEPT ![attempt + 1] =
                        IF "scrub" \in keep THEN scrubs[attempt] ELSE "none"]
        /\ attempt' = attempt + 1 /\ review' = "none"
    BY <2>1 DEF Rerun
  <2>3. attempt' \in Attempts
    BY StepTypes DEF Typed, JobsOK
  <2> QED
    BY <1>0, <1>1, <2>1, <2>2, <2>3 DEF Gated
<1>7. CASE /\ UNCHANGED <<attempt, review, scrubs, approvals>>
           /\ \/ UNCHANGED result
              \/ \E j \in Jobs \ {"scrub"}, how \in {"success", "failure"} :
                   result' = [result EXCEPT ![j] = how]
  BY <1>0, <1>1, <1>7 DEF Gated
<1> QED
  BY <1>2, <1>3, <1>4, <1>5, <1>6, <1>7, GateSteps

LEMMA JobsInvariance == Spec => []JobsInv
<1>1. Init => JobsInv
  <2> SUFFICES ASSUME Init PROVE JobsInv
    OBVIOUS
  <2>1. /\ \A j \in Jobs : result[j] = "pending"
        /\ \A k \in Attempts : scrubs[k] = "none"
        /\ attempt \in Attempts /\ review = "none"
    BY Values DEF Init
  <2> QED
    BY <2>1, JobNames DEF JobsInv, Chained, Gated
<1>2. Typed /\ JobsInv /\ [Next]_vars => JobsInv'
  BY StepChained, StepGated DEF JobsInv
<1> QED
  BY <1>1, <1>2, TypeInvariance, PTL DEF Spec

------------------------------------------------------------------------------
(* The origin of what is kept *)

(* What was built behind a green gate stays so, and so does an approval.    *)
GreenNext(b) == b \in Attempts /\ b <= attempt' /\ scrubs'[b] = "green"
ApprovedNext(b) == \E k \in approvals' : b <= k

LEMMA GreenStays ==
  ASSUME Typed, JobsInv, [Next]_vars
  PROVE  /\ \A b : Green(b) => GreenNext(b)
         /\ \A b : Approved(b) => ApprovedNext(b)
<1>0. /\ scrubs \in [Attempts -> {"none", "green", "red"}]
      /\ attempt \in Nat /\ Attempts \subseteq Nat
  BY Values DEF Typed, JobsOK, HistoryOK
<1> USE DEF Green, GreenNext, Approved, ApprovedNext
<1>1. CASE \E j \in Jobs : StartJob(j)
  BY <1>1 DEF StartJob, history
<1>2. CASE Scrub \/ \E j \in Jobs : StepFails(j)
  <2>1. /\ attempt' = attempt /\ approvals' = approvals
        /\ \/ scrubs' = scrubs
           \/ result["scrub"] = "running" /\ \E s : scrubs' = [scrubs EXCEPT ![attempt] = s]
    BY <1>2 DEF Scrub, StepFails, At
  <2>2. result["scrub"] = "running" => scrubs[attempt] = "none"
    BY DEF JobsInv, Gated
  <2> QED
    BY <1>0, <2>1, <2>2
<1>3. CASE Review
  BY <1>3 DEF Review
<1>4. CASE RerunAll \/ RerunFailed
  <2>1. /\ attempt' = attempt + 1 /\ approvals' = approvals
        /\ \E s : scrubs' = [scrubs EXCEPT ![attempt + 1] = s]
    BY <1>4 DEF RerunAll, RerunFailed, Rerun
  <2>2. ASSUME NEW b, Green(b) PROVE GreenNext(b)
    <3>1. b \in Attempts /\ b \in Nat /\ b <= attempt /\ b # attempt + 1
      BY <1>0, <2>2
    <3>2. scrubs'[b] = scrubs[b]
      BY <1>0, <2>1, <3>1
    <3> QED
      BY <1>0, <2>1, <2>2, <3>1, <3>2
  <2> QED
    BY <2>1, <2>2
<1>5. CASE UNCHANGED <<attempt, review, scrubs, approvals>>
  BY <1>5
<1> QED
  BY <1>1, <1>2, <1>3, <1>4, <1>5, GateSteps

(* Past its first step a job has only green ones before it. *)
LEMMA PastGate ==
  ASSUME JobsInv
  PROVE  /\ result["build"] = "running" /\ step # "require" => scrubs[attempt] = "green"
         /\ result["publish"] = "running" => attempt \in approvals
  BY JobNames DEF JobsInv, Chained, Gated

LEMMA StepOrigin ==
  ASSUME Typed, JobsInv, OriginInv, [Next]_vars
  PROVE  OriginInv'
<1>0. \A f : AllGreen(f) => \A a \in Artifacts : f[a] # Absent => GreenNext(f[a])
  BY GreenStays DEF AllGreen
<1>1. AllGreen(bytes)'
  <2>1. ASSUME NEW j \in Jobs, StartJob(j) PROVE AllGreen(bytes)'
    BY <2>1 DEF StartJob, AllGreen, Nothing
  <2>2. CASE BuildDist
    <3>1. scrubs[attempt] = "green" /\ attempt \in Attempts /\ attempt \in Nat
      BY <2>2, PastGate, Values DEF BuildDist, At, Typed, JobsOK
    <3>2. /\ bytes' = [a \in Artifacts |-> attempt]
          /\ UNCHANGED <<attempt, scrubs>>
      BY <2>2 DEF BuildDist, history
    <3> QED
      BY <3>1, <3>2 DEF AllGreen, Green
  <2>3. CASE DownloadDist \/ DownloadSigned
    <3>1. bytes' = store.dist.bytes \/ bytes' = store.signed.bytes
      BY <2>3 DEF DownloadDist, DownloadSigned, Downloads
    <3> QED
      BY <1>0, <3>1 DEF OriginInv, AllGreen, GreenNext, Green
  <2>4. CASE WriteStatement \/ Signing \/ UNCHANGED <<bytes, bundle, statement>>
    <3>1. bytes' = bytes
      BY <2>4, SigningTypes DEF WriteStatement, Subjects, Typed
    <3> QED
      BY <1>0, <3>1 DEF OriginInv, AllGreen, GreenNext, Green
  <2> QED
    BY <2>1, <2>2, <2>3, <2>4, RunnerSteps
<1>2. AllGreen(store.dist.bytes)' /\ AllGreen(store.signed.bytes)'
  <2>1. /\ store'.dist.bytes \in {store.dist.bytes, bytes}
        /\ store'.signed.bytes \in {store.signed.bytes, bytes}
    <3>1. store \in [dist : KeptDist, signed : KeptDist]
      BY DEF Typed, KeptOK
    <3>2. CASE UploadDist
      BY <3>1, <3>2 DEF UploadDist, RunnerDist
    <3>3. CASE UploadSigned
      BY <3>1, <3>3 DEF UploadSigned, RunnerDist
    <3>4. CASE UploadAsset \/ ReleaseEnds \/ UNCHANGED <<store, assets>>
      BY <3>4 DEF UploadAsset, ReleaseEnds
    <3> QED
      BY <3>2, <3>3, <3>4, KeptSteps
  <2> QED
    BY <1>0, <2>1 DEF OriginInv, AllGreen, GreenNext, Green
<1>3. \A a \in Artifacts : assets'.bytes[a] # Absent =>
        GreenNext(assets'.bytes[a]) /\ ApprovedNext(assets'.bytes[a])
  <2>1. assets \in KeptDist /\ bytes \in [Artifacts -> Kept]
    BY DEF Typed, KeptOK, RunnerOK
  <2>2. CASE UploadAsset
    <3>1. /\ \/ assets'.bytes = assets.bytes
             \/ \E b \in Artifacts : assets'.bytes = [assets.bytes EXCEPT ![b] = bytes[b]]
      <4>1. PICK u \in uploads :
              assets' = IF u[2] = "file" THEN [assets EXCEPT !.bytes[u[1]] = bytes[u[1]]]
                        ELSE [assets EXCEPT !.bundle[u[1]] = bundle[u[1]]]
        BY <2>2 DEF UploadAsset
      <4>2. u[1] \in Artifacts
        BY DEF Typed, KeptOK
      <4> QED
        BY <2>1, <4>1, <4>2 DEF KeptDist
    <3>2. ASSUME NEW b \in Artifacts, bytes[b] # Absent
          PROVE  GreenNext(bytes[b]) /\ ApprovedNext(bytes[b])
      <4>1. Green(bytes[b]) /\ attempt \in approvals
        BY <2>2, <3>2, PastGate DEF UploadAsset, At, OriginInv, AllGreen
      <4>2. Approved(bytes[b])
        BY <4>1 DEF Approved, Green
      <4> QED
        BY <4>1, <4>2, GreenStays
    <3>3. ASSUME NEW a \in Artifacts, assets.bytes[a] # Absent
          PROVE  GreenNext(assets.bytes[a]) /\ ApprovedNext(assets.bytes[a])
      BY <3>3, GreenStays DEF OriginInv, AllGreen
    <3>4. assets.bytes \in [Artifacts -> Kept]
      BY <2>1 DEF KeptDist
    <3> QED
      BY <3>1, <3>2, <3>3, <3>4
  <2>3. CASE UploadDist \/ UploadSigned \/ ReleaseEnds \/ UNCHANGED <<store, assets>>
    <3>1. assets'.bytes = assets.bytes
      BY <2>1, <2>3 DEF UploadDist, UploadSigned, ReleaseEnds, KeptDist
    <3> QED
      BY <3>1, GreenStays DEF OriginInv, AllGreen
  <2> QED
    BY <2>2, <2>3, KeptSteps
<1> QED
  BY <1>1, <1>2, <1>3
  DEF OriginInv, AllGreen, Green, GreenNext, Approved, ApprovedNext

LEMMA OriginInvariance == Spec => []OriginInv
<1>1. Init => OriginInv
  <2>1. Absent \notin Attempts
    BY Values
  <2> QED
    BY <2>1 DEF Init, SignerInit, OriginInv, AllGreen, Nothing, EmptyDist
<1>2. Typed /\ JobsInv /\ OriginInv /\ [Next]_vars => OriginInv'
  BY StepOrigin
<1> QED
  BY <1>1, <1>2, TypeInvariance, JobsInvariance, PTL DEF Spec

------------------------------------------------------------------------------
(* What one job leaves to the next *)

StepsOf(j) ==
  \/ j = "scrub" /\ (Gitleaks \/ Scrub)
  \/ j # "scrub" /\ (RequireGreen(j) \/ Completes(j))
  \/ j = "build" /\ (BuildDist \/ WriteSbom \/ WriteStatement \/ UploadDist)
  \/ j = "provenance" /\ (\/ DownloadDist \/ InstallSigstore \/ SignBegins \/ Signing
                          \/ SignEnds \/ Attest \/ UploadSigned)
  \/ j = "publish" /\ (DownloadSigned \/ ReleaseBegins \/ UploadAsset \/ ReleaseEnds)

(* A step that is not one of job j's own leaves j as it is, unless it       *)
(* starts or ends it.                                                       *)
Elsewhere(j) ==
  /\ result'[j] = "success" => result[j] = "success"
  /\ \/ result'[j] # "running"
     \/ step' = "require" /\ statuses' = Unsigned /\ exit' = "none"
     \/ /\ result[j] = "running"
        /\ UNCHANGED <<step, bytes, bundle, statement, lib, statuses, phase, exit, uploads>>

LEMMA OwnJob ==
  ASSUME Typed, NEW j \in Jobs, StepsOf(j)
  PROVE  result[j] = "running" /\ \A k \in Jobs \ {j} : result'[k] = result[k]
<1>1. result[j] = "running"
  BY DEF StepsOf, Gitleaks, Scrub, RequireGreen, Completes, BuildDist, WriteSbom, WriteStatement,
         UploadDist, DownloadDist, InstallSigstore, SignBegins, Signing, SignEnds, Attest,
         UploadSigned, DownloadSigned, ReleaseBegins, UploadAsset, ReleaseEnds, At
<1>2. result' = result \/ \E how : result' = [result EXCEPT ![j] = how]
  BY DEF StepsOf, Gitleaks, Scrub, RequireGreen, Completes, BuildDist, WriteSbom, WriteStatement,
         UploadDist, DownloadDist, InstallSigstore, SignBegins, Signing, SignEnds, Attest,
         UploadSigned, DownloadSigned, ReleaseBegins, UploadAsset, ReleaseEnds, Goes, EndsJob
<1> QED
  BY <1>1, <1>2 DEF Typed, JobsOK

LEMMA OtherSteps ==
  ASSUME Typed, Chained, [Next]_vars, NEW j \in Jobs \ {"scrub"}
  PROVE  StepsOf(j) \/ Elsewhere(j)
<1> SUFFICES ASSUME ~StepsOf(j) PROVE Elsewhere(j)
  OBVIOUS
<1>0. result \in [Jobs -> {"pending", "running", "success", "failure", "cancelled"}]
  BY DEF Typed, JobsOK
<1>1. ASSUME NEW k \in Jobs, StartJob(k) PROVE Elsewhere(j)
  <2>1. /\ result' = [result EXCEPT ![k] = "running"]
        /\ \A l \in Jobs : result[l] # "running"
        /\ k = j => step' = "require" /\ statuses' = Unsigned /\ exit' = "none"
    BY <1>1 DEF StartJob, FirstStep
  <2> QED
    BY <1>0, <2>1 DEF Elsewhere
<1>2. ASSUME NEW k \in Jobs, StepFails(k) PROVE Elsewhere(j)
  <2>1. result[k] = "running" /\ \E how \in {"failure", "cancelled"} :
                                   result' = [result EXCEPT ![k] = how]
    BY <1>2 DEF StepFails, EndsJob
  <2> QED
    BY <1>0, <2>1 DEF Elsewhere, Chained
<1>3. ASSUME NEW k \in Jobs, k # j, StepsOf(k) PROVE Elsewhere(j)
  <2>1. result[k] = "running" /\ result'[j] = result[j]
    BY <1>3, OwnJob
  <2> QED
    BY <1>3, <2>1 DEF Elsewhere, Chained
<1>4. CASE Review
  <2>1. /\ result["publish"] = "pending" /\ step' = step
        /\ result' \in {result, [result EXCEPT !["publish"] = "failure"]}
        /\ UNCHANGED <<bytes, bundle, statement, lib, statuses, phase, exit, uploads>>
    BY <1>4 DEF Review, runner, process
  <2> QED
    BY <1>0, <2>1 DEF Elsewhere
<1>5. CASE RerunAll \/ RerunFailed
  <2>1. PICK keep \in SUBSET Jobs :
          Rerun(keep) /\ keep \in {{}, {k \in Jobs : result[k] = "success"}}
    BY <1>5 DEF RerunAll, RerunFailed
  <2> QED
    BY <2>1 DEF Rerun, Elsewhere
<1>6. CASE Consumes \/ UNCHANGED vars
  BY <1>6 DEF Consumes, vars, runner, process, Elsewhere
<1> QED
  BY <1>1, <1>2, <1>3, <1>4, <1>5, <1>6 DEF Next, Steps, StepsOf, Jobs

(* Each of the three stores is filled by one job. *)
LEMMA StoreSteps ==
  ASSUME Typed, [Next]_vars
  PROVE  /\ UploadDist \/ store'.dist = store.dist
         /\ UploadSigned \/ store'.signed = store.signed
         /\ UploadAsset \/ ReleaseEnds \/ assets' = assets
<1>1. store \in [dist : KeptDist, signed : KeptDist]
  BY DEF Typed, KeptOK
<1> QED
  BY <1>1, KeptSteps DEF UploadDist, UploadSigned, UploadAsset, ReleaseEnds

LEMMA StepBuild ==
  ASSUME Typed, JobsInv, BuildInv, [Next]_vars
  PROVE  BuildInv'
<1> USE DEF Built, RunnerDist
<1>0. /\ result \in [Jobs -> {"pending", "running", "success", "failure", "cancelled"}]
      /\ store \in [dist : KeptDist, signed : KeptDist] /\ attempt \in Attempts
      /\ "build" \in Jobs \ {"scrub"} /\ Chained
  BY DEF Typed, JobsOK, KeptOK, JobsInv, Jobs
<1>1. CASE Elsewhere("build") /\ ~StepsOf("build")
  <2>1. store'.dist = store.dist
    BY <1>1, StoreSteps DEF StepsOf
  <2> QED
    BY <1>1, <2>1 DEF Elsewhere, BuildInv
<1>2. CASE RequireGreen("build")
  <2>1. /\ result'["build"] = "running" => step' = "build"
        /\ result'["build"] # "success"
    BY <1>0, <1>2 DEF RequireGreen, At, Goes, EndsJob, SecondStep
  <2> QED
    BY <2>1 DEF BuildInv
<1>3. CASE BuildDist
  <2>1. \A a \in Artifacts : bytes'[a] # Absent
    BY <1>0, <1>3, Values DEF BuildDist
  <2> QED
    BY <1>3, <2>1 DEF BuildDist, At, Goes, BuildInv
<1>4. CASE WriteSbom
  BY <1>4 DEF WriteSbom, At, Goes, BuildInv
<1>5. CASE WriteStatement
  <2>1. \A a \in Artifacts : bytes[a] # Absent
    BY <1>5 DEF WriteStatement, Subjects, At, BuildInv
  <2>2. /\ result'["build"] \in {"running", "failure"} /\ bytes' = bytes
        /\ result'["build"] = "running" => step' = "upload" /\ statement' = bytes
    BY <1>0, <1>5 DEF WriteStatement, Subjects, At, Goes, EndsJob
  <2> QED
    BY <2>1, <2>2 DEF BuildInv
<1>6. CASE UploadDist
  <2>1. Built(RunnerDist)
    BY <1>6 DEF UploadDist, At, BuildInv
  <2>2. store'.dist = RunnerDist /\ result'["build"] = "running" /\ step' = "complete"
    BY <1>0, <1>6 DEF UploadDist, At, Goes
  <2> QED
    BY <2>1, <2>2 DEF BuildInv
<1>7. CASE Completes("build")
  <2>1. result'["build"] = "success" /\ store' = store /\ Built(store.dist)
    BY <1>0, <1>7 DEF Completes, At, EndsJob, BuildInv
  <2> QED
    BY <2>1 DEF BuildInv
<1> QED
  BY <1>0, <1>1, <1>2, <1>3, <1>4, <1>5, <1>6, <1>7, OtherSteps DEF StepsOf

(* main() of the signer: "ok" is reported over a full set of right bundles. *)
LEMMA SigningKeeps ==
  ASSUME RunnerOK, ProcessOK, Built(RunnerDist), LoopInv, Signing,
         exit = "ok" => phase = "off" /\ Bound(RunnerDist)
  PROVE  LoopInv' /\ (exit' = "ok" => phase' = "off" /\ Bound(RunnerDist)')
<1>0. /\ statuses \in [Artifacts -> SigningStatus \cup {"none"}]
      /\ bundle \in [Artifacts -> Bundles]
      /\ Listed = Artifacts /\ UNCHANGED <<bytes, lib>>
  BY SigningTypes DEF RunnerOK, ProcessOK, Built, RunnerDist, Listed
<1>1. PreconditionSkips(lib, FALSE)' = PreconditionSkips(lib, FALSE)
  BY <1>0 DEF PreconditionSkips
<1>2. ASSUME NEW a \in Artifacts, SignSkips(a) \/ SignFails(a) \/ VerifyAfterSign(a)
      PROVE  LoopInv' /\ exit' # "ok"
  <2>1. phase # "off" /\ exit' = exit
    BY <1>2 DEF SignSkips, SignFails, VerifyAfterSign, Concludes
  <2>2. exit' # "ok"
    BY <2>1
  <2>3. CASE SignSkips(a)
    BY <1>0, <1>1, <2>3 DEF SignSkips, Concludes, LoopInv
  <2>4. CASE SignFails(a)
    BY <1>0, <1>1, <2>4 DEF SignFails, Concludes, LoopInv
  <2>5. CASE VerifyAfterSign(a)
    <3>1. PICK verdict \in Verdicts(bytes[a], bundle[a]) : Concludes(a, StatusAfter(verdict))
      BY <2>5 DEF VerifyAfterSign
    <3>2. statuses' = [statuses EXCEPT ![a] = StatusAfter(verdict)] /\ bundle' = bundle
      BY <2>5, <3>1 DEF VerifyAfterSign, Concludes
    <3>3. verdict = "passed" => bundle[a] = bytes[a]
      <4>1. ASSUME NEW answer \in ClientAnswers(bundle[a]),
                   Accepts(bytes[a], bundle[a], answer)
            PROVE  bundle[a] = bytes[a]
        BY <4>1, AcceptedDigest
      <4> QED
        BY <4>1 DEF Verdicts
    <3>4. statuses[a] = "none" /\ ~PreconditionSkips(lib, FALSE)
      BY <2>5 DEF VerifyAfterSign, IsCurrent, Remaining, LoopInv
    <3> QED
      BY <1>0, <1>1, <2>2, <3>2, <3>3, <3>4 DEF StatusAfter, LoopInv
  <2> QED
    BY <1>2, <2>2, <2>3, <2>4, <2>5
<1>3. ASSUME NEW a \in Artifacts, WritesBundle(a) PROVE LoopInv' /\ exit' # "ok"
  <2>1. /\ statuses' = statuses /\ exit' = exit /\ phase = "loop"
        /\ statuses[a] = "none" /\ ~PreconditionSkips(lib, FALSE)
        /\ \E entry : bundle' = [bundle EXCEPT ![a] = entry]
    BY <1>3 DEF WritesBundle, IsCurrent, Remaining
  <2> QED
    BY <1>0, <1>1, <2>1 DEF LoopInv
<1>4. ASSUME MainReturns
      PROVE  LoopInv' /\ (exit' = "ok" => phase' = "off" /\ Bound(RunnerDist)')
  <2>1. /\ UNCHANGED <<bytes, bundle, statuses>> /\ phase' = "off" /\ Remaining = {}
        /\ exit' = ExitCode({statuses[a] : a \in Listed})
    BY <1>4 DEF MainReturns
  <2>2. \A a \in Artifacts : statuses[a] # "none"
    BY <1>0, <2>1 DEF Remaining
  <2>3. exit' = "ok" => \A a \in Artifacts : statuses[a] = "signed"
    BY <1>0, <2>1, <2>2 DEF ExitCode, LoopInv
  <2> QED
    BY <1>0, <1>1, <2>1, <2>3 DEF LoopInv, Bound, RunnerDist
<1>5. CASE MainRaises
  BY <1>0, <1>1, <1>5 DEF MainRaises, LoopInv
<1> QED
  BY <1>2, <1>3, <1>4, <1>5 DEF Signing, SignerRuns

LEMMA StepPhase ==
  ASSUME Typed, JobsInv, ProvenanceInv, [Next]_vars
  PROVE  phase' # "off" => result'["provenance"] = "running" /\ step' = "sign"
<1> SUFFICES ASSUME phase' # "off"
             PROVE  result'["provenance"] = "running" /\ step' = "sign"
  OBVIOUS
<1>0. /\ result \in [Jobs -> {"pending", "running", "success", "failure", "cancelled"}]
      /\ Chained /\ Jobs = {"scrub", "build", "provenance", "publish"}
      /\ phase # "off" => result["provenance"] = "running" /\ step = "sign"
  BY DEF Typed, JobsOK, JobsInv, Jobs, ProvenanceInv
<1>1. ASSUME NEW j \in Jobs, StartJob(j) \/ StepFails(j) PROVE FALSE
  BY <1>0, <1>1 DEF StartJob, StepFails
<1>2. CASE SignBegins \/ Signing
  BY <1>2 DEF SignBegins, Signing, At
<1>3. ASSUME NEW j \in Jobs, StepsOf(j), ~(SignBegins \/ Signing) PROVE FALSE
  <2>1. phase' = phase
    BY <1>3
    DEF StepsOf, Gitleaks, Scrub, RequireGreen, Completes, BuildDist, WriteSbom, WriteStatement,
        UploadDist, DownloadDist, InstallSigstore, SignEnds, Attest, UploadSigned,
        DownloadSigned, ReleaseBegins, UploadAsset, ReleaseEnds, process
  <2>2. result["provenance"] = "running" /\ step = "sign" /\ phase # "off"
    BY <1>0, <2>1
  <2>3. j = "provenance"
    BY <1>0, <1>3, <2>2, OwnJob DEF Chained
  <2> QED
    BY <1>3, <2>2, <2>3
    DEF StepsOf, RequireGreen, Completes, DownloadDist, InstallSigstore, SignEnds, Attest,
        UploadSigned, At
<1>4. CASE Review
  <2>1. /\ result["publish"] = "pending" /\ step' = step /\ phase' = phase
        /\ result' \in {result, [result EXCEPT !["publish"] = "failure"]}
    BY <1>4 DEF Review, process
  <2> QED
    BY <1>0, <2>1
<1>5. CASE RerunAll \/ RerunFailed
  BY <1>0, <1>5 DEF RerunAll, RerunFailed, Rerun, AllFinished, Finished, process
<1>6. CASE Consumes \/ UNCHANGED vars
  BY <1>0, <1>6 DEF Consumes, vars, process
<1> QED
  BY <1>0, <1>1, <1>2, <1>3, <1>4, <1>5, <1>6 DEF Next, Steps, StepsOf

LEMMA StepProvenance ==
  ASSUME Typed, JobsInv, BuildInv, ProvenanceInv, [Next]_vars
  PROVE  ProvenanceInv'
<1>0. /\ result \in [Jobs -> {"pending", "running", "success", "failure", "cancelled"}]
      /\ store \in [dist : KeptDist, signed : KeptDist]
      /\ "provenance" \in Jobs \ {"scrub"} /\ Chained
      /\ Needs["provenance"] = "build"
  BY JobNames DEF Typed, JobsOK, KeptOK, JobsInv
<1>1. phase' # "off" => result'["provenance"] = "running" /\ step' = "sign"
  BY StepPhase
<1>2. CASE Elsewhere("provenance") /\ ~StepsOf("provenance")
  <2>1. store'.signed = store.signed
    BY <1>2, StoreSteps DEF StepsOf
  <2> QED
    BY <1>1, <1>2, <2>1
    DEF Elsewhere, ProvenanceInv, Built, Bound, RunnerDist, LoopInv, PreconditionSkips
<1>3. CASE RequireGreen("provenance")
  <2>1. /\ UNCHANGED <<statuses, exit>>
        /\ result["provenance"] = "running" /\ step = "require"
        /\ result'["provenance"] = "running" => step' = "download"
        /\ result'["provenance"] # "success"
    BY <1>0, <1>3 DEF RequireGreen, At, Goes, EndsJob, SecondStep, process
  <2> QED
    BY <1>1, <2>1 DEF ProvenanceInv
<1>4. CASE DownloadDist
  <2>1. Built(store.dist)
    BY <1>0, <1>4 DEF DownloadDist, At, Chained, BuildInv
  <2>2. bytes' = store.dist.bytes /\ statement' = store.dist.statement
    BY <1>4 DEF DownloadDist, Downloads
  <2>3. Built(RunnerDist)'
    BY <2>1, <2>2 DEF Built, RunnerDist
  <2> QED
    BY <1>1, <1>4, <2>3 DEF DownloadDist, At, Goes, process, ProvenanceInv
<1>5. CASE InstallSigstore
  <2>1. /\ step' = "sign" /\ result' = result /\ exit' = "none" /\ statuses' = Unsigned
        /\ phase' = "off" /\ bytes' = bytes /\ statement' = statement
        /\ Built(RunnerDist) /\ result["provenance"] = "running"
    BY <1>5 DEF InstallSigstore, At, Goes, runner, ProvenanceInv
  <2>2. LoopInv' /\ Built(RunnerDist)'
    BY <2>1 DEF LoopInv, Unsigned, Built, RunnerDist
  <2> QED
    BY <1>1, <2>1, <2>2 DEF ProvenanceInv
<1>6. CASE SignBegins
  <2>1. /\ UNCHANGED <<result, step, bytes, bundle, statement>> /\ statuses' = Unsigned
        /\ exit' \in {"none", "failed"} /\ phase' \in {"off", "loop"}
        /\ result["provenance"] = "running" /\ step = "sign"
    BY <1>6 DEF SignBegins, MainBegins, At
  <2>2. LoopInv' /\ Built(RunnerDist)'
    BY <2>1 DEF LoopInv, Unsigned, Built, RunnerDist, ProvenanceInv
  <2> QED
    BY <1>1, <2>1, <2>2 DEF ProvenanceInv
<1>7. CASE Signing
  <2>1. /\ UNCHANGED <<result, step, bytes, statement>>
        /\ result["provenance"] = "running" /\ step = "sign"
    BY <1>7, SigningTypes DEF Signing, At, Typed
  <2>2. LoopInv' /\ (exit' = "ok" => phase' = "off" /\ Bound(RunnerDist)')
    BY <1>7, <2>1, SigningKeeps DEF Typed, ProvenanceInv
  <2>3. Built(RunnerDist)'
    BY <2>1 DEF Built, RunnerDist, ProvenanceInv
  <2> QED
    BY <1>1, <2>1, <2>2, <2>3 DEF ProvenanceInv
<1>8. CASE SignEnds \/ Attest
  <2>1. /\ UNCHANGED <<bytes, bundle, statement>>
        /\ result["provenance"] = "running" /\ result'["provenance"] # "success"
        /\ result'["provenance"] = "running" =>
             /\ step' \in {"attest", "upload signed"}
             /\ Built(RunnerDist) /\ Bound(RunnerDist)
    BY <1>0, <1>8 DEF SignEnds, Attest, At, Goes, EndsJob, runner, ProvenanceInv
  <2> QED
    BY <1>1, <2>1 DEF Built, Bound, RunnerDist, ProvenanceInv
<1>9. CASE UploadSigned
  <2>1. /\ store'.signed = RunnerDist
        /\ result'["provenance"] = "running" /\ step' = "complete"
        /\ Built(RunnerDist) /\ Bound(RunnerDist)
    BY <1>0, <1>9 DEF UploadSigned, At, Goes, ProvenanceInv
  <2> QED
    BY <1>1, <2>1 DEF Built, Bound, ProvenanceInv
<1>10. CASE Completes("provenance")
  <2>1. /\ result'["provenance"] = "success" /\ store' = store
        /\ Built(store.signed) /\ Bound(store.signed)
    BY <1>0, <1>10 DEF Completes, At, EndsJob, ProvenanceInv
  <2> QED
    BY <1>1, <2>1 DEF ProvenanceInv
<1> QED
  BY <1>0, <1>2, <1>3, <1>4, <1>5, <1>6, <1>7, <1>8, <1>9, <1>10, OtherSteps DEF StepsOf

LEMMA StepPublish ==
  ASSUME Typed, JobsInv, ProvenanceInv, PublishInv, [Next]_vars
  PROVE  PublishInv'
<1>0. /\ result \in [Jobs -> {"pending", "running", "success", "failure", "cancelled"}]
      /\ assets \in KeptDist /\ bytes \in [Artifacts -> Kept]
      /\ bundle \in [Artifacts -> Bundles]
      /\ "publish" \in Jobs \ {"scrub"} /\ Chained
      /\ Needs["publish"] = "provenance"
  BY JobNames DEF Typed, JobsOK, KeptOK, RunnerOK, JobsInv
<1>1. CASE Elsewhere("publish") /\ ~StepsOf("publish")
  <2>1. assets' = assets
    BY <1>1, StoreSteps DEF StepsOf
  <2> QED
    BY <1>1, <2>1 DEF Elsewhere, PublishInv, Built, Bound, RunnerDist
<1>2. CASE RequireGreen("publish")
  <2>1. /\ result'["publish"] = "running" => step' = "download signed"
        /\ result'["publish"] # "success"
    BY <1>0, <1>2 DEF RequireGreen, At, Goes, EndsJob, SecondStep
  <2> QED
    BY <2>1 DEF PublishInv
<1>3. CASE DownloadSigned
  <2>1. Built(store.signed) /\ Bound(store.signed)
    BY <1>0, <1>3 DEF DownloadSigned, At, Chained, ProvenanceInv
  <2>2. /\ bytes' = store.signed.bytes /\ bundle' = store.signed.bundle
        /\ statement' = store.signed.statement
    BY <1>3 DEF DownloadSigned, Downloads
  <2>3. Built(RunnerDist)' /\ Bound(RunnerDist)'
    BY <2>1, <2>2 DEF Built, Bound, RunnerDist
  <2> QED
    BY <1>3, <2>3 DEF DownloadSigned, At, Goes, PublishInv
<1>4. CASE ReleaseBegins
  <2>1. Built(RunnerDist) /\ Bound(RunnerDist)
    BY <1>4 DEF ReleaseBegins, At, PublishInv
  <2>2. \A a \in Artifacts :
          <<a, "file">> \in Wanted(RunnerDist) /\ <<a, "bundle">> \in Wanted(RunnerDist)
    BY <2>1 DEF Built, Bound, RunnerDist, Wanted
  <2>3. /\ result'["publish"] \in {"running", "failure"}
        /\ UNCHANGED <<bytes, bundle, statement, assets>>
        /\ result'["publish"] = "running" =>
             uploads' = Wanted(RunnerDist) /\ step' = "upload assets"
    BY <1>0, <1>4 DEF ReleaseBegins, At, Goes, EndsJob, runner
  <2> QED
    BY <2>1, <2>2, <2>3 DEF PublishInv, Built, Bound, RunnerDist
<1>5. CASE UploadAsset
  <2>1. PICK u \in uploads :
          /\ uploads' = uploads \ {u}
          /\ assets' = IF u[2] = "file" THEN [assets EXCEPT !.bytes[u[1]] = bytes[u[1]]]
                       ELSE [assets EXCEPT !.bundle[u[1]] = bundle[u[1]]]
    BY <1>5 DEF UploadAsset
  <2>2. u \in Artifacts \X {"file", "bundle"}
    BY DEF Typed, KeptOK
  <2>3. /\ UNCHANGED <<result, step, bytes, bundle, statement>>
        /\ Built(RunnerDist) /\ Bound(RunnerDist)
        /\ result["publish"] = "running" /\ step = "upload assets"
    BY <1>5 DEF UploadAsset, At, runner, PublishInv
  <2>4. ASSUME NEW a \in Artifacts, <<a, "file">> \notin uploads'
        PROVE  assets'.bytes[a] = bytes[a]
    <3>1. CASE u = <<a, "file">>
      BY <1>0, <2>1, <3>1 DEF KeptDist
    <3>2. CASE u # <<a, "file">>
      <4>1. assets.bytes[a] = bytes[a]
        BY <2>1, <2>3, <2>4, <3>2 DEF PublishInv
      <4>2. assets'.bytes[a] = assets.bytes[a]
        BY <1>0, <2>1, <2>2, <3>2 DEF KeptDist
      <4> QED
        BY <4>1, <4>2
    <3> QED
      BY <3>1, <3>2
  <2>5. ASSUME NEW a \in Artifacts, <<a, "bundle">> \notin uploads'
        PROVE  assets'.bundle[a] = bundle[a]
    <3>1. CASE u = <<a, "bundle">>
      BY <1>0, <2>1, <3>1 DEF KeptDist
    <3>2. CASE u # <<a, "bundle">>
      <4>1. assets.bundle[a] = bundle[a]
        BY <2>1, <2>3, <2>5, <3>2 DEF PublishInv
      <4>2. assets'.bundle[a] = assets.bundle[a]
        BY <1>0, <2>1, <2>2, <3>2 DEF KeptDist
      <4> QED
        BY <4>1, <4>2
    <3> QED
      BY <3>1, <3>2
  <2> QED
    BY <2>3, <2>4, <2>5 DEF PublishInv, Built, Bound, RunnerDist
<1>6. CASE ReleaseEnds
  <2>1. /\ Built(RunnerDist) /\ Bound(RunnerDist)
        /\ \A a \in Artifacts : assets.bytes[a] = bytes[a] /\ assets.bundle[a] = bundle[a]
    BY <1>6 DEF ReleaseEnds, At, PublishInv
  <2>2. /\ assets' = [assets EXCEPT !.statement = statement]
        /\ result'["publish"] = "running" /\ step' = "complete"
    BY <1>0, <1>6 DEF ReleaseEnds, At, Goes
  <2>3. assets.bytes = bytes
    BY <1>0, <2>1 DEF KeptDist
  <2>4. Built(assets)' /\ Bound(assets)'
    BY <1>0, <2>1, <2>2, <2>3 DEF Built, Bound, RunnerDist, KeptDist
  <2> QED
    BY <2>2, <2>4 DEF PublishInv
<1>7. CASE Completes("publish")
  <2>1. result'["publish"] = "success" /\ assets' = assets /\ Built(assets) /\ Bound(assets)
    BY <1>0, <1>7 DEF Completes, At, EndsJob, PublishInv
  <2> QED
    BY <2>1 DEF PublishInv
<1> QED
  BY <1>0, <1>1, <1>2, <1>3, <1>4, <1>5, <1>6, <1>7, OtherSteps DEF StepsOf

LEMMA CompleteInvariance == Spec => []CompleteInv
<1>1. Init => CompleteInv
  <2> SUFFICES ASSUME Init PROVE CompleteInv
    OBVIOUS
  <2>1. /\ \A j \in Jobs : result[j] = "pending"
        /\ phase = "off"
    BY DEF Init, SignerInit
  <2> QED
    BY <2>1 DEF CompleteInv, BuildInv, ProvenanceInv, PublishInv, Jobs
<1>2. Typed /\ JobsInv /\ CompleteInv /\ [Next]_vars => CompleteInv'
  BY StepBuild, StepProvenance, StepPublish DEF CompleteInv
<1> QED
  BY <1>1, <1>2, TypeInvariance, JobsInvariance, PTL DEF Spec

------------------------------------------------------------------------------
(* What the page vouches for *)

LEMMA StepVouched ==
  ASSUME Typed, JobsInv, OriginInv, CompleteInv, VouchedInv, [Next]_vars
  PROVE  VouchedInv'
<1>1. ASSUME NEW a \in Artifacts, assets'.bundle[a] # Absent
      PROVE  GreenNext(assets'.bundle[a]) /\ ApprovedNext(assets'.bundle[a])
  <2>1. assets \in KeptDist /\ bundle \in [Artifacts -> Bundles]
    BY DEF Typed, KeptOK, RunnerOK
  <2>2. ASSUME assets'.bundle[a] = assets.bundle[a]
        PROVE  GreenNext(assets'.bundle[a]) /\ ApprovedNext(assets'.bundle[a])
    BY <1>1, <2>2, GreenStays DEF VouchedInv
  <2>3. CASE UploadAsset
    <3>1. assets'.bundle[a] \in {assets.bundle[a], bundle[a]}
      <4>1. PICK u \in uploads :
              assets' = IF u[2] = "file" THEN [assets EXCEPT !.bytes[u[1]] = bytes[u[1]]]
                        ELSE [assets EXCEPT !.bundle[u[1]] = bundle[u[1]]]
        BY <2>3 DEF UploadAsset
      <4>2. u[1] \in Artifacts
        BY DEF Typed, KeptOK
      <4> QED
        BY <2>1, <4>1, <4>2 DEF KeptDist
    <3>2. Built(RunnerDist) /\ Bound(RunnerDist) /\ attempt \in approvals
      BY <2>3, PastGate DEF UploadAsset, At, CompleteInv, PublishInv
    <3>3. bundle[a] = bytes[a] /\ Green(bytes[a])
      BY <3>2 DEF Built, Bound, RunnerDist, OriginInv, AllGreen
    <3>4. Approved(bytes[a])
      BY <3>2, <3>3 DEF Green, Approved
    <3> QED
      BY <2>2, <3>1, <3>3, <3>4, GreenStays
  <2>4. CASE UploadDist \/ UploadSigned \/ ReleaseEnds \/ UNCHANGED <<store, assets>>
    <3>1. assets'.bundle = assets.bundle
      BY <2>1, <2>4 DEF UploadDist, UploadSigned, ReleaseEnds, KeptDist
    <3> QED
      BY <2>2, <3>1
  <2> QED
    BY <2>3, <2>4, KeptSteps
<1>2. /\ "file" \in held'.page => GreenNext(held'.bytes) /\ ApprovedNext(held'.bytes)
      /\ "bundle" \in held'.page => GreenNext(held'.bundle) /\ ApprovedNext(held'.bundle)
      /\ held'.verdict = "passed" => held'.bundle = held'.bytes
  <2>0. /\ held \in HeldType
        /\ "file" \in held.page => GreenNext(held.bytes) /\ ApprovedNext(held.bytes)
        /\ "bundle" \in held.page => GreenNext(held.bundle) /\ ApprovedNext(held.bundle)
        /\ held.verdict = "passed" => held.bundle = held.bytes
    BY GreenStays DEF Typed, VouchedInv
  <2>1. ASSUME NEW a \in Artifacts, FetchesFile(a)
        PROVE  /\ held' = [held EXCEPT !.of = a, !.bytes = assets.bytes[a], !.page = @ \cup {"file"}]
               /\ held.verdict = "none"
               /\ GreenNext(assets.bytes[a]) /\ ApprovedNext(assets.bytes[a])
    BY <2>1, GreenStays DEF FetchesFile, Wants, OriginInv, AllGreen
  <2>2. ASSUME NEW a \in Artifacts, FetchesBundle(a)
        PROVE  /\ held' = [held EXCEPT !.of = a, !.bundle = assets.bundle[a], !.page = @ \cup {"bundle"}]
               /\ held.verdict = "none"
               /\ GreenNext(assets.bundle[a]) /\ ApprovedNext(assets.bundle[a])
    BY <2>2, GreenStays DEF FetchesBundle, Wants, VouchedInv
  <2>3. CASE held' = NoDownload
    BY <2>3 DEF NoDownload
  <2>4. CASE Verifies /\ held' # NoDownload
    <3>1. PICK content \in Got(held.bytes, Bytes \ {Absent}), entry \in Got(held.bundle, Bundles) :
            /\ held' = [held EXCEPT !.bytes = content, !.bundle = entry, !.verdict = "passed"]
            /\ entry = content
      BY <2>4, VerifiesPasses
    <3>2. /\ held'.page = held.page /\ held'.bytes = content /\ held'.bundle = entry
      BY <2>0, <3>1 DEF HeldType
    <3>3. "file" \in held.page => content = held.bytes
      BY <2>0, Values DEF Got, GreenNext
    <3>4. "bundle" \in held.page => entry = held.bundle
      BY <2>0, Values DEF Got, GreenNext
    <3> QED
      BY <2>0, <3>1, <3>2, <3>3, <3>4
  <2>5. CASE \E a \in Artifacts : FetchesFile(a)
    <3>1. PICK a \in Artifacts : FetchesFile(a)
      BY <2>5
    <3>2. /\ held'.page = held.page \cup {"file"} /\ held'.verdict = "none"
          /\ held'.bytes = assets.bytes[a] /\ held'.bundle = held.bundle
      BY <2>0, <2>1, <3>1 DEF HeldType
    <3>3. GreenNext(assets.bytes[a]) /\ ApprovedNext(assets.bytes[a])
      BY <2>1, <3>1
    <3> QED
      BY <2>0, <3>2, <3>3
  <2>6. CASE \E a \in Artifacts : FetchesBundle(a)
    <3>1. PICK a \in Artifacts : FetchesBundle(a)
      BY <2>6
    <3>2. /\ held'.page = held.page \cup {"bundle"} /\ held'.verdict = "none"
          /\ held'.bundle = assets.bundle[a] /\ held'.bytes = held.bytes
      BY <2>0, <2>2, <3>1 DEF HeldType
    <3>3. GreenNext(assets.bundle[a]) /\ ApprovedNext(assets.bundle[a])
      BY <2>2, <3>1
    <3> QED
      BY <2>0, <3>2, <3>3
  <2>7. CASE UNCHANGED held
    BY <2>0, <2>7
  <2> QED
    BY <2>3, <2>4, <2>5, <2>6, <2>7, HeldSteps DEF Consumes
<1> QED
  BY <1>1, <1>2 DEF VouchedInv, Green, GreenNext, Approved, ApprovedNext

LEMMA VouchedInvariance == Spec => []VouchedInv
<1>1. Init => VouchedInv
  BY DEF Init, VouchedInv, EmptyDist, Nothing, NoDownload
<1>2. Typed /\ JobsInv /\ OriginInv /\ CompleteInv /\ VouchedInv /\ [Next]_vars => VouchedInv'
  BY StepVouched
<1> QED
  BY <1>1, <1>2, TypeInvariance, JobsInvariance, OriginInvariance, CompleteInvariance, PTL
  DEF Spec

------------------------------------------------------------------------------
(* Sbom.  The loop is a recursive function over the length of the prefix it *)
(* has read.  Induction on that length is by the least counterexample, an  *)
(* element of a set: a nonempty set of natural numbers has a least member.  *)
LEMMA LeastMember ==
  ASSUME NEW T, T \subseteq Nat, T # {}
  PROVE  \E x \in T : \A y \in T : x <= y
<1> DEFINE R == OpToRel(<, Nat)
<1>1. IsWellFoundedOn(R, Nat)
  BY NatLessThanWellFounded
<1> HIDE DEF R
<1>2. PICK x \in T : \A y \in T : ~(<<y, x>> \in R)
  BY <1>1, WFMin
<1>3. \A y \in T : ~(y < x)
  BY <1>2 DEF R, OpToRel
<1> QED BY <1>2, <1>3

(* The recursive function exists, so its equation holds of it.              *)
LEMMA SeenAfterDef ==
  ASSUME NEW requires \in Seq(Entries), NEW installed
  PROVE  LET seen == SeenAfter(requires, installed)
         IN  seen = [n \in 0..Len(requires) |->
                       IF n = 0 THEN {} ELSE Round(seen[n - 1], requires[n], installed)]
<1> DEFINE L == Len(requires)
           Body(g, n) == IF n = 0 THEN {} ELSE Round(g[n - 1], requires[n], installed)
           Upto(n) == \E g : g = [k \in 0..n |-> Body(g, k)]
           Bad == {n \in 0..L : ~Upto(n)}
<1>0. L \in Nat
  OBVIOUS
<1>1. Upto(0)
  <2>1. [k \in 0..0 |-> {}] = [k \in 0..0 |-> Body([i \in 0..0 |-> {}], k)]
    OBVIOUS
  <2> QED BY <2>1
<1>2. ASSUME NEW n \in 0..L, n # L, Upto(n) PROVE Upto(n + 1)
  <2>1. PICK g : g = [k \in 0..n |-> Body(g, k)]
    BY <1>2
  <2> DEFINE h == [k \in 0..(n + 1) |-> IF k = n + 1
                                       THEN Round(g[n], requires[n + 1], installed)
                                       ELSE g[k]]
  <2>2. ASSUME NEW k \in 0..(n + 1) PROVE h[k] = Body(h, k)
    <3>1. CASE k = n + 1
      BY <3>1, <1>0
    <3>2. CASE k # n + 1
      <4>1. k \in 0..n /\ h[k] = g[k] /\ (k # 0 => h[k - 1] = g[k - 1])
        BY <3>2, <1>0
      <4>2. g[k] = Body(g, k)
        BY <2>1, <4>1
      <4> QED BY <4>1, <4>2
    <3> QED BY <3>1, <3>2
  <2>3. h = [k \in 0..(n + 1) |-> Body(h, k)]
    BY <2>2
  <2> QED BY <2>3
<1> HIDE DEF L, Upto
<1>3. Bad = {}
  <2> SUFFICES ASSUME Bad # {} PROVE FALSE
    OBVIOUS
  <2>1. PICK m \in Bad : \A k \in Bad : m <= k
    <3>1. Bad \subseteq Nat
      BY <1>0
    <3> HIDE DEF Bad
    <3> QED BY <3>1, LeastMember
  <2>2. m # 0
    BY <1>1, <2>1
  <2>3. m - 1 \in 0..L /\ m - 1 # L /\ m - 1 \notin Bad /\ (m - 1) + 1 = m
    BY <2>1, <2>2, <1>0
  <2> QED BY <2>1, <2>3, <1>2
<1>4. Upto(L)
  BY <1>0, <1>3
<1> HIDE DEF Body
<1>5. SeenAfter(requires, installed) = CHOOSE g : g = [k \in 0..L |-> Body(g, k)]
  BY DEF SeenAfter, Body, L
<1>6. SeenAfter(requires, installed) = [k \in 0..L |-> Body(SeenAfter(requires, installed), k)]
  BY <1>4, <1>5 DEF Upto
<1> QED BY <1>6 DEF Body, L
(* The first n entries and what the loop has seen of them: of each package  *)
(* its first sighting, with the version that is installed.                  *)
Sightings(p, requires, n) ==
  {i \in 1..n : requires[i] # NotAName /\ Lower[requires[i].name] = p}

OfPackage(p, seen) == {c \in seen : Lower[c.name] = p}

DescribesFirst(seen, requires, installed, n) ==
  /\ \A c \in seen : c.name \in Names /\ c.installed = (installed[Lower[c.name]] # "none")
  /\ \A p \in Packages :
       /\ Sightings(p, requires, n) = {} => OfPackage(p, seen) = {}
       /\ \A i \in Sightings(p, requires, n) :
            (\A j \in Sightings(p, requires, n) : i <= j) =>
              OfPackage(p, seen) = {ComponentOf(requires[i], installed)}

LEMMA LeastSighting ==
  ASSUME NEW requires \in Seq(Entries), NEW n \in 0..Len(requires), NEW p,
         Sightings(p, requires, n) # {}
  PROVE  \E i \in Sightings(p, requires, n) : \A j \in Sightings(p, requires, n) : i <= j
<1>1. Sightings(p, requires, n) \subseteq Nat
  BY DEF Sightings
<1> QED BY <1>1, LeastMember

(* The replacement that Saw provides for, of a component that is not        *)
(* installed by one that is, never happens: both are looked up by the key.  *)
LEMMA RoundDescribes ==
  ASSUME NEW requires \in Seq(Entries), NEW installed, NEW seen,
         NEW n \in 0..Len(requires), n # Len(requires),
         DescribesFirst(seen, requires, installed, n)
  PROVE  DescribesFirst(Round(seen, requires[n + 1], installed), requires, installed, n + 1)
<1> DEFINE entry == requires[n + 1]
           new == ComponentOf(entry, installed)
           after == Round(seen, entry, installed)
           before(p) == Sightings(p, requires, n)
<1>0. n + 1 \in 1..Len(requires) /\ entry \in Entries /\ n \in Nat
  OBVIOUS
<1>1. CASE entry = NotAName
  <2>1. after = seen
    BY <1>1 DEF Round
  <2>2. \A p : Sightings(p, requires, n + 1) = before(p)
    BY <1>0, <1>1 DEF Sightings
  <2> QED BY <2>1, <2>2 DEF DescribesFirst
<1>2. CASE entry # NotAName
  <2> DEFINE q == Lower[entry.name]
  <2>1. /\ entry.name \in Names /\ q \in Packages
        /\ new.name = entry.name /\ new.installed = (installed[q] # "none")
    BY <1>0, <1>2 DEF Entries, Packages, ComponentOf
  <2>2. /\ \A p : p # q => Sightings(p, requires, n + 1) = before(p)
        /\ Sightings(q, requires, n + 1) = before(q) \cup {n + 1}
    BY <1>0, <1>2 DEF Sightings
  <2>3. {c \in seen : Key(c.name) = Key(new.name)} = OfPackage(q, seen)
    BY <2>1 DEF OfPackage, Key
  <2>4. CASE before(q) = {}
    <3>1. OfPackage(q, seen) = {}
      BY <2>4, <2>1 DEF DescribesFirst
    <3>2. after = seen \cup {new}
      BY <3>1, <2>3, <1>2 DEF Round, Saw
    <3>3. /\ OfPackage(q, after) = {new}
          /\ \A p : p # q => OfPackage(p, after) = OfPackage(p, seen)
      BY <3>1, <3>2, <2>1 DEF OfPackage
    <3>4. \A c \in after : c.name \in Names /\ c.installed = (installed[Lower[c.name]] # "none")
      BY <3>2, <2>1 DEF DescribesFirst
    <3> HIDE DEF after
    <3>5. ASSUME NEW p \in Packages
          PROVE  /\ Sightings(p, requires, n + 1) = {} => OfPackage(p, after) = {}
                 /\ \A i \in Sightings(p, requires, n + 1) :
                      (\A j \in Sightings(p, requires, n + 1) : i <= j) =>
                         OfPackage(p, after) = {ComponentOf(requires[i], installed)}
      <4>1. CASE p = q
        BY <4>1, <2>2, <2>4, <3>3
      <4>2. CASE p # q
        BY <4>2, <2>2, <3>3 DEF DescribesFirst
      <4> QED BY <4>1, <4>2
    <3> QED BY <3>4, <3>5 DEF DescribesFirst, after
  <2>5. CASE before(q) # {}
    <3>1. PICK i \in before(q) : \A j \in before(q) : i <= j
      BY <2>5, LeastSighting
    <3>2. OfPackage(q, seen) = {ComponentOf(requires[i], installed)}
      BY <3>1, <2>1 DEF DescribesFirst
    <3>3. \A c \in OfPackage(q, seen) : c.installed = new.installed
      BY <2>1 DEF DescribesFirst, OfPackage
    <3>4. after = seen
      BY <3>2, <3>3, <2>3, <1>2 DEF Round, Saw
    <3>5. /\ before(q) \subseteq 1..n
          /\ \A k \in before(q) \cup {n + 1} :
               (\A j \in before(q) \cup {n + 1} : k <= j) => k \in before(q)
      BY <1>0, <2>5 DEF Sightings
    <3> HIDE DEF after
    <3>6. ASSUME NEW p \in Packages
          PROVE  /\ Sightings(p, requires, n + 1) = {} => OfPackage(p, seen) = {}
                 /\ \A k \in Sightings(p, requires, n + 1) :
                      (\A j \in Sightings(p, requires, n + 1) : k <= j) =>
                         OfPackage(p, seen) = {ComponentOf(requires[k], installed)}
      <4>1. CASE p = q
        <5>1. ASSUME NEW k \in before(q) \cup {n + 1},
                     \A j \in before(q) \cup {n + 1} : k <= j
              PROVE  OfPackage(q, seen) = {ComponentOf(requires[k], installed)}
          BY <5>1, <3>5, <2>1 DEF DescribesFirst
        <5> QED BY <5>1, <4>1, <2>2
      <4>2. CASE p # q
        BY <4>2, <2>2 DEF DescribesFirst
      <4> QED BY <4>1, <4>2
    <3> QED BY <3>4, <3>6 DEF DescribesFirst, after
  <2> QED BY <2>4, <2>5
<1> QED BY <1>1, <1>2

(* Whatever is declared and installed, the merge is what the reference      *)
(* definition asks for.                                                     *)
LEMMA CollectDescribes ==
  ASSUME NEW requires \in Seq(Entries), NEW installed
  PROVE  /\ DescribesDeclared(CollectComponents(requires, installed), requires, installed)
         /\ {c.name : c \in CollectComponents(requires, installed)} \subseteq Names
<1> DEFINE L == Len(requires)
           seen == SeenAfter(requires, installed)
           Bad == {n \in 0..L : ~DescribesFirst(seen[n], requires, installed, n)}
<1>0. L \in Nat
  OBVIOUS
<1>1. seen = [n \in 0..L |-> IF n = 0 THEN {} ELSE Round(seen[n - 1], requires[n], installed)]
  BY SeenAfterDef
<1> HIDE DEF seen
<1>2. Bad = {}
  <2> SUFFICES ASSUME Bad # {} PROVE FALSE
    OBVIOUS
  <2>1. PICK m \in Bad : \A k \in Bad : m <= k
    <3>1. Bad \subseteq Nat
      BY <1>0
    <3> HIDE DEF Bad
    <3> QED BY <3>1, LeastMember
  <2>2. m # 0
    <3>1. seen[0] = {}
      BY <1>0, <1>1
    <3>2. \A p : Sightings(p, requires, 0) = {}
      BY DEF Sightings
    <3>3. DescribesFirst(seen[0], requires, installed, 0)
      BY <3>1, <3>2 DEF DescribesFirst, OfPackage
    <3> QED BY <3>3
  <2>3. m - 1 \in 0..L /\ m - 1 # L /\ m - 1 \notin Bad /\ (m - 1) + 1 = m
    BY <2>1, <2>2, <1>0
  <2>4. seen[m] = Round(seen[m - 1], requires[m], installed)
    BY <1>1, <2>2, <1>0
  <2>5. DescribesFirst(seen[m], requires, installed, m)
    BY <2>3, <2>4, RoundDescribes
  <2> QED BY <2>5
<1>3. DescribesFirst(seen[L], requires, installed, L)
  BY <1>0, <1>2
<1>4. CollectComponents(requires, installed) = seen[L]
  BY DEF CollectComponents, seen
<1> HIDE DEF L
<1>5. ASSUME NEW p \in Packages
      PROVE  /\ SightingsOf(p, requires) = Sightings(p, requires, L)
             /\ \A i \in Sightings(p, requires, L) :
                  ComponentOf(requires[i], installed) =
                    [name |-> requires[i].name,
                     version |-> IF installed[p] = "none" THEN requires[i].version
                                 ELSE installed[p],
                     installed |-> installed[p] # "none"]
  <2>1. DOMAIN requires = 1..L
    BY DEF L
  <2> QED BY <2>1 DEF SightingsOf, Sightings, ComponentOf
<1>6. ASSUME NEW p \in Packages, Sightings(p, requires, L) # {}
      PROVE  LET first == CHOOSE i \in Sightings(p, requires, L) :
                            \A j \in Sightings(p, requires, L) : i <= j
             IN  /\ first \in Sightings(p, requires, L)
                 /\ OfPackage(p, seen[L]) = {ComponentOf(requires[first], installed)}
  <2>1. \E i \in Sightings(p, requires, L) : \A j \in Sightings(p, requires, L) : i <= j
    BY <1>6, <1>0, LeastSighting DEF L
  <2> QED BY <2>1, <1>3 DEF DescribesFirst
<1>7. ASSUME NEW p \in Packages, Sightings(p, requires, L) = {}
      PROVE  OfPackage(p, seen[L]) = {}
  BY <1>7, <1>3 DEF DescribesFirst
<1>8. ASSUME NEW p \in Packages
      PROVE  LET sightings == SightingsOf(p, requires)
                 of == {c \in seen[L] : Lower[c.name] = p}
             IN  IF sightings = {} THEN of = {}
                 ELSE LET first == requires[CHOOSE i \in sightings :
                                              \A j \in sightings : i <= j]
                      IN  of = {[name |-> first.name,
                                 version |-> IF installed[p] = "none" THEN first.version
                                             ELSE installed[p],
                                 installed |-> installed[p] # "none"]}
  <2>1. SightingsOf(p, requires) = Sightings(p, requires, L)
    BY <1>5
  <2>2. {c \in seen[L] : Lower[c.name] = p} = OfPackage(p, seen[L])
    BY DEF OfPackage
  <2>3. CASE Sightings(p, requires, L) = {}
    BY <2>1, <2>2, <2>3, <1>7
  <2>4. CASE Sightings(p, requires, L) # {}
    <3> DEFINE f == CHOOSE i \in Sightings(p, requires, L) :
                      \A j \in Sightings(p, requires, L) : i <= j
    <3>1. f \in Sightings(p, requires, L) /\ OfPackage(p, seen[L]) = {ComponentOf(requires[f], installed)}
      BY <2>4, <1>6
    <3> HIDE DEF f
    <3>2. OfPackage(p, seen[L]) =
            {[name |-> requires[f].name,
              version |-> IF installed[p] = "none" THEN requires[f].version ELSE installed[p],
              installed |-> installed[p] # "none"]}
      BY <3>1, <1>5
    <3> QED BY <3>2, <2>1, <2>2, <2>4 DEF f
  <2> QED BY <2>3, <2>4
<1>9. DescribesDeclared(CollectComponents(requires, installed), requires, installed)
  BY <1>4, <1>8, Zenon DEF DescribesDeclared
<1>10. {c.name : c \in CollectComponents(requires, installed)} \subseteq Names
  BY <1>3, <1>4 DEF DescribesFirst
<1> QED BY <1>9, <1>10

LEMMA SbomSteps ==
  ASSUME [Next]_vars
  PROVE  \/ \E j \in Jobs : StartJob(j)
         \/ WriteSbom \/ UploadDist \/ UNCHANGED sbom
  BY DEF Next, StepFails, Steps, RequireGreen, Completes, Gitleaks, Scrub, BuildDist, WriteStatement,
         DownloadDist, Downloads, InstallSigstore, SignBegins, Signing, SignEnds, Attest,
         UploadSigned, DownloadSigned, ReleaseBegins, UploadAsset, ReleaseEnds, Review,
         RerunAll, RerunFailed, Rerun, Consumes, vars, runner

LEMMA NoSbomDescribes ==
  DescribesDeclared(NoSbom.components, NoSbom.requires, NoSbom.installed)
  BY DEF DescribesDeclared, NoSbom, SightingsOf

LEMMA SbomTyped == Spec => []SbomOK
<1> DEFINE Made(requires, installed) ==
      [requires |-> requires, installed |-> installed,
       components |-> CollectComponents(requires, installed)]
<1>1. ASSUME sbom = NoSbom PROVE SbomOK
  BY <1>1 DEF SbomOK, NoSbom, InstalledVersions
<1>2. Init => SbomOK
  BY <1>1 DEF Init
<1>3. ASSUME SbomOK, [Next]_vars PROVE SbomOK'
  <2>1. CASE UploadDist \/ \E j \in Jobs : StartJob(j)
    BY <2>1 DEF UploadDist, StartJob, SbomOK, NoSbom, InstalledVersions
  <2>2. CASE WriteSbom
    <3>1. PICK requires \in RequirementLists, installed \in [Packages -> InstalledVersions] :
            sbom' = Made(requires, installed)
      BY <2>2 DEF WriteSbom
    <3>2. {c.name : c \in CollectComponents(requires, installed)} \subseteq Names
      BY RequirementsAssumption, CollectDescribes
    <3> QED
      BY <3>1, <3>2 DEF SbomOK
  <2>3. CASE UNCHANGED sbom
    BY <1>3, <2>3 DEF SbomOK
  <2> QED
    BY <1>3, <2>1, <2>2, <2>3, SbomSteps
<1> QED
  BY <1>2, <1>3, PTL DEF Spec

(* What happens to the step of a job, and where.                            *)
LEMMA StepSteps ==
  ASSUME [Next]_vars
  PROVE  step' = step \/ step' \in StepNames
<1>1. ASSUME NEW j \in Jobs, StartJob(j) \/ StepFails(j) PROVE step' \in StepNames
  BY <1>1, Zenon DEF StartJob, FirstStep, StepFails, EndsJob, StepNames
<1>2. ASSUME NEW j \in Jobs \ {"scrub"}, RequireGreen(j) \/ Completes(j)
      PROVE  step' \in StepNames
  <2>1. step' \in {"idle", SecondStep[j]}
    BY <1>2, Zenon DEF RequireGreen, Completes, Goes, EndsJob
  <2>2. j \in {"build", "provenance", "publish"}
    BY DEF Jobs
  <2>3. SecondStep["build"] \in StepNames
    BY Zenon DEF SecondStep, StepNames
  <2>4. SecondStep["provenance"] \in StepNames
    BY Zenon DEF SecondStep, StepNames
  <2>5. SecondStep["publish"] \in StepNames
    BY Zenon DEF SecondStep, StepNames
  <2>6. "idle" \in StepNames
    BY Zenon DEF StepNames
  <2> QED
    BY <2>1, <2>2, <2>3, <2>4, <2>5, <2>6
<1>3. CASE Gitleaks \/ Scrub \/ BuildDist \/ WriteSbom \/ WriteStatement \/ UploadDist
  BY <1>3, Zenon DEF Gitleaks, Scrub, BuildDist, WriteSbom, WriteStatement, UploadDist,
                     Goes, EndsJob, StepNames
<1>4. CASE DownloadDist \/ InstallSigstore \/ SignEnds \/ Attest \/ UploadSigned
  BY <1>4, Zenon DEF DownloadDist, InstallSigstore, SignEnds, Attest, UploadSigned,
                     Goes, EndsJob, StepNames
<1>5. CASE DownloadSigned \/ ReleaseBegins \/ ReleaseEnds
  BY <1>5, Zenon DEF DownloadSigned, ReleaseBegins, ReleaseEnds, Goes, EndsJob, StepNames
<1>6. CASE SignBegins \/ Signing \/ UploadAsset \/ Review \/ RerunAll \/ RerunFailed
  BY <1>6, Zenon DEF SignBegins, Signing, UploadAsset, Review, RerunAll, RerunFailed, Rerun
<1>7. CASE Consumes \/ UNCHANGED vars
  BY <1>7, Zenon DEF Consumes, vars
<1> QED
  BY <1>1, <1>2, <1>3, <1>4, <1>5, <1>6, <1>7, Zenon DEF Next, Steps

LEMMA StepTyped == Spec => []StepOK
<1>1. Init => StepOK
  BY Zenon DEF Init, StepOK, StepNames
<1>2. StepOK /\ [Next]_vars => StepOK'
  BY StepSteps, Zenon DEF StepOK
<1> QED
  BY <1>1, <1>2, PTL DEF Spec

------------------------------------------------------------------------------
(* release.yml's state: every variable keeps its type.                      *)
THEOREM TypeCorrect == Spec => []TypeOK
<1>1. Typed /\ SbomOK /\ StepOK => TypeOK
  BY TypeParts
<1> QED
  BY <1>1, TypeInvariance, SbomTyped, StepTyped, PTL

(* release.yml:6-8, 166-167.  Although every job always runs, and for any   *)
(* number of attempts, whatever is on the release page or in the run's      *)
(* store was built behind a gate that was green, and approved if published. *)
THEOREM GateHolds == Spec => []PublishedWasGated
<1>1. Typed /\ JobsInv /\ OriginInv => PublishedWasGated
  <2> SUFFICES ASSUME Typed, JobsInv, OriginInv PROVE PublishedWasGated
    OBVIOUS
  <2>1. ASSUME NEW b, Green(b), Approved(b) PROVE Vetted(b)
    BY <2>1 DEF Green, Approved, JobsInv, Gated, Clean, Vetted
  <2> QED
    BY <2>1 DEF OriginInv, AllGreen, Green, PublishedWasGated
<1> QED
  BY <1>1, TypeInvariance, JobsInvariance, OriginInvariance, PTL

(* release.yml:146-149, 186-194 with sigstore_release.py:403-426.  A green  *)
(* publish leaves a complete release, for any number of artifacts.          *)
THEOREM ReleaseComplete == Spec => []GreenReleaseIsComplete
<1>1. Typed /\ CompleteInv => GreenReleaseIsComplete
  BY DEF CompleteInv, PublishInv, Built, Bound, GreenReleaseIsComplete
<1> QED
  BY <1>1, TypeInvariance, CompleteInvariance, PTL

(* sigstore_release.py:237-291 and release.yml:186-194.  While assets are   *)
(* being replaced, and with one half of the pair from anywhere at all: if   *)
(* the page gave the other half, what verify() accepts was vetted.          *)
THEOREM AcceptanceIsGenuine == Spec => []AcceptedIsGenuine
<1>1. Typed /\ JobsInv /\ VouchedInv => AcceptedIsGenuine
  <2> SUFFICES ASSUME Typed, JobsInv, VouchedInv, held.verdict = "passed", held.page # {}
               PROVE  held.bytes \in Attempts /\ Vetted(held.bytes)
    BY DEF AcceptedIsGenuine
  <2>1. "file" \in held.page \/ "bundle" \in held.page
    BY DEF Typed, HeldType
  <2>2. Green(held.bytes) /\ Approved(held.bytes)
    BY <2>1 DEF VouchedInv
  <2> QED
    BY <2>2 DEF Green, Approved, JobsInv, Gated, Clean, Vetted
<1> QED
  BY <1>1, TypeInvariance, JobsInvariance, VouchedInvariance, PTL

(* sbom.py:172-203, "Each declared dep becomes one component".  Whatever is *)
(* declared, in whatever order and spellings, and whatever is installed:    *)
(* one component per package, its first sighting, with the installed        *)
(* version where there is one.                                              *)
THEOREM SbomIsComplete == Spec => []SbomDescribesDeclared
<1> USE DEF SbomDescribesDeclared
<1>1. Init => SbomDescribesDeclared
  BY NoSbomDescribes DEF Init
<1>2. SbomDescribesDeclared /\ [Next]_vars => SbomDescribesDeclared'
  <2> SUFFICES ASSUME SbomDescribesDeclared, [Next]_vars PROVE SbomDescribesDeclared'
    OBVIOUS
  <2>1. CASE UploadDist \/ \E j \in Jobs : StartJob(j)
    BY <2>1, NoSbomDescribes DEF UploadDist, StartJob
  <2>2. CASE WriteSbom
    <3>1. PICK requires \in RequirementLists, installed \in [Packages -> InstalledVersions] :
            sbom' = [requires |-> requires, installed |-> installed,
                     components |-> CollectComponents(requires, installed)]
      BY <2>2 DEF WriteSbom
    <3>2. requires \in Seq(Entries)
      BY RequirementsAssumption
    <3>3. DescribesDeclared(CollectComponents(requires, installed), requires, installed)
      BY <3>2, CollectDescribes
    <3> QED
      BY <3>1, <3>3
  <2>3. CASE UNCHANGED sbom
    BY <2>3
  <2> QED
    BY <2>1, <2>2, <2>3, SbomSteps
<1> QED
  BY <1>1, <1>2, PTL DEF Spec

(* release.yml:6-8, 57-68, 166-177.  The gates hold at the moment of the    *)
(* write, in this attempt and not in an earlier one: the run's store only   *)
(* changes behind a scrub gate that is green now, and the release page only *)
(* while the reviewer's approval of this attempt stands and every job       *)
(* before publish is green, although all jobs run always.                   *)
GatedWrite ==
  /\ store' # store => scrubs[attempt] = "green" /\ result["scrub"] = "success"
  /\ assets' # assets =>
       /\ scrubs[attempt] = "green" /\ attempt \in approvals
       /\ \A j \in Jobs \ {"publish"} : result[j] = "success"

THEOREM WritesAreGated == Spec => [][GatedWrite]_vars
<1>1. Typed /\ JobsInv /\ [Next]_vars => GatedWrite
  <2> SUFFICES ASSUME Typed, JobsInv, [Next]_vars PROVE GatedWrite
    OBVIOUS
  <2> USE DEF GatedWrite
  <2>1. ASSUME NEW j \in Jobs \ {"scrub"}, result[j] = "running" /\ step # "require"
        PROVE  result[Needs[j]] = "success"
    BY <2>1 DEF JobsInv, Chained
  <2>2. ASSUME NEW j \in Jobs \ {"scrub"}, result[j] = "success"
        PROVE  result[Needs[j]] = "success"
    BY <2>2 DEF JobsInv, Chained
  <2>3. result["scrub"] = "success" => scrubs[attempt] = "green"
    BY DEF JobsInv, Gated
  <2>4. CASE UploadDist
    <3>1. result["scrub"] = "success" /\ UNCHANGED assets
      BY <2>1, <2>4 DEF UploadDist, At, Jobs, Needs
    <3> QED
      BY <2>3, <3>1
  <2>5. CASE UploadSigned
    <3>1. result["provenance"] = "running" /\ step # "require" /\ UNCHANGED assets
      BY <2>5 DEF UploadSigned, At
    <3>2. result["build"] = "success"
      BY <2>1, <3>1 DEF Jobs, Needs
    <3>3. result["scrub"] = "success"
      BY <2>2, <3>2 DEF Jobs, Needs
    <3> QED
      BY <2>3, <3>1, <3>3
  <2>6. CASE UploadAsset \/ ReleaseEnds
    <3>1. result["publish"] = "running" /\ step # "require" /\ UNCHANGED store
      BY <2>6 DEF UploadAsset, ReleaseEnds, At
    <3>2. result["provenance"] = "success"
      BY <2>1, <3>1 DEF Jobs, Needs
    <3>3. result["build"] = "success"
      BY <2>2, <3>2 DEF Jobs, Needs
    <3>4. result["scrub"] = "success"
      BY <2>2, <3>3 DEF Jobs, Needs
    <3>5. attempt \in approvals
      BY <3>1 DEF JobsInv, Gated
    <3> QED
      BY <2>3, <3>1, <3>2, <3>3, <3>4, <3>5 DEF Jobs
  <2> QED
    BY <2>4, <2>5, <2>6, KeptSteps
<1> QED
  BY <1>1, TypeInvariance, JobsInvariance, PTL DEF Spec

------------------------------------------------------------------------------
(* The safety half of AttemptEnds: there is no way back in an attempt.      *)

(* The steps of the jobs, each with the one that may follow it. *)
Successive ==
  {<<"gitleaks", "scrub">>,
   <<"require", "build">>, <<"build", "sbom">>, <<"sbom", "slsa">>, <<"slsa", "upload">>,
   <<"require", "download">>, <<"download", "install">>, <<"install", "sign">>,
   <<"sign", "attest">>, <<"attest", "upload signed">>,
   <<"require", "download signed">>, <<"download signed", "release">>,
   <<"release", "upload assets">>,
   <<"upload", "complete">>, <<"upload signed", "complete">>, <<"upload assets", "complete">>}

JobAdvances(j) ==
  \/ result[j] = "pending" /\ result'[j] # "pending"
  \/ result[j] = "running" /\ result'[j] \notin {"pending", "running"}

(* main() of the signer begins once, deals with one artifact after the      *)
(* other, and ends with an exit code.                                       *)
SignerAdvances ==
  \/ phase = "off" /\ exit = "none" /\ (phase' = "loop" \/ exit' # "none")
  \/ phase # "off" /\ phase' = "off" /\ exit' # "none"
  \/ phase = "loop" /\ phase' = "verify" /\ Remaining' = Remaining
  \/ phase' = "loop" /\ Remaining' \subseteq Remaining /\ Remaining' # Remaining

Advances ==
  \/ \E j \in Jobs : JobAdvances(j)
  \/ UNCHANGED result /\ <<step, step'>> \in Successive
  \/ UNCHANGED <<result, step>> /\ uploads' \subseteq uploads /\ uploads' # uploads
  \/ UNCHANGED <<result, step, uploads>> /\ SignerAdvances

(* release.yml with sigstore_release.py:399-426.  Within an attempt no job  *)
(* reopens, and whatever the workflow does by itself takes it further: a    *)
(* job starts or ends, or its next step begins, or there is one file less   *)
(* to upload, or the signer is done with one thing more.                    *)
AttemptAdvances ==
  /\ attempt' = attempt => \A j \in Jobs : result'[j] = result[j] \/ JobAdvances(j)
  /\ Steps \/ (\E j \in Jobs : StartJob(j)) => attempt' = attempt /\ Advances

LEMMA JobsAdvance ==
  ASSUME Typed, [Next]_vars, attempt' = attempt, NEW j \in Jobs
  PROVE  result'[j] = result[j] \/ JobAdvances(j)
<1> USE DEF JobAdvances
<1>1. /\ result \in [Jobs -> {"pending", "running", "success", "failure", "cancelled"}]
      /\ attempt \in Nat
  BY Values DEF Typed, JobsOK
<1>2. ASSUME NEW k \in Jobs, StartJob(k) PROVE result'[j] = result[j] \/ JobAdvances(j)
  BY <1>1, <1>2 DEF StartJob
<1>3. ASSUME NEW k \in Jobs, JobGoes(k) \/ JobEnds(k)
      PROVE  result'[j] = result[j] \/ JobAdvances(j)
  BY <1>1, <1>3 DEF JobGoes, JobEnds
<1>4. ASSUME Review PROVE result'[j] = result[j] \/ JobAdvances(j)
  BY <1>1, <1>4 DEF Review
<1>5. ~RerunAll /\ ~RerunFailed
  BY <1>1 DEF RerunAll, RerunFailed, Rerun
<1> QED
  BY <1>2, <1>3, <1>4, <1>5, JobSteps

(* A job that starts or ends. *)
LEMMA StartsAndEndsAdvance ==
  ASSUME Typed, NEW j \in Jobs,
         \/ StartJob(j)
         \/ result[j] = "running" /\ \E how \in {"success", "failure", "cancelled"} :
                                       EndsJob(j, how)
  PROVE  Advances
<1>1. result \in [Jobs -> {"pending", "running", "success", "failure", "cancelled"}]
  BY DEF Typed, JobsOK
<1>2. JobAdvances(j)
  BY <1>1 DEF StartJob, EndsJob, JobAdvances
<1> QED
  BY <1>2, Zenon DEF Advances

(* A step that leads to the next. *)
LEMMA GoingAdvances ==
  ASSUME NEW j \in Jobs, NEW s, NEW t, At(j, s), Goes(t), <<s, t>> \in Successive
  PROVE  Advances
<1>1. UNCHANGED result /\ <<step, step'>> \in Successive
  BY Zenon DEF At, Goes
<1> QED
  BY <1>1, Zenon DEF Advances

LEMMA SuccessiveSteps ==
  /\ <<"gitleaks", "scrub">> \in Successive
  /\ <<"require", "build">> \in Successive /\ <<"build", "sbom">> \in Successive
  /\ <<"sbom", "slsa">> \in Successive /\ <<"slsa", "upload">> \in Successive
  /\ <<"require", "download">> \in Successive /\ <<"download", "install">> \in Successive
  /\ <<"install", "sign">> \in Successive /\ <<"sign", "attest">> \in Successive
  /\ <<"attest", "upload signed">> \in Successive
  /\ <<"require", "download signed">> \in Successive
  /\ <<"download signed", "release">> \in Successive
  /\ <<"release", "upload assets">> \in Successive /\ <<"upload", "complete">> \in Successive
  /\ <<"upload signed", "complete">> \in Successive
  /\ <<"upload assets", "complete">> \in Successive
  BY Zenon DEF Successive

(* The signer concludes an artifact, and never one it had concluded.        *)
LEMMA SigningAdvances ==
  ASSUME Typed, SignBegins \/ Signing
  PROVE  UNCHANGED <<attempt, result, step, uploads>> /\ SignerAdvances
<1>1. UNCHANGED <<attempt, result, step, uploads>>
  BY DEF SignBegins, Signing
<1>2. statuses \in [Artifacts -> SigningStatus \cup {"none"}]
  BY DEF Typed, ProcessOK
<1>3. ASSUME NEW a \in Artifacts, NEW s, s # "none", IsCurrent(a), Concludes(a, s)
      PROVE  /\ phase' = "loop"
             /\ Remaining' \subseteq Remaining /\ Remaining' # Remaining
  <2>1. /\ phase' = "loop" /\ bytes' = bytes
        /\ statuses' = [statuses EXCEPT ![a] = s]
        /\ a \in Remaining
    BY <1>3 DEF Concludes, IsCurrent
  <2>2. Remaining' = Remaining \ {a}
    BY <1>2, <1>3, <2>1 DEF Remaining, Listed
  <2> HIDE DEF Remaining
  <2> QED
    BY <2>1, <2>2
<1>4. CASE SignBegins
  BY <1>4 DEF SignBegins, MainBegins, SignerAdvances
<1>5. CASE Signing
  <2>1. ASSUME NEW a \in Artifacts, SignSkips(a) \/ SignFails(a) PROVE SignerAdvances
    BY <1>3, <2>1 DEF SignSkips, SignFails, SignerAdvances
  <2>2. ASSUME NEW a \in Artifacts, WritesBundle(a) PROVE SignerAdvances
    BY <2>2 DEF WritesBundle, SignerAdvances, Remaining, Listed
  <2>3. ASSUME NEW a \in Artifacts, VerifyAfterSign(a) PROVE SignerAdvances
    <3>1. PICK verdict \in Verdicts(bytes[a], bundle[a]) : Concludes(a, StatusAfter(verdict))
      BY <2>3 DEF VerifyAfterSign
    <3>2. StatusAfter(verdict) # "none" /\ IsCurrent(a)
      BY <2>3 DEF VerifyAfterSign, StatusAfter
    <3> QED
      BY <1>3, <3>1, <3>2 DEF SignerAdvances
  <2>4. ASSUME MainReturns PROVE SignerAdvances
    BY <2>4 DEF MainReturns, ExitCode, SignerAdvances
  <2>5. ASSUME MainRaises PROVE SignerAdvances
    BY <2>5 DEF MainRaises, SignerAdvances
  <2> QED
    BY <1>5, <2>1, <2>2, <2>3, <2>4, <2>5 DEF Signing, SignerRuns
<1> QED
  BY <1>1, <1>4, <1>5

LEMMA StepsAdvance ==
  ASSUME Typed, Steps
  PROVE  Advances
<1>1. CASE \E j \in Jobs \ {"scrub"} : RequireGreen(j)
  <2>1. PICK j \in Jobs \ {"scrub"} : RequireGreen(j)
    BY <1>1
  <2>2. CASE IsGreen(j)
    <3>1. At(j, "require") /\ Goes(SecondStep[j])
      BY <2>1, <2>2, Zenon DEF RequireGreen
    <3>2. j \in {"build", "provenance", "publish"}
      BY <2>1 DEF Jobs
    <3>3. <<"require", SecondStep[j]>> \in Successive
      <4>1. CASE j = "build"
        <5>1. SecondStep[j] = "build"
          BY <4>1, Zenon DEF SecondStep
        <5> QED
          BY <5>1, SuccessiveSteps, Zenon
      <4>2. CASE j = "provenance"
        <5>1. SecondStep[j] = "download"
          BY <4>2, Zenon DEF SecondStep
        <5> QED
          BY <5>1, SuccessiveSteps, Zenon
      <4>3. CASE j = "publish"
        <5>1. SecondStep[j] = "download signed"
          BY <4>3, Zenon DEF SecondStep
        <5> QED
          BY <5>1, SuccessiveSteps, Zenon
      <4> QED
        BY <3>2, <4>1, <4>2, <4>3
    <3> QED
      BY <3>1, <3>3, GoingAdvances, Zenon
  <2>3. CASE ~IsGreen(j)
    BY <2>1, <2>3, StartsAndEndsAdvance DEF RequireGreen, At
  <2> QED
    BY <2>2, <2>3
<1>2. CASE Gitleaks \/ BuildDist \/ WriteSbom \/ DownloadDist \/ InstallSigstore
  <2>1. \/ At("scrub", "gitleaks") /\ Goes("scrub")
        \/ At("build", "build") /\ Goes("sbom")
        \/ At("build", "sbom") /\ Goes("slsa")
        \/ At("provenance", "download") /\ Goes("install")
        \/ At("provenance", "install") /\ Goes("sign")
    BY <1>2, Zenon DEF Gitleaks, BuildDist, WriteSbom, DownloadDist, InstallSigstore
  <2>2. {"scrub", "build", "provenance"} \subseteq Jobs
    BY DEF Jobs
  <2> QED
    BY <2>1, <2>2, SuccessiveSteps, GoingAdvances, Zenon
<1>3. CASE Attest \/ DownloadSigned
  <2>1. \/ At("provenance", "attest") /\ Goes("upload signed")
        \/ At("publish", "download signed") /\ Goes("release")
    BY <1>3, Zenon DEF Attest, DownloadSigned
  <2>2. {"provenance", "publish"} \subseteq Jobs
    BY DEF Jobs
  <2> QED
    BY <2>1, <2>2, SuccessiveSteps, GoingAdvances, Zenon
<1>4. CASE WriteStatement \/ SignEnds \/ ReleaseBegins
  <2>1. \/ At("build", "slsa") /\ Goes("upload")
        \/ At("provenance", "sign") /\ Goes("attest")
        \/ At("publish", "release") /\ Goes("upload assets")
        \/ At("build", "slsa") /\ EndsJob("build", "failure")
        \/ At("provenance", "sign") /\ EndsJob("provenance", "failure")
        \/ At("publish", "release") /\ EndsJob("publish", "failure")
    BY <1>4, Zenon DEF WriteStatement, SignEnds, ReleaseBegins
  <2>2. {"build", "provenance", "publish"} \subseteq Jobs
    BY DEF Jobs
  <2>3. ASSUME NEW j \in Jobs, NEW s, At(j, s), EndsJob(j, "failure") PROVE Advances
    BY <2>3, StartsAndEndsAdvance DEF At
  <2> QED
    BY <2>1, <2>2, <2>3, SuccessiveSteps, GoingAdvances, Zenon
<1>5. CASE UploadDist \/ UploadSigned \/ ReleaseEnds
  <2>1. \/ At("build", "upload") /\ Goes("complete")
        \/ At("provenance", "upload signed") /\ Goes("complete")
        \/ At("publish", "upload assets") /\ Goes("complete")
    BY <1>5, Zenon DEF UploadDist, UploadSigned, ReleaseEnds
  <2>2. {"build", "provenance", "publish"} \subseteq Jobs
    BY DEF Jobs
  <2> QED
    BY <2>1, <2>2, SuccessiveSteps, GoingAdvances, Zenon
<1>8. CASE Scrub \/ \E j \in Jobs \ {"scrub"} : Completes(j)
  <2>1. PICK j \in Jobs : /\ result[j] = "running"
                          /\ \E how \in {"success", "failure"} : EndsJob(j, how)
    BY <1>8, Zenon DEF Scrub, Completes, At, Jobs
  <2> QED
    BY <2>1, StartsAndEndsAdvance
<1>6. CASE UploadAsset
  <2>1. UNCHANGED <<result, step>> /\ \E u \in uploads : uploads' = uploads \ {u}
    BY <1>6, Zenon DEF UploadAsset
  <2>2. uploads' \subseteq uploads /\ uploads' # uploads
    BY <2>1
  <2> QED
    BY <2>1, <2>2, Zenon DEF Advances
<1>7. CASE SignBegins \/ Signing
  BY <1>7, SigningAdvances, Zenon DEF Advances
<1> QED
  BY <1>1, <1>2, <1>3, <1>4, <1>5, <1>6, <1>7, <1>8 DEF Steps

THEOREM AttemptsAdvance == Spec => [][AttemptAdvances]_vars
<1>1. Typed /\ [Next]_vars => [AttemptAdvances]_vars
  <2> SUFFICES ASSUME Typed, [Next]_vars PROVE AttemptAdvances
    OBVIOUS
  <2>1. attempt' = attempt => \A j \in Jobs : result'[j] = result[j] \/ JobAdvances(j)
    BY JobsAdvance
  <2>2. Steps \/ (\E j \in Jobs : StartJob(j)) => Advances
    BY StepsAdvance, StartsAndEndsAdvance
  <2>3. Steps \/ (\E j \in Jobs : StartJob(j)) => attempt' = attempt
    BY DEF StartJob, Steps, RequireGreen, Completes, Gitleaks, Scrub, BuildDist, WriteSbom,
           WriteStatement, UploadDist, DownloadDist, InstallSigstore, SignBegins, Signing,
           SignEnds, Attest, UploadSigned, DownloadSigned, ReleaseBegins, UploadAsset,
           ReleaseEnds
  <2> QED
    BY <2>1, <2>2, <2>3, Zenon DEF AttemptAdvances
<1> QED
  BY <1>1, TypeInvariance, PTL DEF Spec

==============================================================================
