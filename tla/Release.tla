-------------------------------- MODULE Release --------------------------------
(***************************************************************************)
(* .github/workflows/release.yml: four jobs in a row, each run whatever    *)
(* became of the one before (`if: always()`), and each but the first with  *)
(* a step of its own that requires that one to be green.  A run of the     *)
(* workflow may be run again, from the start or from what failed; the      *)
(* artifact store of the run and the assets of the GitHub release outlive  *)
(* its attempts, a runner does not outlive its job.                        *)
(*                                                                         *)
(* Composes the scrubber (SecretScrub), the SBOM builder (Sbom) and        *)
(* main() of the release signer (ReleaseSigner); verify() of the latter is *)
(* run by a consumer, who downloads files while they may be replaced.      *)
(* GitHub and the actions it offers are external: any step may fail, be    *)
(* cancelled or time out.  One commit is released: tags do not move.       *)
(***************************************************************************)
EXTENDS ReleaseSigner, SecretScrub, Sbom

CONSTANTS
  MaxAttempts,        \* attempts of the run; each builds at most once
  Trees,              \* trees the commit may have: sets of Files
  FlagSets,           \* options a workflow may give the scrubber
  RequirementLists    \* what pyproject.toml may declare: sequences of Entries

ASSUME MaxAttemptsAssumption == MaxAttempts = MaxBuilds
ASSUME TreesAssumption == \A tree \in Trees : tree \subseteq Files
ASSUME RequirementsAssumption == RequirementLists \subseteq Seq(Entries)

Jobs == {"scrub", "build", "provenance", "publish"}
Needs == [build |-> "scrub", provenance |-> "build", publish |-> "provenance"]

VARIABLES
  tree, flags,   \* the commit: its files, and its workflow's scrub options
  attempt,       \* which attempt of the run this is
  result,        \* job |-> "pending", "running", or how it ended
  step,          \* the running job's step, or "idle"
  review,        \* the release environment: "none", "approved", "rejected"
  statement,     \* the runner's SLSA statement: artifact |-> subject digest
  sbom,          \* the runner's SBOM and what it was made from
  store,         \* the run's artifacts "dist" and "dist-signed"
  assets,        \* the GitHub release
  uploads,       \* files that action-gh-release has yet to upload
  held,          \* a consumer's file and bundle, which of them the release
                 \* page gave, and what verify() said
  scrubs,        \* history: attempt |-> what its scrub gate said
  approvals      \* history: attempts that the reviewer approved

commit == <<tree, flags>>
process == <<lib, statuses, phase, exit>>
runner == <<bytes, bundle, statement, sbom>>
history == <<scrubs, approvals>>
vars == <<commit, attempt, result, step, review, process, runner, store,
          assets, uploads, held, history>>

Attempts == 1..MaxAttempts
Dist == [bytes : [Artifacts -> Bytes], bundle : [Artifacts -> Bundles],
         statement : [Artifacts -> Bytes]]
EmptyDist == [bytes |-> Nothing, bundle |-> Nothing, statement |-> Nothing]
NoSbom == [requires |-> <<>>, installed |-> [p \in Packages |-> "none"],
           components |-> {}]
NoDownload ==
  [of |-> 0, bytes |-> Absent, bundle |-> Absent, page |-> {}, verdict |-> "none"]

Init ==
  /\ tree \in Trees
  /\ flags \in FlagSets
  /\ attempt = 1
  /\ result = [j \in Jobs |-> "pending"]
  /\ step = "idle"
  /\ review = "none"
  /\ SignerInit
  /\ statement = Nothing
  /\ sbom = NoSbom
  /\ store = [dist |-> EmptyDist, signed |-> EmptyDist]
  /\ assets = EmptyDist
  /\ uploads = {}
  /\ held = NoDownload
  /\ scrubs = [k \in Attempts |-> "none"]
  /\ approvals = {}

Finished(j) == result[j] \notin {"pending", "running"}
AllFinished == \A j \in Jobs : Finished(j)

------------------------------------------------------------------------------
(* Jobs *)

FirstStep(j) == IF j = "scrub" THEN "gitleaks" ELSE "require"

(* Every job gets a fresh runner. *)
StartJob(j) ==
  /\ result[j] = "pending"
  /\ \A k \in Jobs : result[k] # "running"
  /\ j # "scrub" => Finished(Needs[j])
  /\ j = "publish" => review = "approved"
  /\ result' = [result EXCEPT ![j] = "running"]
  /\ step' = FirstStep(j)
  /\ bytes' = Nothing /\ bundle' = Nothing
  /\ statement' = Nothing /\ sbom' = NoSbom
  /\ lib' = "absent" /\ statuses' = Unsigned /\ exit' = "none"
  /\ UNCHANGED <<commit, attempt, review, phase, store, assets, uploads, held, history>>

EndsJob(j, how) ==
  /\ result' = [result EXCEPT ![j] = how]
  /\ step' = "idle"

(* Succeeding at one step leads to the next; the rest is skipped after a    *)
(* step that fails.                                                         *)
At(j, s) == result[j] = "running" /\ step = s
Goes(s) == step' = s /\ UNCHANGED result

(* The last step of a job has done its work, but it can still be cancelled. *)
Completes(j) ==
  /\ At(j, "complete")
  /\ EndsJob(j, "success")
  /\ UNCHANGED <<commit, attempt, review, process, runner, store, assets,
                 uploads, held, history>>

(* "Require ... green": the first step of build, provenance and publish,    *)
(* with a gate that only stops a job after a failed one, and as it is.      *)
SecondStep == [build |-> "build", provenance |-> "download", publish |-> "download signed"]
NotFailed(j) == result[Needs[j]] # "failure"
IsGreen(j) == result[Needs[j]] = "success"

RequireGreen(j) ==
  /\ At(j, "require")
  /\ IF IsGreen(j) THEN Goes(SecondStep[j]) ELSE EndsJob(j, "failure")
  /\ UNCHANGED <<commit, attempt, review, process, runner, store, assets,
                 uploads, held, history>>

(* A network, a runner, an action or a tool fails, the job times out or is  *)
(* cancelled; nothing that it was running goes on.                          *)
StepFails(j) ==
  /\ result[j] = "running"
  /\ \E how \in {"failure", "cancelled"} : EndsJob(j, how)
  /\ phase' = "off"
  /\ uploads' = {}
  /\ scrubs' = IF j = "scrub" THEN [scrubs EXCEPT ![attempt] = "red"] ELSE scrubs
  /\ UNCHANGED <<commit, attempt, review, lib, statuses, exit, runner, store,
                 assets, held, approvals>>

------------------------------------------------------------------------------
(* scrub-gate *)

Gitleaks ==
  /\ At("scrub", "gitleaks")
  /\ Goes("scrub")
  /\ UNCHANGED <<commit, attempt, review, process, runner, store, assets,
                 uploads, held, history>>

Scrub ==
  /\ At("scrub", "scrub")
  /\ LET green == ScrubExit(flags, tree) = 0
     IN  /\ EndsJob("scrub", IF green THEN "success" ELSE "failure")
         /\ scrubs' = [scrubs EXCEPT ![attempt] = IF green THEN "green" ELSE "red"]
  /\ UNCHANGED <<commit, attempt, review, process, runner, store, assets,
                 uploads, held, approvals>>

------------------------------------------------------------------------------
(* build *)

BuildDist ==
  /\ At("build", "build")
  /\ Goes("sbom")
  /\ bytes' = [a \in Artifacts |-> attempt]
  /\ UNCHANGED <<commit, attempt, review, process, bundle, statement, sbom,
                 store, assets, uploads, held, history>>

WriteSbom ==
  /\ At("build", "sbom")
  /\ Goes("slsa")
  /\ \E requires \in RequirementLists, installed \in [Packages -> InstalledVersions] :
       sbom' = [requires |-> requires, installed |-> installed,
                components |-> CollectComponents(requires, installed)]
  /\ UNCHANGED <<commit, attempt, review, process, bytes, bundle, statement,
                 store, assets, uploads, held, history>>

(* slsa.py hashes each artifact that is named to it, and refuses to name    *)
(* none.                                                                    *)
Subjects == bytes
WriteStatement ==
  /\ At("build", "slsa")
  /\ IF Listed = {} THEN EndsJob("build", "failure") /\ UNCHANGED statement
     ELSE Goes("upload") /\ statement' = Subjects
  /\ UNCHANGED <<commit, attempt, review, process, bytes, bundle, sbom, store,
                 assets, uploads, held, history>>

RunnerDist == [bytes |-> bytes, bundle |-> bundle, statement |-> statement]

(* The SBOM is uploaded too; its further way is that of the statement.      *)
UploadDist ==
  /\ At("build", "upload")
  /\ Goes("complete")
  /\ store' = [store EXCEPT !.dist = RunnerDist]
  /\ sbom' = NoSbom
  /\ UNCHANGED <<commit, attempt, review, process, bytes, bundle, statement,
                 assets, uploads, held, history>>

------------------------------------------------------------------------------
(* provenance *)

Downloads(dist) ==
  /\ bytes' = dist.bytes
  /\ bundle' = dist.bundle
  /\ statement' = dist.statement
  /\ UNCHANGED sbom

DownloadDist ==
  /\ At("provenance", "download")
  /\ Goes("install")
  /\ Downloads(store.dist)
  /\ UNCHANGED <<commit, attempt, review, process, store, assets, uploads, held, history>>

(* The workflow pins a version at the floor; whether python then finds it   *)
(* is up to the runner.                                                     *)
InstallSigstore ==
  /\ At("provenance", "install")
  /\ Goes("sign")
  /\ lib' \in {"good", "low", "absent"}
  /\ UNCHANGED <<commit, attempt, review, statuses, phase, exit, runner, store,
                 assets, uploads, held, history>>

SignBegins ==
  /\ At("provenance", "sign")
  /\ exit = "none" /\ MainBegins
  /\ UNCHANGED <<commit, attempt, result, step, review, statement, sbom, store,
                 assets, uploads, held, history>>

Signing ==
  /\ At("provenance", "sign")
  /\ SignerRuns
  /\ UNCHANGED <<commit, attempt, result, step, review, statement, sbom, store,
                 assets, uploads, held, history>>

SignEnds ==
  /\ At("provenance", "sign")
  /\ phase = "off" /\ exit # "none"
  /\ IF exit = "ok" THEN Goes("attest") ELSE EndsJob("provenance", "failure")
  /\ UNCHANGED <<commit, attempt, review, process, runner, store, assets,
                 uploads, held, history>>

Attest ==
  /\ At("provenance", "attest")
  /\ Goes("upload signed")
  /\ UNCHANGED <<commit, attempt, review, process, runner, store, assets,
                 uploads, held, history>>

UploadSigned ==
  /\ At("provenance", "upload signed")
  /\ Goes("complete")
  /\ store' = [store EXCEPT !.signed = RunnerDist]
  /\ UNCHANGED <<commit, attempt, review, process, runner, assets, uploads, held, history>>

------------------------------------------------------------------------------
(* publish *)

(* The reviewer is asked once provenance has ended, however it ended. *)
Review ==
  /\ result["publish"] = "pending"
  /\ review = "none"
  /\ Finished("provenance")
  /\ \/ /\ review' = "approved"
        /\ approvals' = approvals \cup {attempt}
        /\ UNCHANGED result
     \/ /\ review' = "rejected"
        /\ result' = [result EXCEPT !["publish"] = "failure"]
        /\ UNCHANGED approvals
  /\ UNCHANGED <<commit, attempt, step, process, runner, store, assets,
                 uploads, held, scrubs>>

DownloadSigned ==
  /\ At("publish", "download signed")
  /\ Goes("release")
  /\ Downloads(store.signed)
  /\ UNCHANGED <<commit, attempt, review, process, store, assets, uploads, held, history>>

(* fail_on_unmatched_files: each pattern must match at least one file.      *)
Wanted(dist) ==
  {<<a, "file">> : a \in {b \in Artifacts : dist.bytes[b] # Absent}}
  \cup {<<a, "bundle">> : a \in {b \in Artifacts : dist.bundle[b] # Absent}}

ReleaseBegins ==
  /\ At("publish", "release")
  /\ IF Listed = {} \/ bundle = Nothing
     THEN EndsJob("publish", "failure") /\ UNCHANGED uploads
     ELSE Goes("upload assets") /\ uploads' = Wanted(RunnerDist)
  /\ UNCHANGED <<commit, attempt, review, process, runner, store, assets, held, history>>

(* One file at a time, replacing an asset of the same name. *)
UploadAsset ==
  /\ At("publish", "upload assets")
  /\ \E u \in uploads :
       /\ uploads' = uploads \ {u}
       /\ assets' = IF u[2] = "file" THEN [assets EXCEPT !.bytes[u[1]] = bytes[u[1]]]
                    ELSE [assets EXCEPT !.bundle[u[1]] = bundle[u[1]]]
  /\ UNCHANGED <<commit, attempt, result, step, review, process, runner, store,
                 held, history>>

ReleaseEnds ==
  /\ At("publish", "upload assets")
  /\ uploads = {}
  /\ assets' = [assets EXCEPT !.statement = statement]
  /\ Goes("complete")
  /\ UNCHANGED <<commit, attempt, review, process, runner, store, uploads, held, history>>

------------------------------------------------------------------------------
(* Running it again: all jobs, or those that did not succeed (of which each *)
(* one downstream of a failed one is).                                      *)
Rerun(keep) ==
  /\ AllFinished
  /\ attempt < MaxAttempts
  /\ attempt' = attempt + 1
  /\ result' = [j \in Jobs |-> IF j \in keep THEN "success" ELSE "pending"]
  /\ review' = "none"
  /\ scrubs' = [scrubs EXCEPT ![attempt + 1] =
                  IF "scrub" \in keep THEN scrubs[attempt] ELSE "none"]
  /\ UNCHANGED <<commit, step, process, runner, store, assets, uploads, held, approvals>>

RerunAll == Rerun({})
RerunFailed == (\E j \in Jobs : result[j] # "success")
               /\ Rerun({j \in Jobs : result[j] = "success"})

------------------------------------------------------------------------------
(* A consumer gets a file and its bundle from the release page, in any      *)
(* order and while they may be replaced; has what is missing from anywhere  *)
(* else, which also stands for bytes altered on their way; and calls        *)
(* verify(), with the library in whatever state, and maybe with a client of *)
(* its own.  Without a "passed" everything is thrown away.                  *)
Wants(a, half) == held.of \in {0, a} /\ held.verdict = "none" /\ half = Absent

FetchesFile(a) ==
  /\ Wants(a, held.bytes) /\ assets.bytes[a] # Absent
  /\ held' = [held EXCEPT !.of = a, !.bytes = assets.bytes[a], !.page = @ \cup {"file"}]

FetchesBundle(a) ==
  /\ Wants(a, held.bundle) /\ assets.bundle[a] # Absent
  /\ held' = [held EXCEPT !.of = a, !.bundle = assets.bundle[a], !.page = @ \cup {"bundle"}]

Got(half, elsewhere) == IF half = Absent THEN elsewhere ELSE {half}

Verifies ==
  /\ assets # EmptyDist /\ held.verdict = "none"
  /\ \E content \in Got(held.bytes, Bytes \ {Absent}), entry \in Got(held.bundle, Bundles),
        library \in {"good", "low", "absent"}, injected \in BOOLEAN :
       IF PreconditionSkips(library, injected) THEN held' = NoDownload
       ELSE \E verdict \in Verdicts(content, entry) :
              held' = IF verdict = "passed"
                      THEN [held EXCEPT !.bytes = content, !.bundle = entry, !.verdict = verdict]
                      ELSE NoDownload

Consumes ==
  /\ \/ Verifies
     \/ \E a \in Artifacts : FetchesFile(a) \/ FetchesBundle(a)
  /\ UNCHANGED <<commit, attempt, result, step, review, process, runner, store,
                 assets, uploads, history>>

------------------------------------------------------------------------------
(* What a started job does by itself. *)
Steps ==
  \/ \E j \in Jobs \ {"scrub"} : RequireGreen(j) \/ Completes(j)
  \/ Gitleaks \/ Scrub
  \/ BuildDist \/ WriteSbom \/ WriteStatement \/ UploadDist
  \/ DownloadDist \/ InstallSigstore \/ SignBegins \/ Signing \/ SignEnds
  \/ Attest \/ UploadSigned
  \/ DownloadSigned \/ ReleaseBegins \/ UploadAsset \/ ReleaseEnds

Next ==
  \/ \E j \in Jobs : StartJob(j) \/ StepFails(j)
  \/ Steps
  \/ Review
  \/ RerunAll \/ RerunFailed
  \/ Consumes

Spec == Init /\ [][Next]_vars

(* A job that waits for nothing is started, and a step that has begun ends: *)
(* jobs are bounded by GitHub's time limit.  No reviewer needs to answer.   *)
FairSpec == Spec /\ WF_vars(Steps \/ \E j \in Jobs : StartJob(j))

------------------------------------------------------------------------------
StepNames ==
  {"idle", "gitleaks", "scrub", "require", "build", "sbom", "slsa", "upload",
   "download", "install", "sign", "attest", "upload signed", "download signed",
   "release", "upload assets", "complete"}

(* Every variable has its type. *)
TypeOK ==
  /\ tree \in Trees
  /\ flags \in FlagSets
  /\ attempt \in Attempts
  /\ result \in [Jobs -> {"pending", "running", "success", "failure", "cancelled"}]
  /\ step \in StepNames
  /\ review \in {"none", "approved", "rejected"}
  /\ SignerTypeOK
  /\ statement \in [Artifacts -> Bytes]
  /\ sbom.requires \in RequirementLists \cup {<<>>}
  /\ sbom.installed \in [Packages -> InstalledVersions]
  /\ {c.name : c \in sbom.components} \subseteq Names
  /\ store \in [dist : Dist, signed : Dist]
  /\ assets \in Dist
  /\ uploads \subseteq Artifacts \X {"file", "bundle"}
  /\ held \in [of : Artifacts \cup {0}, bytes : Bytes, bundle : Bundles,
               page : SUBSET {"file", "bundle"}, verdict : {"none", "passed"}]
  /\ scrubs \in [Attempts -> {"none", "green", "red"}]
  /\ approvals \subseteq Attempts

(* A file that holds key material, and the reasons for which the scrubber   *)
(* leaves one alone: it skips the directory, the path is a fixture's, or    *)
(* the content is in a path that may name secrets, cannot be read, or lies  *)
(* beyond the part that is read.                                            *)
HoldsKeys(file) == file.keyName \/ file.body # "clean"
LetThrough(file) ==
  \/ file.skipped \/ file.fixture
  \/ ~file.keyName /\ (file.named \/ ~file.readable \/ file.body = "late")

(* Bytes with a clean past: the gate of the attempt that built them was     *)
(* green, the scrubber had understood its options and found no key it could *)
(* see, and a reviewer has approved since.                                  *)
Vetted(build) ==
  /\ scrubs[build] = "green"
  /\ flags \subseteq ScrubOptions
  /\ \A file \in tree : HoldsKeys(file) => LetThrough(file)
  /\ \E k \in approvals : build <= k

(* release.yml:6-8, "No build, no sign, no publish happens unless the scrub *)
(* is green", and 166-167: although every job runs always, in all attempts, *)
(* whatever is on the release page or in the run's store was vetted (in the *)
(* store, but for the approval).                                            *)
PublishedWasGated ==
  /\ \A a \in Artifacts : assets.bytes[a] # Absent => Vetted(assets.bytes[a])
  /\ \A a \in Artifacts :
       store.dist.bytes[a] # Absent => scrubs[store.dist.bytes[a]] = "green"

(* release.yml:146-149, 186-194 with sigstore_release.py:403-426.  Only one *)
(* bundle has to match the publisher's pattern, so it is main()'s exit code *)
(* that a green publish rests on: every file then has a bundle that records *)
(* its own digest, and is a subject of the statement beside it, also when a *)
(* second attempt replaced a first one's assets one by one.                 *)
GreenReleaseIsComplete ==
  result["publish"] = "success" =>
    \A a \in Artifacts :
      /\ assets.bytes[a] # Absent
      /\ assets.bundle[a] = assets.bytes[a]
      /\ assets.statement[a] = assets.bytes[a]

(* sigstore_release.py:237-291, the digest-bound bundle, with release.yml.  *)
(* Bundles are written before they are verified, stay when they are         *)
(* rejected, are uploaded one by one and may be fetched half-way through a  *)
(* replacement.  Still it is enough that one half of what verify() accepts  *)
(* came from the release page, whatever the other half is: then the file is *)
(* of a build that was vetted.  (Of a pair that came from elsewhere nothing *)
(* is said: verify() asks nobody who signed.)                               *)
AcceptedIsGenuine ==
  held.verdict = "passed" /\ held.page # {} =>
    held.bytes \in Attempts /\ Vetted(held.bytes)

(* sbom.py:172-203, "Each declared dep becomes one component", whatever its *)
(* spellings; with the version that is installed where there is one.        *)
SbomDescribesDeclared ==
  DescribesDeclared(sbom.components, sbom.requires, sbom.installed)

(* An attempt ends or waits for the reviewer, and once approved it ends:    *)
(* neither a red gate nor the signer's loop nor a failed upload leaves it   *)
(* hanging.                                                                 *)
WaitsForReview == step = "idle" /\ result["publish"] = "pending" /\ review = "none"
AttemptEnds ==
  /\ (result["scrub"] = "running") ~>
       (AllFinished \/ (WaitsForReview /\ Finished("provenance")))
  /\ (review = "approved") ~> AllFinished

==============================================================================
