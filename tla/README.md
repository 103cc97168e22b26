# A TLA+ development of sealward

sealward is a command-line orchestrator for code signing. A manifest lists
targets; each target is handed to the backend of its platform, which shells out
to the native signing tool, runs the native verifier, and returns a structured
`SigningOutcome`. There are no threads. What is hard is what surrounds each call:
tools that fail, hang, lie or disappear, builds that rewrite files during a call,
files left over by earlier calls, and a process that can end between any two
subprocesses.

Paths below are relative to `src/sealward/` in the repository (`src/src/sealward/`
in `PROJECT.json`) unless they name another top directory.

## 1. Inventory

| Part | State it keeps | Operations | Hard behaviour | What makes it correct |
|---|---|---|---|---|
| Results, `result.py` | `outcome_counter` (per process) | `record`, `snapshot`, `reset` | self-recording backends are counted again by the CLI | the counter counts outcomes (it does not, section 4); statuses mean what their docstrings say |
| Contract, `backends/base.py` | none | `capability_probe`, `sign`, `verify` as promises | five implementations | skip = never touched; `SIGNED` = verified; never raises |
| Windows, `backends/windows.py` | signatures inside files | `sign`, `verify`, TSA fallback | partial globs, retry after a timeout, rewrite before verify | order of fallback, fail-fast report, genuine successes |
| Linux, `backends/linux.py` | `.sha256`, `.sig`, `.minisig`, `.cosign.bundle` beside the artifact | `sign`, `verify` with gpg, minisign, cosign | sidecars outlive artifacts and tools; digest first, signature later; a tool, its version and a file are looked at by one subprocess and used by the next | no success on a stale sidecar; what `SIGNED` publishes agrees; cosign floor |
| macOS, `backends/macos.py` | signature, Apple's submission and ticket, stapled ticket | codesign, notarytool, stapler, three verifiers | late acceptance, timeouts that raise, verifiers over a changing bundle | a success is signed, notarized and stapled; ad-hoc claims nothing |
| Android, `backends/android.py` | signature scheme of the APK | apksigner sign/verify, jarsigner | tool vanishes between signing and verifying | verdicts are truthful; apksigner's `SIGNED` is verified |
| iOS, `backends/ios.py` | signatures inside bundles | codesign loop with a verification per artifact | nested bundles, partial globs | `SIGNED` covers the glob and stands |
| Custody, `keycustody/resolver.py`, `config_schema.py` | none (asks the machine) | `resolve`, manifest validation | asked twice per target, under different profiles | no local key in a prod manifest |
| CLI, `cli.py` | one process: loop position, outcomes | `sign`, `verify`, `probe` | exceptions from backends, filters, dry runs | exit code 0 is honest; dry runs sign nothing |
| Registry, `registry.py` | dictionary, written at import | `register_backend`, `get_backend` | none | - |
| Capability probes, `capability_probe()` of the backends | none (asks the machine) | `probe`, `would_sign` of a dry run | written apart from the preconditions of `sign()` | a probe promises nothing `sign()` would skip, but for macOS' notarization profile |
| Release signer, `provenance/sigstore_release.py` | `.sigstore.json` beside each artifact | `sign`, `verify`, `main` over a dist directory | bundle written before it is verified, and kept when rejected | a bundle is accepted only when bound to the digest, so one half from the release page vouches for the other; the exit code covers all artifacts |
| Statements, `provenance/slsa.py`, `provenance/sbom.py` | one JSON file each | statement and SBOM builders | one package under several spellings and extras | subjects are what was built; one component per package |
| Secret scrub, `scripts/pre_publish_secret_scrub.py` | none | `scan_tree`, exit code | order of allowlists and rules | a finding blocks the release |
| Release pipeline, `.github/workflows/release.yml` | job results, artifact store, release assets | scrub-gate, build, provenance, publish | `if: always()` with a require-green step, re-runs, assets replaced one by one | nothing is published after a red gate; a green release is complete |

The CLI calls the resolver, then the backend; the backend calls the resolver
again, then its tools; `sign()` of every backend but jarsigner's path ends in the
backend's own verifier. The disk is shared with the build. Backends share
nothing with each other but the outcome counter.

The release of sealward itself is a second program beside the first: the
workflow runs the scrubber, the build, the SBOM and statement builders and the
release signer, in jobs that share nothing but the run's artifact store; the
signer shares only the outcome type with the backends.

## 2. Modules

| Module | Models |
|---|---|
| `Outcome` | the values of `result.py`: statuses, verdicts, outcomes, the counter's `record()` |
| `SignerContract` | `sign()`/`verify()` as `base.py` promises them, over artifacts, without tools |
| `WindowsBackend` (+ `MCWindowsBackend`) | `windows.py`, one action per subprocess |
| `LinuxBackend` | `linux.py`, one action per subprocess, with the sidecars as state |
| `MacosBackend` | `macos.py`, stage by stage, with Apple as part of the environment |
| `AndroidBackend` | `android.py` |
| `IosBackend` (+ `MCIosBackend`) | `ios.py`, with nested bundles |
| `Custody` | the resolver and the manifest rules, as operators |
| `CapabilityProbe` | the five `capability_probe()`s and what `sign()` answers on the same machine, as operators |
| `Cli` | `cli.py`: composes `Custody`, `CapabilityProbe` and an instance of `SignerContract` |
| `SecretScrub` | the scrubber, as operators on files and flags |
| `Sbom` | the merge of `_collect_components`, with a reference definition |
| `ReleaseSigner` | `sign()`, `verify()` and `main()` of `sigstore_release.py` |
| `Release` (+ `MCRelease`) | `release.yml`, composing the three above, with a consumer of the release |
| `SignerContract_proofs`, `WindowsBackend_proofs`, `LinuxBackend_proofs`, `MacosBackend_proofs`, `AndroidBackend_proofs`, `IosBackend_proofs`, `Cli_proofs`, `Release_proofs` | theorems about the modules they extend |

**Composition.** `SignerContract` is the abstract specification. Every backend
module instantiates it under a refinement mapping and is checked to implement it
(`ImplementsContract`), and `Cli` then uses the contract in place of five
backends. Three constants switch on deviations the code really has: `LateSkip`
(macOS reports a skip after codesign has run), `TrustsTool` (Android's jarsigner
path reports `SIGNED` without a verifier) and `Raises`. `base.py:150` says that
`sign()` never raises, and every backend needs `Raises`: the custody resolver
expands a `~` that may stand for nothing (`resolver.py:105`), no `_run` catches
output that does not decode, macOS lets timeouts out and Linux unreadable
files. A kill is no deviation: a killed call has no outcome, and one that raised
has the outcome `RaisedOutcome`. Windows, Linux and iOS refine the contract with
`Raises` alone. `Cli` grants the other two only to the platform that needs them,
and lets the probe and the resolver raise too.

`Release` extends `ReleaseSigner` and gives its loop to one step of the
provenance job. A runner's disk (`bytes`, `bundle`, `statement`, `sbom`) starts
empty with each job; what survives a job is the run's artifact store, what
survives an attempt are the release's assets. Bytes are known by the attempt
that built them, and a bundle by the bytes whose digest its log entry records,
so "the bundle of this very file" is an equation; `Foreign` stands for bytes that no
build made, and for their digest. The last step of a job is followed by a step
`complete`, at which it can still be cancelled: an upload may be over although
its job did not succeed. `Verifies` is `verify()` again, in the hands of a consumer
who fetches a file, a bundle or both at any two moments, and has the other half
of the pair from anywhere. A file of the tree is a record of what the scrubber
can tell of it.

**State and code.** A backend keeps nothing between calls, so its variables are
the disk (what survives), the locals of a call in progress (`pc`, loop positions,
the selected tool), and the outcome last returned. Variables marked *history*
record what a call did (tools run, verifiers that accepted, whether the build
interfered); no guard reads them. Preconditions that only read the machine
(tool on PATH, resolver verdict, environment variables) are parameters of the
entry actions, chosen freely at each call.

**What is assumed about the outside.** A signing tool's exit code proves nothing
about the file: a run that exits 0 may have left it alone, a failed or killed run may
have signed it. Verifiers are trusted in one direction: exit 0 means that the
signature is valid (Linux: that the sidecar matches) at that moment; they may
reject at will. macOS codesign is trusted to have signed when it exits 0. The
build may write or remove an artifact between any two steps, the process may be
killed at any time and a call may raise at any step, and on Linux and Android tools
come and go during a call. On Linux that is between any two subprocesses: reading
cosign's version, choosing a verifier, hashing and running a tool are steps of
their own, and a tool that is run is the one on PATH by then. (On Windows, which
resolves its tool to a path at the start of a call, a tool that is gone
afterwards is a failing run.) A stapler that failed may have stapled.

In the release, any step may fail, be cancelled or time out, gitleaks and the
attestation action included; the reviewer may approve or reject, or never
answer; the run may be run again from the start or from what failed; a
consumer's file or bundle may be altered or another's. The Sigstore client may
raise, may leave a half-written bundle or one for foreign bytes, and may confirm an entry that
belongs to another artifact. It is trusted in one thing: the digest it reports,
if it reports one, is the one in the log entry.

**Environment actions.** `Rebuild`, `Clean`, `Reprovision`, `LateAcceptance`,
`StepFails`, `Completes`, `Rerun`, `Fetches...` and the `...MayWrite` operators describe the outside; they are marked
external in the map.

## 3. Runs

| Run | Bounds | States |
|---|---|---|
| `windows` | 2 artifacts, 2 TSAs, all 12 installations | 53,458 |
| `linux` | 1 artifact, 4 sidecars, 8 PATHs, cosign at its floor or not, changing between any two steps | 770,577 |
| `macos` | 1 bundle (the code takes the glob literally) | 1,928 |
| `android` | 1 APK (the code takes the first match) | 820 |
| `ios` | 3 bundles, one nested in another | 30,746 |
| `cli` | manifests of at most 2 targets, 3 platforms, 3 providers; probes of every machine of all 5 platforms | 139,400 |
| `release` | a wheel and a source archive, 2 attempts (so 2 builds), 4 trees, 2 sets of scrub options, 3 lists of requirements | 225,872 |
| `windows_every_verified`, `macos_late_skip`, `android_unverified`, `cli_unreported`, `cli_counts` | as above or smaller | end at a violation, section 4 |

All runs check deadlock except those of `Cli`, whose process ends, and
`release`, whose last attempt ends.

What the passing runs show, per module:

* **windows** - `FallbackInOrder`: per artifact, authorities are tried in list
  order from the first, none after the one that worked. `FailedMarksTheStop`: a
  `FAILED` outcome that names an artifact says exactly how far signing got.
  `SignedCoversListing`: `SIGNED` means a run that exited 0 for every listed
  file. `SuccessIsGenuine`: the reported file carries a valid signature when the
  success is returned.
* **linux** - with files and tools changing between any two subprocesses:
  `SuccessIsGenuine`: until the build changes the artifact again, a success has a
  matching sidecar of the tool that verified it, whatever earlier calls left
  behind, and that tool is still the preferred one unless the tools changed.
  `SignedStaysVerifiable`: the checksum file holds the digest that `SIGNED`
  reports, and the artifact's own unless the build wrote it during the call or after; the tool that
  signed is the one that verified, unless the tools changed. `CosignFloorHolds`: a
  cosign below the floor writes no bundle and vouches for none. One gap that the
  code leaves open is an exception in the statements: a cosign swapped between its
  version check and its use (section 6).
* **macos** - `SuccessIsGenuine`: although three verifiers run one after the other
  over a bundle that may be replaced, a success means that the bundle at the end is
  signed, notarized and stapled at once. `AdHocClaimsNothing`: ad-hoc never ends in `SIGNED`, also over a
  bundle that an earlier call notarized (a test asserts the opposite of a mocked
  machine, section 6). `SignedRanEveryStage`: also when Apple accepts an
  earlier submission late.
* **android** - `VerdictIsTruthful`: the invented exit codes 124 and 127 are never
  read as a verdict. `ApksignerIsVerified`: an apksigner `SIGNED` is verified,
  also when the tool disappears in between. `SuccessIsGenuine`.
* **ios** - `EverySignatureVerified`: `SIGNED` covers the whole glob.
  `SignedStandsOutsideNests`: it still holds when `sign()` returns, except for a
  bundle that contains another listed one (section 6).
* **cli** - `ExitZeroIsHonest`: exit 0 of `sign` means each selected target was
  reported once, in order, and none failed. `DryRunSignsNothing`.
  `ProdManifestStopsWhole`: a local key anywhere in a prod manifest stops all
  targets, whatever the filter. `ProbeAgreesWithSign`: on a machine with `can_sign`,
  `sign()` skips only a macOS target without a notarization profile;
  `tool_present` is exactly that `sign()` finds its tools; on Android and iOS the
  probe is exact.
* **release** - `PublishedWasGated`: although every job runs `if: always()`, what
  is on the release page was built in an attempt whose scrub gate was green,
  from a tree in which every key is one the scrubber lets through by design,
  and was approved. `GreenReleaseIsComplete`: after a green publish every
  artifact has a bundle that records its own digest and is a subject of the
  statement, although the publisher's pattern is content with one bundle, and
  although a second attempt replaces the first one's assets one by one.
  `AcceptedIsGenuine`: if a consumer's `verify()` accepts a pair of which one half
  is from the release page, the file is of a vetted build, wherever the other half
  is from, although bundles are written before they are verified and downloads
  may straddle a replacement.
  `SbomDescribesDeclared`: the merge agrees with its reference definition.
  `AttemptEnds`: an attempt ends or waits for its reviewer, and ends once approved.
* every backend - `ImplementsContract`; and the liveness of section 5.

**Why the bounds are enough.** The Windows and iOS loops compare neighbours in a
list: two artifacts have a first, a last and a successor, and three on iOS add a
bundle outside the nest. Two authorities have a first, a last and a fallback.
One Linux artifact suffices because a call works on one file and sidecars of
different files do not interact (the proofs have any number). Two targets in a
manifest have a before and an after for the rules that quantify over targets; the three platforms are one
that counts its outcomes itself, the one that skips late and the one that trusts
its tool (the other two behave like the first, but for the counter), and the three
providers are the forbidden one, the machine-dependent one and one
SDK-dependent one. Two release artifacts have an
order in which one can be signed and the other not; two attempts are enough for
leftovers of one to meet the other, in the store and on the release page, and
for a re-run of only what failed. The trees are one in which all keys are let
through and one for each way in which one must not be. The requirement lists
have no entry, a package in two spellings, and an entry without a name between
others. Every safety property and every refinement is proved for all bounds
(section 7); for liveness, section 7 proves the measures that decrease.

## 4. Disagreements between code and documentation

Each has a run that must be violated, and a finding in `PROJECT.json`.

1. `windows.py:261` verifies the first artifact only; `README.md:44` says every
   signature is verified.
2. `macos.py:251-266`: a skip is reported after codesign has rewritten the
   bundle; `result.py:53` says skipped means never attempted.
3. `android.py:349-363`: `SIGNED` with `NOT_RUN`; `result.py:88` says a backend
   that signs must verify.
4. All backends can let an exception out of `sign()` (for example `macos.py:66`,
   `linux.py:241`, `ios.py:314`, `android.py:84`, `resolver.py:105`), and
   `cli.py:183` prints only after its loop, so signed targets go unreported;
   `base.py:150` says `sign()` never raises.
5. `cli.py:184` records every outcome, Windows and Android have recorded theirs
   by then (`windows.py:287`, `android.py:440`), so the counter has two for one;
   `result.py:169` calls it a counter of outcomes by status.

## 5. Fairness and liveness

`FairSpec` adds weak fairness on the steps of what is running, where the code
loops or chains: `WindowsBackend` (over artifacts and authorities), `IosBackend`
(over bundles), `Cli` (over targets) and `Release`. The Python code is
sequential and passes a `timeout` to every subprocess, so a call cannot stay at
a step; GitHub bounds a job's time. No fairness is assumed of the environment:
tools need not succeed, Apple and the reviewer need not answer, calls need not
start. Under it every call returns (`CallReturns`), every command ends
(`CommandEnds`; it takes the return of a backend call as fair), and every
attempt of the release ends or waits for its reviewer, and ends once approved
(`AttemptEnds`: neither a red gate nor the signer's loop nor an upload leaves it
hanging). The Linux, macOS and Android
calls are straight lines, about which liveness would say nothing.

## 6. Observed and not claimed

Behaviours met while modelling that have no run of their own, or that the models
represent without a property:

* macOS: `tests/test_backends.py:458-481` asserts that an ad-hoc `LOCAL_FILE`
  sign returns `SIGNED`, and `AdHocClaimsNothing` that it never does. The test makes
  every subprocess exit 0, `spctl --assess` and `stapler validate` on an ad-hoc
  bundle included; the model trusts these two to accept nothing that was not
  notarized. On such a machine the code returns what the test says; on a Mac, where
  the verifiers do what the model trusts them with, the call the test describes
  ends as `FAILED`, since `sign()` requires all three of an ad-hoc signature too.
* macOS: the probe knows nothing of the notarization profile. Where it reports
  `can_sign`, `sign()` still skips a target without one; `ProbeAgreesWithSign`
  names that exception.
* Linux: the cosign floor is checked by one subprocess and relied on by the next.
  A cosign swapped in between writes or accepts a bundle below the floor; the
  ghost `swapped` in `CosignFloorHolds` and `SuccessIsGenuine` is exactly that gap.
* Linux: a build that writes the artifact between digest and signature leaves
  `SIGNED` with a checksum file that is stale (`SignedStaysVerifiable` speaks of the
  artifact only when the build left it alone).
* Linux: `digest in combined or ok` (`linux.py:403`) holds of every green verify, so
  the rejection that the comment in front of it announces cannot happen; what a
  success proves rests on cosign's exit code. The model has no such rejection.
* The release signer's `verify()` passes no identity policy to the client
  (`sigstore_release.py:260`), while its docstring (lines 3-6) speaks of verifying that
  the binary was published by SealWard's CI identity. A file with its own
  digest-bound bundle is accepted whoever made the two; `AcceptedIsGenuine`
  therefore speaks of pairs with one half from the release page.
* iOS: a recursive glob lists an app before its frameworks; signing a framework
  afterwards breaks the app's seal, which was already verified. `SIGNED` is
  returned. This is why `SignedStandsOutsideNests` has its exception.
* iOS reports a glob without matches as `SKIPPED_NO_CREDENTIAL`; Windows, Linux
  and Android report `FAILED`.
* macOS: a verifier that never ran because codesign failed is still reported with
  the verdict `FAILED`.
* Windows reports the authority of the last artifact for all of them; jsign is
  verified by any osslsigncode on PATH, without the version floor.
* Linux and Android sign only the first match of a glob.
* The resolver is asked about a key twice, by the CLI under the manifest's profile and
  by the backend under its own. By then validation has stopped every prod manifest with a
  local key, so the second answer can only turn work into a skip, and no property
  tells the two apart.
* `verify` exits 0 when the tool is absent, `sign` exits 0 when no target is
  selected; exit code 1 stands for a failed target and for an uncaught exception.
* `release.yml:69` passes `--tree . --strict` to a scrubber whose parser has no
  such options, so at this commit argparse exits with 2, the gate is red and
  nothing can be released. `release` covers both these options and the ones the
  script documents; with the former alone, most of it would hold vacuously.
* The scrubber fails open on a file it cannot read and on content beyond its
  first 5,000,000 bytes; `LetThrough` in `Release` names each such case.
* Run from the workflow, the signer builds a `SigningContext` client of its
  own (`sigstore_release.py:306`), which has neither `sign_artifact` nor
  `verify_artifact`; each artifact would end as `FAILED`. The model leaves the
  client free to raise or to answer. The provenance job also runs the module
  without installing sealward, a failing step of the model.
* `main()` of the signer documents that it never raises; hashing is outside of
  its `try`, so an unreadable artifact ends the process (`MainRaises`).
* The SBOM merges spellings that differ in case only; `a-b` and `a_b`, which
  package metadata treats as one, become two components (here: two packages).
* Windows' probe never reports a credential; macOS' and Linux' report one of
  several that `sign()` needs. `can_sign` is therefore a lower bound on Windows
  and says nothing of cosign's floor, below which `sign()` fails rather than skips.

## 7. Proofs

Every theorem is about the module's `Spec`, for all values of the constants
that satisfy the module's named assumptions (`NArtifacts` and `NTsa` positive,
`Inside` a nesting that lists the outer bundle first, platforms and providers those of the
program, `MaxAttempts = MaxBuilds`, and so on). The invariants that the runs
check are not inductive; each proof module states an inductive one, `IInv` or a
chain of layers, which TLC checked at the run's bounds before it was proved.

| Module | Theorem | Property |
|---|---|---|
| `SignerContract_proofs` | `ContractTypeCorrect`, `ContractSuccessIsChecked`, `ContractSkipTouchesNothing` | the contract |
| `WindowsBackend_proofs` | `TypeCorrect` | `TypeOK` |
| | `FallsBackInOrder` | `FallbackInOrder` |
| | `FailureMarksTheStop` | `FailedMarksTheStop` |
| | `SignedCoversTheListing` | `SignedCoversListing` |
| | `FirstIsVerified`, `SingleFileIsVerified` | how far `EverySignatureVerified` holds |
| | `CallsShrink` | the measure behind `CallReturns` |
| `LinuxBackend_proofs` | `TypeCorrect` | `TypeOK` |
| | `SignedKeepsStanding` | `SignedStaysVerifiable` |
| | `SuccessesAreGenuine` | `SuccessIsGenuine` |
| | `CosignFloor` | `CosignFloorHolds`, an action property |
| `MacosBackend_proofs` | `TypeCorrect` | `TypeOK` |
| | `AdHocNeverClaims` | `AdHocClaimsNothing` |
| | `SignedRanAllStages` | `SignedRanEveryStage` |
| | `LateSkipExtent` | how far the contract's skip rule fails |
| `AndroidBackend_proofs` | `TypeCorrect` | `TypeOK` |
| | `VerdictsAreTruthful` | `VerdictIsTruthful` |
| | `ApksignerAlwaysVerified` | `ApksignerIsVerified` |
| | `OnlyJarsignerIsUnverified` | how far `SignedIsVerified` holds |
| `IosBackend_proofs` | `TypeCorrect` | `TypeOK` |
| | `AllSignaturesVerified` | `EverySignatureVerified` |
| | `SignedStands` | `SignedStandsOutsideNests` |
| | `CallsShrink` | the measure behind `CallReturns` |
| Windows, macOS, Android | `SuccessesAreGenuine` | `SuccessIsGenuine`, an action property |
| all five backends | `ContractImplemented` | `ImplementsContract`, the refinement |
| | `ContractHonoured` | the contract's invariants, carried over to the backend |
| `Cli_proofs` | `TypeCorrect` | `TypeOK` |
| | `ExitZeroVouches` | `ExitZeroIsHonest` |
| | `DryRunsSignNothing` | `DryRunSignsNothing` |
| | `ProdManifestStops` | `ProdManifestStopsWhole` |
| | `OnlySelfRecordingCountsTwice` | how far `CounterCountsOutcomes` holds |
| | `ProbesAgree` | `ProbeAgreesWithSign` |
| | `OnlyARaiseLosesTheReport` | how far `SignedIsReported` holds |
| | `CommandsShrink` | the measure behind `CommandEnds` |
| `Release_proofs` | `TypeCorrect` | `TypeOK` |
| | `GateHolds` | `PublishedWasGated` |
| | `ReleaseComplete` | `GreenReleaseIsComplete` |
| | `AcceptanceIsGenuine` | `AcceptedIsGenuine` |
| | `SbomIsComplete` | `SbomDescribesDeclared` |
| | `WritesAreGated` | `GatedWrite`, an action property |
| | `AttemptsAdvance` | the measure behind `AttemptEnds` |

**Windows.** The invariants are not inductive: at the return of a call they speak of the
whole listing, and nothing in them says what the loop has done before it
returns. `IInv` adds two parts: `SortedListing`, that the listing is strictly
increasing (so a position stands for an artifact and artifacts before it in the
list are smaller), and `Progress`, that during a call every artifact before the
loop's position has a run that exited 0, the current one has been tried exactly
with the authorities before the current one, and nothing after it was touched;
at the verifier, everything listed is done. `Invariance` proves
`Spec => []IInv` action by action, from lemmas about the loop
(`ListingFacts`, `LoopFacts`); the invariants follow from it. The refinement
needs one more invariant, `StampedRan` (an artifact with a successful run was
run on), so that the artifact handed to the contract's `ReturnSigned` is one the
call touched; `StepRefines` then maps every action to a contract step or a
stutter: tool runs to `Touch`, the verifier to `ReturnSigned` or `ReturnFailed`, a kill or
an exception to `Abandon`, the build to a stutter. `IInv` was checked by TLC at the bounds of the
`windows` run before it was proved.

**The contract and its backends.** `SignerContract_proofs` proves, for any set of
artifacts, `ContractTypeCorrect`, `ContractSuccessIsChecked` (for sets without 0,
and without the deviation `TrustsTool`) and `ContractSkipTouchesNothing` (without
`LateSkip`); they are inductive as they stand. `ContractImplemented` says that a
backend's behaviours are behaviours of the contract under the refinement
mapping, and `ContractHonoured` draws the conclusion in each backend's module: an
instance of the contract's theorems gives their invariants of the mapped
variables, and these are the backend's. Windows, Linux and iOS get both,
macOS (deviation `LateSkip`) the first, Android (deviation `TrustsTool`) the second.
That a call may raise weakens neither: it is an end without a success or a skip.

**Linux.** A success rests on files that outlive the bytes they were made for, and
every step relies on what an earlier subprocess saw. `IInv` has, beside the types:
`Work`, what the call has run its tools on and what a verifier said; `Floor`, that
a cosign about to run met its floor when it was last asked, unless it was swapped
since; `Behind`, what a call may still rely on (`Published`: the digest in hand is
the one in the checksum file, and right unless the build wrote; `Choices`: the
tools chosen are the preferred ones unless the machine changed; `Genuine`: after an
accepting verifier its sidecar matches until the next rebuild); and `AtRest`, the
two properties themselves between calls. The history variables
`rebuilt`, `retooled` and `swapped` are set by the environment alone and reset where
the code looks again, so an exception covers only the interval in which the code
could not know.

**macOS.** `StapleNeedsTicket`: a staple never outlives the ticket and the
Developer ID signature under it; so the last of the three verifiers, together
with what the first two accepted, decides about the bundle at the end.
`Progress`: a call at the verifiers either ran every stage or left an ad-hoc
signature, which no ticket can join.

**Android.** `Unjudged`: a call that is still signing has no verdict and no
accepted artifact of its own, and only apksigner leads to the verifier.

**iOS.** `Trail`: before the loop's position everything was signed and verified,
after it nothing was touched. `Standing`: before it, a signature is valid unless
a bundle of the listing lies inside.

**Cli.** `Progress`: the outcomes held are, in manifest order, exactly the
selected targets before the loop's position; `WorkWasValidated`: whatever was
worked on belongs to a manifest that validated. `Counting`: where the loop alone
records, the counter of a signing command equals the number of outcomes per
status, a lemma about cardinalities. The probe is a finite case analysis over
machines and targets.

**Release.** In layers, each resting on those before: types; `Chained` (a job
past its first step has a green one before it, in this attempt) and `Gated`
(what the gate has said, and that green means a clean tree); `OriginInv`
(whatever bytes are anywhere were built by a green attempt, published ones by
an approved one); `CompleteInv`, what each job leaves to the next: everything
built and a subject of the statement, everything bound by the signer's loop
(`LoopInv`, with the exit code), everything uploaded but what is in `uploads`, and
the same still at the step `complete`. `VouchedInv` carries this to the consumer: a
bundle on the page was uploaded from a runner on which it records the digest of
its file, so its digest is as good as a file, and one half from the page decides
about a pair whose halves `verify()` found to agree.

The SBOM's loop is a recursive function over prefixes of the requirements.
`SeenAfterDef` first shows that the function exists (its equation, from a least
prefix for which it would not), and `RoundDescribes` that one round keeps
`DescribesFirst`: of each package exactly its first sighting, with the version
that is installed. That this holds of every prefix, in `SbomIsComplete`, is by the
least counterexample again, in place of an induction theorem. A by-product: the
replacement in `_collect_components` of a declared-only component by an installed
one never happens, because all spellings of a package are looked up alike.
`GatedWrite` says of the moment of a write what `PublishedWasGated` says
afterwards, from `Chained` and `Gated`.

**How far the disagreements of section 4 reach.** A run shows that a documented
promise fails; a theorem says where it still holds.

1. Windows: `FirstIsVerified` (what `SIGNED` names was verified) and
   `SingleFileIsVerified` (so the promise holds when the glob matched one file).
2. macOS: `LateSkipExtent` (only for a missing notarization profile, after a
   Developer ID codesign, with nothing verified).
3. Android: `OnlyJarsignerIsUnverified`.
4. Cli: `OnlyARaiseLosesTheReport` (by the invariant `Accounted`: work done is
   reported, or held by the loop, or was lost by a raise at the target the command
   stopped at).
5. Cli: `OnlySelfRecordingCountsTwice` (the counter is exact for manifests whose
   selected targets have no self-recording backend).

**The safety half of liveness.** `CallReturns`, `CommandEnds` and `AttemptEnds` are
liveness under fairness and stay with TLC. What makes them true for every size
is proved. `WorkLeft` of a Windows call counts the (artifact, authority) pairs not
yet tried: `RunIsNew`, from `Progress`, shows that no pair is tried twice.
`WorkLeft` of an iOS call counts the subprocesses the loop has still to run, and
that of a command six per target left, less what the backend has already done
for the present one (`InCall`). `CallsShrink` and `CommandsShrink` bound the number
and show that each step of what is running lowers it and that the environment
does not raise it during a call. `AttemptsAdvance` is the same for the
workflow, without a number: within an attempt no job goes back, and each step
moves a job, a step, an upload or the signer's loop on.

Only model-checked: that fairness turns these measures into `CallReturns` (Windows
and iOS), `CommandEnds` and `AttemptEnds`, since liveness and `ENABLED` are out of the
prover's reach.

## 8. Not modelled

* Registry: written once at import; the CLI can never see an unregistered
  platform, so `get_backend(...) is None` is dead there.
* The regular expressions of the scrubber (a file is described by which of them
  match), the fields of the SLSA statement and the SBOM other than subjects and
  components, redaction, evidence texts, entitlements, tool versions other than
  the floors, serialisation and `snapshot()`/`reset()` of the counter.
* `generate_dev_key`, which nothing in the program calls, and the tripwire's
  patterns (whether a handle is inline key material is a flag of a target).
* CI, branding, packaging: independent jobs and metadata.
* Which exception a call raises, and its message: all of them (a timeout, a missing
  file, output that does not decode) are `RaisedOutcome`.
* On Windows a jsign signature is verified by an osslsigncode that is looked up at
  that moment; the model keeps the installation of the call's beginning.
* Tags that move between attempts, and two runs of the workflow for one tag: the
  concurrency group keeps runs of a ref apart; two different refs publish to two
  releases.

## 9. Plan

Done, in this order: outcomes and the contract; Windows with its proofs; Linux;
macOS; Android; iOS; custody and CLI; the release signer, the scrubber, the SBOM
and the release workflow; the probes; proofs about all of these.

Left, should the code come to use them: `generate_dev_key` and its read-back by
`LocalFileProvider`, and two runs of the workflow at once, if the concurrency
group is dropped.
