--------------------------------- MODULE Cli ---------------------------------
(***************************************************************************)
(* sealward/cli.py: one process that runs `sign`, `verify` or `probe`.     *)
(* `sign` walks the manifest's targets in order, asks the custody resolver *)
(* about each key, and hands the target to the backend of its platform.    *)
(* The backend is any machine that satisfies SignerContract, with the      *)
(* deviations that the backend modules established: macos may skip late,   *)
(* android may trust its tool, and any of them may raise.                  *)
(*                                                                         *)
(* The resolver is asked twice about a key, here under the manifest's      *)
(* profile and by the backend under its own, and the machine may change in *)
(* between; so every question is answered by a world of its own.           *)
(*                                                                         *)
(* Not modelled here: usage errors (argparse exits before any action), and *)
(* get_backend's None, because backends/__init__.py imports all backends   *)
(* before main() parses its arguments.                                     *)
(***************************************************************************)
EXTENDS Outcome, Custody, CapabilityProbe

CONSTANTS
  Platforms,    \* platforms that manifests use
  Providers,    \* custody providers that manifests use
  MaxTargets    \* longest manifest

ASSUME PlatformsAssumption ==
  Platforms \subseteq {"windows", "macos", "linux", "android", "ios"}
ASSUME ProvidersAssumption == Providers \subseteq CustodyProviders
ASSUME MaxTargetsAssumption == MaxTargets \in Nat

(* Backends that bump outcome_counter themselves, on every return path.     *)
SelfRecording == {"windows", "android"}

Targets == [platform : Platforms, provider : Providers, handle : BOOLEAN]
Manifests ==
  [profile : Profiles, supported : BOOLEAN,
   targets : UNION {[1..n -> Targets] : n \in 0..MaxTargets}]

VARIABLES
  pc,        \* "idle", "loop", "calling", "returned" or "exited"
  cmd,       \* "none" or the subcommand
  manifest,  \* the file behind --config
  filter,    \* --platform: the platforms that pass it
  dryRun,    \* --dry-run
  pos,       \* loop position in manifest.targets
  outcomes,  \* local of _cmd_sign: [target, status], in order
  counts,    \* outcome_counter of this process
  printed,   \* outcomes that reached stdout
  exit,      \* "none", "ok" (0), "error" (1), or "killed"
  probed,    \* history: what `probe` reported, and of which machine
  busy, touched, passed, outcome,  \* the backend in use (SignerContract)
  workedOn   \* history: targets whose backend touched an artifact

request == <<cmd, manifest, filter, dryRun>>
backend == <<busy, touched, passed, outcome>>
report == <<printed, exit>>
history == <<probed, workedOn>>
vars == <<pc, request, pos, outcomes, counts, report, backend, history>>

Backend ==
  INSTANCE SignerContract WITH
    Artifacts <- {1}, LateSkip <- TRUE, TrustsTool <- TRUE, Raises <- TRUE

NotProbed == [platform |-> "none"]
NoManifest == [profile |-> "dev", supported |-> TRUE, targets |-> <<>>]

Init ==
  /\ pc = "idle"
  /\ cmd = "none"
  /\ manifest = NoManifest
  /\ filter = Platforms
  /\ dryRun = FALSE
  /\ pos = 1
  /\ outcomes = <<>>
  /\ counts = NoCounts
  /\ printed = <<>>
  /\ exit = "none"
  /\ probed = NotProbed
  /\ Backend!Init
  /\ workedOn = {}

Current == manifest.targets[pos]

------------------------------------------------------------------------------
(* main() and _load_config. *)

(* A file that is missing, unparsable or of another type, or that does not  *)
(* validate, ends the process before any target is looked at.               *)
Rejects(m) == ~Validates(m)

StartSign(m, f, dry) ==
  /\ cmd' = "sign"
  /\ manifest' = m
  /\ filter' = f
  /\ dryRun' = dry
  /\ IF Rejects(m) THEN pc' = "exited" /\ exit' = "error"
     ELSE pc' = "loop" /\ UNCHANGED exit
  /\ UNCHANGED <<pos, outcomes, counts, printed, backend, history>>

(* The target is the pseudo-target that `verify --platform` names. *)
StartVerify(platform) ==
  /\ cmd' = "verify"
  /\ manifest' = [NoManifest EXCEPT !.targets =
       <<[platform |-> platform, provider |-> "os_keychain", handle |-> TRUE]>>]
  /\ pc' = "calling"
  /\ UNCHANGED <<filter, dryRun, pos, outcomes, counts, report, backend, history>>

(* capability_probe() changes nothing, whatever it finds.  Only the report  *)
(* on one platform is kept here; `probe` prints all or the one asked for.   *)
Probe(platform, machine) ==
  /\ cmd' = "probe"
  /\ probed' = [platform |-> platform, machine |-> machine,
                toolPresent |-> ToolPresent(platform, machine),
                canSign |-> CanSign(platform, machine)]
  /\ pc' = "exited"
  /\ exit' = "ok"
  /\ UNCHANGED <<manifest, filter, dryRun, pos, outcomes, counts, printed,
                 backend, workedOn>>

(* A version query that hangs, or an output that does not decode, ends the  *)
(* command without a report.                                                *)
ProbeRaises ==
  /\ cmd' = "probe"
  /\ pc' = "exited"
  /\ exit' = "error"
  /\ UNCHANGED <<manifest, filter, dryRun, pos, outcomes, counts, printed,
                 backend, history>>

------------------------------------------------------------------------------
(* _cmd_sign's loop and _dispatch_sign. *)

AtTarget == pc = "loop" /\ pos <= Len(manifest.targets)

(* A loop that does not advance past what it filters out. *)
SkipFilteredStuck ==
  /\ AtTarget
  /\ Current.platform \notin filter
  /\ UNCHANGED vars

SkipFiltered ==
  /\ AtTarget
  /\ Current.platform \notin filter
  /\ pos' = pos + 1
  /\ UNCHANGED <<pc, request, outcomes, counts, report, backend, history>>

Append1(status) == Append(outcomes, [target |-> pos, status |-> status])

(* The dispatcher answers itself: the key is unusable, or this is a dry     *)
(* run, which asks the backend for its capability report only.              *)
DispatchSkips(world) ==
  /\ AtTarget
  /\ Current.platform \in filter
  /\ ~Usable(manifest.profile, Current.provider, world) \/ dryRun
  /\ outcomes' = Append1("skipped_no_credential")
  /\ counts' = Record(counts, "skipped_no_credential")
  /\ pos' = pos + 1
  /\ UNCHANGED <<pc, request, report, backend, history>>

(* The resolver raises (it expands a ~ that no home directory stands for),  *)
(* or the probe of a dry run does: main() lets it through.                  *)
DispatchRaises ==
  /\ AtTarget
  /\ Current.platform \in filter
  /\ pc' = "exited"
  /\ exit' = "error"
  /\ UNCHANGED <<request, pos, outcomes, counts, printed, backend, history>>

DryRunIgnored == FALSE
IsDryRun == dryRun

DispatchSigns(world) ==
  /\ AtTarget
  /\ Current.platform \in filter
  /\ Usable(manifest.profile, Current.provider, world)
  /\ ~IsDryRun
  /\ pc' = "calling"
  /\ UNCHANGED <<request, pos, outcomes, counts, report, backend, history>>

------------------------------------------------------------------------------
(* The call into the backend, as its contract describes it.                 *)

BackendWorks ==
  /\ pc = "calling"
  /\ cmd = "sign"
  /\ Backend!Accept \/ Backend!Touch(1) \/ Backend!Check(1)
  /\ workedOn' = IF touched' = {} THEN workedOn ELSE workedOn \cup {pos}
  /\ UNCHANGED <<pc, request, pos, outcomes, counts, report, probed>>

SignAnswers ==
  \/ Backend!Decline
  \/ Backend!ReturnSigned(1)
  \/ Backend!ReturnFailed(1)
  \/ Current.platform = "android" /\ Backend!ReturnUnverified(1)
  \/ Current.platform = "macos" /\ Backend!ReturnLateSkip(1)

VerifyAnswers == Backend!Decline \/ Backend!VerifyOnly(1)

(* The backend returns; some have counted the outcome by then.              *)
BackendReturns ==
  /\ pc = "calling"
  /\ IF cmd = "sign" THEN SignAnswers ELSE VerifyAnswers
  /\ cmd = "verify" => outcome'.status # "skipped_no_credential"
  /\ counts' = IF Current.platform \in SelfRecording
               THEN Record(counts, outcome'.status) ELSE counts
  /\ workedOn' = IF touched' = {} THEN workedOn ELSE workedOn \cup {pos}
  /\ pc' = "returned"
  /\ UNCHANGED <<request, pos, outcomes, report, probed>>

(* The backend raises: main() lets it through, and nothing is printed.      *)
BackendRaises ==
  /\ pc = "calling"
  /\ Backend!Abandon(1)
  /\ outcome' = RaisedOutcome
  /\ workedOn' = IF touched' = {} THEN workedOn ELSE workedOn \cup {pos}
  /\ pc' = "exited"
  /\ exit' = "error"
  /\ UNCHANGED <<request, pos, outcomes, counts, printed, probed>>

(* A loop that advances twice. *)
NextPosTwice == pos + 2
NextPos == pos + 1

Collects == Append1(outcome.status)

RecordOutcome ==
  /\ pc = "returned"
  /\ outcomes' = Collects
  /\ counts' = Record(counts, outcome.status)
  /\ pos' = NextPos
  /\ pc' = "loop"
  /\ UNCHANGED <<request, report, backend, history>>

(* sign fails on a failed target, verify on anything but verified or skip:  *)
(* for the outcomes a verify() can have, the same.                          *)
LastFailed == outcomes # <<>> /\ outcomes[Len(outcomes)].status = "failed"
AnyFailed == \E i \in DOMAIN outcomes : outcomes[i].status = "failed"

Finish ==
  /\ pc = "loop"
  /\ pos > Len(manifest.targets)
  /\ printed' = outcomes
  /\ exit' = IF AnyFailed THEN "error" ELSE "ok"
  /\ pc' = "exited"
  /\ UNCHANGED <<request, pos, outcomes, counts, backend, history>>

Killed ==
  /\ pc \in {"loop", "calling", "returned"}
  /\ pc' = "exited"
  /\ exit' = "killed"
  /\ UNCHANGED <<request, pos, outcomes, counts, printed, backend, history>>

Dispatching(world) == DispatchSkips(world) \/ DispatchSigns(world)

Filters == {Platforms} \cup {{p} : p \in Platforms}

(* main(): one command per process. *)
Starts ==
  /\ pc = "idle"
  /\ \/ \E m \in Manifests, f \in Filters, dry \in BOOLEAN : StartSign(m, f, dry)
     \/ \E p \in Platforms : StartVerify(p)
     \/ \E p \in AllPlatforms : \E machine \in MachinesFor(p) : Probe(p, machine)
     \/ ProbeRaises

Next ==
  \/ Starts
  \/ SkipFiltered
  \/ \E world \in WorldsWith(Providers) : Dispatching(world)
  \/ DispatchRaises
  \/ BackendWorks
  \/ BackendReturns
  \/ BackendRaises
  \/ RecordOutcome
  \/ Finish
  \/ Killed

Spec == Init /\ [][Next]_vars

(* The loop is plain Python, and every backend call returns: each of its    *)
(* subprocesses has a timeout, and where a backend loops over artifacts     *)
(* CallReturns of its module says that the loop ends.                       *)
FairSpec ==
  /\ Spec
  /\ WF_vars(\/ SkipFiltered
             \/ \E world \in WorldsWith(Providers) : Dispatching(world)
             \/ BackendReturns \/ RecordOutcome \/ Finish)

------------------------------------------------------------------------------
(* Every variable has its type. *)
TypeOK ==
  /\ pc \in {"idle", "loop", "calling", "returned", "exited"}
  /\ cmd \in {"none", "sign", "verify", "probe"}
  /\ manifest.profile \in Profiles
  /\ filter \subseteq Platforms
  /\ dryRun \in BOOLEAN
  /\ pos \in 1..(Len(manifest.targets) + 1)
  /\ {outcomes[i].status : i \in DOMAIN outcomes} \subseteq SigningStatus
  /\ counts \in [SigningStatus -> Nat]
  /\ exit \in {"none", "ok", "error", "killed"}
  /\ probed # NotProbed => /\ probed.platform \in AllPlatforms
                            /\ probed.machine \in MachinesFor(probed.platform)
                            /\ probed.canSign \in BOOLEAN
  /\ Backend!ContractTypeOK
  /\ workedOn \subseteq DOMAIN manifest.targets
  /\ pc \in {"calling", "returned"} => pos <= Len(manifest.targets)

(* The targets that a sign command has to report. *)
Selected == {i \in DOMAIN manifest.targets : manifest.targets[i].platform \in filter}

(* cli.py:175-188.  Exit code 0 of `sign` vouches for the whole manifest:   *)
(* every selected target was reported exactly once, in manifest order, and  *)
(* none of them failed.                                                     *)
ExitZeroIsHonest ==
  exit = "ok" /\ cmd = "sign" =>
    /\ {printed[i].target : i \in DOMAIN printed} = Selected
    /\ \A i, j \in DOMAIN printed : i < j => printed[i].target < printed[j].target
    /\ \A i \in DOMAIN printed : printed[i].status # "failed"

(* cli.py:130-132, "a dry-run NEVER claims SIGNED -- no real signature      *)
(* occurred": whatever the manifest and the machine, a dry run works on no  *)
(* artifact, fails nothing and reports no success.                          *)
DryRunSignsNothing ==
  cmd = "sign" /\ dryRun =>
    /\ workedOn = {}
    /\ \A i \in DOMAIN outcomes : IsSkipped(outcomes[i].status)

(* config_schema.py:228-244 and resolver.py:257.  One local key anywhere in *)
(* a prod manifest stops all of its targets, also those before it and those *)
(* that --platform filters out, on whatever machine.                        *)
ProdManifestStopsWhole ==
  workedOn # {} /\ cmd = "sign" /\ manifest.profile = "prod" =>
    \A i \in DOMAIN manifest.targets : manifest.targets[i].provider # "local_file"

(* result.py:168-185, "counter of outcomes by status", with cli.py:184:     *)
(* between two targets the counter holds, per status, the number of         *)
(* outcomes that the command has.  No: the outcomes of a backend that       *)
(* records them itself are counted a second time by the loop.               *)
CounterCountsOutcomes ==
  pc = "loop" =>
    \A s \in SigningStatus :
      counts[s] = Cardinality({i \in DOMAIN outcomes : outcomes[i].status = s})

(* cli.py:130-149 and base.py:78-80, with the five capability_probe()s and  *)
(* sign()s.  On a machine that `probe`, or a dry run's would_sign, calls    *)
(* able to sign, sign() skips no target with a usable key, but for a macos  *)
(* target without a notarization profile, which the probe knows nothing of. *)
(* A tool is present exactly when sign() would not miss it; and on android  *)
(* and ios the probe is exact.  (On windows it never sees a credential, on  *)
(* macos and linux it sees one of several.)                                 *)
ProbeAgreesWithSign ==
  probed # NotProbed =>
    \A target \in SignTargets :
      LET answer == SignAnswer(probed.platform, probed.machine, target)
      IN  /\ probed.canSign /\ IsSkipped(answer) =>
               /\ probed.platform = "macos"
               /\ ~target.notary
               /\ answer = "skipped_no_credential"
          /\ probed.toolPresent <=> answer # "skipped_tool_absent"
          /\ probed.platform \in {"android", "ios"} =>
               (probed.canSign <=> answer = "proceeds")

(* backends/base.py:138-152, "NEVER raises; all failure modes map to a      *)
(* structured SigningOutcome": when `sign` ends by itself, every target     *)
(* that a backend worked on is in the report.                               *)
SignedIsReported ==
  cmd = "sign" /\ exit \in {"ok", "error"} =>
    workedOn \subseteq {printed[i].target : i \in DOMAIN printed}

(* Every command that is not killed ends by itself: the loop reaches the    *)
(* end of the manifest.                                                     *)
CommandEnds == (pc \in {"loop", "calling", "returned"}) ~> (pc = "exited")

==============================================================================
