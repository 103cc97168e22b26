------------------------------ MODULE Cli_proofs ------------------------------
(***************************************************************************)
(* What the run of Cli checks for three platforms, three custody providers *)
(* and two targets, for every manifest, every filter and every machine.    *)
(* The backend is only known by its contract.                              *)
(*                                                                         *)
(* The loop of _cmd_sign keeps one relation: the outcomes it holds are, in *)
(* manifest order, exactly the selected targets before its position, under *)
(* a manifest that validated.                                              *)
(***************************************************************************)
EXTENDS Cli, FiniteSetTheorems, SequenceTheorems, TLAPS

Live == pc \in {"loop", "calling", "returned"}

Reported == [target : Nat, status : SigningStatus]

(* One command per process, and no exit code before its end. *)
Shape ==
  /\ outcomes \in Seq(Reported)
  /\ DOMAIN manifest.targets = 1..Len(manifest.targets)
  /\ Len(manifest.targets) \in Nat
  /\ pc = "idle" => /\ cmd = "none" /\ pos = 1 /\ outcomes = <<>>
                    /\ exit = "none" /\ workedOn = {} /\ probed = NotProbed
  /\ Live => exit = "none" /\ cmd \in {"sign", "verify"}
  /\ pc = "returned" => outcome.status \in SigningStatus

(* The position of the loop against what it holds. *)
Progress ==
  Live /\ cmd = "sign" =>
    /\ Validates(manifest)
    /\ {outcomes[i].target : i \in DOMAIN outcomes} = {t \in Selected : t < pos}
    /\ \A i, j \in DOMAIN outcomes : i < j => outcomes[i].target < outcomes[j].target
    /\ pc # "loop" => Current.platform \in filter /\ ~dryRun

WorkWasValidated == workedOn # {} /\ cmd = "sign" => Validates(manifest)

------------------------------------------------------------------------------
Outcomes ==
  [status : CallStatus, verdict : VerifyVerdict, artifact : {0, 1}]

BackendTyped == 
  /\ busy \in BOOLEAN /\ touched \subseteq {1} /\ passed \subseteq {1}
  /\ outcome \in Outcomes

LEMMA BackendType ==
  (Backend!ContractTypeOK <=> BackendTyped) /\ (Backend!ContractTypeOK' <=> BackendTyped')
<1>1. /\ Backend!SigningStatus = SigningStatus /\ Backend!VerifyVerdict = VerifyVerdict
      /\ Backend!CallStatus = CallStatus
  BY DEF Backend!SigningStatus, SigningStatus, Backend!VerifyVerdict, VerifyVerdict,
         Backend!CallStatus, CallStatus
<1>2. {1} \cup {0} = {0, 1}
  OBVIOUS
<1> QED
  BY <1>1, <1>2 DEF Backend!ContractTypeOK, BackendTyped, Outcomes

(* The steps a backend can take here, and how they leave its variables. *)
BackendSteps ==
  \/ Backend!Accept \/ Backend!Touch(1) \/ Backend!Check(1)
  \/ SignAnswers \/ VerifyAnswers \/ Backend!Abandon(1)

LEMMA BackendOutcomeType ==
  ASSUME NEW s \in CallStatus, NEW v \in VerifyVerdict, NEW a \in {0, 1}
  PROVE  Backend!OutcomeOf(s, v, a) \in Outcomes
  BY DEF Backend!OutcomeOf, Outcomes

LEMMA BackendValues ==
  /\ Backend!SigningStatus = SigningStatus
  /\ {"signed", "verified", "skipped_no_credential", "failed"} \subseteq SigningStatus
  /\ {"passed", "failed", "not_run"} \subseteq VerifyVerdict
  /\ SigningStatus \subseteq CallStatus /\ {"none", "raised"} \subseteq CallStatus
  BY DEF Backend!SigningStatus, SigningStatus, VerifyVerdict, CallStatus

LEMMA BackendStepTyped ==
  ASSUME BackendTyped, BackendSteps
  PROVE  BackendTyped'
<1>1. CASE Backend!Accept \/ Backend!Touch(1) \/ Backend!Check(1)
  BY <1>1 DEF BackendTyped, Backend!Accept, Backend!Touch, Backend!Check
<1>2. CASE Backend!Abandon(1)
  <2>1. Backend!NoOutcome \in Outcomes /\ Backend!RaisedOutcome \in Outcomes
    BY BackendOutcomeType, BackendValues
    DEF Backend!NoOutcome, Backend!RaisedOutcome
  <2>2. outcome' \in Outcomes
    BY <1>2, <2>1 DEF Backend!Abandon
  <2> QED
    BY <1>2, <2>2 DEF BackendTyped, Backend!Abandon, Backend!TouchedOnceMore
<1>3. CASE Backend!Decline
  <2>1. PICK s \in SigningStatus, a \in {0, 1} :
          outcome' = Backend!OutcomeOf(s, "not_run", a)
    BY <1>3, BackendValues DEF Backend!Decline
  <2>2. outcome' \in Outcomes
    BY <2>1, BackendOutcomeType, BackendValues
  <2> QED
    BY <1>3, <2>2 DEF BackendTyped, Backend!Decline
<1>4. CASE Backend!VerifyOnly(1)
  BY <1>4, BackendOutcomeType, BackendValues DEF BackendTyped, Backend!VerifyOnly
<1>5. CASE Backend!ReturnSigned(1)
  BY <1>5, BackendOutcomeType, BackendValues DEF BackendTyped, Backend!ReturnSigned
<1>6. CASE Backend!ReturnFailed(1)
  BY <1>6, BackendOutcomeType, BackendValues
  DEF BackendTyped, Backend!ReturnFailed, Backend!TouchedOnceMore
<1>7. CASE Backend!ReturnUnverified(1) \/ Backend!ReturnLateSkip(1)
  BY <1>7, BackendOutcomeType, BackendValues
  DEF BackendTyped, Backend!ReturnUnverified, Backend!ReturnLateSkip
<1> QED
  BY <1>1, <1>2, <1>3, <1>4, <1>5, <1>6, <1>7 DEF BackendSteps, SignAnswers, VerifyAnswers

(* An answer has one of result.py's statuses. *)
LEMMA AnswerStatus ==
  ASSUME SignAnswers \/ VerifyAnswers
  PROVE  outcome'.status \in SigningStatus
<1> USE DEF OutcomeOf, SigningStatus, Backend!OutcomeOf, Backend!SigningStatus
<1>1. CASE Backend!Decline
  BY <1>1 DEF Backend!Decline
<1>2. CASE Backend!VerifyOnly(1)
  BY <1>2 DEF Backend!VerifyOnly
<1>3. CASE Backend!ReturnSigned(1)
  BY <1>3 DEF Backend!ReturnSigned
<1>4. CASE \/ Backend!ReturnFailed(1)
           \/ Backend!ReturnUnverified(1) \/ Backend!ReturnLateSkip(1)
  BY <1>4 DEF Backend!ReturnFailed, Backend!ReturnUnverified, Backend!ReturnLateSkip
<1> QED
  BY <1>1, <1>2, <1>3, <1>4 DEF SignAnswers, VerifyAnswers

------------------------------------------------------------------------------
(* TypeOK and Shape, by groups of variables. *)
RequestOK ==
  /\ manifest.profile \in Profiles /\ filter \subseteq Platforms /\ dryRun \in BOOLEAN
  /\ DOMAIN manifest.targets = 1..Len(manifest.targets)
  /\ Len(manifest.targets) \in Nat
ProbedOK ==
  probed # NotProbed => /\ probed.platform \in AllPlatforms
                        /\ probed.machine \in MachinesFor(probed.platform)
                        /\ probed.canSign \in BOOLEAN
PlaceOK ==
  /\ pc \in {"idle", "loop", "calling", "returned", "exited"}
  /\ cmd \in {"none", "sign", "verify", "probe"}
  /\ exit \in {"none", "ok", "error", "killed"}
  /\ pos \in 1..(Len(manifest.targets) + 1)
  /\ workedOn \subseteq DOMAIN manifest.targets
  /\ pc \in {"calling", "returned"} => pos <= Len(manifest.targets)
  /\ pc = "idle" => /\ cmd = "none" /\ pos = 1 /\ outcomes = <<>>
                    /\ exit = "none" /\ workedOn = {} /\ probed = NotProbed
  /\ Live => exit = "none" /\ cmd \in {"sign", "verify"}
CountedOK ==
  /\ outcomes \in Seq(Reported)
  /\ counts \in [SigningStatus -> Nat]
AnsweredOK ==
  /\ BackendTyped
  /\ pc = "returned" => outcome.status \in SigningStatus

Typed == RequestOK /\ ProbedOK /\ PlaceOK /\ CountedOK /\ AnsweredOK

LEMMA ReportedStatuses ==
  ASSUME NEW s \in Seq(Reported)
  PROVE  {s[i].status : i \in DOMAIN s} \subseteq SigningStatus
<1>1. \A i \in DOMAIN s : s[i] \in Reported
  OBVIOUS
<1>2. \A r \in Reported : r.status \in SigningStatus
  BY DEF Reported
<1> QED
  BY <1>1, <1>2

LEMMA TypedParts ==
  /\ Typed <=> TypeOK /\ Shape
  /\ Typed' <=> (TypeOK /\ Shape)'
<1>1. Typed => TypeOK /\ Shape
  BY BackendType, ReportedStatuses
  DEF Typed, RequestOK, ProbedOK, PlaceOK, CountedOK, AnsweredOK, TypeOK, Shape
<1>2. TypeOK /\ Shape => Typed
  BY BackendType, Zenon
  DEF Typed, RequestOK, ProbedOK, PlaceOK, CountedOK, AnsweredOK, TypeOK, Shape
<1>3. Typed' => (TypeOK /\ Shape)'
  BY BackendType, ReportedStatuses
  DEF Typed, RequestOK, ProbedOK, PlaceOK, CountedOK, AnsweredOK, TypeOK, Shape
<1>4. (TypeOK /\ Shape)' => Typed'
  BY BackendType, Zenon
  DEF Typed, RequestOK, ProbedOK, PlaceOK, CountedOK, AnsweredOK, TypeOK, Shape
<1> QED
  BY <1>1, <1>2, <1>3, <1>4

(* result.py, _OutcomeCounter.record(). *)
LEMMA RecordType ==
  ASSUME NEW c \in [SigningStatus -> Nat], NEW s \in SigningStatus
  PROVE  Record(c, s) \in [SigningStatus -> Nat]
  BY DEF Record

LEMMA AppendType ==
  ASSUME Typed, NEW s \in SigningStatus
  PROVE  Append1(s) \in Seq(Reported)
<1>1. pos \in Nat /\ outcomes \in Seq(Reported)
  BY DEF Typed, RequestOK, PlaceOK, CountedOK
<1> QED
  BY <1>1 DEF Append1, Reported

(* A validated manifest is a sequence of targets. *)
LEMMA ManifestFacts ==
  ASSUME NEW m \in Manifests
  PROVE  /\ m.profile \in Profiles
         /\ DOMAIN m.targets = 1..Len(m.targets)
         /\ Len(m.targets) \in Nat
<1>1. PICK n \in 0..MaxTargets : m.targets \in [1..n -> Targets]
  BY DEF Manifests
<1> QED
  BY <1>1, MaxTargetsAssumption DEF Manifests

LEMMA InitTyped == Init => Typed
<1> SUFFICES ASSUME Init PROVE Typed
  OBVIOUS
<1>1. RequestOK /\ ProbedOK
  <2>1. manifest.profile = "dev" /\ manifest.targets = <<>>
    BY DEF Init, NoManifest
  <2>2. dryRun \in BOOLEAN /\ filter \subseteq Platforms
    BY DEF Init
  <2>3. DOMAIN manifest.targets = 1..Len(manifest.targets) /\ Len(manifest.targets) \in Nat
    BY <2>1
  <2> QED
    BY <2>1, <2>2, <2>3 DEF Init, RequestOK, ProbedOK, Profiles
<1>2. PlaceOK
  BY DEF Init, PlaceOK, NoManifest, Live
<1>3. CountedOK
  BY DEF Init, CountedOK, NoCounts
<1>4. AnsweredOK
  BY BackendOutcomeType, BackendValues
  DEF Init, AnsweredOK, BackendTyped, Backend!Init, Backend!NoOutcome
<1> QED
  BY <1>1, <1>2, <1>3, <1>4 DEF Typed

(* main() picks a command. *)
LEMMA StartsTyped ==
  ASSUME Typed, Starts
  PROVE  Typed'
<1> USE DEF Typed
<1>1. pc = "idle"
  BY DEF Starts
<1>2. ASSUME NEW m \in Manifests, NEW f \in Filters, NEW dry \in BOOLEAN,
             StartSign(m, f, dry)
      PROVE  Typed'
  <2> USE <1>2 DEF StartSign
  <2>1. f \subseteq Platforms
    BY DEF Filters
  <2>2. RequestOK'
    BY <2>1, ManifestFacts DEF RequestOK
  <2>3. PlaceOK'
    BY <1>1, ManifestFacts DEF PlaceOK, Live, history
  <2>4. ProbedOK' /\ CountedOK' /\ AnsweredOK'
    BY DEF ProbedOK, CountedOK, AnsweredOK, BackendTyped, backend, history
  <2> QED
    BY <2>2, <2>3, <2>4
<1>3. ASSUME NEW p \in Platforms, StartVerify(p)
      PROVE  Typed'
  <2> USE <1>3 DEF StartVerify
  <2>1. /\ manifest'.profile = "dev"
        /\ DOMAIN manifest'.targets = 1..1 /\ Len(manifest'.targets) = 1
    BY DEF NoManifest
  <2>2. RequestOK'
    BY <2>1 DEF RequestOK, Profiles
  <2>3. PlaceOK'
    BY <1>1, <2>1 DEF PlaceOK, Live, history, report
  <2>4. ProbedOK' /\ CountedOK' /\ AnsweredOK'
    BY DEF ProbedOK, CountedOK, AnsweredOK, BackendTyped, backend, history
  <2> QED
    BY <2>2, <2>3, <2>4
<1>4. ASSUME NEW p \in AllPlatforms, NEW machine \in MachinesFor(p), Probe(p, machine)
      PROVE  Typed'
  <2> USE <1>4 DEF Probe
  <2>1. RequestOK' /\ CountedOK' /\ AnsweredOK'
    BY DEF RequestOK, CountedOK, AnsweredOK, BackendTyped, backend
  <2>2. PlaceOK'
    BY <1>1 DEF PlaceOK, Live
  <2>3. CanSign(p, machine) \in BOOLEAN
    BY DEF CanSign
  <2>4. ProbedOK'
    BY <2>3 DEF ProbedOK
  <2> QED
    BY <2>1, <2>2, <2>4
<1>5. CASE ProbeRaises
  <2> USE <1>5 DEF ProbeRaises
  <2>1. RequestOK' /\ ProbedOK' /\ CountedOK' /\ AnsweredOK'
    BY DEF RequestOK, ProbedOK, CountedOK, AnsweredOK, BackendTyped, backend, history
  <2>2. PlaceOK'
    BY <1>1 DEF PlaceOK, Live, history
  <2> QED
    BY <2>1, <2>2
<1> QED
  BY <1>2, <1>3, <1>4, <1>5 DEF Starts

(* The loop over the targets. *)
LEMMA LoopTyped ==
  ASSUME Typed,
         \/ SkipFiltered \/ DispatchRaises \/ RecordOutcome \/ Finish
         \/ \E world \in WorldsWith(Providers) : Dispatching(world)
  PROVE  Typed'
<1> USE DEF Typed
<1>1. CASE SkipFiltered
  <2> USE <1>1 DEF SkipFiltered, AtTarget
  <2>1. RequestOK' /\ ProbedOK' /\ CountedOK' /\ AnsweredOK'
    BY DEF RequestOK, ProbedOK, CountedOK, AnsweredOK, BackendTyped, request, backend, history
  <2>2. PlaceOK'
    BY DEF RequestOK, PlaceOK, Live, request, history, report
  <2> QED
    BY <2>1, <2>2
<1>2. ASSUME NEW world \in WorldsWith(Providers), DispatchSkips(world)
      PROVE  Typed'
  <2> USE <1>2 DEF DispatchSkips, AtTarget
  <2>1. RequestOK' /\ ProbedOK' /\ AnsweredOK'
    BY DEF RequestOK, ProbedOK, AnsweredOK, BackendTyped, request, backend, history
  <2>2. "skipped_no_credential" \in SigningStatus
    BY BackendValues
  <2>3. CountedOK'
    BY <2>2, AppendType, RecordType DEF CountedOK
  <2>4. PlaceOK'
    BY DEF RequestOK, PlaceOK, Live, request, history, report
  <2> QED
    BY <2>1, <2>3, <2>4
<1>3. ASSUME NEW world \in WorldsWith(Providers), DispatchSigns(world)
      PROVE  Typed'
  <2> USE <1>3 DEF DispatchSigns, AtTarget
  <2>1. RequestOK' /\ ProbedOK' /\ CountedOK' /\ AnsweredOK'
    BY DEF RequestOK, ProbedOK, CountedOK, AnsweredOK, BackendTyped, request, backend, history
  <2>2. PlaceOK'
    BY DEF RequestOK, PlaceOK, Live, request, history, report
  <2> QED
    BY <2>1, <2>2
<1>4. CASE RecordOutcome
  <2> USE <1>4 DEF RecordOutcome
  <2>1. outcome.status \in SigningStatus
    BY DEF AnsweredOK
  <2>2. RequestOK' /\ ProbedOK' /\ AnsweredOK'
    BY DEF RequestOK, ProbedOK, AnsweredOK, BackendTyped, request, backend, history
  <2>3. CountedOK'
    BY <2>1, AppendType, RecordType DEF CountedOK, Collects
  <2>4. PlaceOK'
    BY DEF RequestOK, PlaceOK, Live, NextPos, request, history, report
  <2> QED
    BY <2>2, <2>3, <2>4
<1>5. CASE Finish
  <2> USE <1>5 DEF Finish
  <2>1. RequestOK' /\ ProbedOK' /\ CountedOK' /\ AnsweredOK'
    BY DEF RequestOK, ProbedOK, CountedOK, AnsweredOK, BackendTyped, request, backend, history
  <2>2. PlaceOK'
    BY DEF RequestOK, PlaceOK, Live, request, history
  <2> QED
    BY <2>1, <2>2
<1>6. CASE DispatchRaises
  <2> USE <1>6 DEF DispatchRaises, AtTarget
  <2>1. RequestOK' /\ ProbedOK' /\ CountedOK' /\ AnsweredOK'
    BY DEF RequestOK, ProbedOK, CountedOK, AnsweredOK, BackendTyped, request, backend, history
  <2>2. PlaceOK'
    BY DEF RequestOK, PlaceOK, Live, request, history
  <2> QED
    BY <2>1, <2>2
<1> QED
  BY <1>1, <1>2, <1>3, <1>4, <1>5, <1>6 DEF Dispatching

(* The call into a backend. *)
LEMMA CallTyped ==
  ASSUME Typed, BackendWorks \/ BackendReturns \/ BackendRaises
  PROVE  Typed'
<1> USE DEF Typed
<1>1. /\ pc = "calling" /\ exit = "none" /\ cmd \in {"sign", "verify"}
      /\ pos \in DOMAIN manifest.targets
      /\ BackendSteps
  BY DEF BackendWorks, BackendReturns, BackendRaises, BackendSteps, RequestOK, PlaceOK, Live
<1>2. BackendTyped'
  BY <1>1, BackendStepTyped DEF AnsweredOK
<1>3. UNCHANGED <<manifest, filter, dryRun, cmd, pos, outcomes, probed>>
  BY DEF BackendWorks, BackendReturns, BackendRaises, request, history
<1>4. RequestOK' /\ ProbedOK'
  BY <1>3 DEF RequestOK, ProbedOK
<1>5. workedOn' \subseteq DOMAIN manifest'.targets
  BY <1>1, <1>3 DEF BackendWorks, BackendReturns, BackendRaises, PlaceOK
<1>6. CASE BackendWorks
  <2>1. UNCHANGED <<pc, counts, exit>>
    BY <1>6 DEF BackendWorks, report
  <2>2. PlaceOK' /\ CountedOK' /\ AnsweredOK'
    BY <1>1, <1>2, <1>3, <1>5, <2>1 DEF PlaceOK, Live, CountedOK, AnsweredOK
  <2> QED
    BY <1>4, <2>2
<1>7. CASE BackendReturns
  <2>1. outcome'.status \in SigningStatus
    BY <1>7, AnswerStatus DEF BackendReturns
  <2>2. counts' \in [SigningStatus -> Nat]
    BY <1>7, <2>1, RecordType DEF BackendReturns, CountedOK
  <2>3. pc' = "returned" /\ exit' = exit
    BY <1>7 DEF BackendReturns, report
  <2>4. PlaceOK' /\ CountedOK' /\ AnsweredOK'
    BY <1>1, <1>2, <1>3, <1>5, <2>1, <2>2, <2>3 DEF PlaceOK, Live, CountedOK, AnsweredOK
  <2> QED
    BY <1>4, <2>4
<1>8. CASE BackendRaises
  <2>1. pc' = "exited" /\ exit' = "error" /\ counts' = counts
    BY <1>8 DEF BackendRaises
  <2>2. PlaceOK' /\ CountedOK' /\ AnsweredOK'
    BY <1>1, <1>2, <1>3, <1>5, <2>1 DEF PlaceOK, Live, CountedOK, AnsweredOK
  <2> QED
    BY <1>4, <2>2
<1> QED
  BY <1>6, <1>7, <1>8

LEMMA KilledTyped ==
  ASSUME Typed, Killed \/ UNCHANGED vars
  PROVE  Typed'
<1>1. UNCHANGED <<manifest, filter, dryRun, cmd, pos, outcomes, counts, probed, workedOn,
                  busy, touched, passed, outcome>>
  BY DEF Killed, vars, request, backend, history
<1>2. \/ pc' = "exited" /\ exit' = "killed"
      \/ UNCHANGED <<pc, exit>>
  BY DEF Killed, vars, report
<1>3. RequestOK' /\ ProbedOK' /\ CountedOK' /\ AnsweredOK'
  BY <1>1, <1>2 DEF Typed, RequestOK, ProbedOK, CountedOK, AnsweredOK, BackendTyped
<1>4. PlaceOK'
  BY <1>1, <1>2 DEF Typed, PlaceOK, Live
<1> QED
  BY <1>3, <1>4 DEF Typed

LEMMA StepTyped == Typed /\ [Next]_vars => Typed'
  BY StartsTyped, LoopTyped, CallTyped, KilledTyped DEF Next

------------------------------------------------------------------------------
(* What the loop keeps: Progress, WorkWasValidated, ExitZeroIsHonest and    *)
(* DryRunSignsNothing, beside the types.                                    *)
Kept == Progress /\ WorkWasValidated /\ ExitZeroIsHonest /\ DryRunSignsNothing

LEMMA InitKept == Init => Kept
<1> SUFFICES ASSUME Init PROVE Kept
  OBVIOUS
<1>1. pc = "idle" /\ cmd = "none" /\ exit = "none" /\ workedOn = {}
  BY DEF Init
<1> QED
  BY <1>1 DEF Kept, Progress, Live, WorkWasValidated, ExitZeroIsHonest, DryRunSignsNothing

LEMMA StartsKept ==
  ASSUME Typed, Starts
  PROVE  Kept'
<1>1. pc = "idle" /\ pos = 1 /\ outcomes = <<>> /\ exit = "none" /\ workedOn = {}
  BY DEF Starts, Typed, PlaceOK
<1>2. ASSUME NEW m \in Manifests, NEW f \in Filters, NEW dry \in BOOLEAN,
             StartSign(m, f, dry)
      PROVE  Kept'
  <2>1. pos' = 1 /\ outcomes' = <<>> /\ workedOn' = {} /\ manifest' = m
    BY <1>1, <1>2 DEF StartSign, history
  <2>2. exit' # "ok" /\ (Live' => pc' = "loop" /\ Validates(m))
    BY <1>1, <1>2 DEF StartSign, Rejects, Live
  <2>3. DOMAIN outcomes' = {} /\ {t \in Selected' : t < 1} = {}
    BY <2>1, ManifestFacts DEF Selected
  <2>4. Progress'
    BY <2>1, <2>2, <2>3 DEF Progress
  <2> QED
    BY <2>1, <2>2, <2>3, <2>4
    DEF Kept, WorkWasValidated, ExitZeroIsHonest, DryRunSignsNothing
<1>3. ASSUME NEW p \in Platforms, StartVerify(p)
      PROVE  Kept'
  BY <1>1, <1>3
  DEF StartVerify, history, Kept, Progress, WorkWasValidated, ExitZeroIsHonest,
      DryRunSignsNothing
<1>4. ASSUME NEW p \in AllPlatforms, NEW machine \in MachinesFor(p), Probe(p, machine)
      PROVE  Kept'
  BY <1>4
  DEF Probe, Kept, Progress, WorkWasValidated, ExitZeroIsHonest, DryRunSignsNothing
<1>5. CASE ProbeRaises
  BY <1>5
  DEF ProbeRaises, Kept, Progress, WorkWasValidated, ExitZeroIsHonest, DryRunSignsNothing
<1> QED
  BY <1>2, <1>3, <1>4, <1>5 DEF Starts

(* The selected targets before the next position. *)
LEMMA NextSelected ==
  ASSUME Typed, pos \in DOMAIN manifest.targets
  PROVE  {t \in Selected : t < pos + 1} =
           {t \in Selected : t < pos} \cup (IF Current.platform \in filter THEN {pos} ELSE {})
<1>1. /\ DOMAIN manifest.targets = 1..Len(manifest.targets)
      /\ Len(manifest.targets) \in Nat /\ pos \in Nat
  BY DEF Typed, RequestOK, PlaceOK
<1>2. \A t \in Selected : t \in Nat
  BY <1>1 DEF Selected
<1>3. pos \in Selected <=> Current.platform \in filter
  BY DEF Selected, Current
<1> QED
  BY <1>1, <1>2, <1>3

(* What appending an outcome for the current target does to the list. *)
LEMMA AppendFacts ==
  ASSUME Typed, NEW s \in SigningStatus, outcomes' = Append1(s)
  PROVE  /\ DOMAIN outcomes' = DOMAIN outcomes \cup {Len(outcomes) + 1}
         /\ \A i \in DOMAIN outcomes :
              i \in Nat /\ i < Len(outcomes) + 1 /\ outcomes'[i] = outcomes[i]
         /\ outcomes'[Len(outcomes) + 1].target = pos
         /\ outcomes'[Len(outcomes) + 1].status = s
         /\ {outcomes'[i].target : i \in DOMAIN outcomes'} =
              {outcomes[i].target : i \in DOMAIN outcomes} \cup {pos}
<1>1. outcomes \in Seq(Reported)
  BY DEF Typed, CountedOK
<1>2. outcomes' = Append(outcomes, [target |-> pos, status |-> s])
  BY DEF Append1
<1>3. /\ DOMAIN outcomes = 1..Len(outcomes) /\ Len(outcomes) \in Nat
      /\ DOMAIN outcomes' = 1..(Len(outcomes) + 1)
      /\ \A i \in DOMAIN outcomes : outcomes'[i] = outcomes[i]
      /\ outcomes'[Len(outcomes) + 1] = [target |-> pos, status |-> s]
  BY <1>1, <1>2
<1>4. /\ outcomes'[Len(outcomes) + 1].target = pos
      /\ outcomes'[Len(outcomes) + 1].status = s
  BY <1>3
<1>5. DOMAIN outcomes' = DOMAIN outcomes \cup {Len(outcomes) + 1}
  BY <1>3
<1> QED
  BY <1>3, <1>4, <1>5

(* An outcome for the current, selected target keeps Progress.  The new     *)
(* entry comes after all others because those are about earlier positions.  *)
LEMMA AppendProgress ==
  ASSUME Typed, Progress, Live, cmd = "sign", NEW s \in SigningStatus,
         pos \in DOMAIN manifest.targets, Current.platform \in filter,
         outcomes' = Append1(s), pos' = pos + 1, pc' = "loop",
         UNCHANGED <<cmd, manifest, filter, dryRun>>
  PROVE  Progress'
<1>1. {outcomes'[i].target : i \in DOMAIN outcomes'} = {t \in Selected' : t < pos'}
  <2>1. Selected' = Selected
    BY DEF Selected
  <2>2. {outcomes'[i].target : i \in DOMAIN outcomes'} = {t \in Selected : t < pos} \cup {pos}
    BY AppendFacts DEF Progress
  <2>3. {t \in Selected : t < pos + 1} = {t \in Selected : t < pos} \cup {pos}
    BY NextSelected
  <2> QED
    BY <2>1, <2>2, <2>3
<1>2. \A i \in DOMAIN outcomes : outcomes[i].target < pos
  BY DEF Progress
<1>3. ASSUME NEW i \in DOMAIN outcomes', NEW j \in DOMAIN outcomes', i < j
      PROVE  outcomes'[i].target < outcomes'[j].target
  <2> DEFINE new == Len(outcomes) + 1
  <2>1. /\ i \in DOMAIN outcomes \/ i = new
        /\ j \in DOMAIN outcomes \/ j = new
        /\ \A k \in DOMAIN outcomes : k \in Nat /\ k < new /\ outcomes'[k] = outcomes[k]
        /\ outcomes'[new].target = pos
        /\ new \in Nat
    BY AppendFacts DEF Typed, CountedOK
  <2> HIDE DEF new
  <2>2. i \in DOMAIN outcomes
    BY <1>3, <2>1
  <2>3. CASE j \in DOMAIN outcomes
    BY <1>3, <2>1, <2>2, <2>3 DEF Progress
  <2>4. CASE j = new
    BY <1>2, <2>1, <2>2, <2>4
  <2> QED
    BY <2>1, <2>3, <2>4
<1> QED
  BY <1>1, <1>3 DEF Progress

LEMMA AppendSkips ==
  ASSUME Typed, DryRunSignsNothing, NEW s \in SigningStatus, outcomes' = Append1(s),
         cmd = "sign" /\ dryRun => IsSkipped(s),
         UNCHANGED <<cmd, dryRun, workedOn>>
  PROVE  DryRunSignsNothing'
<1>1. ASSUME NEW i \in DOMAIN outcomes', cmd = "sign", dryRun
      PROVE  IsSkipped(outcomes'[i].status)
  <2>1. CASE i \in DOMAIN outcomes
    <3>1. outcomes'[i] = outcomes[i]
      BY <2>1, AppendFacts
    <3> QED
      BY <1>1, <2>1, <3>1 DEF DryRunSignsNothing
  <2>2. CASE i = Len(outcomes) + 1
    <3>1. outcomes'[i].status = s
      BY <2>2, AppendFacts
    <3> QED
      BY <1>1, <3>1
  <2>3. i \in DOMAIN outcomes \/ i = Len(outcomes) + 1
    BY <1>1, AppendFacts
  <2> QED
    BY <2>1, <2>2, <2>3
<1> QED
  BY <1>1 DEF DryRunSignsNothing

LEMMA LoopKept ==
  ASSUME Typed, Kept,
         \/ SkipFiltered \/ DispatchRaises \/ RecordOutcome \/ Finish
         \/ \E world \in WorldsWith(Providers) : Dispatching(world)
  PROVE  Kept'
<1>1. Live /\ exit = "none" /\ cmd \in {"sign", "verify"}
  BY DEF SkipFiltered, RecordOutcome, Finish, Dispatching, DispatchSkips, DispatchSigns,
         DispatchRaises, AtTarget, Live, Typed, PlaceOK
<1>2. AtTarget => pos \in DOMAIN manifest.targets
  BY DEF AtTarget, Typed, RequestOK, PlaceOK
<1>3. CASE SkipFiltered
  <2> USE <1>3 DEF SkipFiltered
  <2>1. /\ pos' = pos + 1 /\ Current.platform \notin filter /\ pc = "loop" /\ pc' = "loop"
        /\ UNCHANGED <<cmd, manifest, filter, dryRun, outcomes, exit, workedOn>>
    BY DEF AtTarget, request, report, history
  <2>2. {t \in Selected' : t < pos'} = {t \in Selected : t < pos}
    BY <1>2, <2>1, NextSelected DEF Selected
  <2>3. Progress'
    BY <1>1, <2>1, <2>2 DEF Kept, Progress, Live
  <2> QED
    BY <1>1, <2>1, <2>3 DEF Kept, WorkWasValidated, ExitZeroIsHonest, DryRunSignsNothing
<1>4. ASSUME NEW world \in WorldsWith(Providers), DispatchSkips(world)
      PROVE  Kept'
  <2> USE <1>4 DEF DispatchSkips
  <2>1. /\ outcomes' = Append1("skipped_no_credential") /\ pos' = pos + 1
        /\ Current.platform \in filter /\ pc = "loop" /\ pc' = "loop"
        /\ UNCHANGED <<cmd, manifest, filter, dryRun, exit, workedOn>>
    BY DEF AtTarget, request, report, history
  <2>2. "skipped_no_credential" \in SigningStatus /\ IsSkipped("skipped_no_credential")
    BY BackendValues DEF IsSkipped
  <2>3. Progress'
    <3>1. CASE cmd = "sign"
      BY <1>1, <1>2, <2>1, <2>2, <3>1, AppendProgress DEF Kept
    <3>2. CASE cmd # "sign"
      BY <2>1, <3>2 DEF Progress
    <3> QED
      BY <3>1, <3>2
  <2>4. DryRunSignsNothing'
    BY <2>1, <2>2, AppendSkips DEF Kept
  <2> QED
    BY <1>1, <2>1, <2>3, <2>4 DEF Kept, WorkWasValidated, ExitZeroIsHonest
<1>5. ASSUME NEW world \in WorldsWith(Providers), DispatchSigns(world)
      PROVE  Kept'
  <2>1. /\ Current.platform \in filter /\ ~dryRun
        /\ UNCHANGED <<cmd, manifest, filter, dryRun, pos, outcomes, exit, workedOn>>
    BY <1>5 DEF DispatchSigns, IsDryRun, request, report, history
  <2>2. Progress'
    BY <1>1, <2>1 DEF Kept, Progress, Live, Current, Selected
  <2> QED
    BY <1>1, <2>1, <2>2 DEF Kept, WorkWasValidated, ExitZeroIsHonest, DryRunSignsNothing
<1>6. CASE RecordOutcome
  <2> USE <1>6 DEF RecordOutcome
  <2>1. /\ outcomes' = Append1(outcome.status) /\ pos' = pos + 1
        /\ pc = "returned" /\ pc' = "loop"
        /\ UNCHANGED <<cmd, manifest, filter, dryRun, exit, workedOn>>
    BY DEF Collects, NextPos, request, report, history
  <2>2. outcome.status \in SigningStatus /\ pos \in DOMAIN manifest.targets
    BY <2>1 DEF Typed, RequestOK, PlaceOK, AnsweredOK
  <2>3. cmd = "sign" => Current.platform \in filter /\ ~dryRun
    BY <1>1, <2>1 DEF Kept, Progress
  <2>4. Progress'
    <3>1. CASE cmd = "sign"
      BY <1>1, <2>1, <2>2, <2>3, <3>1, AppendProgress DEF Kept
    <3>2. CASE cmd # "sign"
      BY <2>1, <3>2 DEF Progress
    <3> QED
      BY <3>1, <3>2
  <2>5. DryRunSignsNothing'
    BY <2>1, <2>2, <2>3, AppendSkips DEF Kept
  <2> QED
    BY <1>1, <2>1, <2>4, <2>5 DEF Kept, WorkWasValidated, ExitZeroIsHonest
<1>7. CASE Finish
  <2> USE <1>7 DEF Finish
  <2>1. /\ printed' = outcomes /\ pc' = "exited" /\ pos > Len(manifest.targets)
        /\ UNCHANGED <<cmd, manifest, filter, dryRun, outcomes, workedOn>>
        /\ exit' = "ok" => ~AnyFailed
    BY DEF request, history
  <2>2. {t \in Selected : t < pos} = Selected
    BY <2>1 DEF Selected, Typed, RequestOK, PlaceOK
  <2>3. ExitZeroIsHonest'
    <3>1. Selected' = Selected
      BY <2>1 DEF Selected
    <3> QED
      BY <1>1, <2>1, <2>2, <3>1 DEF Kept, Progress, ExitZeroIsHonest, AnyFailed
  <2> QED
    BY <2>1, <2>3 DEF Kept, Progress, Live, WorkWasValidated, DryRunSignsNothing
<1>8. CASE DispatchRaises
  <2>1. /\ pc' = "exited" /\ exit' = "error"
        /\ UNCHANGED <<cmd, manifest, dryRun, outcomes, workedOn>>
    BY <1>8 DEF DispatchRaises, request, history
  <2> QED
    BY <2>1
    DEF Kept, Progress, Live, WorkWasValidated, ExitZeroIsHonest, DryRunSignsNothing
<1> QED
  BY <1>3, <1>4, <1>5, <1>6, <1>7, <1>8 DEF Dispatching

(* A backend only works under a validated manifest and outside a dry run.   *)
LEMMA CallKept ==
  ASSUME Typed, Kept, BackendWorks \/ BackendReturns \/ BackendRaises
  PROVE  Kept'
<1>1. /\ pc = "calling" /\ pc' \in {"calling", "returned", "exited"} /\ exit' # "ok"
      /\ UNCHANGED <<cmd, manifest, filter, dryRun, pos, outcomes>>
  BY DEF BackendWorks, BackendReturns, BackendRaises, request, report, Typed, PlaceOK, Live
<1>2. cmd = "sign" => Validates(manifest) /\ Current.platform \in filter /\ ~dryRun
  BY <1>1 DEF Kept, Progress, Live
<1>3. Progress'
  BY <1>1 DEF Kept, Progress, Live, Current, Selected
<1>4. WorkWasValidated' /\ ExitZeroIsHonest' /\ DryRunSignsNothing'
  BY <1>1, <1>2 DEF WorkWasValidated, ExitZeroIsHonest, DryRunSignsNothing
<1> QED
  BY <1>3, <1>4 DEF Kept

LEMMA KilledKept ==
  ASSUME Kept, Killed \/ UNCHANGED vars
  PROVE  Kept'
<1>1. UNCHANGED <<manifest, filter, dryRun, cmd, pos, outcomes, printed, workedOn>>
  BY DEF Killed, vars, request, report, history
<1>2. (pc' = "exited" /\ exit' = "killed") \/ UNCHANGED <<pc, exit>>
  BY DEF Killed, vars, report
<1>3. Selected' = Selected /\ Current' = Current
  BY <1>1 DEF Selected, Current
<1>4. Progress' /\ WorkWasValidated' /\ ExitZeroIsHonest' /\ DryRunSignsNothing'
  BY <1>1, <1>2, <1>3
  DEF Kept, Progress, Live, WorkWasValidated, ExitZeroIsHonest, DryRunSignsNothing
<1> QED
  BY <1>4 DEF Kept

LEMMA Invariance == Spec => [](Typed /\ Kept)
<1>1. Init => Typed /\ Kept
  BY InitTyped, InitKept
<1>2. Typed /\ Kept /\ [Next]_vars => (Typed /\ Kept)'
  BY StepTyped, StartsKept, LoopKept, CallKept, KilledKept DEF Next
<1> QED
  BY <1>1, <1>2, PTL DEF Spec

------------------------------------------------------------------------------
(* cli.py's state, for every manifest: every variable keeps its type, and   *)
(* the loop never runs past the manifest.                                   *)
THEOREM TypeCorrect == Spec => []TypeOK
<1>1. Typed => TypeOK
  BY TypedParts
<1> QED
  BY <1>1, Invariance, PTL

(* cli.py:175-188.  Exit code 0 of `sign` vouches for the whole manifest:   *)
(* every selected target once, in order, and none of them failed.           *)
THEOREM ExitZeroVouches == Spec => []ExitZeroIsHonest
<1>1. Kept => ExitZeroIsHonest
  BY DEF Kept
<1> QED
  BY <1>1, Invariance, PTL

(* cli.py:130-132.  A dry run works on no artifact and only reports skips.  *)
THEOREM DryRunsSignNothing == Spec => []DryRunSignsNothing
<1>1. Kept => DryRunSignsNothing
  BY DEF Kept
<1> QED
  BY <1>1, Invariance, PTL

(* config_schema.py:228-244.  No target of a prod manifest is worked on     *)
(* when one of its keys is local, whatever the filter and the machine.      *)
THEOREM ProdManifestStops == Spec => []ProdManifestStopsWhole
<1>1. Kept => ProdManifestStopsWhole
  BY DEF Kept, WorkWasValidated, ProdManifestStopsWhole, Validates, ProdRequiresHardware,
         ForbiddenInProd
<1> QED
  BY <1>1, Invariance, PTL

------------------------------------------------------------------------------
(* The outcomes with status s. *)
Having(s) == {i \in DOMAIN outcomes : outcomes[i].status = s}

LEMMA RecordFacts ==
  ASSUME NEW c \in [SigningStatus -> Nat], NEW s \in SigningStatus, NEW r \in SigningStatus
  PROVE  Record(c, s)[r] = IF r = s THEN c[r] + 1 ELSE c[r]
  BY DEF Record

LEMMA HavingFinite ==
  ASSUME Typed, NEW s
  PROVE  IsFiniteSet(Having(s)) /\ Cardinality(Having(s)) \in Nat
<1>1. DOMAIN outcomes = 1..Len(outcomes) /\ Len(outcomes) \in Nat
  BY DEF Typed, CountedOK
<1>2. IsFiniteSet(DOMAIN outcomes)
  BY <1>1, FS_Interval
<1>3. IsFiniteSet(Having(s))
  BY <1>2, FS_Subset DEF Having
<1> QED
  BY <1>3, FS_CardinalityType

(* Appending an outcome adds one position to those of its status. *)
LEMMA HavingAppended ==
  ASSUME Typed, NEW s \in SigningStatus, outcomes' = Append1(s), NEW r \in SigningStatus
  PROVE  Cardinality(Having(r)') =
           IF r = s THEN Cardinality(Having(r)) + 1 ELSE Cardinality(Having(r))
<1> DEFINE new == Len(outcomes) + 1
<1>1. /\ DOMAIN outcomes' = DOMAIN outcomes \cup {new}
      /\ new \notin DOMAIN outcomes
      /\ \A i \in DOMAIN outcomes : outcomes'[i] = outcomes[i]
      /\ outcomes'[new].status = s
  <2>1. new \in Nat
    BY DEF Typed, CountedOK
  <2>2. new \notin DOMAIN outcomes
    BY <2>1, AppendFacts
  <2> QED
    BY <2>2, AppendFacts
<1> HIDE DEF new
<1>2. CASE r = s
  <2>1. Having(r)' = Having(r) \cup {new} /\ new \notin Having(r)
    BY <1>1, <1>2 DEF Having
  <2> QED
    BY <1>2, <2>1, HavingFinite, FS_AddElement
<1>3. CASE r # s
  <2>1. Having(r)' = Having(r)
    BY <1>1, <1>3 DEF Having
  <2> QED
    BY <1>3, <2>1
<1> QED
  BY <1>2, <1>3

(* No selected target has a backend that records its outcomes itself. *)
LoopRecordsAlone == \A i \in Selected : manifest.targets[i].platform \notin SelfRecording

(* What every step keeps: before a command there is nothing to count, and   *)
(* a signing command keeps the counter of CounterCountsOutcomes.            *)
Exact == \A s \in SigningStatus : counts[s] = Cardinality(Having(s))
Counting ==
  /\ pc = "idle" => Exact
  /\ Live /\ cmd = "sign" /\ LoopRecordsAlone => Exact

LEMMA ExactAppended ==
  ASSUME Typed, Exact, NEW s \in SigningStatus, outcomes' = Append1(s),
         counts' = Record(counts, s)
  PROVE  Exact'
<1>1. ASSUME NEW r \in SigningStatus
      PROVE  counts'[r] = Cardinality(Having(r)')
  <2>1. counts'[r] = IF r = s THEN counts[r] + 1 ELSE counts[r]
    BY RecordFacts DEF Typed, CountedOK
  <2>2. counts[r] = Cardinality(Having(r))
    BY DEF Exact
  <2> QED
    BY <2>1, <2>2, HavingAppended
<1> QED
  BY <1>1 DEF Exact

LEMMA StepCounting ==
  ASSUME Typed, Kept, Counting, [Next]_vars
  PROVE  Counting'
<1>1. ASSUME UNCHANGED <<outcomes, counts>> PROVE Exact' <=> Exact
  BY <1>1 DEF Exact, Having
<1>2. ASSUME UNCHANGED <<manifest, filter>> PROVE LoopRecordsAlone' <=> LoopRecordsAlone
  BY <1>2 DEF LoopRecordsAlone, Selected
<1>3. CASE Starts
  <2>1. pc = "idle" /\ UNCHANGED <<outcomes, counts>>
    BY <1>3 DEF Starts, StartSign, StartVerify, Probe, ProbeRaises
  <2> QED
    BY <1>1, <2>1 DEF Counting
<1>4. CASE SkipFiltered
  <2>1. pc = "loop" /\ pc' = "loop" /\ UNCHANGED <<cmd, manifest, filter, outcomes, counts>>
    BY <1>4 DEF SkipFiltered, AtTarget, request
  <2> QED
    BY <1>1, <1>2, <2>1 DEF Counting, Live
<1>5. ASSUME NEW world \in WorldsWith(Providers), DispatchSkips(world) PROVE Counting'
  <2>1. /\ pc = "loop" /\ pc' = "loop" /\ UNCHANGED <<cmd, manifest, filter>>
        /\ outcomes' = Append1("skipped_no_credential")
        /\ counts' = Record(counts, "skipped_no_credential")
    BY <1>5 DEF DispatchSkips, AtTarget, request
  <2> QED
    BY <1>2, <2>1, ExactAppended, BackendValues DEF Counting, Live
<1>6. ASSUME NEW world \in WorldsWith(Providers), DispatchSigns(world) PROVE Counting'
  <2>1. /\ pc = "loop" /\ pc' = "calling"
        /\ UNCHANGED <<cmd, manifest, filter, outcomes, counts>>
    BY <1>6 DEF DispatchSigns, AtTarget, request
  <2> QED
    BY <1>1, <1>2, <2>1 DEF Counting, Live
<1>7. CASE BackendWorks
  <2>1. pc = "calling" /\ UNCHANGED <<pc, cmd, manifest, filter, outcomes, counts>>
    BY <1>7 DEF BackendWorks, request
  <2> QED
    BY <1>1, <1>2, <2>1 DEF Counting, Live
<1>8. CASE BackendReturns
  <2>1. /\ pc = "calling" /\ pc' = "returned"
        /\ UNCHANGED <<cmd, manifest, filter, pos, outcomes>>
        /\ Current.platform \notin SelfRecording => counts' = counts
    BY <1>8 DEF BackendReturns, request
  <2>2. cmd = "sign" => pos \in Selected
    <3>1. pos \in DOMAIN manifest.targets
      BY <2>1 DEF Typed, RequestOK, PlaceOK
    <3>2. cmd = "sign" => Current.platform \in filter
      BY <2>1 DEF Kept, Progress, Live
    <3> QED
      BY <3>1, <3>2 DEF Selected, Current
  <2>3. cmd = "sign" /\ LoopRecordsAlone => counts' = counts
    BY <2>1, <2>2 DEF LoopRecordsAlone, Current
  <2> QED
    BY <1>1, <1>2, <2>1, <2>3 DEF Counting, Live
<1>9. CASE RecordOutcome
  <2>1. /\ pc = "returned" /\ pc' = "loop" /\ UNCHANGED <<cmd, manifest, filter>>
        /\ outcomes' = Append1(outcome.status) /\ counts' = Record(counts, outcome.status)
    BY <1>9 DEF RecordOutcome, Collects, request
  <2>2. outcome.status \in SigningStatus
    BY <2>1 DEF Typed, AnsweredOK
  <2> QED
    BY <1>2, <2>1, <2>2, ExactAppended DEF Counting, Live
<1>10. CASE DispatchRaises \/ BackendRaises \/ Finish \/ Killed
  BY <1>10 DEF DispatchRaises, BackendRaises, Finish, Killed, Counting, Live
<1>11. CASE UNCHANGED vars
  <2>1. UNCHANGED <<pc, cmd, manifest, filter, outcomes, counts>>
    BY <1>11 DEF vars, request
  <2> QED
    BY <1>1, <1>2, <2>1 DEF Counting, Live
<1> QED
  BY <1>3, <1>4, <1>5, <1>6, <1>7, <1>8, <1>9, <1>10, <1>11 DEF Next, Dispatching

(* result.py:168-185 with cli.py:175-188.  How far CounterCountsOutcomes    *)
(* fails: a signing command whose selected targets all have backends that   *)
(* leave recording to the loop counts every outcome exactly once.           *)
THEOREM OnlySelfRecordingCountsTwice ==
  Spec => [](cmd = "sign" /\ LoopRecordsAlone => CounterCountsOutcomes)
<1>1. Init => Counting
  <2> SUFFICES ASSUME Init PROVE Counting
    OBVIOUS
  <2>1. \A s \in SigningStatus : Having(s) = {}
    BY DEF Init, Having
  <2>2. Cardinality({}) = 0
    BY FS_EmptySet
  <2>3. \A s \in SigningStatus : counts[s] = 0
    BY DEF Init, NoCounts
  <2>4. Exact
    <3>1. ASSUME NEW s \in SigningStatus PROVE counts[s] = Cardinality(Having(s))
      <4>1. counts[s] = 0 /\ Having(s) = {}
        BY <2>1, <2>3
      <4> HIDE DEF Having
      <4> QED
        BY <2>2, <4>1
    <3> QED
      BY <3>1 DEF Exact
  <2> QED
    BY <2>4 DEF Init, Counting, Live
<1>2. Typed /\ Kept /\ Counting /\ [Next]_vars => Counting'
  BY StepCounting
<1>3. Counting => (cmd = "sign" /\ LoopRecordsAlone => CounterCountsOutcomes)
  BY DEF Counting, Exact, Having, CounterCountsOutcomes, Live
<1> QED
  BY <1>1, <1>2, <1>3, Invariance, PTL DEF Spec

------------------------------------------------------------------------------
(* base.py:78-80.  What `probe` reports, and of which machine. *)
ProbeReports ==
  probed # NotProbed =>
    /\ probed.platform \in AllPlatforms /\ probed.machine \in MachinesFor(probed.platform)
    /\ probed.canSign = CanSign(probed.platform, probed.machine)
    /\ probed.toolPresent = ToolPresent(probed.platform, probed.machine)

LEMMA Platforms5 == AllPlatforms = {"windows", "macos", "linux", "android", "ios"}
  BY DEF AllPlatforms, ToolsOf

(* The probe and sign(), on one machine and for one target. *)
LEMMA ProbeAgrees ==
  ASSUME NEW p \in AllPlatforms, NEW m \in MachinesFor(p), NEW t \in SignTargets
  PROVE  /\ CanSign(p, m) /\ IsSkipped(SignAnswer(p, m, t)) =>
              p = "macos" /\ ~t.notary /\ SignAnswer(p, m, t) = "skipped_no_credential"
         /\ ToolPresent(p, m) <=> SignAnswer(p, m, t) # "skipped_tool_absent"
         /\ p \in {"android", "ios"} =>
              (CanSign(p, m) <=> SignAnswer(p, m, t) = "proceeds")
<1> USE DEF CanSign, SignAnswer, ToolPresent, CredentialPresent, IsSkipped
<1>1. CASE p = "windows"
  BY <1>1 DEF DetectsTool
<1>2. CASE p = "macos"
  <2>1. m.tools \subseteq {"codesign", "xcrun"} /\ ToolsOf["macos"] = {"codesign", "xcrun"}
    BY <1>2 DEF MachinesFor, ToolsOf
  <2> QED
    BY <1>2, <2>1
<1>3. CASE p = "linux"
  <2>1. CASE m.tools = {}
    <3>1. ~ToolPresent(p, m)
      BY <1>3, <2>1
    <3> HIDE DEF ToolPresent
    <3>2. ~CanSign(p, m)
      BY <3>1
    <3> HIDE DEF CanSign, CredentialPresent
    <3>3. SignAnswer(p, m, t) = "skipped_tool_absent"
      BY <1>3, <2>1 DEF Prefers
    <3> HIDE DEF SignAnswer
    <3> QED
      BY <1>3, <3>1, <3>2, <3>3
  <2>2. CASE m.tools # {}
    <3>1. CASE Prefers(m, "cosign") /\ ~m.floor
      <4>1. SignAnswer(p, m, t) = "failed"
        BY <1>3, <2>2, <3>1
      <4> QED
        BY <1>3, <2>2, <4>1
    <3>2. CASE ~(Prefers(m, "cosign") /\ ~m.floor)
      <4>1. SignAnswer(p, m, t) = "proceeds"
        BY <1>3, <2>2, <3>2
      <4> QED
        BY <1>3, <2>2, <4>1
    <3> QED
      BY <3>1, <3>2
  <2> QED
    BY <2>1, <2>2
<1>4. CASE p = "android" \/ p = "ios"
  BY <1>4
<1> QED
  BY <1>1, <1>2, <1>3, <1>4, Platforms5

(* cli.py:130-149, base.py:78-80.  On every machine that `probe` calls able *)
(* to sign, sign() skips a target whose key resolves for one reason only:   *)
(* it is a macos target without a notarization profile.                     *)
THEOREM ProbesAgree == Spec => []ProbeAgreesWithSign
<1>1. Init => ProbeReports
  BY DEF Init, ProbeReports
<1>2. ProbeReports /\ [Next]_vars => ProbeReports'
  <2> SUFFICES ASSUME ProbeReports, [Next]_vars PROVE ProbeReports'
    OBVIOUS
  <2>1. ASSUME NEW p \in AllPlatforms, NEW machine \in MachinesFor(p), Probe(p, machine)
        PROVE  ProbeReports'
    BY <2>1 DEF Probe, ProbeReports
  <2>2. ASSUME UNCHANGED probed PROVE ProbeReports'
    BY <2>2 DEF ProbeReports
  <2> QED
    BY <2>1, <2>2
    DEF Next, Starts, StartSign, StartVerify, ProbeRaises, SkipFiltered, Dispatching,
        DispatchSkips, DispatchSigns, DispatchRaises, BackendWorks, BackendReturns, BackendRaises, RecordOutcome, Finish,
        Killed, vars, history
<1>3. ProbeReports => ProbeAgreesWithSign
  BY ProbeAgrees DEF ProbeReports, ProbeAgreesWithSign
<1> QED
  BY <1>1, <1>2, <1>3, PTL DEF Spec

------------------------------------------------------------------------------
(* How far SignedIsReported fails.  A report is a list of outcomes; what it *)
(* tells of is the targets of those outcomes.                               *)
Told(list) == {list[i].target : i \in DOMAIN list}

(* The command died at a selected target, with no report. *)
RaisedAtTarget == exit = "error" /\ printed = <<>> /\ pos \in Selected

(* Work is in the list of outcomes from the moment its call returned, and   *)
(* in the report from the moment the command ended.                         *)
Accounted ==
  /\ pc = "idle" \/ Live => printed = <<>>
  /\ Live /\ cmd = "sign" =>
       workedOn \subseteq Told(outcomes) \cup (IF pc = "loop" THEN {} ELSE {pos})
  /\ exit \in {"ok", "error"} /\ cmd = "sign" =>
       workedOn \subseteq Told(printed) \/ RaisedAtTarget

LEMMA StepAccounted ==
  ASSUME Typed, Kept, Accounted, [Next]_vars
  PROVE  Accounted'
<1>0. Live => exit = "none" /\ printed = <<>>
  BY DEF Typed, PlaceOK, Accounted
<1>1. CASE Starts
  <2>1. pc = "idle" /\ exit = "none" /\ workedOn = {} /\ printed = <<>>
    BY <1>1 DEF Starts, Typed, PlaceOK, Accounted
  <2> QED
    BY <1>1, <2>1 DEF Starts, StartSign, StartVerify, Probe, ProbeRaises, Accounted, Live, report, history
<1>2. CASE SkipFiltered
  <2>1. /\ pc = "loop" /\ pc' = "loop"
        /\ UNCHANGED <<cmd, outcomes, printed, exit, workedOn>>
    BY <1>2 DEF SkipFiltered, AtTarget, request, report, history
  <2> QED
    BY <1>0, <2>1 DEF Accounted, Live
<1>3. ASSUME NEW world \in WorldsWith(Providers), DispatchSkips(world)
      PROVE  Accounted'
  <2>1. /\ pc = "loop" /\ pc' = "loop" /\ UNCHANGED <<cmd, printed, exit, workedOn>>
        /\ outcomes' = Append1("skipped_no_credential")
    BY <1>3 DEF DispatchSkips, AtTarget, request, report, history
  <2>2. Told(outcomes') = Told(outcomes) \cup {pos}
    BY <2>1, BackendValues, AppendFacts DEF Told
  <2> QED
    BY <1>0, <2>1, <2>2 DEF Accounted, Live
<1>4. ASSUME NEW world \in WorldsWith(Providers), DispatchSigns(world)
      PROVE  Accounted'
  <2>1. /\ pc = "loop" /\ pc' = "calling"
        /\ UNCHANGED <<cmd, pos, outcomes, printed, exit, workedOn>>
    BY <1>4 DEF DispatchSigns, AtTarget, request, report, history
  <2> QED
    BY <1>0, <2>1 DEF Accounted, Live
<1>5. CASE BackendWorks \/ BackendReturns
  <2>1. /\ pc = "calling" /\ pc' \in {"calling", "returned"}
        /\ workedOn' \subseteq workedOn \cup {pos}
        /\ UNCHANGED <<cmd, pos, outcomes, printed, exit>>
    BY <1>5 DEF BackendWorks, BackendReturns, request, report
  <2> QED
    BY <1>0, <2>1 DEF Accounted, Live
<1>6. CASE BackendRaises
  <2>1. /\ pc = "calling" /\ pc' = "exited" /\ exit' = "error"
        /\ UNCHANGED <<cmd, manifest, filter, pos, printed>>
    BY <1>6 DEF BackendRaises, request
  <2>2. pos \in DOMAIN manifest.targets
    BY <2>1 DEF Typed, RequestOK, PlaceOK
  <2>3. cmd = "sign" => RaisedAtTarget'
    <3>1. cmd = "sign" => Current.platform \in filter
      BY <2>1 DEF Kept, Progress, Live
    <3> QED
      BY <1>0, <2>1, <2>2, <3>1 DEF RaisedAtTarget, Selected, Current, Live
  <2> QED
    BY <2>1, <2>3 DEF Accounted, Live
<1>7. CASE RecordOutcome
  <2>1. /\ pc = "returned" /\ pc' = "loop" /\ UNCHANGED <<cmd, printed, exit, workedOn>>
        /\ outcomes' = Append1(outcome.status)
    BY <1>7 DEF RecordOutcome, Collects, request, report, history
  <2>2. outcome.status \in SigningStatus
    BY <2>1 DEF Typed, AnsweredOK
  <2>3. Told(outcomes') = Told(outcomes) \cup {pos}
    BY <2>1, <2>2, AppendFacts DEF Told
  <2> QED
    BY <1>0, <2>1, <2>3 DEF Accounted, Live
<1>8. CASE Finish
  <2>1. /\ pc = "loop" /\ pc' = "exited" /\ printed' = outcomes
        /\ UNCHANGED <<cmd, workedOn>>
    BY <1>8 DEF Finish, request, history
  <2> QED
    BY <2>1 DEF Accounted, Live
<1>9. CASE Killed
  BY <1>9 DEF Killed, Accounted, Live
<1>10. CASE DispatchRaises
  <2>1. /\ pc = "loop" /\ pc' = "exited" /\ exit' = "error"
        /\ UNCHANGED <<cmd, manifest, filter, pos, printed>>
        /\ Current.platform \in filter
    BY <1>10 DEF DispatchRaises, AtTarget, request
  <2>2. pos \in DOMAIN manifest.targets
    BY <1>10 DEF DispatchRaises, AtTarget, Typed, RequestOK, PlaceOK
  <2>3. RaisedAtTarget'
    BY <1>0, <2>1, <2>2 DEF RaisedAtTarget, Selected, Current, Live
  <2> QED
    BY <2>1, <2>3 DEF Accounted, Live
<1>11. CASE UNCHANGED vars
  <2>1. UNCHANGED <<pc, cmd, manifest, filter, pos, outcomes, printed, exit, workedOn>>
    BY <1>11 DEF vars, request, report, history
  <2> QED
    BY <2>1 DEF Accounted, Live, RaisedAtTarget, Selected
<1> QED
  BY <1>1, <1>2, <1>3, <1>4, <1>5, <1>6, <1>7, <1>8, <1>9, <1>10, <1>11
  DEF Next, Dispatching

LEMMA AccountedAlways == Spec => [](Typed /\ Kept /\ Accounted)
<1>1. Init => Accounted
  BY DEF Init, Accounted, Live
<1>2. Typed /\ Kept /\ Accounted /\ [Next]_vars => Accounted'
  BY StepAccounted
<1> QED
  BY <1>1, <1>2, Invariance, PTL DEF Spec

(* base.py:138-152 against cli.py:184-188.  A command that ends by itself   *)
(* leaves work out of its report in one way only: an exception at a         *)
(* selected target, of its backend or of the dispatcher, and then nothing   *)
(* at all was printed.                                                      *)
THEOREM OnlyARaiseLosesTheReport == Spec => [](SignedIsReported \/ RaisedAtTarget)
<1>1. Accounted => SignedIsReported \/ RaisedAtTarget
  BY DEF Accounted, SignedIsReported, Told
<1> QED
  BY <1>1, AccountedAlways, PTL

------------------------------------------------------------------------------
(* The safety half of CommandEnds: a number that every step of a running    *)
(* command lowers.  A target costs at most six steps: dispatch, accept,     *)
(* touch, check, return, record.                                            *)
Lacks(set) == IF 1 \in set THEN 0 ELSE 1
CallWork == IF busy THEN 1 + Lacks(touched) + Lacks(passed) ELSE 4
TargetWork == IF pc = "loop" THEN 5 ELSE IF pc = "calling" THEN CallWork ELSE 0

WorkLeft ==
  IF Live THEN 6 * (Len(manifest.targets) + 1 - pos) + TargetWork ELSE 0

(* A backend is at work in a call only, and on the target of the call.      *)
InCall ==
  /\ busy => pc \in {"calling", "exited"}
  /\ pc = "calling" /\ busy /\ touched # {} => pos \in workedOn

LEMMA StepInCall ==
  ASSUME Typed, InCall, [Next]_vars
  PROVE  InCall'
<1>1. CASE Starts
  <2>1. pc = "idle" /\ ~busy
    BY <1>1 DEF Starts, InCall
  <2> QED
    BY <1>1, <2>1 DEF Starts, StartSign, StartVerify, Probe, ProbeRaises, InCall, backend
<1>2. CASE \/ SkipFiltered \/ DispatchRaises \/ RecordOutcome \/ Finish \/ Killed
           \/ UNCHANGED vars
  BY <1>2
  DEF SkipFiltered, AtTarget, DispatchRaises, RecordOutcome, Finish, Killed, vars, InCall,
      backend, history
<1>3. ASSUME NEW world \in WorldsWith(Providers), Dispatching(world)
      PROVE  InCall'
  BY <1>3 DEF Dispatching, DispatchSkips, DispatchSigns, AtTarget, InCall, backend
<1>4. CASE BackendWorks
  <2>1. /\ pc' = "calling" /\ pos' = pos
        /\ workedOn' = IF touched' = {} THEN workedOn ELSE workedOn \cup {pos}
    BY <1>4 DEF BackendWorks
  <2> QED
    BY <2>1 DEF InCall
<1>5. CASE BackendReturns
  <2>1. pc = "calling" /\ pc' = "returned" /\ (SignAnswers \/ VerifyAnswers)
    BY <1>5 DEF BackendReturns
  <2>2. ~busy'
    BY <2>1, Zenon
    DEF SignAnswers, VerifyAnswers, Backend!Decline, Backend!VerifyOnly,
        Backend!ReturnSigned, Backend!ReturnFailed, Backend!ReturnUnverified,
        Backend!ReturnLateSkip
  <2> QED
    BY <2>1, <2>2 DEF InCall
<1>6. CASE BackendRaises
  BY <1>6 DEF BackendRaises, InCall
<1> QED
  BY <1>1, <1>2, <1>3, <1>4, <1>5, <1>6 DEF Next

LEMMA InCallAlways == Spec => [](Typed /\ InCall)
<1>1. Init => InCall
  BY DEF Init, InCall, Backend!Init
<1>2. Typed /\ InCall /\ [Next]_vars => InCall'
  BY StepInCall
<1> QED
  BY <1>1, <1>2, Invariance, PTL DEF Spec

LEMMA WorkLeftType ==
  ASSUME Typed
  PROVE  /\ WorkLeft \in Nat
         /\ Live => WorkLeft > 0
         /\ WorkLeft <= 6 * Len(manifest.targets) + 5
<1>1. Len(manifest.targets) \in Nat /\ pos \in 1..(Len(manifest.targets) + 1)
  BY DEF Typed, RequestOK, PlaceOK
<1>2. TargetWork \in 0..5 /\ (pc = "loop" => TargetWork = 5)
  BY DEF TargetWork, CallWork, Lacks
<1>3. pc \in {"calling", "returned"} => pos <= Len(manifest.targets)
  BY DEF Typed, PlaceOK
<1>4. pc = "calling" => TargetWork <= 4
  BY DEF TargetWork, CallWork, Lacks
<1> HIDE DEF TargetWork
<1> QED
  BY <1>1, <1>2, <1>3, <1>4 DEF WorkLeft, Live

(* The steps that stay at a target, and those that leave it. *)
LEMMA LessAtTarget ==
  ASSUME Typed, Live, Live', UNCHANGED <<manifest, pos>>, TargetWork' < TargetWork
  PROVE  WorkLeft' < WorkLeft
<1>1. Len(manifest.targets) \in Nat /\ pos \in Nat
  BY DEF Typed, RequestOK, PlaceOK
<1>2. TargetWork \in Nat /\ TargetWork' \in Nat
  BY DEF TargetWork, CallWork, Lacks
<1> HIDE DEF TargetWork
<1> QED
  BY <1>1, <1>2 DEF WorkLeft

LEMMA LessAtNext ==
  ASSUME Typed, Live, Live', manifest' = manifest, pos' = pos + 1
  PROVE  WorkLeft' < WorkLeft
<1>1. Len(manifest.targets) \in Nat /\ pos \in Nat
  BY DEF Typed, RequestOK, PlaceOK
<1>2. TargetWork \in Nat /\ TargetWork' \in 0..5
  BY DEF TargetWork, CallWork, Lacks
<1> DEFINE length == Len(manifest.targets)
<1>3. /\ WorkLeft = 6 * (length + 1 - pos) + TargetWork
      /\ WorkLeft' = 6 * (length + 1 - (pos + 1)) + TargetWork'
  BY DEF WorkLeft
<1> HIDE DEF TargetWork, WorkLeft, length
<1>4. \A n, k \in Nat : \A w \in Nat, v \in 0..5 :
        6 * (n + 1 - (k + 1)) + v < 6 * (n + 1 - k) + w
  OBVIOUS
<1>5. length \in Nat
  BY <1>1 DEF length
<1> QED
  BY <1>1, <1>2, <1>3, <1>4, <1>5

LEMMA LessAtExit ==
  ASSUME Typed, Live, pc' = "exited"
  PROVE  WorkLeft' < WorkLeft
<1>1. WorkLeft' = 0
  BY DEF WorkLeft, Live
<1> QED
  BY <1>1, WorkLeftType

LEMMA StepWorks ==
  ASSUME Typed, InCall, Live, Next, vars' # vars
  PROVE  WorkLeft' < WorkLeft
<1>1. ~Starts
  BY DEF Starts, Live
<1>2. CASE SkipFiltered \/ RecordOutcome
  <2>1. pc' = "loop" /\ manifest' = manifest /\ pos' = pos + 1
    BY <1>2 DEF SkipFiltered, AtTarget, RecordOutcome, NextPos, request
  <2> QED
    BY <2>1, LessAtNext DEF Live
<1>3. ASSUME NEW world \in WorldsWith(Providers), DispatchSkips(world)
      PROVE  WorkLeft' < WorkLeft
  <2>1. pc' = "loop" /\ manifest' = manifest /\ pos' = pos + 1
    BY <1>3 DEF DispatchSkips, AtTarget, request
  <2> QED
    BY <2>1, LessAtNext DEF Live
<1>4. ASSUME NEW world \in WorldsWith(Providers), DispatchSigns(world)
      PROVE  WorkLeft' < WorkLeft
  <2>1. pc = "loop" /\ pc' = "calling" /\ UNCHANGED <<manifest, pos>>
    BY <1>4 DEF DispatchSigns, AtTarget, request
  <2>2. TargetWork' < TargetWork
    BY <2>1 DEF TargetWork, CallWork, Lacks
  <2> QED
    BY <2>1, <2>2, LessAtTarget DEF Live
<1>5. CASE BackendWorks
  <2>1. /\ pc = "calling"
        /\ UNCHANGED <<pc, cmd, manifest, filter, dryRun, pos, outcomes, counts, printed,
                       exit, probed>>
        /\ workedOn' = IF touched' = {} THEN workedOn ELSE workedOn \cup {pos}
        /\ BackendTyped
    BY <1>5 DEF BackendWorks, request, report, Typed, AnsweredOK
  <2>2. CASE Backend!Accept
    <3>1. ~busy /\ busy' = TRUE
      BY <2>2 DEF Backend!Accept
    <3>2. TargetWork' < TargetWork
      BY <2>1, <3>1 DEF TargetWork, CallWork, Lacks
    <3> QED
      BY <2>1, <3>2, LessAtTarget DEF Live
  <2>3. CASE Backend!Touch(1)
    <3>1. busy /\ touched' = touched \cup {1} /\ UNCHANGED <<busy, passed, outcome>>
      BY <2>3 DEF Backend!Touch
    <3>2. 1 \notin touched
      <4>1. SUFFICES ASSUME 1 \in touched PROVE FALSE
        OBVIOUS
      <4>2. touched' = touched /\ workedOn' = workedOn
        BY <2>1, <3>1, <4>1 DEF InCall
      <4> QED
        BY <2>1, <3>1, <4>2 DEF vars, request, report, backend, history
    <3>3. TargetWork' < TargetWork
      BY <2>1, <3>1, <3>2 DEF TargetWork, CallWork, Lacks
    <3> QED
      BY <2>1, <3>3, LessAtTarget DEF Live
  <2>4. CASE Backend!Check(1)
    <3>1. /\ busy /\ 1 \in touched /\ passed' = passed \cup {1}
          /\ UNCHANGED <<busy, touched, outcome>>
      BY <2>4 DEF Backend!Check
    <3>2. workedOn' = workedOn
      BY <2>1, <3>1 DEF InCall
    <3>3. 1 \notin passed
      <4>1. SUFFICES ASSUME 1 \in passed PROVE FALSE
        OBVIOUS
      <4>2. passed' = passed
        BY <3>1, <4>1
      <4> QED
        BY <2>1, <3>1, <3>2, <4>2 DEF vars, request, report, backend, history
    <3>4. TargetWork' < TargetWork
      BY <2>1, <3>1, <3>3 DEF TargetWork, CallWork, Lacks
    <3> QED
      BY <2>1, <3>4, LessAtTarget DEF Live
  <2> QED
    BY <1>5, <2>2, <2>3, <2>4 DEF BackendWorks
<1>6. CASE BackendReturns
  <2>1. pc = "calling" /\ pc' = "returned" /\ UNCHANGED <<manifest, pos>>
    BY <1>6 DEF BackendReturns, request
  <2>2. TargetWork' < TargetWork
    BY <2>1 DEF TargetWork, CallWork, Lacks
  <2> QED
    BY <2>1, <2>2, LessAtTarget DEF Live
<1>7. CASE DispatchRaises \/ BackendRaises \/ Finish \/ Killed
  BY <1>7, LessAtExit DEF DispatchRaises, BackendRaises, Finish, Killed
<1> QED
  BY <1>1, <1>2, <1>3, <1>4, <1>5, <1>6, <1>7 DEF Next, Dispatching

(* cli.py:175-188.  Every step of a running command lowers a number that is *)
(* at most 6 * n + 5 for n targets: neither the loop nor a backend that     *)
(* honours its contract can go round without end.                           *)
CommandShrinks == [][Live => WorkLeft' < WorkLeft]_vars

THEOREM CommandsShrink ==
  Spec => [](WorkLeft \in 0..(6 * Len(manifest.targets) + 5)) /\ CommandShrinks
<1>1. Typed => WorkLeft \in 0..(6 * Len(manifest.targets) + 5)
  <2> SUFFICES ASSUME Typed PROVE WorkLeft \in 0..(6 * Len(manifest.targets) + 5)
    OBVIOUS
  <2>1. Len(manifest.targets) \in Nat
    BY DEF Typed, RequestOK
  <2>2. WorkLeft \in Nat /\ WorkLeft <= 6 * Len(manifest.targets) + 5
    BY WorkLeftType
  <2> HIDE DEF WorkLeft
  <2> QED
    BY <2>1, <2>2
<1>2. Typed /\ InCall /\ [Next]_vars => [Live => WorkLeft' < WorkLeft]_vars
  BY StepWorks
<1> QED
  BY <1>1, <1>2, InCallAlways, PTL DEF Spec, CommandShrinks

==============================================================================
