-------------------------- MODULE LinuxBackend_proofs --------------------------
(***************************************************************************)
(* What sealward/backends/linux.py guarantees although its proofs of       *)
(* signing are files that outlive the bytes they were made for, and        *)
(* although the build and the operator may act between any two of its      *)
(* subprocesses.  What has to be carried through a call is what it may     *)
(* still rely on at each step: the digest it computed and the file it      *)
(* wrote agree, the tools it chose are the preferred ones unless somebody  *)
(* changed them, and the cosign it is about to run is the one it vetted.   *)
(***************************************************************************)
EXTENDS LinuxBackend, TLAPS

Outcomes ==
  [status : CallStatus, verdict : VerifyVerdict, artifact : 0..NArtifacts]

(* What a call has run its tools on, and what a verifier said of it. *)
Work ==
  /\ pc \in {"hashing", "writing", "vetting", "signing"} => tool # "none" /\ touched = {}
  /\ pc \in {"selecting", "checking", "digesting", "verifying", "closing"} =>
       touched = IF tool = "none" THEN {} ELSE {artifact}
  /\ pc = "closing" => tool # "none" /\ passed = IF accepted THEN {artifact} ELSE {}
  /\ pc \notin {"idle", "closing"} => passed = {} /\ rebuilt # "since"

(* A cosign about to be used met its floor when it was last looked at. *)
Floor ==
  /\ pc \in {"checking", "digesting"} => verifier = "cosign"
  /\ pc = "verifying" => verifier # "none"
  /\ pc = "signing" /\ tool = "cosign" /\ ~swapped => cosignOk
  /\ pc \in {"digesting", "verifying"} /\ verifier = "cosign" /\ ~swapped => cosignOk

(* What an accepting verifier leaves behind, until the next rebuild. *)
Genuine ==
  rebuilt # "since" => /\ artifact \in present
                       /\ verifier # "none"
                       /\ \/ sidecar[artifact][verifier] = "current"
                          \/ verifier = "cosign" /\ swapped

(* The digest of a sign() and the checksum file it wrote. *)
Published ==
  tool # "none" =>
    /\ pc \notin {"idle", "hashing"} /\ rebuilt = "never" => checksum = "current"
    /\ pc \notin {"idle", "hashing", "writing"} => sidecar[artifact]["sha256"] = checksum

(* The tools a call has chosen, as long as nobody changed the machine. *)
Choices ==
  ~retooled =>
    /\ pc # "idle" /\ tool # "none" => tool = PreferredTool
    /\ pc \in {"checking", "digesting", "verifying"} => verifier = PreferredTool
    /\ pc = "closing" /\ accepted => verifier = PreferredTool

Behind == Published /\ Choices /\ (pc = "closing" /\ accepted => Genuine)

AtRest ==
  /\ pc = "idle" /\ IsSuccess(outcome.status) => outcome.artifact = artifact /\ artifact # 0
  /\ SuccessIsGenuine
  /\ SignedStaysVerifiable

IInv == TypeOK /\ Work /\ Floor /\ Behind /\ AtRest

------------------------------------------------------------------------------
LEMMA OutcomeType ==
  ASSUME NEW s \in CallStatus, NEW v \in VerifyVerdict,
         NEW a \in 0..NArtifacts
  PROVE  OutcomeOf(s, v, a) \in Outcomes
  BY DEF OutcomeOf, Outcomes

LEMMA OutcomeFields ==
  ASSUME NEW s, NEW v, NEW a
  PROVE  /\ OutcomeOf(s, v, a).status = s /\ OutcomeOf(s, v, a).verdict = v
         /\ OutcomeOf(s, v, a).artifact = a
  BY DEF OutcomeOf

(* Every status and verdict linux.py returns is one of result.py's. *)
LEMMA ReturnedValues ==
  /\ {"signed", "verified", "skipped_no_credential", "skipped_tool_absent", "failed"}
       \subseteq CallStatus
  /\ {"passed", "failed", "not_run"} \subseteq VerifyVerdict
  /\ Artifacts \subseteq 0..NArtifacts /\ 0 \in 0..NArtifacts /\ 0 \notin Artifacts
  /\ LinuxTools \subseteq Sidecars /\ "sha256" \in Sidecars /\ "sha256" \notin LinuxTools
  /\ "none" \notin LinuxTools /\ "cosign" \in LinuxTools
<1>1. 0 \in 0..NArtifacts /\ Artifacts \subseteq 0..NArtifacts /\ 0 \notin Artifacts
  BY NArtifactsAssumption DEF Artifacts
<1> QED
  BY <1>1 DEF CallStatus, SigningStatus, VerifyVerdict, Sidecars, LinuxTools

(* A call that was killed, or raised, reports no success. *)
LEMMA NoSuccess ==
  /\ NoOutcome \in Outcomes /\ RaisedOutcome \in Outcomes
  /\ ~IsSuccess(NoOutcome.status) /\ ~IsSuccess(RaisedOutcome.status)
<1>1. "none" \in CallStatus /\ "raised" \in CallStatus
  BY DEF CallStatus
<1> QED
  BY <1>1, OutcomeType, OutcomeFields, ReturnedValues DEF NoOutcome, RaisedOutcome, IsSuccess

LEMMA PreferredInPath ==
  /\ PreferredTool \in LinuxTools \cup {"none"}
  /\ PreferredTool # "none" => PreferredTool \in path
  BY DEF PreferredTool, LinuxTools

(* TypeOK, one typing per variable. *)
Flags ==
  /\ cosignOk \in BOOLEAN /\ accepted \in BOOLEAN
  /\ retooled \in BOOLEAN /\ swapped \in BOOLEAN
Files == present \subseteq Artifacts /\ sidecar \in [Artifacts -> [Sidecars -> Freshness]]
Sorts ==
  /\ path \subseteq LinuxTools
  /\ pc \in {"idle", "hashing", "writing", "vetting", "signing",
             "selecting", "checking", "digesting", "verifying", "closing"}
  /\ artifact \in 0..NArtifacts
  /\ tool \in LinuxTools \cup {"none"}
  /\ checksum \in Freshness
  /\ verifier \in LinuxTools \cup {"none"}
  /\ outcome \in Outcomes
  /\ rebuilt \in {"never", "during", "since"}
  /\ touched \subseteq Artifacts
  /\ passed \subseteq Artifacts
  /\ pc # "idle" => artifact # 0
Typed == Flags /\ Files /\ Sorts

LEMMA TypeParts == (TypeOK <=> Typed) /\ (TypeOK' <=> Typed')
<1>1. TypeOK <=> Typed
  BY Zenon DEF TypeOK, Typed, Flags, Files, Sorts, Outcomes
<1>2. TypeOK' <=> Typed'
  BY Zenon DEF TypeOK, Typed, Flags, Files, Sorts, Outcomes
<1> QED
  BY <1>1, <1>2

(* A call that runs works on a file. *)
LEMMA AtWork ==
  ASSUME Sorts, pc # "idle"
  PROVE  artifact \in Artifacts
  BY NArtifactsAssumption DEF Sorts, Artifacts

(* One sidecar file of one artifact is written. *)
LEMMA OneSidecar ==
  ASSUME Files, NEW a \in Artifacts, NEW k \in Sidecars, NEW f \in Freshness,
         sidecar' = [sidecar EXCEPT ![a][k] = f]
  PROVE  /\ sidecar' \in [Artifacts -> [Sidecars -> Freshness]]
         /\ sidecar'[a][k] = f
         /\ \A j \in Sidecars \ {k} : sidecar'[a][j] = sidecar[a][j]
         /\ \A b \in Artifacts \ {a} : sidecar'[b] = sidecar[b]
<1>1. sidecar \in [Artifacts -> [Sidecars -> Freshness]]
  BY DEF Files
<1>2. sidecar[a] \in [Sidecars -> Freshness]
  BY <1>1
<1>3. sidecar'[a] = [sidecar[a] EXCEPT ![k] = f]
  BY <1>1
<1>4. sidecar'[a] \in [Sidecars -> Freshness]
  BY <1>2, <1>3
<1> QED
  BY <1>1, <1>2, <1>3, <1>4

(* The build rewrites or removes an artifact. *)
LEMMA ChangedSidecars ==
  ASSUME Files, NEW a \in Artifacts, Changes(a)
  PROVE  /\ sidecar' \in [Artifacts -> [Sidecars -> Freshness]]
         /\ \A b \in Artifacts, k \in Sidecars :
              sidecar'[b][k] \in {sidecar[b][k], Outdated(sidecar[b][k])}
<1>1. sidecar \in [Artifacts -> [Sidecars -> Freshness]]
  BY DEF Files
<1>2. sidecar' = [sidecar EXCEPT ![a] = [k \in Sidecars |-> Outdated(sidecar[a][k])]]
  BY DEF Changes
<1>3. sidecar[a] \in [Sidecars -> Freshness]
  BY <1>1
<1>4. \A f \in Freshness : Outdated(f) \in Freshness
  BY DEF Outdated, Freshness
<1>5. [k \in Sidecars |-> Outdated(sidecar[a][k])] \in [Sidecars -> Freshness]
  BY <1>3, <1>4
<1>6. sidecar' \in [Artifacts -> [Sidecars -> Freshness]]
  BY <1>1, <1>2, <1>5
<1>7. \A b \in Artifacts :
        sidecar'[b] = IF b = a THEN [k \in Sidecars |-> Outdated(sidecar[a][k])]
                      ELSE sidecar[b]
  BY <1>1, <1>2
<1> QED
  BY <1>6, <1>7

LEMMA InitEstablishes == Init => IInv
<1> SUFFICES ASSUME Init PROVE IInv
  OBVIOUS
<1>1. Typed
  <2>1. Flags
    BY Zenon DEF Init, Flags
  <2>2. Files
    BY DEF Init, Files, Freshness
  <2>3. Sorts
    BY ReturnedValues, NoSuccess DEF Init, Sorts, Freshness
  <2> QED
    BY <2>1, <2>2, <2>3 DEF Typed
<1>2. Work /\ Floor /\ Behind
  BY DEF Init, Work, Floor, Behind, Published, Choices
<1>3. AtRest
  BY NoSuccess DEF Init, AtRest, SuccessIsGenuine, SignedStaysVerifiable, IsSuccess
<1> QED
  BY <1>1, <1>2, <1>3, TypeParts DEF IInv

------------------------------------------------------------------------------
(* Calls that end without a success, at once or after some work: nothing is *)
(* promised of them.                                                        *)
LEMMA EndingKeeps ==
  ASSUME Typed', pc' = "idle", ~IsSuccess(outcome'.status)
  PROVE  IInv'
<1>1. Work' /\ Floor' /\ Behind'
  BY DEF Work, Floor, Behind, Published, Choices
<1>2. AtRest'
  BY DEF AtRest, SuccessIsGenuine, SignedStaysVerifiable, IsSuccess
<1> QED
  BY <1>1, <1>2, TypeParts DEF IInv

LEMMA AtOnceKeeps ==
  ASSUME IInv, NEW o \in Outcomes, ReturnsAtOnce(o), ~IsSuccess(o.status)
  PROVE  IInv'
<1>1. Typed
  BY TypeParts DEF IInv
<1>2. Typed'
  <2>1. Flags'
    BY <1>1, Zenon DEF ReturnsAtOnce, NewCall, machine, locals, Typed, Flags
  <2>2. Files'
    BY <1>1 DEF ReturnsAtOnce, Typed, Files
  <2>3. Sorts'
    BY <1>1 DEF ReturnsAtOnce, NewCall, machine, locals, Typed, Sorts
  <2> QED
    BY <2>1, <2>2, <2>3 DEF Typed
<1>3. pc' = "idle" /\ outcome' = o
  BY DEF ReturnsAtOnce, NewCall
<1> QED
  BY <1>2, <1>3, EndingKeeps

LEMMA BeginningKeeps ==
  ASSUME IInv,
         \/ \E usable \in BOOLEAN, pattern \in SUBSET Artifacts : SignBegins(usable, pattern)
         \/ \E a \in Artifacts : VerifyBegins(a)
  PROVE  IInv'
<1>1. Typed
  BY TypeParts DEF IInv
<1>2. /\ UNCHANGED <<present, sidecar, path, cosignOk, outcome>>
      /\ rebuilt' = "never" /\ retooled' = FALSE /\ swapped' = FALSE /\ accepted' = FALSE
      /\ touched' = {} /\ passed' = {} /\ checksum' = "none" /\ verifier' = "none"
  BY Zenon DEF SignBegins, VerifyBegins, NewCall, machine
<1>3. artifact' \in Artifacts
  BY DEF SignBegins, VerifyBegins, FirstArtifact
<1>4. \/ pc' = "hashing" /\ tool' = PreferredTool /\ tool' # "none"
      \/ pc' = "selecting" /\ tool' = "none"
  BY Zenon DEF SignBegins, VerifyBegins
<1>5. Typed'
  <2>1. Flags'
    BY <1>1, <1>2, Zenon DEF Typed, Flags
  <2>2. Files'
    BY <1>1, <1>2 DEF Typed, Files
  <2>3. artifact' \in 0..NArtifacts /\ artifact' # 0
    BY <1>3, ReturnedValues
  <2>4. Sorts'
    BY <1>1, <1>2, <1>4, <2>3, PreferredInPath DEF Typed, Sorts, Freshness
  <2> QED
    BY <2>1, <2>2, <2>4 DEF Typed
<1>6. PreferredTool' = PreferredTool
  BY <1>2 DEF PreferredTool
<1>7. Work' /\ Floor' /\ Behind'
  BY <1>2, <1>4, <1>6 DEF Work, Floor, Behind, Published, Choices
<1>8. AtRest'
  BY <1>4 DEF AtRest, SuccessIsGenuine, SignedStaysVerifiable
<1> QED
  BY <1>5, <1>7, <1>8, TypeParts DEF IInv

(* _sha256, the checksum file, and the version check before cosign signs. *)
LEMMA PreparingKeeps ==
  ASSUME IInv, Hash \/ WriteChecksum \/ SignVetsCosign
  PROVE  IInv'
<1>1. Typed /\ Work /\ Floor /\ Behind
  BY TypeParts DEF IInv
<1>2. artifact \in Artifacts /\ checksum \in Freshness
  BY <1>1, AtWork DEF Hash, WriteChecksum, SignVetsCosign, Typed, Sorts
<1>3. PreferredTool' = PreferredTool
  BY DEF Hash, WriteChecksum, SignVetsCosign, machine, PreferredTool
<1>4. AtRest'
  BY DEF Hash, WriteChecksum, SignVetsCosign, AtRest, SuccessIsGenuine, SignedStaysVerifiable
<1>5. CASE Hash
  <2>1. Flags'
    BY <1>1, <1>5, Zenon DEF Hash, machine, history, Typed, Flags
  <2>2. Files' /\ Sorts'
    BY <1>1, <1>5 DEF Hash, machine, history, Typed, Files, Sorts, Freshness
  <2>3. Work' /\ Floor' /\ Behind'
    BY <1>1, <1>3, <1>5 DEF Hash, machine, history, Work, Floor, Behind, Published, Choices
  <2> QED
    BY <1>4, <2>1, <2>2, <2>3, TypeParts DEF IInv, Typed
<1>6. CASE WriteChecksum
  <2>1. /\ sidecar' \in [Artifacts -> [Sidecars -> Freshness]]
        /\ sidecar'[artifact]["sha256"] = checksum
    <3>1. sidecar' = [sidecar EXCEPT ![artifact]["sha256"] = checksum]
      BY <1>6 DEF WriteChecksum, ChecksumFile
    <3> QED
      BY <1>1, <1>2, <3>1, OneSidecar, ReturnedValues DEF Typed
  <2>2. pc' = IF tool = "cosign" THEN "vetting" ELSE "signing"
    BY <1>6 DEF WriteChecksum
  <2>3. Flags'
    BY <1>1, <1>6, Zenon DEF WriteChecksum, machine, locals, history, Typed, Flags
  <2>4. Files' /\ Sorts'
    BY <1>1, <1>6, <2>1, <2>2
    DEF WriteChecksum, machine, locals, history, Typed, Files, Sorts
  <2>5. Work' /\ Floor'
    BY <1>1, <1>6, <2>2 DEF WriteChecksum, machine, locals, history, Work, Floor
  <2>6. Behind'
    BY <1>1, <1>3, <1>6, <2>1, <2>2
    DEF WriteChecksum, locals, history, Behind, Published, Choices
  <2> QED
    BY <1>4, <2>3, <2>4, <2>5, <2>6, TypeParts DEF IInv, Typed
<1>7. CASE SignVetsCosign
  <2>1. Flags'
    BY <1>1, <1>7, Zenon DEF SignVetsCosign, machine, locals, Typed, Flags
  <2>2. Files' /\ Sorts'
    BY <1>1, <1>7 DEF SignVetsCosign, machine, locals, Typed, Files, Sorts
  <2>3. Work' /\ Floor' /\ Behind'
    BY <1>1, <1>3, <1>7
    DEF SignVetsCosign, CosignAtFloor, machine, locals, Work, Floor, Behind, Published, Choices
  <2> QED
    BY <1>4, <2>1, <2>2, <2>3, TypeParts DEF IInv, Typed
<1> QED
  BY <1>5, <1>6, <1>7

(* What a tool run that did not succeed may have left. *)
LEMMA MayHaveWritten ==
  ASSUME Typed, Work, pc = "signing", ToolMayHaveWritten
  PROVE  /\ sidecar' \in [Artifacts -> [Sidecars -> Freshness]]
         /\ touched' = {artifact} /\ touched' \subseteq Artifacts
<1>1. artifact \in Artifacts /\ tool \in LinuxTools
  BY AtWork DEF Typed, Sorts, Work
<1>2. PICK f \in Freshness : sidecar' = [sidecar EXCEPT ![artifact][tool] = f]
  BY DEF ToolMayHaveWritten
<1>3. touched' = {artifact}
  BY DEF ToolMayHaveWritten
<1> QED
  BY <1>1, <1>2, <1>3, OneSidecar, ReturnedValues DEF Typed

LEMMA FailingKeeps ==
  ASSUME IInv, SignRefusesCosign \/ ToolFails \/ CallAbandoned
  PROVE  IInv'
<1>1. Typed /\ Work
  BY TypeParts DEF IInv
<1>2. artifact \in Artifacts /\ artifact \in 0..NArtifacts
  BY <1>1, AtWork, ReturnedValues DEF SignRefusesCosign, ToolFails, CallAbandoned, Typed
<1>3. /\ OutcomeOf("failed", "not_run", artifact) \in Outcomes
      /\ ~IsSuccess(OutcomeOf("failed", "not_run", artifact).status)
  BY <1>2, OutcomeType, OutcomeFields, ReturnedValues DEF IsSuccess
<1>4. outcome' \in Outcomes /\ ~IsSuccess(outcome'.status) /\ pc' = "idle"
  BY <1>3, NoSuccess DEF SignRefusesCosign, ToolFails, CallAbandoned, SignFails
<1>5. /\ UNCHANGED <<present, path, cosignOk, artifact, tool, checksum, verifier, accepted,
                      rebuilt, retooled, passed>>
      /\ swapped' \in {swapped, FALSE}
  BY Zenon DEF SignRefusesCosign, ToolFails, CallAbandoned, machine, locals
<1>6. /\ sidecar' \in [Artifacts -> [Sidecars -> Freshness]]
      /\ touched' \subseteq Artifacts
  <2>1. CASE pc = "signing" /\ ToolMayHaveWritten
    BY <1>1, <2>1, MayHaveWritten
  <2>2. CASE UNCHANGED <<sidecar, touched>>
    BY <1>1, <2>2 DEF Typed, Files, Sorts
  <2> QED
    BY <2>1, <2>2, Zenon DEF SignRefusesCosign, ToolFails, CallAbandoned
<1>7. Typed'
  <2>1. swapped' \in BOOLEAN
    BY <1>1, <1>5, Zenon DEF Typed, Flags
  <2>2. Flags'
    BY <1>1, <1>5, <2>1, Zenon DEF Typed, Flags
  <2>3. Files' /\ Sorts'
    BY <1>1, <1>4, <1>5, <1>6 DEF Typed, Files, Sorts
  <2> QED
    BY <2>2, <2>3 DEF Typed
<1> QED
  BY <1>4, <1>7, EndingKeeps

LEMMA ToolWrites ==
  ASSUME Typed, Work, ToolSucceeds
  PROVE  /\ artifact \in Artifacts /\ tool \in LinuxTools
         /\ \E f \in Freshness : sidecar' = [sidecar EXCEPT ![artifact][tool] = f]
         /\ sidecar' \in [Artifacts -> [Sidecars -> Freshness]]
         /\ sidecar'[artifact]["sha256"] = sidecar[artifact]["sha256"]
<1>1. artifact \in Artifacts /\ tool \in LinuxTools
  BY AtWork DEF ToolSucceeds, Typed, Sorts, Work
<1>2. sidecar[artifact][tool] \in Freshness
  BY <1>1, ReturnedValues DEF Typed, Files
<1>3. PICK f \in Freshness : sidecar' = [sidecar EXCEPT ![artifact][tool] = f]
  BY <1>2 DEF ToolSucceeds, Freshness
<1> QED
  BY <1>1, <1>3, OneSidecar, ReturnedValues DEF Typed

LEMMA ToolKeeps ==
  ASSUME IInv, ToolSucceeds
  PROVE  IInv'
<1>1. Typed /\ Work /\ Floor /\ Behind
  BY TypeParts DEF IInv
<1>2. PreferredTool' = PreferredTool
  BY DEF ToolSucceeds, machine, PreferredTool
<1>3. Typed'
  <2>1. Flags'
    BY <1>1, Zenon DEF ToolSucceeds, machine, locals, Typed, Flags
  <2>2. Files' /\ Sorts'
    BY <1>1, ToolWrites DEF ToolSucceeds, machine, locals, Typed, Files, Sorts
  <2> QED
    BY <2>1, <2>2 DEF Typed
<1>4. Work' /\ Floor'
  BY <1>1 DEF ToolSucceeds, machine, locals, Work, Floor
<1>5. Behind'
  BY <1>1, <1>2, ToolWrites DEF ToolSucceeds, locals, Behind, Published, Choices
<1>6. AtRest'
  BY DEF ToolSucceeds, AtRest, SuccessIsGenuine, SignedStaysVerifiable
<1> QED
  BY <1>3, <1>4, <1>5, <1>6, TypeParts DEF IInv

------------------------------------------------------------------------------
(* verify() goes on to its next subprocess. *)
LEMMA VerifyContinuesKeeps ==
  ASSUME IInv, VerifySelects \/ VerifyVetsCosign \/ VerifyHashes
  PROVE  IInv'
<1>1. Typed /\ Work /\ Floor /\ Behind
  BY TypeParts DEF IInv
<1>2. PreferredTool' = PreferredTool
  BY DEF VerifySelects, VerifyVetsCosign, VerifyHashes, machine, PreferredTool
<1>3. AtRest'
  BY DEF VerifySelects, VerifyVetsCosign, VerifyHashes, AtRest, SuccessIsGenuine,
         SignedStaysVerifiable
<1>4. CASE VerifySelects
  <2>1. Flags'
    BY <1>1, <1>4, Zenon DEF VerifySelects, machine, history, Typed, Flags
  <2>2. Files' /\ Sorts'
    BY <1>1, <1>4, PreferredInPath DEF VerifySelects, machine, history, Typed, Files, Sorts
  <2>3. Work' /\ Floor' /\ Behind'
    BY <1>1, <1>2, <1>4
    DEF VerifySelects, machine, history, Work, Floor, Behind, Published, Choices
  <2> QED
    BY <1>3, <2>1, <2>2, <2>3, TypeParts DEF IInv, Typed
<1>5. CASE VerifyVetsCosign
  <2>1. Flags'
    BY <1>1, <1>5, Zenon DEF VerifyVetsCosign, machine, locals, Typed, Flags
  <2>2. Files' /\ Sorts'
    BY <1>1, <1>5 DEF VerifyVetsCosign, machine, locals, Typed, Files, Sorts
  <2>3. Work' /\ Floor' /\ Behind'
    BY <1>1, <1>2, <1>5
    DEF VerifyVetsCosign, CosignAtFloor, machine, locals, Work, Floor, Behind, Published,
        Choices
  <2> QED
    BY <1>3, <2>1, <2>2, <2>3, TypeParts DEF IInv, Typed
<1>6. CASE VerifyHashes
  <2>1. Flags'
    BY <1>1, <1>6, Zenon DEF VerifyHashes, machine, locals, history, Typed, Flags
  <2>2. Files' /\ Sorts'
    BY <1>1, <1>6 DEF VerifyHashes, machine, locals, history, Typed, Files, Sorts
  <2>3. Work' /\ Floor' /\ Behind'
    BY <1>1, <1>2, <1>6
    DEF VerifyHashes, machine, locals, history, Work, Floor, Behind, Published, Choices
  <2> QED
    BY <1>3, <2>1, <2>2, <2>3, TypeParts DEF IInv, Typed
<1> QED
  BY <1>4, <1>5, <1>6

(* verify() returns o, to sign() or to the caller.  When o is VERIFIED, the *)
(* verifier it chose has just accepted a sidecar.                           *)
LEMMA VerifyReturnsKeeps ==
  ASSUME IInv, NEW o \in Outcomes, VerifyReturns(o),
         pc \in {"selecting", "checking", "verifying"},
         verifier' \in LinuxTools \cup {"none"}, swapped' \in BOOLEAN,
         o.artifact = artifact, o.status # "signed",
         IsSuccess(o.status) <=> o.verdict = "passed",
         o.verdict = "passed" =>
           /\ pc = "verifying" /\ verifier' = verifier /\ swapped' = swapped
           /\ VerifierMayAccept
  PROVE  IInv'
<1>1. Typed /\ Work /\ Floor /\ Behind
  BY TypeParts DEF IInv
<1>2. artifact \in Artifacts
  BY <1>1, AtWork DEF Typed
<1>3. UNCHANGED <<present, sidecar, path, cosignOk, artifact, tool, checksum, rebuilt,
                  retooled, touched>>
  BY Zenon DEF VerifyReturns, machine
<1>4. passed' = IF o.verdict = "passed" THEN {artifact} ELSE {}
  BY DEF VerifyReturns
<1>5. PreferredTool' = PreferredTool
  BY <1>3 DEF PreferredTool
<1>6. o.verdict = "passed" => Genuine'
  <2> SUFFICES ASSUME o.verdict = "passed" PROVE Genuine'
    OBVIOUS
  <2>1. /\ pc = "verifying" /\ verifier' = verifier /\ swapped' = swapped
        /\ VerifierMayAccept
    OBVIOUS
  <2>2. verifier \in LinuxTools /\ sidecar[artifact][verifier] \in Freshness
    BY <1>1, <1>2, <2>1, ReturnedValues DEF Typed, Sorts, Files, Floor
  <2>3. \/ sidecar[artifact][verifier] = "current"
        \/ verifier = "cosign" /\ ~cosignOk
    BY <2>1, <2>2 DEF VerifierMayAccept, Freshness
  <2>4. verifier = "cosign" /\ ~cosignOk => swapped
    BY <1>1, <2>1, Zenon DEF Floor
  <2> QED
    BY <1>3, <2>1, <2>2, <2>3, <2>4, ReturnedValues DEF Genuine, VerifierMayAccept
<1>7. o.verdict = "passed" /\ ~retooled => verifier' = PreferredTool
  BY <1>1 DEF Behind, Choices
<1>8. Files'
  BY <1>1, <1>3 DEF Typed, Files
<1>9. CASE tool = "none"
  <2>1. outcome' = o /\ pc' = "idle" /\ accepted' = accepted
    BY <1>9, Zenon DEF VerifyReturns
  <2>2. Flags'
    BY <1>1, <1>3, <2>1, Zenon DEF Typed, Flags
  <2>3. Sorts'
    BY <1>1, <1>2, <1>3, <1>4, <2>1 DEF Typed, Sorts
  <2>4. Work' /\ Floor' /\ Behind'
    BY <2>1 DEF Work, Floor, Behind, Published, Choices
  <2>5. AtRest'
    <3>1. artifact # 0
      BY <1>2, ReturnedValues
    <3> QED
      BY <1>3, <1>5, <1>6, <1>7, <2>1, <3>1
      DEF AtRest, SuccessIsGenuine, SignedStaysVerifiable, Genuine
  <2> QED
    BY <1>8, <2>2, <2>3, <2>4, <2>5, TypeParts DEF IInv, Typed
<1>10. CASE tool # "none"
  <2>1. /\ accepted' = (o.verdict = "passed")
        /\ pc' = "closing" /\ outcome' = outcome
    BY <1>10, Zenon DEF VerifyReturns
  <2>2. Flags'
    BY <1>1, <1>3, <2>1, Zenon DEF Typed, Flags
  <2>3. Sorts'
    BY <1>1, <1>2, <1>3, <1>4, <2>1 DEF Typed, Sorts
  <2>4. Work' /\ Floor'
    BY <1>1, <1>3, <1>4, <1>10, <2>1 DEF Work, Floor
  <2>5. Published'
    BY <1>1, <1>3, <2>1 DEF Behind, Published
  <2>6. Choices'
    BY <1>1, <1>3, <1>5, <1>7, <2>1 DEF Behind, Choices
  <2>7. accepted' => Genuine'
    BY <1>6, <2>1
  <2>8. AtRest'
    BY <2>1 DEF AtRest, SuccessIsGenuine, SignedStaysVerifiable
  <2> QED
    BY <1>8, <2>2, <2>3, <2>4, <2>5, <2>6, <2>7, <2>8, TypeParts DEF IInv, Typed, Behind
<1> QED
  BY <1>9, <1>10

LEMMA VerifyEndsKeeps ==
  ASSUME IInv, \/ VerifyFindsNoTool \/ VerifyFindsNoSidecar \/ VerifyRefusesCosign
               \/ VerifierAccepts \/ VerifierRejects
  PROVE  IInv'
<1>1. Typed
  BY TypeParts DEF IInv
<1>2. artifact \in 0..NArtifacts /\ verifier \in LinuxTools \cup {"none"}
  BY <1>1 DEF Typed, Sorts
<1>3. swapped \in BOOLEAN
  BY <1>1, Zenon DEF Typed, Flags
<1>4. /\ Verified \in Outcomes /\ NotVerified \in Outcomes
      /\ OutcomeOf("skipped_tool_absent", "not_run", artifact) \in Outcomes
  BY <1>2, OutcomeType, ReturnedValues DEF Verified, NotVerified
<1>5. CASE VerifyFindsNoTool
  <2>1. /\ VerifyReturns(OutcomeOf("skipped_tool_absent", "not_run", artifact))
        /\ pc = "selecting" /\ verifier' = verifier /\ swapped' = swapped
    BY <1>5, Zenon DEF VerifyFindsNoTool
  <2>2. verifier' \in LinuxTools \cup {"none"} /\ swapped' \in BOOLEAN
    BY <1>2, <1>3, <2>1, Zenon
  <2> QED
    BY <1>4, <2>1, <2>2, OutcomeFields, VerifyReturnsKeeps DEF IsSuccess
<1>6. CASE VerifyFindsNoSidecar \/ VerifyRefusesCosign \/ VerifierRejects
  <2>1. VerifyReturns(NotVerified) /\ pc \in {"selecting", "checking", "verifying"}
    BY <1>6 DEF VerifyFindsNoSidecar, VerifyRefusesCosign, VerifierRejects
  <2>2. verifier' \in {verifier, PreferredTool} /\ swapped' \in {swapped, FALSE}
    BY <1>6, Zenon DEF VerifyFindsNoSidecar, VerifyRefusesCosign, VerifierRejects
  <2>3. verifier' \in LinuxTools \cup {"none"}
    BY <1>2, <2>2, PreferredInPath
  <2>4. swapped' \in BOOLEAN
    BY <1>3, <2>2, Zenon
  <2> QED
    BY <1>4, <2>1, <2>3, <2>4, OutcomeFields, VerifyReturnsKeeps DEF IsSuccess, NotVerified
<1>7. CASE VerifierAccepts
  <2>1. /\ VerifyReturns(Verified) /\ VerifierMayAccept
        /\ pc = "verifying" /\ verifier' = verifier /\ swapped' = swapped
    BY <1>7, Zenon DEF VerifierAccepts
  <2>2. verifier' \in LinuxTools \cup {"none"} /\ swapped' \in BOOLEAN
    BY <1>2, <1>3, <2>1, Zenon
  <2> QED
    BY <1>4, <2>1, <2>2, OutcomeFields, VerifyReturnsKeeps DEF IsSuccess, Verified
<1> QED
  BY <1>5, <1>6, <1>7

(* _signed_if_verified. *)
LEMMA SignReturnsKeeps ==
  ASSUME IInv, SignReturns
  PROVE  IInv'
<1>1. Typed /\ Work /\ Behind
  BY TypeParts DEF IInv
<1>2. artifact \in Artifacts /\ artifact \in 0..NArtifacts /\ tool # "none"
  BY <1>1, AtWork, ReturnedValues DEF SignReturns, Typed, Work
<1>3. UNCHANGED <<present, sidecar, path, cosignOk, artifact, tool, checksum, verifier,
                  accepted, rebuilt, retooled, swapped, touched, passed>>
  BY Zenon DEF SignReturns, machine, locals, history
<1>4. pc = "closing" /\ pc' = "idle"
  BY DEF SignReturns
<1>5. outcome' \in Outcomes
  <2>1. /\ OutcomeOf("signed", "passed", artifact) \in Outcomes
        /\ OutcomeOf("failed", "failed", artifact) \in Outcomes
    BY <1>2, OutcomeType, ReturnedValues
  <2> QED
    BY <2>1 DEF SignReturns
<1>6. Typed'
  <2>1. Flags'
    BY <1>1, <1>3, Zenon DEF Typed, Flags
  <2>2. Files' /\ Sorts'
    BY <1>1, <1>2, <1>3, <1>4, <1>5 DEF Typed, Files, Sorts
  <2> QED
    BY <2>1, <2>2 DEF Typed
<1>7. CASE ~accepted
  <2>1. ~IsSuccess(outcome'.status)
    BY <1>7, OutcomeFields DEF SignReturns, IsSuccess
  <2> QED
    BY <1>4, <1>6, <2>1, EndingKeeps
<1>8. CASE accepted
  <2>1. outcome'.status = "signed" /\ outcome'.artifact = artifact
    BY <1>8, OutcomeFields DEF SignReturns
  <2>2. Genuine /\ Published /\ Choices
    BY <1>1, <1>4, <1>8, Zenon DEF Behind
  <2>3. PreferredTool' = PreferredTool
    BY <1>3 DEF PreferredTool
  <2>4. SuccessIsGenuine'
    BY <1>3, <1>4, <1>8, <2>1, <2>2, <2>3 DEF SuccessIsGenuine, Genuine, Choices
  <2>5. SignedStaysVerifiable'
    BY <1>2, <1>3, <1>4, <1>8, <2>1, <2>2 DEF SignedStaysVerifiable, Published, Choices
  <2>6. AtRest'
    BY <1>2, <1>3, <2>1, <2>4, <2>5, ReturnedValues DEF AtRest
  <2>7. Work' /\ Floor' /\ Behind'
    BY <1>4 DEF Work, Floor, Behind, Published, Choices
  <2> QED
    BY <1>6, <2>6, <2>7, TypeParts DEF IInv
<1> QED
  BY <1>7, <1>8

------------------------------------------------------------------------------
(* The build rewrites or removes the artifact of the call, or another one. *)
LEMMA RebuildKeeps ==
  ASSUME IInv, NEW a \in Artifacts, Rebuild(a) \/ Clean(a)
  PROVE  IInv'
<1>1. Typed /\ Work /\ Floor /\ Behind /\ AtRest
  BY TypeParts DEF IInv
<1>2. /\ Changes(a) /\ present' \subseteq Artifacts
      /\ \A b \in Artifacts \ {a} : b \in present' <=> b \in present
  BY <1>1 DEF Rebuild, Clean, Typed, Files
<1>3. UNCHANGED <<path, cosignOk, pc, artifact, tool, verifier, accepted, outcome, retooled,
                  swapped, touched, passed>>
  BY <1>2, Zenon DEF Changes, machine
<1>4. PreferredTool' = PreferredTool
  BY <1>3 DEF PreferredTool
<1>5. Files'
  BY <1>1, <1>2, ChangedSidecars DEF Typed, Files
<1>6. Flags'
  BY <1>1, <1>3, Zenon DEF Typed, Flags
<1>7. CASE a = artifact
  <2>1. /\ checksum' = Outdated(checksum)
        /\ rebuilt' = IF pc \in {"idle", "closing"} THEN "since" ELSE "during"
    BY <1>2, <1>7 DEF Changes
  <2>2. sidecar'[artifact]["sha256"] = Outdated(sidecar[artifact]["sha256"])
    BY <1>1, <1>2, <1>7, ReturnedValues DEF Changes, Typed, Files
  <2>3. Sorts'
    BY <1>1, <1>3, <2>1 DEF Typed, Sorts, Outdated, Freshness
  <2>4. Work' /\ Floor'
    BY <1>1, <1>3, <2>1 DEF Work, Floor
  <2>5. Behind'
    BY <1>1, <1>3, <1>4, <2>1, <2>2 DEF Behind, Published, Choices, Genuine
  <2>6. AtRest'
    BY <1>1, <1>3, <1>4, <1>7, <2>1, <2>2
    DEF AtRest, SuccessIsGenuine, SignedStaysVerifiable, IsSuccess
  <2> QED
    BY <1>5, <1>6, <2>3, <2>4, <2>5, <2>6, TypeParts DEF IInv, Typed
<1>8. CASE a # artifact
  <2>1. checksum' = checksum /\ rebuilt' = rebuilt
    BY <1>2, <1>8 DEF Changes
  <2>2. artifact # 0 => sidecar'[artifact] = sidecar[artifact]
    <3>1. artifact # 0 => artifact \in Artifacts
      BY <1>1, NArtifactsAssumption DEF Typed, Sorts, Artifacts
    <3> QED
      BY <1>1, <1>2, <1>8, <3>1 DEF Changes, Typed, Files
  <2>3. artifact \in present => artifact \in present'
    BY <1>1, <1>2, <1>8 DEF Typed, Files
  <2>4. Sorts'
    BY <1>1, <1>3, <2>1 DEF Typed, Sorts
  <2>5. Work' /\ Floor'
    BY <1>1, <1>3, <2>1 DEF Work, Floor
  <2>6. Behind'
    <3>1. pc # "idle" => artifact # 0
      BY <1>1 DEF Typed, Sorts
    <3> QED
      BY <1>1, <1>3, <1>4, <2>1, <2>2, <2>3, <3>1
      DEF Behind, Published, Choices, Genuine
  <2>7. AtRest'
    <3>1. pc = "idle" /\ IsSuccess(outcome.status) => artifact # 0
      BY <1>1 DEF AtRest
    <3> QED
      BY <1>1, <1>3, <1>4, <2>1, <2>2, <2>3, <3>1
      DEF AtRest, SuccessIsGenuine, SignedStaysVerifiable, IsSuccess
  <2> QED
    BY <1>5, <1>6, <2>4, <2>5, <2>6, <2>7, TypeParts DEF IInv, Typed
<1> QED
  BY <1>7, <1>8

(* The operator changes the tools. *)
LEMMA ReprovisionKeeps ==
  ASSUME IInv, Reprovision
  PROVE  IInv'
<1>1. Typed /\ Work /\ Floor /\ Behind /\ AtRest
  BY TypeParts DEF IInv
<1>2. /\ UNCHANGED <<present, sidecar, pc, artifact, tool, checksum, verifier, accepted,
                      outcome, rebuilt, touched, passed>>
      /\ retooled' = TRUE
      /\ swapped' = (swapped \/ pc \notin {"idle", "closing"})
      /\ path' \subseteq LinuxTools /\ cosignOk' \in BOOLEAN
  BY Zenon DEF Reprovision, locals
<1>3. Flags'
  BY <1>1, <1>2, Zenon DEF Typed, Flags
<1>4. Files' /\ Sorts'
  BY <1>1, <1>2 DEF Typed, Files, Sorts
<1>5. Work' /\ Floor'
  BY <1>1, <1>2 DEF Work, Floor
<1>6. Behind' /\ AtRest'
  BY <1>1, <1>2
  DEF Behind, Published, Choices, Genuine, AtRest, SuccessIsGenuine, SignedStaysVerifiable
<1> QED
  BY <1>3, <1>4, <1>5, <1>6, TypeParts DEF IInv, Typed

LEMMA StutterKeeps ==
  ASSUME IInv, UNCHANGED vars
  PROVE  IInv'
<1>1. UNCHANGED <<present, sidecar, path, cosignOk, pc, artifact, tool, checksum, verifier,
                  accepted, outcome, rebuilt, retooled, swapped, touched, passed>>
  BY Zenon DEF vars, machine, locals, history
<1>2. Typed /\ Work /\ Floor /\ Behind /\ AtRest
  BY TypeParts DEF IInv
<1>3. Flags'
  BY <1>1, <1>2, Zenon DEF Typed, Flags
<1>4. Files' /\ Sorts'
  BY <1>1, <1>2 DEF Typed, Files, Sorts
<1>5. Work' /\ Floor' /\ Behind'
  BY <1>1, <1>2 DEF Work, Floor, Behind, Published, Choices, Genuine, PreferredTool
<1>6. AtRest'
  BY <1>1, <1>2 DEF AtRest, SuccessIsGenuine, SignedStaysVerifiable, PreferredTool
<1> QED
  BY <1>3, <1>4, <1>5, <1>6, TypeParts DEF IInv, Typed

LEMMA StepKeeps == IInv /\ [Next]_vars => IInv'
<1> SUFFICES ASSUME IInv, [Next]_vars PROVE IInv'
  OBVIOUS
<1>1. ASSUME NEW usable \in BOOLEAN, NEW pattern \in SUBSET Artifacts,
             SignCall(usable, pattern)
      PROVE  IInv'
  <2>1. CASE \/ SignSkipsToolAbsent \/ SignSkipsNoCredential(usable)
             \/ SignFailsNoMatch(usable, pattern)
    <3>1. PICK s \in {"skipped_tool_absent", "skipped_no_credential", "failed"} :
            ReturnsAtOnce(OutcomeOf(s, "not_run", 0))
      BY <2>1, Zenon
      DEF SignSkipsToolAbsent, SignSkipsNoCredential, SignFailsNoMatch, Skipped
    <3>2. /\ OutcomeOf(s, "not_run", 0) \in Outcomes
          /\ ~IsSuccess(OutcomeOf(s, "not_run", 0).status)
      BY OutcomeType, OutcomeFields, ReturnedValues DEF IsSuccess
    <3> QED
      BY <3>1, <3>2, AtOnceKeeps
  <2>2. CASE SignRaisesAtOnce
    BY <2>2, AtOnceKeeps, NoSuccess DEF SignRaisesAtOnce
  <2>3. CASE SignBegins(usable, pattern)
    BY <2>3, BeginningKeeps
  <2> QED
    BY <1>1, <2>1, <2>2, <2>3 DEF SignCall
<1>2. ASSUME NEW a \in Artifacts, VerifyBegins(a) PROVE IInv'
  BY <1>2, BeginningKeeps
<1>3. CASE Signing
  BY <1>3, PreparingKeeps, FailingKeeps, ToolKeeps, SignReturnsKeeps DEF Signing
<1>4. CASE Verifying
  BY <1>4, VerifyContinuesKeeps, VerifyEndsKeeps DEF Verifying
<1>5. CASE CallAbandoned
  BY <1>5, FailingKeeps
<1>6. ASSUME NEW a \in Artifacts, Rebuild(a) \/ Clean(a) PROVE IInv'
  BY <1>6, RebuildKeeps
<1>7. CASE Reprovision
  BY <1>7, ReprovisionKeeps
<1>8. CASE UNCHANGED vars
  BY <1>8, StutterKeeps
<1> QED
  BY <1>1, <1>2, <1>3, <1>4, <1>5, <1>6, <1>7, <1>8 DEF Next

LEMMA Invariance == Spec => []IInv
  BY InitEstablishes, StepKeeps, PTL DEF Spec

------------------------------------------------------------------------------
(* linux.py's state: every variable keeps its type, and a call that has     *)
(* begun has an artifact.                                                   *)
THEOREM TypeCorrect == Spec => []TypeOK
<1>1. IInv => TypeOK
  BY DEF IInv
<1> QED
  BY <1>1, Invariance, PTL

(* linux.py:230-250, 437-457.  The checksum file behind a SIGNED outcome    *)
(* holds the reported digest, it is the digest of the artifact unless the   *)
(* build changed it after the call had begun, and the tool that signed is   *)
(* the one that verified unless the tools changed.                          *)
THEOREM SignedKeepsStanding == Spec => []SignedStaysVerifiable
<1>1. IInv => SignedStaysVerifiable
  BY DEF IInv, AtRest
<1> QED
  BY <1>1, Invariance, PTL

(* linux.py:333-357, 437-457.  However earlier sidecars, rebuilds and tool  *)
(* changes interleave with the steps of a call, a success stands for a      *)
(* sidecar that matches the artifact until the next rebuild, save for a     *)
(* cosign replaced between its version check and its use.                   *)
THEOREM SuccessesAreGenuine == Spec => []SuccessIsGenuine
<1>1. IInv => SuccessIsGenuine
  BY DEF IInv, AtRest
<1> QED
  BY <1>1, Invariance, PTL

(* What a step does to the cosign bundles of the artifacts. *)
BundlesKept ==
  \A a \in Artifacts :
    sidecar'[a]["cosign"] \in {sidecar[a]["cosign"], Outdated(sidecar[a]["cosign"])}

LEMMA OneOtherSidecar ==
  ASSUME Files, NEW a \in Artifacts, NEW k \in Sidecars \ {"cosign"}, NEW f \in Freshness,
         sidecar' = [sidecar EXCEPT ![a][k] = f]
  PROVE  BundlesKept
<1>1. "cosign" \in Sidecars
  BY DEF Sidecars, LinuxTools
<1> QED
  BY <1>1, OneSidecar DEF BundlesKept

(* Only the checksum file, the signing tool and the build write sidecars. *)
LEMMA WhoWritesSidecars ==
  ASSUME [Next]_vars
  PROVE  \/ UNCHANGED sidecar
         \/ WriteChecksum
         \/ ToolSucceeds
         \/ pc = "signing" /\ ToolMayHaveWritten
         \/ \E a \in Artifacts : Rebuild(a) \/ Clean(a)
<1>1. ASSUME \/ \E usable \in BOOLEAN, pattern \in SUBSET Artifacts :
                  SignCall(usable, pattern)
             \/ \E a \in Artifacts : VerifyBegins(a)
             \/ Hash \/ SignVetsCosign \/ SignRefusesCosign \/ SignReturns
             \/ Verifying \/ Reprovision \/ UNCHANGED vars
      PROVE  UNCHANGED sidecar
  BY <1>1
  DEF SignCall, SignSkipsToolAbsent, SignSkipsNoCredential, SignRaisesAtOnce,
      SignFailsNoMatch, SignBegins, VerifyBegins, ReturnsAtOnce, Hash, SignVetsCosign,
      SignRefusesCosign, SignReturns, Verifying, VerifyFindsNoTool, VerifyFindsNoSidecar,
      VerifySelects, VerifyVetsCosign, VerifyRefusesCosign, VerifyHashes, VerifierAccepts,
      VerifierRejects, VerifyReturns, Reprovision, vars
<1>2. ASSUME ToolFails \/ CallAbandoned
      PROVE  UNCHANGED sidecar \/ (pc = "signing" /\ ToolMayHaveWritten)
  BY <1>2 DEF ToolFails, CallAbandoned
<1> QED
  BY <1>1, <1>2 DEF Next, Signing

(* linux.py:296-305, 379-386.  A cosign below the floor writes no bundle    *)
(* and vouches for none, as long as it is the one whose version the call    *)
(* read last.                                                               *)
THEOREM CosignFloor == Spec => CosignFloorHolds
<1>1. ASSUME IInv, [Next]_vars, ~cosignOk, ~swapped PROVE BundlesKept
  <2>0. Typed /\ Work /\ Floor
    BY <1>1, TypeParts DEF IInv
  <2>1. CASE UNCHANGED sidecar
    BY <2>1 DEF BundlesKept
  <2>2. CASE WriteChecksum
    <3>1. /\ artifact \in Artifacts /\ checksum \in Freshness
          /\ "sha256" \in Sidecars \ {"cosign"}
          /\ sidecar' = [sidecar EXCEPT ![artifact]["sha256"] = checksum]
      BY <2>0, <2>2, AtWork DEF WriteChecksum, ChecksumFile, Typed, Sorts, Sidecars
    <3> QED
      BY <2>0, <3>1, OneOtherSidecar DEF Typed
  <2>3. CASE ToolSucceeds \/ (pc = "signing" /\ ToolMayHaveWritten)
    <3>1. pc = "signing" /\ artifact \in Artifacts /\ tool \in LinuxTools
      BY <2>0, <2>3, AtWork DEF ToolSucceeds, Typed, Sorts, Work
    <3>2. tool \in Sidecars \ {"cosign"}
      BY <1>1, <2>0, <3>1, ReturnedValues DEF Floor
    <3>3. \E f \in Freshness : sidecar' = [sidecar EXCEPT ![artifact][tool] = f]
      BY <2>0, <2>3, ToolWrites DEF ToolMayHaveWritten
    <3> QED
      BY <2>0, <3>1, <3>2, <3>3, OneOtherSidecar DEF Typed
  <2>4. ASSUME NEW a \in Artifacts, Rebuild(a) \/ Clean(a) PROVE BundlesKept
    BY <2>0, <2>4, ChangedSidecars, ReturnedValues
    DEF Rebuild, Clean, BundlesKept, Typed, LinuxTools
  <2> QED
    BY <1>1, <2>1, <2>2, <2>3, <2>4, WhoWritesSidecars
<1>2. ASSUME IInv, [Next]_vars, ~cosignOk, ~swapped, verifier = "cosign", pc = "verifying"
      PROVE  passed' = {}
  <2>1. FALSE
    BY <1>2, Zenon DEF IInv, Floor
  <2> QED
    BY <2>1
<1>3. IInv /\ [Next]_vars =>
        (~cosignOk /\ ~swapped =>
           /\ BundlesKept
           /\ verifier = "cosign" /\ pc = "verifying" => passed' = {})
  BY <1>1, <1>2
<1> QED
  BY <1>3, Invariance, PTL DEF Spec, CosignFloorHolds, BundlesKept

------------------------------------------------------------------------------
(* The actions of linux.py as steps of the signing contract. *)
LEMMA CallsRefine ==
  ASSUME IInv, \/ \E usable \in BOOLEAN, pattern \in SUBSET Artifacts :
                    SignCall(usable, pattern)
               \/ \E a \in Artifacts : VerifyBegins(a)
  PROVE  Contract!Next
<1> USE DEF OutcomeOf, SigningStatus, RaisedOutcome, Contract!OutcomeOf,
            Contract!SigningStatus, Contract!RaisedOutcome
<1>1. ASSUME NEW usable \in BOOLEAN, NEW pattern \in SUBSET Artifacts,
             \/ SignSkipsToolAbsent \/ SignSkipsNoCredential(usable)
             \/ SignFailsNoMatch(usable, pattern)
      PROVE  Contract!Decline
  BY <1>1
  DEF SignSkipsToolAbsent, SignSkipsNoCredential, SignFailsNoMatch, ReturnsAtOnce,
      NewCall, Skipped, Contract!Decline
<1>2. ASSUME SignRaisesAtOnce
      PROVE  \E a \in Artifacts : Contract!Abandon(a)
  <2>1. 1 \in Artifacts
    BY NArtifactsAssumption DEF Artifacts
  <2>2. Contract!Abandon(1)
    BY <1>2 DEF SignRaisesAtOnce, ReturnsAtOnce, NewCall, Contract!Abandon
  <2> QED
    BY <2>1, <2>2
<1>3. ASSUME NEW usable \in BOOLEAN, NEW pattern \in SUBSET Artifacts,
             SignBegins(usable, pattern)
      PROVE  Contract!Accept
  BY <1>3 DEF SignBegins, NewCall, Contract!Accept
<1>4. ASSUME NEW a \in Artifacts, VerifyBegins(a)
      PROVE  Contract!Accept
  BY <1>4 DEF VerifyBegins, NewCall, Contract!Accept
<1> QED
  BY <1>1, <1>2, <1>3, <1>4 DEF SignCall, Contract!Next

LEMMA SigningRefines ==
  ASSUME IInv, Signing \/ CallAbandoned
  PROVE  Contract!Next \/ UNCHANGED Contract!contractVars
<1> USE DEF OutcomeOf, NoOutcome, RaisedOutcome, Contract!OutcomeOf, Contract!NoOutcome,
            Contract!RaisedOutcome
<1>1. Typed /\ Work
  BY TypeParts DEF IInv
<1>2. artifact \in Artifacts
  BY <1>1, AtWork
  DEF Signing, Hash, WriteChecksum, SignVetsCosign, SignRefusesCosign, ToolSucceeds,
      ToolFails, SignReturns, CallAbandoned, Typed
<1>3. ASSUME Hash \/ WriteChecksum \/ SignVetsCosign PROVE UNCHANGED Contract!contractVars
  <2>1. pc # "idle" /\ pc' # "idle"
    BY <1>3 DEF Hash, WriteChecksum, SignVetsCosign
  <2>2. UNCHANGED <<touched, passed, outcome>>
    <3>1. SignVetsCosign => passed' = passed
      BY DEF SignVetsCosign
    <3> QED
      BY <1>3, <3>1, Zenon DEF Hash, WriteChecksum, SignVetsCosign, history
  <2> QED
    BY <2>1, <2>2 DEF Contract!contractVars
<1>4. ASSUME SignRefusesCosign \/ ToolFails PROVE Contract!ReturnFailed(artifact)
  <2>1. CASE SignRefusesCosign
    BY <2>1 DEF SignRefusesCosign, SignFails, Contract!ReturnFailed, Contract!TouchedOnceMore
  <2>2. CASE ToolFails
    BY <1>1, <2>2 DEF ToolFails, ToolMayHaveWritten, SignFails, Work, Contract!ReturnFailed,
                      Contract!TouchedOnceMore
  <2> QED
    BY <1>4, <2>1, <2>2
<1>5. ASSUME ToolSucceeds PROVE Contract!Touch(artifact)
  BY <1>1, <1>5 DEF ToolSucceeds, Work, Contract!Touch
<1>6. ASSUME SignReturns PROVE Contract!ReturnSigned(artifact) \/ Contract!ReturnFailed(artifact)
  <2>1. CASE accepted
    <3>1. touched = {artifact} /\ passed = {artifact}
      BY <1>1, <1>6, <2>1 DEF SignReturns, Work
    <3> QED
      BY <1>6, <2>1, <3>1 DEF SignReturns, history, Contract!ReturnSigned
  <2>2. CASE ~accepted
    BY <1>6, <2>2 DEF SignReturns, history, Contract!ReturnFailed, Contract!TouchedOnceMore
  <2> QED
    BY <2>1, <2>2
<1>7. ASSUME CallAbandoned PROVE Contract!Abandon(artifact)
  <2>1. touched' = touched \/ touched' = touched \cup {artifact}
    <3>1. CASE pc = "signing" /\ ToolMayHaveWritten
      BY <1>1, <3>1 DEF Work, ToolMayHaveWritten
    <3> QED
      BY <1>7, <3>1 DEF CallAbandoned
  <2> QED
    BY <1>7, <2>1 DEF CallAbandoned, Contract!Abandon, Contract!TouchedOnceMore
<1> QED
  BY <1>2, <1>3, <1>4, <1>5, <1>6, <1>7 DEF Signing, Contract!Next

LEMMA VerifyingRefines ==
  ASSUME IInv, Verifying
  PROVE  Contract!Next \/ UNCHANGED Contract!contractVars
<1> USE DEF OutcomeOf, Contract!OutcomeOf
<1>1. Typed /\ Work
  BY TypeParts DEF IInv
<1>2. pc \in {"selecting", "checking", "digesting", "verifying"} /\ artifact \in Artifacts
  BY <1>1, AtWork
  DEF Verifying, VerifyFindsNoTool, VerifyFindsNoSidecar, VerifySelects, VerifyVetsCosign,
      VerifyRefusesCosign, VerifyHashes, VerifierAccepts, VerifierRejects, Typed
<1>3. /\ passed = {}
      /\ touched = IF tool = "none" THEN {} ELSE {artifact}
  BY <1>1, <1>2 DEF Work
<1>4. ASSUME VerifySelects \/ VerifyVetsCosign \/ VerifyHashes
      PROVE  UNCHANGED Contract!contractVars
  <2>1. pc' # "idle"
    BY <1>4 DEF VerifySelects, VerifyVetsCosign, VerifyHashes
  <2>2. UNCHANGED <<touched, passed, outcome>>
    BY <1>4, Zenon DEF VerifySelects, VerifyVetsCosign, VerifyHashes, history
  <2> QED
    BY <1>2, <2>1, <2>2 DEF Contract!contractVars
<1>5. ASSUME NEW o, VerifyReturns(o), tool # "none"
      PROVE  Contract!Check(artifact) \/ UNCHANGED Contract!contractVars
  <2>1. pc' = "closing" /\ UNCHANGED <<outcome, touched>>
    BY <1>5, Zenon DEF VerifyReturns
  <2>2. passed' = {artifact} \/ passed' = {}
    BY <1>5 DEF VerifyReturns
  <2> QED
    BY <1>2, <1>3, <1>5, <2>1, <2>2 DEF Contract!Check, Contract!contractVars
<1>6. ASSUME VerifyReturns(Verified) \/ VerifyReturns(NotVerified), tool = "none"
      PROVE  Contract!VerifyOnly(artifact)
  <2>1. pc' = "idle" /\ touched' = touched
    BY <1>6, Zenon DEF VerifyReturns
  <2>2. \/ outcome' = OutcomeOf("verified", "passed", artifact) /\ passed' = {artifact}
        \/ outcome' = OutcomeOf("failed", "failed", artifact) /\ passed' = {}
    BY <1>6 DEF VerifyReturns, Verified, NotVerified
  <2> QED
    BY <1>2, <1>3, <1>6, <2>1, <2>2 DEF Contract!VerifyOnly
<1>7. ASSUME VerifyReturns(OutcomeOf("skipped_tool_absent", "not_run", artifact)),
             tool = "none"
      PROVE  Contract!Decline
  <2>1. pc' = "idle" /\ touched' = touched
    BY <1>7, Zenon DEF VerifyReturns
  <2>2. /\ outcome' = OutcomeOf("skipped_tool_absent", "not_run", artifact)
        /\ passed' = {}
    BY <1>7 DEF VerifyReturns
  <2>3. "skipped_tool_absent" \in Contract!SigningStatus \ {"signed", "verified"}
    BY DEF Contract!SigningStatus
  <2> QED
    BY <1>2, <1>3, <1>7, <2>1, <2>2, <2>3 DEF Contract!Decline
<1> QED
  BY <1>2, <1>4, <1>5, <1>6, <1>7
  DEF Verifying, VerifyFindsNoTool, VerifyFindsNoSidecar, VerifyRefusesCosign,
      VerifierAccepts, VerifierRejects, Contract!Next

LEMMA StepRefines ==
  IInv /\ [Next]_vars => [Contract!Next]_(Contract!contractVars)
<1> SUFFICES ASSUME IInv, [Next]_vars
             PROVE  Contract!Next \/ UNCHANGED Contract!contractVars
  OBVIOUS
<1>1. ASSUME \/ \E a \in Artifacts : Rebuild(a) \/ Clean(a)
             \/ Reprovision
             \/ UNCHANGED vars
      PROVE  UNCHANGED Contract!contractVars
  BY <1>1 DEF Rebuild, Clean, Changes, Reprovision, vars, history, Contract!contractVars
<1> QED
  BY <1>1, CallsRefine, SigningRefines, VerifyingRefines DEF Next

(* The Linux backend does what backends/base.py allows, except that it may  *)
(* raise.                                                                   *)
THEOREM ContractImplemented == Spec => ImplementsContract
<1>1. Init => Contract!Init
  BY DEF Init, Contract!Init, NoOutcome, Contract!NoOutcome, OutcomeOf, Contract!OutcomeOf
<1> QED
  BY <1>1, StepRefines, Invariance, PTL DEF Spec, ImplementsContract, Contract!Spec

(* The contract's theorems, about the machine that this backend refines.    *)
Theory ==
  INSTANCE SignerContract_proofs WITH
    Artifacts <- Artifacts, LateSkip <- FALSE, TrustsTool <- FALSE, Raises <- TRUE,
    busy <- pc # "idle",
    touched <- touched,
    passed <- passed,
    outcome <- outcome

LEMMA SameContract == Contract!Spec => Theory!Spec
<1>1. Contract!Init => Theory!Init
  BY DEF Contract!Init, Theory!Init, Contract!NoOutcome, Theory!NoOutcome,
         Contract!OutcomeOf, Theory!OutcomeOf
<1>2. [Contract!Next]_(Contract!contractVars) => [Theory!Next]_(Theory!contractVars)
  BY DEF Contract!Next, Theory!Next, Contract!contractVars, Theory!contractVars,
         Contract!Accept, Theory!Accept, Contract!Decline, Theory!Decline,
         Contract!VerifyOnly, Theory!VerifyOnly, Contract!Touch, Theory!Touch,
         Contract!Check, Theory!Check, Contract!Abandon, Theory!Abandon,
         Contract!ReturnSigned, Theory!ReturnSigned, Contract!ReturnFailed,
         Theory!ReturnFailed, Contract!ReturnUnverified, Theory!ReturnUnverified,
         Contract!ReturnLateSkip, Theory!ReturnLateSkip, Contract!TouchedOnceMore,
         Theory!TouchedOnceMore, Contract!NoOutcome, Theory!NoOutcome,
         Contract!RaisedOutcome, Theory!RaisedOutcome,
         Contract!OutcomeOf, Theory!OutcomeOf, Contract!SigningStatus,
         Theory!SigningStatus
<1> QED
  BY <1>1, <1>2, PTL DEF Contract!Spec, Theory!Spec

(* backends/base.py:138-152 with result.py, what the refinement buys: a     *)
(* SIGNED or VERIFIED names an artifact whose checksum and sidecar the call *)
(* verified; and a call that says it was skipped wrote no sidecar.          *)
THEOREM ContractHonoured == Spec => [](Contract!SuccessIsChecked /\ Contract!SkipTouchesNothing)
<1>1. 0 \notin Artifacts
  BY DEF Artifacts
<1>2. Theory!Spec => []Theory!SuccessIsChecked
  BY <1>1, Theory!ContractSuccessIsChecked
<1>3. Contract!SuccessIsChecked <=> Theory!SuccessIsChecked
  BY DEF Contract!SuccessIsChecked, Theory!SuccessIsChecked, Contract!IsSuccess,
         Theory!IsSuccess
<1>4. Theory!Spec => []Theory!SkipTouchesNothing
  BY Theory!ContractSkipTouchesNothing, PTL
<1>5. Contract!SkipTouchesNothing <=> Theory!SkipTouchesNothing
  BY DEF Contract!SkipTouchesNothing, Theory!SkipTouchesNothing, Contract!IsSkipped,
         Theory!IsSkipped
<1> QED
  BY <1>2, <1>3, <1>4, <1>5, ContractImplemented, SameContract, PTL DEF ImplementsContract

==============================================================================
