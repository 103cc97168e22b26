----------------------------- MODULE ReleaseSigner -----------------------------
(***************************************************************************)
(* provenance/sigstore_release.py: main() signs the artifacts of a dist    *)
(* directory one by one, and verify() accepts an artifact and the bundle   *)
(* beside it.  Bytes are known by the build that made them and a bundle by *)
(* the build whose digest its log entry records.                           *)
(*                                                                         *)
(* The client stands for sigstore, Fulcio and Rekor.  Signing may raise,   *)
(* and may leave any entry behind.  The client may confirm a valid entry   *)
(* that belongs to another artifact; what it is trusted in is the digest   *)
(* it reports, if it reports one.  verify() asks for no identity, so who   *)
(* signed is no part of its answer.  Not modelled here: redaction,         *)
(* evidence, --bundle-suffix, and which names are wheels and sdists.       *)
(***************************************************************************)
EXTENDS Outcome

CONSTANTS
  Artifacts,    \* positions in main()'s list: wheels first, then sdists
  MaxBuilds     \* builds are numbered 1..MaxBuilds

ASSUME ArtifactsAssumption == Artifacts \subseteq Nat \ {0}
ASSUME MaxBuildsAssumption == MaxBuilds \in Nat \ {0}

Builds == 1..MaxBuilds
Absent == 0
Foreign == MaxBuilds + 1     \* bytes that no build made, and their digest
Unbound == MaxBuilds + 2     \* half a bundle, or an entry without a digest
Bytes == Builds \cup {Absent, Foreign}
Bundles == Builds \cup {Absent, Foreign, Unbound}

VARIABLES
  lib,       \* sigstore: "good", "low" (below the floor) or "absent"
  bytes,     \* artifact |-> the build in the dist directory
  bundle,    \* artifact |-> what its .sigstore.json records
  statuses,  \* artifact |-> where main()'s loop has put it, or "none"
  phase,     \* "off", "loop" (between artifacts) or "verify"
  exit       \* main()'s exit code: "none", "ok" (0), "raised" (1),
             \* "failed" (2) or "skipped" (3)

signerVars == <<lib, bytes, bundle, statuses, phase, exit>>

Unsigned == [a \in Artifacts |-> "none"]
Nothing == [a \in Artifacts |-> Absent]

SignerInit ==
  /\ lib = "absent"
  /\ bytes = Nothing
  /\ bundle = Nothing
  /\ statuses = Unsigned
  /\ phase = "off"
  /\ exit = "none"

Listed == {a \in Artifacts : bytes[a] # Absent}

(* What main()'s loop still has to sign, in a loop that does not advance    *)
(* and as it is.                                                            *)
RemainingAlways == Listed
Remaining == {a \in Listed : statuses[a] = "none"}
IsCurrent(a) == a \in Remaining /\ \A b \in Remaining : a <= b

(* _precondition_skip: an injected client stands in for an absent library,  *)
(* but never for one below the floor.  main() injects none.                 *)
PreconditionSkips(library, injected) ==
  library = "low" \/ (library = "absent" /\ ~injected)

------------------------------------------------------------------------------
(* verify() *)

(* A client that raises has confirmed nothing. *)
Unconfirmed == [ok |-> FALSE, digest |-> Absent]
ClientAnswers(entry) ==
  {Unconfirmed} \cup [ok : {TRUE}, digest : {Absent, entry}]

(* verify() as it was before the digest was looked at, and as it is.        *)
AcceptsAnyEntry(content, entry, answer) == entry # Absent /\ answer.ok
Accepts(content, entry, answer) ==
  /\ entry # Absent
  /\ answer.ok
  /\ answer.digest # Absent /\ answer.digest = content

Verdicts(content, entry) ==
  {IF Accepts(content, entry, answer) THEN "passed" ELSE "failed" :
     answer \in ClientAnswers(entry)}

------------------------------------------------------------------------------
(* main() *)

MainBegins ==
  /\ phase = "off"
  /\ statuses' = Unsigned
  /\ IF Listed = {} THEN phase' = "off" /\ exit' = "failed"
     ELSE phase' = "loop" /\ exit' = "none"
  /\ UNCHANGED <<lib, bytes, bundle>>

Concludes(a, status) ==
  /\ statuses' = [statuses EXCEPT ![a] = status]
  /\ phase' = "loop"
  /\ UNCHANGED <<lib, bytes, exit>>

SignSkips(a) ==
  /\ phase = "loop" /\ IsCurrent(a)
  /\ PreconditionSkips(lib, FALSE)
  /\ Concludes(a, "skipped_tool_absent")
  /\ UNCHANGED bundle

(* The artifact is not a file, the client cannot be built or raises, or the *)
(* bundle cannot be written, which may leave a part of it behind.           *)
SignFails(a) ==
  /\ phase = "loop" /\ IsCurrent(a)
  /\ ~PreconditionSkips(lib, FALSE)
  /\ Concludes(a, "failed")
  /\ bundle' \in {bundle, [bundle EXCEPT ![a] = Unbound]}

WritesBundle(a) ==
  /\ phase = "loop" /\ IsCurrent(a)
  /\ ~PreconditionSkips(lib, FALSE)
  /\ \E entry \in {bytes[a], Foreign, Unbound} : bundle' = [bundle EXCEPT ![a] = entry]
  /\ phase' = "verify"
  /\ UNCHANGED <<lib, bytes, statuses, exit>>

(* What verify() said becomes the status of sign(): unconverted, and as it  *)
(* is.                                                                      *)
StatusUnconverted(verdict) == verdict
StatusAfter(verdict) == IF verdict = "passed" THEN "signed" ELSE "failed"

(* The bundle stays where it is, also when it is rejected. *)
VerifyAfterSign(a) ==
  /\ phase = "verify" /\ IsCurrent(a)
  /\ \E verdict \in Verdicts(bytes[a], bundle[a]) :
       Concludes(a, StatusAfter(verdict))
  /\ UNCHANGED bundle

(* main() that fails only when it signed nothing, and as it is. *)
ExitCodeLenient(reached) ==
  IF "signed" \in reached THEN "ok"
  ELSE IF "failed" \in reached THEN "failed" ELSE "skipped"
ExitCode(reached) ==
  IF "failed" \in reached THEN "failed"
  ELSE IF "skipped_tool_absent" \in reached /\ "signed" \notin reached THEN "skipped"
  ELSE "ok"

MainReturns ==
  /\ phase = "loop"
  /\ Remaining = {}
  /\ phase' = "off"
  /\ exit' = ExitCode({statuses[a] : a \in Listed})
  /\ UNCHANGED <<lib, bytes, bundle, statuses>>

(* Hashing is outside of any try: an unreadable artifact ends the process.  *)
MainRaises ==
  /\ phase # "off"
  /\ phase' = "off"
  /\ exit' = "raised"
  /\ UNCHANGED <<lib, bytes, bundle, statuses>>

SignerRuns ==
  \/ \E a \in Artifacts :
       SignSkips(a) \/ SignFails(a) \/ WritesBundle(a) \/ VerifyAfterSign(a)
  \/ MainReturns
  \/ MainRaises

SignerTypeOK ==
  /\ lib \in {"good", "low", "absent"}
  /\ bytes \in [Artifacts -> Bytes]
  /\ bundle \in [Artifacts -> Bundles]
  /\ statuses \in [Artifacts -> SigningStatus \cup {"none"}]
  /\ phase \in {"off", "loop", "verify"}
  /\ exit \in {"none", "ok", "raised", "failed", "skipped"}

==============================================================================
