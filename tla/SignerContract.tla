---------------------------- MODULE SignerContract ----------------------------
(***************************************************************************)
(* What sealward/backends/base.py asks of a SignerBackend, as a state      *)
(* machine that knows nothing of tools, timestamp authorities or           *)
(* sidecars: a call works on artifacts one at a time, a native verifier    *)
(* may accept some of them, and the call ends with a status that the work  *)
(* must justify.  The process may also be killed in the middle of a call,  *)
(* which then has no outcome.  Raising is no way to end a call             *)
(* (base.py:150, "NEVER raises; all failure modes map to a structured ...  *)
(* SigningOutcome"): every backend needs the deviation Raises.             *)
(*                                                                         *)
(* A skip is an answer given instead of working, so it is only available   *)
(* before the first artifact is touched.  Each backend module shows that   *)
(* it implements this machine, with those of the three deviations below    *)
(* that it names.                                                          *)
(***************************************************************************)
EXTENDS Outcome

CONSTANTS
  Artifacts,    \* positions of the files a glob can match, without 0
  LateSkip,     \* deviation: may skip after it touched an artifact
  TrustsTool,   \* deviation: may report SIGNED without a verifier
  Raises        \* deviation: may end with an exception

VARIABLES
  busy,      \* a sign() call is working on artifacts
  touched,   \* artifacts this call has run the signing tool on
  passed,    \* artifacts the native verifier accepted during this call
  outcome    \* what the last call returned

contractVars == <<busy, touched, passed, outcome>>

Init ==
  /\ busy = FALSE
  /\ touched = {}
  /\ passed = {}
  /\ outcome = NoOutcome

(* sign() or verify() accepts the target and starts working. *)
Accept ==
  /\ ~busy
  /\ busy' = TRUE
  /\ touched' = {}
  /\ passed' = {}
  /\ UNCHANGED outcome

(* sign() or verify() answers without having touched anything. *)
Decline ==
  /\ busy => touched = {}
  /\ touched' = {}
  /\ passed' = {}
  /\ \E s \in SigningStatus \ {"signed", "verified"}, a \in Artifacts \cup {0} :
       outcome' = OutcomeOf(s, "not_run", a)
  /\ busy' = FALSE

(* verify(), in one step or in several, signs nothing. *)
VerifyOnly(a) ==
  /\ busy => touched = {}
  /\ touched' = {}
  /\ \/ passed' = {a} /\ outcome' = OutcomeOf("verified", "passed", a)
     \/ passed' = {} /\ outcome' = OutcomeOf("failed", "failed", a)
  /\ busy' = FALSE

Touch(a) ==
  /\ busy
  /\ touched' = touched \cup {a}
  /\ UNCHANGED <<busy, passed, outcome>>

Check(a) ==
  /\ busy
  /\ a \in touched
  /\ passed' = passed \cup {a}
  /\ UNCHANGED <<busy, touched, outcome>>

(* SIGNED only for an artifact that was worked on and that the verifier     *)
(* accepted, or for the glob as a whole when that holds of all that was     *)
(* worked on.                                                               *)
ReturnSigned(a) ==
  /\ busy
  /\ a \in touched
  /\ passed' = passed \cup {a}
  /\ \/ outcome' = OutcomeOf("signed", "passed", a)
     \/ touched \subseteq passed' /\ outcome' = OutcomeOf("signed", "passed", 0)
  /\ busy' = FALSE
  /\ UNCHANGED touched

ReturnUnverified(a) ==
  /\ TrustsTool
  /\ busy
  /\ touched' = touched \cup {a}
  /\ outcome' = OutcomeOf("signed", "not_run", a)
  /\ busy' = FALSE
  /\ UNCHANGED passed

ReturnLateSkip(a) ==
  /\ LateSkip
  /\ busy
  /\ touched' = touched \cup {a}
  /\ outcome' = OutcomeOf("skipped_no_credential", "not_run", a)
  /\ busy' = FALSE
  /\ UNCHANGED passed

(* The tool may have run once more before the call gave up. *)
TouchedOnceMore(a) == touched' \in {touched, touched \cup {a}}

ReturnFailed(a) ==
  /\ busy
  /\ TouchedOnceMore(a)
  /\ \E v \in {"failed", "not_run"} : outcome' = OutcomeOf("failed", v, a)
  /\ busy' = FALSE
  /\ UNCHANGED passed

(* The process is killed, or (where that is conceded) the call raises. *)
Abandon(a) ==
  /\ busy' = FALSE
  /\ \/ outcome' = NoOutcome
     \/ Raises /\ outcome' = RaisedOutcome
  /\ \/ TouchedOnceMore(a) /\ UNCHANGED passed
     \/ touched' = {} /\ passed' = {}

Next ==
  \/ Accept
  \/ Decline
  \/ \E a \in Artifacts :
       \/ VerifyOnly(a) \/ Touch(a) \/ Check(a) \/ Abandon(a)
       \/ ReturnSigned(a) \/ ReturnFailed(a)
       \/ ReturnUnverified(a) \/ ReturnLateSkip(a)

Spec == Init /\ [][Next]_contractVars

------------------------------------------------------------------------------
ContractTypeOK ==
  /\ busy \in BOOLEAN
  /\ touched \subseteq Artifacts
  /\ passed \subseteq Artifacts
  /\ outcome \in [status : CallStatus, verdict : VerifyVerdict,
                  artifact : Artifacts \cup {0}]

(* result.py, VerifyVerdict: a success is never trusted on a backend's bare *)
(* word.  Between calls a success names an artifact the verifier accepted   *)
(* (or, for SIGNED, stands for a set of them, all accepted).                *)
SuccessIsChecked ==
  ~busy /\ IsSuccess(outcome.status) /\ ~TrustsTool =>
    /\ outcome.verdict = "passed"
    /\ outcome.artifact # 0 => outcome.artifact \in passed
    /\ outcome.artifact = 0 => touched # {} /\ touched \subseteq passed
    /\ outcome.status = "signed" /\ outcome.artifact # 0 => outcome.artifact \in touched

(* result.py, SigningStatus: skipped means the operation was never          *)
(* attempted, so no artifact may have been touched.                         *)
SkipTouchesNothing ==
  ~busy /\ IsSkipped(outcome.status) /\ ~LateSkip => touched = {}

==============================================================================
