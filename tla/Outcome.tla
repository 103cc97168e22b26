------------------------------- MODULE Outcome -------------------------------
(***************************************************************************)
(* The values of sealward/result.py: the terminal status of a call, the    *)
(* verify-after-sign verdict carried beside it, and the aggregate counter. *)
(*                                                                         *)
(* An artifact or a timestamp authority is its position: artifact a is the *)
(* a-th file a sorted glob returns, and 0 stands for Python's None (or,    *)
(* for an artifact, for the unexpanded glob string).                       *)
(***************************************************************************)
EXTENDS Naturals

SigningStatus ==
  {"signed", "verified", "skipped_no_credential", "skipped_tool_absent", "failed"}

VerifyVerdict == {"passed", "failed", "not_run"}

IsSkipped(s) == s \in {"skipped_no_credential", "skipped_tool_absent"}

IsSuccess(s) == s \in {"signed", "verified"}

(* SigningOutcome, restricted to the fields that the properties tell apart. *)
OutcomeOf(status, verdict, artifact) ==
  [status |-> status, verdict |-> verdict, artifact |-> artifact]

(* A skip carries the field default NOT_RUN and the unexpanded glob. *)
Skipped(status) == OutcomeOf(status, "not_run", 0)

(* The call never returned, because its process was killed; or it raised. *)
NoOutcome == OutcomeOf("none", "not_run", 0)
RaisedOutcome == OutcomeOf("raised", "not_run", 0)

(* How a call can have ended. *)
CallStatus == SigningStatus \cup {"none", "raised"}

(* _OutcomeCounter: a fresh counter, and record(). *)
NoCounts == [s \in SigningStatus |-> 0]

Record(counts, s) == [counts EXCEPT ![s] = @ + 1]

==============================================================================
