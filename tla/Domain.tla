------------------------------- MODULE Domain -------------------------------
(***************************************************************************)
(* The vocabulary of atelia-core/src/domain.rs that the ledger stores: the *)
(* job status machine, policy outcomes, tool result statuses and the kinds *)
(* of job events.  Wall-clock timestamps are abstracted to whether they    *)
(* are set; a clock that steps backwards makes transition_status fail and  *)
(* is one of the failures of the operation that calls it.                  *)
(***************************************************************************)

JobStatus == {"Queued", "Running", "Succeeded", "Failed", "Blocked", "Canceled"}

\* A record that has not been created has this status and no other field set.
Absent == "Absent"

PolicyOutcome == {"Allowed", "Audited", "NeedsApproval", "Blocked"}

ToolResultStatus == {"Succeeded", "Failed", "TimedOut", "Canceled"}

\* The optional fields of the source are "None" when they hold no value.
None == "None"

is_terminal(status) == status \in {"Succeeded", "Failed", "Blocked", "Canceled"}

can_transition_to(from, to) ==
  \/ from = to
  \/ from = "Queued" /\ to \in {"Running", "Failed", "Blocked", "Canceled"}
  \/ from = "Running" /\ to \in {"Succeeded", "Failed", "Blocked", "Canceled"}

\* The job status that a tool result stands for.
terminal_status(result) ==
  CASE result = "Succeeded" -> "Succeeded"
    [] result = "Canceled" -> "Canceled"
    [] OTHER -> "Failed"

JobEventKind ==
  {"JobSubmitted", "JobStatusChanged", "PolicyDecided", "ToolInvoked",
   "ToolResultRecorded", "AuditRecorded", "CancellationRequested"}
=============================================================================
