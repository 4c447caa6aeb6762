---------------------------- MODULE MCSubmission ----------------------------
(* Submission under several sets of bounds.  A behaviour belongs to one of    *)
(* them from its first state on: the one that the configuration gives, one    *)
(* without keys up to the end of the sequence numbers, one with more keys     *)
(* than the cache has room for, and one with faults and conflicting requests. *)
EXTENDS Submission, TLC

CONSTANT Scenarios

VARIABLE scenario

Symmetry == Permutations(Job)

\* Every client sends the same request with the same idempotency key.
KeyedRequests == [key : {CHOOSE k \in Key : TRUE}, sig : {"a"}]

\* No client sends one.
PlainRequests == [key : {None}, sig : {"a"}]

Plain == INSTANCE Submission WITH
  Requests <- PlainRequests, Faults <- FALSE, Spillover <- TRUE, MaxSequence <- 7,
  MaxCancels <- 1, Outcomes <- {"Allowed", "NeedsApproval"}, ToolResults <- {"Canceled"}

Evicting == INSTANCE Submission WITH
  Requests <- [key : Key, sig : {"a"}], Faults <- FALSE, MaxCancels <- 0

Faulty == INSTANCE Submission WITH
  Requests <- [key : {CHOOSE k \in Key : TRUE}, sig : Sig], Faults <- TRUE,
  MaxCancels <- 0, Outcomes <- {"Allowed"}, ToolResults <- {"Succeeded"}

MCInit ==
  /\ scenario \in Scenarios
  /\ CASE scenario = "given" -> Init
       [] scenario = "plain" -> Plain!Init
       [] scenario = "evicting" -> Evicting!Init
       [] scenario = "faulty" -> Faulty!Init

MCNext ==
  /\ \/ scenario = "given" /\ Next
     \/ scenario = "plain" /\ Plain!Next
     \/ scenario = "evicting" /\ Evicting!Next
     \/ scenario = "faulty" /\ Faulty!Next
  /\ UNCHANGED scenario

MCSpec == MCInit /\ [][MCNext]_<<vars, scenario>>

\* Submission's fairness, in the scenarios that liveness is checked for.
MCFairSpec ==
  /\ MCSpec
  /\ \A j \in Job :
       /\ WF_vars(scenario = "given" /\ RunStep(j) /\ UNCHANGED submissionVars)
       /\ WF_vars(scenario = "given" /\ ServeJob(j))
       /\ WF_vars(scenario = "faulty" /\ Faulty!RunStep(j) /\ UNCHANGED submissionVars)
       /\ WF_vars(scenario = "faulty" /\ Faulty!ServeJob(j))

\* Without faults every job that was created reaches a terminal status, raced
\* by a cancellation or not (run_tool_job_with_finalizer, cancel_job).
CalmJobsSettle == scenario = "given" => JobsSettle
=============================================================================
