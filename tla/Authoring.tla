----------------------------- MODULE Authoring ------------------------------
(***************************************************************************)
(* Package authoring, publication and submission, as the RPC layer of      *)
(* ateliad/src/rpc.rs offers them on top of the package registry: which    *)
(* changes it lets through, and the flow of steps and the publication plan *)
(* that it derives from a package's record.                                *)
(*                                                                         *)
(* A request that is refused changes nothing and is not a step.  Titles,   *)
(* notes and the consent flag of the steps are left out.  A client also    *)
(* reads the audit trail in pages while the registry changes.              *)
(***************************************************************************)
EXTENDS Extensions

CONSTANTS
  Limits,       \* the page sizes that the reader of the audit trail asks for
  MaxHistoryPage

VARIABLE
  walk  \* the reader's page size, its next page token if any, what it has read

-----------------------------------------------------------------------------
(* The enumerations of the interface                                       *)

PackageSourceClass ==
  {"host_shipped_built_in", "workspace_local", "user_selected", "verified_registry",
   "bundled_official", "development"}

PackageAuthoringStage == {"install", "inspect", "validate", "remix", "publish", "registry_search"}

PackageAuthoringStepState ==
  {"available", "blocked", "requires_validation", "requires_consent", "in_progress", "complete"}

PackageGitHubPublicationAction ==
  {"create_repository", "fork_repository", "create_branch", "commit_changes",
   "open_pull_request", "prepare_release_metadata", "submit_registry_metadata"}

\* The registry's own verdicts, which no client may write.
Verdicts == {"accepted", "rejected"}

-----------------------------------------------------------------------------
(* What is derived from a record                                           *)

package_source_class_from_record(record) ==
  CASE record.boundary = "official" -> "bundled_official"
    [] record.boundary = "local_development" -> "development"
    [] record.boundary = "third_party" ->
         CASE record.source.source = "registry" -> "verified_registry"
           [] record.source.source = "github" -> "user_selected"
           [] record.source.source = "local" -> "workspace_local"

\* Optional: a reference needs a repository and the path of a manifest.
package_source_reference_from_record(record) ==
  {[repository |-> repository, source_ref |-> record.source.source_ref, manifest_path |-> path,
    manifest_digest |-> {record.manifest_digest}, artifact_digests |-> {record.artifact_digest}] :
     repository \in record.source.repository, path \in record.source.manifest_path}

package_registry_search_state(publication) ==
  CASE publication.registry_submission = "not_submitted" ->
         IF publication.visibility \in {"private_remix", "unlisted_share"} THEN "complete"
         ELSE "requires_consent"
    [] publication.registry_submission = "awaiting_submission" -> "requires_consent"
    [] publication.registry_submission = "submitted" -> "in_progress"
    [] publication.registry_submission = "accepted" -> "complete"
    [] publication.registry_submission = "rejected" -> "blocked"

default_package_publication_actions == PackageGitHubPublicationAction \ {"fork_repository"}

package_publication_plan_from_record(record, publication) ==
  LET requires == publication.registry_submission # "not_submitted"
  IN [visibility |-> publication.visibility,
      source_class |-> package_source_class_from_record(record),
      source |-> package_source_reference_from_record(record),
      github_actions |-> IF requires THEN default_package_publication_actions
                         ELSE default_package_publication_actions \ {"submit_registry_metadata"},
      requires_registry_submission |-> requires,
      production_installable |-> publication.registry_submission = "accepted"]

\* The status of a package: its record, and the entries that block it.
package_authoring_flow_from_status(id, record, block, include_private_steps) ==
  LET plan == {package_publication_plan_from_record(record, p) : p \in record.source.publication}
      steps == [install |-> "complete", inspect |-> "complete",
                validate |-> IF block # {} \/ record.status = "blocked" THEN "blocked" ELSE "complete",
                remix |-> "available",
                publish |-> IF plan # {} THEN "complete" ELSE "available",
                registry_search |->
                  IF plan = {} THEN "available"
                  ELSE CHOOSE s \in PackageAuthoringStepState : \E p \in record.source.publication :
                         s = package_registry_search_state(p)]
      shown == IF include_private_steps THEN PackageAuthoringStage
               ELSE PackageAuthoringStage \ {"remix", "publish"}
  IN [package_id |-> id,
      source_class |-> package_source_class_from_record(record),
      source |-> package_source_reference_from_record(record),
      steps |-> [s \in shown |-> steps[s]],
      publication_plan |-> plan]

package_authoring_flow(r, id, include_private_steps) ==
  package_authoring_flow_from_status(
    id, [active_record(r, id) EXCEPT !.status = extension_status(r, id)],
    find_blocklist_hit(r, active_manifest(r, id)), include_private_steps)

mark_package_authoring_step(steps, stage, state) ==
  [s \in DOMAIN steps |-> IF s = stage THEN state ELSE steps[s]]

\* A preview for the source that the request selects; it stores nothing.
remix_package(r, id, source_class, source) ==
  LET flow == package_authoring_flow(r, id, TRUE)
      selected == IF source # {} THEN source ELSE flow.source
  IN [flow EXCEPT
        !.source_class = source_class, !.source = selected,
        !.publication_plan = {[p EXCEPT !.source_class = source_class, !.source = selected] : p \in @},
        !.steps = mark_package_authoring_step(
                    mark_package_authoring_step(@, "remix", "complete"), "publish", "available")]

-----------------------------------------------------------------------------
(* What the RPC layer lets through to the registry                         *)

\* Mutant: only a submission can carry a verdict.
VerdictsAccepted(m) == TRUE

reject_client_writable_registry_verdict(m) ==
  \A p \in m.provenance.publication : p.registry_submission \notin Verdicts

package_publication_visibility_requires_registry_submission(visibility) ==
  visibility \in {"public_searchable", "official"}

rpc_install_extension ==
  \E p \in {q \in Installable : reject_client_writable_registry_verdict(q[1])} :
    mutate_extension_registry_with_audit("install", {p[1].id}, {}, {},
                                         install(registry, p[1], p[2]))

rpc_update_extension ==
  \E p \in {q \in Installable : reject_client_writable_registry_verdict(q[1])} :
    mutate_extension_registry_with_audit("update", {p[1].id}, {}, {},
                                         install(registry, p[1], p[2]))

\* The publication that a request for a visibility persists.
PublicationIntent(visibility) ==
  [visibility |-> visibility,
   registry_submission |->
     IF package_publication_visibility_requires_registry_submission(visibility)
     THEN "awaiting_submission" ELSE "not_submitted"]

\* The request's requires_registry_submission must be what its visibility says.
PublicationAllowed(r, id, visibility, requires_registry_submission) ==
  /\ requires_registry_submission =
       package_publication_visibility_requires_registry_submission(visibility)
  /\ update_publication_ok(r, id, PublicationIntent(visibility))

prepare_package_publication ==
  \E q \in {p \in Id \X ExtensionPublicationVisibility \X BOOLEAN :
              PublicationAllowed(registry, p[1], p[2], p[3])} :
    mutate_extension_registry_with_audit("publication_update", {q[1]}, {}, {},
      update_publication(registry, q[1], PublicationIntent(q[2])))

SubmissionAllowed(r, id, state, identity) ==
  /\ state \notin Verdicts
  /\ update_registry_submission_ok(r, id, state, identity)

submit_package_registry_submission ==
  \E q \in {p \in Id \X Submissions :
              SubmissionAllowed(registry, p[1], p[2].submission, p[2].identity)} :
    mutate_extension_registry_with_audit("registry_submission_update", {q[1]}, {}, {},
      update_registry_submission(registry, q[1], q[2].submission, q[2].identity))

\* The requests that the RPC layer hands on as they are.
Forwarded ==
  \/ rollback_extension \/ disable_extension \/ enable_extension
  \/ remove_extension \/ apply_blocklist

-----------------------------------------------------------------------------
(* The audit trail, read in pages                                          *)

\* One record more than the page is read, to know whether there is a next one.
list_extension_registry_audit_records(trail, requested, start) ==
  LET limit == IF requested < MaxHistoryPage THEN requested ELSE MaxHistoryPage
      window == SubSeq(trail, start + 1,
                       IF start + limit + 1 < Len(trail) THEN start + limit + 1 ELSE Len(trail))
      has_next == Len(window) > limit
      records == IF has_next THEN SubSeq(window, 1, limit) ELSE window
  IN IF limit = 0 THEN [records |-> << >>, next_page_token |-> {}]
     ELSE [records |-> records,
           next_page_token |-> IF has_next THEN {start + Len(records)} ELSE {}]

\* The reader starts without a cursor and then sends each token that it gets.
ReadAuditPage ==
  /\ up /\ walk.next # {}
  /\ \E start \in walk.next :
       LET page == list_extension_registry_audit_records(registry.audit, walk.limit, start)
       IN walk' = [walk EXCEPT !.next = page.next_page_token, !.seen = @ \o page.records]
  /\ UNCHANGED vars

-----------------------------------------------------------------------------
RpcInit == Init /\ \E n \in Limits : walk = [limit |-> n, next |-> {0}, seen |-> << >>]

RpcNext ==
  \/ /\ \/ rpc_install_extension \/ rpc_update_extension
        \/ prepare_package_publication \/ submit_package_registry_submission
        \/ Forwarded
        \/ StoreCommit \/ Crash \/ Restart
     /\ UNCHANGED walk
  \/ ReadAuditPage

-----------------------------------------------------------------------------
(* Properties                                                              *)

\* No package is ever recorded, in memory or on disk, with a verdict of the
\* registry on its submission: each of the four requests that can write a
\* publication refuses one, and none makes one out of what was there
\* (reject_client_writable_registry_verdict, submit_package_registry_submission).
VerdictsNeedAuthority ==
  \A r \in {registry, stored, disk} : \A key \in DOMAIN r.records :
    \A p \in r.records[key].source.publication \cup r.manifests[key].provenance.publication :
      p.registry_submission \notin Verdicts

\* What package_authoring_flow answers once a draft is in place.
Refreshed(draft, id) == package_authoring_flow(draft, id, TRUE)

\* The flow that prepare_package_publication and
\* submit_package_registry_submission return, from the new record and without
\* asking the blocklist, is the one that a client reads right after.
AnswersShowTheRegistry ==
  up => \A id \in DOMAIN registry.active :
    LET Answer(draft) == package_authoring_flow_from_status(id, active_record(draft, id), {}, TRUE)
    IN /\ \A v \in ExtensionPublicationVisibility, b \in BOOLEAN :
            PublicationAllowed(registry, id, v, b) =>
              LET draft == update_publication(registry, id, PublicationIntent(v))
              IN Answer(draft) = Refreshed(draft, id)
       /\ \A s \in Submissions :
            SubmissionAllowed(registry, id, s.submission, s.identity) =>
              LET draft == update_registry_submission(registry, id, s.submission, s.identity)
              IN Answer(draft) = Refreshed(draft, id)

\* In every flow and every remix preview the registry step waits for the author
\* or for the registry exactly when the plan says that a submission is needed:
\* the step reads visibility and submission, the plan the submission alone.
StepsAgreeWithPlan ==
  \A id \in DOMAIN registry.active :
    \A flow \in {package_authoring_flow(registry, id, TRUE)}
                  \cup {remix_package(registry, id, c, {}) : c \in PackageSourceClass} :
      \A plan \in flow.publication_plan :
        /\ plan.requires_registry_submission <=>
             flow.steps["registry_search"] \in {"requires_consent", "in_progress"}
        /\ plan.source_class = flow.source_class

\* However far its submission has come, the author of a package that is not
\* blocked can make it private again: share it unlisted, take the submission
\* back, make it private (prepare keeps a submission that was sent in, so that
\* no single request does it).
AuthorsCanWithdraw ==
  up => \A id \in DOMAIN registry.active :
    ensure_not_blocked(registry, active_manifest(registry, id))
      /\ active_record(registry, id).source.publication # {} =>
      /\ PublicationAllowed(registry, id, "unlisted_share", FALSE)
      /\ LET unlisted == update_publication(registry, id, PublicationIntent("unlisted_share"))
             withdrawn == update_registry_submission(unlisted, id, "not_submitted", {})
         IN /\ SubmissionAllowed(unlisted, id, "not_submitted", {})
            /\ PublicationAllowed(withdrawn, id, "private_remix", FALSE)

\* A reader of the audit trail gets every record of it once and in order, while
\* the trail grows, writes fail and the daemon restarts between the pages.
AuditWalkIsFaithful ==
  /\ IsPrefix(walk.seen, registry.audit)
  /\ walk.next # {} => walk.next = {Len(walk.seen)}

\* What an author is told of a package is what the registry holds and allows, and no author
\* writes the registry's verdict: the properties above together.
AuthorsAreToldTheTruth ==
  /\ VerdictsNeedAuthority /\ AnswersShowTheRegistry /\ StepsAgreeWithPlan
  /\ AuthorsCanWithdraw /\ AuditWalkIsFaithful

=============================================================================
