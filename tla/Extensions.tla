----------------------------- MODULE Extensions -----------------------------
(***************************************************************************)
(* The package registry: ExtensionRegistry of                              *)
(* atelia-core/src/extensions.rs, and the SecretaryService of              *)
(* ateliad/src/service.rs, which drafts each change, appends its audit     *)
(* record, persists the draft through the store and only then installs it. *)
(*                                                                         *)
(* The service's mutex is held for the whole of a change, so that a change *)
(* is one step; what can come between are failed writes, commits of the    *)
(* rest of the store, crashes and restarts.  The maps of the source, keyed *)
(* by id and then by version, are functions on pairs.                      *)
(***************************************************************************)
EXTENDS Manifest, SequencesExt

CONSTANTS
  NoVersion,    \* no previous version
  Packages,     \* the manifests that clients submit
  Options,      \* the InstallOptions that they submit them with
  BlockKeys,    \* the blocklist entries that operators apply
  Publications, \* the publications that clients ask for
  Submissions,  \* the registry submissions, with an optional identity each
  MaxAudit,     \* changes of a behaviour
  Faults        \* whether writes fail and the daemon crashes

ExtensionInstallStatus == {"installed", "disabled", "installed_previous_version"}

ExtensionRegistryAuditKind ==
  {"install", "update", "rollback", "disable", "enable", "remove",
   "publication_update", "registry_submission_update", "blocklist_apply"}

VARIABLES
  registry,  \* the registry in the service
  stored,    \* extension_registry_snapshot of the store, in memory
  disk,      \* the one in the durable snapshot
  up         \* whether the daemon runs

vars == <<registry, stored, disk, up>>

EmptyRegistry ==
  [manifests |-> << >>, records |-> << >>, active |-> << >>, blocklist |-> {}, audit |-> << >>]

\* The map f with the value v at k.
Insert(f, k, v) == [x \in DOMAIN f \cup {k} |-> IF x = k THEN v ELSE f[x]]

-----------------------------------------------------------------------------
(* Lookups                                                                 *)

Installed(r, id) == id \in DOMAIN r.active /\ <<id, r.active[id]>> \in DOMAIN r.records

active_record(r, id) == r.records[<<id, r.active[id]>>]

active_manifest(r, id) == r.manifests[<<id, r.active[id]>>]

matches_manifest(entry, m) ==
  CASE entry.kind = "extension_id" -> m.id = entry.id
    [] entry.kind = "version" -> m.id = entry.id /\ m.version = entry.version
    [] entry.kind = "artifact_digest" -> m.provenance.artifact_digest = entry.digest
    [] entry.kind = "signer" -> \E s \in m.provenance.signer : trim(s) = trim(entry.signer)
    [] entry.kind = "publisher" -> trim(m.publisher) = trim(entry.publisher)
    [] entry.kind = "source_repository" ->
         \E s \in m.provenance.repository : trim(s) = trim(entry.repository)
    [] entry.kind = "permission_pattern" -> entry.pattern \cap DOMAIN m.permissions # {}
    [] entry.kind = "vulnerability_id" -> FALSE

find_blocklist_hit(r, m) == {entry \in r.blocklist : matches_manifest(entry, m)}

ensure_not_blocked(r, m) == find_blocklist_hit(r, m) = {}

from_provenance(p) ==
  [source |-> p.source,
   repository |-> trim_optional_string(p.repository),
   source_ref |-> trim_optional_string(p.source_ref),
   manifest_path |-> trim_optional_string(p.manifest_path),
   commit |-> p.commit,
   registry_identity |-> trim_optional_string(p.registry_identity),
   lineage |-> p.lineage,
   publication |-> p.publication]

\* Neither the commit nor the publication is part of the authority.
matches_authority(s, t) ==
  /\ s.source = t.source /\ s.lineage = t.lineage
  /\ s.repository = t.repository /\ s.source_ref = t.source_ref
  /\ s.manifest_path = t.manifest_path /\ s.registry_identity = t.registry_identity

\* The versions that follow those of T along previous_version.
PreviousVersions(r, id, T) ==
  {r.records[<<id, w>>].previous_version : w \in {x \in T : <<id, x>> \in DOMAIN r.records}}
    \ {NoVersion}

\* The versions that a walk along previous_version from v visits: a step for each version
\* that there is comes to all of them.
Visited(r, id, v) == FoldSet(LAMBDA w, T : T \cup PreviousVersions(r, id, T), {v}, Semver)

-----------------------------------------------------------------------------
(* install, which update also calls                                        *)

InstallPolicy(o) ==
  [allow_local_unsigned |-> o.approve_local_unsigned \/ DefaultPolicy.allow_local_unsigned,
   allow_local_process_runtime |->
     o.allow_local_process_runtime \/ DefaultPolicy.allow_local_process_runtime]

ensure_same_version_digest_is_stable(r, m) ==
  <<m.id, m.version>> \in DOMAIN r.records =>
    /\ r.records[<<m.id, m.version>>].manifest_digest = m.provenance.manifest_digest
    /\ r.records[<<m.id, m.version>>].artifact_digest = m.provenance.artifact_digest

ensure_source_change_is_approved(r, m, o) ==
  Installed(r, m.id) =>
    \/ matches_authority(active_record(r, m.id).source, from_provenance(m.provenance))
    \/ o.approve_source_change

run_validation_checks(r, m, o) ==
  /\ validate_manifest(m, InstallPolicy(o))
  /\ ensure_not_blocked(r, m)
  /\ ensure_same_version_digest_is_stable(r, m)
  /\ ensure_source_change_is_approved(r, m, o)

install_would_create_rollback_cycle(r, id, version) ==
  id \in DOMAIN r.active /\ version \in Visited(r, id, r.active[id])

\* Mutant: only a return to the previous version is refused.
InstallPreviousOnly(r, m, o) ==
  /\ run_validation_checks(r, m, o)
  /\ ~(/\ <<m.id, m.version>> \in DOMAIN r.records
       /\ Installed(r, m.id) /\ active_record(r, m.id).previous_version = m.version)

install_ok(r, m, o) ==
  /\ run_validation_checks(r, m, o)
  /\ ~(/\ <<m.id, m.version>> \in DOMAIN r.records
       /\ m.id \in DOMAIN r.active /\ r.active[m.id] # m.version
       /\ install_would_create_rollback_cycle(r, m.id, m.version))

PreviousVersion(r, m) ==
  IF m.id \notin DOMAIN r.active THEN NoVersion
  ELSE IF r.active[m.id] # m.version THEN r.active[m.id]
  ELSE IF Installed(r, m.id) THEN active_record(r, m.id).previous_version ELSE NoVersion

ExtensionInstallRecord(r, m, o) ==
  [manifest_digest |-> m.provenance.manifest_digest,
   artifact_digest |-> m.provenance.artifact_digest,
   source |-> from_provenance(m.provenance),
   boundary |-> classify_boundary(m),
   status |-> "installed",
   previous_version |-> PreviousVersion(r, m),
   approved_permissions |-> DOMAIN m.permissions,
   approved_local_unsigned |-> InstallPolicy(o).allow_local_unsigned,
   approved_local_process_runtime |-> InstallPolicy(o).allow_local_process_runtime]

install(r, m, o) ==
  [r EXCEPT !.manifests = Insert(@, <<m.id, m.version>>, m),
            !.records = Insert(@, <<m.id, m.version>>, ExtensionInstallRecord(r, m, o)),
            !.active = Insert(@, m.id, m.version)]

-----------------------------------------------------------------------------
(* rollback, disable, enable, remove, add_blocklist_entry                  *)

RollbackKey(r, id) == <<id, active_record(r, id).previous_version>>

rollback_ok(r, id) ==
  /\ Installed(r, id)
  /\ RollbackKey(r, id) \in DOMAIN r.manifests /\ RollbackKey(r, id) \in DOMAIN r.records
  /\ ensure_not_blocked(r, r.manifests[RollbackKey(r, id)])

\* The record keeps the previous version that it was installed with.
rollback(r, id) ==
  [r EXCEPT !.active[id] = active_record(r, id).previous_version,
            !.records[RollbackKey(r, id)].status = "installed_previous_version"]

disable_ok(r, id) == Installed(r, id)

disable(r, id) == [r EXCEPT !.records[<<id, r.active[id]>>].status = "disabled"]

enable_ok(r, id) ==
  /\ Installed(r, id) /\ <<id, r.active[id]>> \in DOMAIN r.manifests
  /\ ensure_not_blocked(r, active_manifest(r, id))

enable(r, id) == [r EXCEPT !.records[<<id, r.active[id]>>].status = "installed"]

remove_ok(r, id) == Installed(r, id)

\* The records and manifests of a removed package stay.
remove(r, id) ==
  [r EXCEPT !.active = [i \in DOMAIN r.active \ {id} |-> r.active[i]],
            !.records[<<id, r.active[id]>>].status = "disabled"]

add_blocklist_entry_ok(entry) == entry.kind # "vulnerability_id"

add_blocklist_entry(r, entry) == [r EXCEPT !.blocklist = @ \cup {entry}]

-----------------------------------------------------------------------------
(* update_publication and update_registry_submission                       *)

with_record_approvals(policy, record) ==
  [allow_local_unsigned |-> policy.allow_local_unsigned \/ record.approved_local_unsigned,
   allow_local_process_runtime |->
     policy.allow_local_process_runtime \/ record.approved_local_process_runtime]

\* Mutant: the manifest was validated when it was installed.
RevalidatesBlocklist(r, id, m) == ensure_not_blocked(r, m)

\* What update_publication and update_registry_submission ask of the new manifest.
Revalidates(r, id, m) ==
  /\ validate_manifest(m, with_record_approvals(DefaultPolicy, active_record(r, id)))
  /\ ensure_not_blocked(r, m)

\* What the registry has said about a submission cannot be changed by its author.
EffectivePublication(r, id, publication) ==
  LET decided == {p \in active_record(r, id).source.publication :
                    p.registry_submission \in {"submitted", "accepted", "rejected"}}
  IN IF decided = {} THEN publication
     ELSE [publication EXCEPT !.registry_submission =
             (CHOOSE p \in decided : TRUE).registry_submission]

Published(r, id, publication) ==
  [active_manifest(r, id) EXCEPT
     !.provenance.publication = {EffectivePublication(r, id, publication)}]

update_publication_ok(r, id, publication) ==
  Installed(r, id) /\ Revalidates(r, id, Published(r, id, publication))

update_publication(r, id, publication) ==
  LET key == <<id, r.active[id]>>
      new == Published(r, id, publication).provenance.publication
  IN [r EXCEPT !.manifests[key].provenance.publication = new,
               !.records[key].source.publication = new]

Submitted(r, id, submission, identity) ==
  LET m == active_manifest(r, id)
      known == trim_optional_string(m.provenance.registry_identity)
  IN [m EXCEPT
        !.provenance.registry_identity = IF known = {} THEN trim_optional_string(identity) ELSE @,
        !.provenance.publication =
          {[p EXCEPT !.registry_submission = submission] :
             p \in active_record(r, id).source.publication}]

update_registry_submission_ok(r, id, submission, identity) ==
  /\ Installed(r, id)
  /\ active_record(r, id).source.publication # {}
  /\ LET known == trim_optional_string(active_manifest(r, id).provenance.registry_identity)
         given == trim_optional_string(identity)
     IN known = {} \/ given = {} \/ known = given
  /\ Revalidates(r, id, Submitted(r, id, submission, identity))

update_registry_submission(r, id, submission, identity) ==
  LET key == <<id, r.active[id]>>
      m == Submitted(r, id, submission, identity)
  IN [r EXCEPT
        !.manifests[key].provenance.registry_identity =
          trim_optional_string(m.provenance.registry_identity),
        !.manifests[key].provenance.publication = m.provenance.publication,
        !.records[key].source = from_provenance(m.provenance)]

-----------------------------------------------------------------------------
(* Audit records, and what a snapshot must satisfy to be loaded            *)

ExtensionRegistryAuditRecordRef(r, key) ==
  [package_id |-> key[1], version |-> key[2],
   manifest_digest |-> r.records[key].manifest_digest,
   artifact_digest |-> r.records[key].artifact_digest,
   status |-> r.records[key].status]

ExtensionRegistryAuditProvenance(source) ==
  [source |-> source.source, repository |-> source.repository,
   source_ref |-> source.source_ref, manifest_path |-> source.manifest_path,
   commit |-> source.commit, registry_identity |-> source.registry_identity]

\* The record that an audit of package_id, or of its record_version, refers to.
AuditedKeys(r, package_id, record_version) ==
  {<<id, v>> \in DOMAIN r.records :
     /\ id \in package_id
     /\ IF record_version # {} THEN v \in record_version
        ELSE id \in DOMAIN r.active /\ v = r.active[id]}

\* entry, package_id and record_version are optional: sets of at most one element.
extension_registry_audit_record(kind, package_id, record_version, entry, before, after) ==
  LET old == AuditedKeys(before, package_id, record_version)
      new == AuditedKeys(after, package_id, record_version)
  IN [kind |-> kind, package_id |-> package_id, blocklist_entry |-> entry,
      previous_record |-> {ExtensionRegistryAuditRecordRef(before, k) : k \in old},
      new_record |-> {ExtensionRegistryAuditRecordRef(after, k) : k \in new},
      provenance |->
        IF new # {} THEN {ExtensionRegistryAuditProvenance(after.records[k].source) : k \in new}
        ELSE {ExtensionRegistryAuditProvenance(before.records[k].source) : k \in old}]

validate_audit_optional_trimmed(value) == \A t \in value : ~t.pad /\ t.word # ""

validate_extension_registry_audit_provenance(p) ==
  /\ \A value \in {p.repository, p.source_ref, p.manifest_path, p.commit, p.registry_identity} :
       validate_audit_optional_trimmed(value)
  /\ p.source = "github" =>
       {} \notin {p.repository, p.source_ref, p.manifest_path, p.commit}
  /\ p.source = "registry" => p.registry_identity # {}

validate_blocklist_audit_payload(a) ==
  \E entry \in a.blocklist_entry :
    IF entry.kind \in {"extension_id", "version"}
    THEN /\ a.package_id = {entry.id}
         /\ \A ref \in a.previous_record \cup a.new_record :
              /\ ref.package_id = entry.id
              /\ entry.kind = "version" => ref.version = entry.version
    ELSE /\ entry.kind # "vulnerability_id"
         /\ a.package_id = {} /\ a.previous_record = {} /\ a.new_record = {}
         /\ a.provenance = {}

validate_extension_registry_audit_kind_payload(a) ==
  IF a.kind = "blocklist_apply" THEN validate_blocklist_audit_payload(a)
  ELSE /\ a.package_id # {} /\ a.provenance # {}
       /\ a.kind # "install" => a.previous_record # {}
       /\ a.kind # "remove" => a.new_record # {}

\* The reason and the request source always have a text, and the id is fresh.
validate_extension_registry_audit_record(a) ==
  /\ \A id \in a.package_id : require_reverse_dns_id(id)
  /\ \A ref \in a.previous_record \cup a.new_record :
       /\ require_reverse_dns_id(ref.package_id) /\ require_semver(ref.version)
       /\ require_digest(ref.manifest_digest) /\ require_digest(ref.artifact_digest)
  /\ \A p \in a.provenance : validate_extension_registry_audit_provenance(p)
  /\ validate_extension_registry_audit_kind_payload(a)

validate_audit_record_target(ref, records, enforce_current_status) ==
  LET key == <<ref.package_id, ref.version>>
  IN /\ key \in DOMAIN records
     /\ records[key].manifest_digest = ref.manifest_digest
     /\ records[key].artifact_digest = ref.artifact_digest
     /\ enforce_current_status => records[key].status = ref.status

validate_extension_registry_audit_targets(a, records, enforce_current_status) ==
  /\ \A id \in a.package_id : \A ref \in a.previous_record \cup a.new_record :
       ref.package_id = id
  /\ \A ref \in a.previous_record : validate_audit_record_target(ref, records, FALSE)
  /\ \A ref \in a.new_record :
       validate_audit_record_target(ref, records, enforce_current_status)

append_audit_record_ok(r, a) ==
  /\ validate_extension_registry_audit_record(a)
  /\ validate_extension_registry_audit_targets(a, r.records, TRUE)

\* A walk along previous_version that meets no end comes back to where it was.
detect_rollback_cycle(r, id, v) ==
  \A u \in Visited(r, id, v) :
    <<id, u>> \in DOMAIN r.records /\ r.records[<<id, u>>].previous_version # NoVersion

validate_extension_registry_snapshot(r) ==
  /\ \A i \in 1 .. Len(r.audit) : validate_extension_registry_audit_record(r.audit[i])
  /\ DOMAIN r.manifests = DOMAIN r.records
  /\ \A key \in DOMAIN r.records :
       LET record == r.records[key]
           m == r.manifests[key]
       IN /\ record.previous_version # key[2]
          /\ record.previous_version # NoVersion =>
               <<key[1], record.previous_version>> \in DOMAIN r.records
          /\ ~detect_rollback_cycle(r, key[1], key[2])
          /\ key = <<m.id, m.version>>
          /\ m.provenance.artifact_digest = record.artifact_digest
          /\ m.provenance.manifest_digest = record.manifest_digest
          /\ record.source = from_provenance(m.provenance)
  /\ \A id \in DOMAIN r.active : <<id, r.active[id]>> \in DOMAIN r.records
  /\ \A entry \in r.blocklist : entry.kind # "vulnerability_id"
  /\ \A i \in 1 .. Len(r.audit) :
       validate_extension_registry_audit_targets(r.audit[i], r.records, FALSE)

validate_extension_registry_snapshot_manifests(r, policy) ==
  \A key \in DOMAIN r.records :
    /\ validate_manifest(r.manifests[key], with_record_approvals(policy, r.records[key]))
    /\ classify_boundary(r.manifests[key]) = r.records[key].boundary

validate_with_policy(r, policy) ==
  validate_extension_registry_snapshot(r) /\ validate_extension_registry_snapshot_manifests(r, policy)

repair_loaded_extension_registry_snapshot(r) ==
  [r EXCEPT !.records = [key \in DOMAIN r.records |->
     [r.records[key] EXCEPT !.previous_version = IF @ = key[2] THEN NoVersion ELSE @]]]

-----------------------------------------------------------------------------
(* What clients read                                                       *)

extension_status(r, id) ==
  IF ensure_not_blocked(r, active_manifest(r, id)) THEN active_record(r, id).status ELSE "blocked"

list_extensions(r, include_blocked) ==
  {id \in DOMAIN r.active : include_blocked \/ extension_status(r, id) # "blocked"}

\* rollback_available of the response.
package_inspect(r, id) ==
  LET previous == active_record(r, id).previous_version
  IN <<id, previous>> \in DOMAIN r.manifests /\ ensure_not_blocked(r, r.manifests[<<id, previous>>])

list_package_trust_index(r, include_blocked, discovery_only) ==
  {id \in list_extensions(r, include_blocked) :
     discovery_only =>
       /\ active_record(r, id).boundary # "local_development"
       /\ extension_status(r, id) # "blocked"
       /\ \E p \in active_record(r, id).source.publication :
            p.visibility = "public_searchable" /\ p.registry_submission = "accepted"}

ensure_active_record_enabled(r, id) ==
  Installed(r, id) /\ active_record(r, id).status \in {"installed", "installed_previous_version"}

\* A call of the service that `dependency', one of what the caller consumes,
\* declares, with the permission required_permission if there is one.
authorize_service_call(r, caller, dependency, required_permission) ==
  LET callee == dependency.extension_id
      offers == {i \in DOMAIN active_manifest(r, callee).services.provides :
                   service_key(active_manifest(r, callee).services.provides[i])
                     = service_key(dependency)}
      provide == active_manifest(r, callee).services.provides[
                   CHOOSE i \in offers : \A j \in offers : i <= j]
      permission == IF required_permission = {} THEN provide.required_permission
                    ELSE CHOOSE p \in required_permission : TRUE
  IN /\ ensure_active_record_enabled(r, caller) /\ ensure_active_record_enabled(r, callee)
     /\ ensure_not_blocked(r, active_manifest(r, caller))
     /\ ensure_not_blocked(r, active_manifest(r, callee))
     /\ offers # {}
     /\ dependency.required_permission = permission /\ provide.required_permission = permission
     /\ permission \in DOMAIN active_manifest(r, caller).permissions
     /\ permission \in DOMAIN active_manifest(r, callee).permissions
     /\ active_manifest(r, caller).permissions[permission]
          = active_manifest(r, callee).permissions[permission]

-----------------------------------------------------------------------------
(* The service                                                             *)

\* The draft with its audit record.
Audited(kind, package_id, record_version, entry, draft) ==
  [draft EXCEPT !.audit = Append(@, extension_registry_audit_record(
     kind, package_id, record_version, entry, registry, draft))]

\* Whether the draft can be audited and persisted.
Persists(kind, package_id, record_version, entry, draft) ==
  \E after \in {Audited(kind, package_id, record_version, entry, draft)} :
    /\ append_audit_record_ok(draft, Last(after.audit))
    /\ validate_with_policy(after, DefaultPolicy)

\* Whether a change to the draft commits, faults aside.
Commits(kind, package_id, record_version, entry, draft) ==
  /\ validate_with_policy(registry, DefaultPolicy)
  /\ Persists(kind, package_id, record_version, entry, draft)

\* The audited draft, if it commits.
Committed(kind, package_id, record_version, entry, draft) ==
  {after \in {Audited(kind, package_id, record_version, entry, draft)} :
     Commits(kind, package_id, record_version, entry, draft)}

\* Mutant: the draft takes effect before it is persisted, and stays when the
\* write fails.
InstalledBeforePersisted(kind, package_id, record_version, entry, draft) ==
  /\ up /\ Len(registry.audit) < MaxAudit
  /\ \E after \in Committed(kind, package_id, record_version, entry, draft) :
       /\ registry' = after
       /\ \/ stored' = after /\ disk' = after
          \/ Faults /\ UNCHANGED <<stored, disk>>
  /\ UNCHANGED up

\* A write that fails before the snapshot is renamed changes nothing; one that
\* fails after it leaves the draft on disk alone.
mutate_extension_registry_with_audit(kind, package_id, record_version, entry, draft) ==
  /\ up /\ Len(registry.audit) < MaxAudit
  /\ \E after \in Committed(kind, package_id, record_version, entry, draft) :
       /\ disk' = after
       /\ \/ registry' = after /\ stored' = after
          \/ Faults /\ UNCHANGED <<registry, stored>>
  /\ UNCHANGED up

Installable == {p \in Packages \X Options : install_ok(registry, p[1], p[2])}

install_extension ==
  \E p \in Installable :
    mutate_extension_registry_with_audit("install", {p[1].id}, {}, {},
                                         install(registry, p[1], p[2]))

update_extension ==
  \E p \in Installable :
    mutate_extension_registry_with_audit("update", {p[1].id}, {}, {},
                                         install(registry, p[1], p[2]))

rollback_extension ==
  \E id \in {i \in Id : rollback_ok(registry, i)} :
    mutate_extension_registry_with_audit("rollback", {id}, {}, {}, rollback(registry, id))

disable_extension ==
  \E id \in {i \in Id : disable_ok(registry, i)} :
    mutate_extension_registry_with_audit("disable", {id}, {}, {}, disable(registry, id))

enable_extension ==
  \E id \in {i \in Id : enable_ok(registry, i)} :
    mutate_extension_registry_with_audit("enable", {id}, {}, {}, enable(registry, id))

remove_extension ==
  \E id \in {i \in Id : remove_ok(registry, i)} :
    mutate_extension_registry_with_audit("remove", {id}, {}, {}, remove(registry, id))

update_extension_publication ==
  \E p \in {q \in Id \X Publications : update_publication_ok(registry, q[1], q[2])} :
    mutate_extension_registry_with_audit("publication_update", {p[1]}, {}, {},
                                         update_publication(registry, p[1], p[2]))

update_extension_registry_submission ==
  \E p \in {q \in Id \X Submissions :
               update_registry_submission_ok(registry, q[1], q[2].submission, q[2].identity)} :
    mutate_extension_registry_with_audit("registry_submission_update", {p[1]}, {}, {},
      update_registry_submission(registry, p[1], p[2].submission, p[2].identity))

BlockedPackage(entry) == IF entry.kind \in {"extension_id", "version"} THEN {entry.id} ELSE {}

BlockedVersion(entry) == IF entry.kind = "version" THEN {entry.version} ELSE {}

apply_blocklist ==
  \E entry \in {e \in BlockKeys : add_blocklist_entry_ok(e)} :
    mutate_extension_registry_with_audit("blocklist_apply", BlockedPackage(entry),
      BlockedVersion(entry), {entry}, add_blocklist_entry(registry, entry))

\* A change of another part of the store persists the registry that it holds.
StoreCommit == up /\ disk' = stored /\ UNCHANGED <<registry, stored, up>>

Crash == Faults /\ up /\ up' = FALSE /\ UNCHANGED <<registry, stored, disk>>

\* with_durable_snapshot_path and from_store: a snapshot that does not validate
\* is not loaded.
Restart ==
  /\ ~up /\ up' = TRUE
  /\ \E loaded \in {r \in {repair_loaded_extension_registry_snapshot(disk)} :
                       validate_with_policy(r, DefaultPolicy)} :
       disk' = loaded /\ stored' = loaded /\ registry' = loaded

Init == /\ registry = EmptyRegistry /\ stored = EmptyRegistry /\ disk = EmptyRegistry
        /\ up = TRUE

Next ==
  \/ install_extension \/ update_extension \/ rollback_extension
  \/ disable_extension \/ enable_extension \/ remove_extension
  \/ update_extension_publication \/ update_extension_registry_submission
  \/ apply_blocklist
  \/ StoreCommit \/ Crash \/ Restart

Spec == Init /\ [][Next]_vars

-----------------------------------------------------------------------------
(* Properties                                                              *)

RegistryTypeOK(r) ==
  /\ DOMAIN r.records \subseteq Id \X Semver /\ DOMAIN r.manifests = DOMAIN r.records
  /\ \A key \in DOMAIN r.records :
       /\ r.records[key].previous_version \in Semver \cup {NoVersion}
       /\ r.records[key].status \in ExtensionInstallStatus
       /\ r.records[key].boundary \in ExtensionBoundary
  /\ DOMAIN r.active \subseteq Id
  /\ \A id \in DOMAIN r.active : <<id, r.active[id]>> \in DOMAIN r.records
  /\ \A i \in 1 .. Len(r.audit) : r.audit[i].kind \in ExtensionRegistryAuditKind

\* Each copy of the registry has a manifest for every record and a record for
\* every active version.
TypeOK == up \in BOOLEAN /\ \A r \in {registry, stored, disk} : RegistryTypeOK(r)

\* No nonempty set of versions leads back into itself along previous_version.
ChainsEnd(r) ==
  \A id \in {key[1] : key \in DOMAIN r.records}, S \in SUBSET Semver :
    (\A v \in S : <<id, v>> \in DOMAIN r.records /\ r.records[<<id, v>>].previous_version \in S)
    => S = {}

\* A walk along previous_version from any record comes to an end, whatever
\* versions were installed, removed, rolled back and installed again, and also
\* after an install that is accepted now (install_would_create_rollback_cycle).
RollbackChainsEnd ==
  ChainsEnd(registry) /\ \A p \in Installable : ChainsEnd(install(registry, p[1], p[2]))

\* A change that the registry accepts is refused by the audit record or the snapshot
\* validation that come after it (mutate_extension_registry_with_audit) in exactly three
\* cases: the manifest's commit is blank or has white space around it, which the manifest
\* validation lets pass; an update is of a package that is not installed, for which the
\* audit wants a previous record; a blocklist entry names a malformed package id.  Every
\* other accepted change commits.
AcceptedChangesCommit ==
  up =>
    /\ validate_with_policy(registry, DefaultPolicy)
    /\ \A p \in Installable : \A draft \in {install(registry, p[1], p[2])} :
         LET plain == validate_audit_optional_trimmed(p[1].provenance.commit)
         IN /\ Persists("install", {p[1].id}, {}, {}, draft) = plain
            /\ Persists("update", {p[1].id}, {}, {}, draft) = (plain /\ Installed(registry, p[1].id))
    /\ \A e \in {b \in BlockKeys : add_blocklist_entry_ok(b)} :
         Persists("blocklist_apply", BlockedPackage(e), BlockedVersion(e), {e},
                  add_blocklist_entry(registry, e))
           = \A id \in BlockedPackage(e) : require_reverse_dns_id(id)
    /\ \A id \in DOMAIN registry.active :
         /\ rollback_ok(registry, id) =>
              Persists("rollback", {id}, {}, {}, rollback(registry, id))
         /\ Persists("disable", {id}, {}, {}, disable(registry, id))
         /\ enable_ok(registry, id) => Persists("enable", {id}, {}, {}, enable(registry, id))
         /\ Persists("remove", {id}, {}, {}, remove(registry, id))
         /\ \A p \in Publications : update_publication_ok(registry, id, p) =>
              Persists("publication_update", {id}, {}, {}, update_publication(registry, id, p))
         /\ \A s \in Submissions :
              update_registry_submission_ok(registry, id, s.submission, s.identity) =>
                Persists("registry_submission_update", {id}, {}, {},
                         update_registry_submission(registry, id, s.submission, s.identity))

\* The last audit record of a package, blocklist entries aside, names the record
\* that is active and its status, or none once the package is removed.
AuditTellsActive ==
  \A id \in Id :
    LET of == {i \in 1 .. Len(registry.audit) :
                 registry.audit[i].package_id = {id} /\ registry.audit[i].kind # "blocklist_apply"}
        last == registry.audit[CHOOSE i \in of : \A j \in of : j <= i]
    IN IF of = {} THEN id \notin DOMAIN registry.active
       ELSE last.new_record =
              {ExtensionRegistryAuditRecordRef(registry, key) : key \in AuditedKeys(registry, {id}, {})}

\* package_inspect offers a rollback exactly when rollback_extension would be made.
RollbackOffered ==
  up => \A id \in DOMAIN registry.active :
    package_inspect(registry, id) <=>
      /\ rollback_ok(registry, id)
      /\ Commits("rollback", {id}, {}, {}, rollback(registry, id))

\* What list_package_trust_index shows for discovery came from outside, is not
\* blocked and belongs to an identified registry, however publication and
\* submission were updated.
DiscoveryIsBacked ==
  \A id \in list_package_trust_index(registry, TRUE, TRUE) :
    /\ active_manifest(registry, id).provenance.source # "local"
    /\ ensure_not_blocked(registry, active_manifest(registry, id))
    /\ has_non_empty_trimmed(active_manifest(registry, id).provenance.registry_identity)

\* What is active is signed, runs in wasm and has its webhooks verified, unless it
\* is local and was approved as such; and every permission that its tools and
\* services need was approved (validate_manifest, and the updates after it).
ActiveIsTrusted ==
  \A id \in DOMAIN registry.active :
    LET m == active_manifest(registry, id)
        record == active_record(registry, id)
        local == record.boundary = "local_development"
        Ran(seq) == {seq[i] : i \in DOMAIN seq}
    IN /\ {} \in {m.provenance.signature, m.provenance.signer} =>
            local /\ record.approved_local_unsigned
       /\ m.entrypoints.runtime = "process" => local /\ record.approved_local_process_runtime
       /\ \A h \in Ran(m.hooks) \cup Ran(m.webhooks) :
            (\E v \in h.verification : v.word = "none_for_local_only") => local
       /\ UNION {t.permissions : t \in Ran(m.tools)}
            \cup {s.required_permission : s \in Ran(m.services.provides) \cup Ran(m.services.consumes)}
            \subseteq record.approved_permissions

\* A service call is only authorized between enabled packages, with a permission
\* that was approved when each was installed (authorize_service_call reads the
\* manifests, not the approvals of the records).
GrantsAreApproved ==
  \A caller \in DOMAIN registry.active :
    LET consumes == active_manifest(registry, caller).services.consumes IN
    \A i \in DOMAIN consumes :
      authorize_service_call(registry, caller, consumes[i], {}) =>
        \A id \in {caller, consumes[i].extension_id} :
          /\ consumes[i].required_permission \in active_record(registry, id).approved_permissions
          /\ extension_status(registry, id) \in {"installed", "installed_previous_version"}

\* The audit trail that the service holds is never shortened or rewritten, by a
\* failed write, a crash or a restart (mutate_extension_registry_with_audit).
AuditOnlyGrows == [][IsPrefix(registry.audit, registry'.audit)]_vars

\* A version that was ever recorded keeps its digests: reinstalling it with other
\* ones is refused even after a removal or a restart
\* (ensure_same_version_digest_is_stable).
DigestsArePinned ==
  [][\A key \in DOMAIN registry.records :
       /\ key \in DOMAIN registry'.records
       /\ registry'.records[key].manifest_digest = registry.records[key].manifest_digest
       /\ registry'.records[key].artifact_digest = registry.records[key].artifact_digest]_vars

Enabled(r, id) == id \in DOMAIN r.active /\ active_record(r, id).status # "disabled"

\* No step enables or activates a version that the blocklist matches
\* (install, rollback and enable each ask ensure_not_blocked).
BlocklistWins ==
  [][\A id \in Id :
       Enabled(registry', id) /\ ~ensure_not_blocked(registry', active_manifest(registry', id))
       => Enabled(registry, id) /\ registry.active[id] = registry'.active[id]]_vars

\* What is active, listed or granted was accepted as such and is not blocked, the digests of
\* a version never change, and every rollback chain ends: the properties above together.
RegistryIsSafe ==
  /\ [](RollbackChainsEnd /\ DiscoveryIsBacked /\ ActiveIsTrusted /\ GrantsAreApproved)
  /\ DigestsArePinned /\ BlocklistWins

\* The audit trail is kept and tells what is active, and package_inspect tells whether it
\* can be rolled back: the properties above together.
RegistryTellsItsState == [](AuditTellsActive /\ RollbackOffered) /\ AuditOnlyGrows

=============================================================================
