------------------------------ MODULE Manifest ------------------------------
(***************************************************************************)
(* Package manifests and their validation: the first half of               *)
(* atelia-core/src/extensions.rs.  Every validate_* function of the source *)
(* is an operator that says whether it returns Ok; all of its errors reach *)
(* the caller as one RegistryError::Validation, so which one comes first   *)
(* makes no difference.                                                    *)
(*                                                                         *)
(* A string is [word, pad]: what trim leaves of it, and whether trim takes *)
(* anything away.  An Option is a set of at most one element.  Dotted ids, *)
(* versions, digests and permission names are values of sets that hold the *)
(* well-formed ones; any other value is malformed.                         *)
(***************************************************************************)
EXTENDS Naturals, Sequences, FiniteSets

CONSTANTS
  OfficialId,     \* ids under official_id_prefix
  LocalId,        \* ids under local_id_prefix
  OtherId,        \* the other well-formed ids
  Semver,         \* well-formed versions
  Digest,         \* well-formed digests
  PermissionName  \* well-formed permission names

Id == OfficialId \cup LocalId \cup OtherId

-----------------------------------------------------------------------------
(* Strings                                                                 *)

Spaced == {"a b"}   \* words with white space inside

trim(t) == [t EXCEPT !.pad = FALSE]

trim_optional_string(o) == {trim(t) : t \in {u \in o : u.word # ""}}

require_non_empty(t) == t.word # ""

require_trimmed_non_empty(t) == t.word # "" /\ ~t.pad

has_non_empty_trimmed(o) == \E t \in o : t.word # ""

NoWhitespace(t) == ~t.pad /\ t.word \notin Spaced

validate_required_string(o) == \E t \in o : require_non_empty(t) /\ NoWhitespace(t)

validate_optional_choice(o, allowed) ==
  \A t \in o : require_non_empty(t) /\ NoWhitespace(t) /\ t.word \in allowed

validate_string_list(ts) == \A i \in DOMAIN ts : require_non_empty(ts[i]) /\ NoWhitespace(ts[i])

require_reverse_dns_id(id) == id \in Id

require_semver(v) == v \in Semver

require_digest(d) == d \in Digest

require_permission_name(p) == p \in PermissionName

\* No two elements of a list have the same key.
Distinct(s, Key(_)) == \A i, j \in DOMAIN s : i < j => Key(s[i]) # Key(s[j])

-----------------------------------------------------------------------------
(* ManifestValidationPolicy; the prefixes are the sets of ids above        *)

DefaultPolicy == [allow_local_unsigned |-> FALSE, allow_local_process_runtime |-> FALSE]

OfficialRegistry == [word |-> "atelia-official", pad |-> FALSE]

-----------------------------------------------------------------------------
(* The shape of a manifest: what serde accepts, validation aside.  Fields   *)
(* that nothing reads (publisher url, image, failure, bundle, notes, the    *)
(* `include' switches, `required') are left out.                            *)

ExtensionKind ==
  {"tool", "service", "hook_provider", "webhook_receiver", "tool_output_customizer", "workflow",
   "notification", "approval_agent", "review", "review_agent", "agent_provider", "delegated_agent",
   "memory_provider", "memory_strategy", "integration", "presentation"}

ExtensionRealm == {"backend", "client"}

ExtensionRuntime == {"wasm-rust", "wasm", "docker", "process", "remote", "swift-client"}

ExtensionLineageRelationship == {"remix", "fork", "derived"}

ExtensionPublicationVisibility == {"private_remix", "unlisted_share", "public_searchable", "official"}

ExtensionRegistrySubmission ==
  {"not_submitted", "awaiting_submission", "submitted", "accepted", "rejected"}

ExtensionPublication ==
  [visibility : ExtensionPublicationVisibility, registry_submission : ExtensionRegistrySubmission]

ProvenanceSource == {"github", "registry", "local"}

ExtensionBoundary == {"official", "third_party", "local_development"}

IsProvenance(p) ==
  /\ DOMAIN p = {"source", "repository", "source_ref", "manifest_path", "commit",
                 "registry_identity", "lineage", "publication", "artifact_digest",
                 "manifest_digest", "signature", "signer"}
  /\ p.source \in ProvenanceSource /\ p.publication \subseteq ExtensionPublication
  /\ \A l \in p.lineage : l.relationship \in ExtensionLineageRelationship

IsService(s) == {"service", "method", "schema_version", "required_permission"} \subseteq DOMAIN s

IsDeclarations(m) ==
  /\ \A p \in DOMAIN m.permissions : DOMAIN m.permissions[p] = {"description", "risk_tier"}
  /\ \A i \in DOMAIN m.tools : DOMAIN m.tools[i] = {"id", "permissions", "permissions_required"}
  /\ \A i \in DOMAIN m.tool_output : DOMAIN m.tool_output[i] =
       {"tool_id", "format", "verbosity", "language_mode", "fields", "redactions"}
  /\ \A i \in DOMAIN m.hooks : DOMAIN m.hooks[i] =
       {"hook_id", "trigger", "verification", "required_capabilities", "action", "status"}
  /\ \A i \in DOMAIN m.webhooks : DOMAIN m.webhooks[i] =
       {"webhook_id", "source", "event", "endpoint", "verification", "required_capabilities", "status"}
  /\ \A i \in DOMAIN m.services.provides : IsService(m.services.provides[i])
  /\ \A i \in DOMAIN m.services.consumes :
       IsService(m.services.consumes[i]) /\ "extension_id" \in DOMAIN m.services.consumes[i]

IsManifest(m) ==
  /\ DOMAIN m = {"schema", "id", "name", "version", "publisher", "description", "types",
                 "compatibility", "entrypoints", "permissions", "tools", "services", "tool_output",
                 "hooks", "webhooks", "composition", "provenance", "migration"}
  /\ m.types \subseteq ExtensionKind
  /\ m.entrypoints.realm \in ExtensionRealm /\ m.entrypoints.runtime \in ExtensionRuntime
  /\ IsDeclarations(m) /\ IsProvenance(m.provenance)

EmptyText == [word |-> "", pad |-> FALSE]

\* ExtensionManifest::default.
DefaultManifest ==
  [schema |-> "", id |-> "", name |-> EmptyText, version |-> "", publisher |-> EmptyText,
   description |-> EmptyText, types |-> {},
   compatibility |-> [atelia_protocol |-> EmptyText, atelia_secretary |-> EmptyText],
   entrypoints |-> [realm |-> "backend", runtime |-> "wasm-rust", command |-> {}, wasm |-> {},
                    protocol |-> ""],
   permissions |-> << >>, tools |-> << >>, services |-> [provides |-> << >>, consumes |-> << >>],
   tool_output |-> << >>, hooks |-> << >>, webhooks |-> << >>, composition |-> << >>,
   provenance |->
     [source |-> "local", repository |-> {}, source_ref |-> {}, manifest_path |-> {},
      commit |-> {}, registry_identity |-> {}, lineage |-> {}, publication |-> {},
      artifact_digest |-> "", manifest_digest |-> "", signature |-> {}, signer |-> {}],
   migration |-> [from |-> << >>]]

\* A fixture that validation must keep refusing: it has no wasm module and is
\* published as official before the registry accepts it.
official_observational_memory_manifest(id, version, artifact, manifest) ==
  LET Some(w) == {[word |-> w, pad |-> FALSE]}
      text == [word |-> "text", pad |-> FALSE]
  IN [DefaultManifest EXCEPT
        !.schema = "atelia.extension.v1", !.id = id, !.name = text, !.version = version,
        !.publisher = text, !.description = text, !.types = {"memory_strategy"},
        !.compatibility = [atelia_protocol |-> text, atelia_secretary |-> text],
        !.entrypoints.protocol = "atelia-extension-rpc.v1",
        !.provenance.source = "registry", !.provenance.registry_identity = {OfficialRegistry},
        !.provenance.publication =
          {[visibility |-> "official", registry_submission |-> "awaiting_submission"]},
        !.provenance.artifact_digest = artifact, !.provenance.manifest_digest = manifest,
        !.provenance.signature = Some("official-signature"),
        !.provenance.signer = Some("atelia-official")]

-----------------------------------------------------------------------------
(* classify_boundary                                                       *)

classify_boundary_ok(m) ==
  LET source == m.provenance.source IN
  /\ source = "local" => m.id \in LocalId
  /\ source # "local" /\ m.id \in OfficialId => m.provenance.registry_identity = {OfficialRegistry}
  /\ source # "local" => m.id \notin LocalId

classify_boundary(m) ==
  IF m.provenance.source = "local" THEN "local_development"
  ELSE IF m.id \in OfficialId THEN "official" ELSE "third_party"

-----------------------------------------------------------------------------
(* validate_entrypoint                                                     *)

validate_entrypoint(m, policy) ==
  LET e == m.entrypoints IN
  /\ e.realm = "backend"
  /\ e.protocol = "atelia-extension-rpc.v1"
  /\ \/ e.runtime \in {"wasm-rust", "wasm"} /\ has_non_empty_trimmed(e.wasm)
     \/ /\ e.runtime = "process"
        /\ classify_boundary(m) = "local_development"
        /\ policy.allow_local_process_runtime
        /\ has_non_empty_trimmed(e.command)

-----------------------------------------------------------------------------
(* validate_provenance and validate_publication                            *)

validate_publication(m) ==
  LET identified == has_non_empty_trimmed(m.provenance.registry_identity) IN
  \A p \in m.provenance.publication :
    CASE p.visibility = "private_remix" -> p.registry_submission = "not_submitted"
      [] p.visibility = "unlisted_share" ->
           /\ p.registry_submission # "rejected"
           /\ p.registry_submission \in {"submitted", "accepted"} => identified
      [] p.visibility = "public_searchable" ->
           /\ classify_boundary(m) # "local_development"
           /\ p.registry_submission # "awaiting_submission" => identified
           /\ p.registry_submission \notin {"not_submitted", "rejected"}
      [] p.visibility = "official" ->
           /\ classify_boundary(m) = "official"
           /\ m.provenance.registry_identity = {OfficialRegistry}
           /\ p.registry_submission = "accepted"

validate_provenance(m, policy) ==
  LET p == m.provenance
      signed == has_non_empty_trimmed(p.signature) /\ has_non_empty_trimmed(p.signer)
  IN /\ require_digest(p.artifact_digest) /\ require_digest(p.manifest_digest)
     /\ signed \/ (classify_boundary(m) = "local_development" /\ policy.allow_local_unsigned)
     /\ p.source = "github" =>
          /\ has_non_empty_trimmed(p.repository) /\ has_non_empty_trimmed(p.source_ref)
          /\ has_non_empty_trimmed(p.manifest_path) /\ has_non_empty_trimmed(p.commit)
     /\ p.source = "registry" => has_non_empty_trimmed(p.registry_identity)
     /\ \A l \in p.lineage : /\ require_reverse_dns_id(l.parent_id)
                             /\ \A v \in l.parent_version : require_semver(v)
                             /\ \A d \in l.parent_manifest_digest : require_digest(d)
     /\ validate_publication(m)

-----------------------------------------------------------------------------
(* The declarations of a manifest                                          *)

RiskTier == {"R0", "R1", "R2", "R3", "R4"}

validate_permissions(m) ==
  \A p \in DOMAIN m.permissions :
    /\ require_permission_name(p)
    /\ require_non_empty(m.permissions[p].description)
    /\ m.permissions[p].risk_tier \subseteq RiskTier

validate_tools(m) ==
  /\ "tool" \in m.types <=> m.tools # << >>
  /\ Distinct(m.tools, LAMBDA t : t.id)
  /\ \A i \in DOMAIN m.tools :
       LET required == m.tools[i].permissions \cup m.tools[i].permissions_required IN
       /\ require_non_empty(m.tools[i].id)
       /\ required # {}
       /\ \A p \in required : require_permission_name(p) /\ p \in DOMAIN m.permissions

validate_service_parts(s) ==
  \A t \in {s.service, s.method, s.schema_version} : require_non_empty(t) /\ NoWhitespace(t)

require_declared_service_permission(m, p) == p \in DOMAIN m.permissions

service_key(s) == <<s.service, s.method, s.schema_version>>

validate_services(m) ==
  LET provides == m.services.provides
      consumes == m.services.consumes
      Valid(s) == /\ validate_service_parts(s)
                  /\ require_permission_name(s.required_permission)
                  /\ require_declared_service_permission(m, s.required_permission)
  IN /\ "service" \in m.types <=> (provides # << >> \/ consumes # << >>)
     /\ \A i \in DOMAIN provides : Valid(provides[i])
     /\ Distinct(provides, service_key)
     /\ \A i \in DOMAIN consumes :
          require_reverse_dns_id(consumes[i].extension_id) /\ Valid(consumes[i])
     /\ Distinct(consumes, LAMBDA s : <<s.extension_id, service_key(s)>>)

\* Unlike tools and services, a customizer, hook or webhook type may come without
\* a declaration.
validate_tool_output(m) ==
  /\ m.tool_output # << >> => "tool_output_customizer" \in m.types
  /\ Distinct(m.tool_output, LAMBDA o : o.tool_id)
  /\ \A i \in DOMAIN m.tool_output : LET o == m.tool_output[i] IN
       /\ require_trimmed_non_empty(o.tool_id)
       /\ validate_optional_choice(o.format, {"toon", "json"})
       /\ validate_optional_choice(o.verbosity, {"minimal", "normal", "expanded", "debug"})
       /\ validate_optional_choice(o.language_mode, {"user", "english_agent", "mixed"})
       /\ validate_string_list(o.fields) /\ validate_string_list(o.redactions)
       /\ \E j \in DOMAIN m.tools : m.tools[j].id = o.tool_id

Verification == {"hmac", "github_signature", "oidc", "none_for_local_only"}

HookStatus == {"enabled", "disabled", "blocked", "needs_approval"}

\* The unverified kind is for local development.
VerificationFits(m, o) ==
  /\ validate_optional_choice(o, Verification)
  /\ \A t \in o : t.word = "none_for_local_only" => classify_boundary(m) = "local_development"

validate_hooks(m) ==
  /\ m.hooks # << >> => "hook_provider" \in m.types
  /\ Distinct(m.hooks, LAMBDA h : h.hook_id)
  /\ \A i \in DOMAIN m.hooks : LET h == m.hooks[i] IN
       /\ require_trimmed_non_empty(h.hook_id)
       /\ validate_required_string(h.trigger)
       /\ VerificationFits(m, h.verification)
       /\ \A c \in h.required_capabilities : require_permission_name(c)
       /\ validate_optional_choice(h.action, {"workflow", "tool", "notification",
                                              "memory_update", "extension_action"})
       /\ validate_optional_choice(h.status, HookStatus)

\* The authority of an https URL: a name or a bracketed IPv6 address, and what
\* follows it up to the path.
validate_https_endpoint_authority(a) ==
  /\ a.host # "empty" /\ ~a.userinfo
  /\ \/ a.form = "name" /\ a.host = "hostname"
     \/ a.form = "bracketed" /\ a.host = "ipv6"
  /\ a.rest \in {"nothing", "numeric_port"}

validate_http_endpoint(o) ==
  \E e \in o : e.https /\ ~e.whitespace /\ validate_https_endpoint_authority(e.authority)

validate_webhooks(m) ==
  /\ m.webhooks # << >> => "webhook_receiver" \in m.types
  /\ Distinct(m.webhooks, LAMBDA w : w.webhook_id)
  /\ \A i \in DOMAIN m.webhooks : LET w == m.webhooks[i] IN
       /\ require_trimmed_non_empty(w.webhook_id)
       /\ validate_optional_choice(w.source, {"atelia", "github", "external"})
       /\ validate_required_string(w.event)
       /\ validate_http_endpoint(w.endpoint)
       /\ VerificationFits(m, w.verification)
       /\ \A c \in w.required_capabilities : require_permission_name(c)
       /\ validate_optional_choice(w.status, HookStatus)

validate_composition(m) ==
  \A i \in DOMAIN m.composition : require_reverse_dns_id(m.composition[i].extension_id)

validate_migration(m) == \A i \in DOMAIN m.migration.from : require_semver(m.migration.from[i])

-----------------------------------------------------------------------------
validate_manifest(m, policy) ==
  /\ m.schema = "atelia.extension.v1"
  /\ require_reverse_dns_id(m.id)
  /\ require_semver(m.version)
  /\ \A t \in {m.name, m.publisher, m.description,
               m.compatibility.atelia_protocol, m.compatibility.atelia_secretary} :
       require_non_empty(t)
  /\ m.types # {}
  /\ classify_boundary_ok(m)
  /\ validate_entrypoint(m, policy) /\ validate_provenance(m, policy)
  /\ validate_permissions(m) /\ validate_tools(m) /\ validate_services(m)
  /\ validate_tool_output(m) /\ validate_hooks(m) /\ validate_webhooks(m)
  /\ validate_composition(m) /\ validate_migration(m)
=============================================================================
