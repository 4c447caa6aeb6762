----------------------------- MODULE MCPackages -----------------------------
(* The package registry and the RPC layer on top of it, with seven sets of    *)
(* packages, options and requests.  A behaviour follows one of them, its      *)
(* part, from the empty registry.                                             *)
EXTENDS Manifest, SequencesExt, TLC

CONSTANTS NoVersion

VARIABLES part, registry, stored, disk, up, walk

registryVars == <<registry, stored, disk, up>>

Text(w) == [word |-> w, pad |-> FALSE]

Padded(w) == [word |-> w, pad |-> TRUE]

Permission(d) == [description |-> Text(d), risk_tier |-> {"R1"}]

\* A third-party package from a repository.
Package(id, version) ==
  [DefaultManifest EXCEPT
     !.schema = "atelia.extension.v1", !.id = id, !.name = Text("n"), !.version = version,
     !.publisher = Text("p"), !.description = Text("d"), !.types = {"memory_strategy"},
     !.compatibility = [atelia_protocol |-> Text("1"), atelia_secretary |-> Text("1")],
     !.entrypoints.protocol = "atelia-extension-rpc.v1", !.entrypoints.wasm = {Text("w")},
     !.provenance =
       [@ EXCEPT !.source = "github", !.repository = {Text("r1")}, !.source_ref = {Text("main")},
                 !.manifest_path = {Text("m")}, !.commit = {Text("c")}, !.artifact_digest = "d1",
                 !.manifest_digest = "d1", !.signature = {Text("s")}, !.signer = {Text("s")}]]

\* The same package from the developer's own machine, unsigned.
Local(m) ==
  [m EXCEPT !.provenance.source = "local", !.provenance.repository = {},
            !.provenance.source_ref = {}, !.provenance.manifest_path = {},
            !.provenance.commit = {}, !.provenance.signature = {}, !.provenance.signer = {}]

NoApproval ==
  [approve_local_unsigned |-> FALSE, allow_local_process_runtime |-> FALSE,
   approve_source_change |-> FALSE]

Unapproved == {NoApproval}

-----------------------------------------------------------------------------
(* Versions: one package, two versions, a republished and a moved one       *)

VersionPackages ==
  {Package("e", v) : v \in {"1", "2"}}
    \cup {[Package("e", "1") EXCEPT !.provenance.artifact_digest = "d2"],
          [Package("e", "2") EXCEPT !.provenance.repository = {Text("r2")}]}

ThreeVersions == {Package("e", v) : v \in Semver}

VersionOptions == {NoApproval, [NoApproval EXCEPT !.approve_source_change = TRUE]}

VersionBlocks ==
  {[kind |-> "version", id |-> "e", version |-> "1"], [kind |-> "version", id |-> "E", version |-> "1"],
   [kind |-> "source_repository", repository |-> Text("r2")]}

-----------------------------------------------------------------------------
(* Publication: a third-party, an official and a local package              *)

PublicationPackages ==
  {[Package("e", "1") EXCEPT !.provenance.registry_identity = identity] :
     identity \in {{}, {Padded("reg")}}}
    \cup {[Package("e", "2") EXCEPT !.provenance.publication =
             {[visibility |-> "unlisted_share", registry_submission |-> "awaiting_submission"]}],
          [Package("o", "1") EXCEPT !.provenance.registry_identity = {OfficialRegistry}],
          Local(Package("l", "1"))}

PublicationOptions == {[NoApproval EXCEPT !.approve_local_unsigned = TRUE]}

AllSubmissions ==
  {[submission |-> s, identity |-> i] :
     s \in {"submitted", "accepted", "rejected"}, i \in {{}, {Text("reg")}, {Padded("other")}}}

SignerBlock == {[kind |-> "signer", signer |-> Padded("s")]}

-----------------------------------------------------------------------------
(* Services: a consumer, whose second version asks for more, and a provider *)

Service == [service |-> Text("s"), method |-> Text("m"), schema_version |-> Text("1"),
            required_permission |-> "p.read"]

Read == "p.read" :> Permission("d")

ReadWrite == Read @@ ("p.write" :> Permission("d"))

Consumer ==
  [Package("e", "1") EXCEPT !.types = {"service"}, !.permissions = Read,
     !.services.consumes = << [extension_id |-> "f"] @@ Service >>]

Provider ==
  [Package("f", "1") EXCEPT !.types = {"service"}, !.permissions = Read,
     !.services.provides = << [Service EXCEPT !.method = Text("x")], Service >>]

ServicePackages ==
  {Consumer, Provider,
   [Consumer EXCEPT !.version = "2", !.permissions = ReadWrite,
      !.services.consumes[1].required_permission = "p.write"],
   [Provider EXCEPT !.version = "2", !.permissions = ReadWrite,
      !.services.provides[2].required_permission = "p.write"],
   [Provider EXCEPT !.version = "3", !.permissions = "p.read" :> Permission("e")]}

ServiceBlocks ==
  {[kind |-> "permission_pattern", pattern |-> {"p.write"}],
   [kind |-> "extension_id", id |-> "f"], [kind |-> "extension_id", id |-> "E"]}

-----------------------------------------------------------------------------
(* Manifests: a package with every kind of declaration, and the packages    *)
(* that differ from it in one place                                         *)

Full ==
  [Package("e", "1") EXCEPT
     !.types = {"tool", "service", "tool_output_customizer", "hook_provider", "webhook_receiver"},
     !.permissions = Read,
     !.tools = << [id |-> Text("t"), permissions |-> {"p.read"}, permissions_required |-> {}] >>,
     !.services = [provides |-> << Service >>, consumes |-> << [extension_id |-> "f"] @@ Service >>],
     !.tool_output = << [tool_id |-> Text("t"), format |-> {Text("json")}, verbosity |-> {},
                         language_mode |-> {Text("user")}, fields |-> << Text("f") >>,
                         redactions |-> << >>] >>,
     !.hooks = << [hook_id |-> Text("h"), trigger |-> {Text("t")}, verification |-> {Text("hmac")},
                   required_capabilities |-> {"p.read"}, action |-> {Text("tool")},
                   status |-> {Text("enabled")}] >>,
     !.webhooks = << [webhook_id |-> Text("w"), source |-> {Text("github")}, event |-> {Text("e")},
                      endpoint |-> {[https |-> TRUE, whitespace |-> FALSE,
                                     authority |-> [host |-> "hostname", userinfo |-> FALSE,
                                                    form |-> "name", rest |-> "nothing"]]},
                      verification |-> {Text("oidc")}, required_capabilities |-> {},
                      status |-> {}] >>,
     !.composition = << [extension_id |-> "f"] >>,
     !.migration.from = << "2" >>]

Blank == Text("")

Odd == {{}, {Blank}, {Text("a b")}, {Padded("hmac")}, {Text("other")}}  \* odd optional strings

Header == {[Full EXCEPT !.schema = "v2"], [Full EXCEPT !.id = "E"], [Full EXCEPT !.id = "l"],
           [Full EXCEPT !.id = "o"], [Full EXCEPT !.version = "x"], [Full EXCEPT !.name = Blank],
           [Full EXCEPT !.publisher = Padded("p")], [Full EXCEPT !.types = {}],
           [Full EXCEPT !.compatibility.atelia_protocol = Blank],
           [Full EXCEPT !.composition = << [extension_id |-> "E"] >>],
           [Full EXCEPT !.migration.from = << "2", "x" >>]}

Entry == {[Full EXCEPT !.entrypoints.realm = "client"], [Full EXCEPT !.entrypoints.protocol = "v0"],
          [Full EXCEPT !.entrypoints.runtime = "process"], [Full EXCEPT !.entrypoints.wasm = {Blank}],
          [Full EXCEPT !.entrypoints.runtime = "docker"]}

Origin ==
  {[Full EXCEPT !.provenance.source = "registry", !.provenance.registry_identity = i] :
     i \in {{}, {Blank}, {Padded("reg")}}}
  \cup {[Full EXCEPT !.provenance.commit = c] : c \in {{}, {Blank}, {Padded("c")}}}
  \cup {[Full EXCEPT !.provenance.signature = {}], [Full EXCEPT !.provenance.signer = {Blank}],
        [Full EXCEPT !.provenance.manifest_digest = "x"],
        [Full EXCEPT !.provenance.repository = {}], [Full EXCEPT !.provenance.repository = {Padded("r1")}],
        [Full EXCEPT !.provenance.lineage = {[parent_id |-> "f", parent_version |-> {"2"},
                                              parent_manifest_digest |-> {"x"}, relationship |-> "fork"]}]}
  \cup {[Full EXCEPT !.provenance.publication = {p}] : p \in ExtensionPublication}

Declarations ==
  {[Full EXCEPT !.permissions = [p \in {} |-> {}]], [Full EXCEPT !.permissions = "P" :> Permission("d") @@ Read],
   [Full EXCEPT !.permissions["p.read"].description = Blank],
   [Full EXCEPT !.permissions["p.read"].risk_tier = {"R9"}],
   [Full EXCEPT !.tools = << >>], [Full EXCEPT !.tools = @ \o @], [Full EXCEPT !.tools[1].id = Blank],
   [Full EXCEPT !.tools[1].permissions = {}], [Full EXCEPT !.tools[1].permissions_required = {"p.write"}],
   [Full EXCEPT !.services.provides = @ \o @], [Full EXCEPT !.services.consumes = @ \o @],
   [Full EXCEPT !.services.provides[1].method = Text("a b")],
   [Full EXCEPT !.services.consumes[1].extension_id = "E"],
   [Full EXCEPT !.services.provides[1].required_permission = "p.write"],
   [Full EXCEPT !.tool_output = @ \o @], [Full EXCEPT !.tool_output[1].tool_id = Text("u")],
   [Full EXCEPT !.tool_output[1].fields = << Blank >>]}
  \cup {[Full EXCEPT !.types = @ \ {t}] : t \in Full.types}
  \cup {[Full EXCEPT !.tool_output[1].format = o] : o \in Odd}

Unverified ==
  {[Full EXCEPT !.hooks[1].verification = {Text("none_for_local_only")}],
   [Full EXCEPT !.webhooks[1].verification = {Text("none_for_local_only")}]}

Hooked ==
  {[Full EXCEPT !.hooks = @ \o @], [Full EXCEPT !.webhooks = @ \o @],
   [Full EXCEPT !.hooks[1].hook_id = Padded("h")], [Full EXCEPT !.webhooks[1].webhook_id = Blank],
   [Full EXCEPT !.hooks[1].required_capabilities = {"P"}],
   [Full EXCEPT !.webhooks[1].required_capabilities = {"P"}]}
  \cup Unverified
  \cup {[Full EXCEPT !.hooks[1].trigger = o] : o \in Odd}
  \cup {[Full EXCEPT !.webhooks[1].endpoint = {}]}
  \cup {[Full EXCEPT !.webhooks[1].endpoint = {[https |-> TRUE, whitespace |-> FALSE, authority |-> a]}] :
         a \in [host : {"empty", "hostname", "ipv6"}, userinfo : {FALSE},
                form : {"name", "bracketed"}, rest : {"numeric_port", "other"}]}

ManifestPackages ==
  {Full, official_observational_memory_manifest("o", "1", "d1", "d1")} \cup Header \cup Entry \cup Origin \cup Declarations \cup Hooked
    \cup {[Local(m) EXCEPT !.id = "l", !.entrypoints.command = {Text("c")}] :
            m \in Entry \cup Unverified}

ManifestOptions ==
  {[approve_local_unsigned |-> a, allow_local_process_runtime |-> a, approve_source_change |-> TRUE] :
     a \in BOOLEAN}

-----------------------------------------------------------------------------
(* Authoring, through the RPC layer                                         *)

Publishing(m, visibility, submission) ==
  [m EXCEPT !.provenance.publication =
     {[visibility |-> visibility, registry_submission |-> submission]}]

FromRegistry(m) ==
  [m EXCEPT !.provenance.source = "registry", !.provenance.registry_identity = {Text("reg")}]

\* A package from a repository and its next version, from the registry; manifests
\* that come with a verdict; a local package.
AuthoredPackages ==
  {Package("e", "1"),
   FromRegistry(Package("e", "2")),
   Publishing(FromRegistry(Package("e", "1")), "unlisted_share", "accepted"),
   Local(Package("l", "1"))}

OfficialPackages ==
  {[Package("o", "1") EXCEPT !.provenance.registry_identity = {OfficialRegistry}],
   Publishing([Package("o", "1") EXCEPT !.provenance.registry_identity = {OfficialRegistry}],
              "official", "accepted")}

Approved ==
  {[NoApproval EXCEPT !.approve_local_unsigned = TRUE, !.approve_source_change = TRUE]}

ClientSubmissions ==
  {[submission |-> s, identity |-> i] :
     s \in ExtensionRegistrySubmission, i \in {{}, {Padded("reg")}}}

-----------------------------------------------------------------------------
\* Two versions of one package, with failed writes, crashes and restarts.
Versions == INSTANCE Extensions WITH
  Packages <- VersionPackages, Options <- VersionOptions, BlockKeys <- VersionBlocks,
  Publications <- {}, Submissions <- {}, MaxAudit <- 3, Faults <- TRUE

\* Three versions of one package, rolled back, removed and installed again.
Rollbacks == INSTANCE Extensions WITH
  Packages <- ThreeVersions, Options <- Unapproved, BlockKeys <- {},
  Publications <- {}, Submissions <- {}, MaxAudit <- 5, Faults <- FALSE

\* A third-party, an official and a local package, through every state of a submission.
Publication == INSTANCE Extensions WITH
  Packages <- PublicationPackages, Options <- PublicationOptions,
  BlockKeys <- SignerBlock \cup {[kind |-> "vulnerability_id"]},
  Publications <- ExtensionPublication, Submissions <- AllSubmissions, MaxAudit <- 3,
  Faults <- FALSE

\* A provider and a consumer of a service.
Services == INSTANCE Extensions WITH
  Packages <- ServicePackages, Options <- Unapproved, BlockKeys <- ServiceBlocks,
  Publications <- {}, Submissions <- {}, MaxAudit <- 4, Faults <- FALSE

\* Packages that differ from one another in one place, most of them invalid.
Manifests == INSTANCE Extensions WITH
  Packages <- ManifestPackages, Options <- ManifestOptions, BlockKeys <- {},
  Publications <- {}, Submissions <- {}, MaxAudit <- 2, Faults <- FALSE

\* Publish, submit, withdraw, block and update through the RPC layer.
Authors == INSTANCE Authoring WITH
  Packages <- AuthoredPackages, Options <- Approved, BlockKeys <- SignerBlock,
  Publications <- {}, Submissions <- ClientSubmissions, MaxAudit <- 4, Faults <- FALSE,
  Limits <- {0}, MaxHistoryPage <- 2

\* Read the audit trail in pages while writes fail and the daemon restarts.
AuditWalk == INSTANCE Authoring WITH
  Packages <- OfficialPackages, Options <- Approved, BlockKeys <- SignerBlock,
  Publications <- {}, Submissions <- ClientSubmissions, MaxAudit <- 3, Faults <- TRUE,
  Limits <- {0, 1, 3}, MaxHistoryPage <- 2

\* The packages are manifests as the program can parse them.
ASSUME PackagesAreManifests ==
  \A m \in VersionPackages \cup ThreeVersions \cup PublicationPackages \cup ServicePackages
            \cup ManifestPackages \cup AuthoredPackages \cup OfficialPackages : IsManifest(m)

-----------------------------------------------------------------------------
MCInit ==
  /\ part \in {"versions", "rollbacks", "publication", "services", "manifests", "authors", "audit_walk"}
  /\ IF part = "audit_walk" THEN AuditWalk!RpcInit ELSE Authors!RpcInit

MCNext ==
  /\ \/ part = "versions" /\ Versions!Next /\ UNCHANGED walk
     \/ part = "rollbacks" /\ Rollbacks!Next /\ UNCHANGED walk
     \/ part = "publication" /\ Publication!Next /\ UNCHANGED walk
     \/ part = "services" /\ Services!Next /\ UNCHANGED walk
     \/ part = "manifests" /\ Manifests!Next /\ UNCHANGED walk
     \/ part = "authors" /\ Authors!RpcNext
     \/ part = "audit_walk" /\ AuditWalk!RpcNext
  /\ UNCHANGED part

MCSpec == MCInit /\ [][MCNext]_<<part, registryVars, walk>>

-----------------------------------------------------------------------------
\* A change that the registry accepts is committed, but for a commit that is blank or has
\* white space around it, an update of what is not installed and a malformed id in the
\* blocklist, which only the audit refuses (mutate_extension_registry_with_audit).  The
\* services are many: their registries are looked at up to the last change.
AcceptedChangesCommit ==
  CASE part = "versions" -> Versions!AcceptedChangesCommit
    [] part = "publication" -> Publication!AcceptedChangesCommit
    [] part = "services" /\ Len(registry.audit) < 4 -> Services!AcceptedChangesCommit
    [] part = "manifests" -> Manifests!AcceptedChangesCommit
    [] OTHER -> TRUE

\* What is active, listed or granted was accepted as such, digests are pinned, blocked
\* versions are not activated, rollback chains end (extensions.rs).
RegistryIsSafe == Rollbacks!RegistryIsSafe

\* The audit trail is kept and tells what is active (append_audit, package_inspect).
RegistryTellsItsState == Versions!RegistryTellsItsState

\* Authors are shown what the registry holds, cannot write its verdict, can withdraw, and
\* read the audit trail without gaps (rpc.rs).
AuthorsAreToldTheTruth ==
  CASE part = "authors" -> Authors!AuthorsAreToldTheTruth
    [] part = "audit_walk" -> AuditWalk!AuthorsAreToldTheTruth
    [] OTHER -> TRUE
=============================================================================
