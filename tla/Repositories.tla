---------------------------- MODULE Repositories ----------------------------
(***************************************************************************)
(* Repository registration: SecretaryService::register_repository checks   *)
(* the request and the lists it reads one after the other, and only then   *)
(* calls the store, which checks again under its mutex.  Policy decisions  *)
(* are stored meanwhile, by jobs and by other users of the store, and      *)
(* directories come and go.  Sources: ateliad/src/service.rs,              *)
(* atelia-core/src/store.rs, domain.rs and policy.rs.                      *)
(***************************************************************************)
EXTENDS Filesystem

CONSTANTS Client,
          Requests,           \* registration requests that clients make
          Scopes,             \* resource scopes of policy decisions
          Capabilities,       \* capability names that jobs ask for
          Previews,           \* capability names that clients ask about
          StoredDecisions,    \* decisions stored by other users of the store
          Directories,        \* [dir, name] entries that may come and go
          InitialTree,        \* the directory tree at the start
          MaxRepositories,    \* bound: registrations accepted for checking
          MaxDecisions        \* bound: stored policy decisions

VARIABLES fs, repositories, policy_decisions, clients, issued, preview

vars == <<fs, repositories, policy_decisions, clients, issued, preview>>

Insert(f, k, v) == [x \in DOMAIN f \cup {k} |-> IF x = k THEN v ELSE f[x]]

PathScope(root, paths) == [root_path |-> root, allowed_paths |-> paths]

RepositoryRecord(id, name, root, trust) ==
  [id |-> id, display_name |-> name, root_path |-> root, trust_state |-> trust,
   allowed_path_scope |-> PathScope(root, {Path(TRUE, root)})]

----------------------------------------------------------------------------
(* DefaultPolicyEngine of atelia-core/src/policy.rs.  A capability name is *)
(* one of its normalized spellings; the texts shown to users are left out. *)

RepositoryTrustState == {"Trusted", "ReadOnly", "Blocked"}

RiskTier == {"R0", "R1", "R2", "R3", "R4"}

Capability ==
  {"Informational", "FilesystemRead", "FilesystemWrite", "ProcessExec",
   "BroadRepositoryMutation", "DestructiveRepositoryAction",
   "ExternalNetworkOrService", "SecretAccess", "Unsupported"}

\* The spellings after the separators _ - : / have become dots.
Spelling ==
  [Informational |-> {"informational", "status", "health", "capability.discovery",
     "capabilities.list", "policy.preview", "policy.check"},
   FilesystemRead |-> {"filesystem.read", "filesystem.list", "filesystem.search",
     "filesystem.stat", "filesystem.diff", "fs.read", "fs.list", "fs.search",
     "fs.stat", "fs.diff"},
   FilesystemWrite |-> {"filesystem.write", "filesystem.patch",
     "filesystem.delete", "filesystem.move", "fs.write", "fs.patch",
     "fs.delete", "fs.move"},
   ProcessExec |-> {"process.exec", "process.execute", "process.run",
     "proc.exec", "proc.run"},
   BroadRepositoryMutation |-> {"repository.mutate.broad", "repo.mutate.broad",
     "repository.broad.mutation", "repo.broad.mutation"},
   DestructiveRepositoryAction |-> {"repository.destructive",
     "repo.destructive", "repository.delete", "repo.delete",
     "repository.reset.hard", "repo.reset.hard"},
   ExternalNetworkOrService |-> {"network.external", "external.network",
     "service.external", "external.service", "network.call", "service.call"},
   SecretAccess |-> {"secret.access", "secrets.access", "secret.read",
     "secrets.read"}]

from_name(name) ==
  IF \E c \in DOMAIN Spelling : name \in Spelling[c]
    THEN CHOOSE c \in DOMAIN Spelling : name \in Spelling[c]
    ELSE "Unsupported"

is_repository_mutating(c) ==
  c \in {"FilesystemWrite", "ProcessExec", "BroadRepositoryMutation",
         "DestructiveRepositoryAction"}

\* A request is within the registered scope and bounded unless its maker says otherwise.
PolicyInput(capability, trust) ==
  [capability |-> capability, trust |-> trust, registered |-> TRUE, broad |-> FALSE]

RuleDecision(outcome, tier, reason) ==
  [outcome |-> outcome, risk_tier |-> tier, reason_code |-> reason]

\* What a capability needs when neither trust nor scope rules it out.
RuleForCapability(input) ==
  LET c == from_name(input.capability)
  IN CASE c = "Informational" -> RuleDecision("Allowed", "R0", "informational_allowed")
       [] c = "FilesystemRead" ->
            IF input.trust = "ReadOnly"
              THEN RuleDecision("Audited", "R1", "bounded_read_audited_read_only")
              ELSE RuleDecision("Allowed", "R1", "bounded_read_allowed")
       [] c = "FilesystemWrite" ->
            IF input.broad
              THEN RuleDecision("NeedsApproval", "R3",
                     "filesystem_write_broad_or_unbounded_needs_approval")
              ELSE RuleDecision("Audited", "R2", "bounded_write_audited")
       [] c = "ProcessExec" ->
            IF input.broad
              THEN RuleDecision("NeedsApproval", "R3",
                     "process_broad_or_unbounded_needs_approval")
              ELSE RuleDecision("Audited", "R2", "bounded_process_audited")
       [] c = "BroadRepositoryMutation" ->
            RuleDecision("NeedsApproval", "R3", "broad_repository_mutation_needs_approval")
       [] c = "DestructiveRepositoryAction" ->
            RuleDecision("Blocked", "R4", "destructive_repository_action_blocked")
       [] c = "ExternalNetworkOrService" ->
            RuleDecision("NeedsApproval", "R3", "external_network_or_service_needs_approval")
       [] c = "SecretAccess" ->
            RuleDecision("NeedsApproval", "R3", "secret_access_needs_approval")
       [] OTHER -> RuleDecision("Blocked", "R4", "unsupported_capability_blocked")

\* The first rule that applies decides.
evaluate_rule(input) ==
  CASE input.trust = "Blocked" -> RuleDecision("Blocked", "R4", "repository_blocked")
    [] input.trust # "Blocked" /\ ~input.registered ->
         RuleDecision("Blocked", "R4", "outside_registered_scope")
    [] /\ input.trust = "ReadOnly" /\ input.registered
       /\ is_repository_mutating(from_name(input.capability)) ->
         RuleDecision("Blocked", "R4", "repository_read_only")
    [] OTHER -> RuleForCapability(input)

----------------------------------------------------------------------------
(* The store.                                                              *)

validate_repository_record(r) ==
  /\ r.display_name # "blank"
  /\ r.root_path # <<>>
  /\ r.allowed_path_scope.root_path = r.root_path
  /\ r.allowed_path_scope.allowed_paths # {}

repository_roots_strictly_overlap(a, b) ==
  a # b /\ (starts_with(a, b) \/ starts_with(b, a))


is_root_scoped_repository_block(d) ==
  /\ d.outcome = "Blocked"
  /\ d.reason_code = "repository_blocked"
  /\ d.resource_scope = [kind |-> "repository", value |-> "."]

root_scoped_blocked_policy_overlapping_repository(root) ==
  {d \in policy_decisions :
     /\ is_root_scoped_repository_block(d)
     /\ repository_roots_strictly_overlap(root, repositories[d.repository_id].root_path)}

BlockedOverlaps(record) ==
  {id \in DOMAIN repositories :
     /\ repository_roots_strictly_overlap(record.root_path, repositories[id].root_path)
     /\ "Blocked" \in {record.trust_state, repositories[id].trust_state}}

SameRoot(record) ==
  {id \in DOMAIN repositories : repositories[id].root_path = record.root_path}

create_repository(record) ==
  IF ~validate_repository_record(record) THEN "InvalidRecord"
  ELSE IF SameRoot(record) # {} THEN "DuplicateId"
  ELSE IF \/ BlockedOverlaps(record) # {}
          \/ root_scoped_blocked_policy_overlapping_repository(record.root_path) # {}
    THEN "Conflict"
  ELSE IF record.id \in DOMAIN repositories THEN "DuplicateId" ELSE "None"

\* Mutant: a decision is stored as soon as its repository exists.
CreateDecisionAnywhere(d) == d.repository_id \in DOMAIN repositories

create_policy_decision_ok(d) ==
  /\ d.repository_id \in DOMAIN repositories
  /\ is_root_scoped_repository_block(d) =>
       ~\E id \in DOMAIN repositories \ {d.repository_id} :
          repository_roots_strictly_overlap(
            repositories[d.repository_id].root_path, repositories[id].root_path)

\* The part of validate_loaded_store that reads repositories and decisions.
validate_loaded_store ==
  /\ \A id \in DOMAIN repositories : validate_repository_record(repositories[id])
  /\ \A a, b \in DOMAIN repositories : a # b =>
       /\ repositories[a].root_path # repositories[b].root_path
       /\ repository_roots_strictly_overlap(repositories[a].root_path,
                                            repositories[b].root_path) =>
            "Blocked" \notin {repositories[a].trust_state, repositories[b].trust_state}
  /\ \A d \in policy_decisions :
       /\ d.repository_id \in DOMAIN repositories
       /\ is_root_scoped_repository_block(d) =>
            ~\E id \in DOMAIN repositories \ {d.repository_id} :
               repository_roots_strictly_overlap(
                 repositories[d.repository_id].root_path, repositories[id].root_path)

----------------------------------------------------------------------------
(* The service.                                                            *)

canonical_repository_root(path) ==
  LET c == canonicalize(fs, path.parts)
  IN IF /\ c.error = "None"
        /\ fs[c.inode].type = "dir"
        /\ exists(fs, Append(c.names, ".git"))
       THEN [error |-> "None", root |-> c.names]
       ELSE [error |-> "InvalidArgument", root |-> <<>>]

validate_repository_allowed_scope(root, paths) ==
  \A p \in paths : canonicalize_within_scope(fs, root, p).error = "None"

roots_strictly_overlap(a, b) == a # b /\ (starts_with(a, b) \/ starts_with(b, a))

is_repository_registration_block(d) ==
  /\ d.outcome = "Blocked"
  /\ d.reason_code = "repository_blocked"
  /\ d.resource_scope = [kind |-> "repository", value |-> "."]

blocked_repository_ancestor_for_root(root) ==
  {id \in DOMAIN repositories : repositories[id].trust_state = "Blocked"
                                  /\ roots_strictly_overlap(root, repositories[id].root_path)}

\* The roots were listed before the decisions; one of them may be gone from disk.
blocking_policy_decision_for_candidate_root(root, roots) ==
  {d \in policy_decisions :
     /\ is_repository_registration_block(d)
     /\ d.repository_id \in DOMAIN roots
     /\ LET scope == canonicalize_within_scope(fs, roots[d.repository_id], Path(FALSE, <<>>))
        IN scope.error = "None" /\ roots_strictly_overlap(root, scope.canonical)}

\* The paths that a request asks for; none of them means the root itself.
RequestedPaths(request, root) ==
  IF UNION request.allowed_scope = {} THEN {Path(TRUE, root)}
                                      ELSE UNION request.allowed_scope

Answer(c, answer) ==
  clients' = [clients EXCEPT ![c] = [@ EXCEPT !.step = "idle", !.answer = answer]]

\* register_repository up to the list of repositories it reads first.
CheckRequest(c, request) ==
  LET canonical == canonical_repository_root(request.root_path)
      root   == canonical.root
      paths  == RequestedPaths(request, root)
      record == [RepositoryRecord(issued + 1, request.display_name, root, request.trust_state)
                   EXCEPT !.allowed_path_scope = PathScope(root, paths)]
  IN CASE \/ request.display_name = "blank"
          \/ request.root_path.parts = <<>>
          \/ canonical.error # "None"
          \/ request.allowed_scope # {} /\ ~validate_repository_allowed_scope(root, paths) ->
            Answer(c, "InvalidArgument")
       [] OTHER ->
            IF blocked_repository_ancestor_for_root(root) # {}
              THEN clients' = [clients EXCEPT
                     ![c] = [@ EXCEPT !.answer = "Conflict", !.record = record]]
              ELSE clients' = [clients EXCEPT
                     ![c] = [@ EXCEPT !.step = "roots", !.record = record, !.answer = "None"]]

register_repository(c) ==
  /\ clients[c].step = "idle"
  /\ issued < MaxRepositories
  /\ issued' = issued + 1
  /\ \E request \in Requests : CheckRequest(c, request)
  /\ UNCHANGED <<fs, repositories, policy_decisions, preview>>

ListRoots(c) ==
  /\ clients[c].step = "roots"
  /\ clients' = [clients EXCEPT ![c] =
       [@ EXCEPT !.step = "decisions",
                 !.roots = [id \in DOMAIN repositories |-> repositories[id].root_path]]]
  /\ UNCHANGED <<fs, repositories, policy_decisions, issued, preview>>

blocking_policy_decision_for_root(c) ==
  /\ clients[c].step = "decisions"
  /\ IF blocking_policy_decision_for_candidate_root(clients[c].record.root_path,
                                                    clients[c].roots) # {}
       THEN Answer(c, "Conflict")
       ELSE clients' = [clients EXCEPT ![c].step = "create"]
  /\ UNCHANGED <<fs, repositories, policy_decisions, issued, preview>>

CreateRepository(c) ==
  LET record == clients[c].record
      error  == create_repository(record)
  IN /\ clients[c].step = "create"
     /\ IF error = "None"
          THEN /\ repositories' = Insert(repositories, record.id, record)
               /\ Answer(c, "Registered")
          ELSE /\ UNCHANGED repositories
               /\ Answer(c, IF error = "InvalidRecord" THEN "Store" ELSE "Conflict")
     /\ UNCHANGED <<fs, policy_decisions, issued, preview>>

----------------------------------------------------------------------------
(* Everyone else.                                                          *)

Store(d) ==
  /\ Cardinality(policy_decisions) < MaxDecisions
  /\ d \notin policy_decisions
  /\ create_policy_decision_ok(d)
  /\ policy_decisions' = policy_decisions \cup {d}
  /\ UNCHANGED <<fs, repositories, clients, issued, preview>>

\* A job's decision: the engine reads the trust state that the store holds.
Decide ==
  \E id \in DOMAIN repositories, scope \in Scopes, name \in Capabilities,
     broad \in BOOLEAN :
    LET rule == evaluate_rule([PolicyInput(name, repositories[id].trust_state)
                                 EXCEPT !.broad = broad])
    IN Store([repository_id |-> id, capability |-> name, resource_scope |-> scope, broad |-> broad,
              outcome |-> rule.outcome, reason_code |-> rule.reason_code, by |-> "engine"])

\* A decision that another user of the store records.
StoreDecision ==
  \E id \in DOMAIN repositories, scope \in Scopes, d \in StoredDecisions :
    Store([repository_id |-> id, capability |-> "repository.delete", broad |-> FALSE,
           resource_scope |-> scope, outcome |-> d.outcome,
           reason_code |-> d.reason_code, by |-> "caller"])

\* A client asks what the engine would say; nothing is stored.
check_policy ==
  \E id \in DOMAIN repositories, name \in Previews :
    /\ name # "blank"
    /\ LET rule == evaluate_rule(PolicyInput(name, repositories[id].trust_state))
       IN preview' = {[repository_id |-> id, capability |-> name, outcome |-> rule.outcome,
                       reason_code |-> rule.reason_code]}
    /\ UNCHANGED <<fs, repositories, policy_decisions, clients, issued>>

\* A directory is moved away, or back.
MoveDirectory(e) ==
  /\ LET here == fs[e.dir].entries
     IN fs' = [fs EXCEPT ![e.dir].entries =
                 IF e.name \in DOMAIN here
                   THEN [n \in DOMAIN here \ {e.name} |-> here[n]]
                   ELSE Insert(here, e.name, e.inode)]
  /\ UNCHANGED <<repositories, policy_decisions, clients, issued, preview>>

----------------------------------------------------------------------------
Init ==
  /\ fs = InitialTree
  /\ repositories = <<>>
  /\ policy_decisions = {}
  /\ clients = [c \in Client |-> [step |-> "idle", answer |-> "None", roots |-> <<>>,
                  record |-> RepositoryRecord(0, "blank", <<>>, "Trusted")]]
  /\ issued = 0
  /\ preview = {}

Next ==
  \/ \E c \in Client : \/ register_repository(c)
                       \/ ListRoots(c)
                       \/ blocking_policy_decision_for_root(c)
                       \/ CreateRepository(c)
  \/ Decide
  \/ StoreDecision
  \/ check_policy
  \/ \E e \in Directories : MoveDirectory(e)

Spec == Init /\ [][Next]_vars

----------------------------------------------------------------------------
\* No registered root lies above or below a root that is blocked, by its trust
\* state or by a decision about the whole repository, whatever the order in
\* which registrations and decisions check and commit: create_repository and
\* create_policy_decision look again under the store's mutex.
BlockedStandsAlone ==
  \A a, b \in DOMAIN repositories :
    repository_roots_strictly_overlap(repositories[a].root_path,
                                      repositories[b].root_path) =>
      /\ repositories[a].trust_state # "Blocked"
      /\ ~\E d \in policy_decisions :
            d.repository_id = a /\ is_root_scoped_repository_block(d)

\* Two registrations of one directory, through whatever links, leave one record.
OneRepositoryPerRoot ==
  \A a, b \in DOMAIN repositories :
    repositories[a].root_path = repositories[b].root_path => a = b

\* What create_repository and create_policy_decision commit, the daemon accepts
\* when it starts again (validate_loaded_store).
StoreLoads == validate_loaded_store

\* A registration answered with a conflict still has its reason in the store:
\* the lists it read may be old, but what they showed does not go away.
RefusalsAreJustified ==
  \A c \in Client : clients[c].answer = "Conflict" =>
    LET root == clients[c].record.root_path
    IN \E id \in DOMAIN repositories :
         \/ repositories[id].root_path = root
         \/ /\ repository_roots_strictly_overlap(root, repositories[id].root_path)
            /\ \/ "Blocked" \in {repositories[id].trust_state, clients[c].record.trust_state}
               \/ \E d \in policy_decisions :
                    d.repository_id = id /\ is_root_scoped_repository_block(d)

\* The engine lets nothing happen in a blocked repository and no change in a
\* read-only one (evaluate_rule looks at the trust state before the capability).
TrustBoundsDecisions ==
  \A d \in policy_decisions :
    d.by = "engine" /\ d.outcome # "Blocked" =>
      LET trust == repositories[d.repository_id].trust_state
      IN /\ trust # "Blocked"
         /\ is_repository_mutating(from_name(d.capability)) => trust = "Trusted"

\* What check_policy has told a client is what a job of that repository gets, before and
\* afterwards, under whatever spelling the capability is asked for (DefaultPolicyEngine and
\* SecretaryService::check_policy).
PreviewHolds ==
  \A p \in preview, d \in policy_decisions :
    /\ d.by = "engine" /\ ~d.broad
    /\ d.repository_id = p.repository_id
    /\ from_name(d.capability) = from_name(p.capability)
    => <<d.outcome, d.reason_code>> = <<p.outcome, p.reason_code>>

\* Registrations and decisions, in whatever order they check and commit, leave records that
\* respect what is blocked, that the daemon loads again, and that bear out what clients were
\* told: the properties above together.
RepositoriesAreSound ==
  /\ BlockedStandsAlone /\ OneRepositoryPerRoot /\ StoreLoads /\ RefusalsAreJustified
  /\ TrustBoundsDecisions /\ PreviewHolds
=============================================================================
