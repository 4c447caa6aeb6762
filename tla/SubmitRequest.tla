--------------------------- MODULE SubmitRequest ----------------------------
(***************************************************************************)
(* What submit_job accepts.  A request is parsed by the HTTP transport,    *)
(* converted by the RPC layer and resolved by the service to one tool with *)
(* arguments and a scope whose paths lie where the repository allows; its  *)
(* signature decides whether a retry under the same key is the same        *)
(* request.  A path is a text; texts, capabilities and arguments are       *)
(* records, an optional value is a set of at most one.                     *)
(***************************************************************************)
EXTENDS Filesystem

CONSTANTS Tree,          \* the directory tree
          RepoRoot,      \* the repository's root_path
          AllowedPaths,  \* its allowed_paths
          Capabilities,  \* the capability lists of requests
          Scopes,        \* their optional path_scope
          Kinds, Goals, Keys,
          ToolArgs,      \* their optional tool_args
          MaxRequests    \* bound: requests submitted

VARIABLES request, accepted, requests

vars == <<request, accepted, requests>>

Text(form, path) == [form |-> form, path |-> path]

Blank(text) == text.form = "blank"

Ok == [error |-> "None"]

InvalidArgument == [error |-> "InvalidArgument"]

----------------------------------------------------------------------------
(* Capabilities.  A name is a prefix and an operation; case, blanks and    *)
(* separators are normalised away.                                         *)

FilesystemOperations ==
  {"read", "list", "stat", "delete", "write", "patch", "move", "search", "diff"}

Mutations == {"delete", "write", "patch", "move"}

canonical_filesystem_capability(c) ==
  IF c.prefix \in {"filesystem", "fs"} /\ c.op \in FilesystemOperations
    THEN {[prefix |-> "filesystem", op |-> c.op]} ELSE {}

Discovery == [prefix |-> "capability", op |-> "discovery"]

canonicalize_submit_requested_capability(c) ==
  IF c = Discovery THEN {Discovery} ELSE canonical_filesystem_capability(c)

\* The canonical capabilities, without order or repetition; none is discovery.
normalize_requested_capabilities(caps) ==
  LET names == UNION {canonicalize_submit_requested_capability(caps[i]) : i \in DOMAIN caps}
  IN IF \E i \in DOMAIN caps : canonicalize_submit_requested_capability(caps[i]) = {}
       THEN InvalidArgument @@ [names |-> {}]
     ELSE Ok @@ [names |-> IF names = {} THEN {Discovery} ELSE names]

----------------------------------------------------------------------------
(* Tool arguments.                                                         *)

ArgumentNames ==
  {"pattern", "max", "content", "destination_path", "allow_overwrite", "replacement_text",
   "comparison_path", "max_bytes", "max_chars"}

Given(args) == {a \in ArgumentNames : args[a] # {}}

Lacks(args, name) == args[name] = {}

BlankOrNone(args, name) == \A v \in args[name] : Blank(v)

\* What the transport lets through: no argument of another tool, and those the tool needs.
TransportAdmits(op, args) ==
  CASE op = "search" ->
         /\ Given(args) \cap {"comparison_path", "max_bytes", "max_chars", "content",
              "destination_path", "allow_overwrite", "replacement_text"} = {}
         /\ ~BlankOrNone(args, "pattern")
    [] op = "write" ->
         /\ Given(args) \cap {"pattern", "max", "comparison_path", "replacement_text",
              "destination_path", "max_chars"} = {}
         /\ ~Lacks(args, "content")
    [] op = "patch" ->
         /\ Given(args) \cap {"max", "comparison_path", "content", "allow_overwrite",
              "destination_path", "max_chars"} = {}
         /\ ~BlankOrNone(args, "pattern") /\ ~Lacks(args, "replacement_text")
    [] op = "move" ->
         /\ Given(args) \cap {"pattern", "max", "content", "comparison_path",
              "replacement_text", "max_bytes", "max_chars"} = {}
         /\ ~BlankOrNone(args, "destination_path")
    [] op = "diff" ->
         /\ Given(args) \cap {"pattern", "max", "content", "destination_path",
              "allow_overwrite", "replacement_text"} = {}
         /\ ~BlankOrNone(args, "comparison_path")
    [] OTHER -> FALSE

\* The first filesystem capability of a request decides about its arguments.
validate_submit_job_tool_args_for_capabilities(tool_args, caps) ==
  LET first == SelectInSeq(caps, LAMBDA c : canonical_filesystem_capability(c) # {})
      op    == caps[first].op
  IN IF first = 0 THEN tool_args = {}
     ELSE IF tool_args = {} THEN op \notin {"search", "diff", "write", "patch", "move"}
     ELSE \A args \in tool_args : TransportAdmits(op, args)

Resolved(admitted, args) ==
  IF admitted THEN Ok @@ [args |-> args] ELSE InvalidArgument @@ [args |-> <<>>]

ResolveDiff(args) ==
  Resolved(/\ \A a \in {"pattern", "max", "content", "destination_path", "allow_overwrite",
                       "replacement_text"} : Lacks(args, a)
           /\ ~BlankOrNone(args, "comparison_path"), args)

\* The service's own match over the tool: each arm refuses the arguments of the other tools.
ResolveArguments(tool, args) ==
  CASE tool = "search" -> Resolved(
         /\ \A a \in {"comparison_path", "max_bytes", "max_chars", "content",
                      "destination_path", "allow_overwrite", "replacement_text"} : Lacks(args, a)
         /\ ~BlankOrNone(args, "pattern"), args)
    [] tool = "write" -> Resolved(
         /\ \A a \in {"pattern", "max", "comparison_path", "replacement_text",
                      "destination_path", "max_chars"} : Lacks(args, a)
         /\ ~Lacks(args, "content"), args)
    [] tool = "patch" -> Resolved(
         /\ \A a \in {"max", "comparison_path", "content", "allow_overwrite",
                      "destination_path", "max_chars"} : Lacks(args, a)
         /\ ~BlankOrNone(args, "pattern") /\ ~Lacks(args, "replacement_text"), args)
    [] tool = "move" -> Resolved(
         /\ \A a \in {"pattern", "max", "content", "comparison_path", "replacement_text",
                      "max_bytes", "max_chars"} : Lacks(args, a)
         /\ ~BlankOrNone(args, "destination_path"), args)
    [] tool = "diff" -> ResolveDiff(args)
    [] OTHER -> Resolved(FALSE, args)

resolve_submit_job_tool_args(tool, tool_args) ==
  IF tool_args = {}
    THEN Resolved(tool \notin {"search", "write", "patch", "move", "diff"}, <<>>)
    ELSE ResolveArguments(tool, CHOOSE args \in tool_args : TRUE)

----------------------------------------------------------------------------
(* The transport and the RPC layer.                                        *)

\* A path_scope without a kind is the repository and has no roots or patterns.
parse_path_scope_payload(scope) ==
  IF scope.kind = "none"
    THEN IF scope.roots = <<>> /\ ~scope.patterns
           THEN Ok @@ [scope |-> [scope EXCEPT !.kind = "repository"]]
           ELSE InvalidArgument @@ [scope |-> scope]
  ELSE IF scope.kind \in {"repository", "explicit_paths", "read_only", "unspecified"}
    THEN Ok @@ [scope |-> scope]
  ELSE InvalidArgument @@ [scope |-> scope]

requests_filesystem_path_operation(caps) ==
  \E i \in DOMAIN caps : canonical_filesystem_capability(caps[i]) # {}

requests_filesystem_concrete_path_operation(caps) ==
  \E i \in DOMAIN caps :
    \E c \in canonical_filesystem_capability(caps[i]) : c.op \notin {"list", "stat", "search"}

OneConcreteRoot(caps, roots) ==
  /\ Len(roots) = 1
  /\ ~Blank(roots[1])
  /\ requests_filesystem_concrete_path_operation(caps) => roots[1].form # "dot"

parse_submit_job_payload(r) ==
  /\ \A s \in r.path_scope : parse_path_scope_payload(s).error = "None"
  /\ requests_filesystem_path_operation(r.capabilities)
       => \E s \in r.path_scope : OneConcreteRoot(r.capabilities, s.roots)
  /\ validate_submit_job_tool_args_for_capabilities(r.tool_args, r.capabilities)

default_resource_scope == [kind |-> "repository", value |-> Text("dot", Path(FALSE, <<>>))]

\* The RPC layer's optional resource scope, of a scope the transport parsed.
parse_path_scope(scope) ==
  LET s == parse_path_scope_payload(scope).scope
  IN IF s.patterns \/ Len(s.roots) > 1 \/ (s.kind = "unspecified" /\ s.roots # <<>>)
       THEN InvalidArgument @@ [scope |-> {}]
     ELSE IF s.kind = "unspecified" THEN Ok @@ [scope |-> {}]
     ELSE Ok @@ [scope |-> {[kind |-> s.kind,
                             value |-> IF s.roots = <<>> THEN default_resource_scope.value
                                                         ELSE s.roots[1]]}]

----------------------------------------------------------------------------
(* Where a request may work.                                               *)

Within(path) ==
  \E a \in AllowedPaths :
    LET allowed == canonicalize_within_scope(Tree, RepoRoot, a)
    IN allowed.error = "None" /\ starts_with(path, allowed.canonical)

\* A resolved path that is below an allowed one and, if it must be concrete, not the root.
MayUse(requested, require_concrete_path) ==
  /\ requested.error = "None"
  /\ require_concrete_path => requested.canonical # requested.root
  /\ Within(requested.canonical)

validate_filesystem_path_scope(path, require_concrete_path) ==
  MayUse(canonicalize_within_scope(Tree, RepoRoot, path), require_concrete_path)

\* The ancestors of a path, below the root, that the resolution looks at.
AncestorsBelow(target, root) ==
  {SubSeq(target, 1, i) : i \in {j \in 0..(Len(target) - 1) :
                                   j > Len(root) /\ starts_with(target, root)}}

\* A link on the way, or an entry that cannot be looked at.
Unusable(parts) ==
  LET w == symlink_metadata(Tree, parts)
  IN IF w.error = "None" THEN Tree[w.inode].type = "link" ELSE w.error # "NotFound"

\* An entry that is there is resolved unless it is a link.
ExistingTarget(root, there, full) ==
  IF Tree[there.inode].type = "link" THEN PathResolutionError("SymlinkRejected")
  ELSE IF full.error # "None" THEN PathResolutionError("TargetNotFound")
  ELSE IF ~starts_with(full.names, root.names)
    THEN PathResolutionError("OutsideRepositoryScope")
  ELSE CanonicalPath(full.names, root.names, full.inode)

NewTarget(root, target, parent) ==
  IF target = <<>> \/ Last(target) = ".." THEN PathResolutionError("TargetNotFound")
  ELSE IF parent.error # "None" THEN parent
  ELSE CanonicalPath(Append(parent.canonical, Last(target)), root.names, parent.inode)

MutationTarget(root, target, there) ==
  IF root.error # "None" THEN PathResolutionError("RootNotFound")
  ELSE IF \E a \in AncestorsBelow(target, root.names) : Unusable(a)
    THEN PathResolutionError("SymlinkRejected")
  ELSE IF there.error = "None" THEN ExistingTarget(root, there, canonicalize(Tree, target))
  ELSE IF there.error # "NotFound" THEN PathResolutionError("MetadataFailure")
  ELSE NewTarget(root, target,
                 canonicalize_within_scope(Tree, RepoRoot, Path(TRUE, Front(target))))

ResolveFrom(root, target) == MutationTarget(root, target, symlink_metadata(Tree, target))

RequestedFrom(root, path) ==
  ResolveFrom(root, IF path.abs THEN path.parts ELSE root.names \o path.parts)

\* A path to write to: no links below the root, and a last name that may be new.
resolve_filesystem_mutation_path(path) == RequestedFrom(canonicalize(Tree, RepoRoot), path)

validate_filesystem_mutation_path_scope(path) ==
  MayUse(resolve_filesystem_mutation_path(path), TRUE)

\* The second path of a diff must exist and be concrete, like the first.
validate_secondary_filesystem_path_scope(primary, path) ==
  /\ validate_filesystem_path_scope(path, TRUE)
  /\ canonicalize_within_scope(Tree, RepoRoot, primary).error = "None"

\* The destination of a move; its source must exist.
validate_secondary_filesystem_mutation_path_scope(primary, path) ==
  /\ validate_filesystem_mutation_path_scope(path)
  /\ canonicalize_within_scope(Tree, RepoRoot, primary).error = "None"

\* The canonical allowed paths, or an error when one of them cannot be resolved.
SearchRoots(resolved, root) ==
  IF \E a \in resolved : a.error # "None" THEN [error |-> "Internal"]
  ELSE IF resolved # {} THEN Ok @@ [roots |-> {a.canonical : a \in resolved}]
  ELSE IF root.error = "None" THEN Ok @@ [roots |-> {root.names}]
  ELSE [error |-> "Internal"]

allowed_search_roots_for_repository ==
  SearchRoots({canonicalize_within_scope(Tree, RepoRoot, a) : a \in AllowedPaths},
              canonicalize(Tree, RepoRoot))

NarrowedRoots(requested, allowed) ==
  LET roots == {requested.canonical : a \in {b \in allowed.roots :
                                               starts_with(requested.canonical, b)}}
               \cup {a \in allowed.roots : starts_with(a, requested.canonical)}
  IN IF requested.error # "None" THEN InvalidArgument
     ELSE IF allowed.error # "None" THEN allowed
     ELSE IF roots = {} THEN InvalidArgument
     ELSE Ok @@ [roots |-> roots]

\* A search of the path looks below these: of the path and an allowed one the narrower.
allowed_search_roots_for_request(path) ==
  NarrowedRoots(canonicalize_within_scope(Tree, RepoRoot, path),
                allowed_search_roots_for_repository)

Argument(args, name) == (CHOOSE v \in args[name] : TRUE).path

\* validate_filesystem_scope of submit_job
ScopeIsValid(tool, args, scope) ==
  LET path == scope.value.path IN
  /\ tool \in FilesystemOperations =>
       IF tool \in {"write", "patch", "move"} THEN validate_filesystem_mutation_path_scope(path)
       ELSE validate_filesystem_path_scope(path, tool \in {"read", "delete", "diff"})
  /\ tool = "diff" =>
       validate_secondary_filesystem_path_scope(path, Argument(args, "comparison_path"))
  /\ tool = "move" =>
       validate_secondary_filesystem_mutation_path_scope(path, Argument(args, "destination_path"))

----------------------------------------------------------------------------
(* The service.                                                            *)

resolve_submit_job_tool_kind(kind, scope, names) ==
  LET tool == (CHOOSE c \in names : TRUE).op IN
  IF names = {Discovery} THEN Ok @@ [tool |-> "echo"]
  ELSE IF Cardinality(names) # 1 \/ scope = {} THEN InvalidArgument @@ [tool |-> "none"]
  ELSE IF tool \in Mutations /\ (kind # "mutate" \/ \E s \in scope : s.kind = "read_only")
    THEN InvalidArgument @@ [tool |-> "none"]
  ELSE Ok @@ [tool |-> tool]

normalize_submit_job_goal(goal) == {g \in goal : ~Blank(g)}

\* Mutants: the signature leaves out the arguments, or takes the capabilities as written.
SignatureWithoutArguments(r, names, scope) ==
  [kind |-> r.kind, goal |-> normalize_submit_job_goal(r.goal), scope |-> scope, names |-> names]

\* The requester, the repository, the message and the route keys are signed as they are;
\* requests that differ in one of them are not compared here.
submit_job_request_signature(r, names, scope) ==
  [kind |-> r.kind, goal |-> normalize_submit_job_goal(r.goal), scope |-> scope,
   names |-> names, tool_args |-> r.tool_args]

Refused == InvalidArgument @@ [tool |-> "none"]

\* The checks of submit_job before the job is created, each with what the ones before it
\* found; a search has the roots it looks below.
WithRoots(r, names, where, tool, args, search) ==
  IF search.error # "None" THEN search @@ [tool |-> "none"]
  ELSE Ok @@ [roots |-> search.roots, tool |-> tool, args |-> args, scope |-> where,
              request |-> r, signature |-> submit_job_request_signature(r, names, where)]

WithArguments(r, names, where, tool, args) ==
  IF \/ args.error # "None"
     \/ \E k \in r.key : Blank(k)
     \/ ~ScopeIsValid(tool, args.args, where)
    THEN Refused
    ELSE WithRoots(r, names, where, tool, args.args,
           IF tool = "search" THEN allowed_search_roots_for_request(where.value.path)
                              ELSE Ok @@ [roots |-> {}])

WithTool(r, names, where, tool) ==
  IF tool.error # "None" THEN Refused
  ELSE WithArguments(r, names, where, tool.tool,
                     resolve_submit_job_tool_args(tool.tool, r.tool_args))

WithCapabilities(r, scope, caps) ==
  IF caps.error # "None" THEN Refused
  ELSE WithTool(r, caps.names,
                IF scope = {} THEN default_resource_scope ELSE CHOOSE s \in scope : TRUE,
                resolve_submit_job_tool_kind(r.kind, scope, caps.names))

submit_job(r) ==
  LET parsed == {parse_path_scope(s) : s \in r.path_scope}
  IN IF \E p \in parsed : p.error # "None" THEN Refused
     ELSE WithCapabilities(r, UNION {p.scope : p \in parsed},
                           normalize_requested_capabilities(r.capabilities))

\* A request that the service accepts starts a job; it comes through the transport or is
\* made on the RPC server itself.
Submit ==
  /\ requests < MaxRequests
  /\ requests' = requests + 1
  /\ \E caps \in Capabilities, scope \in Scopes, kind \in Kinds, goal \in Goals, key \in Keys,
        tool_args \in ToolArgs, http \in BOOLEAN :
       LET r == [capabilities |-> caps, path_scope |-> scope, kind |-> kind, goal |-> goal,
                 key |-> key, tool_args |-> tool_args]
       IN /\ request' = {r}
          /\ accepted' = accepted \cup
               {result \in {submit_job(r)} :
                  (http => parse_submit_job_payload(r)) /\ result.error = "None"}

Init == request = {} /\ accepted = {} /\ requests = 0

Next == Submit

Spec == Init /\ [][Next]_vars

----------------------------------------------------------------------------
(* Properties.                                                             *)

\* Where the kernel finds a path, or would create its last name.
LandingOf(parts) ==
  LET full == canonicalize(Tree, parts)
  IN IF full.error = "None" THEN full.names
     ELSE Append(canonicalize(Tree, Front(parts)).names, Last(parts))

Landing(path) ==
  LandingOf(IF path.abs THEN path.parts ELSE canonicalize(Tree, RepoRoot).names \o path.parts)

\* The paths an accepted request works on.
WorkPaths(a) ==
  IF a.tool = "echo" THEN {}
  ELSE {a.scope.value.path}
       \cup (IF a.tool = "diff" THEN {Argument(a.args, "comparison_path")} ELSE {})
       \cup (IF a.tool = "move" THEN {Argument(a.args, "destination_path")} ELSE {})

\* Every path of an accepted request, the second one of a diff or a move included, is in the
\* repository and below a path the repository allows, wherever its links and ".." lead
\* (validate_filesystem_path_scope and its variants).
PathsAreAllowed ==
  \A a \in accepted : \A path \in WorkPaths(a) :
    /\ starts_with(Landing(path), canonicalize(Tree, RepoRoot).names)
    /\ \E allowed \in AllowedPaths : starts_with(Landing(path), Landing(allowed))

\* A search looks at what lies below the path it was asked for and below a path the
\* repository allows, and at nothing else, however its roots nest
\* (allowed_search_roots_for_request).
SearchRootsAreExact ==
  \A a \in accepted : a.tool = "search" =>
    LET below(p, path) == starts_with(p, Landing(path))
        places == a.roots \cup {Landing(q) : q \in AllowedPaths \cup {a.scope.value.path}}
                  \cup {canonicalize(Tree, RepoRoot).names}
    IN \A p \in places :
         (\E r \in a.roots : starts_with(p, r))
           <=> below(p, a.scope.value.path) /\ \E q \in AllowedPaths : below(p, q)

\* A tool that is run has the texts it works with, and no argument of the request is ignored.
ArgumentsAreComplete ==
  \A a \in accepted :
    LET needs == CASE a.tool = "search" -> {"pattern"} [] a.tool = "patch" -> {"pattern"}
                   [] a.tool = "move" -> {"destination_path"}
                   [] a.tool = "diff" -> {"comparison_path"} [] OTHER -> {}
        uses  == CASE a.tool = "search" -> {"pattern", "max"}
                   [] a.tool = "write" -> {"content", "allow_overwrite", "max_bytes"}
                   [] a.tool = "patch" -> {"pattern", "replacement_text", "max_bytes"}
                   [] a.tool = "move" -> {"destination_path", "allow_overwrite"}
                   [] a.tool = "diff" -> {"comparison_path", "max_bytes", "max_chars"}
                   [] OTHER -> {}
    IN \A args \in a.request.tool_args :
         /\ Given(args) \subseteq uses
         /\ \A n \in needs : ~BlankOrNone(args, n)

\* A request that writes was declared as a mutation and does not claim a read-only scope,
\* under whatever name its capability came (resolve_submit_job_tool_kind).
WritesAreDeclared ==
  \A a \in accepted :
    a.tool \in Mutations => /\ a.request.kind = "mutate"
                            /\ \A s \in a.request.path_scope : s.kind # "read_only"

\* The transport and the service, which check arguments in two places, agree on every
\* request with one capability.
ValidatorsAgree ==
  \A r \in request :
    LET caps == normalize_requested_capabilities(r.capabilities)
        tool == IF caps.names = {Discovery} THEN "echo" ELSE (CHOOSE c \in caps.names : TRUE).op
    IN caps.error = "None" /\ Cardinality(caps.names) = 1 =>
         (validate_submit_job_tool_args_for_capabilities(r.tool_args, r.capabilities)
            <=> resolve_submit_job_tool_args(tool, r.tool_args).error = "None")

\* Two accepted requests with the same signature run the same tool on the same scope with
\* the same arguments: the receipt of one may stand for the other under their key.
EqualSignaturesRunAlike ==
  \A a, b \in accepted :
    a.signature = b.signature => <<a.tool, a.scope, a.args>> = <<b.tool, b.scope, b.args>>

\* Requests that differ in how they spell, repeat or order capabilities, in leaving out
\* the default scope of a discovery, or in a blank goal have the same signature: a
\* requester's retry is recognised however it is spelled (submit_job_request_signature).
SpellingIsIgnored ==
  \A a, b \in accepted :
    /\ <<a.tool, a.scope, a.args>> = <<b.tool, b.scope, b.args>>
    /\ a.request.kind = b.request.kind
    /\ normalize_submit_job_goal(a.request.goal) = normalize_submit_job_goal(b.request.goal)
    => a.signature = b.signature

\* A request is accepted only with paths the repository allows, complete arguments and a
\* declared kind, and its signature stands for what it runs: the properties above together.
RequestsAreUnderstood ==
  /\ PathsAreAllowed /\ SearchRootsAreExact /\ ArgumentsAreComplete /\ WritesAreDeclared
  /\ ValidatorsAgree /\ EqualSignaturesRunAlike /\ SpellingIsIgnored
=============================================================================
