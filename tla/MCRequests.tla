----------------------------- MODULE MCRequests -----------------------------
(* What clients ask of the daemon: the registration of repositories and the   *)
(* policy about them, their listing in pages, and the requests of jobs.  The  *)
(* parts share no state, so a behaviour follows one of them.                  *)
EXTENDS Repositories

CONSTANTS k1, k2, c1

VARIABLES
  part,
  listed, walks,                \* RepositoryPages
  request, accepted, requests   \* SubmitRequest

listVars == <<listed, walks>>

submitVars == <<request, accepted, requests>>

-----------------------------------------------------------------------------
(* Registrations.  A repository "a", one nested in it, "a/b", one beside      *)
(* them, "c", a link "l" to "a", and a plain directory "d" without .git.      *)

RegisteredTree ==
  [i \in {"root", "a", "b", "c", "d", "l", "g"} |->
     CASE i = "root" -> Dir([a |-> "a", c |-> "c", d |-> "d", l |-> "l"])
       [] i = "a" -> Dir((".git" :> "g") @@ ("b" :> "b"))
       [] i = "b" -> Dir(".git" :> "g")
       [] i = "c" -> Dir(".git" :> "g")
       [] i = "d" -> Dir(<<>>)
       [] i = "l" -> Link(Path(TRUE, <<"a">>))
       [] i = "g" -> Dir(<<>>)]

Registration(name, parts, trust, scope) ==
  [display_name |-> name, root_path |-> Path(TRUE, parts), trust_state |-> trust,
   allowed_scope |-> scope]

\* Two clients that meet on "a" and "a/b".
MeetingRequests ==
  {Registration("named", <<"a">>, "Trusted", {}),
   Registration("other", <<"l">>, "Blocked", {}),
   Registration("named", <<"l", "b">>, "ReadOnly", {{Path(TRUE, <<"a", "b">>)}}),
   Registration("named", <<"a", "b">>, "Blocked", {{}})}

\* One client that names every kind of root and asks about policies.
PreviewRequests ==
  {Registration("named", <<"a">>, "Blocked", {}), Registration("named", <<"a">>, "ReadOnly", {}),
   Registration("named", <<"c">>, "ReadOnly", {}), Registration("named", <<"c">>, "Trusted", {}),
   Registration("named", <<"d">>, "Trusted", {}), Registration("blank", <<"c">>, "Trusted", {}),
   Registration("named", <<"l", "b">>, "ReadOnly", {{Path(FALSE, <<"..">>)}})}

DecisionScopes ==
  {[kind |-> "repository", value |-> "."], [kind |-> "repository", value |-> "src"]}

OtherDecisions == {[outcome |-> "Blocked", reason_code |-> "repository_blocked"]}

MovedDirectories == {[dir |-> "a", name |-> "b", inode |-> "b"]}

Previewing == INSTANCE Repositories WITH
  Client <- {k1}, Requests <- PreviewRequests, Directories <- {}, MaxRepositories <- 2,
  MaxDecisions <- 1,
  Capabilities <- {"fs.read", "fs.write", "proc.run", "status", "secrets.access"},
  Previews <- {"fs.diff", "filesystem.patch", "process.exec", "health", "secret.read", "blank"}

-----------------------------------------------------------------------------
(* Lists: every path scope, and pages while repositories are registered.      *)

Scoped == INSTANCE RepositoryPages WITH
  repositories <- listed, Ids <- {1, 2}, Roots <- {"/r", "/s"}, Inside <- {"src", "docs"},
  Outside <- {"gone"}, Clients <- {}, PageSizes <- {},
  Scopes <- [kind : {"unspecified", "repository", "explicit_paths", "read_only"},
             roots : UNION {[1 .. n -> {".", "/r", "/s", "src", "docs", "gone"}] : n \in 0 .. 2},
             patterns : BOOLEAN]

Paged == INSTANCE RepositoryPages WITH
  repositories <- listed, Ids <- {1, 2, 3}, Roots <- {"/r", "/s", "/t"}, Inside <- {},
  Outside <- {}, Clients <- {c1}, PageSizes <- {0, 1, 2},
  Scopes <- {[kind |-> k, roots |-> << >>, patterns |-> FALSE] : k \in {"repository", "read_only"}}

-----------------------------------------------------------------------------
(* Requests.  A repository "r" that allows its directory "src" alone: "src/l" *)
(* is a link to "r/out", "src/m" one to "src/d", "src/x" one out of it.       *)

RequestTree ==
  [i \in {"root", "r", "src", "out", "d", "o", "f", "g", "l", "m", "x"} |->
     CASE i = "root" -> Dir([r |-> "r", o |-> "o"])
       [] i = "r" -> Dir([src |-> "src", out |-> "out"])
       [] i = "src" -> Dir([f |-> "f", d |-> "d", l |-> "l", m |-> "m", x |-> "x"])
       [] i = "out" -> Dir([g |-> "g"])
       [] i = "d" -> Dir(<<>>)
       [] i = "o" -> Dir(<<>>)
       [] i = "f" -> File("text")
       [] i = "g" -> File("text")
       [] i = "l" -> Link(Path(FALSE, <<"..", "out">>))
       [] i = "m" -> Link(Path(FALSE, <<"d">>))
       [] i = "x" -> Link(Path(TRUE, <<"o">>))]

C(prefix, op) == [prefix |-> prefix, op |-> op]

Discovery == C("capability", "discovery")

Scope(kind, roots, patterns) == {[kind |-> kind, roots |-> roots, patterns |-> patterns]}

Text(form, path) == [form |-> form, path |-> path]

P(parts) == Text("path", Path(FALSE, parts))

DotText == Text("dot", Path(FALSE, <<>>))

BlankText == Text("blank", Path(FALSE, <<>>))

Some == {Text("set", Path(FALSE, <<>>))}

Args(pattern, max, content, dest, over, repl, comp, bytes, chars) ==
  {[pattern |-> pattern, max |-> max, content |-> content, destination_path |-> dest,
    allow_overwrite |-> over, replacement_text |-> repl, comparison_path |-> comp,
    max_bytes |-> bytes, max_chars |-> chars]}

\* Every combination of arguments.
EveryCapability ==
  {<<>>, <<Discovery>>, <<C("other", "thing")>>, <<C("fs", "read"), C("filesystem", "write")>>}
  \cup {<<C(p, op)>> : p \in {"fs", "filesystem"},
          op \in {"read", "list", "stat", "delete", "write", "patch", "move", "search", "diff"}}

EveryArgument ==
  {{}} \cup {Args(pa, m, c, d, o, re, co, b, ch) :
    pa \in {{}, {BlankText}, Some}, d \in {{}, {BlankText}, {P(<<"src", "n">>)}},
    co \in {{}, {BlankText}, {P(<<"src", "f">>)}},
    m \in {{}, Some}, c \in {{}, Some}, o \in {{}, Some}, re \in {{}, Some}, b \in {{}, Some},
    ch \in {{}, Some}}

FileScope == Scope("explicit_paths", <<P(<<"src", "f">>)>>, FALSE)

Argued == INSTANCE SubmitRequest WITH
  MaxWalk <- 8, Tree <- RequestTree, RepoRoot <- <<"r">>,
  AllowedPaths <- {Path(FALSE, <<"src">>)}, Capabilities <- EveryCapability,
  Scopes <- {{}, FileScope}, ToolArgs <- EveryArgument, Kinds <- {"mutate"}, Goals <- {{}},
  Keys <- {{}}, MaxRequests <- 1

\* Every kind of scope.
EveryScope ==
  {{}, Scope("none", <<>>, FALSE), Scope("none", <<P(<<"src">>)>>, FALSE),
   Scope("unspecified", <<>>, FALSE), Scope("unspecified", <<P(<<"src", "f">>)>>, FALSE),
   Scope("explicit_paths", <<P(<<"src", "f">>)>>, TRUE), Scope("wrong", <<>>, FALSE),
   Scope("repository", <<DotText>>, FALSE), Scope("repository", <<BlankText>>, FALSE),
   Scope("repository", <<P(<<"src">>), P(<<"src">>)>>, FALSE), FileScope,
   Scope("read_only", <<P(<<"src", "f">>)>>, FALSE)}

FewArguments ==
  {{}, Args(Some, {}, {}, {}, {}, {}, {}, {}, {}), Args(Some, Some, {}, {}, {}, {}, {}, {}, {}),
   Args({}, {}, {}, {P(<<"src", "n">>)}, {}, {}, {}, {}, {})}

Framed == INSTANCE SubmitRequest WITH
  MaxWalk <- 8, Tree <- RequestTree, RepoRoot <- <<"r">>,
  AllowedPaths <- {Path(FALSE, <<"src">>)}, Capabilities <- EveryCapability,
  Scopes <- EveryScope, ToolArgs <- FewArguments, Kinds <- {"read", "mutate"}, Goals <- {{}},
  Keys <- {{}, Some, {BlankText}}, MaxRequests <- 1

\* Every path of up to three names.
EveryPath ==
  {P(p) : p \in UNION {[1..n -> {"src", "f", "l", "m", "x", "out", "..", "n"}] : n \in 1..3}}
  \cup {Text("path", Path(TRUE, p)) :
          p \in {<<"r", "src", "f">>, <<"r", "out", "n">>, <<"o", "n">>, <<"r", "src", "n">>}}

SomePaths ==
  {P(p) : p \in {<<"src", "n">>, <<"src", "d">>, <<"src", "l", "n">>, <<"out", "n">>,
                 <<"src", "m", "n">>, <<"src", "..", "out", "n">>, <<"src">>, <<"..">>}}

PathArguments ==
  {{}, Args({}, {}, Some, {}, {}, {}, {}, {}, {}), Args(Some, {}, {}, {}, {}, {}, {}, {}, {})}
  \cup {Args({}, {}, {}, {p}, {}, {}, {}, {}, {}) : p \in SomePaths}
  \cup {Args({}, {}, {}, {}, {}, {}, {p}, {}, {}) : p \in SomePaths}

Led == INSTANCE SubmitRequest WITH
  MaxWalk <- 8, Tree <- RequestTree, RepoRoot <- <<"r">>,
  AllowedPaths <- {Path(FALSE, <<"src">>)},
  Capabilities <- {<<C("fs", op)>> : op \in {"list", "read", "write", "diff", "move"}},
  Scopes <- {Scope("explicit_paths", <<p>>, FALSE) : p \in EveryPath},
  ToolArgs <- PathArguments, Kinds <- {"mutate"}, Goals <- {{}}, Keys <- {{}}, MaxRequests <- 1

\* Searches where the allowed paths nest.
Searching == INSTANCE SubmitRequest WITH
  MaxWalk <- 8, Tree <- RequestTree, RepoRoot <- <<"r">>,
  AllowedPaths <- {Path(FALSE, <<"src">>), Path(FALSE, <<"src", "m">>)},
  Capabilities <- {<<C("fs", "search")>>},
  Scopes <- {Scope("explicit_paths", <<p>>, FALSE) : p \in EveryPath},
  ToolArgs <- {Args(Some, {}, {}, {}, {}, {}, {}, {}, {})}, Kinds <- {"mutate"},
  Goals <- {{}}, Keys <- {{}}, MaxRequests <- 1

\* Pairs of requests.
Signed == INSTANCE SubmitRequest WITH
  MaxWalk <- 8, Tree <- RequestTree, RepoRoot <- <<"r">>,
  AllowedPaths <- {Path(FALSE, <<"src">>)},
  Capabilities <- {<<>>, <<Discovery>>, <<Discovery, Discovery>>, <<C("fs", "search")>>,
                   <<C("filesystem", "search"), C("fs", "search")>>},
  Scopes <- {{}, Scope("repository", <<>>, FALSE), Scope("repository", <<P(<<"src">>)>>, FALSE),
             Scope("explicit_paths", <<P(<<"src", "d">>)>>, FALSE)},
  ToolArgs <- {{}, Args(Some, {}, {}, {}, {}, {}, {}, {}, {}),
               Args(Some, Some, {}, {}, {}, {}, {}, {}, {})},
  Kinds <- {"read"}, Goals <- {{}, {BlankText}, Some}, Keys <- {{}}, MaxRequests <- 2

-----------------------------------------------------------------------------
MCInit ==
  /\ part \in {"meeting", "previewing", "scoped", "paged", "argued", "framed", "led", "searching", "signed"}
  /\ Init
  /\ IF part = "paged" THEN Paged!Init ELSE Scoped!Init
  /\ Argued!Init

MCNext ==
  /\ \/ /\ \/ part = "meeting" /\ Next
           \/ part = "previewing" /\ Previewing!Next
        /\ UNCHANGED <<listVars, submitVars>>
     \/ /\ \/ part = "scoped" /\ Scoped!Next
           \/ part = "paged" /\ Paged!Next
        /\ UNCHANGED <<vars, submitVars>>
     \/ /\ \/ part = "argued" /\ Argued!Next
           \/ part = "framed" /\ Framed!Next
           \/ part = "led" /\ Led!Next
           \/ part = "searching" /\ Searching!Next
           \/ part = "signed" /\ Signed!Next
        /\ UNCHANGED <<vars, listVars>>
  /\ UNCHANGED part

\* A client that has started a walk asks for the next page.
MCSpec ==
  /\ MCInit
  /\ [][MCNext]_<<part, vars, listVars, submitVars>>
  /\ WF_listVars(part = "paged" /\ Paged!list_repositories(c1))

-----------------------------------------------------------------------------
\* A request is accepted only with paths the repository allows, complete arguments and a
\* declared kind, and its signature stands for what it runs (submit_job, the validators of
\* the service and of the transport).
RequestsAreUnderstood ==
  IF part = "searching" THEN Searching!RequestsAreUnderstood ELSE Argued!RequestsAreUnderstood

\* A listed scope can be registered again as it is listed; a walk through the pages returns
\* every repository there was at its start, although registrations move the offsets that
\* page tokens stand for, and it ends (rpc_path_scope_from_record, paginate_records).
ListsAreComplete ==
  /\ [](part = "scoped" => Scoped!ScopesRoundTrip)
  /\ [](part = "paged" => Paged!WalksMissNothing)
  /\ part = "paged" /\ walks[c1].step = "walking" ~> part = "paged" /\ walks[c1].step = "done"
=============================================================================
