------------------------------ MODULE MCOutput ------------------------------
(* What tools return: results bounded, spilled and rendered, and the artifact *)
(* store with the paths of its files.  They share no state here, so a         *)
(* behaviour follows one of them, its part.                                   *)
EXTENDS Artifacts, FiniteSetsExt, SequencesExt, TLC

VARIABLES
  part,
  fs, root_dir, rows, last, moves,                          \* ArtifactPaths
  result, defaults, stored, artifacts, ran, answer, updates \* ToolOutput

pathVars == <<fs, root_dir, rows, last, moves>>

outputVars == <<result, defaults, stored, artifacts, ran, answer, updates>>

-----------------------------------------------------------------------------
\* Two actors spill, write and expire in one scope, where nothing is retained.
Races == INSTANCE Artifacts WITH
  Scope <- {"r1"}, Metadata <- {}, MaxFields <- 2, MaxTime <- 0, MaxFaults <- 1,
  MaxCrashes <- 0, Retention <- 0

\* One actor in two scopes, whose artifacts may belong to a project.
Lookups == INSTANCE Artifacts WITH
  Actor <- {"a1"},
  Metadata <- {[repository_id |-> r, project_id |-> p] : r \in {{}, {"r1"}}, p \in {{}, {"p1"}}},
  MaxFields <- 1, MaxTime <- 0, MaxFaults <- 0, MaxCrashes <- 0, Retention <- 1

\* The retention policy over two scopes, with crashes and errors; one actor works.
Retains == INSTANCE Artifacts WITH
  Metadata <- {}, MaxFields <- 1, MaxTime <- 1, MaxFaults <- 1, MaxCrashes <- 1, Retention <- 1

RetainsNext == Retains!Next /\ ops'["a2"] = Idle

-----------------------------------------------------------------------------
Trees == INSTANCE Filesystem WITH Root <- "root", MaxWalk <- 10

\* A store at /home/store that may be moved to /disk/store or /disk/old.
StoreTree ==
  [i \in {"root", "home", "disk", "attic", "store"} |->
     CASE i = "root" -> Trees!Dir([n \in {"home", "disk"} |-> n])
       [] i = "home" -> Trees!Dir([n \in {"store"} |-> "store"])
       [] i = "disk" -> Trees!Dir([n \in {"attic"} |-> "attic"])
       [] OTHER -> Trees!Dir(<< >>)]

Paths == INSTANCE ArtifactPaths WITH
  index <- rows, Root <- "root", MaxWalk <- 10, Id <- {"o1", "o2"}, Scope <- {"s1", "s2"},
  FileName <- [id \in {"o1", "o2"} |-> id \o "-output.artifact"], InitialTree <- StoreTree,
  InitialRoot <- <<"home", "store">>, Places <- {<<"disk", "store">>, <<"disk", "old">>},
  Attic <- <<"disk", "attic">>, MaxMoves <- 2

-----------------------------------------------------------------------------
Value(kind, texts) == [kind |-> kind, texts |-> texts, ref |-> {}]

Field(key, value) == [key |-> key, value |-> value]

Narrow(n) == [i \in 1..n |-> 1]

\* Texts of narrow characters, and of characters two bytes wide.
Strings == {Value("string", <<t>>) : t \in {Narrow(5), <<1, 2, 2>>}}

\* Lists: with empty strings, with wide characters, at and over the budgets.
Lists == {Value("list", ts) :
            ts \in {<< << >>, Narrow(6)>>, << <<2, 2>>, << >>, Narrow(2)>>}}

Result(fields, refs, redactions, truncation, schema) ==
  [fields |-> fields, evidence_refs |-> refs, output_refs |-> IF refs = 0 THEN {} ELSE {0},
   redactions |-> redactions, truncation |-> truncation, schema_ref |-> schema]

Other == Value("other", << >>)

\* Fields of every channel around a text and a list, cut by the tool itself or not.
TextResults ==
  {Result(<<Field("exit", Other), Field("summary", s), Field("lines", l)>>, 0, 0, t, FALSE) :
     s \in Strings, l \in Lists, t \in {{}, {[original_bytes |-> 9, retained_bytes |-> 4]}}}

SectionResults ==
  {Result(fs1, n, m, {}, x) :
     fs1 \in {<<Field("exit", Other), Field("cost", Other),
                Field("summary", Value("string", <<Narrow(5)>>))>>,
              <<Field("needs_approval", Other), Field("diagnostics", Other),
                Field("exit", Other), Field("summary", Value("string", <<Narrow(2)>>))>>},
     n \in 0..1, m \in {0, 2}, x \in {TRUE}}

Default(format, include, bytes, lines, v, g, o) ==
  [render_options |-> [format |-> format, include |-> include], max_inline_bytes |-> bytes,
   max_inline_lines |-> lines, verbosity |-> v, granularity |-> g, oversize_policy |-> o]

TextDefaults ==
  {Default("Toon", {}, bytes, 20, "Normal", "KeyFields", o) :
     bytes \in {2, 4}, o \in {"TruncateWithMetadata", "SpillToArtifactRef", "RejectOversize"}}

\* Lines around the prelude and around each section, and every verbosity.
SectionDefaults ==
  {Default("Toon", {"Policy", "Cost"}, 3, lines, "Debug", g, "TruncateWithMetadata") :
     lines \in {1, 7, 9, 12}, g \in {"Summary", "Full"}}
  \cup {Default("Toon", {"Policy", "Cost"}, 3, 20, v, "Full", "TruncateWithMetadata") :
          v \in {"Minimal", "Normal", "Expanded"}}

Budgets == INSTANCE ToolOutput WITH
  Results <- TextResults, Defaults <- TextDefaults,
  Options <- {{}, {[format |-> "Json", include |-> {"Cost"}]}}, Spillovers <- {{}, {2}},
  RefBytes <- 3, MaxUpdates <- 1

Layouts == INSTANCE ToolOutput WITH
  Results <- SectionResults, Defaults <- SectionDefaults, Options <- {{}}, Spillovers <- {{}},
  RefBytes <- 3, MaxUpdates <- 0

-----------------------------------------------------------------------------
\* Where a part rests: a real initial state of it.
MCInit ==
  /\ part \in {"races", "lookups", "retains", "paths", "budgets", "layouts"}
  /\ Init
  /\ Paths!Init
  /\ CASE part = "budgets" -> Budgets!Init
       [] part = "layouts" -> Layouts!Init
       [] OTHER -> /\ result = CHOOSE r \in TextResults : TRUE
                   /\ defaults = CHOOSE d \in TextDefaults : TRUE
                   /\ stored = {} /\ artifacts = {} /\ ran = {} /\ answer = {} /\ updates = 0

MCNext ==
  /\ \/ part = "races" /\ Races!Next /\ UNCHANGED <<pathVars, outputVars>>
     \/ part = "lookups" /\ Lookups!Next /\ UNCHANGED <<pathVars, outputVars>>
     \/ part = "retains" /\ RetainsNext /\ UNCHANGED <<pathVars, outputVars>>
     \/ part = "paths" /\ Paths!Next /\ UNCHANGED <<vars, outputVars>>
     \/ part = "budgets" /\ Budgets!Next /\ UNCHANGED <<vars, pathVars>>
     \/ part = "layouts" /\ Layouts!Next /\ UNCHANGED <<vars, pathVars>>
  /\ UNCHANGED part

MCSpec == MCInit /\ [][MCNext]_<<part, vars, pathVars, outputVars>>

-----------------------------------------------------------------------------
\* Moves and links do not part an artifact from its file (validate_record_path,
\* validate_expiration_record_path, delete_artifact).
PathsKeepTheirArtifact == Paths!PathsKeepTheirArtifact

\* What is shown of a result is within its budgets, is what the run stored, and tells what
\* is missing (runtime.rs, tool_output.rs, render_tool_output).
AnswersTellTheResult == Budgets!AnswersTellTheResult
=============================================================================
