------------------------------ MODULE ReadTools -----------------------------
(***************************************************************************)
(* The tools that only look: fs.list, fs.stat, fs.read, fs.diff and        *)
(* fs.search of atelia-core/src/tools.rs.  A call resolves its path first  *)
(* and uses it afterwards, while other programs change the tree.  A text   *)
(* is a sequence of lines: "hit" holds the pattern of a search, "bad" is   *)
(* not UTF-8.  What a window or a diff shows of a text is in TextWindow.   *)
(***************************************************************************)
EXTENDS Filesystem, FiniteSetsExt

CONSTANTS Calls,           \* the tool calls clients make
          RepositoryRoot,  \* parts of the registered root
          InitialTree,
          Edits,           \* [dir, name, inode]: what others may do to an entry; without
                           \* an inode the entry goes
          MaxEdits,        \* bound: such changes
          ArtifactPath,    \* where the artifact store keeps each output
          MaxDepth,        \* bound: depth of the tree
          MaxFileBytes     \* largest file that is read or searched

VARIABLES fs, run, edits, within

vars == <<fs, run, edits, within>>

NoCounts == [matches |-> <<>>, files_searched |-> 0, files_skipped |-> 0,
             truncated |-> FALSE, total |-> 0]

Idle == [step |-> "idle", call |-> <<>>, paths |-> <<>>, fd |-> {}, opened |-> <<>>,
         expected |-> {}, expected_path |-> <<>>, read |-> <<>>, kinds |-> <<>>,
         frames |-> <<>>, entry |-> <<>>, visited |-> {}, counts |-> NoCounts,
         resolved |-> 0, looked |-> {}, status |-> "none"]

----------------------------------------------------------------------------
(* The tree as the tools use it.                                           *)

\* The paths of an inode that lead over no link.
PathsOf(tree, inode) ==
  LET entries(e) == {<<Append(e[1], n), tree[e[2]].entries[n]>> : n \in DOMAIN tree[e[2]].entries}
      grow(es)   == es \cup UNION {entries(e) : e \in {d \in es : tree[d[2]].type = "dir"}}
      all        == FoldLeft(LAMBDA es, i : grow(es), {<<<<>>, Root>>}, [i \in 1..MaxDepth |-> i])
  IN {e[1] : e \in {d \in all : d[2] = inode}}

\* The inodes under the repository root.
Within(tree) ==
  {i \in DOMAIN tree : \E p \in PathsOf(tree, i) : starts_with(p, RepositoryRoot)}

\* A final link is not opened; links before it are followed.
open_file_no_follow(tree, path) ==
  LET w == symlink_metadata(tree, path)
  IN IF w.error = "None" /\ tree[w.inode].type # "link" THEN {w.inode} ELSE {}

is_dir(tree, path) == LET w == canonicalize(tree, path) IN w.error = "None" /\ tree[w.inode].type = "dir"

is_file(tree, path) == LET w == canonicalize(tree, path) IN w.error = "None" /\ tree[w.inode].type = "file"

is_within_allowed_roots(path, roots) == \E root \in roots : starts_with(path, root)

is_within_or_ancestor_of_allowed_root(path, roots) ==
  \E root \in roots : starts_with(path, root) \/ starts_with(root, path)

----------------------------------------------------------------------------
Go(new) ==
  /\ run' = new
  /\ UNCHANGED <<fs, edits, within>>

failed_result == [Idle EXCEPT !.status = "Failed", !.call = run.call]

make_tool_result(new) ==
  [new EXCEPT !.step = "idle", !.status = "Succeeded", !.fd = {}, !.frames = <<>>,
              !.visited = {}, !.entry = <<>>, !.resolved = 0]

Start ==
  /\ run.step = "idle" /\ run.status = "none"
  /\ \E c \in Calls : run' = [Idle EXCEPT !.step = "resolve", !.call = c]
  /\ within' = Within(fs)
  /\ UNCHANGED <<fs, edits>>

\* The paths a call names, each resolved inside the root (fs.diff has two).
Resolved(c) ==
  [i \in DOMAIN c.paths |-> canonicalize_within_scope(fs, RepositoryRoot, c.paths[i])]

\* What an artifact reference leads to: the path recorded for the invocation when the
\* store still agrees, and the store's own otherwise.
resolve_target_for_request(c) ==
  LET stored == ArtifactPath[c.artifact]
  IN IF stored # <<>> /\ c.recorded = stored THEN c.recorded ELSE stored

Resolve ==
  /\ run.step = "resolve"
  /\ \/ /\ run.call.tool = "artifact"
        /\ LET path == resolve_target_for_request(run.call)
           IN Go(IF path = <<>> THEN failed_result
                 ELSE [run EXCEPT !.step = "metadata", !.paths = <<[canonical |-> path]>>])
     \/ /\ run.call.tool # "artifact"
        /\ LET r == Resolved(run.call)
           IN Go(IF \E i \in DOMAIN r : r[i].error # "None" THEN failed_result
                 ELSE [run EXCEPT !.step = run.call.tool, !.paths = r, !.resolved = edits])

\* History: what a path led to when it was used, and whether the tree has changed since it
\* was resolved.
Look(inode) == [inode |-> inode, exchanged |-> edits # run.resolved]

Here == Head(run.paths).canonical

----------------------------------------------------------------------------
(* fs.list and fs.stat.                                                    *)

\* What read_dir yields, links not followed.
EntryKinds(tree, dir) ==
  [n \in DOMAIN tree[dir].entries |-> tree[tree[dir].entries[n]].type]

FsListTool ==
  /\ run.step = "list"
  /\ LET dir == canonicalize(fs, Here).inode
     IN Go(IF ~is_dir(fs, Here) THEN failed_result
           ELSE make_tool_result([run EXCEPT !.kinds = EntryKinds(fs, dir),
                                             !.looked = {Look(dir)}]))

FsStatTool ==
  /\ run.step = "stat"
  /\ LET w == symlink_metadata(fs, Here)
     IN Go(IF w.error # "None" THEN failed_result
           ELSE make_tool_result([run EXCEPT !.kinds = [n \in {"path"} |-> fs[w.inode].type],
                                             !.looked = {Look(w.inode)}]))

----------------------------------------------------------------------------
(* fs.read and fs.diff: open, check what was opened, read.                 *)

OpenFile ==
  /\ run.step \in {"read", "diff"}
  /\ LET fd == open_file_no_follow(fs, Here)
     IN Go(IF fd = {} THEN failed_result ELSE [run EXCEPT !.step = "opened", !.fd = fd])

\* Mutant: what was opened is taken as it is.
TrustOpened ==
  /\ run.step = "opened"
  /\ Go([run EXCEPT !.step = "file"])

\* open_canonical_file_within_scope: the path of the descriptor is inside the root.
CheckOpened ==
  /\ run.step = "opened"
  /\ LET paths == UNION {PathsOf(fs, i) : i \in run.fd}
     IN Go(IF \E p \in paths : starts_with(p, Head(run.paths).root)
             THEN [run EXCEPT !.step = "file"] ELSE failed_result)

\* open_artifact_file_within_scope: the file and its path before the open...
ArtifactMetadata ==
  /\ run.step = "metadata"
  /\ LET w == canonicalize(fs, Here)
     IN Go(IF w.error # "None" THEN failed_result
           ELSE [run EXCEPT !.step = "artifact_path", !.expected = {w.inode}])

ArtifactCanonical ==
  /\ run.step = "artifact_path"
  /\ LET w == canonicalize(fs, Here)
     IN Go(IF w.error # "None" THEN failed_result
           ELSE [run EXCEPT !.step = "artifact_open", !.expected_path = w.names])

\* ... and the descriptor has to be that file
ArtifactOpen ==
  /\ run.step = "artifact_open"
  /\ LET fd == open_file_no_follow(fs, Here)
     IN Go(IF fd = {} \/ fd # run.expected THEN failed_result
           ELSE [run EXCEPT !.step = "artifact_check", !.fd = fd])

\* ... at that path.
ArtifactCheck ==
  /\ run.step = "artifact_check"
  /\ LET paths == UNION {PathsOf(fs, i) : i \in run.fd}
     IN Go(IF run.expected_path \in paths THEN [run EXCEPT !.step = "file"] ELSE failed_result)

\* A text file within the limit is read; fs.diff goes on to its second file.
ReadFile ==
  /\ run.step = "file"
  /\ LET inode == CHOOSE i \in run.fd : TRUE
         more  == Len(run.paths) > 1
         new   == [run EXCEPT !.read = Append(@, inode), !.fd = {}, !.paths = Tail(@)]
     IN Go(IF fs[inode].type # "file" \/ Len(fs[inode].text) > MaxFileBytes
             \/ \E i \in DOMAIN fs[inode].text : fs[inode].text[i] = "bad"
             THEN failed_result
           ELSE IF more THEN [new EXCEPT !.step = "diff"]
           ELSE make_tool_result(new))

----------------------------------------------------------------------------
(* fs.search.                                                              *)

Roots(c, root) == IF c.roots = {} THEN {root} ELSE c.roots

\* The lines of a file up to the first that is not UTF-8.
Readable(text) ==
  \A i \in DOMAIN text : text[i] # "bad"

Hits(text) == {i \in DOMAIN text : text[i] = "hit"}

\* Matches are kept up to the limit and counted beyond it.
search_file(path, text, max, counts) ==
  LET new  == SetToSortSeq(Hits(text), <)
      room == Max({0, max - Len(counts.matches)})
  IN [counts EXCEPT
        !.matches = @ \o [i \in 1..Min({room, Len(new)}) |-> <<path, new[i]>>],
        !.truncated = @ \/ Len(new) > room,
        !.total = @ + Len(new)]

\* A file that is too large is skipped.
Skipped(counts) == [counts EXCEPT !.files_skipped = @ + 1]

Frame(tree, dir) ==
  [dir |-> dir, left |-> DOMAIN tree[canonicalize(tree, dir).inode].entries]

FsSearchTool ==
  /\ run.step = "search"
  /\ LET roots == Roots(run.call, Head(run.paths).root)
         text  == fs[canonicalize(fs, Here).inode].text
     IN Go(IF is_file(fs, Here) THEN
             IF ~is_within_allowed_roots(Here, roots) THEN failed_result
             ELSE IF Len(text) > MaxFileBytes
               THEN make_tool_result([run EXCEPT !.counts = Skipped(@)])
             ELSE [run EXCEPT !.step = "open", !.entry = Here]
           ELSE IF is_dir(fs, Here) THEN
             [run EXCEPT !.step = "entries", !.frames = <<Frame(fs, Here)>>,
                         !.visited = {Here}]
           ELSE make_tool_result(run))

\* search_recursive takes the next entry, in the order of the directory.
SearchEntry ==
  /\ run.step = "entries"
  /\ run.frames # <<>> /\ Last(run.frames).left # {}
  /\ \E n \in Last(run.frames).left :
       LET rest == [run EXCEPT !.frames[Len(run.frames)].left = @ \ {n}]
           w    == canonicalize(fs, Append(Last(run.frames).dir, n))
       IN Go(IF w.error # "None" \/ ~starts_with(w.names, Head(run.paths).root)
               THEN rest
               ELSE [rest EXCEPT !.step = "visit", !.entry = w.names, !.resolved = edits])

SearchVisit ==
  /\ run.step = "visit"
  /\ LET roots == Roots(run.call, Head(run.paths).root)
         w     == canonicalize(fs, run.entry)
         back  == [run EXCEPT !.step = "entries", !.entry = <<>>]
     IN Go(IF w.error # "None" THEN failed_result
           ELSE IF fs[w.inode].type = "dir" THEN
             IF ~is_within_or_ancestor_of_allowed_root(run.entry, roots)
                \/ run.entry \in run.visited
               THEN back
               ELSE [back EXCEPT !.visited = @ \cup {run.entry},
                                 !.frames = Append(@, Frame(fs, run.entry))]
           ELSE IF ~is_within_allowed_roots(run.entry, roots) THEN back
           ELSE IF Len(fs[w.inode].text) > MaxFileBytes THEN [back EXCEPT !.counts = Skipped(@)]
           ELSE [run EXCEPT !.step = "open"])

\* search_file opens the path, over links.  A file that turns out not to be one of text
\* fails a search of that file alone; a search of a directory takes back what it counted.
SearchOpen ==
  /\ run.step = "open"
  /\ \E w \in {canonicalize(fs, run.entry)} :
       LET back == [run EXCEPT !.step = "entries", !.entry = <<>>]
           new  == [back EXCEPT
                      !.counts = [search_file(run.entry, fs[w.inode].text, run.call.max, @) EXCEPT
                                    !.files_searched = @ + 1],
                      !.looked = @ \cup {Look(w.inode)}]
       IN Go(IF w.error = "None" /\ fs[w.inode].type = "file" /\ Readable(fs[w.inode].text)
               THEN IF run.frames = <<>> THEN make_tool_result(new) ELSE new
             ELSE IF run.frames = <<>> THEN failed_result
             ELSE [back EXCEPT !.counts = Skipped(@)])

SearchReturn ==
  /\ run.step = "entries"
  /\ run.frames # <<>> /\ Last(run.frames).left = {}
  /\ Go(IF Len(run.frames) = 1 THEN make_tool_result(run)
        ELSE [run EXCEPT !.frames = Front(@)])

----------------------------------------------------------------------------
(* Another program changes an entry of a directory, until the call has     *)
(* returned.                                                               *)

Edit ==
  /\ edits < MaxEdits /\ run.status = "none"
  /\ \E e \in Edits :
       /\ fs' = [fs EXCEPT ![e.dir].entries =
                   [n \in (DOMAIN @ \ {e.name}) \cup {e.name : i \in e.inode} |->
                      IF n = e.name THEN CHOOSE i \in e.inode : TRUE ELSE @[n]]]
       /\ fs' # fs
  /\ edits' = edits + 1
  /\ within' = within \cup Within(fs')
  /\ UNCHANGED run

Init ==
  /\ fs = InitialTree
  /\ run = Idle
  /\ edits = 0
  /\ within = {}

ToolStep ==
  \/ Resolve \/ FsListTool \/ FsStatTool
  \/ OpenFile \/ CheckOpened \/ ReadFile
  \/ ArtifactMetadata \/ ArtifactCanonical \/ ArtifactOpen \/ ArtifactCheck
  \/ FsSearchTool \/ SearchEntry \/ SearchVisit \/ SearchOpen \/ SearchReturn

Next == Start \/ ToolStep \/ Edit

Spec == Init /\ [][Next]_vars

\* The thread of a call runs on: weak fairness of ToolStep, which is enabled exactly while
\* a call is under way, with that condition in place of ENABLED.
FairSpec == Spec /\ ([]<>(run.step = "idle") \/ []<><<ToolStep>>_vars)

----------------------------------------------------------------------------
(* Properties.                                                             *)

Returned(tools) == run.status = "Succeeded" /\ run.call.tool \in tools

\* What fs.read and fs.diff return comes from files that were under the repository root
\* during the call, however links and directories are exchanged after the path was
\* resolved (open_canonical_file_within_scope).  fs.list, fs.stat and fs.search use the path
\* again without a check of what it leads to (search_file): what they show was under the
\* root unless the tree was changed between the resolution of that path and its use.
ReadsStayInside ==
  /\ Returned({"read", "diff"}) => \A i \in DOMAIN run.read : run.read[i] \in within
  /\ Returned({"list", "stat", "search"}) =>
       \A look \in run.looked : look.inode \in within \/ look.exchanged

\* An artifact read returns the file that the store's path named when it was looked up,
\* not one put in its place before the open (open_artifact_file_within_scope).
ArtifactIsTheRecord ==
  Returned({"artifact"}) => {run.read[i] : i \in DOMAIN run.read} = run.expected

\* The directories a search should enter: from the start over entries and links.
Searched(c, start) ==
  LET root     == canonicalize(fs, RepositoryRoot).names
      below(d) == {w \in {canonicalize(fs, Append(d, n)) : n \in Frame(fs, d).left} :
                     w.error = "None" /\ starts_with(w.names, root)}
      dirs(d)  == {w.names : w \in {v \in below(d) : fs[v.inode].type = "dir"}}
      grow(ds) == ds \cup {d \in UNION {dirs(e) : e \in ds} :
                             is_within_or_ancestor_of_allowed_root(d, Roots(c, root))}
  IN FoldLeft(LAMBDA ds, i : grow(ds), {start}, [i \in 1..Cardinality(DOMAIN fs) |-> i])

\* The entries that lead to a file in scope.
FileEntries(c, start) ==
  LET root == canonicalize(fs, RepositoryRoot).names
  IN UNION {{<<d, n>> : n \in {m \in Frame(fs, d).left :
        /\ is_file(fs, Append(d, m))
        /\ starts_with(canonicalize(fs, Append(d, m)).names, root)
        /\ is_within_allowed_roots(canonicalize(fs, Append(d, m)).names, Roots(c, root))}} :
        d \in Searched(c, start)}

TextOf(e) == fs[canonicalize(fs, Append(e[1], e[2])).inode].text

\* In a tree that nobody changes, a search of a directory visits every file in scope once
\* per name, over links and around cycles, in whatever order directories are read:
\* readable files of moderate size are searched, the others skipped, and the matches
\* are complete up to the limit (search_recursive, search_file).
SearchIsExact ==
  Returned({"search"}) /\ edits = 0 /\ is_dir(fs, Here) =>
    LET all  == FileEntries(run.call, Here)
        good == {e \in all : Len(TextOf(e)) <= MaxFileBytes /\ Readable(TextOf(e))}
        hits == MapThenSumSet(LAMBDA e : Cardinality(Hits(TextOf(e))), good)
    IN /\ run.counts.files_searched = Cardinality(good)
       /\ run.counts.files_skipped = Cardinality(all \ good)
       /\ run.counts.total = hits
       /\ Len(run.counts.matches) = Min({hits, run.call.max})
       /\ run.counts.truncated = (hits > run.call.max)

\* What calls read was under the root, and all that they were asked for, each up to the
\* exceptions stated with the properties above: those properties together.
ReadsAreFaithful == ReadsStayInside /\ ArtifactIsTheRecord /\ SearchIsExact

\* Every call returns, also a search over a cycle of links (search_recursive).
EveryCallReturns == []<>(run.step = "idle")
=============================================================================
