------------------------------ MODULE MCTools -------------------------------
(* The tools: the changes of files, the reads and searches of a tree, the     *)
(* windows and diffs of a text, and the commands that are run.  They share no *)
(* state, so a behaviour follows one of them, its part.                       *)
EXTENDS Integers, Sequences, FiniteSets, SequencesExt, TLC

CONSTANTS t1, t2

VARIABLES
  part,
  fs, locks, run, tmp_counter, started, faults, crashes, saves,   \* FileTools
  tree, read, edits, within,                                      \* ReadTools
  main, child, helper, stranger, pipe, written, reader, file,
  capture_after_timeout, stop_immediately, failures, ghost,       \* ProcessTool
  job, answer                                                     \* TextWindow

fileVars == <<fs, locks, run, tmp_counter, started, faults, crashes, saves>>

readVars == <<tree, read, edits, within>>

processVars == <<main, child, helper, stranger, pipe, written, reader, file,
                 capture_after_timeout, stop_immediately, failures, ghost>>

textVars == <<job, answer>>

Trees == INSTANCE Filesystem WITH Root <- 1, MaxWalk <- 6

Dir(entries) == Trees!Dir(entries)

File(text) == Trees!File(text)

LinkTo(absolute, parts) == Trees!Link(Trees!Path(absolute, parts))

In(parts) == Trees!Path(FALSE, parts)

-----------------------------------------------------------------------------
(* Changes of files.  A repository "r" with the files "a" and "b", a          *)
(* directory "s" and a link "l" to that directory; "c" names nothing.         *)

FileTree ==
  [i \in 1..6 |->
     CASE i = 1 -> Dir([r |-> 2])
       [] i = 2 -> Dir([a |-> 3, b |-> 4, s |-> 5, l |-> 6])
       [] i = 3 -> File(<<"x", "y">>)
       [] i = 4 -> File(<<"x", "x">>)
       [] i = 5 -> Dir(<< >>)
       [] i = 6 -> LinkTo(FALSE, <<"s">>)]

FileCall(tool, name, to, text, find, allow, create) ==
  [tool |-> tool, path |-> In(<<name>>), to |-> In(<<to>>), text |-> text, find |-> find,
   allow |-> allow, create |-> create]

Write(name, text, allow) == FileCall("write", name, name, text, << >>, allow, TRUE)

Patch(name, find, text) == FileCall("patch", name, name, text, find, FALSE, FALSE)

Delete(name, allow) == FileCall("delete", name, name, << >>, << >>, allow, FALSE)

Move(name, to, allow) == FileCall("move", name, to, << >>, << >>, allow, FALSE)

\* Calls that meet on the same files.
RaceCalls ==
  {Write("a", <<"w">>, TRUE), Write("c", <<"w">>, FALSE),
   Patch("a", <<"x">>, <<"z">>), Delete("a", TRUE), Move("a", "c", FALSE)}

\* Calls that the tools refuse, and calls that fail half-way.
FaultCalls ==
  {Write("a", <<"w">>, TRUE), Write("c", <<"w">>, FALSE), Write("a", <<"w">>, FALSE),
   Write("s", <<"w">>, TRUE), Write("l", <<"w">>, TRUE),
   Write("a", <<"w", "w", "w">>, TRUE),
   FileCall("write", "c", "c", <<"w">>, << >>, FALSE, FALSE),
   FileCall("write", "..", "..", <<"w">>, << >>, TRUE, TRUE),
   Patch("a", << >>, <<"v">>), Patch("a", <<"y">>, <<"v", "v">>), Patch("b", <<"x">>, << >>),
   Patch("a", <<"y">>, <<"v">>), Delete("s", TRUE), Delete("l", TRUE), Delete("a", FALSE),
   Delete("c", FALSE), Move("a", "a", TRUE), Move("a", "s", TRUE), Move("c", "a", TRUE),
   Move("a", "c", FALSE)}

SaveCalls == {Move("a", "c", TRUE), Move("a", "b", TRUE), Write("c", <<"w">>, FALSE)}

MoveCalls == {Move("a", "b", TRUE), Move("b", "a", TRUE), Patch("a", <<"y">>, <<"v">>)}

\* Another program saves over the files.
SomeSaves == {[path |-> <<"r", n>>, text |-> <<"e">>] : n \in {"a", "b", "c"}}

FilePaths == {<<"r", n>> : n \in {"a", "b", "c", "s"}}

LockNames == [p \in FilePaths |-> Last(p) \o ".lock"]

Ranks == [p \in FilePaths |-> CASE Last(p) = "a" -> 1 [] Last(p) = "b" -> 2
                                [] Last(p) = "c" -> 3 [] Last(p) = "s" -> 4]

Races == INSTANCE FileTools WITH
  Root <- 1, MaxWalk <- 5, Run <- {t1, t2}, Calls <- RaceCalls, RepositoryRoot <- <<"r">>,
  InitialTree <- FileTree, Inode <- 1..9, LockName <- LockNames, Rank <- Ranks, MaxBytes <- 2,
  MaxAttempts <- 2, MaxCalls <- 3, MaxFaults <- 0, MaxCrashes <- 0, Saves <- {}, MaxSaves <- 0

Faulty == INSTANCE FileTools WITH
  Root <- 1, MaxWalk <- 5, Run <- {t1, t2}, Calls <- FaultCalls, RepositoryRoot <- <<"r">>,
  InitialTree <- FileTree, Inode <- 1..9, LockName <- LockNames, Rank <- Ranks, MaxBytes <- 2,
  MaxAttempts <- 2, MaxCalls <- 2, MaxFaults <- 1, MaxCrashes <- 1, Saves <- {}, MaxSaves <- 0

Saved == INSTANCE FileTools WITH
  Root <- 1, MaxWalk <- 5, Run <- {t1, t2}, Calls <- SaveCalls, RepositoryRoot <- <<"r">>,
  InitialTree <- FileTree, Inode <- 1..9, LockName <- LockNames, Rank <- Ranks, MaxBytes <- 2,
  MaxAttempts <- 2, MaxCalls <- 2, MaxFaults <- 0, MaxCrashes <- 0, Saves <- SomeSaves,
  MaxSaves <- 1

Moves == INSTANCE FileTools WITH
  Root <- 1, MaxWalk <- 2, Run <- {t1, t2}, Calls <- MoveCalls, RepositoryRoot <- <<"r">>,
  InitialTree <- FileTree, Inode <- 1..9, LockName <- LockNames, Rank <- Ranks, MaxBytes <- 2,
  MaxAttempts <- 2, MaxCalls <- 2, MaxFaults <- 0, MaxCrashes <- 0, Saves <- {}, MaxSaves <- 0

-----------------------------------------------------------------------------
(* Reads.  A repository "r" with texts, a directory "d" with a link back, a   *)
(* link to that directory, a link out of the repository and a link to a file; *)
(* an outer directory "o"; an artifact store "s".                             *)

ReadTree ==
  [i \in 1..13 |->
     CASE i = 1 -> Dir([r |-> 2, o |-> 3, s |-> 12])
       [] i = 2 -> Dir([a |-> 4, b |-> 5, d |-> 6, l |-> 7, x |-> 8, f |-> 9])
       [] i = 3 -> Dir([c |-> 10])
       [] i = 4 -> File(<<"hit", "miss", "hit">>)
       [] i = 5 -> File(<<"hit", "bad">>)
       [] i = 6 -> Dir([c |-> 11, u |-> 13])
       [] i = 7 -> LinkTo(FALSE, <<"d">>)
       [] i = 8 -> LinkTo(TRUE, <<"o">>)
       [] i = 9 -> LinkTo(FALSE, <<"a">>)
       [] i = 10 -> File(<<"hit">>)
       [] i = 11 -> File(<<"miss", "miss", "hit", "hit">>)
       [] i = 12 -> Dir([k |-> 10, m |-> 4])
       [] i = 13 -> LinkTo(FALSE, <<"..">>)]

ReadCall(tool, paths, artifact, recorded, roots, max) ==
  [tool |-> tool, paths |-> paths, artifact |-> artifact, recorded |-> recorded,
   roots |-> roots, max |-> max]

Look(tool, parts) == ReadCall(tool, <<In(parts)>>, "none", << >>, {}, 9)

Search(parts, roots, max) == ReadCall("search", <<In(parts)>>, "none", << >>, roots, max)

Artifact(ref, recorded) == ReadCall("artifact", << >>, ref, recorded, {}, 9)

Diff(left, right) == ReadCall("diff", <<In(left), In(right)>>, "none", << >>, {}, 9)

ArtifactPaths == [k \in {"k", "gone"} |-> IF k = "k" THEN <<"s", "k">> ELSE << >>]

LookCalls ==
  {Look("read", <<"d", "c">>), Look("read", <<"f">>), Look("read", <<"l", "c">>),
   Look("read", <<"b">>), Look("read", <<"x", "c">>), Look("read", <<"d">>),
   Look("list", << >>), Look("list", <<"a">>), Look("list", <<"d">>), Look("stat", <<"l">>),
   Look("stat", <<"q">>), Look("stat", <<"d", "c">>),
   Diff(<<"a">>, <<"d", "c">>), Diff(<<"d", "c">>, <<"a">>), Diff(<<"a">>, <<"x", "c">>),
   Artifact("k", <<"s", "k">>), Artifact("k", << >>), Artifact("gone", << >>)}

Put(dir, name, inode) == [dir |-> dir, name |-> name, inode |-> {inode}]

Drop(dir, name) == [dir |-> dir, name |-> name, inode |-> {}]

\* "d" becomes a link out of the repository and a directory again, files come and go.
LookEdits ==
  {Put(2, "d", 8), Put(2, "d", 6), Put(2, "a", 8), Drop(2, "a"), Drop(6, "c"), Put(6, "c", 4),
   Put(12, "k", 4), Drop(12, "k"), Put(12, "k", 9), Put(12, "k", 10), Put(2, "k", 10)}

SearchCalls ==
  {Search(<< >>, {}, n) : n \in {0, 2, 9}} \cup
  {Search(<<"d">>, {}, 3), Search(<<"l">>, {<<"r", "d">>}, 9), Search(<< >>, {<<"r", "d">>}, 9),
   Search(<<"a">>, {}, 1), Search(<<"b">>, {}, 1), Search(<<"a">>, {<<"r", "d">>}, 1),
   Search(<<"x">>, {}, 1)}

Looks == INSTANCE ReadTools WITH
  fs <- tree, run <- read, Root <- 1, MaxWalk <- 6, Calls <- LookCalls,
  RepositoryRoot <- <<"r">>, InitialTree <- ReadTree, Edits <- LookEdits, MaxEdits <- 2,
  ArtifactPath <- ArtifactPaths, MaxDepth <- 3, MaxFileBytes <- 3

Searches == INSTANCE ReadTools WITH
  fs <- tree, run <- read, Root <- 1, MaxWalk <- 6, Calls <- SearchCalls,
  RepositoryRoot <- <<"r">>, InitialTree <- ReadTree,
  Edits <- {Put(2, "d", 8), Drop(2, "a")}, MaxEdits <- 1,
  ArtifactPath <- ArtifactPaths, MaxDepth <- 3, MaxFileBytes <- 3

-----------------------------------------------------------------------------
(* Commands: what they write, and system calls that fail.                     *)

Commands == INSTANCE ProcessTool WITH
  faults <- failures, Stream <- {1}, MaxOutput <- 1, BufferSize <- 1, PipeSize <- 1,
  MaxWritten <- 2, MaxFaults <- 0

Failing == INSTANCE ProcessTool WITH
  faults <- failures, Stream <- {1, 2}, MaxOutput <- 1, BufferSize <- 1, PipeSize <- 1,
  MaxWritten <- 0, MaxFaults <- 1

-----------------------------------------------------------------------------
(* Texts of a few bytes, and combinations of small limits.                    *)

Texts(bytes, n) == UNION {[1..k -> bytes] : k \in 0..n}

ValidUpTo(bytes, n) ==
  {t \in Texts(bytes, n) :
     \A i \in 0..Len(t) : (i > 0 /\ t[i] = "lead") = (i < Len(t) /\ t[i + 1] = "cont")}

Limit(start, lines, chars, bytes, scan, numbers) ==
  [start |-> start, lines |-> lines, chars |-> chars, bytes |-> bytes, scan |-> scan,
   numbers |-> numbers]

SomeLimits ==
  {Limit(s, l, c, b, n, FALSE) :
     s \in {1, 2}, l \in {1, 2}, c \in {1, 9}, b \in {{}, {1}, {2}}, n \in {3, 9}}
  \cup
  {Limit(s, 2, c, b, 9, TRUE) : s \in {1, 2}, c \in {0, 5, 12}, b \in {{}, {0}, {5}}}

Shown == INSTANCE TextWindow WITH
  WindowTexts <- Texts({"nl", "cr", "a", "lead", "cont"}, 3) \cup Texts({"nl", "a", "nul"}, 3),
  Limits <- SomeLimits,
  DiffTexts <- ValidUpTo({"nl", "cr", "a", "b"}, 2) \cup Texts({"a", "lead", "cont"}, 2),
  DiffLimits <- {[chars |-> c, bytes |-> b] : c \in {0, 2, 20}, b \in {2, 20}},
  CutTexts <- ValidUpTo({"nl", "a", "lead", "cont"}, 5), MaxCut <- 4

-----------------------------------------------------------------------------
MCInit ==
  /\ part \in {"races", "faulty", "saved", "moves", "looks", "searches", "commands", "failing", "texts"}
  /\ Races!Init /\ Looks!Init
  /\ IF part = "commands" THEN Commands!Init ELSE Failing!Init
  /\ IF part = "texts" THEN Shown!Init
     ELSE job = [kind |-> "cut", input |-> [text |-> << >>, chars |-> 0, bytes |-> 0]]
          /\ answer = << >>

MCNext ==
  /\ \/ /\ \/ part = "races" /\ Races!Next
           \/ part = "faulty" /\ Faulty!Next
           \/ part = "saved" /\ Saved!Next
           \/ part = "moves" /\ Moves!Next
        /\ UNCHANGED <<readVars, processVars, textVars>>
     \/ /\ \/ part = "looks" /\ Looks!Next
           \/ part = "searches" /\ Searches!Next
        /\ UNCHANGED <<fileVars, processVars, textVars>>
     \/ /\ \/ part = "commands" /\ Commands!Next
           \/ part = "failing" /\ Failing!Next
        /\ UNCHANGED <<fileVars, readVars, textVars>>
     \/ part = "texts" /\ Shown!Next /\ UNCHANGED <<fileVars, readVars, processVars>>
  /\ UNCHANGED part

\* What the system schedules has moved: in a part the thread i of a call, or the clock.
Moved(i) ==
  \/ part = "moves" /\ i \in {1, 2} /\ run'[<<t1, t2>>[i]] # run[<<t1, t2>>[i]]
  \/ part = "searches" /\ i = 1 /\ read' # read
  \/ part = "failing" /\ i \in {1, 2} /\ reader'[i] # reader[i]
  \/ part = "failing" /\ i = 3 /\ main' # main /\ main'.expired = main.expired
  \/ part = "failing" /\ i = 4 /\ main'.expired # main.expired

\* It can move: a step of a file call is enabled exactly when MayStep says so, one
\* of a read exactly while a call is under way, one of a command's threads until it ends.
MayGo(i) ==
  \/ part = "moves" /\ i \in {1, 2} /\ Moves!MayStep(<<t1, t2>>[i])
  \/ part = "searches" /\ i = 1 /\ read.step # "idle"
  \/ part = "failing" /\ i \in {1, 2} /\ reader[i].step \notin {"none", "done", "error"}
  \/ part = "failing" /\ i = 3 /\ main.step # "done"
  \/ part = "failing" /\ i = 4 /\ main.step \in {"wait", "clock"} /\ ~main.expired

\* Weak fairness: threads are scheduled, free locks are granted and time passes.  The
\* processes that are run owe nothing.
Fairness == \A i \in 1..4 : []<>~MayGo(i) \/ []<><<Moved(i)>>_<<run, read, main, reader>>

MCSpec ==
  MCInit /\ [][MCNext]_<<part, fileVars, readVars, processVars, textVars>> /\ Fairness

-----------------------------------------------------------------------------
\* Whatever calls meet, fail or crash on a file, it is whole, and what a call did is what it
\* was asked to do and what it reports (FsWriteTool, FsPatchTool, FsDeleteTool, FsMoveTool).
FileCallsAreSafe == Races!FileCallsAreSafe

\* Reads and diffs return what is under the root; lists, stats and searches do unless the tree
\* is changed between the resolution of a path and its use.  Searches of a quiet tree are
\* complete.  A text is shown up to the limits that are named, but for blank lines at the
\* start of a window, which are only counted, and with a byte limit that does not hold a
\* last line cut by characters (FsReadTool, FsListTool, FsStatTool, FsSearchTool, FsDiffTool,
\* read_text_window).
ReadsAreFaithful == Looks!ReadsAreFaithful /\ (part = "texts" => Shown!TextsAreShown)

\* What a call returns tells what became of the command; it stops the helpers that it can
\* see, and hits a process with the group's recycled number only where the code kills
\* without a look or within a jiffy of it (execute_explicit_argv_process).
ProcessIsAccountedFor ==
  /\ part = "commands" => Commands!ProcessIsAccountedFor
  /\ part = "failing" => Failing!ProcessIsAccountedFor

\* A call, or for i < 3 a capture thread that its call left behind.
UnderWay(i) ==
  \/ part = "moves" /\ i \in {1, 2} /\ run[<<t1, t2>>[i]].step # "idle"
  \/ part = "searches" /\ i = 1 /\ read.step # "idle"
  \/ part = "failing" /\ i \in {1, 2} /\ Failing!LeftBehind(i)
  \/ part = "failing" /\ i = 3 /\ main.step \notin {"spawn", "done"}

\* Every call ends: moves in opposite directions, searches over cycles of links, commands
\* whose helpers keep the streams open; and no capture thread is left behind.
EveryCallEnds == \A i \in 1..3 : UnderWay(i) ~> ~UnderWay(i)
=============================================================================
