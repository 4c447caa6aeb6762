----------------------------- MODULE FileTools ------------------------------
(***************************************************************************)
(* The tools that change files: fs.write, fs.patch, fs.delete and fs.move  *)
(* of atelia-core/src/tools.rs (the Unix code).  Each call resolves its    *)
(* path, reads metadata, takes lock files and only then acts, one system   *)
(* call that others can see per step; calls run in parallel, the daemon    *)
(* may crash, writes and directory syncs may fail, and other programs may  *)
(* save the same files.  A text is a sequence of characters.               *)
(***************************************************************************)
EXTENDS Filesystem

CONSTANTS Run,             \* threads that execute tools
          Calls,           \* the tool calls clients make
          RepositoryRoot,  \* parts of the canonical root
          InitialTree,
          Inode,           \* inodes; a freed one may be used again
          LockName,        \* the lock file of each path, which no other path shares
                           \* (the comment on stable_lock_suffix)
          Rank,            \* the order of the paths as bytes
          MaxBytes,        \* longest text that write and patch accept
          MaxAttempts,     \* temporary names tried before giving up
          MaxCalls,        \* bound: calls started
          MaxFaults,       \* bound: failed writes and syncs
          MaxCrashes,      \* bound: crashes of the daemon
          Saves,           \* [path, text] that another program may save
          MaxSaves         \* bound: such saves

VARIABLES fs, locks, run, tmp_counter, started, faults, crashes, saves

vars == <<fs, locks, run, tmp_counter, started, faults, crashes, saves>>

Free == "free"

\* The text of a temporary file that is not written yet.
Partial == <<"partial">>

Parent(path) == Front(path)

Name(path) == Last(path)

Entry(tree, dir, name) ==
  {tree[dir].entries[n] : n \in {name} \cap DOMAIN tree[dir].entries}

SetEntry(tree, dir, name, inode) ==
  [tree EXCEPT ![dir].entries =
     [n \in DOMAIN @ \cup {name} |-> IF n = name THEN inode ELSE @[n]]]

DropEntry(tree, dir, name) ==
  [tree EXCEPT ![dir].entries = [n \in DOMAIN @ \ {name} |-> @[n]]]

\* An inode without names is freed unless a run has it open.
Reap(tree, held) ==
  [i \in {j \in DOMAIN tree : j = Root \/ nlink(tree, j) > 0 \/ j \in held} |-> tree[i]]

HeldByOthers(r) == UNION {run[q].fd : q \in Run \ {r}}

----------------------------------------------------------------------------
(* Path resolution for changes.                                            *)

\* The directory an absolute path names when no component is a link.
open_parent_no_follow(tree, path) ==
  LET step(k) == symlink_metadata(tree, SubSeq(path, 1, k))
  IN IF \A k \in 0..Len(path) : step(k).error = "None" /\ tree[step(k).inode].type = "dir"
       THEN {step(Len(path)).inode} ELSE {}

MutationTarget(path, found) == [error |-> "None", canonical |-> path, found |-> found]

TargetError(kind) == [error |-> kind, canonical |-> <<>>, found |-> FALSE]

\* What is wrong with the ancestors below the root, the deepest one first.
AncestorError(tree, root, target) ==
  LET bad == {k \in (Len(root) + 1)..(Len(target) - 1) :
                /\ starts_with(SubSeq(target, 1, k), root)
                /\ LET m == symlink_metadata(tree, SubSeq(target, 1, k))
                   IN \/ m.error \notin {"None", "NotFound"}
                      \/ m.error = "None" /\ tree[m.inode].type = "link"}
      deepest == CHOOSE k \in bad : \A j \in bad : j <= k
  IN IF bad = {} THEN "None"
     ELSE IF symlink_metadata(tree, SubSeq(target, 1, deepest)).error = "None"
       THEN "SymlinkRejected" ELSE "MetadataFailure"

ExistingTarget(root, node, real) ==
  IF node.type = "link" THEN TargetError("SymlinkRejected")
  ELSE IF real.error # "None" THEN TargetError("TargetNotFound")
  ELSE IF ~starts_with(real.names, root.names)
    THEN TargetError("OutsideRepositoryScope")
    ELSE MutationTarget(real.names, TRUE)

NewTarget(target, parent) ==
  IF Name(target) = ".." THEN TargetError("TargetNotFound")
  ELSE IF parent.error # "None" THEN TargetError(parent.error)
  ELSE MutationTarget(Append(parent.canonical, Name(target)), FALSE)

TargetOf(tree, root, target, anc, here) ==
  IF root.error # "None" THEN TargetError("RootNotFound")
  ELSE IF anc # "None" THEN TargetError(anc)
  ELSE IF here.error = "None"
    THEN ExistingTarget(root, tree[here.inode], canonicalize(tree, target))
  ELSE IF here.error # "NotFound" THEN TargetError("MetadataFailure")
  ELSE NewTarget(target, canonicalize_within_scope(tree, RepositoryRoot,
                                                   Path(TRUE, Parent(target))))

ResolveFrom(tree, root, target) ==
  TargetOf(tree, root, target, AncestorError(tree, root.names, target),
           symlink_metadata(tree, target))

RequestedFrom(tree, root, path) ==
  ResolveFrom(tree, root, IF path.abs THEN path.parts ELSE root.names \o path.parts)

resolve_mutation_target(tree, path) ==
  RequestedFrom(tree, canonicalize(tree, RepositoryRoot), path)

----------------------------------------------------------------------------
(* Texts.                                                                  *)

\* Where needle occurs in a text, overlapping occurrences included.
Occurrences(text, needle) ==
  {i \in 1..(Len(text) - Len(needle) + 1) :
     SubSeq(text, i, i + Len(needle) - 1) = needle}

count_overlapping_matches(text, needle) ==
  IF needle = <<>> THEN 0 ELSE Cardinality(Occurrences(text, needle))

\* replacen with a count of one: the first occurrence is replaced.
replacen(text, needle, new) ==
  LET i == CHOOSE k \in Occurrences(text, needle) :
             \A j \in Occurrences(text, needle) : k <= j
  IN SubSeq(text, 1, i - 1) \o new \o SubSeq(text, i + Len(needle), Len(text))

----------------------------------------------------------------------------
(* How a call proceeds and ends.                                           *)

Idle == [step |-> "idle", call |-> <<>>, target |-> <<>>, dest |-> <<>>,
         found |-> FALSE, fd |-> {}, expected |-> {}, exists |-> FALSE,
         parent |-> Root, dest_parent |-> Root, want |-> <<>>, temp |-> "",
         read |-> <<>>, text |-> <<>>, hit |-> {}, gone |-> {}, result |-> "None", flag |-> FALSE]

Go(r, new) == run' = [run EXCEPT ![r] = new]

ReleaseLocks(r) == [l \in DOMAIN locks |-> IF locks[l] = r THEN Free ELSE locks[l]]

\* The call returns; its locks are released and its descriptors closed.
Return(r, tree, result, flag) ==
  /\ Go(r, [Idle EXCEPT !.call = run[r].call, !.expected = run[r].expected,
                        !.hit = run[r].hit, !.gone = run[r].gone,
                        !.result = result, !.flag = flag])
  /\ locks' = ReleaseLocks(r)
  /\ fs' = Reap(tree, HeldByOthers(r))

Finish(r, tree, result, flag) ==
  /\ Return(r, tree, result, flag)
  /\ UNCHANGED <<tmp_counter, started, faults, crashes, saves>>

Fail(r) == Finish(r, fs, "Failed", FALSE)

\* A missing file is a success when the call allows it.
FailOrMissing(r, kind) ==
  IF kind = "NotFound" /\ run[r].call.tool = "delete" /\ run[r].call.allow
    THEN Finish(r, fs, "Succeeded", FALSE)
    ELSE Fail(r)

Advance(r, new) ==
  /\ Go(r, new)
  /\ UNCHANGED <<fs, locks, tmp_counter, started, faults, crashes, saves>>

----------------------------------------------------------------------------
(* The steps up to the locks.                                              *)

WriteRefused(call, source) == Len(call.text) > MaxBytes \/ source.error # "None"

PatchRefused(call, source) == call.find = <<>> \/ source.error # "None"

DeleteMissing(call, source) == source.error = "TargetNotFound" /\ call.allow

MoveRefused(source, dest) ==
  source.error # "None" \/ dest.error # "None" \/ dest.canonical = source.canonical

Refused(call, source, dest) ==
  CASE call.tool = "write"  -> WriteRefused(call, source)
    [] call.tool = "patch"  -> PatchRefused(call, source)
    [] call.tool = "delete" -> source.error # "None"
    [] call.tool = "move"   -> MoveRefused(source, dest)

Begun(call, source, dest) ==
  LET begun == [Idle EXCEPT !.call = call, !.text = call.text,
                            !.target = source.canonical, !.found = source.found]
  IN IF call.tool = "delete" /\ DeleteMissing(call, source)
       THEN [begun EXCEPT !.result = "Succeeded"]
     ELSE IF Refused(call, source, dest)
       THEN [begun EXCEPT !.result = "Failed"]
     ELSE [begun EXCEPT !.step = "fd", !.dest = dest.canonical]

Start(r) ==
  /\ run[r].step = "idle"
  /\ started < MaxCalls
  /\ \E call \in Calls :
       Go(r, Begun(call, resolve_mutation_target(fs, call.path),
                         resolve_mutation_target(fs, call.to)))
  /\ started' = started + 1
  /\ UNCHANGED <<fs, locks, tmp_counter, faults, crashes, saves>>

\* The descriptor that later steps compare with; there is none for a new file.
OpenResolved(r) ==
  LET dir == open_parent_no_follow(fs, Parent(run[r].target))
  IN /\ run[r].step = "fd"
     /\ Advance(r, [run[r] EXCEPT !.step = "metadata",
                      !.fd = IF run[r].found
                               THEN UNION {Entry(fs, d, Name(run[r].target)) : d \in dir}
                               ELSE {}])

\* Mutant: the source is always locked first.
SourceLockFirst(p, q) == <<LockName[p], LockName[q]>>

acquire_ordered_write_locks(p, q) ==
  IF Rank[p] <= Rank[q] THEN <<LockName[p], LockName[q]>> ELSE <<LockName[q], LockName[p]>>

LocksWanted(r) ==
  IF run[r].call.tool = "move"
    THEN acquire_ordered_write_locks(run[r].target, run[r].dest)
    ELSE <<LockName[run[r].target]>>

IsFile(path) ==
  LET here == symlink_metadata(fs, path)
  IN here.error = "None" /\ fs[here.inode].type = "file"

\* All but fs.move open the parent directory before they lock.
ToLock(r, new) ==
  LET dir == open_parent_no_follow(fs, Parent(run[r].target))
  IN IF dir = {} THEN Fail(r)
     ELSE Advance(r, [new EXCEPT !.step = "lock", !.want = LocksWanted(r),
                                 !.parent = CHOOSE d \in dir : TRUE])

WriteMetadata(r) ==
  LET there == exists(fs, run[r].target)
  IN IF \/ there /\ ~run[r].call.allow
        \/ ~there /\ ~run[r].call.create
        \/ there /\ ~IsFile(run[r].target)
       THEN Fail(r)
       ELSE ToLock(r, [run[r] EXCEPT !.exists = there])

\* fs.delete and fs.patch.
FileMetadata(r) ==
  LET here == symlink_metadata(fs, run[r].target)
  IN IF here.error # "None" THEN FailOrMissing(r, here.error)
     ELSE IF ~IsFile(run[r].target) THEN Fail(r)
     ELSE ToLock(r, [run[r] EXCEPT !.expected = {here.inode}])

MoveMetadata(r) ==
  IF ~IsFile(run[r].target) THEN Fail(r)
  ELSE Advance(r, [run[r] EXCEPT !.step = "lock", !.want = LocksWanted(r),
                     !.expected = {symlink_metadata(fs, run[r].target).inode}])

ReadMetadata(r) ==
  /\ run[r].step = "metadata"
  /\ CASE run[r].call.tool = "write" -> WriteMetadata(r)
       [] run[r].call.tool = "move"  -> MoveMetadata(r)
       [] OTHER -> FileMetadata(r)

acquire_write_lock(r) ==
  /\ run[r].step = "lock"
  /\ locks[Head(run[r].want)] = Free
  /\ locks' = [locks EXCEPT ![Head(run[r].want)] = r]
  /\ Go(r, [run[r] EXCEPT !.want = Tail(@),
                          !.step = IF Len(run[r].want) = 1 THEN "locked" ELSE "lock"])
  /\ UNCHANGED <<fs, tmp_counter, started, faults, crashes, saves>>

----------------------------------------------------------------------------
(* fs.write and fs.patch under the lock.                                   *)

Here(r) == Entry(fs, run[r].parent, Name(run[r].target))

\* The existing file is opened for its permissions; a new one has none.
WriteLocked(r) ==
  IF run[r].exists /\ ~\E i \in Here(r) : fs[i].type # "link"
    THEN Fail(r)
    ELSE Advance(r, [run[r] EXCEPT !.step = "temp"])

PatchLocked(r) ==
  LET text    == fs[CHOOSE i \in Here(r) : TRUE].text
      call    == run[r].call
      updated == replacen(text, call.find, call.text)
  IN IF ~\E i \in Here(r) : fs[i].type = "file" THEN Fail(r)
     ELSE IF Len(text) > MaxBytes \/ count_overlapping_matches(text, call.find) # 1
       THEN Fail(r)
     ELSE IF Len(updated) > MaxBytes THEN Fail(r)
     ELSE Advance(r, [run[r] EXCEPT !.step = "temp", !.read = text, !.text = updated,
                                    !.exists = TRUE])

temporary_write_file_name(name, n) == "atelia-write-tmp-" \o name \o "-" \o ToString(n)

\* The counter moves with every attempt, and the attempt is added to it.
TempNames(name) ==
  [k \in 1..MaxAttempts |-> temporary_write_file_name(name, tmp_counter + 2 * (k - 1))]

create_temporary_file_in_parent_dir(r) ==
  LET names == TempNames(Name(run[r].target))
      free  == {k \in DOMAIN names : Entry(fs, run[r].parent, names[k]) = {}}
      k     == CHOOSE j \in free : \A i \in free : j <= i
      inode == CHOOSE i \in Inode : i \notin DOMAIN fs
  IN /\ run[r].step = "temp"
     /\ IF free = {}
          THEN /\ Return(r, fs, "Failed", FALSE)
               /\ tmp_counter' = tmp_counter + MaxAttempts
          ELSE /\ fs' = SetEntry([i \in DOMAIN fs \cup {inode} |->
                                    IF i = inode THEN File(Partial) ELSE fs[i]],
                                 run[r].parent, names[k], inode)
               /\ Go(r, [run[r] EXCEPT !.step = "write", !.temp = names[k]])
               /\ tmp_counter' = tmp_counter + k
               /\ UNCHANGED locks
     /\ UNCHANGED <<started, faults, crashes, saves>>

TempInode(r) == CHOOSE i \in Entry(fs, run[r].parent, run[r].temp) : TRUE

\* The error path: the temporary file is removed.
Cleanup(r) == Finish(r, DropEntry(fs, run[r].parent, run[r].temp), "Failed", FALSE)

WriteTemporary(r) ==
  /\ run[r].step = "write"
  /\ Go(r, [run[r] EXCEPT !.step = "rename"])
  /\ fs' = [fs EXCEPT ![TempInode(r)].text = run[r].text]
  /\ UNCHANGED <<locks, tmp_counter, started, faults, crashes, saves>>

\* Writing, flushing, setting permissions or syncing the file fails.
WriteFails(r) ==
  /\ run[r].step = "write"
  /\ faults < MaxFaults
  /\ faults' = faults + 1
  /\ Return(r, DropEntry(fs, run[r].parent, run[r].temp), "Failed", FALSE)
  /\ UNCHANGED <<tmp_counter, started, crashes, saves>>

\* RENAME_NOREPLACE refuses an existing name; a directory is never replaced.
rename_in_parent_dir(r) ==
  /\ run[r].step = "rename"
  /\ IF \/ ~run[r].exists /\ Here(r) # {}
        \/ \E i \in Here(r) : fs[i].type = "dir"
       THEN Cleanup(r)
       ELSE /\ fs' = Reap(SetEntry(DropEntry(fs, run[r].parent, run[r].temp),
                                   run[r].parent, Name(run[r].target), TempInode(r)),
                          UNION {run[q].fd : q \in Run})
            /\ Go(r, [run[r] EXCEPT !.step = "sync", !.gone = Here(r)])
            /\ UNCHANGED <<locks, tmp_counter, started, faults, crashes, saves>>

----------------------------------------------------------------------------
(* fs.delete under the lock.                                               *)

DeleteLocked(r) ==
  IF \/ run[r].fd = {}
     \/ \E i \in run[r].fd : fs[i].type # "file" \/ nlink(fs, i) # 1
     \/ run[r].fd # run[r].expected
    THEN Fail(r)
  ELSE IF Here(r) = {} THEN FailOrMissing(r, "NotFound")
  ELSE IF Here(r) # run[r].fd THEN Fail(r)
  ELSE Advance(r, [run[r] EXCEPT !.step = "unlink"])

unlink_in_parent_dir(r) ==
  /\ run[r].step = "unlink"
  /\ IF Here(r) = {} THEN FailOrMissing(r, "NotFound")
     ELSE IF \E i \in Here(r) : fs[i].type = "dir" THEN Fail(r)
     ELSE /\ fs' = Reap(DropEntry(fs, run[r].parent, Name(run[r].target)),
                        UNION {run[q].fd : q \in Run})
          /\ Go(r, [run[r] EXCEPT !.step = "confirm", !.hit = Here(r)])
          /\ UNCHANGED <<locks, tmp_counter, started, faults, crashes, saves>>

\* A single-link file has no link left.
ensure_opened_link_count_decreased(r) ==
  /\ run[r].step = "confirm"
  /\ IF \A i \in run[r].fd : nlink(fs, i) = 0
       THEN Advance(r, [run[r] EXCEPT !.step = "sync"])
       ELSE Fail(r)

----------------------------------------------------------------------------
(* fs.move under its two locks.                                            *)

DestHere(r) == Entry(fs, run[r].dest_parent, Name(run[r].dest))

MoveLocked(r) ==
  LET from  == open_parent_no_follow(fs, Parent(run[r].target))
      to    == open_parent_no_follow(fs, Parent(run[r].dest))
      there == symlink_metadata(fs, run[r].dest)
      found == there.error = "None"
  IN IF \/ from = {} \/ to = {}
        \/ there.error \notin {"None", "NotFound"}
        \/ found /\ fs[there.inode].type # "file"
        \/ found /\ {there.inode} = run[r].expected
        \/ found /\ ~run[r].call.allow
        \/ run[r].fd = {}
        \/ \E i \in run[r].fd : fs[i].type # "file"
        \/ run[r].fd # run[r].expected
        \/ \E d \in from : Entry(fs, d, Name(run[r].target)) # run[r].fd
       THEN Fail(r)
       ELSE Advance(r, [run[r] EXCEPT !.step = "move", !.exists = found,
                          !.parent = CHOOSE d \in from : TRUE,
                          !.dest_parent = CHOOSE d \in to : TRUE])

rename_between_parent_dirs(r) ==
  /\ run[r].step = "move"
  /\ IF \/ Here(r) = {}
        \/ ~run[r].call.allow /\ DestHere(r) # {}
        \/ \E i \in DestHere(r) : fs[i].type = "dir"
       THEN Fail(r)
       ELSE /\ fs' = IF Here(r) = DestHere(r) THEN fs
                     ELSE Reap(SetEntry(DropEntry(fs, run[r].parent, Name(run[r].target)),
                                        run[r].dest_parent, Name(run[r].dest),
                                        CHOOSE i \in Here(r) : TRUE),
                               UNION {run[q].fd : q \in Run})
            /\ Go(r, [run[r] EXCEPT !.step = "moved", !.hit = Here(r),
                                    !.gone = DestHere(r) \ Here(r)])
            /\ UNCHANGED <<locks, tmp_counter, started, faults, crashes, saves>>

\* Mutant: what arrived at the destination is not compared.
MoveUnconfirmed(r) ==
  /\ run[r].step = "moved"
  /\ Advance(r, [run[r] EXCEPT !.step = "sync"])

ConfirmMove(r) ==
  /\ run[r].step = "moved"
  /\ IF Here(r) # run[r].fd /\ DestHere(r) = run[r].fd
       THEN Advance(r, [run[r] EXCEPT !.step = "sync"])
       ELSE Fail(r)

----------------------------------------------------------------------------
Locked(r) ==
  /\ run[r].step = "locked"
  /\ CASE run[r].call.tool = "write" -> WriteLocked(r)
       [] run[r].call.tool = "patch" -> PatchLocked(r)
       [] run[r].call.tool = "delete" -> DeleteLocked(r)
       [] run[r].call.tool = "move" -> MoveLocked(r)

\* Whether the result says that a file was replaced, changed or removed.
WriteReport(r) == run[r].exists

MoveReport(r) == run[r].exists

PatchReport(r) == run[r].text # run[r].read

DeleteReport(r) == TRUE

Report(r) ==
  CASE run[r].call.tool = "write"  -> WriteReport(r)
    [] run[r].call.tool = "move"   -> MoveReport(r)
    [] run[r].call.tool = "patch"  -> PatchReport(r)
    [] run[r].call.tool = "delete" -> DeleteReport(r)

SyncParent(r) ==
  /\ run[r].step = "sync"
  /\ Finish(r, fs, "Succeeded", Report(r))

SyncFails(r) ==
  /\ run[r].step = "sync"
  /\ faults < MaxFaults
  /\ faults' = faults + 1
  /\ Return(r, fs, "Failed", FALSE)
  /\ UNCHANGED <<tmp_counter, started, crashes, saves>>

\* The daemon stops; the kernel drops its locks, temporary files stay.
Crash ==
  /\ crashes < MaxCrashes
  /\ crashes' = crashes + 1
  /\ run' = [r \in Run |-> Idle]
  /\ locks' = [l \in DOMAIN locks |-> Free]
  /\ tmp_counter' = 0
  /\ fs' = Reap(fs, {})
  /\ UNCHANGED <<started, faults, saves>>

\* Another program saves a file the usual way, by renaming a new one over it.
Save(s) ==
  LET dir   == open_parent_no_follow(fs, Parent(s.path))
      inode == CHOOSE i \in Inode : i \notin DOMAIN fs
  IN /\ saves < MaxSaves
     /\ saves' = saves + 1
     /\ \E d \in dir :
          fs' = Reap(SetEntry([i \in DOMAIN fs \cup {inode} |->
                                 IF i = inode THEN File(s.text) ELSE fs[i]],
                              d, Name(s.path), inode),
                     UNION {run[q].fd : q \in Run})
     /\ UNCHANGED <<locks, run, tmp_counter, started, faults, crashes>>

Step(r) ==
  \/ OpenResolved(r) \/ ReadMetadata(r) \/ acquire_write_lock(r) \/ Locked(r)
  \/ create_temporary_file_in_parent_dir(r) \/ WriteTemporary(r) \/ rename_in_parent_dir(r)
  \/ unlink_in_parent_dir(r) \/ ensure_opened_link_count_decreased(r)
  \/ rename_between_parent_dirs(r) \/ ConfirmMove(r) \/ SyncParent(r)

Init ==
  /\ fs = InitialTree
  /\ locks = [l \in {LockName[p] : p \in DOMAIN LockName} |-> Free]
  /\ run = [r \in Run |-> Idle]
  /\ tmp_counter = 0
  /\ started = 0
  /\ faults = 0
  /\ crashes = 0
  /\ saves = 0

Next ==
  \/ \E r \in Run : Start(r) \/ Step(r) \/ WriteFails(r) \/ SyncFails(r)
  \/ Crash
  \/ \E s \in Saves : Save(s)

Spec == Init /\ [][Next]_vars

\* The operating system schedules every thread and grants a free lock.
FairSpec == Spec /\ \A r \in Run : WF_vars(Step(r))

\* Step(r) is enabled exactly while the call is under way and waits for no lock.
MayStep(r) ==
  run[r].step # "idle" /\ (run[r].step = "lock" => locks[Head(run[r].want)] = Free)

----------------------------------------------------------------------------
Does(r, tools) == run[r].call # <<>> /\ run[r].call.tool \in tools

\* A patch still finds, when it replaces the file, the text it has read: every
\* tool takes the path's lock before it changes what the path names
\* (lock_target_for_patch).
PatchedTextIsCurrent ==
  \A r \in {q \in Run : Does(q, {"patch"})} :
    run[r].step \in {"temp", "write", "rename"} =>
      \E i \in Here(r) : fs[i].text = run[r].read

\* A write or a move that may not overwrite never takes a name from another
\* file: what was seen before the lock may be old, and the rename decides.
NothingIsReplacedUnasked ==
  \A r \in {q \in Run : Does(q, {"write", "move"})} :
    ~run[r].call.allow => run[r].gone = {}

\* A write or a move that succeeds reports that it replaced a file exactly when
\* it did, although it looks before it acts (FsWriteTool::execute).
ReportsWhatHappened ==
  \A r \in {q \in Run : Does(q, {"write", "move"})} :
    run[r].result = "Succeeded" => run[r].flag = (run[r].gone # {})

\* Whatever fails or crashes, a path that clients use never names a file that is
\* only partly written.
NeverHalfWritten ==
  \A p \in DOMAIN LockName :
    LET w == symlink_metadata(fs, p)
    IN w.error = "None" /\ fs[w.inode].type = "file" => fs[w.inode].text # Partial

\* A delete that reports success has removed the file it resolved, not one that
\* was put in its place (unlink_validated_file_in_parent_dir).
DeletesWhatItResolved ==
  \A r \in {q \in Run : Does(q, {"delete"})} :
    run[r].result = "Succeeded" /\ run[r].flag => run[r].hit = run[r].expected

\* A move that reports success has moved the file it resolved, even when another
\* program saves over the source or the destination meanwhile.
MovesWhatItResolved ==
  \A r \in {q \in Run : Does(q, {"move"})} :
    run[r].result = "Succeeded" => run[r].hit = run[r].expected

\* Until the daemon crashes no temporary file outlives its call, failed calls
\* included: every other file has a path that clients use.
TemporaryFilesAreRemoved ==
  crashes = 0 =>
    \A d \in Dirs(fs) : \A n \in DOMAIN fs[d].entries :
      fs[fs[d].entries[n]].type = "file" =>
        \/ \E p \in DOMAIN LockName : Name(p) = n
        \/ \E r \in Run : run[r].temp = n

\* Whatever calls meet, fail or crash on a file, it is whole, and what a call did is what
\* it was asked to do; what it reports, patches and deletes is right as long as all changes
\* are made by the tools, under their locks.
FileCallsAreSafe ==
  /\ NothingIsReplacedUnasked /\ NeverHalfWritten /\ MovesWhatItResolved
  /\ TemporaryFilesAreRemoved
  /\ saves = 0 => PatchedTextIsCurrent /\ ReportsWhatHappened /\ DeletesWhatItResolved

\* Every call ends, two moves in opposite directions included: locks are taken
\* in the order of the paths (acquire_ordered_write_locks).
EveryCallEnds == \A r \in Run : run[r].step # "idle" ~> run[r].step = "idle"
=============================================================================
