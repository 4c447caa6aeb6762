----------------------------- MODULE Filesystem -----------------------------
(***************************************************************************)
(* The directory tree that the daemon sees, and the path algorithm of      *)
(* atelia-core/src/tools.rs.  A tree maps inodes to nodes: a directory     *)
(* holds named entries, a file holds a text, a link holds a path.  A path  *)
(* is absolute or not and has parts; "." parts and repeated separators are *)
(* dropped, as Path::components drops them.  An error is the error field   *)
(* of a result, "None" when there is none.                                 *)
(***************************************************************************)
EXTENDS Naturals, FiniteSets, SequencesExt

CONSTANTS Root,     \* the inode of "/"
          MaxWalk   \* steps after which the kernel gives up on a path

Dir(entries) == [type |-> "dir", entries |-> entries]

File(text) == [type |-> "file", text |-> text]

Link(path) == [type |-> "link", to |-> path]

Path(abs, parts) == [abs |-> abs, parts |-> parts]

\* One component of a path walk; follow says whether a final link is followed.
WalkStep(fs, follow, w) ==
  LET name == Head(w.rest)
      dir  == fs[Last(w.inodes)]
  IN CASE w.rest = <<>> \/ w.error # "None" -> w
       [] OTHER ->
          IF dir.type # "dir" THEN [w EXCEPT !.error = "NotADirectory"]
          ELSE IF name = ".." THEN
            [w EXCEPT !.rest = Tail(@),
                      !.names = IF @ = <<>> THEN @ ELSE Front(@),
                      !.inodes = IF Len(@) = 1 THEN @ ELSE Front(@)]
          ELSE IF name \notin DOMAIN dir.entries THEN [w EXCEPT !.error = "NotFound"]
          ELSE LET inode == dir.entries[name]
                   node  == fs[inode]
               IN IF node.type = "link" /\ (follow \/ Len(w.rest) > 1)
                    THEN [w EXCEPT !.rest = node.to.parts \o Tail(@),
                                   !.names = IF node.to.abs THEN <<>> ELSE @,
                                   !.inodes = IF node.to.abs THEN <<Root>> ELSE @]
                    ELSE [w EXCEPT !.rest = Tail(@),
                                   !.names = Append(@, name),
                                   !.inodes = Append(@, inode)]

EndOfWalk(w) ==
  [names |-> w.names, inode |-> Last(w.inodes),
   error |-> IF w.error = "None" /\ w.rest # <<>> THEN "FilesystemLoop" ELSE w.error]

\* The names and the inode that an absolute path leads to.
Walk(fs, parts, follow) ==
  LET after[n \in 0..MaxWalk] ==
        IF n = 0
          THEN [names |-> <<>>, inodes |-> <<Root>>, rest |-> parts, error |-> "None"]
          ELSE WalkStep(fs, follow, after[n - 1])
  IN EndOfWalk(after[MaxWalk])

canonicalize(fs, parts) == Walk(fs, parts, TRUE)

symlink_metadata(fs, parts) == Walk(fs, parts, FALSE)

exists(fs, parts) == canonicalize(fs, parts).error = "None"

Dirs(fs) == {d \in DOMAIN fs : fs[d].type = "dir"}

\* The directory entries that refer to an inode.
Names(fs, inode) ==
  UNION {{<<d, n>> : n \in {m \in DOMAIN fs[d].entries : fs[d].entries[m] = inode}} :
           d \in Dirs(fs)}

nlink(fs, inode) == Cardinality(Names(fs, inode))

starts_with(path, base) == IsPrefix(base, path)

CanonicalPath(canonical, root, inode) ==
  [error |-> "None", canonical |-> canonical, root |-> root, inode |-> inode]

PathResolutionError(kind) ==
  [error |-> kind, canonical |-> <<>>, root |-> <<>>, inode |-> Root]

\* What two walks, of a root and of a path in it, amount to.
InScope(root, target) ==
  IF root.error # "None" THEN PathResolutionError("RootNotFound")
  ELSE IF target.error # "None" THEN PathResolutionError("TargetNotFound")
  ELSE IF ~starts_with(target.names, root.names)
    THEN PathResolutionError("OutsideRepositoryScope")
    ELSE CanonicalPath(target.names, root.names, target.inode)

WalkFrom(fs, root, path) ==
  InScope(root, canonicalize(fs, IF path.abs THEN path.parts
                                             ELSE root.names \o path.parts))

\* A requested path resolved against a repository root, links followed.
canonicalize_within_scope(fs, repo_root, path) ==
  WalkFrom(fs, canonicalize(fs, repo_root), path)
=============================================================================
