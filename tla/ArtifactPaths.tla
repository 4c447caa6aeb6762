--------------------------- MODULE ArtifactPaths ----------------------------
(***************************************************************************)
(* The paths of atelia-core/src/artifacts.rs.  A row of a scope's index    *)
(* keeps the absolute path that its file had when it was written.  Later   *)
(* the store may have been moved to another place, configured there or     *)
(* reached through a link, a scope may have been moved away behind a link, *)
(* and files may be gone or be links to others.  Lookups and expiry find   *)
(* the file of a row all the same, or leave everything alone.              *)
(***************************************************************************)
EXTENDS Filesystem

CONSTANTS
  Id,           \* output refs; the inode of an artifact's file is its id
  Scope,        \* sanitized scopes; the inode of a scope's directory is its name
  FileName,     \* "<id>-<label>.artifact" of each id: nothing else starts with an id
  InitialTree,
  InitialRoot,  \* root_dir as it is configured first
  Places,       \* where the store may be moved
  Attic,        \* a directory outside of the store
  MaxMoves      \* bound: what is moved or replaced by others

VARIABLES
  fs,
  root_dir,     \* the parts of the configured path
  index,        \* the rows kept in each scope's directory
  last,         \* the artifact expired in the last step, if any
  moves

vars == <<fs, root_dir, index, last, moves>>

SetEntry(tree, dir, name, inode) ==
  [tree EXCEPT ![dir].entries = name :> inode @@ @]

DropEntry(tree, dir, name) ==
  [tree EXCEPT ![dir].entries = [n \in DOMAIN @ \ {name} |-> @[n]]]

AddNode(tree, inode, node) == inode :> node @@ tree

ParentInode(tree, path) == canonicalize(tree, Front(path)).inode

RemoveFile(tree, path) == DropEntry(tree, ParentInode(tree, path), Last(path))

ScopeDir(tree, scope) == canonicalize(tree, Append(root_dir, scope))

-----------------------------------------------------------------------------
artifact_file_name_matches(name, id) == name = FileName[id]

\* The candidate for a recorded path: below the scope's directory as it was
\* recorded, or else the file of that name in the directory itself.
Candidate(dir, path) ==
  IF starts_with(path, dir) /\ path # dir THEN path ELSE Append(dir, Last(path))

\* The path that a lookup answers, if any; the file itself may be missing.
validate_record_path(tree, scope, id, path) ==
  LET dir  == ScopeDir(tree, scope)
      cand == Candidate(dir.names, path)
      here == symlink_metadata(tree, cand)
      real == canonicalize(tree, cand)
  IN IF dir.error # "None" \/ ~artifact_file_name_matches(Last(cand), id) THEN {}
     ELSE IF here.error = "NotFound" THEN {cand}
     ELSE IF here.error # "None" \/ tree[here.inode].type = "link" THEN {}
     ELSE IF starts_with(real.names, dir.names) THEN {real.names} ELSE {}

\* Mutant: the recorded directory is compared by its name.
ExpirationByName(tree, scope, id, path) ==
  LET dir == ScopeDir(tree, scope)
  IN IF dir.error # "None" \/ ~starts_with(Front(path), dir.names) THEN {} ELSE {path}

\* The path that expiry deletes, if any: the recorded directory must still lead
\* into the scope's.
validate_expiration_record_path(tree, scope, id, path) ==
  LET dir    == ScopeDir(tree, scope)
      cand   == Candidate(dir.names, path)
      parent == canonicalize(tree, Front(path))
  IN IF \/ dir.error # "None" \/ ~artifact_file_name_matches(Last(cand), id)
        \/ parent.error # "None" \/ ~starts_with(parent.names, dir.names)
       THEN {} ELSE {cand}

canonical_root_dir(tree) ==
  LET root == canonicalize(tree, root_dir)
  IN IF root.error = "None" THEN root.names ELSE root_dir

path_is_within_root(tree, path) ==
  LET parent == canonicalize(tree, Front(path))
  IN parent.error = "None" /\ starts_with(parent.names, canonical_root_dir(tree))

\* The tree after a deletion.  What leads out of the store is left alone, and a
\* link is removed itself, one that leads nowhere included.
delete_artifact(tree, id, path) ==
  LET here == symlink_metadata(tree, path)
      real == canonicalize(tree, path)
  IN IF \/ here.error # "None"
        \/ ~artifact_file_name_matches(Last(path), id)
        \/ real.error \notin {"None", "NotFound"}
        \/ real.error = "None" /\ ~starts_with(real.names, canonical_root_dir(tree))
        \/ real.error = "NotFound" /\ tree[here.inode].type # "link"
        \/ ~path_is_within_root(tree, path)
       THEN tree ELSE RemoveFile(tree, path)

-----------------------------------------------------------------------------
\* A directory is made where the path leads when there is none.
create_scope_dir(tree, scope) ==
  IF ScopeDir(tree, scope).error = "None" THEN tree
  ELSE SetEntry(AddNode(tree, scope, Dir(<<>>)),
                canonicalize(tree, root_dir).inode, scope, scope)

write_bytes_with_metadata(id, scope) ==
  /\ id \notin DOMAIN fs
  /\ \E made \in {create_scope_dir(fs, scope)} :
       LET dir == ScopeDir(made, scope)
       IN /\ fs' = SetEntry(AddNode(made, id, File(id)), dir.inode, FileName[id], id)
          /\ index' = [index EXCEPT ![dir.inode] =
                         @ \cup {[id |-> id, path |-> Append(dir.names, FileName[id]),
                                  tombstone |-> FALSE]}]
  /\ last' = {}
  /\ UNCHANGED <<root_dir, moves>>

\* The rows that the scope's directory holds.
read_scope_records(scope) ==
  LET dir == ScopeDir(fs, scope) IN IF dir.error = "None" THEN index[dir.inode] ELSE {}

\* One row of one scope: the tombstone is written, then the file is deleted.
safe_expire_artifact_records(scope, row) ==
  LET path == validate_expiration_record_path(fs, scope, row.id, row.path)
  IN /\ row \in read_scope_records(scope)
     /\ index' = [index EXCEPT ![ScopeDir(fs, scope).inode] =
                    (@ \ {row}) \cup {[row EXCEPT !.tombstone = TRUE]}]
     /\ fs' = IF path = {} THEN fs
              ELSE delete_artifact(fs, row.id, CHOOSE p \in path : TRUE)
     /\ last' = {row.id}
     /\ UNCHANGED <<root_dir, moves>>

-----------------------------------------------------------------------------
(* What the store's owner does while no daemon runs.                       *)

LinkInode == "link" \o ToString(moves)

\* A path is moved to a new one, and a link to it is left behind.
MoveBehindLink(from, to) ==
  \E without \in {RemoveFile(fs, from)} :
    LET there == SetEntry(without, ParentInode(fs, to), Last(to),
                          symlink_metadata(fs, from).inode)
    IN fs' = SetEntry(AddNode(there, LinkInode, Link(Path(TRUE, to))),
                      ParentInode(fs, from), Last(from), LinkInode)

Others ==
  /\ moves < MaxMoves /\ moves' = moves + 1
  /\ last' = {}
  /\ UNCHANGED index

\* The store is moved and the daemon is told so.
Reconfigure(to) ==
  /\ Others
  /\ ~exists(fs, to)
  /\ fs' = LET real == canonicalize(fs, root_dir)
           IN SetEntry(RemoveFile(fs, real.names), ParentInode(fs, to), Last(to), real.inode)
  /\ root_dir' = to

\* The store is moved and a link takes its place.
LinkStore(to) ==
  /\ Others
  /\ symlink_metadata(fs, to).error = "NotFound"
  /\ MoveBehindLink(canonicalize(fs, root_dir).names, to)
  /\ UNCHANGED root_dir

LinkScope(scope) ==
  LET path == Append(canonicalize(fs, root_dir).names, scope)
      here == symlink_metadata(fs, path)
  IN /\ Others
     /\ here.error = "None" /\ fs[here.inode].type = "dir"
     /\ MoveBehindLink(path, Append(Attic, scope))
     /\ UNCHANGED root_dir

\* A file is deleted, or becomes a link to the file of another artifact.
LoseFile(scope, row) ==
  LET dir == ScopeDir(fs, scope)
  IN /\ Others
     /\ row \in read_scope_records(scope)
     /\ symlink_metadata(fs, Append(dir.names, FileName[row.id])).error = "None"
     /\ \/ fs' = DropEntry(fs, dir.inode, FileName[row.id])
        \/ \E other \in read_scope_records(scope) \ {row} :
             /\ canonicalize(fs, Append(dir.names, FileName[other.id])).inode = other.id
             /\ fs' = SetEntry(AddNode(fs, LinkInode,
                                       Link(Path(FALSE, <<FileName[other.id]>>))),
                               dir.inode, FileName[row.id], LinkInode)
     /\ UNCHANGED root_dir

Init ==
  /\ fs = InitialTree
  /\ root_dir = InitialRoot
  /\ index = [s \in Scope |-> {}]
  /\ last = {}
  /\ moves = 0

Next ==
  \/ \E id \in Id, scope \in Scope : write_bytes_with_metadata(id, scope)
  \/ \E scope \in Scope : LinkScope(scope) \/ \E row \in read_scope_records(scope) :
       safe_expire_artifact_records(scope, row) \/ LoseFile(scope, row)
  \/ \E to \in Places : Reconfigure(to) \/ LinkStore(to)

Spec == Init /\ [][Next]_vars

-----------------------------------------------------------------------------
\* Wherever the store or its scope has been moved to, a lookup answers with the file of
\* its artifact, and answers whenever that file is in the scope's directory
\* (validate_record_path takes the name of a path that it cannot place).
LookupsFollowMoves ==
  \A scope \in Scope : \A row \in read_scope_records(scope) :
    LET found == validate_record_path(fs, scope, row.id, row.path)
        held  == {p \in {Append(ScopeDir(fs, scope).names, FileName[row.id])} :
                    /\ symlink_metadata(fs, p).error = "None"
                    /\ symlink_metadata(fs, p).inode = row.id}
    IN /\ held \subseteq found
       /\ \A p \in found : exists(fs, p) => canonicalize(fs, p).inode = row.id

\* An expired artifact takes no other artifact's file with it, not even when its own
\* has become a link to that file (delete_artifact removes the path, not what it leads to).
ExpiryTakesOnlyItsOwn ==
  [][\A id \in Id : Names(fs, id) # Names(fs', id) /\ last' # {} => id \in last']_vars

\* The file of an expired artifact is gone if the store holds it and the path recorded for
\* it still leads there: links left behind by moves do not keep it.
ExpiredFilesGo ==
  \A id \in last, scope \in Scope : \A row \in read_scope_records(scope) :
    LET dir == ScopeDir(fs, scope)
    IN row.id = id /\ canonicalize(fs, Front(row.path)) = dir
         /\ starts_with(dir.names, canonical_root_dir(fs))
       => FileName[id] \notin DOMAIN fs[dir.inode].entries

\* Moves and links neither hide an artifact from its lookups, nor keep it from expiring,
\* nor make its expiry take another: the three together.
PathsKeepTheirArtifact ==
  [](LookupsFollowMoves /\ ExpiredFilesGo) /\ ExpiryTakesOnlyItsOwn
=============================================================================
