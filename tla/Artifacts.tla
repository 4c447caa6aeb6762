----------------------------- MODULE Artifacts -----------------------------
(***************************************************************************)
(* The local artifact store (atelia-core/src/artifacts.rs): files of       *)
(* spilled tool output and, for each scope, an index of records that is    *)
(* read and rewritten under a lock file.  Threads and processes spill      *)
(* fields of results, roll back when one fails, expire artifacts and look  *)
(* them up; any of them may crash between two steps.                       *)
(*                                                                         *)
(* A scope is a repository id, which sanitize_segment leaves as it is.     *)
(* Ids are drawn in order.  A file has one owner, its record's path, so it *)
(* is named by its id.                                                     *)
(***************************************************************************)
EXTENDS Integers, Sequences, FiniteSets, Functions

CONSTANTS Actor, Scope, Project,
          Metadata,  \* of records written directly: repository_id, project_id
          MaxIds,    \* bound: artifacts of a behaviour
          MaxFields, \* bound: large fields of a result
          MaxTime,   \* bound: of the clock
          MaxFaults, \* bound: I/O errors
          MaxCrashes,
          Retention  \* ArtifactRetentionPolicy::max_retention

VARIABLES files,    \* ids whose artifact file exists
          index,    \* scope -> records of its index file
          locks,    \* scope -> holder of .index.lock
          ops,      \* what each actor does
          now, nextId, faults, crashes,
          returned  \* history: refs that a spill or a write answered

vars == <<files, index, locks, ops, now, nextId, faults, crashes, returned>>

disk == <<files, index>>

world == <<now, nextId, crashes>>

Idle == [pc |-> "idle"]

Init ==
  /\ files = {}
  /\ index = [s \in Scope |-> {}]
  /\ locks = [s \in Scope |-> {}]
  /\ ops = [a \in Actor |-> Idle]
  /\ now = 0 /\ nextId = 1 /\ faults = 0 /\ crashes = 0
  /\ returned = {}

\* An I/O error may happen wherever a file is opened, written or renamed.
Fault == faults < MaxFaults /\ faults' = faults + 1

Become(a, op) == ops' = [ops EXCEPT ![a] = op]

----------------------------------------------------------------------------
(* Writing: one artifact, or the large fields of a result one by one.      *)

\* Artifacts that operations may still write.
Pending ==
  {p \in Actor \X (1..MaxFields) : "left" \in DOMAIN ops[p[1]] /\ p[2] <= ops[p[1]].left}

StartWrite(a, s, n, spill, m) ==
  /\ ops[a].pc \in {"idle", "failed"}
  /\ nextId + Cardinality(Pending) + n <= MaxIds + 1
  /\ Become(a, [pc |-> "file", held |-> FALSE, scope |-> s, left |-> n, spill |-> spill,
                metadata |-> m, id |-> 0, created_at |-> 0, refs |-> << >>, snap |-> {}])
  /\ UNCHANGED <<disk, locks, world, faults, returned>>

spill_large_tool_result_fields(a) ==
  \E s \in Scope, n \in 1..MaxFields :
    StartWrite(a, s, n, TRUE, [repository_id |-> {}, project_id |-> {}])

write_bytes_with_metadata(a) ==
  \E s \in Scope, m \in Metadata : StartWrite(a, s, 1, FALSE, m)

\* rollback_artifact_writes takes the refs in order: the file, then the row.
Rollback(a, op) ==
  Become(a, IF op.refs = << >> THEN [pc |-> "failed"]
            ELSE [op EXCEPT !.pc = "erase", !.held = FALSE, !.snap = {}, !.id = Head(op.refs),
                            !.refs = Tail(op.refs)])

\* A temporary file and a rename: the file is there whole or not at all.
write_file_bytes(a) ==
  /\ ops[a].pc = "file"
  /\ \/ /\ nextId' = nextId + 1
        /\ files' = files \cup {nextId}
        /\ Become(a, [ops[a] EXCEPT !.pc = "index", !.id = nextId, !.created_at = now])
        /\ UNCHANGED faults
     \/ /\ Fault
        /\ Rollback(a, ops[a])
        /\ UNCHANGED <<files, nextId>>
  /\ UNCHANGED <<index, locks, now, crashes, returned>>

LocalArtifactRecord(op) ==
  [id |-> op.id, repository_id |-> op.metadata.repository_id,
   project_id |-> op.metadata.project_id, created_at |-> op.created_at, spilled |-> FALSE,
   tombstone |-> {}]

----------------------------------------------------------------------------
(* ScopeIndexGuard: the lock file is held from the read of an index to its *)
(* replacement.                                                            *)

Sections == {"index", "meta", "unrecord", "tombstone"}

\* Mutant: the index is read without the lock.
ReadUnlocked(a) ==
  /\ ops[a].pc \in Sections /\ ~ops[a].held
  /\ Become(a, [ops[a] EXCEPT !.held = TRUE, !.snap = index[ops[a].scope]])
  /\ UNCHANGED <<disk, locks, world, faults, returned>>

acquire(a) ==
  /\ ops[a].pc \in Sections /\ ~ops[a].held
  /\ locks[ops[a].scope] = {}
  /\ locks' = [locks EXCEPT ![ops[a].scope] = {a}]
  /\ Become(a, [ops[a] EXCEPT !.held = TRUE, !.snap = index[ops[a].scope]])
  /\ UNCHANGED <<disk, world, faults, returned>>

\* write_scope_records_unlocked replaces the index by renaming a new file,
\* then the guard is dropped.
WriteIndex(a, records) ==
  /\ index' = [index EXCEPT ![ops[a].scope] = records]
  /\ locks' = [locks EXCEPT ![ops[a].scope] = {}]
  /\ UNCHANGED <<files, world, faults>>

\* The guard cannot be had, or the index not read or not written.
IndexFails(a) ==
  /\ Fault
  /\ locks' = [s \in Scope |-> locks[s] \ {a}]
  /\ UNCHANGED <<disk, world, returned>>

IndexRecord(a) ==
  LET op == ops[a]
      next == [op EXCEPT !.pc = "meta", !.held = FALSE, !.snap = {},
                         !.refs = Append(@, op.id)]
  IN  /\ op.pc = "index"
      /\ \/ /\ op.held
            /\ WriteIndex(a, op.snap \cup {LocalArtifactRecord(op)})
            /\ IF op.spill THEN Become(a, next) /\ UNCHANGED returned
               ELSE Become(a, Idle) /\ returned' = returned \cup {[id |-> op.id, scope |-> op.scope]}
         \/ IndexFails(a) /\ Become(a, [op EXCEPT !.pc = "unwrite", !.held = FALSE, !.snap = {}])

\* The file of a record that was not indexed is deleted.
Unwrite(a) ==
  /\ ops[a].pc = "unwrite"
  /\ \/ files' = files \ {ops[a].id} /\ UNCHANGED faults
     \/ Fault /\ UNCHANGED files
  /\ Rollback(a, ops[a])
  /\ UNCHANGED <<index, locks, world, returned>>

\* update_spill_metadata; after the last field the result is changed and
\* its refs are answered.
update_record_bytes(a) ==
  LET op == ops[a]
      row == {r \in op.snap : r.id = op.id}
      more == [op EXCEPT !.pc = "file", !.held = FALSE, !.snap = {}, !.left = @ - 1]
      ended == {[id |-> id, scope |-> op.scope] : id \in Range(op.refs)}
  IN  /\ op.pc = "meta"
      /\ \/ /\ op.held
            /\ WriteIndex(a, (op.snap \ row) \cup {[r EXCEPT !.spilled = TRUE] : r \in row})
            /\ IF row = {} THEN Rollback(a, op) /\ UNCHANGED returned
               ELSE IF op.left > 1 THEN Become(a, more) /\ UNCHANGED returned
               ELSE Become(a, Idle) /\ returned' = returned \cup ended
         \/ IndexFails(a) /\ Rollback(a, op)

delete_artifact_bytes(a) ==
  /\ ops[a].pc = "erase"
  /\ \/ files' = files \ {ops[a].id} /\ UNCHANGED faults
     \/ Fault /\ UNCHANGED files
  /\ Become(a, [ops[a] EXCEPT !.pc = "unrecord"])
  /\ UNCHANGED <<index, locks, world, returned>>

remove_record_bytes(a) ==
  LET op == ops[a]
  IN  /\ op.pc = "unrecord"
      /\ \/ op.held /\ WriteIndex(a, {r \in op.snap : r.id # op.id}) /\ UNCHANGED returned
         \/ IndexFails(a)
      /\ Rollback(a, op)

----------------------------------------------------------------------------
(* Expiry: find what is too old, list again, and scope by scope write the  *)
(* tombstones and then delete the files.                                   *)

StartExpiry(a, pc, scopes, targets) ==
  /\ ops[a].pc \in {"idle", "failed"}
  /\ Become(a, [pc |-> pc, held |-> FALSE, scope |-> CHOOSE s \in Scope : TRUE, scopes |-> scopes,
                todo |-> scopes, targets |-> targets, matched |-> [s \in Scope |-> {}],
                at |-> now, snap |-> {}, deletions |-> {}, retention |-> pc = "find"])
  /\ UNCHANGED <<disk, locks, world, faults, returned>>

safe_expire_artifacts_by_retention(a) ==
  \E scopes \in {Scope} \cup {{s} : s \in Scope} : StartExpiry(a, "find", scopes, {})

safe_expire_artifact_records(a) ==
  \E r \in returned : StartExpiry(a, "match", {r.scope}, {r.id})

expired_cutoff_millis(at) == at - Retention

\* Mutant: a record with a tombstone is done with.
ExpiredUntombstoned(s, at) ==
  {r \in index[s] : r.created_at <= expired_cutoff_millis(at) /\ r.tombstone = {}}

find_expired_artifact_records(s, at) ==
  {r \in index[s] : /\ r.created_at <= expired_cutoff_millis(at)
                    /\ r.tombstone = {} \/ r.id \in files}

\* Each scope's index is read under its lock.
ListScope(a) ==
  LET op == ops[a]
  IN  /\ op.pc \in {"find", "match"}
      /\ \E s \in op.todo :
           /\ locks[s] = {}
           /\ Become(a,
                IF op.pc = "find"
                THEN LET found == {r.id : r \in find_expired_artifact_records(s, op.at)}
                     IN  [op EXCEPT !.targets = @ \cup found, !.todo = @ \ {s}]
                ELSE LET hits == {r.id : r \in {r \in index[s] : r.id \in op.targets}}
                     IN  [op EXCEPT !.matched[s] = hits, !.todo = @ \ {s}])
      /\ UNCHANGED <<disk, locks, world, faults, returned>>

Listed(a) ==
  LET op == ops[a]
      hit == {s \in op.scopes : op.matched[s] # {}}
  IN  /\ op.pc \in {"find", "match"} /\ op.todo = {}
      /\ Become(a, IF op.pc = "find" THEN [op EXCEPT !.pc = "match", !.todo = op.scopes]
                   ELSE [op EXCEPT !.pc = "scope", !.todo = hit])
      /\ UNCHANGED <<disk, locks, world, faults, returned>>

NextScope(a) ==
  /\ ops[a].pc = "scope"
  /\ \E s \in ops[a].todo :
       Become(a, [ops[a] EXCEPT !.pc = "tombstone", !.scope = s, !.todo = @ \ {s}])
  /\ UNCHANGED <<disk, locks, world, faults, returned>>

WriteTombstones(a) ==
  LET op == ops[a]
      targets == {r \in op.snap : r.id \in op.matched[op.scope]}
      Tombstoned(r) == IF r.tombstone = {} THEN [r EXCEPT !.tombstone = {op.at}] ELSE r
  IN  /\ op.pc = "tombstone"
      /\ \/ /\ op.held
            /\ WriteIndex(a, (op.snap \ targets) \cup {Tombstoned(r) : r \in targets})
            /\ Become(a, [op EXCEPT !.pc = "delete", !.held = FALSE, !.snap = {},
                                    !.deletions = {r.id : r \in targets}])
            /\ UNCHANGED returned
         \/ IndexFails(a) /\ Become(a, Idle)

\* An error ends the run; the files left wait for the next one.
delete_artifact(a) ==
  LET op == ops[a]
  IN  /\ op.pc = "delete"
      /\ \/ \E id \in op.deletions :
              \/ /\ files' = files \ {id}
                 /\ Become(a, [op EXCEPT !.deletions = @ \ {id}])
                 /\ UNCHANGED faults
              \/ Fault /\ Become(a, Idle) /\ UNCHANGED files
         \/ /\ op.deletions = {}
            /\ Become(a, [op EXCEPT !.pc = "scope"])
            /\ UNCHANGED <<files, faults>>
      /\ UNCHANGED <<index, locks, world, returned>>

ExpiryEnds(a) ==
  /\ ops[a].pc = "scope" /\ ops[a].todo = {}
  /\ Become(a, Idle)
  /\ UNCHANGED <<disk, locks, world, faults, returned>>

----------------------------------------------------------------------------
(* Looking an artifact up in a context: at most one repository, one scope, *)
(* and one project.                                                        *)

record_matches_request_context(r, s, repository, scope, project) ==
  /\ repository # {} => IF r.repository_id = {} THEN scope \subseteq {s}
                        ELSE r.repository_id = repository
  /\ IF project = {} THEN r.project_id = {}
     ELSE r.project_id \subseteq project /\ (r.project_id # {} \/ repository # {})

record_matches_repository_context(r, s, repository, scope) ==
  IF repository = {} THEN scope \subseteq {s}
  ELSE IF r.repository_id # {} THEN r.repository_id = repository
  ELSE {s} = (IF scope = {} THEN repository ELSE scope)

Rows(id, scopes) == {x \in {[scope |-> s, row |-> r] : s \in scopes, r \in UNION {index[t] : t \in scopes}} :
                       x.row \in index[x.scope] /\ x.row.id = id}

resolve_output_record_for_context(id, repository, scope, project) ==
  LET full == repository = {} /\ scope = {}
      candidates == IF full THEN Scope ELSE repository \cup scope
      rows == Rows(id, candidates)
      matches == {x \in rows : record_matches_request_context(
                                x.row, x.scope, repository,
                                IF full THEN {} ELSE {x.scope}, project)}
      elsewhere == \E x \in Rows(id, Scope) :
                     ~record_matches_repository_context(x.row, x.scope, repository, scope)
  IN  IF matches # {} THEN IF \E x \in matches : matches = {x} THEN "Found" ELSE "InvalidIndex"
      ELSE IF ~full /\ elsewhere THEN "RepositoryScopeOrIdentityMismatch"
      ELSE IF project = {} /\ \E x \in rows : x.row.project_id # {}
           THEN "ProjectOrJobContextRequired"
      ELSE "NotFound"

----------------------------------------------------------------------------

\* A crash of every process: the kernel drops the locks.
Crash ==
  /\ crashes < MaxCrashes
  /\ crashes' = crashes + 1
  /\ locks' = [s \in Scope |-> {}]
  /\ ops' = [a \in Actor |-> Idle]
  /\ UNCHANGED <<disk, now, nextId, faults, returned>>

Tick ==
  /\ now < MaxTime
  /\ now' = now + 1
  /\ UNCHANGED <<disk, locks, ops, nextId, faults, crashes, returned>>

Step(a) ==
  \/ spill_large_tool_result_fields(a)
  \/ write_bytes_with_metadata(a)
  \/ write_file_bytes(a)
  \/ acquire(a)
  \/ IndexRecord(a)
  \/ Unwrite(a)
  \/ update_record_bytes(a)
  \/ delete_artifact_bytes(a)
  \/ remove_record_bytes(a)
  \/ safe_expire_artifacts_by_retention(a)
  \/ safe_expire_artifact_records(a)
  \/ ListScope(a)
  \/ Listed(a)
  \/ NextScope(a)
  \/ WriteTombstones(a)
  \/ delete_artifact(a)
  \/ ExpiryEnds(a)

Next == (\E a \in Actor : Step(a)) \/ Crash \/ Tick

Spec == Init /\ [][Next]_vars

----------------------------------------------------------------------------
(* Properties.                                                             *)

\* Every ref that a spill answered has its row in the index, and its file
\* unless the row has a tombstone, whatever spills, roll-backs, expiries,
\* errors and crashes came after it: a result never refers to an artifact
\* of which nothing remains.
ReferencedAreStored ==
  \A ref \in returned :
    \E r \in index[ref.scope] : r.id = ref.id /\ (ref.id \in files \/ r.tombstone # {})

\* After any one I/O error and no crash, once all is quiet no file is
\* without a row and no row without file or tombstone: a failed spill of
\* several fields leaves nothing behind.
QuietStoreIsConsistent ==
  crashes = 0 /\ faults <= 1 /\ (\A a \in Actor : ops[a].pc \in {"idle", "failed"}) =>
    LET rows == UNION {index[s] : s \in Scope}
    IN  /\ files \subseteq {r.id : r \in rows}
        /\ \A r \in rows : r.id \in files \/ r.tombstone # {}

\* From a repository's context its artifacts are found and no other's, at
\* any moment of other actors' work; an artifact of a project is found with
\* that project only, and a lookup in the wrong repository says so.
LookupsAreScoped ==
  \A s \in Scope, repository \in Scope, project \in {{}} \cup {{p} : p \in Project} :
    \A r \in index[s] :
      LET found == resolve_output_record_for_context(r.id, {repository}, {repository}, project)
          owner == IF r.repository_id = {} THEN {s} ELSE r.repository_id
      IN  /\ found = "Found" => owner = {repository} /\ s = repository
                                /\ r.project_id \subseteq project
          /\ owner = {repository} /\ s = repository /\ r.project_id \subseteq project
                => found = "Found"
          /\ owner # {repository} => found = "RepositoryScopeOrIdentityMismatch"

\* What was answered is stored, what is stored was answered or is being written, and each is
\* found in its own context (spill_large_tool_result_fields, its roll-back, and expiry;
\* resolve_output_record_for_context).
StoreIsConsistent == ReferencedAreStored /\ QuietStoreIsConsistent /\ LookupsAreScoped

RetentionDone == \E a \in Actor : ExpiryEnds(a) /\ ops[a].retention /\ ops[a].scopes = Scope

Overdue(id) ==
  id \in files /\ \E s \in Scope : \E r \in index[s] :
                     r.id = id /\ r.created_at <= expired_cutoff_millis(now)

\* If runs of the retention policy are completed again and again, the file
\* of every indexed artifact that is past retention is deleted in the end,
\* although a run may fail or crash between its tombstone and its deletion.
OverdueAreDeleted ==
  []<><<RetentionDone>>_vars => \A id \in 1..MaxIds : Overdue(id) ~> id \notin files
=============================================================================
