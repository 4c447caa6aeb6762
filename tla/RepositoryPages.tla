--------------------------- MODULE RepositoryPages --------------------------
(***************************************************************************)
(* Repositories at the RPC boundary: how ateliad/src/rpc.rs turns the path *)
(* scope of a registration into a record and a record back into a scope,   *)
(* and how ateliad/src/service.rs lists the records in pages, sorted by    *)
(* id, while others are registered.                                        *)
(*                                                                         *)
(* What makes a root acceptable is in Repositories; here a registration is *)
(* one step, of a root that is not registered yet.  Ids are random, so a   *)
(* new record may sort before or after any other.  Ids are numbers, in the *)
(* order of the ids that they stand for.                                   *)
(***************************************************************************)
EXTENDS Integers, Sequences, FiniteSets, SequencesExt

CONSTANTS
  Ids,        \* the ids that may be drawn
  Roots,      \* the canonical roots that clients register
  Outside,    \* scope paths that are not inside a root
  Inside,     \* scope paths below a root
  Scopes,     \* the path scopes that clients register roots with
  Clients,    \* the clients that list repositories
  PageSizes   \* the page sizes that they ask for

VARIABLES
  repositories,  \* the records, by id
  walks          \* per client: its query, its next page token if any, what it got

vars == <<repositories, walks>>

-----------------------------------------------------------------------------
(* Scopes in and out                                                       *)

\* The scope is optional: a set of at most one element.
infer_repository_trust_state(scope) ==
  IF \E s \in scope : s.kind = "read_only" THEN "read_only" ELSE "trusted"

parse_repository_allowed_scope_ok(s) == ~s.patterns /\ Len(s.roots) <= 1

\* Without a root the scope is the repository.
parse_repository_allowed_scope(s) == IF s.roots = << >> THEN << "." >> ELSE << s.roots[1] >>

\* A path of the scope must lead to a directory inside the root.
validate_repository_allowed_scope(root, paths) ==
  \A i \in DOMAIN paths : paths[i] \in {".", root} \cup Inside

RegistrationOk(root, scope) ==
  \A s \in scope : /\ parse_repository_allowed_scope_ok(s)
                   /\ validate_repository_allowed_scope(root, parse_repository_allowed_scope(s))

RepositoryRecord(root, scope) ==
  [root_path |-> root, trust_state |-> infer_repository_trust_state(scope),
   allowed_paths |-> IF scope = {} THEN << root >>
                     ELSE parse_repository_allowed_scope(CHOOSE s \in scope : TRUE)]

rpc_path_scope_kind(record) ==
  IF record.trust_state = "read_only" THEN "read_only"
  ELSE IF record.allowed_paths \in {<< >>, << "." >>, << record.root_path >>} THEN "repository"
  ELSE "explicit_paths"

rpc_path_scope_from_record(record) ==
  [kind |-> rpc_path_scope_kind(record),
   roots |-> IF record.allowed_paths = << >> THEN << record.root_path >> ELSE record.allowed_paths,
   patterns |-> FALSE]

register_repository(id, root, scope) ==
  /\ id \notin DOMAIN repositories
  /\ \A other \in DOMAIN repositories : repositories[other].root_path # root
  /\ RegistrationOk(root, scope)
  /\ repositories' = [i \in DOMAIN repositories \cup {id} |->
                        IF i = id THEN RepositoryRecord(root, scope) ELSE repositories[i]]
  /\ UNCHANGED walks

-----------------------------------------------------------------------------
(* Pages                                                                   *)

\* Mutant: the record that shows that there is a next page is counted.
PaginateWithPeeked(records, start, page_size) ==
  LET last == IF start + page_size < Len(records) THEN start + page_size ELSE Len(records)
  IN IF page_size = 0 THEN [records |-> << >>, next |-> {}]
     ELSE [records |-> SubSeq(records, start + 1, last),
           next |-> IF last < Len(records) THEN {last + 1} ELSE {}]

paginate_records(records, start, page_size) ==
  LET last == IF start + page_size < Len(records) THEN start + page_size ELSE Len(records)
  IN IF page_size = 0 THEN [records |-> << >>, next |-> {}]
     ELSE [records |-> SubSeq(records, start + 1, last),
           next |-> IF last < Len(records) THEN {last} ELSE {}]

\* No token is the first page.
parse_page_token(token) == IF token = {} THEN 0 ELSE CHOOSE n \in token : TRUE

\* The trust state to select is optional; unspecified selects every one.
parse_list_repositories_request(trust) == trust \ {"unspecified"}

Selected(trust) == {id \in DOMAIN repositories :
                      trust \subseteq {repositories[id].trust_state}}

list_repositories_page(trust, token, page_size) ==
  paginate_records(SetToSortSeq(Selected(trust), <), parse_page_token(token), page_size)

\* Unbounded when the request names no size.
PageSize(size) == IF size = {} THEN Cardinality(Ids) ELSE CHOOSE n \in size : TRUE

Start(c, trust, size) ==
  /\ walks[c].step = "idle"
  /\ LET selected == parse_list_repositories_request(trust)
     IN walks' = [walks EXCEPT ![c] =
          [step |-> "walking", trust |-> selected, size |-> size, token |-> {},
           seen |-> << >>, promised |-> Selected(selected)]]
  /\ UNCHANGED repositories

\* The client sends the token that the last page came with, until there is none.
list_repositories(c) ==
  /\ walks[c].step = "walking"
  /\ LET page == list_repositories_page(walks[c].trust, walks[c].token, PageSize(walks[c].size))
     IN walks' = [walks EXCEPT ![c] =
          [@ EXCEPT !.step = IF page.next = {} THEN "done" ELSE @,
                    !.token = page.next, !.seen = @ \o page.records]]
  /\ UNCHANGED repositories

-----------------------------------------------------------------------------
Idle == [step |-> "idle", trust |-> {}, size |-> {}, token |-> {}, seen |-> << >>, promised |-> {}]

Init == repositories = << >> /\ walks = [c \in Clients |-> Idle]

Next ==
  \/ \E id \in Ids, root \in Roots, s \in Scopes :
       register_repository(id, root, {s}) \/ register_repository(id, root, {})
  \/ \E c \in Clients, trust \in {{}, {"unspecified"}, {"read_only"}} :
       Start(c, trust, {}) \/ \E n \in PageSizes : Start(c, trust, {n})
  \/ \E c \in Clients : list_repositories(c)

Spec == Init /\ [][Next]_vars

\* A client that has started a walk asks for the next page.
FairSpec == Spec /\ \A c \in Clients : WF_vars(list_repositories(c))

-----------------------------------------------------------------------------
(* Properties                                                              *)

\* The scope that a client reads of a repository, sent with a registration of
\* the same root, is accepted and is read again as the same scope: nothing that
\* parse_repository_allowed_scope or infer_repository_trust_state keeps is lost
\* by rpc_path_scope_from_record.
ScopesRoundTrip ==
  \A id \in DOMAIN repositories :
    LET record == repositories[id]
        shown == rpc_path_scope_from_record(record)
        again == RepositoryRecord(record.root_path, {shown})
    IN /\ RegistrationOk(record.root_path, {shown})
       /\ again.trust_state = record.trust_state
       /\ rpc_path_scope_from_record(again) = shown

\* A walk that was not asked for empty pages returns every repository that there
\* was at its start, although records registered meanwhile move the offsets
\* that its tokens stand for; it returns none that its trust state leaves out.
WalksMissNothing ==
  \A c \in Clients :
    LET w == walks[c] IN
    /\ w.step = "done" /\ w.size # {0} => w.promised \subseteq Range(w.seen)
    /\ Range(w.seen) \subseteq Selected(w.trust)

\* Every walk ends, also one with pages of size zero (paginate_records).
WalksEnd == \A c \in Clients : walks[c].step = "walking" ~> walks[c].step = "done"
=============================================================================
