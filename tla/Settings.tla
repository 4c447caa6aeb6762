------------------------------ MODULE Settings ------------------------------
(***************************************************************************)
(* Tool output settings (atelia-core/src/settings.rs, and the three        *)
(* settings operations of ateliad/src/rpc.rs and service.rs): overrides by *)
(* scope, the defaults they resolve to, the migration of settings written  *)
(* as full defaults, and the history of the changes, read in pages.        *)
(*                                                                         *)
(* Defaults are a function from fields to values; overrides are a function *)
(* on some of the fields.                                                  *)
(***************************************************************************)
EXTENDS Integers, Sequences, SequencesExt

CONSTANTS Field,        \* of ToolOutputDefaults, max_inline_lines among them
          BaseDefaults, \* ToolOutputDefaults::default()
          WireScopes,   \* scopes as clients write them
          Updates,      \* overrides that clients send
          Loads,        \* sequences of settings to start from
          Limits, Offsets,
          MinLines, MaxLines, MaxHistoryPage,
          MaxChanges    \* bound: changes of a behaviour

VARIABLES settings, \* InMemoryToolOutputSettingsService::settings; empty: not started
          changes,  \* and its changes
          loaded,   \* history: what the service was started with
          named,    \* history: the scopes and fields that updates named
          walk      \* one client's walk of the history

vars == <<settings, changes, loaded, named, walk>>

----------------------------------------------------------------------------
(* Scopes: a level and at most one tool.                                   *)

Workspace == [kind |-> "Workspace", id |-> ""]

workspace == [level |-> Workspace, tool_id |-> {}]

for_tool(scope, tools) == [scope EXCEPT !.tool_id = tools]

resolution_chain(scope) ==
  LET levels == IF scope.level = Workspace THEN << >> ELSE <<for_tool(scope, {})>>
      tools == IF scope.tool_id = {} THEN << >>
               ELSE IF scope.level = Workspace THEN <<scope>>
               ELSE <<for_tool(workspace, scope.tool_id), scope>>
  IN  <<workspace>> \o levels \o tools

\* A client's name of a level or a tool: text, and perhaps blanks around it.
IsBlank(name) == name.text = ""

\* The scope, or nothing when a name is blank.
parse_tool_output_scope(w) ==
  IF \/ w.kind # "Workspace" /\ IsBlank(w.id)
     \/ \E t \in w.tool_id : IsBlank(t)
  THEN {}
  ELSE {[level |-> [kind |-> w.kind,
                    id |-> IF w.kind = "Workspace" THEN "" ELSE w.id.text],
         tool_id |-> {t.text : t \in w.tool_id}]}

Scopes == UNION {parse_tool_output_scope(w) : w \in WireScopes}

----------------------------------------------------------------------------
(* Defaults and overrides.                                                 *)

apply_to(overrides, defaults) ==
  [f \in Field |-> IF f \in DOMAIN overrides THEN overrides[f] ELSE defaults[f]]

merge(overrides, update) ==
  [f \in DOMAIN overrides \cup DOMAIN update |->
     IF f \in DOMAIN update THEN update[f] ELSE overrides[f]]

from_defaults_with_parent(base, inherited) ==
  [f \in {g \in Field : base[g] # inherited[g]} |-> base[f]]

validate(defaults) == defaults["max_inline_lines"] \in MinLines..MaxLines

\* ToolOutputSettings; legacy holds full defaults not yet migrated.
Setting(scope, overrides, legacy) ==
  [scope |-> scope, overrides |-> overrides, legacy_defaults |-> legacy]

resolved_overrides(setting, inherited) ==
  IF setting.legacy_defaults = {} THEN setting.overrides
  ELSE from_defaults_with_parent(CHOOSE d \in setting.legacy_defaults : TRUE, inherited)

\* The overrides of a chain's scopes, applied in its order.
Resolve(ss, chain) ==
  FoldLeft(LAMBDA defaults, scope :
             LET found == SelectSeq(ss, LAMBDA s : s.scope = scope)
             IN  IF found = << >> THEN defaults
                 ELSE apply_to(resolved_overrides(Head(found), defaults), defaults),
           BaseDefaults, chain)

resolve_defaults(ss, scope) == Resolve(ss, resolution_chain(scope))

\* A chain ends with its scope.
resolve_parent_defaults_for(ss, scope) == Resolve(ss, Front(resolution_chain(scope)))

----------------------------------------------------------------------------
(* new and new_with_settings: refused if two settings have one scope.      *)

scope_migration_depth(scope) == IF scope.tool_id = {} THEN 1 ELSE 2

apply_legacy_migration(setting, inherited) ==
  Setting(setting.scope, resolved_overrides(setting, inherited), {})

\* Mutant: as differences from the base defaults.
MigrateFromBase(ss) ==
  [i \in 1..Len(ss) |-> apply_legacy_migration(ss[i], BaseDefaults)]

migrate_legacy_settings(ss) ==
  FoldLeft(LAMBDA acc, i :
             [acc EXCEPT ![i] =
                apply_legacy_migration(acc[i], resolve_parent_defaults_for(acc, acc[i].scope))],
           ss,
           SetToSortSeq(1..Len(ss),
             LAMBDA i, j : \/ scope_migration_depth(ss[i].scope) < scope_migration_depth(ss[j].scope)
                           \/ /\ scope_migration_depth(ss[i].scope)
                                   = scope_migration_depth(ss[j].scope)
                              /\ i < j))

DuplicateScope(ss) == \E i, j \in 1..Len(ss) : i # j /\ ss[i].scope = ss[j].scope

NewService(ss) ==
  migrate_legacy_settings(
    IF \E i \in 1..Len(ss) : ss[i].scope = workspace THEN ss
    ELSE Append(ss, Setting(workspace, << >>, {})))

new_with_settings ==
  /\ settings = << >>
  /\ \E ss \in Loads :
       /\ settings' = IF DuplicateScope(ss) THEN settings ELSE NewService(ss)
       /\ loaded' = IF DuplicateScope(ss) THEN loaded ELSE ss
  /\ UNCHANGED <<changes, named, walk>>

\* The service is a field of the daemon's memory, and so are its changes.
Restart ==
  /\ settings # << >>
  /\ settings' = << >> /\ changes' = << >> /\ loaded' = << >> /\ named' = {}
  /\ walk' = [mode |-> "none"]

----------------------------------------------------------------------------
(* update_tool_output_defaults.                                            *)

\* The change of an update, or nothing if it is refused.  An update that
\* came over HTTP was validated by its deserialization too.
Change(setting, update, reason, inherited) ==
  LET overrides == resolved_overrides(setting, inherited)
      old == apply_to(overrides, inherited)
      new == apply_to(update, old)
  IN  IF DOMAIN update = {} \/ reason = "" \/ ~validate(new) THEN {}
      ELSE {[scope |-> setting.scope, old_defaults |-> old, new_defaults |-> new,
             reason |-> reason]}

\* A refused update leaves the settings and the history as they were, and a
\* scope without settings of its own gets none.
apply_update(scope, update, reason) ==
  LET at == {i \in 1..Len(settings) : settings[i].scope = scope}
      ss == IF at = {} THEN Append(settings, Setting(scope, << >>, {})) ELSE settings
      i == CHOOSE k \in 1..Len(ss) : ss[k].scope = scope
      inherited == resolve_parent_defaults_for(settings, scope)
  IN  \E c \in Change(ss[i], update, reason, inherited) :
        /\ settings' = [ss EXCEPT ![i] =
                          Setting(scope, merge(resolved_overrides(ss[i], inherited), update), {})]
        /\ changes' = Append(changes, c)

update_tool_output_defaults ==
  /\ settings # << >> /\ Len(changes) < MaxChanges
  /\ \E w \in WireScopes : \E scope \in parse_tool_output_scope(w) :
       \E update \in Updates, reason \in {"", "why"} :
         /\ apply_update(scope, update, reason)
         /\ named' = named \cup {<<scope, f>> : f \in DOMAIN update}
  /\ UNCHANGED <<loaded, walk>>

----------------------------------------------------------------------------
(* list_tool_output_settings_history, walked with offset, then cursors.    *)

Recorded(scope) == SelectSeq(changes, LAMBDA c : scope \subseteq {c.scope})

list_tool_output_settings_history_page(scope, limit, start) ==
  LET size == IF limit > MaxHistoryPage THEN MaxHistoryPage ELSE limit
      rest == SubSeq(Recorded(scope), start + 1, Len(Recorded(scope)))
  IN  IF size = 0 THEN [changes |-> << >>, next |-> {}]
      ELSE IF Len(rest) <= size THEN [changes |-> rest, next |-> {}]
      ELSE [changes |-> SubSeq(rest, 1, size), next |-> {start + size}]

\* Of an offset and a cursor only one may be given; here a walk's first
\* page has an offset and the others the cursor answered last.
HistoryPage ==
  /\ settings # << >>
  /\ \/ /\ walk.mode = "none"
        /\ \E w \in WireScopes, all \in BOOLEAN, limit \in Limits, offset \in Offsets :
             LET scope == IF all THEN {} ELSE parse_tool_output_scope(w)
                 page == list_tool_output_settings_history_page(scope, limit, offset)
             IN  /\ all \/ scope # {}
                 /\ walk' = [mode |-> "walk", scope |-> scope, limit |-> limit, from |-> offset,
                             got |-> page.changes, next |-> page.next,
                             seen |-> Len(Recorded(scope)) - offset]
     \/ /\ walk.mode = "walk"
        /\ \E start \in walk.next :
             LET page == list_tool_output_settings_history_page(walk.scope, walk.limit, start)
             IN  walk' = [walk EXCEPT !.got = @ \o page.changes, !.next = page.next,
                                   !.seen = Len(Recorded(walk.scope)) - walk.from]
  /\ UNCHANGED <<settings, changes, loaded, named>>

Init ==
  /\ settings = << >> /\ changes = << >> /\ loaded = << >> /\ named = {}
  /\ walk = [mode |-> "none"]

Next ==
  \/ new_with_settings
  \/ update_tool_output_defaults
  \/ HistoryPage
  \/ Restart

Spec == Init /\ [][Next]_vars

----------------------------------------------------------------------------
(* Properties.                                                             *)

\* Whatever layers of settings and updates a scope's defaults come from,
\* they are in the ranges that ToolOutputDefaults::validate sets.
ResolvedAreValid ==
  settings # << >> => \A scope \in Scopes : validate(resolve_defaults(settings, scope))

\* The stored setting i names a tool off the workspace and stands before the legacy
\* setting of the tool in the workspace, from which field f did not differ: the sort by
\* depth keeps the two in stored order, and the one in the workspace is migrated last.
MigratedTooEarly(i, f) ==
  /\ loaded[i].scope.level # Workspace /\ loaded[i].scope.tool_id # {}
  /\ \E j \in (i + 1)..Len(loaded) :
       /\ loaded[j].scope = for_tool(workspace, loaded[i].scope.tool_id)
       /\ \E d \in loaded[i].legacy_defaults, e \in loaded[j].legacy_defaults : d[f] = e[f]

\* A scope that was loaded with full defaults resolves to them after the migration,
\* field by field and in whatever order the settings were stored, although the migration
\* replaces them by the differences from parents that are being migrated too.  The one
\* exception are the fields of MigratedTooEarly (migrate_legacy_settings): their value is
\* dropped as equal to a parent's that then changes, and they follow the scope's parents.
LegacyDefaultsKept ==
  settings # << >> /\ changes = << >> =>
    \A i \in 1..Len(loaded) : \A d \in loaded[i].legacy_defaults, f \in Field :
      resolve_defaults(settings, loaded[i].scope)[f] =
        IF MigratedTooEarly(i, f) THEN resolve_parent_defaults_for(settings, loaded[i].scope)[f]
        ELSE d[f]

\* The change that an update records tells the defaults its scope resolved
\* to before the update and those it resolves to after it.
ChangesTellTheDefaults ==
  [][Len(changes') > Len(changes) =>
       LET c == Last(changes')
       IN  /\ c.old_defaults = resolve_defaults(settings, c.scope)
           /\ c.new_defaults = resolve_defaults(settings', c.scope)]_vars

\* An update reaches the scopes that inherit from its scope and no other,
\* and changes only the fields it names.
UpdatesStayInScope ==
  [][Len(changes') > Len(changes) =>
       LET c == Last(changes')
       IN  \A scope \in Scopes, f \in Field :
             resolve_defaults(settings', scope)[f] # resolve_defaults(settings, scope)[f] =>
               /\ c.scope \in ToSet(resolution_chain(scope))
               /\ <<c.scope, f>> \in named']_vars

\* A field that no update of a scope named follows the scopes it inherits
\* from: it resolves to what they resolve to, now and after their updates.
UnnamedFieldsFollow ==
  settings # << >> /\ loaded = << >> =>
    \A scope \in Scopes, f \in Field :
      <<scope, f>> \notin named =>
        resolve_defaults(settings, scope)[f] = resolve_parent_defaults_for(settings, scope)[f]

\* A walk of the history returns the changes of its scope from its first
\* offset on, each once and in order, and all there were when it ended.
HistoryWalkIsExact ==
  walk.mode = "walk" =>
    LET recorded == Recorded(walk.scope)
    IN  /\ IsPrefix(walk.got, SubSeq(recorded, walk.from + 1, Len(recorded)))
        /\ Len(walk.got) >= walk.seen \/ walk.limit = 0 \/ walk.next # {}

\* The defaults that a scope resolves to, and the history of how they became so: the
\* properties above together.
SettingsAreCoherent ==
  /\ [](ResolvedAreValid /\ LegacyDefaultsKept /\ UnnamedFieldsFollow /\ HistoryWalkIsExact)
  /\ ChangesTellTheDefaults /\ UpdatesStayInScope
=============================================================================
