------------------------------ MODULE Startup -------------------------------
(***************************************************************************)
(* How a daemon comes up (ateliad/src/main.rs) and how it agrees with      *)
(* others on the session token in the storage directory                    *)
(* (ateliad/src/transport.rs).  The token file is created, written and     *)
(* read in separate steps by daemons that start together or crash between  *)
(* them; an operator may delete it.                                        *)
(***************************************************************************)
EXTENDS Naturals, FiniteSets

CONSTANTS Daemon,
          Configs,      \* [auth, addr, unsafe]: how a daemon may be configured
          MaxAttempts,  \* SESSION_TOKEN_READ_ATTEMPTS
          MaxStarts,    \* bound: starts of all daemons
          MaxFaults     \* bound: crashes, failed writes and deletions

VARIABLES file, daemon, ports, starts, faults, epoch

vars == <<file, daemon, ports, starts, faults, epoch>>

NoFile == [token |-> 0, written |-> 0]

\* A token is written in two parts; half a token is none.
Complete == 2

\* fresh: the random token this start would make
Down == [step |-> "down", config |-> {}, fresh |-> 0, token |-> 0, attempts |-> 0, epoch |-> 0]

Is(d, step) == daemon[d].step = step

Set(d, new) == daemon' = [daemon EXCEPT ![d] = new]

Goto(d, step) == Set(d, [daemon[d] EXCEPT !.step = step])

fail(d) == Goto(d, "failed")

is_loopback(addr) == addr # "network"

Start(d) ==
  /\ daemon[d].step \in {"down", "failed"}
  /\ starts < MaxStarts
  /\ \E c \in Configs :
       Set(d, [Down EXCEPT !.step = "auth", !.config = {c}, !.fresh = starts + 1])
  /\ starts' = starts + 1
  /\ UNCHANGED <<file, ports, faults, epoch>>

Config(d) == CHOOSE c \in daemon[d].config : TRUE

----------------------------------------------------------------------------
(* resolve_local_auth.                                                     *)

resolve_local_auth(d) ==
  /\ Is(d, "auth")
  /\ \/ Config(d).auth \in {"disabled_and_token", "weak_token"} /\ fail(d)
     \/ Config(d).auth \in {"disabled", "env_token"} /\ Goto(d, "listen")
     \/ Config(d).auth = "session" /\ Goto(d, "metadata")
  /\ UNCHANGED <<file, ports, starts, faults, epoch>>

\* A file that is there is read; otherwise a token is made.
load_or_create_session_token(d) ==
  /\ Is(d, "metadata")
  /\ IF file # NoFile THEN Goto(d, "read")
     ELSE Set(d, [daemon[d] EXCEPT !.step = "create", !.token = daemon[d].fresh])
  /\ UNCHANGED <<file, ports, starts, faults, epoch>>

\* Mutant: an existing file is opened and emptied.
CreateOrTruncate(d) ==
  /\ Is(d, "create")
  /\ file' = [token |-> daemon[d].token, written |-> 0]
  /\ Goto(d, "write")
  /\ UNCHANGED <<ports, starts, faults, epoch>>

\* create_new: one daemon creates the file, the others read it.
open_session_token_file(d) ==
  /\ Is(d, "create")
  /\ IF file = NoFile
       THEN /\ file' = [token |-> daemon[d].token, written |-> 0]
            /\ Set(d, [daemon[d] EXCEPT !.step = "write", !.epoch = epoch])
       ELSE /\ Goto(d, "read")
            /\ UNCHANGED file
  /\ UNCHANGED <<ports, starts, faults, epoch>>

\* write_all, part by part; the descriptor outlives the name.
write_session_token(d) ==
  /\ Is(d, "write")
  /\ LET mine == file.token = daemon[d].token /\ file.written < Complete
     IN file' = IF mine THEN [file EXCEPT !.written = @ + 1] ELSE file
  /\ IF file'.token = daemon[d].token /\ file'.written < Complete
       THEN UNCHANGED daemon ELSE Goto(d, "listen")
  /\ UNCHANGED <<ports, starts, faults, epoch>>

WriteFails(d) ==
  /\ Is(d, "write") /\ faults < MaxFaults
  /\ fail(d)
  /\ faults' = faults + 1
  /\ UNCHANGED <<file, ports, starts, epoch>>

\* The file is read until it holds a whole token or the attempts run out.
read_and_validate_session_token_with_retry(d) ==
  /\ Is(d, "read")
  /\ IF file.written = Complete
       THEN Set(d, [daemon[d] EXCEPT !.step = "listen", !.token = file.token, !.epoch = epoch])
     ELSE IF daemon[d].attempts + 1 < MaxAttempts
       THEN Set(d, [daemon[d] EXCEPT !.attempts = @ + 1])
     ELSE fail(d)
  /\ UNCHANGED <<file, ports, starts, faults, epoch>>

----------------------------------------------------------------------------
(* The listener.                                                           *)

\* validate_listen_addr and validate_local_auth_binding
validate_listen_addr(d) ==
  /\ Is(d, "listen")
  /\ LET c == Config(d)
     IN IF ~is_loopback(c.addr) /\ (~c.unsafe \/ c.auth = "disabled")
          THEN fail(d) ELSE Goto(d, "bind")
  /\ UNCHANGED <<file, ports, starts, faults, epoch>>

\* An address has one listener.
bind_listener(d) ==
  /\ Is(d, "bind")
  /\ IF Config(d).addr \in ports
       THEN fail(d) /\ UNCHANGED ports
       ELSE Goto(d, "up") /\ ports' = ports \cup {Config(d).addr}
  /\ UNCHANGED <<file, starts, faults, epoch>>

----------------------------------------------------------------------------
(* Crashes and the operator.                                               *)

Crash(d) ==
  /\ daemon[d].step \notin {"down", "failed"}
  /\ faults < MaxFaults
  /\ ports' = IF Is(d, "up") THEN ports \ {Config(d).addr} ELSE ports
  /\ Set(d, Down)
  /\ faults' = faults + 1
  /\ UNCHANGED <<file, starts, epoch>>

\* "delete it and restart to regenerate"
DeleteToken ==
  /\ file # NoFile
  /\ faults < MaxFaults
  /\ file' = NoFile
  /\ faults' = faults + 1
  /\ epoch' = epoch + 1
  /\ UNCHANGED <<daemon, ports, starts>>

Init ==
  /\ file = NoFile
  /\ daemon = [d \in Daemon |-> Down]
  /\ ports = {}
  /\ starts = 0
  /\ faults = 0
  /\ epoch = 0

Next ==
  \/ \E d \in Daemon :
       \/ Start(d) \/ resolve_local_auth(d) \/ load_or_create_session_token(d)
       \/ open_session_token_file(d) \/ write_session_token(d) \/ WriteFails(d)
       \/ read_and_validate_session_token_with_retry(d)
       \/ validate_listen_addr(d) \/ bind_listener(d) \/ Crash(d)
  \/ DeleteToken

Spec == Init /\ [][Next]_vars

----------------------------------------------------------------------------
(* Properties.                                                             *)

UpWithSession == {d \in Daemon : Is(d, "up") /\ Config(d).auth = "session"}

\* As long as nobody deletes the file, a daemon that is up with a session token accepts
\* exactly the token that a client finds in the file, whoever created it and whoever
\* crashed while writing it (write_or_reuse_session_token).
TokenIsTheFiles ==
  \A d \in UpWithSession :
    daemon[d].epoch = epoch =>
      file.written = Complete /\ file.token = daemon[d].token

\* Daemons that come up together with session tokens share one.
OneSessionToken ==
  \A d, e \in UpWithSession :
    daemon[d].epoch = daemon[e].epoch => daemon[d].token = daemon[e].token

\* Daemons that start together, crash while they write the file or find half of it agree
\* with each other and with the file on the session token.
SessionIsShared == TokenIsTheFiles /\ OneSessionToken

=============================================================================
