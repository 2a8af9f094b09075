--------------------------- MODULE LaunchProperties ---------------------------
(***************************************************************************)
(* What the life of the server processes and the REPL must respect.        *)
(***************************************************************************)
EXTENDS Repl

Wheres == {"data", "remove_data", "make_data", "log", "old", "remove_old", "rename",
           "look_again", "create", "app", "remove_app", "make_app", "load", "handler",
           "bind", "serving", "deaf", "stopping", "aborting"}

\* The state of the processes, the disk, the tool and the REPL; a connection is
\* open as long as there is a process at its other end.
TypeOK ==
    /\ DOMAIN server \subseteq Pids
    /\ \A p \in DOMAIN server :
          server[p] \in [pc : Wheres, by : {"hand", "toi"}, alone : BOOLEAN]
    /\ disk \in [data : {"none", "file", "dir"}, app : {"none", "file", "dir", "full"},
                 log : {"none", "newest"}, old : {"none", "older", "newest"}]
    /\ tool \in [pc : {"idle", "look", "kill", "place", "check", "spawn", "attached"},
                 cmd : {"none", "start", "stop", "restart"}, force : BOOLEAN,
                 child : Pids \cup {Nobody}]
    /\ repl.pc \in {"off", "connect", "prompt", "wait", "killing", "left"}
    /\ conn.to \in Pids \cup {Nobody}
    /\ conn.job \in {"none", "current", "earlier", "merged", "mute"}
    /\ conn.closed \/ conn.to \in DOMAIN server
    /\ conn.job # "none" => ~conn.closed

\* toi never runs two servers: of the processes it has started, whatever way they
\* end or are killed, at most one is left (main.rs 319 and 383).
OneServer ==
    \A p, q \in DOMAIN server : server[p].by = "toi" /\ server[q].by = "toi" => p = q

NewestLogKept ==
    "newest" \in {disk.log, disk.old} => "newest" \in {disk.log', disk.old'}

DatabasesKept == disk.app = "full" => disk.app' = "full"

\* A step keeps both, or is that of a process that has had others beside it.
LosesNothing ==
    \/ NewestLogKept /\ DatabasesKept
    \/ \E p \in DOMAIN server \cap DOMAIN server' :
          server'[p] # server[p] /\ ~server[p].alone

\* A start-up that has had no other process beside it, after any number of deaths
\* at any of its steps, loses neither the log of the last start nor the databases
\* (main.cpp 714-774, logger.cpp 37-64).
StartsLoseNothing == [][LosesNothing]_launchVars

\* What the REPL shows after a command is the answer to it alone, until a read of
\* this connection has left part of an answer (main.rs 260): from then on it may
\* show an earlier command's answer, or that of several taken as one text.
ShowsItsAnswer == repl.shown = "another's" => conn.partial

\* Nobody will ever answer this connection: a text with a NUL keeps it active
\* (lib.rs 416-418 and 259), or the runtime is gone (lib.rs 139-163).
Unanswerable ==
    \/ conn.job = "mute"
    \/ conn.to \in DOMAIN server /\ server[conn.to].pc = "deaf"

\* The REPL gets its prompt back, or quits, be its command answered, closed on, cut
\* short, or sent to a server that dies.  Its read has no time limit (main.rs 260):
\* it waits for ever only on a connection that a text with a NUL has made mute or
\* whose server has lost its runtime.
ReplReturns == (repl.pc = "wait") ~> (repl.pc # "wait" \/ Unanswerable)
=============================================================================
