-------------------------------- MODULE Launch --------------------------------
(***************************************************************************)
(* The life of the server processes: how main starts up (main.cpp          *)
(* 700-801), rotates the log (logger.cpp 37-64) and ends, and how the      *)
(* control tool toi starts, stops and restarts them (toi/src/main.rs       *)
(* 112-145, 298-406, toi/src/dep.rs).                                      *)
(*                                                                         *)
(* A step is one look at the disk or the process table, or one change of   *)
(* it.  A server may also be started by hand (justfile, exec), which no    *)
(* one checks, and any process may die at any step: killed, or on a        *)
(* failing operation of the disk, all of which end in return 1 or exit(1). *)
(***************************************************************************)
EXTENDS Integers, FiniteSets

CONSTANTS
    Pids,       \* bound: the processes there may be at a time
    Nobody      \* no process

ASSUME PidsAssumption == Nobody \notin Pids

VARIABLES
    server,     \* the running processes named toidb: where each one is, who
                \* started it, and whether it has had no other beside it so far
    disk,       \* the data folder, its folder of databases, log.log, old_log.log
    tool,       \* the running toi start, stop or restart
    busy        \* the system refuses to write a program that runs (Linux)

launchVars == <<server, disk, tool, busy>>

\* What a path is: "none", "file" or "dir"; a folder that holds databases is "full".
\* A log is the last one that was created, an older one, or there is none.
EmptyDisk == [data |-> "none", app |-> "none", log |-> "none", old |-> "none"]

NoTool == [pc |-> "idle", cmd |-> "none", force |-> FALSE, child |-> Nobody]

LaunchInit ==
    /\ server = [p \in {} |-> Nobody]
    /\ \/ \E path \in {"none", "file"} : disk = [EmptyDisk EXCEPT !.data = path]
       \/ disk = [EmptyDisk EXCEPT !.data = "dir", !.app = "file"]
    /\ tool = NoTool
    /\ busy \in BOOLEAN

-----------------------------------------------------------------------------
(* Processes. *)

At(p, pc) == p \in DOMAIN server /\ server[p].pc = pc

Goto(p, pc) == server' = [server EXCEPT ![p].pc = pc]

Without(p) == [q \in DOMAIN server \ {p} |-> server[q]]

Exit(p) == server' = Without(p) /\ UNCHANGED disk

\* A new process: from now on no other is alone.
WithNew(p, by) ==
    [q \in DOMAIN server \cup {p} |->
        IF q = p THEN [pc |-> "data", by |-> by, alone |-> DOMAIN server = {}]
                 ELSE [server[q] EXCEPT !.alone = FALSE]]

StartByHand(p) ==
    /\ p \in Pids \ (DOMAIN server \cup {tool.child})
    /\ server' = WithNew(p, "hand")
    /\ UNCHANGED <<disk, tool, busy>>

Die(p) ==
    /\ p \in DOMAIN server
    /\ Exit(p)
    /\ UNCHANGED <<tool, busy>>

-----------------------------------------------------------------------------
(* The start-up of main. *)

\* A path is looked at and then made, or removed and then made.
Look(p, pc, path, make, remove, next) ==
    /\ At(p, pc)
    /\ Goto(p, CASE path = "none" -> make [] path = "file" -> remove [] OTHER -> next)
    /\ UNCHANGED disk

LookAtData(p) == Look(p, "data", disk.data, "make_data", "remove_data", "log")

\* Path::remove removes a folder with all that is in it.
RemoveData(p) ==
    /\ At(p, "remove_data")
    /\ IF disk.data = "none" THEN Exit(p)
       ELSE disk' = EmptyDisk /\ Goto(p, "make_data")

\* create_dir_all: it makes the folders above, and takes a folder that is there.
MakeData(p) ==
    /\ At(p, "make_data")
    /\ disk' = [disk EXCEPT !.data = "dir"]
    /\ Goto(p, "log")

LookAtLog(p) ==
    /\ At(p, "log")
    /\ Goto(p, IF disk.log = "none" THEN "look_again" ELSE "old")
    /\ UNCHANGED disk

LookAtOld(p) ==
    /\ At(p, "old")
    /\ Goto(p, IF disk.old = "none" THEN "rename" ELSE "remove_old")
    /\ UNCHANGED disk

RemoveOld_TheLog(p) ==
    /\ At(p, "remove_old")
    /\ IF disk.old = "none" THEN Exit(p)
       ELSE disk' = [disk EXCEPT !.log = "none"] /\ Goto(p, "rename")

RemoveOld(p) ==
    /\ At(p, "remove_old")
    /\ IF disk.old = "none" THEN Exit(p)
       ELSE disk' = [disk EXCEPT !.old = "none"] /\ Goto(p, "rename")

RenameLog(p) ==
    /\ At(p, "rename")
    /\ IF disk.log = "none" THEN Exit(p)
       ELSE disk' = [disk EXCEPT !.old = disk.log, !.log = "none"] /\ Goto(p, "look_again")

LookAgain(p) ==
    /\ At(p, "look_again")
    /\ Goto(p, IF disk.log = "none" THEN "create" ELSE "app")
    /\ UNCHANGED disk

NewLog == [disk EXCEPT !.log = "newest", !.old = IF @ = "none" THEN @ ELSE "older"]

\* File::create truncates a log that is there by now.
CreateLog(p) ==
    /\ At(p, "create")
    /\ IF disk.data # "dir" THEN Exit(p)
       ELSE disk' = NewLog /\ Goto(p, "app")

LookAtApp(p) == Look(p, "app", disk.app, "make_app", "remove_app", "load")

RemoveApp(p) ==
    /\ At(p, "remove_app")
    /\ IF disk.app = "none" THEN Exit(p)
       ELSE disk' = [disk EXCEPT !.app = "none"] /\ Goto(p, "make_app")

MakeApp(p) ==
    /\ At(p, "make_app")
    /\ disk' = [disk EXCEPT !.data = "dir", !.app = IF @ = "none" THEN "dir" ELSE @]
    /\ Goto(p, "load")

\* set_working_dir and dbs.load.
Load(p) ==
    /\ At(p, "load")
    /\ IF disk.app \notin {"dir", "full"} THEN Exit(p)
       ELSE Goto(p, "handler") /\ UNCHANGED disk

SetHandler(p) == At(p, "handler") /\ Goto(p, "bind") /\ UNCHANGED disk

\* Who may hold the port: a server that stops closes it at some point.
Listening == {q \in DOMAIN server : server[q].pc \in {"serving", "stopping"}}

\* If the port is taken the runtime thread panics, and receive goes on in a
\* process that nobody can connect to.
Bind(p) ==
    /\ At(p, "bind")
    /\ \/ /\ \A q \in Listening : server[q].pc = "stopping"
          /\ Goto(p, "serving")
       \/ Listening # {} /\ Goto(p, "deaf")
    /\ UNCHANGED disk

\* A system call of the runtime fails (poll, accept, register): its thread panics,
\* which closes the listener, and the process lives on.
RuntimeFails(p) == At(p, "serving") /\ Goto(p, "deaf") /\ UNCHANGED disk

\* A client creates a database.
Fill(p) ==
    /\ At(p, "serving") /\ disk.app = "dir"
    /\ disk' = [disk EXCEPT !.app = "full"]
    /\ UNCHANGED server

\* Every line of the log opens it anew, and makes it if it is gone.
LogLine(p) ==
    /\ p \in DOMAIN server /\ server[p].pc \in {"app", "load", "serving", "deaf"}
    /\ disk.log = "none" /\ disk.data = "dir"
    /\ disk' = NewLog
    /\ UNCHANGED server

\* The main thread leaves its loop, joins the others and returns; with a
\* runtime that panicked the join aborts.
End(p) == (At(p, "stopping") \/ At(p, "aborting")) /\ Exit(p)

ServerStep(p) ==
    /\ \/ LookAtData(p) \/ RemoveData(p) \/ MakeData(p) \/ LookAtLog(p) \/ LookAtOld(p)
       \/ RemoveOld(p) \/ RenameLog(p) \/ LookAgain(p) \/ CreateLog(p) \/ LookAtApp(p)
       \/ RemoveApp(p) \/ MakeApp(p) \/ Load(p) \/ SetHandler(p) \/ Bind(p)
       \/ RuntimeFails(p) \/ End(p)
    /\ UNCHANGED <<tool, busy>>

-----------------------------------------------------------------------------
(* The control tool: one start, stop or restart at a time. *)

Running == DOMAIN server # {}   \* process_exists

\* SIGTERM ends a process that has not set its handler.
Terminated(p) ==
    CASE server[p].pc \in {"bind", "serving", "stopping"} -> [server EXCEPT ![p].pc = "stopping"]
      [] server[p].pc \in {"deaf", "aborting"}            -> [server EXCEPT ![p].pc = "aborting"]
      [] OTHER                                            -> Without(p)

\* The process is whichever the table lists last.
KillDatabaseProcess(force) ==
    IF Running
    THEN \E p \in DOMAIN server : server' = IF force THEN Without(p) ELSE Terminated(p)
    ELSE UNCHANGED server

ToolGoes(pc) == tool' = [tool EXCEPT !.pc = pc]

Command(cmd, force) ==
    /\ tool.pc = "idle"
    /\ tool' = [pc |-> IF cmd = "start" THEN "place" ELSE "look", cmd |-> cmd, force |-> force,
                child |-> Nobody]
    /\ UNCHANGED <<server, disk, busy>>

LookForServer ==
    /\ tool.pc = "look"
    /\ IF Running THEN ToolGoes("kill")
       ELSE IF tool.cmd = "stop" THEN tool' = NoTool ELSE ToolGoes("place")
    /\ UNCHANGED <<server, disk, busy>>

Kill ==
    /\ tool.pc = "kill"
    /\ KillDatabaseProcess(tool.force)
    /\ IF tool.cmd = "stop" THEN tool' = NoTool ELSE ToolGoes("place")
    /\ UNCHANGED <<disk, busy>>

\* colocar_dependencias writes the program that start and restart run.
PlaceProgram ==
    /\ tool.pc = "place"
    /\ IF busy /\ \E p \in DOMAIN server : server[p].by = "toi" THEN tool' = NoTool
       ELSE ToolGoes("check")
    /\ UNCHANGED <<server, disk, busy>>

Check_Skipped ==
    /\ tool.pc = "check"
    /\ IF Running /\ tool.cmd = "start" THEN tool' = NoTool ELSE ToolGoes("spawn")
    /\ UNCHANGED <<server, disk, busy>>

Check ==
    /\ tool.pc = "check"
    /\ IF Running THEN tool' = NoTool ELSE ToolGoes("spawn")
    /\ UNCHANGED <<server, disk, busy>>

\* With --attach the tool waits for its child.
Spawn(attach) ==
    /\ tool.pc = "spawn"
    /\ \E p \in Pids \ DOMAIN server :
          /\ server' = WithNew(p, "toi")
          /\ tool' = IF attach THEN [tool EXCEPT !.pc = "attached", !.child = p] ELSE NoTool
    /\ UNCHANGED <<disk, busy>>

Detach ==
    /\ tool.pc = "attached" /\ tool.child \notin DOMAIN server
    /\ tool' = NoTool
    /\ UNCHANGED <<server, disk, busy>>

\* The tool is interrupted, or exits on an error.
GiveUp ==
    /\ tool.pc # "idle"
    /\ tool' = NoTool
    /\ UNCHANGED <<server, disk, busy>>

\* The "stop" of a REPL (toi connect) kills as well.
KillFromRepl ==
    /\ Running /\ KillDatabaseProcess(FALSE)
    /\ UNCHANGED <<disk, tool, busy>>

ToolStep ==
    \/ LookForServer \/ Kill \/ PlaceProgram \/ Check \/ Detach \/ GiveUp \/ KillFromRepl
    \/ \E attach \in BOOLEAN : Spawn(attach)

LaunchNext ==
    \/ ToolStep
    \/ \E cmd \in {"start", "stop", "restart"}, force \in BOOLEAN : Command(cmd, force)
    \/ \E p \in Pids :
          \/ ServerStep(p) \/ Die(p) \/ StartByHand(p)
          \/ (Fill(p) \/ LogLine(p)) /\ UNCHANGED <<tool, busy>>

LaunchSpec == LaunchInit /\ [][LaunchNext]_launchVars
=============================================================================
