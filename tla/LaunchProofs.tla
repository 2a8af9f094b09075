------------------------------ MODULE LaunchProofs ------------------------------
(***************************************************************************)
(* Proofs about the life of the server processes, for any set of pids and  *)
(* with or without a REPL beside them: toi keeps to one server, and a      *)
(* start-up that is alone loses nothing, whatever died before it.  And     *)
(* about the REPL, for answers of any number of pieces and any number of   *)
(* commands not read: it shows the answer to its command until a read has  *)
(* left part of one.                                                       *)
(***************************************************************************)
EXTENDS LaunchProperties, SequenceTheorems, TLAPS

Process == [pc : Wheres, by : {"hand", "toi"}, alone : BOOLEAN]

ProcessesOK == DOMAIN server \subseteq Pids /\ server \in [DOMAIN server -> Process]

DiskOK ==
    /\ disk \in [data : {"none", "file", "dir"}, app : {"none", "file", "dir", "full"},
                 log : {"none", "newest"}, old : {"none", "older", "newest"}]
    /\ disk.data # "dir" => disk = [EmptyDisk EXCEPT !.data = disk.data]

ToolOK == tool \in [pc : {"idle", "look", "kill", "place", "check", "spawn", "attached"},
                    cmd : {"none", "start", "stop", "restart"}, force : BOOLEAN,
                    child : Pids \cup {Nobody}]

\* Whoever is alone is the only process.
AloneIsAlone == \A p \in DOMAIN server : server[p].alone => DOMAIN server = {p}

\* Between the tool's last look and its spawn no other toi spawns.
SpawnsAlone == tool.pc = "spawn" => \A p \in DOMAIN server : server[p].by # "toi"

\* What a process that is alone has seen of the disk is still so.
Seen(pc) ==
    /\ pc = "remove_data" => disk.data = "file"
    /\ pc \in {"old", "remove_old", "rename"} => disk.log = "newest"
    /\ pc = "remove_app" => disk.app = "file"

SeenIsSo == \A p \in DOMAIN server : server[p].alone => Seen(server[p].pc)

LInv == ProcessesOK /\ DiskOK /\ ToolOK /\ AloneIsAlone /\ SpawnsAlone /\ OneServer /\ SeenIsSo

-----------------------------------------------------------------------------
(* What a step may do to the processes. *)

\* Processes leave or move on.
Fewer ==
    /\ DOMAIN server' \subseteq DOMAIN server
    /\ \A q \in DOMAIN server' : /\ server'[q].by = server[q].by
                                 /\ server'[q].alone = server[q].alone

Moves(p, pc) ==
    /\ server' \in [DOMAIN server -> Process]
    /\ server'[p] = [server[p] EXCEPT !.pc = pc]
    /\ \A q \in DOMAIN server \ {p} : server'[q] = server[q]

\* One process moves on, the others stay where they are.
LEMMA GotoMoves ==
  ASSUME ProcessesOK, NEW p \in DOMAIN server, NEW pc \in Wheres, Goto(p, pc)
  PROVE  ProcessesOK' /\ Fewer /\ Moves(p, pc)
BY DEF ProcessesOK, Process, Goto, Fewer, Moves

\* A process that ends leaves the others as they are.
LEMMA ExitLeaves ==
  ASSUME ProcessesOK, NEW p \in DOMAIN server, server' = Without(p)
  PROVE  /\ ProcessesOK' /\ Fewer
         /\ DOMAIN server' = DOMAIN server \ {p}
         /\ \A q \in DOMAIN server' : server'[q] = server[q]
BY DEF ProcessesOK, Process, Without, Fewer

\* A new process leaves nobody alone but itself, and that if it is the first.
LEMMA NewComes ==
  ASSUME ProcessesOK, NEW p \in Pids \ DOMAIN server, NEW by \in {"hand", "toi"},
         server' = WithNew(p, by)
  PROVE  /\ ProcessesOK' /\ AloneIsAlone'
         /\ DOMAIN server' = DOMAIN server \cup {p}
         /\ server'[p] = [pc |-> "data", by |-> by, alone |-> DOMAIN server = {}]
         /\ \A q \in DOMAIN server : server'[q] = [server[q] EXCEPT !.alone = FALSE]
<1>1. /\ DOMAIN server' = DOMAIN server \cup {p}
      /\ server'[p] = [pc |-> "data", by |-> by, alone |-> DOMAIN server = {}]
      /\ \A q \in DOMAIN server : server'[q] = [server[q] EXCEPT !.alone = FALSE]
  BY DEF WithNew
<1>2. server'[p] \in Process
  BY <1>1 DEF Process, Wheres
<1>3. ASSUME NEW q \in DOMAIN server  PROVE server'[q] \in Process /\ server'[q].alone = FALSE
  <2>1. server[q] \in Process
    BY DEF ProcessesOK
  <2> QED  BY <1>1, <2>1 DEF Process
<1>4. ProcessesOK'
  <2>1. server' = [q \in DOMAIN server' |-> server'[q]]
    BY <1>1 DEF WithNew
  <2> QED  BY <1>1, <1>2, <1>3, <2>1 DEF ProcessesOK
<1>5. AloneIsAlone'
  <2> SUFFICES ASSUME NEW q \in DOMAIN server', server'[q].alone
               PROVE  DOMAIN server' = {q}
    BY DEF AloneIsAlone
  <2>1. q = p
    BY <1>1, <1>3
  <2>2. DOMAIN server = {}
    <3>1. server'[p].alone = (DOMAIN server = {})
      BY <1>1
    <3> QED  BY <2>1, <3>1, Zenon
  <2> QED  BY <1>1, <2>1, <2>2
<1> QED  BY <1>1, <1>4, <1>5

\* What a step of one process owes to the invariant and to the disk.
Owed(p) ==
    /\ ProcessesOK' /\ Fewer /\ DiskOK' /\ SeenIsSo'
    /\ \/ NewestLogKept /\ DatabasesKept
       \/ p \in DOMAIN server' /\ server'[p] # server[p] /\ ~server[p].alone

LEMMA ExitOwes ==
  ASSUME LInv, NEW p \in DOMAIN server, Exit(p)  PROVE Owed(p)
<1>1. ProcessesOK' /\ Fewer /\ UNCHANGED disk /\ \A q \in DOMAIN server' : server'[q] = server[q]
  BY ExitLeaves DEF Exit, LInv
<1>2. DiskOK' /\ NewestLogKept /\ DatabasesKept
  BY <1>1 DEF LInv, DiskOK, NewestLogKept, DatabasesKept
<1>3. SeenIsSo'
  BY <1>1 DEF SeenIsSo, Seen, LInv, Fewer
<1> QED  BY <1>1, <1>2, <1>3 DEF Owed

\* A move has to be right for a process that is alone.
LEMMA MoveOwes ==
  ASSUME LInv, NEW p \in DOMAIN server, NEW pc \in Wheres, pc # server[p].pc, Goto(p, pc),
         DiskOK', server[p].alone => Seen(pc)' /\ NewestLogKept /\ DatabasesKept
  PROVE  Owed(p)
<1>1. ProcessesOK' /\ Fewer /\ Moves(p, pc)
  BY GotoMoves DEF LInv
<1>2. server[p] \in Process
  BY DEF LInv, ProcessesOK
<1>3. p \in DOMAIN server' /\ server'[p].pc = pc /\ server'[p].alone = server[p].alone
  BY <1>1, <1>2 DEF Moves, Process
<1>4. SeenIsSo'
  <2> SUFFICES ASSUME NEW q \in DOMAIN server', server'[q].alone
               PROVE  Seen(server[q].pc)'
    BY DEF SeenIsSo
  <2>1. q \in DOMAIN server /\ server[q].alone
    BY <1>1 DEF Fewer
  <2>2. q = p
    BY <2>1 DEF LInv, AloneIsAlone
  <2>3. Seen(pc)'
    BY <2>1, <2>2
  <2> QED  BY <1>3, <2>2, <2>3 DEF Seen
<1>5. server'[p] # server[p]
  BY <1>3
<1> QED  BY <1>1, <1>3, <1>4, <1>5 DEF Owed

-----------------------------------------------------------------------------
(* The start-up. *)

LEMMA DataOwes ==
  ASSUME LInv, NEW p \in Pids, LookAtData(p) \/ RemoveData(p) \/ MakeData(p)
  PROVE  p \in DOMAIN server /\ Owed(p)
<1> USE DEF At
<1>1. CASE LookAtData(p)
  <2>1. PICK pc \in {"make_data", "remove_data", "log"} :
           Goto(p, pc) /\ (pc = "remove_data" => disk.data = "file")
    BY <1>1 DEF LookAtData, Look
  <2>2. p \in DOMAIN server /\ server[p].pc = "data" /\ UNCHANGED disk /\ pc \in Wheres
    BY <1>1, <2>1 DEF LookAtData, Look, Wheres
  <2>3. DiskOK' /\ Seen(pc)' /\ NewestLogKept /\ DatabasesKept
    BY <2>1, <2>2 DEF LInv, DiskOK, Seen, NewestLogKept, DatabasesKept
  <2> QED  BY <2>1, <2>2, <2>3, MoveOwes
<1>2. CASE RemoveData(p)
  <2>1. p \in DOMAIN server /\ server[p].pc = "remove_data"
    BY <1>2 DEF RemoveData
  <2>2. CASE Exit(p)
    BY <2>1, <2>2, ExitOwes
  <2>3. CASE disk' = EmptyDisk /\ Goto(p, "make_data")
    <3>1. DiskOK' /\ Seen("make_data")'
      BY <2>3 DEF DiskOK, Seen, EmptyDisk
    <3>2. ASSUME server[p].alone  PROVE NewestLogKept /\ DatabasesKept
      <4>1. disk.data = "file"
        BY <2>1, <3>2 DEF LInv, SeenIsSo, Seen
      <4>2. disk = [EmptyDisk EXCEPT !.data = "file"]
        BY <4>1 DEF LInv, DiskOK
      <4> QED  BY <4>2 DEF NewestLogKept, DatabasesKept, EmptyDisk
    <3> QED  BY <2>1, <2>3, <3>1, <3>2, MoveOwes DEF Wheres
  <2> QED  BY <1>2, <2>1, <2>2, <2>3 DEF RemoveData
<1>3. CASE MakeData(p)
  <2>1. /\ p \in DOMAIN server /\ server[p].pc = "make_data" /\ Goto(p, "log")
        /\ disk' = [disk EXCEPT !.data = "dir"]
    BY <1>3 DEF MakeData
  <2>2. DiskOK' /\ Seen("log")' /\ NewestLogKept /\ DatabasesKept
    BY <2>1 DEF LInv, DiskOK, Seen, NewestLogKept, DatabasesKept
  <2> QED  BY <2>1, <2>2, MoveOwes DEF Wheres
<1> QED  BY <1>1, <1>2, <1>3

\* The rotation: a process that is alone removes the old log only when there is a
\* newer one, and renames the one it has seen.
LEMMA LogOwes ==
  ASSUME LInv, NEW p \in Pids,
         LookAtLog(p) \/ LookAtOld(p) \/ RemoveOld(p) \/ RenameLog(p) \/ LookAgain(p) \/ CreateLog(p)
  PROVE  p \in DOMAIN server /\ Owed(p)
<1> USE DEF At
<1>1. CASE LookAtLog(p)
  <2>1. PICK pc \in {"look_again", "old"} : Goto(p, pc) /\ (pc = "old" => disk.log # "none")
    BY <1>1 DEF LookAtLog
  <2>2. p \in DOMAIN server /\ server[p].pc = "log" /\ UNCHANGED disk /\ pc \in Wheres
    BY <1>1, <2>1 DEF LookAtLog, Wheres
  <2>3. DiskOK' /\ Seen(pc)' /\ NewestLogKept /\ DatabasesKept
    BY <2>1, <2>2 DEF LInv, DiskOK, Seen, NewestLogKept, DatabasesKept
  <2> QED  BY <2>1, <2>2, <2>3, MoveOwes
<1>2. CASE LookAtOld(p)
  <2>1. PICK pc \in {"rename", "remove_old"} : Goto(p, pc)
    BY <1>2 DEF LookAtOld
  <2>2. p \in DOMAIN server /\ server[p].pc = "old" /\ UNCHANGED disk /\ pc \in Wheres
    BY <1>2, <2>1 DEF LookAtOld, Wheres
  <2>3. DiskOK' /\ NewestLogKept /\ DatabasesKept
    BY <2>2 DEF LInv, DiskOK, NewestLogKept, DatabasesKept
  <2>4. server[p].alone => Seen(pc)'
    BY <2>1, <2>2 DEF LInv, SeenIsSo, Seen
  <2> QED  BY <2>1, <2>2, <2>3, <2>4, MoveOwes
<1>3. CASE RemoveOld(p)
  <2>1. p \in DOMAIN server /\ server[p].pc = "remove_old"
    BY <1>3 DEF RemoveOld
  <2>2. CASE Exit(p)
    BY <2>1, <2>2, ExitOwes
  <2>3. CASE disk' = [disk EXCEPT !.old = "none"] /\ Goto(p, "rename") /\ disk.old # "none"
    <3>1. DiskOK' /\ DatabasesKept
      BY <2>3 DEF LInv, DiskOK, DatabasesKept, EmptyDisk
    <3>2. server[p].alone => disk.log = "newest"
      BY <2>1 DEF LInv, SeenIsSo, Seen
    <3>3. server[p].alone => Seen("rename")' /\ NewestLogKept
      BY <2>3, <3>2 DEF LInv, DiskOK, Seen, NewestLogKept
    <3> QED  BY <2>1, <2>3, <3>1, <3>3, MoveOwes DEF Wheres
  <2> QED  BY <1>3, <2>1, <2>2, <2>3 DEF RemoveOld
<1>4. CASE RenameLog(p)
  <2>1. p \in DOMAIN server /\ server[p].pc = "rename"
    BY <1>4 DEF RenameLog
  <2>2. CASE Exit(p)
    BY <2>1, <2>2, ExitOwes
  <2>3. CASE /\ disk' = [disk EXCEPT !.old = disk.log, !.log = "none"]
             /\ Goto(p, "look_again") /\ disk.log # "none"
    <3>1. DiskOK' /\ DatabasesKept /\ NewestLogKept /\ Seen("look_again")'
      BY <2>3 DEF LInv, DiskOK, DatabasesKept, NewestLogKept, Seen, EmptyDisk
    <3> QED  BY <2>1, <2>3, <3>1, MoveOwes DEF Wheres
  <2> QED  BY <1>4, <2>1, <2>2, <2>3 DEF RenameLog
<1>5. CASE LookAgain(p)
  <2>1. PICK pc \in {"create", "app"} : Goto(p, pc)
    BY <1>5 DEF LookAgain
  <2>2. p \in DOMAIN server /\ server[p].pc = "look_again" /\ UNCHANGED disk /\ pc \in Wheres
    BY <1>5, <2>1 DEF LookAgain, Wheres
  <2>3. DiskOK' /\ Seen(pc)' /\ NewestLogKept /\ DatabasesKept
    BY <2>1, <2>2 DEF LInv, DiskOK, Seen, NewestLogKept, DatabasesKept
  <2> QED  BY <2>1, <2>2, <2>3, MoveOwes
<1>6. CASE CreateLog(p)
  <2>1. p \in DOMAIN server /\ server[p].pc = "create"
    BY <1>6 DEF CreateLog
  <2>2. CASE Exit(p)
    BY <2>1, <2>2, ExitOwes
  <2>3. CASE disk.data = "dir" /\ disk' = NewLog /\ Goto(p, "app")
    <3>1. DiskOK' /\ DatabasesKept /\ NewestLogKept /\ Seen("app")'
      BY <2>3 DEF LInv, DiskOK, DatabasesKept, NewestLogKept, Seen, NewLog
    <3> QED  BY <2>1, <2>3, <3>1, MoveOwes DEF Wheres
  <2> QED  BY <1>6, <2>1, <2>2, <2>3 DEF CreateLog
<1> QED  BY <1>1, <1>2, <1>3, <1>4, <1>5, <1>6

LEMMA AppOwes ==
  ASSUME LInv, NEW p \in Pids, LookAtApp(p) \/ RemoveApp(p) \/ MakeApp(p) \/ Load(p)
  PROVE  p \in DOMAIN server /\ Owed(p)
<1> USE DEF At
<1>1. CASE LookAtApp(p)
  <2>1. PICK pc \in {"make_app", "remove_app", "load"} :
           Goto(p, pc) /\ (pc = "remove_app" => disk.app = "file")
    BY <1>1 DEF LookAtApp, Look
  <2>2. p \in DOMAIN server /\ server[p].pc = "app" /\ UNCHANGED disk /\ pc \in Wheres
    BY <1>1, <2>1 DEF LookAtApp, Look, Wheres
  <2>3. DiskOK' /\ Seen(pc)' /\ NewestLogKept /\ DatabasesKept
    BY <2>1, <2>2 DEF LInv, DiskOK, Seen, NewestLogKept, DatabasesKept
  <2> QED  BY <2>1, <2>2, <2>3, MoveOwes
<1>2. CASE RemoveApp(p)
  <2>1. p \in DOMAIN server /\ server[p].pc = "remove_app"
    BY <1>2 DEF RemoveApp
  <2>2. CASE Exit(p)
    BY <2>1, <2>2, ExitOwes
  <2>3. CASE disk' = [disk EXCEPT !.app = "none"] /\ Goto(p, "make_app")
    <3>1. DiskOK' /\ NewestLogKept /\ Seen("make_app")'
      BY <2>3 DEF LInv, DiskOK, NewestLogKept, Seen, EmptyDisk
    <3>2. server[p].alone => DatabasesKept
      BY <2>1 DEF LInv, SeenIsSo, Seen, DatabasesKept
    <3> QED  BY <2>1, <2>3, <3>1, <3>2, MoveOwes DEF Wheres
  <2> QED  BY <1>2, <2>1, <2>2, <2>3 DEF RemoveApp
<1>3. CASE MakeApp(p)
  <2>1. /\ p \in DOMAIN server /\ server[p].pc = "make_app" /\ Goto(p, "load")
        /\ disk' = [disk EXCEPT !.data = "dir", !.app = IF @ = "none" THEN "dir" ELSE @]
    BY <1>3 DEF MakeApp
  <2>2. DiskOK' /\ Seen("load")' /\ NewestLogKept /\ DatabasesKept
    BY <2>1 DEF LInv, DiskOK, Seen, NewestLogKept, DatabasesKept
  <2> QED  BY <2>1, <2>2, MoveOwes DEF Wheres
<1>4. CASE Load(p)
  <2>1. p \in DOMAIN server /\ server[p].pc = "load"
    BY <1>4 DEF Load
  <2>2. CASE Exit(p)
    BY <2>1, <2>2, ExitOwes
  <2>3. CASE Goto(p, "handler") /\ UNCHANGED disk
    <3>1. DiskOK' /\ NewestLogKept /\ DatabasesKept /\ Seen("handler")'
      BY <2>3 DEF LInv, DiskOK, NewestLogKept, DatabasesKept, Seen
    <3> QED  BY <2>1, <2>3, <3>1, MoveOwes DEF Wheres
  <2> QED  BY <1>4, <2>1, <2>2, <2>3 DEF Load
<1> QED  BY <1>1, <1>2, <1>3, <1>4

LEMMA ServeOwes ==
  ASSUME LInv, NEW p \in Pids, SetHandler(p) \/ Bind(p) \/ RuntimeFails(p) \/ End(p)
  PROVE  p \in DOMAIN server /\ Owed(p)
<1> USE DEF At
<1>1. CASE End(p)
  BY <1>1, ExitOwes DEF End
<1>2. CASE SetHandler(p) \/ Bind(p) \/ RuntimeFails(p)
  <2>1. PICK pc \in {"bind", "serving", "deaf"} : Goto(p, pc) /\ pc # server[p].pc
    BY <1>2 DEF SetHandler, Bind, RuntimeFails
  <2>2. p \in DOMAIN server /\ UNCHANGED disk /\ pc \in Wheres
    BY <1>2, <2>1 DEF SetHandler, Bind, RuntimeFails, Wheres
  <2>3. DiskOK' /\ Seen(pc)' /\ NewestLogKept /\ DatabasesKept
    BY <2>1, <2>2 DEF LInv, DiskOK, Seen, NewestLogKept, DatabasesKept
  <2> QED  BY <2>1, <2>2, <2>3, MoveOwes
<1> QED  BY <1>1, <1>2

\* What a server that runs does to the disk.
LEMMA RunOwes ==
  ASSUME LInv, NEW p \in Pids, Fill(p) \/ LogLine(p)
  PROVE  p \in DOMAIN server /\ Owed(p)
<1>1. /\ p \in DOMAIN server /\ UNCHANGED server
      /\ server[p].pc \in {"app", "load", "serving", "deaf"}
  BY DEF Fill, LogLine, At
<1>2. DiskOK' /\ NewestLogKept /\ DatabasesKept
  BY DEF Fill, LogLine, NewLog, LInv, DiskOK, NewestLogKept, DatabasesKept, EmptyDisk
<1>3. ProcessesOK' /\ Fewer
  BY <1>1 DEF LInv, ProcessesOK, Fewer
<1>4. SeenIsSo'
  <2> SUFFICES ASSUME NEW q \in DOMAIN server, server[q].alone  PROVE Seen(server[q].pc)'
    BY <1>1 DEF SeenIsSo
  <2>1. q = p
    BY <1>1 DEF LInv, AloneIsAlone
  <2> QED  BY <1>1, <2>1 DEF Seen
<1> QED  BY <1>1, <1>2, <1>3, <1>4 DEF Owed

\* What a process does on its own keeps the invariant.
LEMMA OwedIsEnough ==
  ASSUME LInv, NEW p \in DOMAIN server, Owed(p), UNCHANGED tool  PROVE LInv'
<1>1. ToolOK' /\ SpawnsAlone' /\ OneServer'
  BY DEF LInv, ToolOK, Owed, Fewer, SpawnsAlone, OneServer
<1>2. AloneIsAlone'
  BY DEF LInv, Owed, Fewer, AloneIsAlone
<1> QED  BY <1>1, <1>2 DEF LInv, Owed

-----------------------------------------------------------------------------
(* Those who start and kill. *)

LEMMA NewKeeps ==
  ASSUME LInv, NEW p \in Pids \ DOMAIN server, NEW by \in {"hand", "toi"},
         server' = WithNew(p, by), UNCHANGED disk, ToolOK',
         by = "toi" => tool.pc = "spawn" /\ tool'.pc # "spawn",
         by = "hand" => UNCHANGED tool
  PROVE  LInv'
<1>1. /\ ProcessesOK' /\ AloneIsAlone'
      /\ DOMAIN server' = DOMAIN server \cup {p}
      /\ server'[p] = [pc |-> "data", by |-> by, alone |-> DOMAIN server = {}]
      /\ \A q \in DOMAIN server : server'[q] = [server[q] EXCEPT !.alone = FALSE]
  BY NewComes DEF LInv
<1>2. \A q \in DOMAIN server : server[q] \in Process
  BY DEF LInv, ProcessesOK
<1>3. /\ server'[p].by = by /\ server'[p].pc = "data"
      /\ \A q \in DOMAIN server : server'[q].by = server[q].by /\ ~server'[q].alone
  BY <1>1, <1>2 DEF Process
<1>4. SeenIsSo'
  BY <1>1, <1>3 DEF SeenIsSo, Seen
<1>5. SpawnsAlone'
  BY <1>1, <1>3 DEF LInv, SpawnsAlone
<1>6. OneServer'
  BY <1>1, <1>3 DEF LInv, SpawnsAlone, OneServer
<1>7. DiskOK'
  BY DEF LInv, DiskOK
<1> QED  BY <1>1, <1>4, <1>5, <1>6, <1>7 DEF LInv

LEMMA KillKeeps ==
  ASSUME LInv, NEW force \in BOOLEAN, KillDatabaseProcess(force), UNCHANGED disk, ToolOK',
         tool'.pc # "spawn" \/ UNCHANGED tool
  PROVE  LInv'
<1>1. ProcessesOK' /\ Fewer /\ SeenIsSo'
  <2>1. CASE UNCHANGED server
    BY <2>1 DEF LInv, ProcessesOK, Fewer, SeenIsSo, Seen
  <2>2. ASSUME NEW p \in DOMAIN server, server' = Without(p)  PROVE ProcessesOK' /\ Fewer /\ SeenIsSo'
    <3>1. ProcessesOK' /\ Fewer /\ \A q \in DOMAIN server' : server'[q] = server[q]
      BY <2>2, ExitLeaves DEF LInv
    <3> QED  BY <3>1 DEF LInv, SeenIsSo, Seen, Fewer
  <2>3. ASSUME NEW p \in DOMAIN server, NEW pc \in {"stopping", "aborting"},
               server' = [server EXCEPT ![p].pc = pc]
        PROVE  ProcessesOK' /\ Fewer /\ SeenIsSo'
    <3>1. ProcessesOK' /\ Fewer /\ Moves(p, pc)
      BY <2>3, GotoMoves DEF LInv, Goto, Wheres
    <3>2. server'[p].pc = pc
      BY <3>1 DEF Moves, LInv, ProcessesOK, Process
    <3>3. \A q \in DOMAIN server' : server'[q].pc \in {pc, server[q].pc}
      BY <3>1, <3>2 DEF Moves, Fewer
    <3> QED  BY <3>1, <3>3 DEF LInv, SeenIsSo, Seen, Fewer
  <2> QED  BY <2>1, <2>2, <2>3 DEF KillDatabaseProcess, Terminated
<1>2. DiskOK'
  BY DEF LInv, DiskOK
<1>3. SpawnsAlone' /\ OneServer' /\ AloneIsAlone'
  BY <1>1 DEF LInv, Fewer, SpawnsAlone, OneServer, AloneIsAlone
<1> QED  BY <1>1, <1>2, <1>3 DEF LInv

\* A step of the tool that leaves the processes alone.
LEMMA ToolKeeps ==
  ASSUME LInv, UNCHANGED <<server, disk>>, ToolOK', tool'.pc = "spawn" => DOMAIN server = {}
  PROVE  LInv'
BY DEF LInv, ProcessesOK, DiskOK, AloneIsAlone, SpawnsAlone, OneServer, SeenIsSo, Seen

-----------------------------------------------------------------------------
(* The theorems. *)

LEMMA LaunchStarts ==
  ASSUME LaunchInit  PROVE LInv
<1>1. ProcessesOK
  BY DEF LaunchInit, ProcessesOK
<1>2. DiskOK
  BY DEF LaunchInit, DiskOK, EmptyDisk
<1>3. ToolOK /\ tool.pc = "idle"
  BY DEF LaunchInit, ToolOK, NoTool
<1>4. DOMAIN server = {}
  BY DEF LaunchInit
<1> QED  BY <1>1, <1>2, <1>3, <1>4 DEF LInv, AloneIsAlone, SpawnsAlone, OneServer, SeenIsSo

LEMMA ProcessSteps ==
  ASSUME LInv, NEW p \in Pids,
         ServerStep(p) \/ Die(p) \/ ((Fill(p) \/ LogLine(p)) /\ UNCHANGED <<tool, busy>>)
  PROVE  LInv' /\ LosesNothing
<1>1. p \in DOMAIN server /\ Owed(p) /\ UNCHANGED tool
  <2>1. CASE ServerStep(p)
    BY <2>1, DataOwes, LogOwes, AppOwes, ServeOwes DEF ServerStep
  <2>2. CASE Die(p)
    BY <2>2, ExitOwes DEF Die
  <2>3. CASE (Fill(p) \/ LogLine(p)) /\ UNCHANGED <<tool, busy>>
    BY <2>3, RunOwes
  <2> QED  BY <2>1, <2>2, <2>3
<1>2. LInv'
  BY <1>1, OwedIsEnough
<1>3. LosesNothing
  BY <1>1 DEF Owed, LosesNothing
<1> QED  BY <1>2, <1>3

LEMMA ToolSteps ==
  ASSUME LInv,
         \/ ToolStep
         \/ \E cmd \in {"start", "stop", "restart"}, force \in BOOLEAN : Command(cmd, force)
         \/ \E p \in Pids : StartByHand(p)
  PROVE  LInv' /\ LosesNothing
<1> USE DEF ToolGoes
<1>1. ToolOK'
  <2>1. CASE LookForServer \/ Kill \/ PlaceProgram \/ Check \/ Detach \/ GiveUp \/ KillFromRepl
    <3>1. \/ tool' = NoTool \/ UNCHANGED tool
          \/ \E pc \in {"kill", "place", "check", "spawn"} : tool' = [tool EXCEPT !.pc = pc]
      BY <2>1 DEF LookForServer, Kill, PlaceProgram, Check, Detach, GiveUp, KillFromRepl
    <3>2. ToolOK
      BY DEF LInv
    <3>3. CASE tool' = NoTool
      BY <3>3 DEF ToolOK, NoTool
    <3>4. CASE UNCHANGED tool
      BY <3>2, <3>4 DEF ToolOK
    <3>5. ASSUME NEW pc \in {"kill", "place", "check", "spawn"}, tool' = [tool EXCEPT !.pc = pc]
          PROVE  ToolOK'
      BY <3>2, <3>5 DEF ToolOK
    <3> QED  BY <3>1, <3>3, <3>4, <3>5
  <2>2. ASSUME NEW attach \in BOOLEAN, Spawn(attach)  PROVE ToolOK'
    <3>1. PICK p \in Pids :
             tool' = IF attach THEN [tool EXCEPT !.pc = "attached", !.child = p] ELSE NoTool
      BY <2>2 DEF Spawn
    <3> QED  BY <3>1 DEF LInv, ToolOK, NoTool
  <2>3. ASSUME NEW cmd \in {"start", "stop", "restart"}, NEW force \in BOOLEAN, Command(cmd, force)
        PROVE  ToolOK'
    <3>1. PICK pc \in {"place", "look"} :
             tool' = [pc |-> pc, cmd |-> cmd, force |-> force, child |-> Nobody]
      BY <2>3 DEF Command
    <3> QED  BY <3>1 DEF ToolOK
  <2>4. ASSUME NEW p \in Pids, StartByHand(p)  PROVE ToolOK'
    BY <2>4 DEF LInv, ToolOK, StartByHand
  <2> QED  BY <2>1, <2>2, <2>3, <2>4 DEF ToolStep
<1>2. UNCHANGED disk
  BY DEF ToolStep, LookForServer, Kill, PlaceProgram, Check, Detach, GiveUp, KillFromRepl,
         Spawn, Command, StartByHand
<1>3. LosesNothing
  BY <1>2 DEF LosesNothing, NewestLogKept, DatabasesKept
<1>4. CASE LookForServer \/ PlaceProgram \/ Check \/ Detach \/ GiveUp
           \/ \E cmd \in {"start", "stop", "restart"}, force \in BOOLEAN : Command(cmd, force)
  <2>1. UNCHANGED <<server, disk>>
    BY <1>4 DEF LookForServer, PlaceProgram, Check, Detach, GiveUp, Command
  <2>2. tool \in [pc : {"idle", "look", "kill", "place", "check", "spawn", "attached"},
                  cmd : {"none", "start", "stop", "restart"}, force : BOOLEAN,
                  child : Pids \cup {Nobody}]
    BY DEF LInv, ToolOK
  <2>3. CASE LookForServer \/ PlaceProgram \/ Detach \/ GiveUp \/ Check
    <3>1. tool'.pc = "spawn" => DOMAIN server = {}
      BY <2>2, <2>3 DEF LookForServer, PlaceProgram, Check, Detach, GiveUp, NoTool, Running
    <3> QED  BY <1>1, <1>3, <2>1, <3>1, ToolKeeps
  <2>4. ASSUME NEW cmd \in {"start", "stop", "restart"}, NEW force \in BOOLEAN, Command(cmd, force)
        PROVE  tool'.pc # "spawn"
    BY <2>4 DEF Command
  <2> QED  BY <1>1, <1>3, <1>4, <2>1, <2>3, <2>4, ToolKeeps
<1>5. CASE Kill \/ KillFromRepl
  <2>1. PICK force \in BOOLEAN : KillDatabaseProcess(force)
    <3>1. tool.force \in BOOLEAN
      BY DEF LInv, ToolOK
    <3> QED  BY <1>5, <3>1 DEF Kill, KillFromRepl
  <2>2. tool'.pc # "spawn" \/ UNCHANGED tool
    <3>1. tool' = NoTool \/ tool' = [tool EXCEPT !.pc = "place"] \/ UNCHANGED tool
      BY <1>5 DEF Kill, KillFromRepl
    <3> QED  BY <3>1 DEF LInv, ToolOK, NoTool
  <2> QED  BY <1>1, <1>2, <1>3, <2>1, <2>2, KillKeeps
<1>6. CASE \E attach \in BOOLEAN : Spawn(attach)
  <2>1. PICK p \in Pids \ DOMAIN server :
           /\ server' = WithNew(p, "toi")
           /\ tool.pc = "spawn" /\ tool'.pc # "spawn"
    BY <1>6 DEF Spawn, NoTool, LInv, ToolOK
  <2> QED  BY <1>1, <1>2, <1>3, <2>1, NewKeeps
<1>7. CASE \E p \in Pids : StartByHand(p)
  <2>1. PICK p \in Pids \ DOMAIN server : server' = WithNew(p, "hand") /\ UNCHANGED tool
    BY <1>7 DEF StartByHand
  <2> QED  BY <1>1, <1>2, <1>3, <2>1, NewKeeps
<1> QED  BY <1>4, <1>5, <1>6, <1>7 DEF ToolStep

LEMMA LaunchSteps ==
  ASSUME LInv, [LaunchNext]_launchVars  PROVE LInv' /\ [LosesNothing]_launchVars
<1>1. CASE LaunchNext
  BY <1>1, ProcessSteps, ToolSteps DEF LaunchNext
<1>2. CASE UNCHANGED launchVars
  BY <1>2 DEF launchVars, LInv, ProcessesOK, DiskOK, ToolOK, AloneIsAlone, SpawnsAlone,
              OneServer, SeenIsSo, Seen
<1> QED  BY <1>1, <1>2

\* The inductive invariant, without a REPL.
THEOREM LaunchInvariance == LaunchSpec => []LInv
<1>1. LInv /\ [LaunchNext]_launchVars => LInv'
  BY LaunchSteps
<1> QED  BY LaunchStarts, <1>1, PTL DEF LaunchSpec

\* What the REPL and its connection do is nothing to the processes and the disk, or
\* the kill of a "stop": to main, the text and SIGTERM are the same.
THEOREM ReplIsLaunch == Spec => LaunchSpec
<1>1. Init => LaunchInit
  BY DEF Init
<1>2. ASSUME [Next]_vars  PROVE [LaunchNext]_launchVars
  <2>1. CASE LaunchStep
    BY <2>1 DEF LaunchStep
  <2>2. CASE ReadBurst
    <3>1. CASE UNCHANGED server
      BY <2>2, <3>1 DEF ReadBurst, launchVars
    <3>2. CASE Serving /\ server' = [server EXCEPT ![conn.to].pc = "stopping"]
      <4>1. conn.to \in DOMAIN server /\ server' = Terminated(conn.to)
        BY <3>2 DEF Serving, Terminated
      <4>2. KillFromRepl
        BY <2>2, <4>1 DEF ReadBurst, KillFromRepl, KillDatabaseProcess, Running
      <4> QED  BY <4>2 DEF LaunchNext, ToolStep
    <3> QED  BY <2>2, <3>1, <3>2 DEF ReadBurst
  <2>3. CASE KillServer
    <3>1. CASE Running
      BY <2>3, <3>1 DEF KillServer, KillFromRepl, LaunchNext, ToolStep
    <3>2. CASE ~Running
      BY <2>3, <3>2 DEF KillServer, KillDatabaseProcess, launchVars
    <3> QED  BY <3>1, <3>2
  <2>4. CASE WriteAnswer \/ WriteShort
    BY <2>4 DEF WriteAnswer, WriteShort
  <2>5. CASE ReplStep /\ ~KillServer
    BY <2>5 DEF ReplStep, Open, Connect, Refused, Receive, ServerClosed, Leave, Forget, Send,
                SendToNobody
  <2>6. CASE UNCHANGED vars
    BY <2>6 DEF vars
  <2> QED  BY <1>2, <2>1, <2>2, <2>3, <2>4, <2>5, <2>6 DEF Next, ConnStep
<1> QED  BY <1>1, <1>2, PTL DEF Spec, LaunchSpec

-----------------------------------------------------------------------------
(* The REPL and its connection. *)

Jobs == {"none", "current", "earlier", "merged", "mute"}

Sendings == [cmd : Commands, whose : {"current", "earlier"}]

Answers == [whose : Jobs, end : BOOLEAN]

Connection == [to : Pids \cup {Nobody}, in : Seq(Sendings), job : Jobs, out : Seq(Answers),
               closed : BOOLEAN, partial : BOOLEAN]

ReplOK ==
    /\ repl \in [pc : {"off", "connect", "prompt", "wait", "killing", "left"},
                 shown : {"none", "current", "another's"}]
    /\ conn \in Connection

\* A connection is open as long as there is a process at its other end, and a
\* command is answered on an open one.
OpenOK ==
    /\ conn.closed \/ conn.to \in DOMAIN server
    /\ conn.job # "none" => ~conn.closed

\* Where the one command is that the REPL waits for: it is on its way, or being
\* answered, or taken and never answered, or the rest of its answer is here (or will
\* never come).
OnItsWay ==
    /\ Len(conn.in) = 1 /\ conn.in[1].whose = "current"
    /\ conn.job = "none" /\ conn.out = <<>>

BeingAnswered == conn.in = <<>> /\ conn.job = "current" /\ conn.out = <<>>

Unanswered == conn.in = <<>> /\ conn.job = "mute" /\ conn.out = <<>>

Answered ==
    /\ conn.in = <<>> /\ conn.job = "none"
    /\ \A i \in DOMAIN conn.out :
          conn.out[i].whose = "current" /\ (conn.out[i].end => i = Len(conn.out))

Nothing == conn.in = <<>> /\ conn.job = "none" /\ conn.out = <<>>

\* As long as every read has taken an answer to its end, there is nothing under
\* way at the prompt, and one command or its answer when the REPL waits.
InStep ==
    ~conn.partial =>
        /\ repl.pc = "prompt" => Nothing
        /\ repl.pc = "wait" => OnItsWay \/ BeingAnswered \/ Unanswered \/ Answered

RInv == ReplOK /\ OpenOK /\ ShowsItsAnswer /\ InStep

\* The end of a connection, whether the server closes it or dies.
LEMMA LostConn ==
  ASSUME NEW c \in Connection, conn' \in Lost(c)
  PROVE  /\ conn' \in Connection /\ conn'.in = <<>> /\ conn'.job = "none" /\ conn'.closed = TRUE
         /\ conn'.out \in {c.out, <<>>} /\ conn'.partial = c.partial
<1>1. PICK o \in {c.out, <<>>} :
         conn' = [c EXCEPT !.to = Nobody, !.in = <<>>, !.job = "none", !.closed = TRUE, !.out = o]
  BY DEF Lost
<1>2. /\ conn'.to = Nobody /\ conn'.in = <<>> /\ conn'.job = "none" /\ conn'.closed = TRUE
      /\ conn'.out = o /\ conn'.partial = c.partial
      /\ conn' = [to |-> conn'.to, in |-> conn'.in, job |-> conn'.job, out |-> conn'.out,
                  closed |-> conn'.closed, partial |-> conn'.partial]
  BY <1>1 DEF Connection
<1>3. /\ c.out \in Seq(Answers) /\ <<>> \in Seq(Answers) /\ <<>> \in Seq(Sendings)
      /\ c.partial \in BOOLEAN
  BY DEF Connection
<1>4. conn' \in Connection
  BY <1>2, <1>3 DEF Connection, Jobs
<1> QED  BY <1>2, <1>4

\* A connection that is lost owes the REPL nothing more than the answer it had.
LEMMA LosingKeeps ==
  ASSUME RInv, conn' \in Lost(conn), repl' = repl  PROVE RInv'
<1>1. /\ conn' \in Connection /\ conn'.in = <<>> /\ conn'.job = "none" /\ conn'.closed = TRUE
      /\ conn'.out \in {conn.out, <<>>} /\ conn'.partial = conn.partial
  BY LostConn DEF RInv, ReplOK
<1>2. ReplOK' /\ OpenOK' /\ ShowsItsAnswer'
  BY <1>1 DEF RInv, ReplOK, OpenOK, ShowsItsAnswer
<1>3. InStep'
  <2> SUFFICES ASSUME ~conn'.partial
               PROVE  /\ repl'.pc = "prompt" => Nothing'
                      /\ repl'.pc = "wait" => Answered'
    BY DEF InStep
  <2>1. repl.pc = "prompt" => Nothing
    BY <1>1 DEF RInv, InStep
  <2>2. repl.pc = "wait" =>
           \A i \in DOMAIN conn.out :
              conn.out[i].whose = "current" /\ (conn.out[i].end => i = Len(conn.out))
    BY <1>1 DEF RInv, InStep, OnItsWay, BeingAnswered, Unanswered, Answered
  <2> QED  BY <1>1, <2>1, <2>2 DEF Nothing, Answered
<1> QED  BY <1>2, <1>3 DEF RInv

\* What happens to the processes reaches the REPL through its connection.
LEMMA FollowKeeps ==
  ASSUME RInv, ProcessesOK, Nobody \notin Pids, Follow, repl' = repl
  PROVE  RInv'
<1>1. CASE conn' = conn /\ conn.to \in DOMAIN server' \cup {Nobody}
  <2>1. ReplOK' /\ ShowsItsAnswer' /\ InStep'
    BY <1>1 DEF RInv, ReplOK, ShowsItsAnswer, InStep, OnItsWay, BeingAnswered, Unanswered,
                Answered, Nothing
  <2>2. OpenOK'
    BY <1>1 DEF RInv, OpenOK, ProcessesOK
  <2> QED  BY <2>1, <2>2 DEF RInv
<1>2. CASE conn' \in Lost(conn)
  BY <1>2, LosingKeeps
<1> QED  BY <1>1, <1>2 DEF Follow

LEMMA NewConn ==
  ASSUME conn' = NoConn, repl'.pc \notin {"prompt", "wait"},
         repl' \in [pc : {"off", "connect", "prompt", "wait", "killing", "left"},
                    shown : {"none", "current"}]
  PROVE  RInv'
BY DEF RInv, ReplOK, OpenOK, ShowsItsAnswer, InStep, NoConn, Connection, Jobs

\* The runtime takes what has come, one command when the REPL is in step.
LEMMA ReadBurstKeeps ==
  ASSUME RInv, ReadBurst  PROVE RInv'
<1>1. CASE conn' \in Lost([conn EXCEPT !.in = <<>>])
  <2> DEFINE c == [conn EXCEPT !.in = <<>>]
  <2>1. /\ c \in Connection /\ c.out = conn.out /\ c.partial = conn.partial
    <3>1. conn \in Connection /\ <<>> \in Seq(Sendings)
      BY DEF RInv, ReplOK
    <3> QED  BY <3>1 DEF Connection
  <2>2. /\ conn' \in Connection /\ conn'.in = <<>> /\ conn'.job = "none" /\ conn'.closed = TRUE
        /\ conn'.out \in {conn.out, <<>>} /\ conn'.partial = conn.partial
    BY <1>1, <2>1, LostConn
  <2>3. repl' = repl /\ conn.in # <<>>
    BY DEF ReadBurst
  <2>4. ReplOK' /\ OpenOK' /\ ShowsItsAnswer'
    BY <2>2, <2>3 DEF RInv, ReplOK, OpenOK, ShowsItsAnswer
  <2>5. InStep'
    <3>1. ASSUME ~conn.partial, repl.pc = "wait"  PROVE conn.out = <<>>
      BY <2>3, <3>1 DEF RInv, InStep, OnItsWay, BeingAnswered, Unanswered, Answered
    <3>2. ASSUME ~conn.partial  PROVE repl.pc # "prompt"
      BY <2>3, <3>2 DEF RInv, InStep, Nothing
    <3> QED  BY <2>2, <2>3, <3>1, <3>2 DEF InStep, Answered
  <2> QED  BY <2>4, <2>5 DEF RInv
<1>2. CASE /\ conn' \in {[conn EXCEPT !.in = <<>>], [conn EXCEPT !.in = <<>>, !.job = Whose(conn.in)],
                        [conn EXCEPT !.in = <<>>, !.job = "mute"]}
           /\ DOMAIN server' = DOMAIN server
  <2>1. /\ repl' = repl /\ conn.in # <<>> /\ ~conn.closed /\ conn.job = "none"
    BY DEF ReadBurst
  <2>2. /\ conn'.in = <<>> /\ conn'.out = conn.out /\ conn'.partial = conn.partial
        /\ conn'.closed = conn.closed /\ conn'.to = conn.to
        /\ conn'.job \in {"none", "mute", Whose(conn.in)}
        /\ conn' = [to |-> conn'.to, in |-> conn'.in, job |-> conn'.job, out |-> conn'.out,
                    closed |-> conn'.closed, partial |-> conn'.partial]
    BY <1>2, <2>1 DEF RInv, ReplOK, Connection
  <2>3. Whose(conn.in) \in Jobs
    <3>1. CASE Len(conn.in) = 1
      <4>1. conn.in \in Seq(Sendings) /\ 1 \in DOMAIN conn.in
        BY <3>1 DEF RInv, ReplOK, Connection
      <4>2. conn.in[1] \in Sendings
        BY <4>1
      <4> QED  BY <3>1, <4>2 DEF Sendings, Whose, Jobs
    <3> QED  BY <3>1 DEF Whose, Jobs
  <2>4. conn' \in Connection
    <3>1. /\ conn.to \in Pids \cup {Nobody} /\ conn.out \in Seq(Answers)
          /\ conn.closed \in BOOLEAN /\ conn.partial \in BOOLEAN
      BY DEF RInv, ReplOK, Connection
    <3>2. conn'.job \in Jobs /\ <<>> \in Seq(Sendings)
      BY <2>2, <2>3 DEF Jobs
    <3> QED  BY <2>2, <3>1, <3>2 DEF Connection
  <2>5. ReplOK' /\ OpenOK' /\ ShowsItsAnswer'
    BY <1>2, <2>1, <2>2, <2>4 DEF RInv, ReplOK, OpenOK, ShowsItsAnswer
  <2>6. InStep'
    <3>1. ASSUME ~conn.partial, repl.pc = "wait"
          PROVE  conn.out = <<>> /\ Whose(conn.in) = "current"
      BY <2>1, <3>1 DEF RInv, InStep, OnItsWay, BeingAnswered, Unanswered, Answered, Whose
    <3>2. ASSUME ~conn.partial  PROVE repl.pc # "prompt"
      BY <2>1, <3>2 DEF RInv, InStep, Nothing
    <3> QED  BY <2>1, <2>2, <3>1, <3>2 DEF InStep, Answered, Unanswered, BeingAnswered
  <2> QED  BY <2>5, <2>6 DEF RInv
<1> QED  BY <1>1, <1>2 DEF ReadBurst

\* A function on 1..n is a sequence of that length.
LEMMA FunctionIsSeq ==
  ASSUME NEW S, NEW n \in Nat, NEW f \in [1..n -> S]
  PROVE  f \in Seq(S) /\ Len(f) = n
<1>1. f \in Seq(S)
  BY SeqDef
<1> QED
  BY <1>1, LenProperties

LEMMA PiecesOf ==
  ASSUME NEW whose \in Jobs, NEW n \in Nat, NEW ended \in BOOLEAN
  PROVE  /\ Pieces(whose, n, ended) \in Seq(Answers) /\ Len(Pieces(whose, n, ended)) = n
         /\ \A i \in 1..n : /\ Pieces(whose, n, ended)[i].whose = whose
                            /\ Pieces(whose, n, ended)[i].end => i = n
<1> DEFINE ps == Pieces(whose, n, ended)
<1>1. DOMAIN ps = 1..n /\ \A i \in 1..n : ps[i] = [whose |-> whose, end |-> ended /\ i = n]
  BY DEF Pieces
<1>2. \A i \in 1..n : ps[i] \in Answers
  <2> SUFFICES ASSUME NEW i \in 1..n  PROVE ps[i] \in Answers
    OBVIOUS
  <2> DEFINE last == ended /\ i = n
  <2>1. last \in BOOLEAN
    BY Zenon
  <2>2. ps[i] = [whose |-> whose, end |-> last]
    BY <1>1
  <2> HIDE DEF last, ps
  <2> QED  BY <2>1, <2>2 DEF Answers
<1>3. ps \in [1..n -> Answers]
  BY <1>1, <1>2 DEF Pieces
<1>4. \A i \in 1..n : ps[i].whose = whose /\ (ps[i].end => i = n)
  <2> SUFFICES ASSUME NEW i \in 1..n  PROVE ps[i].whose = whose /\ (ps[i].end => i = n)
    OBVIOUS
  <2> DEFINE last == ended /\ i = n
  <2>1. ps[i] = [whose |-> whose, end |-> last]
    BY <1>1
  <2> HIDE DEF last, ps
  <2>2. ps[i].whose = whose /\ ps[i].end = last
    BY <2>1
  <2> QED  BY <2>2 DEF last
<1> HIDE DEF ps
<1>5. ps \in Seq(Answers) /\ Len(ps) = n
  BY <1>3, FunctionIsSeq
<1> QED  BY <1>4, <1>5 DEF ps

\* An answer that is written is behind what was there; in step, nothing was.
LEMMA WriteConn ==
  ASSUME RInv, NEW n \in Nat, NEW ended \in BOOLEAN, conn.job \notin {"none", "mute"},
         NEW out, out = conn.out \o Pieces(conn.job, n, ended)
  PROVE  /\ out \in Seq(Answers)
         /\ ~conn.partial => repl.pc # "prompt"
         /\ ~conn.partial /\ repl.pc = "wait" =>
               /\ conn.in = <<>>
               /\ \A i \in DOMAIN out : out[i].whose = "current" /\ (out[i].end => i = Len(out))
<1>1. conn.job \in Jobs /\ conn.out \in Seq(Answers)
  BY DEF RInv, ReplOK, Connection
<1> DEFINE new == Pieces(conn.job, n, ended)
<1>2. /\ new \in Seq(Answers) /\ Len(new) = n
      /\ \A i \in 1..n : new[i].whose = conn.job /\ (new[i].end => i = n)
  BY <1>1, PiecesOf
<1> HIDE DEF new
<1>3. ~conn.partial => repl.pc # "prompt"
  BY DEF RInv, InStep, Nothing
<1>4. ASSUME ~conn.partial, repl.pc = "wait"
      PROVE  conn.in = <<>> /\ conn.job = "current" /\ conn.out = <<>>
  BY <1>4 DEF RInv, InStep, OnItsWay, BeingAnswered, Unanswered, Answered
<1>5. conn.out \o new \in Seq(Answers)
  BY <1>1, <1>2
<1>6. conn.out = <<>> => conn.out \o new = new
  BY <1>2
<1>7. DOMAIN new = 1..n
  BY <1>2
<1> QED  BY <1>2, <1>3, <1>4, <1>5, <1>6, <1>7 DEF new

LEMMA WriteKeeps ==
  ASSUME RInv, WriteAnswer \/ WriteShort  PROVE RInv'
<1>1. /\ repl' = repl /\ server' = server /\ conn.job \notin {"none", "mute"} /\ ~conn.closed
  BY DEF WriteAnswer, WriteShort, Answering, launchVars
<1>2. ASSUME NEW n \in 1..MaxPieces,
             conn' = [conn EXCEPT !.job = "none", !.out = @ \o Pieces(conn.job, n, TRUE)]
      PROVE  RInv'
  <2> DEFINE out == conn.out \o Pieces(conn.job, n, TRUE)
  <2>1. /\ out \in Seq(Answers)
        /\ ~conn.partial => repl.pc # "prompt"
        /\ ~conn.partial /\ repl.pc = "wait" =>
              /\ conn.in = <<>>
              /\ \A i \in DOMAIN out : out[i].whose = "current" /\ (out[i].end => i = Len(out))
    <3>1. n \in Nat
      BY ReplAssumption
    <3> QED  BY <1>1, <3>1, WriteConn
  <2>2. conn' = [conn EXCEPT !.job = "none", !.out = out]
    BY <1>2
  <2> HIDE DEF out
  <2>3. /\ conn'.in = conn.in /\ conn'.out = out /\ conn'.job = "none" /\ conn'.to = conn.to
        /\ conn'.closed = conn.closed /\ conn'.partial = conn.partial /\ conn' \in Connection
    BY <2>1, <2>2 DEF RInv, ReplOK, Connection, Jobs
  <2>4. ReplOK' /\ OpenOK' /\ ShowsItsAnswer'
    BY <1>1, <2>3 DEF RInv, ReplOK, OpenOK, ShowsItsAnswer
  <2>5. InStep'
    BY <1>1, <2>1, <2>3 DEF InStep, Answered
  <2> QED  BY <2>4, <2>5 DEF RInv
<1>3. ASSUME NEW n \in 0..MaxPieces - 1,
             conn' \in Lost([conn EXCEPT !.out = @ \o Pieces(conn.job, n, FALSE)])
      PROVE  RInv'
  <2> DEFINE out == conn.out \o Pieces(conn.job, n, FALSE)
             c == [conn EXCEPT !.out = out]
  <2>1. /\ out \in Seq(Answers)
        /\ ~conn.partial => repl.pc # "prompt"
        /\ ~conn.partial /\ repl.pc = "wait" =>
              /\ conn.in = <<>>
              /\ \A i \in DOMAIN out : out[i].whose = "current" /\ (out[i].end => i = Len(out))
    <3>1. n \in Nat
      BY ReplAssumption
    <3> QED  BY <1>1, <3>1, WriteConn
  <2>2. conn' \in Lost(c)
    BY <1>3
  <2> HIDE DEF out
  <2>3. c \in Connection /\ c.out = out /\ c.partial = conn.partial
    BY <2>1 DEF RInv, ReplOK, Connection
  <2>4. /\ conn' \in Connection /\ conn'.in = <<>> /\ conn'.job = "none" /\ conn'.closed = TRUE
        /\ conn'.out \in {out, <<>>} /\ conn'.partial = conn.partial
    BY <2>2, <2>3, LostConn
  <2>5. ReplOK' /\ OpenOK' /\ ShowsItsAnswer'
    BY <1>1, <2>4 DEF RInv, ReplOK, OpenOK, ShowsItsAnswer
  <2>6. InStep'
    BY <1>1, <2>1, <2>4 DEF InStep, Answered
  <2> QED  BY <2>5, <2>6 DEF RInv
<1> QED  BY <1>2, <1>3 DEF WriteAnswer, WriteShort

\* A command is behind all that is under way; in step, there is nothing.
LEMMA SentConn ==
  ASSUME RInv, NEW cmd \in Commands
  PROVE  /\ Sent(cmd) \in Connection
         /\ Sent(cmd).to = conn.to /\ Sent(cmd).closed = conn.closed
         /\ Sent(cmd).partial = conn.partial
         /\ Sent(cmd).job # "none" => conn.job # "none"
         /\ ~conn.partial /\ repl.pc = "prompt" =>
               /\ Len(Sent(cmd).in) = 1 /\ Sent(cmd).in[1].whose = "current"
               /\ Sent(cmd).job = "none" /\ Sent(cmd).out = <<>>
<1> DEFINE old == [i \in DOMAIN conn.in |-> [conn.in[i] EXCEPT !.whose = "earlier"]]
           out == [i \in DOMAIN conn.out |-> [conn.out[i] EXCEPT !.whose = "earlier"]]
           new == [cmd |-> cmd, whose |-> "current"]
<1>1. conn.in \in Seq(Sendings) /\ conn.out \in Seq(Answers) /\ conn \in Connection
  BY DEF RInv, ReplOK, Connection
<1>2. old \in Seq(Sendings) /\ Len(old) = Len(conn.in)
  <2>1. /\ DOMAIN conn.in = 1..Len(conn.in) /\ Len(conn.in) \in Nat
        /\ \A i \in DOMAIN conn.in : conn.in[i] \in Sendings
    BY <1>1
  <2>2. ASSUME NEW r \in Sendings  PROVE [r EXCEPT !.whose = "earlier"] \in Sendings
    BY DEF Sendings
  <2>3. old \in [1..Len(conn.in) -> Sendings]
    BY <2>1, <2>2
  <2> QED  BY <2>1, <2>3, FunctionIsSeq
<1>3. out \in Seq(Answers) /\ Len(out) = Len(conn.out)
  <2>1. /\ DOMAIN conn.out = 1..Len(conn.out) /\ Len(conn.out) \in Nat
        /\ \A i \in DOMAIN conn.out : conn.out[i] \in Answers
    BY <1>1
  <2>2. ASSUME NEW r \in Answers  PROVE [r EXCEPT !.whose = "earlier"] \in Answers
    BY DEF Answers, Jobs
  <2>3. out \in [1..Len(conn.out) -> Answers]
    BY <2>1, <2>2
  <2> QED  BY <2>1, <2>3, FunctionIsSeq
<1>4. new \in Sendings
  BY DEF Sendings
<1>5. Sent(cmd) = [conn EXCEPT !.in = Append(old, new), !.job = ByNow(@), !.out = out]
  BY DEF Sent
<1> HIDE DEF old, out, new
<1>6. Append(old, new) \in Seq(Sendings) /\ ByNow(conn.job) \in Jobs
  BY <1>2, <1>4 DEF ByNow, Jobs
<1> DEFINE app == Append(old, new)
<1>7. /\ Len(conn.in) = 0 => Len(app) = 1 /\ app[1] = new
      /\ Len(conn.out) = 0 => out = <<>>
  BY <1>2, <1>3, <1>4
<1>8. Sent(cmd) = [conn EXCEPT !.in = app, !.job = ByNow(conn.job), !.out = out]
  BY <1>1, <1>5 DEF Connection
<1>9. app \in Seq(Sendings)
  BY <1>6
<1> HIDE DEF app
<1>10. /\ Sent(cmd) \in Connection
       /\ Sent(cmd).to = conn.to /\ Sent(cmd).closed = conn.closed
       /\ Sent(cmd).partial = conn.partial /\ Sent(cmd).job = ByNow(conn.job)
       /\ Sent(cmd).in = app /\ Sent(cmd).out = out
  BY <1>1, <1>3, <1>6, <1>8, <1>9 DEF Connection
<1>11. ByNow(conn.job) # "none" <=> conn.job # "none"
  BY DEF ByNow
<1>12. new.whose = "current"
  BY DEF new
<1>13. ~conn.partial /\ repl.pc = "prompt" =>
          Len(conn.in) = 0 /\ Len(conn.out) = 0 /\ conn.job = "none"
  BY DEF RInv, InStep, Nothing
<1> QED  BY <1>7, <1>10, <1>11, <1>12, <1>13

LEMMA Afterwards ==
  ASSUME NEW cmd \in Commands
  PROVE  AfterSending(cmd) \in {"killing", "left", "wait"}
BY DEF AfterSending

LEMMA SendKeeps ==
  ASSUME RInv, NEW cmd \in Commands, Send(cmd)  PROVE RInv'
<1>1. /\ repl.pc = "prompt" /\ ~conn.closed /\ conn' = Sent(cmd) /\ server' = server
      /\ repl' = [repl EXCEPT !.pc = AfterSending(cmd)]
  BY DEF Send, launchVars
<1>2. /\ repl'.pc \in {"killing", "left", "wait"} /\ repl'.shown = repl.shown
      /\ repl' \in [pc : {"off", "connect", "prompt", "wait", "killing", "left"},
                    shown : {"none", "current", "another's"}]
  BY <1>1, Afterwards DEF RInv, ReplOK
<1>3. /\ conn' \in Connection /\ conn'.to = conn.to /\ conn'.closed = conn.closed
      /\ conn'.partial = conn.partial
      /\ ~conn.partial => /\ Len(conn'.in) = 1 /\ conn'.in[1].whose = "current"
                          /\ conn'.job = "none" /\ conn'.out = <<>>
  BY <1>1, SentConn
<1>4. ReplOK' /\ OpenOK' /\ ShowsItsAnswer'
  BY <1>1, <1>2, <1>3 DEF RInv, ReplOK, OpenOK, ShowsItsAnswer
<1>5. InStep'
  BY <1>2, <1>3 DEF InStep, OnItsWay
<1> QED  BY <1>4, <1>5 DEF RInv

LEMMA SendToNobodyKeeps ==
  ASSUME RInv, NEW cmd \in Commands, SendToNobody(cmd)  PROVE RInv'
<1>1. CASE Reconnect
  BY <1>1, NewConn DEF Reconnect
<1>2. ASSUME NEW out \in {Sent(cmd).out, <<>>}, conn' = [conn EXCEPT !.out = out],
             repl' = [repl EXCEPT !.pc = AfterSending(cmd)]
      PROVE  RInv'
  <2>1. repl.pc = "prompt" /\ server' = server
    BY DEF SendToNobody, launchVars
  <2>2. /\ repl'.pc \in {"killing", "left", "wait"} /\ repl'.shown = repl.shown
        /\ repl' \in [pc : {"off", "connect", "prompt", "wait", "killing", "left"},
                      shown : {"none", "current", "another's"}]
    BY <1>2, Afterwards DEF RInv, ReplOK
  <2>3. out \in Seq(Answers) /\ (~conn.partial => out = <<>>)
    <3>1. Sent(cmd) \in Connection /\ (~conn.partial => Sent(cmd).out = <<>>)
      BY <2>1, SentConn
    <3>2. Sent(cmd).out \in Seq(Answers) /\ <<>> \in Seq(Answers)
      BY <3>1 DEF Connection
    <3> QED  BY <1>2, <3>1, <3>2
  <2>4. /\ conn' \in Connection /\ conn'.to = conn.to /\ conn'.closed = conn.closed
        /\ conn'.partial = conn.partial /\ conn'.in = conn.in /\ conn'.job = conn.job
        /\ conn'.out = out
    BY <1>2, <2>3 DEF RInv, ReplOK, Connection
  <2>5. ReplOK' /\ OpenOK' /\ ShowsItsAnswer'
    BY <2>1, <2>2, <2>4 DEF RInv, ReplOK, OpenOK, ShowsItsAnswer
  <2>6. ~conn.partial => conn.in = <<>> /\ conn.job = "none"
    BY <2>1 DEF RInv, InStep, Nothing
  <2>7. InStep'
    BY <2>2, <2>3, <2>4, <2>6 DEF InStep, Answered
  <2> QED  BY <2>5, <2>7 DEF RInv
<1> QED  BY <1>1, <1>2 DEF SendToNobody

\* In step, a read takes the end of the answer, and so all of it.
LEMMA ReceiveKeeps ==
  ASSUME RInv, Receive  PROVE RInv'
<1>1. PICK n \in 1..ReadMax :
         /\ n <= Len(conn.out)
         /\ repl' = [pc |-> "prompt",
                     shown |-> IF \A i \in 1..n : conn.out[i].whose = "current"
                               THEN "current" ELSE "another's"]
         /\ conn' = [conn EXCEPT !.out = SubSeq(@, n + 1, Len(@)),
                                 !.partial = @ \/ ~conn.out[n].end]
  BY DEF Receive
<1>2. repl.pc = "wait" /\ server' = server
  BY DEF Receive, launchVars
<1> DEFINE rest == SubSeq(conn.out, n + 1, Len(conn.out))
           partial == conn.partial \/ ~conn.out[n].end
<1>3. /\ conn \in Connection /\ conn.out \in Seq(Answers) /\ n \in DOMAIN conn.out
  BY <1>1, ReplAssumption DEF RInv, ReplOK, Connection
<1>4. rest \in Seq(Answers) /\ (n = Len(conn.out) => rest = <<>>)
  BY <1>1, <1>3, ReplAssumption
<1>5. conn.out[n].end \in BOOLEAN /\ conn.partial \in BOOLEAN
  <2>1. conn.out[n] \in Answers
    BY <1>3
  <2> QED  BY <1>3, <2>1 DEF Connection, Answers
<1>6. partial \in BOOLEAN
  BY <1>5, Zenon
<1>7. conn' = [conn EXCEPT !.out = rest, !.partial = partial]
  BY <1>1, <1>3 DEF Connection
<1> HIDE DEF rest, partial
<1>8. /\ conn' \in Connection /\ conn'.to = conn.to /\ conn'.closed = conn.closed
      /\ conn'.in = conn.in /\ conn'.job = conn.job /\ conn'.out = rest
      /\ conn'.partial = partial
  BY <1>3, <1>4, <1>6, <1>7 DEF Connection
<1>9. ASSUME ~partial
      PROVE  Nothing' /\ repl'.shown = "current"
  <2>1. ~conn.partial /\ conn.out[n].end
    BY <1>5, <1>9 DEF partial
  <2>2. Answered
    BY <1>1, <1>2, <1>3, <2>1 DEF RInv, InStep, OnItsWay, BeingAnswered, Unanswered
  <2>3. n = Len(conn.out) /\ \A i \in 1..n : conn.out[i].whose = "current"
    BY <1>3, <2>1, <2>2 DEF Answered
  <2>4. rest = <<>>
    BY <1>4, <2>3
  <2> QED  BY <1>1, <1>8, <2>2, <2>3, <2>4 DEF Nothing, Answered
<1>10. /\ repl'.pc = "prompt" /\ repl'.shown \in {"current", "another's"}
       /\ repl' \in [pc : {"off", "connect", "prompt", "wait", "killing", "left"},
                     shown : {"none", "current", "another's"}]
  BY <1>1
<1>11. ReplOK' /\ OpenOK'
  BY <1>2, <1>8, <1>10 DEF RInv, ReplOK, OpenOK
<1>12. ShowsItsAnswer' /\ InStep'
  BY <1>8, <1>9, <1>10 DEF ShowsItsAnswer, InStep
<1> QED  BY <1>11, <1>12 DEF RInv

\* toi keeps to one server, also beside a REPL.
THEOREM ToolKeepsToOne == Spec => []OneServer
<1>1. LInv => OneServer
  BY DEF LInv
<1> QED  BY <1>1, LaunchInvariance, ReplIsLaunch, PTL

\* A start-up that is alone loses neither the log of the last start nor the
\* databases, whatever died before, also beside a REPL.
THEOREM StartsAreSafe == Spec => StartsLoseNothing
<1>1. LInv /\ [LaunchNext]_launchVars => [LosesNothing]_launchVars
  BY LaunchSteps
<1>2. LaunchSpec => StartsLoseNothing
  BY <1>1, LaunchInvariance, PTL DEF LaunchSpec, StartsLoseNothing
<1> QED  BY <1>2, ReplIsLaunch, PTL

LEMMA ReplStarts ==
  ASSUME Init  PROVE RInv
BY DEF Init, RInv, ReplOK, OpenOK, ShowsItsAnswer, InStep, NoConn, Connection, Jobs

LEMMA ReplSteps ==
  ASSUME RInv, LInv, [Next]_vars  PROVE RInv'
<1>1. ProcessesOK
  BY DEF LInv
<1>2. CASE LaunchStep \/ KillServer
  <2>1. CASE LaunchStep
    BY <1>1, <2>1, PidsAssumption, FollowKeeps DEF LaunchStep
  <2>2. CASE KillServer
    <3>1. /\ repl.pc = "killing" /\ repl' = [repl EXCEPT !.pc = "left"] /\ Follow
      BY <2>2 DEF KillServer
    <3>2. /\ repl'.pc = "left" /\ repl'.shown = repl.shown
          /\ repl' \in [pc : {"off", "connect", "prompt", "wait", "killing", "left"},
                        shown : {"none", "current", "another's"}]
      BY <3>1 DEF RInv, ReplOK
    <3>3. CASE conn' = conn /\ conn.to \in DOMAIN server' \cup {Nobody}
      BY <1>1, <3>2, <3>3, PidsAssumption
         DEF RInv, ReplOK, OpenOK, ShowsItsAnswer, InStep, ProcessesOK
    <3>4. CASE conn' \in Lost(conn)
      <4>1. /\ conn' \in Connection /\ conn'.job = "none" /\ conn'.closed = TRUE
            /\ conn'.partial = conn.partial
        BY <3>4, LostConn DEF RInv, ReplOK
      <4> QED  BY <3>2, <4>1 DEF RInv, ReplOK, OpenOK, ShowsItsAnswer, InStep
    <3> QED  BY <3>1, <3>3, <3>4 DEF Follow
  <2> QED  BY <1>2, <2>1, <2>2
<1>3. CASE ReadBurst \/ WriteAnswer \/ WriteShort \/ Receive
  BY <1>3, ReadBurstKeeps, WriteKeeps, ReceiveKeeps
<1>4. ASSUME NEW cmd \in Commands, Send(cmd) \/ SendToNobody(cmd)  PROVE RInv'
  BY <1>4, SendKeeps, SendToNobodyKeeps
<1>5. CASE Open \/ ServerClosed \/ Forget
  BY <1>5, NewConn DEF Open, ServerClosed, Forget, Reconnect
<1>6. CASE Connect
  <2>1. PICK p \in DOMAIN server : conn' = [NoConn EXCEPT !.to = p, !.closed = FALSE]
    BY <1>6 DEF Connect, Listening
  <2>2. repl' = [pc |-> "prompt", shown |-> "none"] /\ server' = server /\ p \in Pids
    BY <1>1, <1>6 DEF Connect, launchVars, ProcessesOK
  <2>3. conn' = [to |-> p, in |-> <<>>, job |-> "none", out |-> <<>>, closed |-> FALSE,
                 partial |-> FALSE]
    BY <2>1 DEF NoConn
  <2>4. ReplOK'
    BY <2>2, <2>3 DEF ReplOK, Connection, Jobs
  <2>5. OpenOK' /\ ShowsItsAnswer' /\ InStep'
    BY <2>2, <2>3 DEF OpenOK, ShowsItsAnswer, InStep, Nothing
  <2> QED  BY <2>4, <2>5 DEF RInv
<1>7. CASE Refused \/ Leave
  <2>1. /\ repl' \in {[repl EXCEPT !.pc = "off"], [repl EXCEPT !.pc = "left"]}
        /\ conn' = conn /\ server' = server
    BY <1>7 DEF Refused, Leave, launchVars
  <2>2. /\ repl'.pc \in {"off", "left"} /\ repl'.shown = repl.shown
        /\ repl' \in [pc : {"off", "connect", "prompt", "wait", "killing", "left"},
                      shown : {"none", "current", "another's"}]
    BY <2>1 DEF RInv, ReplOK
  <2> QED  BY <2>1, <2>2 DEF RInv, ReplOK, OpenOK, ShowsItsAnswer, InStep
<1>8. CASE UNCHANGED vars
  BY <1>8 DEF vars, launchVars, replVars, RInv, ReplOK, OpenOK, ShowsItsAnswer, InStep, OnItsWay,
              BeingAnswered, Unanswered, Answered, Nothing
<1> QED  BY <1>2, <1>3, <1>4, <1>5, <1>6, <1>7, <1>8 DEF Next, ConnStep, ReplStep

\* The inductive invariant of the REPL and its connection, beside that of the processes.
THEOREM ReplInvariance == Spec => [](LInv /\ RInv)
<1>1. LInv /\ RInv /\ [Next]_vars => RInv'
  BY ReplSteps
<1> QED  BY ReplStarts, <1>1, LaunchInvariance, ReplIsLaunch, PTL DEF Spec

\* The state has its types, and a connection is open only to a process that runs and
\* answers a command only while it is open.
THEOREM LaunchTypeCorrect == Spec => []TypeOK
<1>1. LInv /\ RInv => TypeOK
  BY DEF LInv, ProcessesOK, DiskOK, ToolOK, Process, RInv, ReplOK, OpenOK, Connection, Jobs, TypeOK
<1> QED  BY <1>1, ReplInvariance, PTL

\* What the REPL shows is the answer to its command, until a read has left part of one.
THEOREM ReplShowsItsAnswer == Spec => []ShowsItsAnswer
<1>1. RInv => ShowsItsAnswer
  BY DEF RInv
<1> QED  BY <1>1, ReplInvariance, PTL

=============================================================================
