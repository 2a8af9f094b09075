--------------------------------- MODULE Repl ---------------------------------
(***************************************************************************)
(* The REPL (toi connect, toi/src/main.rs 199-296) and the connection it   *)
(* holds to a server (server/src/lib.rs 216-332, main.cpp 60-73 and        *)
(* 689-696), while servers start, end and die as in Launch.                *)
(*                                                                         *)
(* A command is a "query", a query that has "exit" somewhere in it (the    *)
(* server closes the connection on it), one with a NUL in it ("nul", which *)
(* is no C string: the server takes it and never answers), "exit", "stop", *)
(* or "stop" with blanks around it, which means stop to the server alone.  *)
(* A command, and a piece of an answer, is either the current one's or an  *)
(* earlier one's: sending a command makes all that there is an earlier     *)
(* one's.                                                                  *)
(***************************************************************************)
EXTENDS Launch, Sequences

CONSTANTS
    MaxPieces,  \* bound: the pieces of an answer
    ReadMax,    \* the pieces that fit the REPL's buffer, vec![0; 1024 * 2]
    MaxUnread   \* bound: commands and pieces not read yet

ASSUME ReplAssumption ==
    {MaxPieces, ReadMax, MaxUnread} \subseteq Nat \ {0}

VARIABLES
    repl,   \* what the REPL does, and whose answer it showed last
    conn    \* its connection: the server process at the other end, the commands
            \* not read, the one being answered ("mute": a text that never is, and
            \* keeps the connection active), the pieces not read, whether the
            \* server has closed, and whether a read ever left part of an answer

replVars == <<repl, conn>>
vars == <<launchVars, replVars>>

Commands == {"query", "query_exit", "nul", "exit", "stop", "stop_padded"}

\* Sequences of commands and of pieces; a piece knows whether it ends an answer.
NoConn == [to |-> Nobody, in |-> <<>>, job |-> "none", out |-> <<>>, closed |-> TRUE,
           partial |-> FALSE]

Init == LaunchInit /\ repl = [pc |-> "off", shown |-> "none"] /\ conn = NoConn

-----------------------------------------------------------------------------
(* The connection, seen from outside the REPL. *)

Lost_StaysOpen(c) == {[c EXCEPT !.to = Nobody, !.in = <<>>, !.job = "none"]}

\* What a death does: the system closes the connection, and what the REPL has
\* not read is lost if the server had not read everything.
Lost(c) == {[c EXCEPT !.to = Nobody, !.in = <<>>, !.job = "none", !.closed = TRUE, !.out = o] :
               o \in IF c.in = <<>> THEN {c.out} ELSE {c.out, <<>>}}

Follow == conn' \in IF conn.to \in DOMAIN server' \cup {Nobody} THEN {conn} ELSE Lost(conn)

\* Bound: while the REPL runs there is one server at a time, started by hand or
\* before, with its databases.  To the REPL a toi stop is the "stop" of another
\* REPL, and one with force a death.
Quiet == tool = NoTool /\ disk.app = "full" /\ Cardinality(DOMAIN server) <= 1

LaunchStep ==
    /\ LaunchNext /\ Follow
    /\ repl.pc # "off" => Quiet'
    /\ UNCHANGED repl

Serving == conn.to \in DOMAIN server /\ server[conn.to].pc = "serving"

\* The runtime reads all that has come as one text, which has one answer.
Has(burst, cmd) == \E i \in DOMAIN burst : burst[i].cmd = cmd

Meaning(burst) ==
    IF Has(burst, "exit") \/ Has(burst, "query_exit") THEN "exit"
    ELSE IF Has(burst, "nul") THEN "nul"
    ELSE IF Len(burst) = 1 /\ burst[1].cmd \in {"stop", "stop_padded"} THEN "stop"
    ELSE "query"

Whose(burst) == IF Len(burst) = 1 THEN burst[1].whose ELSE "merged"

ReadBurst_Ignored ==
    /\ Serving /\ ~conn.closed /\ conn.job = "none" /\ conn.in # <<>>
    /\ IF Meaning(conn.in) = "stop" THEN server' = [server EXCEPT ![conn.to].pc = "stopping"]
       ELSE UNCHANGED server
    /\ conn' = [conn EXCEPT !.in = <<>>,
                            !.job = CASE Meaning(conn.in) = "query" -> Whose(conn.in)
                                      [] Meaning(conn.in) = "nul"   -> "mute"
                                      [] OTHER                      -> @]
    /\ UNCHANGED <<disk, tool, busy, repl>>

ReadBurst ==
    /\ Serving /\ ~conn.closed /\ conn.job = "none" /\ conn.in # <<>>
    /\ CASE Meaning(conn.in) = "exit" ->
              conn' \in Lost([conn EXCEPT !.in = <<>>]) /\ UNCHANGED server
         [] Meaning(conn.in) = "stop" ->
              /\ conn' = [conn EXCEPT !.in = <<>>]
              /\ server' = [server EXCEPT ![conn.to].pc = "stopping"]
         [] Meaning(conn.in) = "nul" ->
              /\ conn' = [conn EXCEPT !.in = <<>>, !.job = "mute"]
              /\ UNCHANGED server
         [] OTHER ->
              /\ conn' = [conn EXCEPT !.in = <<>>, !.job = Whose(conn.in)]
              /\ UNCHANGED server
    /\ UNCHANGED <<disk, tool, busy, repl>>

Pieces(whose, n, ended) == [i \in 1..n |-> [whose |-> whose, end |-> ended /\ i = n]]

\* There is a worker that answers, and a runtime that writes; a server that stops
\* may still do so.
Answering ==
    /\ conn.to \in DOMAIN server /\ server[conn.to].pc \in {"serving", "stopping"}
    /\ conn.job \notin {"none", "mute"} /\ ~conn.closed

\* The answer of the worker is written once.
WriteAnswer_Again ==
    /\ Answering
    /\ \E n \in 1..MaxPieces, again \in BOOLEAN :
          conn' = [conn EXCEPT !.job = IF again THEN @ ELSE "none",
                               !.out = @ \o Pieces(conn.job, n, TRUE)]
    /\ Len(conn'.out) <= 2 * MaxPieces
    /\ UNCHANGED <<launchVars, repl>>

WriteAnswer ==
    /\ Answering
    /\ \E n \in 1..MaxPieces :
          conn' = [conn EXCEPT !.job = "none", !.out = @ \o Pieces(conn.job, n, TRUE)]
    /\ UNCHANGED <<launchVars, repl>>

\* A write that takes only part of the answer closes the connection.
WriteShort ==
    /\ Answering
    /\ \E n \in 0..MaxPieces - 1 :
          conn' \in Lost([conn EXCEPT !.out = @ \o Pieces(conn.job, n, FALSE)])
    /\ UNCHANGED <<launchVars, repl>>

ConnStep == ReadBurst \/ WriteAnswer \/ WriteShort

-----------------------------------------------------------------------------
(* The REPL. *)

Reconnect == conn' = NoConn /\ repl' = [pc |-> "connect", shown |-> "none"]

\* One REPL at a time.
Open ==
    /\ repl.pc = "off" /\ Quiet
    /\ Reconnect
    /\ UNCHANGED launchVars

\* The system accepts for whoever listens, also for a server that stops.
Connect ==
    /\ repl.pc = "connect"
    /\ \E p \in Listening : conn' = [NoConn EXCEPT !.to = p, !.closed = FALSE]
    /\ repl' = [pc |-> "prompt", shown |-> "none"]
    /\ UNCHANGED launchVars

Refused ==
    /\ repl.pc = "connect"
    /\ \A p \in Listening : server[p].pc = "stopping"
    /\ repl' = [repl EXCEPT !.pc = "off"]
    /\ UNCHANGED <<launchVars, conn>>

ByNow(job) == IF job \in {"none", "mute"} THEN job ELSE "earlier"

\* Everything there is belongs to an earlier command, and the new one is behind it.
Sent(cmd) ==
    [conn EXCEPT
        !.in = Append([i \in DOMAIN @ |-> [@[i] EXCEPT !.whose = "earlier"]],
                      [cmd |-> cmd, whose |-> "current"]),
        !.job = ByNow(@),
        !.out = [i \in DOMAIN @ |-> [@[i] EXCEPT !.whose = "earlier"]]]

AfterSending(cmd) ==
    CASE cmd = "stop" -> "killing" [] cmd = "exit" -> "left" [] OTHER -> "wait"

Send(cmd) ==
    /\ repl.pc = "prompt" /\ ~conn.closed
    /\ Len(conn.in) + Len(conn.out) < MaxUnread
    /\ conn' = Sent(cmd)
    /\ repl' = [repl EXCEPT !.pc = AfterSending(cmd)]
    /\ UNCHANGED launchVars

\* The first write to a connection the server has closed succeeds, and the system
\* may forget what was not read; later ones fail, and the REPL connects again.
SendToNobody(cmd) ==
    /\ repl.pc = "prompt" /\ conn.closed
    /\ \/ /\ \E out \in {Sent(cmd).out, <<>>} : conn' = [conn EXCEPT !.out = out]
          /\ repl' = [repl EXCEPT !.pc = AfterSending(cmd)]
       \/ Reconnect
    /\ UNCHANGED launchVars

\* The text "stop" may still be unread when the process is looked up and killed.
KillServer ==
    /\ repl.pc = "killing"
    /\ KillDatabaseProcess(FALSE)
    /\ repl' = [repl EXCEPT !.pc = "left"]
    /\ Follow
    /\ UNCHANGED <<disk, tool, busy>>

\* One read: what has come, as far as the buffer goes.
Receive ==
    /\ repl.pc = "wait"
    /\ \E n \in 1..ReadMax :
          /\ n <= Len(conn.out)
          /\ repl' = [pc |-> "prompt",
                      shown |-> IF \A i \in 1..n : conn.out[i].whose = "current"
                                THEN "current" ELSE "another's"]
          /\ conn' = [conn EXCEPT !.out = SubSeq(@, n + 1, Len(@)),
                                  !.partial = @ \/ ~conn.out[n].end]
    /\ UNCHANGED launchVars

\* "Trying to reconnect. Input your query again".
ServerClosed ==
    /\ repl.pc = "wait" /\ conn.closed /\ conn.out = <<>>
    /\ Reconnect
    /\ UNCHANGED launchVars

\* Ctrl-C or Ctrl-D at the prompt; Ctrl-C alone while it waits.
Leave ==
    /\ repl.pc \in {"prompt", "wait"}
    /\ repl' = [repl EXCEPT !.pc = "left"]
    /\ UNCHANGED <<launchVars, conn>>

\* The server has seen to what a REPL that left had sent, or never will.
Forget ==
    /\ repl.pc = "left"
    /\ conn.in = <<>> \/ conn.closed \/ conn.job = "mute" \/ ~Serving
    /\ repl' = [pc |-> "off", shown |-> "none"]
    /\ conn' = NoConn
    /\ UNCHANGED launchVars

ReplStep ==
    \/ Open \/ Connect \/ Refused \/ KillServer \/ Receive \/ ServerClosed \/ Leave
    \/ Forget
    \/ \E cmd \in Commands : Send(cmd) \/ SendToNobody(cmd)

Next == LaunchStep \/ ConnStep \/ ReplStep

\* The runtime and the workers go on (TcpServerProperties), a process that stops
\* ends, and the REPL does not stop reading.
Ends(p) == End(p) /\ Follow /\ UNCHANGED <<tool, busy, repl>>

Fairness ==
    /\ WF_vars(ReadBurst) /\ WF_vars(WriteAnswer \/ WriteShort)
    /\ WF_vars(Receive \/ ServerClosed)
    /\ \A p \in Pids : WF_vars(Ends(p))

Spec == Init /\ [][Next]_vars
FairSpec == Spec /\ Fairness
=============================================================================
