------------------------------ MODULE TcpServer ------------------------------
(***************************************************************************)
(* The TCP runtime of toidb (src/server/src/lib.rs) and the loop of the    *)
(* C++ server that drives it (server.hpp, the end of main.cpp).            *)
(*                                                                         *)
(* Threads: the runtime (run_server, an epoll loop), a response thread per *)
(* query, the C++ main thread, a worker (resolve) per event, and whoever   *)
(* runs the SIGTERM handler.  They share the map of connections under a    *)
(* RwLock, the flag END and the mpsc channels.                             *)
(*                                                                         *)
(* A TCP segment is a "query", the text "stop", a text that contains       *)
(* "exit", a text with a NUL in it ("nul"), or bytes that are not UTF-8    *)
(* ("bad").  The texts handed to C++ are numbered for every connection; an *)
(* answer carries the number of its query.                                 *)
(***************************************************************************)
EXTENDS Naturals, Sequences, FiniteSets

CONSTANTS Conn,     \* the tokens of the connections clients may open
          SERVER,   \* Token(0): the listener, and the token of Shared::null()
          Kinds,    \* the kinds of segments the clients send
          Ends,     \* how clients close a connection, of "fin" and "reset"
          MaxMsgs   \* bound: segments a client sends on one connection

ASSUME TcpAssumption == /\ SERVER \notin Conn
                        /\ Kinds \subseteq {"query", "stop", "exit", "nul", "bad"}
                        /\ Ends \subseteq {"fin", "reset"}
                        /\ MaxMsgs \in Nat

VARIABLES
  client,     \* client[c]: "new", "open", or closed by a "fin" or a "reset"
  backlog,    \* connections the listener has not accepted
  wire,       \* wire[c]: segments in the receive buffer of c
  sent,       \* sent[c]: how many segments the client of c has sent
  interest,   \* interest[c]: what c is registered for in the poll
  ready,      \* tokens with an edge the poll has not reported yet
  channels,   \* the tokens in the map TcpServer.channels
  lock,       \* its RwLock: "free", read by the "runtime", written by "main"
  is_active, response,
  c_chan,     \* c_chan[c]: from rs_sender to c_receiver
  r_chan,     \* r_chan[c]: from c_sender to rs_receiver
  signals,    \* from query_sender to recv_signal
  rt_pc, rt_conn,
  rt_closed,  \* connection_closed
  rt_kind,    \* what the text read last is
  batch,      \* events of the last poll still to be handled
  thread,     \* thread[c]["cur"] is threads[c], thread[c]["old"] is being joined
  main_pc, main_tok,
  workers,    \* worker threads that have not answered, with their query
  END, st,
  asked,      \* history: asked[c] queries were handed to the C++ side
  answered,   \* history: answered[c] lists the answers written to c
  mute        \* history: connections that sent a text nobody will answer

netVars   == <<client, backlog, wire, sent, interest, ready>>
mapVars   == <<channels, lock>>
stateVars == <<is_active, c_chan, asked, answered, mute>>
replyVars == <<response, r_chan>>
rtVars    == <<rt_pc, rt_conn, rt_closed, rt_kind, batch>>
mainVars  == <<main_pc, main_tok, workers, END, st>>
vars == <<netVars, mapVars, stateVars, replyVars, signals, rtVars, thread, mainVars>>

Token == Conn \cup {SERVER}
Handle == {"cur", "old"}
Query == [id : Nat, kind : {"query", "stop", "nul"}]
Worker == [conn : Token, id : Nat, kind : {"query", "stop", "killing"}]

\* The event Shared::null() makes: its worker has no query and sends "".
Null == [conn |-> SERVER, id |-> 0, kind |-> "query"]

RtPc == {"check", "poll", "batch", "accept", "read", "signal", "send", "spawn",
         "join", "write", "remove", "closing", "joining", "done", "panicked", "failed"}
MainPc == {"loop", "wait", "lock", "message", "join_runtime", "join_workers",
           "exited", "aborted"}
ThreadPc == {"none", "waiting", "stored", "returning", "finished", "panicked"}

TypeOK ==
  /\ client \in [Conn -> {"new", "open", "fin", "reset"}]
  /\ backlog \in SUBSET Conn
  /\ wire \in [Conn -> Seq(Kinds)]
  /\ sent \in [Conn -> 0..MaxMsgs]
  /\ interest \in [Conn -> {"none", "read", "write"}]
  /\ ready \in SUBSET Token
  /\ channels \in SUBSET Conn
  /\ lock \in {"free", "runtime", "main"}
  /\ is_active \in [Conn -> BOOLEAN]
  /\ response \in [Conn -> Nat]
  /\ c_chan \in [Conn -> Seq(Query)]
  /\ r_chan \in [Conn -> Seq(Nat)]
  /\ signals \in Seq(Conn)
  /\ rt_pc \in RtPc
  /\ rt_conn \in Token
  /\ rt_closed \in BOOLEAN
  /\ rt_kind \in {"query", "stop", "nul"}
  /\ batch \in SUBSET (Token \X {"read", "write"})
  /\ thread \in [Conn -> [Handle -> ThreadPc]]
  /\ main_pc \in MainPc
  /\ main_tok \in Token
  /\ workers \in SUBSET Worker
  /\ END \in BOOLEAN
  /\ st \in BOOLEAN
  /\ asked \in [Conn -> Nat]
  /\ answered \in [Conn -> Seq(Nat)]
  /\ mute \in SUBSET Conn

\* TcpServer::new and start: the listener is registered, nothing is connected.
Init ==
  /\ client = [c \in Conn |-> "new"] /\ backlog = {}
  /\ wire = [c \in Conn |-> <<>>] /\ sent = [c \in Conn |-> 0]
  /\ interest = [c \in Conn |-> "none"] /\ ready = {}
  /\ channels = {} /\ lock = "free"
  /\ is_active = [c \in Conn |-> FALSE] /\ response = [c \in Conn |-> 0]
  /\ c_chan = [c \in Conn |-> <<>>] /\ r_chan = [c \in Conn |-> <<>>]
  /\ signals = <<>>
  /\ rt_pc = "check" /\ rt_conn = SERVER /\ batch = {}
  /\ rt_closed = FALSE /\ rt_kind = "query"
  /\ thread = [c \in Conn |-> [h \in Handle |-> "none"]]
  /\ main_pc = "loop" /\ main_tok = SERVER
  /\ workers = {}
  /\ END = FALSE /\ st = FALSE
  /\ asked = [c \in Conn |-> 0] /\ answered = [c \in Conn |-> <<>>]
  /\ mute = {}

-----------------------------------------------------------------------------
\* Clients and kernel.  The poll is edge-triggered: a token becomes ready when
\* something its interest asks for happens on its socket, and when it is
\* (re)registered while its condition already holds.

Readable(c) == wire[c] # <<>> \/ client[c] \in {"fin", "reset"}

Connect(c) ==
  /\ client[c] = "new"
  /\ client' = [client EXCEPT ![c] = "open"]
  /\ backlog' = backlog \cup {c}
  /\ ready' = ready \cup {SERVER}
  /\ UNCHANGED <<wire, sent>>

ClientSend(c, k) ==
  /\ client[c] = "open"
  /\ sent[c] < MaxMsgs
  /\ sent' = [sent EXCEPT ![c] = @ + 1]
  /\ wire' = [wire EXCEPT ![c] = Append(@, k)]
  /\ ready' = IF interest[c] = "read" THEN ready \cup {c} ELSE ready
  /\ UNCHANGED <<client, backlog>>

\* A reset is reported whatever the interest, a FIN only to a reader.
ClientClose(c, how) ==
  /\ client[c] = "open"
  /\ client' = [client EXCEPT ![c] = how]
  /\ ready' = IF interest[c] = "read" \/ (how = "reset" /\ interest[c] = "write")
                THEN ready \cup {c} ELSE ready
  /\ UNCHANGED <<backlog, wire, sent>>

\* Space became free in the send buffer of c.
Drain(c) ==
  /\ interest[c] = "write"
  /\ ready' = ready \cup {c}
  /\ UNCHANGED <<client, backlog, wire, sent>>

Network(c) ==
  /\ \/ Connect(c)
     \/ \E k \in Kinds : ClientSend(c, k)
     \/ \E how \in Ends : ClientClose(c, how)
     \/ Drain(c)
  /\ UNCHANGED <<interest, mapVars, stateVars, replyVars, signals, rtVars,
                 thread, mainVars>>

-----------------------------------------------------------------------------
\* The runtime thread: run_server and handle_connection_event.

\* The next event of the batch, or the test of the outer loop.
NextPc(events) == IF events = {} THEN "check" ELSE "batch"

\* while runtime_is_on!()
CheckEnd ==
  /\ rt_pc = "check"
  /\ rt_pc' = IF END THEN "closing" ELSE "poll"
  /\ UNCHANGED <<netVars, mapVars, stateVars, signals, rt_conn, rt_closed,
                 rt_kind, batch, thread>>

\* The events epoll reports: those ready whose condition still holds.
Events ==
  LET fires(t, k) == IF t = SERVER THEN k = "read"
                     ELSE interest[t] = k /\ (k = "read" => Readable(t))
  IN {e \in ready \X {"read", "write"} : fires(e[1], e[2])}

\* poll(..., 5 s) returns the events of the moment, none after a timeout.
Poll ==
  /\ rt_pc = "poll"
  /\ batch' = Events
  /\ ready' = {}
  /\ rt_pc' = NextPc(Events)
  /\ UNCHANGED <<client, backlog, wire, sent, interest, mapVars, stateVars,
                 signals, rt_conn, rt_closed, rt_kind, thread>>

\* What an event of kind k on t leads to.  A readable event of an active
\* connection is dropped; its data stay unread.
Branch_IgnoresActive(t, k) == IF t = SERVER THEN "accept"
                              ELSE IF t \in channels THEN k ELSE "ignore"
Branch(t, k) ==
  IF t = SERVER THEN "accept"
  ELSE IF t \in channels /\ (k = "read" => ~is_active[t]) THEN k
  ELSE "ignore"

\* channels.read() is taken for the whole handler of a connection.
HandlerLock_Dropped(branch) == lock
HandlerLock(branch) == IF branch \in {"read", "write"} THEN "runtime" ELSE lock

TakeEvent(t, k) ==
  LET branch == Branch(t, k)
  IN /\ rt_pc = "batch"
     /\ <<t, k>> \in batch
     /\ t # SERVER => lock = "free"
     /\ batch' = batch \ {<<t, k>>}
     /\ rt_conn' = t
     /\ rt_closed' = FALSE
     /\ rt_pc' = IF branch = "ignore" THEN NextPc(batch') ELSE branch
     /\ lock' = HandlerLock(branch)
     /\ UNCHANGED <<netVars, channels, stateVars, signals, rt_kind, thread>>

\* One turn of the accept loop: register for READABLE, then insert the new
\* ConnectionState under channels.write().
Accept(c) ==
  /\ rt_pc = "accept"
  /\ c \in backlog
  /\ lock = "free"
  /\ backlog' = backlog \ {c}
  /\ channels' = channels \cup {c}
  /\ interest' = [interest EXCEPT ![c] = "read"]
  /\ ready' = IF Readable(c) THEN ready \cup {c} ELSE ready
  /\ UNCHANGED <<client, wire, sent, lock, stateVars, signals, rtVars, thread>>

\* accept() would block.
AcceptDone ==
  /\ rt_pc = "accept"
  /\ backlog = {}
  /\ rt_pc' = NextPc(batch)
  /\ UNCHANGED <<netVars, mapVars, stateVars, signals, rt_conn, rt_closed,
                 rt_kind, batch, thread>>

\* Leaving the handler releases channels.read(); "done" removes the connection.
Leave(done) ==
  /\ lock' = "free"
  /\ rt_pc' = IF done THEN "remove" ELSE NextPc(batch)

\* What a burst amounts to: from_utf8 sees all of it, and the text is "stop"
\* only when nothing else came with it.
Merged(burst) ==
  LET has(k) == \E i \in DOMAIN burst : burst[i] = k
  IN CASE has("bad")        -> "bad"
       [] ~has("bad") /\ has("exit") -> "exit"
       [] ~has("bad") /\ ~has("exit") /\ has("nul") -> "nul"
       [] burst = <<"stop">> -> "stop"
       [] OTHER             -> "query"

\* *connection.is_active = true, before anything else is done with the data.
Activate_Forgotten(c) == is_active
Activate(c) == [is_active EXCEPT ![c] = TRUE]

\* connection_closed: the read loop met the end or an error, or the text says so.
Closed_OnExitOnly(c, exit) == exit
Closed(c, exit) == exit \/ client[c] \in {"fin", "reset"}

\* The read loop, until it would block, reaches the end or fails: what it read
\* is a text for C++, or ends the connection, or is not UTF-8 and nothing follows.
ReadBurst ==
  LET c == rt_conn
      data == client[c] # "reset" /\ wire[c] # <<>>
      kind == Merged(wire[c])
      query == data /\ kind \in {"query", "stop", "nul"}
  IN /\ rt_pc = "read"
     /\ wire' = IF data THEN [wire EXCEPT ![c] = <<>>] ELSE wire
     /\ is_active' = IF data THEN Activate(c) ELSE is_active
     /\ asked' = IF query THEN [asked EXCEPT ![c] = @ + 1] ELSE asked
     /\ mute' = IF data /\ kind = "bad" THEN mute \cup {c} ELSE mute
     /\ rt_kind' = IF query THEN kind ELSE rt_kind
     /\ rt_closed' = Closed(c, data /\ kind = "exit")
     /\ IF query THEN rt_pc' = "signal" /\ UNCHANGED lock ELSE Leave(rt_closed')
     /\ UNCHANGED <<client, backlog, sent, interest, ready, channels, c_chan,
                    answered, signals, rt_conn, batch, thread>>

\* rx.send(token): tell the C++ side which connection has a query...
SendSignal ==
  /\ rt_pc = "signal"
  /\ signals' = Append(signals, rt_conn)
  /\ rt_pc' = "send"
  /\ UNCHANGED <<netVars, mapVars, stateVars, rt_conn, rt_closed, rt_kind, batch,
                 thread>>

\* ...and only then rs_sender.send(text).
SendQuery ==
  /\ rt_pc = "send"
  /\ c_chan' = [c_chan EXCEPT ![rt_conn] =
                  Append(@, [id |-> asked[rt_conn], kind |-> rt_kind])]
  /\ rt_pc' = "spawn"
  /\ UNCHANGED <<netVars, mapVars, is_active, asked, answered, mute, signals,
                 rt_conn, rt_closed, rt_kind, batch, thread>>

\* Spawn the response thread; threads.insert gives back the one of the query
\* before, to be joined.
SpawnThread ==
  LET old == thread[rt_conn]["cur"]
  IN /\ rt_pc = "spawn"
     /\ thread' = [thread EXCEPT ![rt_conn] =
                     [h \in Handle |-> IF h = "cur" THEN "waiting" ELSE old]]
     /\ IF old = "none" THEN Leave(rt_closed)
                        ELSE rt_pc' = "join" /\ UNCHANGED lock
     /\ UNCHANGED <<netVars, channels, stateVars, signals, rt_conn, rt_closed,
                    rt_kind, batch>>

\* a.join().unwrap(), with channels.read() still held.
Joined_New(c) == thread[c]["cur"]
Joined(c) == thread[c]["old"]
JoinThread ==
  LET old == Joined(rt_conn)
  IN /\ rt_pc = "join"
     /\ old \in {"finished", "panicked"}
     /\ thread' = [thread EXCEPT ![rt_conn]["old"] = "none"]
     /\ IF old = "panicked" THEN rt_pc' = "panicked" /\ lock' = "free"
                            ELSE Leave(rt_closed)
     /\ UNCHANGED <<netVars, channels, stateVars, signals, rt_conn, rt_closed,
                    rt_kind, batch>>

\* The write took the whole answer: the connection may be read again.
WriteAnswer ==
  LET c == rt_conn
  IN /\ rt_pc = "write"
     /\ client[c] # "reset"
     /\ is_active' = [is_active EXCEPT ![c] = FALSE]
     /\ interest' = [interest EXCEPT ![c] = "read"]
     /\ ready' = IF Readable(c) THEN ready \cup {c} ELSE ready
     /\ answered' = [answered EXCEPT ![c] = Append(@, response[c])]
     /\ Leave(FALSE)
     /\ UNCHANGED <<client, backlog, wire, sent, channels, c_chan, asked, mute,
                    signals, rt_conn, rt_closed, rt_kind, batch, thread>>

\* The write was short (WriteZero) or failed: Err removes the connection.  Or it
\* would block: the handler waits for the next writable event.
WriteFails_Inactive(blocked) ==
  /\ rt_pc = "write"
  /\ blocked => client[rt_conn] # "reset"
  /\ is_active' = [is_active EXCEPT ![rt_conn] = FALSE]
  /\ Leave(~blocked)
  /\ UNCHANGED <<netVars, channels, c_chan, asked, answered, mute, signals, rt_conn,
                 rt_closed, rt_kind, batch, thread>>
WriteFails(blocked) ==
  /\ rt_pc = "write"
  /\ blocked => client[rt_conn] # "reset"
  /\ Leave(~blocked)
  /\ UNCHANGED <<netVars, channels, stateVars, signals, rt_conn, rt_closed,
                 rt_kind, batch, thread>>

\* channels.write().remove(token) and, under the same guard, deregister.
RemoveConnection ==
  /\ rt_pc = "remove"
  /\ lock = "free"
  /\ channels' = channels \ {rt_conn}
  /\ interest' = [interest EXCEPT ![rt_conn] = "none"]
  /\ ready' = ready \ {rt_conn}
  /\ rt_pc' = NextPc(batch)
  /\ UNCHANGED <<client, backlog, wire, sent, lock, stateVars, signals, rt_conn,
                 rt_closed, rt_kind, batch, thread>>

\* After the loop: deregister what is left and drop its thread handles, so that
\* stop() joins the threads of removed connections only.
CloseRuntime ==
  /\ rt_pc = "closing"
  /\ lock = "free"
  /\ interest' = [c \in Conn |-> "none"]
  /\ ready' = ready \ channels
  /\ rt_pc' = "joining"
  /\ UNCHANGED <<client, backlog, wire, sent, mapVars, stateVars, signals,
                 rt_conn, rt_closed, rt_kind, batch, thread>>

\* TcpServer::stop: t.1.join().expect(...)
StopRuntime ==
  LET last(ends) == {c \in Conn \ channels : thread[c]["cur"] \in ends}
  IN /\ rt_pc = "joining"
     /\ \/ last({"none", "finished"}) = Conn \ channels /\ rt_pc' = "done"
        \/ last({"panicked"}) # {} /\ rt_pc' = "panicked"
     /\ UNCHANGED <<netVars, mapVars, stateVars, signals, rt_conn, rt_closed,
                    rt_kind, batch, thread>>

\* A system call fails and the panic ends the runtime with END unset: poll was
\* interrupted, accept or register had no descriptor or the client was gone, or
\* the registry could not be cloned for a handler.
RuntimeFails ==
  /\ \/ rt_pc \in {"poll", "accept"}
     \/ rt_pc = "batch" /\ lock = "free" /\ \E e \in batch : e[1] \in channels
  /\ rt_pc' = "failed"
  /\ UNCHANGED <<netVars, mapVars, stateVars, replyVars, signals, rt_conn,
                 rt_closed, rt_kind, batch, thread, mainVars>>

Runtime ==
  /\ \/ CheckEnd \/ Poll
     \/ \E t \in Token, k \in {"read", "write"} : TakeEvent(t, k)
     \/ \E c \in Conn : Accept(c)
     \/ AcceptDone
     \/ ReadBurst \/ SendSignal \/ SendQuery \/ SpawnThread \/ JoinThread
     \/ WriteAnswer
     \/ \E blocked \in BOOLEAN : WriteFails(blocked)
     \/ RemoveConnection
     \/ CloseRuntime \/ StopRuntime
  /\ UNCHANGED <<replyVars, mainVars>>

-----------------------------------------------------------------------------
\* The response threads.

\* get_message! on rs_receiver, then *future_response = response.
Store_Late(c) == response
Store(c) == [response EXCEPT ![c] = Head(r_chan[c])]
Consume_Peek(c) == r_chan
Consume(c) == [r_chan EXCEPT ![c] = Tail(@)]
ReceiveAnswer(c, h) ==
  /\ thread[c][h] = "waiting"
  /\ r_chan[c] # <<>>
  /\ response' = Store(c)
  /\ r_chan' = Consume(c)
  /\ thread' = [thread EXCEPT ![c][h] = "stored"]
  /\ UNCHANGED <<interest, ready>>

\* get_message! sees END.  A dropped sender is no reason to return.
GiveUpAnswer_OnTimeout(c, h) ==
  /\ thread[c][h] = "waiting"
  /\ thread' = [thread EXCEPT ![c][h] = "finished"]
  /\ UNCHANGED <<interest, ready, replyVars>>
GiveUpAnswer(c, h) ==
  /\ thread[c][h] = "waiting"
  /\ END
  /\ thread' = [thread EXCEPT ![c][h] = "finished"]
  /\ UNCHANGED <<interest, ready, replyVars>>

\* registry.reregister(..., WRITABLE).unwrap() fails on a deregistered stream.
Reregister(c, h) ==
  /\ thread[c][h] = "stored"
  /\ IF interest[c] = "none"
       THEN /\ thread' = [thread EXCEPT ![c][h] = "panicked"]
            /\ UNCHANGED <<interest, ready>>
       ELSE /\ thread' = [thread EXCEPT ![c][h] = "returning"]
            /\ interest' = [interest EXCEPT ![c] = "write"]
            /\ ready' = ready \cup {c}
  /\ UNCHANGED replyVars

ThreadReturns(c, h) ==
  /\ thread[c][h] = "returning"
  /\ thread' = [thread EXCEPT ![c][h] = "finished"]
  /\ UNCHANGED <<interest, ready, replyVars>>

ResponseThread(c, h) ==
  /\ \/ ReceiveAnswer(c, h) \/ GiveUpAnswer(c, h)
     \/ Reregister(c, h) \/ ThreadReturns(c, h)
  /\ UNCHANGED <<client, backlog, wire, sent, mapVars, stateVars, signals,
                 rtVars, mainVars>>

-----------------------------------------------------------------------------
\* The C++ main thread: while (!st) { event = server.recv(); spawn(resolve) }.

\* receive returned Shared::null(); a worker is spawned all the same.  Such workers
\* are alike and change nothing: the set holds one for all of them.
SpawnNull ==
  /\ workers' = workers \cup {Null}
  /\ main_pc' = "loop"

\* The test of st, then receive up to its wait on recv_signal.
MainLoop ==
  /\ main_pc = "loop"
  /\ ~st
  /\ IF END THEN SpawnNull ELSE main_pc' = "wait" /\ UNCHANGED workers
  /\ UNCHANGED <<lock, c_chan, r_chan, signals, main_tok, END, st, mute>>

TakeSignal ==
  /\ main_pc = "wait"
  /\ signals # <<>>
  /\ main_tok' = Head(signals)
  /\ signals' = Tail(signals)
  /\ main_pc' = "lock"
  /\ UNCHANGED <<lock, c_chan, r_chan, workers, END, st, mute>>

\* recv_timeout elapsed and END is set.
NoSignal ==
  /\ main_pc = "wait"
  /\ signals = <<>>
  /\ END
  /\ SpawnNull
  /\ UNCHANGED <<lock, c_chan, r_chan, signals, main_tok, END, st, mute>>

\* channels.write(): the connection may be gone, END may be set.
LockChannels ==
  /\ main_pc = "lock"
  /\ lock = "free"
  /\ IF main_tok \notin channels \/ END
       THEN SpawnNull /\ UNCHANGED lock
       ELSE main_pc' = "message" /\ lock' = "main" /\ UNCHANGED workers
  /\ UNCHANGED <<c_chan, r_chan, signals, main_tok, END, st, mute>>

\* get_message! on c_receiver with channels.write() held, then the worker.  A text
\* with a NUL is no C string: it is taken, and the event is null.
TakeQuery ==
  LET c == main_tok
      q == Head(c_chan[c])
  IN /\ main_pc = "message"
     /\ c_chan[c] # <<>> \/ END
     /\ lock' = "free"
     /\ c_chan' = IF c_chan[c] # <<>> THEN [c_chan EXCEPT ![c] = Tail(@)] ELSE c_chan
     /\ IF c_chan[c] # <<>> /\ q.kind # "nul"
          THEN /\ workers' = workers \cup {[conn |-> c, id |-> q.id, kind |-> q.kind]}
               /\ main_pc' = "loop"
          ELSE SpawnNull
     /\ mute' = IF c_chan[c] # <<>> /\ q.kind = "nul" THEN mute \cup {c} ELSE mute
     /\ UNCHANGED <<r_chan, signals, main_tok, END, st>>

\* ~TcpServer: stop() sets END and joins the runtime.
DestroyServer ==
  /\ main_pc = "loop"
  /\ st
  /\ END' = TRUE
  /\ main_pc' = "join_runtime"
  /\ UNCHANGED <<lock, c_chan, r_chan, signals, main_tok, workers, st, mute>>

\* runtime.join().unwrap(): a panic of the runtime aborts the process.  The Tcp
\* box is freed on return.
JoinRuntime ==
  /\ main_pc = "join_runtime"
  /\ rt_pc \in {"done", "panicked", "failed"}
  /\ main_pc' = IF rt_pc = "done" THEN "join_workers" ELSE "aborted"
  /\ UNCHANGED <<lock, c_chan, r_chan, signals, main_tok, workers, END, st, mute>>

\* t.join() for every worker, then main returns.
JoinWorkers ==
  /\ main_pc = "join_workers"
  /\ workers = {}
  /\ main_pc' = "exited"
  /\ UNCHANGED <<lock, c_chan, r_chan, signals, main_tok, workers, END, st, mute>>

Main == MainLoop \/ TakeSignal \/ NoSignal \/ LockChannels \/ TakeQuery
        \/ DestroyServer \/ JoinRuntime \/ JoinWorkers

-----------------------------------------------------------------------------
\* The workers (resolve) and the SIGTERM handler.

\* The Tcp box communicate() works on has been freed.
Freed == main_pc = "join_workers"

\* tcp.send: communicate, under channels.write(); a null event goes to Token(0),
\* which is no connection.
Answer(w) ==
  /\ w.kind = "query"
  /\ ~Freed
  /\ lock = "free"
  /\ workers' = workers \ {w}
  /\ r_chan' = IF w.conn \in channels
                 THEN [r_chan EXCEPT ![w.conn] = Append(@, w.id)]
                 ELSE r_chan
  /\ UNCHANGED <<lock, c_chan, signals, main_pc, main_tok, END, st, mute>>

\* communicate on the freed box: it finds nothing, or the process dies.
AnswerFreed(w) ==
  /\ w.kind = "query"
  /\ Freed
  /\ workers' = workers \ {w}
  /\ main_pc' \in {"join_workers", "aborted"}
  /\ UNCHANGED <<lock, c_chan, r_chan, signals, main_tok, END, st, mute>>

\* query == "stop": KILL_MSG sets END...
KillSign(w) ==
  /\ w.kind = "stop"
  /\ END' = TRUE
  /\ workers' = (workers \ {w}) \cup {[w EXCEPT !.kind = "killing"]}
  /\ UNCHANGED <<lock, c_chan, r_chan, signals, main_pc, main_tok, st, mute>>

\* ...then st, and resolve returns without an answer.
SetSt_Missing(w) ==
  /\ w.kind = "killing"
  /\ workers' = workers \ {w}
  /\ UNCHANGED <<lock, c_chan, r_chan, signals, main_pc, main_tok, END, st, mute>>
SetSt(w) ==
  /\ w.kind = "killing"
  /\ st' = TRUE
  /\ workers' = workers \ {w}
  /\ UNCHANGED <<lock, c_chan, r_chan, signals, main_pc, main_tok, END, mute>>

\* The SIGTERM handler runs the same two steps.  Bound: the signal comes while
\* nothing else has set END.
Sigterm ==
  /\ ~END
  /\ workers' = workers \cup {[conn |-> SERVER, id |-> 0, kind |-> "stop"]}
  /\ UNCHANGED <<lock, c_chan, r_chan, signals, main_pc, main_tok, END, st, mute>>

WorkerStep(w) == Answer(w) \/ AnswerFreed(w) \/ KillSign(w) \/ SetSt(w)

-----------------------------------------------------------------------------
CppFrame == UNCHANGED <<netVars, channels, is_active, asked, answered, response,
                        rtVars, thread>>

Running == main_pc \notin {"exited", "aborted"}

Next ==
  \/ /\ Running
     /\ \/ \E c \in Conn : Network(c)
        \/ Runtime
        \/ RuntimeFails
        \/ \E c \in Conn, h \in Handle : ResponseThread(c, h)
        \/ Main /\ CppFrame
        \/ (\E w \in workers : WorkerStep(w)) /\ CppFrame
        \/ Sigterm /\ CppFrame
  \/ ~Running /\ UNCHANGED vars

Spec == Init /\ [][Next]_vars
=============================================================================
