------------------------- MODULE TcpServerProperties -------------------------
(***************************************************************************)
(* What TcpServer promises, the fairness its liveness rests on, and the    *)
(* request/reply protocol it implements for every connection.              *)
(***************************************************************************)
EXTENDS TcpServer

InSignals(c) == \E i \in DOMAIN signals : signals[i] = c

\* The main thread is between taking the signal of c and taking its query.
MainHas(c) == main_tok = c /\ main_pc \in {"lock", "message"}

\* receive waits for the text of a query with channels.write() held
\* (lib.rs:406-409).  It never really waits: the runtime sent the signal and the
\* text under one channels.read(), so the text is there.  Otherwise the workers
\* and the runtime would all be stuck behind the lock.
ReceiveNeverStarves == main_pc = "message" => c_chan[main_tok] # <<>>

\* handle_connection_event joins the response thread of the query before while
\* it holds channels.read() (lib.rs:300-303).  That thread already has its
\* answer and has not panicked: were it still waiting, the worker that owes the
\* answer could never get channels.write() and nothing would move again.
JoinIsSafe ==
  rt_pc = "join" => thread[rt_conn]["old"] \in {"returning", "finished"}

\* The places the query of c, or its answer, can be in on its way from the
\* signal queue back to the socket.
Places(c) ==
  {<<"signals", i>> : i \in {i \in DOMAIN signals : signals[i] = c}}
  \cup {<<"main", 0>> : x \in {t \in {main_tok} : MainHas(c)}}
  \cup {<<"workers", w>> : w \in {w \in workers : w.conn = c}}
  \cup {<<"r_chan", i>> : i \in DOMAIN r_chan[c]}
  \cup {<<"stored", 0>> : x \in {t \in {"cur"} : thread[c][t] = "stored"}}
  \cup {<<"write", 0>> : x \in {i \in {interest[c]} : i = "write"}}

\* is_active keeps a connection to one query at a time (lib.rs:230, 259): its
\* query is in one place of the pipeline, and in none once is_active is false.
\* And it is never set in vain: until END, an active connection of the map has its
\* query in the pipeline, or is about to (its signal is being sent) or to be
\* removed, or is one of those that sent a text nobody answers.
OneQueryInProgress ==
  \A c \in Conn : /\ \A p, q \in Places(c) : p = q
                  /\ Places(c) # {} => is_active[c]
                  /\ is_active[c] /\ c \in channels /\ c \notin mute /\ ~END
                       => \/ Places(c) # {}
                          \/ rt_conn = c /\ rt_pc \in {"signal", "remove"}

\* The client reads the answers to its own queries, in the order it asked, each
\* once and none skipped, whatever the response threads and the workers do; when
\* it may ask again, nothing is owed to it.
AnswersInOrder ==
  \A c \in Conn : /\ \A i \in 1..Len(answered[c]) : answered[c][i] = i
                  /\ Len(answered[c]) <= asked[c]
                  /\ ~is_active[c] => Len(answered[c]) = asked[c]

\* The comment on ConnectionState (lib.rs:20-22): it may be accessed from the
\* C++ runtime at any point of time.  So no worker that still has to call
\* communicate outlives the Tcp box.
ServerOutlivesWorkers == Freed => ~ \E w \in workers : w.kind = "query"

-----------------------------------------------------------------------------
\* The inductive invariant behind these properties.

\* The program points at which the runtime holds channels.read().
Handling == {"read", "signal", "send", "spawn", "join", "write"}

\* While the runtime handles an event or removes a connection, and while the
\* main thread is after a query, their tokens are those of connections.
TokenInv == /\ rt_pc \in Handling \cup {"remove"} => rt_conn \in Conn
            /\ main_pc \in {"lock", "message"} => main_tok \in Conn

LockInv == /\ lock = "runtime" <=> rt_pc \in Handling
           /\ lock = "main" <=> main_pc = "message"

\* The stages of a query: asked for, with a worker, answered, the answer
\* received by the response thread, and being written.
Requested(c) == \/ InSignals(c) \/ MainHas(c) \/ c_chan[c] # <<>>
                \/ (rt_conn = c /\ rt_pc \in {"signal", "send"})
Working(c) == \E w \in workers : w.conn = c
Replied(c) == r_chan[c] # <<>>
Storing(c) == thread[c]["cur"] = "stored"
Writing(c) == \/ interest[c] = "write" \/ <<c, "write">> \in batch
              \/ (rt_conn = c /\ rt_pc = "write")

\* A query is at one stage, and its connection is active meanwhile.
StageInv(c) ==
  /\ Requested(c) => ~Working(c) /\ ~Replied(c) /\ ~Storing(c) /\ ~Writing(c)
  /\ Working(c) => ~Replied(c) /\ ~Storing(c) /\ ~Writing(c)
  /\ Replied(c) => ~Storing(c) /\ ~Writing(c)
  /\ Storing(c) => ~Writing(c)
  /\ Requested(c) \/ Working(c) \/ Replied(c) \/ Storing(c) \/ Writing(c)
       => is_active[c]

\* Within its stage it is in one place.
PlaceInv(c) ==
  /\ \A i, j \in DOMAIN signals : signals[i] = c /\ signals[j] = c => i = j
  /\ \A v, w \in workers : v.conn = c /\ w.conn = c => v = w
  /\ Len(c_chan[c]) <= 1 /\ Len(r_chan[c]) <= 1
  /\ InSignals(c) => ~MainHas(c)
  /\ rt_conn = c /\ rt_pc = "signal" => ~InSignals(c) /\ ~MainHas(c)
  /\ rt_conn = c /\ rt_pc \in {"signal", "send"} => c_chan[c] = <<>>
  /\ rt_conn = c /\ rt_pc = "spawn" => c_chan[c] # <<>>
  /\ InSignals(c) \/ MainHas(c)
       => c_chan[c] # <<>> \/ (rt_conn = c /\ rt_pc = "send")
  /\ rt_conn = c /\ rt_pc = "read" => ~is_active[c]
  /\ rt_conn = c /\ rt_pc = "write" => <<c, "write">> \notin batch

\* The response thread of the query before has done its work.
ThreadInv(c) ==
  /\ thread[c]["old"] # "none" =>
       /\ rt_conn = c /\ rt_pc = "join"
       /\ thread[c]["old"] \in {"returning", "finished"}
  /\ (~is_active[c] \/ Writing(c)
      \/ (rt_conn = c /\ rt_pc \in {"signal", "send", "spawn"}))
       => thread[c]["cur"] \in {"none", "returning", "finished"}
  /\ rt_conn = c /\ rt_pc = "join" => thread[c]["old"] # "none"

\* At every stage the number of the query is that of the last one asked.
NumberInv(c) ==
  /\ c_chan[c] # <<>> => c_chan[c][1].id = asked[c]
  /\ \A w \in workers : w.conn = c => w.id = asked[c]
  /\ r_chan[c] # <<>> => r_chan[c][1] = asked[c]
  /\ Storing(c) \/ Writing(c) => response[c] = asked[c]
  /\ Requested(c) \/ Working(c) \/ Replied(c) \/ Storing(c) \/ Writing(c)
       => Len(answered[c]) + 1 = asked[c]
  /\ ~is_active[c] => Len(answered[c]) = asked[c]
  /\ Len(answered[c]) <= asked[c]
  /\ \A i \in 1..Len(answered[c]) : answered[c][i] = i

\* A connection is in the map from the accept on, and only then active; what the
\* runtime handles is in the map.
AcceptInv ==
  /\ \A c \in Conn : client[c] = "new" => c \notin backlog
  /\ \A c \in Conn : client[c] = "new" \/ c \in backlog
                       => c \notin channels /\ ~is_active[c]
  /\ rt_pc \in Handling \cup {"remove"} => rt_conn \in channels

\* Until END, a connection of the map stays registered with the poll, for writing
\* while its answer is being written; and the runtime and the main thread do not
\* leave their loops.
RegisteredInv(c) ==
  c \in channels /\ ~END =>
    /\ interest[c] # "none"
    /\ <<c, "write">> \in batch \/ (rt_conn = c /\ rt_pc = "write")
         => interest[c] = "write"

EndInv == /\ rt_pc \in {"closing", "joining", "done", "panicked"} => END
          /\ main_pc \in {"join_runtime", "join_workers", "exited"} => END
          /\ \A w \in workers : w.kind = "killing" => END

\* An active connection has a query at some stage, unless it is about to be removed
\* or sent what nobody answers.
BusyInv(c) ==
  c \in channels /\ ~END =>
    /\ c_chan[c] # <<>> \/ (rt_conn = c /\ rt_pc = "send")
         => InSignals(c) \/ MainHas(c)
    /\ is_active[c] /\ c \notin mute
         => \/ Requested(c) \/ Working(c) \/ Replied(c) \/ Storing(c) \/ Writing(c)
            \/ (rt_conn = c /\ rt_pc = "remove")

Inv == /\ TypeOK /\ TokenInv /\ LockInv /\ AcceptInv /\ EndInv
       /\ \A c \in Conn : StageInv(c) /\ PlaceInv(c) /\ ThreadInv(c) /\ NumberInv(c)
       /\ \A c \in Conn : RegisteredInv(c) /\ BusyInv(c)

-----------------------------------------------------------------------------
\* Fairness: every thread of the process keeps running, a client reads what it
\* is sent, and a write that is retried is not blocked for ever.  Clients and
\* SIGTERM owe nothing else, and system calls may fail or not (RuntimeFails).
Fairness ==
  /\ WF_vars(Running /\ Runtime)
  /\ SF_vars(Running /\ (WriteAnswer \/ WriteFails(FALSE))
             /\ UNCHANGED <<replyVars, mainVars>>)
  /\ \A c \in Conn :
       WF_vars(Running /\ Drain(c)
               /\ UNCHANGED <<interest, mapVars, stateVars, replyVars, signals,
                              rtVars, thread, mainVars>>)
  /\ \A c \in Conn, h \in Handle : WF_vars(Running /\ ResponseThread(c, h))
  /\ WF_vars(Running /\ Main /\ CppFrame)
  /\ \A t \in Token, k \in {"query", "stop", "killing"} :
       WF_vars(/\ Running
               /\ \E w \in workers : w.conn = t /\ w.kind = k /\ WorkerStep(w)
               /\ CppFrame)

FairSpec == Spec /\ Fairness

\* The loop of run_server comes round for ever, until END or the failure of a
\* system call it unwraps (lib.rs:139-163, 186): no handler is stuck on the lock, on
\* a join or on a channel, or panics at the join.
RuntimeKeepsPolling == ([]<>(rt_pc = "poll")) \/ <>(END \/ rt_pc = "failed")

\* A query handed to the C++ side is answered, unless there is a NUL in its text
\* (mute, lib.rs:416-418), its connection is removed, or the server is told to end
\* or its runtime has failed.
QueriesAreAnswered ==
  \A c \in Conn : asked[c] > Len(answered[c])
                    ~> \/ asked[c] = Len(answered[c])
                       \/ c \in mute \/ c \notin channels
                       \/ END \/ rt_pc = "failed"

\* Once END or st is set, by "stop" or by SIGTERM, the process ends: main leaves
\* its loop, the runtime stops and every worker is joined.
ShutdownTerminates == (END \/ st) ~> ~Running

\* A connection its client has closed leaves the map, unless it once sent a text
\* nobody answers: it stays active, so that its events are dropped (lib.rs:230).
ClosedIsRemoved ==
  \A c \in Conn : (client[c] # "open" /\ c \in channels)
                    ~> (c \notin channels \/ c \in mute \/ END \/ rt_pc = "failed")

-----------------------------------------------------------------------------
\* Seen from a client, a connection is a request/reply protocol.
Phase(c) == IF c \in channels
              THEN IF is_active[c] THEN "busy" ELSE "idle"
              ELSE IF client[c] = "new" \/ c \in backlog THEN "new" ELSE "gone"

RR == INSTANCE RequestReply WITH phase <- [c \in Conn |-> Phase(c)]

\* TcpServer implements RequestReply.
ImplementsRequestReply == RR!Spec
=============================================================================
