--------------------------- MODULE TcpServerProofs ---------------------------
(***************************************************************************)
(* Proofs about TcpServer, for any number of connections and messages.     *)
(***************************************************************************)
EXTENDS TcpServerProperties, TLAPS

\* The parts of TypeOK: what the network, the runtime, the threads and the C++
\* side change.
NetOK == /\ client \in [Conn -> {"new", "open", "fin", "reset"}]
         /\ backlog \in SUBSET Conn
         /\ wire \in [Conn -> Seq(Kinds)]
         /\ sent \in [Conn -> 0..MaxMsgs]
InterestOK == /\ interest \in [Conn -> {"none", "read", "write"}]
              /\ ready \in SUBSET Token
StateOK == /\ channels \in SUBSET Conn
           /\ is_active \in [Conn -> BOOLEAN]
           /\ asked \in [Conn -> Nat]
           /\ answered \in [Conn -> Seq(Nat)]
QueueOK == /\ lock \in {"free", "runtime", "main"}
           /\ c_chan \in [Conn -> Seq(Query)]
           /\ signals \in Seq(Conn)
           /\ mute \in SUBSET Conn
ReplyOK == r_chan \in [Conn -> Seq(Nat)]
ResponseOK == response \in [Conn -> Nat]
RtOK == /\ rt_pc \in RtPc
        /\ rt_conn \in Token
        /\ rt_closed \in BOOLEAN
        /\ rt_kind \in {"query", "stop", "nul"}
        /\ batch \in SUBSET (Token \X {"read", "write"})
ThreadOK == thread \in [Conn -> [Handle -> ThreadPc]]
MainOK == /\ main_pc \in MainPc
          /\ main_tok \in Token
          /\ workers \in SUBSET Worker
          /\ END \in BOOLEAN
          /\ st \in BOOLEAN

Parts == /\ NetOK /\ InterestOK /\ StateOK /\ QueueOK /\ ReplyOK /\ ResponseOK
         /\ RtOK /\ ThreadOK /\ MainOK

LEMMA TypeParts == (TypeOK <=> Parts) /\ (TypeOK' <=> Parts')
BY DEF TypeOK, Parts, NetOK, InterestOK, StateOK, QueueOK, ReplyOK, ResponseOK,
       RtOK, ThreadOK, MainOK

LEMMA InitType == Init => TypeOK /\ TokenInv
<1> SUFFICES ASSUME Init PROVE Parts /\ TokenInv
  BY TypeParts
<1> USE DEF Init
<1>1. NetOK
  BY TcpAssumption DEF TcpAssumption, NetOK
<1>2. InterestOK /\ StateOK /\ ResponseOK
  BY DEF InterestOK, StateOK, ResponseOK, Token
<1>3. QueueOK /\ ReplyOK
  BY DEF QueueOK, ReplyOK
<1>4. RtOK
  BY DEF RtOK, RtPc, Token
<1>5. ThreadOK
  BY DEF ThreadOK, ThreadPc
<1>6. MainOK
  BY DEF MainOK, MainPc, Token
<1>7. TokenInv
  BY DEF TokenInv, Handling
<1> QED BY <1>1, <1>2, <1>3, <1>4, <1>5, <1>6, <1>7 DEF Parts

\* Every action preserves the type invariant.
LEMMA NetworkType ==
  ASSUME TypeOK, TokenInv, NEW c \in Conn, Network(c)  PROVE TypeOK' /\ TokenInv'
<1>0. Parts
  BY TypeParts
<1>1. /\ UNCHANGED <<interest, mapVars, stateVars, replyVars, signals, rtVars,
                     thread, mainVars>>
  BY DEF Network
<1>2. /\ StateOK' /\ QueueOK' /\ ReplyOK' /\ ResponseOK' /\ RtOK' /\ ThreadOK'
      /\ MainOK' /\ TokenInv'
  BY <1>0, <1>1 DEF Parts, StateOK, QueueOK, ReplyOK, ResponseOK, RtOK, ThreadOK,
     MainOK, TokenInv, mapVars, stateVars, replyVars, rtVars, mainVars
<1>3. NetOK /\ InterestOK
  BY <1>0 DEF Parts
<1>4. ASSUME NEW k \in Kinds, ClientSend(c, k) PROVE NetOK' /\ InterestOK'
  <2>1. sent' \in [Conn -> 0..MaxMsgs]
    BY <1>3, <1>4, TcpAssumption DEF TcpAssumption, ClientSend, NetOK
  <2>2. wire' \in [Conn -> Seq(Kinds)]
    BY <1>3, <1>4 DEF ClientSend, NetOK
  <2>3. ready' \in SUBSET Token
    BY <1>3, <1>4 DEF ClientSend, InterestOK, Token
  <2> QED BY <1>1, <1>3, <1>4, <2>1, <2>2, <2>3 DEF ClientSend, NetOK, InterestOK
<1>5. ASSUME Connect(c) \/ Drain(c) \/ \E how \in Ends : ClientClose(c, how)
      PROVE  NetOK' /\ InterestOK'
  BY <1>1, <1>3, <1>5, TcpAssumption
     DEF TcpAssumption, Connect, Drain, ClientClose, NetOK, InterestOK, Token
<1> QED BY <1>2, <1>4, <1>5, TypeParts DEF Network, Parts

LEMMA RuntimeType ==
  ASSUME TypeOK, TokenInv, Runtime  PROVE TypeOK' /\ TokenInv'
<1>0. Parts /\ UNCHANGED <<replyVars, mainVars>>
  BY TypeParts DEF Runtime
<1>a. ReplyOK' /\ ResponseOK' /\ MainOK'
  BY <1>0 DEF Parts, ReplyOK, ResponseOK, MainOK, replyVars, mainVars
<1>b. NetOK /\ InterestOK /\ StateOK /\ QueueOK /\ RtOK /\ ThreadOK
  BY <1>0 DEF Parts
<1> DEFINE Goal == /\ NetOK' /\ InterestOK' /\ StateOK' /\ QueueOK' /\ RtOK'
                   /\ ThreadOK' /\ TokenInv'
<1> USE <1>b DEF netVars, mapVars, stateVars, mainVars, Handling, NextPc, Leave
<1>1. ASSUME \/ CheckEnd \/ Poll \/ AcceptDone \/ StopRuntime \/ SendSignal
             \/ \E t \in Token, k \in {"read", "write"} : TakeEvent(t, k)
             \/ \E blocked \in BOOLEAN : WriteFails(blocked)
      PROVE  Goal
  <2> USE <1>1 DEF CheckEnd, Poll, AcceptDone, StopRuntime, SendSignal, TakeEvent, WriteFails
  <2>1. NetOK' /\ StateOK' /\ ThreadOK'
    BY DEF NetOK, StateOK, ThreadOK
  <2>2. InterestOK'
    BY DEF InterestOK
  <2>3. QueueOK'
    <3>1. /\ UNCHANGED <<c_chan, mute>> /\ lock' \in {lock, "free", "runtime"}
          /\ signals' = signals \/ (signals' = Append(signals, rt_conn) /\ rt_conn \in Conn)
      BY DEF TokenInv, HandlerLock
    <3>2. rt_conn \in Conn => Append(signals, rt_conn) \in Seq(Conn)
      BY DEF QueueOK
    <3>3. signals' \in Seq(Conn)
      BY <3>1, <3>2 DEF QueueOK
    <3> QED BY <3>1, <3>3 DEF QueueOK
  <2>4. RtOK'
    <3>1. rt_pc' \in RtPc
      BY DEF RtPc, Branch
    <3>2. rt_conn' \in Token /\ rt_closed' \in BOOLEAN /\ rt_kind' = rt_kind
      BY DEF RtOK
    <3>3. batch' \subseteq batch \/ batch' = Events
      OBVIOUS
    <3>4. Events \subseteq Token \X {"read", "write"}
      BY DEF Events, InterestOK
    <3> QED BY <3>1, <3>2, <3>3, <3>4 DEF RtOK
  <2>5. TokenInv'
    BY <1>0 DEF TokenInv, Branch, Token
  <2> QED BY <2>1, <2>2, <2>3, <2>4, <2>5
<1>2. ASSUME NEW c \in Conn, Accept(c) PROVE Goal
  BY <1>0, <1>2 DEF Accept, NetOK, InterestOK, StateOK, QueueOK, RtOK, ThreadOK,
                    TokenInv, Token, rtVars
<1>3. ASSUME ReadBurst PROVE Goal
  <2>1. rt_conn \in Conn /\ rt_pc = "read"
    BY <1>3 DEF ReadBurst, TokenInv
  <2>2. UNCHANGED <<client, backlog, sent, interest, ready, channels, c_chan,
                    answered, signals, rt_conn, batch, thread>>
    BY <1>3 DEF ReadBurst
  <2>3. NetOK' /\ InterestOK'
    BY <1>3, <2>1, <2>2 DEF ReadBurst, NetOK, InterestOK
  <2>4. StateOK'
    <3>1. is_active' \in [Conn -> BOOLEAN]
      BY <1>3, <2>1 DEF ReadBurst, Activate, StateOK
    <3>2. asked' \in [Conn -> Nat]
      BY <1>3, <2>1 DEF ReadBurst, StateOK
    <3> QED BY <2>2, <3>1, <3>2 DEF StateOK
  <2>5. rt_pc' \in {"signal", "remove", "check", "batch"} /\ lock' \in {lock, "free"}
    BY <1>3 DEF ReadBurst
  <2>6. /\ rt_kind' \in {"query", "stop", "nul"} /\ rt_closed' \in BOOLEAN
        /\ mute' \in SUBSET Conn
    BY <1>3, <2>1 DEF ReadBurst, Closed, RtOK, QueueOK
  <2>7. QueueOK' /\ RtOK' /\ ThreadOK' /\ TokenInv'
    BY <1>0, <2>1, <2>2, <2>5, <2>6 DEF QueueOK, RtOK, RtPc, ThreadOK, TokenInv
  <2> QED BY <2>3, <2>4, <2>7
<1>4. ASSUME SendQuery PROVE Goal
  <2>1. /\ UNCHANGED <<netVars, mapVars, is_active, asked, answered, mute, signals,
                       rt_conn, rt_closed, rt_kind, batch, thread>>
        /\ rt_pc' = "spawn" /\ rt_conn \in Conn
    BY <1>4 DEF SendQuery, TokenInv
  <2>2. [id |-> asked[rt_conn], kind |-> rt_kind] \in Query
    BY <2>1 DEF Query, StateOK, RtOK
  <2>3. c_chan' \in [Conn -> Seq(Query)]
    BY <1>4, <2>1, <2>2 DEF SendQuery, QueueOK
  <2> QED BY <1>0, <2>1, <2>3 DEF NetOK, InterestOK, StateOK, QueueOK, RtOK, RtPc,
                                  ThreadOK, TokenInv
<1>5. ASSUME SpawnThread \/ JoinThread PROVE Goal
  <2>1. /\ UNCHANGED <<netVars, channels, stateVars, signals, rt_conn, rt_closed,
                       rt_kind, batch>>
        /\ rt_conn \in Conn /\ rt_pc \in {"spawn", "join"}
        /\ rt_pc' \in {"join", "remove", "check", "batch", "panicked"}
        /\ lock' \in {lock, "free"}
    BY <1>5 DEF SpawnThread, JoinThread, TokenInv
  <2>2. ThreadOK'
    <3>1. CASE SpawnThread
      <4>1. [h \in Handle |-> IF h = "cur" THEN "waiting" ELSE thread[rt_conn]["cur"]]
              \in [Handle -> ThreadPc]
        BY <2>1 DEF ThreadOK, ThreadPc, Handle
      <4> QED BY <2>1, <3>1, <4>1 DEF SpawnThread, ThreadOK
    <3>2. CASE JoinThread
      <4>1. [thread[rt_conn] EXCEPT !["old"] = "none"] \in [Handle -> ThreadPc]
        BY <2>1 DEF ThreadOK, ThreadPc, Handle
      <4> QED BY <2>1, <3>2, <4>1 DEF JoinThread, ThreadOK
    <3> QED BY <1>5, <3>1, <3>2
  <2> QED BY <1>0, <2>1, <2>2 DEF NetOK, InterestOK, StateOK, QueueOK, RtOK, RtPc, TokenInv
<1>6. ASSUME WriteAnswer PROVE Goal
  <2>1. /\ rt_conn \in Conn /\ response[rt_conn] \in Nat
        /\ rt_pc' \in {"check", "batch"} /\ lock' = "free"
        /\ UNCHANGED <<client, backlog, wire, sent, channels, c_chan, asked, mute,
                       signals, rt_conn, rt_closed, rt_kind, batch, thread>>
    BY <1>0, <1>6 DEF WriteAnswer, TokenInv, Parts, ResponseOK
  <2>2. answered' \in [Conn -> Seq(Nat)] /\ is_active' \in [Conn -> BOOLEAN]
    BY <1>6, <2>1 DEF WriteAnswer, StateOK
  <2>3. InterestOK'
    BY <1>6, <2>1 DEF WriteAnswer, InterestOK, Token
  <2> QED BY <1>0, <2>1, <2>2, <2>3 DEF NetOK, StateOK, QueueOK, RtOK, RtPc, ThreadOK,
                                        TokenInv
<1>7. ASSUME RemoveConnection \/ CloseRuntime PROVE Goal
  <2>1. InterestOK'
    BY <1>7 DEF RemoveConnection, CloseRuntime, InterestOK
  <2> QED BY <1>0, <1>7, <2>1 DEF RemoveConnection, CloseRuntime, NetOK, StateOK, QueueOK,
                                  RtOK, RtPc, ThreadOK, TokenInv
<1> HIDE <1>b DEF Goal
<1>8. Goal
  BY <1>1, <1>2, <1>3, <1>4, <1>5, <1>6, <1>7 DEF Runtime
<1> QED BY <1>8, <1>a, TypeParts DEF Parts, Goal

LEMMA FailsType ==
  ASSUME TypeOK, TokenInv, RuntimeFails  PROVE TypeOK' /\ TokenInv'
<1>1. /\ UNCHANGED <<netVars, mapVars, stateVars, replyVars, signals, rt_conn,
                     rt_closed, rt_kind, batch, thread, mainVars>>
      /\ rt_pc' = "failed"
  BY DEF RuntimeFails
<1>2. TypeOK'
  BY <1>1 DEF TypeOK, RtPc, netVars, mapVars, stateVars, replyVars, mainVars
<1>3. TokenInv'
  BY <1>1 DEF TokenInv, Handling, mainVars
<1> QED BY <1>2, <1>3

LEMMA ResponseType ==
  ASSUME TypeOK, TokenInv, NEW c \in Conn, NEW h \in Handle, ResponseThread(c, h)
  PROVE  TypeOK' /\ TokenInv'
<1>0. /\ Parts
      /\ UNCHANGED <<client, backlog, wire, sent, mapVars, stateVars, signals,
                     rtVars, mainVars>>
  BY TypeParts DEF ResponseThread
<1>1. NetOK' /\ StateOK' /\ QueueOK' /\ RtOK' /\ MainOK' /\ TokenInv'
  BY <1>0 DEF Parts, NetOK, StateOK, QueueOK, RtOK, MainOK, TokenInv, mapVars,
              stateVars, rtVars, mainVars
<1>2. InterestOK' /\ ReplyOK' /\ ResponseOK'
  <2>1. InterestOK /\ ReplyOK /\ ResponseOK
    BY <1>0 DEF Parts
  <2>2. CASE ReceiveAnswer(c, h)
    <3>1. Head(r_chan[c]) \in Nat /\ Tail(r_chan[c]) \in Seq(Nat)
      BY <2>1, <2>2 DEF ReceiveAnswer, ReplyOK
    <3> QED BY <2>1, <2>2, <3>1 DEF ReceiveAnswer, Store, Consume, InterestOK, ReplyOK,
                                    ResponseOK
  <2>3. CASE Reregister(c, h)
    BY <2>1, <2>3 DEF Reregister, InterestOK, ReplyOK, ResponseOK, Token, replyVars
  <2>4. CASE GiveUpAnswer(c, h) \/ ThreadReturns(c, h)
    BY <2>1, <2>4 DEF GiveUpAnswer, ThreadReturns, InterestOK, ReplyOK, ResponseOK, replyVars
  <2> QED BY <2>2, <2>3, <2>4 DEF ResponseThread
<1>3. ThreadOK'
  <2>1. PICK p \in ThreadPc : thread' = [thread EXCEPT ![c][h] = p]
    BY DEF ResponseThread, ReceiveAnswer, GiveUpAnswer, Reregister, ThreadReturns, ThreadPc
  <2>2. ThreadOK
    BY <1>0 DEF Parts
  <2>3. [thread[c] EXCEPT ![h] = p] \in [Handle -> ThreadPc]
    BY <2>2 DEF ThreadOK
  <2> QED BY <2>1, <2>2, <2>3 DEF ThreadOK
<1> QED BY <1>1, <1>2, <1>3, TypeParts DEF Parts

LEMMA MainType ==
  ASSUME TypeOK, TokenInv, Main, CppFrame  PROVE TypeOK' /\ TokenInv'
<1>0. Parts
  BY TypeParts
<1>a. /\ NetOK' /\ InterestOK' /\ StateOK' /\ ResponseOK' /\ RtOK' /\ ThreadOK'
      /\ UNCHANGED <<rt_pc, rt_conn>>
  BY <1>0 DEF Parts, NetOK, InterestOK, StateOK, ResponseOK, RtOK, ThreadOK, CppFrame,
              netVars, rtVars
<1>b. ReplyOK' /\ QueueOK /\ MainOK
  BY <1>0 DEF Parts, ReplyOK, Main, MainLoop, TakeSignal, NoSignal, LockChannels,
              TakeQuery, DestroyServer, JoinRuntime, JoinWorkers
<1>c. Null \in Worker
  BY DEF Null, Worker, Token
<1> DEFINE Goal == QueueOK' /\ MainOK' /\ TokenInv'
<1>1. ASSUME \/ MainLoop \/ NoSignal \/ LockChannels \/ DestroyServer \/ JoinRuntime
             \/ JoinWorkers
      PROVE  Goal
  <2>1. /\ UNCHANGED <<c_chan, signals, main_tok, mute>>
        /\ lock' \in {lock, "main"}
        /\ workers' = workers \/ workers' = workers \cup {Null}
        /\ main_pc' \in {"wait", "loop", "message", "join_runtime", "aborted",
                         "join_workers", "exited"}
        /\ main_pc' = "message" => main_pc = "lock"
        /\ END' \in {END, TRUE} /\ st' = st
    BY <1>1 DEF MainLoop, NoSignal, LockChannels, DestroyServer, JoinRuntime, JoinWorkers,
                SpawnNull
  <2> QED BY <1>a, <1>b, <1>c, <2>1 DEF QueueOK, MainOK, MainPc, TokenInv
<1>2. ASSUME TakeSignal PROVE Goal
  <2>1. /\ UNCHANGED <<lock, c_chan, workers, END, st, mute>> /\ main_pc' = "lock"
        /\ signals' = Tail(signals) /\ main_tok' = Head(signals) /\ signals # <<>>
    BY <1>2 DEF TakeSignal
  <2>2. signals' \in Seq(Conn) /\ main_tok' \in Conn
    BY <1>b, <2>1 DEF QueueOK
  <2> QED BY <1>a, <1>b, <2>1, <2>2 DEF QueueOK, MainOK, MainPc, TokenInv, Token
<1>3. ASSUME TakeQuery PROVE Goal
  <2>1. /\ UNCHANGED <<signals, main_tok, END, st>> /\ main_pc' = "loop" /\ lock' = "free"
        /\ main_tok \in Conn /\ mute' \in {mute, mute \cup {main_tok}}
    BY <1>3 DEF TakeQuery, SpawnNull, TokenInv
  <2>2. CASE c_chan[main_tok] # <<>>
    <3> DEFINE q == Head(c_chan[main_tok])
               w == [conn |-> main_tok, id |-> q.id, kind |-> q.kind]
    <3>1. /\ c_chan' = [c_chan EXCEPT ![main_tok] = Tail(@)]
          /\ \/ q.kind # "nul" /\ workers' = workers \cup {w}
             \/ workers' = workers \cup {Null}
      BY <1>3, <2>2 DEF TakeQuery, SpawnNull
    <3>2. q \in Query /\ Tail(c_chan[main_tok]) \in Seq(Query)
      BY <1>b, <2>1, <2>2 DEF QueueOK
    <3>3. q.kind # "nul" => w \in Worker
      BY <2>1, <3>2 DEF Query, Worker, Token
    <3>4. workers' \in SUBSET Worker
      <4> HIDE DEF w, q
      <4> QED BY <1>b, <1>c, <3>1, <3>3 DEF MainOK
    <3> QED BY <1>a, <1>b, <2>1, <3>1, <3>2, <3>4 DEF QueueOK, MainOK, MainPc, TokenInv
  <2>3. CASE c_chan[main_tok] = <<>>
    <3>1. UNCHANGED c_chan /\ workers' = workers \cup {Null}
      BY <1>3, <2>3 DEF TakeQuery, SpawnNull
    <3> QED BY <1>a, <1>b, <1>c, <2>1, <3>1 DEF QueueOK, MainOK, MainPc, TokenInv
  <2> QED BY <2>2, <2>3
<1>4. Goal
  BY <1>1, <1>2, <1>3 DEF Main
<1> QED BY <1>4, <1>a, <1>b, TypeParts DEF Parts

LEMMA WorkerType ==
  ASSUME TypeOK, TokenInv, CppFrame, Sigterm \/ \E w \in workers : WorkerStep(w)
  PROVE  TypeOK' /\ TokenInv'
<1>0. Parts
  BY TypeParts
<1>a. /\ NetOK' /\ InterestOK' /\ StateOK' /\ ResponseOK' /\ RtOK' /\ ThreadOK'
      /\ UNCHANGED <<rt_pc, rt_conn>>
  BY <1>0 DEF Parts, NetOK, InterestOK, StateOK, ResponseOK, RtOK, ThreadOK, CppFrame,
              netVars, rtVars
<1>b. QueueOK /\ ReplyOK /\ MainOK
  BY <1>0 DEF Parts
<1>1. /\ UNCHANGED <<lock, c_chan, signals, main_tok, mute>>
      /\ main_pc' \in {main_pc, "join_workers", "aborted"}
      /\ END' \in {END, TRUE} /\ st' \in {st, TRUE}
  BY DEF Sigterm, WorkerStep, Answer, AnswerFreed, KillSign, SetSt
<1>2. ReplyOK'
  <2>1. ASSUME NEW w \in workers, Answer(w) PROVE ReplyOK'
    <3>1. w.id \in Nat
      BY <1>b DEF MainOK, Worker
    <3>2. CASE w.conn \in channels
      <4>1. w.conn \in Conn
        BY <1>0, <3>2 DEF Parts, StateOK
      <4>2. Append(r_chan[w.conn], w.id) \in Seq(Nat)
        BY <1>b, <3>1, <4>1 DEF ReplyOK
      <4> QED BY <1>b, <2>1, <3>2, <4>2 DEF ReplyOK, Answer
    <3>3. CASE w.conn \notin channels
      BY <1>b, <2>1, <3>3 DEF ReplyOK, Answer
    <3> QED BY <3>2, <3>3
  <2> QED BY <1>b, <2>1 DEF ReplyOK, Sigterm, WorkerStep, AnswerFreed, KillSign, SetSt
<1>3. workers' \in SUBSET Worker
  <2>1. [conn |-> SERVER, id |-> 0, kind |-> "stop"] \in Worker
    BY DEF Worker, Token
  <2>2. ASSUME NEW w \in workers PROVE [w EXCEPT !.kind = "killing"] \in Worker
    BY <1>b DEF MainOK, Worker
  <2> QED BY <1>b, <2>1, <2>2 DEF MainOK, Sigterm, WorkerStep, Answer, AnswerFreed,
                                  KillSign, SetSt
<1>4. QueueOK' /\ MainOK' /\ TokenInv'
  BY <1>a, <1>b, <1>1, <1>3 DEF QueueOK, MainOK, MainPc, TokenInv
<1> QED BY <1>4, <1>2, <1>a, TypeParts DEF Parts

LEMMA TypeNext == TypeOK /\ TokenInv /\ [Next]_vars => TypeOK' /\ TokenInv'
<1> SUFFICES ASSUME TypeOK, TokenInv, [Next]_vars PROVE TypeOK' /\ TokenInv'
  OBVIOUS
<1>1. CASE UNCHANGED vars
  BY <1>1 DEF vars, netVars, mapVars, stateVars, replyVars, rtVars, mainVars,
              TypeOK, TokenInv
<1> QED BY <1>1, NetworkType, RuntimeType, FailsType, ResponseType, MainType, WorkerType
        DEF Next

\* Every state of the server is of its type: in particular a token taken from
\* the signal queue, or handled by the runtime, is that of a connection.
THEOREM TypeCorrect == Spec => [](TypeOK /\ TokenInv)
BY TypeNext, InitType, PTL DEF Spec

-----------------------------------------------------------------------------
\* The inductive invariant.

\* What the invariant says of the runtime's program counter.
LEMMA LockNext ==
  ASSUME TypeOK, TokenInv, LockInv, \A c \in Conn : ThreadInv(c), [Next]_vars
  PROVE  LockInv'
<1> USE DEF LockInv, Handling
<1>1. ASSUME NEW c \in Conn, Network(c) PROVE LockInv'
  BY <1>1 DEF Network, mapVars, rtVars, mainVars
<1>2. CASE Runtime
  <2> USE <1>2 DEF Runtime, mainVars, mapVars, NextPc, Leave
  <2>1. CASE CheckEnd
    BY <2>1 DEF CheckEnd
  <2>2. CASE Poll
    BY <2>2 DEF Poll
  <2>3. ASSUME NEW t \in Token, NEW k \in {"read", "write"}, TakeEvent(t, k)
        PROVE LockInv'
    <3>1. /\ Branch(t, k) \in {"accept", "read", "write", "ignore"}
          /\ t = SERVER => Branch(t, k) = "accept"
      BY DEF Branch
    <3> QED BY <2>3, <3>1 DEF TakeEvent, HandlerLock
  <2>4. ASSUME NEW c \in Conn, Accept(c) PROVE LockInv'
    BY <2>4 DEF Accept, rtVars
  <2>5. CASE AcceptDone
    BY <2>5 DEF AcceptDone
  <2>6. CASE ReadBurst
    BY <2>6 DEF ReadBurst
  <2>7. CASE SendSignal
    BY <2>7 DEF SendSignal
  <2>8. CASE SendQuery
    BY <2>8 DEF SendQuery
  <2>9. CASE SpawnThread
    BY <2>9 DEF SpawnThread
  <2>10. CASE JoinThread
    BY <2>10 DEF JoinThread
  <2>11. CASE WriteAnswer
    BY <2>11 DEF WriteAnswer
  <2>12. ASSUME NEW blocked \in BOOLEAN, WriteFails(blocked) PROVE LockInv'
    BY <2>12 DEF WriteFails
  <2>13. CASE RemoveConnection
    BY <2>13 DEF RemoveConnection
  <2>14. CASE CloseRuntime
    BY <2>14 DEF CloseRuntime
  <2>15. CASE StopRuntime
    BY <2>15 DEF StopRuntime
  <2> QED BY <1>2, <2>1, <2>2, <2>3, <2>4, <2>5, <2>6, <2>7, <2>8, <2>9, <2>10,
             <2>11, <2>12, <2>13, <2>14, <2>15
<1>3. ASSUME NEW c \in Conn, NEW h \in Handle, ResponseThread(c, h) PROVE LockInv'
  BY <1>3 DEF ResponseThread, mapVars, rtVars, mainVars
<1>4. CASE Main /\ CppFrame
  BY <1>4 DEF Main, MainLoop, TakeSignal, NoSignal, LockChannels, TakeQuery,
              DestroyServer, JoinRuntime, JoinWorkers, SpawnNull, CppFrame, rtVars
<1>5. ASSUME NEW w \in workers, WorkerStep(w), CppFrame PROVE LockInv'
  BY <1>5 DEF WorkerStep, Answer, AnswerFreed, KillSign, SetSt, Freed, CppFrame, rtVars
<1>6. CASE Sigterm /\ CppFrame
  BY <1>6 DEF Sigterm, CppFrame, rtVars
<1>7. CASE UNCHANGED vars
  BY <1>7 DEF vars, mapVars, rtVars, mainVars
<1>8. CASE RuntimeFails
  BY <1>8 DEF RuntimeFails, mapVars, mainVars
<1> QED BY <1>1, <1>2, <1>3, <1>4, <1>5, <1>6, <1>7, <1>8 DEF Next

ConnInv(c) == StageInv(c) /\ PlaceInv(c) /\ ThreadInv(c) /\ NumberInv(c)

\* A step of the runtime that touches no query: at most it stops writing.
LEMMA QuietStep ==
  ASSUME NEW c \in Conn, ConnInv(c),
         UNCHANGED <<stateVars, replyVars, signals, thread, mainVars>>,
         Writing(c)' => Writing(c),
         rt_pc \notin {"signal", "send", "spawn", "join"},
         rt_pc' \notin {"signal", "send", "spawn", "join"},
         rt_conn' = c /\ rt_pc' = "read" => ~is_active[c],
         rt_conn' = c /\ rt_pc' = "write" => <<c, "write">> \notin batch'
  PROVE  ConnInv(c)'
<1> USE DEF stateVars, replyVars, mainVars
<1>1. InSignals(c)' = InSignals(c) /\ MainHas(c)' = MainHas(c)
  BY DEF InSignals, MainHas
<1>2. /\ Working(c)' = Working(c)
      /\ Replied(c)' = Replied(c)
      /\ Storing(c)' = Storing(c)
      /\ Requested(c)' = Requested(c)
  BY <1>1 DEF Working, Replied, Storing, Requested
<1>3. StageInv(c)'
  BY <1>2 DEF ConnInv, StageInv
<1>4. PlaceInv(c)'
  BY <1>1 DEF ConnInv, PlaceInv
<1>5. ThreadInv(c)'
  BY DEF ConnInv, ThreadInv
<1>6. NumberInv(c)'
  BY <1>2 DEF ConnInv, NumberInv
<1> QED BY <1>3, <1>4, <1>5, <1>6 DEF ConnInv

LEMMA RuntimeQuiet ==
  ASSUME Inv, NEW c \in Conn, UNCHANGED <<replyVars, mainVars>>,
         \/ CheckEnd \/ Poll \/ AcceptDone \/ RemoveConnection
         \/ CloseRuntime \/ StopRuntime \/ RuntimeFails
         \/ \E t \in Token, k \in {"read", "write"} : TakeEvent(t, k)
         \/ \E d \in Conn : Accept(d)
         \/ \E blocked \in BOOLEAN : WriteFails(blocked)
  PROVE  ConnInv(c)'
<1>0. ConnInv(c) /\ TypeOK
  BY DEF Inv, ConnInv
<1> USE DEF netVars, mapVars, rtVars, NextPc, Writing
<1>1. CASE CheckEnd
  BY <1>0, <1>1, QuietStep DEF CheckEnd
<1>2. CASE Poll
  BY <1>0, <1>2, QuietStep, TcpAssumption DEF TcpAssumption, Poll, Events, TypeOK
<1>3. CASE AcceptDone
  BY <1>0, <1>3, QuietStep DEF AcceptDone
<1>4. CASE RemoveConnection
  BY <1>0, <1>4, QuietStep DEF RemoveConnection, TypeOK
<1>5. CASE CloseRuntime
  BY <1>0, <1>5, QuietStep DEF CloseRuntime, TypeOK
<1>6. CASE StopRuntime
  BY <1>0, <1>6, QuietStep DEF StopRuntime
<1>7. ASSUME NEW t \in Token, NEW k \in {"read", "write"}, TakeEvent(t, k)
      PROVE  ConnInv(c)'
  <2>1. Writing(c)' => Writing(c)
    BY <1>7, TcpAssumption DEF TcpAssumption, TakeEvent, Branch
  <2> QED BY <1>0, <1>7, <2>1, QuietStep, TcpAssumption
          DEF TcpAssumption, TakeEvent, Branch
<1>8. ASSUME NEW d \in Conn, Accept(d) PROVE ConnInv(c)'
  BY <1>0, <1>8, QuietStep DEF Accept, TypeOK
<1>9. ASSUME NEW blocked \in BOOLEAN, WriteFails(blocked) PROVE ConnInv(c)'
  BY <1>0, <1>9, QuietStep DEF WriteFails, Leave
<1>10. CASE RuntimeFails
  BY <1>0, <1>10, QuietStep DEF RuntimeFails
<1> QED BY <1>1, <1>2, <1>3, <1>4, <1>5, <1>6, <1>7, <1>8, <1>9, <1>10

\* A query enters the pipeline when its connection is idle.
LEMMA ReadBurstInv ==
  ASSUME Inv, NEW c \in Conn, UNCHANGED <<replyVars, mainVars>>, ReadBurst
  PROVE  ConnInv(c)'
<1>0. ConnInv(c) /\ TypeOK /\ rt_conn \in Conn /\ ~is_active[rt_conn]
  BY DEF Inv, ConnInv, TokenInv, Handling, ReadBurst, PlaceInv
<1>1. /\ InSignals(c)' = InSignals(c) /\ MainHas(c)' = MainHas(c)
      /\ Working(c)' = Working(c) /\ Replied(c)' = Replied(c)
      /\ Storing(c)' = Storing(c) /\ Writing(c)' = Writing(c)
  BY DEF ReadBurst, InSignals, MainHas, Working, Replied, Storing, Writing,
         Leave, NextPc, replyVars, mainVars
<1>2. CASE rt_pc' = "signal" /\ rt_conn = c
  <2>1. /\ is_active'[c] /\ asked'[c] = asked[c] + 1
        /\ UNCHANGED <<c_chan, answered, thread, r_chan, workers, signals, response,
                       batch, rt_conn>>
    BY <1>0, <1>2 DEF ReadBurst, Leave, NextPc, Activate, replyVars, mainVars, TypeOK
  <2>2. /\ ~InSignals(c) /\ ~MainHas(c) /\ c_chan[c] = <<>> /\ ~Working(c)
        /\ ~Replied(c) /\ ~Storing(c) /\ ~Writing(c) /\ Len(answered[c]) = asked[c]
    BY <1>0, <1>2 DEF ConnInv, StageInv, NumberInv, Requested
  <2>3. StageInv(c)'
    BY <1>1, <2>1, <2>2 DEF StageInv
  <2>4. PlaceInv(c)'
    BY <1>0, <1>1, <1>2, <2>1, <2>2 DEF ConnInv, PlaceInv
  <2>5. ThreadInv(c)'
    BY <1>0, <1>1, <1>2, <2>1, <2>2 DEF ConnInv, ThreadInv, ReadBurst
  <2>6. NumberInv(c)'
    BY <1>0, <1>1, <2>1, <2>2 DEF ConnInv, NumberInv, Working, Replied, TypeOK
  <2> QED BY <2>3, <2>4, <2>5, <2>6 DEF ConnInv
<1>3. CASE ~(rt_pc' = "signal" /\ rt_conn = c)
  <2>1. /\ is_active'[c] = is_active[c] \/ (is_active'[c] /\ rt_conn = c)
        /\ asked'[c] = asked[c]
        /\ UNCHANGED <<c_chan, answered, thread, r_chan, workers, signals, response,
                       batch, rt_conn>>
        /\ rt_pc = "read" /\ rt_pc' \in {"signal", "remove", "check", "batch"}
    BY <1>0, <1>3 DEF ReadBurst, Leave, NextPc, Activate, replyVars, mainVars, TypeOK
  <2>2. Requested(c)' = Requested(c)
    BY <1>1, <1>3, <2>1 DEF Requested
  <2>3. StageInv(c)'
    BY <1>0, <1>1, <2>1, <2>2 DEF ConnInv, StageInv
  <2>4. PlaceInv(c)'
    BY <1>0, <1>1, <1>3, <2>1 DEF ConnInv, PlaceInv
  <2>5. ThreadInv(c)'
    BY <1>0, <1>1, <1>3, <2>1 DEF ConnInv, ThreadInv
  <2>6. NumberInv(c)'
    BY <1>0, <1>1, <2>1, <2>2 DEF ConnInv, NumberInv
  <2> QED BY <2>3, <2>4, <2>5, <2>6 DEF ConnInv
<1> QED BY <1>2, <1>3

\* What appending to the signal queue, and taking its head, do to its elements.
In(s, x) == \E i \in DOMAIN s : s[i] = x
Once(s, x) == \A i, j \in DOMAIN s : s[i] = x /\ s[j] = x => i = j

LEMMA AppendOnce ==
  ASSUME NEW S, NEW s \in Seq(S), NEW y \in S, NEW x
  PROVE  /\ In(Append(s, y), x) <=> In(s, x) \/ y = x
         /\ Once(s, x) /\ (y = x => ~In(s, x)) => Once(Append(s, y), x)
<1> DEFINE t == Append(s, y)
<1>1. /\ DOMAIN t = 1..(Len(s) + 1) /\ DOMAIN s = 1..Len(s) /\ Len(s) \in Nat
      /\ \A i \in 1..Len(s) : t[i] = s[i]
      /\ t[Len(s) + 1] = y
  OBVIOUS
<1> HIDE DEF t
<1>2. In(t, x) <=> In(s, x) \/ y = x
  BY <1>1 DEF In
<1>3. ASSUME Once(s, x), y = x => ~In(s, x) PROVE Once(t, x)
  <2> SUFFICES ASSUME NEW i \in DOMAIN t, NEW j \in DOMAIN t, t[i] = x, t[j] = x
               PROVE  i = j
    BY DEF Once
  <2>1. CASE y = x
    BY <1>1, <1>3, <2>1 DEF In
  <2>2. CASE y # x
    <3>1. i \in 1..Len(s) /\ j \in 1..Len(s)
      BY <1>1, <2>2
    <3> QED BY <1>1, <1>3, <3>1 DEF Once
  <2> QED BY <2>1, <2>2
<1> QED BY <1>2, <1>3 DEF t

LEMMA TailOnce ==
  ASSUME NEW S, NEW s \in Seq(S), s # <<>>, NEW x, Once(s, x)
  PROVE  /\ In(s, x) <=> In(Tail(s), x) \/ Head(s) = x
         /\ ~(In(Tail(s), x) /\ Head(s) = x)
         /\ Once(Tail(s), x)
<1> DEFINE t == Tail(s)
<1>1. /\ DOMAIN t = 1..(Len(s) - 1) /\ DOMAIN s = 1..Len(s) /\ Len(s) \in Nat \ {0}
      /\ \A i \in 1..(Len(s) - 1) : t[i] = s[i + 1]
      /\ Head(s) = s[1]
  OBVIOUS
<1> HIDE DEF t
<1>2. ASSUME NEW i \in DOMAIN t PROVE i + 1 \in DOMAIN s /\ t[i] = s[i + 1] /\ i + 1 # 1
  BY <1>1
<1>3. ASSUME NEW i \in DOMAIN s, i # 1 PROVE i - 1 \in DOMAIN t /\ t[i - 1] = s[i]
  <2>1. i - 1 \in 1..(Len(s) - 1) /\ (i - 1) + 1 = i
    BY <1>1, <1>3
  <2>2. t[i - 1] = s[(i - 1) + 1]
    BY <1>1, <2>1
  <2> QED BY <1>1, <2>1, <2>2
<1>4. 1 \in DOMAIN s
  BY <1>1
<1>5. In(s, x) <=> In(t, x) \/ Head(s) = x
  <2>1. In(t, x) \/ Head(s) = x => In(s, x)
    BY <1>1, <1>2, <1>4 DEF In
  <2>2. ASSUME NEW i \in DOMAIN s, s[i] = x PROVE In(t, x) \/ Head(s) = x
    <3>1. CASE i = 1
      BY <1>1, <2>2, <3>1
    <3>2. CASE i # 1
      BY <1>3, <2>2, <3>2 DEF In
    <3> QED BY <3>1, <3>2
  <2> QED BY <2>1, <2>2 DEF In
<1>6. ~(In(t, x) /\ Head(s) = x)
  BY <1>1, <1>2, <1>4 DEF In, Once
<1>7. Once(t, x)
  <2> SUFFICES ASSUME NEW i \in DOMAIN t, NEW j \in DOMAIN t, t[i] = x, t[j] = x
               PROVE  i = j
    BY DEF Once
  <2>1. i + 1 = j + 1
    BY <1>2 DEF Once
  <2>2. i \in Nat /\ j \in Nat
    BY <1>1
  <2> QED BY <2>1, <2>2
<1> QED BY <1>5, <1>6, <1>7 DEF t

\* A queue of one element.
LEMMA OneElement ==
  ASSUME NEW S, NEW s \in Seq(S), s # <<>>, Len(s) <= 1
  PROVE  /\ Len(s) = 1 /\ Head(s) = s[1] /\ Head(s) \in S
         /\ Tail(s) = <<>>
<1>1. Len(s) \in Nat /\ Len(s) # 0
  OBVIOUS
<1>2. Len(s) = 1
  BY <1>1
<1>3. Tail(s) \in Seq(S) /\ Len(Tail(s)) = 0
  BY <1>2
<1>4. Tail(s) = <<>>
  BY <1>3
<1> QED BY <1>2, <1>4

\* The signal of a query is queued while the query itself is still to come.
LEMMA SendSignalInv ==
  ASSUME Inv, NEW c \in Conn, UNCHANGED <<replyVars, mainVars>>, SendSignal
  PROVE  ConnInv(c)'
<1>0. ConnInv(c) /\ TypeOK /\ rt_conn \in Conn /\ signals \in Seq(Conn)
  BY DEF Inv, ConnInv, TokenInv, Handling, SendSignal, TypeOK
<1>1. /\ rt_pc = "signal" /\ rt_pc' = "send" /\ signals' = Append(signals, rt_conn)
      /\ UNCHANGED <<netVars, mapVars, stateVars, replyVars, mainVars, rt_conn, batch, thread>>
  BY DEF SendSignal
<1> USE <1>1 DEF netVars, mapVars, stateVars, replyVars, mainVars
<1>2. Once(signals, c) /\ (rt_conn = c => ~In(signals, c) /\ ~MainHas(c))
  BY <1>0 DEF ConnInv, PlaceInv, In, InSignals, Once
<1>3. (InSignals(c)' <=> InSignals(c) \/ rt_conn = c) /\ Once(signals', c)
  <2>1. /\ In(signals', c) <=> In(signals, c) \/ rt_conn = c
        /\ Once(signals', c)
    BY <1>0, <1>2, AppendOnce
  <2> QED BY <2>1 DEF InSignals, In
<1>4. /\ MainHas(c)' = MainHas(c) /\ Working(c)' = Working(c)
      /\ Replied(c)' = Replied(c) /\ Storing(c)' = Storing(c)
      /\ Writing(c)' = Writing(c) /\ Requested(c)' = Requested(c)
  BY <1>3 DEF MainHas, Working, Replied, Storing, Writing, Requested
<1>5. StageInv(c)'
  BY <1>0, <1>4 DEF ConnInv, StageInv
<1>6. PlaceInv(c)'
  BY <1>0, <1>2, <1>3, <1>4 DEF ConnInv, PlaceInv, Once, In, InSignals
<1>7. ThreadInv(c)'
  BY <1>0, <1>4 DEF ConnInv, ThreadInv
<1>8. NumberInv(c)'
  BY <1>0, <1>4 DEF ConnInv, NumberInv
<1> QED BY <1>5, <1>6, <1>7, <1>8 DEF ConnInv

\* A step about another connection, or none.
LEMMA OtherStep ==
  ASSUME NEW c \in Conn, ConnInv(c),
         InSignals(c)' <=> InSignals(c), Once(signals, c) => Once(signals', c),
         MainHas(c)' <=> MainHas(c),
         \A w : w.conn = c => (w \in workers' <=> w \in workers),
         c_chan'[c] = c_chan[c], r_chan'[c] = r_chan[c], thread'[c] = thread[c],
         is_active'[c] = is_active[c], response'[c] = response[c],
         asked'[c] = asked[c], answered'[c] = answered[c],
         interest'[c] = interest[c], batch' = batch,
         UNCHANGED <<rt_conn, rt_pc>> \/ (rt_conn # c /\ rt_conn' # c)
  PROVE  ConnInv(c)'
<1>1. /\ Working(c)' <=> Working(c)
      /\ Replied(c)' <=> Replied(c)
      /\ Storing(c)' <=> Storing(c)
      /\ Writing(c)' <=> Writing(c)
      /\ Requested(c)' <=> Requested(c)
  BY DEF Working, Replied, Storing, Requested, Writing
<1>2. StageInv(c)'
  BY <1>1 DEF ConnInv, StageInv
<1>3. PlaceInv(c)'
  BY <1>1 DEF ConnInv, PlaceInv, Once
<1>4. ThreadInv(c)'
  BY <1>1 DEF ConnInv, ThreadInv
<1>5. NumberInv(c)'
  BY <1>1 DEF ConnInv, NumberInv
<1> QED BY <1>2, <1>3, <1>4, <1>5 DEF ConnInv

\* The text of the query follows its signal.
LEMMA SendQueryInv ==
  ASSUME Inv, NEW c \in Conn, UNCHANGED <<replyVars, mainVars>>, SendQuery
  PROVE  ConnInv(c)'
<1>0. ConnInv(c) /\ TypeOK /\ rt_conn \in Conn
  BY DEF Inv, ConnInv, TokenInv, Handling, SendQuery
<1>1. /\ rt_pc = "send" /\ rt_pc' = "spawn"
      /\ UNCHANGED <<netVars, mapVars, is_active, asked, answered, signals,
                     replyVars, mainVars, rt_conn, batch, thread>>
  BY DEF SendQuery
<1> USE <1>1 DEF netVars, mapVars, replyVars, mainVars
<1>2. CASE rt_conn # c
  <2>1. c_chan'[c] = c_chan[c]
    BY <1>0, <1>2 DEF SendQuery, TypeOK
  <2> QED BY <1>0, <1>2, <2>1, OtherStep DEF InSignals, MainHas
<1>3. CASE rt_conn = c
  <2>1. c_chan[c] = <<>> /\ Requested(c)
    BY <1>0, <1>3 DEF ConnInv, PlaceInv, Requested
  <2>2. c_chan'[c] = <<[id |-> asked[c], kind |-> rt_kind]>>
    BY <1>0, <1>3, <2>1 DEF SendQuery, TypeOK
  <2>3. c_chan'[c] # <<>> /\ Len(c_chan'[c]) = 1 /\ c_chan'[c][1].id = asked[c]
    BY <2>2
  <2>4. /\ MainHas(c)' <=> MainHas(c)
        /\ InSignals(c)' <=> InSignals(c)
        /\ Working(c)' <=> Working(c)
        /\ Replied(c)' <=> Replied(c)
        /\ Storing(c)' <=> Storing(c)
        /\ Writing(c)' <=> Writing(c)
        /\ Requested(c)'
    BY <2>3 DEF MainHas, InSignals, Working, Replied, Storing, Writing, Requested
  <2>5. StageInv(c)'
    BY <1>0, <2>1, <2>4 DEF ConnInv, StageInv
  <2>6. PlaceInv(c)'
    BY <1>0, <2>3, <2>4 DEF ConnInv, PlaceInv
  <2>7. ThreadInv(c)'
    BY <1>0, <1>3, <2>4 DEF ConnInv, ThreadInv
  <2>8. NumberInv(c)'
    BY <1>0, <2>1, <2>3, <2>4 DEF ConnInv, NumberInv
  <2> QED BY <2>5, <2>6, <2>7, <2>8 DEF ConnInv
<1> QED BY <1>2, <1>3

\* The new response thread waits for an answer that has not been stored; the one
\* before, if any, has nothing left to do but return.
LEMMA SpawnThreadInv ==
  ASSUME Inv, NEW c \in Conn, UNCHANGED <<replyVars, mainVars>>, SpawnThread
  PROVE  ConnInv(c)'
<1>0. ConnInv(c) /\ TypeOK /\ rt_conn \in Conn
  BY DEF Inv, ConnInv, TokenInv, Handling, SpawnThread
<1>1. /\ rt_pc = "spawn" /\ rt_pc' \in {"join", "remove", "check", "batch"}
      /\ UNCHANGED <<netVars, channels, stateVars, signals, replyVars, mainVars,
                     rt_conn, batch>>
  BY DEF SpawnThread, Leave, NextPc
<1> USE <1>1 DEF netVars, stateVars, replyVars, mainVars
<1>2. CASE rt_conn # c
  <2>1. thread'[c] = thread[c]
    BY <1>0, <1>2 DEF SpawnThread, TypeOK
  <2> QED BY <1>0, <1>2, <2>1, OtherStep DEF InSignals, MainHas
<1>3. CASE rt_conn = c
  <2>1. /\ thread'[c]["cur"] = "waiting"
        /\ thread'[c]["old"] = thread[c]["cur"]
        /\ thread'[c]["old"] # "none" <=> rt_pc' = "join"
    BY <1>0, <1>3 DEF SpawnThread, TypeOK, Handle, Leave, NextPc
  <2>2. thread[c]["cur"] \in {"none", "returning", "finished"}
    BY <1>0, <1>3 DEF ConnInv, ThreadInv
  <2>3. Requested(c) /\ is_active[c] /\ ~Working(c) /\ ~Replied(c) /\ ~Storing(c) /\ ~Writing(c)
    BY <1>0, <1>3 DEF ConnInv, PlaceInv, StageInv, Requested
  <2>4. /\ MainHas(c)' <=> MainHas(c)
        /\ InSignals(c)' <=> InSignals(c)
        /\ Requested(c)' <=> Requested(c)
        /\ ~Working(c)' /\ ~Replied(c)' /\ ~Storing(c)' /\ ~Writing(c)'
    BY <1>0, <1>3, <2>1, <2>3
       DEF MainHas, InSignals, Working, Replied, Storing, Writing, Requested, ConnInv, PlaceInv
  <2>5. StageInv(c)'
    BY <2>3, <2>4 DEF StageInv
  <2>6. PlaceInv(c)'
    BY <1>0, <1>3, <2>3, <2>4 DEF ConnInv, PlaceInv
  <2>7. ThreadInv(c)'
    BY <1>0, <1>3, <2>1, <2>2, <2>3, <2>4 DEF ConnInv, ThreadInv
  <2>8. NumberInv(c)'
    BY <1>0, <2>3, <2>4 DEF ConnInv, NumberInv
  <2> QED BY <2>5, <2>6, <2>7, <2>8 DEF ConnInv
<1> QED BY <1>2, <1>3

\* The join never waits for an answer, and what it joins has not panicked.
LEMMA JoinThreadInv ==
  ASSUME Inv, NEW c \in Conn, UNCHANGED <<replyVars, mainVars>>, JoinThread
  PROVE  ConnInv(c)' /\ rt_pc' # "panicked"
<1>0. ConnInv(c) /\ TypeOK /\ rt_conn \in Conn /\ ConnInv(rt_conn)
  <2>1. rt_conn \in Conn
    BY DEF JoinThread, Joined, Inv, TypeOK, LockInv, PlaceInv, ThreadInv, Token, TokenInv,
           Handling
  <2> QED BY <2>1 DEF Inv, ConnInv
<1>1. /\ rt_pc = "join" /\ rt_pc' \in {"remove", "check", "batch"}
      /\ UNCHANGED <<netVars, channels, stateVars, signals, replyVars, mainVars,
                     rt_conn, batch>>
  BY <1>0 DEF JoinThread, Joined, Leave, NextPc, ConnInv, ThreadInv
<1> USE <1>1 DEF netVars, stateVars, replyVars, mainVars
<1>2. CASE rt_conn # c
  <2>1. thread'[c] = thread[c]
    BY <1>0, <1>2 DEF JoinThread, TypeOK
  <2> QED BY <1>0, <1>2, <2>1, OtherStep DEF InSignals, MainHas
<1>3. CASE rt_conn = c
  <2>1. thread'[c]["cur"] = thread[c]["cur"] /\ thread'[c]["old"] = "none"
    BY <1>0, <1>3 DEF JoinThread, TypeOK, Handle
  <2>2. /\ MainHas(c)' <=> MainHas(c)
        /\ InSignals(c)' <=> InSignals(c)
        /\ Requested(c)' <=> Requested(c)
        /\ Working(c)' <=> Working(c)
        /\ Replied(c)' <=> Replied(c)
        /\ Storing(c)' <=> Storing(c)
        /\ Writing(c)' <=> Writing(c)
    BY <2>1 DEF MainHas, InSignals, Working, Replied, Storing, Writing, Requested
  <2>3. StageInv(c)'
    BY <1>0, <2>2 DEF ConnInv, StageInv
  <2>4. PlaceInv(c)'
    BY <1>0, <2>2 DEF ConnInv, PlaceInv
  <2>5. ThreadInv(c)'
    BY <1>0, <1>3, <2>1, <2>2 DEF ConnInv, ThreadInv
  <2>6. NumberInv(c)'
    BY <1>0, <2>2 DEF ConnInv, NumberInv
  <2> QED BY <2>3, <2>4, <2>5, <2>6 DEF ConnInv
<1> QED BY <1>1, <1>2, <1>3

\* The answer written is the one to the last query, which had none.
LEMMA WriteAnswerInv ==
  ASSUME Inv, NEW c \in Conn, UNCHANGED <<replyVars, mainVars>>, WriteAnswer
  PROVE  ConnInv(c)'
<1>0. ConnInv(c) /\ TypeOK /\ rt_conn \in Conn
  BY DEF Inv, ConnInv, TokenInv, Handling, WriteAnswer
<1>1. /\ rt_pc = "write" /\ rt_pc' \in {"check", "batch"}
      /\ UNCHANGED <<channels, c_chan, asked, signals, thread, replyVars, mainVars,
                     rt_conn, batch>>
  BY DEF WriteAnswer, Leave, NextPc
<1> USE <1>1 DEF replyVars, mainVars
<1>2. CASE rt_conn # c
  <2>1. /\ is_active'[c] = is_active[c] /\ interest'[c] = interest[c]
        /\ answered'[c] = answered[c]
    BY <1>0, <1>2 DEF WriteAnswer, TypeOK
  <2> QED BY <1>0, <1>2, <2>1, OtherStep DEF InSignals, MainHas
<1>3. CASE rt_conn = c
  <2>1. /\ is_active'[c] = FALSE /\ interest'[c] = "read"
        /\ answered'[c] = Append(answered[c], response[c])
    BY <1>0, <1>3 DEF WriteAnswer, TypeOK
  <2>2. /\ Writing(c) /\ ~Requested(c) /\ ~Working(c) /\ ~Replied(c) /\ ~Storing(c)
        /\ <<c, "write">> \notin batch
        /\ response[c] = asked[c] /\ Len(answered[c]) + 1 = asked[c]
        /\ thread[c]["cur"] \in {"none", "returning", "finished"}
    BY <1>0, <1>3 DEF ConnInv, PlaceInv, StageInv, ThreadInv, NumberInv, Writing
  <2>3. /\ MainHas(c)' <=> MainHas(c)
        /\ InSignals(c)' <=> InSignals(c)
        /\ ~Requested(c)' /\ ~Working(c)' /\ ~Replied(c)' /\ ~Storing(c)' /\ ~Writing(c)'
    BY <1>3, <2>1, <2>2 DEF MainHas, InSignals, Working, Replied, Storing, Writing, Requested
  <2>4. /\ Len(answered'[c]) = asked[c]
        /\ \A i \in 1..Len(answered'[c]) : answered'[c][i] = i
    <3>1. answered[c] \in Seq(Nat) /\ response[c] \in Nat
      BY <1>0 DEF TypeOK
    <3>2. \A i \in 1..Len(answered[c]) : answered[c][i] = i
      BY <1>0 DEF ConnInv, NumberInv
    <3> QED BY <2>1, <2>2, <3>1, <3>2
  <2>5. StageInv(c)'
    BY <2>3 DEF StageInv
  <2>6. PlaceInv(c)'
    BY <1>0, <2>3 DEF ConnInv, PlaceInv
  <2>7. ThreadInv(c)'
    BY <1>0, <1>3, <2>2 DEF ConnInv, ThreadInv
  <2>8. NumberInv(c)'
    <3>1. asked[c] \in Nat
      BY <1>0 DEF TypeOK
    <3> QED BY <1>0, <2>2, <2>3, <2>4, <3>1 DEF ConnInv, NumberInv, Working, Replied, Requested
  <2> QED BY <2>5, <2>6, <2>7, <2>8 DEF ConnInv
<1> QED BY <1>2, <1>3

LEMMA RuntimeInv ==
  ASSUME Inv, NEW c \in Conn, Runtime \/ RuntimeFails  PROVE ConnInv(c)'
BY RuntimeQuiet, ReadBurstInv, SendSignalInv, SendQueryInv, SpawnThreadInv,
   JoinThreadInv, WriteAnswerInv DEF Runtime, RuntimeFails

LEMMA NetworkInv ==
  ASSUME Inv, NEW c \in Conn, NEW d \in Conn, Network(d)  PROVE ConnInv(c)'
<1>1. UNCHANGED <<interest, stateVars, replyVars, signals, rtVars, thread, mainVars>>
  BY DEF Network
<1>2. ConnInv(c)
  BY DEF Inv, ConnInv
<1> QED BY <1>1, <1>2, OtherStep
        DEF stateVars, replyVars, rtVars, mainVars, InSignals, MainHas

\* The response thread moves the answer from its channel to response, and from
\* there to the poll.
LEMMA ResponseInv ==
  ASSUME Inv, NEW c \in Conn, NEW d \in Conn, NEW h \in Handle, ResponseThread(d, h)
  PROVE  ConnInv(c)'
<1>0. ConnInv(c) /\ TypeOK
  BY DEF Inv, ConnInv
<1>1. UNCHANGED <<client, backlog, wire, sent, mapVars, stateVars, signals, rtVars, mainVars>>
  BY DEF ResponseThread
<1> USE <1>1 DEF stateVars, rtVars, mainVars
<1>2. InSignals(c)' = InSignals(c) /\ MainHas(c)' = MainHas(c)
      /\ Requested(c)' = Requested(c) /\ Working(c)' = Working(c)
  BY DEF InSignals, MainHas, Requested, Working
<1>3. CASE d # c
  <2>1. /\ thread'[c] = thread[c] /\ r_chan'[c] = r_chan[c]
        /\ response'[c] = response[c] /\ interest'[c] = interest[c]
    BY <1>0, <1>3 DEF ResponseThread, ReceiveAnswer, Store, Consume, GiveUpAnswer,
                      Reregister, ThreadReturns, replyVars, TypeOK
  <2> QED BY <1>0, <1>2, <2>1, OtherStep
<1>4. CASE d = c /\ h = "old"
  <2>1. /\ UNCHANGED <<interest, replyVars>>
        /\ thread[c]["old"] = "returning" /\ thread'[c]["old"] = "finished"
        /\ thread'[c]["cur"] = thread[c]["cur"]
    BY <1>0, <1>4 DEF ConnInv, ThreadInv, ResponseThread, ReceiveAnswer, GiveUpAnswer,
                      Reregister, ThreadReturns, TypeOK, Handle
  <2>2. Replied(c)' = Replied(c) /\ Storing(c)' = Storing(c) /\ Writing(c)' = Writing(c)
    BY <2>1 DEF Replied, Storing, Writing, replyVars
  <2>3. StageInv(c)' /\ PlaceInv(c)'
    BY <1>0, <1>2, <2>1, <2>2 DEF ConnInv, StageInv, PlaceInv, replyVars
  <2>4. ThreadInv(c)'
    BY <1>0, <2>1, <2>2 DEF ConnInv, ThreadInv
  <2>5. NumberInv(c)'
    BY <1>0, <1>2, <2>1, <2>2 DEF ConnInv, NumberInv, replyVars
  <2> QED BY <2>3, <2>4, <2>5 DEF ConnInv
<1>5. CASE d = c /\ h = "cur" /\ ReceiveAnswer(d, h)
  <2>1. /\ thread[c]["cur"] = "waiting" /\ thread'[c]["cur"] = "stored"
        /\ thread'[c]["old"] = thread[c]["old"]
        /\ r_chan[c] # <<>> /\ r_chan'[c] = Tail(r_chan[c])
        /\ response'[c] = Head(r_chan[c])
        /\ interest' = interest
    BY <1>0, <1>5 DEF ReceiveAnswer, Store, Consume, TypeOK, Handle
  <2>2. r_chan'[c] = <<>> /\ response'[c] = asked[c]
    <3>1. r_chan[c] \in Seq(Nat)
      BY <1>0 DEF TypeOK
    <3>2. Len(r_chan[c]) <= 1 /\ r_chan[c][1] = asked[c]
      BY <1>0, <2>1 DEF ConnInv, PlaceInv, NumberInv, Replied
    <3>3. r_chan'[c] = <<>> /\ Head(r_chan[c]) = asked[c]
      BY <2>1, <3>1, <3>2, OneElement
    <3> QED BY <2>1, <3>3
  <2>3. /\ Replied(c) /\ ~Requested(c) /\ ~Working(c) /\ ~Storing(c) /\ ~Writing(c)
        /\ is_active[c] /\ ~(rt_conn = c /\ rt_pc \in {"signal", "send", "spawn"})
    BY <1>0, <2>1 DEF ConnInv, StageInv, ThreadInv, Replied
  <2>4. ~Replied(c)' /\ Storing(c)' /\ ~Writing(c)'
    BY <2>1, <2>2, <2>3 DEF Replied, Storing, Writing
  <2>5. StageInv(c)' /\ PlaceInv(c)'
    BY <1>0, <1>2, <2>2, <2>3, <2>4 DEF ConnInv, StageInv, PlaceInv
  <2>6. ThreadInv(c)'
    BY <1>0, <2>1, <2>3, <2>4 DEF ConnInv, ThreadInv
  <2>7. NumberInv(c)'
    BY <1>0, <1>2, <2>2, <2>3, <2>4 DEF ConnInv, NumberInv
  <2> QED BY <2>5, <2>6, <2>7 DEF ConnInv
<1>6. CASE d = c /\ h = "cur" /\ (GiveUpAnswer(d, h) \/ ThreadReturns(d, h))
  <2>1. /\ thread[c]["cur"] \in {"waiting", "returning"} /\ thread'[c]["cur"] = "finished"
        /\ thread'[c]["old"] = thread[c]["old"]
        /\ UNCHANGED <<interest, replyVars>>
    BY <1>0, <1>6 DEF GiveUpAnswer, ThreadReturns, TypeOK, Handle
  <2>2. Replied(c)' = Replied(c) /\ Storing(c)' = Storing(c) /\ Writing(c)' = Writing(c)
    BY <2>1 DEF Replied, Storing, Writing, replyVars
  <2>3. StageInv(c)' /\ PlaceInv(c)'
    BY <1>0, <1>2, <2>1, <2>2 DEF ConnInv, StageInv, PlaceInv, replyVars
  <2>4. ThreadInv(c)'
    BY <1>0, <2>1, <2>2 DEF ConnInv, ThreadInv
  <2>5. NumberInv(c)'
    BY <1>0, <1>2, <2>1, <2>2 DEF ConnInv, NumberInv, replyVars
  <2> QED BY <2>3, <2>4, <2>5 DEF ConnInv
<1>7. CASE d = c /\ h = "cur" /\ Reregister(d, h)
  <2>1. /\ thread[c]["cur"] = "stored" /\ thread'[c]["cur"] \in {"panicked", "returning"}
        /\ thread'[c]["old"] = thread[c]["old"]
        /\ thread'[c]["cur"] = "returning" \/ interest'[c] = interest[c]
        /\ thread'[c]["cur"] = "returning" => interest'[c] = "write"
        /\ UNCHANGED replyVars
    BY <1>0, <1>7 DEF Reregister, TypeOK, Handle
  <2>2. /\ Storing(c) /\ ~Requested(c) /\ ~Working(c) /\ ~Replied(c) /\ ~Writing(c)
        /\ is_active[c] /\ ~(rt_conn = c /\ rt_pc \in {"signal", "send", "spawn"})
        /\ response[c] = asked[c] /\ Len(answered[c]) + 1 = asked[c]
    BY <1>0, <2>1 DEF ConnInv, StageInv, ThreadInv, NumberInv, Storing
  <2>3. /\ ~Replied(c)' /\ ~Storing(c)'
        /\ Writing(c)' => thread'[c]["cur"] = "returning"
    BY <2>1, <2>2 DEF Replied, Storing, Writing, replyVars
  <2>4. StageInv(c)' /\ PlaceInv(c)'
    BY <1>0, <1>2, <2>1, <2>2, <2>3 DEF ConnInv, StageInv, PlaceInv, replyVars
  <2>5. ThreadInv(c)'
    BY <1>0, <2>1, <2>2, <2>3 DEF ConnInv, ThreadInv
  <2>6. NumberInv(c)'
    BY <1>0, <1>2, <2>1, <2>2, <2>3 DEF ConnInv, NumberInv, replyVars
  <2> QED BY <2>4, <2>5, <2>6 DEF ConnInv
<1> QED BY <1>3, <1>4, <1>5, <1>6, <1>7 DEF ResponseThread, Handle

\* The main thread moves the query from the queues to a worker.
LEMMA MainInv ==
  ASSUME Inv, NEW c \in Conn, Main, CppFrame  PROVE ConnInv(c)'
<1>0. ConnInv(c) /\ TypeOK /\ TokenInv /\ LockInv
  BY DEF Inv, ConnInv
<1>1. UNCHANGED <<netVars, channels, is_active, asked, answered, response, rtVars, thread>>
  BY DEF CppFrame
<1> USE <1>1 DEF netVars, rtVars
<1>2. ASSUME NEW w \in {Null}, w.conn = c PROVE FALSE
  BY <1>2, TcpAssumption DEF TcpAssumption, Null
<1>3. CASE MainLoop \/ NoSignal \/ DestroyServer \/ JoinRuntime \/ JoinWorkers
  <2>1. /\ UNCHANGED <<c_chan, r_chan, signals, main_tok>>
        /\ main_pc \notin {"lock", "message"} /\ main_pc' \notin {"lock", "message"}
        /\ workers' = workers \/ workers' = workers \cup {Null}
    BY <1>3 DEF MainLoop, NoSignal, DestroyServer, JoinRuntime, JoinWorkers, SpawnNull
  <2> QED BY <1>0, <1>2, <2>1, OtherStep DEF InSignals, MainHas
<1>4. CASE TakeSignal
  <2>1. /\ UNCHANGED <<c_chan, r_chan, workers>>
        /\ signals # <<>> /\ signals \in Seq(Conn)
        /\ main_pc = "wait" /\ main_pc' = "lock"
        /\ main_tok' = Head(signals) /\ signals' = Tail(signals)
        /\ Once(signals, c)
    BY <1>0, <1>4 DEF TakeSignal, TypeOK, ConnInv, PlaceInv, Once
  <2>2. /\ In(signals, c) <=> In(signals', c) \/ main_tok' = c
        /\ ~(In(signals', c) /\ main_tok' = c)
        /\ Once(signals', c)
    BY <2>1, TailOnce
  <2>3. /\ ~MainHas(c)
        /\ InSignals(c) <=> InSignals(c)' \/ MainHas(c)'
        /\ ~(InSignals(c)' /\ MainHas(c)')
    BY <2>1, <2>2 DEF MainHas, InSignals, In
  <2>4. /\ Requested(c)' <=> Requested(c)
        /\ Working(c)' <=> Working(c)
        /\ Replied(c)' <=> Replied(c)
        /\ Storing(c)' <=> Storing(c)
        /\ Writing(c)' <=> Writing(c)
    BY <2>1, <2>3 DEF Requested, Working, Replied, Storing, Writing
  <2>5. StageInv(c)'
    BY <1>0, <2>4 DEF ConnInv, StageInv
  <2>6. PlaceInv(c)'
    BY <1>0, <2>1, <2>2, <2>3 DEF ConnInv, PlaceInv, Once
  <2>7. ThreadInv(c)'
    BY <1>0, <2>4 DEF ConnInv, ThreadInv
  <2>8. NumberInv(c)'
    BY <1>0, <2>1, <2>4 DEF ConnInv, NumberInv
  <2> QED BY <2>5, <2>6, <2>7, <2>8 DEF ConnInv
<1>5. CASE LockChannels
  <2>1. /\ UNCHANGED <<c_chan, r_chan, signals, main_tok>>
        /\ main_pc = "lock" /\ main_pc' \in {"message", "loop"}
        /\ workers' = workers \/ workers' = workers \cup {Null}
        /\ main_tok \in Conn
    BY <1>0, <1>5 DEF LockChannels, SpawnNull, TokenInv
  <2>2. InSignals(c)' <=> InSignals(c)
    BY <2>1 DEF InSignals
  <2>3. MainHas(c)' => MainHas(c)
    BY <2>1 DEF MainHas
  <2>4. /\ Requested(c)' => Requested(c)
        /\ Working(c)' <=> Working(c)
        /\ Replied(c)' <=> Replied(c)
        /\ Storing(c)' <=> Storing(c)
        /\ Writing(c)' <=> Writing(c)
    BY <1>2, <2>1, <2>2, <2>3 DEF Requested, Working, Replied, Storing, Writing
  <2>5. StageInv(c)'
    BY <1>0, <2>4 DEF ConnInv, StageInv
  <2>6. PlaceInv(c)'
    BY <1>0, <1>2, <2>1, <2>2, <2>3 DEF ConnInv, PlaceInv
  <2>7. ThreadInv(c)'
    BY <1>0, <2>4 DEF ConnInv, ThreadInv
  <2>8. NumberInv(c)'
    BY <1>0, <1>2, <2>1, <2>4 DEF ConnInv, NumberInv
  <2> QED BY <2>5, <2>6, <2>7, <2>8 DEF ConnInv
<1>6. CASE TakeQuery
  <2>1. /\ UNCHANGED <<r_chan, signals, main_tok>>
        /\ main_pc = "message" /\ main_pc' = "loop" /\ main_tok \in Conn
        /\ rt_pc \notin Handling
    BY <1>0, <1>6 DEF TakeQuery, SpawnNull, TokenInv, LockInv
  <2>2. c_chan[main_tok] # <<>>
    BY <2>1 DEF Inv, PlaceInv, MainHas, Handling
  <2> DEFINE q == Head(c_chan[main_tok])
             w == [conn |-> main_tok, id |-> q.id, kind |-> q.kind]
  <2>3. /\ c_chan' = [c_chan EXCEPT ![main_tok] = Tail(@)]
        /\ workers' = workers \cup {w} \/ workers' = workers \cup {Null}
    BY <1>6, <2>2 DEF TakeQuery, SpawnNull
  <2>4. w.conn = main_tok /\ w.id = q.id
    OBVIOUS
  <2> HIDE DEF w
  <2>5. CASE main_tok # c
    <3>1. c_chan'[c] = c_chan[c]
      BY <1>0, <2>1, <2>3, <2>5 DEF TypeOK
    <3>2. \A v : v.conn = c => (v \in workers' <=> v \in workers)
      BY <1>2, <2>3, <2>4, <2>5
    <3> QED BY <1>0, <2>1, <2>5, <3>1, <3>2, OtherStep DEF InSignals, MainHas
  <2>6. CASE main_tok = c
    <3>1. c_chan'[c] = <<>> /\ q = c_chan[c][1]
      <4>1. c_chan[c] \in Seq(Query) /\ Len(c_chan[c]) <= 1
        BY <1>0 DEF TypeOK, ConnInv, PlaceInv
      <4> QED BY <1>0, <2>1, <2>2, <2>3, <2>6, <4>1, OneElement DEF TypeOK
    <3>2. MainHas(c) /\ Requested(c) /\ ~InSignals(c)
      BY <1>0, <2>1, <2>6 DEF MainHas, Requested, ConnInv, PlaceInv
    <3>3. /\ ~Working(c) /\ ~Replied(c) /\ ~Storing(c) /\ ~Writing(c) /\ is_active[c]
          /\ Len(answered[c]) + 1 = asked[c] /\ w.id = asked[c]
      BY <1>0, <2>2, <2>4, <2>6, <3>1, <3>2 DEF ConnInv, StageInv, NumberInv
    <3>4. /\ ~InSignals(c)' /\ ~MainHas(c)' /\ ~Requested(c)'
          /\ ~Replied(c)' /\ ~Storing(c)' /\ ~Writing(c)'
      BY <2>1, <2>6, <3>1, <3>2, <3>3
         DEF InSignals, MainHas, Requested, Replied, Storing, Writing, Handling
    <3>a. \A v \in workers' : v.conn = c => v = w
      BY <1>2, <2>3, <3>3 DEF Working
    <3>5. StageInv(c)'
      BY <3>3, <3>4 DEF StageInv
    <3>6. PlaceInv(c)'
      BY <1>0, <2>1, <3>1, <3>4, <3>a DEF ConnInv, PlaceInv, Handling, InSignals
    <3>7. ThreadInv(c)'
      BY <1>0, <3>3, <3>4 DEF ConnInv, ThreadInv
    <3>8. NumberInv(c)'
      BY <1>0, <3>1, <3>3, <3>4, <3>a DEF ConnInv, NumberInv, Replied
    <3> QED BY <3>5, <3>6, <3>7, <3>8 DEF ConnInv
  <2> QED BY <2>5, <2>6
<1> QED BY <1>3, <1>4, <1>5, <1>6 DEF Main

\* A worker answers the query it was given, or ends the server.
LEMMA WorkerInv ==
  ASSUME Inv, NEW c \in Conn, CppFrame, Sigterm \/ \E w \in workers : WorkerStep(w)
  PROVE  ConnInv(c)'
<1>0. ConnInv(c) /\ TypeOK /\ TokenInv
  BY DEF Inv, ConnInv
<1>1. UNCHANGED <<netVars, channels, is_active, asked, answered, response, rtVars, thread>>
  BY DEF CppFrame
<1> USE <1>1 DEF netVars, rtVars
<1>2. UNCHANGED <<c_chan, signals, main_tok>> /\ (MainHas(c)' <=> MainHas(c))
  BY DEF Sigterm, WorkerStep, Answer, AnswerFreed, Freed, KillSign, SetSt, MainHas
<1>3. /\ InSignals(c)' <=> InSignals(c)
      /\ Requested(c)' <=> Requested(c)
      /\ Storing(c)' <=> Storing(c)
      /\ Writing(c)' <=> Writing(c)
  BY <1>2 DEF InSignals, Requested, Storing, Writing
<1>4. ASSUME r_chan'[c] = r_chan[c], NEW w \in workers,
             \/ workers' = workers \ {w}
             \/ workers' = (workers \ {w}) \cup {[w EXCEPT !.kind = "killing"]}
      PROVE  ConnInv(c)'
  <2>1. /\ Working(c)' => Working(c)
        /\ Replied(c)' <=> Replied(c)
    BY <1>0, <1>4 DEF Working, Replied, TypeOK, Worker
  <2>2. StageInv(c)'
    BY <1>0, <1>3, <2>1 DEF ConnInv, StageInv
  <2>3. PlaceInv(c)'
    <3>1. \A u, v \in workers' : u.conn = c /\ v.conn = c => u = v
      <4>1. \A u, v \in workers : u.conn = c /\ v.conn = c => u = v
        BY <1>0 DEF ConnInv, PlaceInv
      <4>2. [w EXCEPT !.kind = "killing"].conn = w.conn
        BY <1>0 DEF TypeOK, Worker
      <4> QED BY <1>4, <4>1, <4>2
    <3> QED BY <1>0, <1>2, <1>3, <1>4, <3>1 DEF ConnInv, PlaceInv
  <2>4. ThreadInv(c)'
    BY <1>0, <1>3 DEF ConnInv, ThreadInv
  <2>5. NumberInv(c)'
    <3>1. ASSUME NEW v \in workers', v.conn = c PROVE v.id = asked[c]
      <4>1. \A u \in workers : u.conn = c => u.id = asked[c]
        BY <1>0 DEF ConnInv, NumberInv
      <4>2. w \in Worker
        BY <1>0 DEF TypeOK
      <4>3. /\ [w EXCEPT !.kind = "killing"].conn = w.conn
            /\ [w EXCEPT !.kind = "killing"].id = w.id
        BY <4>2 DEF Worker
      <4> HIDE DEF Worker
      <4> QED BY <1>4, <3>1, <4>1, <4>3
    <3> QED BY <1>0, <1>2, <1>3, <1>4, <2>1, <3>1 DEF ConnInv, NumberInv
  <2> QED BY <2>2, <2>3, <2>4, <2>5 DEF ConnInv
<1>5. ASSUME NEW w \in workers, Answer(w) PROVE ConnInv(c)'
  <2>1. workers' = workers \ {w} /\ w \in Worker
    BY <1>0, <1>5 DEF Answer, TypeOK
  <2>2. CASE w.conn # c \/ w.conn \notin channels
    <3>1. r_chan'[c] = r_chan[c]
      BY <1>0, <1>5, <2>2 DEF Answer, TypeOK
    <3> QED BY <1>4, <2>1, <3>1
  <2>3. CASE w.conn = c /\ w.conn \in channels
    <3>1. /\ Working(c) /\ ~Requested(c) /\ ~Replied(c) /\ ~Storing(c) /\ ~Writing(c)
          /\ is_active[c] /\ w.id = asked[c] /\ Len(answered[c]) + 1 = asked[c]
      BY <1>0, <2>3 DEF ConnInv, StageInv, NumberInv, Working
    <3>2. r_chan'[c] = <<asked[c]>>
      BY <1>0, <1>5, <2>3, <3>1 DEF Answer, TypeOK, Replied
    <3>3. r_chan'[c] # <<>> /\ Len(r_chan'[c]) = 1 /\ r_chan'[c][1] = asked[c]
      BY <3>2
    <3>4. Replied(c)' /\ ~Working(c)'
      BY <1>0, <2>1, <2>3, <3>3 DEF Replied, Working, ConnInv, PlaceInv
    <3>5. StageInv(c)'
      BY <1>3, <3>1, <3>4 DEF StageInv
    <3>6. PlaceInv(c)'
      BY <1>0, <1>2, <1>3, <2>1, <3>3 DEF ConnInv, PlaceInv
    <3>7. ThreadInv(c)'
      BY <1>0, <1>3 DEF ConnInv, ThreadInv
    <3>8. NumberInv(c)'
      BY <1>0, <1>2, <1>3, <2>1, <3>1, <3>3, <3>4 DEF ConnInv, NumberInv
    <3> QED BY <3>5, <3>6, <3>7, <3>8 DEF ConnInv
  <2> QED BY <2>2, <2>3
<1>6. ASSUME NEW w \in workers, AnswerFreed(w) \/ SetSt(w) \/ KillSign(w)
      PROVE  ConnInv(c)'
  BY <1>4, <1>6 DEF AnswerFreed, SetSt, KillSign
<1>7. CASE Sigterm
  <2>1. \A w : w.conn = c => (w \in workers' <=> w \in workers)
    BY <1>7, TcpAssumption DEF Sigterm, TcpAssumption
  <2> QED BY <1>0, <1>2, <1>3, <1>7, <2>1, OtherStep DEF Sigterm
<1> QED BY <1>5, <1>6, <1>7 DEF WorkerStep

LEMMA AcceptNext ==
  ASSUME Inv, [Next]_vars  PROVE AcceptInv'
<1>0. TypeOK /\ AcceptInv /\ LockInv /\ TokenInv
  BY DEF Inv
<1> USE <1>0 DEF AcceptInv, Handling
<1>1. ASSUME NEW c \in Conn, Network(c) PROVE AcceptInv'
  <2>1. UNCHANGED <<channels, is_active, rt_pc, rt_conn>>
    BY <1>1 DEF Network, mapVars, stateVars, rtVars
  <2>2. CASE Connect(c)
    <3>1. /\ client[c] = "new" /\ client'[c] # "new" /\ backlog' = backlog \cup {c}
          /\ \A d \in Conn \ {c} : client'[d] = client[d]
      BY <2>2 DEF Connect, TypeOK
    <3> QED BY <2>1, <3>1
  <2>3. CASE Drain(c) \/ \E k \in Kinds : ClientSend(c, k)
    BY <2>1, <2>3 DEF Drain, ClientSend
  <2>4. CASE \E how \in Ends : ClientClose(c, how)
    <3>1. /\ client'[c] # "new" /\ backlog' = backlog
          /\ \A d \in Conn \ {c} : client'[d] = client[d]
          /\ client[c] = "open"
      BY <2>4, TcpAssumption DEF TcpAssumption, ClientClose, TypeOK
    <3> QED BY <2>1, <3>1
  <2> QED BY <1>1, <2>2, <2>3, <2>4 DEF Network
<1>2. CASE Runtime
  <2> USE <1>2 DEF netVars, mapVars, stateVars, NextPc, Leave
  <2>1. ASSUME NEW t \in Token, NEW k \in {"read", "write"}, TakeEvent(t, k)
        PROVE AcceptInv'
    BY <2>1 DEF TakeEvent, Branch
  <2>2. ASSUME NEW c \in Conn, Accept(c) PROVE AcceptInv'
    BY <2>2 DEF Accept, rtVars, TypeOK
  <2>3. CASE ReadBurst
    <3>1. /\ UNCHANGED <<client, backlog, channels, rt_conn>> /\ rt_pc = "read"
          /\ rt_conn \in Conn
          /\ \A c \in Conn : is_active'[c] => is_active[c] \/ c = rt_conn
      BY <2>3 DEF ReadBurst, Activate, TypeOK, TokenInv
    <3> QED BY <3>1
  <2>4. CASE WriteAnswer
    BY <2>4 DEF WriteAnswer, TypeOK, TokenInv
  <2>5. CASE CheckEnd \/ Poll \/ AcceptDone \/ StopRuntime \/ CloseRuntime
    BY <2>5 DEF CheckEnd, Poll, AcceptDone, StopRuntime, CloseRuntime
  <2>6. CASE SendSignal \/ SendQuery
    BY <2>6 DEF SendSignal, SendQuery
  <2>7. CASE SpawnThread \/ JoinThread
    BY <2>7 DEF SpawnThread, JoinThread
  <2>8. CASE RemoveConnection \/ \E blocked \in BOOLEAN : WriteFails(blocked)
    BY <2>8 DEF RemoveConnection, WriteFails
  <2> QED BY <1>2, <2>1, <2>2, <2>3, <2>4, <2>5, <2>6, <2>7, <2>8 DEF Runtime
<1>3. ASSUME NEW c \in Conn, NEW h \in Handle, ResponseThread(c, h) PROVE AcceptInv'
  BY <1>3 DEF ResponseThread, mapVars, stateVars, rtVars
<1>4. CASE CppFrame
  BY <1>4 DEF CppFrame, netVars, rtVars
<1>5. CASE UNCHANGED vars
  BY <1>5 DEF vars, netVars, mapVars, stateVars, rtVars
<1>6. CASE RuntimeFails
  BY <1>6 DEF RuntimeFails, netVars, mapVars, stateVars
<1> QED BY <1>1, <1>2, <1>3, <1>4, <1>5, <1>6 DEF Next

\* The loops of the runtime and of the main thread are left only after END.
LEMMA EndNext ==
  ASSUME Inv, [Next]_vars  PROVE EndInv'
<1>0. TypeOK /\ EndInv /\ TokenInv
  BY DEF Inv
<1> USE <1>0 DEF EndInv
<1>1. ASSUME NEW c \in Conn, Network(c) PROVE EndInv'
  BY <1>1 DEF Network, rtVars, mainVars
<1>2. CASE Runtime
  <2>1. UNCHANGED mainVars
    BY <1>2 DEF Runtime
  <2>2. CASE JoinThread
    <3>1. rt_pc' \in {"remove", "check", "batch", "panicked"}
      BY <2>2 DEF JoinThread, Leave, NextPc
    <3>2. CASE Conn = {}
      BY <2>2, <3>2 DEF JoinThread, TypeOK, Inv, AcceptInv, LockInv, Handling
    <3>3. ASSUME NEW c \in Conn PROVE rt_pc' # "panicked"
      BY <1>2, <2>2, JoinThreadInv DEF Runtime
    <3> QED BY <2>1, <3>1, <3>2, <3>3 DEF mainVars
  <2>3. CASE ~JoinThread
    <3>1. rt_pc' \in {"closing", "joining", "done", "panicked"} => END
      BY <1>2, <2>3, TcpAssumption
         DEF Runtime, CheckEnd, Poll, TakeEvent, Branch, Accept, AcceptDone, ReadBurst,
             SendSignal, SendQuery, SpawnThread, WriteAnswer, WriteFails,
             RemoveConnection, CloseRuntime, StopRuntime, Leave, NextPc, rtVars,
             TcpAssumption
    <3> QED BY <2>1, <3>1 DEF mainVars
  <2> QED BY <2>2, <2>3
<1>3. ASSUME NEW c \in Conn, NEW h \in Handle, ResponseThread(c, h) PROVE EndInv'
  BY <1>3 DEF ResponseThread, rtVars, mainVars
<1>4. CASE Main /\ CppFrame
  <2>1. rt_pc' = rt_pc /\ END' \in {END, TRUE} /\ END \in BOOLEAN
    BY <1>4 DEF CppFrame, rtVars, Main, MainLoop, TakeSignal, NoSignal, LockChannels,
                TakeQuery, DestroyServer, JoinRuntime, JoinWorkers, TypeOK
  <2>2. main_pc' \in {"join_runtime", "join_workers", "exited"} => END'
    BY <1>4 DEF Main, MainLoop, TakeSignal, NoSignal, LockChannels,
                TakeQuery, DestroyServer, JoinRuntime, JoinWorkers, SpawnNull
  <2>3. ASSUME NEW w \in workers', w.kind = "killing" PROVE w \in workers
    <3>1. Null.kind # "killing"
      BY DEF Null
    <3>2. CASE TakeQuery /\ c_chan[main_tok] # <<>>
      <4> DEFINE q == Head(c_chan[main_tok])
                 v == [conn |-> main_tok, id |-> q.id, kind |-> q.kind]
      <4>1. q \in Query
        BY <3>2 DEF TakeQuery, TokenInv, TypeOK
      <4>2. v.kind # "killing"
        BY <4>1 DEF Query
      <4>3. workers' = workers \cup {v} \/ workers' = workers \cup {Null}
        BY <3>2 DEF TakeQuery, SpawnNull
      <4> HIDE DEF v
      <4> QED BY <2>3, <3>1, <4>2, <4>3
    <3>3. CASE ~(TakeQuery /\ c_chan[main_tok] # <<>>)
      <4>1. workers' = workers \/ workers' = workers \cup {Null}
        BY <1>4, <3>3 DEF Main, MainLoop, TakeSignal, NoSignal, LockChannels, TakeQuery,
                          DestroyServer, JoinRuntime, JoinWorkers, SpawnNull
      <4> QED BY <2>3, <3>1, <4>1
    <3> QED BY <3>2, <3>3
  <2>4. END => END'
    BY <2>1
  <2>5. rt_pc' \in {"closing", "joining", "done", "panicked"} => END'
    BY <2>1, <2>4
  <2>6. \A w \in workers' : w.kind = "killing" => END'
    BY <2>3, <2>4
  <2> QED BY <2>2, <2>5, <2>6
<1>5. ASSUME NEW w \in workers, WorkerStep(w), CppFrame PROVE EndInv'
  <2>1. /\ rt_pc' = rt_pc /\ END' \in {END, TRUE} /\ END \in BOOLEAN
        /\ main_pc' \in {main_pc, "join_workers", "aborted"}
        /\ main_pc' = "join_workers" => main_pc = "join_workers"
        /\ workers' = workers \ {w} \/ END'
    BY <1>5 DEF CppFrame, rtVars, WorkerStep, Answer, AnswerFreed, Freed, KillSign, SetSt,
                TypeOK
  <2>2. END => END'
    BY <2>1
  <2>3. rt_pc' \in {"closing", "joining", "done", "panicked"} => END'
    BY <2>1, <2>2
  <2>4. main_pc' \in {"join_runtime", "join_workers", "exited"} => END'
    BY <2>1, <2>2
  <2>5. \A x \in workers' : x.kind = "killing" => END'
    BY <2>1, <2>2
  <2> QED BY <2>3, <2>4, <2>5
<1>6. CASE Sigterm /\ CppFrame
  <2>1. /\ rt_pc' = rt_pc /\ UNCHANGED <<END, main_pc>>
        /\ \A w \in workers' : w \in workers \/ w.kind = "stop"
    BY <1>6 DEF Sigterm, CppFrame, rtVars
  <2> QED BY <2>1
<1>7. CASE UNCHANGED vars
  BY <1>7 DEF vars, rtVars, mainVars
<1>8. CASE RuntimeFails
  BY <1>8 DEF RuntimeFails, mainVars
<1> QED BY <1>1, <1>2, <1>3, <1>4, <1>5, <1>6, <1>7, <1>8 DEF Next

\* A connection is live while it is in the map and END is not set.
Live(c) == c \in channels /\ ~END

\* A step that leaves the registration of c alone, and what is to be written.
LEMMA SameRegistration ==
  ASSUME NEW c \in Conn, RegisteredInv(c), Live(c)' => Live(c), interest'[c] = interest[c],
         <<c, "write">> \in batch' \/ (rt_conn' = c /\ rt_pc' = "write")
           => <<c, "write">> \in batch \/ (rt_conn = c /\ rt_pc = "write")
  PROVE  RegisteredInv(c)'
BY DEF RegisteredInv, Live

\* Until END a connection of the map stays registered.
LEMMA RegisteredNext ==
  ASSUME Inv, [Next]_vars, NEW c \in Conn  PROVE RegisteredInv(c)'
<1>0. TypeOK /\ TokenInv /\ EndInv /\ AcceptInv /\ ConnInv(c) /\ RegisteredInv(c)
  BY DEF Inv, ConnInv
<1>1. ASSUME NEW d \in Conn, Network(d) PROVE RegisteredInv(c)'
  BY <1>0, <1>1, SameRegistration DEF Network, mapVars, rtVars, mainVars, Live
<1>2. CASE Runtime
  <2>0. END' = END
    BY <1>2 DEF Runtime, mainVars
  <2> USE <2>0 DEF netVars, mapVars, NextPc, Leave, Live
  <2>1. CASE Poll
    <3>1. <<c, "write">> \in batch' => interest[c] = "write"
      BY <2>1, TcpAssumption DEF Poll, Events, TcpAssumption
    <3> QED BY <1>0, <2>1, <3>1 DEF Poll, RegisteredInv
  <2>2. ASSUME NEW t \in Token, NEW k \in {"read", "write"}, TakeEvent(t, k)
        PROVE RegisteredInv(c)'
    <3>1. rt_conn' = c /\ rt_pc' = "write" => <<c, "write">> \in batch
      BY <2>2, TcpAssumption DEF TakeEvent, Branch, TcpAssumption
    <3> QED BY <1>0, <2>2, <3>1, SameRegistration DEF TakeEvent
  <2>3. ASSUME NEW d \in Conn, Accept(d) PROVE RegisteredInv(c)'
    <3>1. CASE d = c
      <4>1. ~Writing(c)
        BY <1>0, <2>3, <3>1 DEF Accept, AcceptInv, ConnInv, StageInv
      <4>2. interest'[c] = "read" /\ UNCHANGED <<batch, rt_conn, rt_pc>>
        BY <1>0, <2>3, <3>1 DEF Accept, TypeOK, rtVars
      <4> QED BY <4>1, <4>2 DEF RegisteredInv, Writing
    <3>2. CASE d # c
      BY <1>0, <2>3, <3>2, SameRegistration DEF Accept, TypeOK, rtVars
    <3> QED BY <3>1, <3>2
  <2>4. CASE WriteAnswer
    <3>0. rt_conn \in Conn
      BY <1>0, <2>4 DEF WriteAnswer, TokenInv, Handling
    <3>1. CASE rt_conn = c
      <4>1. <<c, "write">> \notin batch
        BY <1>0, <2>4, <3>1 DEF WriteAnswer, ConnInv, PlaceInv
      <4>2. interest'[c] = "read" /\ batch' = batch /\ rt_pc' \in {"check", "batch"}
        BY <1>0, <2>4, <3>1 DEF WriteAnswer, TypeOK
      <4> QED BY <4>1, <4>2 DEF RegisteredInv
    <3>2. CASE rt_conn # c
      BY <1>0, <2>4, <3>0, <3>2, SameRegistration DEF WriteAnswer, TypeOK
    <3> QED BY <3>1, <3>2
  <2>5. CASE RemoveConnection
    <3>1. rt_conn \in Conn
      BY <1>0, <2>5 DEF RemoveConnection, TokenInv, Handling
    <3>2. Live(c)' => Live(c) /\ rt_conn # c
      BY <2>5 DEF RemoveConnection
    <3>3. CASE rt_conn # c
      BY <1>0, <2>5, <3>1, <3>2, <3>3, SameRegistration DEF RemoveConnection, TypeOK
    <3> QED BY <3>2, <3>3 DEF RegisteredInv
  <2>6. CASE CloseRuntime
    BY <1>0, <2>6 DEF CloseRuntime, EndInv, RegisteredInv
  <2>7. CASE CheckEnd \/ AcceptDone \/ StopRuntime
    BY <1>0, <2>7, SameRegistration DEF CheckEnd, AcceptDone, StopRuntime
  <2>8. CASE ReadBurst
    BY <1>0, <2>8, SameRegistration DEF ReadBurst
  <2>9. CASE SendSignal \/ SendQuery \/ SpawnThread \/ JoinThread
    BY <1>0, <2>9, SameRegistration DEF SendSignal, SendQuery, SpawnThread, JoinThread
  <2>10. ASSUME NEW blocked \in BOOLEAN, WriteFails(blocked) PROVE RegisteredInv(c)'
    BY <1>0, <2>10, SameRegistration DEF WriteFails
  <2> QED BY <1>2, <2>1, <2>2, <2>3, <2>4, <2>5, <2>6, <2>7, <2>8, <2>9, <2>10 DEF Runtime
<1>3. ASSUME NEW d \in Conn, NEW h \in Handle, ResponseThread(d, h)
      PROVE RegisteredInv(c)'
  <2>1. UNCHANGED <<channels, END, batch, rt_conn, rt_pc>>
    BY <1>3 DEF ResponseThread, mapVars, rtVars, mainVars
  <2>2. interest'[c] = interest[c] \/ interest'[c] = "write"
    BY <1>0, <1>3 DEF ResponseThread, ReceiveAnswer, GiveUpAnswer, Reregister,
                      ThreadReturns, TypeOK
  <2> QED BY <1>0, <2>1, <2>2 DEF RegisteredInv
<1>4. CASE CppFrame /\ (Main \/ Sigterm \/ \E w \in workers : WorkerStep(w))
  <2>1. UNCHANGED <<channels, interest, batch, rt_conn, rt_pc>>
    BY <1>4 DEF CppFrame, netVars, rtVars
  <2>2. END' = END \/ END'
    BY <1>0, <1>4 DEF Main, MainLoop, TakeSignal, NoSignal, LockChannels, TakeQuery,
                DestroyServer, JoinRuntime, JoinWorkers, Sigterm, WorkerStep, Answer,
                AnswerFreed, KillSign, SetSt
  <2> QED BY <1>0, <2>1, <2>2 DEF RegisteredInv
<1>5. CASE RuntimeFails
  BY <1>0, <1>5, SameRegistration DEF RuntimeFails, netVars, mapVars, mainVars, Live
<1>6. CASE UNCHANGED vars
  BY <1>0, <1>6 DEF vars, netVars, mapVars, rtVars, mainVars, RegisteredInv
<1> QED BY <1>1, <1>2, <1>3, <1>4, <1>5, <1>6 DEF Next

\* The stages together, and what brings a query to the main thread.
Staged(c) == Requested(c) \/ Working(c) \/ Replied(c) \/ Storing(c) \/ Writing(c)
Called(c) == InSignals(c) \/ MainHas(c)
Leaving(c) == rt_conn = c /\ rt_pc = "remove"

\* A step that keeps the query of c somewhere in the pipeline.
LEMMA KeepsBusy ==
  ASSUME NEW c \in Conn, BusyInv(c), Live(c)' => Live(c),
         Live(c)' /\ (c_chan'[c] # <<>> \/ (rt_conn' = c /\ rt_pc' = "send"))
           => c_chan[c] # <<>> \/ (rt_conn = c /\ rt_pc = "send"),
         Live(c)' /\ Called(c) => Called(c)',
         Live(c)' /\ is_active'[c] => is_active[c],
         c \in mute => c \in mute',
         Live(c)' /\ Staged(c) => Staged(c)',
         Live(c)' /\ Leaving(c) => Leaving(c)'
  PROVE  BusyInv(c)'
<1> SUFFICES ASSUME Live(c)'
             PROVE  /\ c_chan'[c] # <<>> \/ (rt_conn' = c /\ rt_pc' = "send") => Called(c)'
                    /\ is_active'[c] /\ c \notin mute' => Staged(c)' \/ Leaving(c)'
  BY DEF BusyInv, Live, Called, Staged, Leaving
<1>1. /\ c_chan[c] # <<>> \/ (rt_conn = c /\ rt_pc = "send") => Called(c)
      /\ is_active[c] /\ c \notin mute => Staged(c) \/ Leaving(c)
  BY DEF BusyInv, Live, Called, Staged, Leaving
<1> QED BY <1>1

\* Until END, an active connection of the map has its query in the pipeline.
LEMMA BusyRuntime ==
  ASSUME Inv, Runtime, NEW c \in Conn  PROVE BusyInv(c)'
<1>0. /\ TypeOK /\ TokenInv /\ EndInv /\ AcceptInv /\ ConnInv(c) /\ RegisteredInv(c)
      /\ BusyInv(c) /\ UNCHANGED <<replyVars, mainVars>>
  BY DEF Inv, ConnInv, Runtime
<1>w. Live(c) /\ Writing(c) => interest[c] = "write"
  BY <1>0 DEF RegisteredInv, Writing, Live
<1>m. MainHas(c)' = MainHas(c) /\ Working(c)' = Working(c) /\ Replied(c)' = Replied(c)
  BY <1>0 DEF MainHas, Working, Replied, replyVars, mainVars
<1> USE DEF mapVars, netVars, stateVars, NextPc
<1>1. ASSUME UNCHANGED <<stateVars, signals, thread>>, Live(c)' => Live(c),
             Live(c)' => interest'[c] = interest[c],
             rt_pc \notin {"signal", "send"}, rt_pc' \notin {"signal", "send"},
             Live(c)' /\ Leaving(c) => Leaving(c)'
      PROVE  BusyInv(c)'
  <2>1. Called(c)' = Called(c) /\ Storing(c)' = Storing(c)
    BY <1>m, <1>1 DEF Called, InSignals, Storing
  <2>2. Requested(c)' = Requested(c)
    BY <1>m, <1>1 DEF Requested, InSignals
  <2>3. Live(c)' /\ Writing(c) => Writing(c)'
    BY <1>w, <1>1 DEF Writing
  <2> QED BY <1>0, <1>m, <1>1, <2>1, <2>2, <2>3, KeepsBusy DEF Staged
<1>2. CASE CheckEnd \/ Poll \/ AcceptDone \/ CloseRuntime \/ StopRuntime
  BY <1>0, <1>1, <1>2
     DEF CheckEnd, Poll, AcceptDone, CloseRuntime, StopRuntime, EndInv, Live, Leaving,
         mainVars
<1>3. ASSUME NEW t \in Token, NEW k \in {"read", "write"}, TakeEvent(t, k)
      PROVE BusyInv(c)'
  BY <1>0, <1>1, <1>3 DEF TakeEvent, Branch, Live, Leaving, mainVars
<1>4. ASSUME NEW blocked \in BOOLEAN, WriteFails(blocked) PROVE BusyInv(c)'
  BY <1>0, <1>1, <1>4 DEF WriteFails, Leave, Live, Leaving, mainVars
<1>5. CASE RemoveConnection
  <2>1. rt_conn \in Conn
    BY <1>0, <1>5 DEF RemoveConnection, TokenInv, Handling
  <2>2. Live(c)' => Live(c) /\ interest'[c] = interest[c] /\ ~Leaving(c)
    BY <1>0, <1>5, <2>1 DEF RemoveConnection, Live, Leaving, TypeOK, mainVars
  <2> QED BY <1>0, <1>1, <1>5, <2>2 DEF RemoveConnection
<1>6. ASSUME NEW d \in Conn, Accept(d) PROVE BusyInv(c)'
  <2>1. CASE d = c
    <3>1. ~is_active'[c] /\ c_chan'[c] = <<>> /\ rt_pc' = "accept"
      BY <1>0, <1>6, <2>1 DEF Accept, AcceptInv, ConnInv, StageInv, Requested, rtVars
    <3> QED BY <3>1 DEF BusyInv
  <2>2. CASE d # c
    BY <1>0, <1>1, <1>6, <2>2 DEF Accept, Live, Leaving, TypeOK, rtVars, mainVars
  <2> QED BY <2>1, <2>2
<1>7. CASE ReadBurst
  <2>0. /\ rt_conn \in Conn /\ rt_pc = "read"
        /\ UNCHANGED <<channels, interest, c_chan, signals, rt_conn, batch, thread>>
        /\ rt_pc' \in {"signal", "remove", "check", "batch"}
    BY <1>0, <1>7 DEF ReadBurst, Leave, TokenInv, Handling
  <2>1. CASE rt_conn # c
    <3>1. is_active'[c] = is_active[c] /\ (c \in mute => c \in mute')
      BY <1>0, <1>7, <2>0, <2>1 DEF ReadBurst, Activate, TypeOK
    <3>2. /\ Called(c)' = Called(c) /\ Storing(c)' = Storing(c)
          /\ Writing(c)' = Writing(c) /\ Requested(c)' = Requested(c)
      BY <1>m, <2>0, <2>1 DEF Called, InSignals, Storing, Writing, Requested
    <3>3. Live(c)' = Live(c) /\ ~Leaving(c)
      BY <1>0, <2>0 DEF Live, Leaving, mainVars
    <3> QED BY <1>0, <1>m, <2>0, <2>1, <3>1, <3>2, <3>3, KeepsBusy DEF Staged
  <2>2. CASE rt_conn = c
    <3>1. ~is_active[c] /\ c_chan[c] = <<>>
      BY <1>0, <2>0, <2>2 DEF ConnInv, PlaceInv, StageInv, Requested
    <3> DEFINE data == client[c] # "reset" /\ wire[c] # <<>>
               kind == Merged(wire[c])
    <3>2. kind \in {"bad", "exit", "nul", "stop", "query"}
      BY DEF Merged
    <3>3. CASE ~data
      <4>1. is_active'[c] = is_active[c]
        BY <1>7, <2>2, <3>3 DEF ReadBurst
      <4> QED BY <2>0, <3>1, <4>1 DEF BusyInv
    <3>4. CASE data /\ kind = "bad"
      <4>1. c \in mute'
        BY <1>7, <2>2, <3>4 DEF ReadBurst
      <4> QED BY <2>0, <3>1, <4>1 DEF BusyInv
    <3>5. CASE data /\ kind = "exit"
      <4>1. rt_pc' = "remove"
        BY <1>7, <2>2, <3>5 DEF ReadBurst, Leave, Closed
      <4> QED BY <2>0, <2>2, <3>1, <4>1 DEF BusyInv
    <3>6. CASE data /\ kind \in {"nul", "stop", "query"}
      <4>1. rt_pc' = "signal"
        BY <1>7, <2>2, <3>6 DEF ReadBurst
      <4> QED BY <2>0, <2>2, <3>1, <4>1 DEF BusyInv, Requested
    <3> QED BY <3>2, <3>3, <3>4, <3>5, <3>6
  <2> QED BY <2>1, <2>2
<1>8. CASE SendSignal
  <2>1. /\ rt_pc = "signal" /\ rt_pc' = "send" /\ signals' = Append(signals, rt_conn)
        /\ UNCHANGED <<netVars, mapVars, stateVars, rt_conn, batch, thread>>
        /\ rt_conn \in Conn /\ signals \in Seq(Conn)
    BY <1>0, <1>8 DEF SendSignal, TokenInv, Handling, TypeOK
  <2>2. InSignals(c)' <=> InSignals(c) \/ rt_conn = c
    <3>1. In(signals', c) <=> In(signals, c) \/ rt_conn = c
      BY <2>1, AppendOnce
    <3> QED BY <3>1 DEF InSignals, In
  <2>3. Live(c)' = Live(c) /\ ~Leaving(c) /\ (Called(c) => Called(c)')
    BY <1>0, <1>m, <2>1, <2>2 DEF Live, Leaving, Called, mainVars
  <2>4. Storing(c)' = Storing(c) /\ Writing(c)' = Writing(c)
        /\ (Requested(c) => Requested(c)')
    BY <1>m, <2>1, <2>2 DEF Storing, Writing, Requested
  <2>5. CASE rt_conn = c
    <3>1. Called(c)' /\ Staged(c)'
      BY <2>2, <2>5 DEF Called, Staged, Requested
    <3> QED BY <3>1 DEF BusyInv, Called, Staged
  <2>6. CASE rt_conn # c
    BY <1>0, <1>m, <2>1, <2>3, <2>4, <2>6, KeepsBusy DEF Staged
  <2> QED BY <2>5, <2>6
<1>9. CASE SendQuery
  <2>1. /\ rt_pc = "send" /\ rt_pc' = "spawn" /\ rt_conn \in Conn
        /\ UNCHANGED <<netVars, mapVars, is_active, mute, signals, rt_conn, batch, thread>>
    BY <1>0, <1>9 DEF SendQuery, TokenInv, Handling
  <2>2. /\ Live(c)' = Live(c) /\ ~Leaving(c) /\ Called(c)' = Called(c)
        /\ Storing(c)' = Storing(c) /\ Writing(c)' = Writing(c)
    BY <1>0, <1>m, <2>1 DEF Live, Leaving, Called, InSignals, Storing, Writing, mainVars
  <2>3. CASE rt_conn = c
    <3>1. c_chan'[c] = Append(c_chan[c], [id |-> asked[c], kind |-> rt_kind])
          /\ c_chan[c] \in Seq(Query)
      BY <1>0, <1>9, <2>1, <2>3 DEF SendQuery, TypeOK
    <3>2. c_chan'[c] # <<>>
      BY <3>1
    <3>3. Requested(c)'
      BY <3>2 DEF Requested
    <3> QED BY <1>0, <2>1, <2>2, <2>3, <3>3, KeepsBusy DEF Staged
  <2>4. CASE rt_conn # c
    <3>1. c_chan'[c] = c_chan[c]
      BY <1>0, <1>9, <2>1, <2>4 DEF SendQuery, TypeOK
    <3>2. Requested(c)' = Requested(c)
      BY <1>m, <2>1, <2>4, <3>1 DEF Requested, InSignals
    <3> QED BY <1>0, <1>m, <2>1, <2>2, <2>4, <3>1, <3>2, KeepsBusy DEF Staged
  <2> QED BY <2>3, <2>4
<1>10. CASE SpawnThread \/ JoinThread
  <2>0. rt_conn \in Conn
    BY <1>0, <1>10, JoinThreadInv DEF SpawnThread, JoinThread, TokenInv, Handling
  <2>1. /\ rt_pc \in {"spawn", "join"}
        /\ rt_pc' \notin {"signal", "send"}
        /\ UNCHANGED <<netVars, channels, stateVars, signals, rt_conn, batch>>
    BY <1>10 DEF SpawnThread, JoinThread, Leave
  <2>2. Storing(c) => Storing(c)'
    BY <1>0, <1>10, <2>0 DEF SpawnThread, JoinThread, Storing, ConnInv, ThreadInv, TypeOK,
                             Handle
  <2>3. /\ Live(c)' = Live(c) /\ ~Leaving(c) /\ Called(c)' = Called(c)
        /\ Requested(c)' = Requested(c)
        /\ Live(c)' /\ Writing(c) => Writing(c)'
    BY <1>0, <1>m, <1>w, <2>1 DEF Live, Leaving, Called, InSignals, Writing, Requested,
                                  mainVars
  <2> QED BY <1>0, <1>m, <2>1, <2>2, <2>3, KeepsBusy DEF Staged
<1>11. CASE WriteAnswer
  <2>1. /\ rt_conn \in Conn /\ rt_pc = "write" /\ rt_pc' \in {"check", "batch"}
        /\ UNCHANGED <<channels, c_chan, mute, signals, rt_conn, batch, thread>>
    BY <1>0, <1>11 DEF WriteAnswer, Leave, TokenInv, Handling
  <2>2. CASE rt_conn = c
    <3>1. ~is_active'[c] /\ c_chan[c] = <<>>
      BY <1>0, <1>11, <2>1, <2>2
         DEF WriteAnswer, TypeOK, ConnInv, StageInv, Writing, Requested
    <3> QED BY <2>1, <3>1 DEF BusyInv
  <2>3. CASE rt_conn # c
    <3>1. is_active'[c] = is_active[c] /\ interest'[c] = interest[c]
      BY <1>0, <1>11, <2>1, <2>3 DEF WriteAnswer, TypeOK
    <3>2. /\ Live(c)' = Live(c) /\ ~Leaving(c) /\ Called(c)' = Called(c)
          /\ Requested(c)' = Requested(c) /\ Storing(c)' = Storing(c)
          /\ Writing(c)' = Writing(c)
      BY <1>0, <1>m, <2>1, <2>3, <3>1
         DEF Live, Leaving, Called, InSignals, Writing, Requested, Storing, mainVars
    <3> QED BY <1>0, <1>m, <2>1, <3>1, <3>2, KeepsBusy DEF Staged
  <2> QED BY <2>2, <2>3
<1> QED BY <1>2, <1>3, <1>4, <1>5, <1>6, <1>7, <1>8, <1>9, <1>10, <1>11 DEF Runtime

LEMMA BusyThreads ==
  ASSUME Inv, NEW c \in Conn, NEW d \in Conn, NEW h \in Handle, ResponseThread(d, h)
  PROVE  BusyInv(c)'
<1>0. TypeOK /\ ConnInv(c) /\ RegisteredInv(c) /\ BusyInv(c)
  BY DEF Inv, ConnInv
<1>1. UNCHANGED <<mapVars, stateVars, signals, rtVars, mainVars>>
  BY DEF ResponseThread
<1> USE <1>1 DEF mapVars, stateVars, rtVars, mainVars
<1>2. /\ Live(c)' = Live(c) /\ Leaving(c)' = Leaving(c) /\ Called(c)' = Called(c)
      /\ Requested(c)' = Requested(c) /\ Working(c)' = Working(c)
  BY DEF Live, Leaving, Called, InSignals, MainHas, Requested, Working
<1>3. Live(c) /\ (Replied(c) \/ Storing(c) \/ Writing(c))
        => Replied(c)' \/ Storing(c)' \/ Writing(c)'
  <2>1. CASE d # c
    <3>1. /\ thread'[c] = thread[c] /\ r_chan'[c] = r_chan[c] /\ interest'[c] = interest[c]
      BY <1>0, <2>1 DEF ResponseThread, ReceiveAnswer, Store, Consume, GiveUpAnswer,
                        Reregister, ThreadReturns, replyVars, TypeOK
    <3> QED BY <3>1 DEF Replied, Storing, Writing
  <2>2. CASE d = c /\ h = "old"
    <3>1. /\ UNCHANGED <<interest, replyVars>> /\ thread'[c]["cur"] = thread[c]["cur"]
      BY <1>0, <2>2 DEF ConnInv, ThreadInv, ResponseThread, ReceiveAnswer, GiveUpAnswer,
                        Reregister, ThreadReturns, TypeOK, Handle
    <3> QED BY <3>1 DEF Replied, Storing, Writing, replyVars
  <2>3. CASE d = c /\ h = "cur" /\ ReceiveAnswer(d, h)
    <3>1. Storing(c)'
      BY <1>0, <2>3 DEF ReceiveAnswer, Storing, TypeOK, Handle
    <3> QED BY <3>1
  <2>4. CASE d = c /\ h = "cur" /\ (GiveUpAnswer(d, h) \/ ThreadReturns(d, h))
    <3>1. UNCHANGED <<interest, replyVars>> /\ ~Storing(c)
      BY <2>4 DEF GiveUpAnswer, ThreadReturns, Storing
    <3> QED BY <3>1 DEF Replied, Storing, Writing, replyVars
  <2>5. CASE d = c /\ h = "cur" /\ Reregister(d, h)
    <3>1. Live(c) => interest[c] # "none"
      BY <1>0 DEF RegisteredInv, Live
    <3>2. Live(c) => interest'[c] = "write"
      BY <1>0, <2>5, <3>1 DEF Reregister, TypeOK
    <3> QED BY <3>2 DEF Writing
  <2> QED BY <2>1, <2>2, <2>3, <2>4, <2>5 DEF ResponseThread, Handle
<1> QED BY <1>0, <1>2, <1>3, KeepsBusy DEF Staged

LEMMA BusyMain ==
  ASSUME Inv, NEW c \in Conn, Main, CppFrame  PROVE BusyInv(c)'
<1>0. TypeOK /\ TokenInv /\ LockInv /\ ConnInv(c) /\ BusyInv(c)
  BY DEF Inv, ConnInv
<1>1. UNCHANGED <<netVars, channels, is_active, asked, answered, response, rtVars, thread>>
  BY DEF CppFrame
<1> USE <1>1 DEF netVars, rtVars
<1>2. /\ Storing(c)' = Storing(c) /\ Writing(c)' = Writing(c) /\ Leaving(c)' = Leaving(c)
      /\ Replied(c)' = Replied(c)
  BY DEF Storing, Writing, Leaving, Replied, Main, MainLoop, TakeSignal, NoSignal,
         LockChannels, TakeQuery, DestroyServer, JoinRuntime, JoinWorkers
<1>3. Live(c)' => Live(c)
  BY <1>0 DEF Live, Main, MainLoop, TakeSignal, NoSignal, LockChannels, TakeQuery,
              DestroyServer, JoinRuntime, JoinWorkers
<1>4. ASSUME UNCHANGED <<c_chan, mute>>, workers \subseteq workers',
             Live(c)' /\ Called(c) => Called(c)'
      PROVE  BusyInv(c)'
  <2>1. Working(c) => Working(c)'
    BY <1>4 DEF Working
  <2>2. Live(c)' /\ Requested(c) => Requested(c)'
    BY <1>4 DEF Requested, Called
  <2> QED BY <1>0, <1>2, <1>3, <1>4, <2>1, <2>2, KeepsBusy DEF Staged
<1>5. CASE MainLoop \/ NoSignal \/ DestroyServer \/ JoinRuntime \/ JoinWorkers
  <2>1. /\ UNCHANGED <<c_chan, mute, signals>> /\ main_pc \notin {"lock", "message"}
        /\ workers \subseteq workers'
    BY <1>5 DEF MainLoop, NoSignal, DestroyServer, JoinRuntime, JoinWorkers, SpawnNull
  <2> QED BY <1>4, <2>1 DEF Called, InSignals, MainHas
<1>6. CASE TakeSignal
  <2>1. /\ UNCHANGED <<c_chan, mute, workers>>
        /\ signals # <<>> /\ signals \in Seq(Conn)
        /\ main_pc = "wait" /\ main_pc' = "lock"
        /\ main_tok' = Head(signals) /\ signals' = Tail(signals)
        /\ Once(signals, c)
    BY <1>0, <1>6 DEF TakeSignal, TypeOK, ConnInv, PlaceInv, Once
  <2>2. In(signals, c) <=> In(signals', c) \/ main_tok' = c
    BY <2>1, TailOnce
  <2>3. Called(c) => Called(c)'
    BY <2>1, <2>2 DEF MainHas, InSignals, In, Called
  <2> QED BY <1>4, <2>1, <2>3
<1>7. CASE LockChannels
  <2>1. UNCHANGED <<c_chan, mute, signals, main_tok, END>> /\ workers \subseteq workers'
    BY <1>7 DEF LockChannels, SpawnNull
  <2>2. Live(c)' /\ MainHas(c) => MainHas(c)'
    BY <1>7, <2>1 DEF LockChannels, Live, MainHas
  <2>3. Live(c)' /\ Called(c) => Called(c)'
    BY <2>1, <2>2 DEF Called, InSignals
  <2> QED BY <1>4, <2>1, <2>3
<1>8. CASE TakeQuery
  <2>1. /\ UNCHANGED <<signals, main_tok>> /\ main_tok \in Conn
        /\ main_pc = "message" /\ main_pc' = "loop" /\ rt_pc \notin Handling
        /\ workers \subseteq workers' /\ mute \subseteq mute'
    BY <1>0, <1>8 DEF TakeQuery, SpawnNull, TokenInv, LockInv
  <2>2. c_chan[main_tok] # <<>>
    BY <2>1 DEF Inv, PlaceInv, MainHas, Handling
  <2> DEFINE q == Head(c_chan[main_tok])
             w == [conn |-> main_tok, id |-> q.id, kind |-> q.kind]
  <2>3. /\ c_chan' = [c_chan EXCEPT ![main_tok] = Tail(@)]
        /\ workers' = workers \cup {w} \/ main_tok \in mute'
    BY <1>8, <2>2 DEF TakeQuery
  <2>4. w.conn = main_tok
    OBVIOUS
  <2> HIDE DEF w
  <2>5. CASE main_tok = c
    <3>1. c_chan'[c] = <<>>
      <4>1. c_chan[c] \in Seq(Query) /\ Len(c_chan[c]) <= 1
        BY <1>0 DEF TypeOK, ConnInv, PlaceInv
      <4> QED BY <1>0, <2>1, <2>2, <2>3, <2>5, <4>1, OneElement DEF TypeOK
    <3>2. Working(c)' \/ c \in mute'
      BY <2>3, <2>4, <2>5 DEF Working
    <3> QED BY <2>1, <3>1, <3>2 DEF BusyInv, Handling
  <2>6. CASE main_tok # c
    <3>1. c_chan'[c] = c_chan[c]
      BY <1>0, <2>1, <2>3, <2>6 DEF TypeOK
    <3>2. Called(c)' = Called(c)
      BY <2>1, <2>6 DEF Called, InSignals, MainHas
    <3>3. Requested(c)' = Requested(c) /\ (Working(c) => Working(c)')
      BY <2>1, <3>1, <3>2 DEF Requested, Working, Called
    <3> QED BY <1>0, <1>2, <1>3, <2>1, <3>1, <3>2, <3>3, KeepsBusy DEF Staged
  <2> QED BY <2>5, <2>6
<1> QED BY <1>5, <1>6, <1>7, <1>8 DEF Main

LEMMA BusyWorker ==
  ASSUME Inv, NEW c \in Conn, CppFrame, Sigterm \/ \E w \in workers : WorkerStep(w)
  PROVE  BusyInv(c)'
<1>0. TypeOK /\ TokenInv /\ EndInv /\ ConnInv(c) /\ BusyInv(c)
  BY DEF Inv, ConnInv
<1>1. UNCHANGED <<netVars, channels, is_active, asked, answered, response, rtVars, thread>>
  BY DEF CppFrame
<1> USE <1>1 DEF netVars, rtVars
<1>2. /\ UNCHANGED <<c_chan, signals, main_tok, mute>> /\ (MainHas(c)' <=> MainHas(c))
      /\ END \in BOOLEAN /\ END' \in {END, TRUE}
  BY <1>0 DEF Sigterm, WorkerStep, Answer, AnswerFreed, Freed, KillSign, SetSt, MainHas,
              TypeOK
<1>3. /\ Called(c)' <=> Called(c)
      /\ Requested(c)' <=> Requested(c)
      /\ Storing(c)' <=> Storing(c)
      /\ Writing(c)' <=> Writing(c)
      /\ Leaving(c)' <=> Leaving(c)
      /\ Live(c)' => Live(c)
  BY <1>2 DEF Called, InSignals, Requested, Storing, Writing, Leaving, Live
<1>4. Live(c)' /\ (Working(c) \/ Replied(c)) => Working(c)' \/ Replied(c)'
  <2>1. CASE Sigterm
    BY <2>1 DEF Sigterm, Working, Replied
  <2>2. ASSUME NEW w \in workers, Answer(w), Live(c)'
        PROVE  Working(c) \/ Replied(c) => Working(c)' \/ Replied(c)'
    <3>1. CASE w.conn = c
      <4>1. /\ r_chan' = [r_chan EXCEPT ![c] = Append(@, w.id)]
            /\ r_chan \in [Conn -> Seq(Nat)] /\ w.id \in Nat
        BY <1>0, <2>2, <3>1 DEF Answer, Live, TypeOK, Worker
      <4>2. r_chan'[c] = Append(r_chan[c], w.id) /\ r_chan[c] \in Seq(Nat)
        BY <4>1
      <4>3. r_chan'[c] # <<>>
        BY <4>1, <4>2
      <4> QED BY <4>3 DEF Replied
    <3>2. CASE w.conn # c
      BY <1>0, <2>2, <3>2 DEF Answer, Working, Replied, TypeOK
    <3> QED BY <3>1, <3>2
  <2>3. ASSUME NEW w \in workers, AnswerFreed(w) \/ KillSign(w) \/ SetSt(w)
        PROVE  ~Live(c)'
    BY <1>0, <1>2, <2>3 DEF AnswerFreed, Freed, KillSign, SetSt, EndInv, Live
  <2> QED BY <2>1, <2>2, <2>3 DEF WorkerStep
<1> QED BY <1>0, <1>2, <1>3, <1>4, KeepsBusy DEF Staged

LEMMA BusyNext ==
  ASSUME Inv, [Next]_vars, NEW c \in Conn  PROVE BusyInv(c)'
<1>0. BusyInv(c)
  BY DEF Inv
<1>1. ASSUME \/ UNCHANGED vars
             \/ RuntimeFails
             \/ \E d \in Conn : Network(d)
      PROVE  BusyInv(c)'
  <2>1. /\ UNCHANGED <<channels, stateVars, replyVars, signals, thread, mainVars, rt_conn>>
        /\ UNCHANGED <<rt_pc, interest, batch>> \/ RuntimeFails
    BY <1>1 DEF vars, RuntimeFails, Network, netVars, mapVars, rtVars
  <2> USE <2>1 DEF stateVars, replyVars, mainVars
  <2>2. /\ Live(c)' = Live(c) /\ Called(c)' = Called(c)
        /\ Working(c)' = Working(c) /\ Replied(c)' = Replied(c) /\ Storing(c)' = Storing(c)
    BY DEF Live, Called, InSignals, MainHas, Working, Replied, Storing
  <2>3. CASE UNCHANGED <<rt_pc, interest, batch>>
    <3>1. Requested(c)' = Requested(c) /\ Writing(c)' = Writing(c) /\ Leaving(c)' = Leaving(c)
      BY <2>2, <2>3 DEF Requested, Writing, Leaving, InSignals, MainHas
    <3> QED BY <1>0, <2>2, <2>3, <3>1, KeepsBusy DEF Staged
  <2>4. CASE RuntimeFails
    <3>1. /\ rt_pc \in {"poll", "accept", "batch"} /\ rt_pc' = "failed"
          /\ UNCHANGED <<interest, batch>>
      BY <2>4 DEF RuntimeFails, netVars
    <3>2. Requested(c)' = Requested(c) /\ Writing(c)' = Writing(c) /\ ~Leaving(c)
      BY <2>2, <3>1 DEF Requested, Writing, Leaving, InSignals, MainHas
    <3> QED BY <1>0, <2>2, <3>1, <3>2, KeepsBusy DEF Staged
  <2> QED BY <2>1, <2>3, <2>4
<1> QED BY <1>1, BusyRuntime, BusyThreads, BusyMain, BusyWorker DEF Next

LEMMA InitInv == Init => Inv
<1> SUFFICES ASSUME Init PROVE Inv  OBVIOUS
<1>1. TypeOK /\ TokenInv
  BY InitType
<1>2. LockInv /\ AcceptInv /\ EndInv
  BY DEF Init, LockInv, AcceptInv, EndInv, Handling
<1>3. ASSUME NEW c \in Conn
      PROVE  StageInv(c) /\ PlaceInv(c) /\ ThreadInv(c) /\ NumberInv(c)
  <2>1. /\ ~InSignals(c) /\ ~MainHas(c) /\ ~Requested(c) /\ ~Working(c)
        /\ ~Replied(c) /\ ~Storing(c) /\ ~Writing(c)
    BY DEF Init, InSignals, MainHas, Requested, Working, Replied, Storing, Writing, Handle
  <2>2. StageInv(c)
    BY <2>1 DEF StageInv
  <2>3. PlaceInv(c)
    BY <2>1 DEF PlaceInv, Init
  <2>4. ThreadInv(c)
    BY <2>1 DEF ThreadInv, Init, Handle
  <2>5. NumberInv(c)
    BY <2>1 DEF NumberInv, Init, Working, Replied
  <2> QED BY <2>2, <2>3, <2>4, <2>5
<1>4. ASSUME NEW c \in Conn PROVE RegisteredInv(c) /\ BusyInv(c)
  BY DEF Init, RegisteredInv, BusyInv
<1> QED BY <1>1, <1>2, <1>3, <1>4 DEF Inv

LEMMA InvNext == Inv /\ [Next]_vars => Inv'
<1> SUFFICES ASSUME Inv, [Next]_vars PROVE Inv'  OBVIOUS
<1>1. TypeOK' /\ TokenInv'
  BY TypeNext DEF Inv
<1>2. LockInv' /\ AcceptInv' /\ EndInv'
  BY LockNext, AcceptNext, EndNext DEF Inv
<1>3. ASSUME NEW c \in Conn PROVE ConnInv(c)'
  <2>1. CASE UNCHANGED vars
    <3>1. ConnInv(c)
      BY DEF Inv, ConnInv
    <3> QED BY <2>1, <3>1, OtherStep
            DEF vars, netVars, mapVars, stateVars, replyVars, rtVars, mainVars,
                InSignals, MainHas
  <2> QED BY <2>1, NetworkInv, RuntimeInv, ResponseInv, MainInv, WorkerInv DEF Next
<1>4. ASSUME NEW c \in Conn PROVE RegisteredInv(c)' /\ BusyInv(c)'
  BY RegisteredNext, BusyNext
<1> QED BY <1>1, <1>2, <1>3, <1>4 DEF Inv, ConnInv

\* The invariant behind the properties of the server: a query is at one stage of
\* the pipeline, in one place, under its own number, while its connection is
\* active.
THEOREM Invariance == Spec => []Inv
BY InitInv, InvNext, PTL DEF Spec

\* receive never waits for a text under channels.write() (lib.rs:406-409).
THEOREM Receives == Spec => []ReceiveNeverStarves
<1>1. Inv => ReceiveNeverStarves
  BY DEF Inv, TokenInv, LockInv, PlaceInv, MainHas, ReceiveNeverStarves, Handling
<1> QED BY <1>1, Invariance, PTL

\* The join under channels.read() waits for no answer (lib.rs:300-303).
THEOREM Joins == Spec => []JoinIsSafe
<1>1. Inv => JoinIsSafe
  BY DEF Inv, TypeOK, TokenInv, LockInv, ThreadInv, JoinIsSafe, Handling
<1> QED BY <1>1, Invariance, PTL

\* A connection has one query in progress, and only while it is active.
THEOREM OneQuery == Spec => []OneQueryInProgress
<1>1. Inv => OneQueryInProgress
  <2> SUFFICES ASSUME Inv, NEW c \in Conn
               PROVE  /\ \A p, q \in Places(c) : p = q
                      /\ Places(c) # {} => is_active[c]
                      /\ is_active[c] /\ c \in channels /\ c \notin mute /\ ~END
                           => \/ Places(c) # {}
                              \/ rt_conn = c /\ rt_pc \in {"signal", "remove"}
    BY DEF OneQueryInProgress
  <2>1. StageInv(c) /\ PlaceInv(c)
    BY DEF Inv
  <2> DEFINE Stage(p) ==
               \/ InSignals(c) /\ \E i \in DOMAIN signals : signals[i] = c /\ p = <<"signals", i>>
               \/ MainHas(c) /\ p = <<"main", 0>>
               \/ Working(c) /\ \E w \in workers : w.conn = c /\ p = <<"workers", w>>
               \/ Replied(c) /\ p = <<"r_chan", 1>>
               \/ Storing(c) /\ p = <<"stored", 0>>
               \/ Writing(c) /\ p = <<"write", 0>>
  <2>2. ASSUME NEW i \in DOMAIN r_chan[c] PROVE Replied(c) /\ i = 1
    <3>1. r_chan[c] \in Seq(Nat) /\ Len(r_chan[c]) <= 1
      BY <2>1 DEF Inv, TypeOK, PlaceInv
    <3> QED BY <3>1 DEF Replied
  <2>3. ASSUME NEW p \in Places(c) PROVE Stage(p)
    BY <2>2 DEF Places, InSignals, Working, Storing, Writing
  <2>4. ASSUME NEW p \in Places(c) PROVE is_active[c]
    BY <2>1, <2>3 DEF StageInv, Requested
  <2>5. ASSUME NEW p, NEW q, Stage(p), Stage(q) PROVE p = q
    BY <2>1, <2>5 DEF StageInv, PlaceInv, Requested
  <2>6. ASSUME is_active[c], c \in channels, c \notin mute, ~END
        PROVE  Places(c) # {} \/ (rt_conn = c /\ rt_pc \in {"signal", "remove"})
    <3>1. BusyInv(c) /\ RegisteredInv(c) /\ r_chan[c] \in Seq(Nat)
      BY DEF Inv, TypeOK
    <3>2. CASE InSignals(c) \/ MainHas(c) \/ Storing(c) \/ Working(c)
      BY <3>2 DEF Places, InSignals, Storing, Working
    <3>3. CASE Replied(c)
      <4>1. 1 \in DOMAIN r_chan[c]
        BY <3>1, <3>3 DEF Replied
      <4> QED BY <4>1 DEF Places
    <3>4. CASE Writing(c)
      <4>1. interest[c] = "write"
        BY <2>6, <3>1, <3>4 DEF RegisteredInv, Writing
      <4> QED BY <4>1 DEF Places
    <3> QED BY <2>6, <3>1, <3>2, <3>3, <3>4 DEF BusyInv, Requested
  <2> HIDE DEF Stage
  <2> QED BY <2>3, <2>4, <2>5, <2>6
<1> QED BY <1>1, Invariance, PTL

\* Every client reads the answers to its own queries, in order, none twice.
THEOREM Answers == Spec => []AnswersInOrder
<1>1. Inv => AnswersInOrder
  BY DEF Inv, NumberInv, AnswersInOrder
<1> QED BY <1>1, Invariance, PTL

-----------------------------------------------------------------------------
\* TcpServer implements RequestReply: every step is one step of one connection's
\* protocol, or none.
LEMMA InitRefines == Init => RR!Init
BY DEF Init, RR!Init, Phase

\* A step that changes nothing a client sees is a stutter.
LEMMA Stutter ==
  ASSUME UNCHANGED <<asked, answered>>, \A c \in Conn : Phase(c)' = Phase(c)
  PROVE  UNCHANGED RR!rrVars
BY DEF RR!rrVars

LEMMA Quiet ==
  ASSUME UNCHANGED <<asked, answered, is_active, channels, backlog, client>>
  PROVE  UNCHANGED RR!rrVars
BY Stutter DEF Phase

LEMMA PhaseMove ==
  ASSUME NEW c \in Conn, NEW from, NEW to, Phase(c) \in from, Phase(c)' = to,
         \A d \in Conn \ {c} : Phase(d)' = Phase(d)
  PROVE  RR!Move(c, from, to)
BY DEF RR!Move

LEMMA NetworkRefines ==
  ASSUME Inv, NEW c \in Conn, Network(c)  PROVE UNCHANGED RR!rrVars
<1>1. UNCHANGED <<asked, answered, is_active, channels>>
  BY DEF Network, stateVars, mapVars
<1>2. client \in [Conn -> {"new", "open", "fin", "reset"}] /\ AcceptInv
  BY DEF Inv, TypeOK
<1>3. \A d \in Conn : Phase(d)' = Phase(d)
  BY <1>1, <1>2, TcpAssumption DEF TcpAssumption, Network, Connect, ClientSend,
                                   ClientClose, Drain, Phase, AcceptInv
<1> QED BY <1>1, <1>3, Stutter

LEMMA RuntimeRefines ==
  ASSUME Inv, Runtime  PROVE RR!Next \/ UNCHANGED RR!rrVars
<1>0. TypeOK /\ AcceptInv /\ TokenInv
  BY DEF Inv
<1> USE DEF netVars, mapVars, stateVars, rtVars
<1>1. ASSUME NEW c \in Conn, Accept(c) PROVE RR!Next
  <2>1. UNCHANGED <<asked, answered>>
    BY <1>1 DEF Accept
  <2>2. Phase(c) \in {"new"} /\ Phase(c)' = "idle"
    BY <1>0, <1>1 DEF Accept, Phase, AcceptInv
  <2>3. \A d \in Conn \ {c} : Phase(d)' = Phase(d)
    BY <1>1 DEF Accept, Phase
  <2>4. RR!Move(c, {"new"}, "idle")
    BY <2>2, <2>3, PhaseMove
  <2> QED BY <2>1, <2>4 DEF RR!Next, RR!Open
<1>2. ASSUME NEW c \in Conn, c = rt_conn, ReadBurst PROVE RR!Next \/ UNCHANGED RR!rrVars
  <2>1. /\ c \in channels /\ ~is_active[c]
    BY <1>0, <1>2 DEF ReadBurst, AcceptInv, TokenInv, Handling, Inv, PlaceInv
  <2>2. /\ UNCHANGED <<answered, channels, backlog, client>>
        /\ \A d \in Conn \ {c} : is_active'[d] = is_active[d]
        /\ asked' = asked \/ (asked' = [asked EXCEPT ![c] = @ + 1] /\ is_active'[c])
        /\ is_active'[c] \in BOOLEAN
    BY <1>0, <1>2, <2>1 DEF ReadBurst, Activate, TypeOK
  <2>3. /\ Phase(c) \in {"idle"} /\ Phase(c)' = IF is_active'[c] THEN "busy" ELSE "idle"
        /\ \A d \in Conn \ {c} : Phase(d)' = Phase(d)
    BY <2>1, <2>2 DEF Phase
  <2>4. CASE is_active'[c]
    <3>1. RR!Move(c, {"idle"}, "busy")
      BY <2>1, <2>3, <2>4, PhaseMove
    <3> QED BY <2>1, <2>2, <3>1 DEF RR!Next, RR!Ask, RR!Hang
  <2>5. CASE ~is_active'[c]
    <3>1. Phase(c)' = Phase(c) /\ asked' = asked
      BY <2>2, <2>3, <2>5
    <3> QED BY <2>2, <2>3, <3>1, Stutter
  <2> QED BY <2>4, <2>5
<1>3. ASSUME NEW c \in Conn, c = rt_conn, WriteAnswer PROVE RR!Next
  <2>1. /\ c \in channels /\ is_active[c]
        /\ response[c] = asked[c] /\ Len(answered[c]) + 1 = asked[c]
    BY <1>0, <1>3 DEF WriteAnswer, AcceptInv, TokenInv, Handling, Inv, StageInv,
                      NumberInv, Writing
  <2>2. /\ UNCHANGED <<asked, channels, backlog, client>>
        /\ answered' = [answered EXCEPT ![c] = Append(@, asked[c])]
        /\ ~is_active'[c]
        /\ \A d \in Conn \ {c} : is_active'[d] = is_active[d]
    BY <1>0, <1>3, <2>1 DEF WriteAnswer, TypeOK
  <2>3. /\ Phase(c) \in {"busy"} /\ Phase(c)' = "idle"
        /\ \A d \in Conn \ {c} : Phase(d)' = Phase(d)
    BY <2>1, <2>2 DEF Phase
  <2>4. RR!Move(c, {"busy"}, "idle")
    BY <2>1, <2>3, PhaseMove
  <2> QED BY <2>1, <2>2, <2>4 DEF RR!Next, RR!Reply
<1>4. ASSUME NEW c \in Conn, c = rt_conn, RemoveConnection PROVE RR!Next
  <2>1. c \in channels /\ c \notin backlog /\ client[c] # "new"
    BY <1>0, <1>4 DEF RemoveConnection, AcceptInv, TokenInv, Handling
  <2>2. /\ UNCHANGED <<asked, answered, is_active, backlog, client>>
        /\ channels' = channels \ {c}
    BY <1>4 DEF RemoveConnection
  <2>3. /\ Phase(c) \in {"idle", "busy"} /\ Phase(c)' = "gone"
        /\ \A d \in Conn \ {c} : Phase(d)' = Phase(d)
    BY <2>1, <2>2 DEF Phase
  <2>4. RR!Move(c, {"idle", "busy"}, "gone")
    BY <2>1, <2>3, PhaseMove
  <2> QED BY <2>1, <2>2, <2>4 DEF RR!Next, RR!Close
<1>5. CASE CheckEnd \/ Poll \/ AcceptDone \/ CloseRuntime \/ StopRuntime
  BY <1>5, Quiet DEF CheckEnd, Poll, AcceptDone, CloseRuntime, StopRuntime
<1>6. CASE SendSignal \/ SendQuery \/ SpawnThread \/ JoinThread
  BY <1>6, Quiet DEF SendSignal, SendQuery, SpawnThread, JoinThread
<1>7. CASE \/ \E t \in Token, k \in {"read", "write"} : TakeEvent(t, k)
           \/ \E blocked \in BOOLEAN : WriteFails(blocked)
  BY <1>7, Quiet DEF TakeEvent, WriteFails
<1>8. ReadBurst \/ WriteAnswer \/ RemoveConnection => rt_conn \in Conn
  BY <1>0 DEF ReadBurst, WriteAnswer, RemoveConnection, TokenInv, Handling
<1> QED BY <1>1, <1>2, <1>3, <1>4, <1>5, <1>6, <1>7, <1>8 DEF Runtime

\* A client of the server sees the request/reply protocol of RequestReply: each
\* answer it gets is the one to its last query, and nothing is answered twice.
THEOREM Implements == Spec => ImplementsRequestReply
<1>1. Inv /\ [Next]_vars => [RR!Next]_(RR!rrVars)
  <2> SUFFICES ASSUME Inv, [Next]_vars PROVE RR!Next \/ UNCHANGED RR!rrVars
    OBVIOUS
  <2>1. ASSUME NEW c \in Conn, NEW h \in Handle, ResponseThread(c, h)
        PROVE  UNCHANGED RR!rrVars
    BY <2>1, Quiet DEF ResponseThread, stateVars, mapVars
  <2>2. CASE CppFrame
    BY <2>2, Quiet DEF CppFrame, netVars
  <2>3. CASE UNCHANGED vars \/ RuntimeFails
    BY <2>3, Quiet DEF vars, RuntimeFails, netVars, mapVars, stateVars
  <2> QED BY <2>1, <2>2, <2>3, NetworkRefines, RuntimeRefines DEF Next
<1> QED BY <1>1, InitRefines, Invariance, PTL DEF Spec, RR!Spec, ImplementsRequestReply
=============================================================================
