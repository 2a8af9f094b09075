----------------------------- MODULE RequestReply -----------------------------
(***************************************************************************)
(* What a connection promises its client, whatever threads serve it: it is *)
(* accepted once, asks one query at a time, gets the answer to that very   *)
(* query or none, and never comes back once it is gone.                    *)
(***************************************************************************)
EXTENDS Naturals, Sequences

CONSTANT Conn

VARIABLES phase,    \* phase[c]: "new", "idle", "busy" or "gone"
          asked,    \* asked[c]: queries taken from c
          answered  \* answered[c]: the answers given, each the number of its query

rrVars == <<phase, asked, answered>>

Init == /\ phase = [c \in Conn |-> "new"]
        /\ asked = [c \in Conn |-> 0]
        /\ answered = [c \in Conn |-> <<>>]

Move(c, from, to) == /\ phase[c] \in from
                     /\ phase' = [phase EXCEPT ![c] = to]

Open(c) == Move(c, {"new"}, "idle") /\ UNCHANGED <<asked, answered>>

Ask(c) == /\ Move(c, {"idle"}, "busy")
          /\ asked' = [asked EXCEPT ![c] = @ + 1]
          /\ UNCHANGED answered

\* The client sent something that is not a query: nothing answers it.
Hang(c) == Move(c, {"idle"}, "busy") /\ UNCHANGED <<asked, answered>>

\* The answer is that of the query asked last, which had none.
Reply(c) == /\ Move(c, {"busy"}, "idle")
            /\ asked[c] = Len(answered[c]) + 1
            /\ answered' = [answered EXCEPT ![c] = Append(@, asked[c])]
            /\ UNCHANGED asked

Close(c) == Move(c, {"idle", "busy"}, "gone") /\ UNCHANGED <<asked, answered>>

Next == \E c \in Conn : Open(c) \/ Ask(c) \/ Hang(c) \/ Reply(c) \/ Close(c)

Spec == Init /\ [][Next]_rrVars
=============================================================================
