------------------------------ MODULE Analyzer ------------------------------
(***************************************************************************)
(* What resolve (src/main.cpp) does with a query before it looks at the    *)
(* databases: the signs are set apart (once here, and once more in each    *)
(* call of tokenize), the words are validated, the tokens parsed and given *)
(* to the automata.  The query stop is in TcpServer.                       *)
(***************************************************************************)
EXTENDS Automata, Writing

VARIABLES written,      \* the tokens the client means
          query,        \* the text of the query
          phase         \* "received", "explicit", "valid", "parsed"

vars == <<written, query, phase, in, token_number, ctx, variant, outcome>>

Init == /\ \E q \in Queries : written = q.written /\ query = q.text
        /\ phase = "received"
        /\ in = <<>>
        /\ token_number = 0
        /\ ctx = "Unknown"
        /\ variant = NoAction
        /\ outcome = "running"

To(p) == phase' = p /\ UNCHANGED <<written, token_number, ctx, variant>>

\* query.erase: no blanks at either end.
Trimmed(text) ==
    LET kept == {i \in DOMAIN text : text[i] # Blank}
    IN  IF kept = {} THEN <<>> ELSE SubSeq(text, Min(kept), Max(kept))

MakeExplicit ==
    /\ phase = "received"
    /\ \E text \in {make_tokens_explicit(query)} : query' = Trimmed(text)
    /\ To("explicit")
    /\ UNCHANGED <<in, outcome>>

Validate ==
    /\ phase = "explicit"
    /\ To("valid")
    /\ outcome' = IF validate(query) THEN outcome ELSE "error"
    /\ UNCHANGED <<query, in>>

\* A number that no double is near ends the process.
ParseQuery ==
    /\ phase = "valid"
    /\ outcome = "running"
    /\ UNCHANGED query
    /\ \/ /\ ~ParseThrows(query)
          /\ in' = parse(query)
          /\ To("parsed")
          /\ UNCHANGED outcome
       \/ /\ ParseThrows(query)
          /\ To(phase)
          /\ outcome' = "thrown"
          /\ UNCHANGED in

GetActionStruct == phase = "parsed" /\ ANext /\ UNCHANGED <<written, query, phase>>

Next == MakeExplicit \/ Validate \/ ParseQuery \/ GetActionStruct

Spec == Init /\ [][Next]_vars
=============================================================================
