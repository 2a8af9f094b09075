------------------------------ MODULE MCCatalog ------------------------------
(***************************************************************************)
(* Instances of Catalog for TLC: who sends which statements, and how many. *)
(***************************************************************************)
EXTENDS CatalogInvariant, TLC

CONSTANTS admin, c1, c2, d1, t1

St(op) == [op |-> op, d |-> d1, t |-> t1]
Sends(ops) == {St(op) : op \in ops}

Reads == {"show_dbs", "show_db", "show_table", "show_column", "show_data"}
Changes == {"create_db", "delete_db", "create_table", "delete_table"}

\* One connection creates and deletes, the others insert and read.
OneAdmin == [w \in Worker |-> IF w = admin THEN Sends(Changes)
                              ELSE Sends(Reads \cup {"insert"})]

\* With these statements the theorems about rewriters and changers apply.
ASSUME OneAdminChanges == Script = OneAdmin => OneChanger /\ OneRewriter

\* Every connection may create and delete tables and insert; two of them send
\* statements of all ten kinds.
Anyone == [w \in Worker |->
    Sends(IF w = admin THEN {"create_table", "delete_table", "insert"}
          ELSE Changes \cup Reads \cup {"insert"})]

\* One connection deletes while another inserts.
Deleter == [w \in Worker |-> IF w = admin THEN {St("delete_table")}
                             ELSE {St("insert")}]

Once == [w \in Worker |-> 1]
AdminTwice == [w \in Worker |-> IF w = admin THEN 2 ELSE 1]
Clients == Permutations({c1, c2})
==============================================================================
