----------------------------- MODULE MCGitBase -----------------------------
(***************************************************************************)
(* Repositories for GitBase: a table users that had one column, then two;  *)
(* the working tree has three, a MySQL connector of one database or two,   *)
(* and a marker for the third column, in two layouts of the file.          *)
(***************************************************************************)
EXTENDS GitBase

In == INSTANCE MCInputs WITH
        Inputs <- {}, input <- 0, pc <- 0, next <- 1, reads <- {}, fs <- {}, raised <- {}

File == "1_users.sql"
Users(db, names) == <<In!SrcTable(db, "users", names, File)>>

(* The connector names one database, or two. *)
Lists(entries, cols) ==
    <<[In!Connector([k \in {"table.include.list", "column.include.list"} |->
                        IF k = "table.include.list"
                        THEN [e \in DOMAIN entries |-> In!Literal(entries[e])]
                        ELSE <<In!Alternation([c \in DOMAIN cols |-> <<"shop", "users", cols[c]>>])>>],
                    <<>>) EXCEPT !.mysql = TRUE]>>
UsersOnly == <<<<"shop", "users">>>>
OrdersOnly == <<<<"shop", "orders">>>>
TwoDatabases == <<<<"shop", "users">>, <<"billing", "bills">>>>

MCCommits == {"c1", "c2"}

MCSnapshots ==
    {[source |-> Users("", <<"id">>), contract |-> Lists(UsersOnly, <<"id">>)],
     [source |-> Users("", <<"id", "email">>), contract |-> Lists(UsersOnly, <<"id", "email">>)],
     [source |-> Users("shop", <<"id", "email">>), contract |-> Lists(OrdersOnly, <<"id">>)],
     [source |-> Users("shop", <<"id">>), contract |-> <<>>],
     [source |-> <<>>, contract |-> Lists(UsersOnly, <<"id">>)],
     [source |-> Users("", <<"id">>), contract |-> Lists(TwoDatabases, <<"id">>)]}

Marker(line) ==
    [pos |-> In!At(File, line), rules |-> {"schema-before-connector"}, reason |-> TRUE,
     alone |-> FALSE]

MCTrees ==
    {[source |-> Users("", <<"id", "email", "ssn">>), contract |-> Lists(UsersOnly, <<"id">>),
      markers |-> <<Marker(3)>>],
     [source |-> Users("", <<"id", "ssn", "email">>), contract |-> Lists(UsersOnly, <<"id">>),
      markers |-> <<Marker(2)>>],
     [source |-> Users("shop", <<"id", "email">>), contract |-> Lists(TwoDatabases, <<"id">>),
      markers |-> <<>>],
     [source |-> Users("", <<"id">>), contract |-> Lists(TwoDatabases, <<"id">>), markers |-> <<>>],
     [source |-> Users("", <<"id">>), contract |-> <<>>, markers |-> <<>>]}
=============================================================================
