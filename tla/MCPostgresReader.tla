-------------------------- MODULE MCPostgresReader --------------------------
(* Statements for the PostgreSQL reader. *)
EXTENDS PostgresReader

M == INSTANCE MCReaders

Archived == M!Name("archive", "orders")

Common ==
    {M!Create(M!Orders, FALSE, <<M!Column("a"), M!Column("b"), M!Key>>),
     M!Create(M!Orders, TRUE, <<M!Column("c")>>),
     M!Create(Archived, TRUE, <<M!Column("a")>>),
     M!Alter(M!Orders, <<M!AddUnlessExists("b"), M!Drop("a")>>),
     M!Alter(M!Orders, <<M!Add("c"), M!AddKey(FALSE)>>),
     M!Alter(M!Orders, <<M!Rename("a", "c")>>),
     M!Alter(M!Orders, <<M!RenameTo(M!Items)>>),
     M!Alter(M!Items, <<M!Replica("full"), M!Drop("b")>>),
     M!Alter(Archived, <<M!RenameTo(M!Items)>>),
     M!Alter(Archived, <<M!Replica("using")>>),
     M!Query(M!Items, M!NoParenthesis),
     M!Partition(M!Items, M!Orders, M!NoParenthesis),
     M!DropTables(<<M!Orders, M!Items>>, TRUE),
     M!DropTables(<<Archived>>, FALSE)}

ASSUME AllSupported == \A st \in Common : Supported(st)

MCConnections == {"public"}

WithGluedKeys ==
    Common \cup {M!Create(M!Orders, FALSE, <<M!Column("a"), M!GluedKey>>),
                 M!Alter(M!Orders, <<M!AddKey(TRUE)>>)}
=============================================================================
