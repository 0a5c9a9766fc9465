--------------------------- MODULE MCMySQLReader ---------------------------
(* Statements for the MySQL reader, over databases shop and crm. *)
EXTENDS MySQLReader

M == INSTANCE MCReaders

CrmItems == M!Name("crm", "items")
Spare == M!Name("", "spare")

Common ==
    {M!Use("crm"), M!Use("shop"), M!Temporary,
     M!Create(M!Orders, FALSE, <<M!Column("a"), M!Column("b"), M!Key, M!GluedKey>>),
     M!Create(M!Orders, TRUE, <<M!Column("c")>>),
     M!Create(CrmItems, FALSE, <<M!Column("a")>>),
     M!Like(M!Items, M!Orders), M!Like(CrmItems, M!Orders),
     M!Query(M!Items, M!NoParenthesis),
     M!Alter(M!Orders, <<M!AddUnlessExists("b"), M!Drop("a"), M!AddKey(TRUE)>>),
     M!Alter(M!Orders, <<M!Rename("a", "c"), M!RenameTo(M!Items), M!Add("d")>>),
     M!Alter(CrmItems, <<M!Rename("a", "a")>>),
     M!Alter(CrmItems, <<M!RenameTo(M!Orders)>>),
     M!RenameTables(<<M!Pair(M!Orders, CrmItems)>>),
     M!RenameTables(<<M!Pair(M!Orders, Spare), M!Pair(M!Items, M!Orders), M!Pair(Spare, M!Items)>>),
     M!DropTables(<<M!Orders, CrmItems>>, TRUE),
     M!DropTables(<<M!Items>>, FALSE),
     M!Prepared(M!Alter(M!Orders, <<M!Add("b")>>)),
     M!Prepared(M!Alter(M!Orders, <<M!Drop("a")>>)),
     M!Prepared(M!Alter(CrmItems, <<M!Rename("a", "c")>>))}

ASSUME AllSupported == \A st \in Common : Supported(st)

MCConnections == {"shop", "crm"}
=============================================================================
