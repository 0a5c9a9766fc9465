---------------------------- MODULE PostgresProofs ----------------------------
(***************************************************************************)
(* The tables the PostgreSQL reader holds match the server's catalog after *)
(* any migrations of the statements it is for, however long: the theorems  *)
(* at the end.  The inductive invariant is Following: what the reader      *)
(* leaves out is what the runner does not run, and the tables and the      *)
(* catalog match.                                                          *)
(***************************************************************************)
EXTENDS PostgresReader, MigrationsProofs

Identities == {"default", "full", "nothing", "index"}

KnownIdentities(ts) == \A i \in 1..Len(ts) : ts[i].replica \in Identities

LEMMA Qualifying ==
    \A n : SplitQualified(n) = Place(DefaultSchema, n) /\ SplitQualified(n)[1] # ""
                             /\ SplitQualified(n) = <<SplitQualified(n)[1], n.name>>
BY DEF SplitQualified, Place, DefaultSchema

-----------------------------------------------------------------------------
(* CREATE TABLE. *)

(* What the server makes of a statement, as the reader takes it.           *)
IsNew(e, st, at) ==
    /\ IsEntry(e)
    /\ e.listed <=> st.form = "columns"
    /\ st.form = "columns" => e.cols = [x \in ItemNames(st.body[1]) |-> at] /\ e.replica = "default"

LEMMA NewEntry ==
    ASSUME NEW c, IsCatalog(c), NEW s, NEW st, st.op = "create", Supported(st), CreateLegal(c, s, st),
           Dialect = "postgres", NEW at
    PROVE  IsNew(NewTable(c, s, st, at), st, at)
<1> DEFINE e == NewTable(c, s, st, at)
           o == c[Place(s, st.of)]
<1>1. st.form \in {"columns", "like", "partition", "query"}
  BY DEF Supported
<1>2. CASE st.form = "columns"
  <2>1. e = [cols |-> [x \in ItemNames(st.body[1]) |-> at], listed |-> TRUE, replica |-> "default"]
    BY <1>2 DEF NewTable
  <2> QED
    BY <2>1, <1>2 DEF IsEntry, IsNew
<1>3. CASE st.form = "query"
  <2>1. e = [cols |-> NoTables, listed |-> FALSE, replica |-> "default"]
    BY <1>3 DEF NewTable
  <2> QED
    BY <2>1, <1>3 DEF IsEntry, IsNew
<1>4. CASE st.form \in {"like", "partition"}
  <2>1. IsEntry(o)
    BY <1>4 DEF CreateLegal, IsCatalog
  <2>2. o = [cols |-> o.cols, listed |-> o.listed, replica |-> o.replica]
    BY <2>1 DEF IsEntry
  <2>3. st.form = "like" => e = [o EXCEPT !.listed = o.listed /\ Dialect = "mysql", !.replica = "default"]
    BY DEF NewTable
  <2>4. st.form = "partition" => e = [o EXCEPT !.listed = FALSE, !.replica = "default"]
    BY DEF NewTable
  <2>5. (o.listed /\ Dialect = "mysql") = FALSE
    OBVIOUS
  <2> HIDE DEF e, o
  <2>6. e = [cols |-> o.cols, listed |-> FALSE, replica |-> "default"]
    BY <1>4, <2>2, <2>3, <2>4, <2>5
  <2>7. IsEntry(e) /\ ~e.listed
    BY <2>6 DEF IsEntry
  <2> QED
    BY <1>4, <2>7 DEF e, IsNew
<1> QED
  BY <1>1, <1>2, <1>3, <1>4

(* The columns of a column list, as the reader and the server have them.   *)
LEMMA ColumnsRead ==
    ASSUME NEW st, st.op = "create", Supported(st), st.form = "columns", NamesOnce(st.body[1]), NEW at
    PROVE  Lists(ColumnsListed(st.body[1], Keywords, at), [x \in ItemNames(st.body[1]) |-> at])
<1> DEFINE items == st.body[1]
           kept == {i \in 1..Len(items) : items[i].kind \notin Keywords}
<1>1. IsSequence(items) /\ \A i \in DOMAIN items : items[i].kind \in {"column", "key"}
  BY DEF Supported
<1>2. DOMAIN items = 1..Len(items)
  BY <1>1 DEF IsSequence
<1>3. \A i \in 1..Len(items) : items[i].kind \notin Keywords <=> items[i].kind = "column"
  BY <1>1, <1>2 DEF Keywords
<1>4. kept = {i \in DOMAIN items : items[i].kind = "column"}
  BY <1>2, <1>3
<1>5. \A j, k \in kept : items[j].name = items[k].name => j = k
  BY <1>4 DEF NamesOnce
<1>6. Lists(ColumnsListed(items, Keywords, at), [x \in {items[k].name : k \in kept} |-> at])
  <2> HIDE DEF items
  <2> QED
    BY <1>1, <1>5, ListRead
<1>7. {items[k].name : k \in kept} = ItemNames(items)
  <2>1. ToSet(items) = {items[i] : i \in DOMAIN items}
    BY DEF ToSet
  <2> QED
    BY <1>4, <2>1 DEF ItemNames
<1> QED
  BY <1>6, <1>7

LEMMA CreateMatches ==
    ASSUME Matches(tables, catalog), KnownIdentities(tables), Dialect = "postgres",
           NEW st, st.op = "create", Supported(st), CreateLegal(catalog, DefaultSchema, st), NEW at
    PROVE  /\ Matches(Created(st, at), CreateDone(catalog, DefaultSchema, st, at))
           /\ KnownIdentities(Created(st, at))
<1> DEFINE q == SplitQualified(st.name)
           d == CreateDone(catalog, DefaultSchema, st, at)
           e == NewTable(catalog, DefaultSchema, st, at)
           t == [schema |-> q[1], name |-> q[2], replica |-> "default", pos |-> at,
                 cols |-> ColumnsListed(st.body[1], Keywords, at)]
<1>1. q = Place(DefaultSchema, st.name) /\ q[1] # "" /\ q = <<q[1], st.name.name>> /\ q = <<q[1], q[2]>>
  BY Qualifying DEF SplitQualified
<1>2. d = IF q \in DOMAIN catalog THEN catalog ELSE Put(catalog, q, e)
  BY <1>1 DEF CreateDone
<1>3. /\ IsEntry(e) /\ (e.listed <=> st.form = "columns")
      /\ st.form = "columns" =>
            e.cols = [x \in ItemNames(st.body[1]) |-> at] /\ e.replica = "default"
  <2>1. IsCatalog(catalog)
    BY DEF Matches
  <2>2. IsNew(e, st, at)
    BY <2>1, NewEntry
  <2> QED
    BY <2>2 DEF IsNew
<1>4. IsTable(t) /\ Qualified(t) = q /\ t.replica = "default"
        /\ t.cols = ColumnsListed(st.body[1], Keywords, at)
  BY <1>1 DEF IsTable, Qualified
<1>5. Fits(t, e)
  <2>1. CASE st.form = "columns"
    <3>1. NamesOnce(st.body[1])
      BY <2>1 DEF CreateLegal
    <3>2. Lists(ColumnsListed(st.body[1], Keywords, at), [x \in ItemNames(st.body[1]) |-> at])
      BY <2>1, <3>1, ColumnsRead
    <3>3. Lists(t.cols, e.cols)
      BY <1>3, <1>4, <2>1, <3>2
    <3> QED
      BY <1>3, <1>4, <2>1, <3>3 DEF Fits
  <2>2. CASE st.form # "columns"
    BY <1>3, <2>2 DEF Fits
  <2> QED
    BY <2>1, <2>2
<1>6. Known(tables, q) => q \in DOMAIN catalog
  BY DEF Matches, Known
<1>7. /\ TableIndex(st.name) # 0 => Known(tables, q)
      /\ TableIndex(st.name) = 0 => ~Known(tables, q)
  <2>1. IsSequence(tables) /\ Len(tables) \in Nat
    BY DEF Matches, IsSequence
  <2>2. TableIndex(st.name) = SourceTable(tables, q[1], st.name.name)
    BY DEF TableIndex
  <2> DEFINE k == SourceTable(tables, q[1], st.name.name)
  <2>3. k \in 0..Len(tables) /\ (k # 0 => Qualified(tables[k]) = q) /\ (k = 0 => ~Known(tables, q))
    BY <1>1, <2>1, SourceTableFacts
  <2> HIDE DEF k, q
  <2>4. k # 0 => k \in 1..Len(tables)
    BY <2>1, <2>3, Indices
  <2> QED
    BY <2>2, <2>3, <2>4 DEF Known, k
<1>8. CASE st.body = <<>> \/ TableIndex(st.name) # 0
  <2>1. Created(st, at) = tables
    BY <1>8 DEF Created
  <2>2. CASE q \in DOMAIN catalog
    BY <1>2, <2>1, <2>2
  <2>3. CASE q \notin DOMAIN catalog
    <3>1. st.body = <<>> /\ ~Known(tables, q)
      BY <1>6, <1>7, <1>8, <2>3
    <3>2. ~e.listed
      BY <1>3, <3>1 DEF Supported
    <3> HIDE DEF q, e, d
    <3>3. Matches(tables, Put(catalog, q, e))
      BY <1>3, <3>1, <3>2, MatchesPut
    <3> QED
      BY <1>2, <2>1, <2>3, <3>3 DEF d
  <2> QED
    BY <2>2, <2>3
<1>9. CASE ~(st.body = <<>> \/ TableIndex(st.name) # 0)
  <2>1. Created(st, at) = Append(tables, t)
    BY <1>9 DEF Created
  <2>2. ~Known(tables, Qualified(t))
    BY <1>4, <1>7, <1>9
  <2> HIDE DEF q, e, d, t
  <2>3. \/ Qualified(t) \in DOMAIN catalog /\ d = catalog
        \/ /\ Qualified(t) \notin DOMAIN catalog /\ d = Put(catalog, Qualified(t), e)
           /\ IsEntry(e) /\ Fits(t, e)
    BY <1>2, <1>3, <1>4, <1>5
  <2>4. Matches(Append(tables, t), d)
    BY <1>4, <2>2, <2>3, MatchesAppend
  <2>5. KnownIdentities(Append(tables, t))
    <3>1. /\ Len(Append(tables, t)) = Len(tables) + 1 /\ Len(tables) \in Nat
          /\ \A i \in 1..Len(tables) : Append(tables, t)[i] = tables[i]
          /\ Append(tables, t)[Len(tables) + 1] = t
      BY AppendFacts DEF Matches, IsSequence
    <3>2. \A i \in 1..(Len(tables) + 1) : i \in 1..Len(tables) \/ i = Len(tables) + 1
      BY <3>1
    <3> QED
      BY <1>4, <3>1, <3>2 DEF KnownIdentities, Identities
  <2> QED
    BY <2>1, <2>4, <2>5 DEF d
<1> QED
  BY <1>8, <1>9

-----------------------------------------------------------------------------
(* ALTER TABLE. *)

(* The table after each action of a statement exists, the last being the   *)
(* one Acted gives.                                                        *)
LEMMA ActionsFollow ==
    ASSUME NEW t, NEW actions, Len(actions) \in Nat, NEW at
    PROVE  \E after : /\ after = [k \in 0..Len(actions) |->
                                    IF k = 0 THEN t ELSE Act(after[k - 1], actions[k], at)]
                      /\ Acted(t, actions, at) = after[Len(actions)]
<1> DEFINE Step(f, k) == IF k = 0 THEN t ELSE Act(f[k - 1], actions[k], at)
           IsTrace(f, n) == f = [k \in 0..n |-> Step(f, k)]
           S == {n \in Nat : \E f : IsTrace(f, n)}
           N == Len(actions)
<1>1. 0 \in S
  <2> DEFINE f == [k \in 0..0 |-> t]
  <2>1. IsTrace(f, 0)
    OBVIOUS
  <2> QED
    BY <2>1
<1>2. ASSUME NEW n \in Nat, n \in S PROVE n + 1 \in S
  <2>1. PICK f : IsTrace(f, n)
    BY <1>2
  <2> DEFINE g == [k \in 0..(n + 1) |-> IF k = n + 1 THEN Step(f, n + 1) ELSE f[k]]
  <2>2. \A k \in 0..(n + 1) : k # 0 => k - 1 \in 0..n /\ k - 1 \in 0..(n + 1) /\ k - 1 # n + 1
    OBVIOUS
  <2>3. \A k \in 0..(n + 1) : k # 0 => g[k - 1] = f[k - 1]
    BY <2>2
  <2>4. \A k \in 0..(n + 1) : Step(g, k) = Step(f, k)
    BY <2>3
  <2>5. \A k \in 0..n : f[k] = Step(f, k)
    BY <2>1
  <2>6. \A k \in 0..(n + 1) : g[k] = Step(g, k)
    BY <2>4, <2>5
  <2>7. IsTrace(g, n + 1)
    BY <2>6
  <2>8. \E x : IsTrace(x, n + 1)
    BY <2>7, Zenon
  <2> QED
    BY <2>8
<1>3. N \in S
  <2> HIDE DEF S
  <2> QED
    BY <1>1, <1>2, SetInduction
<1>4. PICK f : IsTrace(f, N)
  BY <1>3
<1> DEFINE after == CHOOSE x : IsTrace(x, N)
<1>5. IsTrace(after, N)
  BY <1>4
<1>6. Acted(t, actions, at) = after[N]
  BY DEF Acted
<1> QED
  BY <1>5, <1>6

(* What k actions have made of a table: its name and its identity are its  *)
(* own until the clause that sets them, and that clause's from then on.    *)
NameBy(u, t, st, k) ==
    /\ (\A j \in 1..k : st.actions[j].op # "renametable") => u.name = t.name
    /\ \A j \in 1..k : st.actions[j].op = "renametable" => u.name = st.actions[j].to.name

IdentityBy(u, t, st, k) ==
    /\ (\A j \in 1..k : st.actions[j].op # "replica") => u.replica = t.replica
    /\ \A j \in 1..k : st.actions[j].op = "replica" => u.replica = ReplicaOf(st.actions[j].to)

ActedBy(u, t, e, st, k, at) ==
    /\ IsTable(u) /\ u.schema = t.schema /\ u.replica \in Identities
    /\ NameBy(u, t, st, k) /\ IdentityBy(u, t, st, k)
    /\ e.listed => Lists(u.cols, ColsBy(e, st, k, at))

LEMMA NameKept ==
    ASSUME NEW u, NEW t, NEW st, NEW k \in Nat, NameBy(u, t, st, k), NEW v, v.name = u.name,
           st.actions[k + 1].op # "renametable"
    PROVE  NameBy(v, t, st, k + 1)
<1>1. 1..(k + 1) = (1..k) \cup {k + 1}
  OBVIOUS
<1> QED
  BY <1>1 DEF NameBy

LEMMA NameSet ==
    ASSUME NEW t, NEW st, NEW k \in Nat, NEW v, v.name = st.actions[k + 1].to.name,
           st.actions[k + 1].op = "renametable",
           \A j \in 1..k : st.actions[j].op # "renametable"
    PROVE  NameBy(v, t, st, k + 1)
<1>1. 1..(k + 1) = (1..k) \cup {k + 1}
  OBVIOUS
<1> QED
  BY <1>1 DEF NameBy

LEMMA IdentityKept ==
    ASSUME NEW u, NEW t, NEW st, NEW k \in Nat, IdentityBy(u, t, st, k), NEW v, v.replica = u.replica,
           st.actions[k + 1].op # "replica"
    PROVE  IdentityBy(v, t, st, k + 1)
<1>1. 1..(k + 1) = (1..k) \cup {k + 1}
  OBVIOUS
<1> QED
  BY <1>1 DEF IdentityBy

LEMMA IdentitySet ==
    ASSUME NEW t, NEW st, NEW k \in Nat, NEW v, v.replica = ReplicaOf(st.actions[k + 1].to),
           st.actions[k + 1].op = "replica",
           \A j \in 1..k : st.actions[j].op # "replica"
    PROVE  IdentityBy(v, t, st, k + 1)
<1>1. 1..(k + 1) = (1..k) \cup {k + 1}
  OBVIOUS
<1> QED
  BY <1>1 DEF IdentityBy

LEMMA ActsBy ==
    ASSUME NEW st, st.op = "alter", Supported(st), SetOnce(st), NEW t, NEW e,
           e.listed => LegalClauses(e, st), NEW at,
           NEW k \in Nat, k + 1 \in 1..Len(st.actions), NEW u, ActedBy(u, t, e, st, k, at)
    PROVE  ActedBy(Act(u, st.actions[k + 1], at), t, e, st, k + 1, at)
<1> DEFINE a == st.actions[k + 1]
           v == Act(u, a, at)
<1>1. /\ IsSequence(st.actions)
      /\ a.op = "addkey" => ~a.glued
      /\ a.op = "replica" => a.to \in {"default", "full", "nothing", "using"}
  BY DEF Supported, IsSequence
<1>2. /\ IsTable(u) /\ u.schema = t.schema /\ u.replica \in Identities
      /\ NameBy(u, t, st, k) /\ IdentityBy(u, t, st, k)
  BY DEF ActedBy
<1>3. /\ a.op = "add" => v = AddColumn(u, a.col, at)
      /\ a.op = "drop" => v = RemoveColumn(u, a.col)
      /\ a.op = "rename" => v = RenameColumn(u, a.col, a.to, at)
      /\ a.op = "renametable" => v = [u EXCEPT !.name = a.to.name]
      /\ a.op = "replica" => v = [u EXCEPT !.replica = ReplicaOf(a.to)]
      /\ a.op \notin OnColumns \cup {"renametable", "replica"} => v = u
  BY <1>1 DEF Act, OnColumns
<1>4. ASSUME e.listed
      PROVE  LET f == ColsBy(e, st, k + 1, at)
             IN  /\ a.op = "add" => Lists(AddColumn(u, a.col, at).cols, f)
                 /\ a.op = "drop" => Lists(RemoveColumn(u, a.col).cols, f)
                 /\ a.op = "rename" => Lists(RenameColumn(u, a.col, a.to, at).cols, f)
                 /\ a.op \notin OnColumns => Lists(u.cols, f)
  <2>1. Lists(u.cols, ColsBy(e, st, k, at)) /\ LegalClauses(e, st)
    BY <1>4 DEF ActedBy
  <2> QED
    BY <1>2, <2>1, ClauseLists
<1>5. u = [schema |-> u.schema, name |-> u.name, replica |-> u.replica, pos |-> u.pos, cols |-> u.cols]
  BY <1>2 DEF IsTable
<1>6. k + 1 \in 1..Len(st.actions)
  OBVIOUS
<1> HIDE DEF v
<1>7. CASE a.op \in OnColumns
  <2>1. SameTable(u, v)
    BY <1>2, <1>3, <1>7, EditsKeepTable DEF OnColumns
  <2>2. IsTable(v) /\ v.schema = u.schema /\ v.name = u.name /\ v.replica = u.replica
    BY <2>1 DEF SameTable
  <2>3. a.op # "renametable" /\ a.op # "replica"
    BY <1>7 DEF OnColumns
  <2>4. NameBy(v, t, st, k + 1)
    BY <1>2, <2>2, <2>3, NameKept
  <2>5. IdentityBy(v, t, st, k + 1)
    BY <1>2, <2>2, <2>3, IdentityKept
  <2>6. e.listed => Lists(v.cols, ColsBy(e, st, k + 1, at))
    BY <1>3, <1>4, <1>7 DEF OnColumns
  <2> QED
    BY <1>2, <2>2, <2>4, <2>5, <2>6 DEF ActedBy, v
<1>8. CASE a.op = "renametable"
  <2>1. v = [schema |-> u.schema, name |-> a.to.name, replica |-> u.replica, pos |-> u.pos, cols |-> u.cols]
    BY <1>3, <1>5, <1>8
  <2>2. IsTable(v) /\ v.schema = u.schema /\ v.name = a.to.name /\ v.replica = u.replica /\ v.cols = u.cols
    BY <2>1 DEF IsTable
  <2>3. \A j \in 1..k : st.actions[j].op # "renametable"
    BY <1>1, <1>8, FirstToSet
  <2>4. NameBy(v, t, st, k + 1)
    BY <1>8, <2>2, <2>3, NameSet
  <2>5. IdentityBy(v, t, st, k + 1)
    BY <1>2, <1>8, <2>2, IdentityKept
  <2>6. e.listed => Lists(v.cols, ColsBy(e, st, k + 1, at))
    BY <1>4, <1>8, <2>2 DEF OnColumns
  <2> QED
    BY <1>2, <2>2, <2>4, <2>5, <2>6 DEF ActedBy, v
<1>9. CASE a.op = "replica"
  <2>1. v = [schema |-> u.schema, name |-> u.name, replica |-> ReplicaOf(a.to), pos |-> u.pos, cols |-> u.cols]
    BY <1>3, <1>5, <1>9
  <2>2. IsTable(v) /\ v.schema = u.schema /\ v.name = u.name /\ v.replica = ReplicaOf(a.to) /\ v.cols = u.cols
    BY <2>1 DEF IsTable
  <2>3. \A j \in 1..k : st.actions[j].op # "replica"
    BY <1>1, <1>9, FirstToSet
  <2>4. NameBy(v, t, st, k + 1)
    BY <1>2, <1>9, <2>2, NameKept
  <2>5. IdentityBy(v, t, st, k + 1)
    BY <1>9, <2>2, <2>3, IdentitySet
  <2>6. e.listed => Lists(v.cols, ColsBy(e, st, k + 1, at))
    BY <1>4, <1>9, <2>2 DEF OnColumns
  <2>7. v.replica \in Identities
    BY <1>1, <1>9, <2>2 DEF ReplicaOf, Identities
  <2> QED
    BY <1>2, <2>2, <2>4, <2>5, <2>6, <2>7 DEF ActedBy, v
<1>10. CASE a.op \notin OnColumns \cup {"renametable", "replica"}
  <2>1. v = u
    BY <1>3, <1>10
  <2>2. NameBy(v, t, st, k + 1)
    BY <1>2, <1>10, <2>1, NameKept
  <2>3. IdentityBy(v, t, st, k + 1)
    BY <1>2, <1>10, <2>1, IdentityKept
  <2>4. e.listed => Lists(v.cols, ColsBy(e, st, k + 1, at))
    BY <1>4, <1>10, <2>1
  <2> QED
    BY <1>2, <2>1, <2>2, <2>3, <2>4 DEF ActedBy, v
<1> QED
  BY <1>7, <1>8, <1>9, <1>10

LEMMA ActedFits ==
    ASSUME NEW st, st.op = "alter", Supported(st), SetOnce(st), NEW t, IsTable(t), t.replica \in Identities,
           NEW e, Fits(t, e), e.listed => LegalClauses(e, st), NEW at
    PROVE  ActedBy(Acted(t, st.actions, at), t, e, st, Len(st.actions), at)
<1> DEFINE N == Len(st.actions)
<1>1. IsSequence(st.actions) /\ N \in Nat
  BY DEF Supported, IsSequence
<1>2. PICK after : /\ after = [k \in 0..N |-> IF k = 0 THEN t ELSE Act(after[k - 1], st.actions[k], at)]
                   /\ Acted(t, st.actions, at) = after[N]
  BY <1>1, ActionsFollow
<1> DEFINE S == {k \in 0..N : ActedBy(after[k], t, e, st, k, at)}
<1>3. 0 \in S
  <2>1. after[0] = t
    BY <1>1, <1>2
  <2>2. NameBy(t, t, st, 0) /\ IdentityBy(t, t, st, 0)
    BY DEF NameBy, IdentityBy
  <2>3. e.listed => Lists(t.cols, ColsBy(e, st, 0, at))
    BY NoClause DEF Fits
  <2>4. ActedBy(t, t, e, st, 0, at)
    BY <2>2, <2>3 DEF ActedBy
  <2> QED
    BY <1>1, <2>1, <2>4
<1>4. ASSUME NEW k \in 0..N, k < N, k \in S PROVE k + 1 \in S
  <2>1. k + 1 \in 0..N /\ k + 1 \in 1..N /\ k + 1 # 0 /\ (k + 1) - 1 = k /\ k \in Nat
    BY <1>1, <1>4
  <2>2. after[k + 1] = Act(after[(k + 1) - 1], st.actions[k + 1], at)
    BY <1>2, <2>1
  <2>3. after[k + 1] = Act(after[k], st.actions[k + 1], at)
    BY <2>1, <2>2
  <2>4. ActedBy(after[k], t, e, st, k, at)
    BY <1>4
  <2>5. ActedBy(Act(after[k], st.actions[k + 1], at), t, e, st, k + 1, at)
    BY <2>1, <2>4, ActsBy
  <2> QED
    BY <2>1, <2>3, <2>5
<1>5. N \in S
  <2> HIDE DEF S
  <2> QED
    BY <1>1, <1>3, <1>4, BoundedInduction
<1> QED
  BY <1>2, <1>5

(* After the last clause, the table has the name and the identity the      *)
(* server gives its own.                                                   *)
LEMMA LastClause ==
    ASSUME Dialect = "postgres", NEW c, NEW s, NEW st, IsSequence(st.actions), SetOnce(st),
           NEW t, Qualified(t) = Place(s, st.name), NEW e, IsEntry(e), Fits(t, e), NEW at,
           NEW u, ActedBy(u, t, e, st, Len(st.actions), at)
    PROVE  Qualified(u) = NameAfter(c, s, st) /\ Fits(u, Altered(e, st, at))
<1> DEFINE N == Len(st.actions)
<1>1. DOMAIN st.actions = 1..N
  BY DEF IsSequence
<1>2. /\ u.schema = t.schema /\ NameBy(u, t, st, N) /\ IdentityBy(u, t, st, N)
      /\ e.listed => Lists(u.cols, ColsBy(e, st, N, at))
  BY DEF ActedBy
<1>3. \A op : Clauses(st, op) = {k \in 1..N : st.actions[k].op = op}
  BY <1>1 DEF Clauses
<1>4. Qualified(u) = NameAfter(c, s, st)
  <2>1. CASE Clauses(st, "renametable") = {}
    <3>1. u.name = t.name
      BY <1>2, <1>3, <2>1 DEF NameBy
    <3>2. Targets(c, s, st) = {}
      BY <2>1 DEF Targets
    <3> QED
      BY <1>2, <3>1, <3>2 DEF Qualified, NameAfter
  <2>2. CASE Clauses(st, "renametable") # {}
    <3>1. PICK k \in 1..N : st.actions[k].op = "renametable"
      BY <1>3, <2>2
    <3>2. Clauses(st, "renametable") = {k}
      BY <3>1, SetOnceFacts
    <3> DEFINE p == NewPlace(s, Place(s, st.name), st.actions[k].to)
    <3>3. Targets(c, s, st) = {p}
      BY <3>2 DEF Targets
    <3>4. p = <<t.schema, st.actions[k].to.name>>
      BY DEF NewPlace, Qualified
    <3>5. u.name = st.actions[k].to.name
      BY <1>2, <3>1 DEF NameBy
    <3> HIDE DEF p
    <3>6. NameAfter(c, s, st) = p
      BY <3>3 DEF NameAfter
    <3> QED
      BY <1>2, <3>4, <3>5, <3>6 DEF Qualified
  <2> QED
    BY <2>1, <2>2
<1>5. ASSUME e.listed PROVE u.replica \in {"", IdentityAfter(e, st)}
  <2>0. t.replica \in {"", e.replica}
    BY <1>5 DEF Fits
  <2>1. CASE Clauses(st, "replica") = {}
    <3>1. u.replica = t.replica
      BY <1>2, <1>3, <2>1 DEF IdentityBy
    <3>2. ReplicaAsked(st) = {}
      BY <2>1 DEF ReplicaAsked
    <3> QED
      BY <2>0, <3>1, <3>2 DEF IdentityAfter
  <2>2. CASE Clauses(st, "replica") # {}
    <3>1. PICK k \in 1..N : st.actions[k].op = "replica"
      BY <1>3, <2>2
    <3>2. Clauses(st, "replica") = {k}
      BY <3>1, SetOnceFacts
    <3> DEFINE w == ReplicaOf(st.actions[k].to)
    <3>3. ReplicaAsked(st) = {w}
      BY <3>2 DEF ReplicaAsked, ReplicaOf
    <3>4. u.replica = w
      BY <1>2, <3>1 DEF IdentityBy
    <3> HIDE DEF w
    <3>5. IdentityAfter(e, st) = w
      BY <3>3 DEF IdentityAfter
    <3> QED
      BY <3>4, <3>5
  <2> QED
    BY <2>1, <2>2
<1>6. /\ Altered(e, st, at).listed = e.listed
      /\ Altered(e, st, at).replica = IdentityAfter(e, st)
  BY AlteredEntry
<1>7. e.listed => Lists(u.cols, Altered(e, st, at).cols)
  BY <1>2, EveryClause
<1>8. Fits(u, Altered(e, st, at))
  BY <1>5, <1>6, <1>7 DEF Fits
<1> QED
  BY <1>4, <1>8

LEMMA AlterStatementMatches ==
    ASSUME Matches(tables, catalog), KnownIdentities(tables), Dialect = "postgres",
           NEW st, st.op = "alter", Supported(st), AlterLegal(catalog, DefaultSchema, st), NEW at
    PROVE  /\ Matches(Changed(st, at), AlterDone(catalog, DefaultSchema, st, at))
           /\ KnownIdentities(Changed(st, at))
<1> DEFINE q == SplitQualified(st.name)
           d == AlterDone(catalog, DefaultSchema, st, at)
           e == catalog[q]
           i == TableIndex(st.name)
           u == Acted(tables[i], st.actions, at)
           p == NameAfter(catalog, DefaultSchema, st)
<1>1. q = Place(DefaultSchema, st.name) /\ q[1] # "" /\ q = <<q[1], st.name.name>>
  BY Qualifying
<1>2. q \in DOMAIN catalog /\ (p = q \/ p \notin DOMAIN catalog)
  BY <1>1, NewNameFree
<1>3. i \in 0..Len(tables) /\ (i # 0 => Qualified(tables[i]) = q) /\ (i = 0 => ~Known(tables, q))
  <2>1. IsSequence(tables)
    BY DEF Matches
  <2> QED
    BY <1>1, <2>1, SourceTableFacts DEF TableIndex
<1>4. Len(tables) \in Nat /\ IsSequence(tables) /\ IsEntry(e) /\ IsSequence(st.actions) /\ SetOnce(st)
  BY <1>2 DEF Matches, IsCatalog, IsSequence, Supported, AlterLegal
<1>5. CASE i = 0
  <2>1. Changed(st, at) = tables
    BY <1>5 DEF Changed
  <2>2. Matches(tables, d)
    BY <1>1, <1>2, <1>3, <1>5, AlterUnknown
  <2> QED
    BY <2>1, <2>2
<1>6. CASE i # 0
  <2>1. i \in 1..Len(tables) /\ Qualified(tables[i]) = q
    BY <1>3, <1>4, <1>6, Indices
  <2>2. IsTable(tables[i]) /\ Fits(tables[i], e) /\ tables[i].replica \in Identities
    <3>1. IsTable(tables[i]) /\ Fits(tables[i], catalog[Qualified(tables[i])])
      BY <2>1 DEF Matches
    <3> QED
      BY <2>1, <3>1 DEF KnownIdentities
  <2>3. e.listed => LegalClauses(e, st)
    BY <1>1, <1>4, ServerAccepts
  <2> HIDE DEF e, i, q, p
  <2>4. ActedBy(u, tables[i], e, st, Len(st.actions), at)
    BY <1>4, <2>2, <2>3, ActedFits
  <2>5. IsTable(u) /\ u.replica \in Identities
    BY <2>4 DEF ActedBy
  <2> HIDE DEF u
  <2>6. Qualified(u) = p /\ Fits(u, Altered(e, st, at))
    <3>1. Qualified(u) = NameAfter(catalog, DefaultSchema, st) /\ Fits(u, Altered(e, st, at))
      BY <1>1, <1>4, <2>1, <2>2, <2>4, LastClause
    <3> QED
      BY <3>1 DEF p
  <2>7. Changed(st, at) = [tables EXCEPT ![i] = u]
    BY <1>6 DEF Changed, u, i
  <2>8. Matches([tables EXCEPT ![i] = u], d)
    <3>1. Place(DefaultSchema, st.name) \in DOMAIN catalog /\ Qualified(tables[i]) = Place(DefaultSchema, st.name)
      BY <1>1, <1>2, <2>1
    <3>2. \/ NameAfter(catalog, DefaultSchema, st) \in {Place(DefaultSchema, st.name)}
          \/ NameAfter(catalog, DefaultSchema, st) \notin DOMAIN catalog
      BY <1>1, <1>2 DEF p
    <3>3. Qualified(u) = NameAfter(catalog, DefaultSchema, st)
      BY <2>6 DEF p
    <3>4. Fits(u, Altered(catalog[Place(DefaultSchema, st.name)], st, at))
      BY <1>1, <2>6 DEF e
    <3> QED
      BY <2>1, <2>5, <3>1, <3>2, <3>3, <3>4, AlterMatches
  <2>9. KnownIdentities([tables EXCEPT ![i] = u])
    <3>1. /\ Len([tables EXCEPT ![i] = u]) = Len(tables)
          /\ \A j \in 1..Len(tables) : [tables EXCEPT ![i] = u][j] = IF j = i THEN u ELSE tables[j]
      BY <1>4, <2>1, ReplaceFacts
    <3> QED
      BY <2>5, <3>1 DEF KnownIdentities
  <2> QED
    BY <2>7, <2>8, <2>9
<1> QED
  BY <1>5, <1>6

-----------------------------------------------------------------------------
(* DROP TABLE. *)

(* The tables after each name of a statement.                              *)
LEMMA DropsFollow ==
    ASSUME NEW ts, NEW names, Len(names) \in Nat
    PROVE  \E after : /\ after = [k \in 0..Len(names) |->
                                    IF k = 0 THEN ts ELSE RemoveTable(after[k - 1], SplitQualified(names[k]))]
                      /\ DroppedFrom(ts, names) = after[Len(names)]
<1> DEFINE Step(f, k) == IF k = 0 THEN ts ELSE RemoveTable(f[k - 1], SplitQualified(names[k]))
           IsTrace(f, n) == f = [k \in 0..n |-> Step(f, k)]
           S == {n \in Nat : \E f : IsTrace(f, n)}
           N == Len(names)
<1>1. 0 \in S
  <2> DEFINE f == [k \in 0..0 |-> ts]
  <2>1. IsTrace(f, 0)
    OBVIOUS
  <2> QED
    BY <2>1
<1>2. ASSUME NEW n \in Nat, n \in S PROVE n + 1 \in S
  <2>1. PICK f : IsTrace(f, n)
    BY <1>2
  <2> DEFINE g == [k \in 0..(n + 1) |-> IF k = n + 1 THEN Step(f, n + 1) ELSE f[k]]
  <2>2. \A k \in 0..(n + 1) : k # 0 => k - 1 \in 0..n /\ k - 1 \in 0..(n + 1) /\ k - 1 # n + 1
    OBVIOUS
  <2>3. \A k \in 0..(n + 1) : k # 0 => g[k - 1] = f[k - 1]
    BY <2>2
  <2>4. \A k \in 0..(n + 1) : Step(g, k) = Step(f, k)
    BY <2>3
  <2>5. \A k \in 0..n : f[k] = Step(f, k)
    BY <2>1
  <2>6. \A k \in 0..(n + 1) : g[k] = Step(g, k)
    BY <2>4, <2>5
  <2>7. IsTrace(g, n + 1)
    BY <2>6
  <2>8. \E x : IsTrace(x, n + 1)
    BY <2>7, Zenon
  <2> QED
    BY <2>8
<1>3. N \in S
  <2> HIDE DEF S
  <2> QED
    BY <1>1, <1>2, SetInduction
<1>4. PICK f : IsTrace(f, N)
  BY <1>3
<1> DEFINE after == CHOOSE x : IsTrace(x, N)
<1>5. IsTrace(after, N)
  BY <1>4
<1>6. DroppedFrom(ts, names) = after[N]
  BY DEF DroppedFrom
<1> QED
  BY <1>5, <1>6

LEMMA DropMatches ==
    ASSUME NEW ts, NEW c, Matches(ts, c), KnownIdentities(ts),
           NEW st, st.op = "drop", Supported(st)
    PROVE  /\ Matches(DroppedFrom(ts, st.names), Without(c, Dropped(DefaultSchema, st)))
           /\ KnownIdentities(DroppedFrom(ts, st.names))
<1> DEFINE N == Len(st.names)
           Gone(k) == {SplitQualified(st.names[j]) : j \in 1..k}
<1>1. IsSequence(st.names) /\ N \in Nat
  BY DEF Supported, IsSequence
<1>2. PICK after :
         /\ after = [k \in 0..N |-> IF k = 0 THEN ts ELSE RemoveTable(after[k - 1], SplitQualified(st.names[k]))]
         /\ DroppedFrom(ts, st.names) = after[N]
  <2> DEFINE names == st.names
  <2>1. Len(names) \in Nat
    BY <1>1
  <2> HIDE DEF names, Gone
  <2>2. \E after :
         /\ after = [k \in 0..Len(names) |-> IF k = 0 THEN ts ELSE RemoveTable(after[k - 1], SplitQualified(names[k]))]
         /\ DroppedFrom(ts, names) = after[Len(names)]
    BY <2>1, DropsFollow
  <2> QED
    BY <2>2 DEF names
<1> DEFINE S == {k \in 0..N : Matches(after[k], Without(c, Gone(k))) /\ KnownIdentities(after[k])}
<1>3. 0 \in S
  <2>1. after[0] = ts
    BY <1>1, <1>2
  <2>2. Gone(0) = {}
    OBVIOUS
  <2>3. Without(c, {}) = c
    BY WithoutNone DEF Matches
  <2>4. Matches(after[0], Without(c, Gone(0))) /\ KnownIdentities(after[0])
    BY <2>1, <2>2, <2>3
  <2>5. 0 \in 0..N
    BY <1>1
  <2> QED
    BY <2>4, <2>5
<1>4. ASSUME NEW k \in 0..N, k < N, k \in S PROVE k + 1 \in S
  <2> DEFINE q == SplitQualified(st.names[k + 1])
             d == Without(c, Gone(k))
             old == after[k]
             new == RemoveTable(old, q)
  <2>1. k + 1 \in 0..N /\ k + 1 # 0 /\ (k + 1) - 1 = k
    BY <1>1, <1>4
  <2>2. after[k + 1] = new
    <3>1. after[k + 1] = RemoveTable(after[(k + 1) - 1], SplitQualified(st.names[k + 1]))
      BY <1>2, <2>1
    <3> QED
      BY <2>1, <3>1
  <2>3. Matches(old, d) /\ KnownIdentities(old)
    BY <1>4
  <2>4. Gone(k + 1) = Gone(k) \cup {q}
    <3>1. 1..(k + 1) = (1..k) \cup {k + 1}
      OBVIOUS
    <3> QED
      BY <3>1
  <2>5. q[1] # "" /\ q = <<q[1], q[2]>>
    BY DEF SplitQualified, DefaultSchema
  <2>6. Without(c, Gone(k + 1)) = Without(d, {q})
    <3>1. \A S1, x : Without(Without(c, S1), {x}) = Without(c, S1 \cup {x})
      BY WithoutBoth
    <3>2. Without(Without(c, Gone(k)), {q}) = Without(c, Gone(k) \cup {q})
      BY <3>1
    <3> QED
      BY <2>4, <3>2
  <2> HIDE DEF q, d, old, new, Gone
  <2>7. /\ Matches(RemoveTable(old, <<q[1], q[2]>>), Without(d, {<<q[1], q[2]>>}))
        /\ Among(RemoveTable(old, <<q[1], q[2]>>), old)
    BY <2>3, <2>5, MatchesRemove
  <2>8. Matches(new, Without(d, {q})) /\ Among(new, old)
    BY <2>5, <2>7 DEF new
  <2>9. KnownIdentities(new)
    BY <2>3, <2>8 DEF KnownIdentities, Among
  <2> QED
    BY <2>1, <2>2, <2>6, <2>8, <2>9
<1>5. N \in S
  <2> HIDE DEF S
  <2> QED
    BY <1>1, <1>3, <1>4, BoundedInduction
<1>6. Gone(N) = Dropped(DefaultSchema, st)
  <2>1. ToSet(st.names) = {st.names[j] : j \in 1..N}
    BY <1>1 DEF ToSet, IsSequence
  <2>2. \A n : SplitQualified(n) = Place(DefaultSchema, n)
    BY Qualifying
  <2> QED
    BY <2>1, <2>2 DEF Dropped
<1> QED
  BY <1>2, <1>5, <1>6

-----------------------------------------------------------------------------
(* The reader beside the runner. *)

(* What a runner is connected to, and what its migrations are made of.     *)
ForPostgres ==
    /\ Dialect = "postgres" /\ Connections = {DefaultSchema}
    /\ \A st \in Statements : Supported(st)

(* The inductive invariant.  The properties say nothing of tables whose    *)
(* columns the files do not list, nor of where a table was in the list;    *)
(* an edit of a table rests on both, and on the tables being sequences.    *)
Following ==
    /\ Walked /\ session = DefaultSchema
    /\ Matches(tables, catalog) /\ KnownIdentities(tables)

LEMMA FollowingStarts ==
    ASSUME ForPostgres, Init
    PROVE  Following
<1>1. Walked /\ session \in Connections /\ catalog = NoTables /\ tables = <<>>
  BY WalkStarts DEF Init
<1>2. Matches(<<>>, NoTables)
  BY NothingMatches
<1>3. KnownIdentities(<<>>)
  BY DEF KnownIdentities
<1> QED
  BY <1>1, <1>2, <1>3 DEF Following, ForPostgres

(* A statement of the half that neither of them takes, and of the other.   *)
LEMMA FollowingExecutes ==
    ASSUME ForPostgres, Following, NEW st \in Statements, st.op \in {"create", "alter", "drop"},
           Execute(st), NEW result, Read(result),
           ~LeftOut /\ Legal(catalog, DefaultSchema, st) =>
               /\ Matches(result, Done(catalog, DefaultSchema, st, At)) /\ KnownIdentities(result)
    PROVE  Following'
<1>1. Walked'
  BY WalkExecutes DEF Following
<1>2. session' = DefaultSchema
  BY DEF Following, Execute, SessionAfter
<1>3. LeftOut <=> half = "down"
  BY DEF Following, Walked
<1>4. half \in {"up", "down"}
  BY DEF Following, Walked
<1>5. CASE half = "down"
  <2>1. tables' = tables /\ catalog' = catalog
    BY <1>3, <1>5 DEF Read, Execute
  <2>2. Matches(tables', catalog') /\ KnownIdentities(tables')
    BY <2>1 DEF Following
  <2> QED
    BY <1>1, <1>2, <2>2 DEF Following
<1>6. CASE half = "up"
  <2>1. tables' = result
    BY <1>3, <1>6 DEF Read
  <2>2. Legal(catalog, DefaultSchema, st)
    BY <1>6 DEF Execute, Allowed, Following
  <2>3. catalog' = Done(catalog, DefaultSchema, st, At)
    BY <1>6 DEF Execute, Executed, Following
  <2>4. Matches(result, catalog') /\ KnownIdentities(result)
    BY <1>3, <1>6, <2>2, <2>3
  <2>5. Matches(tables', catalog') /\ KnownIdentities(tables')
    BY <2>1, <2>4
  <2> QED
    BY <1>1, <1>2, <2>5 DEF Following
<1> QED
  BY <1>4, <1>5, <1>6

LEMMA FollowingStays ==
    ASSUME Following, Walked', tables' = tables, catalog' = catalog, session' = session
    PROVE  Following'
BY DEF Following

LEMMA FollowingSteps ==
    ASSUME ForPostgres, Following, [Next]_vars
    PROVE  Following'
<1>0. Walked /\ Matches(tables, catalog) /\ KnownIdentities(tables) /\ Dialect = "postgres"
  BY DEF Following, ForPostgres
<1>1. CASE CreateTable
  <2>1. PICK st \in Statements : st.op = "create" /\ Execute(st) /\ Read(Created(st, At))
    BY <1>1 DEF CreateTable
  <2>2. Supported(st)
    BY DEF ForPostgres
  <2>3. ASSUME Legal(catalog, DefaultSchema, st)
        PROVE  /\ Matches(Created(st, At), Done(catalog, DefaultSchema, st, At))
               /\ KnownIdentities(Created(st, At))
    <3>1. CreateLegal(catalog, DefaultSchema, st)
      BY <2>1, <2>3 DEF Legal
    <3>2. Done(catalog, DefaultSchema, st, At) = CreateDone(catalog, DefaultSchema, st, At)
      BY <2>1 DEF Done
    <3> QED
      BY <1>0, <2>1, <2>2, <3>1, <3>2, CreateMatches
  <2> QED
    BY <2>1, <2>3, FollowingExecutes
<1>2. CASE AlterTable
  <2>1. PICK st \in Statements : st.op = "alter" /\ Execute(st) /\ Read(Changed(st, At))
    BY <1>2 DEF AlterTable
  <2>2. Supported(st)
    BY DEF ForPostgres
  <2>3. ASSUME Legal(catalog, DefaultSchema, st)
        PROVE  /\ Matches(Changed(st, At), Done(catalog, DefaultSchema, st, At))
               /\ KnownIdentities(Changed(st, At))
    <3>1. AlterLegal(catalog, DefaultSchema, st)
      BY <2>1, <2>3 DEF Legal
    <3>2. Done(catalog, DefaultSchema, st, At) = AlterDone(catalog, DefaultSchema, st, At)
      BY <2>1 DEF Done
    <3> QED
      BY <1>0, <2>1, <2>2, <3>1, <3>2, AlterStatementMatches
  <2> QED
    BY <2>1, <2>3, FollowingExecutes
<1>3. CASE DropTable
  <2>1. PICK st \in Statements : st.op = "drop" /\ Execute(st) /\ Read(DroppedFrom(tables, st.names))
    BY <1>3 DEF DropTable
  <2>2. Supported(st)
    BY DEF ForPostgres
  <2>3. /\ Matches(DroppedFrom(tables, st.names), Done(catalog, DefaultSchema, st, At))
        /\ KnownIdentities(DroppedFrom(tables, st.names))
    <3>1. Done(catalog, DefaultSchema, st, At) = Without(catalog, Dropped(DefaultSchema, st))
      BY <2>1 DEF Done
    <3> QED
      BY <1>0, <2>1, <2>2, <3>1, DropMatches
  <2> QED
    BY <2>1, <2>3, FollowingExecutes
<1>4. CASE OpenNext
  BY <1>0, <1>4, WalkOpens, FollowingStays DEF OpenNext
<1>5. CASE MarkHalf
  BY <1>0, <1>5, WalkMarks, FollowingStays DEF MarkHalf
<1>6. CASE UNCHANGED vars
  <2>1. UNCHANGED walk /\ tables' = tables
    BY <1>6 DEF vars
  <2>2. Walked' /\ catalog' = catalog /\ session' = session
    BY <1>0, <2>1, WalkStutters DEF walk
  <2> QED
    BY <2>1, <2>2, FollowingStays
<1>7. AllRead => UNCHANGED vars
  BY DEF AllRead
<1> QED
  BY <1>1, <1>2, <1>3, <1>4, <1>5, <1>6, <1>7 DEF Next

LEMMA Invariance ==
    ASSUME ForPostgres
    PROVE  Spec => []Following
<1>1. Init => Following
  BY FollowingStarts
<1>2. Following /\ [Next]_vars => Following'
  BY FollowingSteps
<1> QED
  BY <1>1, <1>2, PTL DEF Spec

LEMMA TypesFollow == Following => PostgresTypeOK
<1> SUFFICES ASSUME Following PROVE PostgresTypeOK
  OBVIOUS
<1>1. WalkTypeOK
  BY DEF Following, Walked, WalkTypeOK, Matches, IsCatalog, IsEntry
<1>2. \A t \in ToSet(tables) : t.replica \in {"default", "full", "nothing", "index"}
  <2>1. ToSet(tables) = {tables[i] : i \in 1..Len(tables)}
    BY DEF Following, Matches, IsSequence, ToSet
  <2> QED
    BY <2>1 DEF Following, KnownIdentities, Identities
<1> QED
  BY <1>1, <1>2 DEF PostgresTypeOK

-----------------------------------------------------------------------------
(* The reader's state is well-formed, for all migrations: a table's        *)
(* identity is one of the four that Debezium's rules tell apart.           *)
THEOREM TypeCorrectness ==
    ASSUME ForPostgres
    PROVE  Spec => []PostgresTypeOK
<1>1. Spec => []Following
  BY Invariance
<1> QED
  BY <1>1, TypesFollow, PTL

(* The tables ReadFiles returns are those the migrations leave behind:     *)
(* after any sequence of CREATE, ALTER and DROP TABLE, markers and files.  *)
THEOREM WhatTheMigrationsLeave ==
    ASSUME ForPostgres
    PROVE  Spec => []PostgresLeavesBehind
<1>1. Spec => []Following
  BY Invariance
<1>2. Following => PostgresLeavesBehind
  BY MatchesMeans DEF Following, PostgresLeavesBehind
<1> QED
  BY <1>1, <1>2, PTL

(* No sequence of renames, drops and repeated CREATEs leaves two tables, or *)
(* two columns of a table the files list, of one name.                     *)
THEOREM OneTableOneColumn ==
    ASSUME ForPostgres
    PROVE  Spec => []PostgresNamesDistinct
<1>1. Spec => []Following
  BY Invariance
<1>2. Following => PostgresNamesDistinct
  BY MatchesMeans DEF Following, PostgresNamesDistinct
<1> QED
  BY <1>1, <1>2, PTL

(* A column's position is that of the statement that gave it its name.     *)
THEOREM DeclaredWhereItPoints ==
    ASSUME ForPostgres
    PROVE  Spec => []PostgresPointsAtDeclarations
<1>1. Spec => []Following
  BY Invariance
<1>2. Following => PostgresPointsAtDeclarations
  BY MatchesMeans DEF Following, PostgresPointsAtDeclarations
<1> QED
  BY <1>1, <1>2, PTL

=============================================================================
