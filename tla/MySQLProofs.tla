----------------------------- MODULE MySQLProofs -----------------------------
(***************************************************************************)
(* The MySQL reader places every table where the runner is, and, unless a  *)
(* name could not be placed, the tables it holds match the server's        *)
(* catalog, after any migrations of the statements it is for: the theorems *)
(* at the end.  Following is the inductive invariant; Beside is the part   *)
(* of it that holds between the steps of one statement too, where the      *)
(* reading may end halfway through a list of names.                        *)
(***************************************************************************)
EXTENDS MySQLReader, MigrationsProofs

(* A table of the reader's: it has no replica identity.                    *)
Placed(t) == IsTable(t) /\ t.replica = "" /\ t.schema # ""

AllPlaced(ts) == IsSequence(ts) /\ \A i \in 1..Len(ts) : Placed(ts[i])

IsReader(s, db) ==
    /\ s = [tables |-> s.tables, db |-> db, failed |-> s.failed] /\ s.failed \in BOOLEAN
    /\ s.db = db /\ AllPlaced(s.tables) /\ (s.failed => db = "")

Beside(s, db, c) == IsReader(s, db) /\ (~s.failed => Matches(s.tables, c))

(* What the reader knows of the database the runner is in.                 *)
Knows(db, current) == current # "" /\ db \in {"", current}

LEMMA Qualifying ==
    ASSUME NEW s, NEW db, IsReader(s, db), NEW current, Knows(db, current), NEW n, CanPlace(s, n)
    PROVE  /\ Qualify(s, n) = Place(current, n) /\ Qualify(s, n)[1] # ""
           /\ Qualify(s, n) = <<Qualify(s, n)[1], n.name>>
BY DEF IsReader, Knows, CanPlace, Qualify, Place

LEMMA CannotPlace ==
    ASSUME NEW s, NEW db, IsReader(s, db), NEW n, ~CanPlace(s, n)
    PROVE  db = ""
BY DEF IsReader, CanPlace

(* The reader with other tables, and the reader that has failed.           *)
LEMMA WithTables ==
    ASSUME NEW s, NEW db, IsReader(s, db), NEW ts, AllPlaced(ts)
    PROVE  /\ IsReader([s EXCEPT !.tables = ts], db) /\ [s EXCEPT !.tables = ts].tables = ts
           /\ [s EXCEPT !.tables = ts].failed = s.failed
<1> DEFINE u == [tables |-> ts, db |-> db, failed |-> s.failed]
<1>1. [s EXCEPT !.tables = ts] = u
  <2>1. s = [tables |-> s.tables, db |-> db, failed |-> s.failed]
    BY DEF IsReader
  <2> QED
    BY <2>1
<1>2. u.tables = ts /\ u.db = db /\ u.failed = s.failed
  OBVIOUS
<1> HIDE DEF u
<1>3. u = [tables |-> u.tables, db |-> db, failed |-> u.failed]
  BY <1>2 DEF u
<1>4. IsReader(u, db)
  BY <1>2, <1>3 DEF IsReader
<1> QED
  BY <1>1, <1>2, <1>4

LEMMA Marked ==
    ASSUME NEW s, NEW db, IsReader(s, db), NEW x
    PROVE  [s EXCEPT !.failed = x] = [tables |-> s.tables, db |-> db, failed |-> x]
<1>1. s = [tables |-> s.tables, db |-> db, failed |-> s.failed]
  BY DEF IsReader
<1> QED
  BY <1>1

LEMMA Failing ==
    ASSUME NEW s, NEW db, IsReader(s, db), db = ""
    PROVE  IsReader(Fail(s), db) /\ Fail(s).failed
<1> DEFINE u == [tables |-> s.tables, db |-> db, failed |-> TRUE]
<1>1. Fail(s) = u
  BY Marked, Zenon DEF Fail
<1>2. u.tables = s.tables /\ u.db = db /\ u.failed = TRUE
  OBVIOUS
<1> HIDE DEF u
<1>3. u = [tables |-> u.tables, db |-> db, failed |-> u.failed]
  BY <1>2 DEF u
<1>4. IsReader(u, db)
  BY <1>2, <1>3 DEF IsReader
<1> QED
  BY <1>1, <1>2, <1>4

(* A step that places a name: what it does then is all that matters.       *)
LEMMA PlacingBeside ==
    ASSUME NEW s, NEW db, IsReader(s, db), NEW n, NEW result, NEW c,
           ~s.failed /\ CanPlace(s, n) => Beside(result, db, c)
    PROVE  Beside(Placing(s, n, result), db, c)
<1>0. s.failed \in BOOLEAN
  BY DEF IsReader
<1>1. CASE s.failed
  BY <1>1 DEF Placing, Beside
<1>2. CASE ~s.failed /\ ~CanPlace(s, n)
  <2>1. Placing(s, n, result) = Fail(s)
    BY <1>2 DEF Placing
  <2>2. db = ""
    BY <1>2, CannotPlace
  <2> QED
    BY <2>1, <2>2, Failing DEF Beside
<1>3. CASE ~s.failed /\ CanPlace(s, n)
  <2>1. Placing(s, n, result) = result
    BY <1>3 DEF Placing
  <2> QED
    BY <1>3, <2>1
<1> QED
  BY <1>0, <1>1, <1>2, <1>3

(* The table of a name that can be placed.                                 *)
LEMMA IndexFacts ==
    ASSUME NEW s, NEW db, NEW c, Beside(s, db, c), ~s.failed, NEW current, Knows(db, current),
           NEW n, CanPlace(s, n)
    PROVE  /\ Index(s, n) # 0 =>
                /\ Index(s, n) \in 1..Len(s.tables)
                /\ Qualified(s.tables[Index(s, n)]) = Place(current, n)
                /\ Known(s.tables, Place(current, n)) /\ Place(current, n) \in DOMAIN c
           /\ Index(s, n) = 0 => ~Known(s.tables, Place(current, n))
<1> DEFINE q == Place(current, n)
           ts == s.tables
           k == SourceTable(ts, Qualify(s, n)[1], n.name)
<1>1. Qualify(s, n) = q /\ Qualify(s, n)[1] # "" /\ q = <<Qualify(s, n)[1], n.name>>
  BY Qualifying DEF Beside
<1>2. Matches(ts, c)
  BY DEF Beside
<1>3. IsSequence(ts) /\ Len(ts) \in Nat
  BY <1>2 DEF Matches, IsSequence
<1>4. k \in 0..Len(ts) /\ (k # 0 => Qualified(ts[k]) = q) /\ (k = 0 => ~Known(ts, q))
  BY <1>1, <1>3, SourceTableFacts
<1>5. Index(s, n) = k
  BY DEF Index
<1> HIDE DEF k, q, ts
<1>6. k # 0 => k \in 1..Len(ts)
  BY <1>3, <1>4, Indices
<1>7. k # 0 => Known(ts, q)
  BY <1>4, <1>6 DEF Known
<1>8. Known(ts, q) => q \in DOMAIN c
  BY <1>2 DEF Matches, Known
<1> QED
  BY <1>4, <1>5, <1>6, <1>7, <1>8 DEF q, ts

-----------------------------------------------------------------------------
(* CREATE TABLE. *)

(* What the server makes of a statement, as the reader takes it.           *)
IsNew(e, c, s, st, at) ==
    /\ IsEntry(e)
    /\ st.form = "query" => ~e.listed
    /\ st.form = "columns" => e.cols = [x \in ItemNames(st.body[1]) |-> at]
    /\ st.form = "like" => e.cols = c[Place(s, st.of)].cols /\ e.listed = c[Place(s, st.of)].listed

LEMMA NewEntry ==
    ASSUME NEW c, IsCatalog(c), NEW s, NEW st, st.op = "create", Readable(st), CreateLegal(c, s, st),
           Dialect = "mysql", NEW at
    PROVE  IsNew(NewTable(c, s, st, at), c, s, st, at)
<1> DEFINE e == NewTable(c, s, st, at)
           o == c[Place(s, st.of)]
<1>1. st.form \in {"columns", "like", "query"}
  BY DEF Readable
<1>2. CASE st.form = "columns"
  <2>1. e = [cols |-> [x \in ItemNames(st.body[1]) |-> at], listed |-> TRUE, replica |-> "default"]
    BY <1>2 DEF NewTable
  <2> QED
    BY <2>1, <1>2 DEF IsEntry, IsNew
<1>3. CASE st.form = "query"
  <2>1. e = [cols |-> NoTables, listed |-> FALSE, replica |-> "default"]
    BY <1>3 DEF NewTable
  <2> QED
    BY <2>1, <1>3 DEF IsEntry, IsNew
<1>4. CASE st.form = "like"
  <2>1. IsEntry(o)
    BY <1>4 DEF CreateLegal, IsCatalog
  <2>2. o = [cols |-> o.cols, listed |-> o.listed, replica |-> o.replica] /\ o.listed \in BOOLEAN
    BY <2>1 DEF IsEntry
  <2>3. e = [o EXCEPT !.listed = o.listed /\ Dialect = "mysql", !.replica = "default"]
    BY <1>4 DEF NewTable
  <2>4. (o.listed /\ Dialect = "mysql") = o.listed
    BY <2>2
  <2> HIDE DEF e, o
  <2>5. e = [o EXCEPT !.listed = o.listed, !.replica = "default"]
    BY <2>3, <2>4
  <2>6. e = [cols |-> o.cols, listed |-> o.listed, replica |-> "default"]
    BY <2>2, <2>5
  <2>7. e.cols = o.cols /\ e.listed = o.listed /\ e.replica = "default"
    BY <2>6
  <2>8. IsEntry(e)
    BY <2>2, <2>6, <2>7 DEF IsEntry
  <2> QED
    BY <1>4, <2>7, <2>8 DEF e, o, IsNew
<1> QED
  BY <1>1, <1>2, <1>3, <1>4

(* The columns of a column list, as the reader and the server have them.   *)
LEMMA ColumnsRead ==
    ASSUME NEW st, st.op = "create", Readable(st), st.form = "columns", NamesOnce(st.body[1]), NEW at
    PROVE  Lists(ColumnsListed(st.body[1], Keywords, at), [x \in ItemNames(st.body[1]) |-> at])
<1> DEFINE items == st.body[1]
           kept == {i \in 1..Len(items) : items[i].kind \notin Keywords}
<1>1. IsSequence(items) /\ \A i \in DOMAIN items : items[i].kind \in {"column", "key", "glued"}
  BY DEF Readable
<1>2. DOMAIN items = 1..Len(items)
  BY <1>1 DEF IsSequence
<1>3. \A i \in 1..Len(items) : items[i].kind \notin Keywords <=> items[i].kind = "column"
  BY <1>1, <1>2 DEF Keywords
<1>4. kept = {i \in DOMAIN items : items[i].kind = "column"}
  BY <1>2, <1>3
<1>5. \A j, k \in kept : items[j].name = items[k].name => j = k
  BY <1>4 DEF NamesOnce
<1>6. Lists(ColumnsListed(items, Keywords, at), [x \in {items[k].name : k \in kept} |-> at])
  <2> HIDE DEF items
  <2> QED
    BY <1>1, <1>5, ListRead
<1>7. {items[k].name : k \in kept} = ItemNames(items)
  <2>1. ToSet(items) = {items[i] : i \in DOMAIN items}
    BY DEF ToSet
  <2> QED
    BY <1>4, <2>1 DEF ItemNames
<1> QED
  BY <1>6, <1>7

(* A table is appended under the name of the statement.                    *)
LEMMA AppendBeside ==
    ASSUME NEW s, NEW db, NEW c, Beside(s, db, c), ~s.failed, NEW current, Knows(db, current),
           NEW n, CanPlace(s, n), Index(s, n) = 0, NEW cols, NEW at, NEW d, NEW e, IsEntry(e),
           e.listed => Lists(cols, e.cols),
           d = IF Place(current, n) \in DOMAIN c THEN c ELSE Put(c, Place(current, n), e)
    PROVE  Beside(NewTableOf(s, n, cols, at), db, d)
<1> DEFINE q == Qualify(s, n)
           ts == s.tables
           t == [schema |-> q[1], name |-> q[2], cols |-> cols, pos |-> at, replica |-> ""]
<1>0. IsReader(s, db) /\ Matches(ts, c)
  BY DEF Beside
<1>1. q = Place(current, n) /\ q[1] # "" /\ q = <<q[1], n.name>> /\ q = <<q[1], q[2]>>
  BY <1>0, Qualifying DEF Qualify
<1>2. /\ IsTable(t) /\ Qualified(t) = q /\ t.replica = "" /\ t.schema = q[1] /\ t.cols = cols
  BY <1>1 DEF IsTable, Qualified
<1>3. Placed(t) /\ Fits(t, e)
  BY <1>1, <1>2 DEF Placed, Fits
<1>4. ~Known(ts, Qualified(t))
  BY <1>1, <1>2, IndexFacts
<1>5. NewTableOf(s, n, cols, at) = [s EXCEPT !.tables = Append(ts, t)]
  BY DEF NewTableOf
<1> HIDE DEF t, q, ts
<1>6. AllPlaced(Append(ts, t))
  <2>1. IsSequence(ts) /\ Len(ts) \in Nat
    BY <1>0 DEF Matches, IsSequence
  <2>2. /\ IsSequence(Append(ts, t)) /\ Len(Append(ts, t)) = Len(ts) + 1
        /\ \A i \in 1..Len(ts) : Append(ts, t)[i] = ts[i]
        /\ Append(ts, t)[Len(ts) + 1] = t
    BY <2>1, AppendFacts
  <2>3. \A i \in 1..(Len(ts) + 1) : i \in 1..Len(ts) \/ i = Len(ts) + 1
    BY <2>1
  <2>4. \A i \in 1..Len(ts) : Placed(ts[i])
    BY <1>0 DEF IsReader, AllPlaced, ts
  <2> QED
    BY <1>3, <2>2, <2>3, <2>4 DEF AllPlaced
<1>7. \/ Qualified(t) \in DOMAIN c /\ d = c
      \/ /\ Qualified(t) \notin DOMAIN c /\ d = Put(c, Qualified(t), e)
         /\ IsEntry(e) /\ Fits(t, e)
  BY <1>1, <1>2, <1>3
<1>8. Matches(Append(ts, t), d)
  BY <1>0, <1>2, <1>4, <1>7, MatchesAppend
<1> DEFINE us == Append(ts, t)
<1> HIDE DEF us
<1>9. IsReader([s EXCEPT !.tables = us], db) /\ [s EXCEPT !.tables = us].tables = us
  BY <1>0, <1>6, WithTables DEF us
<1> QED
  BY <1>5, <1>8, <1>9 DEF Beside, us

(* The reader leaves a table out that the server has made.                 *)
LEMMA LeftOutBeside ==
    ASSUME NEW s, NEW db, NEW c, Beside(s, db, c), ~s.failed, NEW current, Knows(db, current),
           NEW n, CanPlace(s, n), Index(s, n) = 0, NEW d, NEW e, IsEntry(e), ~e.listed,
           d = IF Place(current, n) \in DOMAIN c THEN c ELSE Put(c, Place(current, n), e)
    PROVE  Beside(s, db, d)
<1>1. ~Known(s.tables, Place(current, n)) /\ Matches(s.tables, c)
  BY IndexFacts DEF Beside
<1>2. Matches(s.tables, Put(c, Place(current, n), e))
  BY <1>1, MatchesPut
<1> QED
  BY <1>1, <1>2 DEF Beside

LEMMA CreateBeside ==
    ASSUME NEW s, NEW db, NEW c, Beside(s, db, c), ~s.failed, NEW current, Knows(db, current),
           Dialect = "mysql", NEW st, st.op = "create", Readable(st), CreateLegal(c, current, st), NEW at
    PROVE  Beside(Created(s, st, at), db, CreateDone(c, current, st, at))
<1> DEFINE n == st.name
           q == Place(current, n)
           d == CreateDone(c, current, st, at)
           e == NewTable(c, current, st, at)
           body == CASE Index(s, n) # 0 -> s
                     [] Index(s, n) = 0 /\ st.form = "like" -> CreateLike(s, st, at)
                     [] Index(s, n) = 0 /\ st.form # "like" -> CreateListed(s, st, at)
<1>0. IsReader(s, db) /\ Matches(s.tables, c) /\ IsCatalog(c)
  BY DEF Beside, Matches
<1>1. d = IF q \in DOMAIN c THEN c ELSE Put(c, q, e)
  BY DEF CreateDone
<1>2. IsNew(e, c, current, st, at)
  BY <1>0, NewEntry
<1>3. ASSUME CanPlace(s, n) PROVE Beside(body, db, d)
  <2>1. CASE Index(s, n) # 0
    <3>1. d = c
      BY <1>1, <1>3, <2>1, IndexFacts
    <3> QED
      BY <2>1, <3>1
  <2>2. CASE Index(s, n) = 0 /\ st.form = "like"
    <3> DEFINE copy == NewTableOf(s, n, s.tables[Index(s, st.of)].cols, at)
               made == IF Index(s, st.of) = 0 THEN s ELSE copy
    <3>1. body = Placing(s, st.of, made)
      BY <2>2 DEF CreateLike
    <3>2. Place(current, st.of) \in DOMAIN c
      BY <2>2 DEF CreateLegal
    <3>3. IsEntry(e) /\ e.cols = c[Place(current, st.of)].cols /\ e.listed = c[Place(current, st.of)].listed
      BY <1>2, <2>2 DEF IsNew
    <3> HIDE DEF d, e
    <3>4. ASSUME CanPlace(s, st.of), Index(s, st.of) = 0 PROVE Beside(s, db, d)
      <4>1. ~Known(s.tables, Place(current, st.of))
        BY <3>4, IndexFacts
      <4>2. ~e.listed
        BY <1>0, <3>2, <3>3, <4>1 DEF Matches, IsCatalog, IsEntry
      <4> QED
        BY <1>1, <1>3, <2>2, <3>3, <4>2, LeftOutBeside
    <3>5. ASSUME CanPlace(s, st.of), Index(s, st.of) # 0 PROVE Beside(copy, db, d)
      <4> DEFINE j == Index(s, st.of)
      <4>1. j \in 1..Len(s.tables) /\ Qualified(s.tables[j]) = Place(current, st.of)
        BY <3>5, IndexFacts
      <4>2. Fits(s.tables[j], c[Place(current, st.of)])
        BY <1>0, <4>1 DEF Matches
      <4>3. e.listed => Lists(s.tables[j].cols, e.cols)
        BY <3>3, <4>2 DEF Fits
      <4> HIDE DEF j
      <4>4. Beside(NewTableOf(s, n, s.tables[j].cols, at), db, d)
        BY <1>1, <1>3, <2>2, <3>3, <4>3, AppendBeside
      <4> QED
        BY <4>4 DEF j
    <3> HIDE DEF copy
    <3>6. ~s.failed /\ CanPlace(s, st.of) => Beside(made, db, d)
      BY <3>4, <3>5
    <3> HIDE DEF made
    <3>7. Beside(Placing(s, st.of, made), db, d)
      BY <1>0, <3>6, PlacingBeside
    <3> QED
      BY <3>1, <3>7
  <2>3. CASE Index(s, n) = 0 /\ st.form # "like"
    <3>1. body = CreateListed(s, st, at) /\ IsEntry(e)
      BY <1>2, <2>3 DEF IsNew
    <3>2. st.form \in {"columns", "query"}
      BY <2>3 DEF Readable
    <3>3. CASE st.body = <<>>
      <4>1. ~e.listed
        BY <1>2, <3>2, <3>3 DEF Readable, IsNew
      <4> HIDE DEF d, e, body
      <4>2. Beside(s, db, d)
        BY <1>1, <1>3, <2>3, <3>1, <4>1, LeftOutBeside
      <4> QED
        BY <3>1, <3>3, <4>2 DEF CreateListed
    <3>4. CASE st.body # <<>>
      <4> DEFINE cols == ColumnsListed(st.body[1], Keywords, at)
      <4>1. e.listed => Lists(cols, e.cols)
        <5>1. CASE st.form = "columns"
          <6>1. NamesOnce(st.body[1])
            BY <5>1 DEF CreateLegal
          <6>2. Lists(cols, [x \in ItemNames(st.body[1]) |-> at])
            BY <5>1, <6>1, ColumnsRead
          <6> QED
            BY <1>2, <5>1, <6>2 DEF IsNew
        <5>2. CASE st.form = "query"
          BY <1>2, <5>2 DEF IsNew
        <5> QED
          BY <3>2, <5>1, <5>2
      <4> HIDE DEF cols, d, e, body
      <4>2. Beside(NewTableOf(s, n, cols, at), db, d)
        BY <1>1, <1>3, <2>3, <3>1, <4>1, AppendBeside
      <4> QED
        BY <3>1, <3>4, <4>2 DEF CreateListed, cols
    <3> QED
      BY <3>3, <3>4
  <2> QED
    BY <2>1, <2>2, <2>3
<1>4. Created(s, st, at) = Placing(s, n, body)
  BY DEF Created
<1> HIDE DEF body, d
<1>5. Beside(Placing(s, n, body), db, d)
  BY <1>0, <1>3, PlacingBeside
<1> QED
  BY <1>4, <1>5 DEF d

-----------------------------------------------------------------------------
(* ALTER TABLE. *)

(* The reader with table i replaced by u; nothing else moves.              *)
With(v, ts, i, u, db) == IsReader(v, db) /\ v.tables = [ts EXCEPT ![i] = u] /\ Placed(u)

LEMMA Replacing ==
    ASSUME NEW ts, AllPlaced(ts), NEW i \in 1..Len(ts), NEW w, Placed(w)
    PROVE  AllPlaced([ts EXCEPT ![i] = w])
<1>1. IsSequence(ts) /\ \A j \in 1..Len(ts) : Placed(ts[j])
  BY DEF AllPlaced
<1>2. IsSequence([ts EXCEPT ![i] = w])
  BY <1>1, ReplaceFacts
<1>3. Len([ts EXCEPT ![i] = w]) = Len(ts)
  BY <1>1, ReplaceFacts
<1>4. \A j \in 1..Len(ts) : [ts EXCEPT ![i] = w][j] = IF j = i THEN w ELSE ts[j]
  BY <1>1, ReplaceFacts
<1> QED
  BY <1>1, <1>2, <1>3, <1>4 DEF AllPlaced

LEMMA TheTable ==
    ASSUME NEW ts, AllPlaced(ts), NEW i \in 1..Len(ts), NEW v, NEW u, NEW db, With(v, ts, i, u, db)
    PROVE  v.tables[i] = u
<1>1. DOMAIN ts = 1..Len(ts)
  BY DEF AllPlaced, IsSequence
<1> QED
  BY <1>1 DEF With

LEMMA EditTable ==
    ASSUME NEW ts, AllPlaced(ts), NEW i \in 1..Len(ts), NEW v, NEW u, NEW db, With(v, ts, i, u, db),
           NEW w, Placed(w)
    PROVE  /\ With([v EXCEPT !.tables[i] = w], ts, i, w, db)
           /\ [v EXCEPT !.tables[i] = w].failed = v.failed
<1> DEFINE us == [v.tables EXCEPT ![i] = w]
<1>1. IsSequence(ts) /\ DOMAIN ts = 1..Len(ts)
  BY DEF AllPlaced, IsSequence
<1>2. v.tables = [ts EXCEPT ![i] = u]
  BY DEF With
<1>4. us = [ts EXCEPT ![i] = w]
  <2>1. us = [[ts EXCEPT ![i] = u] EXCEPT ![i] = w]
    BY <1>2
  <2> QED
    BY <2>1, <1>1
<1>5. AllPlaced(us)
  BY <1>4, Replacing
<1>6. [v EXCEPT !.tables[i] = w] = [v EXCEPT !.tables = us]
  OBVIOUS
<1> HIDE DEF us
<1>7. /\ IsReader([v EXCEPT !.tables = us], db) /\ [v EXCEPT !.tables = us].tables = us
      /\ [v EXCEPT !.tables = us].failed = v.failed
  BY <1>5, WithTables DEF With
<1>8. With([v EXCEPT !.tables = us], ts, i, w, db)
  BY <1>4, <1>7 DEF With
<1> QED
  BY <1>6, <1>7, <1>8

(* A renamed table.                                                        *)
LEMMA SchemaSet ==
    ASSUME NEW u, IsTable(u), NEW y
    PROVE  [u EXCEPT !.schema = y]
             = [schema |-> y, name |-> u.name, replica |-> u.replica, pos |-> u.pos, cols |-> u.cols]
<1>1. u = [schema |-> u.schema, name |-> u.name, replica |-> u.replica, pos |-> u.pos, cols |-> u.cols]
  BY DEF IsTable
<1> QED
  BY <1>1

LEMMA Renaming ==
    ASSUME NEW u, IsTable(u), NEW y, NEW z
    PROVE  [u EXCEPT !.schema = y, !.name = z]
             = [schema |-> y, name |-> z, replica |-> u.replica, pos |-> u.pos, cols |-> u.cols]
<1> DEFINE v == [schema |-> y, name |-> u.name, replica |-> u.replica, pos |-> u.pos, cols |-> u.cols]
<1>1. [u EXCEPT !.schema = y] = v
  BY SchemaSet
<1>2. [u EXCEPT !.schema = y, !.name = z] = [v EXCEPT !.name = z]
  BY <1>1
<1> QED
  BY <1>2

LEMMA RenamedTable ==
    ASSUME NEW u, Placed(u), NEW q, q[1] # "", q = <<q[1], q[2]>>
    PROVE  Placed(RenamedTo(u, q)) /\ Qualified(RenamedTo(u, q)) = q /\ RenamedTo(u, q).cols = u.cols
<1> DEFINE w == RenamedTo(u, q)
           x == [schema |-> q[1], name |-> q[2], replica |-> u.replica, pos |-> u.pos, cols |-> u.cols]
<1>1. w = x
  <2>1. IsTable(u)
    BY DEF Placed
  <2>2. \A y, z : [u EXCEPT !.schema = y, !.name = z]
                   = [schema |-> y, name |-> z, replica |-> u.replica, pos |-> u.pos, cols |-> u.cols]
    BY <2>1, Renaming, Zenon
  <2>3. w = [u EXCEPT !.schema = q[1], !.name = q[2]]
    BY DEF RenamedTo
  <2> QED
    BY <2>2, <2>3, Zenon
<1>2. IsTable(x) /\ x.schema = q[1] /\ x.name = q[2] /\ x.replica = u.replica /\ x.cols = u.cols
  BY DEF IsTable
<1> HIDE DEF x, w
<1>3. Placed(x) /\ Qualified(x) = q
  BY <1>2 DEF Placed, Qualified
<1> QED
  BY <1>1, <1>2, <1>3 DEF w

(* What k actions have made of a table: it is where it was until it is     *)
(* renamed, and under its new name from then on.                           *)
PlaceBy(u, t, st, k, current) ==
    /\ (\A j \in 1..k : st.actions[j].op # "renametable") => Qualified(u) = Qualified(t)
    /\ \A j \in 1..k : st.actions[j].op = "renametable" => Qualified(u) = Place(current, st.actions[j].to)

ActedBy(v, ts, i, e, st, k, at, current, db) ==
    \E u : /\ With(v, ts, i, u, db)
           /\ ~v.failed => /\ PlaceBy(u, ts[i], st, k, current)
                           /\ e.listed => Lists(u.cols, ColsBy(e, st, k, at))

LEMMA PlaceKept ==
    ASSUME NEW u, NEW t, NEW st, NEW k \in Nat, NEW current, PlaceBy(u, t, st, k, current),
           NEW w, Qualified(w) = Qualified(u), st.actions[k + 1].op # "renametable"
    PROVE  PlaceBy(w, t, st, k + 1, current)
<1>1. 1..(k + 1) = (1..k) \cup {k + 1}
  OBVIOUS
<1> QED
  BY <1>1 DEF PlaceBy

LEMMA PlaceSet ==
    ASSUME NEW t, NEW st, NEW k \in Nat, NEW current,
           NEW w, Qualified(w) = Place(current, st.actions[k + 1].to),
           st.actions[k + 1].op = "renametable",
           \A j \in 1..k : st.actions[j].op # "renametable"
    PROVE  PlaceBy(w, t, st, k + 1, current)
<1>1. 1..(k + 1) = (1..k) \cup {k + 1}
  OBVIOUS
<1> QED
  BY <1>1 DEF PlaceBy

(* An edit of the columns.                                                 *)
LEMMA ColumnsEdited ==
    ASSUME NEW u, Placed(u), NEW w, SameTable(u, w)
    PROVE  Placed(w) /\ Qualified(w) = Qualified(u)
BY DEF Placed, SameTable, Qualified

LEMMA ActsBy ==
    ASSUME NEW ts, AllPlaced(ts), NEW i \in 1..Len(ts), NEW st, IsSequence(st.actions), SetOnce(st),
           NEW e, e.listed => LegalClauses(e, st), NEW at, NEW current, NEW db, Knows(db, current),
           NEW k \in Nat, k + 1 \in 1..Len(st.actions),
           NEW v, ActedBy(v, ts, i, e, st, k, at, current, db)
    PROVE  ActedBy(Act(v, i, st.actions[k + 1], at), ts, i, e, st, k + 1, at, current, db)
<1> DEFINE a == st.actions[k + 1]
           x == Act(v, i, a, at)
           t == ts[i]
           f == ColsBy(e, st, k + 1, at)
<1>1. PICK u : /\ With(v, ts, i, u, db)
               /\ ~v.failed => /\ PlaceBy(u, t, st, k, current)
                               /\ e.listed => Lists(u.cols, ColsBy(e, st, k, at))
  BY DEF ActedBy
<1>2. /\ v.failed \in BOOLEAN /\ IsReader(v, db) /\ Placed(u) /\ IsTable(u) /\ v.tables[i] = u
  <2>1. v.failed \in BOOLEAN /\ IsReader(v, db) /\ Placed(u)
    BY <1>1 DEF With, IsReader
  <2>2. v.tables[i] = u
    BY <1>1, TheTable
  <2> QED
    BY <2>1, <2>2 DEF Placed
<1>3. CASE v.failed
  <2>1. x = v
    BY <1>3 DEF Act
  <2> QED
    BY <1>1, <1>3, <2>1 DEF ActedBy
<1>4. CASE ~v.failed
  <2>1. PlaceBy(u, t, st, k, current) /\ (e.listed => Lists(u.cols, ColsBy(e, st, k, at)))
    BY <1>1, <1>4
  <2>2. ASSUME e.listed
        PROVE  /\ a.op = "add" => Lists(AddColumn(u, a.col, at).cols, f)
               /\ a.op = "drop" => Lists(RemoveColumn(u, a.col).cols, f)
               /\ a.op = "rename" => Lists(RenameColumn(u, a.col, a.to, at).cols, f)
               /\ a.op \notin OnColumns => Lists(u.cols, f)
    <3>1. Lists(u.cols, ColsBy(e, st, k, at)) /\ LegalClauses(e, st)
      BY <2>1, <2>2
    <3> QED
      BY <1>2, <3>1, ClauseLists
  <2>3. ASSUME NEW w, SameTable(u, w), x = [v EXCEPT !.tables[i] = w], a.op # "renametable",
               e.listed => Lists(w.cols, f)
        PROVE  ActedBy(x, ts, i, e, st, k + 1, at, current, db)
    <3>1. Placed(w) /\ Qualified(w) = Qualified(u)
      BY <1>2, <2>3, ColumnsEdited
    <3>2. With(x, ts, i, w, db)
      BY <1>1, <2>3, <3>1, EditTable
    <3>3. PlaceBy(w, t, st, k + 1, current)
      BY <2>1, <2>3, <3>1, PlaceKept
    <3> QED
      BY <2>3, <3>2, <3>3 DEF ActedBy
  <2>4. CASE a.op = "add"
    <3> DEFINE w == AddColumn(u, a.col, at)
    <3>1. x = [v EXCEPT !.tables[i] = w]
      BY <1>2, <1>4, <2>4 DEF Act
    <3>2. SameTable(u, w)
      BY <1>2, EditsKeepTable
    <3>3. e.listed => Lists(w.cols, f)
      BY <2>2, <2>4
    <3> HIDE DEF w, x, f
    <3> QED
      BY <2>3, <2>4, <3>1, <3>2, <3>3 DEF x, f
  <2>5. CASE a.op = "drop"
    <3> DEFINE w == RemoveColumn(u, a.col)
    <3>1. x = [v EXCEPT !.tables[i] = w]
      BY <1>2, <1>4, <2>5 DEF Act
    <3>2. SameTable(u, w)
      BY <1>2, EditsKeepTable
    <3>3. e.listed => Lists(w.cols, f)
      BY <2>2, <2>5
    <3> HIDE DEF w, x, f
    <3> QED
      BY <2>3, <2>5, <3>1, <3>2, <3>3 DEF x, f
  <2>6. CASE a.op = "rename"
    <3> DEFINE w == RenameColumn(u, a.col, a.to, at)
    <3>1. x = [v EXCEPT !.tables[i] = w]
      BY <1>2, <1>4, <2>6 DEF Act
    <3>2. SameTable(u, w)
      BY <1>2, EditsKeepTable
    <3>3. e.listed => Lists(w.cols, f)
      BY <2>2, <2>6
    <3> HIDE DEF w, x, f
    <3> QED
      BY <2>3, <2>6, <3>1, <3>2, <3>3 DEF x, f
  <2>7. CASE a.op = "renametable"
    <3> DEFINE w == RenamedTo(u, Qualify(v, a.to))
               moved == [v EXCEPT !.tables[i] = w]
    <3>1. x = Placing(v, a.to, moved)
      BY <1>2, <1>4, <2>7 DEF Act, RenameTable
    <3>2. CASE CanPlace(v, a.to)
      <4>1. x = moved
        BY <1>4, <3>1, <3>2 DEF Placing
      <4>2. /\ Qualify(v, a.to) = Place(current, a.to) /\ Qualify(v, a.to)[1] # ""
            /\ Qualify(v, a.to) = <<Qualify(v, a.to)[1], a.to.name>>
        BY <1>2, <3>2, Qualifying
      <4>3. Placed(w) /\ Qualified(w) = Place(current, a.to) /\ w.cols = u.cols
        BY <1>2, <4>2, RenamedTable DEF Qualify
      <4> HIDE DEF w
      <4>4. With(moved, ts, i, w, db) /\ moved.failed = v.failed
        BY <1>1, <4>3, EditTable
      <4>5. \A j \in 1..k : st.actions[j].op # "renametable"
        BY <2>7, FirstToSet
      <4>6. PlaceBy(w, t, st, k + 1, current)
        BY <2>7, <4>3, <4>5, PlaceSet
      <4>7. e.listed => Lists(w.cols, f)
        BY <2>2, <2>7, <4>3 DEF OnColumns
      <4> HIDE DEF moved, x, f, t
      <4> QED
        BY <4>1, <4>4, <4>6, <4>7 DEF ActedBy, x, f, t
    <3>3. CASE ~CanPlace(v, a.to)
      <4>1. x = Fail(v)
        BY <1>4, <3>1, <3>3 DEF Placing
      <4>2. db = ""
        BY <1>2, <3>3, CannotPlace
      <4>3. IsReader(Fail(v), db) /\ Fail(v).failed
        BY <1>2, <4>2, Failing
      <4>4. Fail(v).tables = v.tables
        <5>1. [v EXCEPT !.failed = TRUE] = [tables |-> v.tables, db |-> db, failed |-> TRUE]
          BY <1>2, Marked, Zenon
        <5> QED
          BY <5>1 DEF Fail
      <4>5. With(Fail(v), ts, i, u, db)
        BY <1>1, <4>3, <4>4 DEF With
      <4> QED
        BY <4>1, <4>3, <4>5 DEF ActedBy
    <3> QED
      BY <3>2, <3>3
  <2>8. CASE a.op \notin OnColumns \cup {"renametable"}
    <3>1. x = v
      BY <1>4, <2>8 DEF Act, OnColumns
    <3>2. PlaceBy(u, t, st, k + 1, current)
      BY <2>1, <2>8, PlaceKept
    <3>3. e.listed => Lists(u.cols, f)
      BY <2>2, <2>8
    <3> QED
      BY <1>1, <3>1, <3>2, <3>3 DEF ActedBy
  <2> QED
    BY <2>4, <2>5, <2>6, <2>7, <2>8 DEF OnColumns
<1> QED
  BY <1>2, <1>3, <1>4

(* The reader after each action of a statement. *)
IsActing(after, s, i, actions, at) ==
    after = [k \in 0..Len(actions) |-> IF k = 0 THEN s ELSE Act(after[k - 1], i, actions[k], at)]

LEMMA ActionsFollow ==
    ASSUME NEW s, NEW i, NEW actions, Len(actions) \in Nat, NEW at
    PROVE  \E after : IsActing(after, s, i, actions, at) /\ Acted(s, i, actions, at) = after[Len(actions)]
<1> DEFINE Step(f, k) == IF k = 0 THEN s ELSE Act(f[k - 1], i, actions[k], at)
           IsTrace(f, n) == f = [k \in 0..n |-> Step(f, k)]
           S == {n \in Nat : \E f : IsTrace(f, n)}
           N == Len(actions)
<1>1. 0 \in S
  <2> DEFINE f == [k \in 0..0 |-> s]
  <2>1. IsTrace(f, 0)
    OBVIOUS
  <2> QED
    BY <2>1
<1>2. ASSUME NEW n \in Nat, n \in S PROVE n + 1 \in S
  <2>1. PICK f : IsTrace(f, n)
    BY <1>2
  <2> DEFINE g == [k \in 0..(n + 1) |-> IF k = n + 1 THEN Step(f, n + 1) ELSE f[k]]
  <2>2. \A k \in 0..(n + 1) : k # 0 => k - 1 \in 0..n /\ k - 1 \in 0..(n + 1) /\ k - 1 # n + 1
    OBVIOUS
  <2>3. \A k \in 0..(n + 1) : k # 0 => g[k - 1] = f[k - 1]
    BY <2>2
  <2>4. \A k \in 0..(n + 1) : Step(g, k) = Step(f, k)
    BY <2>3
  <2>5. \A k \in 0..n : f[k] = Step(f, k)
    BY <2>1
  <2>6. \A k \in 0..(n + 1) : g[k] = Step(g, k)
    BY <2>4, <2>5
  <2>7. IsTrace(g, n + 1)
    BY <2>6
  <2>8. \E x : IsTrace(x, n + 1)
    BY <2>7, Zenon
  <2> QED
    BY <2>8
<1>3. N \in S
  <2> HIDE DEF S
  <2> QED
    BY <1>1, <1>2, SetInduction
<1>4. PICK f : IsTrace(f, N)
  BY <1>3
<1> DEFINE after == CHOOSE x : IsTrace(x, N)
<1>5. IsTrace(after, N)
  BY <1>4
<1>6. Acted(s, i, actions, at) = after[N]
  BY DEF Acted
<1>7. IsActing(after, s, i, actions, at)
  BY <1>5 DEF IsActing
<1> QED
  BY <1>6, <1>7

LEMMA ActedFits ==
    ASSUME NEW s, NEW db, IsReader(s, db), ~s.failed, NEW i \in 1..Len(s.tables),
           NEW st, IsSequence(st.actions), SetOnce(st),
           NEW e, Fits(s.tables[i], e), e.listed => LegalClauses(e, st),
           NEW at, NEW current, Knows(db, current)
    PROVE  ActedBy(Acted(s, i, st.actions, at), s.tables, i, e, st, Len(st.actions), at, current, db)
<1> DEFINE N == Len(st.actions)
           ts == s.tables
           By(v, k) == ActedBy(v, ts, i, e, st, k, at, current, db)
<1>1. N \in Nat
  BY DEF IsSequence
<1>2. PICK after : /\ after = [k \in 0..N |-> IF k = 0 THEN s ELSE Act(after[k - 1], i, st.actions[k], at)]
                   /\ Acted(s, i, st.actions, at) = after[N]
  <2>1. \E after : IsActing(after, s, i, st.actions, at) /\ Acted(s, i, st.actions, at) = after[N]
    BY <1>1, ActionsFollow, Zenon
  <2> QED
    BY <2>1 DEF IsActing
<1>3. AllPlaced(ts) /\ i \in 1..Len(ts)
  BY DEF IsReader
<1> DEFINE S == {k \in 0..N : By(after[k], k)}
<1>4. 0 \in S
  <2>1. after[0] = s
    BY <1>1, <1>2
  <2>2. PlaceBy(ts[i], ts[i], st, 0, current)
    BY DEF PlaceBy
  <2>3. e.listed => Lists(ts[i].cols, ColsBy(e, st, 0, at))
    BY NoClause DEF Fits
  <2>4. ts = [ts EXCEPT ![i] = ts[i]]
    BY <1>3 DEF AllPlaced, IsSequence
  <2>5. Placed(ts[i])
    BY <1>3 DEF AllPlaced
  <2>6. With(s, ts, i, ts[i], db)
    BY <2>4, <2>5 DEF With
  <2>7. By(s, 0)
    BY <2>2, <2>3, <2>6 DEF ActedBy
  <2> HIDE DEF By
  <2> QED
    BY <1>1, <2>1, <2>7
<1>5. ASSUME NEW k \in 0..N, k < N, k \in S PROVE k + 1 \in S
  <2>1. k + 1 \in 0..N /\ k + 1 \in 1..N /\ k + 1 # 0 /\ (k + 1) - 1 = k /\ k \in Nat
    BY <1>1, <1>5
  <2>2. after[k + 1] = Act(after[(k + 1) - 1], i, st.actions[k + 1], at)
    BY <1>2, <2>1
  <2>3. after[k + 1] = Act(after[k], i, st.actions[k + 1], at)
    BY <2>1, <2>2
  <2>4. By(after[k], k)
    BY <1>5
  <2> HIDE DEF ts
  <2>5. By(Act(after[k], i, st.actions[k + 1], at), k + 1)
    BY <1>3, <2>1, <2>4, ActsBy
  <2> HIDE DEF By
  <2> QED
    BY <2>1, <2>3, <2>5
<1>6. N \in S
  <2> HIDE DEF S
  <2> QED
    BY <1>1, <1>4, <1>5, BoundedInduction
<1> QED
  BY <1>2, <1>6

(* After the last clause, the table is where the server has put its own.   *)
LEMMA LastClause ==
    ASSUME Dialect = "mysql", NEW c, NEW current, NEW st, IsSequence(st.actions), SetOnce(st),
           NEW t, Qualified(t) = Place(current, st.name),
           NEW u, PlaceBy(u, t, st, Len(st.actions), current)
    PROVE  Qualified(u) = NameAfter(c, current, st)
<1> DEFINE N == Len(st.actions)
<1>1. DOMAIN st.actions = 1..N
  BY DEF IsSequence
<1>2. Clauses(st, "renametable") = {k \in 1..N : st.actions[k].op = "renametable"}
  BY <1>1 DEF Clauses
<1>3. CASE Clauses(st, "renametable") = {}
  <2>1. Qualified(u) = Qualified(t)
    BY <1>2, <1>3 DEF PlaceBy
  <2>2. Targets(c, current, st) = {}
    BY <1>3 DEF Targets
  <2> QED
    BY <2>1, <2>2 DEF NameAfter
<1>4. CASE Clauses(st, "renametable") # {}
  <2>1. PICK k \in 1..N : st.actions[k].op = "renametable"
    BY <1>2, <1>4
  <2>2. Clauses(st, "renametable") = {k}
    BY <2>1, SetOnceFacts
  <2> DEFINE p == Place(current, st.actions[k].to)
  <2>3. \A q : NewPlace(current, q, st.actions[k].to) = p
    BY DEF NewPlace
  <2>4. Targets(c, current, st) = {p}
    BY <2>2, <2>3 DEF Targets
  <2>5. Qualified(u) = p
    BY <2>1 DEF PlaceBy
  <2> HIDE DEF p
  <2>6. NameAfter(c, current, st) = p
    BY <2>4 DEF NameAfter
  <2> QED
    BY <2>5, <2>6
<1> QED
  BY <1>3, <1>4

LEMMA AlterBeside ==
    ASSUME NEW s, NEW db, NEW c, Beside(s, db, c), ~s.failed, NEW current, Knows(db, current),
           Dialect = "mysql", NEW st, st.op = "alter", Readable(st), AlterLegal(c, current, st), NEW at
    PROVE  Beside(Altering(s, st, at), db, AlterDone(c, current, st, at))
<1> DEFINE n == st.name
           q == Place(current, n)
           d == AlterDone(c, current, st, at)
           e == c[q]
           i == Index(s, n)
           ts == s.tables
           v == Acted(s, i, st.actions, at)
           body == IF i = 0 THEN s ELSE v
<1>0. IsReader(s, db) /\ Matches(ts, c) /\ IsCatalog(c) /\ IsSequence(st.actions) /\ SetOnce(st)
  BY DEF Beside, Matches, Readable, AlterLegal
<1>1. q \in DOMAIN c /\ (NameAfter(c, current, st) \in {q} \/ NameAfter(c, current, st) \notin DOMAIN c)
  BY NewNameFree
<1>2. ASSUME CanPlace(s, n) PROVE Beside(body, db, d)
  <2>1. CASE i = 0
    <3>1. ~Known(ts, q)
      BY <1>2, <2>1, IndexFacts
    <3>2. Matches(ts, d)
      BY <1>0, <1>1, <3>1, AlterUnknown
    <3> QED
      BY <1>0, <2>1, <3>2 DEF Beside
  <2>2. CASE i # 0
    <3>1. i \in 1..Len(ts) /\ Qualified(ts[i]) = q
      BY <1>2, <2>2, IndexFacts
    <3>2. Fits(ts[i], e) /\ IsEntry(e)
      BY <1>0, <1>1, <3>1 DEF Matches, IsCatalog
    <3>3. e.listed => LegalClauses(e, st)
      BY <1>0, ServerAccepts
    <3> HIDE DEF i, e
    <3>4. ActedBy(v, ts, i, e, st, Len(st.actions), at, current, db)
      BY <1>0, <3>1, <3>2, <3>3, ActedFits
    <3> HIDE DEF v
    <3>5. PICK u : /\ With(v, ts, i, u, db)
                   /\ ~v.failed => /\ PlaceBy(u, ts[i], st, Len(st.actions), current)
                                   /\ e.listed => Lists(u.cols, ColsBy(e, st, Len(st.actions), at))
      BY <3>4 DEF ActedBy
    <3>6. IsReader(v, db) /\ v.tables = [ts EXCEPT ![i] = u] /\ IsTable(u) /\ u.replica = ""
      BY <3>5 DEF With, Placed
    <3>7. ASSUME ~v.failed PROVE Matches([ts EXCEPT ![i] = u], d)
      <4>1. Qualified(u) = NameAfter(c, current, st)
        BY <1>0, <3>1, <3>5, <3>7, LastClause
      <4>2. e.listed => Lists(u.cols, Altered(e, st, at).cols)
        BY <1>0, <3>2, <3>5, <3>7, EveryClause
      <4>3. Altered(e, st, at).listed = e.listed
        BY <3>2, AlteredEntry
      <4>4. Fits(u, Altered(e, st, at))
        BY <3>6, <4>2, <4>3 DEF Fits
      <4> QED
        BY <1>0, <1>1, <3>1, <3>6, <4>1, <4>4, AlterMatches DEF e
    <3> QED
      BY <2>2, <3>6, <3>7 DEF Beside, i
  <2> QED
    BY <2>1, <2>2
<1>3. Altering(s, st, at) = Placing(s, n, body)
  BY DEF Altering
<1> HIDE DEF body, d
<1>4. Beside(Placing(s, n, body), db, d)
  BY <1>0, <1>2, PlacingBeside
<1> QED
  BY <1>3, <1>4 DEF d

-----------------------------------------------------------------------------
(* DROP TABLE a, b. *)

(* The reader after each name of a statement. *)
LEMMA NamesFollow ==
    ASSUME NEW s, NEW names, Len(names) \in Nat
    PROVE  \E after : /\ after = [k \in 0..Len(names) |->
                                    IF k = 0 THEN s ELSE DropOne(after[k - 1], names[k])]
                      /\ DroppedTables(s, names) = after[Len(names)]
<1> DEFINE Step(f, k) == IF k = 0 THEN s ELSE DropOne(f[k - 1], names[k])
           IsTrace(f, n) == f = [k \in 0..n |-> Step(f, k)]
           S == {n \in Nat : \E f : IsTrace(f, n)}
           N == Len(names)
<1>1. 0 \in S
  <2> DEFINE f == [k \in 0..0 |-> s]
  <2>1. IsTrace(f, 0)
    OBVIOUS
  <2> QED
    BY <2>1
<1>2. ASSUME NEW n \in Nat, n \in S PROVE n + 1 \in S
  <2>1. PICK f : IsTrace(f, n)
    BY <1>2
  <2> DEFINE g == [k \in 0..(n + 1) |-> IF k = n + 1 THEN Step(f, n + 1) ELSE f[k]]
  <2>2. \A k \in 0..(n + 1) : k # 0 => k - 1 \in 0..n /\ k - 1 \in 0..(n + 1) /\ k - 1 # n + 1
    OBVIOUS
  <2>3. \A k \in 0..(n + 1) : k # 0 => g[k - 1] = f[k - 1]
    BY <2>2
  <2>4. \A k \in 0..(n + 1) : Step(g, k) = Step(f, k)
    BY <2>3
  <2>5. \A k \in 0..n : f[k] = Step(f, k)
    BY <2>1
  <2>6. \A k \in 0..(n + 1) : g[k] = Step(g, k)
    BY <2>4, <2>5
  <2>7. IsTrace(g, n + 1)
    BY <2>6
  <2>8. \E x : IsTrace(x, n + 1)
    BY <2>7, Zenon
  <2> QED
    BY <2>8
<1>3. N \in S
  <2> HIDE DEF S
  <2> QED
    BY <1>1, <1>2, SetInduction
<1>4. PICK f : IsTrace(f, N)
  BY <1>3
<1> DEFINE after == CHOOSE x : IsTrace(x, N)
<1>5. IsTrace(after, N)
  BY <1>4
<1>6. DroppedTables(s, names) = after[N]
  BY DEF DroppedTables
<1> QED
  BY <1>5, <1>6

LEMMA OneDropped ==
    ASSUME NEW s, NEW db, NEW c, Beside(s, db, c), NEW current, Knows(db, current), NEW n
    PROVE  Beside(DropOne(s, n), db, Without(c, {Place(current, n)}))
<1> DEFINE q == Qualify(s, n)
           us == RemoveTable(s.tables, q)
           result == [s EXCEPT !.tables = us]
           d == Without(c, {Place(current, n)})
<1>0. IsReader(s, db)
  BY DEF Beside
<1>1. ASSUME ~s.failed, CanPlace(s, n) PROVE Beside(result, db, d)
  <2>1. Matches(s.tables, c)
    BY <1>1 DEF Beside
  <2>2. q = Place(current, n) /\ q[1] # "" /\ q = <<q[1], n.name>>
    BY <1>0, <1>1, Qualifying
  <2> DEFINE schema == q[1]
             name == n.name
             ts == s.tables
             vs == RemoveTable(ts, <<schema, name>>)
             f == Without(c, {<<schema, name>>})
  <2>3. us = vs /\ d = f
    BY <2>2
  <2>4. schema # "" /\ Matches(ts, c) /\ AllPlaced(ts)
    BY <1>0, <2>1, <2>2 DEF IsReader
  <2> HIDE DEF schema, name, ts
  <2>5. Matches(vs, f) /\ Among(vs, ts)
    BY <2>4, MatchesRemove
  <2> HIDE DEF us, d, vs, f
  <2>6. AllPlaced(vs)
    <3>1. IsSequence(vs)
      BY <2>5 DEF Matches
    <3> QED
      BY <2>4, <2>5, <3>1 DEF Among, AllPlaced
  <2>7. IsReader([s EXCEPT !.tables = vs], db) /\ [s EXCEPT !.tables = vs].tables = vs
    BY <1>0, <2>6, WithTables
  <2> QED
    BY <2>3, <2>5, <2>7 DEF Beside
<1>2. DropOne(s, n) = Placing(s, n, result)
  BY DEF DropOne
<1> HIDE DEF result, d
<1>3. Beside(Placing(s, n, result), db, d)
  BY <1>0, <1>1, PlacingBeside
<1> QED
  BY <1>2, <1>3 DEF d

LEMMA DropBeside ==
    ASSUME NEW s, NEW db, NEW c, Beside(s, db, c), IsCatalog(c), NEW current, Knows(db, current),
           NEW st, st.op = "drop", Readable(st)
    PROVE  Beside(DroppedTables(s, st.names), db, Without(c, Dropped(current, st)))
<1> DEFINE N == Len(st.names)
           Gone(k) == {Place(current, st.names[j]) : j \in 1..k}
           By(v, k) == Beside(v, db, Without(c, Gone(k)))
<1>1. IsSequence(st.names) /\ N \in Nat
  BY DEF Readable, IsSequence
<1>2. PICK after : /\ after = [k \in 0..N |-> IF k = 0 THEN s ELSE DropOne(after[k - 1], st.names[k])]
                   /\ DroppedTables(s, st.names) = after[N]
  <2> DEFINE names == st.names
  <2>1. Len(names) \in Nat
    BY <1>1
  <2> HIDE DEF names, Gone, By
  <2>2. \E after : /\ after = [k \in 0..Len(names) |-> IF k = 0 THEN s ELSE DropOne(after[k - 1], names[k])]
                   /\ DroppedTables(s, names) = after[Len(names)]
    BY <2>1, NamesFollow
  <2> QED
    BY <2>2 DEF names
<1> DEFINE S == {k \in 0..N : By(after[k], k)}
<1>3. 0 \in S
  <2>1. after[0] = s
    BY <1>1, <1>2
  <2>2. Gone(0) = {}
    OBVIOUS
  <2>3. Without(c, {}) = c
    BY WithoutNone
  <2>4. By(s, 0)
    BY <2>2, <2>3
  <2> HIDE DEF By
  <2> QED
    BY <1>1, <2>1, <2>4
<1>4. ASSUME NEW k \in 0..N, k < N, k \in S PROVE k + 1 \in S
  <2> DEFINE n == st.names[k + 1]
             d == Without(c, Gone(k))
  <2>1. k + 1 \in 0..N /\ k + 1 # 0 /\ (k + 1) - 1 = k
    BY <1>1, <1>4
  <2>2. after[k + 1] = DropOne(after[(k + 1) - 1], st.names[k + 1])
    BY <1>2, <2>1
  <2>3. after[k + 1] = DropOne(after[k], n)
    BY <2>1, <2>2
  <2>4. Beside(after[k], db, d)
    BY <1>4
  <2>5. Gone(k + 1) = Gone(k) \cup {Place(current, n)}
    <3>1. 1..(k + 1) = (1..k) \cup {k + 1}
      OBVIOUS
    <3> QED
      BY <3>1
  <2>6. Without(c, Gone(k + 1)) = Without(d, {Place(current, n)})
    <3>1. \A S1, x : Without(Without(c, S1), {x}) = Without(c, S1 \cup {x})
      BY WithoutBoth
    <3> QED
      BY <2>5, <3>1
  <2> HIDE DEF n, d, Gone
  <2>7. Beside(DropOne(after[k], n), db, Without(d, {Place(current, n)}))
    BY <2>4, OneDropped
  <2>8. By(after[k + 1], k + 1)
    BY <2>3, <2>6, <2>7
  <2> HIDE DEF By
  <2> QED
    BY <2>1, <2>8
<1>5. N \in S
  <2> HIDE DEF S
  <2> QED
    BY <1>1, <1>3, <1>4, BoundedInduction
<1>6. Gone(N) = Dropped(current, st)
  <2>1. ToSet(st.names) = {st.names[j] : j \in 1..N}
    BY <1>1 DEF ToSet, IsSequence
  <2> QED
    BY <2>1 DEF Dropped
<1> QED
  BY <1>2, <1>5, <1>6

-----------------------------------------------------------------------------
(* RENAME TABLE a TO b, c TO d. *)

(* The reader after each pair of a statement. *)
IsRenaming(after, s, pairs) ==
    after = [k \in 0..Len(pairs) |-> IF k = 0 THEN s ELSE RenamePair(after[k - 1], pairs[k])]

LEMMA PairsFollow ==
    ASSUME NEW s, NEW pairs, Len(pairs) \in Nat
    PROVE  \E after : IsRenaming(after, s, pairs) /\ RenamedTables(s, pairs) = after[Len(pairs)]
<1> DEFINE Step(f, k) == IF k = 0 THEN s ELSE RenamePair(f[k - 1], pairs[k])
           IsTrace(f, n) == f = [k \in 0..n |-> Step(f, k)]
           S == {n \in Nat : \E f : IsTrace(f, n)}
           N == Len(pairs)
<1>1. 0 \in S
  <2> DEFINE f == [k \in 0..0 |-> s]
  <2>1. IsTrace(f, 0)
    OBVIOUS
  <2> QED
    BY <2>1
<1>2. ASSUME NEW n \in Nat, n \in S PROVE n + 1 \in S
  <2>1. PICK f : IsTrace(f, n)
    BY <1>2
  <2> DEFINE g == [k \in 0..(n + 1) |-> IF k = n + 1 THEN Step(f, n + 1) ELSE f[k]]
  <2>2. \A k \in 0..(n + 1) : k # 0 => k - 1 \in 0..n /\ k - 1 \in 0..(n + 1) /\ k - 1 # n + 1
    OBVIOUS
  <2>3. \A k \in 0..(n + 1) : k # 0 => g[k - 1] = f[k - 1]
    BY <2>2
  <2>4. \A k \in 0..(n + 1) : Step(g, k) = Step(f, k)
    BY <2>3
  <2>5. \A k \in 0..n : f[k] = Step(f, k)
    BY <2>1
  <2>6. \A k \in 0..(n + 1) : g[k] = Step(g, k)
    BY <2>4, <2>5
  <2>7. IsTrace(g, n + 1)
    BY <2>6
  <2>8. \E x : IsTrace(x, n + 1)
    BY <2>7, Zenon
  <2> QED
    BY <2>8
<1>3. N \in S
  <2> HIDE DEF S
  <2> QED
    BY <1>1, <1>2, SetInduction
<1>4. PICK f : IsTrace(f, N)
  BY <1>3
<1> DEFINE after == CHOOSE x : IsTrace(x, N)
<1>5. IsTrace(after, N)
  BY <1>4
<1>6. RenamedTables(s, pairs) = after[N]
  BY DEF RenamedTables
<1>7. IsRenaming(after, s, pairs)
  BY <1>5 DEF IsRenaming
<1> QED
  BY <1>6, <1>7

(* The server's catalog after each pair. *)
IsRenamed(after, c, s, pairs) ==
    after = [k \in 0..Len(pairs) |-> IF k = 0 THEN <<c>> ELSE RenameOne(s, after[k - 1], pairs[k])]

LEMMA ServerFollows ==
    ASSUME NEW c, NEW s, NEW pairs, Len(pairs) \in Nat
    PROVE  \E after : IsRenamed(after, c, s, pairs) /\ Renamed(c, s, pairs) = after[Len(pairs)]
<1> DEFINE first == <<c>>
           Step(f, k) == IF k = 0 THEN first ELSE RenameOne(s, f[k - 1], pairs[k])
           IsTrace(f, n) == f = [k \in 0..n |-> Step(f, k)]
           S == {n \in Nat : \E f : IsTrace(f, n)}
           N == Len(pairs)
<1> HIDE DEF first
<1>1. 0 \in S
  <2> DEFINE f == [k \in 0..0 |-> first]
  <2>1. IsTrace(f, 0)
    OBVIOUS
  <2> QED
    BY <2>1
<1>2. ASSUME NEW n \in Nat, n \in S PROVE n + 1 \in S
  <2>1. PICK f : IsTrace(f, n)
    BY <1>2
  <2> DEFINE g == [k \in 0..(n + 1) |-> IF k = n + 1 THEN Step(f, n + 1) ELSE f[k]]
  <2>2. \A k \in 0..(n + 1) : k # 0 => k - 1 \in 0..n /\ k - 1 \in 0..(n + 1) /\ k - 1 # n + 1
    OBVIOUS
  <2>3. \A k \in 0..(n + 1) : k # 0 => g[k - 1] = f[k - 1]
    BY <2>2
  <2>4. \A k \in 0..(n + 1) : Step(g, k) = Step(f, k)
    BY <2>3
  <2>5. \A k \in 0..n : f[k] = Step(f, k)
    BY <2>1
  <2>6. \A k \in 0..(n + 1) : g[k] = Step(g, k)
    BY <2>4, <2>5
  <2>7. IsTrace(g, n + 1)
    BY <2>6
  <2>8. \E x : IsTrace(x, n + 1)
    BY <2>7, Zenon
  <2> QED
    BY <2>8
<1>3. N \in S
  <2> HIDE DEF S
  <2> QED
    BY <1>1, <1>2, SetInduction
<1>4. PICK f : IsTrace(f, N)
  BY <1>3
<1> DEFINE after == CHOOSE x : IsTrace(x, N)
<1>5. IsTrace(after, N)
  BY <1>4
<1>6. Renamed(c, s, pairs) = after[N]
  BY DEF Renamed, first
<1>7. IsRenamed(after, c, s, pairs)
  BY <1>5 DEF IsRenamed, first
<1> QED
  BY <1>6, <1>7

LEMMA PutCatalog ==
    ASSUME NEW c, IsCatalog(c), NEW q, NEW e, IsEntry(e)
    PROVE  IsCatalog(Put(c, q, e))
<1> DEFINE d == Put(c, q, e)
<1>1. d = [p \in DOMAIN c \cup {q} |-> IF p = q THEN e ELSE c[p]]
  BY DEF Put
<1>2. d[q] = e /\ DOMAIN d = DOMAIN c \cup {q} /\ \A p \in DOMAIN c : p # q => d[p] = c[p]
  BY <1>1
<1>3. d = [p \in DOMAIN d |-> d[p]]
  BY <1>1
<1> HIDE DEF d
<1>4. IsCatalog(d)
  BY <1>2, <1>3 DEF IsCatalog
<1> QED
  BY <1>4 DEF d

LEMMA WithoutCatalog ==
    ASSUME NEW c, IsCatalog(c), NEW S
    PROVE  IsCatalog(Without(c, S))
<1> DEFINE d == Without(c, S)
<1>1. d = [p \in DOMAIN c \ S |-> c[p]]
  BY DEF Without
<1>2. DOMAIN d = DOMAIN c \ S /\ \A p \in DOMAIN d : d[p] = c[p]
  BY <1>1
<1>3. d = [p \in DOMAIN d |-> d[p]]
  BY <1>1
<1> HIDE DEF d
<1>4. IsCatalog(d)
  BY <1>2, <1>3 DEF IsCatalog
<1> QED
  BY <1>4 DEF d

(* One pair, whose first name is a table's and whose second is free.       *)
LEMMA PairBeside ==
    ASSUME NEW s, NEW db, NEW c, Beside(s, db, c), IsCatalog(c), NEW current, Knows(db, current),
           NEW p, Place(current, p.from) \in DOMAIN c, Place(current, p.to) \notin DOMAIN c
    PROVE  /\ Beside(RenamePair(s, p), db, Moved(c, Place(current, p.from), Place(current, p.to)))
           /\ IsCatalog(Moved(c, Place(current, p.from), Place(current, p.to)))
<1> DEFINE q == Place(current, p.from)
           to == Place(current, p.to)
           e == c[q]
           d == Put(Without(c, {q}), to, e)
           i == Index(s, p.from)
           ts == s.tables
           body == IF i = 0 THEN s ELSE RenameTable(s, i, p.to)
<1>0. IsReader(s, db) /\ IsEntry(e)
  BY DEF Beside, IsCatalog
<1>1. Moved(c, q, to) = d
  BY DEF Moved
<1>2. IsCatalog(d)
  <2> HIDE DEF e, q, to
  <2> QED
    BY <1>0, WithoutCatalog, PutCatalog
<1>3. ASSUME ~s.failed, CanPlace(s, p.from) PROVE Beside(body, db, d)
  <2>1. Matches(ts, c)
    BY <1>3 DEF Beside
  <2>2. CASE i = 0
    <3>1. ~Known(ts, q)
      BY <1>3, <2>2, IndexFacts
    <3>2. ~e.listed
      BY <1>0, <2>1, <3>1 DEF Matches, IsEntry
    <3>3. ~Known(ts, to)
      BY <2>1 DEF Matches, Known
    <3> HIDE DEF e, q, to, ts
    <3>4. Matches(ts, Without(c, {q}))
      BY <2>1, <3>1, MatchesWithout
    <3>5. Matches(ts, d)
      BY <1>0, <3>2, <3>3, <3>4, MatchesPut
    <3> QED
      BY <1>0, <2>2, <3>5 DEF Beside, ts
  <2>3. CASE i # 0
    <3> DEFINE w == RenamedTo(ts[i], Qualify(s, p.to))
               us == [ts EXCEPT ![i] = w]
               moved == [s EXCEPT !.tables[i] = w]
    <3>1. i \in 1..Len(ts) /\ Qualified(ts[i]) = q
      BY <1>3, <2>3, IndexFacts
    <3>2. AllPlaced(ts) /\ Placed(ts[i])
      BY <1>0, <3>1 DEF IsReader, AllPlaced
    <3>3. body = Placing(s, p.to, moved)
      BY <2>3 DEF RenameTable
    <3>4. ASSUME CanPlace(s, p.to) PROVE Beside(moved, db, d)
      <4>1. Qualify(s, p.to) = to /\ to[1] # "" /\ to = <<to[1], to[2]>>
        <5>1. Qualify(s, p.to) = to /\ Qualify(s, p.to)[1] # ""
          BY <1>0, <3>4, Qualifying
        <5>2. to = <<to[1], to[2]>>
          BY DEF Place
        <5> QED
          BY <5>1, <5>2
      <4>2. Placed(w) /\ Qualified(w) = to /\ w.cols = ts[i].cols
        <5> HIDE DEF to
        <5> QED
          BY <3>2, <4>1, RenamedTable
      <4>3. IsTable(w) /\ w.replica = ts[i].replica
        BY <3>2, <4>2 DEF Placed
      <4>4. Fits(ts[i], e)
        BY <2>1, <3>1 DEF Matches
      <4>5. Fits(w, e)
        BY <4>2, <4>3, <4>4 DEF Fits
      <4> HIDE DEF w, i, to, e
      <4>6. Matches([ts EXCEPT ![i] = w], Put(Without(c, {Qualified(ts[i])}), Qualified(w), e))
        BY <1>0, <2>1, <3>1, <4>2, <4>3, <4>5, MatchesReplace DEF to
      <4>7. Matches(us, d)
        BY <3>1, <4>2, <4>6
      <4>8. AllPlaced(us)
        BY <3>1, <3>2, <4>2, Replacing
      <4>9. moved = [s EXCEPT !.tables = us]
        OBVIOUS
      <4> HIDE DEF us, moved
      <4>10. IsReader(moved, db) /\ moved.tables = us
        BY <1>0, <4>8, <4>9, WithTables
      <4> QED
        BY <4>7, <4>10 DEF Beside
    <3> HIDE DEF moved, d
    <3>5. Beside(Placing(s, p.to, moved), db, d)
      BY <1>0, <3>4, PlacingBeside
    <3> QED
      BY <3>3, <3>5
  <2> QED
    BY <2>2, <2>3
<1>4. RenamePair(s, p) = Placing(s, p.from, body)
  BY DEF RenamePair
<1> HIDE DEF body, d
<1>5. Beside(Placing(s, p.from, body), db, d)
  BY <1>0, <1>3, PlacingBeside
<1> QED
  BY <1>1, <1>2, <1>4, <1>5 DEF d

LEMMA RenameBeside ==
    ASSUME NEW s, NEW db, NEW c, Beside(s, db, c), IsCatalog(c), NEW current, Knows(db, current),
           NEW st, st.op = "rename", Readable(st), Renamed(c, current, st.pairs) # <<>>
    PROVE  /\ Beside(RenamedTables(s, st.pairs), db, Renamed(c, current, st.pairs)[1])
           /\ IsCatalog(Renamed(c, current, st.pairs)[1])
<1> DEFINE N == Len(st.pairs)
           By(v, x) == x # <<>> => Beside(v, db, x[1]) /\ IsCatalog(x[1])
<1>1. IsSequence(st.pairs) /\ N \in Nat
  BY DEF Readable, IsSequence
<1>2. PICK here : /\ here = [k \in 0..N |-> IF k = 0 THEN s ELSE RenamePair(here[k - 1], st.pairs[k])]
                  /\ RenamedTables(s, st.pairs) = here[N]
  <2>1. \E after : IsRenaming(after, s, st.pairs) /\ RenamedTables(s, st.pairs) = after[N]
    BY <1>1, PairsFollow, Zenon
  <2> QED
    BY <2>1 DEF IsRenaming
<1>3. PICK there : /\ there = [k \in 0..N |-> IF k = 0 THEN <<c>> ELSE RenameOne(current, there[k - 1], st.pairs[k])]
                   /\ Renamed(c, current, st.pairs) = there[N]
  <2>1. \E after : IsRenamed(after, c, current, st.pairs) /\ Renamed(c, current, st.pairs) = after[N]
    BY <1>1, ServerFollows, Zenon
  <2> QED
    BY <2>1 DEF IsRenamed
<1> DEFINE S == {k \in 0..N : By(here[k], there[k])}
<1>4. 0 \in S
  <2>1. here[0] = s /\ there[0] = <<c>>
    BY <1>1, <1>2, <1>3
  <2>2. By(s, <<c>>)
    OBVIOUS
  <2> HIDE DEF By
  <2> QED
    BY <1>1, <2>1, <2>2
<1>5. ASSUME NEW k \in 0..N, k < N, k \in S PROVE k + 1 \in S
  <2> DEFINE p == st.pairs[k + 1]
             v == here[k]
             x == there[k]
  <2>1. k + 1 \in 0..N /\ k + 1 # 0 /\ (k + 1) - 1 = k
    BY <1>1, <1>5
  <2>2. here[k + 1] = RenamePair(here[(k + 1) - 1], st.pairs[k + 1])
    BY <1>2, <2>1
  <2>3. there[k + 1] = RenameOne(current, there[(k + 1) - 1], st.pairs[k + 1])
    BY <1>3, <2>1
  <2>4. here[k + 1] = RenamePair(v, p) /\ there[k + 1] = RenameOne(current, x, p)
    BY <2>1, <2>2, <2>3
  <2>5. By(v, x)
    BY <1>5
  <2> HIDE DEF p, v, x
  <2>6. By(RenamePair(v, p), RenameOne(current, x, p))
    <3>1. SUFFICES ASSUME RenameOne(current, x, p) # <<>>
                   PROVE  /\ Beside(RenamePair(v, p), db, RenameOne(current, x, p)[1])
                          /\ IsCatalog(RenameOne(current, x, p)[1])
      OBVIOUS
    <3> DEFINE d == Moved(x[1], Place(current, p.from), Place(current, p.to))
    <3>2. /\ x # <<>> /\ Place(current, p.from) \in DOMAIN x[1] /\ Place(current, p.to) \notin DOMAIN x[1]
          /\ RenameOne(current, x, p) = <<d>>
      BY <3>1 DEF RenameOne
    <3>3. Beside(v, db, x[1]) /\ IsCatalog(x[1])
      BY <2>5, <3>2
    <3>4. Beside(RenamePair(v, p), db, d) /\ IsCatalog(d)
      BY <3>2, <3>3, PairBeside
    <3> HIDE DEF d
    <3>5. RenameOne(current, x, p)[1] = d
      BY <3>2
    <3> QED
      BY <3>4, <3>5
  <2> HIDE DEF By
  <2> QED
    BY <2>1, <2>4, <2>6
<1>6. N \in S
  <2> HIDE DEF S
  <2> QED
    BY <1>1, <1>4, <1>5, BoundedInduction
<1> QED
  BY <1>2, <1>3, <1>6

-----------------------------------------------------------------------------
(* A prepared statement that its guard skips on the server: every clause   *)
(* finds there already what it is for.                                     *)

LEMMA TableStays ==
    ASSUME NEW s, NEW db, IsReader(s, db), NEW i \in 1..Len(s.tables)
    PROVE  [s EXCEPT !.tables[i] = s.tables[i]] = s
<1> DEFINE ts == s.tables
           us == [ts EXCEPT ![i] = ts[i]]
<1>1. us = ts
  BY DEF IsReader, AllPlaced, IsSequence
<1>2. [s EXCEPT !.tables[i] = s.tables[i]] = [s EXCEPT !.tables = us]
  OBVIOUS
<1>3. s = [tables |-> ts, db |-> db, failed |-> s.failed]
  BY DEF IsReader
<1> HIDE DEF us
<1>4. [s EXCEPT !.tables = us] = [tables |-> us, db |-> db, failed |-> s.failed]
  BY <1>3
<1> QED
  BY <1>1, <1>2, <1>3, <1>4

LEMMA ActStays ==
    ASSUME NEW s, NEW db, IsReader(s, db), NEW i \in 1..Len(s.tables), NEW f, Lists(s.tables[i].cols, f),
           NEW a, a.op # "renametable", a.op = "add" => a.col \in DOMAIN f,
           a.op \in {"drop", "rename"} => a.col \notin DOMAIN f, NEW at
    PROVE  Act(s, i, a, at) = s
<1> DEFINE t == s.tables[i]
<1>1. [s EXCEPT !.tables[i] = t] = s
  BY TableStays
<1>2. a.op = "add" => AddColumn(t, a.col, at) = t
  <2>1. IsSequence(t.cols)
    BY DEF Lists
  <2>2. a.op = "add" => ColumnAt(t, a.col) # 0
    BY <2>1, ColumnAtFacts DEF Lists
  <2> QED
    BY <2>2 DEF AddColumn
<1>3. a.op \in {"drop", "rename"} => RemoveColumn(t, a.col) = t /\ RenameColumn(t, a.col, a.to, at) = t
  BY AbsentStays
<1>4. s.failed \in BOOLEAN
  BY DEF IsReader
<1> HIDE DEF t
<1>5. CASE a.op = "add"
  <2>1. ~s.failed => Act(s, i, a, at) = [s EXCEPT !.tables[i] = AddColumn(t, a.col, at)]
    BY <1>5 DEF Act, t
  <2>2. s.failed => Act(s, i, a, at) = s
    BY DEF Act
  <2> QED
    BY <1>1, <1>2, <1>4, <1>5, <2>1, <2>2
<1>6. CASE a.op = "drop"
  <2>1. ~s.failed => Act(s, i, a, at) = [s EXCEPT !.tables[i] = RemoveColumn(t, a.col)]
    BY <1>6 DEF Act, t
  <2>2. s.failed => Act(s, i, a, at) = s
    BY DEF Act
  <2> QED
    BY <1>1, <1>3, <1>4, <1>6, <2>1, <2>2
<1>7. CASE a.op = "rename"
  <2>1. ~s.failed => Act(s, i, a, at) = [s EXCEPT !.tables[i] = RenameColumn(t, a.col, a.to, at)]
    BY <1>7 DEF Act, t
  <2>2. s.failed => Act(s, i, a, at) = s
    BY DEF Act
  <2> QED
    BY <1>1, <1>3, <1>4, <1>7, <2>1, <2>2
<1>8. CASE a.op \notin {"add", "drop", "rename"}
  BY <1>4, <1>8 DEF Act
<1> QED
  BY <1>5, <1>6, <1>7, <1>8

LEMMA ActedStays ==
    ASSUME NEW s, NEW db, IsReader(s, db), NEW i \in 1..Len(s.tables), NEW f, Lists(s.tables[i].cols, f),
           NEW actions, Len(actions) \in Nat, NEW at,
           \A k \in 1..Len(actions) : /\ actions[k].op # "renametable"
                                      /\ actions[k].op = "add" => actions[k].col \in DOMAIN f
                                      /\ actions[k].op \in {"drop", "rename"} => actions[k].col \notin DOMAIN f
    PROVE  Acted(s, i, actions, at) = s
<1> DEFINE N == Len(actions)
<1>1. PICK after : /\ after = [k \in 0..N |-> IF k = 0 THEN s ELSE Act(after[k - 1], i, actions[k], at)]
                   /\ Acted(s, i, actions, at) = after[N]
  <2>1. \E after : IsActing(after, s, i, actions, at) /\ Acted(s, i, actions, at) = after[N]
    BY ActionsFollow, Zenon
  <2> QED
    BY <2>1 DEF IsActing
<1> DEFINE S == {k \in 0..N : after[k] = s}
<1>2. 0 \in S
  BY <1>1
<1>3. ASSUME NEW k \in 0..N, k < N, k \in S PROVE k + 1 \in S
  <2>1. k + 1 \in 0..N /\ k + 1 \in 1..N /\ k + 1 # 0 /\ (k + 1) - 1 = k
    BY <1>3
  <2>2. after[k + 1] = Act(after[(k + 1) - 1], i, actions[k + 1], at)
    BY <1>1, <2>1
  <2>3. Act(s, i, actions[k + 1], at) = s
    BY <2>1, ActStays
  <2> QED
    BY <1>3, <2>1, <2>2, <2>3
<1>4. N \in S
  <2> HIDE DEF S
  <2> QED
    BY <1>2, <1>3, BoundedInduction
<1> QED
  BY <1>1, <1>4

LEMMA GuardedBeside ==
    ASSUME NEW s, NEW db, NEW c, Beside(s, db, c), ~s.failed, NEW current, Knows(db, current),
           NEW st, Readable(st), AlreadyThere(c, current, st), NEW at
    PROVE  Beside(Altering(s, st, at), db, c)
<1> DEFINE n == st.name
           q == Place(current, n)
           f == c[q].cols
           i == Index(s, n)
           body == IF i = 0 THEN s ELSE Acted(s, i, st.actions, at)
<1>0. IsReader(s, db) /\ Matches(s.tables, c) /\ IsSequence(st.actions) /\ Len(st.actions) \in Nat
  <2>1. st.op = "alter"
    BY DEF AlreadyThere
  <2> QED
    BY <2>1 DEF Beside, Readable, IsSequence
<1>1. /\ c[q].listed /\ Clauses(st, "renametable") = {}
      /\ Named(st, "add") \subseteq DOMAIN f
      /\ (Named(st, "drop") \cup Named(st, "rename")) \cap DOMAIN f = {}
  BY DEF AlreadyThere
<1>2. ASSUME NEW k \in 1..Len(st.actions)
      PROVE  /\ st.actions[k].op # "renametable"
             /\ st.actions[k].op = "add" => st.actions[k].col \in DOMAIN f
             /\ st.actions[k].op \in {"drop", "rename"} => st.actions[k].col \notin DOMAIN f
  <2>1. k \in DOMAIN st.actions
    BY <1>0 DEF IsSequence
  <2> HIDE DEF f
  <2> QED
    BY <1>1, <2>1 DEF Clauses, Named
<1>3. ASSUME CanPlace(s, n) PROVE Beside(body, db, c)
  <2>1. CASE i = 0
    BY <2>1
  <2>2. CASE i # 0
    <3>1. i \in 1..Len(s.tables) /\ Qualified(s.tables[i]) = q
      BY <1>3, <2>2, IndexFacts
    <3>2. Lists(s.tables[i].cols, f)
      BY <1>0, <1>1, <3>1 DEF Matches, Fits
    <3> HIDE DEF i, f
    <3>3. Acted(s, i, st.actions, at) = s
      BY <1>0, <1>2, <3>1, <3>2, ActedStays
    <3> QED
      BY <2>2, <3>3
  <2> QED
    BY <2>1, <2>2
<1>4. Altering(s, st, at) = Placing(s, n, body)
  BY DEF Altering
<1> HIDE DEF body
<1>5. Beside(Placing(s, n, body), db, c)
  BY <1>0, <1>3, PlacingBeside
<1> QED
  BY <1>4, <1>5

-----------------------------------------------------------------------------
(* Any statement but USE. *)

LEMMA CreateCatalog ==
    ASSUME NEW c, IsCatalog(c), NEW s, NEW st, st.op = "create", Readable(st), CreateLegal(c, s, st),
           Dialect = "mysql", NEW at
    PROVE  IsCatalog(CreateDone(c, s, st, at))
<1> DEFINE e == NewTable(c, s, st, at)
<1>1. IsEntry(e)
  BY NewEntry DEF IsNew
<1>2. CreateDone(c, s, st, at) = IF Place(s, st.name) \in DOMAIN c THEN c ELSE Put(c, Place(s, st.name), e)
  BY DEF CreateDone
<1> HIDE DEF e
<1> QED
  BY <1>1, <1>2, PutCatalog

LEMMA AlterCatalog ==
    ASSUME NEW c, IsCatalog(c), NEW s, NEW st, AlterLegal(c, s, st), NEW at
    PROVE  IsCatalog(AlterDone(c, s, st, at))
<1> DEFINE q == Place(s, st.name)
           p == NameAfter(c, s, st)
           e == Altered(c[q], st, at)
<1>1. q \in DOMAIN c
  BY DEF AlterLegal
<1>2. IsEntry(e)
  <2>1. IsEntry(c[q])
    BY <1>1 DEF IsCatalog
  <2> QED
    BY <2>1, AlteredEntry
<1>3. AlterDone(c, s, st, at) = Put(Without(c, {q}), p, e)
  BY <1>1, AlterDoneIs
<1> HIDE DEF p, e, q
<1> QED
  BY <1>2, <1>3, WithoutCatalog, PutCatalog

OnTables == {"create", "alter", "rename", "drop"}

LEMMA PlainBeside ==
    ASSUME NEW s, NEW db, NEW c, Beside(s, db, c), IsCatalog(c), ~s.failed, NEW current, Knows(db, current),
           Dialect = "mysql", NEW st, st.op \in OnTables, Readable(st), Legal(c, current, st), NEW at
    PROVE  Beside(Plain(s, st, at), db, Done(c, current, st, at)) /\ IsCatalog(Done(c, current, st, at))
<1>1. CASE st.op = "create"
  <2>1. CreateLegal(c, current, st)
    BY <1>1 DEF Legal
  <2>2. Plain(s, st, at) = Created(s, st, at) /\ Done(c, current, st, at) = CreateDone(c, current, st, at)
    BY <1>1 DEF Plain, Done
  <2>3. Beside(Created(s, st, at), db, CreateDone(c, current, st, at))
    BY <1>1, <2>1, CreateBeside
  <2>4. IsCatalog(CreateDone(c, current, st, at))
    BY <1>1, <2>1, CreateCatalog
  <2> QED
    BY <2>2, <2>3, <2>4
<1>2. CASE st.op = "alter"
  <2>1. AlterLegal(c, current, st)
    BY <1>2 DEF Legal
  <2>2. Plain(s, st, at) = Altering(s, st, at) /\ Done(c, current, st, at) = AlterDone(c, current, st, at)
    BY <1>2 DEF Plain, Done
  <2>3. Beside(Altering(s, st, at), db, AlterDone(c, current, st, at))
    BY <1>2, <2>1, AlterBeside
  <2>4. IsCatalog(AlterDone(c, current, st, at))
    BY <2>1, AlterCatalog
  <2> QED
    BY <2>2, <2>3, <2>4
<1>3. CASE st.op = "rename"
  <2>1. Renamed(c, current, st.pairs) # <<>>
    BY <1>3 DEF Legal
  <2>2. Plain(s, st, at) = RenamedTables(s, st.pairs) /\ Done(c, current, st, at) = Renamed(c, current, st.pairs)[1]
    BY <1>3 DEF Plain, Done
  <2>3. Beside(RenamedTables(s, st.pairs), db, Renamed(c, current, st.pairs)[1])
        /\ IsCatalog(Renamed(c, current, st.pairs)[1])
    BY <1>3, <2>1, RenameBeside
  <2> QED
    BY <2>2, <2>3
<1>4. CASE st.op = "drop"
  <2>1. Plain(s, st, at) = DroppedTables(s, st.names)
    BY <1>4 DEF Plain
  <2>2. Done(c, current, st, at) = Without(c, Dropped(current, st))
    BY <1>4 DEF Done
  <2>3. Beside(DroppedTables(s, st.names), db, Without(c, Dropped(current, st)))
    BY <1>4, DropBeside
  <2>4. IsCatalog(Without(c, Dropped(current, st)))
    BY WithoutCatalog
  <2> QED
    BY <2>1, <2>2, <2>3, <2>4
<1> QED
  BY <1>1, <1>2, <1>3, <1>4 DEF OnTables

-----------------------------------------------------------------------------
(* The reader beside the runner. *)

(* What a runner is connected to, and what its migrations are made of.     *)
ForMySQL ==
    /\ Dialect = "mysql" /\ "" \notin Connections
    /\ \A st \in Statements : Supported(st)

(* What the reader takes for the current database: the runner's, if any.   *)
InPlace == session # "" /\ told \in BOOLEAN /\ r.db = (IF told THEN session ELSE "")

(* The inductive invariant.  A reader that has failed still holds the      *)
(* tables it placed, so Beside speaks of them as well; the catalog is kept *)
(* apart, since it changes in the very step in which the reader fails.     *)
Following == Walked /\ InPlace /\ IsCatalog(catalog) /\ Beside(r, r.db, catalog)

LEMMA NonePlaced == AllPlaced(<<>>)
BY DEF AllPlaced, IsSequence

LEMMA KnowsPlace == InPlace => Knows(r.db, session)
BY DEF InPlace, Knows

LEMMA FollowingStarts ==
    ASSUME ForMySQL, Init
    PROVE  Following
<1>1. Walked /\ session \in Connections /\ catalog = NoTables
  BY WalkStarts DEF Init
<1>2. PICK given \in {"", session} :
         r = [tables |-> <<>>, db |-> given, failed |-> FALSE] /\ told = (given # "")
  BY DEF Init
<1>3. r.tables = <<>> /\ r.db = given /\ r.failed = FALSE /\ r = [tables |-> r.tables, db |-> r.db, failed |-> r.failed]
  BY <1>2
<1>4. session # ""
  BY <1>1 DEF ForMySQL
<1>5. InPlace
  BY <1>2, <1>3, <1>4 DEF InPlace
<1>6. Matches(<<>>, NoTables)
  BY NothingMatches
<1>7. AllPlaced(<<>>)
  BY NonePlaced
<1>8. IsReader(r, r.db)
  BY <1>3, <1>7 DEF IsReader
<1>9. IsCatalog(NoTables)
  BY <1>6 DEF Matches
<1> QED
  BY <1>1, <1>3, <1>5, <1>6, <1>8, <1>9 DEF Following, Beside

(* Any statement but USE, in the half that neither of them takes and in    *)
(* the other.                                                              *)
LEMMA FollowingExecutes ==
    ASSUME Following, NEW st, st.op # "use", Execute(st), NEW result, Read(result), told' = told,
           Allowed(catalog, session, st) =>
               /\ Beside(result, r.db, Executed(catalog, session, st, At))
               /\ IsCatalog(Executed(catalog, session, st, At))
    PROVE  Following'
<1>1. Walked'
  BY WalkExecutes DEF Following
<1>2. session' = session
  BY DEF Execute, SessionAfter
<1>3. half \in {"up", "down"} /\ (LeftOut <=> half = "down")
  BY DEF Following, Walked
<1>4. CASE half = "down"
  <2>1. r' = r /\ catalog' = catalog
    BY <1>3, <1>4 DEF Read, Execute
  <2> QED
    BY <1>1, <1>2, <2>1 DEF Following, InPlace
<1>5. CASE half = "up"
  <2>1. r' = result
    BY <1>3, <1>5 DEF Read
  <2>2. Allowed(catalog, session, st) /\ catalog' = Executed(catalog, session, st, At)
    BY <1>5 DEF Execute
  <2>3. Beside(r', r.db, catalog') /\ IsCatalog(catalog')
    BY <2>1, <2>2
  <2>4. r'.db = r.db
    BY <2>3 DEF Beside, IsReader
  <2> QED
    BY <1>1, <1>2, <2>3, <2>4 DEF Following, InPlace
<1> QED
  BY <1>3, <1>4, <1>5

(* USE, which the runner executes and the reader reads.                    *)
LEMMA DbSet ==
    ASSUME NEW s, NEW db, IsReader(s, db), ~s.failed, NEW x
    PROVE  IsReader([s EXCEPT !.db = x], x) /\ [s EXCEPT !.db = x].tables = s.tables
           /\ ~[s EXCEPT !.db = x].failed
<1> DEFINE u == [tables |-> s.tables, db |-> x, failed |-> s.failed]
<1>1. [s EXCEPT !.db = x] = u
  <2>1. s = [tables |-> s.tables, db |-> db, failed |-> s.failed]
    BY DEF IsReader
  <2> QED
    BY <2>1
<1>2. u.tables = s.tables /\ u.db = x /\ u.failed = s.failed
  OBVIOUS
<1> HIDE DEF u
<1>3. u = [tables |-> u.tables, db |-> x, failed |-> u.failed]
  BY <1>2 DEF u
<1>4. IsReader(u, x)
  BY <1>2, <1>3 DEF IsReader
<1> QED
  BY <1>1, <1>2, <1>4

LEMMA FollowingUses ==
    ASSUME Following, ~r.failed, NEW st, st.op = "use", Readable(st), Execute(st), Read(Plain(r, st, At)),
           told' = (told \/ half = "up")
    PROVE  Following'
<1>1. Walked'
  BY WalkExecutes DEF Following
<1>2. half \in {"up", "down"} /\ (LeftOut <=> half = "down") /\ told \in BOOLEAN
  BY DEF Following, Walked, InPlace
<1>3. catalog' = catalog
  BY DEF Execute, Executed, Done
<1>4. CASE half = "down"
  <2>1. r' = r /\ session' = session
    BY <1>2, <1>4 DEF Read, Execute
  <2>2. told' = told
    BY <1>2, <1>4
  <2>3. InPlace'
    <3>1. session' # "" /\ told' \in BOOLEAN
      BY <2>1, <2>2 DEF Following, InPlace
    <3>2. r'.db = IF told' THEN session' ELSE ""
      <4>1. r'.db = IF told THEN session ELSE ""
        BY <2>1 DEF Following, InPlace
      <4>2. told <=> told'
        BY <1>2, <1>4
      <4>3. CASE told
        BY <2>1, <4>1, <4>2, <4>3
      <4>4. CASE ~told
        BY <4>1, <4>2, <4>4
      <4> QED
        BY <4>3, <4>4
    <3> QED
      BY <3>1, <3>2 DEF InPlace
  <2>4. Beside(r', r'.db, catalog') /\ IsCatalog(catalog')
    BY <1>3, <2>1 DEF Following
  <2> QED
    BY <1>1, <2>3, <2>4 DEF Following
<1>5. CASE half = "up"
  <2>1. told' = TRUE /\ session' = st.db /\ st.db # ""
    BY <1>5 DEF Execute, SessionAfter, Readable
  <2>2. r' = [r EXCEPT !.db = st.db]
    BY <1>2, <1>5 DEF Read, Plain
  <2>3. IsReader(r', st.db) /\ r'.tables = r.tables /\ ~r'.failed
    BY <2>2, DbSet DEF Following, Beside
  <2>4. r'.db = st.db
    BY <2>3 DEF IsReader
  <2>5. Matches(r'.tables, catalog')
    BY <1>3, <2>3 DEF Following, Beside
  <2>6. Beside(r', r'.db, catalog')
    BY <2>3, <2>4, <2>5 DEF Beside
  <2>7. InPlace'
    BY <2>1, <2>4 DEF InPlace
  <2> QED
    BY <1>1, <1>3, <2>6, <2>7 DEF Following
<1> QED
  BY <1>2, <1>4, <1>5

LEMMA FollowingStays ==
    ASSUME Following, Walked', r' = r, told' = told, catalog' = catalog, session' = session
    PROVE  Following'
BY DEF Following, InPlace

(* Statement, for a statement that is not prepared.                        *)
LEMMA FollowingReads ==
    ASSUME ForMySQL, Following, NEW op \in OnTables, Statement(op), told' = told
    PROVE  Following'
<1>1. PICK st \in Statements : st.op = op /\ Execute(st) /\ Read(Plain(r, st, At))
  BY DEF Statement
<1>2. st.op \in OnTables /\ Readable(st) /\ st.op # "use" /\ st.op # "prepared" /\ ~r.failed
  BY <1>1 DEF ForMySQL, Supported, OnTables, Statement
<1>3. Knows(r.db, session)
  BY KnowsPlace DEF Following
<1>4. ASSUME Allowed(catalog, session, st)
      PROVE  /\ Beside(Plain(r, st, At), r.db, Executed(catalog, session, st, At))
             /\ IsCatalog(Executed(catalog, session, st, At))
  <2>1. Legal(catalog, session, st) /\ Executed(catalog, session, st, At) = Done(catalog, session, st, At)
    BY <1>2, <1>4 DEF Allowed, Executed
  <2> QED
    BY <1>2, <1>3, <2>1, PlainBeside DEF Following, ForMySQL
<1> QED
  BY <1>1, <1>2, <1>4, FollowingExecutes

(* A prepared statement, that the guard lets the server execute or not.    *)
LEMMA FollowingPrepared ==
    ASSUME ForMySQL, Following, Prepared
    PROVE  Following'
<1>1. PICK st \in Statements : st.op = "prepared" /\ Execute(st) /\ Read(Plain(r, st.inner, At))
  BY DEF Prepared
<1>2. st.inner.op \in OnTables /\ Readable(st.inner) /\ ~r.failed /\ told' = told
  BY <1>1 DEF ForMySQL, Supported, OnTables, Prepared
<1>3. Knows(r.db, session) /\ Beside(r, r.db, catalog) /\ IsCatalog(catalog)
  BY KnowsPlace DEF Following
<1>4. ASSUME Allowed(catalog, session, st)
      PROVE  /\ Beside(Plain(r, st.inner, At), r.db, Executed(catalog, session, st, At))
             /\ IsCatalog(Executed(catalog, session, st, At))
  <2>1. CASE Legal(catalog, session, st.inner)
    <3>1. Executed(catalog, session, st, At) = Done(catalog, session, st.inner, At)
      BY <1>1, <2>1 DEF Executed
    <3> QED
      BY <1>2, <1>3, <2>1, <3>1, PlainBeside DEF ForMySQL
  <2>2. CASE ~Legal(catalog, session, st.inner)
    <3>1. Executed(catalog, session, st, At) = catalog /\ AlreadyThere(catalog, session, st.inner)
      BY <1>1, <1>4, <2>2 DEF Allowed, Executed
    <3>2. Plain(r, st.inner, At) = Altering(r, st.inner, At)
      BY <3>1 DEF AlreadyThere, Plain
    <3>3. Beside(Altering(r, st.inner, At), r.db, catalog)
      BY <1>2, <1>3, <3>1, GuardedBeside
    <3> QED
      BY <1>3, <3>1, <3>2, <3>3
  <2> QED
    BY <2>1, <2>2
<1> QED
  BY <1>1, <1>2, <1>4, FollowingExecutes

LEMMA FollowingSteps ==
    ASSUME ForMySQL, Following, [Next]_vars
    PROVE  Following'
<1>0. Walked
  BY DEF Following
<1>1. CASE Use
  <2>1. PICK st \in Statements : st.op = "use" /\ Execute(st) /\ Read(Plain(r, st, At))
    BY <1>1 DEF Use, Statement
  <2>2. Readable(st) /\ ~r.failed /\ told' = (told \/ half = "up")
    BY <1>1, <2>1 DEF ForMySQL, Supported, Use, Statement
  <2> QED
    BY <2>1, <2>2, FollowingUses
<1>2. CASE CreateTable
  BY <1>2, FollowingReads DEF CreateTable, OnTables
<1>3. CASE AlterTable
  BY <1>3, FollowingReads DEF AlterTable, OnTables
<1>4. CASE RenameTables
  BY <1>4, FollowingReads DEF RenameTables, OnTables
<1>5. CASE DropTables
  BY <1>5, FollowingReads DEF DropTables, OnTables
<1>6. CASE Temporary
  <2>1. PICK st \in Statements : st.op = "temporary" /\ Execute(st) /\ Read(Plain(r, st, At))
    BY <1>6 DEF Temporary, Statement
  <2>2. Plain(r, st, At) = r /\ Executed(catalog, session, st, At) = catalog
    BY <2>1 DEF Plain, Executed, Done
  <2>3. Beside(r, r.db, catalog) /\ IsCatalog(catalog) /\ told' = told
    BY <1>6 DEF Following, Temporary
  <2> QED
    BY <2>1, <2>2, <2>3, FollowingExecutes
<1>7. CASE Prepared
  BY <1>7, FollowingPrepared
<1>8. CASE OpenNext
  BY <1>0, <1>8, WalkOpens, FollowingStays DEF OpenNext
<1>9. CASE MarkHalf
  BY <1>0, <1>9, WalkMarks, FollowingStays DEF MarkHalf
<1>10. CASE UNCHANGED vars
  <2>1. UNCHANGED walk /\ r' = r /\ told' = told
    BY <1>10 DEF vars
  <2>2. Walked' /\ catalog' = catalog /\ session' = session
    BY <1>0, <2>1, WalkStutters DEF walk
  <2> QED
    BY <2>1, <2>2, FollowingStays
<1>11. AllRead => UNCHANGED vars
  BY DEF AllRead
<1> QED
  BY <1>1, <1>2, <1>3, <1>4, <1>5, <1>6, <1>7, <1>8, <1>9, <1>10, <1>11 DEF Next

LEMMA Invariance ==
    ASSUME ForMySQL
    PROVE  Spec => []Following
<1>1. Init => Following
  BY FollowingStarts
<1>2. Following /\ [Next]_vars => Following'
  BY FollowingSteps
<1> QED
  BY <1>1, <1>2, PTL DEF Spec

LEMMA TypesFollow == Following => MySQLTypeOK
<1> SUFFICES ASSUME Following PROVE MySQLTypeOK
  OBVIOUS
<1>1. WalkTypeOK
  BY DEF Following, Walked, WalkTypeOK, IsCatalog, IsEntry
<1>2. r.failed \in BOOLEAN /\ AllPlaced(r.tables)
  BY DEF Following, Beside, IsReader
<1>3. \A t \in ToSet(r.tables) : t.schema # ""
  <2>1. ToSet(r.tables) = {r.tables[i] : i \in 1..Len(r.tables)}
    BY <1>2 DEF AllPlaced, IsSequence, ToSet
  <2> QED
    BY <1>2, <2>1 DEF AllPlaced, Placed
<1> QED
  BY <1>1, <1>2, <1>3 DEF MySQLTypeOK

LEMMA TablesFollow ==
    Following => MySQLLeavesBehind /\ MySQLNamesDistinct /\ MySQLPointsAtDeclarations
<1> SUFFICES ASSUME Following PROVE MySQLLeavesBehind /\ MySQLNamesDistinct /\ MySQLPointsAtDeclarations
  OBVIOUS
<1>1. ~r.failed => Matches(r.tables, catalog)
  BY DEF Following, Beside
<1> QED
  BY <1>1, MatchesMeans DEF MySQLLeavesBehind, MySQLNamesDistinct, MySQLPointsAtDeclarations

LEMMA PlaceFollows == Following => PlacedWhereTheRunnerIs
BY DEF Following, InPlace, Beside, IsReader, PlacedWhereTheRunnerIs

-----------------------------------------------------------------------------
(* The reader's state is well-formed, for all migrations: no table is kept *)
(* without a database.                                                     *)
THEOREM TypeCorrectness ==
    ASSUME ForMySQL
    PROVE  Spec => []MySQLTypeOK
<1>1. Spec => []Following
  BY Invariance
<1> QED
  BY <1>1, TypesFollow, PTL

(* A table is an error when, and only when, neither the connector nor a    *)
(* USE the runner ran has said which database the runner is in; the reader *)
(* places the others where the runner is.                                  *)
THEOREM PlacedBesideTheRunner ==
    ASSUME ForMySQL
    PROVE  Spec => []PlacedWhereTheRunnerIs
<1>1. Spec => []Following
  BY Invariance
<1> QED
  BY <1>1, PlaceFollows, PTL

(* Unless a name could not be placed, the tables ReadFiles returns are     *)
(* those the migrations leave behind: after any sequence of CREATE, LIKE,  *)
(* ALTER, RENAME and DROP TABLE, moves between databases, guarded          *)
(* statements, markers and files.                                          *)
THEOREM WhatTheMigrationsLeave ==
    ASSUME ForMySQL
    PROVE  Spec => []MySQLLeavesBehind
<1>1. Spec => []Following
  BY Invariance
<1> QED
  BY <1>1, TablesFollow, PTL

(* No sequence of renames, moves between databases and repeated CREATEs    *)
(* leaves two tables, or two columns of a table the files list, of one     *)
(* name.                                                                   *)
THEOREM OneTableOneColumn ==
    ASSUME ForMySQL
    PROVE  Spec => []MySQLNamesDistinct
<1>1. Spec => []Following
  BY Invariance
<1> QED
  BY <1>1, TablesFollow, PTL

(* A column's position is that of the statement that gave it its name.     *)
THEOREM DeclaredWhereItPoints ==
    ASSUME ForMySQL
    PROVE  Spec => []MySQLPointsAtDeclarations
<1>1. Spec => []Following
  BY Invariance
<1> QED
  BY <1>1, TablesFollow, PTL

=============================================================================
