---------------------------- MODULE FixLoopProofs ----------------------------
(***************************************************************************)
(* Fixes help and do no harm, for every connector whose lists are such as  *)
(* Editable says: the theorems at the end.  An edit changes one list by    *)
(* one name; what that does to the captures of a table and of a column     *)
(* follows from which of the six kinds of list it was.                     *)
(***************************************************************************)
EXTENDS FixLoop, RulesProofs

-----------------------------------------------------------------------------
(* Sets as sequences. *)

(* SetToSeq lists a finite set.                                            *)
LEMMA SequenceOf ==
    ASSUME NEW S, IsFiniteSet(S)
    PROVE  IsSequence(SetToSeq(S)) /\ ToSet(SetToSeq(S)) = S
<1> DEFINE n == Cardinality(S)
           s == SetToSeq(S)
<1>1. n \in Nat /\ ExistsBijection(1..n, S)
  BY FS_CardinalityType
<1>2. PICK f : f \in Bijection(1..n, S)
  BY <1>1 DEF ExistsBijection
<1>3. f \in [1..n -> S] /\ IsInjective(f)
  BY <1>2 DEF Bijection, Injection
<1>4. s \in [1..n -> S] /\ IsInjective(s)
  BY <1>3 DEF SetToSeq
<1> HIDE DEF n, s
<1>5. s \in Injection(1..n, S)
  BY <1>4 DEF Injection
<1>6. Cardinality(1..n) = n /\ IsFiniteSet(1..n)
  BY <1>1, FS_Interval
<1>7. s \in Surjection(1..n, S)
  BY <1>5, <1>6, FS_Injection DEF n
<1>8. \A x \in S : \E i \in 1..n : s[i] = x
  BY <1>7 DEF Surjection
<1>9. Len(s) = n /\ DOMAIN s = 1..n /\ s = [i \in 1..n |-> s[i]]
  BY <1>1, <1>4
<1>10. ToSet(s) = S
  BY <1>4, <1>8, <1>9 DEF ToSet
<1> QED
  BY <1>1, <1>9, <1>10 DEF IsSequence, s

LEMMA SequenceOfOne ==
    ASSUME NEW x
    PROVE  SetToSeq({x}) = <<x>>
<1>1. IsFiniteSet({x}) /\ Cardinality({x}) = 1
  BY FS_Singleton
<1>2. <<x>> \in [1..1 -> {x}] /\ IsInjective(<<x>>)
  BY DEF IsInjective
<1>3. SetToSeq({x}) \in [1..1 -> {x}]
  BY <1>1, <1>2 DEF SetToSeq
<1> DEFINE s == SetToSeq({x})
<1> HIDE DEF s
<1>4. s = [i \in 1..1 |-> x]
  BY <1>3 DEF s
<1> QED
  BY <1>4 DEF s

-----------------------------------------------------------------------------
(* The two names of a list. *)

Present(c, k) == k \in DOMAIN c.lists /\ ~Blank(c.lists[k])

LEMMA FirstOfTwo ==
    ASSUME NEW I \in SUBSET (1..2), I # {}
    PROVE  (1 \in I => Min(I) = 1) /\ (1 \notin I => 2 \in I /\ Min(I) = 2)
<1>1. \A y \in I : y = 1 \/ y = 2
  OBVIOUS
<1>2. 1 \notin I => 2 \in I
  BY <1>1
<1>3. \E x \in I : \A y \in I : x <= y
  <2>1. CASE 1 \in I
    BY <1>1, <2>1
  <2>2. CASE 1 \notin I
    BY <1>1, <1>2, <2>2
  <2> QED
    BY <2>1, <2>2
<1>4. Min(I) \in I /\ \A y \in I : Min(I) <= y
  BY <1>3 DEF Min
<1> DEFINE m == Min(I)
<1>5. (m = 1 \/ m = 2) /\ m \in I /\ (1 \in I => m <= 1)
  BY <1>1, <1>4
<1> HIDE DEF m
<1>6. (1 \in I => m = 1) /\ (1 \notin I => m = 2)
  BY <1>5
<1> QED
  BY <1>2, <1>6 DEF m

(* Which key is read: the first that is present, and for FirstOf a blank   *)
(* one is.                                                                 *)
LEMMA KeysOfTwo ==
    ASSUME NEW c, NEW a, NEW b
    PROVE  /\ KeyOf(c, <<a, b>>) =
                IF Present(c, a) THEN a ELSE IF Present(c, b) THEN b ELSE ""
           /\ FirstOf(c, <<a, b>>) =
                IF a \in DOMAIN c.lists THEN c.lists[a]
                ELSE IF b \in DOMAIN c.lists THEN c.lists[b] ELSE <<>>
<1> DEFINE ks == <<a, b>>
           I == {i \in 1..Len(ks) : Present(c, ks[i])}
           J == {i \in 1..Len(ks) : ks[i] \in DOMAIN c.lists}
           g == IF I # {} THEN Min(I) ELSE 0
           h == IF J # {} THEN Min(J) ELSE 0
<1>1. /\ KeyOf(c, ks) = IF g = 0 THEN "" ELSE ks[g]
      /\ FirstOf(c, ks) = IF h = 0 THEN <<>> ELSE c.lists[ks[h]]
  BY DEF KeyOf, FirstOf, SelectInSeq, Present
<1>2. Len(ks) = 2 /\ ks[1] = a /\ ks[2] = b
  OBVIOUS
<1>3. /\ 1 \in I <=> Present(c, a)
      /\ 2 \in I <=> Present(c, b)
      /\ 1 \in J <=> a \in DOMAIN c.lists
      /\ 2 \in J <=> b \in DOMAIN c.lists
      /\ I \in SUBSET (1..2) /\ J \in SUBSET (1..2)
  BY <1>2
<1> HIDE DEF I, J
<1>4. /\ 1 \in I => g = 1
      /\ 1 \notin I /\ 2 \in I => g = 2
      /\ 1 \notin I /\ 2 \notin I => g = 0
  BY <1>3, FirstOfTwo
<1>5. /\ 1 \in J => h = 1
      /\ 1 \notin J /\ 2 \in J => h = 2
      /\ 1 \notin J /\ 2 \notin J => h = 0
  BY <1>3, FirstOfTwo
<1> HIDE DEF ks, g, h
<1>6. 1 # 0 /\ 2 # 0
  OBVIOUS
<1>7. /\ Present(c, a) => KeyOf(c, ks) = a
      /\ ~Present(c, a) /\ Present(c, b) => KeyOf(c, ks) = b
      /\ ~Present(c, a) /\ ~Present(c, b) => KeyOf(c, ks) = ""
  BY <1>1, <1>2, <1>3, <1>4, <1>6, Zenon
<1>8. /\ a \in DOMAIN c.lists => FirstOf(c, ks) = c.lists[a]
      /\ a \notin DOMAIN c.lists /\ b \in DOMAIN c.lists => FirstOf(c, ks) = c.lists[b]
      /\ a \notin DOMAIN c.lists /\ b \notin DOMAIN c.lists => FirstOf(c, ks) = <<>>
  BY <1>1, <1>2, <1>3, <1>5, <1>6, Zenon
<1> QED
  BY <1>7, <1>8 DEF ks

-----------------------------------------------------------------------------
(* A list with a name put in, and with one taken out. *)

LEMMA FiniteImage ==
    ASSUME NEW S, IsFiniteSet(S), NEW f, f = [x \in S |-> f[x]]
    PROVE  IsFiniteSet({f[x] : x \in S})
<1> DEFINE T == {f[x] : x \in S}
<1>1. f \in Surjection(S, T)
  BY DEF Surjection
<1> QED
  BY <1>1, FS_Surjection

LEMMA FinitePatterns ==
    ASSUME NEW value, IsList(value)
    PROVE  IsFiniteSet(Patterns(value))
<1>1. DOMAIN value = 1..Len(value) /\ Len(value) \in Nat
  BY DEF IsList, IsSequence
<1>2. ASSUME NEW e \in DOMAIN value PROVE IsFiniteSet(ToSet(value[e]))
  <2> DEFINE s == value[e]
  <2>1. Len(s) \in Nat /\ DOMAIN s = 1..Len(s) /\ s = [i \in 1..Len(s) |-> s[i]]
    BY DEF IsList, IsEntry, IsSequence
  <2> HIDE DEF s
  <2>2. IsFiniteSet(1..Len(s))
    <3>1. \A n \in Nat : IsFiniteSet(1..n)
      BY FS_Interval
    <3> QED
      BY <2>1, <3>1, Zenon
  <2>3. IsFiniteSet(DOMAIN s) /\ s = [i \in DOMAIN s |-> s[i]]
    BY <2>1, <2>2
  <2>4. IsFiniteSet({s[i] : i \in DOMAIN s})
    BY <2>3, FiniteImage
  <2> QED
    BY <2>4 DEF ToSet, s
<1> DEFINE f == [e \in DOMAIN value |-> ToSet(value[e])]
<1>3. f = [e \in DOMAIN value |-> f[e]] /\ \A e \in DOMAIN value : f[e] = ToSet(value[e])
  OBVIOUS
<1> HIDE DEF f
<1>4. IsFiniteSet(DOMAIN value)
  BY <1>1, FS_Interval
<1>5. IsFiniteSet({f[e] : e \in DOMAIN value})
  BY <1>3, <1>4, FiniteImage
<1>6. Patterns(value) = UNION {f[e] : e \in DOMAIN value}
  BY <1>3 DEF Patterns
<1>7. \A T \in {f[e] : e \in DOMAIN value} : IsFiniteSet(T)
  BY <1>2, <1>3
<1> QED
  BY <1>5, <1>6, <1>7, FS_UNION

LEMMA PatternIn ==
    ASSUME NEW value, NEW p
    PROVE  p \in Patterns(value) <=> \E e \in DOMAIN value : \E a \in DOMAIN value[e] : p = value[e][a]
BY DEF Patterns, ToSet

LEMMA NoPatterns == Patterns(<<>>) = {}
BY DEF Patterns

Literal(q) == [ext |-> {q}, glob |-> {}, db |-> Head(q)]

LEMMA LiteralsOfOne ==
    ASSUME NEW q
    PROVE  Literals({q}) = <<Literal(q)>>
<1>1. {[ext |-> {x}, glob |-> {}, db |-> Head(x)] : x \in {q}} = {Literal(q)}
  BY DEF Literal
<1> QED
  BY <1>1, SequenceOfOne DEF Literals

LEMMA OneElement ==
    ASSUME NEW x
    PROVE  IsSequence(<<x>>) /\ DOMAIN <<x>> = {1} /\ <<x>>[1] = x /\ <<x>> # <<>>
BY DEF IsSequence

LEMMA EntryOfOne ==
    ASSUME NEW alt, alt = [ext |-> alt.ext, glob |-> alt.glob, db |-> alt.db],
           alt.db # "" => \A q \in alt.ext : Head(q) = alt.db
    PROVE  IsEntry(<<alt>>)
<1>1. IsSequence(<<alt>>) /\ DOMAIN <<alt>> = {1} /\ <<alt>>[1] = alt
  BY OneElement
<1> QED
  BY <1>1 DEF IsEntry

LEMMA NamePutIn ==
    ASSUME NEW value, IsList(value), NEW q
    PROVE  LET v == With(value, {q})
           IN  /\ IsList(v) /\ ~Blank(v)
               /\ v = value \/ v = Append(value, <<Literal(q)>>)
               /\ \A x : AnyMatch(Patterns(v), x) <=> AnyMatch(Patterns(value), x) \/ x = q
<1> DEFINE v == With(value, {q})
           lit == Literal(q)
           n == Len(value)
<1>1. /\ Literals({q}) = <<lit>>
      /\ lit = [ext |-> lit.ext, glob |-> lit.glob, db |-> lit.db]
      /\ lit.ext = {q} /\ lit.db = Head(q)
  BY LiteralsOfOne DEF Literal
<1>2. value = [i \in 1..n |-> value[i]] /\ n \in Nat /\ value # <<>> /\ DOMAIN value = 1..n
  BY DEF IsList, IsSequence
<1>3. v = IF <<lit>> \in ToSet(value) THEN value ELSE Append(value, <<lit>>)
  BY <1>1 DEF With
<1> HIDE DEF lit, n, v
<1>4. CASE <<lit>> \in ToSet(value)
  <2>1. PICK e \in DOMAIN value : value[e] = <<lit>>
    BY <1>4 DEF ToSet
  <2>2. lit \in Patterns(value)
    <3>1. 1 \in DOMAIN value[e] /\ lit = value[e][1]
      BY <2>1
    <3> QED
      BY <3>1, PatternIn
  <2>3. ~Blank(value)
    <3>1. SUFFICES ASSUME value = << <<>> >> PROVE FALSE
      BY DEF Blank
    <3>2. value[e] = <<>>
      BY <3>1
    <3>3. <<lit>> # <<>>
      OBVIOUS
    <3> QED
      BY <2>1, <3>2, <3>3
  <2>4. AnyMatch(Patterns(value), q)
    BY <1>1, <2>2 DEF AnyMatch
  <2> QED
    BY <1>3, <1>4, <2>3, <2>4 DEF v, lit
<1>5. CASE <<lit>> \notin ToSet(value)
  <2>1. v = Append(value, <<lit>>)
    BY <1>3, <1>5
  <2>2. /\ v = [i \in 1..(n + 1) |-> IF i = n + 1 THEN <<lit>> ELSE value[i]]
        /\ Len(v) = n + 1 /\ DOMAIN v = 1..(n + 1)
    BY <1>2, <2>1 DEF n
  <2>3. v[n + 1] = <<lit>> /\ \A i \in 1..n : v[i] = value[i] /\ i \in DOMAIN v
    <3>1. n + 1 \in 1..(n + 1) /\ \A i \in 1..n : i \in 1..(n + 1) /\ i # n + 1
      BY <1>2
    <3> DEFINE w == [i \in 1..(n + 1) |-> IF i = n + 1 THEN <<lit>> ELSE value[i]]
    <3>2. w[n + 1] = <<lit>> /\ \A i \in 1..n : w[i] = value[i]
      BY <3>1
    <3> QED
      BY <2>2, <3>1, <3>2
  <2>4. ~Blank(v) /\ v # <<>>
    <3>1. n >= 1
      BY <1>2
    <3>2. Len(<< <<>> >>) = 1 /\ Len(<<>>) = 0
      OBVIOUS
    <3> QED
      BY <1>2, <2>2, <3>1, <3>2 DEF Blank
  <2>5. IsList(v)
    <3>1. IsSequence(v)
      BY <1>2, <2>2 DEF IsSequence
    <3>2. ASSUME NEW e \in DOMAIN v PROVE IsEntry(v[e])
      <4>1. CASE e \in 1..n
        BY <1>2, <2>3, <4>1 DEF IsList
      <4>2. CASE e = n + 1
        <5>1. v[e] = <<lit>>
          BY <2>3, <4>2
        <5>2. \A x \in lit.ext : Head(x) = lit.db
          BY <1>1
        <5>3. IsEntry(<<lit>>)
          BY <1>1, <5>2, EntryOfOne
        <5> QED
          BY <5>1, <5>3
      <4>3. e \in 1..n \/ e = n + 1
        BY <1>2, <2>2
      <4> QED
        BY <4>1, <4>2, <4>3
    <3> QED
      BY <2>4, <3>1, <3>2 DEF IsList
  <2>6. \A p : p \in Patterns(v) <=> p \in Patterns(value) \/ p = lit
    <3>1. ASSUME NEW p, p \in Patterns(v) PROVE p \in Patterns(value) \/ p = lit
      <4>1. PICK e \in DOMAIN v : \E a \in DOMAIN v[e] : p = v[e][a]
        BY <3>1, PatternIn
      <4>2. CASE e = n + 1
        <5>1. DOMAIN <<lit>> = {1} /\ <<lit>>[1] = lit
          OBVIOUS
        <5> QED
          BY <2>3, <4>1, <4>2, <5>1
      <4>3. CASE e # n + 1
        <5>1. e \in 1..n
          BY <1>2, <2>2, <4>3
        <5> QED
          BY <1>2, <2>3, <4>1, <5>1, PatternIn
      <4> QED
        BY <4>2, <4>3
    <3>2. ASSUME NEW p, p \in Patterns(value) PROVE p \in Patterns(v)
      <4>1. PICK e \in DOMAIN value : \E a \in DOMAIN value[e] : p = value[e][a]
        BY <3>2, PatternIn
      <4> QED
        BY <1>2, <2>3, <4>1, PatternIn
    <3>3. lit \in Patterns(v)
      <4>1. 1 \in DOMAIN <<lit>> /\ <<lit>>[1] = lit /\ n + 1 \in DOMAIN v
        BY <1>2, <2>2
      <4> QED
        BY <2>3, <4>1, PatternIn
    <3> QED
      BY <3>1, <3>2, <3>3
  <2> QED
    BY <1>1, <2>1, <2>4, <2>5, <2>6 DEF v, lit, AnyMatch
<1> QED
  BY <1>4, <1>5

LEMMA NameTakenOut ==
    ASSUME NEW value, IsList(value), NEW q
    PROVE  LET v == WithoutNames(value, {q})
           IN  /\ v = <<>> \/ (IsList(v) /\ ~Blank(v))
               /\ \A x : AnyMatch(Patterns(v), x) <=> AnyMatch(Patterns(value), x) /\ x # q
<1> DEFINE v == WithoutNames(value, {q})
           P == {p \in Patterns(value) : ~(p.ext \subseteq {q})}
           f == [alt \in P |-> <<[alt EXCEPT !.ext = @ \ {q}]>>]
           S == {f[alt] : alt \in P}
<1>1. v = SetToSeq(S)
  BY DEF WithoutNames
<1>2. \A alt \in P : f[alt] = <<[alt EXCEPT !.ext = @ \ {q}]>>
  OBVIOUS
<1>3. IsFiniteSet(P)
  BY FinitePatterns, FS_Subset
<1>4. f = [alt \in P |-> f[alt]]
  OBVIOUS
<1>5. \A alt \in P : alt = [ext |-> alt.ext, glob |-> alt.glob, db |-> alt.db]
                     /\ (alt.db # "" => \A x \in alt.ext : Head(x) = alt.db)
  <2>1. SUFFICES ASSUME NEW alt \in Patterns(value)
                 PROVE  /\ alt = [ext |-> alt.ext, glob |-> alt.glob, db |-> alt.db]
                        /\ alt.db # "" => \A x \in alt.ext : Head(x) = alt.db
    BY Zenon
  <2>2. PICK e \in DOMAIN value : \E a \in DOMAIN value[e] : alt = value[e][a]
    BY PatternIn
  <2>3. IsEntry(value[e])
    BY DEF IsList
  <2> QED
    BY <2>2, <2>3 DEF IsEntry
<1>6. \A alt \in P : f[alt] = <<[ext |-> alt.ext \ {q}, glob |-> alt.glob, db |-> alt.db]>>
  <2>1. SUFFICES ASSUME NEW alt \in P
                 PROVE  [alt EXCEPT !.ext = @ \ {q}] = [ext |-> alt.ext \ {q}, glob |-> alt.glob, db |-> alt.db]
    BY <1>2
  <2>2. alt = [ext |-> alt.ext, glob |-> alt.glob, db |-> alt.db]
    BY <1>5
  <2> QED
    BY <2>2
<1> HIDE DEF f
<1>7. IsFiniteSet(S)
  BY <1>3, <1>4, FiniteImage
<1> HIDE DEF S
<1>8. IsSequence(v) /\ ToSet(v) = S
  BY <1>1, <1>7, SequenceOf
<1> HIDE DEF v
<1>9. \A e \in DOMAIN v : \E alt \in P :
        v[e] = <<[ext |-> alt.ext \ {q}, glob |-> alt.glob, db |-> alt.db]>>
  <2>1. \A e \in DOMAIN v : v[e] \in S
    BY <1>8 DEF ToSet
  <2> QED
    BY <1>6, <2>1 DEF S
<1>10. \A alt \in P : \E e \in DOMAIN v :
        v[e] = <<[ext |-> alt.ext \ {q}, glob |-> alt.glob, db |-> alt.db]>>
  <2>1. \A alt \in P : f[alt] \in S
    BY DEF S
  <2> QED
    BY <1>6, <1>8, <2>1 DEF ToSet
<1> HIDE DEF P
<1>11. \A r : DOMAIN <<r>> = {1} /\ <<r>>[1] = r /\ <<r>> # <<>> /\ IsSequence(<<r>>)
  BY DEF IsSequence
<1>12. v = <<>> \/ IsList(v)
  <2>1. ASSUME NEW e \in DOMAIN v PROVE IsEntry(v[e])
    <3>1. PICK p \in P : v[e] = <<[ext |-> p.ext \ {q}, glob |-> p.glob, db |-> p.db]>>
      BY <1>9
    <3> DEFINE r == [ext |-> p.ext \ {q}, glob |-> p.glob, db |-> p.db]
    <3>2. r = [ext |-> r.ext, glob |-> r.glob, db |-> r.db] /\ r.ext \subseteq p.ext /\ r.db = p.db
      OBVIOUS
    <3> HIDE DEF r
    <3>3. r.db # "" => \A x \in r.ext : Head(x) = r.db
      BY <1>5, <3>2
    <3>4. IsEntry(<<r>>)
      BY <3>2, <3>3, EntryOfOne
    <3> QED
      BY <3>1, <3>4 DEF r
  <2> QED
    BY <1>8, <2>1 DEF IsList
<1>13. ~Blank(v)
  <2>1. SUFFICES ASSUME v = << <<>> >> PROVE FALSE
    BY DEF Blank
  <2>2. 1 \in DOMAIN v /\ v[1] = <<>>
    BY <2>1
  <2> QED
    BY <1>9, <1>11, <2>2
<1>14. ASSUME NEW x, AnyMatch(Patterns(v), x) PROVE AnyMatch(Patterns(value), x) /\ x # q
  <2>1. PICK p \in Patterns(v) : x \in p.ext
    BY <1>14 DEF AnyMatch
  <2>2. PICK e \in DOMAIN v : \E a \in DOMAIN v[e] : p = v[e][a]
    BY <2>1, PatternIn
  <2>3. PICK alt \in P : v[e] = <<[ext |-> alt.ext \ {q}, glob |-> alt.glob, db |-> alt.db]>>
    BY <1>9
  <2>4. p = [ext |-> alt.ext \ {q}, glob |-> alt.glob, db |-> alt.db]
    BY <1>11, <2>2, <2>3
  <2>5. p.ext = alt.ext \ {q}
    BY <2>4
  <2> QED
    BY <2>1, <2>5 DEF P, AnyMatch
<1>15. ASSUME NEW x, AnyMatch(Patterns(value), x), x # q PROVE AnyMatch(Patterns(v), x)
  <2>1. PICK alt \in Patterns(value) : x \in alt.ext
    BY <1>15 DEF AnyMatch
  <2>2. alt \in P
    BY <1>15, <2>1 DEF P
  <2>3. PICK e \in DOMAIN v : v[e] = <<[ext |-> alt.ext \ {q}, glob |-> alt.glob, db |-> alt.db]>>
    BY <1>10, <2>2
  <2> DEFINE r == [ext |-> alt.ext \ {q}, glob |-> alt.glob, db |-> alt.db]
  <2>4. x \in r.ext
    BY <1>15, <2>1
  <2> HIDE DEF r
  <2>5. r \in Patterns(v)
    <3>1. v[e] = <<r>>
      BY <2>3 DEF r
    <3>2. 1 \in DOMAIN v[e] /\ v[e][1] = r
      BY <1>11, <3>1
    <3> QED
      BY <3>2, PatternIn
  <2> QED
    BY <2>4, <2>5 DEF AnyMatch
<1> QED
  BY <1>12, <1>13, <1>14, <1>15 DEF v

-----------------------------------------------------------------------------
(* A connector with one list edited. *)

IncludeLists == {TableInclude, ColumnInclude, DbInclude}
ExcludeLists == {TableExclude, ColumnExclude, DbExclude}
Lists == IncludeLists \cup ExcludeLists

TwoKeys(ks) ==
    /\ ks = <<ks[1], ks[2]>> /\ ToSet(ks) = {ks[1], ks[2]}
    /\ ks[1] # ks[2] /\ ks[1] # "" /\ ks[2] # ""

(* No two lists have a key in common, and a key says which way it works.   *)
LEMMA KeysApart ==
    /\ \A ks \in Lists : TwoKeys(ks)
    /\ \A ks, ls \in Lists : ks # ls => {ks[1], ks[2]} \cap {ls[1], ls[2]} = {}
    /\ \A ks \in ExcludeLists : Excludes(ks[1]) /\ Excludes(ks[2])
    /\ \A ks \in IncludeLists : ~Excludes(ks[1]) /\ ~Excludes(ks[2])
<1>1. \A a, b : ToSet(<<a, b>>) = {a, b}
  BY DEF ToSet
<1>2. ExcludeKeys = {"table.exclude.list", "table.blacklist", "column.exclude.list",
                     "column.blacklist", "database.exclude.list", "database.blacklist"}
  <2>1. /\ ToSet(TableExclude) = {"table.exclude.list", "table.blacklist"}
        /\ ToSet(ColumnExclude) = {"column.exclude.list", "column.blacklist"}
        /\ ToSet(DbExclude) = {"database.exclude.list", "database.blacklist"}
    BY <1>1 DEF TableExclude, ColumnExclude, DbExclude
  <2> QED
    BY <2>1 DEF ExcludeKeys
<1>3. \A ks \in ExcludeLists : Excludes(ks[1]) /\ Excludes(ks[2])
  BY <1>2 DEF ExcludeLists, TableExclude, ColumnExclude, DbExclude, Excludes
<1>4. \A ks \in IncludeLists : ~Excludes(ks[1]) /\ ~Excludes(ks[2])
  BY <1>2 DEF IncludeLists, TableInclude, ColumnInclude, DbInclude, Excludes
<1>5. \A ks \in Lists : TwoKeys(ks)
  <2>1. \A a, b : a # b /\ a # "" /\ b # "" => TwoKeys(<<a, b>>)
    <3>1. SUFFICES ASSUME NEW a, NEW b, NEW ks, ks = <<a, b>>, a # b, a # "", b # "" PROVE TwoKeys(ks)
      OBVIOUS
    <3>2. ks[1] = a /\ ks[2] = b
      BY <3>1
    <3>3. ks = <<ks[1], ks[2]>>
      BY <3>1, <3>2
    <3> QED
      BY <1>1, <3>1, <3>2, <3>3, Zenon DEF TwoKeys
  <2>2. /\ TwoKeys(TableInclude) /\ TwoKeys(ColumnInclude) /\ TwoKeys(DbInclude)
        /\ TwoKeys(TableExclude) /\ TwoKeys(ColumnExclude) /\ TwoKeys(DbExclude)
    BY <2>1 DEF TableExclude, ColumnExclude, DbExclude, TableInclude, ColumnInclude, DbInclude
  <2> QED
    BY <2>2, Zenon DEF Lists, ExcludeLists, IncludeLists
<1>6. \A ks, ls \in Lists : ks # ls => {ks[1], ks[2]} \cap {ls[1], ls[2]} = {}
  BY DEF Lists, ExcludeLists, IncludeLists, TableExclude, ColumnExclude, DbExclude,
         TableInclude, ColumnInclude, DbInclude
<1> QED
  BY <1>3, <1>4, <1>5, <1>6

LEMMA ListsDistinct ==
    /\ TableInclude \in IncludeLists /\ ColumnInclude \in IncludeLists /\ DbInclude \in IncludeLists
    /\ TableExclude \in ExcludeLists /\ ColumnExclude \in ExcludeLists /\ DbExclude \in ExcludeLists
    /\ IncludeLists \cap ExcludeLists = {}
    /\ TableInclude \notin {ColumnInclude, DbInclude} /\ ColumnInclude # DbInclude
    /\ TableExclude \notin {ColumnExclude, DbExclude} /\ ColumnExclude # DbExclude
<1>1. \A a, b, c, d : <<a, b>> = <<c, d>> => a = c
  OBVIOUS
<1>2. IncludeLists \cap ExcludeLists = {}
  BY KeysApart
<1> QED
  BY <1>1, <1>2 DEF IncludeLists, ExcludeLists, TableExclude, ColumnExclude, DbExclude,
                    TableInclude, ColumnInclude, DbInclude

(* The key of a list, and what it reads.                                   *)
LEMMA KeyFacts ==
    ASSUME NEW c, NEW ks \in Lists
    PROVE  LET k == KeyOf(c, ks)
           IN  /\ k = IF Present(c, ks[1]) THEN ks[1] ELSE IF Present(c, ks[2]) THEN ks[2] ELSE ""
               /\ k # "" => Present(c, k) /\ k \in {ks[1], ks[2]} /\ ListOf(c, ks) = Patterns(c.lists[k])
               /\ k = "" => ListOf(c, ks) = {}
               /\ FirstOf(c, ks) = IF ks[1] \in DOMAIN c.lists THEN c.lists[ks[1]]
                                   ELSE IF ks[2] \in DOMAIN c.lists THEN c.lists[ks[2]] ELSE <<>>
<1>1. ks = <<ks[1], ks[2]>> /\ ks[1] # "" /\ ks[2] # ""
  BY KeysApart DEF TwoKeys
<1> DEFINE a == ks[1]
           b == ks[2]
<1>2. ks = <<a, b>>
  BY <1>1
<1> HIDE DEF a, b
<1>3. /\ KeyOf(c, ks) = IF Present(c, a) THEN a ELSE IF Present(c, b) THEN b ELSE ""
      /\ FirstOf(c, ks) = IF a \in DOMAIN c.lists THEN c.lists[a]
                          ELSE IF b \in DOMAIN c.lists THEN c.lists[b] ELSE <<>>
  BY <1>2, KeysOfTwo
<1>4. ListOf(c, ks) = IF KeyOf(c, ks) = "" THEN {} ELSE Patterns(c.lists[KeyOf(c, ks)])
  BY DEF ListOf
<1> QED
  BY <1>1, <1>3, <1>4 DEF a, b

(* d is c but for the list under k, which is v, or gone when v is empty.   *)
OnlyChanged(c, d, k, v) ==
    /\ IsContract(d) /\ d.mysql = c.mysql /\ d.transforms = c.transforms
    /\ \A x : x # k => /\ x \in DOMAIN d.lists <=> x \in DOMAIN c.lists
                       /\ x \in DOMAIN c.lists => d.lists[x] = c.lists[x]
    /\ k \in DOMAIN d.lists <=> v # <<>>
    /\ v # <<>> => d.lists[k] = v

LEMMA EditedOnly ==
    ASSUME NEW c, IsContract(c), NEW fix,
           NewValue(c, fix) = <<>> \/ IsList(NewValue(c, fix))
    PROVE  OnlyChanged(c, Edited(c, fix), fix.setting, NewValue(c, fix))
<1> DEFINE k == fix.setting
           v == NewValue(c, fix)
           keys == (DOMAIN c.lists \ {k}) \cup (IF v = <<>> THEN {} ELSE {k})
           ls == [x \in keys |-> IF x = k THEN v ELSE c.lists[x]]
           d == [c EXCEPT !.lists = ls]
<1>1. Edited(c, fix) = d
  BY DEF Edited
<1>2. d = [file |-> c.file, mysql |-> c.mysql, debezium |-> c.debezium,
           afterStateOnly |-> c.afterStateOnly, prefix |-> c.prefix,
           transforms |-> c.transforms, lists |-> ls]
  <2>1. c = [file |-> c.file, mysql |-> c.mysql, debezium |-> c.debezium,
             afterStateOnly |-> c.afterStateOnly, prefix |-> c.prefix,
             transforms |-> c.transforms, lists |-> c.lists]
    BY DEF IsContract
  <2> HIDE DEF ls
  <2> QED
    BY <2>1
<1>3. DOMAIN ls = keys /\ \A x \in keys : ls[x] = IF x = k THEN v ELSE c.lists[x]
  OBVIOUS
<1> HIDE DEF ls, d
<1>4. /\ d.lists = ls /\ d.mysql = c.mysql /\ d.transforms = c.transforms
      /\ d = [file |-> d.file, mysql |-> d.mysql, debezium |-> d.debezium,
              afterStateOnly |-> d.afterStateOnly, prefix |-> d.prefix,
              transforms |-> d.transforms, lists |-> d.lists]
  BY <1>2
<1> HIDE DEF v
<1>5. /\ \A x : x # k => /\ x \in DOMAIN ls <=> x \in DOMAIN c.lists
                         /\ x \in DOMAIN c.lists => ls[x] = c.lists[x]
      /\ k \in DOMAIN ls <=> v # <<>>
      /\ v # <<>> => ls[k] = v
  BY <1>3
<1>6. \A x \in DOMAIN ls : IsList(ls[x])
  BY <1>3, <1>5 DEF v, IsContract
<1> QED
  BY <1>1, <1>4, <1>5, <1>6 DEF v, OnlyChanged, IsContract

Same(c, d, ks) ==
    KeyOf(d, ks) = KeyOf(c, ks) /\ ListOf(d, ks) = ListOf(c, ks) /\ FirstOf(d, ks) = FirstOf(c, ks)

LEMMA OtherListsStay ==
    ASSUME NEW c, NEW d, NEW k, NEW v, OnlyChanged(c, d, k, v),
           NEW ks \in Lists, k \in {ks[1], ks[2]}, NEW ls \in Lists, ls # ks
    PROVE  Same(c, d, ls)
<1>1. ls[1] # k /\ ls[2] # k
  BY KeysApart
<1>2. \A x \in {ls[1], ls[2]} : /\ x \in DOMAIN d.lists <=> x \in DOMAIN c.lists
                                /\ x \in DOMAIN c.lists => d.lists[x] = c.lists[x]
  BY <1>1 DEF OnlyChanged
<1>3. \A x \in {ls[1], ls[2]} : Present(d, x) <=> Present(c, x)
  BY <1>2 DEF Present
<1>4. KeyOf(d, ls) = KeyOf(c, ls)
  BY <1>3, KeyFacts
<1>5. FirstOf(d, ls) = FirstOf(c, ls)
  BY <1>2, KeyFacts
<1>6. ListOf(d, ls) = ListOf(c, ls)
  <2>1. CASE KeyOf(c, ls) = ""
    BY <1>4, <2>1, KeyFacts
  <2>2. CASE KeyOf(c, ls) # ""
    <3>1. KeyOf(c, ls) \in {ls[1], ls[2]} /\ Present(c, KeyOf(c, ls))
      BY <2>2, KeyFacts
    <3>2. d.lists[KeyOf(c, ls)] = c.lists[KeyOf(c, ls)]
      BY <1>2, <3>1 DEF Present
    <3> QED
      BY <1>4, <2>2, <3>2, KeyFacts
  <2> QED
    BY <2>1, <2>2
<1> QED
  BY <1>4, <1>5, <1>6 DEF Same

Added(c, d, ks, q) ==
    /\ KeyOf(d, ks) = KeyOf(c, ks) /\ ListOf(d, ks) # {}
    /\ \A x : AnyMatch(ListOf(d, ks), x) <=> AnyMatch(ListOf(c, ks), x) \/ x = q
    /\ \/ FirstOf(d, ks) = FirstOf(c, ks)
       \/ IsList(FirstOf(c, ks)) /\ FirstOf(d, ks) = Append(FirstOf(c, ks), <<Literal(q)>>)

Taken(c, d, ks, q) ==
    \A x : AnyMatch(ListOf(d, ks), x) <=> AnyMatch(ListOf(c, ks), x) /\ x # q

LEMMA AddedTo ==
    ASSUME NEW c, IsContract(c), NEW d, NEW ks \in Lists, KeyOf(c, ks) # "", NEW q,
           OnlyChanged(c, d, KeyOf(c, ks), With(c.lists[KeyOf(c, ks)], {q}))
    PROVE  Added(c, d, ks, q)
<1> DEFINE k == KeyOf(c, ks)
           v == With(c.lists[k], {q})
<1>1. /\ k # "" /\ Present(c, k) /\ k \in {ks[1], ks[2]} /\ ListOf(c, ks) = Patterns(c.lists[k])
      /\ k = IF Present(c, ks[1]) THEN ks[1] ELSE IF Present(c, ks[2]) THEN ks[2] ELSE ""
  BY KeyFacts
<1>2. IsList(c.lists[k])
  BY <1>1 DEF IsContract, Present
<1>3. /\ IsList(v) /\ ~Blank(v)
      /\ v = c.lists[k] \/ v = Append(c.lists[k], <<Literal(q)>>)
      /\ \A x : AnyMatch(Patterns(v), x) <=> AnyMatch(Patterns(c.lists[k]), x) \/ x = q
  BY <1>2, NamePutIn
<1>4. /\ \A x : x # k => /\ x \in DOMAIN d.lists <=> x \in DOMAIN c.lists
                         /\ x \in DOMAIN c.lists => d.lists[x] = c.lists[x]
      /\ k \in DOMAIN d.lists <=> v # <<>>
      /\ v # <<>> => d.lists[k] = v
  BY DEF OnlyChanged
<1> HIDE DEF k, v
<1>5. v # <<>> /\ k \in DOMAIN d.lists /\ d.lists[k] = v
  BY <1>3, <1>4 DEF IsList
<1>6. Present(d, k) /\ \A x : x # k => (Present(d, x) <=> Present(c, x))
  BY <1>3, <1>4, <1>5 DEF Present
<1>7. KeyOf(d, ks) = k
  <2>1. KeyOf(d, ks) = IF Present(d, ks[1]) THEN ks[1] ELSE IF Present(d, ks[2]) THEN ks[2] ELSE ""
    BY KeyFacts
  <2> QED
    BY <1>1, <1>6, <2>1
<1>8. ListOf(d, ks) = Patterns(v)
  BY <1>1, <1>5, <1>7, KeyFacts
<1>9. \A x : AnyMatch(ListOf(d, ks), x) <=> AnyMatch(ListOf(c, ks), x) \/ x = q
  BY <1>1, <1>3, <1>8
<1>10. ListOf(d, ks) # {}
  BY <1>9 DEF AnyMatch
<1>11. \/ FirstOf(d, ks) = FirstOf(c, ks)
       \/ FirstOf(c, ks) = c.lists[k] /\ FirstOf(d, ks) = v
  <2>1. ks[1] # ks[2]
    BY KeysApart DEF TwoKeys
  <2>2. FirstOf(c, ks) = IF ks[1] \in DOMAIN c.lists THEN c.lists[ks[1]]
                         ELSE IF ks[2] \in DOMAIN c.lists THEN c.lists[ks[2]] ELSE <<>>
    BY KeyFacts
  <2>3. FirstOf(d, ks) = IF ks[1] \in DOMAIN d.lists THEN d.lists[ks[1]]
                         ELSE IF ks[2] \in DOMAIN d.lists THEN d.lists[ks[2]] ELSE <<>>
    BY KeyFacts
  <2>4. k \in DOMAIN c.lists
    BY <1>1 DEF Present
  <2> QED
    BY <1>1, <1>4, <1>5, <2>1, <2>2, <2>3, <2>4
<1> QED
  BY <1>2, <1>3, <1>7, <1>9, <1>10, <1>11 DEF Added, k

LEMMA TakenFrom ==
    ASSUME NEW c, IsContract(c), NEW d, NEW ks \in Lists, KeyOf(c, ks) # "", OneName(c, ks), NEW q,
           OnlyChanged(c, d, KeyOf(c, ks), WithoutNames(c.lists[KeyOf(c, ks)], {q}))
    PROVE  Taken(c, d, ks, q) /\ OneName(d, ks)
<1> DEFINE k == KeyOf(c, ks)
           v == WithoutNames(c.lists[k], {q})
<1>1. /\ k # "" /\ Present(c, k) /\ k \in {ks[1], ks[2]} /\ ListOf(c, ks) = Patterns(c.lists[k])
      /\ k = IF Present(c, ks[1]) THEN ks[1] ELSE IF Present(c, ks[2]) THEN ks[2] ELSE ""
  BY KeyFacts
<1>2. IsList(c.lists[k])
  BY <1>1 DEF IsContract, Present
<1>3. /\ v = <<>> \/ (IsList(v) /\ ~Blank(v))
      /\ \A x : AnyMatch(Patterns(v), x) <=> AnyMatch(Patterns(c.lists[k]), x) /\ x # q
  BY <1>2, NameTakenOut
<1>4. /\ \A x : x # k => /\ x \in DOMAIN d.lists <=> x \in DOMAIN c.lists
                         /\ x \in DOMAIN c.lists => d.lists[x] = c.lists[x]
      /\ k \in DOMAIN d.lists <=> v # <<>>
      /\ v # <<>> => d.lists[k] = v
  BY DEF OnlyChanged
<1> HIDE DEF k, v
<1>5. ToSet(ks) = {ks[1], ks[2]} /\ ks[1] # ks[2]
  BY KeysApart DEF TwoKeys
<1>6. k \in DOMAIN c.lists /\ \A x \in {ks[1], ks[2]} : x # k => x \notin DOMAIN c.lists
  <2>1. k \in DOMAIN c.lists
    BY <1>1 DEF Present
  <2>2. ~(ks[1] \in DOMAIN c.lists /\ ks[2] \in DOMAIN c.lists)
    BY <1>5 DEF OneName
  <2> QED
    BY <1>1, <2>1, <2>2
<1>7. OneName(d, ks)
  <2>1. DOMAIN d.lists \subseteq DOMAIN c.lists
    BY <1>4, <1>6
  <2> QED
    BY <2>1 DEF OneName
<1>8. \A x \in {ks[1], ks[2]} : x # k => ~Present(d, x)
  BY <1>4, <1>6 DEF Present
<1>9. KeyOf(d, ks) = IF Present(d, ks[1]) THEN ks[1] ELSE IF Present(d, ks[2]) THEN ks[2] ELSE ""
  BY KeyFacts
<1>10. CASE v = <<>>
  <2>1. ~Present(d, k)
    BY <1>4, <1>10 DEF Present
  <2>2. KeyOf(d, ks) = ""
    BY <1>1, <1>8, <1>9, <2>1
  <2>3. ListOf(d, ks) = {}
    BY <2>2, KeyFacts
  <2>4. Patterns(v) = {}
    BY <1>10, NoPatterns
  <2> QED
    BY <1>1, <1>3, <1>7, <2>3, <2>4 DEF Taken
<1>11. CASE v # <<>>
  <2>1. Present(d, k) /\ d.lists[k] = v
    BY <1>3, <1>4, <1>11 DEF Present
  <2>2. KeyOf(d, ks) = k
    BY <1>1, <1>8, <1>9, <2>1
  <2>3. ListOf(d, ks) = Patterns(v)
    BY <1>1, <2>1, <2>2, KeyFacts
  <2> QED
    BY <1>1, <1>3, <1>7, <2>3 DEF Taken
<1> QED
  BY <1>10, <1>11

(* One list edited as a fix says, c before and d after.                    *)
Edit(c, d, ks, q) ==
    /\ IsContract(d) /\ d.mysql = c.mysql /\ d.transforms = c.transforms
    /\ \A ls \in Lists : ls # ks => Same(c, d, ls) /\ (OneName(c, ls) => OneName(d, ls))
    /\ ks \in IncludeLists => Added(c, d, ks, q)
    /\ ks \in ExcludeLists => Taken(c, d, ks, q) /\ OneName(d, ks)

LEMMA EditOf ==
    ASSUME NEW c, IsContract(c), NEW ks \in Lists, KeyOf(c, ks) # "",
           ks \in ExcludeLists => OneName(c, ks), NEW q, NEW fix,
           fix.setting = KeyOf(c, ks), fix.entry = {q}
    PROVE  Edit(c, Edited(c, fix), ks, q)
<1> DEFINE k == KeyOf(c, ks)
           d == Edited(c, fix)
           v == NewValue(c, fix)
<1>1. k # "" /\ Present(c, k) /\ k \in {ks[1], ks[2]}
  BY KeyFacts
<1>2. k \in DOMAIN c.lists /\ ListAt(c, k) = c.lists[k] /\ IsList(c.lists[k])
  BY <1>1 DEF Present, ListAt, IsContract
<1>3. /\ ks \in IncludeLists => ks \notin ExcludeLists /\ ~Excludes(k)
      /\ ks \in ExcludeLists => Excludes(k)
      /\ ks \in IncludeLists \/ ks \in ExcludeLists
  <2>1. IncludeLists \cap ExcludeLists = {}
    BY ListsDistinct
  <2>2. ks \in ExcludeLists => Excludes(ks[1]) /\ Excludes(ks[2])
    BY KeysApart
  <2>3. ks \in IncludeLists => ~Excludes(ks[1]) /\ ~Excludes(ks[2])
    BY KeysApart
  <2> HIDE DEF k
  <2> QED
    BY <1>1, <2>1, <2>2, <2>3 DEF Lists
<1>4. /\ Excludes(k) => v = WithoutNames(c.lists[k], {q})
      /\ ~Excludes(k) => v = With(c.lists[k], {q})
  BY <1>2 DEF NewValue
<1>5. v = <<>> \/ IsList(v)
  <2>1. CASE Excludes(k)
    BY <1>2, <1>4, <2>1, NameTakenOut
  <2>2. CASE ~Excludes(k)
    <3>1. IsList(With(c.lists[k], {q}))
      BY <1>2, NamePutIn
    <3> HIDE DEF v
    <3> QED
      BY <1>4, <2>2, <3>1
  <2> QED
    BY <2>1, <2>2
<1>6. OnlyChanged(c, d, k, v)
  <2>1. NewValue(c, fix) = <<>> \/ IsList(NewValue(c, fix))
    BY <1>5
  <2>2. OnlyChanged(c, Edited(c, fix), fix.setting, NewValue(c, fix))
    BY <2>1, EditedOnly
  <2> QED
    BY <2>2
<1> HIDE DEF d, v
<1>7. IsContract(d) /\ d.mysql = c.mysql /\ d.transforms = c.transforms
  BY <1>6 DEF OnlyChanged
<1>8. ASSUME NEW ls \in Lists, ls # ks
      PROVE  Same(c, d, ls) /\ (OneName(c, ls) => OneName(d, ls))
  <2>1. Same(c, d, ls)
    BY <1>1, <1>6, <1>8, OtherListsStay
  <2>2. OneName(c, ls) => OneName(d, ls)
    <3>1. ls[1] # k /\ ls[2] # k
      BY <1>1, <1>8, KeysApart
    <3>2. ToSet(ls) = {ls[1], ls[2]}
      BY KeysApart DEF TwoKeys
    <3>3. \A x \in ToSet(ls) : x \in DOMAIN d.lists <=> x \in DOMAIN c.lists
      BY <1>6, <3>1, <3>2 DEF OnlyChanged
    <3> QED
      BY <3>3 DEF OneName
  <2> QED
    BY <2>1, <2>2
<1>9. ASSUME ks \in IncludeLists PROVE Added(c, d, ks, q)
  <2>1. OnlyChanged(c, d, KeyOf(c, ks), With(c.lists[KeyOf(c, ks)], {q}))
    BY <1>3, <1>4, <1>6, <1>9
  <2> QED
    BY <2>1, AddedTo
<1>10. ASSUME ks \in ExcludeLists PROVE Taken(c, d, ks, q) /\ OneName(d, ks)
  <2>1. OnlyChanged(c, d, KeyOf(c, ks), WithoutNames(c.lists[KeyOf(c, ks)], {q}))
    BY <1>3, <1>4, <1>6, <1>10
  <2> QED
    BY <1>10, <2>1, TakenFrom
<1> QED
  BY <1>7, <1>8, <1>9, <1>10 DEF Edit, d

-----------------------------------------------------------------------------
(* Which list keeps a table or a column out, and the name it lacks or has. *)

TableBlame(c, t, ks, q) ==
    \/ ks = DbInclude /\ q = <<t.schema>> /\ DbIncludeBlocks(c, t.schema)
    \/ /\ ks = DbExclude /\ q = <<t.schema>>
       /\ DbExcludeBlocks(c, t.schema) /\ ~DbIncludeBlocks(c, t.schema)
    \/ /\ ks = TableInclude /\ q = Qualified(t) /\ ListOf(c, TableInclude) # {}
       /\ ~DbIncludeBlocks(c, t.schema) /\ ~DbExcludeBlocks(c, t.schema)

ColumnBlame(c, t, col, ks, q) ==
    /\ q = QualifiedColumn(t, col)
    /\ \/ ks = ColumnInclude /\ ListOf(c, ColumnInclude) # {}
       \/ ks = ColumnExclude /\ ListOf(c, ColumnInclude) = {}

TheFix(c, ks, q) == [setting |-> KeyOf(c, ks), entry |-> {q}]

LEMMA FixFields ==
    ASSUME NEW c, NEW ks, NEW q
    PROVE  TheFix(c, ks, q).setting = KeyOf(c, ks) /\ TheFix(c, ks, q).entry = {q}
BY DEF TheFix

LEMMA ReadByKey ==
    ASSUME NEW c, NEW ks \in Lists, ListOf(c, ks) # {}
    PROVE  KeyOf(c, ks) # ""
BY KeyFacts

LEMMA TableBlamed ==
    ASSUME NEW c, NEW t, ~CapturesTable(c, t),
           ListOf(c, TableInclude) = {} => ListOf(c, TableExclude) = {}
    PROVE  \E ks, q :
              /\ ks \in Lists /\ TableBlame(c, t, ks, q)
              /\ KeyOf(c, ks) # "" /\ TableBlock(c, t) = TheFix(c, ks, q)
<1>0. DbInclude \in Lists /\ DbExclude \in Lists /\ TableInclude \in Lists
  BY DEF Lists, IncludeLists, ExcludeLists
<1>1. CASE DbIncludeBlocks(c, t.schema)
  <2>1. ListOf(c, DbInclude) # {}
    BY <1>1 DEF DbIncludeBlocks, DbIncludes
  <2>2. KeyOf(c, DbInclude) # ""
    BY <1>0, <2>1, ReadByKey
  <2>3. TableBlock(c, t) = TheFix(c, DbInclude, <<t.schema>>)
    BY <1>1, Zenon DEF TableBlock, TheFix
  <2>4. TableBlame(c, t, DbInclude, <<t.schema>>)
    BY <1>1 DEF TableBlame
  <2> QED
    BY <1>0, <2>2, <2>3, <2>4, Zenon
<1>2. CASE ~DbIncludeBlocks(c, t.schema) /\ DbExcludeBlocks(c, t.schema)
  <2>1. ListOf(c, DbExclude) # {}
    BY <1>2 DEF DbExcludeBlocks, DbExcludes
  <2>2. KeyOf(c, DbExclude) # ""
    BY <1>0, <2>1, ReadByKey
  <2>3. TableBlock(c, t) = TheFix(c, DbExclude, <<t.schema>>)
    BY <1>2, Zenon DEF TableBlock, TheFix
  <2>4. TableBlame(c, t, DbExclude, <<t.schema>>)
    BY <1>2 DEF TableBlame
  <2> QED
    BY <1>0, <2>2, <2>3, <2>4, Zenon
<1>3. CASE ~DbIncludeBlocks(c, t.schema) /\ ~DbExcludeBlocks(c, t.schema)
  <2>1. ~Passes(ListOf(c, TableInclude), ListOf(c, TableExclude), Qualified(t))
    BY <1>3 DEF CapturesTable
  <2>2. ListOf(c, TableInclude) # {}
    BY <2>1 DEF Passes, AnyMatch
  <2>3. KeyOf(c, TableInclude) # ""
    BY <1>0, <2>2, ReadByKey
  <2>4. TableBlock(c, t) = TheFix(c, TableInclude, Qualified(t))
    <3>1. TableListSetting(c) = KeyOf(c, TableInclude)
      BY <2>3, Zenon DEF TableListSetting
    <3> QED
      BY <1>3, <3>1, Zenon DEF TableBlock, TheFix
  <2>5. TableBlame(c, t, TableInclude, Qualified(t))
    BY <1>3, <2>2 DEF TableBlame
  <2> QED
    BY <1>0, <2>3, <2>4, <2>5, Zenon
<1> QED
  BY <1>1, <1>2, <1>3

LEMMA ColumnBlamed ==
    ASSUME NEW c, NEW t, NEW col, ~CapturesColumn(c, t, col),
           ListOf(c, ColumnInclude) = {} =>
              KeyOf(c, ColumnInclude) = "" \/ ListOf(c, ColumnExclude) = {}
    PROVE  \E ks, q :
              /\ ks \in Lists
              /\ ColumnBlame(c, t, col, ks, q) /\ KeyOf(c, ks) # ""
              /\ [setting |-> ColumnListSetting(c), entry |-> {QualifiedColumn(t, col)}]
                    = TheFix(c, ks, q)
<1>0. ColumnInclude \in Lists /\ ColumnExclude \in Lists
  BY DEF Lists, IncludeLists, ExcludeLists
<1>1. CASE ListOf(c, ColumnInclude) # {}
  <2>1. KeyOf(c, ColumnInclude) # ""
    BY <1>0, <1>1, ReadByKey
  <2>2. ColumnListSetting(c) = KeyOf(c, ColumnInclude)
    BY <2>1, Zenon DEF ColumnListSetting
  <2>3. ColumnBlame(c, t, col, ColumnInclude, QualifiedColumn(t, col))
    BY <1>1 DEF ColumnBlame
  <2> QED
    BY <1>0, <2>1, <2>2, <2>3, Zenon DEF TheFix
<1>2. CASE ListOf(c, ColumnInclude) = {}
  <2>1. AnyMatch(ListOf(c, ColumnExclude), QualifiedColumn(t, col))
    BY <1>2 DEF CapturesColumn, Passes
  <2>2. ListOf(c, ColumnExclude) # {}
    BY <2>1 DEF AnyMatch
  <2>3. KeyOf(c, ColumnInclude) = "" /\ KeyOf(c, ColumnExclude) # ""
    BY <1>0, <1>2, <2>2, ReadByKey
  <2>4. ColumnListSetting(c) = KeyOf(c, ColumnExclude)
    BY <2>3, Zenon DEF ColumnListSetting
  <2>5. ColumnBlame(c, t, col, ColumnExclude, QualifiedColumn(t, col))
    BY <1>2 DEF ColumnBlame
  <2> QED
    BY <1>0, <2>3, <2>4, <2>5, Zenon DEF TheFix
<1> QED
  BY <1>1, <1>2

-----------------------------------------------------------------------------
(* What an edit does to the captures. *)

LEMMA TableFix ==
    ASSUME NEW c, NEW d, NEW t, NEW ks \in Lists, NEW q,
           TableBlame(c, t, ks, q), Edit(c, d, ks, q)
    PROVE  /\ \A u : CapturesTable(c, u) => CapturesTable(d, u)
           /\ \A u, col : CapturesColumn(d, u, col) <=> CapturesColumn(c, u, col)
           /\ \A u : CapturesTable(d, u) /\ ~CapturesTable(c, u) =>
                q = <<u.schema>> \/ (q = Qualified(u) /\ q = Qualified(t))
           /\ ~CapturesTable(d, t) => TableBlock(d, t) # TheFix(c, ks, q)
<1>0. /\ DbInclude \in Lists /\ DbExclude \in Lists /\ TableInclude \in Lists
      /\ TableExclude \in Lists /\ ColumnInclude \in Lists /\ ColumnExclude \in Lists
  BY DEF Lists, IncludeLists, ExcludeLists
<1>1. /\ ks \in {DbInclude, DbExclude, TableInclude}
      /\ ks \notin {TableExclude, ColumnInclude, ColumnExclude}
      /\ DbInclude # DbExclude /\ DbInclude # TableInclude /\ DbExclude # TableInclude
      /\ DbInclude \in IncludeLists /\ TableInclude \in IncludeLists /\ DbExclude \in ExcludeLists
  BY ListsDistinct, Zenon DEF TableBlame
<1>2. \A ls \in Lists : ls # ks => KeyOf(d, ls) = KeyOf(c, ls) /\ ListOf(d, ls) = ListOf(c, ls)
  BY DEF Edit, Same
<1>3. d.mysql = c.mysql
  BY DEF Edit
<1>4. /\ ListOf(d, TableExclude) = ListOf(c, TableExclude)
      /\ ListOf(d, ColumnInclude) = ListOf(c, ColumnInclude)
      /\ ListOf(d, ColumnExclude) = ListOf(c, ColumnExclude)
  BY <1>0, <1>1, <1>2
<1>5. \A u, col : CapturesColumn(d, u, col) <=> CapturesColumn(c, u, col)
  BY <1>4 DEF CapturesColumn
<1>6. <<t.schema>> # Qualified(t)
  <2>1. \A a, b : <<a>> # <<a, b>>
    OBVIOUS
  <2> QED
    BY <2>1 DEF Qualified
<1>7. CASE ks = DbInclude /\ q = <<t.schema>> /\ DbIncludeBlocks(c, t.schema)
  <2>1. /\ KeyOf(d, DbExclude) = KeyOf(c, DbExclude)
        /\ ListOf(d, DbExclude) = ListOf(c, DbExclude)
        /\ ListOf(d, TableInclude) = ListOf(c, TableInclude)
    BY <1>0, <1>1, <1>2, <1>7
  <2>2. Added(c, d, DbInclude, q)
    BY <1>1, <1>7 DEF Edit
  <2>3. c.mysql /\ ListOf(c, DbInclude) # {}
    BY <1>7 DEF DbIncludeBlocks, DbIncludes
  <2>4. /\ \A s : DbIncludeBlocks(d, s) <=> DbIncludeBlocks(c, s) /\ <<s>> # q
        /\ \A s : DbExcludeBlocks(d, s) <=> DbExcludeBlocks(c, s)
    BY <1>3, <2>1, <2>2, <2>3 DEF Added, DbIncludeBlocks, DbIncludes, DbExcludeBlocks, DbExcludes
  <2>5. \A u : CapturesTable(c, u) => CapturesTable(d, u)
    BY <1>4, <2>1, <2>4 DEF CapturesTable
  <2>6. \A u : CapturesTable(d, u) /\ ~CapturesTable(c, u) => q = <<u.schema>>
    BY <1>4, <2>1, <2>4 DEF CapturesTable
  <2>7. TableBlock(d, t) # TheFix(c, ks, q)
    <3>1. ~DbIncludeBlocks(d, t.schema)
      BY <1>7, <2>4
    <3>2. CASE DbExcludeBlocks(d, t.schema)
      <4>1. TableBlock(d, t).setting = KeyOf(d, DbExclude)
        <5>1. TableBlock(d, t) = [setting |-> KeyOf(d, DbExclude), entry |-> {<<t.schema>>}]
          BY <3>1, <3>2, Zenon DEF TableBlock
        <5> QED
          BY <5>1
      <4>2. ListOf(d, DbExclude) # {}
        BY <3>2 DEF DbExcludeBlocks, DbExcludes
      <4>3. KeyOf(d, DbExclude) \in {DbExclude[1], DbExclude[2]}
        BY <1>0, <4>2, KeyFacts
      <4>4. KeyOf(c, DbInclude) \in {DbInclude[1], DbInclude[2]}
        BY <1>0, <2>3, KeyFacts
      <4>5. {DbInclude[1], DbInclude[2]} \cap {DbExclude[1], DbExclude[2]} = {}
        BY <1>0, <1>1, KeysApart
      <4>6. TheFix(c, ks, q).setting = KeyOf(c, DbInclude)
        BY <1>7 DEF TheFix
      <4> QED
        BY <4>1, <4>3, <4>4, <4>5, <4>6
    <3>3. CASE ~DbExcludeBlocks(d, t.schema)
      <4>1. TableBlock(d, t) = [setting |-> TableListSetting(d), entry |-> {Qualified(t)}]
        BY <3>1, <3>3, Zenon DEF TableBlock
      <4>2. TableBlock(d, t).entry = {Qualified(t)} /\ TheFix(c, ks, q).entry = {<<t.schema>>}
        BY <1>7, <4>1 DEF TheFix
      <4> QED
        BY <1>6, <4>2
    <3> QED
      BY <3>2, <3>3
  <2> QED
    BY <1>5, <2>5, <2>6, <2>7
<1>8. CASE /\ ks = DbExclude /\ q = <<t.schema>>
           /\ DbExcludeBlocks(c, t.schema) /\ ~DbIncludeBlocks(c, t.schema)
  <2>1. /\ ListOf(d, DbInclude) = ListOf(c, DbInclude)
        /\ ListOf(d, TableInclude) = ListOf(c, TableInclude)
    BY <1>0, <1>1, <1>2, <1>8
  <2>2. Taken(c, d, DbExclude, q)
    BY <1>1, <1>8 DEF Edit
  <2>3. c.mysql /\ \A s : AnyMatch(ListOf(d, DbExclude), <<s>>) => ListOf(d, DbExclude) # {}
    BY <1>8 DEF DbExcludeBlocks, DbExcludes, AnyMatch
  <2>4. \A s : AnyMatch(ListOf(c, DbExclude), <<s>>) => ListOf(c, DbExclude) # {}
    BY DEF AnyMatch
  <2>5. /\ \A s : DbExcludeBlocks(d, s) <=> DbExcludeBlocks(c, s) /\ <<s>> # q
        /\ \A s : DbIncludeBlocks(d, s) <=> DbIncludeBlocks(c, s)
    BY <1>3, <2>1, <2>2, <2>3, <2>4 DEF Taken, DbIncludeBlocks, DbIncludes, DbExcludeBlocks, DbExcludes
  <2>6. \A u : CapturesTable(c, u) => CapturesTable(d, u)
    BY <1>4, <2>1, <2>5 DEF CapturesTable
  <2>7. \A u : CapturesTable(d, u) /\ ~CapturesTable(c, u) => q = <<u.schema>>
    BY <1>4, <2>1, <2>5 DEF CapturesTable
  <2>8. TableBlock(d, t) # TheFix(c, ks, q)
    <3>1. ~DbIncludeBlocks(d, t.schema) /\ ~DbExcludeBlocks(d, t.schema)
      BY <1>8, <2>5
    <3>2. TableBlock(d, t) = [setting |-> TableListSetting(d), entry |-> {Qualified(t)}]
      BY <3>1, Zenon DEF TableBlock
    <3>3. TableBlock(d, t).entry = {Qualified(t)} /\ TheFix(c, ks, q).entry = {<<t.schema>>}
      BY <1>8, <3>2 DEF TheFix
    <3> QED
      BY <1>6, <3>3
  <2> QED
    BY <1>5, <2>6, <2>7, <2>8
<1>9. CASE /\ ks = TableInclude /\ q = Qualified(t) /\ ListOf(c, TableInclude) # {}
           /\ ~DbIncludeBlocks(c, t.schema) /\ ~DbExcludeBlocks(c, t.schema)
  <2>1. /\ ListOf(d, DbInclude) = ListOf(c, DbInclude)
        /\ ListOf(d, DbExclude) = ListOf(c, DbExclude)
    BY <1>0, <1>1, <1>2, <1>9
  <2>2. Added(c, d, TableInclude, q)
    BY <1>1, <1>9 DEF Edit
  <2>3. /\ \A s : DbIncludeBlocks(d, s) <=> DbIncludeBlocks(c, s)
        /\ \A s : DbExcludeBlocks(d, s) <=> DbExcludeBlocks(c, s)
    BY <1>3, <2>1 DEF DbIncludeBlocks, DbIncludes, DbExcludeBlocks, DbExcludes
  <2>4. \A x : Passes(ListOf(d, TableInclude), ListOf(d, TableExclude), x)
                <=> Passes(ListOf(c, TableInclude), ListOf(c, TableExclude), x) \/ x = q
    BY <1>9, <2>2 DEF Added, Passes
  <2>5. \A u : CapturesTable(d, u) <=>
                  /\ ~DbIncludeBlocks(c, u.schema) /\ ~DbExcludeBlocks(c, u.schema)
                  /\ \/ Passes(ListOf(c, TableInclude), ListOf(c, TableExclude), Qualified(u))
                     \/ Qualified(u) = q
    BY <2>3, <2>4 DEF CapturesTable
  <2>6. \A u : CapturesTable(c, u) => CapturesTable(d, u)
    BY <2>5 DEF CapturesTable
  <2>7. \A u : CapturesTable(d, u) /\ ~CapturesTable(c, u) => q = Qualified(u)
    BY <2>5 DEF CapturesTable
  <2>8. CapturesTable(d, t)
    BY <1>9, <2>5
  <2> QED
    BY <1>5, <1>9, <2>6, <2>7, <2>8
<1> QED
  BY <1>7, <1>8, <1>9 DEF TableBlame

LEMMA ColumnFixed ==
    ASSUME NEW c, NEW d, NEW t, NEW col, NEW ks \in Lists, NEW q,
           ColumnBlame(c, t, col, ks, q), Edit(c, d, ks, q)
    PROVE  /\ \A u : CapturesTable(d, u) <=> CapturesTable(c, u)
           /\ \A u, x : CapturesColumn(c, u, x) => CapturesColumn(d, u, x)
           /\ \A u, x : CapturesColumn(d, u, x) /\ ~CapturesColumn(c, u, x) =>
                QualifiedColumn(u, x) = QualifiedColumn(t, col)
           /\ CapturesColumn(d, t, col)
<1>0. /\ DbInclude \in Lists /\ DbExclude \in Lists /\ TableInclude \in Lists
      /\ TableExclude \in Lists /\ ColumnInclude \in Lists /\ ColumnExclude \in Lists
  BY DEF Lists, IncludeLists, ExcludeLists
<1>1. /\ ks \in {ColumnInclude, ColumnExclude}
      /\ ks \notin {TableExclude, TableInclude, DbInclude, DbExclude}
      /\ ColumnInclude # ColumnExclude
      /\ ColumnInclude \in IncludeLists /\ ColumnExclude \in ExcludeLists
  BY ListsDistinct, Zenon DEF ColumnBlame
<1>2. \A ls \in Lists : ls # ks => ListOf(d, ls) = ListOf(c, ls)
  BY DEF Edit, Same
<1>3. d.mysql = c.mysql
  BY DEF Edit
<1>4. /\ ListOf(d, TableExclude) = ListOf(c, TableExclude)
      /\ ListOf(d, TableInclude) = ListOf(c, TableInclude)
      /\ ListOf(d, DbInclude) = ListOf(c, DbInclude)
      /\ ListOf(d, DbExclude) = ListOf(c, DbExclude)
  BY <1>0, <1>1, <1>2
<1>5. \A u : CapturesTable(d, u) <=> CapturesTable(c, u)
  BY <1>3, <1>4 DEF CapturesTable, DbIncludeBlocks, DbIncludes, DbExcludeBlocks, DbExcludes
<1>6. q = QualifiedColumn(t, col)
  BY DEF ColumnBlame
<1> DEFINE Lets(e, x) == Passes(ListOf(e, ColumnInclude), ListOf(e, ColumnExclude), x)
<1>7. \A x : Lets(d, x) <=> Lets(c, x) \/ x = q
  <2>1. CASE ks = ColumnInclude /\ ListOf(c, ColumnInclude) # {}
    <3>1. Added(c, d, ColumnInclude, q)
      BY <1>1, <2>1 DEF Edit
    <3> QED
      BY <2>1, <3>1 DEF Added, Passes
  <2>2. CASE ks = ColumnExclude /\ ListOf(c, ColumnInclude) = {}
    <3>1. ListOf(d, ColumnInclude) = {}
      BY <1>0, <1>1, <1>2, <2>2
    <3>2. Taken(c, d, ColumnExclude, q)
      BY <1>1, <2>2 DEF Edit
    <3> QED
      BY <2>2, <3>1, <3>2 DEF Taken, Passes
  <2> QED
    BY <2>1, <2>2 DEF ColumnBlame
<1>8. \A e, u, x : CapturesColumn(e, u, x) <=> Lets(e, QualifiedColumn(u, x))
  BY DEF CapturesColumn
<1> QED
  BY <1>5, <1>6, <1>7, <1>8

-----------------------------------------------------------------------------
(* Where an edit leaves unqualified migrations. *)

Single(dbs) == Len(dbs) = 1 /\ PlainDatabase(dbs[1]) # ""

NamedIn(tables) == {PlainDatabase(tables[i]) : i \in DOMAIN tables}

LEMMA DefaultIs ==
    ASSUME NEW c
    PROVE  LET dbs == FirstOf(c, DbInclude)
               tables == FirstOf(c, TableInclude)
           IN  /\ Single(dbs) => DefaultDatabase(c) = PlainDatabase(dbs[1])
               /\ ~Single(dbs) /\ Cardinality(NamedIn(tables)) = 1 =>
                    DefaultDatabase(c) = PlainDatabase(tables[1])
               /\ ~Single(dbs) /\ Cardinality(NamedIn(tables)) # 1 => DefaultDatabase(c) = ""
BY Zenon DEF DefaultDatabase, Single, NamedIn

LEMMA AppendedTo ==
    ASSUME NEW value, IsList(value), NEW lit
    PROVE  Len(Append(value, <<lit>>)) # 1 /\ Append(value, <<lit>>)[1] = value[1]
<1> DEFINE n == Len(value)
           v == Append(value, <<lit>>)
<1>1. value = [i \in 1..n |-> value[i]] /\ n \in Nat /\ value # <<>> /\ DOMAIN value = 1..n
  BY DEF IsList, IsSequence
<1>2. v = Append(value, <<lit>>)
  OBVIOUS
<1> HIDE DEF n, v
<1>3. n >= 1
  BY <1>1
<1>4. /\ v = [i \in 1..(n + 1) |-> IF i = n + 1 THEN <<lit>> ELSE value[i]]
      /\ Len(v) = n + 1 /\ DOMAIN v = 1..(n + 1)
  BY <1>1, <1>2 DEF n
<1>5. 1 \in 1..(n + 1) /\ 1 # n + 1 /\ n + 1 # 1
  BY <1>1, <1>3
<1> DEFINE w == [i \in 1..(n + 1) |-> IF i = n + 1 THEN <<lit>> ELSE value[i]]
<1>6. w[1] = value[1]
  BY <1>5
<1> QED
  BY <1>4, <1>5, <1>6 DEF v

LEMMA FiniteNamed ==
    ASSUME NEW value, IsList(value)
    PROVE  IsFiniteSet(NamedIn(value)) /\ 1 \in DOMAIN value
<1>1. DOMAIN value = 1..Len(value) /\ Len(value) \in Nat /\ value # <<>>
  BY DEF IsList, IsSequence
<1>2. value = [i \in 1..Len(value) |-> value[i]]
  BY DEF IsList, IsSequence
<1>3. 1 \in DOMAIN value
  BY <1>1, <1>2
<1>4. IsFiniteSet(DOMAIN value)
  BY <1>1, FS_Interval
<1> DEFINE f == [i \in DOMAIN value |-> PlainDatabase(value[i])]
<1>5. f = [i \in DOMAIN value |-> f[i]] /\ \A i \in DOMAIN value : f[i] = PlainDatabase(value[i])
  OBVIOUS
<1> HIDE DEF f
<1>6. IsFiniteSet({f[i] : i \in DOMAIN value})
  BY <1>4, <1>5, FiniteImage
<1>7. {f[i] : i \in DOMAIN value} = NamedIn(value)
  BY <1>5 DEF NamedIn
<1> QED
  BY <1>3, <1>6, <1>7

(* The entry of a pattern that begins with a database name.                *)
LEMMA PlainEntry ==
    ASSUME NEW entry, IsEntry(entry), NEW a \in DOMAIN entry
    PROVE  entry # <<>> /\ PlainDatabase(entry) = entry[a].db /\ 1 \in DOMAIN entry
<1>1. /\ DOMAIN entry = 1..Len(entry) /\ Len(entry) \in Nat
      /\ entry[a].db = entry[1].db
  BY DEF IsEntry, IsSequence
<1>2. 1 \in DOMAIN entry
  BY <1>1
<1>3. entry # <<>>
  OBVIOUS
<1>4. Head(entry) = entry[1]
  OBVIOUS
<1> QED
  BY <1>1, <1>2, <1>3, <1>4 DEF PlainDatabase

LEMMA SomeAlternative ==
    ASSUME NEW entry, IsEntry(entry), entry # <<>>
    PROVE  1 \in DOMAIN entry
<1>1. entry = [i \in 1..Len(entry) |-> entry[i]] /\ Len(entry) \in Nat
  BY DEF IsEntry, IsSequence
<1>2. Len(entry) >= 1
  BY <1>1
<1> QED
  BY <1>1, <1>2

LEMMA NothingNamed ==
    /\ Cardinality(NamedIn(<<>>)) # 1
    /\ PlainDatabase(<< <<>> >>[1]) = ""
    /\ \A u : Head(Qualified(u)) = u.schema
<1>1. NamedIn(<<>>) = {}
  BY DEF NamedIn
<1>2. Cardinality({}) = 0
  BY FS_EmptySet
<1>3. << <<>> >>[1] = <<>>
  OBVIOUS
<1>4. \A u : Head(Qualified(u)) = u.schema
  BY DEF Qualified
<1>5. PlainDatabase(<<>>) = ""
  BY DEF PlainDatabase
<1>6. 0 # 1
  OBVIOUS
<1> QED
  BY <1>1, <1>2, <1>3, <1>4, <1>5, <1>6, Zenon

(* When all table patterns begin with one database name, the tables that   *)
(* are captured are in that database.                                      *)
LEMMA OnlyDatabase ==
    ASSUME NEW c, IsContract(c), NEW u, CapturesTable(c, u),
           Cardinality(NamedIn(FirstOf(c, TableInclude))) = 1,
           PlainDatabase(FirstOf(c, TableInclude)[1]) # ""
    PROVE  u.schema = PlainDatabase(FirstOf(c, TableInclude)[1])
<1> DEFINE ks == TableInclude
           tables == FirstOf(c, ks)
           x == PlainDatabase(tables[1])
<1>0. ks \in Lists
  BY DEF Lists, IncludeLists
<1>1. tables = IF ks[1] \in DOMAIN c.lists THEN c.lists[ks[1]]
               ELSE IF ks[2] \in DOMAIN c.lists THEN c.lists[ks[2]] ELSE <<>>
  BY <1>0, KeyFacts
<1>2. KeyOf(c, ks) = IF Present(c, ks[1]) THEN ks[1] ELSE IF Present(c, ks[2]) THEN ks[2] ELSE ""
  BY <1>0, KeyFacts
<1>3. ks[1] # "" /\ ks[2] # ""
  BY <1>0, KeysApart DEF TwoKeys
<1>4. KeyOf(c, ks) # "" => ListOf(c, ks) = Patterns(c.lists[KeyOf(c, ks)])
  BY <1>0, KeyFacts
<1>5. tables # <<>> /\ ~Blank(tables)
  BY NothingNamed, Zenon DEF Blank
<1> HIDE DEF ks, tables, x
<1>7. KeyOf(c, ks) # "" /\ KeyOf(c, ks) \in DOMAIN c.lists /\ tables = c.lists[KeyOf(c, ks)]
  <2>1. CASE ks[1] \in DOMAIN c.lists
    <3>1. tables = c.lists[ks[1]]
      BY <1>1, <2>1
    <3>2. Present(c, ks[1])
      BY <1>5, <2>1, <3>1 DEF Present
    <3> QED
      BY <1>2, <1>3, <2>1, <3>1, <3>2
  <2>2. CASE ks[1] \notin DOMAIN c.lists
    <3>1. ~Present(c, ks[1])
      BY <2>2 DEF Present
    <3>2. ks[2] \in DOMAIN c.lists /\ tables = c.lists[ks[2]]
      BY <1>1, <1>5, <2>2
    <3>3. Present(c, ks[2])
      BY <1>5, <3>2 DEF Present
    <3> QED
      BY <1>2, <1>3, <3>1, <3>2, <3>3
  <2> QED
    BY <2>1, <2>2
<1>8. ListOf(c, ks) = Patterns(tables) /\ IsList(tables)
  BY <1>4, <1>7 DEF IsContract
<1>9. IsFiniteSet(NamedIn(tables)) /\ 1 \in DOMAIN tables
  BY <1>8, FiniteNamed
<1>10. PICK y : NamedIn(tables) = {y}
  BY <1>9, FS_Singleton DEF tables, ks
<1>11. \A e \in DOMAIN tables : PlainDatabase(tables[e]) \in NamedIn(tables)
  BY DEF NamedIn
<1>12. \A e \in DOMAIN tables : PlainDatabase(tables[e]) = x
  BY <1>9, <1>10, <1>11 DEF x
<1>13. x # ""
  BY DEF x, tables, ks
<1>14. \A e \in DOMAIN tables : IsEntry(tables[e])
  BY <1>8 DEF IsList
<1>15. Patterns(tables) # {}
  <2>1. tables[1] # <<>>
    BY <1>13 DEF x, PlainDatabase
  <2>2. 1 \in DOMAIN tables[1]
    BY <1>9, <1>14, <2>1, SomeAlternative
  <2> QED
    BY <1>9, <2>2, PatternIn
<1>16. AnyMatch(ListOf(c, ks), Qualified(u))
  BY <1>8, <1>15 DEF CapturesTable, Passes, ks
<1>17. PICK p \in Patterns(tables) : Qualified(u) \in p.ext
  BY <1>8, <1>16 DEF AnyMatch
<1>18. PICK e \in DOMAIN tables : \E a \in DOMAIN tables[e] : p = tables[e][a]
  BY <1>17, Zenon DEF Patterns, ToSet
<1>19. PICK a \in DOMAIN tables[e] : p = tables[e][a]
  BY <1>18
<1>20. p.db = x
  BY <1>12, <1>14, <1>19, PlainEntry
<1>21. Head(Qualified(u)) = x
  BY <1>13, <1>14, <1>17, <1>19, <1>20 DEF IsEntry
<1>22. Head(Qualified(u)) = u.schema
  BY NothingNamed
<1> QED
  BY <1>21, <1>22 DEF x, tables, ks

(* An edit never makes the database another one, while the connector       *)
(* captures a table of it.                                                 *)
LEMMA HomeStays ==
    ASSUME NEW c, IsContract(c), NEW d, NEW ks \in Lists, NEW q, Edit(c, d, ks, q),
           NEW u, CapturesTable(c, u), u.schema = DefaultDatabase(c), u.schema # ""
    PROVE  DefaultDatabase(d) \in {DefaultDatabase(c), ""}
<1> DEFINE dbs == FirstOf(c, DbInclude)
           dbs2 == FirstOf(d, DbInclude)
           tables == FirstOf(c, TableInclude)
           tables2 == FirstOf(d, TableInclude)
<1>1. DbInclude \in Lists /\ TableInclude \in Lists /\ DbInclude # TableInclude
      /\ DbInclude \in IncludeLists /\ TableInclude \in IncludeLists
  BY ListsDistinct, Zenon DEF Lists
<1>2. \A ls \in Lists : ls # ks => FirstOf(d, ls) = FirstOf(c, ls)
  BY DEF Edit, Same
<1>3. ks \in IncludeLists => \/ FirstOf(d, ks) = FirstOf(c, ks)
                             \/ /\ IsList(FirstOf(c, ks))
                                /\ FirstOf(d, ks) = Append(FirstOf(c, ks), <<Literal(q)>>)
  BY DEF Edit, Added
<1>4. /\ Single(dbs) => DefaultDatabase(c) = PlainDatabase(dbs[1])
      /\ ~Single(dbs) /\ Cardinality(NamedIn(tables)) = 1 =>
            DefaultDatabase(c) = PlainDatabase(tables[1])
      /\ ~Single(dbs) /\ Cardinality(NamedIn(tables)) # 1 => DefaultDatabase(c) = ""
  BY DefaultIs
<1>5. /\ Single(dbs2) => DefaultDatabase(d) = PlainDatabase(dbs2[1])
      /\ ~Single(dbs2) /\ Cardinality(NamedIn(tables2)) = 1 =>
            DefaultDatabase(d) = PlainDatabase(tables2[1])
      /\ ~Single(dbs2) /\ Cardinality(NamedIn(tables2)) # 1 => DefaultDatabase(d) = ""
  BY DefaultIs
<1>6. Cardinality(NamedIn(tables)) = 1 /\ PlainDatabase(tables[1]) # "" =>
         u.schema = PlainDatabase(tables[1])
  BY OnlyDatabase
<1>7. \A v : IsList(v) => Append(v, <<Literal(q)>>)[1] = v[1] /\ ~Single(Append(v, <<Literal(q)>>))
  <2>1. \A v : IsList(v) => /\ Append(v, <<Literal(q)>>)[1] = v[1]
                            /\ Len(Append(v, <<Literal(q)>>)) # 1
    BY AppendedTo, Zenon
  <2> QED
    BY <2>1, Zenon DEF Single
<1> HIDE DEF dbs, dbs2, tables, tables2
<1>8. CASE dbs2 = dbs /\ tables2 = tables
  BY <1>4, <1>5, <1>8, Zenon
<1>9. CASE ks = TableInclude /\ dbs2 = dbs
  <2>1. tables2 = tables \/ tables2[1] = tables[1]
    BY <1>1, <1>3, <1>7, <1>9 DEF tables, tables2
  <2> QED
    BY <1>4, <1>5, <1>9, <2>1, Zenon
<1>10. CASE ks = DbInclude /\ tables2 = tables
  <2>1. dbs2 = dbs \/ ~Single(dbs2)
    BY <1>1, <1>3, <1>7, <1>10 DEF dbs, dbs2
  <2> QED
    BY <1>4, <1>5, <1>6, <1>8, <1>10, <2>1, Zenon
<1>11. \/ dbs2 = dbs /\ tables2 = tables
       \/ ks = TableInclude /\ dbs2 = dbs
       \/ ks = DbInclude /\ tables2 = tables
  BY <1>1, <1>2 DEF dbs, dbs2, tables, tables2
<1> QED
  BY <1>8, <1>9, <1>10, <1>11

-----------------------------------------------------------------------------
(* What a finding with a fix says, and what is so after the edit. *)

(* The finding is what the rules raise on the input: it names a table the  *)
(* connector does not capture, or a column of one it does, and its fix is  *)
(* the one for the list to blame.                                          *)
Asked(inp, f) ==
    LET i == f.subject.table
    IN  /\ i \in DOMAIN inp.source
        /\ \/ /\ f.rule = "sink-table-not-captured"
              /\ ~Captured(inp, i) /\ f.fix = TableBlock(inp.contract, inp.source[i])
           \/ /\ f.rule # "sink-table-not-captured"
              /\ Captured(inp, i) /\ ~ColumnCaptured(inp, i, f.subject.column)
              /\ f.fix = ColumnFix(inp, i, f.subject.column)

LEMMA FixableFacts ==
    ASSUME NEW inp, IsInput(inp), NEW found \in Answers(inp), NEW f \in Fixable(found)
    PROVE  Asked(inp, f)
<1>1. PICK w \in Resolvings(inp) : found = FindingsOf(inp, AllReads(inp, w))
  BY DEF Answers
<1> DEFINE rs == AllReads(inp, w)
<1>2. \A r \in rs : r.table # 0 => r.table \in DOMAIN inp.source
  <2>1. \A r \in rs : ReadOK(inp, r)
    BY AllReadsTyped
  <2>2. DOMAIN inp.source = 1..Len(inp.source) /\ Len(inp.source) \in Nat
    BY DEF IsInput, IsSequence
  <2> HIDE DEF rs
  <2>3. \A r \in rs : r.table \in 0..Len(inp.source)
    BY <2>1, Zenon DEF ReadOK
  <2> QED
    BY <2>2, <2>3
<1> HIDE DEF rs
<1>3. f \in FindingsOf(inp, rs) /\ f.rule \in EditRules
  BY <1>1 DEF Fixable, rs
<1>4. \/ f \in SinkTableNotCaptured(inp, rs)
      \/ f \in SinkColumnNotCaptured(inp, rs)
      \/ f \in SchemaBeforeConnector(inp, rs)
  <2>1. \/ f \in TopicTableMapping(inp, rs) \/ f \in SinkTableNotCaptured(inp, rs)
        \/ f \in SinkColumnNotCaptured(inp, rs) \/ f \in SinkColumnUnknown(inp, rs)
        \/ f \in SinkColumnFlattened(inp, rs) \/ f \in SchemaBeforeConnector(inp, rs)
        \/ f \in SourceColumnNotCaptured(inp, rs, Raised(inp, rs))
        \/ f \in CapturedColumnMissing(inp) \/ f \in CapturedTableMissing(inp)
        \/ f \in MvColumnMatch(inp)
    BY <1>3, Zenon DEF FindingsOf
  <2>2. f.rule \notin {"topic-table-mapping", "sink-column-unknown", "sink-column-flattened",
                       "source-column-not-captured", "captured-column-missing",
                       "captured-table-missing", "mv-column-match"}
    BY <1>3 DEF EditRules
  <2> QED
    BY <2>1, <2>2, RuleOfFinding, Zenon DEF IsOf
<1>5. CASE f \in SinkTableNotCaptured(inp, rs)
  <2>1. PICK r \in rs :
           /\ r.table # 0 /\ ~Captured(inp, r.table)
           /\ f = Finding("sink-table-not-captured", Error, inp.sinks[r.sink].pos,
                          Subject(r.sink, <<>>, r.table, ""),
                          TableBlock(inp.contract, SourceOf(inp, r)))
    BY <1>5, Zenon DEF SinkTableNotCaptured
  <2>2. /\ f.rule = "sink-table-not-captured" /\ f.subject.table = r.table
        /\ f.fix = TableBlock(inp.contract, SourceOf(inp, r))
    BY <2>1 DEF Finding, Subject
  <2> QED
    BY <1>2, <2>1, <2>2 DEF Asked, SourceOf
<1>6. CASE f \in SinkColumnNotCaptured(inp, rs)
  <2>1. PICK r \in rs :
           /\ r.table # 0 /\ Captured(inp, r.table) /\ ~ColumnCaptured(inp, r.table, r.field.name)
           /\ f = Finding("sink-column-not-captured", Error, inp.sinks[r.sink].columns[r.col].pos,
                          Subject(r.sink, <<r.col>>, r.table, r.field.name),
                          ColumnFix(inp, r.table, r.field.name))
    BY <1>6, Zenon DEF SinkColumnNotCaptured
  <2>2. /\ f.rule = "sink-column-not-captured" /\ f.subject.table = r.table
        /\ f.subject.column = r.field.name /\ f.fix = ColumnFix(inp, r.table, r.field.name)
    BY <2>1 DEF Finding, Subject
  <2> QED
    BY <1>2, <2>1, <2>2 DEF Asked
<1>7. CASE f \in SchemaBeforeConnector(inp, rs)
  <2>1. PICK ic \in Raised(inp, rs) :
           f = Finding("schema-before-connector", Warning, inp.source[ic[1]].cols[ic[2]],
                       Subject(0, <<>>, ic[1], ic[2]), ColumnFix(inp, ic[1], ic[2]))
    BY <1>7, Zenon DEF SchemaBeforeConnector
  <2>2. /\ f.rule = "schema-before-connector" /\ f.subject.table = ic[1]
        /\ f.subject.column = ic[2] /\ f.fix = ColumnFix(inp, ic[1], ic[2])
    BY <2>1 DEF Finding, Subject
  <2>3. ic \in LeftOut(inp)
    BY RaisedFacts
  <2>4. /\ ic[1] \in DOMAIN inp.source /\ Captured(inp, ic[1])
        /\ ~ColumnCaptured(inp, ic[1], ic[2])
    BY <2>3, SourceColumnsFacts DEF LeftOut
  <2> QED
    BY <2>2, <2>4 DEF Asked
<1> QED
  BY <1>4, <1>5, <1>6, <1>7

(* The fix edits the list to blame, by the name it lacks or has.           *)
Blame(inp, f, ks, q) ==
    LET t == inp.source[f.subject.table]
    IN  \/ f.rule = "sink-table-not-captured" /\ TableBlame(inp.contract, t, ks, q)
        \/ /\ f.rule # "sink-table-not-captured"
           /\ ColumnBlame(inp.contract, t, f.subject.column, ks, q)

LEMMA FixEdits ==
    ASSUME NEW inp, Editable(inp), NEW f, Asked(inp, f)
    PROVE  \E ks, q :
              /\ ks \in Lists
              /\ Blame(inp, f, ks, q) /\ f.fix = TheFix(inp.contract, ks, q)
              /\ Edit(inp.contract, Edited(inp.contract, f.fix), ks, q)
<1> DEFINE c == inp.contract
           t == inp.source[f.subject.table]
<1>1. \E ks, q :
         ks \in Lists /\ Blame(inp, f, ks, q) /\ KeyOf(c, ks) # "" /\ f.fix = TheFix(c, ks, q)
  <2>1. CASE /\ f.rule = "sink-table-not-captured"
             /\ ~Captured(inp, f.subject.table) /\ f.fix = TableBlock(c, t)
    <3>1. ~CapturesTable(c, t)
      BY <2>1 DEF Captured
    <3>2. ListOf(c, TableInclude) = {} => ListOf(c, TableExclude) = {}
      BY DEF Editable
    <3>3. \E ks, q :
             /\ ks \in Lists /\ TableBlame(c, t, ks, q)
             /\ KeyOf(c, ks) # "" /\ TableBlock(c, t) = TheFix(c, ks, q)
      BY <3>1, <3>2, TableBlamed
    <3> QED
      BY <2>1, <3>3, Zenon DEF Blame
  <2>2. CASE /\ f.rule # "sink-table-not-captured"
             /\ ~ColumnCaptured(inp, f.subject.table, f.subject.column)
             /\ f.fix = ColumnFix(inp, f.subject.table, f.subject.column)
    <3>1. ~CapturesColumn(c, t, f.subject.column)
      BY <2>2 DEF ColumnCaptured
    <3>2. ListOf(c, ColumnInclude) = {} =>
             KeyOf(c, ColumnInclude) = "" \/ ListOf(c, ColumnExclude) = {}
      BY DEF Editable
    <3>3. \E ks, q :
             /\ ks \in Lists
             /\ ColumnBlame(c, t, f.subject.column, ks, q) /\ KeyOf(c, ks) # ""
             /\ [setting |-> ColumnListSetting(c), entry |-> {QualifiedColumn(t, f.subject.column)}]
                   = TheFix(c, ks, q)
      BY <3>1, <3>2, ColumnBlamed, Zenon
    <3>4. f.fix = [setting |-> ColumnListSetting(c),
                   entry |-> {QualifiedColumn(t, f.subject.column)}]
      BY <2>2 DEF ColumnFix, Column
    <3> QED
      BY <2>2, <3>3, <3>4, Zenon DEF Blame
  <2> QED
    BY <2>1, <2>2 DEF Asked
<1>2. PICK ks, q :
         ks \in Lists /\ Blame(inp, f, ks, q) /\ KeyOf(c, ks) # "" /\ f.fix = TheFix(c, ks, q)
  BY <1>1, Zenon
<1>3. ks \in ExcludeLists => OneName(c, ks)
  <2>1. /\ TableInclude \notin ExcludeLists /\ DbInclude \notin ExcludeLists
        /\ ColumnInclude \notin ExcludeLists
    BY ListsDistinct
  <2>2. ks \in {DbInclude, DbExclude, TableInclude, ColumnInclude, ColumnExclude}
    BY <1>2 DEF Blame, TableBlame, ColumnBlame
  <2>3. OneName(c, ColumnExclude) /\ OneName(c, DbExclude)
    BY DEF Editable
  <2> QED
    BY <2>1, <2>2, <2>3
<1>4. f.fix.setting = KeyOf(c, ks) /\ f.fix.entry = {q}
  <2>1. TheFix(c, ks, q).setting = KeyOf(c, ks) /\ TheFix(c, ks, q).entry = {q}
    BY FixFields, Zenon
  <2>2. f.fix = TheFix(c, ks, q)
    BY <1>2
  <2> QED
    BY <2>1, <2>2, Zenon
<1>5. IsContract(c)
  BY DEF Editable
<1>6. Edit(c, Edited(c, f.fix), ks, q)
  BY <1>2, <1>3, <1>4, <1>5, EditOf
<1> QED
  BY <1>2, <1>6

-----------------------------------------------------------------------------
(* The input after the edit. *)

After(inp, f) == [inp EXCEPT !.contract = Edited(@, f.fix)]

LEMMA AfterFacts ==
    ASSUME NEW inp, HasFields(inp), NEW f
    PROVE  /\ DOMAIN After(inp, f) = DOMAIN inp
           /\ After(inp, f).contract = Edited(inp.contract, f.fix)
           /\ After(inp, f).source = inp.source /\ After(inp, f).sinks = inp.sinks
           /\ After(inp, f).views = inp.views /\ After(inp, f).mappers = inp.mappers
           /\ After(inp, f).base = inp.base
<1>1. "contract" \in DOMAIN inp /\ "source" \in DOMAIN inp /\ "sinks" \in DOMAIN inp
      /\ "views" \in DOMAIN inp /\ "mappers" \in DOMAIN inp /\ "base" \in DOMAIN inp
  BY DEF HasFields
<1> QED
  BY <1>1 DEF After

LEMMA SameNames ==
    ASSUME NEW x, NEW y, x.sinks = y.sinks, PlainNames(y)
    PROVE  PlainNames(x)
BY DEF PlainNames

(* An edit leaves a connector that can be edited further.                  *)
LEMMA EditableAfter ==
    ASSUME NEW inp, Editable(inp), NEW f, Asked(inp, f)
    PROVE  Editable(After(inp, f))
<1> DEFINE a == After(inp, f)
           c == inp.contract
           d == Edited(c, f.fix)
<1>1. IsInput(inp) /\ HasFields(inp)
  BY DEF Editable, IsInput
<1>2. /\ DOMAIN a = DOMAIN inp /\ a.contract = d
      /\ a.source = inp.source /\ a.sinks = inp.sinks
      /\ a.views = inp.views /\ a.mappers = inp.mappers /\ a.base = inp.base
  BY <1>1, AfterFacts
<1>3. PICK ks, q : ks \in Lists /\ Blame(inp, f, ks, q) /\ Edit(c, d, ks, q)
  BY FixEdits
<1> HIDE DEF a, d
<1>4. IsContract(d) /\ d.transforms = c.transforms
  BY <1>3 DEF Edit
<1>5. IsInput(a)
  <2>1. HasFields(a)
    BY <1>1, <1>2, Zenon DEF HasFields
  <2>2. DistinctTables(a) /\ PlainNames(a)
    <3>1. DistinctTables(inp) /\ PlainNames(inp)
      BY <1>1 DEF IsInput
    <3>2. DistinctTables(a)
      BY <1>2, <3>1 DEF DistinctTables
    <3>3. PlainNames(a)
      BY <1>2, <3>1, SameNames
    <3> QED
      BY <3>2, <3>3
  <2> QED
    BY <1>1, <1>2, <1>4, <2>1, <2>2, Zenon DEF IsInput
<1>6. /\ DbExclude \in Lists /\ TableInclude \in Lists /\ TableExclude \in Lists
      /\ ColumnInclude \in Lists /\ ColumnExclude \in Lists
      /\ DbExclude \in ExcludeLists /\ ColumnExclude \in ExcludeLists
      /\ TableInclude \in IncludeLists /\ ColumnInclude \in IncludeLists
  BY DEF Lists, IncludeLists, ExcludeLists
<1>7. \A ls \in ExcludeLists : OneName(c, ls) => OneName(d, ls)
  BY <1>3 DEF Edit, Lists
<1>8. OneName(d, ColumnExclude) /\ OneName(d, DbExclude)
  BY <1>6, <1>7 DEF Editable
<1>9. \A ls \in Lists : ls # ks => KeyOf(d, ls) = KeyOf(c, ls) /\ ListOf(d, ls) = ListOf(c, ls)
  BY <1>3 DEF Edit, Same
<1>10. ks \in IncludeLists => ListOf(d, ks) # {}
  BY <1>3 DEF Edit, Added
<1>11. ks # TableExclude
  BY <1>3, ListsDistinct, Zenon DEF Blame, TableBlame, ColumnBlame
<1>12. ListOf(d, TableInclude) = {} => ListOf(d, TableExclude) = {}
  BY <1>6, <1>9, <1>10, <1>11, Zenon DEF Editable
<1>13. ListOf(d, ColumnInclude) = {} =>
          KeyOf(d, ColumnInclude) = "" \/ ListOf(d, ColumnExclude) = {}
  <2>1. CASE ks = ColumnInclude
    BY <1>6, <1>10, <2>1
  <2>2. CASE ks # ColumnInclude /\ ks # ColumnExclude
    BY <1>6, <1>9, <2>2, Zenon DEF Editable
  <2>3. CASE ks = ColumnExclude
    <3>1. ColumnExclude # ColumnInclude /\ ColumnExclude \notin {TableInclude, DbInclude, DbExclude}
      BY ListsDistinct, Zenon
    <3>2. KeyOf(d, ColumnInclude) = KeyOf(c, ColumnInclude)
          /\ ListOf(d, ColumnInclude) = ListOf(c, ColumnInclude)
      BY <1>6, <1>9, <2>3, <3>1
    <3>3. ListOf(c, ColumnInclude) = {}
      BY <1>3, <2>3, <3>1, Zenon DEF Blame, TableBlame, ColumnBlame
    <3>4. AnyMatch(ListOf(c, ColumnExclude), q)
      <4>1. q = QualifiedColumn(inp.source[f.subject.table], f.subject.column)
            /\ f.rule # "sink-table-not-captured"
        BY <1>3, <2>3, <3>1, Zenon DEF Blame, TableBlame, ColumnBlame
      <4>2. ~ColumnCaptured(inp, f.subject.table, f.subject.column)
        BY <4>1, Zenon DEF Asked
      <4> QED
        BY <3>3, <4>1, <4>2 DEF ColumnCaptured, CapturesColumn, Passes
    <3>5. ListOf(c, ColumnExclude) # {}
      BY <3>4 DEF AnyMatch
    <3> QED
      BY <3>2, <3>3, <3>5, Zenon DEF Editable
  <2> QED
    BY <2>1, <2>2, <2>3
<1>14. \A i \in DOMAIN a.source : a.source[i].schema # ""
  BY <1>2, Zenon DEF Editable
<1> QED
  BY <1>2, <1>4, <1>5, <1>8, <1>12, <1>13, <1>14, Zenon DEF Editable, a

(* After its edit a finding is not made again with the same fix.           *)
LEMMA FixWorks ==
    ASSUME NEW inp, Editable(inp), NEW f, Asked(inp, f)
    PROVE  ~Asked(After(inp, f), f)
<1> DEFINE a == After(inp, f)
           c == inp.contract
           d == Edited(c, f.fix)
           t == inp.source[f.subject.table]
<1>1. HasFields(inp)
  BY DEF Editable, IsInput
<1>2. a.contract = d /\ a.source = inp.source
  BY <1>1, AfterFacts
<1>3. PICK ks, q :
         ks \in Lists /\ Blame(inp, f, ks, q) /\ f.fix = TheFix(c, ks, q) /\ Edit(c, d, ks, q)
  BY FixEdits
<1>4. SUFFICES ASSUME Asked(a, f) PROVE FALSE
  OBVIOUS
<1> HIDE DEF a, d
<1>5. CASE f.rule = "sink-table-not-captured"
  <2>1. TableBlame(c, t, ks, q)
    BY <1>3, <1>5, Zenon DEF Blame
  <2>2. ~CapturesTable(d, t) => TableBlock(d, t) # TheFix(c, ks, q)
    <3>1. ks \in Lists /\ Edit(c, d, ks, q)
      BY <1>3
    <3>2. TableBlock(d, t) # TheFix(c, ks, q) \/ CapturesTable(d, t)
      BY <2>1, <3>1, TableFix
    <3> QED
      BY <3>2, Zenon
  <2>3. ~Captured(a, f.subject.table) /\ f.fix = TableBlock(a.contract, a.source[f.subject.table])
    BY <1>4, <1>5, Zenon DEF Asked
  <2> QED
    BY <1>2, <1>3, <2>2, <2>3, Zenon DEF Captured
<1>6. CASE f.rule # "sink-table-not-captured"
  <2>1. ColumnBlame(c, t, f.subject.column, ks, q)
    BY <1>3, <1>6, Zenon DEF Blame
  <2>2. CapturesColumn(d, t, f.subject.column)
    BY <1>3, <2>1, ColumnFixed
  <2>3. ~ColumnCaptured(a, f.subject.table, f.subject.column)
    BY <1>4, <1>6, Zenon DEF Asked
  <2> QED
    BY <1>2, <2>2, <2>3, Zenon DEF ColumnCaptured
<1> QED
  BY <1>5, <1>6

(* An edit takes nothing out of the stream, and puts into it only what the *)
(* finding names or what is in the database it names.                      *)
LEMMA CarriedAfter ==
    ASSUME NEW inp, Editable(inp), NEW f, Asked(inp, f)
    PROVE  /\ Carried(inp) \subseteq Carried(After(inp, f))
           /\ \A ic \in Carried(After(inp, f)) \ Carried(inp) :
                \/ ic[1] = f.subject.table
                \/ f.fix.entry = {<<inp.source[ic[1]].schema>>}
<1> DEFINE a == After(inp, f)
           c == inp.contract
           d == Edited(c, f.fix)
           i == f.subject.table
           t == inp.source[i]
<1>1. IsInput(inp) /\ HasFields(inp)
  BY DEF Editable, IsInput
<1>2. a.contract = d /\ a.source = inp.source
  BY <1>1, AfterFacts
<1>3. PICK ks, q :
         ks \in Lists /\ Blame(inp, f, ks, q) /\ f.fix = TheFix(c, ks, q) /\ Edit(c, d, ks, q)
  BY FixEdits
<1>4. i \in DOMAIN inp.source
  BY Zenon DEF Asked
<1>5. f.fix.entry = {q}
  BY <1>3, FixFields
<1> HIDE DEF a, d
<1> DEFINE In(e, ic) == /\ CapturesTable(e, inp.source[ic[1]])
                        /\ CapturesColumn(e, inp.source[ic[1]], ic[2])
<1>6. SourceColumns(a) = SourceColumns(inp)
  BY <1>2 DEF SourceColumns
<1>7. \A ic : /\ ic \in Carried(inp) <=> ic \in SourceColumns(inp) /\ In(c, ic)
              /\ ic \in Carried(a) <=> ic \in SourceColumns(inp) /\ In(d, ic)
  BY <1>2, <1>6 DEF Carried, Captured, ColumnCaptured
<1>8. \A ic \in SourceColumns(inp) : ic[1] \in DOMAIN inp.source
  BY SourceColumnsFacts
<1>9. ASSUME NEW j \in DOMAIN inp.source, Qualified(inp.source[j]) = Qualified(t)
      PROVE  j = i
  BY <1>1, <1>4, <1>9 DEF IsInput, DistinctTables
<1>10. CASE TableBlame(c, t, ks, q)
  <2>1. /\ \A u : CapturesTable(c, u) => CapturesTable(d, u)
        /\ \A u, col : CapturesColumn(d, u, col) <=> CapturesColumn(c, u, col)
        /\ \A u : CapturesTable(d, u) /\ ~CapturesTable(c, u) =>
             q = <<u.schema>> \/ (q = Qualified(u) /\ q = Qualified(t))
    BY <1>3, <1>10, TableFix
  <2>2. \A ic : In(c, ic) => In(d, ic)
    BY <2>1
  <2>3. \A ic \in SourceColumns(inp) : In(d, ic) /\ ~In(c, ic) =>
           ic[1] = i \/ q = <<inp.source[ic[1]].schema>>
    <3>1. SUFFICES ASSUME NEW ic \in SourceColumns(inp), In(d, ic), ~In(c, ic),
                          q # <<inp.source[ic[1]].schema>>
                   PROVE  ic[1] = i
      OBVIOUS
    <3>2. Qualified(inp.source[ic[1]]) = Qualified(t)
      BY <2>1, <3>1
    <3> QED
      BY <1>8, <1>9, <3>2
  <2> HIDE DEF In
  <2> QED
    BY <1>5, <1>7, <2>2, <2>3 DEF a
<1>11. CASE ColumnBlame(c, t, f.subject.column, ks, q)
  <2>1. /\ \A u : CapturesTable(d, u) <=> CapturesTable(c, u)
        /\ \A u, x : CapturesColumn(c, u, x) => CapturesColumn(d, u, x)
        /\ \A u, x : CapturesColumn(d, u, x) /\ ~CapturesColumn(c, u, x) =>
             QualifiedColumn(u, x) = QualifiedColumn(t, f.subject.column)
    BY <1>3, <1>11, ColumnFixed
  <2>2. \A ic : In(c, ic) => In(d, ic)
    BY <2>1
  <2>3. \A ic \in SourceColumns(inp) : In(d, ic) /\ ~In(c, ic) => ic[1] = i
    <3>1. SUFFICES ASSUME NEW ic \in SourceColumns(inp), In(d, ic), ~In(c, ic)
                   PROVE  ic[1] = i
      OBVIOUS
    <3>2. QualifiedColumn(inp.source[ic[1]], ic[2]) = QualifiedColumn(t, f.subject.column)
      BY <2>1, <3>1
    <3>3. Qualified(inp.source[ic[1]]) = Qualified(t)
      BY <3>2 DEF QualifiedColumn, Qualified
    <3> QED
      BY <1>8, <1>9, <3>3
  <2> HIDE DEF In
  <2> QED
    BY <1>7, <2>2, <2>3 DEF a
<1> QED
  BY <1>3, <1>10, <1>11, Zenon DEF Blame

LEMMA HomeAfter ==
    ASSUME NEW inp, Editable(inp), NEW f, Asked(inp, f),
           NEW ic \in Carried(inp), inp.source[ic[1]].schema = DefaultDatabase(inp.contract)
    PROVE  DefaultDatabase(After(inp, f).contract) \in {DefaultDatabase(inp.contract), ""}
<1> DEFINE c == inp.contract
           d == Edited(c, f.fix)
           u == inp.source[ic[1]]
<1>1. HasFields(inp) /\ IsContract(c)
  BY DEF Editable, IsInput
<1>2. After(inp, f).contract = d
  BY <1>1, AfterFacts
<1>3. PICK ks, q : ks \in Lists /\ Edit(c, d, ks, q)
  BY FixEdits, Zenon
<1>4. ic \in SourceColumns(inp) /\ CapturesTable(c, u)
  BY DEF Carried, Captured
<1>5. u.schema # ""
  BY <1>4, SourceColumnsFacts DEF Editable
<1>6. DefaultDatabase(d) \in {DefaultDatabase(c), ""}
  BY <1>1, <1>3, <1>4, <1>5, HomeStays
<1> QED
  BY <1>2, <1>6

-----------------------------------------------------------------------------
(* The loop. *)

(* What the author works on can be edited, an answer is what the rules     *)
(* raise on it, and the finding whose fix was made last is one the rules   *)
(* do not raise on it with that fix.                                       *)
FixInv ==
    /\ Editable(input)
    /\ answer # <<>> => answer[1] \in Answers(input)
    /\ edited # <<>> => edited[1].rule \in EditRules /\ ~Asked(input, edited[1])

(* In a reachable state every fix the author may make is one Asked.        *)
LEMMA FixesAsked ==
    ASSUME FixInv, answer # <<>>, NEW f \in Fixable(answer[1])
    PROVE  Asked(input, f)
<1>1. IsInput(input) /\ answer[1] \in Answers(input)
  BY DEF FixInv, Editable
<1> QED
  BY <1>1, FixableFacts

LEMMA FixInvKept ==
    ASSUME FixInv, [Next]_vars
    PROVE  FixInv'
<1>1. CASE Lint
  <2>1. PICK found \in Answers(input) : answer' = <<found>>
    BY <1>1 DEF Lint, Judge
  <2>2. input' = input /\ edited' = edited
    BY <1>1 DEF Lint, Judge
  <2>3. answer'[1] \in Answers(input)
    BY <2>1
  <2> QED
    BY <2>2, <2>3, Zenon DEF FixInv
<1>2. CASE MakeFix
  <2>1. PICK f \in Fixable(answer[1]) : input' = After(input, f) /\ edited' = <<f>>
    BY <1>2, Zenon DEF MakeFix, After
  <2>2. answer # <<>> /\ answer' = <<>>
    BY <1>2 DEF MakeFix
  <2>3. Asked(input, f) /\ Editable(input) /\ f.rule \in EditRules
    BY <2>2, FixesAsked DEF FixInv, Fixable
  <2>4. Editable(After(input, f)) /\ ~Asked(After(input, f), f)
    BY <2>3, EditableAfter, FixWorks
  <2>5. edited'[1] = f
    BY <2>1
  <2> QED
    BY <2>1, <2>2, <2>3, <2>4, <2>5, Zenon DEF FixInv
<1>3. CASE UNCHANGED vars
  <2>1. input' = input /\ answer' = answer /\ edited' = edited
    BY <1>3 DEF vars
  <2> QED
    BY <2>1, Zenon DEF FixInv
<1> QED
  BY <1>1, <1>2, <1>3 DEF Next, Nothing2Fix

(* In every reachable state FixInv holds.                                  *)
LEMMA FixInvHolds ==
    ASSUME \A inp \in Inputs : Editable(inp)
    PROVE  Spec => []FixInv
<1>1. Init => FixInv
  BY DEF Init, VerdictInit, FixInv
<1>2. FixInv /\ [Next]_vars => FixInv'
  BY FixInvKept
<1> QED
  BY <1>1, <1>2, PTL DEF Spec

(* FixedStaysFixed: a finding whose fix was made does not come back with   *)
(* the same fix, for every input that can be edited and every order of     *)
(* fixes: engine.edit named the list that was to blame.                    *)
THEOREM FixesStick ==
    ASSUME \A inp \in Inputs : Editable(inp)
    PROVE  Spec => []FixedStaysFixed
<1>1. FixInv => FixedStaysFixed
  <2>1. SUFFICES ASSUME FixInv, answer # <<>>, edited # <<>>, edited[1] \in answer[1] PROVE FALSE
    BY DEF FixedStaysFixed
  <2>2. edited[1] \in Fixable(answer[1])
    BY <2>1 DEF FixInv, Fixable
  <2>3. Asked(input, edited[1])
    BY <2>1, <2>2, FixesAsked
  <2> QED
    BY <2>1, <2>3, Zenon DEF FixInv
<1> QED
  BY <1>1, FixInvHolds, PTL

(* A step of the loop is a fix, or leaves the input alone.                 *)
LEMMA Steps ==
    ASSUME FixInv, [Next]_vars
    PROVE  \/ input' = input
           \/ \E f : /\ Editable(input) /\ Asked(input, f)
                     /\ input' = After(input, f) /\ edited' = <<f>>
<1>1. CASE MakeFix
  <2>1. PICK f \in Fixable(answer[1]) : input' = After(input, f) /\ edited' = <<f>>
    BY <1>1, Zenon DEF MakeFix, After
  <2>2. answer # <<>>
    BY <1>1 DEF MakeFix
  <2>3. Asked(input, f) /\ Editable(input)
    BY <2>2, FixesAsked DEF FixInv
  <2> QED
    BY <2>1, <2>3
<1> QED
  BY <1>1 DEF Next, Lint, Judge, Nothing2Fix, vars

(* FixKeepsCarried: making the fix of a finding takes no column out of the *)
(* stream, whichever lists the connector has.                              *)
THEOREM FixesTakeNothingOut ==
    ASSUME \A inp \in Inputs : Editable(inp)
    PROVE  Spec => FixKeepsCarried
<1>1. FixInv /\ [Next]_vars => [Carried(input) \subseteq Carried(input')]_vars
  <2>1. SUFFICES ASSUME FixInv, [Next]_vars PROVE Carried(input) \subseteq Carried(input')
    OBVIOUS
  <2>2. CASE input' = input
    BY <2>2
  <2>3. ASSUME NEW f, Editable(input), Asked(input, f), input' = After(input, f)
        PROVE  Carried(input) \subseteq Carried(input')
    BY <2>3, CarriedAfter
  <2> QED
    BY <2>1, <2>2, <2>3, Steps
<1> QED
  BY <1>1, FixInvHolds, PTL DEF Spec, FixKeepsCarried

(* FixStaysInTheTable: what an edit puts into the stream is of the table   *)
(* its finding names, or of the database its fix names.                    *)
THEOREM FixesPutInWhatTheyName ==
    ASSUME \A inp \in Inputs : Editable(inp)
    PROVE  Spec => FixStaysInTheTable
<1> DEFINE Stays == \A f \in Fixable(IF answer = <<>> THEN {} ELSE answer[1]) :
              edited' = <<f>> /\ answer' = <<>> =>
                \A ic \in Carried(input') \ Carried(input) :
                    \/ ic[1] = f.subject.table
                    \/ f.fix.entry = {<<input.source[ic[1]].schema>>}
<1>1. FixInv /\ [Next]_vars => [Stays]_vars
  <2>1. SUFFICES ASSUME FixInv, [Next]_vars, NEW f, edited' = <<f>>,
                        NEW ic \in Carried(input') \ Carried(input)
                 PROVE  \/ ic[1] = f.subject.table
                        \/ f.fix.entry = {<<input.source[ic[1]].schema>>}
    OBVIOUS
  <2>2. CASE input' = input
    BY <2>1, <2>2
  <2>3. ASSUME NEW g, Editable(input), Asked(input, g), input' = After(input, g), edited' = <<g>>
        PROVE  \/ ic[1] = f.subject.table
               \/ f.fix.entry = {<<input.source[ic[1]].schema>>}
    <3>1. f = g
      BY <2>1, <2>3
    <3>2. ic \in Carried(After(input, g)) \ Carried(input)
      BY <2>3
    <3> QED
      BY <2>3, <3>1, <3>2, CarriedAfter
  <2> QED
    BY <2>1, <2>2, <2>3, Steps
<1> QED
  BY <1>1, FixInvHolds, PTL DEF Spec, FixStaysInTheTable

(* FixNeverMovesTables: an edit never makes the database that unqualified  *)
(* migrations run in another one, while the stream carries a table of it.  *)
THEOREM FixesMoveNoTables ==
    ASSUME \A inp \in Inputs : Editable(inp)
    PROVE  Spec => FixNeverMovesTables
<1> DEFINE Unmoved ==
              LET home == DefaultDatabase(input.contract)
              IN  /\ input.contract.mysql
                  /\ \E ic \in Carried(input) : input.source[ic[1]].schema = home
                  => DefaultDatabase(input'.contract) \in {home, ""}
<1>1. FixInv /\ [Next]_vars => [Unmoved]_vars
  <2>1. SUFFICES ASSUME FixInv, [Next]_vars, NEW ic \in Carried(input),
                        input.source[ic[1]].schema = DefaultDatabase(input.contract)
                 PROVE  DefaultDatabase(input'.contract) \in {DefaultDatabase(input.contract), ""}
    OBVIOUS
  <2>2. CASE input' = input
    BY <2>2
  <2>3. ASSUME NEW f, Editable(input), Asked(input, f), input' = After(input, f)
        PROVE  DefaultDatabase(input'.contract) \in {DefaultDatabase(input.contract), ""}
    BY <2>1, <2>3, HomeAfter
  <2> QED
    BY <2>1, <2>2, <2>3, Steps
<1> QED
  BY <1>1, FixInvHolds, PTL DEF Spec, FixNeverMovesTables

=============================================================================
