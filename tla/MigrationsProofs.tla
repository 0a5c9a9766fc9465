-------------------------- MODULE MigrationsProofs --------------------------
(***************************************************************************)
(* What the two schema readers' proofs share: lists of columns and lists   *)
(* of tables under the edits the readers make, and a list of tables beside *)
(* the server's catalog.                                                   *)
(***************************************************************************)
EXTENDS Migrations, FiniteSetTheorems, SequenceTheorems, WellFoundedInduction, TLAPS

-----------------------------------------------------------------------------
(* Numbers. *)

(* Induction on the naturals, over a set.  A natural outside the set would *)
(* have a least one below it, and that one no predecessor.                 *)
LEMMA SetInduction ==
    ASSUME NEW S, 0 \in S, \A n \in Nat : n \in S => n + 1 \in S
    PROVE  Nat \subseteq S
<1> SUFFICES ASSUME Nat \ S # {} PROVE FALSE
  OBVIOUS
<1>1. PICK m \in Nat \ S : \A k \in Nat \ S : <<k, m>> \notin OpToRel(<, Nat)
  BY NatLessThanWellFounded, WFMin
<1>2. m - 1 \in Nat /\ m - 1 < m /\ m = (m - 1) + 1
  OBVIOUS
<1>3. m - 1 \notin S
  BY <1>2
<1>4. <<m - 1, m>> \in OpToRel(<, Nat)
  BY <1>2 DEF OpToRel
<1> QED
  BY <1>1, <1>2, <1>3, <1>4

(* Up to a bound. *)
LEMMA BoundedInduction ==
    ASSUME NEW n \in Nat, NEW S, 0 \in S, \A k \in 0..n : k < n /\ k \in S => k + 1 \in S
    PROVE  n \in S
<1> DEFINE T == {k \in Nat : k <= n => k \in S}
<1>1. 0 \in T
  OBVIOUS
<1>2. ASSUME NEW k \in Nat, k \in T PROVE k + 1 \in T
  BY <1>2
<1>3. Nat \subseteq T
  <2> HIDE DEF T
  <2> QED
    BY <1>1, <1>2, SetInduction
<1> QED
  BY <1>3

LEMMA Indices ==
    \A n \in Nat : /\ 0 \notin 1..n /\ 0 \in 0..n /\ 1..n \subseteq 0..n
                   /\ \A m \in 0..n : m # 0 => m \in 1..n
OBVIOUS

(* The least member of a set of indices is one of them and below the rest. *)
LEMMA LeastIndex ==
    ASSUME NEW n \in Nat, NEW S \in SUBSET (1..n), S # {}
    PROVE  Min(S) \in S /\ \A y \in S : Min(S) <= y
<1>1. PICK m \in S : \A k \in S : <<k, m>> \notin OpToRel(<, Nat)
  <2>1. S \subseteq Nat
    OBVIOUS
  <2> QED
    BY <2>1, NatLessThanWellFounded, WFMin
<1>2. ASSUME NEW k \in S PROVE m <= k
  <2>1. k \in Nat /\ m \in Nat
    OBVIOUS
  <2>2. ~(k < m)
    BY <1>1, <2>1 DEF OpToRel
  <2> QED
    BY <2>1, <2>2
<1> QED
  BY <1>2 DEF Min

-----------------------------------------------------------------------------
(* Sequences. *)

LEMMA AppendFacts ==
    ASSUME NEW s, IsSequence(s), NEW x
    PROVE  /\ IsSequence(Append(s, x)) /\ Len(Append(s, x)) = Len(s) + 1
           /\ \A i \in 1..Len(s) : Append(s, x)[i] = s[i]
           /\ Append(s, x)[Len(s) + 1] = x
<1> DEFINE S == {s[i] : i \in 1..Len(s)} \cup {x}
<1>1. s \in Seq(S) /\ x \in S
  BY SeqDef DEF IsSequence
<1> HIDE DEF S
<1>2. Append(s, x) \in Seq(S)
  BY <1>1, AppendProperties
<1>3. /\ Len(Append(s, x)) = Len(s) + 1
      /\ \A i \in 1..Len(s) : Append(s, x)[i] = s[i]
      /\ Append(s, x)[Len(s) + 1] = x
  BY <1>1, AppendProperties
<1>4. IsSequence(Append(s, x))
  BY <1>2, LenProperties DEF IsSequence
<1> QED
  BY <1>3, <1>4

(* Where the j-th of a sequence was before the i-th was removed.           *)
Before(i, j) == IF j < i THEN j ELSE j + 1

LEMMA BeforeFacts ==
    ASSUME NEW n \in Nat, NEW i \in 1..n
    PROVE  /\ \A j \in 1..(n - 1) : Before(i, j) \in 1..n /\ Before(i, j) # i
           /\ \A k \in 1..n : k # i => \E j \in 1..(n - 1) : Before(i, j) = k
           /\ \A j, k \in 1..(n - 1) : Before(i, j) = Before(i, k) => j = k
<1>1. ASSUME NEW k \in 1..n, k # i PROVE \E j \in 1..(n - 1) : Before(i, j) = k
  <2>1. CASE k < i
    BY <2>1 DEF Before
  <2>2. CASE k > i
    <3>1. k - 1 \in 1..(n - 1) /\ Before(i, k - 1) = k
      BY <2>2 DEF Before
    <3> QED
      BY <3>1
  <2> QED
    BY <1>1, <2>1, <2>2
<1> QED
  BY <1>1 DEF Before

LEMMA RemoveFacts ==
    ASSUME NEW s, IsSequence(s), NEW i \in 1..Len(s)
    PROVE  /\ IsSequence(RemoveAt(s, i))
           /\ \A j \in 1..Len(RemoveAt(s, i)) :
                 /\ Before(i, j) \in 1..Len(s) /\ Before(i, j) # i
                 /\ RemoveAt(s, i)[j] = s[Before(i, j)]
           /\ \A k \in 1..Len(s) : k # i => \E j \in 1..Len(RemoveAt(s, i)) : Before(i, j) = k
           /\ \A j, k \in 1..Len(RemoveAt(s, i)) : Before(i, j) = Before(i, k) => j = k
<1> DEFINE S == {s[k] : k \in 1..Len(s)}
           a == SubSeq(s, 1, i - 1)
           b == SubSeq(s, i + 1, Len(s))
<1>0. Len(s) \in Nat
  BY DEF IsSequence
<1>1. s \in Seq(S)
  BY SeqDef DEF IsSequence
<1>2. \A k \in 1..Len(s) : s[k] \in S
  OBVIOUS
<1> HIDE DEF S
<1>3. /\ a \in Seq(S) /\ Len(a) = i - 1
      /\ \A k \in 1..(i - 1) : a[k] = s[k]
  BY <1>0, <1>2, SubSeqProperties
<1>4. /\ b \in Seq(S) /\ Len(b) = Len(s) - i
      /\ \A k \in 1..(Len(s) - i) : b[k] = s[k + i]
  BY <1>0, <1>2, SubSeqProperties
<1>5. RemoveAt(s, i) = a \o b
  BY DEF RemoveAt
<1> HIDE DEF a, b
<1>6. /\ a \o b \in Seq(S) /\ Len(a \o b) = Len(a) + Len(b)
      /\ \A k \in 1..(Len(a) + Len(b)) : (a \o b)[k] = IF k <= Len(a) THEN a[k] ELSE b[k - Len(a)]
  BY <1>3, <1>4, ConcatProperties
<1>7. Len(a) + Len(b) = Len(s) - 1
  BY <1>0, <1>3, <1>4
<1>8. ASSUME NEW j \in 1..(Len(s) - 1) PROVE (a \o b)[j] = s[Before(i, j)]
  BY <1>0, <1>3, <1>4, <1>6, <1>7 DEF Before
<1>9. IsSequence(a \o b)
  BY <1>6, LenProperties DEF IsSequence
<1>10. Len(a \o b) = Len(s) - 1
  BY <1>6, <1>7
<1>11. /\ \A j \in 1..(Len(s) - 1) : Before(i, j) \in 1..Len(s) /\ Before(i, j) # i
       /\ \A k \in 1..Len(s) : k # i => \E j \in 1..(Len(s) - 1) : Before(i, j) = k
       /\ \A j, k \in 1..(Len(s) - 1) : Before(i, j) = Before(i, k) => j = k
  BY <1>0, BeforeFacts
<1>12. IsSequence(RemoveAt(s, i)) /\ Len(RemoveAt(s, i)) = Len(s) - 1
  BY <1>5, <1>9, <1>10
<1>13. \A j \in 1..(Len(s) - 1) : RemoveAt(s, i)[j] = s[Before(i, j)]
  BY <1>5, <1>8
<1> QED
  BY <1>11, <1>12, <1>13

LEMMA ReplaceFacts ==
    ASSUME NEW s, IsSequence(s), NEW i \in 1..Len(s), NEW x
    PROVE  /\ IsSequence([s EXCEPT ![i] = x]) /\ Len([s EXCEPT ![i] = x]) = Len(s)
           /\ \A j \in 1..Len(s) : [s EXCEPT ![i] = x][j] = IF j = i THEN x ELSE s[j]
<1> DEFINE S == {s[k] : k \in 1..Len(s)} \cup {x}
<1>1. s \in Seq(S) /\ x \in S
  BY SeqDef DEF IsSequence
<1> HIDE DEF S
<1>2. /\ [s EXCEPT ![i] = x] \in Seq(S) /\ Len([s EXCEPT ![i] = x]) = Len(s)
      /\ \A j \in 1..Len(s) : [s EXCEPT ![i] = x][j] = IF j = i THEN x ELSE s[j]
  BY <1>1, ExceptSeq
<1>3. IsSequence([s EXCEPT ![i] = x])
  BY <1>2, LenProperties DEF IsSequence
<1> QED
  BY <1>2, <1>3

-----------------------------------------------------------------------------
(* A table as the readers keep it, and its columns.  The columns that are  *)
(* listed are those of a function from names to positions, each once.      *)

IsTable(t) ==
    t = [schema |-> t.schema, name |-> t.name, replica |-> t.replica, pos |-> t.pos, cols |-> t.cols]

SameTable(t, u) ==
    IsTable(u) /\ u.schema = t.schema /\ u.name = t.name /\ u.replica = t.replica

Lists(cols, f) ==
    /\ IsSequence(cols)
    /\ \A i \in 1..Len(cols) : cols[i] = [name |-> cols[i].name, pos |-> f[cols[i].name]]
    /\ \A i, j \in 1..Len(cols) : cols[i].name = cols[j].name => i = j
    /\ \A c : c \in DOMAIN f <=> \E i \in 1..Len(cols) : cols[i].name = c

(* ColumnAt is the first column of a name, 0 when there is none.           *)
LEMMA ColumnAtFacts ==
    ASSUME NEW t, IsSequence(t.cols), NEW n
    PROVE  /\ ColumnAt(t, n) \in 0..Len(t.cols)
           /\ ColumnAt(t, n) # 0 => t.cols[ColumnAt(t, n)].name = n
           /\ ColumnAt(t, n) = 0 => \A i \in 1..Len(t.cols) : t.cols[i].name # n
<1> DEFINE I == {i \in 1..Len(t.cols) : t.cols[i].name = n}
<1>1. ColumnAt(t, n) = IF I # {} THEN Min(I) ELSE 0
  BY DEF ColumnAt, SelectInSeq
<1>2. Len(t.cols) \in Nat /\ I \in SUBSET (1..Len(t.cols))
  BY DEF IsSequence
<1>3. I # {} => Min(I) \in I
  <2> HIDE DEF I
  <2> QED
    BY <1>2, LeastIndex
<1> QED
  BY <1>1, <1>2, <1>3

(* Editing its columns leaves the rest of a table as it is.                *)
LEMMA EditsKeepTable ==
    ASSUME NEW t, IsTable(t), NEW n, NEW to, NEW at
    PROVE  /\ SameTable(t, AddColumn(t, n, at))
           /\ SameTable(t, RemoveColumn(t, n))
           /\ SameTable(t, RenameColumn(t, n, to, at))
<1> DEFINE With(x) == [schema |-> t.schema, name |-> t.name, replica |-> t.replica, pos |-> t.pos, cols |-> x]
<1>1. \A x : [t EXCEPT !.cols = x] = With(x)
  BY DEF IsTable
<1>2. \A x : SameTable(t, With(x))
  BY DEF SameTable, IsTable
<1>3. SameTable(t, t)
  BY DEF SameTable
<1>4. \A x : SameTable(t, [t EXCEPT !.cols = x])
  BY <1>1, <1>2
<1> HIDE DEF With
<1>5. AddColumn(t, n, at) = t \/ AddColumn(t, n, at) = [t EXCEPT !.cols = Append(t.cols, [name |-> n, pos |-> at])]
  BY DEF AddColumn
<1>6. RemoveColumn(t, n) = t \/ RemoveColumn(t, n) = [t EXCEPT !.cols = RemoveAt(t.cols, ColumnAt(t, n))]
  BY DEF RemoveColumn
<1>7. \/ RenameColumn(t, n, to, at) = t
      \/ RenameColumn(t, n, to, at)
           = [t EXCEPT !.cols = [t.cols EXCEPT ![ColumnAt(t, n)] = [name |-> to, pos |-> at]]]
  BY DEF RenameColumn
<1>8. SameTable(t, AddColumn(t, n, at))
  BY <1>3, <1>4, <1>5
<1>9. SameTable(t, RemoveColumn(t, n))
  BY <1>3, <1>4, <1>6
<1>10. SameTable(t, RenameColumn(t, n, to, at))
  BY <1>3, <1>4, <1>7
<1> QED
  BY <1>8, <1>9, <1>10

(* A column that is not there is added at the end; one that is stays.      *)
LEMMA AddLists ==
    ASSUME NEW t, IsTable(t), NEW f, Lists(t.cols, f), NEW n, NEW at
    PROVE  Lists(AddColumn(t, n, at).cols,
                 [c \in DOMAIN f \cup {n} |-> IF c \in DOMAIN f THEN f[c] ELSE at])
<1> DEFINE g == [c \in DOMAIN f \cup {n} |-> IF c \in DOMAIN f THEN f[c] ELSE at]
           x == [name |-> n, pos |-> at]
           old == t.cols
           new == Append(old, x)
<1>1. IsSequence(old)
  BY DEF Lists
<1>2. CASE n \in DOMAIN f
  <2>1. ColumnAt(t, n) # 0
    BY <1>1, <1>2, ColumnAtFacts DEF Lists
  <2>2. AddColumn(t, n, at) = t
    BY <2>1 DEF AddColumn
  <2>3. DOMAIN g = DOMAIN f /\ \A c \in DOMAIN f : g[c] = f[c]
    BY <1>2
  <2> HIDE DEF g
  <2>4. Lists(t.cols, g)
    BY <2>3 DEF Lists
  <2> QED
    BY <2>2, <2>4 DEF g
<1>3. CASE n \notin DOMAIN f
  <2>1. ColumnAt(t, n) = 0
    BY <1>1, <1>3, ColumnAtFacts DEF Lists
  <2>2. AddColumn(t, n, at).cols = new
    BY <2>1 DEF AddColumn, IsTable
  <2>3. /\ IsSequence(new) /\ Len(new) = Len(old) + 1
        /\ \A i \in 1..Len(old) : new[i] = old[i]
        /\ new[Len(old) + 1] = x
    BY <1>1, AppendFacts
  <2>4. Len(old) \in Nat
    BY <1>1 DEF IsSequence
  <2>5. g[n] = at /\ DOMAIN g = DOMAIN f \cup {n} /\ \A c \in DOMAIN f : g[c] = f[c]
    BY <1>3
  <2>6. x.name = n /\ x = [name |-> x.name, pos |-> at]
    OBVIOUS
  <2>7. \A i \in 1..Len(old) : old[i].name \in DOMAIN f
    BY DEF Lists
  <2> HIDE DEF g, x, new, old
  <2>8. \A i \in 1..Len(new) : i \in 1..Len(old) \/ i = Len(old) + 1
    BY <2>3, <2>4
  <2>9. \A i \in 1..Len(old) : i \in 1..Len(new) /\ i # Len(old) + 1
    BY <2>3, <2>4
  <2>10. Len(old) + 1 \in 1..Len(new)
    BY <2>3, <2>4
  <2>11. \A i \in 1..Len(old) : old[i] = [name |-> old[i].name, pos |-> f[old[i].name]]
    BY DEF Lists, old
  <2>12. \A i \in 1..Len(new) : new[i] = [name |-> new[i].name, pos |-> g[new[i].name]]
    BY <2>3, <2>5, <2>6, <2>7, <2>8, <2>11
  <2>13. \A i, j \in 1..Len(old) : old[i].name = old[j].name => i = j
    BY DEF Lists, old
  <2>14. \A i, j \in 1..Len(new) : new[i].name = new[j].name => i = j
    BY <2>3, <2>6, <2>7, <2>8, <2>13, <1>3
  <2>15. \A c : c \in DOMAIN f <=> \E i \in 1..Len(old) : old[i].name = c
    BY DEF Lists, old
  <2>16. ASSUME NEW c PROVE c \in DOMAIN g <=> \E i \in 1..Len(new) : new[i].name = c
    <3>1. ASSUME c \in DOMAIN g PROVE \E i \in 1..Len(new) : new[i].name = c
      BY <3>1, <2>3, <2>5, <2>6, <2>9, <2>10, <2>15
    <3>2. ASSUME NEW i \in 1..Len(new), new[i].name = c PROVE c \in DOMAIN g
      BY <3>2, <2>3, <2>5, <2>6, <2>7, <2>8
    <3> QED
      BY <3>1, <3>2
  <2>17. Lists(new, g)
    BY <2>3, <2>12, <2>14, <2>16 DEF Lists
  <2> QED
    BY <2>2, <2>17 DEF g
<1> QED
  BY <1>2, <1>3

(* A column that is there is removed; the others stay.                     *)
LEMMA RemoveLists ==
    ASSUME NEW t, IsTable(t), NEW f, Lists(t.cols, f), NEW n
    PROVE  Lists(RemoveColumn(t, n).cols, [c \in DOMAIN f \ {n} |-> f[c]])
<1> DEFINE g == [c \in DOMAIN f \ {n} |-> f[c]]
           old == t.cols
           k == ColumnAt(t, n)
           new == RemoveAt(old, k)
<1>1. IsSequence(old) /\ Len(old) \in Nat
  BY DEF Lists, IsSequence
<1>2. CASE n \notin DOMAIN f
  <2>1. k = 0
    BY <1>1, <1>2, ColumnAtFacts DEF Lists
  <2>2. RemoveColumn(t, n) = t
    BY <2>1 DEF RemoveColumn
  <2>3. DOMAIN g = DOMAIN f /\ \A c \in DOMAIN f : g[c] = f[c]
    BY <1>2
  <2> HIDE DEF g
  <2>4. Lists(t.cols, g)
    BY <2>3 DEF Lists
  <2> QED
    BY <2>2, <2>4 DEF g
<1>3. CASE n \in DOMAIN f
  <2>1. k \in 1..Len(old) /\ old[k].name = n
    BY <1>1, <1>3, ColumnAtFacts DEF Lists
  <2>2. RemoveColumn(t, n).cols = new
    BY <2>1 DEF RemoveColumn, IsTable
  <2>3. /\ IsSequence(new)
        /\ \A j \in 1..Len(new) :
              Before(k, j) \in 1..Len(old) /\ Before(k, j) # k /\ new[j] = old[Before(k, j)]
        /\ \A i \in 1..Len(old) : i # k => \E j \in 1..Len(new) : Before(k, j) = i
        /\ \A i, j \in 1..Len(new) : Before(k, i) = Before(k, j) => i = j
    BY <1>1, <2>1, RemoveFacts
  <2>4. /\ \A i, j \in 1..Len(old) : old[i].name = old[j].name => i = j
        /\ \A c : c \in DOMAIN f <=> \E i \in 1..Len(old) : old[i].name = c
        /\ \A i \in 1..Len(old) : old[i] = [name |-> old[i].name, pos |-> f[old[i].name]]
    BY DEF Lists
  <2>5. DOMAIN g = DOMAIN f \ {n} /\ \A c \in DOMAIN f : c # n => g[c] = f[c]
    OBVIOUS
  <2> HIDE DEF g, old, k, new
  <2>6. \A i \in 1..Len(new) : new[i].name # n /\ new[i].name \in DOMAIN f
    BY <2>1, <2>3, <2>4
  <2>7. ASSUME NEW i \in 1..Len(new) PROVE new[i] = [name |-> new[i].name, pos |-> g[new[i].name]]
    <3>1. new[i] = [name |-> new[i].name, pos |-> f[new[i].name]]
      BY <2>3, <2>4
    <3>2. g[new[i].name] = f[new[i].name]
      BY <2>5, <2>6
    <3> QED
      BY <3>1, <3>2
  <2>8. \A i, j \in 1..Len(new) : new[i].name = new[j].name => i = j
    BY <2>3, <2>4
  <2>9. ASSUME NEW c PROVE c \in DOMAIN g <=> \E i \in 1..Len(new) : new[i].name = c
    <3>1. ASSUME c \in DOMAIN g PROVE \E i \in 1..Len(new) : new[i].name = c
      <4>1. PICK i \in 1..Len(old) : old[i].name = c
        BY <3>1, <2>4, <2>5
      <4>2. i # k
        BY <4>1, <3>1, <2>1, <2>5
      <4> QED
        BY <4>1, <4>2, <2>3
    <3>2. ASSUME NEW i \in 1..Len(new), new[i].name = c PROVE c \in DOMAIN g
      BY <3>2, <2>5, <2>6
    <3> QED
      BY <3>1, <3>2
  <2>10. Lists(new, g)
    BY <2>3, <2>7, <2>8, <2>9 DEF Lists
  <2> QED
    BY <2>2, <2>10 DEF g
<1> QED
  BY <1>2, <1>3

(* A column that is there gets a name no other column has.                 *)
LEMMA RenameLists ==
    ASSUME NEW t, IsTable(t), NEW f, Lists(t.cols, f), NEW n, n \in DOMAIN f,
           NEW to, to = n \/ to \notin DOMAIN f, NEW at
    PROVE  Lists(RenameColumn(t, n, to, at).cols,
                 [c \in (DOMAIN f \ {n}) \cup {to} |-> IF c = to THEN at ELSE f[c]])
<1> DEFINE g == [c \in (DOMAIN f \ {n}) \cup {to} |-> IF c = to THEN at ELSE f[c]]
           old == t.cols
           k == ColumnAt(t, n)
           x == [name |-> to, pos |-> at]
           new == [old EXCEPT ![k] = x]
<1>1. IsSequence(old) /\ Len(old) \in Nat
  BY DEF Lists, IsSequence
<1>2. k \in 1..Len(old) /\ old[k].name = n
  BY <1>1, ColumnAtFacts DEF Lists
<1>3. RenameColumn(t, n, to, at).cols = new
  BY <1>2 DEF RenameColumn, IsTable
<1>4. /\ IsSequence(new) /\ Len(new) = Len(old)
      /\ \A j \in 1..Len(old) : new[j] = IF j = k THEN x ELSE old[j]
  BY <1>1, <1>2, ReplaceFacts
<1>5. /\ \A i, j \in 1..Len(old) : old[i].name = old[j].name => i = j
      /\ \A c : c \in DOMAIN f <=> \E i \in 1..Len(old) : old[i].name = c
      /\ \A i \in 1..Len(old) : old[i] = [name |-> old[i].name, pos |-> f[old[i].name]]
  BY DEF Lists
<1>6. /\ DOMAIN g = (DOMAIN f \ {n}) \cup {to} /\ g[to] = at
      /\ \A c \in DOMAIN f : c # n /\ c # to => g[c] = f[c]
  OBVIOUS
<1>7. x.name = to /\ x = [name |-> x.name, pos |-> at]
  OBVIOUS
<1> HIDE DEF g, old, k, x, new
<1>8. \A i \in 1..Len(old) : i # k => old[i].name # n /\ old[i].name \in DOMAIN f /\ old[i].name # to
  BY <1>2, <1>5
<1>9. \A i \in 1..Len(new) : new[i] = [name |-> new[i].name, pos |-> g[new[i].name]]
  BY <1>4, <1>5, <1>6, <1>7, <1>8
<1>10. \A i, j \in 1..Len(new) : new[i].name = new[j].name => i = j
  BY <1>4, <1>5, <1>7, <1>8
<1>11. ASSUME NEW c PROVE c \in DOMAIN g <=> \E i \in 1..Len(new) : new[i].name = c
  <2>1. ASSUME c \in DOMAIN g, c # to PROVE \E i \in 1..Len(new) : new[i].name = c
    <3>1. PICK i \in 1..Len(old) : old[i].name = c
      BY <2>1, <1>5, <1>6
    <3>2. i # k
      BY <3>1, <2>1, <1>2, <1>6
    <3> QED
      BY <3>1, <3>2, <1>4
  <2>2. k \in 1..Len(new) /\ new[k].name = to
    BY <1>2, <1>4, <1>7
  <2>3. ASSUME NEW i \in 1..Len(new), new[i].name = c PROVE c \in DOMAIN g
    BY <2>3, <1>4, <1>6, <1>7, <1>8
  <2> QED
    BY <2>1, <2>2, <2>3
<1>12. Lists(new, g)
  BY <1>4, <1>9, <1>10, <1>11 DEF Lists
<1> QED
  BY <1>3, <1>12 DEF g

(* Nothing is removed or renamed when there is no column of the name.      *)
LEMMA AbsentStays ==
    ASSUME NEW t, NEW f, Lists(t.cols, f), NEW n, n \notin DOMAIN f, NEW to, NEW at
    PROVE  RemoveColumn(t, n) = t /\ RenameColumn(t, n, to, at) = t
<1>1. ColumnAt(t, n) = 0
  BY ColumnAtFacts DEF Lists
<1> QED
  BY <1>1 DEF RemoveColumn, RenameColumn

(* The columns after each item of a list exist, the last ones being those  *)
(* ColumnsListed gives.                                                    *)
LEMMA ColumnsFollow ==
    ASSUME NEW items, Len(items) \in Nat, NEW keywords, NEW at
    PROVE  \E cols : /\ cols = [k \in 0..Len(items) |->
                                  IF k = 0 THEN <<>>
                                  ELSE IF items[k].kind \in keywords THEN cols[k - 1]
                                  ELSE Append(cols[k - 1], [name |-> items[k].name, pos |-> at])]
                     /\ ColumnsListed(items, keywords, at) = cols[Len(items)]
<1> DEFINE Step(f, k) == IF k = 0 THEN <<>>
                         ELSE IF items[k].kind \in keywords THEN f[k - 1]
                         ELSE Append(f[k - 1], [name |-> items[k].name, pos |-> at])
           IsTrace(f, n) == f = [k \in 0..n |-> Step(f, k)]
           S == {n \in Nat : \E f : IsTrace(f, n)}
           N == Len(items)
<1>1. 0 \in S
  <2> DEFINE f == [k \in 0..0 |-> <<>>]
  <2>1. IsTrace(f, 0)
    OBVIOUS
  <2> QED
    BY <2>1
<1>2. ASSUME NEW n \in Nat, n \in S PROVE n + 1 \in S
  <2>1. PICK f : IsTrace(f, n)
    BY <1>2
  <2> DEFINE g == [k \in 0..(n + 1) |-> IF k = n + 1 THEN Step(f, n + 1) ELSE f[k]]
  <2>2. \A k \in 0..(n + 1) : k # 0 => k - 1 \in 0..n /\ k - 1 \in 0..(n + 1) /\ k - 1 # n + 1
    OBVIOUS
  <2>3. \A k \in 0..(n + 1) : k # 0 => g[k - 1] = f[k - 1]
    BY <2>2
  <2>4. \A k \in 0..(n + 1) : Step(g, k) = Step(f, k)
    BY <2>3
  <2>5. \A k \in 0..n : f[k] = Step(f, k)
    BY <2>1
  <2>6. \A k \in 0..(n + 1) : g[k] = Step(g, k)
    BY <2>4, <2>5
  <2>7. IsTrace(g, n + 1)
    BY <2>6
  <2>8. \E x : IsTrace(x, n + 1)
    BY <2>7, Zenon
  <2> QED
    BY <2>8
<1>3. N \in S
  <2> HIDE DEF S
  <2> QED
    BY <1>1, <1>2, SetInduction
<1>4. PICK f : IsTrace(f, N)
  BY <1>3
<1> DEFINE cols == CHOOSE x : IsTrace(x, N)
<1>5. IsTrace(cols, N)
  BY <1>4
<1>6. ColumnsListed(items, keywords, at) = cols[N]
  BY DEF ColumnsListed
<1> QED
  BY <1>5, <1>6

(* A column list whose columns have different names is read as it stands.  *)
LEMMA ListRead ==
    ASSUME NEW items, IsSequence(items), NEW keywords, NEW at,
           \A j, k \in {i \in 1..Len(items) : items[i].kind \notin keywords} :
               items[j].name = items[k].name => j = k
    PROVE  Lists(ColumnsListed(items, keywords, at),
                 [c \in {items[k].name : k \in {i \in 1..Len(items) : items[i].kind \notin keywords}} |-> at])
<1> DEFINE N == Len(items)
           Kept(n) == {k \in 1..n : items[k].kind \notin keywords}
           Names(n) == {items[k].name : k \in Kept(n)}
           F(n) == [c \in Names(n) |-> at]
<1>1. N \in Nat
  BY DEF IsSequence
<1>2. PICK cols : /\ cols = [k \in 0..N |->
                                IF k = 0 THEN <<>>
                                ELSE IF items[k].kind \in keywords THEN cols[k - 1]
                                ELSE Append(cols[k - 1], [name |-> items[k].name, pos |-> at])]
                  /\ ColumnsListed(items, keywords, at) = cols[N]
  BY <1>1, ColumnsFollow
<1> DEFINE S == {n \in 0..N : Lists(cols[n], F(n))}
<1>3. 0 \in S
  <2>1. cols[0] = <<>>
    BY <1>1, <1>2
  <2>2. F(0) = [c \in {} |-> at]
    OBVIOUS
  <2>3. Lists(<<>>, [c \in {} |-> at])
    BY DEF Lists, IsSequence
  <2>4. Lists(cols[0], F(0))
    BY <2>1, <2>2, <2>3, Zenon
  <2> QED
    BY <1>1, <2>4
<1>4. ASSUME NEW n \in 0..N, n < N, n \in S PROVE n + 1 \in S
  <2>1. n + 1 \in 0..N /\ n + 1 \in 1..N /\ n + 1 # 0 /\ (n + 1) - 1 = n
    BY <1>1, <1>4
  <2>2. cols[n + 1] = IF items[n + 1].kind \in keywords THEN cols[n]
                      ELSE Append(cols[n], [name |-> items[n + 1].name, pos |-> at])
    <3>1. cols[n + 1] = IF items[n + 1].kind \in keywords THEN cols[(n + 1) - 1]
                        ELSE Append(cols[(n + 1) - 1], [name |-> items[n + 1].name, pos |-> at])
      BY <1>2, <2>1
    <3> QED
      BY <3>1, <2>1
  <2>3. Lists(cols[n], F(n))
    BY <1>4
  <2>4. Kept(n + 1) = IF items[n + 1].kind \in keywords THEN Kept(n) ELSE Kept(n) \cup {n + 1}
    BY <2>1
  <2>5. CASE items[n + 1].kind \in keywords
    <3>1. F(n + 1) = F(n)
      BY <2>4, <2>5
    <3> QED
      BY <2>1, <2>2, <2>3, <2>5, <3>1
  <2>6. CASE items[n + 1].kind \notin keywords
    <3> DEFINE new == items[n + 1].name
               x == [name |-> new, pos |-> at]
               t == [schema |-> "", name |-> "", replica |-> "", pos |-> at, cols |-> cols[n]]
    <3>1. \A k \in Kept(n) : k \in Kept(N) /\ k # n + 1
      BY <1>1, <2>1
    <3>2. n + 1 \in Kept(N)
      BY <2>1, <2>6
    <3>3. new \notin Names(n)
      BY <3>1, <3>2
    <3>4. Names(n + 1) = Names(n) \cup {new}
      BY <2>4, <2>6, Zenon
    <3>5. IsTable(t) /\ t.cols = cols[n]
      BY DEF IsTable
    <3>6. DOMAIN F(n) = Names(n) /\ \A c \in Names(n) : F(n)[c] = at
      OBVIOUS
    <3>7. F(n + 1) = [c \in Names(n) \cup {new} |-> at]
      BY <3>4
    <3> HIDE DEF t, new, Names, F
    <3> DEFINE f == F(n)
    <3>8. Lists(t.cols, f) /\ DOMAIN f = Names(n) /\ \A c \in Names(n) : f[c] = at
      BY <2>3, <3>5, <3>6
    <3> HIDE DEF f
    <3>9. Lists(AddColumn(t, new, at).cols, [c \in DOMAIN f \cup {new} |-> IF c \in DOMAIN f THEN f[c] ELSE at])
      BY <3>5, <3>8, AddLists
    <3>10. [c \in DOMAIN f \cup {new} |-> IF c \in DOMAIN f THEN f[c] ELSE at] = F(n + 1)
      BY <3>7, <3>8
    <3>11. ColumnAt(t, new) = 0
      BY <2>3, <3>3, <3>5, <3>6, ColumnAtFacts DEF Lists
    <3>12. AddColumn(t, new, at) = [t EXCEPT !.cols = Append(t.cols, [name |-> new, pos |-> at])]
      BY <3>11 DEF AddColumn
    <3>13. AddColumn(t, new, at).cols = Append(cols[n], [name |-> new, pos |-> at])
      BY <3>12, <3>5 DEF IsTable
    <3>14. cols[n + 1] = Append(cols[n], [name |-> new, pos |-> at])
      BY <2>2, <2>6 DEF new
    <3> QED
      BY <2>1, <3>9, <3>10, <3>13, <3>14
  <2> QED
    BY <2>5, <2>6
<1>5. N \in S
  <2> HIDE DEF S
  <2> QED
    BY <1>1, <1>3, <1>4, BoundedInduction
<1> QED
  BY <1>2, <1>5

-----------------------------------------------------------------------------
(* A list of tables beside the server's catalog: every table of the list   *)
(* is in the catalog, once; every table whose columns the files list is in *)
(* the list, with its columns and where each was given its name.           *)

IsEntry(e) == e = [cols |-> e.cols, listed |-> e.listed, replica |-> e.replica] /\ e.listed \in BOOLEAN

Fits(t, e) == e.listed => Lists(t.cols, e.cols) /\ t.replica \in {"", e.replica}

IsCatalog(c) ==
    c = [q \in DOMAIN c |-> c[q]] /\ \A q \in DOMAIN c : IsEntry(c[q])

OncePerName(ts) == \A i, j \in 1..Len(ts) : Qualified(ts[i]) = Qualified(ts[j]) => i = j

Known(ts, q) == \E i \in 1..Len(ts) : Qualified(ts[i]) = q

Matches(ts, c) ==
    /\ IsCatalog(c) /\ IsSequence(ts) /\ OncePerName(ts)
    /\ \A i \in 1..Len(ts) :
          IsTable(ts[i]) /\ Qualified(ts[i]) \in DOMAIN c /\ Fits(ts[i], c[Qualified(ts[i])])
    /\ \A q \in DOMAIN c : c[q].listed => Known(ts, q)

(* SourceTable is the first table of a name, 0 when there is none.         *)
LEMMA SourceTableFacts ==
    ASSUME NEW ts, IsSequence(ts), NEW schema, schema # "", NEW name
    PROVE  /\ SourceTable(ts, schema, name) \in 0..Len(ts)
           /\ SourceTable(ts, schema, name) # 0
                => Qualified(ts[SourceTable(ts, schema, name)]) = <<schema, name>>
           /\ SourceTable(ts, schema, name) = 0 => ~Known(ts, <<schema, name>>)
<1> DEFINE I == {i \in 1..Len(ts) : ts[i].name = name /\ schema \in {"", ts[i].schema}}
<1>1. SourceTable(ts, schema, name) = IF I # {} THEN Min(I) ELSE 0
  BY DEF SourceTable, SelectInSeq
<1>2. Len(ts) \in Nat /\ I \in SUBSET (1..Len(ts))
  BY DEF IsSequence
<1>3. I # {} => Min(I) \in I
  <2> HIDE DEF I
  <2> QED
    BY <1>2, LeastIndex
<1>4. \A i \in 1..Len(ts) : i \in I <=> Qualified(ts[i]) = <<schema, name>>
  BY DEF Qualified
<1>5. I \subseteq 1..Len(ts)
  OBVIOUS
<1>6. 0 \notin 1..Len(ts) /\ 0 \in 0..Len(ts) /\ 1..Len(ts) \subseteq 0..Len(ts)
  BY <1>2, Indices
<1> DEFINE m == SourceTable(ts, schema, name)
<1>7. (I # {} /\ m \in I) \/ (I = {} /\ m = 0)
  BY <1>1, <1>3
<1> HIDE DEF I, m
<1>8. m \in 0..Len(ts)
  BY <1>5, <1>6, <1>7
<1>9. m # 0 => Qualified(ts[m]) = <<schema, name>>
  BY <1>4, <1>5, <1>7
<1>10. m = 0 => ~Known(ts, <<schema, name>>)
  <2>1. m = 0 => I = {}
    BY <1>5, <1>6, <1>7
  <2> QED
    BY <2>1, <1>4 DEF Known
<1> QED
  BY <1>8, <1>9, <1>10 DEF m

(* A new table, of a name the list does not have: the server has created   *)
(* it as well, or had it already without the files listing its columns.    *)
LEMMA MatchesAppend ==
    ASSUME NEW ts, NEW c, Matches(ts, c), NEW t, IsTable(t), ~Known(ts, Qualified(t)),
           NEW d, NEW e,
           \/ Qualified(t) \in DOMAIN c /\ d = c
           \/ /\ Qualified(t) \notin DOMAIN c /\ d = Put(c, Qualified(t), e)
              /\ IsEntry(e) /\ Fits(t, e)
    PROVE  Matches(Append(ts, t), d)
<1> DEFINE q == Qualified(t)
           us == Append(ts, t)
           n == Len(ts)
<1>1. /\ IsSequence(us) /\ Len(us) = n + 1
      /\ \A i \in 1..n : us[i] = ts[i]
      /\ us[n + 1] = t
  BY AppendFacts DEF Matches
<1>2. n \in Nat
  BY DEF Matches, IsSequence
<1>3. /\ \A i \in 1..Len(us) : i \in 1..n \/ i = n + 1
      /\ \A i \in 1..n : i \in 1..Len(us) /\ i # n + 1
      /\ n + 1 \in 1..Len(us)
  BY <1>1, <1>2
<1>4. \A i \in 1..n : Qualified(ts[i]) # q
  BY DEF Known
<1>5. q \in DOMAIN c => ~c[q].listed
  BY DEF Matches, IsCatalog, IsEntry
<1>6. /\ IsCatalog(d) /\ q \in DOMAIN d /\ Fits(t, d[q])
      /\ \A p \in DOMAIN c : p # q => p \in DOMAIN d /\ d[p] = c[p]
      /\ \A p \in DOMAIN d : p # q => p \in DOMAIN c
  <2>1. CASE q \in DOMAIN c /\ d = c
    BY <2>1, <1>5 DEF Matches, Fits
  <2>2. CASE q \notin DOMAIN c /\ d = Put(c, q, e) /\ IsEntry(e) /\ Fits(t, e)
    <3>1. d = [p \in DOMAIN c \cup {q} |-> IF p = q THEN e ELSE c[p]]
      BY <2>2 DEF Put
    <3>2. d[q] = e /\ DOMAIN d = DOMAIN c \cup {q} /\ \A p \in DOMAIN c : p # q => d[p] = c[p]
      BY <3>1
    <3>3. d = [p \in DOMAIN d |-> d[p]]
      BY <3>1
    <3>4. \A p \in DOMAIN d : IsEntry(d[p])
      BY <2>2, <3>2 DEF Matches, IsCatalog
    <3> QED
      BY <2>2, <3>2, <3>3, <3>4 DEF IsCatalog
  <2> QED
    BY <2>1, <2>2
<1>7. /\ OncePerName(ts)
      /\ \A i \in 1..n :
            IsTable(ts[i]) /\ Qualified(ts[i]) \in DOMAIN c /\ Fits(ts[i], c[Qualified(ts[i])])
      /\ \A p \in DOMAIN c : c[p].listed => Known(ts, p)
  BY DEF Matches
<1> HIDE DEF q, us, n
<1>8. OncePerName(us)
  <2>1. Qualified(us[n + 1]) = q
    BY <1>1 DEF q
  <2>2. \A i, j \in 1..n : Qualified(ts[i]) = Qualified(ts[j]) => i = j
    BY <1>7 DEF OncePerName, n
  <2> QED
    BY <1>1, <1>3, <1>4, <2>1, <2>2 DEF OncePerName
<1>9. ASSUME NEW i \in 1..Len(us)
      PROVE  IsTable(us[i]) /\ Qualified(us[i]) \in DOMAIN d /\ Fits(us[i], d[Qualified(us[i])])
  <2>1. CASE i = n + 1
    BY <2>1, <1>1, <1>6 DEF q
  <2>2. CASE i \in 1..n
    BY <2>2, <1>1, <1>4, <1>6, <1>7
  <2> QED
    BY <2>1, <2>2, <1>3
<1>10. ASSUME NEW p \in DOMAIN d, d[p].listed PROVE Known(us, p)
  <2>1. CASE p = q
    BY <2>1, <1>1, <1>3 DEF Known, q
  <2>2. CASE p # q
    <3>1. Known(ts, p)
      BY <2>2, <1>6, <1>7, <1>10
    <3> QED
      BY <3>1, <1>1, <1>3 DEF Known, n
  <2> QED
    BY <2>1, <2>2
<1>11. Matches(us, d)
  BY <1>1, <1>6, <1>8, <1>9, <1>10 DEF Matches
<1> QED
  BY <1>11 DEF us

(* A table of the list is edited, and renamed to a name that is free; the  *)
(* server has done the same to its own.                                    *)
LEMMA MatchesReplace ==
    ASSUME NEW ts, NEW c, Matches(ts, c), NEW i \in 1..Len(ts), NEW u, IsTable(u),
           Qualified(u) = Qualified(ts[i]) \/ Qualified(u) \notin DOMAIN c,
           NEW e, IsEntry(e), Fits(u, e)
    PROVE  Matches([ts EXCEPT ![i] = u], Put(Without(c, {Qualified(ts[i])}), Qualified(u), e))
<1> DEFINE q == Qualified(ts[i])
           p == Qualified(u)
           us == [ts EXCEPT ![i] = u]
           d == Put(Without(c, {q}), p, e)
<1>1. /\ IsSequence(us) /\ Len(us) = Len(ts)
      /\ \A j \in 1..Len(ts) : us[j] = IF j = i THEN u ELSE ts[j]
  <2>1. IsSequence(ts) /\ i \in 1..Len(ts)
    BY DEF Matches
  <2> HIDE DEF p, q, d
  <2>2. IsSequence(us)
    BY <2>1, ReplaceFacts
  <2>3. Len(us) = Len(ts)
    BY <2>1, ReplaceFacts
  <2>4. \A j \in 1..Len(ts) : us[j] = IF j = i THEN u ELSE ts[j]
    BY <2>1, ReplaceFacts
  <2> QED
    BY <2>2, <2>3, <2>4
<1>2. /\ \A j, k \in 1..Len(ts) : Qualified(ts[j]) = Qualified(ts[k]) => j = k
      /\ \A j \in 1..Len(ts) :
            IsTable(ts[j]) /\ Qualified(ts[j]) \in DOMAIN c /\ Fits(ts[j], c[Qualified(ts[j])])
      /\ \A x \in DOMAIN c : c[x].listed => Known(ts, x)
      /\ \A x \in DOMAIN c : IsEntry(c[x])
  BY DEF Matches, OncePerName, IsCatalog
<1>3. d = [x \in (DOMAIN c \ {q}) \cup {p} |-> IF x = p THEN e ELSE c[x]]
  BY DEF Put, Without
<1>4. /\ DOMAIN d = (DOMAIN c \ {q}) \cup {p} /\ d[p] = e
      /\ \A x \in DOMAIN c : x # q /\ x # p => d[x] = c[x]
  BY <1>3
<1>5. d = [x \in DOMAIN d |-> d[x]]
  BY <1>3
<1>6. p = q \/ p \notin DOMAIN c
  OBVIOUS
<1>7. q \in DOMAIN c
  BY <1>2
<1> HIDE DEF d, us
<1>8. IsCatalog(d)
  BY <1>2, <1>4, <1>5 DEF IsCatalog
<1>9. \A j \in 1..Len(ts) : j # i => Qualified(ts[j]) # q /\ Qualified(ts[j]) # p
  BY <1>2, <1>6
<1>10. us[i] = u /\ \A j \in 1..Len(ts) : j # i => us[j] = ts[j]
  BY <1>1
<1>11. OncePerName(us)
  <2>1. Qualified(us[i]) = p /\ \A j \in 1..Len(ts) : j # i => Qualified(us[j]) # p
    BY <1>9, <1>10
  <2> HIDE DEF p, q
  <2> QED
    BY <1>1, <1>2, <1>10, <2>1 DEF OncePerName
<1>12. ASSUME NEW j \in 1..Len(us)
       PROVE  IsTable(us[j]) /\ Qualified(us[j]) \in DOMAIN d /\ Fits(us[j], d[Qualified(us[j])])
  <2>1. CASE j = i
    BY <2>1, <1>4, <1>10
  <2>2. CASE j # i
    BY <2>2, <1>1, <1>2, <1>4, <1>9, <1>10
  <2> QED
    BY <2>1, <2>2
<1>13. ASSUME NEW x \in DOMAIN d, d[x].listed PROVE Known(us, x)
  <2>1. CASE x = p
    BY <2>1, <1>1, <1>10 DEF Known
  <2>2. CASE x # p
    <3>1. x \in DOMAIN c /\ x # q /\ c[x].listed
      BY <2>2, <1>4, <1>13
    <3>2. PICK j \in 1..Len(ts) : Qualified(ts[j]) = x
      BY <3>1, <1>2 DEF Known
    <3>3. j # i
      BY <3>1, <3>2
    <3>4. j \in 1..Len(us) /\ Qualified(us[j]) = x
      BY <3>2, <3>3, <1>1, <1>10
    <3> QED
      BY <3>4 DEF Known
  <2> QED
    BY <2>1, <2>2
<1>14. Matches(us, d)
  BY <1>1, <1>8, <1>11, <1>12, <1>13 DEF Matches
<1> QED
  BY <1>14 DEF us, d

(* The server has made, or changed, a table that is not in the list, nor   *)
(* has to be.                                                              *)
LEMMA MatchesPut ==
    ASSUME NEW ts, NEW c, Matches(ts, c), NEW q, ~Known(ts, q),
           NEW e, IsEntry(e), ~e.listed
    PROVE  Matches(ts, Put(c, q, e))
<1> DEFINE d == Put(c, q, e)
<1>1. d = [p \in DOMAIN c \cup {q} |-> IF p = q THEN e ELSE c[p]]
  BY DEF Put
<1>2. d[q] = e /\ DOMAIN d = DOMAIN c \cup {q} /\ \A p \in DOMAIN c : p # q => d[p] = c[p]
  BY <1>1
<1>3. d = [p \in DOMAIN d |-> d[p]]
  BY <1>1
<1> HIDE DEF d
<1>4. IsCatalog(d)
  BY <1>2, <1>3 DEF Matches, IsCatalog
<1>5. \A i \in 1..Len(ts) : Qualified(ts[i]) # q
  BY DEF Known
<1>6. \A i \in 1..Len(ts) :
         IsTable(ts[i]) /\ Qualified(ts[i]) \in DOMAIN d /\ Fits(ts[i], d[Qualified(ts[i])])
  BY <1>2, <1>5 DEF Matches
<1>7. \A p \in DOMAIN d : d[p].listed => Known(ts, p)
  BY <1>2 DEF Matches
<1>8. Matches(ts, d)
  BY <1>4, <1>6, <1>7 DEF Matches
<1> QED
  BY <1>8 DEF d

(* The server has lost a table that is not in the list.                    *)
LEMMA MatchesWithout ==
    ASSUME NEW ts, NEW c, Matches(ts, c), NEW q, ~Known(ts, q)
    PROVE  Matches(ts, Without(c, {q}))
<1> DEFINE d == Without(c, {q})
<1>1. d = [p \in DOMAIN c \ {q} |-> c[p]]
  BY DEF Without
<1>2. DOMAIN d = DOMAIN c \ {q} /\ \A p \in DOMAIN d : d[p] = c[p]
  BY <1>1
<1>3. d = [p \in DOMAIN d |-> d[p]]
  BY <1>1
<1> HIDE DEF d
<1>4. IsCatalog(d)
  BY <1>2, <1>3 DEF Matches, IsCatalog
<1>5. \A i \in 1..Len(ts) : Qualified(ts[i]) # q
  BY DEF Known
<1>6. \A i \in 1..Len(ts) :
         IsTable(ts[i]) /\ Qualified(ts[i]) \in DOMAIN d /\ Fits(ts[i], d[Qualified(ts[i])])
  BY <1>2, <1>5 DEF Matches
<1>7. \A p \in DOMAIN d : d[p].listed => Known(ts, p)
  BY <1>2 DEF Matches
<1>8. Matches(ts, d)
  BY <1>4, <1>6, <1>7 DEF Matches
<1> QED
  BY <1>8 DEF d

Among(us, ts) == \A j \in 1..Len(us) : \E i \in 1..Len(ts) : us[j] = ts[i]

(* A table that both sides drop; what is left was there.                   *)
LEMMA MatchesRemove ==
    ASSUME NEW ts, NEW c, Matches(ts, c), NEW schema, schema # "", NEW name
    PROVE  /\ Matches(RemoveTable(ts, <<schema, name>>), Without(c, {<<schema, name>>}))
           /\ Among(RemoveTable(ts, <<schema, name>>), ts)
<1> DEFINE q == <<schema, name>>
           k == SourceTable(ts, schema, name)
           us == RemoveAt(ts, k)
           d == Without(c, {q})
<1>1. IsSequence(ts)
  BY DEF Matches
<1>2. k \in 0..Len(ts) /\ (k # 0 => Qualified(ts[k]) = q) /\ (k = 0 => ~Known(ts, q))
  BY <1>1, SourceTableFacts
<1>3. RemoveTable(ts, q) = IF k = 0 THEN ts ELSE us
  BY DEF RemoveTable
<1>4. CASE k = 0
  <2>1. Matches(ts, d)
    BY <1>2, <1>4, MatchesWithout
  <2>2. Among(ts, ts)
    BY DEF Among
  <2> QED
    BY <1>3, <1>4, <2>1, <2>2
<1>5. CASE k # 0
  <2>1. Len(ts) \in Nat
    BY <1>1 DEF IsSequence
  <2>2. k \in 1..Len(ts) /\ Qualified(ts[k]) = q
    BY <1>2, <1>5, <2>1, Indices
  <2>3. /\ IsSequence(us)
        /\ \A j \in 1..Len(us) :
              Before(k, j) \in 1..Len(ts) /\ Before(k, j) # k /\ us[j] = ts[Before(k, j)]
        /\ \A i \in 1..Len(ts) : i # k => \E j \in 1..Len(us) : Before(k, j) = i
        /\ \A i, j \in 1..Len(us) : Before(k, i) = Before(k, j) => i = j
    BY <1>1, <2>2, RemoveFacts
  <2> HIDE DEF q, us, d, k
  <2>4. /\ \A i, j \in 1..Len(ts) : Qualified(ts[i]) = Qualified(ts[j]) => i = j
        /\ \A i \in 1..Len(ts) :
              IsTable(ts[i]) /\ Qualified(ts[i]) \in DOMAIN c /\ Fits(ts[i], c[Qualified(ts[i])])
        /\ \A p \in DOMAIN c : c[p].listed => Known(ts, p)
        /\ \A p \in DOMAIN c : IsEntry(c[p])
    BY DEF Matches, OncePerName, IsCatalog
  <2>5. d = [p \in DOMAIN c \ {q} |-> c[p]]
    BY DEF Without, d
  <2>6. DOMAIN d = DOMAIN c \ {q} /\ \A p \in DOMAIN d : d[p] = c[p]
    BY <2>5
  <2>7. IsCatalog(d)
    BY <2>4, <2>5, <2>6 DEF IsCatalog
  <2>8. \A i \in 1..Len(ts) : i # k => Qualified(ts[i]) # q
    BY <2>2, <2>4
  <2>9. OncePerName(us)
    BY <2>3, <2>4 DEF OncePerName
  <2>10. ASSUME NEW j \in 1..Len(us)
         PROVE  IsTable(us[j]) /\ Qualified(us[j]) \in DOMAIN d /\ Fits(us[j], d[Qualified(us[j])])
    <3> DEFINE m == Before(k, j)
    <3>1. m \in 1..Len(ts) /\ m # k /\ us[j] = ts[m]
      BY <2>3
    <3>2. Qualified(ts[m]) # q
      BY <2>8, <3>1
    <3>3. IsTable(ts[m]) /\ Qualified(ts[m]) \in DOMAIN c /\ Fits(ts[m], c[Qualified(ts[m])])
      BY <2>4, <3>1
    <3> HIDE DEF m
    <3>4. Qualified(ts[m]) \in DOMAIN d /\ d[Qualified(ts[m])] = c[Qualified(ts[m])]
      BY <2>6, <3>2, <3>3
    <3> QED
      BY <3>1, <3>3, <3>4
  <2>11. ASSUME NEW p \in DOMAIN d, d[p].listed PROVE Known(us, p)
    <3>1. p \in DOMAIN c /\ p # q /\ c[p].listed
      BY <2>6, <2>11
    <3>2. PICK i \in 1..Len(ts) : Qualified(ts[i]) = p
      BY <3>1, <2>4 DEF Known
    <3>3. i # k
      BY <3>1, <3>2, <2>2
    <3>4. PICK j \in 1..Len(us) : us[j] = ts[i]
      BY <3>3, <2>3
    <3> QED
      BY <3>2, <3>4 DEF Known
  <2>12. Matches(us, d)
    BY <2>3, <2>7, <2>9, <2>10, <2>11 DEF Matches
  <2>13. Among(us, ts)
    BY <2>3 DEF Among
  <2>14. RemoveTable(ts, q) = us
    BY <1>3, <1>5
  <2> QED
    BY <2>12, <2>13, <2>14 DEF q, d
<1> QED
  BY <1>4, <1>5

(* Dropping one table after another drops them all.                        *)
LEMMA WithoutBoth ==
    ASSUME NEW c, NEW S, NEW q
    PROVE  Without(Without(c, S), {q}) = Without(c, S \cup {q})
<1>1. Without(Without(c, S), {q}) = [p \in (DOMAIN c \ S) \ {q} |-> c[p]]
  BY DEF Without
<1>2. Without(c, S \cup {q}) = [p \in DOMAIN c \ (S \cup {q}) |-> c[p]]
  BY DEF Without
<1>3. (DOMAIN c \ S) \ {q} = DOMAIN c \ (S \cup {q})
  OBVIOUS
<1> QED
  BY <1>1, <1>2, <1>3

LEMMA WithoutNone ==
    ASSUME NEW c, IsCatalog(c)
    PROVE  Without(c, {}) = c
BY DEF Without, IsCatalog

LEMMA ListsMeans ==
    ASSUME NEW cols, NEW f, Lists(cols, f)
    PROVE  /\ {c.name : c \in ToSet(cols)} = DOMAIN f
           /\ \A c \in ToSet(cols) : c.pos = f[c.name]
           /\ \A i, j \in DOMAIN cols : cols[i].name = cols[j].name => i = j
<1>1. DOMAIN cols = 1..Len(cols)
  BY DEF Lists, IsSequence
<1>2. ToSet(cols) = {cols[i] : i \in 1..Len(cols)}
  BY <1>1 DEF ToSet
<1>3. ASSUME NEW i \in 1..Len(cols) PROVE cols[i].pos = f[cols[i].name]
  <2> DEFINE x == cols[i]
             y == [name |-> x.name, pos |-> f[x.name]]
  <2>1. x = y
    BY DEF Lists
  <2>2. y.pos = f[x.name]
    OBVIOUS
  <2> HIDE DEF x, y
  <2>3. x.pos = f[x.name]
    BY <2>1, <2>2
  <2> QED
    BY <2>3 DEF x
<1>4. /\ \A i, j \in 1..Len(cols) : cols[i].name = cols[j].name => i = j
      /\ \A c : c \in DOMAIN f <=> \E i \in 1..Len(cols) : cols[i].name = c
  BY DEF Lists
<1>5. \A c : c \in {x.name : x \in ToSet(cols)} <=> c \in DOMAIN f
  <2>1. ASSUME NEW c, c \in DOMAIN f PROVE c \in {x.name : x \in ToSet(cols)}
    <3>1. PICK i \in 1..Len(cols) : cols[i].name = c
      BY <1>4, <2>1
    <3>2. cols[i] \in ToSet(cols)
      BY <1>2
    <3> QED
      BY <3>1, <3>2
  <2>2. ASSUME NEW x \in ToSet(cols) PROVE x.name \in DOMAIN f
    BY <1>2, <1>4
  <2> QED
    BY <2>1, <2>2
<1>6. \A c \in ToSet(cols) : c.pos = f[c.name]
  BY <1>2, <1>3, Zenon
<1> QED
  BY <1>1, <1>4, <1>5, <1>6

(* What the readers' properties ask of the list is what Matches says.      *)
LEMMA MatchesMeans ==
    ASSUME NEW ts, Matches(ts, catalog)
    PROVE  LeavesBehind(ts) /\ NamesDistinct(ts) /\ PointsAtDeclarations(ts)
<1>1. ToSet(ts) = {ts[i] : i \in 1..Len(ts)} /\ DOMAIN ts = 1..Len(ts)
  BY DEF Matches, IsSequence, ToSet
<1>2. /\ \A i, j \in 1..Len(ts) : Qualified(ts[i]) = Qualified(ts[j]) => i = j
      /\ \A i \in 1..Len(ts) :
            Qualified(ts[i]) \in DOMAIN catalog /\ Fits(ts[i], catalog[Qualified(ts[i])])
      /\ \A p \in DOMAIN catalog : catalog[p].listed => Known(ts, p)
  BY DEF Matches, OncePerName
<1>3. LeavesBehind(ts)
  <2>1. \A t \in ToSet(ts) : Qualified(t) \in DOMAIN catalog
    BY <1>1, <1>2
  <2>2. ASSUME NEW q \in DOMAIN catalog, catalog[q].listed
        PROVE  \E t \in ToSet(ts) : /\ Qualified(t) = q
                                    /\ {c.name : c \in ToSet(t.cols)} = DOMAIN catalog[q].cols
                                    /\ t.replica \in {"", catalog[q].replica}
    <3>1. PICK i \in 1..Len(ts) : Qualified(ts[i]) = q
      BY <1>2, <2>2 DEF Known
    <3>2. Lists(ts[i].cols, catalog[q].cols) /\ ts[i].replica \in {"", catalog[q].replica}
      BY <1>2, <2>2, <3>1 DEF Fits
    <3>3. {c.name : c \in ToSet(ts[i].cols)} = DOMAIN catalog[q].cols
      BY <3>2, ListsMeans
    <3>4. ts[i] \in ToSet(ts)
      BY <1>1
    <3> QED
      BY <3>1, <3>2, <3>3, <3>4
  <2> QED
    BY <2>1, <2>2 DEF LeavesBehind
<1>4. NamesDistinct(ts)
  <2>1. ASSUME NEW t \in ToSet(ts), Qualified(t) \in DOMAIN catalog, catalog[Qualified(t)].listed
        PROVE  \A i, j \in DOMAIN t.cols : t.cols[i].name = t.cols[j].name => i = j
    <3>1. Lists(t.cols, catalog[Qualified(t)].cols)
      BY <1>1, <1>2, <2>1 DEF Fits
    <3> QED
      BY <3>1, ListsMeans, Zenon
  <2>2. \A i, j \in DOMAIN ts : Qualified(ts[i]) = Qualified(ts[j]) => i = j
    BY <1>1, <1>2
  <2> QED
    BY <2>1, <2>2 DEF NamesDistinct
<1>5. PointsAtDeclarations(ts)
  <2>1. ASSUME NEW t \in ToSet(ts), Qualified(t) \in DOMAIN catalog, catalog[Qualified(t)].listed
        PROVE  \A c \in ToSet(t.cols) :
                  c.name \in DOMAIN catalog[Qualified(t)].cols
                      => c.pos = catalog[Qualified(t)].cols[c.name]
    <3>1. Lists(t.cols, catalog[Qualified(t)].cols)
      BY <1>1, <1>2, <2>1 DEF Fits
    <3>2. \A c \in ToSet(t.cols) : c.pos = catalog[Qualified(t)].cols[c.name]
      BY <3>1, ListsMeans, Zenon
    <3> QED
      BY <3>2
  <2> QED
    BY <2>1 DEF PointsAtDeclarations
<1> QED
  BY <1>3, <1>4, <1>5

-----------------------------------------------------------------------------
(* ALTER TABLE.  A reader takes the clauses from left to right, the server *)
(* all at once.  They agree because a column is named by one clause only:  *)
(* after the first k, the columns are those the server would give the      *)
(* table if there were no others.                                          *)

OnColumns == {"add", "drop", "rename"}

LegalClauses(e, st) ==
    /\ IsSequence(st.actions) /\ NamedOnce(st)
    /\ Named(st, "drop") \cup Named(st, "rename") \subseteq DOMAIN e.cols
    /\ \A k \in Clauses(st, "rename") :
         st.actions[k].to \in {st.actions[k].col} \cup (NewNames(st) \ DOMAIN e.cols)

GoneBy(st, k) ==
    {st.actions[j].col : j \in {i \in 1..k : st.actions[i].op \in {"drop", "rename"}}}

NewBy(e, st, k) ==
    {st.actions[j].col : j \in {i \in 1..k : st.actions[i].op = "add" /\ st.actions[i].col \notin DOMAIN e.cols}}
      \cup {st.actions[j].to : j \in {i \in 1..k : st.actions[i].op = "rename"}}

ColsBy(e, st, k, at) ==
    [c \in (DOMAIN e.cols \ GoneBy(st, k)) \cup NewBy(e, st, k) |->
        IF c \in NewBy(e, st, k) THEN at ELSE e.cols[c]]

(* What LegalClauses says of two clauses, and of one.                      *)
LEMMA ClauseFacts ==
    ASSUME NEW e, NEW st, LegalClauses(e, st), NEW j \in 1..Len(st.actions), NEW k \in 1..Len(st.actions)
    PROVE  /\ j # k /\ st.actions[j].op \in OnColumns /\ st.actions[k].op \in OnColumns =>
                /\ st.actions[j].col # st.actions[k].col
                /\ st.actions[k].op = "rename" => st.actions[j].col # st.actions[k].to
                /\ st.actions[j].op = "rename" => st.actions[j].to # st.actions[k].col
                /\ st.actions[j].op = "rename" /\ st.actions[k].op = "rename"
                     => st.actions[j].to # st.actions[k].to
           /\ st.actions[k].op \in {"drop", "rename"} => st.actions[k].col \in DOMAIN e.cols
           /\ st.actions[k].op = "rename" =>
                st.actions[k].to = st.actions[k].col \/ st.actions[k].to \notin DOMAIN e.cols
<1> DEFINE names(a) == {a.col} \cup (IF a.op = "rename" THEN {a.to} ELSE {})
<1>1. DOMAIN st.actions = 1..Len(st.actions)
  BY DEF LegalClauses, IsSequence
<1>2. ASSUME j # k, st.actions[j].op \in OnColumns, st.actions[k].op \in OnColumns
      PROVE  names(st.actions[j]) \cap names(st.actions[k]) = {}
  BY <1>1, <1>2 DEF LegalClauses, NamedOnce, OnColumns
<1>3. \A a, b : names(a) \cap names(b) = {} =>
         /\ a.col # b.col
         /\ b.op = "rename" => a.col # b.to
         /\ a.op = "rename" => a.to # b.col
         /\ a.op = "rename" /\ b.op = "rename" => a.to # b.to
  OBVIOUS
<1>4. st.actions[k].op \in {"drop", "rename"} => st.actions[k].col \in DOMAIN e.cols
  BY <1>1 DEF LegalClauses, Named, Clauses
<1>5. st.actions[k].op = "rename" =>
        st.actions[k].to = st.actions[k].col \/ st.actions[k].to \notin DOMAIN e.cols
  BY <1>1 DEF LegalClauses, Clauses
<1> HIDE DEF names
<1> QED
  BY <1>2, <1>3, <1>4, <1>5

(* The clauses up to the next one.                                         *)
LEMMA NextClause ==
    ASSUME NEW e, NEW st, NEW k \in Nat
    PROVE  LET a == st.actions[k + 1]
           IN  /\ GoneBy(st, k + 1)
                    = GoneBy(st, k) \cup (IF a.op \in {"drop", "rename"} THEN {a.col} ELSE {})
               /\ NewBy(e, st, k + 1)
                    = NewBy(e, st, k)
                        \cup (IF a.op = "add" /\ a.col \notin DOMAIN e.cols THEN {a.col} ELSE {})
                        \cup (IF a.op = "rename" THEN {a.to} ELSE {})
<1> DEFINE a == st.actions[k + 1]
           Gone(n) == {i \in 1..n : st.actions[i].op \in {"drop", "rename"}}
           Added(n) == {i \in 1..n : st.actions[i].op = "add" /\ st.actions[i].col \notin DOMAIN e.cols}
           Renames(n) == {i \in 1..n : st.actions[i].op = "rename"}
<1>1. 1..(k + 1) = (1..k) \cup {k + 1}
  OBVIOUS
<1>2. Gone(k + 1) = Gone(k) \cup (IF a.op \in {"drop", "rename"} THEN {k + 1} ELSE {})
  BY <1>1
<1>3. Added(k + 1) = Added(k) \cup (IF a.op = "add" /\ a.col \notin DOMAIN e.cols THEN {k + 1} ELSE {})
  BY <1>1
<1>4. Renames(k + 1) = Renames(k) \cup (IF a.op = "rename" THEN {k + 1} ELSE {})
  BY <1>1
<1>5. /\ \A n : GoneBy(st, n) = {st.actions[j].col : j \in Gone(n)}
      /\ \A n : NewBy(e, st, n) = {st.actions[j].col : j \in Added(n)} \cup {st.actions[j].to : j \in Renames(n)}
  BY DEF GoneBy, NewBy
<1> HIDE DEF Gone, Added, Renames
<1>6. {st.actions[j].col : j \in Gone(k + 1)}
        = {st.actions[j].col : j \in Gone(k)} \cup (IF a.op \in {"drop", "rename"} THEN {a.col} ELSE {})
  BY <1>2
<1>7. {st.actions[j].col : j \in Added(k + 1)}
        = {st.actions[j].col : j \in Added(k)}
            \cup (IF a.op = "add" /\ a.col \notin DOMAIN e.cols THEN {a.col} ELSE {})
  BY <1>3
<1>8. {st.actions[j].to : j \in Renames(k + 1)}
        = {st.actions[j].to : j \in Renames(k)} \cup (IF a.op = "rename" THEN {a.to} ELSE {})
  BY <1>4
<1>9. GoneBy(st, k + 1) = GoneBy(st, k) \cup (IF a.op \in {"drop", "rename"} THEN {a.col} ELSE {})
  BY <1>5, <1>6
<1>10. NewBy(e, st, k + 1)
         = NewBy(e, st, k)
             \cup (IF a.op = "add" /\ a.col \notin DOMAIN e.cols THEN {a.col} ELSE {})
             \cup (IF a.op = "rename" THEN {a.to} ELSE {})
  BY <1>5, <1>7, <1>8
<1> QED
  BY <1>9, <1>10

LEMMA ListsSame ==
    ASSUME NEW cols, NEW f, Lists(cols, f), NEW g, DOMAIN g = DOMAIN f, \A c \in DOMAIN f : g[c] = f[c]
    PROVE  Lists(cols, g)
<1>1. \A i \in 1..Len(cols) : cols[i].name \in DOMAIN f
  BY DEF Lists
<1> QED
  BY <1>1 DEF Lists

LEMMA AddListsTo ==
    ASSUME NEW t, IsTable(t), NEW f, Lists(t.cols, f), NEW n, NEW at,
           NEW g, DOMAIN g = DOMAIN f \cup {n}, \A c \in DOMAIN g : g[c] = IF c \in DOMAIN f THEN f[c] ELSE at
    PROVE  Lists(AddColumn(t, n, at).cols, g)
<1> DEFINE h == [c \in DOMAIN f \cup {n} |-> IF c \in DOMAIN f THEN f[c] ELSE at]
<1>1. Lists(AddColumn(t, n, at).cols, h)
  BY AddLists
<1>2. DOMAIN g = DOMAIN h /\ \A c \in DOMAIN h : g[c] = h[c]
  OBVIOUS
<1> HIDE DEF h
<1> QED
  BY <1>1, <1>2, ListsSame

(* One clause more.                                                        *)
LEMMA ClauseLists ==
    ASSUME NEW e, NEW st, LegalClauses(e, st), NEW k \in Nat, k + 1 \in 1..Len(st.actions),
           NEW at, NEW t, IsTable(t), Lists(t.cols, ColsBy(e, st, k, at))
    PROVE  LET a == st.actions[k + 1]
               f == ColsBy(e, st, k + 1, at)
           IN  /\ a.op = "add" => Lists(AddColumn(t, a.col, at).cols, f)
               /\ a.op = "drop" => Lists(RemoveColumn(t, a.col).cols, f)
               /\ a.op = "rename" => Lists(RenameColumn(t, a.col, a.to, at).cols, f)
               /\ a.op \notin OnColumns => Lists(t.cols, f)
<1> DEFINE a == st.actions[k + 1]
           f == ColsBy(e, st, k, at)
           g == ColsBy(e, st, k + 1, at)
           D == DOMAIN e.cols
           G == GoneBy(st, k)
           N == NewBy(e, st, k)
<1>1. /\ f = [c \in (D \ G) \cup N |-> IF c \in N THEN at ELSE e.cols[c]]
      /\ g = [c \in (D \ GoneBy(st, k + 1)) \cup NewBy(e, st, k + 1) |->
                 IF c \in NewBy(e, st, k + 1) THEN at ELSE e.cols[c]]
  BY DEF ColsBy
<1>2. /\ GoneBy(st, k + 1) = G \cup (IF a.op \in {"drop", "rename"} THEN {a.col} ELSE {})
      /\ NewBy(e, st, k + 1) = N \cup (IF a.op = "add" /\ a.col \notin D THEN {a.col} ELSE {})
                                 \cup (IF a.op = "rename" THEN {a.to} ELSE {})
  BY NextClause
<1>3. \A j \in 1..k : j \in 1..Len(st.actions) /\ j # k + 1
  BY DEF LegalClauses, IsSequence
<1>4. ASSUME a.op \in OnColumns
      PROVE  a.col \notin G /\ a.col \notin N /\ (a.op = "rename" => a.to \notin N)
  <2>1. \A j \in 1..k : st.actions[j].op \in OnColumns =>
            /\ st.actions[j].col # a.col
            /\ a.op = "rename" => st.actions[j].col # a.to
            /\ st.actions[j].op = "rename" => st.actions[j].to # a.col
            /\ st.actions[j].op = "rename" /\ a.op = "rename" => st.actions[j].to # a.to
    BY <1>3, <1>4, ClauseFacts
  <2>2. \A c \in G : \E j \in 1..k : st.actions[j].op \in OnColumns /\ st.actions[j].col = c
    BY DEF GoneBy, OnColumns
  <2>3. \A c \in N : \E j \in 1..k : /\ st.actions[j].op \in OnColumns
                                     /\ \/ st.actions[j].col = c
                                        \/ st.actions[j].op = "rename" /\ st.actions[j].to = c
    BY DEF NewBy, OnColumns
  <2> HIDE DEF a, G, N
  <2> QED
    BY <2>1, <2>2, <2>3
<1>5. /\ a.op \in {"drop", "rename"} => a.col \in D
      /\ a.op = "rename" => a.to = a.col \/ a.to \notin D
  BY ClauseFacts
<1>6. IsTable(t) /\ Lists(t.cols, f)
  OBVIOUS
<1> HIDE DEF a, f, g, D, G, N
<1>7. DOMAIN f = (D \ G) \cup N /\ \A c \in DOMAIN f : f[c] = IF c \in N THEN at ELSE e.cols[c]
  BY <1>1
<1>8. ASSUME a.op = "add" PROVE Lists(AddColumn(t, a.col, at).cols, g)
  <2>1. a.col \notin G /\ a.col \notin N
    BY <1>4, <1>8 DEF OnColumns
  <2>2. GoneBy(st, k + 1) = G /\ NewBy(e, st, k + 1) = N \cup (IF a.col \notin D THEN {a.col} ELSE {})
    BY <1>2, <1>8
  <2>3. DOMAIN g = DOMAIN f \cup {a.col}
    BY <1>1, <1>7, <2>1, <2>2
  <2>4. \A c \in DOMAIN g : g[c] = IF c \in DOMAIN f THEN f[c] ELSE at
    BY <1>1, <1>7, <2>1, <2>2
  <2>5. \A u, x, y, n, z :
           /\ IsTable(u) /\ Lists(u.cols, x) /\ DOMAIN y = DOMAIN x \cup {n}
           /\ \A c \in DOMAIN y : y[c] = IF c \in DOMAIN x THEN x[c] ELSE z
           => Lists(AddColumn(u, n, z).cols, y)
    BY AddListsTo
  <2> QED
    BY <1>6, <2>3, <2>4, <2>5
<1>9. ASSUME a.op = "drop" PROVE Lists(RemoveColumn(t, a.col).cols, g)
  <2> DEFINE h == [c \in DOMAIN f \ {a.col} |-> f[c]]
  <2>1. Lists(RemoveColumn(t, a.col).cols, h)
    BY <1>6, RemoveLists
  <2>2. a.col \notin N
    BY <1>4, <1>9 DEF OnColumns
  <2>3. GoneBy(st, k + 1) = G \cup {a.col} /\ NewBy(e, st, k + 1) = N
    BY <1>2, <1>9
  <2>4. DOMAIN g = DOMAIN h
    BY <1>1, <1>7, <2>2, <2>3
  <2>5. \A c \in DOMAIN h : g[c] = h[c]
    BY <1>1, <1>7, <2>2, <2>3
  <2> HIDE DEF h
  <2> QED
    BY <2>1, <2>4, <2>5, ListsSame
<1>10. ASSUME a.op = "rename" PROVE Lists(RenameColumn(t, a.col, a.to, at).cols, g)
  <2> DEFINE h == [c \in (DOMAIN f \ {a.col}) \cup {a.to} |-> IF c = a.to THEN at ELSE f[c]]
  <2>1. a.col \notin G /\ a.col \notin N /\ a.to \notin N
    BY <1>4, <1>10 DEF OnColumns
  <2>2. a.col \in D /\ (a.to = a.col \/ a.to \notin D)
    BY <1>5, <1>10
  <2>3. a.col \in DOMAIN f /\ (a.to = a.col \/ a.to \notin DOMAIN f)
    BY <1>7, <2>1, <2>2
  <2>4. Lists(RenameColumn(t, a.col, a.to, at).cols, h)
    BY <1>6, <2>3, RenameLists
  <2>5. GoneBy(st, k + 1) = G \cup {a.col} /\ NewBy(e, st, k + 1) = N \cup {a.to}
    BY <1>2, <1>10
  <2>6. DOMAIN g = DOMAIN h
    BY <1>1, <1>7, <2>1, <2>2, <2>5
  <2>7. \A c \in DOMAIN h : g[c] = h[c]
    BY <1>1, <1>7, <2>1, <2>2, <2>5
  <2> HIDE DEF h
  <2> QED
    BY <2>4, <2>6, <2>7, ListsSame
<1>11. ASSUME a.op \notin OnColumns PROVE Lists(t.cols, g)
  <2>1. GoneBy(st, k + 1) = G /\ NewBy(e, st, k + 1) = N
    BY <1>2, <1>11 DEF OnColumns
  <2>2. g = f
    BY <1>1, <2>1
  <2> QED
    BY <1>6, <2>2
<1> QED
  BY <1>8, <1>9, <1>10, <1>11 DEF a, g

(* Before the first clause, and after the last.                            *)
LEMMA NoClause ==
    ASSUME NEW e, NEW st, NEW at, NEW cols, Lists(cols, e.cols)
    PROVE  Lists(cols, ColsBy(e, st, 0, at))
<1> DEFINE f == ColsBy(e, st, 0, at)
<1>1. GoneBy(st, 0) = {} /\ NewBy(e, st, 0) = {}
  BY DEF GoneBy, NewBy
<1>2. f = [c \in (DOMAIN e.cols \ {}) \cup {} |-> IF c \in {} THEN at ELSE e.cols[c]]
  BY <1>1 DEF ColsBy
<1>3. DOMAIN f = DOMAIN e.cols /\ \A c \in DOMAIN e.cols : f[c] = e.cols[c]
  BY <1>2
<1> HIDE DEF f
<1> QED
  BY <1>3, ListsSame DEF f

Replaced(e, st, at) ==
    LET gone == Named(st, "drop") \cup Named(st, "rename")
        new == Asked(e, st) \cup NewNames(st)
    IN  [c \in (DOMAIN e.cols \ gone) \cup new |-> IF c \in new THEN at ELSE e.cols[c]]

IdentityAfter(e, st) ==
    IF ReplicaAsked(st) = {} THEN e.replica ELSE CHOOSE w \in ReplicaAsked(st) : TRUE

LEMMA AlteredEntry ==
    ASSUME NEW e, IsEntry(e), NEW st, NEW at
    PROVE  /\ IsEntry(Altered(e, st, at)) /\ Altered(e, st, at).listed = e.listed
           /\ Altered(e, st, at).cols = Replaced(e, st, at)
           /\ Altered(e, st, at).replica = IdentityAfter(e, st)
<1> DEFINE f == Replaced(e, st, at)
           w == IdentityAfter(e, st)
<1>1. e = [cols |-> e.cols, listed |-> e.listed, replica |-> e.replica] /\ e.listed \in BOOLEAN
  BY DEF IsEntry
<1>2. Altered(e, st, at) = [e EXCEPT !.cols = f, !.replica = w]
  BY DEF Altered, Replaced, IdentityAfter
<1> HIDE DEF f, w
<1>3. Altered(e, st, at) = [cols |-> f, listed |-> e.listed, replica |-> w]
  BY <1>1, <1>2
<1>4. /\ Altered(e, st, at).cols = f /\ Altered(e, st, at).listed = e.listed
      /\ Altered(e, st, at).replica = w
  BY <1>3
<1>5. IsEntry(Altered(e, st, at))
  BY <1>1, <1>3, <1>4 DEF IsEntry
<1> QED
  BY <1>4, <1>5 DEF f, w

LEMMA EveryClause ==
    ASSUME NEW e, IsEntry(e), NEW st, IsSequence(st.actions), NEW at,
           NEW cols, Lists(cols, ColsBy(e, st, Len(st.actions), at))
    PROVE  Lists(cols, Altered(e, st, at).cols)
<1> DEFINE n == Len(st.actions)
           gone == Named(st, "drop") \cup Named(st, "rename")
           new == Asked(e, st) \cup NewNames(st)
<1>1. DOMAIN st.actions = 1..n
  BY DEF IsSequence
<1>2. \A op : Clauses(st, op) = {i \in 1..n : st.actions[i].op = op}
  BY <1>1 DEF Clauses
<1>3. gone = GoneBy(st, n)
  BY <1>2 DEF Named, GoneBy
<1>4. new = NewBy(e, st, n)
  BY <1>2 DEF Asked, Named, NewNames, NewBy
<1>5. Replaced(e, st, at) = ColsBy(e, st, n, at)
  BY <1>3, <1>4 DEF ColsBy, Replaced
<1>6. Altered(e, st, at).cols = Replaced(e, st, at)
  BY AlteredEntry
<1> QED
  BY <1>5, <1>6

(* What the server accepts of a table whose columns are listed.            *)
LEMMA ServerAccepts ==
    ASSUME NEW c, NEW s, NEW st, IsSequence(st.actions), AlterLegal(c, s, st),
           c[Place(s, st.name)].listed
    PROVE  LegalClauses(c[Place(s, st.name)], st)
BY DEF AlterLegal, LegalClauses

(* At most one clause renames the table, and one sets its identity.        *)
LEMMA SetOnceFacts ==
    ASSUME NEW st, IsSequence(st.actions), SetOnce(st), NEW k \in 1..Len(st.actions)
    PROVE  /\ st.actions[k].op = "renametable" => Clauses(st, "renametable") = {k}
           /\ st.actions[k].op = "replica" => Clauses(st, "replica") = {k}
<1>1. DOMAIN st.actions = 1..Len(st.actions)
  BY DEF IsSequence
<1> QED
  BY <1>1 DEF SetOnce, Clauses

(* A clause that sets the name, or the identity, is the first to.          *)
LEMMA FirstToSet ==
    ASSUME NEW st, IsSequence(st.actions), SetOnce(st), NEW k \in Nat, k + 1 \in 1..Len(st.actions),
           NEW op \in {"renametable", "replica"}, st.actions[k + 1].op = op
    PROVE  \A j \in 1..k : st.actions[j].op # op
<1>1. DOMAIN st.actions = 1..Len(st.actions) /\ Len(st.actions) \in Nat
  BY DEF IsSequence
<1>2. \A j \in 1..k : j \in 1..Len(st.actions) /\ j # k + 1
  BY <1>1
<1> QED
  BY <1>1, <1>2 DEF SetOnce

-----------------------------------------------------------------------------
(* The walk: what the reader leaves out is what the runner does not run.   *)

Walked ==
    /\ file \in [n : 1..MaxFiles, kind : FileKinds] /\ line \in 0..MaxLines
    /\ down \in BOOLEAN /\ half \in {"up", "down"}
    /\ LeftOut <=> half = "down"

LEMMA WalkStarts == WalkInit => Walked /\ session \in Connections /\ catalog = NoTables
<1> SUFFICES ASSUME WalkInit PROVE Walked /\ session \in Connections /\ catalog = NoTables
  OBVIOUS
<1>1. PICK k \in FileKinds : file = Opened(1, k) /\ half = (IF k = "down" THEN "down" ELSE "up")
  BY DEF WalkInit
<1>2. /\ file = [n |-> 1, kind |-> k] /\ file.kind = k
  BY <1>1 DEF Opened
<1>3. 1 \in 1..MaxFiles /\ 0 \in 0..MaxLines
  BY BoundsAssumption
<1>4. file \in [n : 1..MaxFiles, kind : FileKinds]
  BY <1>2, <1>3
<1> QED
  BY <1>1, <1>2, <1>3, <1>4 DEF WalkInit, Walked, LeftOut

LEMMA WalkExecutes ==
    ASSUME Walked, NEW st, Execute(st)
    PROVE  Walked'
<1>1. line' \in 0..MaxLines
  BY BoundsAssumption DEF Walked, Execute
<1>2. file' = file /\ down' = down /\ half' = half
  BY DEF Execute
<1> QED
  BY <1>1, <1>2 DEF Walked, LeftOut

LEMMA WalkOpens ==
    ASSUME Walked, NextFile
    PROVE  Walked' /\ catalog' = catalog /\ session' = session
<1>1. PICK k \in FileKinds : file' = Opened(file.n + 1, k) /\ half' = (IF k = "down" THEN "down" ELSE "up")
  BY DEF NextFile
<1>2. file' = [n |-> file.n + 1, kind |-> k] /\ file'.kind = k
  BY <1>1 DEF Opened
<1>3. file.n \in 1..MaxFiles /\ file.n < MaxFiles
  BY DEF Walked, NextFile
<1>4. file.n + 1 \in 1..MaxFiles
  BY <1>3, BoundsAssumption
<1>5. file' \in [n : 1..MaxFiles, kind : FileKinds]
  BY <1>2, <1>4
<1>6. half' \in {"up", "down"} /\ (half' = "down" <=> k = "down")
  BY <1>1
<1>7. down' = FALSE /\ line' = line /\ catalog' = catalog /\ session' = session
  BY DEF NextFile
<1>8. LeftOut' <=> half' = "down"
  BY <1>2, <1>6, <1>7 DEF LeftOut
<1> QED
  BY <1>5, <1>6, <1>7, <1>8 DEF Walked

LEMMA WalkMarks ==
    ASSUME Walked, Marker
    PROVE  Walked' /\ catalog' = catalog /\ session' = session
<1>1. PICK h \in {"up", "down"} : half' = h /\ down' = (h = "down")
  BY DEF Marker
<1>2. file' = file /\ file.kind = "plain" /\ catalog' = catalog /\ session' = session
  BY DEF Marker
<1>3. line' \in 0..MaxLines
  BY BoundsAssumption DEF Walked, Marker
<1> QED
  BY <1>1, <1>2, <1>3 DEF Walked, LeftOut

LEMMA WalkStutters ==
    ASSUME Walked, UNCHANGED walk
    PROVE  Walked'
BY DEF Walked, walk, LeftOut

LEMMA NothingMatches == Matches(<<>>, NoTables)
BY DEF Matches, IsCatalog, IsSequence, OncePerName, NoTables

(* ALTER TABLE to the server: its table, altered, under the name it has    *)
(* then.                                                                   *)
NameAfter(c, s, st) ==
    IF Targets(c, s, st) = {} THEN Place(s, st.name) ELSE CHOOSE p \in Targets(c, s, st) : TRUE

LEMMA AlterDoneIs ==
    ASSUME NEW c, IsCatalog(c), NEW s, NEW st, Place(s, st.name) \in DOMAIN c, NEW at
    PROVE  AlterDone(c, s, st, at)
             = Put(Without(c, {Place(s, st.name)}), NameAfter(c, s, st), Altered(c[Place(s, st.name)], st, at))
<1> DEFINE q == Place(s, st.name)
           e == Altered(c[q], st, at)
           changed == [c EXCEPT ![q] = e]
           p == NameAfter(c, s, st)
<1>1. AlterDone(c, s, st, at) = IF Targets(c, s, st) = {} THEN changed
                                ELSE Moved(changed, q, CHOOSE x \in Targets(c, s, st) : TRUE)
  BY DEF AlterDone
<1>2. AlterDone(c, s, st, at) = IF Targets(c, s, st) = {} THEN changed ELSE Moved(changed, q, p)
  BY <1>1 DEF NameAfter
<1>3. Targets(c, s, st) = {} => p = q
  BY DEF NameAfter
<1> HIDE DEF q, e, p
<1>4. c = [x \in DOMAIN c |-> c[x]] /\ q \in DOMAIN c
  BY DEF IsCatalog, q
<1> HIDE DEF changed
<1>5. changed = [x \in DOMAIN c |-> IF x = q THEN e ELSE c[x]]
  BY <1>4 DEF changed
<1>6. changed = Put(Without(c, {q}), q, e)
  <2>1. Put(Without(c, {q}), q, e) = [x \in (DOMAIN c \ {q}) \cup {q} |-> IF x = q THEN e ELSE c[x]]
    BY DEF Put, Without
  <2>2. (DOMAIN c \ {q}) \cup {q} = DOMAIN c
    BY <1>4
  <2> QED
    BY <1>5, <2>1, <2>2
<1>7. Moved(changed, q, p) = Put(Without(c, {q}), p, e)
  <2>1. changed[q] = e /\ DOMAIN changed = DOMAIN c
    BY <1>4, <1>5
  <2>2. Without(changed, {q}) = [x \in DOMAIN c \ {q} |-> changed[x]]
    BY <2>1 DEF Without
  <2>3. \A x \in DOMAIN c \ {q} : changed[x] = c[x]
    BY <1>5
  <2>4. Without(changed, {q}) = Without(c, {q})
    BY <2>2, <2>3 DEF Without
  <2> QED
    BY <2>1, <2>4 DEF Moved
<1>8. AlterDone(c, s, st, at) = Put(Without(c, {q}), p, e)
  BY <1>2, <1>3, <1>6, <1>7
<1> QED
  BY <1>8 DEF q, e, p

(* A table of the list that is altered the way the server alters it.       *)
LEMMA AlterMatches ==
    ASSUME NEW ts, NEW c, Matches(ts, c), NEW s, NEW st, Place(s, st.name) \in DOMAIN c, NEW at,
           NameAfter(c, s, st) \in {Place(s, st.name)} \/ NameAfter(c, s, st) \notin DOMAIN c,
           NEW i \in 1..Len(ts), Qualified(ts[i]) = Place(s, st.name),
           NEW u, IsTable(u), Qualified(u) = NameAfter(c, s, st),
           Fits(u, Altered(c[Place(s, st.name)], st, at))
    PROVE  Matches([ts EXCEPT ![i] = u], AlterDone(c, s, st, at))
<1> DEFINE q == Place(s, st.name)
           e == Altered(c[q], st, at)
<1>1. IsCatalog(c) /\ IsEntry(c[q])
  BY DEF Matches, IsCatalog
<1>2. IsEntry(e)
  BY <1>1, AlteredEntry
<1>3. Qualified(u) = Qualified(ts[i]) \/ Qualified(u) \notin DOMAIN c
  OBVIOUS
<1>4. Fits(u, e)
  OBVIOUS
<1> HIDE DEF e
<1>5. Matches([ts EXCEPT ![i] = u], Put(Without(c, {Qualified(ts[i])}), Qualified(u), e))
  BY <1>2, <1>3, <1>4, MatchesReplace
<1>6. AlterDone(c, s, st, at) = Put(Without(c, {q}), NameAfter(c, s, st), e)
  BY <1>1, AlterDoneIs DEF e
<1> QED
  BY <1>5, <1>6

(* A table that is not in the list.                                        *)
LEMMA AlterUnknown ==
    ASSUME NEW ts, NEW c, Matches(ts, c), NEW s, NEW st, Place(s, st.name) \in DOMAIN c, NEW at,
           NameAfter(c, s, st) \in {Place(s, st.name)} \/ NameAfter(c, s, st) \notin DOMAIN c,
           ~Known(ts, Place(s, st.name))
    PROVE  Matches(ts, AlterDone(c, s, st, at))
<1> DEFINE q == Place(s, st.name)
           p == NameAfter(c, s, st)
           e == Altered(c[q], st, at)
<1>1. IsCatalog(c) /\ IsEntry(c[q]) /\ ~c[q].listed
  BY DEF Matches, IsCatalog, IsEntry
<1>2. IsEntry(e) /\ ~e.listed
  BY <1>1, AlteredEntry
<1>3. Matches(ts, Without(c, {q}))
  BY MatchesWithout
<1>4. ~Known(ts, p)
  BY DEF Matches, Known
<1>5. AlterDone(c, s, st, at) = Put(Without(c, {q}), p, e)
  BY <1>1, AlterDoneIs
<1> HIDE DEF e, p, q
<1> QED
  BY <1>2, <1>3, <1>4, <1>5, MatchesPut

(* The new name of a statement the server accepts is free, or the old one. *)
LEMMA NewNameFree ==
    ASSUME NEW c, NEW s, NEW st, AlterLegal(c, s, st)
    PROVE  /\ Place(s, st.name) \in DOMAIN c
           /\ NameAfter(c, s, st) \in {Place(s, st.name)} \/ NameAfter(c, s, st) \notin DOMAIN c
<1>1. Targets(c, s, st) # {} => NameAfter(c, s, st) \in Targets(c, s, st)
  BY DEF NameAfter
<1>2. Targets(c, s, st) = {} => NameAfter(c, s, st) = Place(s, st.name)
  BY DEF NameAfter
<1> QED
  BY <1>1, <1>2 DEF AlterLegal

=============================================================================
