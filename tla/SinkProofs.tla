------------------------------ MODULE SinkProofs ------------------------------
(***************************************************************************)
(* The tables the sink readers hold match the warehouse's after any DDL    *)
(* files of the statements they follow, however long: the theorems at the  *)
(* end.  The inductive invariant is Following: nothing was skipped, and    *)
(* the tables of the two match.                                            *)
(***************************************************************************)
EXTENDS SinkReader, RulesProofs, SequenceTheorems

-----------------------------------------------------------------------------
(* Numbers and sequences. *)

(* Up to a bound. *)
LEMMA BoundedInduction ==
    ASSUME NEW n \in Nat, NEW S, 0 \in S, \A k \in 0..n : k < n /\ k \in S => k + 1 \in S
    PROVE  n \in S
<1> DEFINE T == {k \in Nat : k <= n => k \in S}
<1>1. 0 \in T
  OBVIOUS
<1>2. ASSUME NEW k \in Nat, k \in T PROVE k + 1 \in T
  BY <1>2
<1>3. Nat \subseteq T
  <2> HIDE DEF T
  <2> QED
    BY <1>1, <1>2, SetInduction
<1> QED
  BY <1>3

LEMMA AppendFacts ==
    ASSUME NEW s, IsSequence(s), NEW x
    PROVE  /\ IsSequence(Append(s, x)) /\ Len(Append(s, x)) = Len(s) + 1
           /\ \A i \in 1..Len(s) : Append(s, x)[i] = s[i]
           /\ Append(s, x)[Len(s) + 1] = x
<1> DEFINE S == {s[i] : i \in 1..Len(s)} \cup {x}
<1>1. s \in Seq(S) /\ x \in S
  BY SeqDef DEF IsSequence
<1> HIDE DEF S
<1>2. Append(s, x) \in Seq(S)
  BY <1>1, AppendProperties
<1>3. /\ Len(Append(s, x)) = Len(s) + 1
      /\ \A i \in 1..Len(s) : Append(s, x)[i] = s[i]
      /\ Append(s, x)[Len(s) + 1] = x
  BY <1>1, AppendProperties
<1>4. IsSequence(Append(s, x))
  BY <1>2, LenProperties DEF IsSequence
<1> QED
  BY <1>3, <1>4

(* Where the j-th of a sequence was before the i-th was removed.           *)
Before(i, j) == IF j < i THEN j ELSE j + 1

LEMMA BeforeFacts ==
    ASSUME NEW n \in Nat, NEW i \in 1..n
    PROVE  /\ \A j \in 1..(n - 1) : Before(i, j) \in 1..n /\ Before(i, j) # i
           /\ \A k \in 1..n : k # i => \E j \in 1..(n - 1) : Before(i, j) = k
           /\ \A j, k \in 1..(n - 1) : Before(i, j) = Before(i, k) => j = k
<1>1. ASSUME NEW k \in 1..n, k # i PROVE \E j \in 1..(n - 1) : Before(i, j) = k
  <2>1. CASE k < i
    BY <2>1 DEF Before
  <2>2. CASE k > i
    <3>1. k - 1 \in 1..(n - 1) /\ Before(i, k - 1) = k
      BY <2>2 DEF Before
    <3> QED
      BY <3>1
  <2> QED
    BY <1>1, <2>1, <2>2
<1> QED
  BY <1>1 DEF Before

LEMMA RemoveFacts ==
    ASSUME NEW s, IsSequence(s), NEW i \in 1..Len(s)
    PROVE  /\ IsSequence(RemoveAt(s, i))
           /\ \A j \in 1..Len(RemoveAt(s, i)) :
                 /\ Before(i, j) \in 1..Len(s) /\ Before(i, j) # i
                 /\ RemoveAt(s, i)[j] = s[Before(i, j)]
           /\ \A k \in 1..Len(s) : k # i => \E j \in 1..Len(RemoveAt(s, i)) : Before(i, j) = k
           /\ \A j, k \in 1..Len(RemoveAt(s, i)) : Before(i, j) = Before(i, k) => j = k
<1> DEFINE S == {s[k] : k \in 1..Len(s)}
           a == SubSeq(s, 1, i - 1)
           b == SubSeq(s, i + 1, Len(s))
<1>0. Len(s) \in Nat
  BY DEF IsSequence
<1>1. s \in Seq(S)
  BY SeqDef DEF IsSequence
<1>2. \A k \in 1..Len(s) : s[k] \in S
  OBVIOUS
<1> HIDE DEF S
<1>3. /\ a \in Seq(S) /\ Len(a) = i - 1
      /\ \A k \in 1..(i - 1) : a[k] = s[k]
  BY <1>0, <1>2, SubSeqProperties
<1>4. /\ b \in Seq(S) /\ Len(b) = Len(s) - i
      /\ \A k \in 1..(Len(s) - i) : b[k] = s[k + i]
  BY <1>0, <1>2, SubSeqProperties
<1>5. RemoveAt(s, i) = a \o b
  BY DEF RemoveAt
<1> HIDE DEF a, b
<1>6. /\ a \o b \in Seq(S) /\ Len(a \o b) = Len(a) + Len(b)
      /\ \A k \in 1..(Len(a) + Len(b)) : (a \o b)[k] = IF k <= Len(a) THEN a[k] ELSE b[k - Len(a)]
  BY <1>3, <1>4, ConcatProperties
<1>7. Len(a) + Len(b) = Len(s) - 1
  BY <1>0, <1>3, <1>4
<1>8. ASSUME NEW j \in 1..(Len(s) - 1) PROVE (a \o b)[j] = s[Before(i, j)]
  BY <1>0, <1>3, <1>4, <1>6, <1>7 DEF Before
<1>9. IsSequence(a \o b)
  BY <1>6, LenProperties DEF IsSequence
<1>10. Len(a \o b) = Len(s) - 1
  BY <1>6, <1>7
<1>11. /\ \A j \in 1..(Len(s) - 1) : Before(i, j) \in 1..Len(s) /\ Before(i, j) # i
       /\ \A k \in 1..Len(s) : k # i => \E j \in 1..(Len(s) - 1) : Before(i, j) = k
       /\ \A j, k \in 1..(Len(s) - 1) : Before(i, j) = Before(i, k) => j = k
  BY <1>0, BeforeFacts
<1>12. IsSequence(RemoveAt(s, i)) /\ Len(RemoveAt(s, i)) = Len(s) - 1
  BY <1>5, <1>9, <1>10
<1>13. \A j \in 1..(Len(s) - 1) : RemoveAt(s, i)[j] = s[Before(i, j)]
  BY <1>5, <1>8
<1> QED
  BY <1>11, <1>12, <1>13

IsReplaced(s, i, x, t) ==
    /\ IsSequence(t) /\ Len(t) = Len(s)
    /\ \A j \in 1..Len(s) : t[j] = IF j = i THEN x ELSE s[j]

LEMMA ReplaceFacts ==
    ASSUME NEW s, IsSequence(s), NEW i \in 1..Len(s), NEW x
    PROVE  IsReplaced(s, i, x, [s EXCEPT ![i] = x])
<1> DEFINE S == {s[k] : k \in 1..Len(s)} \cup {x}
<1>1. s \in Seq(S) /\ x \in S
  BY SeqDef DEF IsSequence
<1> HIDE DEF S
<1>2. /\ [s EXCEPT ![i] = x] \in Seq(S) /\ Len([s EXCEPT ![i] = x]) = Len(s)
      /\ \A j \in 1..Len(s) : [s EXCEPT ![i] = x][j] = IF j = i THEN x ELSE s[j]
  BY <1>1, ExceptSeq
<1>3. IsSequence([s EXCEPT ![i] = x])
  BY <1>2, LenProperties DEF IsSequence
<1> QED
  BY <1>2, <1>3 DEF IsReplaced

-----------------------------------------------------------------------------
(* Names. *)

(* Resolving a name leaves its last segment as it is.                      *)
LEMMA LastOfPlace ==
    ASSUME NEW n, IsSequence(n), Len(n) > 0
    PROVE  LastSegment(Place(n)) = LastSegment(n)
<1> DEFINE S == {n[i] : i \in 1..Len(n)} \cup {Database}
<1>1. n \in Seq(S) /\ <<Database>> \in Seq(S) /\ Len(<<Database>>) = 1
  BY SeqDef DEF IsSequence
<1> HIDE DEF S
<1>2. CASE Len(n) = 1
  <2>1. /\ Len(<<Database>> \o n) = 2
        /\ (<<Database>> \o n)[2] = n[1]
    BY <1>1, <1>2, ConcatProperties
  <2>2. Place(n) = <<Database>> \o n
    BY <1>2 DEF Place
  <2> QED
    BY <1>2, <2>1, <2>2 DEF LastSegment, Last
<1>3. CASE Len(n) # 1
  BY <1>3 DEF Place
<1> QED
  BY <1>2, <1>3

(* In one database two names have one last segment exactly when they are   *)
(* resolved to one place.                                                  *)
LEMMA OnePlace ==
    ASSUME OneDatabase(Statements), NEW m \in Named(Statements), NEW n \in Named(Statements)
    PROVE  LastSegment(m) = LastSegment(n) <=> Place(m) = Place(n)
<1>1. LastSegment(Place(m)) = LastSegment(m) /\ LastSegment(Place(n)) = LastSegment(n)
  BY LastOfPlace DEF OneDatabase
<1> QED
  BY <1>1 DEF OneDatabase

-----------------------------------------------------------------------------
(* Columns. *)

IsColumns(cols) ==
    IsSequence(cols) /\ \A i \in 1..Len(cols) : cols[i] = [name |-> cols[i].name, pos |-> cols[i].pos]

Once(cols) == \A i, j \in 1..Len(cols) : cols[i].name = cols[j].name => i = j

HasName(cols, n) == \E i \in 1..Len(cols) : cols[i].name = n

LEMMA ToSetIs ==
    ASSUME NEW s, IsSequence(s)
    PROVE  DOMAIN s = 1..Len(s) /\ ToSet(s) = {s[i] : i \in 1..Len(s)} /\ Len(s) \in Nat
BY DEF IsSequence, ToSet

LEMMA NamesAre ==
    ASSUME NEW cols, IsSequence(cols), NEW n
    PROVE  n \in NamesIn(cols) <=> HasName(cols, n)
BY ToSetIs DEF NamesIn, HasName

(* ColumnAt is the first column of a name, 0 when there is none.           *)
LEMMA ColumnAtFacts ==
    ASSUME NEW cols, IsSequence(cols), NEW n
    PROVE  /\ ColumnAt(cols, n) \in 0..Len(cols)
           /\ ColumnAt(cols, n) # 0 => cols[ColumnAt(cols, n)].name = n
           /\ ColumnAt(cols, n) = 0 <=> ~HasName(cols, n)
<1> DEFINE I == {i \in 1..Len(cols) : cols[i].name = n}
<1>1. ColumnAt(cols, n) = IF I # {} THEN Min(I) ELSE 0
  BY DEF ColumnAt, SelectInSeq
<1>2. Len(cols) \in Nat /\ I \in SUBSET (1..Len(cols))
  BY DEF IsSequence
<1>3. I # {} => Min(I) \in I
  <2> HIDE DEF I
  <2> QED
    BY <1>2, MinExists
<1>4. I = {} <=> ~HasName(cols, n)
  BY DEF HasName
<1> QED
  BY <1>1, <1>2, <1>3, <1>4

(* A column of a new name at the end.                                      *)
LEMMA AppendColumn ==
    ASSUME NEW cols, IsColumns(cols), NEW n, NEW at
    PROVE  LET after == Append(cols, [name |-> n, pos |-> at])
           IN  /\ IsColumns(after)
               /\ ToSet(after) = ToSet(cols) \cup {[name |-> n, pos |-> at]}
               /\ Once(cols) /\ ~HasName(cols, n) => Once(after)
<1> DEFINE x == [name |-> n, pos |-> at]
           after == Append(cols, x)
<1> HIDE DEF x
<1>1. IsSequence(cols) /\ Len(cols) \in Nat
  BY DEF IsColumns, IsSequence
<1>2. /\ IsSequence(after) /\ Len(after) = Len(cols) + 1
      /\ \A i \in 1..Len(cols) : after[i] = cols[i]
      /\ after[Len(cols) + 1] = x
  BY <1>1, AppendFacts
<1> HIDE DEF after
<1>3. \A i \in 1..(Len(cols) + 1) : i \in 1..Len(cols) \/ i = Len(cols) + 1
  BY <1>1
<1>4. x.name = n /\ x = [name |-> x.name, pos |-> x.pos]
  BY DEF x
<1>5. IsColumns(after)
  BY <1>2, <1>3, <1>4 DEF IsColumns
<1>6. ToSet(after) = ToSet(cols) \cup {x}
  <2>1. ToSet(after) = {after[i] : i \in 1..Len(after)} /\ ToSet(cols) = {cols[i] : i \in 1..Len(cols)}
    BY <1>1, <1>2, ToSetIs
  <2>2. Len(cols) + 1 \in 1..Len(after) /\ \A i \in 1..Len(cols) : i \in 1..Len(after)
    BY <1>1, <1>2
  <2> QED
    BY <2>1, <2>2, <1>2, <1>3
<1>7. ASSUME Once(cols), ~HasName(cols, n) PROVE Once(after)
  <2>1. \A i \in 1..Len(cols) : after[i].name = cols[i].name /\ after[i].name # n
    BY <1>2, <1>7 DEF HasName
  <2> QED
    BY <2>1, <1>2, <1>3, <1>4, <1>7 DEF Once
<1> QED
  BY <1>5, <1>6, <1>7 DEF after, x

(* A column that is dropped: the others stay.                              *)
LEMMA DropColumn ==
    ASSUME NEW cols, IsColumns(cols), NEW n
    PROVE  LET after == DropSinkColumn(cols, n)
           IN  /\ IsColumns(after)
               /\ ToSet(after) \subseteq ToSet(cols)
               /\ Once(cols) => Once(after) /\ ToSet(after) = {c \in ToSet(cols) : c.name # n}
<1> DEFINE k == ColumnAt(cols, n)
           after == RemoveAt(cols, k)
<1>1. IsSequence(cols) /\ Len(cols) \in Nat /\ ToSet(cols) = {cols[i] : i \in 1..Len(cols)}
  BY ToSetIs DEF IsColumns
<1>2. /\ k \in 0..Len(cols)
      /\ k # 0 => cols[k].name = n
      /\ k = 0 <=> ~HasName(cols, n)
  BY <1>1, ColumnAtFacts
<1> HIDE DEF k
<1>3. CASE k = 0
  <2>1. DropSinkColumn(cols, n) = cols
    BY <1>3 DEF DropSinkColumn, k
  <2>2. \A c \in ToSet(cols) : c.name # n
    BY <1>1, <1>2, <1>3 DEF HasName
  <2> QED
    BY <2>1, <2>2
<1>4. CASE k # 0
  <2>1. k \in 1..Len(cols)
    BY <1>1, <1>2, <1>4
  <2>2. DropSinkColumn(cols, n) = after
    BY <1>4 DEF DropSinkColumn, k
  <2>3. /\ IsSequence(after)
        /\ \A j \in 1..Len(after) :
              /\ Before(k, j) \in 1..Len(cols) /\ Before(k, j) # k
              /\ after[j] = cols[Before(k, j)]
        /\ \A i \in 1..Len(cols) : i # k => \E j \in 1..Len(after) : Before(k, j) = i
        /\ \A i, j \in 1..Len(after) : Before(k, i) = Before(k, j) => i = j
    BY <1>1, <2>1, RemoveFacts
  <2> HIDE DEF after
  <2>4. IsColumns(after)
    BY <2>3 DEF IsColumns
  <2>5. ToSet(after) = {after[i] : i \in 1..Len(after)}
    BY <2>3, ToSetIs
  <2>6. ToSet(after) = {cols[i] : i \in 1..Len(cols) \ {k}}
    BY <2>3, <2>5
  <2>7. ASSUME Once(cols) PROVE Once(after) /\ ToSet(after) = {c \in ToSet(cols) : c.name # n}
    <3>1. \A i \in 1..Len(cols) : cols[i].name = n => i = k
      BY <1>2, <1>4, <2>1, <2>7 DEF Once
    <3>2. Once(after)
      BY <2>3, <2>7 DEF Once
    <3>3. {cols[i] : i \in 1..Len(cols) \ {k}} = {c \in {cols[i] : i \in 1..Len(cols)} : c.name # n}
      BY <1>2, <1>4, <3>1
    <3> QED
      BY <1>1, <2>6, <3>2, <3>3
  <2>8. ToSet(after) \subseteq ToSet(cols)
    BY <1>1, <2>6
  <2> QED
    BY <2>2, <2>4, <2>7, <2>8
<1> QED
  BY <1>3, <1>4

(* Where the j-th of a sequence was before one was put in at i.            *)
LEMMA InsertFacts ==
    ASSUME NEW s, IsSequence(s), NEW i \in 1..(Len(s) + 1), NEW x
    PROVE  /\ IsSequence(InsertAt(s, i, x)) /\ Len(InsertAt(s, i, x)) = Len(s) + 1
           /\ InsertAt(s, i, x)[i] = x
           /\ \A j \in 1..Len(s) : j < i => InsertAt(s, i, x)[j] = s[j]
           /\ \A j \in 1..Len(s) : j >= i => InsertAt(s, i, x)[j + 1] = s[j]
<1> DEFINE S == {s[k] : k \in 1..Len(s)} \cup {x}
           a == SubSeq(s, 1, i - 1)
           m == <<x>>
           b == SubSeq(s, i, Len(s))
<1>0. Len(s) \in Nat
  BY DEF IsSequence
<1>1. s \in Seq(S)
  BY SeqDef DEF IsSequence
<1>2. \A k \in 1..Len(s) : s[k] \in S
  OBVIOUS
<1>3. m \in Seq(S) /\ Len(m) = 1 /\ m[1] = x
  BY SeqDef
<1> HIDE DEF S
<1>4. /\ a \in Seq(S) /\ Len(a) = i - 1
      /\ \A k \in 1..(i - 1) : a[k] = s[k]
  BY <1>0, <1>2, SubSeqProperties
<1>5. /\ b \in Seq(S) /\ Len(b) = Len(s) - i + 1
      /\ \A k \in 1..(Len(s) - i + 1) : b[k] = s[k + i - 1]
  <2>1. CASE i <= Len(s)
    BY <1>0, <1>2, <2>1, SubSeqProperties
  <2>2. CASE i = Len(s) + 1
    <3>1. b = <<>>
      BY <1>0, <2>2, SubSeqProperties
    <3> QED
      BY <1>0, <2>2, <3>1
  <2> QED
    BY <1>0, <2>1, <2>2
<1>6. InsertAt(s, i, x) = (a \o m) \o b
  BY DEF InsertAt
<1> HIDE DEF a, b, m
<1>7. /\ a \o m \in Seq(S) /\ Len(a \o m) = i
      /\ \A k \in 1..(i - 1) : (a \o m)[k] = s[k]
      /\ (a \o m)[i] = x
  <2>1. /\ a \o m \in Seq(S) /\ Len(a \o m) = Len(a) + Len(m)
        /\ \A k \in 1..(Len(a) + Len(m)) : (a \o m)[k] = IF k <= Len(a) THEN a[k] ELSE m[k - Len(a)]
    BY <1>3, <1>4, ConcatProperties
  <2> QED
    BY <1>0, <1>3, <1>4, <2>1
<1> DEFINE c == a \o m
<1>8. /\ c \in Seq(S) /\ Len(c) = i
      /\ \A k \in 1..(i - 1) : c[k] = s[k]
      /\ c[i] = x
  BY <1>7
<1> HIDE DEF c
<1>9. /\ c \o b \in Seq(S) /\ Len(c \o b) = Len(c) + Len(b)
      /\ \A k \in 1..(Len(c) + Len(b)) : (c \o b)[k] = IF k <= Len(c) THEN c[k] ELSE b[k - Len(c)]
  BY <1>5, <1>8, ConcatProperties
<1>10. /\ Len(c \o b) = Len(s) + 1
       /\ (c \o b)[i] = x /\ \A j \in 1..Len(s) : j < i => (c \o b)[j] = s[j]
  BY <1>0, <1>5, <1>8, <1>9
<1>11. ASSUME NEW j \in 1..Len(s), j >= i PROVE (c \o b)[j + 1] = s[j]
  <2>1. j + 1 \in 1..(Len(c) + Len(b)) /\ ~(j + 1 <= Len(c)) /\ j + 1 - Len(c) = j - i + 1
    BY <1>0, <1>5, <1>8, <1>11
  <2>2. (c \o b)[j + 1] = b[j - i + 1]
    BY <1>9, <2>1
  <2>3. j - i + 1 \in 1..(Len(s) - i + 1) /\ (j - i + 1) + i - 1 = j
    BY <1>0, <1>11
  <2> QED
    BY <1>5, <2>2, <2>3
<1>12. IsSequence(c \o b)
  BY <1>9, LenProperties DEF IsSequence
<1>13. InsertAt(s, i, x) = c \o b
  BY <1>6 DEF c
<1> QED
  BY <1>10, <1>11, <1>12, <1>13

(* A column of a new name at the i-th place.                               *)
LEMMA InsertColumn ==
    ASSUME NEW cols, IsColumns(cols), NEW i \in 1..(Len(cols) + 1), NEW n, NEW at
    PROVE  LET after == InsertAt(cols, i, [name |-> n, pos |-> at])
           IN  /\ IsColumns(after)
               /\ ToSet(after) = ToSet(cols) \cup {[name |-> n, pos |-> at]}
               /\ Once(cols) /\ ~HasName(cols, n) => Once(after)
<1> DEFINE x == [name |-> n, pos |-> at]
           after == InsertAt(cols, i, x)
           Old(j) == IF j < i THEN j ELSE j - 1
<1> HIDE DEF x
<1>1. IsSequence(cols) /\ Len(cols) \in Nat /\ i \in Int
  BY DEF IsColumns, IsSequence
<1>2. /\ IsSequence(after) /\ Len(after) = Len(cols) + 1
      /\ after[i] = x
      /\ \A j \in 1..Len(cols) : j < i => after[j] = cols[j]
      /\ \A j \in 1..Len(cols) : j >= i => after[j + 1] = cols[j]
  BY <1>1, InsertFacts
<1> HIDE DEF after
<1>3. \A j \in 1..(Len(cols) + 1) : j # i => Old(j) \in 1..Len(cols) /\ after[j] = cols[Old(j)]
  <2> SUFFICES ASSUME NEW j \in 1..(Len(cols) + 1), j # i
               PROVE  Old(j) \in 1..Len(cols) /\ after[j] = cols[Old(j)]
    OBVIOUS
  <2>1. CASE j < i
    BY <1>1, <1>2, <2>1
  <2>2. CASE j > i
    <3>1. j - 1 \in 1..Len(cols) /\ j - 1 >= i /\ (j - 1) + 1 = j /\ Old(j) = j - 1
      BY <1>1, <2>2
    <3> QED
      BY <1>2, <3>1
  <2> QED
    BY <1>1, <2>1, <2>2
<1>4. \A j \in 1..Len(cols) : \E k \in 1..(Len(cols) + 1) : k # i /\ Old(k) = j
  <2> SUFFICES ASSUME NEW j \in 1..Len(cols)
               PROVE  \E k \in 1..(Len(cols) + 1) : k # i /\ Old(k) = j
    OBVIOUS
  <2>1. CASE j < i
    BY <1>1, <2>1
  <2>2. CASE j >= i
    <3>1. j + 1 \in 1..(Len(cols) + 1) /\ j + 1 # i /\ Old(j + 1) = j
      BY <1>1, <2>2
    <3> QED
      BY <3>1
  <2> QED
    BY <1>1, <2>1, <2>2
<1>5. \A j, k \in 1..(Len(cols) + 1) : j # i /\ k # i /\ Old(j) = Old(k) => j = k
  BY <1>1
<1>6. x.name = n /\ x = [name |-> x.name, pos |-> x.pos]
  BY DEF x
<1> HIDE DEF Old
<1>7. IsColumns(after)
  BY <1>2, <1>3, <1>6 DEF IsColumns
<1>8. ToSet(after) = ToSet(cols) \cup {x}
  <2>1. ToSet(after) = {after[j] : j \in 1..Len(after)} /\ ToSet(cols) = {cols[j] : j \in 1..Len(cols)}
    BY <1>1, <1>2, ToSetIs
  <2>2. i \in 1..Len(after)
    BY <1>2
  <2>3. ASSUME NEW j \in 1..Len(cols) PROVE cols[j] \in ToSet(after)
    BY <1>2, <1>3, <1>4, <2>1
  <2>4. ASSUME NEW j \in 1..Len(after) PROVE after[j] \in ToSet(cols) \cup {x}
    BY <1>2, <1>3, <2>1
  <2> QED
    BY <1>2, <2>1, <2>2, <2>3, <2>4
<1>9. ASSUME Once(cols), ~HasName(cols, n) PROVE Once(after)
  <2>1. \A j \in 1..(Len(cols) + 1) : j # i => after[j].name = cols[Old(j)].name /\ after[j].name # n
    BY <1>3, <1>9 DEF HasName
  <2> QED
    BY <2>1, <1>2, <1>3, <1>5, <1>6, <1>9 DEF Once
<1> QED
  BY <1>7, <1>8, <1>9 DEF after, x

(* A column that is given another name keeps its position.                 *)
NameGiven(c, n, to) == [name |-> IF c.name = n THEN to ELSE c.name, pos |-> c.pos]

IsRenamed(cols, n, to, after) ==
    /\ IsColumns(after)
    /\ \A c \in ToSet(after) : \E d \in ToSet(cols) : c.pos = d.pos
    /\ Once(cols) => ToSet(after) = {NameGiven(c, n, to) : c \in ToSet(cols)}
    /\ Once(cols) /\ ~HasName(cols, to) => Once(after)

LEMMA RenameColumn ==
    ASSUME NEW cols, IsColumns(cols), NEW n, NEW to, ColumnAt(cols, n) # 0
    PROVE  IsRenamed(cols, n, to, [cols EXCEPT ![ColumnAt(cols, n)].name = to])
<1> DEFINE k == ColumnAt(cols, n)
           x == [name |-> to, pos |-> cols[k].pos]
           after == [cols EXCEPT ![k] = x]
<1>1. IsSequence(cols) /\ Len(cols) \in Nat /\ ToSet(cols) = {cols[i] : i \in 1..Len(cols)}
  BY ToSetIs DEF IsColumns
<1>2. k \in 1..Len(cols) /\ cols[k].name = n
  BY <1>1, ColumnAtFacts
<1>3. [cols EXCEPT ![k].name = to] = after
  <2>1. cols[k] = [name |-> cols[k].name, pos |-> cols[k].pos]
    BY <1>2 DEF IsColumns
  <2>2. [cols[k] EXCEPT !.name = to] = x
    BY <2>1
  <2> HIDE DEF x, k
  <2>3. [cols EXCEPT ![k].name = to] = [cols EXCEPT ![k] = [cols[k] EXCEPT !.name = to]]
    OBVIOUS
  <2> QED
    BY <2>2, <2>3
<1> HIDE DEF k
<1>4. /\ IsSequence(after) /\ Len(after) = Len(cols)
      /\ \A i \in 1..Len(cols) : after[i] = IF i = k THEN x ELSE cols[i]
  <2>1. IsSequence(cols) /\ k \in 1..Len(cols)
    BY <1>1, <1>2
  <2> HIDE DEF x
  <2>2. IsReplaced(cols, k, x, [cols EXCEPT ![k] = x])
    BY <2>1, ReplaceFacts, Zenon
  <2> QED
    BY <2>2 DEF IsReplaced
<1>5. x = [name |-> x.name, pos |-> x.pos] /\ x.name = to /\ x.pos = cols[k].pos
  OBVIOUS
<1> HIDE DEF after, x
<1>6. IsColumns(after)
  BY <1>4, <1>5 DEF IsColumns
<1>7. \A c \in ToSet(after) : \E d \in ToSet(cols) : c.pos = d.pos
  <2>1. ToSet(after) = {after[i] : i \in 1..Len(cols)}
    BY <1>4, ToSetIs
  <2> QED
    BY <1>1, <1>2, <1>4, <1>5, <2>1
<1>8. ASSUME Once(cols) PROVE \A i \in 1..Len(cols) : after[i] = NameGiven(cols[i], n, to)
  <2> TAKE i \in 1..Len(cols)
  <2>1. CASE i = k
    BY <1>2, <1>4, <1>5, <2>1 DEF NameGiven
  <2>2. CASE i # k
    <3>1. cols[i].name # n
      BY <1>2, <1>8, <2>2 DEF Once
    <3>2. cols[i] = [name |-> cols[i].name, pos |-> cols[i].pos]
      BY DEF IsColumns
    <3> QED
      BY <1>4, <2>2, <3>1, <3>2 DEF NameGiven
  <2> QED
    BY <2>1, <2>2
<1>9. ASSUME Once(cols) PROVE ToSet(after) = {NameGiven(c, n, to) : c \in ToSet(cols)}
  <2>1. ToSet(after) = {after[i] : i \in 1..Len(cols)}
    BY <1>4, ToSetIs
  <2> QED
    BY <1>1, <1>8, <1>9, <2>1
<1>10. ASSUME Once(cols), ~HasName(cols, to) PROVE Once(after)
  <2>1. \A i \in 1..Len(cols) : after[i].name = IF i = k THEN to ELSE cols[i].name
    BY <1>4, <1>5
  <2> QED
    BY <2>1, <1>2, <1>4, <1>10 DEF Once, HasName
<1>11. IsRenamed(cols, n, to, after)
  BY <1>6, <1>7, <1>9, <1>10 DEF IsRenamed
<1> QED
  BY <1>3, <1>11 DEF k

-----------------------------------------------------------------------------
(* Columns as the reader and the warehouse have them. *)

(* A reader's columns and a warehouse's, each name once; the same sequence *)
(* when columns are added at the end only.                                 *)
Alike(x, y) ==
    /\ IsColumns(x) /\ IsColumns(y) /\ Once(x) /\ Once(y)
    /\ ToSet(x) = ToSet(y)
    /\ InOrder(Statements) => x = y

(* Columns of the statements from first on that were read before n.        *)
Dated(cols, first, n) ==
    IsColumns(cols) /\ \A c \in ToSet(cols) : c.pos.line \in first..(n - 1)

IsAction(a) ==
    /\ a.op \in {"add", "drop", "rename"}
    /\ a.op = "add" => a.where.kind \in {"end", "first", "after"}
    /\ a.seen \in BOOLEAN

LEMMA AlikeNames ==
    ASSUME NEW x, NEW y, Alike(x, y), NEW n
    PROVE  /\ n \in NamesIn(y) <=> HasName(y, n)
           /\ HasName(x, n) <=> HasName(y, n)
<1>1. NamesIn(x) = NamesIn(y)
  BY DEF Alike, NamesIn
<1>2. IsSequence(x) /\ IsSequence(y)
  BY DEF Alike, IsColumns
<1> QED
  BY <1>1, <1>2, NamesAre

LEMMA InsertAlike ==
    ASSUME NEW x, NEW y, Alike(x, y), ~InOrder(Statements), NEW n, NEW at,
           ~HasName(x, n), ~HasName(y, n), NEW i \in 1..(Len(y) + 1)
    PROVE  Alike(Append(x, [name |-> n, pos |-> at]), InsertAt(y, i, [name |-> n, pos |-> at]))
<1> DEFINE c == [name |-> n, pos |-> at]
<1>1. IsColumns(x) /\ IsColumns(y) /\ Once(x) /\ Once(y) /\ ToSet(x) = ToSet(y)
  BY DEF Alike
<1>2. IsColumns(Append(x, c)) /\ Once(Append(x, c)) /\ ToSet(Append(x, c)) = ToSet(x) \cup {c}
  BY <1>1, AppendColumn
<1>3. IsColumns(InsertAt(y, i, c)) /\ Once(InsertAt(y, i, c)) /\ ToSet(InsertAt(y, i, c)) = ToSet(y) \cup {c}
  BY <1>1, InsertColumn
<1> HIDE DEF c
<1>4. Alike(Append(x, c), InsertAt(y, i, c))
  BY <1>1, <1>2, <1>3 DEF Alike
<1> QED
  BY <1>4 DEF c

(* ADD COLUMN, wherever it says. *)
LEMMA AddAlike ==
    ASSUME NEW x, NEW y, Alike(x, y), NEW n, NEW where, NEW at,
           where.kind \in {"end", "first", "after"}, InOrder(Statements) => where.kind = "end"
    PROVE  Alike(AddSinkColumn(x, n, at), Inserted(y, where, [name |-> n, pos |-> at]))
<1> DEFINE c == [name |-> n, pos |-> at]
<1>1. /\ IsColumns(x) /\ IsColumns(y) /\ Once(x) /\ Once(y) /\ ToSet(x) = ToSet(y)
      /\ InOrder(Statements) => x = y
  BY DEF Alike
<1>2. /\ n \in NamesIn(y) <=> HasName(y, n)
      /\ HasName(x, n) <=> HasName(y, n)
  BY AlikeNames
<1>3. IsSequence(x) /\ IsSequence(y) /\ Len(y) \in Nat
  BY <1>1 DEF IsColumns, IsSequence
<1>4. ColumnAt(x, n) = 0 <=> ~HasName(x, n)
  BY <1>3, ColumnAtFacts
<1>5. c.name = n
  OBVIOUS
<1>6. CASE HasName(y, n)
  <2>1. AddSinkColumn(x, n, at) = x
    BY <1>2, <1>4, <1>6 DEF AddSinkColumn
  <2>2. Inserted(y, where, c) = y
    BY <1>2, <1>5, <1>6 DEF Inserted
  <2> QED
    BY <2>1, <2>2
<1>7. CASE ~HasName(y, n)
  <2>1. AddSinkColumn(x, n, at) = Append(x, c)
    BY <1>2, <1>4, <1>7 DEF AddSinkColumn
  <2>2. /\ IsColumns(Append(x, c)) /\ Once(Append(x, c))
        /\ ToSet(Append(x, c)) = ToSet(x) \cup {c}
    BY <1>1, <1>2, <1>7, AppendColumn
  <2>3. n \notin NamesIn(y)
    BY <1>2, <1>7
  <2>4. CASE where.kind = "end"
    <3>1. Inserted(y, where, c) = Append(y, c)
      BY <1>5, <2>3, <2>4 DEF Inserted
    <3>2. /\ IsColumns(Append(y, c)) /\ Once(Append(y, c))
          /\ ToSet(Append(y, c)) = ToSet(y) \cup {c}
      BY <1>1, <1>7, AppendColumn
    <3>3. x = y => Append(x, c) = Append(y, c)
      OBVIOUS
    <3> HIDE DEF c
    <3>4. Alike(Append(x, c), Append(y, c))
      BY <1>1, <2>2, <3>2, <3>3 DEF Alike
    <3> QED
      BY <2>1, <3>1, <3>4 DEF c
  <2>5. ASSUME NEW i \in 1..(Len(y) + 1), Inserted(y, where, c) = InsertAt(y, i, c), where.kind # "end"
        PROVE  Alike(AddSinkColumn(x, n, at), Inserted(y, where, c))
    <3>1. ~InOrder(Statements)
      BY <2>5
    <3>2. Alike(Append(x, c), InsertAt(y, i, c))
      BY <1>2, <1>7, <2>5, <3>1, InsertAlike
    <3> QED
      BY <2>1, <2>5, <3>2
  <2>6. CASE where.kind = "first"
    <3>1. Inserted(y, where, c) = InsertAt(y, 1, c)
      BY <1>5, <2>3, <2>6 DEF Inserted
    <3>2. 1 \in 1..(Len(y) + 1)
      BY <1>3
    <3> QED
      BY <2>5, <2>6, <3>1, <3>2
  <2>7. CASE where.kind = "after"
    <3> DEFINE i == ColumnAt(y, where.col) + 1
    <3>1. Inserted(y, where, c) = InsertAt(y, i, c)
      BY <1>5, <2>3, <2>7 DEF Inserted
    <3>2. ColumnAt(y, where.col) \in 0..Len(y)
      BY <1>3, ColumnAtFacts
    <3>3. i \in 1..(Len(y) + 1)
      BY <1>3, <3>2
    <3> QED
      BY <2>5, <2>7, <3>1, <3>3
  <2> QED
    BY <2>4, <2>6, <2>7
<1> QED
  BY <1>6, <1>7

(* One clause: the reader does to its columns what the warehouse does.     *)
LEMMA ActsAlike ==
    ASSUME NEW x, NEW y, Alike(x, y), NEW a, IsAction(a), NEW at, a.seen, ClauseLegal(y, a),
           InOrder(Statements) => (a.op = "add" => a.where.kind = "end")
    PROVE  Alike(Act(x, a, at), ClauseDone(y, a, at))
<1>1. /\ IsColumns(x) /\ IsColumns(y) /\ Once(x) /\ Once(y) /\ ToSet(x) = ToSet(y)
      /\ InOrder(Statements) => x = y
  BY DEF Alike
<1>2. CASE a.op = "add"
  <2>1. /\ Act(x, a, at) = AddSinkColumn(x, a.col, at)
        /\ ClauseDone(y, a, at) = Inserted(y, a.where, [name |-> a.col, pos |-> at])
    BY <1>2 DEF Act, ClauseDone
  <2>2. a.where.kind \in {"end", "first", "after"}
    BY <1>2 DEF IsAction
  <2> QED
    BY <1>2, <2>1, <2>2, AddAlike
<1>3. CASE a.op = "drop"
  <2>1. /\ Act(x, a, at) = DropSinkColumn(x, a.col)
        /\ ClauseDone(y, a, at) = DropSinkColumn(y, a.col)
    BY <1>3 DEF Act, ClauseDone, DropSinkColumn
  <2>2. /\ IsColumns(DropSinkColumn(x, a.col)) /\ Once(DropSinkColumn(x, a.col))
        /\ ToSet(DropSinkColumn(x, a.col)) = {c \in ToSet(x) : c.name # a.col}
    BY <1>1, DropColumn
  <2>3. /\ IsColumns(DropSinkColumn(y, a.col)) /\ Once(DropSinkColumn(y, a.col))
        /\ ToSet(DropSinkColumn(y, a.col)) = {c \in ToSet(y) : c.name # a.col}
    BY <1>1, DropColumn
  <2>4. ToSet(DropSinkColumn(x, a.col)) = ToSet(DropSinkColumn(y, a.col))
    BY <1>1, <2>2, <2>3
  <2>5. x = y => DropSinkColumn(x, a.col) = DropSinkColumn(y, a.col)
    OBVIOUS
  <2>6. Alike(DropSinkColumn(x, a.col), DropSinkColumn(y, a.col))
    BY <1>1, <2>2, <2>3, <2>4, <2>5 DEF Alike
  <2> QED
    BY <2>1, <2>6
<1>4. CASE a.op = "rename"
  <2> DEFINE x1 == [x EXCEPT ![ColumnAt(x, a.col)].name = a.to]
             y1 == [y EXCEPT ![ColumnAt(y, a.col)].name = a.to]
  <2>1. HasName(y, a.col) /\ ~HasName(y, a.to) /\ HasName(x, a.col) /\ ~HasName(x, a.to)
    BY <1>4, AlikeNames DEF ClauseLegal
  <2>2. ColumnAt(x, a.col) # 0 /\ ColumnAt(y, a.col) # 0
    BY <1>1, <2>1, ColumnAtFacts DEF IsColumns
  <2>3. Act(x, a, at) = x1 /\ ClauseDone(y, a, at) = y1
    BY <1>4, <2>2 DEF Act, ClauseDone
  <2>4. IsRenamed(x, a.col, a.to, x1) /\ IsRenamed(y, a.col, a.to, y1)
    BY <1>1, <2>2, RenameColumn, Zenon
  <2>5. /\ IsColumns(x1) /\ Once(x1) /\ IsColumns(y1) /\ Once(y1)
        /\ ToSet(x1) = {NameGiven(c, a.col, a.to) : c \in ToSet(x)}
        /\ ToSet(y1) = {NameGiven(c, a.col, a.to) : c \in ToSet(y)}
    <3> HIDE DEF x1, y1
    <3> QED
      BY <1>1, <2>1, <2>4 DEF IsRenamed
  <2>6. x = y => x1 = y1
    OBVIOUS
  <2> HIDE DEF x1, y1
  <2>7. Alike(x1, y1)
    BY <1>1, <2>5, <2>6 DEF Alike
  <2> QED
    BY <2>3, <2>7
<1> QED
  BY <1>2, <1>3, <1>4 DEF IsAction

(* A clause leaves the columns those of statements since the table's.      *)
LEMMA ActDated ==
    ASSUME NEW cols, NEW n \in Nat, NEW first \in 0..n, Dated(cols, first, n + 1),
           NEW a, IsAction(a), NEW at, at.line = n
    PROVE  Dated(Act(cols, a, at), first, n + 1)
<1>0. IsColumns(cols) /\ \A c \in ToSet(cols) : c.pos.line \in first..((n + 1) - 1)
  BY DEF Dated
<1>1. CASE ~a.seen
  BY <1>1 DEF Act
<1>2. CASE a.seen /\ a.op = "add"
  <2> DEFINE x == [name |-> a.col, pos |-> at]
  <2>1. Act(cols, a, at) = AddSinkColumn(cols, a.col, at)
    BY <1>2 DEF Act
  <2>2. CASE ColumnAt(cols, a.col) # 0
    BY <2>1, <2>2 DEF AddSinkColumn
  <2>3. CASE ColumnAt(cols, a.col) = 0
    <3>1. Act(cols, a, at) = Append(cols, x)
      BY <2>1, <2>3 DEF AddSinkColumn
    <3>2. IsColumns(Append(cols, x)) /\ ToSet(Append(cols, x)) = ToSet(cols) \cup {x}
      BY <1>0, AppendColumn
    <3>3. x.pos.line \in first..((n + 1) - 1)
      <4>1. x.pos.line = n
        OBVIOUS
      <4> QED
        BY <4>1
    <3> HIDE DEF x
    <3> QED
      BY <1>0, <3>1, <3>2, <3>3 DEF Dated
  <2> QED
    BY <2>2, <2>3
<1>3. CASE a.seen /\ a.op = "drop"
  <2>1. Act(cols, a, at) = DropSinkColumn(cols, a.col)
    BY <1>3 DEF Act
  <2>2. IsColumns(DropSinkColumn(cols, a.col)) /\ ToSet(DropSinkColumn(cols, a.col)) \subseteq ToSet(cols)
    BY <1>0, DropColumn
  <2> QED
    BY <1>0, <2>1, <2>2 DEF Dated
<1>4. CASE a.seen /\ a.op = "rename"
  <2> DEFINE after == [cols EXCEPT ![ColumnAt(cols, a.col)].name = a.to]
  <2>1. CASE ColumnAt(cols, a.col) = 0
    BY <1>4, <2>1 DEF Act
  <2>2. CASE ColumnAt(cols, a.col) # 0
    <3>1. Act(cols, a, at) = after
      BY <1>4, <2>2 DEF Act
    <3>2. IsRenamed(cols, a.col, a.to, after)
      BY <1>0, <2>2, RenameColumn, Zenon
    <3> HIDE DEF after
    <3>3. \A c \in ToSet(after) : c.pos.line \in first..((n + 1) - 1)
      BY <1>0, <3>2 DEF IsRenamed
    <3> QED
      BY <3>1, <3>2, <3>3 DEF Dated, IsRenamed
  <2> QED
    BY <2>1, <2>2
<1> QED
  BY <1>1, <1>2, <1>3, <1>4 DEF IsAction

-----------------------------------------------------------------------------
(* What each item, clause or pair of a statement leaves: these functions   *)
(* exist, and the last value is the statement's.                           *)
(* The columns of a list. *)
LEMMA ColumnsFollow ==
    ASSUME NEW items, NEW at, Len(items) \in Nat
    PROVE  \E after : /\ after = [k \in 0..Len(items) |->
                                    IF k = 0 THEN <<>>
                                    ELSE IF items[k].kind # "column" THEN after[k - 1]
                                    ELSE Append(after[k - 1], [name |-> items[k].name, pos |-> at])]
                      /\ ColumnsOf(items, at) = after[Len(items)]
<1> DEFINE Step(f, k) == IF k = 0 THEN <<>>
                          ELSE IF items[k].kind # "column" THEN f[k - 1]
                          ELSE Append(f[k - 1], [name |-> items[k].name, pos |-> at])
           IsTrace(f, n) == f = [k \in 0..n |-> Step(f, k)]
           S == {n \in Nat : \E f : IsTrace(f, n)}
           N == Len(items)
<1>1. 0 \in S
  <2> DEFINE f == [k \in 0..0 |-> <<>>]
  <2>1. IsTrace(f, 0)
    OBVIOUS
  <2> QED
    BY <2>1
<1>2. ASSUME NEW n \in Nat, n \in S PROVE n + 1 \in S
  <2>1. PICK f : IsTrace(f, n)
    BY <1>2
  <2> DEFINE g == [k \in 0..(n + 1) |-> IF k = n + 1 THEN Step(f, n + 1) ELSE f[k]]
  <2>2. \A k \in 0..(n + 1) : k # 0 => k - 1 \in 0..n /\ k - 1 \in 0..(n + 1) /\ k - 1 # n + 1
    OBVIOUS
  <2>3. \A k \in 0..(n + 1) : k # 0 => g[k - 1] = f[k - 1]
    BY <2>2
  <2>4. \A k \in 0..(n + 1) : Step(g, k) = Step(f, k)
    BY <2>3
  <2>5. \A k \in 0..n : f[k] = Step(f, k)
    BY <2>1
  <2>6. \A k \in 0..(n + 1) : g[k] = Step(g, k)
    BY <2>4, <2>5
  <2>7. IsTrace(g, n + 1)
    BY <2>6
  <2>8. \E x : IsTrace(x, n + 1)
    BY <2>7, Zenon
  <2> QED
    BY <2>8
<1>3. N \in S
  <2> HIDE DEF S
  <2> QED
    BY <1>1, <1>2, SetInduction
<1>4. PICK f : IsTrace(f, N)
  BY <1>3
<1> DEFINE after == CHOOSE x : IsTrace(x, N)
<1>5. IsTrace(after, N)
  BY <1>4
<1>6. ColumnsOf(items, at) = after[N]
  BY DEF ColumnsOf
<1> QED
  BY <1>5, <1>6

(* The reader's columns, after each clause of an ALTER TABLE. *)
ActedThrough(after, cols, actions, at) ==
    after = [k \in 0..Len(actions) |-> IF k = 0 THEN cols ELSE Act(after[k - 1], actions[k], at)]

LEMMA ActionsFollow ==
    ASSUME NEW cols, NEW actions, NEW at, Len(actions) \in Nat
    PROVE  \E after : /\ ActedThrough(after, cols, actions, at)
                      /\ Acted(cols, actions, at) = after[Len(actions)]
<1> DEFINE Step(f, k) == IF k = 0 THEN cols ELSE Act(f[k - 1], actions[k], at)
           IsTrace(f, n) == f = [k \in 0..n |-> Step(f, k)]
           S == {n \in Nat : \E f : IsTrace(f, n)}
           N == Len(actions)
<1>1. 0 \in S
  <2> DEFINE f == [k \in 0..0 |-> cols]
  <2>1. IsTrace(f, 0)
    OBVIOUS
  <2> QED
    BY <2>1
<1>2. ASSUME NEW n \in Nat, n \in S PROVE n + 1 \in S
  <2>1. PICK f : IsTrace(f, n)
    BY <1>2
  <2> DEFINE g == [k \in 0..(n + 1) |-> IF k = n + 1 THEN Step(f, n + 1) ELSE f[k]]
  <2>2. \A k \in 0..(n + 1) : k # 0 => k - 1 \in 0..n /\ k - 1 \in 0..(n + 1) /\ k - 1 # n + 1
    OBVIOUS
  <2>3. \A k \in 0..(n + 1) : k # 0 => g[k - 1] = f[k - 1]
    BY <2>2
  <2>4. \A k \in 0..(n + 1) : Step(g, k) = Step(f, k)
    BY <2>3
  <2>5. \A k \in 0..n : f[k] = Step(f, k)
    BY <2>1
  <2>6. \A k \in 0..(n + 1) : g[k] = Step(g, k)
    BY <2>4, <2>5
  <2>7. IsTrace(g, n + 1)
    BY <2>6
  <2>8. \E x : IsTrace(x, n + 1)
    BY <2>7, Zenon
  <2> QED
    BY <2>8
<1>3. N \in S
  <2> HIDE DEF S
  <2> QED
    BY <1>1, <1>2, SetInduction
<1>4. PICK f : IsTrace(f, N)
  BY <1>3
<1> DEFINE after == CHOOSE x : IsTrace(x, N)
<1>5. IsTrace(after, N)
  BY <1>4
<1>6. Acted(cols, actions, at) = after[N]
  BY DEF Acted
<1>7. ActedThrough(after, cols, actions, at)
  BY <1>5 DEF ActedThrough
<1> QED
  BY <1>6, <1>7

(* The warehouse's columns. *)
LEMMA ClausesFollow ==
    ASSUME NEW cols, NEW st, NEW at, Len(st.actions) \in Nat
    PROVE  \E after : /\ after = [k \in 0..Len(st.actions) |->
                                    IF k = 0 THEN <<cols>> ELSE Clause(after[k - 1], st.actions[k], at)]
                      /\ AlteredColumns(cols, st, at) = after[Len(st.actions)]
<1> DEFINE Step(f, k) == IF k = 0 THEN <<cols>> ELSE Clause(f[k - 1], st.actions[k], at)
           IsTrace(f, n) == f = [k \in 0..n |-> Step(f, k)]
           S == {n \in Nat : \E f : IsTrace(f, n)}
           N == Len(st.actions)
<1>1. 0 \in S
  <2> DEFINE f == [k \in 0..0 |-> <<cols>>]
  <2>1. IsTrace(f, 0)
    OBVIOUS
  <2> QED
    BY <2>1
<1>2. ASSUME NEW n \in Nat, n \in S PROVE n + 1 \in S
  <2>1. PICK f : IsTrace(f, n)
    BY <1>2
  <2> DEFINE g == [k \in 0..(n + 1) |-> IF k = n + 1 THEN Step(f, n + 1) ELSE f[k]]
  <2>2. \A k \in 0..(n + 1) : k # 0 => k - 1 \in 0..n /\ k - 1 \in 0..(n + 1) /\ k - 1 # n + 1
    OBVIOUS
  <2>3. \A k \in 0..(n + 1) : k # 0 => g[k - 1] = f[k - 1]
    BY <2>2
  <2>4. \A k \in 0..(n + 1) : Step(g, k) = Step(f, k)
    BY <2>3
  <2>5. \A k \in 0..n : f[k] = Step(f, k)
    BY <2>1
  <2>6. \A k \in 0..(n + 1) : g[k] = Step(g, k)
    BY <2>4, <2>5
  <2>7. IsTrace(g, n + 1)
    BY <2>6
  <2>8. \E x : IsTrace(x, n + 1)
    BY <2>7, Zenon
  <2> QED
    BY <2>8
<1>3. N \in S
  <2> HIDE DEF S
  <2> QED
    BY <1>1, <1>2, SetInduction
<1>4. PICK f : IsTrace(f, N)
  BY <1>3
<1> DEFINE after == CHOOSE x : IsTrace(x, N)
<1>5. IsTrace(after, N)
  BY <1>4
<1>6. AlteredColumns(cols, st, at) = after[N]
  BY DEF AlteredColumns
<1> QED
  BY <1>5, <1>6

(* The reader's tables. *)
LEMMA PairsFollow ==
    ASSUME NEW tables, NEW pairs, Len(pairs) \in Nat
    PROVE  \E after : /\ after = [k \in 0..Len(pairs) |->
                                    IF k = 0 THEN tables ELSE RenamePair(after[k - 1], pairs[k])]
                      /\ Renamed(tables, pairs) = after[Len(pairs)]
<1> DEFINE Step(f, k) == IF k = 0 THEN tables ELSE RenamePair(f[k - 1], pairs[k])
           IsTrace(f, n) == f = [k \in 0..n |-> Step(f, k)]
           S == {n \in Nat : \E f : IsTrace(f, n)}
           N == Len(pairs)
<1>1. 0 \in S
  <2> DEFINE f == [k \in 0..0 |-> tables]
  <2>1. IsTrace(f, 0)
    OBVIOUS
  <2> QED
    BY <2>1
<1>2. ASSUME NEW n \in Nat, n \in S PROVE n + 1 \in S
  <2>1. PICK f : IsTrace(f, n)
    BY <1>2
  <2> DEFINE g == [k \in 0..(n + 1) |-> IF k = n + 1 THEN Step(f, n + 1) ELSE f[k]]
  <2>2. \A k \in 0..(n + 1) : k # 0 => k - 1 \in 0..n /\ k - 1 \in 0..(n + 1) /\ k - 1 # n + 1
    OBVIOUS
  <2>3. \A k \in 0..(n + 1) : k # 0 => g[k - 1] = f[k - 1]
    BY <2>2
  <2>4. \A k \in 0..(n + 1) : Step(g, k) = Step(f, k)
    BY <2>3
  <2>5. \A k \in 0..n : f[k] = Step(f, k)
    BY <2>1
  <2>6. \A k \in 0..(n + 1) : g[k] = Step(g, k)
    BY <2>4, <2>5
  <2>7. IsTrace(g, n + 1)
    BY <2>6
  <2>8. \E x : IsTrace(x, n + 1)
    BY <2>7, Zenon
  <2> QED
    BY <2>8
<1>3. N \in S
  <2> HIDE DEF S
  <2> QED
    BY <1>1, <1>2, SetInduction
<1>4. PICK f : IsTrace(f, N)
  BY <1>3
<1> DEFINE after == CHOOSE x : IsTrace(x, N)
<1>5. IsTrace(after, N)
  BY <1>4
<1>6. Renamed(tables, pairs) = after[N]
  BY DEF Renamed
<1> QED
  BY <1>5, <1>6

(* The warehouse's tables. *)
LEMMA RenamesFollow ==
    ASSUME NEW w, NEW st, Len(st.pairs) \in Nat
    PROVE  \E after : /\ after = [k \in 0..Len(st.pairs) |->
                                    IF k = 0 THEN <<w.tables>> ELSE RenameOne(after[k - 1], st.pairs[k])]
                      /\ RenamedTables(w, st) = after[Len(st.pairs)]
<1> DEFINE Step(f, k) == IF k = 0 THEN <<w.tables>> ELSE RenameOne(f[k - 1], st.pairs[k])
           IsTrace(f, n) == f = [k \in 0..n |-> Step(f, k)]
           S == {n \in Nat : \E f : IsTrace(f, n)}
           N == Len(st.pairs)
<1>1. 0 \in S
  <2> DEFINE f == [k \in 0..0 |-> <<w.tables>>]
  <2>1. IsTrace(f, 0)
    OBVIOUS
  <2> QED
    BY <2>1
<1>2. ASSUME NEW n \in Nat, n \in S PROVE n + 1 \in S
  <2>1. PICK f : IsTrace(f, n)
    BY <1>2
  <2> DEFINE g == [k \in 0..(n + 1) |-> IF k = n + 1 THEN Step(f, n + 1) ELSE f[k]]
  <2>2. \A k \in 0..(n + 1) : k # 0 => k - 1 \in 0..n /\ k - 1 \in 0..(n + 1) /\ k - 1 # n + 1
    OBVIOUS
  <2>3. \A k \in 0..(n + 1) : k # 0 => g[k - 1] = f[k - 1]
    BY <2>2
  <2>4. \A k \in 0..(n + 1) : Step(g, k) = Step(f, k)
    BY <2>3
  <2>5. \A k \in 0..n : f[k] = Step(f, k)
    BY <2>1
  <2>6. \A k \in 0..(n + 1) : g[k] = Step(g, k)
    BY <2>4, <2>5
  <2>7. IsTrace(g, n + 1)
    BY <2>6
  <2>8. \E x : IsTrace(x, n + 1)
    BY <2>7, Zenon
  <2> QED
    BY <2>8
<1>3. N \in S
  <2> HIDE DEF S
  <2> QED
    BY <1>1, <1>2, SetInduction
<1>4. PICK f : IsTrace(f, N)
  BY <1>3
<1> DEFINE after == CHOOSE x : IsTrace(x, N)
<1>5. IsTrace(after, N)
  BY <1>4
<1>6. RenamedTables(w, st) = after[N]
  BY DEF RenamedTables
<1> QED
  BY <1>5, <1>6

(* A column list gives columns of its statement, each of its own name when *)
(* the list names none twice.                                              *)
IsItem(item) == item.kind = "column"

ReadSofar(cols, items, at, k) ==
    /\ IsColumns(cols)
    /\ \A c \in ToSet(cols) : c.pos = at /\ \E j \in 1..k : IsItem(items[j]) /\ items[j].name = c.name
    /\ NamesOnce(items) => Once(cols)

LEMMA ItemRead ==
    ASSUME NEW items, IsSequence(items), NEW at, NEW k \in Nat, k < Len(items), NEW cols,
           ReadSofar(cols, items, at, k), IsItem(items[k + 1]), NEW n, items[k + 1].name = n
    PROVE  ReadSofar(Append(cols, [name |-> n, pos |-> at]), items, at, k + 1)
<1> DEFINE x == [name |-> n, pos |-> at]
           after == Append(cols, x)
<1>1. /\ IsColumns(cols)
      /\ NamesOnce(items) => Once(cols)
      /\ \A c \in ToSet(cols) : c.pos = at /\ \E j \in 1..k : IsItem(items[j]) /\ items[j].name = c.name
  BY DEF ReadSofar
<1>2. /\ IsColumns(after) /\ ToSet(after) = ToSet(cols) \cup {x}
      /\ Once(cols) /\ ~HasName(cols, n) => Once(after)
  BY <1>1, AppendColumn
<1>3. k + 1 \in 1..(k + 1) /\ DOMAIN items = 1..Len(items) /\ k + 1 \in DOMAIN items
  BY ToSetIs
<1>4. \A j \in 1..k : j \in 1..(k + 1) /\ j \in DOMAIN items /\ j # k + 1
  BY <1>3
<1>5. ASSUME NamesOnce(items) PROVE ~HasName(cols, n)
  <2>1. SUFFICES ASSUME HasName(cols, n) PROVE FALSE
    OBVIOUS
  <2>2. PICK i \in 1..Len(cols) : cols[i].name = n
    BY <2>1 DEF HasName
  <2>3. cols[i] \in ToSet(cols)
    <3>1. IsSequence(cols)
      BY <1>1 DEF IsColumns
    <3> QED
      BY <3>1, ToSetIs
  <2>4. PICK j \in 1..k : IsItem(items[j]) /\ items[j].name = n
    BY <1>1, <2>2, <2>3
  <2>5. j \in DOMAIN items /\ j # k + 1
    BY <1>4
  <2> QED
    BY <1>3, <1>5, <2>4, <2>5, Zenon DEF NamesOnce, IsItem
<1>6. x.pos = at /\ x.name = items[k + 1].name
  OBVIOUS
<1>7. \A c \in ToSet(cols) \cup {x} :
          c.pos = at /\ \E j \in 1..(k + 1) : IsItem(items[j]) /\ items[j].name = c.name
  <2> HIDE DEF x
  <2> QED
    BY <1>1, <1>3, <1>4, <1>6, Zenon
<1> HIDE DEF after
<1>8. ReadSofar(after, items, at, k + 1)
  BY <1>1, <1>2, <1>5, <1>7 DEF ReadSofar
<1> QED
  BY <1>8 DEF after

LEMMA ColumnsOfFacts ==
    ASSUME NEW items, IsSequence(items), NEW at
    PROVE  /\ IsColumns(ColumnsOf(items, at))
           /\ \A c \in ToSet(ColumnsOf(items, at)) : c.pos = at
           /\ NamesOnce(items) => Once(ColumnsOf(items, at))
<1>1. Len(items) \in Nat
  BY DEF IsSequence
<1>2. PICK after :
          /\ after = [k \in 0..Len(items) |->
                        IF k = 0 THEN <<>>
                        ELSE IF items[k].kind # "column" THEN after[k - 1]
                        ELSE Append(after[k - 1], [name |-> items[k].name, pos |-> at])]
          /\ ColumnsOf(items, at) = after[Len(items)]
  BY <1>1, ColumnsFollow
<1> DEFINE S == {k \in 0..Len(items) : ReadSofar(after[k], items, at, k)}
<1>3. 0 \in S
  <2>1. after[0] = <<>> /\ 0 \in 0..Len(items)
    BY <1>1, <1>2
  <2>2. IsColumns(<<>>) /\ Once(<<>>) /\ ToSet(<<>>) = {}
    BY DEF IsColumns, Once, IsSequence, ToSet
  <2>3. ReadSofar(<<>>, items, at, 0)
    BY <2>2 DEF ReadSofar
  <2> QED
    BY <2>1, <2>3
<1>4. ASSUME NEW k \in 0..Len(items), k < Len(items), k \in S PROVE k + 1 \in S
  <2>1. k + 1 \in 0..Len(items) /\ k + 1 # 0 /\ (k + 1) - 1 = k /\ k \in Nat
    BY <1>1, <1>4
  <2>2. after[k + 1] = IF items[k + 1].kind # "column" THEN after[k]
                       ELSE Append(after[k], [name |-> items[k + 1].name, pos |-> at])
    BY <1>2, <2>1
  <2>3. ReadSofar(after[k], items, at, k)
    BY <1>4
  <2>4. CASE items[k + 1].kind # "column"
    <3>1. after[k + 1] = after[k]
      BY <2>2, <2>4
    <3>2. \A j \in 1..k : j \in 1..(k + 1)
      BY <2>1
    <3>3. ReadSofar(after[k], items, at, k + 1)
      BY <2>3, <3>2 DEF ReadSofar
    <3> QED
      BY <2>1, <3>1, <3>3
  <2>5. CASE items[k + 1].kind = "column"
    <3>1. after[k + 1] = Append(after[k], [name |-> items[k + 1].name, pos |-> at])
      BY <2>2, <2>5
    <3>2. ReadSofar(Append(after[k], [name |-> items[k + 1].name, pos |-> at]), items, at, k + 1)
      BY <1>4, <2>1, <2>3, <2>5, ItemRead DEF IsItem
    <3> QED
      BY <2>1, <3>1, <3>2
  <2> QED
    BY <2>4, <2>5
<1>5. Len(items) \in S
  <2> HIDE DEF S
  <2> QED
    BY <1>1, <1>3, <1>4, BoundedInduction
<1>6. ReadSofar(ColumnsOf(items, at), items, at, Len(items))
  BY <1>2, <1>5
<1> QED
  BY <1>6 DEF ReadSofar

(* The columns of a CREATE TABLE, in the reader and in the warehouse.      *)
LEMMA CreatedColumns ==
    ASSUME NEW items, IsSequence(items), NEW at, NEW n \in Nat, at.line = n
    PROVE  /\ Dated(ColumnsOf(items, at), n, n + 1)
           /\ NamesOnce(items) => Alike(ColumnsOf(items, at), ColumnsOf(items, at))
<1>1. /\ IsColumns(ColumnsOf(items, at))
      /\ \A c \in ToSet(ColumnsOf(items, at)) : c.pos = at
      /\ NamesOnce(items) => Once(ColumnsOf(items, at))
  BY ColumnsOfFacts
<1>2. n \in n..((n + 1) - 1)
  OBVIOUS
<1>3. Dated(ColumnsOf(items, at), n, n + 1)
  BY <1>1, <1>2 DEF Dated
<1> QED
  BY <1>1, <1>3 DEF Alike

(* A whole ALTER TABLE. *)
LEMMA ActedDated ==
    ASSUME NEW cols, NEW n \in Nat, NEW first \in 0..n, Dated(cols, first, n + 1),
           NEW actions, IsSequence(actions), \A k \in 1..Len(actions) : IsAction(actions[k]),
           NEW at, at.line = n
    PROVE  Dated(Acted(cols, actions, at), first, n + 1)
<1>1. Len(actions) \in Nat
  BY DEF IsSequence
<1>b. PICK after : /\ ActedThrough(after, cols, actions, at)
                   /\ Acted(cols, actions, at) = after[Len(actions)]
  BY <1>1, ActionsFollow, Zenon
<1>2. /\ after = [k \in 0..Len(actions) |->
                    IF k = 0 THEN cols ELSE Act(after[k - 1], actions[k], at)]
      /\ Acted(cols, actions, at) = after[Len(actions)]
  BY <1>b DEF ActedThrough
<1> DEFINE S == {k \in 0..Len(actions) : Dated(after[k], first, n + 1)}
<1>3. 0 \in S
  BY <1>1, <1>2
<1>4. ASSUME NEW k \in 0..Len(actions), k < Len(actions), k \in S PROVE k + 1 \in S
  <2>1. k + 1 \in 0..Len(actions) /\ k + 1 # 0 /\ (k + 1) - 1 = k /\ k + 1 \in 1..Len(actions)
    BY <1>1, <1>4
  <2>2. after[k + 1] = Act(after[k], actions[k + 1], at)
    BY <1>2, <2>1
  <2>3. Dated(after[k], first, n + 1) /\ IsAction(actions[k + 1])
    BY <1>4, <2>1
  <2>4. Dated(Act(after[k], actions[k + 1], at), first, n + 1)
    BY <2>3, ActDated
  <2> QED
    BY <2>1, <2>2, <2>4
<1>5. Len(actions) \in S
  <2> HIDE DEF S
  <2> QED
    BY <1>1, <1>3, <1>4, BoundedInduction
<1> QED
  BY <1>2, <1>5

IsFollowed(a) ==
    /\ IsAction(a) /\ a.seen
    /\ InOrder(Statements) => (a.op = "add" => a.where.kind = "end")

LEMMA ActedAlike ==
    ASSUME NEW x, NEW y, Alike(x, y), NEW st, NEW actions, st.actions = actions, IsSequence(actions),
           \A k \in 1..Len(actions) : IsFollowed(actions[k]),
           NEW at, AlteredColumns(y, st, at) # <<>>
    PROVE  Alike(Acted(x, actions, at), AlteredColumns(y, st, at)[1])
<1>0. Len(actions) \in Nat
  BY DEF IsSequence
<1>b. PICK u : ActedThrough(u, x, actions, at) /\ Acted(x, actions, at) = u[Len(actions)]
  BY <1>0, ActionsFollow, Zenon
<1>2. /\ u = [k \in 0..Len(actions) |-> IF k = 0 THEN x ELSE Act(u[k - 1], actions[k], at)]
      /\ Acted(x, actions, at) = u[Len(actions)]
  BY <1>b DEF ActedThrough
<1> DEFINE N == Len(actions)
<1>1. N \in Nat
  BY <1>0
<1>3. PICK c :
          /\ c = [k \in 0..N |-> IF k = 0 THEN <<y>> ELSE Clause(c[k - 1], actions[k], at)]
          /\ AlteredColumns(y, st, at) = c[N]
  BY <1>1, ClausesFollow
<1> DEFINE S == {k \in 0..N : c[k] # <<>> => Alike(u[k], c[k][1])}
<1>4. 0 \in S
  <2>1. u[0] = x /\ c[0] = <<y>> /\ 0 \in 0..N
    BY <1>1, <1>2, <1>3
  <2> QED
    BY <2>1
<1>5. ASSUME NEW k \in 0..N, k < N, k \in S PROVE k + 1 \in S
  <2>1. k + 1 \in 0..N /\ k + 1 # 0 /\ (k + 1) - 1 = k /\ k + 1 \in 1..N
    BY <1>1, <1>5
  <2> DEFINE a == actions[k + 1]
  <2>2. u[k + 1] = Act(u[k], a, at) /\ c[k + 1] = Clause(c[k], a, at)
    BY <1>2, <1>3, <2>1
  <2>3. c[k] # <<>> => Alike(u[k], c[k][1])
    BY <1>5
  <2>4. ASSUME c[k + 1] # <<>> PROVE Alike(u[k + 1], c[k + 1][1])
    <3>1. c[k] # <<>> /\ ClauseLegal(c[k][1], a) /\ c[k + 1] = <<ClauseDone(c[k][1], a, at)>>
      BY <2>2, <2>4 DEF Clause
    <3>2. IsFollowed(a)
      BY <2>1
    <3> HIDE DEF a
    <3>3. Alike(Act(u[k], a, at), ClauseDone(c[k][1], a, at))
      BY <2>3, <3>1, <3>2, ActsAlike DEF IsFollowed
    <3>4. c[k + 1][1] = ClauseDone(c[k][1], a, at)
      BY <3>1
    <3> QED
      BY <2>2, <3>3, <3>4
  <2> QED
    BY <2>1, <2>4
<1>6. N \in S
  <2> HIDE DEF S
  <2> QED
    BY <1>1, <1>4, <1>5, BoundedInduction
<1> QED
  BY <1>2, <1>3, <1>6

-----------------------------------------------------------------------------
(* Tables as the reader and the warehouse have them. *)

TableShape(t) ==
    t = [sink |-> Sink, name |-> t.name, topic |-> t.topic, columns |-> t.columns, pos |-> t.pos]

IsTable(t, n) ==
    /\ TableShape(t) /\ t.name \in Named(Statements)
    /\ t.pos.line \in 0..(n - 1) /\ Dated(t.columns, t.pos.line, n)

IsEntry(e) == e = [cols |-> e.cols, listed |-> e.listed, topics |-> e.topics] /\ e.listed \in BOOLEAN

Suits(t, e) == e.listed => Alike(t.columns, e.cols) /\ t.topic = TopicRead(e.topics)

(* Where a table may be whose columns the files do not list. *)
QueryPlaces == {Place(st.name) : st \in {x \in Statements : IsQuery(x)}}

PlaceOf(t) == Place(t.name)

IsMap(f) == f = [q \in DOMAIN f |-> f[q]]

Each(ts, f, n) ==
    \A i \in 1..Len(ts) :
        IsTable(ts[i], n) /\ PlaceOf(ts[i]) \in DOMAIN f /\ Suits(ts[i], f[PlaceOf(ts[i])])

Apart(ts) == \A i, j \in 1..Len(ts) : PlaceOf(ts[i]) = PlaceOf(ts[j]) => i = j

Holds(ts, q) == \E i \in 1..Len(ts) : PlaceOf(ts[i]) = q

Entries(f) == \A q \in DOMAIN f : IsEntry(f[q])

Nothing(ts, f) == \A q \in DOMAIN f : IF f[q].listed THEN Holds(ts, q) ELSE q \in QueryPlaces

(* The reader's tables, of the first n statements and markers, are at      *)
(* places of their own where the warehouse has one that suits; and no      *)
(* table is skipped but one whose columns the files do not list.           *)
Mirrors(ts, f, n) ==
    /\ IsSequence(ts) /\ IsMap(f)
    /\ Each(ts, f, n) /\ Apart(ts) /\ Entries(f) /\ Nothing(ts, f)

IsPut(f, q, x, g) ==
    /\ DOMAIN g = DOMAIN f \cup {q} /\ IsMap(g) /\ g[q] = x
    /\ \A p \in DOMAIN f : p # q => g[p] = f[p]

LEMMA PutFacts ==
    ASSUME NEW f, NEW q, NEW x
    PROVE  IsPut(f, q, x, Put(f, q, x))
BY DEF Put, IsMap, IsPut

LEMMA WithoutFacts ==
    ASSUME NEW f, NEW qs
    PROVE  /\ DOMAIN Without(f, qs) = DOMAIN f \ qs /\ IsMap(Without(f, qs))
           /\ \A p \in DOMAIN f \ qs : Without(f, qs)[p] = f[p]
BY DEF Without, IsMap

(* Find. *)
LEMMA FindFacts ==
    ASSUME OneDatabase(Statements), NEW ts, IsSequence(ts),
           \A i \in 1..Len(ts) : ts[i].name \in Named(Statements),
           NEW m \in Named(Statements)
    PROVE  /\ Find(ts, m) \in 0..Len(ts)
           /\ Find(ts, m) # 0 => PlaceOf(ts[Find(ts, m)]) = Place(m)
           /\ Find(ts, m) = 0 => ~Holds(ts, Place(m))
<1> DEFINE I == {i \in 1..Len(ts) : ts[i].name = m}
           J == {i \in 1..Len(ts) : LastSegment(ts[i].name) = LastSegment(m)}
           full == IF I # {} THEN Min(I) ELSE 0
           last == IF J # {} THEN Min(J) ELSE 0
<1>1. Find(ts, m) = IF full # 0 THEN full ELSE last
  BY DEF Find, SelectInSeq
<1>2. Len(ts) \in Nat /\ I \in SUBSET (1..Len(ts)) /\ J \in SUBSET (1..Len(ts))
  BY DEF IsSequence
<1>3. (I # {} => Min(I) \in I) /\ (J # {} => Min(J) \in J)
  <2> HIDE DEF I, J
  <2> QED
    BY <1>2, MinExists
<1>4. \A i \in 1..Len(ts) : i \in J <=> PlaceOf(ts[i]) = Place(m)
  BY OnePlace DEF PlaceOf
<1>5. \A i \in I : PlaceOf(ts[i]) = Place(m)
  BY DEF PlaceOf
<1>6. full \in 0..Len(ts) /\ last \in 0..Len(ts) /\ (full # 0 => full \in I) /\ (last # 0 => last \in J)
  BY <1>2, <1>3
<1>7. last = 0 => J = {}
  BY <1>2, <1>3
<1> HIDE DEF full, last
<1>8. Find(ts, m) # 0 => Find(ts, m) \in I \cup J
  BY <1>1, <1>6
<1>9. Find(ts, m) = 0 => J = {}
  BY <1>1, <1>7
<1>10. Find(ts, m) \in 0..Len(ts)
  BY <1>1, <1>6
<1>11. I \cup J \subseteq 1..Len(ts)
  BY <1>2
<1> QED
  BY <1>4, <1>5, <1>8, <1>9, <1>10, <1>11 DEF Holds

(* A table after the others, at a place no other is at.                    *)
LEMMA AppendMirrors ==
    ASSUME NEW ts, NEW f, NEW n, Mirrors(ts, f, n), NEW t, IsTable(t, n), NEW e, IsEntry(e),
           Suits(t, e), e.listed \/ PlaceOf(t) \in QueryPlaces, ~Holds(ts, PlaceOf(t))
    PROVE  Mirrors(Append(ts, t), Put(f, PlaceOf(t), e), n)
<1> DEFINE s == Append(ts, t)
           q == PlaceOf(t)
           g == Put(f, q, e)
<1>1. IsSequence(ts) /\ Len(ts) \in Nat /\ Each(ts, f, n) /\ Apart(ts) /\ Entries(f) /\ Nothing(ts, f)
  BY DEF Mirrors, IsSequence
<1>2. /\ IsSequence(s) /\ Len(s) = Len(ts) + 1
      /\ \A i \in 1..Len(ts) : s[i] = ts[i]
      /\ s[Len(ts) + 1] = t
  BY <1>1, AppendFacts
<1>3. /\ DOMAIN g = DOMAIN f \cup {q} /\ IsMap(g) /\ g[q] = e
      /\ \A p \in DOMAIN f : p # q => g[p] = f[p]
  <2>1. IsPut(f, q, e, g)
    BY PutFacts
  <2> HIDE DEF g
  <2> QED
    BY <2>1 DEF IsPut
<1> HIDE DEF s, g
<1>4. \A i \in 1..Len(s) : i \in 1..Len(ts) \/ i = Len(ts) + 1
  BY <1>1, <1>2
<1>5. \A i \in 1..Len(ts) : PlaceOf(ts[i]) # q
  BY DEF Holds
<1>6. Each(s, g, n)
  <2> SUFFICES ASSUME NEW i \in 1..Len(s)
               PROVE  IsTable(s[i], n) /\ PlaceOf(s[i]) \in DOMAIN g /\ Suits(s[i], g[PlaceOf(s[i])])
    BY DEF Each
  <2>1. CASE i \in 1..Len(ts)
    BY <1>1, <1>2, <1>3, <1>5, <2>1 DEF Each
  <2>2. CASE i = Len(ts) + 1
    BY <1>2, <1>3, <2>2
  <2> QED
    BY <1>4, <2>1, <2>2
<1>7. Apart(s)
  BY <1>1, <1>2, <1>4, <1>5 DEF Apart
<1>8. Entries(g)
  BY <1>1, <1>3 DEF Entries
<1>9. Nothing(s, g)
  <2>1. Holds(s, q)
    BY <1>1, <1>2 DEF Holds
  <2>2. ASSUME NEW p, Holds(ts, p) PROVE Holds(s, p)
    BY <1>1, <1>2, <2>2 DEF Holds
  <2>3. \A p \in DOMAIN g : p = q \/ (p \in DOMAIN f /\ p # q)
    BY <1>3
  <2> QED
    BY <1>1, <1>3, <2>1, <2>2, <2>3 DEF Nothing
<1>10. Mirrors(s, g, n)
  BY <1>2, <1>3, <1>6, <1>7, <1>8, <1>9 DEF Mirrors
<1> QED
  BY <1>10 DEF s, g

(* A table of unlisted columns. *)
LEMMA PutMirrors ==
    ASSUME NEW ts, NEW f, NEW n, Mirrors(ts, f, n), NEW q \in QueryPlaces, NEW e, IsEntry(e), ~e.listed
    PROVE  Mirrors(ts, Put(f, q, e), n)
<1> DEFINE g == Put(f, q, e)
<1>1. IsSequence(ts) /\ Each(ts, f, n) /\ Apart(ts) /\ Entries(f) /\ Nothing(ts, f)
  BY DEF Mirrors
<1>2. /\ DOMAIN g = DOMAIN f \cup {q} /\ IsMap(g) /\ g[q] = e
      /\ \A p \in DOMAIN f : p # q => g[p] = f[p]
  <2>1. IsPut(f, q, e, g)
    BY PutFacts
  <2> HIDE DEF g
  <2> QED
    BY <2>1 DEF IsPut
<1> HIDE DEF g
<1>3. \A t : Suits(t, e)
  BY DEF Suits
<1>4. Each(ts, g, n)
  BY <1>1, <1>2, <1>3 DEF Each
<1>5. Entries(g)
  BY <1>1, <1>2 DEF Entries
<1>6. Nothing(ts, g)
  BY <1>1, <1>2 DEF Nothing
<1>7. Mirrors(ts, g, n)
  BY <1>1, <1>2, <1>4, <1>5, <1>6 DEF Mirrors
<1> QED
  BY <1>7 DEF g

(* The table of a name, taken away. *)
LEMMA RemovedMirrors ==
    ASSUME OneDatabase(Statements), NEW ts, NEW f, NEW n, Mirrors(ts, f, n),
           NEW m \in Named(Statements)
    PROVE  /\ Mirrors(Removed(ts, m), Without(f, {Place(m)}), n)
           /\ ~Holds(Removed(ts, m), Place(m))
<1> DEFINE k == Find(ts, m)
           q == Place(m)
           g == Without(f, {q})
           s == Removed(ts, m)
<1>1. IsSequence(ts) /\ Each(ts, f, n) /\ Apart(ts) /\ Entries(f) /\ Nothing(ts, f)
  BY DEF Mirrors
<1>2. \A i \in 1..Len(ts) : ts[i].name \in Named(Statements)
  BY <1>1 DEF Each, IsTable
<1>3. k \in 0..Len(ts) /\ (k # 0 => PlaceOf(ts[k]) = q) /\ (k = 0 => ~Holds(ts, q))
  BY <1>1, <1>2, FindFacts
<1>4. DOMAIN g = DOMAIN f \ {q} /\ IsMap(g) /\ \A p \in DOMAIN f \ {q} : g[p] = f[p]
  BY WithoutFacts
<1>5. s = IF k = 0 THEN ts ELSE RemoveAt(ts, k)
  BY DEF Removed
<1>6. Len(ts) \in Nat
  BY <1>1 DEF IsSequence
<1>7. Entries(g)
  <2> HIDE DEF g
  <2> QED
    BY <1>1, <1>4 DEF Entries
<1>8. CASE k = 0
  <2>1. s = ts /\ \A i \in 1..Len(ts) : PlaceOf(ts[i]) # q
    BY <1>3, <1>5, <1>8 DEF Holds
  <2> HIDE DEF g, s, k
  <2>2. Each(ts, g, n)
    BY <1>1, <1>4, <2>1 DEF Each
  <2>3. Nothing(ts, g)
    BY <1>1, <1>4 DEF Nothing
  <2>4. Mirrors(ts, g, n)
    BY <1>1, <1>4, <1>7, <2>2, <2>3 DEF Mirrors
  <2> QED
    BY <1>3, <1>8, <2>1, <2>4 DEF g, s
<1>9. CASE k # 0
  <2>0. k \in 1..Len(ts)
    BY <1>3, <1>6, <1>9
  <2>1. s = RemoveAt(ts, k)
    BY <1>5, <1>9
  <2> HIDE DEF k
  <2>2. /\ IsSequence(RemoveAt(ts, k))
        /\ \A j \in 1..Len(RemoveAt(ts, k)) :
              /\ Before(k, j) \in 1..Len(ts) /\ Before(k, j) # k
              /\ RemoveAt(ts, k)[j] = ts[Before(k, j)]
        /\ \A i \in 1..Len(ts) : i # k => \E j \in 1..Len(RemoveAt(ts, k)) : Before(k, j) = i
        /\ \A i, j \in 1..Len(RemoveAt(ts, k)) : Before(k, i) = Before(k, j) => i = j
    BY <1>1, <2>0, RemoveFacts
  <2>3. /\ IsSequence(s)
        /\ \A j \in 1..Len(s) :
              /\ Before(k, j) \in 1..Len(ts) /\ Before(k, j) # k
              /\ s[j] = ts[Before(k, j)]
        /\ \A i \in 1..Len(ts) : i # k => \E j \in 1..Len(s) : Before(k, j) = i
        /\ \A i, j \in 1..Len(s) : Before(k, i) = Before(k, j) => i = j
    BY <2>1, <2>2
  <2> HIDE DEF g, s
  <2>4. PlaceOf(ts[k]) = q /\ \A i \in 1..Len(ts) : PlaceOf(ts[i]) = q => i = k
    BY <1>1, <1>3, <1>9, <2>0 DEF Apart
  <2>5. \A j \in 1..Len(s) : PlaceOf(s[j]) # q
    BY <2>3, <2>4
  <2>6. Each(s, g, n)
    BY <1>1, <1>4, <2>3, <2>5 DEF Each
  <2>7. Apart(s)
    BY <1>1, <2>3 DEF Apart
  <2>8. Nothing(s, g)
    <3>1. ASSUME NEW p, Holds(ts, p), p # q PROVE Holds(s, p)
      BY <2>3, <2>4, <3>1 DEF Holds
    <3> QED
      BY <1>1, <1>4, <3>1 DEF Nothing
  <2>9. Mirrors(s, g, n)
    BY <1>4, <1>7, <2>3, <2>6, <2>7, <2>8 DEF Mirrors
  <2> QED
    BY <2>5, <2>9 DEF g, s, Holds
<1> QED
  BY <1>8, <1>9

(* A table that stays at its place and has other columns. *)
LEMMA ReplacedMirrors ==
    ASSUME NEW ts, NEW f, NEW n, Mirrors(ts, f, n), NEW k \in 1..Len(ts), NEW t, IsTable(t, n),
           NEW q, PlaceOf(ts[k]) = q, PlaceOf(t) = q,
           NEW e, IsEntry(e), Suits(t, e), e.listed = f[q].listed
    PROVE  Mirrors([ts EXCEPT ![k] = t], [f EXCEPT ![q] = e], n)
<1> DEFINE s == [ts EXCEPT ![k] = t]
           g == [f EXCEPT ![q] = e]
<1>1. IsSequence(ts) /\ IsMap(f) /\ Each(ts, f, n) /\ Apart(ts) /\ Entries(f) /\ Nothing(ts, f)
  BY DEF Mirrors
<1>2. q \in DOMAIN f
  BY <1>1 DEF Each
<1>3. /\ IsSequence(s) /\ Len(s) = Len(ts)
      /\ \A i \in 1..Len(ts) : s[i] = IF i = k THEN t ELSE ts[i]
  <2>1. IsReplaced(ts, k, t, s)
    BY <1>1, ReplaceFacts, Zenon
  <2> HIDE DEF s
  <2> QED
    BY <2>1 DEF IsReplaced
<1>4. /\ DOMAIN g = DOMAIN f /\ g[q] = e /\ \A p \in DOMAIN f : p # q => g[p] = f[p]
  BY <1>2
<1>5. IsMap(g)
  BY DEF IsMap
<1> HIDE DEF s, g
<1>6. \A i \in 1..Len(ts) : PlaceOf(s[i]) = PlaceOf(ts[i])
  BY <1>3
<1>7. Each(s, g, n)
  <2> SUFFICES ASSUME NEW i \in 1..Len(ts)
               PROVE  IsTable(s[i], n) /\ PlaceOf(s[i]) \in DOMAIN g /\ Suits(s[i], g[PlaceOf(s[i])])
    BY <1>3 DEF Each
  <2>1. CASE i = k
    BY <1>2, <1>3, <1>4, <2>1
  <2>2. CASE i # k
    <3>1. PlaceOf(ts[i]) # q
      BY <1>1, <2>2 DEF Apart
    <3> QED
      BY <1>1, <1>3, <1>4, <2>2, <3>1 DEF Each
  <2> QED
    BY <2>1, <2>2
<1>8. Apart(s)
  BY <1>1, <1>3, <1>6 DEF Apart
<1>9. Entries(g)
  BY <1>1, <1>4 DEF Entries
<1>10. Nothing(s, g)
  <2>1. \A p : Holds(ts, p) => Holds(s, p)
    BY <1>3, <1>6 DEF Holds
  <2>2. \A p \in DOMAIN f : g[p].listed = f[p].listed
    BY <1>4
  <2> QED
    BY <1>1, <1>4, <2>1, <2>2 DEF Nothing
<1>11. Mirrors(s, g, n)
  BY <1>3, <1>5, <1>7, <1>8, <1>9, <1>10 DEF Mirrors
<1> QED
  BY <1>11 DEF s, g

(* A table that goes to another place. *)
LEMMA MovedMirrors ==
    ASSUME NEW ts, NEW f, NEW n, Mirrors(ts, f, n), NEW k \in 1..Len(ts), NEW t, IsTable(t, n),
           NEW p, PlaceOf(ts[k]) = p, NEW q, PlaceOf(t) = q, q \notin DOMAIN f,
           Suits(t, f[p]), f[p].listed
    PROVE  Mirrors([ts EXCEPT ![k] = t], Put(Without(f, {p}), q, f[p]), n)
<1> DEFINE s == [ts EXCEPT ![k] = t]
           h == Without(f, {p})
           e == f[p]
           g == Put(h, q, e)
<1>1. IsSequence(ts) /\ IsMap(f) /\ Each(ts, f, n) /\ Apart(ts) /\ Entries(f) /\ Nothing(ts, f)
  BY DEF Mirrors
<1>2. p \in DOMAIN f /\ p # q
  BY <1>1 DEF Each
<1>3. /\ IsSequence(s) /\ Len(s) = Len(ts)
      /\ \A i \in 1..Len(ts) : s[i] = IF i = k THEN t ELSE ts[i]
  <2>1. IsReplaced(ts, k, t, s)
    BY <1>1, ReplaceFacts, Zenon
  <2> HIDE DEF s
  <2> QED
    BY <2>1 DEF IsReplaced
<1>4. DOMAIN h = DOMAIN f \ {p} /\ \A x \in DOMAIN f \ {p} : h[x] = f[x]
  BY WithoutFacts
<1> HIDE DEF h
<1>5. DOMAIN g = DOMAIN h \cup {q} /\ IsMap(g) /\ g[q] = e /\ \A x \in DOMAIN h : x # q => g[x] = h[x]
  <2>1. IsPut(h, q, e, g)
    BY PutFacts
  <2> HIDE DEF g, e
  <2> QED
    BY <2>1 DEF IsPut
<1> HIDE DEF s, g
<1>6. /\ DOMAIN g = (DOMAIN f \ {p}) \cup {q} /\ g[q] = f[p]
      /\ \A x \in DOMAIN f : x # p => g[x] = f[x]
  BY <1>4, <1>5
<1>7. \A i \in 1..Len(ts) : i # k => PlaceOf(s[i]) = PlaceOf(ts[i]) /\ PlaceOf(ts[i]) # p
  BY <1>1, <1>3 DEF Apart
<1>8. PlaceOf(s[k]) = q
  BY <1>3
<1>9. \A i \in 1..Len(ts) : PlaceOf(ts[i]) \in DOMAIN f
  BY <1>1 DEF Each
<1>10. Each(s, g, n)
  <2> SUFFICES ASSUME NEW i \in 1..Len(ts)
               PROVE  IsTable(s[i], n) /\ PlaceOf(s[i]) \in DOMAIN g /\ Suits(s[i], g[PlaceOf(s[i])])
    BY <1>3 DEF Each
  <2>1. CASE i = k
    BY <1>3, <1>6, <2>1
  <2>2. CASE i # k
    BY <1>1, <1>3, <1>6, <1>7, <2>2 DEF Each
  <2> QED
    BY <2>1, <2>2
<1>11. Apart(s)
  BY <1>1, <1>3, <1>7, <1>8, <1>9 DEF Apart
<1>12. Entries(g)
  BY <1>1, <1>2, <1>6 DEF Entries
<1>13. Nothing(s, g)
  <2>1. ASSUME NEW x, Holds(ts, x), x # p PROVE Holds(s, x)
    BY <1>3, <1>7, <2>1 DEF Holds
  <2>2. Holds(s, q)
    BY <1>3, <1>8 DEF Holds
  <2> QED
    BY <1>1, <1>6, <2>1, <2>2 DEF Nothing
<1>14. Mirrors(s, g, n)
  BY <1>3, <1>5, <1>10, <1>11, <1>12, <1>13 DEF Mirrors
<1> QED
  BY <1>14 DEF s, g, h

(* Two tables that go to each other's places. *)
LEMMA SwappedMirrors ==
    ASSUME NEW ts, NEW f, NEW n, Mirrors(ts, f, n),
           NEW i \in 1..Len(ts), NEW j \in 1..Len(ts), i # j,
           NEW p, PlaceOf(ts[i]) = p, NEW q, PlaceOf(ts[j]) = q,
           NEW t, IsTable(t, n), PlaceOf(t) = q, Suits(t, f[p]), f[p].listed,
           NEW u, IsTable(u, n), PlaceOf(u) = p, Suits(u, f[q]), f[q].listed
    PROVE  Mirrors([[ts EXCEPT ![i] = t] EXCEPT ![j] = u], Swapped(f, p, q), n)
<1> DEFINE s1 == [ts EXCEPT ![i] = t]
           s == [s1 EXCEPT ![j] = u]
           g == Swapped(f, p, q)
<1>1. IsSequence(ts) /\ IsMap(f) /\ Each(ts, f, n) /\ Apart(ts) /\ Entries(f) /\ Nothing(ts, f)
  BY DEF Mirrors
<1>2. p \in DOMAIN f /\ q \in DOMAIN f /\ p # q
  BY <1>1 DEF Each, Apart
<1>3. /\ IsSequence(s1) /\ Len(s1) = Len(ts)
      /\ \A k \in 1..Len(ts) : s1[k] = IF k = i THEN t ELSE ts[k]
  <2>1. IsReplaced(ts, i, t, s1)
    BY <1>1, ReplaceFacts, Zenon
  <2> HIDE DEF s1
  <2> QED
    BY <2>1 DEF IsReplaced
<1> HIDE DEF s1
<1>4. /\ IsSequence(s) /\ Len(s) = Len(ts)
      /\ \A k \in 1..Len(ts) : s[k] = IF k = j THEN u ELSE s1[k]
  <2>0. j \in 1..Len(s1)
    BY <1>3
  <2>1. IsReplaced(s1, j, u, s)
    BY <1>3, <2>0, ReplaceFacts, Zenon
  <2> HIDE DEF s
  <2> QED
    BY <1>3, <2>1 DEF IsReplaced
<1>5. s[i] = t /\ s[j] = u /\ \A k \in 1..Len(ts) : k # i /\ k # j => s[k] = ts[k]
  BY <1>3, <1>4
<1>6. /\ DOMAIN g = DOMAIN f /\ g[p] = f[q] /\ g[q] = f[p] /\ IsMap(g)
      /\ \A x \in DOMAIN f : x # p /\ x # q => g[x] = f[x]
  BY <1>2 DEF Swapped, IsMap
<1> HIDE DEF s, g
<1>7. \A k \in 1..Len(ts) : k # i /\ k # j => PlaceOf(ts[k]) # p /\ PlaceOf(ts[k]) # q
  BY <1>1 DEF Apart
<1>8. PlaceOf(s[i]) = q /\ PlaceOf(s[j]) = p
  BY <1>5
<1>9. Each(s, g, n)
  <2> SUFFICES ASSUME NEW k \in 1..Len(ts)
               PROVE  IsTable(s[k], n) /\ PlaceOf(s[k]) \in DOMAIN g /\ Suits(s[k], g[PlaceOf(s[k])])
    BY <1>4 DEF Each
  <2>1. CASE k = i
    BY <1>2, <1>5, <1>6, <2>1
  <2>2. CASE k = j
    BY <1>2, <1>5, <1>6, <2>2
  <2>3. CASE k # i /\ k # j
    BY <1>1, <1>5, <1>6, <1>7, <2>3 DEF Each
  <2> QED
    BY <2>1, <2>2, <2>3
<1>10. Apart(s)
  <2> SUFFICES ASSUME NEW k \in 1..Len(ts), NEW l \in 1..Len(ts), PlaceOf(s[k]) = PlaceOf(s[l])
               PROVE  k = l
    BY <1>4 DEF Apart
  <2>1. k \notin {i, j} => s[k] = ts[k] /\ PlaceOf(ts[k]) # p /\ PlaceOf(ts[k]) # q
    BY <1>5, <1>7
  <2>2. l \notin {i, j} => s[l] = ts[l] /\ PlaceOf(ts[l]) # p /\ PlaceOf(ts[l]) # q
    BY <1>5, <1>7
  <2>3. k \notin {i, j} /\ l \notin {i, j} => k = l
    BY <1>1, <2>1, <2>2 DEF Apart
  <2> QED
    BY <1>2, <1>8, <2>1, <2>2, <2>3
<1>11. Entries(g)
  BY <1>1, <1>2, <1>6 DEF Entries
<1>12. Nothing(s, g)
  <2>1. ASSUME NEW x, Holds(ts, x) PROVE Holds(s, x)
    <3>1. PICK k \in 1..Len(ts) : PlaceOf(ts[k]) = x
      BY <2>1 DEF Holds
    <3>2. CASE k = i
      BY <1>4, <1>8, <3>1, <3>2 DEF Holds
    <3>3. CASE k = j
      BY <1>4, <1>8, <3>1, <3>3 DEF Holds
    <3>4. CASE k # i /\ k # j
      BY <1>4, <1>5, <3>1, <3>4 DEF Holds
    <3> QED
      BY <3>2, <3>3, <3>4
  <2>2. \A x \in DOMAIN f : g[x].listed <=> f[x].listed
    BY <1>2, <1>6
  <2> QED
    BY <1>1, <1>6, <2>1, <2>2 DEF Nothing
<1>13. Mirrors(s, g, n)
  BY <1>4, <1>6, <1>9, <1>10, <1>11, <1>12 DEF Mirrors
<1> QED
  BY <1>13 DEF s, g, s1

(* As time goes by. *)
LEMMA LaterTable ==
    ASSUME NEW n \in Nat, NEW t, IsTable(t, n)
    PROVE  IsTable(t, n + 1)
<1>1. t.pos.line \in 0..(n - 1) /\ Dated(t.columns, t.pos.line, n)
  BY DEF IsTable
<1>2. \A c \in ToSet(t.columns) : c.pos.line \in t.pos.line..(n - 1)
  BY <1>1 DEF Dated
<1>3. Dated(t.columns, t.pos.line, n + 1)
  <2>1. \A c \in ToSet(t.columns) : c.pos.line \in t.pos.line..((n + 1) - 1)
    BY <1>1, <1>2
  <2> QED
    BY <1>1, <2>1 DEF Dated
<1>4. t.pos.line \in 0..((n + 1) - 1)
  BY <1>1
<1> QED
  BY <1>3, <1>4 DEF IsTable

LEMMA LaterMirrors ==
    ASSUME NEW n \in Nat, NEW ts, NEW f, Mirrors(ts, f, n)
    PROVE  Mirrors(ts, f, n + 1)
BY LaterTable DEF Mirrors, Each

-----------------------------------------------------------------------------
(* Statements. *)

AllViewNames == UNION {ViewNames(st) : st \in Statements}

ViewPlaces == {Place(v) : v \in AllViewNames}

LEMMA FollowedNames ==
    ASSUME Followable(Statements), NEW st \in Statements
    PROVE  /\ OneDatabase(Statements) /\ Written(st)
           /\ TableNames(st) \subseteq Named(Statements)
           /\ \A n \in TableNames(st) : Place(n) \notin ViewPlaces
           /\ \A n \in Moved(st) : Place(n) \notin QueryPlaces
<1>1. OneDatabase(Statements) /\ Written(st)
  BY DEF Followable
<1>2. TableNames(st) \subseteq Named(Statements)
  BY DEF Named
<1>3. ASSUME NEW other \in Statements
      PROVE  /\ IsQuery(other) => Place(other.name) \notin {Place(n) : n \in Moved(st)}
             /\ \A v \in ViewNames(other), n \in TableNames(st) : Place(v) # Place(n)
  BY DEF Followable
<1>4. \A n \in TableNames(st) : Place(n) \notin ViewPlaces
  <2>1. SUFFICES ASSUME NEW n \in TableNames(st), Place(n) \in ViewPlaces PROVE FALSE
    OBVIOUS
  <2>2. PICK other \in Statements : \E v \in ViewNames(other) : Place(v) = Place(n)
    BY <2>1 DEF ViewPlaces, AllViewNames
  <2> QED
    BY <1>3, <2>2
<1>5. \A n \in Moved(st) : Place(n) \notin QueryPlaces
  <2>1. SUFFICES ASSUME NEW n \in Moved(st), Place(n) \in QueryPlaces PROVE FALSE
    OBVIOUS
  <2>2. PICK other \in Statements : IsQuery(other) /\ Place(other.name) = Place(n)
    BY <2>1 DEF QueryPlaces
  <2> QED
    BY <1>3, <2>2
<1> QED
  BY <1>1, <1>2, <1>4, <1>5

(* A statement about tables leaves the views as they are; the reader does  *)
(* not crash, and its tables match the warehouse's.                        *)
ReaderShape(s) == s = [tables |-> s.tables, views |-> s.views, crashed |-> s.crashed]
WarehouseShape(w) == w = [tables |-> w.tables, views |-> w.views]

TablesMatch(w, s, w2, s2, m) ==
    /\ w2 = [tables |-> w2.tables, views |-> w.views]
    /\ s2 = [tables |-> s2.tables, views |-> s.views, crashed |-> s.crashed]
    /\ Mirrors(s2.tables, w2.tables, m)

LEMMA BothChange ==
    ASSUME NEW w, NEW s, WarehouseShape(w), ReaderShape(s), NEW g, NEW ts, NEW m, Mirrors(ts, g, m)
    PROVE  TablesMatch(w, s, [w EXCEPT !.tables = g], [s EXCEPT !.tables = ts], m)
<1>1. [w EXCEPT !.tables = g] = [tables |-> g, views |-> w.views]
  BY DEF WarehouseShape
<1>2. [s EXCEPT !.tables = ts] = [tables |-> ts, views |-> s.views, crashed |-> s.crashed]
  BY DEF ReaderShape
<1> QED
  BY <1>1, <1>2 DEF TablesMatch

LEMMA ReaderChanges ==
    ASSUME NEW w, NEW s, WarehouseShape(w), ReaderShape(s), NEW ts, NEW m, Mirrors(ts, w.tables, m)
    PROVE  TablesMatch(w, s, w, [s EXCEPT !.tables = ts], m)
<1>1. [s EXCEPT !.tables = ts] = [tables |-> ts, views |-> s.views, crashed |-> s.crashed]
  BY DEF ReaderShape
<1> QED
  BY <1>1 DEF TablesMatch, WarehouseShape

LEMMA WarehouseChanges ==
    ASSUME NEW w, NEW s, WarehouseShape(w), ReaderShape(s), NEW g, NEW m, Mirrors(s.tables, g, m)
    PROVE  TablesMatch(w, s, [w EXCEPT !.tables = g], s, m)
<1>1. [w EXCEPT !.tables = g] = [tables |-> g, views |-> w.views]
  BY DEF WarehouseShape
<1> QED
  BY <1>1 DEF TablesMatch, ReaderShape

LEMMA NeitherChanges ==
    ASSUME NEW w, NEW s, WarehouseShape(w), ReaderShape(s), NEW m, Mirrors(s.tables, w.tables, m)
    PROVE  TablesMatch(w, s, w, s, m)
BY DEF TablesMatch, ReaderShape, WarehouseShape

(* What CREATE TABLE puts into each. *)
LEMMA CreatedTable ==
    ASSUME Followable(Statements), NEW st \in Statements, st.op = "create", NEW at,
           NEW n \in Nat, at.line = n, st.body # <<>>
    PROVE  IsTable(TableRead(st, at), n + 1) /\ PlaceOf(TableRead(st, at)) = Place(st.name)
<1> DEFINE t == TableRead(st, at)
<1>1. st.name \in Named(Statements)
  BY FollowedNames DEF TableNames
<1>2. IsSequence(st.body[1])
  BY FollowedNames DEF Written
<1>3. /\ TableShape(t) /\ t.name = st.name /\ t.pos = at
      /\ t.columns = ColumnsOf(st.body[1], at)
  BY DEF TableRead, TableShape
<1> HIDE DEF t
<1>4. Dated(ColumnsOf(st.body[1], at), n, n + 1)
  BY <1>2, CreatedColumns
<1>5. t.pos.line \in 0..((n + 1) - 1)
  BY <1>3
<1>6. IsTable(t, n + 1)
  BY <1>1, <1>3, <1>4, <1>5 DEF IsTable
<1> QED
  BY <1>3, <1>6 DEF PlaceOf, t

LEMMA CreatedEntry ==
    ASSUME Followable(Statements), NEW w, NEW st \in Statements, st.op = "create", NEW at,
           NEW n \in Nat, at.line = n, CreateLegal(w, st)
    PROVE  /\ IsEntry(NewTable(st, at))
           /\ NewTable(st, at).listed \/ Place(st.name) \in QueryPlaces
           /\ st.body = <<>> => ~NewTable(st, at).listed
           /\ st.body # <<>> => Suits(TableRead(st, at), NewTable(st, at))
<1> DEFINE e == NewTable(st, at)
<1>1. /\ st.form \in {"columns", "query"}
      /\ st.form = "columns" => st.body # <<>>
      /\ st.body # <<>> => IsSequence(st.body[1])
  BY FollowedNames DEF Written
<1>2. IsEntry(e)
  BY DEF NewTable, IsEntry
<1>3. e.listed <=> st.form = "columns"
  BY DEF NewTable
<1>4. st.form = "query" => Place(st.name) \in QueryPlaces
  BY DEF QueryPlaces, IsQuery
<1>5. ASSUME st.body # <<>>, st.form = "columns" PROVE Suits(TableRead(st, at), e)
  <2>1. NamesOnce(st.body[1])
    BY <1>5 DEF CreateLegal
  <2>2. Alike(ColumnsOf(st.body[1], at), ColumnsOf(st.body[1], at))
    BY <1>1, <1>5, <2>1, CreatedColumns
  <2>3. e.cols = ColumnsOf(st.body[1], at) /\ e.topics = st.topics
    BY <1>5 DEF NewTable
  <2>4. /\ TableRead(st, at).columns = ColumnsOf(st.body[1], at)
        /\ TableRead(st, at).topic = TopicRead(st.topics)
    BY DEF TableRead
  <2> QED
    BY <2>2, <2>3, <2>4 DEF Suits
<1>6. st.form # "columns" => Suits(TableRead(st, at), e)
  BY <1>3 DEF Suits
<1> QED
  BY <1>1, <1>2, <1>3, <1>4, <1>5, <1>6

(* CREATE TABLE. *)
LEMMA CreateMatches ==
    ASSUME Followable(Statements), NEW w, NEW s, WarehouseShape(w), ReaderShape(s),
           NEW n \in Nat, Mirrors(s.tables, w.tables, n + 1), DOMAIN w.views \subseteq ViewPlaces,
           NEW st \in Statements, st.op = "create", NEW at, at.line = n, CreateLegal(w, st)
    PROVE  TablesMatch(w, s, CreateDone(w, st, at), Creating(s, st, at), n + 1)
<1> DEFINE m == n + 1
           t == TableRead(st, at)
           e == NewTable(st, at)
           q == Place(st.name)
           k == Find(s.tables, st.name)
           g == Put(w.tables, q, e)
           w2 == CreateDone(w, st, at)
           s2 == Creating(s, st, at)
<1>1. /\ st.body # <<>> => IsTable(t, m) /\ PlaceOf(t) = q /\ Suits(t, e)
      /\ IsEntry(e) /\ (e.listed \/ q \in QueryPlaces)
      /\ st.body = <<>> => ~e.listed
  BY CreatedTable, CreatedEntry
<1>2. Mirrors(s.tables, w.tables, m)
  OBVIOUS
<1> HIDE DEF m
<1>3. /\ OneDatabase(Statements) /\ st.name \in Named(Statements) /\ q \notin DOMAIN w.views
      /\ st.guard \in {"", "modified", "replace", "unless"}
  BY FollowedNames DEF TableNames, Written
<1>4. /\ IsSequence(s.tables) /\ IsMap(w.tables)
      /\ Each(s.tables, w.tables, m) /\ Nothing(s.tables, w.tables) /\ Entries(w.tables)
  BY <1>2 DEF Mirrors
<1>5. (k # 0 => q \in DOMAIN w.tables) /\ (k = 0 => ~Holds(s.tables, q))
  <2>1. \A i \in 1..Len(s.tables) : s.tables[i].name \in Named(Statements)
    BY <1>4 DEF Each, IsTable
  <2>2. /\ k \in 0..Len(s.tables) /\ (k # 0 => PlaceOf(s.tables[k]) = q)
        /\ k = 0 => ~Holds(s.tables, q)
    BY <1>3, <1>4, <2>1, FindFacts
  <2>3. k # 0 => k \in 1..Len(s.tables)
    BY <1>4, <2>2 DEF IsSequence
  <2> QED
    BY <1>4, <2>2, <2>3 DEF Each
<1>6. w2 = IF st.guard = "unless" /\ q \in DOMAIN w.tables THEN w ELSE [w EXCEPT !.tables = g]
  BY <1>3 DEF CreateDone
<1>7. CASE st.body = <<>>
  <2>1. s2 = s
    BY <1>7 DEF Creating
  <2>2. q \in QueryPlaces /\ ~e.listed
    BY <1>1, <1>7
  <2>3. Mirrors(s.tables, g, m)
    BY <1>1, <1>2, <2>2, PutMirrors
  <2> HIDE DEF g, w2, s2
  <2>4. CASE w2 = w
    BY <1>2, <2>1, <2>4, NeitherChanges DEF w2, s2
  <2>5. CASE w2 = [w EXCEPT !.tables = g]
    <3>1. TablesMatch(w, s, [w EXCEPT !.tables = g], s, m)
      BY <2>3, WarehouseChanges
    <3> QED
      BY <2>1, <2>5, <3>1 DEF w2, s2, m
  <2> QED
    BY <1>6, <2>4, <2>5
<1>8. CASE st.body # <<>> /\ k = 0
  <2>1. s2 = [s EXCEPT !.tables = Append(s.tables, t)]
    BY <1>8 DEF Creating
  <2>2. IsTable(t, m) /\ PlaceOf(t) = q /\ Suits(t, e) /\ ~Holds(s.tables, q)
    BY <1>1, <1>5, <1>8
  <2> HIDE DEF t, q, e
  <2>3. CASE st.guard = "unless" /\ q \in DOMAIN w.tables
    <3>1. w2 = w
      BY <1>6, <2>3
    <3> DEFINE d == w.tables[q]
    <3>2. ~d.listed /\ q \in QueryPlaces /\ IsEntry(d)
      BY <1>4, <2>2, <2>3 DEF Nothing, Entries
    <3>3. Suits(t, d)
      BY <3>2 DEF Suits
    <3> HIDE DEF d
    <3>4. Mirrors(Append(s.tables, t), Put(w.tables, q, d), m)
      BY <1>2, <2>2, <3>2, <3>3, AppendMirrors
    <3>5. Put(w.tables, q, d) = w.tables
      BY <1>4, <2>3 DEF Put, IsMap, d
    <3>6. TablesMatch(w, s, w, [s EXCEPT !.tables = Append(s.tables, t)], m)
      BY <3>4, <3>5, ReaderChanges
    <3> QED
      BY <2>1, <3>1, <3>6 DEF m
  <2>4. CASE ~(st.guard = "unless" /\ q \in DOMAIN w.tables)
    <3>1. w2 = [w EXCEPT !.tables = g]
      BY <1>6, <2>4
    <3>2. Mirrors(Append(s.tables, t), g, m)
      BY <1>1, <1>2, <2>2, AppendMirrors
    <3>3. TablesMatch(w, s, [w EXCEPT !.tables = g], [s EXCEPT !.tables = Append(s.tables, t)], m)
      BY <3>2, BothChange
    <3> QED
      BY <2>1, <3>1, <3>3 DEF m
  <2> QED
    BY <2>3, <2>4
<1>9. CASE st.body # <<>> /\ k # 0
  <2>1. q \in DOMAIN w.tables
    BY <1>5, <1>9
  <2>2. st.guard \in {"replace", "unless"}
    BY <1>3, <2>1 DEF CreateLegal
  <2>3. CASE st.guard = "unless"
    <3>1. w2 = w /\ s2 = s
      BY <1>6, <1>9, <2>1, <2>3 DEF Creating
    <3> QED
      BY <1>2, <3>1, NeitherChanges DEF m
  <2>4. CASE st.guard = "replace"
    <3> DEFINE rest == Removed(s.tables, st.name)
               h == Without(w.tables, {q})
    <3>1. w2 = [w EXCEPT !.tables = g] /\ s2 = [s EXCEPT !.tables = Append(rest, t)]
      BY <1>6, <1>9, <2>4 DEF Creating
    <3>2. Mirrors(rest, h, m) /\ ~Holds(rest, q)
      BY <1>2, <1>3, RemovedMirrors
    <3>3. Put(h, q, e) = g
      BY DEF Put, Without
    <3>4. IsTable(t, m) /\ PlaceOf(t) = q /\ Suits(t, e)
      BY <1>1, <1>9
    <3> HIDE DEF rest, h, g, t, e, q
    <3>5. Mirrors(Append(rest, t), Put(h, q, e), m)
      BY <1>1, <3>2, <3>4, AppendMirrors
    <3>6. TablesMatch(w, s, [w EXCEPT !.tables = g], [s EXCEPT !.tables = Append(rest, t)], m)
      BY <3>3, <3>5, BothChange
    <3> QED
      BY <3>1, <3>6 DEF m
  <2> QED
    BY <2>2, <2>3, <2>4
<1> QED
  BY <1>7, <1>8, <1>9

(* What Find says of the warehouse. *)
LEMMA Known ==
    ASSUME OneDatabase(Statements), NEW ts, NEW f, NEW m, Mirrors(ts, f, m),
           NEW name \in Named(Statements)
    PROVE  /\ Find(ts, name) # 0 =>
                 /\ Find(ts, name) \in 1..Len(ts) /\ PlaceOf(ts[Find(ts, name)]) = Place(name)
                 /\ Place(name) \in DOMAIN f
           /\ Find(ts, name) = 0 /\ Place(name) \in DOMAIN f => ~f[Place(name)].listed
<1>1. IsSequence(ts) /\ Len(ts) \in Nat /\ Each(ts, f, m) /\ Nothing(ts, f)
  BY DEF Mirrors, IsSequence
<1>2. \A i \in 1..Len(ts) : ts[i].name \in Named(Statements)
  BY <1>1 DEF Each, IsTable
<1>3. /\ Find(ts, name) \in 0..Len(ts)
      /\ Find(ts, name) # 0 => PlaceOf(ts[Find(ts, name)]) = Place(name)
      /\ Find(ts, name) = 0 => ~Holds(ts, Place(name))
  BY <1>1, <1>2, FindFacts
<1>4. Find(ts, name) # 0 => Find(ts, name) \in 1..Len(ts)
  BY <1>1, <1>3
<1>5. Find(ts, name) # 0 => Place(name) \in DOMAIN f
  BY <1>1, <1>3, <1>4 DEF Each
<1>6. Find(ts, name) = 0 /\ Place(name) \in DOMAIN f => ~f[Place(name)].listed
  BY <1>1, <1>3 DEF Nothing
<1> QED
  BY <1>3, <1>4, <1>5, <1>6

(* ALTER TABLE. *)
LEMMA AlteredTable ==
    ASSUME NEW n \in Nat, NEW u, IsTable(u, n + 1), NEW actions, IsSequence(actions),
           \A k \in 1..Len(actions) : IsAction(actions[k]), NEW at, at.line = n
    PROVE  LET t == [u EXCEPT !.columns = Acted(u.columns, actions, at)]
           IN  /\ IsTable(t, n + 1) /\ PlaceOf(t) = PlaceOf(u)
               /\ t.topic = u.topic /\ t.columns = Acted(u.columns, actions, at)
<1> DEFINE c == Acted(u.columns, actions, at)
           t == [u EXCEPT !.columns = c]
<1>1. /\ TableShape(u) /\ u.name \in Named(Statements)
      /\ u.pos.line \in 0..((n + 1) - 1) /\ Dated(u.columns, u.pos.line, n + 1)
  BY DEF IsTable
<1>2. u.pos.line \in 0..n
  BY <1>1
<1>3. Dated(c, u.pos.line, n + 1)
  BY <1>1, <1>2, ActedDated
<1> HIDE DEF c
<1>4. t = [sink |-> Sink, name |-> u.name, topic |-> u.topic, columns |-> c, pos |-> u.pos]
  BY <1>1 DEF TableShape
<1>5. TableShape(t) /\ t.name = u.name /\ t.pos = u.pos /\ t.topic = u.topic /\ t.columns = c
  BY <1>4 DEF TableShape
<1> HIDE DEF t
<1>6. IsTable(t, n + 1)
  BY <1>1, <1>3, <1>5 DEF IsTable
<1> QED
  BY <1>5, <1>6 DEF PlaceOf, t, c

LEMMA AlterActions ==
    ASSUME Followable(Statements), NEW st \in Statements, st.op = "alter"
    PROVE  /\ IsSequence(st.actions) /\ st.name \in Named(Statements) /\ OneDatabase(Statements)
           /\ \A k \in 1..Len(st.actions) : IsAction(st.actions[k]) /\ IsFollowed(st.actions[k])
<1>1. /\ IsSequence(st.actions)
      /\ \A k \in DOMAIN st.actions :
            /\ st.actions[k].op \in {"add", "drop", "rename"}
            /\ st.actions[k].op = "add" => st.actions[k].where.kind \in {"end", "first", "after"}
            /\ st.actions[k].seen \in BOOLEAN
  BY FollowedNames DEF Written
<1>2. \A k \in DOMAIN st.actions : st.actions[k].seen
  BY DEF Followable
<1>3. InOrder(Statements) =>
          \A k \in DOMAIN st.actions : st.actions[k].op = "add" => st.actions[k].where.kind = "end"
  BY DEF InOrder
<1>4. \A k \in DOMAIN st.actions : IsAction(st.actions[k]) /\ IsFollowed(st.actions[k])
  BY <1>1, <1>2, <1>3 DEF IsAction, IsFollowed
<1>5. st.name \in Named(Statements) /\ OneDatabase(Statements)
  BY FollowedNames DEF TableNames
<1>6. DOMAIN st.actions = 1..Len(st.actions)
  BY <1>1, ToSetIs
<1> QED
  BY <1>1, <1>4, <1>5, <1>6

LEMMA AlterMatches ==
    ASSUME Followable(Statements), NEW w, NEW s, WarehouseShape(w), ReaderShape(s),
           NEW n \in Nat, Mirrors(s.tables, w.tables, n + 1),
           NEW st \in Statements, st.op = "alter", NEW at, at.line = n, AlterLegal(w, st, at)
    PROVE  TablesMatch(w, s, AlterDone(w, st, at), Altering(s, st, at), n + 1)
<1> DEFINE m == n + 1
           ts == s.tables
           f == w.tables
           q == Place(st.name)
           k == Find(ts, st.name)
           cols == AlteredColumns(f[q].cols, st, at)
           t == [ts[k] EXCEPT !.columns = Acted(ts[k].columns, st.actions, at)]
           e == [f[q] EXCEPT !.cols = cols[1]]
           w2 == AlterDone(w, st, at)
           s2 == Altering(s, st, at)
<1>1. /\ IsSequence(st.actions) /\ st.name \in Named(Statements) /\ OneDatabase(Statements)
      /\ \A i \in 1..Len(st.actions) : IsAction(st.actions[i]) /\ IsFollowed(st.actions[i])
  BY AlterActions
<1>2. Mirrors(ts, f, m) /\ q \in DOMAIN f /\ (f[q].listed => cols # <<>>)
  BY DEF AlterLegal
<1>3. /\ k # 0 => k \in 1..Len(ts) /\ PlaceOf(ts[k]) = q
      /\ k = 0 => ~f[q].listed
  BY <1>1, <1>2, Known
<1>4. IsSequence(ts) /\ IsMap(f) /\ Each(ts, f, m) /\ Entries(f)
  BY <1>2 DEF Mirrors
<1>5. IsEntry(f[q])
  BY <1>2, <1>4 DEF Entries
<1>6. s2 = IF k = 0 THEN s ELSE [s EXCEPT !.tables = [ts EXCEPT ![k] = t]]
  BY DEF Altering
<1>7. w2 = IF f[q].listed THEN [w EXCEPT !.tables = [f EXCEPT ![q] = e]] ELSE w
  BY DEF AlterDone
<1>8. CASE k = 0
  <2>1. s2 = s /\ w2 = w
    BY <1>3, <1>6, <1>7, <1>8
  <2> QED
    BY <1>2, <2>1, NeitherChanges
<1>9. CASE k # 0
  <2>1. k \in 1..Len(ts) /\ PlaceOf(ts[k]) = q
    BY <1>3, <1>9
  <2>2. IsTable(ts[k], m) /\ Suits(ts[k], f[q])
    BY <1>4, <2>1 DEF Each
  <2>3. /\ IsTable(t, m) /\ PlaceOf(t) = PlaceOf(ts[k])
        /\ t.topic = ts[k].topic /\ t.columns = Acted(ts[k].columns, st.actions, at)
    BY <1>1, <2>2, AlteredTable
  <2>4. s2 = [s EXCEPT !.tables = [ts EXCEPT ![k] = t]]
    BY <1>6, <1>9
  <2> HIDE DEF m, k, t, w2, s2
  <2>5. CASE ~f[q].listed
    <3> DEFINE d == f[q]
    <3>1. w2 = w
      BY <1>7, <2>5
    <3>2. Suits(t, d) /\ IsEntry(d) /\ d.listed = f[q].listed
      BY <1>5, <2>5 DEF Suits
    <3>3. [f EXCEPT ![q] = d] = f
      BY <1>4 DEF IsMap
    <3> HIDE DEF d
    <3>4. Mirrors([ts EXCEPT ![k] = t], [f EXCEPT ![q] = d], m)
      BY <1>2, <2>1, <2>3, <3>2, ReplacedMirrors
    <3>5. Mirrors([ts EXCEPT ![k] = t], f, m)
      BY <3>3, <3>4
    <3>6. TablesMatch(w, s, w, [s EXCEPT !.tables = [ts EXCEPT ![k] = t]], m)
      BY <3>5, ReaderChanges
    <3> QED
      BY <2>4, <3>1, <3>6 DEF m, w2, s2
  <2>6. CASE f[q].listed
    <3>1. w2 = [w EXCEPT !.tables = [f EXCEPT ![q] = e]]
      BY <1>7, <2>6
    <3>2. Alike(ts[k].columns, f[q].cols) /\ ts[k].topic = TopicRead(f[q].topics)
      BY <2>2, <2>6 DEF Suits
    <3>3. Alike(Acted(ts[k].columns, st.actions, at), cols[1])
      BY <1>1, <1>2, <2>6, <3>2, ActedAlike
    <3> HIDE DEF cols
    <3>4. e = [cols |-> cols[1], listed |-> f[q].listed, topics |-> f[q].topics]
      BY <1>5 DEF IsEntry
    <3>5. /\ e.cols = cols[1] /\ e.listed = f[q].listed /\ e.topics = f[q].topics
          /\ IsEntry(e)
      BY <1>5, <3>4 DEF IsEntry
    <3> HIDE DEF e
    <3>6. Suits(t, e)
      BY <2>3, <3>2, <3>3, <3>5 DEF Suits
    <3>7. Mirrors([ts EXCEPT ![k] = t], [f EXCEPT ![q] = e], m)
      BY <1>2, <2>1, <2>3, <3>5, <3>6, ReplacedMirrors
    <3>8. TablesMatch(w, s, [w EXCEPT !.tables = [f EXCEPT ![q] = e]],
                      [s EXCEPT !.tables = [ts EXCEPT ![k] = t]], m)
      BY <3>7, BothChange
    <3> QED
      BY <2>4, <3>1, <3>8 DEF m, w2, s2
  <2> QED
    BY <2>5, <2>6
<1> QED
  BY <1>8, <1>9

(* DROP TABLE. *)
LEMMA DropMatches ==
    ASSUME Followable(Statements), NEW w, NEW s, WarehouseShape(w), ReaderShape(s),
           NEW m, Mirrors(s.tables, w.tables, m), NEW st \in Statements, st.op = "drop"
    PROVE  TablesMatch(w, s, [w EXCEPT !.tables = Without(w.tables, Places(st.names))], Dropping(s, st), m)
<1> DEFINE name == st.names[1]
<1>1. IsSequence(st.names) /\ ToSet(st.names) \subseteq Named(Statements) /\ OneDatabase(Statements)
  BY FollowedNames DEF TableNames, Written
<1>2. Len(st.names) = 1
  BY DEF Followable
<1>3. ToSet(st.names) = {name}
  BY <1>1, <1>2, ToSetIs
<1>4. Places(st.names) = {Place(name)} /\ name \in Named(Statements)
  BY <1>1, <1>3 DEF Places
<1>5. Dropping(s, st) = [s EXCEPT !.tables = Removed(s.tables, name)]
  BY <1>2 DEF Dropping
<1> HIDE DEF name
<1>6. Mirrors(Removed(s.tables, name), Without(w.tables, {Place(name)}), m)
  BY <1>1, <1>4, RemovedMirrors
<1>7. TablesMatch(w, s, [w EXCEPT !.tables = Without(w.tables, {Place(name)})],
                  [s EXCEPT !.tables = Removed(s.tables, name)], m)
  BY <1>6, BothChange
<1> QED
  BY <1>4, <1>5, <1>7

(* Another name, and the rest as it is. *)
LEMMA NamedTable ==
    ASSUME NEW m, NEW u, IsTable(u, m), NEW name \in Named(Statements)
    PROVE  LET t == [u EXCEPT !.name = name]
           IN  /\ IsTable(t, m) /\ PlaceOf(t) = Place(name)
               /\ \A e : Suits(u, e) => Suits(t, e)
<1> DEFINE t == [u EXCEPT !.name = name]
<1>1. TableShape(u) /\ u.pos.line \in 0..(m - 1) /\ Dated(u.columns, u.pos.line, m)
  BY DEF IsTable
<1>2. t = [sink |-> Sink, name |-> name, topic |-> u.topic, columns |-> u.columns, pos |-> u.pos]
  BY <1>1 DEF TableShape
<1>3. /\ TableShape(t) /\ t.name = name /\ t.topic = u.topic
      /\ t.columns = u.columns /\ t.pos = u.pos
  BY <1>2 DEF TableShape
<1> HIDE DEF t
<1>4. IsTable(t, m)
  BY <1>1, <1>3 DEF IsTable
<1>5. \A e : Suits(u, e) => Suits(t, e)
  BY <1>3 DEF Suits
<1> QED
  BY <1>3, <1>4, <1>5 DEF PlaceOf, t

(* EXCHANGE TABLES. *)
LEMMA ExchangeMatches ==
    ASSUME Followable(Statements), NEW w, NEW s, WarehouseShape(w), ReaderShape(s),
           NEW m, Mirrors(s.tables, w.tables, m), NEW st \in Statements, st.op = "exchange",
           {Place(st.a), Place(st.b)} \subseteq DOMAIN w.tables
    PROVE  TablesMatch(w, s, [w EXCEPT !.tables = Swapped(w.tables, Place(st.a), Place(st.b))],
                       Exchanging(s, st), m)
<1> DEFINE ts == s.tables
           f == w.tables
           p == Place(st.a)
           q == Place(st.b)
           i == Find(ts, st.a)
           j == Find(ts, st.b)
           t == [ts[i] EXCEPT !.name = ts[j].name]
           u == [ts[j] EXCEPT !.name = ts[i].name]
           g == Swapped(f, p, q)
           x == [[ts EXCEPT ![i] = t] EXCEPT ![j] = u]
           s2 == Exchanging(s, st)
<1>1. /\ OneDatabase(Statements) /\ st.a \in Named(Statements) /\ st.b \in Named(Statements)
      /\ p \notin QueryPlaces /\ q \notin QueryPlaces
  BY FollowedNames DEF TableNames, Moved
<1>2. p \in DOMAIN f /\ q \in DOMAIN f
  OBVIOUS
<1>3. IsSequence(ts) /\ IsMap(f) /\ Each(ts, f, m) /\ Nothing(ts, f) /\ Apart(ts)
  BY DEF Mirrors
<1>4. f[p].listed /\ f[q].listed
  BY <1>1, <1>2, <1>3 DEF Nothing
<1>5. /\ i # 0 /\ i \in 1..Len(ts) /\ PlaceOf(ts[i]) = p
      /\ j # 0 /\ j \in 1..Len(ts) /\ PlaceOf(ts[j]) = q
  <2>1. i # 0 /\ j # 0
    BY <1>1, <1>2, <1>4, Known
  <2> QED
    BY <1>1, <2>1, Known
<1>6. s2 = [s EXCEPT !.tables = x]
  BY <1>5 DEF Exchanging
<1>7. /\ IsTable(ts[i], m) /\ Suits(ts[i], f[p]) /\ ts[i].name \in Named(Statements)
      /\ IsTable(ts[j], m) /\ Suits(ts[j], f[q]) /\ ts[j].name \in Named(Statements)
  BY <1>3, <1>5 DEF Each, IsTable
<1>8. IsTable(t, m) /\ PlaceOf(t) = Place(ts[j].name) /\ Suits(t, f[p])
  BY <1>7, NamedTable
<1>9. IsTable(u, m) /\ PlaceOf(u) = Place(ts[i].name) /\ Suits(u, f[q])
  BY <1>7, NamedTable
<1>10. PlaceOf(t) = q /\ PlaceOf(u) = p
  BY <1>5, <1>8, <1>9 DEF PlaceOf
<1>11. Mirrors(x, g, m)
  <2>1. CASE i # j
    <3> HIDE DEF i, j, t, u, p, q
    <3> QED
      BY <1>4, <1>5, <1>8, <1>9, <1>10, <2>1, SwappedMirrors
  <2>2. CASE i = j
    <3>1. g = f
      BY <1>3, <1>5, <2>2 DEF Swapped, IsMap
    <3>2. t = ts[i] /\ u = ts[i]
      BY <1>7, <2>2 DEF IsTable, TableShape
    <3>3. x = ts
      BY <1>3, <2>2, <3>2 DEF IsSequence
    <3> QED
      BY <3>1, <3>3
  <2> QED
    BY <2>1, <2>2
<1> HIDE DEF x, g
<1>12. TablesMatch(w, s, [w EXCEPT !.tables = g], [s EXCEPT !.tables = x], m)
  BY <1>11, BothChange
<1> QED
  BY <1>6, <1>12 DEF g

(* RENAME TABLE: one pair, and all of them. *)
LEMMA PairMatches ==
    ASSUME OneDatabase(Statements), NEW ts, NEW f, NEW m, Mirrors(ts, f, m), NEW p,
           p.from \in Named(Statements), p.to \in Named(Statements), Place(p.from) \notin QueryPlaces,
           Place(p.from) \in DOMAIN f, Place(p.to) \notin DOMAIN f
    PROVE  Mirrors(RenamePair(ts, p), Put(Without(f, {Place(p.from)}), Place(p.to), f[Place(p.from)]), m)
<1> DEFINE from == Place(p.from)
           to == Place(p.to)
           k == Find(ts, p.from)
           t == [ts[k] EXCEPT !.name = p.to]
<1>1. IsSequence(ts) /\ Each(ts, f, m) /\ Nothing(ts, f)
  BY DEF Mirrors
<1>2. f[from].listed
  BY <1>1 DEF Nothing
<1>3. k # 0
  BY <1>2, Known
<1>4. k \in 1..Len(ts) /\ PlaceOf(ts[k]) = from
  BY <1>3, Known
<1>5. IsTable(ts[k], m) /\ Suits(ts[k], f[from])
  BY <1>1, <1>4 DEF Each
<1>6. IsTable(t, m) /\ PlaceOf(t) = to /\ Suits(t, f[from])
  BY <1>5, NamedTable
<1>7. RenamePair(ts, p) = [ts EXCEPT ![k] = t]
  BY <1>3 DEF RenamePair
<1> HIDE DEF k, t, from, to
<1>8. to \notin DOMAIN f
  BY DEF to
<1>9. Mirrors([ts EXCEPT ![k] = t], Put(Without(f, {from}), to, f[from]), m)
  BY <1>2, <1>4, <1>6, <1>8, MovedMirrors
<1> QED
  BY <1>7, <1>9 DEF from, to

LEMMA RenameMatches ==
    ASSUME Followable(Statements), NEW w, NEW s, WarehouseShape(w), ReaderShape(s),
           NEW m, Mirrors(s.tables, w.tables, m), NEW st \in Statements, st.op = "rename",
           RenamedTables(w, st) # <<>>
    PROVE  TablesMatch(w, s, [w EXCEPT !.tables = RenamedTables(w, st)[1]], Renaming(s, st), m)
<1> DEFINE pairs == st.pairs
           N == Len(pairs)
<1>1. /\ OneDatabase(Statements) /\ IsSequence(pairs)
      /\ UNION {{p.from, p.to} : p \in ToSet(pairs)} \subseteq Named(Statements)
      /\ \A n \in {p.from : p \in ToSet(pairs)} : Place(n) \notin QueryPlaces
  BY FollowedNames DEF TableNames, Written, Moved
<1>2. \A p \in ToSet(pairs) :
          /\ p.from \in Named(Statements) /\ p.to \in Named(Statements)
          /\ Place(p.from) \notin QueryPlaces
  BY <1>1
<1>3. N \in Nat /\ \A k \in 1..N : pairs[k] \in ToSet(pairs)
  BY <1>1, ToSetIs
<1>4. PICK u :
          /\ u = [k \in 0..Len(pairs) |-> IF k = 0 THEN s.tables ELSE RenamePair(u[k - 1], pairs[k])]
          /\ Renamed(s.tables, pairs) = u[Len(pairs)]
  BY <1>3, PairsFollow
<1>5. PICK c :
          /\ c = [k \in 0..Len(st.pairs) |->
                    IF k = 0 THEN <<w.tables>> ELSE RenameOne(c[k - 1], st.pairs[k])]
          /\ RenamedTables(w, st) = c[Len(st.pairs)]
  BY <1>3, RenamesFollow
<1> HIDE DEF pairs
<1>6. c = [k \in 0..N |-> IF k = 0 THEN <<w.tables>> ELSE RenameOne(c[k - 1], pairs[k])]
  BY <1>5 DEF pairs
<1> DEFINE S == {k \in 0..N : c[k] # <<>> => Mirrors(u[k], c[k][1], m)}
<1>7. 0 \in S
  <2>1. u[0] = s.tables /\ c[0] = <<w.tables>> /\ 0 \in 0..N
    BY <1>3, <1>4, <1>6
  <2> QED
    BY <2>1
<1>8. ASSUME NEW k \in 0..N, k < N, k \in S PROVE k + 1 \in S
  <2>1. k + 1 \in 0..N /\ k + 1 # 0 /\ (k + 1) - 1 = k /\ k + 1 \in 1..N
    BY <1>3, <1>8
  <2> DEFINE p == pairs[k + 1]
  <2>2. u[k + 1] = RenamePair(u[k], p) /\ c[k + 1] = RenameOne(c[k], p)
    BY <1>4, <1>6, <2>1
  <2>3. c[k] # <<>> => Mirrors(u[k], c[k][1], m)
    BY <1>8
  <2>4. /\ p.from \in Named(Statements) /\ p.to \in Named(Statements)
        /\ Place(p.from) \notin QueryPlaces
    BY <1>2, <1>3, <2>1
  <2> HIDE DEF p
  <2>5. ASSUME c[k + 1] # <<>> PROVE Mirrors(u[k + 1], c[k + 1][1], m)
    <3> DEFINE f == c[k][1]
               g == Put(Without(f, {Place(p.from)}), Place(p.to), f[Place(p.from)])
    <3>1. c[k] # <<>> /\ Place(p.from) \in DOMAIN f /\ Place(p.to) \notin DOMAIN f /\ c[k + 1] = <<g>>
      BY <2>2, <2>5 DEF RenameOne
    <3>2. Mirrors(RenamePair(u[k], p), g, m)
      BY <1>1, <2>3, <2>4, <3>1, PairMatches
    <3>3. c[k + 1][1] = g
      BY <3>1
    <3> QED
      BY <2>2, <3>2, <3>3
  <2> QED
    BY <2>1, <2>5
<1>9. N \in S
  <2> HIDE DEF S, N
  <2> QED
    BY <1>3, <1>7, <1>8, BoundedInduction
<1> DEFINE ts == Renamed(s.tables, st.pairs)
           g == RenamedTables(w, st)[1]
<1>10. Mirrors(ts, g, m)
  BY <1>4, <1>5, <1>9 DEF pairs
<1>11. Renaming(s, st) = [s EXCEPT !.tables = ts]
  BY DEF Renaming
<1> HIDE DEF ts, g
<1>12. TablesMatch(w, s, [w EXCEPT !.tables = g], [s EXCEPT !.tables = ts], m)
  BY <1>10, BothChange
<1> QED
  BY <1>11, <1>12 DEF g

-----------------------------------------------------------------------------
(* Views. *)

IsView(v, n) ==
    /\ v = [name |-> v.name, target |-> v.target, refreshable |-> v.refreshable,
            columns |-> v.columns, pos |-> v.pos]
    /\ v.pos.line \in 0..(n - 1)

ViewList(vs, n) == IsSequence(vs) /\ \A k \in 1..Len(vs) : IsView(vs[k], n)

ShownAs(v) ==
    [target |-> Place(v.target), refreshable |-> v.refreshable, columns |-> v.columns, pos |-> v.pos]

(* A view into one table whose columns the files list. *)
Judged(v) ==
    /\ v.name \in AllViewNames /\ IsSequence(v.columns)
    /\ v.target \in Named(Statements) /\ Len(v.target) = 1 /\ Place(v.target) \notin QueryPlaces

(* Every view that was read is the warehouse's of its place, and each of   *)
(* the warehouse's was read once.                                          *)
ViewsMatch(vs, g) ==
    /\ IsMap(g)
    /\ \A k \in 1..Len(vs) :
          Judged(vs[k]) /\ PlaceOf(vs[k]) \in DOMAIN g /\ g[PlaceOf(vs[k])] = ShownAs(vs[k])
    /\ Apart(vs)
    /\ \A q \in DOMAIN g : Holds(vs, q)

LEMMA OneViewName ==
    ASSUME ViewsFollowable(Statements), NEW m \in AllViewNames, NEW n \in AllViewNames,
           Place(m) = Place(n)
    PROVE  m = n
<1>1. PICK st \in Statements : m \in ViewNames(st)
  BY DEF AllViewNames
<1>2. PICK other \in Statements : n \in ViewNames(other)
  BY DEF AllViewNames
<1>3. \A x \in ViewNames(st), y \in ViewNames(other) : Place(x) = Place(y) => x = y
  BY DEF ViewsFollowable
<1> QED
  BY <1>1, <1>2, <1>3

(* CREATE MATERIALIZED VIEW. *)
LEMMA AppendView ==
    ASSUME NEW vs, IsSequence(vs), NEW g, ViewsMatch(vs, g), NEW v, Judged(v), PlaceOf(v) \notin DOMAIN g
    PROVE  ViewsMatch(Append(vs, v), Put(g, PlaceOf(v), ShownAs(v)))
<1> DEFINE s == Append(vs, v)
           q == PlaceOf(v)
           e == ShownAs(v)
           h == Put(g, q, e)
<1>1. /\ Len(vs) \in Nat /\ Apart(vs)
      /\ \A k \in 1..Len(vs) :
            Judged(vs[k]) /\ PlaceOf(vs[k]) \in DOMAIN g /\ g[PlaceOf(vs[k])] = ShownAs(vs[k])
      /\ \A x \in DOMAIN g : Holds(vs, x)
  BY DEF ViewsMatch, IsSequence
<1>2. /\ Len(s) = Len(vs) + 1
      /\ \A i \in 1..Len(vs) : s[i] = vs[i]
      /\ s[Len(vs) + 1] = v
  BY AppendFacts
<1>3. DOMAIN h = DOMAIN g \cup {q} /\ IsMap(h) /\ h[q] = e /\ \A p \in DOMAIN g : p # q => h[p] = g[p]
  <2>1. IsPut(g, q, e, h)
    BY PutFacts
  <2> HIDE DEF h, e
  <2> QED
    BY <2>1 DEF IsPut
<1> HIDE DEF s, h
<1>4. \A i \in 1..Len(s) : i \in 1..Len(vs) \/ i = Len(vs) + 1
  BY <1>1, <1>2
<1>5. \A i \in 1..Len(vs) : PlaceOf(vs[i]) # q
  BY <1>1
<1>6. \A k \in 1..Len(s) :
          Judged(s[k]) /\ PlaceOf(s[k]) \in DOMAIN h /\ h[PlaceOf(s[k])] = ShownAs(s[k])
  <2> TAKE k \in 1..Len(s)
  <2>1. CASE k \in 1..Len(vs)
    BY <1>1, <1>2, <1>3, <1>5, <2>1
  <2>2. CASE k = Len(vs) + 1
    BY <1>2, <1>3, <2>2
  <2> QED
    BY <1>4, <2>1, <2>2
<1>7. Apart(s)
  BY <1>1, <1>2, <1>4, <1>5 DEF Apart
<1>8. \A x \in DOMAIN h : Holds(s, x)
  <2>1. Holds(s, q)
    BY <1>1, <1>2 DEF Holds
  <2>2. ASSUME NEW x, Holds(vs, x) PROVE Holds(s, x)
    BY <1>1, <1>2, <2>2 DEF Holds
  <2> QED
    BY <1>1, <1>3, <2>1, <2>2
<1>9. ViewsMatch(s, h)
  BY <1>3, <1>6, <1>7, <1>8 DEF ViewsMatch
<1> QED
  BY <1>9 DEF s, h

(* DROP VIEW, of the first view of that name. *)
ViewAt(vs, name) == SelectInSeq(vs, LAMBDA v : v.name = name)

LEMMA ViewAtFacts ==
    ASSUME NEW vs, IsSequence(vs), NEW name
    PROVE  /\ ViewAt(vs, name) \in 0..Len(vs)
           /\ ViewAt(vs, name) # 0 =>
                 ViewAt(vs, name) \in 1..Len(vs) /\ vs[ViewAt(vs, name)].name = name
           /\ ViewAt(vs, name) = 0 => \A i \in 1..Len(vs) : vs[i].name # name
<1> DEFINE I == {i \in 1..Len(vs) : vs[i].name = name}
<1>1. ViewAt(vs, name) = IF I # {} THEN Min(I) ELSE 0
  BY DEF ViewAt, SelectInSeq
<1>2. Len(vs) \in Nat /\ I \in SUBSET (1..Len(vs))
  BY DEF IsSequence
<1>3. I # {} => Min(I) \in I
  <2> HIDE DEF I
  <2> QED
    BY <1>2, MinExists
<1> QED
  BY <1>1, <1>2, <1>3

LEMMA RemoveView ==
    ASSUME ViewsFollowable(Statements), NEW vs, IsSequence(vs), NEW g, ViewsMatch(vs, g),
           NEW name \in AllViewNames, NEW k, k = ViewAt(vs, name)
    PROVE  /\ k = 0 => ViewsMatch(vs, Without(g, {Place(name)}))
           /\ k # 0 => ViewsMatch(RemoveAt(vs, k), Without(g, {Place(name)}))
<1> DEFINE q == Place(name)
           h == Without(g, {q})
           s == RemoveAt(vs, k)
<1>1. /\ IsMap(g) /\ Apart(vs)
      /\ \A i \in 1..Len(vs) :
            Judged(vs[i]) /\ PlaceOf(vs[i]) \in DOMAIN g /\ g[PlaceOf(vs[i])] = ShownAs(vs[i])
      /\ \A x \in DOMAIN g : Holds(vs, x)
  BY DEF ViewsMatch
<1>2. \A i \in 1..Len(vs) : PlaceOf(vs[i]) = q => vs[i].name = name
  BY <1>1, OneViewName DEF Judged, PlaceOf
<1>3. DOMAIN h = DOMAIN g \ {q} /\ IsMap(h) /\ \A p \in DOMAIN g \ {q} : h[p] = g[p]
  BY WithoutFacts
<1>4. /\ k # 0 => k \in 1..Len(vs) /\ vs[k].name = name
      /\ k = 0 => \A i \in 1..Len(vs) : vs[i].name # name
  BY ViewAtFacts
<1>5. ASSUME k = 0 PROVE ViewsMatch(vs, h)
  <2>1. \A i \in 1..Len(vs) : PlaceOf(vs[i]) # q
    BY <1>2, <1>4, <1>5
  <2>2. q \notin DOMAIN g
    BY <1>1, <2>1 DEF Holds
  <2>3. h = g
    BY <1>1, <2>2 DEF Without, IsMap
  <2> QED
    BY <2>3
<1>6. ASSUME k # 0 PROVE ViewsMatch(s, h)
  <2>0. k \in 1..Len(vs) /\ PlaceOf(vs[k]) = q
    BY <1>4, <1>6 DEF PlaceOf
  <2>1. /\ IsSequence(s)
        /\ \A j \in 1..Len(s) :
              Before(k, j) \in 1..Len(vs) /\ Before(k, j) # k /\ s[j] = vs[Before(k, j)]
        /\ \A i \in 1..Len(vs) : i # k => \E j \in 1..Len(s) : Before(k, j) = i
        /\ \A i, j \in 1..Len(s) : Before(k, i) = Before(k, j) => i = j
    BY <2>0, RemoveFacts
  <2> HIDE DEF s, h
  <2>2. \A i \in 1..Len(vs) : i # k => PlaceOf(vs[i]) # q
    BY <1>1, <2>0 DEF Apart
  <2>3. \A j \in 1..Len(s) :
            Judged(s[j]) /\ PlaceOf(s[j]) \in DOMAIN h /\ h[PlaceOf(s[j])] = ShownAs(s[j])
    BY <1>1, <1>3, <2>1, <2>2
  <2>4. Apart(s)
    BY <1>1, <2>1 DEF Apart
  <2>5. \A x \in DOMAIN h : Holds(s, x)
    <3>1. ASSUME NEW x, Holds(vs, x), x # q PROVE Holds(s, x)
      BY <2>0, <2>1, <3>1 DEF Holds
    <3> QED
      BY <1>1, <1>3, <3>1
  <2> QED
    BY <1>3, <2>3, <2>4, <2>5 DEF ViewsMatch
<1> QED
  BY <1>5, <1>6

-----------------------------------------------------------------------------
(* A statement, whatever it is. *)

(* Which of its statements a statement is. *)
LEMMA CreateIs ==
    ASSUME NEW w, NEW s, NEW st, NEW at, st.op = "create"
    PROVE  /\ Executed(w, st, at) = CreateDone(w, st, at)
           /\ Read(s, st, at) = Creating(s, st, at)
<1>1. Executed(w, st, at) = CreateDone(w, st, at)
  BY DEF Executed
<1>2. Read(s, st, at) = Creating(s, st, at)
  BY DEF Read, HookClaims, Claimed
<1> QED
  BY <1>1, <1>2

LEMMA AlterIs ==
    ASSUME NEW w, NEW s, NEW st, NEW at, st.op = "alter"
    PROVE  /\ Executed(w, st, at) = AlterDone(w, st, at)
           /\ Read(s, st, at) = Altering(s, st, at)
<1>1. Executed(w, st, at) = AlterDone(w, st, at)
  BY DEF Executed
<1>2. Read(s, st, at) = Altering(s, st, at)
  BY DEF Read, HookClaims, Claimed
<1> QED
  BY <1>1, <1>2

LEMMA DropIs ==
    ASSUME NEW w, NEW s, NEW st, NEW at, st.op = "drop"
    PROVE  /\ Executed(w, st, at) = [w EXCEPT !.tables = Without(w.tables, Places(st.names))]
           /\ Read(s, st, at) = Dropping(s, st)
<1>1. Executed(w, st, at) = [w EXCEPT !.tables = Without(w.tables, Places(st.names))]
  BY DEF Executed
<1>2. Read(s, st, at) = Dropping(s, st)
  BY DEF Read, HookClaims, Claimed
<1> QED
  BY <1>1, <1>2

LEMMA ExchangeIs ==
    ASSUME NEW w, NEW s, NEW st, NEW at, st.op = "exchange", Sink = "clickhouse"
    PROVE  /\ Executed(w, st, at) = [w EXCEPT !.tables = Swapped(w.tables, Place(st.a), Place(st.b))]
           /\ Read(s, st, at) = Exchanging(s, st)
<1>1. Executed(w, st, at) = [w EXCEPT !.tables = Swapped(w.tables, Place(st.a), Place(st.b))]
  BY DEF Executed
<1>2. Read(s, st, at) = Exchanging(s, st)
  BY DEF Read, HookClaims, Claimed
<1> QED
  BY <1>1, <1>2

LEMMA RenameIs ==
    ASSUME NEW w, NEW s, NEW st, NEW at, st.op = "rename", Sink = "clickhouse"
    PROVE  /\ Executed(w, st, at) = [w EXCEPT !.tables = RenamedTables(w, st)[1]]
           /\ Read(s, st, at) = Renaming(s, st)
<1>1. Executed(w, st, at) = [w EXCEPT !.tables = RenamedTables(w, st)[1]]
  BY DEF Executed
<1>2. Read(s, st, at) = Renaming(s, st)
  BY DEF Read, HookClaims, Claimed
<1> QED
  BY <1>1, <1>2

LEMMA CreateViewIs ==
    ASSUME NEW w, NEW s, NEW st, NEW at, st.op = "createview"
    PROVE  /\ st.guard = "unless" /\ Place(st.name) \in DOMAIN w.views => Executed(w, st, at) = w
           /\ ~(st.guard = "unless" /\ Place(st.name) \in DOMAIN w.views) =>
                 Executed(w, st, at) = [w EXCEPT !.views = Put(w.views, Place(st.name), ViewOf(st, at))]
           /\ Sink = "clickhouse" => Read(s, st, at) = AddView(s, st, at)
           /\ Sink # "clickhouse" => Read(s, st, at) = s
<1>1. st.guard = "unless" /\ Place(st.name) \in DOMAIN w.views => Executed(w, st, at) = w
  BY DEF Executed
<1>4. ~(st.guard = "unless" /\ Place(st.name) \in DOMAIN w.views) =>
          Executed(w, st, at) = [w EXCEPT !.views = Put(w.views, Place(st.name), ViewOf(st, at))]
  BY DEF Executed
<1>2. Sink = "clickhouse" => Read(s, st, at) = AddView(s, st, at)
  BY DEF Read, HookClaims, Claimed
<1>3. Sink # "clickhouse" => Read(s, st, at) = s
  BY DEF Read, HookClaims, Claimed
<1> QED
  BY <1>1, <1>2, <1>3, <1>4

LEMMA DropViewIs ==
    ASSUME NEW w, NEW s, NEW st, NEW at, st.op = "dropview"
    PROVE  /\ Executed(w, st, at) = [w EXCEPT !.views = Without(w.views, {Place(st.name)})]
           /\ Sink = "clickhouse" => Read(s, st, at) = DropView(s, st)
           /\ Sink # "clickhouse" => Read(s, st, at) = s
<1>1. Executed(w, st, at) = [w EXCEPT !.views = Without(w.views, {Place(st.name)})]
  BY DEF Executed
<1>2. Sink = "clickhouse" => Read(s, st, at) = DropView(s, st)
  BY DEF Read, HookClaims, Claimed
<1>3. Sink # "clickhouse" => Read(s, st, at) = s
  BY DEF Read, HookClaims, Claimed
<1> QED
  BY <1>1, <1>2, <1>3

(* The reader and the warehouse after n statements and markers.            *)
Matched(w, s, n) ==
    /\ WarehouseShape(w) /\ ReaderShape(s) /\ s.crashed = FALSE
    /\ Mirrors(s.tables, w.tables, n)
    /\ DOMAIN w.views \subseteq ViewPlaces /\ ViewList(s.views, n)
    /\ ViewsFollowable(Statements) => ViewsMatch(s.views, w.views)

LEMMA LaterViews ==
    ASSUME NEW n \in Nat, NEW vs, ViewList(vs, n)
    PROVE  ViewList(vs, n + 1)
<1>1. IsSequence(vs) /\ \A k \in 1..Len(vs) : IsView(vs[k], n)
  BY DEF ViewList
<1>2. ASSUME NEW v, IsView(v, n) PROVE IsView(v, n + 1)
  <2>1. v.pos.line \in 0..(n - 1)
    BY <1>2 DEF IsView
  <2>2. v.pos.line \in 0..((n + 1) - 1)
    BY <2>1
  <2> QED
    BY <1>2, <2>2 DEF IsView
<1> QED
  BY <1>1, <1>2 DEF ViewList

LEMMA TablesKeep ==
    ASSUME NEW n \in Nat, NEW w, NEW s, Matched(w, s, n), NEW w2, NEW s2, TablesMatch(w, s, w2, s2, n + 1)
    PROVE  Matched(w2, s2, n + 1)
<1>1. /\ s.crashed = FALSE /\ DOMAIN w.views \subseteq ViewPlaces /\ ViewList(s.views, n)
      /\ ViewsFollowable(Statements) => ViewsMatch(s.views, w.views)
  BY DEF Matched
<1>2. /\ w2 = [tables |-> w2.tables, views |-> w.views]
      /\ s2 = [tables |-> s2.tables, views |-> s.views, crashed |-> s.crashed]
      /\ Mirrors(s2.tables, w2.tables, n + 1)
  BY DEF TablesMatch
<1>3. w2.views = w.views /\ s2.views = s.views /\ s2.crashed = s.crashed
  BY <1>2
<1>4. WarehouseShape(w2) /\ ReaderShape(s2)
  BY <1>2, <1>3 DEF WarehouseShape, ReaderShape
<1>5. ViewList(s2.views, n + 1)
  BY <1>1, <1>3, LaterViews
<1> QED
  BY <1>1, <1>2, <1>3, <1>4, <1>5 DEF Matched

LEMMA ViewsKeep ==
    ASSUME NEW n \in Nat, NEW w, NEW s, Matched(w, s, n), NEW g, NEW vs,
           DOMAIN g \subseteq ViewPlaces, ViewList(vs, n + 1),
           ViewsFollowable(Statements) => ViewsMatch(vs, g)
    PROVE  Matched([w EXCEPT !.views = g], [s EXCEPT !.views = vs], n + 1)
<1> DEFINE w2 == [w EXCEPT !.views = g]
           s2 == [s EXCEPT !.views = vs]
<1>1. WarehouseShape(w) /\ ReaderShape(s) /\ s.crashed = FALSE /\ Mirrors(s.tables, w.tables, n)
  BY DEF Matched
<1>2. w2 = [tables |-> w.tables, views |-> g]
  BY <1>1 DEF WarehouseShape
<1>3. s2 = [tables |-> s.tables, views |-> vs, crashed |-> s.crashed]
  BY <1>1 DEF ReaderShape
<1>4. /\ w2.tables = w.tables /\ w2.views = g
      /\ s2.tables = s.tables /\ s2.views = vs /\ s2.crashed = s.crashed
  BY <1>2, <1>3
<1>5. WarehouseShape(w2) /\ ReaderShape(s2)
  BY <1>2, <1>3, <1>4 DEF WarehouseShape, ReaderShape
<1> HIDE DEF w2, s2
<1>6. Mirrors(s.tables, w.tables, n + 1)
  BY <1>1, LaterMirrors
<1>7. Matched(w2, s2, n + 1)
  BY <1>1, <1>4, <1>5, <1>6 DEF Matched
<1> QED
  BY <1>7 DEF w2, s2

(* A view that is read is judged, and is shown as the warehouse has it.    *)
LEMMA ReadView ==
    ASSUME Followable(Statements), NEW st \in Statements, st.op = "createview", NEW at
    PROVE  LET v == ViewRead(st, at)
           IN  /\ \A n : at.line \in 0..(n - 1) => IsView(v, n)
               /\ PlaceOf(v) = Place(st.name) /\ ShownAs(v) = ViewOf(st, at)
               /\ Place(st.name) \in ViewPlaces
               /\ ViewsFollowable(Statements) => Judged(v) /\ st.guard = "" /\ Sink = "clickhouse"
<1> DEFINE v == ViewRead(st, at)
<1>1. /\ v.name = st.name /\ v.target = st.target /\ v.refreshable = st.refreshable
      /\ v.columns = st.columns /\ v.pos = at
  BY DEF ViewRead
<1>2. v = [name |-> v.name, target |-> v.target, refreshable |-> v.refreshable,
           columns |-> v.columns, pos |-> v.pos]
  BY DEF ViewRead
<1> HIDE DEF v
<1>3. IsSequence(st.columns) /\ st.target \in Named(Statements)
  BY FollowedNames DEF Written, TableNames
<1>4. st.name \in AllViewNames
  <2>1. st.name \in ViewNames(st)
    BY DEF ViewNames
  <2> QED
    BY <2>1 DEF AllViewNames
<1>5. ASSUME ViewsFollowable(Statements) PROVE Judged(v) /\ st.guard = "" /\ Sink = "clickhouse"
  <2>1. /\ Sink = "clickhouse" /\ st.guard = "" /\ Len(st.target) = 1
        /\ \A other \in Statements : IsQuery(other) => Place(other.name) # Place(st.target)
    BY <1>5 DEF ViewsFollowable
  <2>2. Place(st.target) \notin QueryPlaces
    BY <2>1 DEF QueryPlaces
  <2> QED
    BY <1>1, <1>3, <1>4, <2>1, <2>2 DEF Judged
<1>6. \A n : at.line \in 0..(n - 1) => IsView(v, n)
  BY <1>1, <1>2 DEF IsView
<1>7. ShownAs(v) = ViewOf(st, at)
  BY <1>1 DEF ShownAs, ViewOf
<1>8. PlaceOf(v) = Place(st.name) /\ Place(st.name) \in ViewPlaces
  BY <1>1, <1>4 DEF PlaceOf, ViewPlaces
<1> QED
  BY <1>5, <1>6, <1>7, <1>8 DEF v

LEMMA AppendedViews ==
    ASSUME NEW n \in Nat, NEW vs, ViewList(vs, n), NEW v, IsView(v, n + 1)
    PROVE  ViewList(Append(vs, v), n + 1)
<1>1. IsSequence(vs) /\ Len(vs) \in Nat /\ \A k \in 1..Len(vs) : IsView(vs[k], n + 1)
  BY LaterViews DEF ViewList, IsSequence
<1> DEFINE s == Append(vs, v)
<1>2. /\ IsSequence(s) /\ Len(s) = Len(vs) + 1 /\ s[Len(vs) + 1] = v
      /\ \A i \in 1..Len(vs) : s[i] = vs[i]
  BY <1>1, AppendFacts
<1> HIDE DEF s
<1>3. \A k \in 1..Len(s) : k \in 1..Len(vs) \/ k = Len(vs) + 1
  BY <1>1, <1>2
<1>4. ViewList(s, n + 1)
  BY <1>1, <1>2, <1>3 DEF ViewList
<1> QED
  BY <1>4 DEF s

LEMMA RemovedViews ==
    ASSUME NEW n, NEW vs, ViewList(vs, n), NEW k \in 1..Len(vs)
    PROVE  ViewList(RemoveAt(vs, k), n)
<1>1. IsSequence(vs) /\ \A i \in 1..Len(vs) : IsView(vs[i], n)
  BY DEF ViewList
<1>2. /\ IsSequence(RemoveAt(vs, k))
      /\ \A j \in 1..Len(RemoveAt(vs, k)) :
            Before(k, j) \in 1..Len(vs) /\ RemoveAt(vs, k)[j] = vs[Before(k, j)]
  BY <1>1, RemoveFacts
<1> DEFINE s == RemoveAt(vs, k)
<1> HIDE DEF s
<1>3. IsSequence(s) /\ \A j \in 1..Len(s) : Before(k, j) \in 1..Len(vs) /\ s[j] = vs[Before(k, j)]
  BY <1>2 DEF s
<1>4. ViewList(s, n)
  BY <1>1, <1>3 DEF ViewList
<1> QED
  BY <1>4 DEF s

LEMMA ReadNow ==
    ASSUME NEW n \in Nat, NEW at, at.line = n
    PROVE  at.line \in 0..((n + 1) - 1)
OBVIOUS

LEMMA CreateViewMatches ==
    ASSUME Followable(Statements), NEW n \in Nat, NEW w, NEW s, Matched(w, s, n),
           NEW st \in Statements, st.op = "createview", NEW at, at.line = n, Legal(w, st, at)
    PROVE  Matched(Executed(w, st, at), Read(s, st, at), n + 1)
<1> DEFINE v == ViewRead(st, at)
           q == Place(st.name)
           e == ViewOf(st, at)
           g == IF st.guard = "unless" /\ q \in DOMAIN w.views THEN w.views ELSE Put(w.views, q, e)
           vs == IF Sink = "clickhouse" THEN Append(s.views, v) ELSE s.views
<1>1. /\ at.line \in 0..((n + 1) - 1) => IsView(v, n + 1)
      /\ PlaceOf(v) = q /\ ShownAs(v) = e /\ q \in ViewPlaces
      /\ ViewsFollowable(Statements) => Judged(v) /\ st.guard = "" /\ Sink = "clickhouse"
  BY ReadView
<1>2. /\ WarehouseShape(w) /\ ReaderShape(s) /\ DOMAIN w.views \subseteq ViewPlaces /\ ViewList(s.views, n)
      /\ ViewsFollowable(Statements) => ViewsMatch(s.views, w.views)
  BY DEF Matched
<1>3. IsView(v, n + 1)
  BY <1>1, ReadNow, Zenon
<1>4. Executed(w, st, at) = [w EXCEPT !.views = g]
  <2>1. [w EXCEPT !.views = w.views] = w
    BY <1>2 DEF WarehouseShape
  <2>2. CASE st.guard = "unless" /\ q \in DOMAIN w.views
    <3>1. Executed(w, st, at) = w
      BY <2>2, CreateViewIs
    <3> QED
      BY <2>1, <2>2, <3>1
  <2>3. CASE ~(st.guard = "unless" /\ q \in DOMAIN w.views)
    <3>1. Executed(w, st, at) = [w EXCEPT !.views = Put(w.views, q, e)]
      BY <2>3, CreateViewIs
    <3> QED
      BY <2>3, <3>1
  <2> QED
    BY <2>2, <2>3
<1>5. Read(s, st, at) = [s EXCEPT !.views = vs]
  <2>1. [s EXCEPT !.views = s.views] = s
    BY <1>2 DEF ReaderShape
  <2>2. CASE Sink = "clickhouse"
    <3>1. Read(s, st, at) = AddView(s, st, at)
      BY <2>2, CreateViewIs
    <3> QED
      BY <2>2, <3>1 DEF AddView
  <2>3. CASE Sink # "clickhouse"
    <3>1. Read(s, st, at) = s
      BY <2>3, CreateViewIs
    <3> QED
      BY <2>1, <2>3, <3>1
  <2> QED
    BY <2>2, <2>3
<1>6. st.guard = "" => q \notin DOMAIN w.views
  BY DEF Legal
<1> HIDE DEF v, e
<1>7. DOMAIN g \subseteq ViewPlaces
  BY <1>1, <1>2 DEF Put
<1>8. ViewList(Append(s.views, v), n + 1) /\ ViewList(s.views, n + 1)
  BY <1>2, <1>3, AppendedViews, LaterViews
<1>9. ViewList(vs, n + 1)
  BY <1>8
<1>10. ASSUME ViewsFollowable(Statements) PROVE ViewsMatch(vs, g)
  <2>1. /\ Judged(v) /\ q \notin DOMAIN w.views
        /\ vs = Append(s.views, v) /\ g = Put(w.views, q, e)
    BY <1>1, <1>6, <1>10
  <2>2. ViewsMatch(s.views, w.views) /\ IsSequence(s.views)
    BY <1>2, <1>10 DEF ViewList
  <2>3. ViewsMatch(Append(s.views, v), Put(w.views, PlaceOf(v), ShownAs(v)))
    BY <1>1, <2>1, <2>2, AppendView
  <2> QED
    BY <1>1, <2>1, <2>3
<1> HIDE DEF g, vs
<1>11. Matched([w EXCEPT !.views = g], [s EXCEPT !.views = vs], n + 1)
  BY <1>7, <1>9, <1>10, ViewsKeep
<1> QED
  BY <1>4, <1>5, <1>11

LEMMA DropViewMatches ==
    ASSUME Followable(Statements), NEW n \in Nat, NEW w, NEW s, Matched(w, s, n),
           NEW st \in Statements, st.op = "dropview", NEW at
    PROVE  Matched(Executed(w, st, at), Read(s, st, at), n + 1)
<1> DEFINE k == ViewAt(s.views, st.name)
           g == Without(w.views, {Place(st.name)})
           vs == IF Sink = "clickhouse" /\ k # 0 THEN RemoveAt(s.views, k) ELSE s.views
<1>1. /\ WarehouseShape(w) /\ ReaderShape(s) /\ DOMAIN w.views \subseteq ViewPlaces /\ ViewList(s.views, n)
      /\ ViewsFollowable(Statements) => ViewsMatch(s.views, w.views)
  BY DEF Matched
<1>2. Executed(w, st, at) = [w EXCEPT !.views = g]
  BY DropViewIs
<1>3. Read(s, st, at) = [s EXCEPT !.views = vs]
  <2>1. [s EXCEPT !.views = s.views] = s
    BY <1>1 DEF ReaderShape
  <2>2. CASE Sink = "clickhouse"
    <3>1. Read(s, st, at) = DropView(s, st)
      BY <2>2, DropViewIs
    <3>2. DropView(s, st) = IF k = 0 THEN s ELSE [s EXCEPT !.views = RemoveAt(s.views, k)]
      BY DEF DropView, ViewAt
    <3> QED
      BY <2>1, <2>2, <3>1, <3>2
  <2>3. CASE Sink # "clickhouse"
    <3>1. Read(s, st, at) = s
      BY <2>3, DropViewIs
    <3> QED
      BY <2>1, <2>3, <3>1
  <2> QED
    BY <2>2, <2>3
<1>4. IsSequence(s.views)
  BY <1>1 DEF ViewList
<1>5. k # 0 => k \in 1..Len(s.views)
  BY <1>4, ViewAtFacts
<1>6. DOMAIN g \subseteq ViewPlaces
  BY <1>1 DEF Without
<1>7. ViewList(s.views, n + 1)
  BY <1>1, LaterViews
<1>8. st.name \in AllViewNames
  <2>1. st.name \in ViewNames(st)
    BY DEF ViewNames
  <2> QED
    BY <2>1 DEF AllViewNames
<1> HIDE DEF k
<1>9. k # 0 => ViewList(RemoveAt(s.views, k), n + 1)
  BY <1>5, <1>7, RemovedViews
<1>10. ViewList(vs, n + 1)
  BY <1>7, <1>9
<1>11. ASSUME ViewsFollowable(Statements) PROVE ViewsMatch(vs, g)
  <2>1. Sink = "clickhouse"
    BY <1>11 DEF ViewsFollowable
  <2>2. /\ k = 0 => ViewsMatch(s.views, g)
        /\ k # 0 => ViewsMatch(RemoveAt(s.views, k), g)
    BY <1>1, <1>4, <1>8, <1>11, RemoveView DEF k
  <2> QED
    BY <2>1, <2>2
<1> HIDE DEF g, vs
<1>12. Matched([w EXCEPT !.views = g], [s EXCEPT !.views = vs], n + 1)
  BY <1>6, <1>10, <1>11, ViewsKeep
<1> QED
  BY <1>2, <1>3, <1>12

(* Whatever the statement is.  Only ClickHouse has one that moves tables.  *)
LEMMA StatementMatches ==
    ASSUME Followable(Statements), NEW n \in Nat, NEW w, NEW s, Matched(w, s, n),
           NEW st \in Statements, NEW at, at.line = n, Legal(w, st, at),
           st.op \in {"create", "alter", "drop", "exchange", "rename", "createview", "dropview"}
    PROVE  Matched(Executed(w, st, at), Read(s, st, at), n + 1)
<1>1. WarehouseShape(w) /\ ReaderShape(s) /\ Mirrors(s.tables, w.tables, n) /\ DOMAIN w.views \subseteq ViewPlaces
  BY DEF Matched
<1>2. Mirrors(s.tables, w.tables, n + 1)
  BY <1>1, LaterMirrors
<1>3. st.op \in {"exchange", "rename"} => Sink = "clickhouse"
  BY DEF Followable
<1>4. CASE st.op = "create"
  <2>1. CreateLegal(w, st)
    BY <1>4 DEF Legal
  <2>2. Executed(w, st, at) = CreateDone(w, st, at) /\ Read(s, st, at) = Creating(s, st, at)
    BY <1>4, CreateIs
  <2>3. TablesMatch(w, s, CreateDone(w, st, at), Creating(s, st, at), n + 1)
    BY <1>1, <1>2, <1>4, <2>1, CreateMatches
  <2> QED
    BY <2>2, <2>3, TablesKeep
<1>5. CASE st.op = "alter"
  <2>1. AlterLegal(w, st, at)
    BY <1>5 DEF Legal
  <2>2. Executed(w, st, at) = AlterDone(w, st, at) /\ Read(s, st, at) = Altering(s, st, at)
    BY <1>5, AlterIs
  <2>3. TablesMatch(w, s, AlterDone(w, st, at), Altering(s, st, at), n + 1)
    BY <1>1, <1>2, <1>5, <2>1, AlterMatches
  <2> QED
    BY <2>2, <2>3, TablesKeep
<1>6. CASE st.op = "drop"
  <2> DEFINE w2 == [w EXCEPT !.tables = Without(w.tables, Places(st.names))]
  <2>1. Executed(w, st, at) = w2 /\ Read(s, st, at) = Dropping(s, st)
    BY <1>6, DropIs
  <2>2. TablesMatch(w, s, w2, Dropping(s, st), n + 1)
    BY <1>1, <1>2, <1>6, DropMatches
  <2> HIDE DEF w2
  <2> QED
    BY <2>1, <2>2, TablesKeep
<1>7. CASE st.op = "exchange"
  <2> DEFINE w2 == [w EXCEPT !.tables = Swapped(w.tables, Place(st.a), Place(st.b))]
  <2>1. Executed(w, st, at) = w2 /\ Read(s, st, at) = Exchanging(s, st)
    BY <1>3, <1>7, ExchangeIs
  <2>2. {Place(st.a), Place(st.b)} \subseteq DOMAIN w.tables
    BY <1>7 DEF Legal
  <2>3. TablesMatch(w, s, w2, Exchanging(s, st), n + 1)
    BY <1>1, <1>2, <1>7, <2>2, ExchangeMatches
  <2> HIDE DEF w2
  <2> QED
    BY <2>1, <2>3, TablesKeep
<1>8. CASE st.op = "rename"
  <2> DEFINE w2 == [w EXCEPT !.tables = RenamedTables(w, st)[1]]
  <2>1. Executed(w, st, at) = w2 /\ Read(s, st, at) = Renaming(s, st)
    BY <1>3, <1>8, RenameIs
  <2>2. RenamedTables(w, st) # <<>>
    BY <1>8 DEF Legal
  <2>3. TablesMatch(w, s, w2, Renaming(s, st), n + 1)
    BY <1>1, <1>2, <1>8, <2>2, RenameMatches
  <2> HIDE DEF w2
  <2> QED
    BY <2>1, <2>3, TablesKeep
<1>9. CASE st.op = "createview"
  BY <1>9, CreateViewMatches
<1>10. CASE st.op = "dropview"
  BY <1>10, DropViewMatches
<1> QED
  BY <1>4, <1>5, <1>6, <1>7, <1>8, <1>9, <1>10

-----------------------------------------------------------------------------
(* The inductive invariant. *)

(* Files of up sections only, of the statements the readers follow.        *)
Readable == Followable(Statements) /\ Sections = {"up"}

Following ==
    /\ line \in Nat /\ line <= MaxLines /\ section = "up"
    /\ Matched(warehouse, r, line)

LEMMA LaterMatched ==
    ASSUME NEW n \in Nat, NEW w, NEW s, Matched(w, s, n)
    PROVE  Matched(w, s, n + 1)
<1>1. /\ WarehouseShape(w) /\ ReaderShape(s) /\ s.crashed = FALSE
      /\ Mirrors(s.tables, w.tables, n)
      /\ DOMAIN w.views \subseteq ViewPlaces /\ ViewList(s.views, n)
      /\ ViewsFollowable(Statements) => ViewsMatch(s.views, w.views)
  BY DEF Matched
<1>2. Mirrors(s.tables, w.tables, n + 1)
  BY <1>1, LaterMirrors
<1>3. ViewList(s.views, n + 1)
  BY <1>1, LaterViews
<1> QED
  BY <1>1, <1>2, <1>3 DEF Matched

LEMMA EmptyMatched == Matched(EmptyWarehouse, [tables |-> <<>>, views |-> <<>>, crashed |-> FALSE], 0)
<1> DEFINE f == [q \in {} |-> {}]
           s == [tables |-> <<>>, views |-> <<>>, crashed |-> FALSE]
<1>1. DOMAIN f = {} /\ IsMap(f)
  BY DEF IsMap
<1>2. IsSequence(<<>>) /\ 1..Len(<<>>) = {}
  BY DEF IsSequence
<1>3. EmptyWarehouse.tables = f /\ EmptyWarehouse.views = f /\ WarehouseShape(EmptyWarehouse)
  BY Zenon DEF EmptyWarehouse, WarehouseShape
<1>4. s.tables = <<>> /\ s.views = <<>> /\ s.crashed = FALSE /\ ReaderShape(s)
  BY Zenon DEF ReaderShape
<1> HIDE DEF f, s
<1>5. Mirrors(<<>>, f, 0)
  BY <1>1, <1>2 DEF Mirrors, Each, Apart, Entries, Nothing
<1>6. ViewList(<<>>, 0)
  BY <1>2 DEF ViewList
<1>7. ViewsMatch(<<>>, f)
  BY <1>1, <1>2 DEF ViewsMatch, Apart
<1>8. Matched(EmptyWarehouse, s, 0)
  BY <1>1, <1>3, <1>4, <1>5, <1>6, <1>7 DEF Matched
<1> QED
  BY <1>8 DEF s

LEMMA FollowingStarts == Init => Following
<1> SUFFICES ASSUME Init PROVE Following
  OBVIOUS
<1>1. /\ line = 0 /\ section = "up" /\ warehouse = EmptyWarehouse
      /\ r = [tables |-> <<>>, views |-> <<>>, crashed |-> FALSE]
  BY DEF Init
<1>2. line \in Nat /\ line <= MaxLines
  BY <1>1, SinkBoundsAssumption
<1>3. Matched(warehouse, r, line)
  BY <1>1, EmptyMatched
<1> QED
  BY <1>1, <1>2, <1>3 DEF Following

(* Whatever the kind of the statement. *)
Kinds == {"create", "alter", "drop", "exchange", "rename", "createview", "dropview"}

LEMMA LaterLine ==
    ASSUME line \in Nat, line < MaxLines, line' = line + 1
    PROVE  line' \in Nat /\ line' <= MaxLines
BY SinkBoundsAssumption

LEMMA FollowingReads ==
    ASSUME Readable, Following, NEW op \in Kinds, Statement(op)
    PROVE  Following'
<1>1. line \in Nat /\ section = "up" /\ Matched(warehouse, r, line)
  BY DEF Following
<1>2. PICK st \in Statements :
        /\ st.op = op /\ (section = "up" => Legal(warehouse, st, At))
        /\ warehouse' = IF section = "up" THEN Executed(warehouse, st, At) ELSE warehouse
        /\ r' = Read(r, st, At)
  BY DEF Statement
<1>3. line < MaxLines /\ line' = line + 1 /\ section' = section
  BY DEF Statement
<1>4. Legal(warehouse, st, At) /\ warehouse' = Executed(warehouse, st, At) /\ r' = Read(r, st, At)
  BY <1>1, <1>2
<1>5. At.line = line
  BY DEF At
<1>6. st.op \in {"create", "alter", "drop", "exchange", "rename", "createview", "dropview"}
  BY <1>2 DEF Kinds
<1>7. Matched(Executed(warehouse, st, At), Read(r, st, At), line + 1)
  BY <1>1, <1>4, <1>5, <1>6, StatementMatches DEF Readable
<1>8. Matched(warehouse', r', line')
  BY <1>3, <1>4, <1>7
<1> QED
  BY <1>1, <1>3, <1>8, LaterLine DEF Following

LEMMA FollowingSteps ==
    ASSUME Readable, Following, [Next]_vars
    PROVE  Following'
<1>1. CASE CreateTable
  BY <1>1, FollowingReads DEF CreateTable, Kinds
<1>2. CASE AlterTable
  BY <1>2, FollowingReads DEF AlterTable, Kinds
<1>3. CASE DropTable
  BY <1>3, FollowingReads DEF DropTable, Kinds
<1>4. CASE ExchangeTables
  BY <1>4, FollowingReads DEF ExchangeTables, Kinds
<1>5. CASE RenameTables
  BY <1>5, FollowingReads DEF RenameTables, Kinds
<1>6. CASE CreateMaterializedView
  BY <1>6, FollowingReads DEF CreateMaterializedView, Kinds
<1>7. CASE DropMaterializedView
  BY <1>7, FollowingReads DEF DropMaterializedView, Kinds
<1>8. CASE Marker
  <2>1. /\ line \in Nat /\ line < MaxLines /\ line' = line + 1
        /\ Matched(warehouse, r, line) /\ warehouse' = warehouse /\ r' = r
    BY <1>8 DEF Marker, Following
  <2>2. section' = "up"
    BY <1>8 DEF Marker, Readable
  <2>3. Matched(warehouse', r', line')
    BY <2>1, LaterMatched
  <2> QED
    BY <2>1, <2>2, <2>3, LaterLine DEF Following
<1>9. CASE AllRead \/ UNCHANGED vars
  <2>1. line' = line /\ section' = section /\ warehouse' = warehouse /\ r' = r
    BY <1>9 DEF AllRead, vars
  <2> QED
    BY <2>1 DEF Following
<1> QED
  BY <1>1, <1>2, <1>3, <1>4, <1>5, <1>6, <1>7, <1>8, <1>9 DEF Next

LEMMA Invariance ==
    ASSUME Readable
    PROVE  Spec => []Following
<1>1. Init => Following
  BY FollowingStarts
<1>2. Following /\ [Next]_vars => Following'
  BY FollowingSteps
<1> QED
  BY <1>1, <1>2, PTL DEF Spec

-----------------------------------------------------------------------------
(* What follows of the tables. *)

LEMMA TypesFollow ==
    ASSUME Readable, Following
    PROVE  SinkTypeOK
<1>1. /\ line \in Nat /\ line <= MaxLines /\ section = "up" /\ r.crashed = FALSE
      /\ Mirrors(r.tables, warehouse.tables, line) /\ ViewList(r.views, line)
  BY DEF Following, Matched
<1>2. line \in 0..MaxLines
  BY <1>1, SinkBoundsAssumption
<1>3. section \in Sections
  BY <1>1 DEF Readable
<1>4. \A t \in ToSet(r.tables) :
          t.pos.line < line /\ \A c \in ToSet(t.columns) : c.pos.line \in t.pos.line..line-1
  <2>1. ToSet(r.tables) = {r.tables[i] : i \in 1..Len(r.tables)}
    BY <1>1, ToSetIs DEF Mirrors
  <2>2. \A i \in 1..Len(r.tables) : IsTable(r.tables[i], line)
    BY <1>1 DEF Mirrors, Each
  <2>3. ASSUME NEW t, IsTable(t, line)
        PROVE  t.pos.line < line /\ \A c \in ToSet(t.columns) : c.pos.line \in t.pos.line..line-1
    <3>1. t.pos.line \in 0..(line - 1) /\ \A c \in ToSet(t.columns) : c.pos.line \in t.pos.line..(line - 1)
      BY <2>3 DEF IsTable, Dated
    <3>2. t.pos.line < line
      BY <1>1, <3>1
    <3> QED
      BY <3>1, <3>2
  <2> QED
    BY <2>1, <2>2, <2>3
<1>5. \A v \in ToSet(r.views) : v.pos.line < line
  <2>1. ToSet(r.views) = {r.views[i] : i \in 1..Len(r.views)}
    BY <1>1, ToSetIs DEF ViewList
  <2>2. \A i \in 1..Len(r.views) : IsView(r.views[i], line)
    BY <1>1 DEF ViewList
  <2>3. ASSUME NEW v, IsView(v, line) PROVE v.pos.line < line
    <3>1. v.pos.line \in 0..(line - 1)
      BY <2>3 DEF IsView
    <3> QED
      BY <1>1, <3>1
  <2> QED
    BY <2>1, <2>2, <2>3
<1> QED
  BY <1>1, <1>2, <1>3, <1>4, <1>5, Zenon DEF SinkTypeOK

(* Tables match: what a reader's table is, and that none is skipped.       *)
LEMMA TablesFollow ==
    ASSUME Following
    PROVE  /\ ToSet(r.tables) = {r.tables[i] : i \in 1..Len(r.tables)}
           /\ DOMAIN r.tables = 1..Len(r.tables)
           /\ \A i \in 1..Len(r.tables) :
                 /\ r.tables[i].name \in Named(Statements)
                 /\ PlaceOf(r.tables[i]) \in DOMAIN warehouse.tables
                 /\ Suits(r.tables[i], warehouse.tables[PlaceOf(r.tables[i])])
           /\ Apart(r.tables)
           /\ \A q \in DOMAIN warehouse.tables : Listing(q) => Holds(r.tables, q)
<1>1. Mirrors(r.tables, warehouse.tables, line)
  BY DEF Following, Matched
<1>2. DOMAIN r.tables = 1..Len(r.tables) /\ ToSet(r.tables) = {r.tables[i] : i \in 1..Len(r.tables)}
  BY <1>1, ToSetIs DEF Mirrors
<1>3. \A i \in 1..Len(r.tables) :
         /\ r.tables[i].name \in Named(Statements)
         /\ PlaceOf(r.tables[i]) \in DOMAIN warehouse.tables
         /\ Suits(r.tables[i], warehouse.tables[PlaceOf(r.tables[i])])
  BY <1>1 DEF Mirrors, Each, IsTable
<1>4. Apart(r.tables) /\ \A q \in DOMAIN warehouse.tables : Listing(q) => Holds(r.tables, q)
  BY <1>1 DEF Mirrors, Nothing, Listing
<1> QED
  BY <1>2, <1>3, <1>4

LEMMA LeavesBehindFollows ==
    ASSUME Following
    PROVE  SinkLeavesBehind
<1> DEFINE ts == r.tables
           f == warehouse.tables
<1>1. /\ ToSet(ts) = {ts[i] : i \in 1..Len(ts)}
      /\ \A i \in 1..Len(ts) : PlaceOf(ts[i]) \in DOMAIN f /\ Suits(ts[i], f[PlaceOf(ts[i])])
      /\ \A q \in DOMAIN f : Listing(q) => Holds(ts, q)
  BY TablesFollow
<1> HIDE DEF ts
<1>2. {Place(t.name) : t \in ToSet(ts)} \subseteq DOMAIN f
  BY <1>1 DEF PlaceOf
<1>3. ASSUME NEW q \in DOMAIN f, Listing(q)
      PROVE  \E t \in ToSet(ts) : /\ Place(t.name) = q
                                  /\ NamesIn(t.columns) = NamesIn(f[q].cols)
                                  /\ t.topic = TopicRead(f[q].topics)
  <2>1. PICK i \in 1..Len(ts) : PlaceOf(ts[i]) = q
    BY <1>1, <1>3 DEF Holds
  <2>2. Suits(ts[i], f[q]) /\ f[q].listed
    BY <1>1, <1>3, <2>1 DEF Listing
  <2>3. ToSet(ts[i].columns) = ToSet(f[q].cols) /\ ts[i].topic = TopicRead(f[q].topics)
    BY <2>2 DEF Suits, Alike
  <2>4. NamesIn(ts[i].columns) = NamesIn(f[q].cols)
    BY <2>3 DEF NamesIn
  <2> QED
    BY <1>1, <2>1, <2>3, <2>4 DEF PlaceOf
<1> QED
  BY <1>2, <1>3 DEF SinkLeavesBehind, ts

LEMMA DistinctFollows ==
    ASSUME Readable, Following
    PROVE  SinkNamesDistinct
<1> SUFFICES ASSUME NEW i \in DOMAIN r.tables, NEW j \in DOMAIN r.tables,
                    LastSegment(r.tables[i].name) = LastSegment(r.tables[j].name)
             PROVE  i = j
  BY DEF SinkNamesDistinct
<1>1. /\ i \in 1..Len(r.tables) /\ j \in 1..Len(r.tables)
      /\ r.tables[i].name \in Named(Statements) /\ r.tables[j].name \in Named(Statements)
      /\ Apart(r.tables)
  BY TablesFollow
<1>2. OneDatabase(Statements)
  BY DEF Readable, Followable
<1>3. PlaceOf(r.tables[i]) = PlaceOf(r.tables[j])
  BY <1>1, <1>2, OnePlace DEF PlaceOf
<1> QED
  BY <1>1, <1>3 DEF Apart

LEMMA PointsFollow ==
    ASSUME Following
    PROVE  SinkPointsAtDeclarations
<1> DEFINE f == warehouse.tables
<1> SUFFICES ASSUME NEW t \in ToSet(r.tables), Place(t.name) \in DOMAIN f, Listing(Place(t.name)),
                    NEW c \in ToSet(t.columns), NEW d \in ToSet(f[Place(t.name)].cols),
                    c.name = d.name
             PROVE  c.pos = d.pos
  BY DEF SinkPointsAtDeclarations
<1>1. PICK i \in 1..Len(r.tables) : t = r.tables[i]
  BY TablesFollow
<1>2. Suits(t, f[Place(t.name)]) /\ f[Place(t.name)].listed
  BY <1>1, TablesFollow DEF PlaceOf, Listing
<1>3. Alike(t.columns, f[Place(t.name)].cols)
  BY <1>2 DEF Suits
<1>4. c \in ToSet(f[Place(t.name)].cols)
  BY <1>3 DEF Alike
<1>5. IsSequence(f[Place(t.name)].cols) /\ Once(f[Place(t.name)].cols)
  BY <1>3 DEF Alike, IsColumns
<1>6. ToSet(f[Place(t.name)].cols) = {f[Place(t.name)].cols[k] : k \in 1..Len(f[Place(t.name)].cols)}
  BY <1>5, ToSetIs
<1>7. c = d
  BY <1>4, <1>5, <1>6 DEF Once
<1> QED
  BY <1>7

-----------------------------------------------------------------------------
(* What follows of the views: the verdict of mv-column-match. *)

LEMMA OneSegment ==
    ASSUME NEW n, IsSequence(n)
    PROVE  /\ Len(n) = 1 => LastSegment(n) = n
           /\ LastSegment(LastSegment(n)) = LastSegment(n)
<1>1. ASSUME Len(n) = 1 PROVE n = <<n[1]>>
  <2> DEFINE S == {n[i] : i \in 1..Len(n)}
  <2>1. n \in Seq(S)
    BY SeqDef DEF IsSequence
  <2>2. n[1] \in S
    BY <1>1
  <2> HIDE DEF S
  <2> QED
    BY <1>1, <2>1, <2>2
<1>2. Len(n) = 1 => LastSegment(n) = n
  BY <1>1 DEF LastSegment, Last
<1>3. \A x : Last(<<x>>) = x
  BY DEF Last
<1> QED
  BY <1>2, <1>3 DEF LastSegment

(* A table of that kind, of that name or that last segment. *)
Meant(t, v) == t.sink = "clickhouse" /\ v.target \in {t.name, LastSegment(t.name)}

(* The table the rule looks up is the one at the place of the target.      *)
LEMMA TargetIs ==
    ASSUME OneDatabase(Statements), NEW ts, IsSequence(ts),
           \A i \in 1..Len(ts) : ts[i].name \in Named(Statements) /\ ts[i].sink = "clickhouse",
           NEW vs, NEW v, Judged(v)
    PROVE  LET k == TargetOf([sinks |-> ts, views |-> vs], v)
           IN  /\ k = 0 => ~Holds(ts, Place(v.target))
               /\ k # 0 => k \in 1..Len(ts) /\ PlaceOf(ts[k]) = Place(v.target)
<1> DEFINE inp == [sinks |-> ts, views |-> vs]
           I == {i \in 1..Len(ts) : Meant(ts[i], v)}
<1>1. Len(ts) \in Nat
  BY DEF IsSequence
<1>2. TargetOf(inp, v) = IF I # {} THEN Max(I) ELSE 0
  <2>1. inp.sinks = ts
    OBVIOUS
  <2> HIDE DEF inp
  <2> QED
    BY <2>1 DEF TargetOf, SelectLastInSeq, Meant
<1>3. v.target \in Named(Statements) /\ IsSequence(v.target) /\ Len(v.target) = 1
  BY DEF Judged, OneDatabase
<1>4. ASSUME NEW i \in 1..Len(ts)
      PROVE  Meant(ts[i], v) <=> PlaceOf(ts[i]) = Place(v.target)
  <2>1. ts[i].name \in Named(Statements) /\ ts[i].sink = "clickhouse" /\ IsSequence(ts[i].name)
    BY DEF OneDatabase
  <2>2. LastSegment(ts[i].name) = LastSegment(v.target) <=> PlaceOf(ts[i]) = Place(v.target)
    BY <1>3, <2>1, OnePlace DEF PlaceOf
  <2>3. LastSegment(v.target) = v.target /\ LastSegment(LastSegment(ts[i].name)) = LastSegment(ts[i].name)
    BY <1>3, <2>1, OneSegment
  <2> QED
    BY <2>1, <2>2, <2>3 DEF Meant
<1> HIDE DEF inp, I
<1>5. I \in SUBSET (1..Len(ts)) /\ \A i \in 1..Len(ts) : i \in I <=> PlaceOf(ts[i]) = Place(v.target)
  BY <1>4 DEF I
<1>6. I # {} => Max(I) \in I
  BY <1>1, <1>5, MaxExists
<1>7. TargetOf(inp, v) = 0 => ~Holds(ts, Place(v.target))
  BY <1>1, <1>2, <1>5, <1>6 DEF Holds
<1>8. TargetOf(inp, v) # 0 => TargetOf(inp, v) \in 1..Len(ts) /\ PlaceOf(ts[TargetOf(inp, v)]) = Place(v.target)
  BY <1>2, <1>5, <1>6
<1> QED
  BY <1>7, <1>8 DEF inp

(* The findings about view x of those read. *)
Mismatch(inp, x) ==
    IF inp.views[x].refreshable THEN RefreshableMismatch(inp, x) ELSE StreamingMismatch(inp, x)

LEMMA MismatchAtTheView ==
    ASSUME NEW inp, NEW x, NEW f \in Mismatch(inp, x)
    PROVE  f.pos = inp.views[x].pos
<1>1. PICK k, item :
         f = Finding("mv-column-match", Error, inp.views[x].pos, Subject(k, item, 0, ""), NoFix)
  <2>1. CASE f \in RefreshableMismatch(inp, x)
    BY <2>1, Zenon DEF RefreshableMismatch
  <2>2. CASE f \in StreamingMismatch(inp, x)
    BY <2>2, Zenon DEF StreamingMismatch
  <2> QED
    BY <2>1, <2>2, Zenon DEF Mismatch
<1> QED
  BY <1>1 DEF Finding

(* A refreshable view raises nothing exactly when it gives the columns in  *)
(* the order the table has them.                                           *)
LEMMA RefreshableVerdict ==
    ASSUME NEW inp, NEW x, inp.views[x].refreshable, NEW cols,
           cols = inp.sinks[TargetOf(inp, inp.views[x])].columns,
           IsSequence(cols), IsSequence(inp.views[x].columns)
    PROVE  Mismatch(inp, x) = {} <=>
             inp.views[x].columns = [j \in DOMAIN cols |-> cols[j].name]
<1> DEFINE v == inp.views[x]
           k == TargetOf(inp, v)
           At0(item) == Finding("mv-column-match", Error, v.pos, Subject(k, item, 0, ""), NoFix)
           M == Misplaced(inp, v)
           First == {i \in M : \A h \in M : i <= h}
<1>1. /\ DOMAIN v.columns = 1..Len(v.columns) /\ Len(v.columns) \in Nat
      /\ DOMAIN cols = 1..Len(cols) /\ Len(cols) \in Nat
  BY DEF IsSequence
<1>2. M = {j \in DOMAIN v.columns \cap DOMAIN cols : v.columns[j] # cols[j].name}
  BY DEF Misplaced
<1>3. M # {} => First # {}
  <2>1. M \in SUBSET (1..Len(cols))
    BY <1>1, <1>2
  <2>2. M # {} => \E m \in M : \A h \in M : m <= h
    BY <1>1, <2>1, LeastExists
  <2> QED
    BY <2>2
<1>4. Mismatch(inp, x) =
        {At0(<<j>>) : j \in First}
          \cup IF Len(v.columns) = Len(cols) THEN {} ELSE {At0(<<>>)}
  BY Zenon DEF Mismatch, RefreshableMismatch
<1>5. v.columns = [j \in 1..Len(v.columns) |-> v.columns[j]]
  BY DEF IsSequence
<1> HIDE DEF v, M, First, At0
<1>6. Mismatch(inp, x) = {} <=> M = {} /\ Len(v.columns) = Len(cols)
  <2>1. First = {} <=> M = {}
    BY <1>3 DEF First
  <2> QED
    BY <1>4, <2>1
<1>7. ASSUME M = {}, Len(v.columns) = Len(cols)
      PROVE  v.columns = [j \in DOMAIN cols |-> cols[j].name]
  <2>1. \A j \in 1..Len(cols) : v.columns[j] = cols[j].name
    BY <1>1, <1>2, <1>7
  <2> QED
    BY <1>1, <1>5, <1>7, <2>1
<1>8. ASSUME v.columns = [j \in DOMAIN cols |-> cols[j].name]
      PROVE  M = {} /\ Len(v.columns) = Len(cols)
  <2>1. 1..Len(v.columns) = 1..Len(cols) /\ \A j \in DOMAIN cols : v.columns[j] = cols[j].name
    BY <1>1, <1>8
  <2>2. Len(v.columns) = Len(cols)
    BY <1>1, <2>1
  <2> QED
    BY <1>2, <2>1, <2>2
<1> QED
  BY <1>6, <1>7, <1>8 DEF v

(* A streaming view raises nothing exactly when the table has a column of  *)
(* each of the names it gives.                                             *)
LEMMA StreamingVerdict ==
    ASSUME NEW inp, NEW x, ~inp.views[x].refreshable, NEW cols,
           cols = inp.sinks[TargetOf(inp, inp.views[x])].columns
    PROVE  Mismatch(inp, x) = {} <=> ToSet(inp.views[x].columns) \subseteq NamesIn(cols)
<1> DEFINE v == inp.views[x]
           k == TargetOf(inp, v)
           At0(item) == Finding("mv-column-match", Error, v.pos, Subject(k, item, 0, ""), NoFix)
           names == {col.name : col \in ToSet(cols)}
<1>1. Mismatch(inp, x) = {At0(<<j>>) : j \in {i \in DOMAIN v.columns : v.columns[i] \notin names}}
  BY Zenon DEF Mismatch, StreamingMismatch
<1>2. ToSet(v.columns) = {v.columns[i] : i \in DOMAIN v.columns} /\ names = NamesIn(cols)
  BY DEF ToSet, NamesIn
<1> HIDE DEF v, names, At0
<1>3. Mismatch(inp, x) = {} <=> \A j \in DOMAIN v.columns : v.columns[j] \in names
  BY <1>1
<1> QED
  BY <1>2, <1>3 DEF v

(* What the views are matched with when every table has the columns of the *)
(* warehouse's in their order.                                             *)
LEMMA ViewVerdict ==
    ASSUME Followable(Statements), ViewsFollowable(Statements), InOrder(Statements),
           NEW n, NEW w, NEW s, Matched(w, s, n), NEW x \in 1..Len(s.views)
    PROVE  LET inp == [sinks |-> s.tables, views |-> s.views]
               q == PlaceOf(s.views[x])
           IN  /\ q \in DOMAIN w.views /\ w.views[q].pos = s.views[x].pos
               /\ Broken(w, w.views[q]) <=>
                    /\ s.views[x].target # <<>> /\ TargetOf(inp, s.views[x]) # 0
                    /\ Mismatch(inp, x) # {}
<1> DEFINE ts == s.tables
           vs == s.views
           v == vs[x]
           q == PlaceOf(v)
           inp == [sinks |-> ts, views |-> vs]
           k == TargetOf(inp, v)
           p == Place(v.target)
           f == w.tables
<1>1. Mirrors(ts, f, n) /\ ViewsMatch(vs, w.views)
  BY DEF Matched
<1>2. Judged(v) /\ q \in DOMAIN w.views /\ w.views[q] = ShownAs(v)
  BY <1>1 DEF ViewsMatch
<1>3. /\ w.views[q].target = p /\ (w.views[q].refreshable <=> v.refreshable)
      /\ w.views[q].columns = v.columns /\ w.views[q].pos = v.pos
  BY <1>2 DEF ShownAs
<1>4. IsSequence(v.columns) /\ v.target # <<>> /\ p \notin QueryPlaces
  <2>1. \A t : Len(t) = 1 => t # <<>>
    OBVIOUS
  <2>2. IsSequence(v.columns) /\ Len(v.target) = 1 /\ p \notin QueryPlaces
    BY <1>2 DEF Judged
  <2> QED
    BY <2>1, <2>2
<1>5. /\ IsSequence(ts) /\ Len(ts) \in Nat /\ Each(ts, f, n) /\ Nothing(ts, f)
  BY <1>1 DEF Mirrors, IsSequence
<1>6. OneDatabase(Statements) /\ Sink = "clickhouse"
  BY DEF Followable, ViewsFollowable
<1>7. \A i \in 1..Len(ts) : ts[i].name \in Named(Statements) /\ ts[i].sink = "clickhouse"
  <2>1. ASSUME NEW t, IsTable(t, n) PROVE t.name \in Named(Statements) /\ t.sink = Sink
    BY <2>1 DEF IsTable, TableShape
  <2> QED
    BY <1>5, <1>6, <2>1 DEF Each
<1>8. /\ k = 0 => ~Holds(ts, p)
      /\ k # 0 => k \in 1..Len(ts) /\ PlaceOf(ts[k]) = p
  BY <1>2, <1>5, <1>6, <1>7, TargetIs
<1>9. inp.sinks = ts /\ inp.views[x] = v
  OBVIOUS
<1> HIDE DEF ts, vs, v, q, inp, k, p, f
<1>10. p \in DOMAIN f => f[p].listed
  BY <1>4, <1>5 DEF Nothing
<1>11. CASE k = 0
  <2>1. p \notin DOMAIN f
    BY <1>5, <1>8, <1>10, <1>11 DEF Nothing
  <2>2. ~Broken(w, w.views[q])
    BY <1>3, <2>1 DEF Broken, f
  <2> QED
    BY <1>2, <1>3, <1>11, <2>2 DEF ts, vs, v, q, inp, k
<1>12. CASE k # 0
  <2>1. k \in 1..Len(ts) /\ p \in DOMAIN f /\ Suits(ts[k], f[p]) /\ f[p].listed
    BY <1>5, <1>8, <1>10, <1>12 DEF Each
  <2> DEFINE cols == ts[k].columns
  <2>2. cols = f[p].cols /\ IsSequence(cols)
    BY <2>1 DEF Suits, Alike, IsColumns
  <2>3. cols = inp.sinks[TargetOf(inp, inp.views[x])].columns
    BY <1>9 DEF k
  <2> HIDE DEF cols
  <2>4. Broken(w, w.views[q]) <=>
          IF v.refreshable THEN v.columns # [j \in DOMAIN cols |-> cols[j].name]
          ELSE ~(ToSet(v.columns) \subseteq NamesIn(cols))
    BY <1>3, <2>1, <2>2 DEF Broken, f
  <2>5. Broken(w, w.views[q]) <=> Mismatch(inp, x) # {}
    <3>1. CASE v.refreshable
      <4>1. Mismatch(inp, x) = {} <=> v.columns = [j \in DOMAIN cols |-> cols[j].name]
        BY <1>4, <1>9, <2>2, <2>3, <3>1, RefreshableVerdict
      <4> QED
        BY <2>4, <3>1, <4>1
    <3>2. CASE ~v.refreshable
      <4>1. Mismatch(inp, x) = {} <=> ToSet(v.columns) \subseteq NamesIn(cols)
        BY <1>9, <2>3, <3>2, StreamingVerdict
      <4> QED
        BY <2>4, <3>2, <4>1
    <3> QED
      BY <3>1, <3>2
  <2> QED
    BY <1>2, <1>3, <1>4, <1>12, <2>5 DEF ts, vs, v, q, inp, k
<1> QED
  BY <1>11, <1>12

LEMMA VerdictFollows ==
    ASSUME Readable, ViewsFollowable(Statements), InOrder(Statements), Following
    PROVE  ViewVerdictIsReal
<1> DEFINE inp == [sinks |-> r.tables, views |-> r.views]
           vs == r.views
           g == warehouse.views
           Wrong(x) == vs[x].target # <<>> /\ TargetOf(inp, vs[x]) # 0 /\ Mismatch(inp, x) # {}
           found == {f.pos : f \in MvColumnMatch(inp)}
           real == {v.pos : v \in {g[q] : q \in {p \in DOMAIN g : Broken(warehouse, g[p])}}}
<1>1. Followable(Statements) /\ Matched(warehouse, r, line)
  BY DEF Readable, Following
<1>2. DOMAIN vs = 1..Len(vs) /\ \A q \in DOMAIN g : Holds(vs, q)
  BY <1>1 DEF Matched, ViewsMatch, ViewList, IsSequence
<1>3. \A x \in 1..Len(vs) :
         /\ PlaceOf(vs[x]) \in DOMAIN g /\ g[PlaceOf(vs[x])].pos = vs[x].pos
         /\ Broken(warehouse, g[PlaceOf(vs[x])]) <=> Wrong(x)
  BY <1>1, ViewVerdict
<1>4. MvColumnMatch(inp) =
        UNION {Mismatch(inp, x) : x \in {y \in DOMAIN vs : vs[y].target # <<>>
                                                           /\ TargetOf(inp, vs[y]) # 0}}
  BY Zenon DEF MvColumnMatch, Mismatch
<1>5. inp.views = vs
  OBVIOUS
<1>6. \A x : \A f \in Mismatch(inp, x) : f.pos = vs[x].pos
  BY <1>5, MismatchAtTheView
<1> HIDE DEF inp, vs, g
<1>7. found \subseteq real
  <2> SUFFICES ASSUME NEW f \in MvColumnMatch(inp) PROVE f.pos \in real
    OBVIOUS
  <2>1. PICK x \in DOMAIN vs : Wrong(x) /\ f \in Mismatch(inp, x)
    BY <1>4
  <2>2. f.pos = g[PlaceOf(vs[x])].pos /\ PlaceOf(vs[x]) \in DOMAIN g
        /\ Broken(warehouse, g[PlaceOf(vs[x])])
    BY <1>2, <1>3, <1>6, <2>1
  <2> QED
    BY <2>2
<1>8. real \subseteq found
  <2> SUFFICES ASSUME NEW q \in DOMAIN g, Broken(warehouse, g[q]) PROVE g[q].pos \in found
    OBVIOUS
  <2>1. PICK x \in 1..Len(vs) : PlaceOf(vs[x]) = q
    BY <1>2 DEF Holds
  <2>2. Wrong(x) /\ g[q].pos = vs[x].pos
    BY <1>3, <2>1
  <2>3. PICK f : f \in Mismatch(inp, x)
    BY <2>2
  <2>4. f \in MvColumnMatch(inp) /\ f.pos = g[q].pos
    BY <1>2, <1>4, <1>6, <2>1, <2>2, <2>3
  <2> QED
    BY <2>4
<1> QED
  BY <1>7, <1>8, Zenon DEF ViewVerdictIsReal, inp, vs, g

-----------------------------------------------------------------------------
(* The theorems. *)

(* The reader's state is well-formed after any files it follows: every     *)
(* position is that of a statement already read, and no column is older    *)
(* than its table.                                                         *)
THEOREM SinkTypeCorrectness ==
    ASSUME Readable
    PROVE  Spec => []SinkTypeOK
<1>1. Spec => []Following
  BY Invariance
<1>2. Following => SinkTypeOK
  BY TypesFollow
<1> QED
  BY <1>1, <1>2, PTL

(* The tables Read returns are those the DDL files leave in the warehouse, *)
(* each with its columns and its topic, after any sequence of CREATE,      *)
(* ALTER, DROP, EXCHANGE and RENAME of the statements the readers follow.  *)
THEOREM WhatTheFilesLeave ==
    ASSUME Readable
    PROVE  Spec => []SinkLeavesBehind
<1>1. Spec => []Following
  BY Invariance
<1>2. Following => SinkLeavesBehind
  BY LeavesBehindFollows
<1> QED
  BY <1>1, <1>2, PTL

(* A last segment names one table, through renames, exchanges and second   *)
(* creations: what Find, mv-column-match and the topics look up is it.     *)
THEOREM OneTableOneSegment ==
    ASSUME Readable
    PROVE  Spec => []SinkNamesDistinct
<1>1. Spec => []Following
  BY Invariance
<1>2. Following => SinkNamesDistinct
  BY DistinctFollows
<1> QED
  BY <1>1, <1>2, PTL

(* A sink column's position is that of the statement that added it, so a   *)
(* finding, and the marker for it, stands where the column is declared.    *)
THEOREM ColumnsPointHome ==
    ASSUME Readable
    PROVE  Spec => []SinkPointsAtDeclarations
<1>1. Spec => []Following
  BY Invariance
<1>2. Following => SinkPointsAtDeclarations
  BY PointsFollow
<1> QED
  BY <1>1, <1>2, PTL

(* mv-column-match reports the views that insert into the wrong column of  *)
(* the warehouse, and no other, when columns are added at the end and a    *)
(* view's target is the unqualified name of a table the files list.        *)
THEOREM ReportedViewsAreBroken ==
    ASSUME Readable, ViewsFollowable(Statements), InOrder(Statements)
    PROVE  Spec => []ViewVerdictIsReal
<1>1. Spec => []Following
  BY Invariance
<1>2. Following => ViewVerdictIsReal
  BY VerdictFollows
<1> QED
  BY <1>1, <1>2, PTL

(* Of files of one database no second CREATE ends the reading: createTable *)
(* panics at a CREATE TABLE of a table it knows, which the warehouse has.  *)
THEOREM LaterCreateNeverPanics ==
    ASSUME Readable
    PROVE  Spec => []LaterCreateReplaces
<1>1. Spec => []Following
  BY Invariance
<1>2. Following => LaterCreateReplaces
  BY DEF Following, Matched, LaterCreateReplaces
<1> QED
  BY <1>1, <1>2, PTL

=============================================================================
