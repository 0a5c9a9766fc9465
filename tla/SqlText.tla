------------------------------ MODULE SqlText ------------------------------
(***************************************************************************)
(* The text tools of internal/ddl, and what a reader ("postgres", "mysql", *)
(* "sink") makes of a CREATE TABLE or ALTER TABLE ... ADD with them: names *)
(* and lines of the columns.                                               *)
(*                                                                         *)
(* A text is a sequence of tokens: words, "'", "dq", "tick", "\\", "(",    *)
(* ")", ",", ".", " ", "nl".                                               *)
(***************************************************************************)
EXTENDS Integers, SequencesExt

Blanks == {" ", "nl"}
IdQuotes == {"dq", "tick"}
Quotes == IdQuotes \cup {"'"}

-----------------------------------------------------------------------------
(* The quote each token is in, "" outside: the q of a scan [q, at]. *)
QuoteAround(ts, quotes) ==
    FoldLeft(LAMBDA s, t : [q |-> CASE s.q = "" /\ t \in quotes -> t
                                    [] s.q # "" /\ t = s.q -> ""
                                    [] OTHER -> s.q,
                            at |-> Append(s.at, s.q)],
             [q |-> "", at |-> <<>>], ts).at

(* The tokens outside quotes, and how deep in parentheses each is. *)
BareOf(ts, toks, quotes) ==
    LET at == QuoteAround(ts, quotes) IN {k \in DOMAIN ts : ts[k] \in toks /\ at[k] = ""}

BareTokens(ts, toks) == BareOf(ts, toks, Quotes)

DepthsOf(ts, opening, closing) ==
    [k \in 0..Len(ts) |-> Cardinality({j \in opening : j <= k})
                            - Cardinality({j \in closing : j <= k})]

Depths(ts) == DepthsOf(ts, BareTokens(ts, {"("}), BareTokens(ts, {")"}))

Solid(ts) == {k \in DOMAIN ts : ts[k] \notin Blanks}
TrimSpace(ts) == IF Solid(ts) = {} THEN <<>> ELSE SubSeq(ts, Min(Solid(ts)), Max(Solid(ts)))

(* What is between the tokens at cuts. *)
Pieces(ts, cuts) ==
    LET Take(ps, k) == IF k \in cuts THEN Append(ps, <<>>)
                       ELSE Append(Front(ps), Append(Last(ps), ts[k]))
    IN  FoldLeft(Take, <<<<>>>>, [k \in DOMAIN ts |-> k])

NonEmpty(pieces) == SelectSeq(pieces, LAMBDA p : p # <<>>)

-----------------------------------------------------------------------------
(* Body: [inner, rest] of the first top-level parentheses, or <<>>. *)
Parted(ts, open, close) ==
    [inner |-> SubSeq(ts, open + 1, close - 1), rest |-> SubSeq(ts, close + 1, Len(ts))]

Enclosed(ts, opens, closes) ==
    LET ended == {k \in closes : \E j \in opens : j < k}
    IN  IF ended = {} THEN <<>>
        ELSE <<Parted(ts, Max({j \in opens : j < Min(ended)}), Min(ended))>>

BodyAt(ts, d) ==
    Enclosed(ts, {k \in BareTokens(ts, {"("}) : d[k-1] = 0}, {k \in BareTokens(ts, {")"}) : d[k] = 0})

Body(ts) == BodyAt(ts, Depths(ts))

TrimmedPieces(pieces) == NonEmpty([k \in DOMAIN pieces |-> TrimSpace(pieces[k])])

SplitAt(ts, d) == TrimmedPieces(Pieces(ts, {k \in BareTokens(ts, {","}) : d[k] = 0}))

SplitTop(ts) == SplitAt(ts, Depths(ts))

(* Words: quotes and parentheses stay together; blanks in parentheses fold.*)
WordsAt(ts, blank, d) ==
    NonEmpty(Pieces([k \in DOMAIN ts |-> IF k \in blank THEN " " ELSE ts[k]],
                    {k \in blank : d[k] <= 0}))

Words(ts) == WordsAt(ts, BareTokens(ts, Blanks), Depths(ts))

Sentence(words) == FoldLeft(LAMBDA ts, w : IF ts = <<>> THEN w ELSE ts \o <<" ">> \o w, <<>>, words)

Undoubled(ts, q) ==
    FoldLeft(LAMBDA a, t : IF t = q /\ a.half THEN [a EXCEPT !.half = FALSE]
                           ELSE [text |-> Append(a.text, t), half |-> t = q],
             [text |-> <<>>, half |-> FALSE], ts).text

Unquote(id) ==
    IF Len(id) >= 2 /\ Head(id) \in IdQuotes /\ Last(id) = Head(id)
    THEN Undoubled(SubSeq(id, 2, Len(id) - 1), Head(id)) ELSE id

SplitName(name) ==
    LET parts == Pieces(name, BareOf(name, {"."}, IdQuotes))
    IN  [k \in DOMAIN parts |-> Unquote(parts[k])]

-----------------------------------------------------------------------------
(* Where item begins at or after from, 0 if nowhere. *)
IndexFrom(ts, item, from) ==
    LET found == {k \in from..Len(ts) - Len(item) + 1 : SubSeq(ts, k, k + Len(item) - 1) = item}
    IN  IF found = {} THEN 0 ELSE Min(found)

LineAt(ts, at) == 1 + Cardinality({k \in DOMAIN ts : k < at /\ ts[k] = "nl"})

(* ItemLine, as a step: c is the lines so far and the cursor. *)
ItemLine(ts, c, item) ==
    LET at == IndexFrom(ts, item, c.cursor)
    IN  IF at = 0 THEN [c EXCEPT !.lines = Append(@, 1)]
        ELSE [lines |-> Append(c.lines, LineAt(ts, at)), cursor |-> at + Len(item)]

(* NameLine, and the statement's line when the name is not found. *)
NameLine(ts, c, name) == ItemLine(ts, c, name)

Start(at) == [lines |-> <<>>, cursor |-> at]

\* Mutant: escaped quotes are left alone.
DoubleEscapedQuotes_Not(ts) == ts

(* MySQL's \' and \" in strings become '' and "". *)
DoubleEscapedQuotes(ts) ==
    LET Step(a, k) ==
          CASE a.skip -> [a EXCEPT !.text = Append(@, ts[k]), !.skip = FALSE]
            [] ~a.skip /\ a.q \in {"'", "dq"} /\ ts[k] = "\\" /\ k < Len(ts) ->
                  [a EXCEPT !.text = Append(@, IF ts[k+1] = a.q THEN a.q ELSE "\\"), !.skip = TRUE]
            [] OTHER ->
                  [a EXCEPT !.text = Append(@, ts[k]),
                            !.q = CASE @ = "" /\ ts[k] \in Quotes -> ts[k]
                                    [] ts[k] = @ -> ""
                                    [] OTHER -> @]
    IN  FoldLeft(Step, [text |-> <<>>, q |-> "", skip |-> FALSE], [k \in DOMAIN ts |-> k]).text

-----------------------------------------------------------------------------
(* The readers: [crashed, table, columns], columns as [name, line]. *)

KeyWords == {"CONSTRAINT", "PRIMARY", "UNIQUE", "CHECK", "FOREIGN"}

UpTo(word, tok) ==
    IF \E k \in 2..Len(word) : word[k] = tok
    THEN SubSeq(word, 1, Min({k \in 2..Len(word) : word[k] = tok}) - 1) ELSE word

IsKey(reader, item) ==
    LET first == Head(Words(item))
    IN  (IF reader = "mysql" THEN UpTo(first, "(") ELSE first) \in {<<w>> : w \in KeyWords}

(* Any other statement adds no table. *)
Unread == [crashed |-> FALSE, table |-> <<>>, columns |-> <<>>]

Crashed == [Unread EXCEPT !.crashed = TRUE]

(* Where createTable looks for the column list: after TABLE, in the sink   *)
(* reader from the name's word on.  A word that Words has folded is not in *)
(* the text, and its index of -1 ends the reading.                         *)
BodyFrom(reader, ts) ==
    IF reader = "sink" THEN IndexFrom(ts, Words(ts)[3], 1)
    ELSE IndexFrom(ts, <<"TABLE">>, 1) + 1

(* A definition's column, and those that are no key's. *)
ColumnOf(reader, item, line) ==
    [name |-> Unquote(Head(Words(item))), line |-> line, key |-> IsKey(reader, item)]

Defined(reader, ts, items) ==
    LET lines == FoldLeft(LAMBDA c, p : ItemLine(ts, c, p), Start(1), items).lines
    IN  SelectSeq([k \in DOMAIN items |-> ColumnOf(reader, items[k], lines[k])], LAMBDA c : ~c.key)

CreateTable(reader, ts) ==
    LET from == BodyFrom(reader, ts)
        body == Body(SubSeq(ts, from, Len(ts)))
    IN  CASE from = 0 -> Crashed
          [] from # 0 /\ body = <<>> -> Unread
          [] OTHER -> [crashed |-> FALSE, table |-> SplitName(UpTo(Words(ts)[3], "(")),
                       columns |-> Defined(reader, ts, SplitTop(body[1].inner))]

\* Mutant: names are searched from the start of the statement.
Cursor_AtStart(ts, table) == Start(1)

\* After the table's name.
Cursor(ts, table) == [ItemLine(ts, Start(1), table) EXCEPT !.lines = <<>>]

ColumnsNamed(ts, table, names) ==
    LET lines == FoldLeft(LAMBDA c, n : NameLine(ts, c, n), Cursor(ts, Last(table)), names).lines
    IN  [crashed |-> FALSE, table |-> table,
         columns |-> [k \in DOMAIN names |-> [name |-> names[k], line |-> lines[k], key |-> FALSE]]]

(* The words of each action after its verb. *)
Actions(w) ==
    LET actions == SplitTop(Sentence(SubSeq(w, 4, Len(w))))
    IN  SelectSeq([k \in DOMAIN actions |-> Tail(Words(actions[k]))], LAMBDA a : a # <<>>)

AddedName(a) == Unquote(IF Head(a) = <<"COLUMN">> THEN a[2] ELSE a[1])
AddedNames(adds) == [k \in DOMAIN adds |-> AddedName(adds[k])]

AddColumns(reader, ts, w) ==
    ColumnsNamed(ts, SplitName(w[3]),
          AddedNames(SelectSeq(Actions(w), LAMBDA a : ~IsKey(reader, Sentence(a)))))

(* alterTable of the source readers, for ADD [COLUMN] name ... . *)
AlterTable(reader, ts) == AddColumns(reader, ts, Words(ts))

ReadAs(reader, ts) ==
    CASE IsPrefix(<<"CREATE", " ", "TABLE", " ">>, ts) -> CreateTable(reader, ts)
      [] IsPrefix(<<"ALTER", " ", "TABLE", " ">>, ts) -> AlterTable(reader, ts)
      [] OTHER -> Unread

=============================================================================
