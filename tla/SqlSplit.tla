------------------------------ MODULE SqlSplit ------------------------------
(***************************************************************************)
(* From a SQL file to tables: internal/sqlsplit cuts it into statements,   *)
(* one action per case of split's loop, and a reader takes each to SqlText *)
(* (source/postgres, source/mysql, sink/sqlddl).  Beside them stand what   *)
(* the file's author declared and a lexer of the server it is for.         *)
(*                                                                         *)
(* SqlText's tokens, ";", the marks of comments ("--", "#", "/*", "*/")    *)
(* and of dollar quotes ("$$", "$t$"), "DELIMITER".  The text of a         *)
(* statement keeps, with each token, its place in the file.                *)
(***************************************************************************)
EXTENDS SqlText

CONSTANT Files      \* families of files, each [toks, dialect, declared], see AuthorDeclared

(* A file is text. *)
ASSUME SplitFilesAssumption == \A family \in Files : \A f \in family : f.toks \in Seq(STRING)

VARIABLES
    file,
    i,              \* the next token
    line,
    start,          \* line the current statement began on; 0 until first char
    buf,            \* the current statement, [tok, place]
    dollarT,        \* the tag that opened a dollar quote, "" when not inside one
    delim,          \* what ends a statement, a sequence of tokens
    bol,            \* at the start of a line, ignoring leading blanks
    out,            \* the statements so far, [text, line]
    done,
    read            \* what the reader made of the statements so far

splitVars == <<file, i, line, start, buf, dollarT, delim, bol, out, done, read>>

src == file.toks
dialect == file.dialect     \* "postgres", "mysql" or "clickhouse"

Tags == {"$$", "$t$"}

\* SplitMySQL; every other file is given to Split.
MySQL == dialect = "mysql"

SplitInit ==
    /\ \E family \in Files : file \in family
    /\ i = 1 /\ line = 1 /\ start = 0 /\ buf = <<>>
    /\ dollarT = "" /\ delim = <<";">> /\ bol = TRUE
    /\ out = <<>> /\ done = FALSE /\ read = <<>>

-----------------------------------------------------------------------------
Rest == SubSeq(src, i, Len(src))
NewLines(m, n) == {k \in m..n : k \in DOMAIN src /\ src[k] = "nl"}
Tokens(m, n) == [k \in 1..n-m+1 |-> [tok |-> src[m + k - 1], place |-> m + k - 1]]

(* The newlines of a stretch, the k-th of them with k up to its place. *)
NewLineTokens(m, n) ==
    [k \in 1..Cardinality(NewLines(m, n)) |->
        [tok |-> "nl", place |-> CHOOSE p \in NewLines(m, n) : Cardinality(NewLines(m, p)) = k]]

(* The first of these tokens from m on, else the end of the file. *)
Next1(toks, m) == Min({k \in m..Len(src) : src[k] \in toks} \cup {Len(src) + 1})

IsBlank(t) == t.tok \in Blanks
Trimmed(ts) ==
    LET solid == {k \in DOMAIN ts : ~IsBlank(ts[k])}
    IN  IF solid = {} THEN <<>> ELSE SubSeq(ts, Min(solid), Max(solid))

Flush ==
    /\ out' = IF Trimmed(buf) = <<>> THEN out
              ELSE Append(out, [text |-> Trimmed(buf), line |-> start])
    /\ buf' = <<>> /\ start' = 0

(* Emit, at the line the reading has come to. *)
Emit(ts, at) ==
    /\ start' = IF start = 0 /\ Trimmed(ts) # <<>> THEN at ELSE start
    /\ buf' = buf \o ts
    /\ UNCHANGED out

GoOn(next, newlines) == i' = next /\ line' = line + newlines

Running == i <= Len(src) /\ UNCHANGED <<file, done, read>>

\* A line of the mysql client: DELIMITER, a blank and something.
AtDelimiterLine == MySQL /\ bol /\ src[i] = "DELIMITER" /\ i + 2 <= Len(src) /\ src[i + 1] = " "

DelimiterLine ==
    /\ Running /\ AtDelimiterLine
    /\ LET end == Next1({"nl"}, i)
           d == Trimmed(Tokens(i + 2, end - 1))
       IN  /\ IF d = <<>> THEN UNCHANGED <<delim, out, buf, start>>
              ELSE Flush /\ delim' = [k \in DOMAIN d |-> d[k].tok]
           /\ GoOn(end, 0)
    /\ bol' = FALSE /\ UNCHANGED dollarT

(* The cases, in order: each is tried when those before it do not apply. *)
InDollar == dollarT # ""
AtHash == MySQL /\ src[i] = "#"
AtDashes == src[i] = "--"
AtBlock == src[i] = "/*"
AtQuote == src[i] \in Quotes
AtTag == ~MySQL /\ src[i] \in Tags
AtDelim == IsPrefix(delim, Rest)

Token == Running /\ ~AtDelimiterLine
Plain == Token /\ ~InDollar
Started == bol' = FALSE     \* a character that is no blank

Dollar ==
    /\ Token /\ InDollar
    /\ Emit(Tokens(i, i), line + Cardinality(NewLines(i, i)))
    /\ dollarT' = IF src[i] = dollarT THEN "" ELSE dollarT
    /\ GoOn(i + 1, Cardinality(NewLines(i, i)))
    /\ UNCHANGED <<bol, delim>>

(* Drop to the end of the line, keep the newline. *)
LineComment ==
    /\ Plain /\ (AtHash \/ AtDashes)
    /\ GoOn(Next1({"nl"}, i), 0)
    /\ Started /\ UNCHANGED <<start, buf, dollarT, delim, out>>

\* Mutant: a comment's newlines are counted and not kept.
BlockComment_DropsNewlines ==
    /\ Plain /\ AtBlock
    /\ LET end == Next1({"*/"}, i + 1)
       IN  /\ Emit(<<[tok |-> " ", place |-> i]>>, line)
           /\ GoOn(end + 1, Cardinality(NewLines(i, end)))
    /\ Started /\ UNCHANGED <<dollarT, delim>>

\* Mutant: a comment's newlines are kept and not counted.
BlockComment_NotCounted ==
    /\ Plain /\ AtBlock
    /\ LET end == Next1({"*/"}, i + 1)
       IN  /\ Emit(<<[tok |-> " ", place |-> i]>> \o NewLineTokens(i, end), line)
           /\ GoOn(end + 1, 0)
    /\ Started /\ UNCHANGED <<dollarT, delim>>

(* A blank and the comment's newlines stay; a comment ends at the first    *)
(* closing mark.                                                           *)
BlockComment ==
    /\ Plain /\ AtBlock
    /\ LET end == Next1({"*/"}, i + 1)
       IN  /\ Emit(<<[tok |-> " ", place |-> i]>> \o NewLineTokens(i, end), line)
           /\ GoOn(end + 1, Cardinality(NewLines(i, end)))
    /\ Started /\ UNCHANGED <<dollarT, delim>>

\* Mutant: a backslash escapes nothing.
Escaping_Never == FALSE

\* A backslash escapes the next character inside '...' of MySQL's.
Escaping == MySQL /\ src[i] # "tick"

(* Where the quote opened at i closes, doubled and escaped ones passed     *)
(* over; the last token when it never does.                                *)
Closing[j \in Nat] ==
    CASE j > Len(src) -> Len(src)
      [] j <= Len(src) /\ Escaping /\ src[j] = "\\" /\ j < Len(src) -> Closing[j + 2]
      [] j <= Len(src) /\ ~(Escaping /\ src[j] = "\\" /\ j < Len(src)) /\ src[j] = src[i] ->
            IF j < Len(src) /\ src[j + 1] = src[i] THEN Closing[j + 2] ELSE j
      [] OTHER -> Closing[j + 1]

(* The lines of the quote are counted before it is emitted. *)
Quoted ==
    /\ Plain /\ AtQuote
    /\ LET end == Closing[i + 1]
       IN  /\ Emit(Tokens(i, end), line + Cardinality(NewLines(i, end)))
           /\ GoOn(end + 1, Cardinality(NewLines(i, end)))
    /\ Started /\ UNCHANGED <<dollarT, delim>>

DollarTag ==
    /\ Plain /\ AtTag
    /\ Emit(Tokens(i, i), line)
    /\ dollarT' = src[i]
    /\ GoOn(i + 1, 0)
    /\ Started /\ UNCHANGED delim

Unmarked == Plain /\ ~AtHash /\ ~AtDashes /\ ~AtBlock /\ ~AtQuote /\ ~AtTag

Cut ==
    /\ Unmarked /\ AtDelim
    /\ Flush
    /\ GoOn(i + Len(delim), 0)
    /\ Started /\ UNCHANGED <<dollarT, delim>>

Other ==
    /\ Unmarked /\ ~AtDelim
    /\ Emit(Tokens(i, i), line)
    /\ GoOn(i + 1, Cardinality(NewLines(i, i)))
    /\ bol' = (src[i] = "nl" \/ (bol /\ src[i] = " "))
    /\ UNCHANGED <<dollarT, delim>>

(* The end of the file ends the last statement. *)
Finish ==
    /\ i > Len(src) /\ ~done
    /\ Flush
    /\ done' = TRUE
    /\ UNCHANGED <<file, i, line, dollarT, delim, bol, read>>

-----------------------------------------------------------------------------
Toks(ts) == [k \in DOMAIN ts |-> ts[k].tok]

Reader == IF dialect = "clickhouse" THEN "sink" ELSE dialect

(* SplitMySQL's statements have their escapes doubled before they are      *)
(* read; a column's line is counted from the statement's.                  *)
Reading(st) ==
    LET found == ReadAs(Reader, IF MySQL THEN DoubleEscapedQuotes(Toks(st.text)) ELSE Toks(st.text))
        Placed(c) == [name |-> c.name, line |-> st.line + c.line - 1]
    IN  [found EXCEPT !.columns = [k \in DOMAIN @ |-> Placed(@[k])]]

AllRead == done /\ Len(read) = Len(out)

ReadStatement ==
    /\ done /\ ~AllRead
    /\ read' = Append(read, Reading(out[Len(read) + 1]))
    /\ UNCHANGED <<file, i, line, start, buf, dollarT, delim, bol, out, done>>

SplitOver == AllRead /\ UNCHANGED splitVars

SplitNext ==
    \/ DelimiterLine \/ Dollar \/ LineComment \/ BlockComment \/ Quoted \/ DollarTag
    \/ Cut \/ Other \/ Finish \/ ReadStatement \/ SplitOver

SplitSpec == SplitInit /\ [][SplitNext]_splitVars

-----------------------------------------------------------------------------
(* The server's lexer, one token after another.  l is [mode, depth, open,  *)
(* delim, fresh, text, sts]: what it is inside of, the statement so far    *)
(* and those before it; fresh at the start of a line.                      *)

Nests == dialect = "postgres"           \* comments in comments
Escapes(q) == dialect = "clickhouse" \/ (MySQL /\ q # "tick")

Add(l, t) == [l EXCEPT !.text = Append(@, t)]
Enter(l, mode, open) == [l EXCEPT !.mode = mode, !.open = open, !.fresh = FALSE]
Ended(l) == [l EXCEPT !.text = <<>>, !.fresh = FALSE, !.sts = Append(@, l.text)]

LexPlain(l, t) ==
    CASE t = "--" \/ (MySQL /\ t = "#") -> Enter(l, "line", "")
      [] t = "/*" -> [Enter(Add(l, " "), "block", "") EXCEPT !.depth = 1]
      [] t \in Quotes -> Enter(Add(l, t), "quote", t)
      [] ~MySQL /\ t \in Tags -> Enter(Add(l, t), "dollar", t)
      [] t = l.delim -> Ended(l)
      [] OTHER -> [Add(l, t) EXCEPT !.fresh = t = "nl" \/ (@ /\ t = " ")]

LexBlock(l, t) ==
    CASE t = "/*" /\ Nests -> [l EXCEPT !.depth = @ + 1]
      [] t = "*/" -> [l EXCEPT !.depth = @ - 1, !.mode = IF l.depth = 1 THEN "plain" ELSE "block"]
      [] OTHER -> l

Lex(l, t) ==
    CASE l.mode = "plain" ->
            IF MySQL /\ l.fresh /\ t = "DELIMITER" THEN Enter(Ended(l), "command", "")
            ELSE LexPlain(l, t)
      [] l.mode = "line" ->
            IF t = "nl" THEN [Add(l, t) EXCEPT !.mode = "plain", !.fresh = TRUE] ELSE l
      [] l.mode = "command" ->
            IF t = "nl" THEN [l EXCEPT !.mode = "plain", !.fresh = TRUE]
            ELSE [l EXCEPT !.delim = IF t = " " THEN @ ELSE t]
      [] l.mode = "block" -> LexBlock(l, t)
      [] l.mode = "escape" -> [Add(l, t) EXCEPT !.mode = "quote"]
      [] l.mode = "quote" ->
            [Add(l, t) EXCEPT !.mode = CASE t = l.open -> "plain"
                                         [] t = "\\" /\ Escapes(l.open) -> "escape"
                                         [] OTHER -> "quote"]
      [] l.mode = "dollar" -> [Add(l, t) EXCEPT !.mode = IF t = l.open THEN "plain" ELSE "dollar"]

Lexed ==
    FoldLeft(Lex, [mode |-> "plain", depth |-> 0, open |-> "", delim |-> ";", fresh |-> TRUE,
                   text |-> <<>>, sts |-> <<>>], src)

\* No quote or comment is left open.
Complete == Lexed.mode \in {"plain", "line", "command"}

(* Blanks only separate. *)
Separated(ts) ==
    LET marked == FoldLeft(LAMBDA w, t : IF t \notin Blanks THEN Append(w, t)
                                         ELSE IF w = <<>> \/ Last(w) = " " THEN w ELSE Append(w, " "),
                           <<>>, ts)
    IN  IF marked # <<>> /\ Last(marked) = " " THEN Front(marked) ELSE marked

ServerStatements ==
    LET sts == Ended(Lexed).sts
    IN  SelectSeq([k \in DOMAIN sts |-> Separated(sts[k])], LAMBDA w : w # <<>>)

-----------------------------------------------------------------------------
(* What the author declared, statement by statement: [table, columns], the *)
(* columns as [name, place], place that of the definition's first token.   *)
AuthorDeclared == file.declared

(* The line count never drifts, whatever is skipped or copied; a statement *)
(* has a line as soon as it has a character.                               *)
SplitTypeOK ==
    /\ i \in 1..Len(src) + 2 /\ line = LineAt(src, i)
    /\ bol \in BOOLEAN /\ done \in BOOLEAN /\ dollarT \in Tags \cup {""} /\ delim # <<>>
    /\ start \in 0..line /\ (start = 0 <=> Trimmed(buf) = <<>>)

(* "A column's line inside the statement can still be computed from the    *)
(* statement's start": every token, behind comments and strings of several *)
(* lines, is as many newlines into the text as it is lines below the start.*)
LinesKept ==
    \A st \in ToSet(out) : Head(st.text).tok \notin Quotes =>
        \A k \in DOMAIN st.text :
            LineAt(src, st.text[k].place)
              = st.line + Cardinality({m \in 1..k-1 : st.text[m].tok = "nl"})

(* The package comment: "It understands the four things that hide a        *)
(* semicolon".  The statements of a file the server can read, and the      *)
(* words in them, are those the server sees.                               *)
CutsWhereTheServerDoes ==
    done /\ read = <<>> /\ Complete => [k \in DOMAIN out |-> Separated(Toks(out[k].text))] = ServerStatements

(* Whatever the definitions hold -- commas and parentheses in strings and  *)
(* types, doubled and escaped quotes, quoted names with blanks and dots,   *)
(* keys, comments -- the tables and columns are those written, in order.   *)
(* No statement ends the reading: postgres.go's comment on a name glued to *)
(* a list of several lines, searching for which "panicked".                *)
ColumnsAsWritten ==
    AllRead /\ AuthorDeclared # <<>> =>
        LET Named(t) == [table |-> t.table, columns |-> [k \in DOMAIN t.columns |-> t.columns[k].name]]
        IN  [n \in DOMAIN read |-> Named(read[n])] = [n \in DOMAIN AuthorDeclared |-> Named(AuthorDeclared[n])]

(* NameLine's and ItemLine's comments: each column is placed "on its own   *)
(* line" of the file, behind whatever comments and statements; a marker    *)
(* must be there to acknowledge a finding.                                 *)
LinesAsWritten ==
    AllRead /\ AuthorDeclared # <<>> =>
        \A n \in DOMAIN AuthorDeclared : \A k \in DOMAIN AuthorDeclared[n].columns :
            n \in DOMAIN read /\ k \in DOMAIN read[n].columns =>
                read[n].columns[k].line = LineAt(src, AuthorDeclared[n].columns[k].place)
=============================================================================
