----------------------------- MODULE MCSqlSplit -----------------------------
(***************************************************************************)
(* Two families of files: every file put together from a few fragments,    *)
(* and files of one CREATE TABLE or ALTER TABLE, its definitions set apart *)
(* by blanks or comments, behind another statement or none.                *)
(***************************************************************************)
EXTENDS SqlSplit

CONSTANTS MaxFragments, MaxDefinitions

Dialects == {"postgres", "mysql", "clickhouse"}

-----------------------------------------------------------------------------
Opening == <<"/*", "nl">>
Closing1 == <<"*/">>

Fragments ==
    {<<"a">>, <<"nl">>, <<";">>, <<"'">>, <<"--">>, <<"#">>, Opening, Closing1,
     <<"\\", "'">>, <<"nl", "$$">>, <<"$t$">>, <<"nl", "DELIMITER", " ", "$$", "nl", "a">>}

(* No comment is opened while one is open: PostgreSQL's nest.              *)
NoneNested(h) ==
    \A j, k \in DOMAIN h :
        j < k /\ h[j] = Opening /\ h[k] = Opening => \E m \in j..k : h[m] = Closing1

Put(toks, on, declared) == [toks |-> toks, dialect |-> on, declared |-> declared]

(* For the source readers: a ClickHouse string has escapes, which Split    *)
(* does not know.                                                          *)
FragmentFiles ==
    {Put(FlattenSeq(h), on, <<>>) :
        h \in {g \in UNION {[1..k -> Fragments] : k \in 0..MaxFragments} : NoneNested(g)},
        on \in {"postgres", "mysql"}}

-----------------------------------------------------------------------------
Def(name, toks) == [name |-> name, toks |-> toks]

Definitions ==
    {Def(<<"b">>, <<"b", " ", "int">>),
     Def(<<"a">>, <<"a", " ", "decimal", "(", "8", ",", " ", "2", ")">>),
     Def(<<"c">>, <<"c", " ", "int", " ", "DEFAULT", " ", "'", "x", ",", "nl", "(", "y", "'">>),
     Def(<<"d">>, <<"d", " ", "int", " ", "DEFAULT", " ", "'", "'", "'", ",", "'">>),
     Def(<<"e", " ", "f">>, <<"dq", "e", " ", "f", "dq", " ", "int", "(", "8", ")">>),
     Def(<<"g", ".", "h">>, <<"tick", "g", ".", "h", "tick", "nl", "int">>),
     Def(<<>>, <<"PRIMARY", " ", "KEY", " ", "(", "k", ",", " ", "l", ")">>),
     Def(<<>>, <<"CONSTRAINT", " ", "u", " ", "UNIQUE", "(", "k", ")">>)}

(* MySQL's escapes; a Postgres string has none. *)
Escaped == Def(<<"m">>, <<"m", " ", "int", " ", "COMMENT", " ", "'", "it", "\\", "'", "s", ",", " ", "k", "(", "'">>)

DefinitionsOf(on) == IF on = "mysql" THEN Definitions \cup {Escaped} ELSE Definitions

(* The definitions are in the author's order, each once. *)
Lists(on) ==
    {ds \in UNION {[1..k -> DefinitionsOf(on)] : k \in 1..MaxDefinitions} : IsInjective(ds)}

Form(op, table, toks) == [op |-> op, table |-> table, toks |-> toks]

PlainName == <<<<"a">>>>
QuotedName == <<<<"s", ".", "x">>, <<"a", " ", "b">>>>
QuotedToks == <<"dq", "s", ".", "x", "dq", ".", "dq", "a", " ", "b", "dq">>

(* A name glued to its parenthesis is left to the source readers: the sink *)
(* readers search for it, and a list of several lines ends their reading.  *)
Forms(on) ==
    {Form("create", PlainName, <<"a", " ", "(">>), Form("create", QuotedName, QuotedToks \o <<"nl", "(">>)}
    \cup IF on = "clickhouse" THEN {}
         ELSE {Form("create", PlainName, <<"a", "(">>), Form("alter", PlainName, <<"a">>),
               Form("alter", QuotedName, QuotedToks)}

Gaps == {<<" ">>, <<"nl">>, <<" ", "--", "it", "'", ",", "nl">>, <<"/*", "(", "nl", "'", ";", "*/">>}

Nothing == [table |-> <<>>, columns |-> <<>>]
NoLead == [toks |-> <<>>, declared |-> <<>>]
Lead == [toks |-> <<"a", " ", "'", ";", "nl", "'", ";", "nl", "nl">>, declared |-> <<Nothing>>]

(* Every gap, and a statement in front. *)
Surroundings == (Gaps \X {NoLead}) \cup {<<<<" ">>, Lead>>}

Keyword(f) == IF f.op = "create" THEN <<"CREATE", " ", "TABLE", " ">> ELSE <<"ALTER", " ", "TABLE", " ">>

(* One definition after another: the text so far, and the columns' places. *)
Definition(f, gap, w, d) ==
    LET before == w.toks \o (IF w.first THEN <<>> ELSE <<",">>) \o gap
                    \o (IF f.op = "alter" THEN <<"ADD", " ">> ELSE <<>>)
    IN  [first |-> FALSE, toks |-> before \o d.toks,
         columns |-> IF d.name = <<>> THEN w.columns
                     ELSE Append(w.columns, [name |-> d.name, place |-> Len(before) + 1])]

Written(on, f, gap, lead, ds) ==
    LET w == FoldLeft(LAMBDA x, d : Definition(f, gap, x, d),
                      [first |-> TRUE, toks |-> lead.toks \o Keyword(f) \o f.toks, columns |-> <<>>], ds)
    IN  Put(w.toks \o (IF f.op = "create" THEN <<")", ";">> ELSE <<";">>), on,
            Append(lead.declared, [table |-> f.table, columns |-> w.columns]))

WrittenFiles(on) ==
    {Written(on, f, around[1], around[2], ds) : f \in Forms(on), around \in Surroundings, ds \in Lists(on)}

MCFiles == {FragmentFiles} \cup {WrittenFiles(on) : on \in Dialects}
=============================================================================
