------------------------------- MODULE MCLint -------------------------------
(***************************************************************************)
(* Invocations for model checking: a change that adds two columns, on one  *)
(* or two lines of a migration, and leaves both out of the stream while a  *)
(* sink reads one of them; up to two markers on and around the lines of    *)
(* the findings, some ways to disable rules, two values of --fail-on.      *)
(***************************************************************************)
EXTENDS Lint

In == INSTANCE MCInputs WITH
        Inputs <- {}, input <- input, pc <- 0, next <- 1, reads <- {}, fs <- {}, raised <- {}

File == "1_orders.sql"
SinkFile == "q.sql"

Users == In!SrcTable("public", "users", <<"id", "email", "ssn">>, File)
UsersOneLine == [Users EXCEPT !.cols["ssn"] = Users.cols["email"]]
UsersOld == In!SrcTable("public", "users", <<"id">>, File)

HeadConnector(cols) ==
    In!Connector([k \in {"column.include.list"} |->
                    <<In!Alternation([i \in DOMAIN cols |-> <<"public", "users", cols[i]>>])>>],
                 <<In!Unwrap>>)

LintInputs ==
    {In!Input(<<users>>, HeadConnector(cols),
              <<In!SinkTable("clickhouse", << <<"q">> >>, In!TopicName("public", "users"),
                             <<Bare("id"), Bare("ssn")>>, SinkFile)>>) :
        users \in {Users, UsersOneLine}, cols \in {<<"id">>, <<"id", "emial">>}}

OldBase == <<[source |-> <<UsersOld>>, contract |-> <<>>, changed |-> FALSE]>>

Marker(file, line, rules, reason, alone) ==
    [pos |-> In!At(file, line), rules |-> rules, reason |-> reason, alone |-> alone]

MarkerRules ==
    { {}, {"no-such-rule"}, {"source-column-not-captured"}, {"schema-before-connector"},
      {"schema-before-connector", "source-column-not-captured"},
      {"sink-column-not-captured", "source-column-not-captured"} }

Markers(file, lines) ==
    {Marker(file, l, rs, why, al) : l \in lines, rs \in MarkerRules, why \in BOOLEAN, al \in BOOLEAN}

InMigrations == Markers(File, 1..3)
InSink == Markers(SinkFile, 2..3)

(* Two markers stand on two lines: a line holds at most one.  Those of the *)
(* migrations come first.                                                  *)
MarkerLists ==
    LET Fit(ms) == {m \in ms : m.reason /\ m.rules # {}}
    IN  {<<>>} \cup {<<m>> : m \in InMigrations \cup InSink}
        \cup {<<m, n>> \in Fit(InMigrations) \X Fit(InMigrations) : m.pos.line < n.pos.line}
        \cup (Fit(InMigrations) \X Fit(InSink))

Disabled ==
    { {}, {"schema-before-connector"}, {"source-column-not-captured"}, {"ignore-marker"},
      {"sink-column-not-captured"}, {"captured-column-missing", "source-column-not-captured"},
      {"schema-before-connector", "ignore-marker"} }

MCInvocations ==
    [input : LintInputs, base : {<<>>, OldBase}, markers : MarkerLists,
     disabled : Disabled, threshold : {Warning, Error}]
=============================================================================
