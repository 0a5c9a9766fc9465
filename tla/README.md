# cdclint in TLA+

cdclint reads a source schema (SQL migrations), a Debezium connector, and the
DDL and connectors of the sinks, without connecting to anything, and reports
the columns that will be empty, wrong or missing at a sink. This directory
models what it decides and why, checks the models with TLC on small instances,
and proves the central results with TLAPS for every instance.

## 1. The system

| Part (source) | State it keeps | Operations | Talks to |
|---|---|---|---|
| Model (`internal/model`) | none | `Column`, `Table`, `Sort`, severities, event shapes | everything |
| Source readers (`internal/source/*`) | the schema so far, MySQL's `USE` | one handler per SQL statement, files in name order | `sqlsplit`, `ddl`, `migrate` |
| Sink readers (`internal/sink/sqlddl`, `clickhouse`) | the sink tables so far, views | `CREATE`, `ALTER`, `DROP`, `RENAME`; Kafka settings; views | the same |
| Capture connector (`internal/capture/debezium`) | the contract after `Parse` | `CapturesTable`, `CapturesColumn`, `Topic`, `TableBlock`, the settings, `ValueShape` | `smt` |
| Transforms (`internal/smt`) | the shape along the chain | `Start`, `Apply` | called by both connectors |
| Sink connectors (`internal/sink/connect`) | the mapper after `Parse` | `Consumes`, `TableFor`, `Matches`, `Reshape` | `smt` |
| Engine (`internal/engine`) | reads, findings, the raised columns | `resolve`, ten rules, `Run` | contract, mappers, base |
| Markers (`internal/ignore`) | which markers were used | `Scan`, `Apply` | the engine's findings |
| Command (`cmd/cdclint`) | flags, findings, exit code | `run`, `lint`, `without`, `LoadBase` | all of the above |
| Base (`internal/gitread`) | none, it runs git | `Resolve`, `Dir`, `Exists`, `Changed`, `Show` | git |
| SQL text (`internal/sqlsplit`, `internal/ddl`) | the splitter's lexical context | `Split`, `SplitMySQL`; `Body`, `SplitTop`, `Words`, names and lines | the readers |

The parts are connected by plain calls in one thread: the readers fill an
`engine.Input`, `engine.Run` resolves every sink column to the source column
it expects and runs the rules over the result, `ignore.Apply` splits the
findings, `without` leaves out disabled rules, and the exit code is decided
from what stands.

What is hard here is not concurrency inside the process. It is the following.

* **Order between steps that share state.** The diff rule must run before the
  inventory and hand over what it raised; markers must be applied before
  `--disable`; disabling the diff rule must happen before the run rather than
  after it. Each wrong order makes a finding vanish from every list.
* **Prediction.** A chain of transforms, two connectors and a column's spelling
  decide together whether a column is ever filled. The code keeps one of four
  shapes; the truth is about fields.
* **Several lists.** Database, table and column lists, include or exclude, in
  two spellings, blank or not, decide together what is captured, and a finding
  must name the one to edit.
* **Iteration order.** `resolve` walks a Go map.
* **Sequences of runs.** An author makes the fix that one run names and runs
  again; markers stay in files while the code around them changes.
* **Files and refs that change while they are read** (`LoadBase`, `Scan`).
* **Text read by several scanners.** A splitter, four small text tools and three
  readers each have an idea of quotes, comments and lines; a finding, and the
  marker that acknowledges it, must end up on one line all the same.

What makes each part correct:

* resolution and rules: no sink column that is never filled goes unreported;
  no error is a false alarm; each left-out column is listed exactly once; the
  report is a function of the files;
* diff rule: an edit for another table changes nothing;
* views: reported exactly when an output lands in the wrong place;
* contract and fixes: the fix names the list to blame, does no harm, and a
  sequence of fixes ends;
* markers and command: nothing at the threshold gets past without a decision;
  `--disable` only hides; a marker that is reported can be deleted;
* readers: the schema that is read is the one a server has after the same files,
  and each column is where its author wrote it;
* base: the change is judged against the commit the findings name, and a
  failure of git is never taken for an absent file.

## 2. Modules

| Module | Models | How it corresponds |
|---|---|---|
| `Schemas` | `internal/model` | names, tables, findings, shapes. A name is its case class, so equality is `strings.EqualFold` |
| `Transforms` | `internal/smt`, routers | `ApplyOne` is one turn of the loop in `Apply`, `Routed` the routers in order |
| `Contract` | `internal/capture/debezium` | `KeyOf` is what `list` keeps, `FirstOf` what `first` does: they differ on blank values, and so do the rules built on them |
| `Mapper` | `internal/sink/connect` | `TableFor` per connector kind |
| `Rules` | `internal/engine` rules and resolution | one operator per rule; `Resolutions` is the set of answers the map walk in `resolve` may give |
| `Engine` | `engine.Run` | the state machine: one step per sink table resolved, then one action per rule, in the order of the code |
| `Verdict` | what a run promises | abstract specification: one step from an input to one of its `Answers` (in `Rules`): what all the rules find in one way to resolve it |
| `Stream` | Debezium and Kafka Connect | external: the set of fields that really arrives, used only in properties |
| `Ignore` | `internal/ignore` | `Apply`, with the marker a finding is charged to |
| `Lint` | `cmd/cdclint` `run` and `lint` | composes `Verdict` and `Ignore`: base, rules, markers, `--disable`, exit |
| `FixLoop` | author and linter | composes `Verdict` with an author who makes the edit a finding names |
| `Server` | PostgreSQL and MySQL | external: the catalog after a runner executed the statements, with the effect each server documents |
| `Migrations` | `internal/migrate`, `source.ReadDir` | the walk over files, markers and statements that the reader and the runner share, and the properties of both readers |
| `PostgresReader` | `internal/source/postgres` | one action per statement handler, beside `Server` |
| `MySQLReader` | `internal/source/mysql` | the same, with `USE`, prepared statements, and the end of the reading at a name with no database |
| `Warehouse` | ClickHouse, Snowflake, BigQuery | external: tables, Kafka topics and materialized views after the DDL files were executed |
| `SinkReader` | `internal/sink/sqlddl` and the ClickHouse hook | one action per kind of statement, beside `Warehouse`; `MvColumnMatch` of `Rules` judges what was read |
| `GitBase` | `Load`, `LoadBase`, `internal/gitread` | one action per read of the working tree and per git process, with `MoveRef` and `EditTree` possible between any two |
| `SqlText` | `internal/ddl`, the readers' names and lines | text as tokens; `ReadAs` takes a `CREATE` or an `ALTER ... ADD` to the names and lines of its columns |
| `SqlSplit` | `internal/sqlsplit` | one action per case of the loop in `split`, beside the lexer of the server; then one action per statement read |
| `MCInputs`, `MCEngine`, `MCLint`, `MCFixLoop`, `MCReaders`, `MCPostgresReader`, `MCMySQLReader`, `MCSinkReader`, `MCGitBase`, `MCSqlSplit` | | small inputs for TLC |
| `RulesProofs`, `MigrationsProofs` | | lemmas: about the operators of `Rules` and a record between two connectors; about lists of tables and columns under a reader's edits |
| `EngineProofs`, `FixLoopProofs`, `PostgresProofs`, `MySQLProofs`, `SinkProofs` | | the theorems, one module per state machine |
| `CommandProofs` | | the theorems about both machines of `cmd/cdclint`, `Lint` and `GitBase`, and about `SqlSplit` |

`Engine` implements `Verdict` (property `ImplementsVerdict`, with the report as
the answer once the last rule has run), so `Lint` and `FixLoop`, which run the
linter many times, are built on `Verdict` and stay small.

Abstractions worth knowing about:

* **Text is modelled once**, in `SqlText` and `SqlSplit`, and there as tokens: a
  word, a blank, a newline, a quote or the mark of a comment is one token. Every
  other module takes names and statements as they are once read.
* **A regular expression** is the set of qualified names it matches (`ext`), plus
  the set it would match if it were read as a shell glob (`glob`). A topic or table name is a sequence of dotted segments, each a
  sequence of the parts an underscore joins, because the mapping to Snowflake
  and BigQuery names joins dots with underscores. A sink column's name is bare,
  or an image word, a delimiter and a name.
* **A finding** keeps its rule, severity, position, the objects its message
  names and the edit its fix asks for. Wording is left out, and the order of
  the printed list with it: a report is a set.
* **`_meta`** stands for every column with a leading underscore.
* **A statement** is what its words amount to: a column list, the clauses of an
  `ALTER`, the pairs of a `RENAME TABLE`. What the code takes for the column list
  is a field of its own (`body`), because it is whatever the first parenthesis
  holds. A clause of a sink's `ALTER` that lists several columns is one action for
  each, and an action the reader does not see (`seen`) is one the warehouse alone
  executes. Everything in a statement has the statement's position.
* **The base**, in `Lint`, is one record with the source, the contract and whether
  git calls the file changed, as `BaseFromFiles` builds it; `GitBase` is how that
  record comes about.
* **A directory** is read in one step in `GitBase`, and so is an archive: what can
  change is between two reads, not within one.

## 3. Runs

| Run | Question | Result | Distinct states |
|---|---|---|---|
| `engine` | do reports say what happens at the sinks | 6 invariants and `ImplementsVerdict` hold | 131 206 |
| `engine_stable` | same files, same report | **violated** (finding) | |
| `lint` | does the command lose or invent anything | 5 invariants hold | 686 112 |
| `fix_loop` | do fixes help, harmlessly, and end | 5 properties hold, one of them liveness | 9 304 |
| `fix_loop_exclude` | the same with a table exclude list | **violated** (finding) | |
| `postgres` | is the schema that is read the one the migrations leave | 4 invariants hold | 117 920 |
| `postgres_glued` | keys glued to their parenthesis are keys | **violated** (finding) | |
| `mysql` | the same for MySQL, and in which database | 5 invariants hold | 143 190 |
| `sink` | are the tables and views that are read the warehouse's | 5 invariants hold | 95 873 |
| `sink_create` | a later `CREATE` replaces the earlier one | **violated** (finding) | |
| `git_base` | is the change judged against the commit that is named | 4 invariants hold | 144 962 |
| `split` | are statements, columns and lines those of the file | 5 invariants hold | 442 558 |

Every run ends in about half a minute. Deadlock is checked in all of them; the
end of a run is a stuttering step (`Terminating`, `Exited`, `Nothing2Fix`,
`AllRead`, `Over`, `SplitOver`).

### engine

* `NoSilentDefault`: the failure the tool exists for. If the linter knows the
  shape of the events and one table feeds the sink table, a sink column that no
  event carries is named, or its table is, by a warning at least, and by an
  error when the column is named after a source column. "Arrives" is computed
  in `Stream` on sets of fields, independently of the four shapes.
* `ErrorsAreReal`: the converse, over documented transforms. A column with the name
  of one of the envelope's own fields (`op`, `ts_ms`, ...) is the exception: the
  linter takes it for the source's column of that name, which an event that is
  still an envelope fills with something else.
* `EveryLeftOutColumnListedOnce`: a column of a captured table that the
  connector leaves out is in the report under exactly one of three rules.
* `EditElsewhereSaysNothing`: what the diff rule says of a table depends on the
  old connector only through whether it captured that table. The input is
  compared with the same input over every other base connector of the model.
* `ViewReportedIffItMisplaces`: `mv-column-match` exactly when an output lands
  under another name, nowhere, or a refreshable view leaves a column unfilled. A
  finding names the view's line, so of two views on one line nothing is said.
* `ImplementsVerdict`: the refinement.

Bounds: up to two source tables with two columns each; eight choices of lists;
every chain of up to two transforms out of an alphabet of eight (each class the
code tells apart, with and without a predicate); four spellings of a sink's
columns; two topics; seven kinds of sink connector alone and followed by one of
unknown class; four head lists against thirteen bases; views of up to four
columns over two targets; stale entries of each kind the message distinguishes.
Two transforms are enough for every pair of classes to meet in either order, and
`Apply` keeps no memory but the shape. Two tables are enough for a rule to
confuse one with another, and their names are chosen so that one is in two
schemas.

### lint

`NothingEscapes`, `DisableOnlyHides`, `LeftOutNeverVanishes` and
`ReportedMarkersAreUseless` each compare the end of an invocation with what the
rules found before markers and flags. `NothingEscapes` states what a marker may
do in the README's words (its own line, or the line below one that is alone),
without the code's `covers`.

Bounds: one table of three columns, two of them new, on two lines of a migration
or on one; a sink that reads one of the two; every list of at most one marker
out of 120, on, above and below the lines of the findings and at the sink's
column, and the ordered pairs of those that are well formed, at two places;
seven sets of disabled rules; with and without a base; both thresholds. Two
markers are what it takes for one to shadow or outlive another, and two columns
on one line for one marker to answer two findings of a rule.

Each marker stands at a place of its own, as `Scan` finds one per line. A
directory given both as a source and as a sink is scanned twice
(`main.go:196`); such runs are left out.

### fix_loop

The author picks any fixable finding, makes exactly the edit it names, and runs
the linter again. `FixKeepsCarried`: no fix takes a column out of the stream.
`FixStaysInTheTable`: what a fix adds belongs to the table the finding names, or
to the database the fix names. `FixNeverMovesTables`: the database that
unqualified MySQL migrations are read in is guessed from the very lists a fix
edits; as long as the stream carries a table of it, a fix never makes it another
one (it may make the guess impossible, which ends the next run with advice).
`FixedStaysFixed`: the finding does not come back
with the same fix. `FixesConverge`: in the end nothing is left to fix.

Bounds: three tables in two databases, every combination of a database list, a
table list and a column list, each include, exclude or absent, literal or a
pattern over several names, old and new spelling. Three lists can block in turn,
which takes three fixes.

Fairness: `WF(Lint)`, because the command terminates whenever it is run, and
`WF(MakeFix)`, the assumption that an author who is shown a fixable finding
fixes one in the end. The code cannot promise the second; without it
`FixesConverge` would say nothing about the fixes. No fairness is assumed
elsewhere, and no other property needs any.

With a table *exclude* list (`fix_loop_exclude`) the first property fails:
`Parse` discards the key of that list, so the finding says to add the table to
`table.include.list`, and an include list takes precedence over the exclude
list: every other table leaves the stream.

### postgres and mysql

Reader and server walk the same files. The server executes a statement when it
is in the half a forward migration runs and refuses what is not legal; the
reader decides by itself what to leave out, and never refuses.

* `PostgresLeavesBehind`, `MySQLLeavesBehind`: the tables whose columns the files
  list are read with the columns and the replica identity the server has, and
  no table is read that the server has not. For MySQL this includes the claim
  in `statement` that a guarded statement may be applied whatever its guard
  says (`Prepared`, against `AlreadyThere`).
* `PostgresNamesDistinct`, `MySQLNamesDistinct`: one table per qualified name, which
  `InputsAssumption` takes for granted, and one column per name in a table whose
  columns the files list. In others there may be two: a table made by a query has
  to the reader the columns of a later `CREATE ... IF NOT EXISTS`, and a `RENAME
  COLUMN` that the server checks against the columns it really has can give one
  of those the name of another. The proof found this; TLC's bounds had not.
* `PostgresPointsAtDeclarations`, `MySQLPointsAtDeclarations`: a column's position
  is the statement that gave it its name.
* `PlacedWhereTheRunnerIs`: the reader's database is the runner's from the moment
  the connector or a `USE` named it, and reading fails only before.

Bounds: two files of any of three kinds, six (five for MySQL) statements and
markers in all, fourteen and twenty kinds of statement over two or three table
names, in two schemas or databases. A column can be created, renamed, dropped,
added again and undone in a down half within six lines, and two files are what
it takes for the state of one to leak into the next.

`postgres_glued` is the one violation: `UNIQUE(a)` is one word and no keyword, so
it becomes a column, which the MySQL reader guards against. The other places where
reader and server differ are in "Where the models keep away" below.

### sink and sink_create

The ClickHouse reader, which is `sqlddl` and its hook, walks the same statements
as a warehouse. The warehouse refuses what is not legal and the reader never
does.

* `SinkLeavesBehind`: the tables whose columns the files list are read with the
  columns and the Kafka topic the warehouse has, through `RENAME`, `EXCHANGE`,
  `DROP` and second creations, and no other table is read.
* `SinkNamesDistinct`: one table per last segment. `Find`, the view rule and the
  mapping to topics all take a table by its last segment.
* `SinkPointsAtDeclarations`: a column is placed at the statement that added it.
* `ViewVerdictIsReal`: `mv-column-match`, run on what was read, reports the views
  that insert into a wrong column of the warehouse, and no other.

Bounds: six statements out of twenty: seventeen about four tables (creations with
and without guards, grouped and single columns of an `ALTER`, exchanges, chains
of renames) and three about one view that is created over two targets, dropped
and created again. Six are enough to create two tables and a view, to move a
name twice and to alter what is then behind it. One dialect is checked: the
other three differ by having no hook, no topics and no views, and the proofs hold for
all of them. The twenty statements are `Followable` and `ViewsFollowable`, which is
what the proofs assume (`FollowedAssumption`). `Executed` and `Read` take a statement
apart by its kind; what a warehouse without the hook's statements would do with
one of them is not asked (`Followable`).

`sink_create`: a second plain `CREATE TABLE` whose last segment is known looks for
`IF NOT EXISTS` in the words before the name, of which there are two and not
three, and the slice panics. Two databases with a table of one name suffice.

### git_base

One run with `--base`: the connector, the migrations, `Resolve`, the connector
again, then each git process of `LoadBase`, then the markers. In between the ref
may move to the other commit, vanish or come back, and files may be saved.

* `JudgedAgainstTheCommit`: if nothing moved, the diff rule raises what the named
  commit and the working tree give, whichever shortcut was taken: an unchanged
  connector is not read, an absent connector or directory is none.
* `FailsOnlyWhenItMust`: if nothing moved, a run fails only for a connector or ref
  that is not there or a schema that cannot be placed. `rev-parse` and `diff`
  answer with exit codes; taking one for the other shows here.
* `NothingMadeUp`: whatever moves, a schema or contract of the base is that of one
  commit the ref named since it was resolved, never the working tree's.

Bounds: two commits, six snapshots (with one column, two or none, placed or not,
with a connector for this table, another one, two databases, or none), five
working trees, two events. Two events are enough to move a ref away and back,
and to move it and save a file. A third commit would differ from these two only
by its snapshot. The base is placed by the database of the head's connector, as
the code does and says; the properties follow the code there.

### split

From the text of a file to columns and lines. The files are of two families:
every file of up to four out of twelve fragments (words, `;`, newlines, quotes,
an escaped quote, three kinds of comment, two dollar tags, `DELIMITER`), and
files of one `CREATE` or `ALTER` with up to two out of eight or nine definitions
(commas and parentheses in strings and types, doubled and escaped quotes, quoted
names with blanks and dots, keys), set apart by blanks, newlines or comments,
behind another statement or none, for each reader.

* `CutsWhereTheServerDoes`: the statements are those the server's lexer sees,
  whenever no quote or comment is left open. The lexer is written apart from
  `split`, as a fold over the tokens with a mode, where the code searches ahead.
* `LinesKept`: every token of a statement is as many newlines into its text as it
  is lines below the statement's first, which is what the readers compute with.
* `ColumnsAsWritten`, `LinesAsWritten`: the reader's tables, columns and lines are
  the author's.

Four fragments are what it takes to open a context, hide a mark of another in
it, close it and cut; two definitions, for one to be taken for a part of the
other. Longer files repeat these contexts: between two statements the splitter
keeps only the delimiter and the line.

### engine_stable

`resolve` takes the first topic, in map order, that the connector maps to the
sink table. With an Iceberg connector that writes two topics of tables of one
name to one table, two runs over the same files print different findings.

### Where the models keep away

Each of these is a place where the code departs from what it predicts, known
from the models and kept out of the passing runs. Most are promised by no
document; three contradict a sentence of one and would each be a violation of a
property that holds otherwise (the two parentheses, the second marker, the ref
that moves). The constants named in brackets hold the statements that show it,
to be put in place of the ones a run uses.

* Source readers: a partition with a bound, and a table made by a query with a
  call in it, have a parenthesis that is taken for a column list
  (`postgres.go:109`, `mysql.go:234`). No `ALTER` names a column twice
  (`NamedOnce`): a server applies its clauses at once, the readers from left to
  right. Temporary tables have names of their own; files are read in the order
  they are run.
* Sink readers: `AFTER` and `FIRST` do not move a column (`sqlddl.go:298`,
  `Ordered`); a view's qualified target is not found (`mv.go:30`,
  `QualifiedTargets`); Snowflake's `ADD COLUMN a, b` adds one (`sqlddl.go:235`,
  `Lists`); a down section is executed (`sqlddl.go:120`, `BothSections`); an
  `EXCHANGE` with a table created by a query, which the reader does not know, is
  skipped, and the table it does know keeps its old columns (`clickhouse.go:55`,
  `Queries`); a name glued to a list of several lines ends the reading
  (`sqlddl.go:178`). `CREATE TABLE IF NOT EXISTS` where a view is does nothing in the
  warehouse and adds a table to the reader's; no table and view share a place in
  the run.
* Text: PostgreSQL's comments nest and `split`'s do not (`split.go:99`); a
  ClickHouse string has escapes that `Split` does not know (`split.go:117`); a
  column of an `ALTER` named like the type of one before it is placed on that
  one's line (`ddl.go:210`).
* Fixes (`Editable`): when an exclude list is written under both of its names, the
  second takes effect once a fix has emptied the first, and columns leave the
  stream. An include list of separators only has a key, so a fix names it instead
  of the exclude list that decides (`debezium.go:159`). A pattern such as `shop.*`,
  its dot bare, also matches tables of `shopping`, and the database is guessed to
  be `shop` (`debezium.go:249`).
* Markers: the second of two that cover one finding is reported as covering none
  (`ignore.go:124`). Deleting it is harmless, as `ReportedMarkersAreUseless` shows.
* Base: after `Resolve` the ref is read again by name, so a finding may name a
  commit that already has the column (`main.go:357`); a ref that goes away
  meanwhile reads as an absent path (`gitread.go:57`). `NothingMadeUp` is what
  holds of such runs. An edit between the readers and `Scan` shifts the markers;
  nothing can hold of that.

## 4. Proofs

38 theorems in six modules. In each, the argument is an inductive invariant: a
formula that holds at first and that every step keeps, from which the properties
follow. The properties themselves speak of the end of a run, or of what the
reader holds between two statements, and are seldom inductive.

### Engine

`EngineProofs` proves, for every set of inputs that satisfies
`InputsAssumption`:

* `Invariance`: `Spec => []IInv`, the inductive invariant;
* `TypeCorrectness`: `Spec => []TypeOK`;
* `LeftOutListedOnce`: `Spec => []EveryLeftOutColumnListedOnce`;
* `EditElsewhere`: `Spec => []EditElsewhereSaysNothing`;
* `ViewsReported`: `Spec => []ViewReportedIffItMisplaces`;
* `RunImplementsVerdict`: `Spec => ImplementsVerdict`, the refinement;
* `SilentDefaultsReported`: `Spec => []NoSilentDefault`;
* `ErrorsReal`: `Spec => []ErrorsAreReal`.

These are all the properties of the run `engine`. `InputsAssumption` says that an
input has its fields (`HasFields`), that lists are sequences, that no two source
tables share a qualified name (the readers keep one table per name:
`NamesDistinct`), that a sink column's name that is no image is a bare name, and
that no transform's delimiter is the mark `Stream` uses for fields not joined.
TLC evaluates it in the run `engine`.

What `IInv` adds to the properties:

* every read names a sink table and a source table of the input, and its field
  is a bare name or an image (`ReadOK`);
* the report is, at every step, the union of what the rules run so far find in
  the *finished* reads (`Report`);
* `raised` is empty before the diff rule and what it raised after it, which
  gives the inventory, run later, the right set.

`TableOnRange` and `ResolutionRange` keep reads inside the input, whichever way
the map walk goes.

*Listed once.* `SinkColumnNotCapturedFacts` shows that the error exists for a
left-out column exactly when some sink column receives it, which rests on
qualified names being distinct and on both rules comparing the same key.
`SchemaBeforeConnectorFacts` and `SourceColumnNotCapturedFacts` do the same for
the warning and the inventory. The three cases, declared, raised and neither,
exclude one another, and each puts the column under one rule.

*The refinement.* A step maps to `Judge` when the last rule runs and to a stutter
otherwise. That what is in the report then is an answer to the input needs one
way to resolve every sink table, and the steps have chosen one table at a time.
A second invariant, `RInv`, says that the reads so far are what *some* way of
resolving all tables leaves of those before `next` (`ReadsOfAWay`); a step changes
that way at one table, and at the end it is the witness.

*The events.* `RulesProofs` ties the shape the linter keeps to the fields that
really arrive, over the transforms of both connectors: while the shape is known
it is the shape of every value (`Values` is a set, since under a predicate only
some records are transformed), and, whatever the transforms, a value holds no
other fields than those of captured columns and of the envelope. Both are
inductions on the number of transforms (`Fits`, `StepFits`, `ListFits`), and start
from what Debezium sends (`StartFits`). A sink table that one source table feeds is
tied to that table in every way of resolving (`FeederIsResolved`). So at the end,
where `RInv` makes the reads those of a way, each column of such a table was read
under the shape of what arrives: a column that no event fills is named by one of
the rules, by cases on the shape, and what an error says is so.

That the last table on a topic exists (`MaxExists`) is an induction in disguise:
of the sets of members above each member of a finite set of numbers, one is
minimal for strict inclusion, since that order is well-founded on finite sets.
It is proved from the library's facts on finite sets and well-founded relations,
and can be reused wherever a bounded maximum is needed.

### Induction

The library's induction theorems take an operator as a parameter, which the
provers cannot instantiate. `SetInduction` and `BoundedInduction` state the
principle about a *set* of numbers instead, and are proved from the
well-foundedness of `<` on `Nat`. A property of a recursive function is then the
set of the numbers it holds for. This is what the definitions of the models have
been written for: the shapes along a chain, the values of a record, the clauses
of an `ALTER`, the pairs of a `RENAME TABLE`, the names of a `DROP` and the items of a
column list are recursive functions of how many have been done.

### Lint

`CommandProofs` proves, for every set of invocations, whatever the files, markers
and flags:

* `LintTypeCorrect`: `Spec => []LintTypeOK`;
* `ExitZeroIsDecided`: `Spec => []NothingEscapes`;
* `DisableHides`: `Spec => []DisableOnlyHides`;
* `LeftOutStays`: `Spec => []LeftOutNeverVanishes`;
* `ReportedAreUseless`: `Spec => []ReportedMarkersAreUseless`.

These are all the properties of the run `lint`. `InvocationsAssumption` says that
the base comes by the flag and not with the files, that the input is one with
and without it, that markers are a sequence at distinct places and that the
threshold is a severity; TLC evaluates it in the run `lint`.

The inductive invariant, `Progress`, says what the variables hold at each stage as a
function of the rules' findings, the markers and the flags; each property is then
one about the operators of `Ignore` or of `Rules`. Three facts carry them. Every
finding of the rules has a rule's name other than the markers' own and one of
three severities, so markers never acknowledge a finding about markers. A finding
that is acknowledged has a first marker that covers it (`MinExists`), which is the
one that counts as used and so is never reported; here distinct places are
needed, because a marker is reported by its place. And a left-out column is under
one of the three rules with the base or without it, which is why disabling the
diff rule before the run, as the code does, loses none.

### Fixes

`FixLoopProofs` proves, for every set of inputs that are `Editable`, every
combination of the six kinds of list in either spelling, and any sequence of
fixes:

* `FixesStick`: `Spec => []FixedStaysFixed`;
* `FixesTakeNothingOut`: `Spec => FixKeepsCarried`;
* `FixesPutInWhatTheyName`: `Spec => FixStaysInTheTable`;
* `FixesMoveNoTables`: `Spec => FixNeverMovesTables`.

`Editable` is the hypothesis of each, `\A inp \in Inputs : Editable(inp)`, and TLC
evaluates it for the inputs of the run `fix_loop` (`AllEditable`). Beside what
`InputsAssumption` says of an input, and that every table has a schema, it has four
parts, each of them needed. The
alternatives of a pattern begin alike, and one that begins with a plain database
name matches names of that database (else `FixNeverMovesTables` fails). A column or
database exclude list goes by one of its two names (else `FixKeepsCarried` fails: a
list that goes lets the other one take effect). A table exclude list stands beside
a table include list, where it decides nothing: alone it is what `fix_loop_exclude`
finds. And an include list of columns that holds only separators does not stand
beside an exclude list, since the fix would name the wrong one. Every edit leaves
an input `Editable` (`EditableAfter`), which together with "an answer is one to the
input" and "the rules do not raise the last finding with that fix again" is the
inductive invariant, `FixInv`.

The argument has three layers. *One list*: a name put in is matched and nothing else
changes (`NamePutIn`); a name taken out is not matched any more and nothing else
changes, whether or not the list is left with an entry (`NameTakenOut`). *One
connector*: the key a fix names is the one of the list that is read (`KeysOfTwo`,
with blank values and both spellings), the other five lists stay as they are
(`OtherListsStay`), so the one named is matched by one name more or less (`AddedTo`,
`TakenFrom`). *Captures*: whichever list is to blame for a table or a column
(`TableBlamed`, `ColumnBlamed`), the edit lets it through that list, lets through
nothing else than the name says, and never makes an include list take effect that
had none (`TableFix`, `ColumnFixed`). For the database of unqualified migrations
(`HomeStays`): a second entry in the database list leaves the table list to decide,
and when all its entries begin with one name, a table that is captured is in that
database, which is therefore the one the database list named.

### Base

`CommandProofs` also proves, for every set of commits, snapshots and trees and any
number of moves:

* `BaseTypeCorrect`: `BaseSpec => []BaseTypeOK`;
* `NothingInvented`: `BaseSpec => []NothingMadeUp`;
* `FailsOnly`: `BaseSpec => []FailsOnlyWhenItMust`;
* `Judged`: `BaseSpec => []JudgedAgainstTheCommit`.

They rest on three invariants, one per question: `Known` (what has been read at
each point, whatever moves), `Honest` (files read so far, and the base, are of a
commit in `named`, which grows with the ref) and `Quiet` (as long as nothing
moved, what each read found in terms of the repository and the tree). At the end
`Quiet` leaves two bases: the commit's own, or one without a contract when the
connector did not change. That the diff rule raises the same from both is a fact
about `Raised`, and the reason the shortcut is sound.

### Statements

`CommandProofs` proves two properties of the splitter, for every family of files
of tokens, of any length:

* `SplitTypeCorrect`: `SplitSpec => []SplitTypeOK`;
* `LinesAreKept`: `SplitSpec => []LinesKept`.

The only assumption is `SplitFilesAssumption`: a file is a sequence of strings. The
invariant, `Tracked`, says of the statement under construction what `LinesKept` says
of a finished one, in a form a step can keep. Each of its tokens lies on the line
the token before it leads to, and the last leads to the line counted (`Joins`); its
first character is on the line recorded, or is a quote (`Starts`). Why the
quote: a string's lines are counted before it is emitted, so a statement that
begins with one of several lines is given the line the string ends on, and
`LinesKept` leaves it out. Two more parts are needed for `Cut` and `Dollar`: no
delimiter holds a newline, since `Cut` moves past it without counting
(`Ends`; a `DELIMITER` line cannot set one, as it lies within its line), and an open
dollar quote has a tag.

An action adds tokens (`EmitKeeps`), ends the statement (`FlushKeeps`) or passes over
part of a line (`SkipKeeps`). Three facts about texts carry them: a copied
stretch lies in the file as it lies in the text (`TokensLie`), the newlines a
block comment leaves behind stand in for the comment's own (`NewLineTokensLie`),
and `LineAt` grows by the newlines passed (`StretchLines`). `Closing`, the search
for the end of a quote, goes forward by one or two from any place, so it is
defined from the end of the text backwards; that such a function exists and stays
within the text is `SearchExists` and `SearchStays`.

### Source readers

`PostgresProofs` and `MySQLProofs` prove, for every set of file kinds, names and
statements the readers are for, and for any number of files and lines:

* `TypeCorrectness`: `Spec => []PostgresTypeOK` and `Spec => []MySQLTypeOK`;
* `WhatTheMigrationsLeave`: `Spec => []PostgresLeavesBehind` and `Spec => []MySQLLeavesBehind`;
* `OneTableOneColumn`: `Spec => []PostgresNamesDistinct` and `Spec => []MySQLNamesDistinct`;
* `DeclaredWhereItPoints`: `Spec => []PostgresPointsAtDeclarations` and
  `Spec => []MySQLPointsAtDeclarations`;
* `PlacedBesideTheRunner`, for MySQL: `Spec => []PlacedWhereTheRunnerIs`.

These are all the properties of the runs `postgres` and `mysql`. They assume
`ForPostgres` and `ForMySQL`: the server is the reader's, databases have names, and
every statement is `Supported`. The runs' statements are (`AllSupported` in their MC
modules, evaluated by TLC). `Supported` says that what a statement lists is a
sequence of the kinds of item, clause and identity there are, that a guard
guards a change of the schema, and, for PostgreSQL, that no key is glued to its
parenthesis, which is where `postgres_glued` finds the reader wrong. Whether a
statement is *legal* is not assumed: the server refuses it, and the reader does
not know. `BoundsAssumption` says that there is a file to open and that the bounds
are numbers.

The inductive invariants, both called `Following`, have these parts.

* `Walked`: what the reader leaves out is what the runner does not run. The two
  sides keep this apart, as the kind of the file and a flag against a half.
* `Matches(tables, catalog)`: every table is in the catalog under its name, once;
  every table of the catalog whose columns the files list is there; and the list
  of its columns is, name by name and place by place, the catalog's (`Lists`). The
  properties say this of sets; the edits work on positions in a list, so the
  invariant says it of the list, and that it is a sequence without repetition.
* PostgreSQL: every table has one of the four replica identities, and the session is
  in the default schema.
* MySQL: `InPlace`, the reader's database is the runner's once something told it;
  and the part of `Beside` that holds of a reader that has *failed*: it keeps the
  tables it had placed, and no database. A `DROP` or `RENAME` of several names fails
  at the first it cannot place, halfway, while the server has done all of them:
  the tables then match no catalog, and only what is needed for the next step of
  a reader that ignores everything is kept. That is why the properties say
  `~r.failed`.

The argument for an `ALTER`: the reader takes clauses from left to right, the server
all at once. `ColsBy` is what the catalog's table would be after the first `k`
clauses; by induction the reader's list is that one's after `k` steps, and after the
last the two definitions of the server's agree, because no name occurs in two
clauses (`NamedOnce`). For `RENAME TABLE` and `DROP` both sides go from left to right
and the induction is direct. For a guarded statement the server skips and the reader
does not: when what it would do is there already (`AlreadyThere`), each clause leaves
the reader's list as it is, again by induction.

### Sink reader

`SinkProofs` proves, for every sink, database and set of statements, and for any
number of statements and comments:

* `SinkTypeCorrectness`: `Spec => []SinkTypeOK`;
* `WhatTheFilesLeave`: `Spec => []SinkLeavesBehind`;
* `OneTableOneSegment`: `Spec => []SinkNamesDistinct`;
* `ColumnsPointHome`: `Spec => []SinkPointsAtDeclarations`;
* `ReportedViewsAreBroken`: `Spec => []ViewVerdictIsReal`;
* `LaterCreateNeverPanics`: `Spec => []LaterCreateReplaces`.

The first five are all the properties of the run `sink`. The last is the sentence
`sink_create` refutes: what takes the refutation is two databases, and in one there
is none. Each assumes `Readable`: files of up sections only, of statements that are
`Followable`. That a statement is legal is not assumed. `Followable` has these parts;
with `Databases`, `Queries`, `Lists` or `BothSections` in place of the run's constants
`SinkLeavesBehind` fails, and `ViewVerdictIsReal` with `Ordered` or `QualifiedTargets`.

* `OneDatabase`: names with one last segment are resolved to one place. The reader
  has no current database and compares last segments.
* A table created by a query is not exchanged or renamed; no table is where a
  view is.
* `DROP TABLE` names one table, every action of an `ALTER` is seen, and
  `EXCHANGE` and `RENAME` come in ClickHouse's files alone.

`ReportedViewsAreBroken` assumes two things more. `ViewsFollowable`: the sink is
ClickHouse, a view goes by one name and is created where none is, and its target
is the unqualified name of a table the files list. `InOrder`: columns are added at the end.
TLC evaluates all of it for the run's statements (`FollowedAssumption`).

The inductive invariant, `Following`, says of `line` statements and markers that the
reader and the warehouse are `Matched`:

* `Mirrors(tables, warehouse.tables)`: the reader's tables are at different places,
  each of them the place of a table that the warehouse has and, if the files
  list its columns, one that is `Alike`: the same columns at the same positions,
  each name once, and under `InOrder` the same sequence. No table is skipped but
  one at a place where a query may have created it. This last part is what makes
  a lookup that finds nothing harmless, and why such tables must stay where they
  are: `EXCHANGE` skips when one of the two is not known.
* every column and view is dated by a statement already read;
* `ViewsMatch`, under `ViewsFollowable`: the views that were read are the
  warehouse's, one for one.

The argument for a statement: in one database, `Find`, which tries the full name
and then the last segment, answers with the table at the name's place if there
is one (`FindFacts`, with `OnePlace`). So `CREATE OR REPLACE` takes out the table
that the warehouse overwrites (`RemovedMirrors`, `ReplacedMirrors`), `RENAME` moves the record
the warehouse moves (`MovedMirrors`), pair by pair along the statement, and
`EXCHANGE` swaps two names where the warehouse swaps two tables (`SwappedMirrors`).
A plain `CREATE` of a known table is refused by the warehouse, so the slice
before the name is never taken. For `ALTER` the reader and the warehouse
go from left to right; the induction (`ActedAlike`) has one case that is not plain: `FIRST`
and `AFTER` put the column elsewhere in the warehouse's list, which leaves the set
alike and the order not (`InsertColumn`). For the views: the rule takes the last table of that
name or last segment (`MaxExists`), which is the one at the target's place
(`TargetIs`); a refreshable view has no first misplaced position and the right
length exactly when its columns are the table's, in order (`RefreshableVerdict`,
with `LeastExists`).

### Only model-checked

* `FixesConverge`: liveness under fairness and `ENABLED` are out of the prover's
  reach. `FixesStick` is its safety half.
* The four violations and the departures of section 3: counterexamples are for TLC
  to find.
* `CutsWhereTheServerDoes`, `ColumnsAsWritten` and `LinesAsWritten` of `split`.
  The server's lexer, and `SqlText`'s reading of a statement, are the community
  modules' folds over tokens, on which the provers have no facts.

## 5. Not modelled, and the plan

Not modelled at all: column types and primary keys of source tables (no rule
reads them), the JSON layouts `Parse` accepts, the pairs syntax of the sink
connectors' topic settings, output formats and wording, flag parsing, the order
of file names, the GitHub action, the corpus.

Next, in this order:

1. **A composition** in which the engine's source and sinks are what the readers
   read, so that `NoSilentDefault` speaks of servers and warehouses.
2. **A branch over time**: a sequence of changes, each with its base, markers
   that outlive their change, and the claim that every left-out column was
   decided once.
