------------------------------ MODULE GitBase ------------------------------
(***************************************************************************)
(* Reading the files of one run while they may change: Load, then LoadBase *)
(* (cmd/cdclint/main.go) through one git process after another             *)
(* (internal/gitread), then the scan for markers.  One action per read of  *)
(* the working tree and per git process; between any two of them the ref   *)
(* may move or vanish (a fetch, a branch deleted upstream) and the working *)
(* tree may be edited.                                                     *)
(*                                                                         *)
(* A snapshot is [source, contract]: the migrations as a schema, <<>> when *)
(* the directory is not there (git keeps no empty ones), and <<>> or       *)
(* <<the connector's contract>>.  The working tree has markers as well.    *)
(* The sinks play no part: no column is read, so every one the connector   *)
(* leaves out may be raised.                                               *)
(***************************************************************************)
EXTENDS Ignore

CONSTANTS
    Commits,
    Snapshots,      \* what a commit may hold
    Trees,          \* what the working tree may hold: a snapshot and markers
    MaxMoves        \* bound on what happens to the repository meanwhile

ASSUME GitBaseAssumption ==
    /\ MaxMoves \in Nat
    /\ \A t \in Trees : t.contract = <<>> \/ t.contract = <<t.contract[1]>>

VARIABLES
    repo,       \* the snapshot of each commit
    tip,        \* the commit the ref names, NoCommit if there is no such ref
    tree,
    pc,         \* the next read
    got,        \* what the run has read so far
    moves,
    disturbed,  \* "ref", "tree": what changed since the run began
    named       \* the commits the ref named since Resolve

baseVars == <<repo, tip, tree, pc, got, moves, disturbed, named>>
environment == <<repo, tip, tree, moves, disturbed>>

NoCommit == "no commit"

Nothing == [source |-> <<>>, contract |-> <<>>, id |-> NoCommit, head |-> <<>>, files |-> <<>>,
            base |-> <<>>, absent |-> {}, markers |-> <<>>]

BaseInit ==
    /\ repo \in [Commits -> Snapshots]
    /\ tip \in Commits \cup {NoCommit}
    /\ tree \in Trees
    /\ pc = "connector"
    /\ got = Nothing
    /\ moves = 0 /\ disturbed = {} /\ named = {}

-----------------------------------------------------------------------------
(* git: what a process answers about the ref as it is now. *)

HasPath(snapshot, path) ==
    IF path = "migrations" THEN snapshot.source # <<>> ELSE snapshot.contract # <<>>

(* Exists: rev-parse exits 1 for a path, and for a ref, that is not there. *)
Exists(path) == tip # NoCommit /\ HasPath(repo[tip], path)

\* Mutant: two connectors are told apart by whether there is one.
Differs_Presence == (repo[tip].contract = <<>>) # (tree.contract = <<>>)

(* Changed: git diff between the ref and the working tree. *)
Differs == repo[tip].contract # tree.contract

-----------------------------------------------------------------------------
Goto(next) == pc' = next

Keep(field, value) == got' = [got EXCEPT ![field] = value]

\* The run ends: exit 2.
Fail == Goto("failed") /\ UNCHANGED got

(* pickSource: the database the migrations run in, as far as a connector   *)
(* says; with none, a MySQL table that names none ends the reading.        *)
Default(contract) == IF contract[1].mysql THEN DefaultDatabase(contract[1]) ELSE "public"

Readable(source, contract) ==
    Default(contract) # "" \/ \A k \in DOMAIN source : source[k].schema # ""

Placed(source, contract) ==
    [k \in DOMAIN source |-> [source[k] EXCEPT !.schema = IF @ = "" THEN Default(contract) ELSE @]]

(* debezium.ReadFile, then the source reader's ReadDir. *)
ReadConnector ==
    /\ pc = "connector"
    /\ IF tree.contract = <<>> THEN Fail
       ELSE Keep("contract", tree.contract) /\ Goto("source")
    /\ UNCHANGED <<environment, named>>

ReadSource ==
    /\ pc = "source"
    /\ IF Readable(tree.source, got.contract)
       THEN Keep("source", Placed(tree.source, got.contract)) /\ Goto("resolve")
       ELSE Fail
    /\ UNCHANGED <<environment, named>>

Resolve ==
    /\ pc = "resolve"
    /\ IF tip = NoCommit THEN Fail ELSE Keep("id", tip) /\ Goto("head")
    /\ named' = {tip} \ {NoCommit}
    /\ UNCHANGED environment

(* The connector again, for the dialect and the database. *)
ReadHead ==
    /\ pc = "head"
    /\ IF tree.contract = <<>> THEN Fail ELSE Keep("head", tree.contract) /\ Goto("dir")
    /\ UNCHANGED <<environment, named>>

Absent(path) == Keep("absent", got.absent \cup {path})

\* Mutant: the archive is asked for whether the directory is there or not.
DirExists_NotAsked ==
    /\ pc = "dir"
    /\ Goto("archive") /\ UNCHANGED got
    /\ UNCHANGED <<environment, named>>

(* Dir, first half: a directory that is absent is an empty list. *)
DirExists ==
    /\ pc = "dir"
    /\ IF Exists("migrations") THEN Goto("archive") /\ UNCHANGED got
       ELSE Absent("migrations") /\ Goto("exists")
    /\ UNCHANGED <<environment, named>>

\* Mutant: the migrations are read from the working tree.
Archive_WorkingTree ==
    /\ pc = "archive"
    /\ Keep("files", tree.source) /\ Goto("exists")
    /\ UNCHANGED <<environment, named>>

(* Dir, second half: git archive of the ref as it is by then. *)
Archive ==
    /\ pc = "archive"
    /\ IF Exists("migrations") THEN Keep("files", repo[tip].source) /\ Goto("exists")
       ELSE Fail
    /\ UNCHANGED <<environment, named>>

(* baseFrom: parse the base's migrations, with the connector as it is now; *)
(* the base's own connector only if it is given.                           *)
Based(contract, changed, absent) ==
    IF ~Readable(got.files, got.head) THEN Fail
    ELSE /\ got' = [got EXCEPT !.base = <<[source |-> Placed(got.files, got.head),
                                            contract |-> contract, changed |-> changed]>>,
                                !.absent = absent]
         /\ Goto("scan")

\* Mutant: a connector that is not at the base counts as unchanged.
ConnectorExists_NewIsUnchanged ==
    /\ pc = "exists"
    /\ IF Exists("connector") THEN Goto("changed") /\ UNCHANGED got
       ELSE Based(<<>>, FALSE, got.absent \cup {"connector"})
    /\ UNCHANGED <<environment, named>>

ConnectorExists ==
    /\ pc = "exists"
    /\ IF Exists("connector") THEN Goto("changed") /\ UNCHANGED got
       ELSE Based(<<>>, TRUE, got.absent \cup {"connector"})
    /\ UNCHANGED <<environment, named>>

(* An unchanged connector is not read: its decisions are the head's. *)
ConnectorChanged ==
    /\ pc = "changed"
    /\ CASE tip = NoCommit -> Fail
         [] tip # NoCommit /\ Differs -> Goto("show") /\ UNCHANGED got
         [] tip # NoCommit /\ ~Differs -> Based(<<>>, FALSE, got.absent)
    /\ UNCHANGED <<environment, named>>

(* Show asks Exists first (ErrNotInRef), then runs git show. *)
ShowExists ==
    /\ pc = "show"
    /\ IF Exists("connector") THEN Goto("print") /\ UNCHANGED got ELSE Fail
    /\ UNCHANGED <<environment, named>>

Show ==
    /\ pc = "print"
    /\ IF Exists("connector") THEN Based(repo[tip].contract, TRUE, got.absent) ELSE Fail
    /\ UNCHANGED <<environment, named>>

(* ignore.Scan opens the SQL files again: an edit since they were read     *)
(* moves the markers away from the lines the findings point at.            *)
Scan ==
    /\ pc = "scan"
    /\ Keep("markers", tree.markers) /\ Goto("done")
    /\ UNCHANGED <<environment, named>>

Over == pc \in {"done", "failed"} /\ UNCHANGED baseVars

-----------------------------------------------------------------------------
(* What happens meanwhile. *)

MoveRef ==
    /\ pc \notin {"done", "failed"} /\ moves < MaxMoves
    /\ tip' \in (Commits \cup {NoCommit}) \ {tip}
    /\ moves' = moves + 1
    /\ disturbed' = disturbed \cup {"ref"}
    /\ named' = IF named = {} THEN {} ELSE named \cup ({tip'} \ {NoCommit})
    /\ UNCHANGED <<repo, tree, pc, got>>

EditTree ==
    /\ pc \notin {"done", "failed"} /\ moves < MaxMoves
    /\ tree' \in Trees \ {tree}
    /\ moves' = moves + 1
    /\ disturbed' = disturbed \cup {"tree"}
    /\ UNCHANGED <<repo, tip, pc, got, named>>

BaseNext ==
    \/ ReadConnector \/ ReadSource \/ Resolve \/ ReadHead \/ DirExists \/ Archive
    \/ ConnectorExists \/ ConnectorChanged \/ ShowExists \/ Show \/ Scan \/ Over
    \/ MoveRef \/ EditTree

BaseSpec == BaseInit /\ [][BaseNext]_baseVars

-----------------------------------------------------------------------------
(* What the rules are given, and what they would be given by a reader of   *)
(* the commit and the tree that nothing can disturb.                       *)

InputOf(source, contract, base) ==
    [source |-> source, contract |-> contract, sinks |-> <<>>, views |-> <<>>,
     mappers |-> <<>>, base |-> <<base>>]

Given == InputOf(got.source, got.contract[1], got.base[1])

Ideal ==
    InputOf(Placed(tree.source, tree.contract), tree.contract[1],
            [source |-> Placed(repo[got.id].source, tree.contract),
             contract |-> repo[got.id].contract, changed |-> TRUE])

(* The reads are what is known at each point of the run. *)
BaseTypeOK ==
    /\ pc \in {"connector", "source", "resolve", "head", "dir", "archive", "exists",
               "changed", "show", "print", "scan", "done", "failed"}
    /\ moves \in 0..MaxMoves /\ disturbed \subseteq {"ref", "tree"} /\ named \subseteq Commits
    /\ got.absent \subseteq {"migrations", "connector"}
    /\ pc = "done" =>
         /\ got.contract # <<>> /\ got.head # <<>> /\ got.id \in named /\ got.base # <<>>
         /\ "connector" \in got.absent => got.base[1].changed /\ got.base[1].contract = <<>>

(* Nothing disturbed the run: what is raised is what the commit named in   *)
(* the finding and the working tree give, whichever shortcut was taken (an *)
(* unchanged connector is not read, an absent one or directory is none).   *)
JudgedAgainstTheCommit ==
    pc = "done" /\ disturbed = {} => Raised(Given, {}) = Raised(Ideal, {})

(* The run ends in an error only for a connector or ref that is not there, *)
(* a schema no reader takes, or a repository that changed: git's own       *)
(* failures and ErrNotInRef are never the answer to a plain difference.    *)
FailsOnlyWhenItMust ==
    pc = "failed" /\ disturbed = {} =>
        \/ tree.contract = <<>> \/ ~Readable(tree.source, tree.contract)
        \/ tip = NoCommit \/ ~Readable(repo[tip].source, tree.contract)

(* Even then nothing is made up: a schema or contract at the base is that  *)
(* of one commit the ref named since it was resolved, and the head's is    *)
(* never taken for it.                                                     *)
NothingMadeUp ==
    got.base # <<>> =>
        /\ got.base[1].source # <<>> =>
                got.base[1].source \in {Placed(repo[c].source, got.head) : c \in named}
        /\ got.base[1].contract # <<>> => got.base[1].contract \in {repo[c].contract : c \in named}
=============================================================================
