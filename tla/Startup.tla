------------------------------- MODULE Startup -------------------------------
(***************************************************************************)
(* Application::init: Migrator::migrate on the database, then              *)
(* PluginLoader on the plugin directories, then the daemon listens.  Any   *)
(* exception ends the process, which the container starts again.  Several  *)
(* daemons may start over one database, of one release or of two (an old   *)
(* container still up while the new one starts).                           *)
(*                                                                         *)
(* A release is the migration files of its image.  applyFile runs a file   *)
(* and records it in one transaction; that of a second daemon waits on the *)
(* primary key for the first, so a transaction is one step.                *)
(***************************************************************************)
EXTENDS Naturals, Sequences

CONSTANTS
    Daemon,
    Release,     \* the releases in order, each a set of migration files
    Directory,   \* the plugin directories in order, each a set of libraries
    Verdict,     \* Verdict[l]: what loading library l comes to
    Key,         \* Key[l]: the name or ecosystem its plugin registers under
    MaxFailures, \* bounds on failed starts
    MaxCrashes,  \* and on crashes
    NoPlugin

Library == UNION {Directory[i] : i \in DOMAIN Directory}
File    == UNION {Release[i] : i \in DOMAIN Release}

\* "plugin"; or loadRaw throws, the plugin type is unknown, or the library
\* gives no metadata or no instance.
Verdicts == {"plugin", "unloadable", "unknown", "null"}

ASSUME ReleaseAssumption ==
    /\ Release \in Seq(SUBSET [version : Nat \ {0}, name : Nat]) /\ Release # << >>
ASSUME LibraryAssumption ==
    /\ Directory \in Seq(SUBSET Library)
    /\ Verdict \in [Library -> Verdicts]
    /\ NoPlugin \notin Library

VARIABLES
    schema,  \* the files whose statements took effect, in order
    rows,    \* schema_migrations
    daemon,  \* each daemon: its release and the local variables of init
    failures, crashes

vars == << schema, rows, daemon, failures, crashes >>

Pc == {"down", "ensure", "current", "apply", "load", "configure", "running"}

Keys == {Key[l] : l \in Library}

NoPlugins == [k \in Keys |-> NoPlugin]

\* A daemon of release r that has loaded no plugin yet.
Migrating(r, pc, todo) ==
    [pc |-> pc, release |-> r, todo |-> todo, directory |-> 0, libraries |-> {},
     registry |-> NoPlugins, handles |-> {}]

\* The same with the first i plugin directories opened.
Loading(r, i, libraries, registry, handles) ==
    [pc |-> "load", release |-> r, todo |-> {}, directory |-> i, libraries |-> libraries,
     registry |-> registry, handles |-> handles]

\* The process of a daemon that is to be started.
Down(r) == Migrating(r, "down", {})

TypeOK ==
    /\ schema \in Seq(File) /\ rows \subseteq File
    /\ daemon \in [Daemon -> [pc : Pc, release : DOMAIN Release, todo : SUBSET File,
                              directory : 0 .. Len(Directory), libraries : SUBSET Library,
                              registry : [Keys -> Library \cup {NoPlugin}],
                              handles : SUBSET Library]]
    /\ failures \in Nat /\ crashes \in Nat

Init ==
    /\ schema = << >> /\ rows = {}
    /\ daemon = [d \in Daemon |-> Down(1)]
    /\ failures = 0 /\ crashes = 0

-----------------------------------------------------------------------------

\* Daemon d goes from pc on as s.
Becomes(d, pc, s) ==
    /\ daemon[d].pc = pc
    /\ daemon' = [daemon EXCEPT ![d] = s]

\* Config, key and connection are there.
Start(d) ==
    /\ Becomes(d, "down", Migrating(daemon[d].release, "ensure", {}))
    /\ UNCHANGED << schema, rows, failures, crashes >>

\* Something throws: no connection, no config, a file that cannot be read,
\* two CREATE TABLE IF NOT EXISTS at once, a cache directory not creatable.
InitFails(d) ==
    /\ failures < MaxFailures
    /\ daemon[d].pc \notin {"down", "running", "load"}
    /\ daemon' = [daemon EXCEPT ![d] = Down(daemon[d].release)]
    /\ failures' = failures + 1
    /\ UNCHANGED << schema, rows, crashes >>

\* ensureMigrationsTable.
EnsureTable(d) ==
    /\ Becomes(d, "ensure", Migrating(daemon[d].release, "current", {}))
    /\ UNCHANGED << schema, rows, failures, crashes >>

\* A slip: the number applied last is not skipped.
SkippedBelow(version, current) == version < current

\* The test at the head of migrate's loop.
Skipped(version, current) == version <= current

\* currentVersion: SELECT COALESCE(MAX(version), 0).
IsCurrent(n) ==
    /\ n = 0 \/ \E f \in rows : f.version = n
    /\ \A f \in rows : f.version <= n

ReadCurrent(d) ==
    /\ \E n \in {0} \cup {f.version : f \in rows} :
          /\ IsCurrent(n)
          /\ Becomes(d, "current", Migrating(daemon[d].release, "apply",
                 {f \in Release[daemon[d].release] : ~ Skipped(f.version, n)}))
    /\ UNCHANGED << schema, rows, failures, crashes >>

\* The order of std::sort on the pairs of number and path.
Before(f, g) == f.version < g.version \/ (f.version = g.version /\ f.name < g.name)

Pending(d) == {f \in daemon[d].todo : \A g \in daemon[d].todo \ {f} : Before(f, g)}

\* A slip: ON CONFLICT DO NOTHING.
RecordableAlways(f) == TRUE

\* The INSERT into schema_migrations: version is its primary key.
Recordable(f) == \A g \in rows : g.version # f.version

\* A slip: the number without the name of the file.
RecordedNameless(f) == rows \cup {[f EXCEPT !.name = 0]}

\* The row it inserts.
Recorded(f) == rows \cup {f}

Execute(f) ==
    /\ Recordable(f)
    /\ schema' = Append(schema, f)
    /\ rows' = Recorded(f)

\* applyFile, and the loop's new current.
ApplyFile(d) ==
    /\ \E f \in Pending(d) :
          /\ Execute(f)
          /\ Becomes(d, "apply", Migrating(daemon[d].release, "apply",
                 {g \in daemon[d].todo : ~ Skipped(g.version, f.version)}))
    /\ UNCHANGED << failures, crashes >>

\* A slip: a migration that fails is left to another daemon.
ApplyConflictsIgnored(d) ==
    /\ \E f \in Pending(d) : ~ Recordable(f)
    /\ Becomes(d, "apply", Migrating(daemon[d].release, "apply", {}))
    /\ UNCHANGED << schema, rows, failures, crashes >>

\* Its transaction rolled back, because another daemon has recorded the
\* number: the process ends.
ApplyConflicts(d) ==
    /\ \E f \in Pending(d) : ~ Recordable(f)
    /\ Becomes(d, "apply", Down(daemon[d].release))
    /\ UNCHANGED << schema, rows, failures, crashes >>

\* The transaction committed, but its reply is lost: the process ends too.
CommitUnanswered(d) ==
    /\ failures < MaxFailures
    /\ \E f \in Pending(d) : Execute(f)
    /\ Becomes(d, "apply", Down(daemon[d].release))
    /\ failures' = failures + 1
    /\ UNCHANGED crashes

Migrated(d) ==
    /\ daemon[d].todo = {}
    /\ Becomes(d, "apply", Migrating(daemon[d].release, "load", {}))
    /\ UNCHANGED << schema, rows, failures, crashes >>

\* loadDirectory for the next directory.
OpenDirectory(d) ==
    LET s == daemon[d]
        i == s.directory IN
    /\ s.libraries = {}
    /\ Becomes(d, "load",
               IF i = Len(Directory) THEN [s EXCEPT !.pc = "configure"]
               ELSE Loading(s.release, i + 1, Directory[i + 1], s.registry, s.handles))
    /\ UNCHANGED << schema, rows, failures, crashes >>

\* A slip: a library that does not load ends the loop over the directory.
LeftAfterUnlessBroken(d, l) ==
    IF Verdict[l] = "plugin" THEN daemon[d].libraries \ {l} ELSE {}

\* The loop goes on after any library: loadFile catches.
LeftAfter(d, l) == daemon[d].libraries \ {l}

\* registerPlugin: a later plugin takes the key and destroys the earlier one.
Registered(d, l) ==
    IF Verdict[l] = "plugin" THEN [daemon[d].registry EXCEPT ![Key[l]] = l]
    ELSE daemon[d].registry

\* A library whose metadata or instance is null stays open, out of the
\* loader's books; one of an unknown type is closed again.
Opened(d, l) ==
    daemon[d].handles \cup (IF Verdict[l] \in {"plugin", "null"} THEN {l} ELSE {})

LoadFile(d) ==
    /\ \E l \in daemon[d].libraries :
          Becomes(d, "load", Loading(daemon[d].release, daemon[d].directory,
              LeftAfter(d, l), Registered(d, l), Opened(d, l)))
    /\ UNCHANGED << schema, rows, failures, crashes >>

\* configureCveSources, configureAnalyzers, and the server listens.
Configure(d) ==
    /\ Becomes(d, "configure", [daemon[d] EXCEPT !.pc = "running"])
    /\ UNCHANGED << schema, rows, failures, crashes >>

Crash(d) ==
    /\ crashes < MaxCrashes /\ daemon[d].pc # "down"
    /\ daemon' = [daemon EXCEPT ![d] = Down(daemon[d].release)]
    /\ crashes' = crashes + 1
    /\ UNCHANGED << schema, rows, failures >>

\* The container is replaced by one of the next release.
Upgrade(d) ==
    /\ daemon[d].release < Len(Release)
    /\ daemon' = [daemon EXCEPT ![d] = Down(daemon[d].release + 1)]
    /\ UNCHANGED << schema, rows, failures, crashes >>

StartProceeds(d) ==
    \/ Start(d) \/ EnsureTable(d) \/ ReadCurrent(d)
    \/ ApplyFile(d) \/ ApplyConflicts(d) \/ Migrated(d)
    \/ OpenDirectory(d) \/ LoadFile(d) \/ Configure(d)

Next ==
    \E d \in Daemon :
        StartProceeds(d) \/ CommitUnanswered(d) \/ InitFails(d) \/ Crash(d) \/ Upgrade(d)

(***************************************************************************)
(* Fairness: the container starts a process that ended ("restart:          *)
(* unless-stopped"), and a process runs on.                                *)
(***************************************************************************)
Spec == Init /\ [][Next]_vars /\ \A d \in Daemon : WF_vars(StartProceeds(d))

-----------------------------------------------------------------------------

\* Later releases add files, with numbers of their own and higher ones.
ReleasesAppend ==
    \A i, k \in DOMAIN Release : i <= k =>
        /\ Release[i] \subseteq Release[k]
        /\ \A f, g \in Release[k] : f.version = g.version => f = g
        /\ \A f \in Release[i], g \in Release[k] \ Release[i] : f.version < g.version

(***************************************************************************)
(* However many daemons of however many releases start at once and         *)
(* wherever they die, no migration takes effect twice or after a later     *)
(* one, if releases only append migrations (Migrator::applyFile).          *)
(***************************************************************************)
MigrationsOnceInOrder ==
    ReleasesAppend =>
        \A i, k \in DOMAIN schema : i < k => schema[i].version < schema[k].version

(***************************************************************************)
(* A daemon that listens has the schema its release was written for, if    *)
(* releases only append migrations (Migrator::migrate).                    *)
(***************************************************************************)
RunningHasItsSchema ==
    ReleasesAppend => \A d \in Daemon :
        daemon[d].pc \in {"load", "configure", "running"} =>
            Release[daemon[d].release] \subseteq {schema[i] : i \in DOMAIN schema}

(***************************************************************************)
(* Libraries that do not load cost nothing else: each key some plugin      *)
(* library has is registered, in whatever order the directories are read,  *)
(* and to a plugin whose library is open (PluginLoader::loadFile).         *)
(***************************************************************************)
PluginsAvailable ==
    \A d \in Daemon : daemon[d].pc = "running" =>
        \A l \in Library : Verdict[l] = "plugin" =>
            LET p == daemon[d].registry[Key[l]] IN
            /\ p # NoPlugin /\ p \in daemon[d].handles
            /\ Verdict[p] = "plugin" /\ Key[p] = Key[l]

(***************************************************************************)
(* Every daemon comes up in the end, also one that lost a race for a       *)
(* migration or died in the middle of one (Migrator::migrate).             *)
(***************************************************************************)
DaemonsComeUp == \A d \in Daemon : <>[](daemon[d].pc = "running")

\* What an operator sees of the daemons.
R == INSTANCE Rollout WITH
    done    <- schema,
    release <- [d \in Daemon |-> daemon[d].release],
    serving <- {d \in Daemon : daemon[d].pc = "running"}

(***************************************************************************)
(* All the races, failures and restarts of starting daemons amount to a    *)
(* rollout in which each migration happens once, lowest first, and nobody  *)
(* serves before its own are done (Application::init), if releases only    *)
(* append migrations: the run's do, the theorem assumes it.                *)
(***************************************************************************)
ImplementsRollout == R!Spec
=============================================================================
