# blueDuck in TLA+

blueDuck is a daemon (C++20, Drogon, PostgreSQL, libgit2) that clones git
projects, extracts the dependencies each branch or tag declares, imports CVE
records from public sources, and reports which dependencies a known CVE
affects. This directory specifies it in TLA+, model-checks the specification on
small instances with TLC, and proves theorems about it with TLAPS. Source paths
below are relative to the repository; module and definition names are linked to
lines in `PROJECT.json` ("map").

## 1. The system

### Components, state, operations

| component | state it keeps | operations that change state | where |
|---|---|---|---|
| AnalysisService | rows of `dependencies`, `analyzed_at` | `analyzeVersion`, `storeDependencies` | `src/core/AnalysisService.cpp` |
| GitRepository | one working directory per project | clone, fetch, checkout (listRefs reads) | `src/git/GitRepository.cpp` |
| ReportEngine | rows of `reports`, `report_findings` | `generateReport`: insert, load, match, insert findings, summary, carry over mitigations | `src/report/ReportEngine.cpp` |
| MitigationController | `report_findings_mitigations`, `report_findings.mitigation_id` | create, createBulk, remove | `src/api/controllers/MitigationController.cpp` |
| VersionController, ReportController | – | analyze, generate (start jobs), remove | `src/api/controllers/` |
| ProjectController | `projects`, `project_versions`, credentials | create, remove, sync, setCredentials | `src/api/controllers/ProjectController.cpp` |
| CVE sources (NVD, CVE.org) | a cache directory | `sync` | `plugins/cve_sources/` |
| CveDbWriter, CveHttpClient | `cve_records`, `cve_affected_products` | `upsertCve`; `paginate` | `plugins/common/` |
| Dependency analyzers | – | `analyze` (reads the working tree) | `plugins/dependency_analyzers/` |
| Database | a pool of connections, one blocking connection | configure | `src/db/Database.cpp` |
| Migrator, PluginLoader, Application | `schema_migrations`, loaded libraries | start-up | `src/db/Migrator.cpp`, `src/core/` |
| CredentialProvider | the master key | encrypt, decrypt, libgit2 callback | `src/git/CredentialProvider.cpp` |
| CpeMappingController | `ecosystem_cpe_mapping` | create, update, remove | `src/api/controllers/CpeMappingController.cpp` |
| Frontend | component state | loads, dialogs, bulk actions | `frontend/src/app/` |

### How they interact

* **Handlers and jobs.** A handler looks its row up with an asynchronous
  statement and, in the callback, starts a coroutine with `async_run`. None of
  these coroutines awaits anything, so they run inline on the thread of the
  callback until they end: a project sync, an analysis or a report occupies one
  `DbLoop` thread, a CVE sync the thread of its request. Jobs of different
  threads interleave freely, and no lock relates them.
* **Statements.** Jobs use `Database::blockingClient`, which has **one**
  connection (`Database.cpp:26`). Statements of jobs are therefore serial, and
  a transaction on it is alone there; the pool's statements (the handlers')
  still come between any two. `storeDependencies` is the one transaction of
  the daemon. A CVE sync has a connection of its own and no transaction.
* **Foreign keys.** Rows refer to each other and the schema cascades
  (`ON DELETE CASCADE`, `SET NULL` for `mitigation_id`). A job that inserts
  below a row that was deleted meanwhile gets an exception nobody catches:
  it leaves `async_run` and the process terminates; the container starts it
  again (`docker-compose.yml`, `restart: unless-stopped`).
* **Working trees.** `repoPath` gives each project one directory. Syncs fetch
  into it, analyses check refs out in it, analyzers read it.

### What is hard here

Interleavings of jobs on tables and trees without locks; reports that read rows
which analyses replace; cascades that take rows from under a running job;
statements of a sync that run in any order; crashes in the middle of a report
or a clone; CVE feeds that grow while they are read and requests that fail; an
archive cache shared by syncs; version numbers at the edges of their width and
of ranges; a counter that several threads share; answers that reach a page out
of order; secrets that outlive the setting they were for; a mapping that changes
between the two statements that look it up. `PROJECT.json` ("hazards") lists each at its line with the
properties that would catch it.

### What makes each component correct

* AnalysisService: a version's rows are those of one analysis, whole, of its
  own ref and project.
* ReportEngine: findings join rows of one version; counters agree with them;
  a finished report lists exactly the matches; mitigations are carried to
  findings of the same CVE and package only and never taken away.
* MitigationController: a record lives as long as a finding refers to it.
* GitRepository and sync: rows name refs that can be checked out, commits do
  not go back, every listed ref gets a row.
* CVE sources: a complete sync imported everything it could read and repeated
  nothing, and every sync ends.
* Matching: a total order on versions, ranges without holes or overlaps.
* Analyzers: of a manifest, the entries it declares as dependencies, each with
  its own version, in a form that Matching compares as the manifest means it.
* Migrator: each file takes effect once and in order, whoever else migrates; a
  daemon that listens has the schema it was written for.
* Credentials: a remote is offered what was set last, and nothing else.
* CPE mappings: a lookup gives what one mapping says, the one by name first.
* Report page: what it says was saved is saved, shown, and answered.
* PluginLoader: a library that does not load costs no other plugin.

## 2. Modules

```
CveDbWriter ── Schema ─┬─ Analysis ──┐
     │                 ├─ Report ────┼─ BlueDuck ─┬─ MCBlueDuck
     │                 └─ Mitigation ┘      │     └─ BlueDuck_proofs ── Report_proofs
     │                                      └──> AtomicReports
     ├── CveSync ─┬─ MCCveSync
     │            └─ CveSync_proofs
     └ (Schema, Mitigation) ── ReportPage ─┬─ MCReportPage
                                           └─ ReportPage_proofs
Matching ─┬─ CpeMappings ─┬─ MCMatching ── Matching_proofs
          └─ Manifests ───┘
VersionTable <── GitSync ─┬─ MCGitSync       Rollout <── Startup ─┬─ MCStartup
                          └─ GitSync_proofs                       └─ Startup_proofs
Credentials ── Credentials_proofs
```

An arrow points to an abstract specification that the module implements.

**CveDbWriter** has the two CVE tables and the statements of `upsertCve`. Of a
record it keeps the severity (which findings copy); an affected range is the
set of package versions it matches, one row for each, with a count, because no
`UNIQUE` constraint covers the table. Each range's INSERT may fail, as the code
logs and goes on.

**Schema** has the other tables. A row is a record and its own identity; a
foreign key holds the row itself; serial numbers are never reused, so rows
carry a number. `Retain` is the cascade. Columns that change after the INSERT
are variables: `summary`, `analyzed`, `links`.

**Analysis** is `AnalysisService` one step per call: lookup, checkout, each
analyzer (success, partial result, failure), the transaction. `tree[p]` is what
directory *p* holds; an analyzer reads it at the time it runs.

**Report** is `generateReport` one step per statement. The order of rows from
`loadDependencies` is any; findings of one dependency come in the order of the
CVE ids, as after `sort`. A job keeps the list it loaded (`loaded`) to its end.
The look-ups of one dependency (`resolveCpeMapping`,
`findMatchingCves`) are one step; CpeMappings takes it apart.

**Mitigation** has create and createBulk (one INSERT, then one UPDATE for each
finding, in any order among all other statements) and remove, whose
`RETURNING` gives the new NULL so that its DELETE is never sent.

**BlueDuck** composes them with the insertion and deletion of versions and
projects, the CVE import by `Writer`s, crash and restart. A restart loses job
variables and pending statements; tables and trees stay.

**AtomicReports** is what a report promises whoever reads it, without statements
and jobs: it begins with the rows its version has at one moment, is published
once, complete for those rows or, if they have been replaced, with no finding,
and loses its findings only all together. BlueDuck implements it with a report
for each row of `reports` whose summary is written, and a begun one for each job in its
loop. A report over no rows at all has the same zeros a report that was never
finished has; nothing in the tables tells them apart, and to AtomicReports
both are abandoned.

**VersionTable** is what the rows of `project_versions` promise: they appear and
change one at a time, to a commit the remote has or had for the name, never an
older one of the same ref, keep the type of their first upsert, and go away by
request only. GitSync implements it; its directory, its syncs, their upserts
on the way and its crashes are not in it.

**GitSync** is `ProjectController::sync` with the git directory under it, in
more detail than Analysis needs: local and remote-tracking branches, tags, the
clone with its unfinished state, upserts that run in any order, and may fail: the callback logs it and
nothing tries again, so `lost` remembers the names (a history variable). A commit
is its number on its ref. One project: projects share nothing here.

**CveSync** is the `sync` of both sources over CveDbWriter's statements: paging
with the index arithmetic of `nextPageUrl`, discovery, download into the shared
cache file, nested archives, the counts and the result. A feed is the records
the parsers make of it. Any entry of an archive may be passed over at any time,
as the code does, in silence, with one it cannot open or read, whether the file
is damaged, a nested archive broken, or another sync is writing the cache file;
`skipped` remembers them. A refused database connection ends a sync before its
first record.

**Matching** has the pure functions of the report engine: `parseVersion` with
its cast to 32 bits, `compare`, `versionInRange`, `normalizePackageName`, the
join. It is what `AffectedBy` abstracts in BlueDuck. A version text is its
list of components and a suffix.

**Manifests** has what each analyzer makes of a file it reads, as operators from
the file's entries to a sequence of dependencies, and the rows that
`storeDependencies` leaves of them (of a name's entries the last, as `ON
CONFLICT DO UPDATE`; for CMake the one that the unstable sort happens to leave).
It is the detail of Analysis's constant `Manifest`. A file is the sequence of
its lines, calls or entries with what decides how they are read: whether a
section header is one the code's pattern matches, whether a requirement stands
at the margin of its line, where in the file a tag begins. A version is the
sequence of the bounds it writes, without their operators, which nothing ever
looks at; a NuGet interval is stored with its brackets, of which `parseVersion`
makes no number. It extends Matching, so that the runs can ask what a report then
finds.

**CpeMappings** is the table `ecosystem_cpe_mapping` with the three handlers that
change it, one statement each, and the lookup of one dependency as its three
statements: the SELECT by name, the SELECT by pattern, the join. The UNIQUE
constraint and both NULLs (no pattern, no mapping) decide something and are
there; so is the empty vendor, which the handlers let pass and the join takes
for no mapping. `LIMIT 1` without an order is any row. It extends Matching for
the join. Two history variables hold the rows in force throughout the lookup,
and at some time of it.

**Credentials** is one project's row of `project_credentials`: the statements of
`setCredentials`, each on its way for a while, the SELECT of `sync` or
`testConnection`, the decryption in its callback, and libgit2's callback
asking for a credential, any number of times: it counts no attempts and has one
answer. A ciphertext is its secret, the key it
was made with, and whether it arrived whole: it is bound as bytes to a column
of type TEXT, and what the driver makes of zero bytes and of what is no UTF-8
is left open. `decrypt` throws on all others, nobody catches in a
database callback, so the process ends and comes back, maybe with another key.

**ReportPage** is a page of a report in a browser, with its dialog, the requests
it has under way and what comes back, over the tables of Mitigation. It has
the part of createBulk that Mitigation leaves out: the callbacks of the
UPDATEs, which several threads run, and the counter they share, read and
written in two steps. Other clients remove mitigations, an analysis replaces
the findings, a connection fails. A list of findings is asked for, SELECTed and
shown in three steps, and any two lists may overtake each other.

**Rollout** is what start-up promises, in four actions and without processes:
the lowest missing migration is added, a daemon serves on a schema that has
its release, stops, is upgraded. Startup implements it with `done` for what
took effect, `serving` for the daemons that run; loading, failing and dying are
stutters or stops.

**Startup** is `Application::init` for several daemons over one database, of one
release or of two: the migrations one step per statement or transaction, the
plugin directories one step per library in any order, failures, lost replies,
crashes, restarts, upgrades. A release is the set of migration files its image
brings; a library is what loading it comes to.

`MC*` modules only give constants their values; MCMatching also has the reference definitions (a version of plain numbers is the number it
spells in base `Word`; an entry is declared if the nearest header above is that
of a dependency table). Definitions whose comment begins with "A slip" are plausible
bugs: they are used by nothing but the mutation checks of `PROJECT.json`
("mutants"), each of which breaks a property.

## 3. Runs

| run | asks | states | result |
|---|---|---|---|
| `reports` | two report jobs, an analysis job, deletions and a CVE import | 1.8 M | `TypeOK`, `OneBatchPerVersion`, `SummaryCountsFindings`, `ImplementsAtomicReports` hold |
| `analyses` | two analysis jobs on two projects, a report job, with fairness | 230 k | `DependenciesOfOwnProject`, `JobsEnd` hold |
| `mitigations` | two reports over re-analysis, two mitigations, one crash | 3.3 M | `FindingWithinVersion`, `MitigationFitsFinding`, `ReportIsExact`, `DependenciesOfOwnRef`, `MitigationKept` hold |
| `git_sync` | two syncs, an analysis, pushes; a removal, a failed upsert or a crash | 1.4 M | `VersionsResolvable`, `CommitNeverGoesBack`, `ListedTagGetsRow`, `ImplementsVersionTable` hold |
| `cve_sync` | two syncs of either source, failures, unreadable entries, a growing NVD, a crash | 550 k | `NvdImportedInFull`, `ArchiveCountedInFull`, `RangeOncePerSync`, `SyncsEnd` hold |
| `matching` | every three texts of up to two components; every short Cargo.toml, CMake file, pair of pinned entries; lookups of a dependency among two mappings under edits | 1.8 M | `CompareIsAnOrder`, `RangesAsNumbers`, `CargoFollowsToml`, `TagOfOwnDeclaration`, `PinsAreMatched`, `MappingFound` hold |
| `startup` | two daemons, two releases, failing starts, a lost reply, a crash, broken libraries | 17 k | `TypeOK`, `MigrationsOnceInOrder`, `RunningHasItsSchema`, `PluginsAvailable`, `ImplementsRollout`, `DaemonsComeUp` hold |
| `credentials` | two settings, two syncs or tests, a removal, lost bytes, two keys, remotes that ask again or stall, a crash | 320 k | `TypeOK`, `OffersWhatWasSet`, `RequestsEnd` hold |
| `report_page` | two findings, two dialogs saved, one removal, analysis or failure by others | 920 k | `TypeOK`, `AnsweredWhenLinked`, `OwnMitigationShown`, `NamesOpenFindings`, `SavesAnswered` hold |
| `shared_tree` | two analyses of one project | – | `DependenciesOfOwnRef` **violated** |
| `mitigation_removal` | removing the last link | – | `RemovedWithLastLink` **violated** |
| `git_refs` | one sync of a remote with two branches | – | `TrackedBranchesHaveRows` **violated** |

### What the violations show

* `shared_tree`: README, "checks out a git ref, runs every applicable analyzer
  plugin against the working tree, and stores the resulting dependency list".
  Nothing keeps a second analysis of the project from checking its own ref out
  between the first one's checkout and its analyzers, so the first version is
  stored with the second's dependencies. With one analysis at a time
  (`mitigations`) the property holds, and across projects it holds always
  (`DependenciesOfOwnProject`).
* `mitigation_removal`: the comment "Only delete the mitigation record if no
  other findings reference it" describes a DELETE that cannot be reached:
  `UPDATE ... SET mitigation_id=NULL ... RETURNING mitigation_id` returns NULL.
* `git_refs`: README, "one row per tracked branch/tag found in the repository".
  `listRefs` reads local branches; a clone makes one, a fetch none.

Seen while modelling and not given a run of their own, most of them one line of
code against one line of text; the models have what the code does:

* `PythonAnalyzer.h` says "Analyzes Python projects by reading
  requirements.txt, setup.cfg, ...". The block of `install_requires` is its
  indented lines, and `depFromLine` wants the name at the first character, so
  `SetupCfg` finds nothing of what it reads; `PinsAreMatched` says so.
* `upsertCve` returns true though the INSERT of a range failed ("Returns true
  on success", `CveDbWriter.h`); a first sync of CVE.org takes the delta archive
  when it is offered ("full ZIP (first run)", README); the Migrator compares
  with `MAX(version)` where the README has it track files by their names.
* `git_url_pattern` is "match via git URL substring" in the schema;
  `resolveCpeMapping` compares it with the package's name. `package_name` is "as
  seen in the package manager"; it is compared with the stored name, which is
  normalised for Python and NuGet.
* `pat_enc` is "AES-256-GCM ciphertext (hex)" in the schema, "stored as a
  binary string" in the README; the code binds the raw bytes to the TEXT column.
* A dialog cancelled while it is saving leaves the list as it was, although the
  mitigation is then made; two threads that lose an increment of createBulk's
  counter leave the dialog waiting.

### What some passing properties say about the code's limits

`SummaryCountsFindings` excuses a report without findings and one whose summary
is all zero: a re-analysis deletes the findings of earlier reports and leaves
their counters, and a crash leaves findings with the counters at zero.
`NvdImportedInFull` promises all that the NVD had only of a sync that lost no
page, and the result does not tell: a sync whose first page cannot be fetched
*succeeds* with nothing imported. `ArchiveCountedInFull` counts the entries
passed over with `skipped`, which is the model's: the code keeps no count, and
a sync that could read no entry at all succeeds, too. `RangeOncePerSync` bounds the
copies of an affected range by the syncs there have been; there is no smaller
bound, each sync inserts them once more.
`ListedTagGetsRow` excepts the tag whose own upsert failed: it has no row until
a later sync lists it again, though `last_synced_at` is set. It and `RequestsEnd`
are for remotes that let go in the end. One that stalls, or asks for credentials
again and again, keeps its sync, its `DbLoop` thread and the client of
`testConnection` waiting for ever: nothing in the code ends it.
No property is about an analyzer that fails: its rows are deleted with the rest
and the version counts as analysed.
`VersionsResolvable` starts with `directory = "cloned"`: a clone the process
died in stays "partial" for ever, its tags get rows and its branches none.
`ImplementsAtomicReports` is run with CVE imports, where AtomicReports has no set of
matches to ask for (`Frozen` is false); that a report without imports has exactly its
matches is run as `ReportIsExact`, and proved of AtomicReports too.
`CompareIsAnOrder` holds of components wider than 32 bits as well, since each is
compared as its remainder; that this is the order one wants no property says.
`PinsAreMatched` states what is never found along with what is: Python packages
spelt with `-` in a CVE row match no dependency directly, pins of setup.cfg are
never stored, and an exact NuGet interval ("[1.0]") is stored and matches no CVE
of that version.

`CargoFollowsToml` is for files whose headers the code's pattern all matches:
below `[[bin]]` the analyzer goes on with the table before. `AnsweredWhenLinked` is
for requests of which at most one UPDATE fails: each failure answers by itself.
`SavesAnswered` excepts the requests whose counter lost an increment. Both
properties of the list are for a page that shows what it asked for last
(`OwnMitigationShown`) and a user who ticks nothing while it loads
(`NamesOpenFindings`). `OffersWhatWasSet` speaks of the setting whose statement
was executed last, which need not be the request that came last.
`MigrationsOnceInOrder` and `RunningHasItsSchema`
have the premise `ReleasesAppend`: a file added later with a number below the
highest one applied is skipped, and one with a number already used too.

### Bounds

Every bound is a constant in a guard (`MaxAnalyses`, `MaxReports`, ...), so a
cfg reads as the scenario. Two jobs are enough for every race the properties
are about, since each relates two actors; two analyses of a version make one
replace the other's rows; two reports make a carry-over; two mitigations let
one replace another; two package versions make a match and a mismatch, two
packages a wrong carry-over visible; a crash with its restart needs to happen
once. In `git_sync` one mishap happens (`MaxMishaps`): a removal, a crash, or
the failure of all upserts of one name. The NVD feed has two records, one to a page, so that there is a last,
full page; the archive is nested once. In `matching` a word has four values:
0, 1, 3 fit, 5 wraps, 17 is refused. The lists of manifests have up to two, three
or four members: a header, an entry, another header and an entry under it; a
declaration whose window holds the tags of two others. `Window` is 5 where the
code has 300 characters and a component of a tag is one character, so that a
window can end before, within and after a tag. In `startup` two daemons race
for each migration and two releases let one of them know a file the other does
not; two failures and one crash end a start at every step of it. The mappings of `matching` are two at a time,
three in the course of a lookup (`MaxMet`): one by name, one by pattern, and one
that either becomes. In `credentials` two settings let one replace the other and
two jobs read either; how often a remote asks has no bound. In `report_page` a
bulk request is of two findings, so that two callbacks race for the counter, and
a second dialog is saved while the lists of the first are on their way. `Jobs` in
MCBlueDuck is a symmetry of report jobs (alike, and no liveness property in
that run).

`CHECK_DEADLOCK FALSE` is in every cfg: with the bounds of its requests used up
the daemon rests, as it does when nobody asks for anything. Most states of
`matching` are inputs that never change.

### Fairness

* BlueDuck: weak fairness of each job's steps (a thread is scheduled until its
  job ends; each statement of a blocking client returns), of pending UPDATEs,
  of the writers, and of `Restart` (the container's restart policy). Requests,
  imports, crashes get none. Steps are weakly fair because no step of a job is
  disabled by another actor other than by the death of the process.
* GitSync: the thread of a sync takes its own steps (`SyncAlone`), and the
  database executes what it was sent or refuses it, while no clone or fetch
  holds a thread. Upserts run in any order, so the fairness is of the set. None
  for a clone or a fetch: `GitRepository.cpp:60` and `:82` set no timeout. The
  statements of the pool run on few threads (`DbLoop`), and a sync runs on the one its
  SELECT came back on, so a stalled remote may keep others' statements waiting;
  `ListedTagGetsRow` has as its premise that this does not last (`Held`).
* CveSync: each sync's thread runs on; every HTTP request ends at the latest by
  `CURLOPT_TIMEOUT` (120 s). The number of records published is bounded: `SyncsEnd`
  assumes a source that does not grow faster than it is read.
* Startup: each daemon's start proceeds (a statement waiting on a lock of
  another daemon's transaction gets it when that ends), and a process that
  ended is started again (`docker-compose.yml`, `restart: unless-stopped`).
  Failures, crashes and upgrades get none and are bounded.
* Credentials: a job's thread runs on and the database executes what it was sent
  while no connection holds a thread, and the container starts the process
  again. Requests, removals and crashes get none, and neither do
  `CredentialCallback` and `ConnectionEnds`: no timeout (`GitRepository.cpp:60`,
  `:82`, `:109`) and no count of attempts (`CredentialProvider.cpp:109-144`) ends
  a connection. `RequestsEnd` has as its premise that no remote holds on for
  ever.
* ReportPage and CpeMappings state no fairness: their properties are safety. A
  reply that never comes is a request whose UPDATEs are all through and which
  has no answer (`SavesAnswered`).

## 4. Proofs

Every theorem holds for all values of the constants (any number of projects,
jobs, CVEs, daemons, any bounds) that satisfy the named assumptions of the
modules. The runs check each property on small instances, but for two type
invariants.

### The tables and jobs of the daemon

`BlueDuck_proofs`, under `CveAssumption`, `ManifestAssumption`, `FeedAssumption`,
`BulkAssumption`:

* `TypeCorrect`: `Spec => [](TypeOK /\ DepsFinite /\ CveConsistent)`. `TypeOK`
  alone is not inductive: a report's counters are numbers only if the set of
  dependency rows is finite (`DepsFinite`), and a finding's severity is one
  only if a CVE with affected ranges has its record (`CveConsistent`: the
  foreign key of `cve_affected_products`, and the writers between two
  statements).
* `FindingsWithinVersion`: `Spec => [](FindingWithinVersion /\ ForeignKeys)`.
* `BatchesAreWhole`: `Spec => []OneBatchPerVersion`.

The last two follow from the invariant `Consistent`, the conjunction of the
foreign keys, one link per finding, whole batches, findings within a version,
and `ScansOwnVersion` (the rows a report job has loaded, and the one it is at,
are of the report's version), which is what makes `FindingWithinVersion`
inductive: the job inserts findings for rows it loaded long before. The
argument has a lemma for the cascade (`RetainTyped`, `RetainConsistent`), one
for the rows of a transaction (`BatchRowsTyped`), and one for each kind of job
(`AnalysisTyped`, `ReportTyped`, `CveTyped`, `AnalysisConsistent`,
`ReportConsistent`), put together in `NextTyped` and `NextConsistent`.

* `OwnProjectOnly`: `Spec => []DependenciesOfOwnProject`, from `ProjectInv`: a
  directory only ever holds its own project, and what a job has found *so far*
  is declared in some ref of its project (`FoundInProject`). The rows alone are
  not inductive, since they come from a job's list.
* `OwnRefOnly`: `Spec => []DependenciesOfOwnRef` if there is at most one
  analysis job. `RefInv` adds that the directory keeps the ref of the job
  all through its loop (`OwnTree`). That is what a second job breaks: the run
  `shared_tree` is the counterexample without the hypothesis.
* `MitigationsFit`: `Spec => []MitigationFitsFinding`, for any number of reports
  that carry a mitigation over. Inductive on top of `Consistent`; the premise
  of the property (requests that name one finding) is a constant, and
  `createBulk` links one record to unrelated findings on purpose.
* `MitigationsKept`: `Spec => MitigationKept`, an action property, action by
  action from the foreign keys and `OneLinkPerFinding`.

`Report_proofs` extends it with the two properties of `generateReport` that no
transaction guarantees:

* `SummariesCount`: `Spec => []SummaryCountsFindings`. The invariant `SummaryInv`
  says of a job between its statements (`ScanFits`) that one of two things is
  the case. Either its scan is `Intact`: its counters agree with the findings
  it has inserted, all it has still to look at is there, and it will insert
  nothing twice. Or it was `Overtaken`: every finding it inserted is gone, *and*
  every row it has still to look at. Nothing between holds, because an
  analysis replaces all the rows of a version in one transaction and the
  cascade takes findings along with them. A mixed scan would need a row to
  come back, so the invariant also has numbers: of reports (`ReportsNumbered`)
  and of batches (`BatchesNumbered`), below which no new row falls.
* `ReportsExact`: `Spec => []ReportIsExact`. `ExactInv` has for a job in its loop
  that it has inserted exactly the matches of its version but for those it has
  still to look at (`ExactSoFar`), or was overtaken; and `NothingImported`, that
  the CVE tables stand still. That is the property's own premise
  (`MaxUpserts = 0`): with imports meanwhile there is no set of CVEs the report
  could be exact about.

* `ReportsAreAtomic`: `Spec => ImplementsAtomicReports`. The step that needs an
  argument is the summary's UPDATE, where a report is published: it must have
  every match of the rows it began with, counted, if these are the version's rows
  still, and nothing if they are not. `SummaryInv` and `ExactInv` have it of the rows
  left to scan, of which there are none by then. So a job keeps what it loaded,
  and `Held`, `Intact` and `Overtaken` speak of that too: as long as a scan is intact
  it is the version's rows, once overtaken none of it is there. `ScansLoaded` adds
  that the counter of rows is its number, and that a job which loaded nothing has
  counted nothing. The other steps are a begin
  (LoadDependencies), a replacement (the transaction of an analysis), deletions,
  imports, and stutters. With imports (`Frozen` false) the theorem still has the
  publication, the counters and the rows, and leaves the set of CVEs open.

### The git directory and its rows

`GitSync_proofs`, under `DefaultAssumption` and `NullAssumption` (no row is NULL):

* `GitSyncTypeCorrect`: `Spec => []TypeOK`; `RowsResolve`: `Spec => []VersionsResolvable`;
  `CommitsNeverGoBack`: `Spec => CommitNeverGoesBack`.

All from `IInv`. Its core is `SaysWhatIsThere`: a row, an upsert that was issued
and has not run, and a checkout name a commit the directory has. A tag's is the
remote's, since tags do not move; a branch's is the one the clone left its
local branch at. That is why upserts may run in any order, of any
syncs, and no row goes back. `OneCloneAtATime` and `HeadsOfTheClone` say why the
directory does not change under them once it is cloned.

* `GitSyncImplementsVersionTable`: `Spec => ImplementsVersionTable`. Only `ExecUpsert`,
  the transaction of an analysis, the removal of a version and the pushes move
  the table; `StepRecords` goes through them. That the commit is one the remote
  has or had takes one invariant more, `HeadsBehind`: no local branch is ahead of
  the remote's.

### CVE syncs

`CveSync_proofs`, under `FeedAssumption`, `DistinctAssumption` (the NVD lists no
CVE twice, an archive is finite and has one document for each) and
`WriterAssumption` (finitely many syncs):

* `SyncTypeCorrect`: `Spec => []TypeOK`; `NvdImportsInFull`: `Spec => []NvdImportedInFull`.
* `ArchivesCountInFull`: `Spec => []ArchiveCountedInFull`, whatever entries cannot be
  read and however deep archives are nested.

`SyncFits` is what a sync relies on at each program counter: which states its
source passes through (`Course`), for the NVD that the records counted, the one
in hand and those left of the page add up to the start index of the next page,
and that everything below it is imported (`NvdSoFar`); for an archive that they
and those passed over add up to its documents (`ArchiveSoFar`). The lemma
`PageIsInterval` has the index arithmetic of `nextPageUrl` for any page size and
a feed that grows meanwhile.

* `RangesOncePerSync`: `Spec => []RangeOncePerSync`. Nothing in the table says who
  inserted a row, so the argument counts syncs: `RowsInv` has no more copies of a
  row than there are syncs `Past` it, that is, which will not insert it again.
  A sync is past a row once its CVE is neither to come (`Coming`) nor being
  written with that range left, and it stays so (`SyncsAdvance`, `PastGrows`),
  because pages do not overlap and a document is met once (`Apart`); the INSERT
  takes its sync past the row (`RowInserted`).

### Start-up

`Startup_proofs`, under `ReleaseAssumption` and `LibraryAssumption`:

* `StartupTypeCorrect`: `Spec => []TypeOK`.
* `MigratesInOrder`: `Spec => []MigrationsOnceInOrder`.
* `RunsOnItsSchema`: `Spec => []RunningHasItsSchema`.

The two properties say something only of releases that append, so the proof
takes the two cases of that constant premise: where it does not hold there is
nothing to show, where it holds the invariant `MigrationInv` is inductive. Its
parts: `schema_migrations` names exactly the files that took effect
(`RowsAreApplied`, the transaction); below a recorded file there is no gap
(`LowerRecorded`); the effects are in order
(`InOrder`); and what a daemon in the middle of `migrate` no longer has to do is
recorded (`RestRecorded`, `TodoOfRelease`). `LowerRecorded` and `RestRecorded` are what lets a
daemon trust the maximum it read before another one went on. The two cases
where this could break are the ones with lemmas: a transaction that comes
second finds its number taken (`OneFileANumber`, `ExecuteInOrder`), and a
daemon of the older release migrates behind one of the newer
(`LowerInRelease`). `ExecuteInOrder` covers `CommitUnanswered` too: a reply lost
after the COMMIT leaves a state the next start goes on from.

* `StartupImplementsRollout`: `Spec /\ ReleasesAppend => ImplementsRollout`. Each
  step of Startup is a step of Rollout or leaves its variables alone
  (`NextRollsOut`): a transaction that takes effect adds the lowest missing file
  (`ExecuteMigrates`, from `MigrationInv`), any other step changes the state of
  one daemon at most (`OneDaemonMoves`, `StopsAtMost`), and one that begins to
  serve has its schema.
* `PluginsAreAvailable`: `Spec => []PluginsAvailable`. `PluginInv` has that what a
  key is registered for is an open plugin of that key (`OpenPlugins`), and that
  the libraries gone through have their keys taken (`Taken`), whoever has them
  now: of two libraries with one key the later one destroys the earlier
  plugin, and the key is served all the same.

### Credentials

`Credentials_proofs`, under `NullAssumption`:

* `CredentialsTypeCorrect`: `Spec => []TypeOK`.
* `OffersLastSet`: `Spec => []OffersWhatWasSet`. The invariant is that the row,
  with all it keeps of earlier settings, resolves to the last one
  (`RowMeansLast`), that a job's copy resolves to what the row meant when it was
  read (`JobsMeanSeen`), and that what is on its way is whole
  (`StatementsWhole`). The lemma that carries it is `UpsertMeans`: each of the
  three upserts overrides whatever the row held.

### The report page

`ReportPage_proofs`, under `OrderAssumption` (the list is a sequence of finding
rows of one report, none twice):

* `PageTypeCorrect`; `AnswersComeLast`: `Spec => []AnsweredWhenLinked`;
  `AnswersCome`: `Spec => []SavesAnswered`. The three are about createBulk's shared
  counter. The invariant `Tallies` has, for each request, that its counter and
  every value a callback has read of it are at most the number of UPDATEs that
  are through, and equal to it as long as no increment was lost; and that the
  last one answers. It needs to know where each UPDATE is (`Disjoint`: issued,
  executed, or with a callback that has read the counter, one of these) and
  whose it is (`Numbered`). One lemma for each way the counter moves.
* `SuccessIsShown`: `Spec => []OwnMitigationShown`, from `Owes` (each finding of a
  request is mitigated, has its UPDATE under way, or a failed one) and
  `ListsConfirm`: the list asked for last has what was confirmed before.
* `DialogsNameOpenFindings`: `Spec => []NamesOpenFindings`, from `PageInv`.

### Versions, ranges, tags, mappings

`Matching_proofs`, under `WidthAssumption`, `BoundsAssumption`, `WindowAssumption`,
`CpeAssumption`, `PinsAssumption`:

* `ComparesInOrder`: `Spec => []CompareIsAnOrder`. It rests on `CompareOrdersTexts`,
  antisymmetry and transitivity of `CompareTexts` on *all* version texts, of
  any number of components. Comparison by places, as the code does it, is
  restated without recursion: `Smaller` (there is a first place where they
  differ, and it is smaller there), `Agree`, and `Below` with pre-releases.
  `SmallerIsTransitive` takes the lesser of the two places.
* `RangesHoldNumbers`: `Spec => []RangesAsNumbers`. The reference definition is
  the number a version spells in base `Word`, a recursive function; that it
  orders versions as `Below` does is `ValuesCompare`.
* `TagsOfOwnDeclarations`: `Spec => []TagOfOwnDeclaration`, for CMake files of any
  number of calls, any gaps between them and any window.
* `CargoReadsTables`: `Spec => []CargoFollowsToml`, for files of any number of
  lines. `InDependencies`, the section as the loop carries it along, is the
  reference's nearest header above; the loop `Kept` keeps the k-th wanted line as
  its k-th, and as many as there are.
* `PinsMatch`: `Spec => []PinsAreMatched`, for two entries of any names, pinned to
  the three versions of `Pins`, and words of any width that holds their numbers
  (`PinsAssumption`, which also names the ecosystems that can pin a version). Both
  directions, for each of the four analyzers: of the
  entries of one package the last is stored, with its name as normalised and its
  bound as written, and the join and the range find it if and only if the CVE's
  row spells it alike and the number is the same. The two ways to pin that bring
  no finding are cases of their own: of setup.cfg nothing is stored
  (`MarginNone`, `NoLinesOfPython`), so an entry there hides none before it, while
  a NuGet interval is stored, hides one, and is affected by no CVE of one version
  (`JunkUnaffected`).
* `LookupsFindMappings`: `Spec => []MappingFound`, from `CpeInv`: the rows in force
  lie between those that stayed and those met (`HistoryHolds`), and an answer of
  the two SELECTs is justified by these at every later time (`AnswerSays`).

The library's induction theorems take an operator and cannot be instantiated
here. Where the argument is by induction, on places or on positions, it goes by
the least counterexample instead: a set of naturals has a least member
(`LeastNumber`, from the well-foundedness of the strict subset order), a
recursive function exists and is unique (`RecursionExists`,
`RecursionIsUnique`).

The types of GitSync and CveSync are not in the runs, which the theorems
make superfluous there.

### Only model-checked

* Liveness: `JobsEnd`, `SyncsEnd`, `ListedTagGetsRow`, `DaemonsComeUp`,
  `RequestsEnd`. Fairness and ENABLED are out of the prover's reach.
* The three properties of the violation runs, which do not hold.

## 5. Not modelled

The encryption itself (OpenSSL), the formatting of replies, handlers that only
read (but for the list of the report page), the pages of the frontend other
than a report's (they send their requests and list what comes back, reloading as that
page does), a death of the daemon while a report page waits, the
unloading of plugins at shutdown, build and packaging. The CVE parsers are the
records they make; of the analyzers, the walk over the files and the text
between entries are left out. `ReportEngine` abstracts a dependency's name and
ecosystem to one package value, and the CVE ranges to the versions they match
(Matching has the detail).

## 6. Plan

Done: the data model with its jobs (Schema, Analysis, Report, Mitigation,
BlueDuck), CveDbWriter, GitSync, CveSync, Matching, Manifests, CpeMappings,
Startup, Credentials, ReportPage, and three abstract specifications: Rollout,
AtomicReports, VersionTable. Proved are the type invariant of every module that
has one, every safety invariant and action property of the passing runs, and the three
refinements.

To extend the model:

1. A death of the daemon under a page that waits; the project page.
2. An abstract CVE import that CveSync implements; `NvdSoFar` and `ArchiveSoFar`
   have what a proof would need.

Liveness has no proof and stays with TLC.
