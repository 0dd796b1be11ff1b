---------------------------- MODULE Startup_proofs ---------------------------
(***************************************************************************)
(* Theorems about Startup, for any number of daemons, releases, files and  *)
(* plugin directories.                                                     *)
(***************************************************************************)
EXTENDS Startup, SequenceTheorems, TLAPS

\* The table says what took effect.
RowsAreApplied == rows = {schema[i] : i \in DOMAIN schema}

\* Below a recorded file there is no gap.
LowerRecorded == \A f \in rows, g \in File : g.version < f.version => g \in rows

InOrder == \A i, k \in DOMAIN schema : i < k => schema[i].version < schema[k].version

\* What a daemon in migrate's loop will not look at again is recorded.
RestRecorded ==
    \A d \in Daemon : daemon[d].pc = "apply" =>
        \A f \in Release[daemon[d].release] : f \in daemon[d].todo \/ f \in rows

TodoOfRelease ==
    \A d \in Daemon : daemon[d].todo \subseteq Release[daemon[d].release]

Migrations ==
    \A d \in Daemon : daemon[d].pc \in {"load", "configure", "running"} =>
        Release[daemon[d].release] \subseteq rows

MigrationInv ==
    /\ RowsAreApplied /\ LowerRecorded /\ InOrder
    /\ RestRecorded /\ TodoOfRelease /\ Migrations

-----------------------------------------------------------------------------

(***************************************************************************)
(* The fields a daemon may have (Application::init).                       *)
(***************************************************************************)
LEMMA FileTyped == \A f \in File : f.version \in Nat \ {0} /\ f.name \in Nat
BY ReleaseAssumption DEF File

LEMMA ReleaseFiles == \A i \in DOMAIN Release : Release[i] \subseteq File
BY DEF File

LEMMA DirectoryTyped ==
    /\ Len(Directory) \in Nat
    /\ \A i \in 1 .. Len(Directory) : Directory[i] \subseteq Library
BY LibraryAssumption

(***************************************************************************)
(* One file has a number in all releases, if releases only append.         *)
(***************************************************************************)
LEMMA OneFileANumber ==
    ASSUME ReleasesAppend
    PROVE  \A f, g \in File : f.version = g.version => f = g
<1>1. SUFFICES ASSUME NEW i \in DOMAIN Release, NEW k \in DOMAIN Release,
                      NEW f \in Release[i], NEW g \in Release[k], f.version = g.version
               PROVE  f = g
    BY DEF File
<1>2. i \in Nat /\ k \in Nat
    BY ReleaseAssumption
<1>3. CASE i <= k
    BY <1>1, <1>2, <1>3 DEF ReleasesAppend
<1>4. CASE k <= i
    BY <1>1, <1>2, <1>4 DEF ReleasesAppend
<1>5. QED
    BY <1>2, <1>3, <1>4

(***************************************************************************)
(* A release has every file numbered below one of its own.                 *)
(***************************************************************************)
LEMMA LowerInRelease ==
    ASSUME ReleasesAppend,
           NEW i \in DOMAIN Release, NEW f \in Release[i], NEW g \in File, g.version < f.version
    PROVE  g \in Release[i]
<1>1. PICK k \in DOMAIN Release : g \in Release[k]
    BY DEF File
<1>2. i \in Nat /\ k \in Nat
    BY ReleaseAssumption
<1>3. CASE k <= i
    BY <1>1, <1>3 DEF ReleasesAppend
<1>4. CASE i <= k
    <2>1. SUFFICES ASSUME g \in Release[k] \ Release[i]
                   PROVE  FALSE
        BY <1>1
    <2>2. f.version < g.version
        BY <1>4, <2>1 DEF ReleasesAppend
    <2>3. f.version \in Nat /\ g.version \in Nat
        BY FileTyped, ReleaseFiles
    <2>4. QED
        BY <2>2, <2>3
<1>5. QED
    BY <1>2, <1>3, <1>4

-----------------------------------------------------------------------------

Record == [pc : Pc, release : DOMAIN Release, todo : SUBSET File,
           directory : 0 .. Len(Directory), libraries : SUBSET Library,
           registry : [Keys -> Library \cup {NoPlugin}], handles : SUBSET Library]

LEMMA MigratingTyped ==
    ASSUME NEW r \in DOMAIN Release, NEW pc \in Pc, NEW todo \in SUBSET File
    PROVE  Migrating(r, pc, todo) \in Record
<1>1. NoPlugins \in [Keys -> Library \cup {NoPlugin}]
    BY DEF NoPlugins
<1>2. 0 \in 0 .. Len(Directory)
    BY DirectoryTyped
<1>3. QED
    BY <1>1, <1>2 DEF Migrating, Record

LEMMA BecomesTyped ==
    ASSUME TypeOK, NEW d \in Daemon, NEW s \in Record,
           daemon' = [daemon EXCEPT ![d] = s],
           schema' \in Seq(File), rows' \in SUBSET File, failures' \in Nat, crashes' \in Nat
    PROVE  TypeOK'
<1>1. daemon' \in [Daemon -> Record]
    BY DEF TypeOK, Record
<1>2. QED
    BY <1>1 DEF TypeOK, Record

(***************************************************************************)
(* One step of a daemon keeps the types.                                   *)
(***************************************************************************)
LEMMA NextTyped == TypeOK /\ [Next]_vars => TypeOK'
<1> SUFFICES ASSUME TypeOK, [Next]_vars
             PROVE  TypeOK'
    OBVIOUS
<1>0. CASE UNCHANGED vars
    BY <1>0 DEF TypeOK, vars
<1> SUFFICES ASSUME NEW d \in Daemon,
                    StartProceeds(d) \/ CommitUnanswered(d) \/ InitFails(d) \/ Crash(d) \/ Upgrade(d)
             PROVE  TypeOK'
    BY <1>0 DEF Next
<1> DEFINE s == daemon[d]
<1>a. s \in Record
    BY DEF TypeOK, Record
<1>b. s.release \in DOMAIN Release /\ s.directory \in 0 .. Len(Directory) /\ s.todo \subseteq File
      /\ s.libraries \subseteq Library /\ s.handles \subseteq Library
      /\ s.registry \in [Keys -> Library \cup {NoPlugin}]
    BY <1>a DEF Record
<1>c. schema \in Seq(File) /\ rows \in SUBSET File /\ failures \in Nat /\ crashes \in Nat
    BY DEF TypeOK
<1>d. \A pc \in Pc : Migrating(s.release, pc, {}) \in Record
    BY <1>b, MigratingTyped
<1>e. Down(s.release) \in Record
    BY <1>d DEF Down, Pc
<1>f. \A f \in Pending(d) : f \in File /\ (Execute(f) => schema' \in Seq(File) /\ rows' \in SUBSET File)
    BY <1>b, <1>c DEF Pending, Execute, Recorded
<1>1. CASE Start(d)
    BY <1>1, <1>c, <1>d, BecomesTyped DEF Start, Becomes, Pc
<1>2. CASE EnsureTable(d)
    BY <1>2, <1>c, <1>d, BecomesTyped DEF EnsureTable, Becomes, Pc
<1>3. CASE ReadCurrent(d)
    <2>1. PICK n : daemon' = [daemon EXCEPT ![d] = Migrating(s.release, "apply",
                                   {f \in Release[s.release] : ~ Skipped(f.version, n)})]
        BY <1>3 DEF ReadCurrent, Becomes
    <2>2. {f \in Release[s.release] : ~ Skipped(f.version, n)} \in SUBSET File
        BY <1>b, ReleaseFiles
    <2>3. Migrating(s.release, "apply", {f \in Release[s.release] : ~ Skipped(f.version, n)}) \in Record
        BY <1>b, <2>2, MigratingTyped DEF Pc
    <2>4. QED
        BY <1>3, <1>c, <2>1, <2>3, BecomesTyped DEF ReadCurrent
<1>4. CASE ApplyFile(d)
    <2>1. PICK f \in Pending(d) :
              /\ Execute(f)
              /\ daemon' = [daemon EXCEPT ![d] = Migrating(s.release, "apply",
                                {g \in s.todo : ~ Skipped(g.version, f.version)})]
        BY <1>4 DEF ApplyFile, Becomes
    <2>2. {g \in s.todo : ~ Skipped(g.version, f.version)} \in SUBSET File
        BY <1>b
    <2>3. Migrating(s.release, "apply", {g \in s.todo : ~ Skipped(g.version, f.version)}) \in Record
        BY <1>b, <2>2, MigratingTyped DEF Pc
    <2>4. QED
        BY <1>4, <1>c, <1>f, <2>1, <2>3, BecomesTyped DEF ApplyFile
<1>5. CASE ApplyConflicts(d)
    BY <1>5, <1>c, <1>e, BecomesTyped DEF ApplyConflicts, Becomes
<1>6. CASE Migrated(d)
    BY <1>6, <1>c, <1>d, BecomesTyped DEF Migrated, Becomes, Pc
<1>7. CASE OpenDirectory(d)
    <2>1. [s EXCEPT !.pc = "configure"] \in Record
        BY <1>a DEF Record, Pc
    <2>2. CASE s.directory = Len(Directory)
        BY <1>7, <1>c, <2>1, <2>2, BecomesTyped DEF OpenDirectory, Becomes
    <2>3. CASE s.directory # Len(Directory)
        <3>1. s.directory + 1 \in 1 .. Len(Directory)
            BY <1>b, <2>3, DirectoryTyped
        <3>2. Directory[s.directory + 1] \subseteq Library /\ s.directory + 1 \in 0 .. Len(Directory)
            BY <3>1, DirectoryTyped
        <3>3. Loading(s.release, s.directory + 1, Directory[s.directory + 1], s.registry, s.handles) \in Record
            BY <1>b, <3>2 DEF Loading, Record, Pc
        <3>4. QED
            BY <1>7, <1>c, <2>3, <3>3, BecomesTyped DEF OpenDirectory, Becomes
    <2>4. QED
        BY <2>2, <2>3
<1>8. CASE LoadFile(d)
    <2>1. PICK l \in s.libraries :
              daemon' = [daemon EXCEPT ![d] = Loading(s.release, s.directory,
                             LeftAfter(d, l), Registered(d, l), Opened(d, l))]
        BY <1>8 DEF LoadFile, Becomes
    <2>2. l \in Library /\ Key[l] \in Keys
        BY <1>b DEF Keys
    <2>3. Registered(d, l) \in [Keys -> Library \cup {NoPlugin}]
        BY <1>b, <2>2 DEF Registered
    <2>4. LeftAfter(d, l) \subseteq Library /\ Opened(d, l) \subseteq Library
        BY <1>b, <2>2 DEF LeftAfter, Opened
    <2>5. Loading(s.release, s.directory, LeftAfter(d, l), Registered(d, l), Opened(d, l)) \in Record
        BY <1>b, <2>3, <2>4 DEF Loading, Record, Pc
    <2>6. QED
        BY <1>8, <1>c, <2>1, <2>5, BecomesTyped DEF LoadFile
<1>9. CASE Configure(d)
    <2>1. [s EXCEPT !.pc = "running"] \in Record
        BY <1>a DEF Record, Pc
    <2>2. QED
        BY <1>9, <1>c, <2>1, BecomesTyped DEF Configure, Becomes
<1>10. CASE CommitUnanswered(d)
    <2>1. PICK f \in Pending(d) : Execute(f)
        BY <1>10 DEF CommitUnanswered
    <2>2. failures' \in Nat /\ crashes' \in Nat
        BY <1>10, <1>c DEF CommitUnanswered
    <2>3. schema' \in Seq(File) /\ rows' \in SUBSET File
        BY <1>f, <2>1
    <2>4. daemon' = [daemon EXCEPT ![d] = Down(s.release)]
        BY <1>10 DEF CommitUnanswered, Becomes
    <2>5. QED
        BY <1>e, <2>2, <2>3, <2>4, BecomesTyped
<1>11. CASE InitFails(d)
    <2>1. failures' \in Nat /\ crashes' \in Nat
        BY <1>11, <1>c DEF InitFails
    <2>2. QED
        BY <1>11, <1>c, <1>e, <2>1, BecomesTyped DEF InitFails
<1>12. CASE Crash(d)
    <2>1. failures' \in Nat /\ crashes' \in Nat
        BY <1>12, <1>c DEF Crash
    <2>2. QED
        BY <1>12, <1>c, <1>e, <2>1, BecomesTyped DEF Crash
<1>13. CASE Upgrade(d)
    <2>1. s.release + 1 \in DOMAIN Release
        BY <1>13, <1>b, ReleaseAssumption DEF Upgrade
    <2>2. Down(s.release + 1) \in Record
        BY <2>1, MigratingTyped DEF Down, Pc
    <2>3. QED
        BY <1>13, <1>c, <2>2, BecomesTyped DEF Upgrade
<1>14. QED
    BY <1>1, <1>2, <1>3, <1>4, <1>5, <1>6, <1>7, <1>8, <1>9, <1>10, <1>11, <1>12, <1>13
       DEF StartProceeds

(***************************************************************************)
(* What Application::init and the tables hold is always of its type; a     *)
(* daemon never looks beyond its plugin directories.                       *)
(***************************************************************************)
THEOREM StartupTypeCorrect == Spec => []TypeOK
<1>1. Init => TypeOK
    <2>1. 1 \in DOMAIN Release
        BY ReleaseAssumption, EmptySeq DEF Init
    <2>2. Down(1) \in Record
        BY <2>1, MigratingTyped DEF Down, Pc
    <2>3. QED
        BY <2>2 DEF Init, TypeOK, Record
<1>2. QED
    BY <1>1, NextTyped, PTL DEF Spec

-----------------------------------------------------------------------------

(***************************************************************************)
(* Executing the first pending file leaves no gap and no disorder: the     *)
(* files below it are of its release, so recorded; none above it can be,   *)
(* since it would be recorded itself.                                      *)
(***************************************************************************)
LEMMA ExecuteInOrder ==
    ASSUME ReleasesAppend, TypeOK, MigrationInv,
           NEW d \in Daemon, daemon[d].pc = "apply", NEW f \in Pending(d), Execute(f)
    PROVE  /\ RowsAreApplied' /\ LowerRecorded' /\ InOrder'
           /\ rows' = rows \cup {f}
           /\ \A g \in daemon[d].todo : Skipped(g.version, f.version) => g \in rows'
<1> DEFINE r == daemon[d].release
<1>1. /\ r \in DOMAIN Release /\ f \in daemon[d].todo /\ daemon[d].todo \subseteq Release[r]
      /\ f \in Release[r] /\ Release[r] \subseteq File /\ rows \subseteq File
    BY ReleaseFiles DEF TypeOK, MigrationInv, TodoOfRelease, Pending
<1>2. \A g \in File : g.version \in Nat
    BY FileTyped
<1>3. rows' = rows \cup {f} /\ schema' = Append(schema, f) /\ schema \in Seq(File) /\ f \in File
    BY <1>1 DEF Execute, Recorded, TypeOK
<1>4. \A g \in daemon[d].todo : g.version <= f.version => g = f
    <2> SUFFICES ASSUME NEW g \in daemon[d].todo, g.version <= f.version, g # f
                 PROVE  FALSE
        OBVIOUS
    <2>1. f.version <= g.version
        BY <1>1, <1>2 DEF Pending, Before
    <2>2. QED
        BY <1>1, <1>2, <2>1, OneFileANumber
<1>5. \A g \in File : g.version < f.version => g \in rows
    <2> SUFFICES ASSUME NEW g \in File, g.version < f.version
                 PROVE  g \in rows
        OBVIOUS
    <2>1. g \in Release[r]
        BY <1>1, LowerInRelease
    <2>2. g \notin daemon[d].todo
        BY <1>2, <1>3, <1>4
    <2>3. QED
        BY <2>1, <2>2 DEF MigrationInv, RestRecorded
<1>6. \A h \in rows : h.version < f.version
    <2> SUFFICES ASSUME NEW h \in rows, ~ (h.version < f.version)
                 PROVE  FALSE
        OBVIOUS
    <2>1. h.version # f.version
        BY DEF Execute, Recordable
    <2>2. f \in rows
        BY <1>1, <1>2, <2>1 DEF MigrationInv, LowerRecorded
    <2>3. QED
        BY <2>2 DEF Execute, Recordable
<1>7. LowerRecorded'
    BY <1>3, <1>5 DEF MigrationInv, LowerRecorded
<1>8. /\ DOMAIN schema' = 1 .. Len(schema) + 1 /\ DOMAIN schema = 1 .. Len(schema)
      /\ Len(schema) \in Nat
      /\ \A i \in DOMAIN schema : schema'[i] = schema[i]
      /\ schema'[Len(schema) + 1] = f
    BY <1>3
<1>9. RowsAreApplied'
    <2>1. {schema'[i] : i \in DOMAIN schema'} = {schema[i] : i \in DOMAIN schema} \cup {f}
        BY <1>8
    <2>2. QED
        BY <1>3, <2>1 DEF MigrationInv, RowsAreApplied
<1>10. InOrder'
    <2> SUFFICES ASSUME NEW i \in DOMAIN schema', NEW k \in DOMAIN schema', i < k
                 PROVE  schema'[i].version < schema'[k].version
        BY DEF InOrder
    <2>1. i \in DOMAIN schema
        BY <1>8
    <2>2. CASE k \in DOMAIN schema
        BY <1>8, <2>1, <2>2 DEF MigrationInv, InOrder
    <2>3. CASE k = Len(schema) + 1
        <3>1. schema[i] \in rows
            BY <2>1 DEF MigrationInv, RowsAreApplied
        <3>2. QED
            BY <1>6, <1>8, <2>1, <2>3, <3>1
    <2>4. QED
        BY <1>8, <2>2, <2>3
<1>11. QED
    BY <1>3, <1>4, <1>7, <1>9, <1>10 DEF Skipped

(***************************************************************************)
(* What a daemon does leaves the promises of another as they are, if the   *)
(* recorded files only grow.                                               *)
(***************************************************************************)
LEMMA OthersKeep ==
    ASSUME TypeOK, MigrationInv, NEW d \in Daemon, NEW s,
           daemon' = [daemon EXCEPT ![d] = s], rows \subseteq rows',
           s.todo \subseteq Release[s.release],
           s.pc = "apply" => \A f \in Release[s.release] : f \in s.todo \/ f \in rows',
           s.pc \in {"load", "configure", "running"} => Release[s.release] \subseteq rows'
    PROVE  RestRecorded' /\ TodoOfRelease' /\ Migrations'
<1>1. \A e \in Daemon : daemon'[e] = IF e = d THEN s ELSE daemon[e]
    BY DEF TypeOK
<1>2. RestRecorded'
    BY <1>1 DEF MigrationInv, RestRecorded
<1>3. TodoOfRelease'
    BY <1>1 DEF MigrationInv, TodoOfRelease
<1>4. Migrations'
    BY <1>1 DEF MigrationInv, Migrations
<1>5. QED
    BY <1>2, <1>3, <1>4

\* A step of d that leaves the tables alone, after which it is as s.
LEMMA TablesUnchanged ==
    ASSUME TypeOK, MigrationInv, NEW d \in Daemon, NEW s,
           daemon' = [daemon EXCEPT ![d] = s], UNCHANGED << schema, rows >>,
           s.todo \subseteq Release[s.release],
           s.pc = "apply" => \A f \in Release[s.release] : f \in s.todo \/ f \in rows,
           s.pc \in {"load", "configure", "running"} => Release[s.release] \subseteq rows
    PROVE  MigrationInv'
<1>1. RowsAreApplied' /\ LowerRecorded' /\ InOrder'
    BY DEF MigrationInv, RowsAreApplied, LowerRecorded, InOrder
<1>2. QED
    BY <1>1, OthersKeep DEF MigrationInv

(***************************************************************************)
(* The invariant of the migrations is inductive.                           *)
(***************************************************************************)
LEMMA NextMigrates ==
    ReleasesAppend /\ TypeOK /\ MigrationInv /\ [Next]_vars => MigrationInv'
<1> SUFFICES ASSUME ReleasesAppend, TypeOK, MigrationInv, [Next]_vars
             PROVE  MigrationInv'
    OBVIOUS
<1>0. CASE UNCHANGED vars
    BY <1>0 DEF vars, MigrationInv, RowsAreApplied, LowerRecorded, InOrder, RestRecorded,
                TodoOfRelease, Migrations
<1> SUFFICES ASSUME NEW d \in Daemon,
                    StartProceeds(d) \/ CommitUnanswered(d) \/ InitFails(d) \/ Crash(d) \/ Upgrade(d)
             PROVE  MigrationInv'
    BY <1>0 DEF Next
<1> DEFINE s == daemon[d]
           r == daemon[d].release
<1>a. r \in DOMAIN Release /\ s.todo \subseteq Release[r] /\ Release[r] \subseteq File /\ rows \subseteq File
    BY ReleaseFiles DEF TypeOK, MigrationInv, TodoOfRelease
<1>b. \A pc \in Pc : \A q, todo : LET m == Migrating(q, pc, todo) IN
          m.pc = pc /\ m.release = q /\ m.todo = todo
    BY DEF Migrating
<1>c. \A q : Down(q).pc = "down" /\ Down(q).release = q /\ Down(q).todo = {}
    BY DEF Down, Migrating
<1>d. s \in Record
    BY DEF TypeOK, Record
<1>1. CASE Start(d)
    <2>1. daemon' = [daemon EXCEPT ![d] = Migrating(r, "ensure", {})] /\ UNCHANGED << schema, rows >>
        BY <1>1 DEF Start, Becomes
    <2>2. /\ Migrating(r, "ensure", {}).pc = "ensure" /\ Migrating(r, "ensure", {}).release = r
          /\ Migrating(r, "ensure", {}).todo = {}
        BY <1>b DEF Pc
    <2>3. QED
        BY <2>1, <2>2, TablesUnchanged
<1>2. CASE EnsureTable(d)
    <2>1. daemon' = [daemon EXCEPT ![d] = Migrating(r, "current", {})] /\ UNCHANGED << schema, rows >>
        BY <1>2 DEF EnsureTable, Becomes
    <2>2. /\ Migrating(r, "current", {}).pc = "current" /\ Migrating(r, "current", {}).release = r
          /\ Migrating(r, "current", {}).todo = {}
        BY <1>b DEF Pc
    <2>3. QED
        BY <2>1, <2>2, TablesUnchanged
<1>3. CASE ReadCurrent(d)
    <2>1. PICK n \in {0} \cup {f.version : f \in rows} :
              /\ IsCurrent(n)
              /\ daemon' = [daemon EXCEPT ![d] = Migrating(r, "apply",
                                {f \in Release[r] : ~ Skipped(f.version, n)})]
        BY <1>3 DEF ReadCurrent, Becomes
    <2> DEFINE todo == {f \in Release[r] : ~ Skipped(f.version, n)}
    <2>2. \A f \in Release[r] : f \in todo \/ f \in rows
        <3> SUFFICES ASSUME NEW f \in Release[r], f.version <= n
                     PROVE  f \in rows
            BY DEF Skipped
        <3>1. f \in File /\ f.version \in Nat \ {0}
            BY <1>a, FileTyped
        <3>2. PICK h \in rows : h.version = n
            BY <3>1 DEF IsCurrent
        <3>3. h \in File /\ h.version \in Nat
            BY <1>a, FileTyped
        <3>4. CASE f.version < n
            BY <3>1, <3>2, <3>4 DEF MigrationInv, LowerRecorded
        <3>5. CASE f.version = n
            BY <3>1, <3>2, <3>3, <3>5, OneFileANumber
        <3>6. QED
            BY <3>1, <3>2, <3>3, <3>4, <3>5
    <2>3. /\ Migrating(r, "apply", todo).pc = "apply" /\ Migrating(r, "apply", todo).release = r
          /\ Migrating(r, "apply", todo).todo = todo
        BY <1>b DEF Pc
    <2> HIDE DEF todo
    <2>4. todo \subseteq Release[r]
        BY DEF todo
    <2>5. daemon' = [daemon EXCEPT ![d] = Migrating(r, "apply", todo)]
        BY <2>1 DEF todo
    <2>6. UNCHANGED << schema, rows >>
        BY <1>3 DEF ReadCurrent
    <2>7. QED
        BY <2>2, <2>3, <2>4, <2>5, <2>6, TablesUnchanged
<1>4. CASE ApplyFile(d)
    <2>1. PICK f \in Pending(d) :
              /\ Execute(f)
              /\ daemon' = [daemon EXCEPT ![d] = Migrating(r, "apply",
                                {g \in s.todo : ~ Skipped(g.version, f.version)})]
        BY <1>4 DEF ApplyFile, Becomes
    <2>2. /\ RowsAreApplied' /\ LowerRecorded' /\ InOrder' /\ rows' = rows \cup {f}
          /\ \A g \in s.todo : Skipped(g.version, f.version) => g \in rows'
        BY <1>4, <2>1, ExecuteInOrder DEF ApplyFile, Becomes
    <2> DEFINE todo == {g \in s.todo : ~ Skipped(g.version, f.version)}
    <2>3. \A g \in Release[r] : g \in todo \/ g \in rows'
        BY <1>4, <2>2 DEF MigrationInv, RestRecorded, ApplyFile, Becomes
    <2>4. todo \subseteq Release[r] /\ rows \subseteq rows'
        BY <1>a, <2>2
    <2>5. daemon' = [daemon EXCEPT ![d] = Migrating(r, "apply", todo)]
        BY <2>1
    <2> HIDE DEF todo
    <2>6. /\ Migrating(r, "apply", todo).pc = "apply" /\ Migrating(r, "apply", todo).release = r
          /\ Migrating(r, "apply", todo).todo = todo
        BY <1>b DEF Pc
    <2>7. RestRecorded' /\ TodoOfRelease' /\ Migrations'
        BY <2>3, <2>4, <2>5, <2>6, OthersKeep
    <2>8. QED
        BY <2>2, <2>7 DEF MigrationInv
<1>5. CASE ApplyConflicts(d)
    BY <1>5, <1>c, TablesUnchanged DEF ApplyConflicts, Becomes
<1>6. CASE Migrated(d)
    <2>1. daemon' = [daemon EXCEPT ![d] = Migrating(r, "load", {})] /\ UNCHANGED << schema, rows >>
        BY <1>6 DEF Migrated, Becomes
    <2>2. /\ Migrating(r, "load", {}).pc = "load" /\ Migrating(r, "load", {}).release = r
          /\ Migrating(r, "load", {}).todo = {}
        BY <1>b DEF Pc
    <2>3. Release[r] \subseteq rows
        BY <1>6 DEF Migrated, Becomes, MigrationInv, RestRecorded
    <2>4. QED
        BY <2>1, <2>2, <2>3, TablesUnchanged
<1>7. CASE OpenDirectory(d)
    <2>1. Release[r] \subseteq rows
        BY <1>7 DEF OpenDirectory, Becomes, MigrationInv, Migrations
    <2>2. UNCHANGED << schema, rows >>
        BY <1>7 DEF OpenDirectory
    <2> DEFINE c == [s EXCEPT !.pc = "configure"]
               l == Loading(r, s.directory + 1, Directory[s.directory + 1], s.registry, s.handles)
    <2>3. c.release = r /\ c.todo = s.todo /\ c.pc = "configure"
        BY <1>d DEF Record
    <2>4. l.release = r /\ l.todo = {} /\ l.pc = "load"
        BY DEF Loading
    <2>5. daemon' = [daemon EXCEPT ![d] = c] \/ daemon' = [daemon EXCEPT ![d] = l]
        BY <1>7 DEF OpenDirectory, Becomes
    <2> HIDE DEF c, l
    <2>6. QED
        BY <1>a, <2>1, <2>2, <2>3, <2>4, <2>5, TablesUnchanged
<1>8. CASE LoadFile(d)
    <2>1. Release[r] \subseteq rows
        BY <1>8 DEF LoadFile, Becomes, MigrationInv, Migrations
    <2>2. UNCHANGED << schema, rows >>
        BY <1>8 DEF LoadFile
    <2>3. PICK l \in s.libraries :
              daemon' = [daemon EXCEPT ![d] = Loading(r, s.directory,
                             LeftAfter(d, l), Registered(d, l), Opened(d, l))]
        BY <1>8 DEF LoadFile, Becomes
    <2> DEFINE q == Loading(r, s.directory, LeftAfter(d, l), Registered(d, l), Opened(d, l))
    <2>4. q.release = r /\ q.todo = {} /\ q.pc = "load"
        BY DEF Loading
    <2>5. daemon' = [daemon EXCEPT ![d] = q]
        BY <2>3
    <2> HIDE DEF q
    <2>6. QED
        BY <2>1, <2>2, <2>4, <2>5, TablesUnchanged
<1>9. CASE Configure(d)
    <2>1. Release[r] \subseteq rows
        BY <1>9 DEF Configure, Becomes, MigrationInv, Migrations
    <2>2. UNCHANGED << schema, rows >>
        BY <1>9 DEF Configure
    <2> DEFINE q == [s EXCEPT !.pc = "running"]
    <2>3. q.release = r /\ q.todo = s.todo /\ q.pc = "running"
        BY <1>d DEF Record
    <2>4. daemon' = [daemon EXCEPT ![d] = q]
        BY <1>9 DEF Configure, Becomes
    <2> HIDE DEF q
    <2>5. QED
        BY <1>a, <2>1, <2>2, <2>3, <2>4, TablesUnchanged
<1>10. CASE CommitUnanswered(d)
    <2>1. PICK f \in Pending(d) : Execute(f)
        BY <1>10 DEF CommitUnanswered
    <2>2. RowsAreApplied' /\ LowerRecorded' /\ InOrder' /\ rows' = rows \cup {f}
        BY <1>10, <2>1, ExecuteInOrder DEF CommitUnanswered, Becomes
    <2>3. daemon' = [daemon EXCEPT ![d] = Down(r)]
        BY <1>10 DEF CommitUnanswered, Becomes
    <2>4. RestRecorded' /\ TodoOfRelease' /\ Migrations'
        BY <1>c, <2>2, <2>3, OthersKeep
    <2>5. QED
        BY <2>2, <2>4 DEF MigrationInv
<1>11. CASE InitFails(d)
    BY <1>11, <1>c, TablesUnchanged DEF InitFails
<1>12. CASE Crash(d)
    BY <1>12, <1>c, TablesUnchanged DEF Crash
<1>13. CASE Upgrade(d)
    BY <1>13, <1>c, TablesUnchanged DEF Upgrade
<1>14. QED
    BY <1>1, <1>2, <1>3, <1>4, <1>5, <1>6, <1>7, <1>8, <1>9, <1>10, <1>11, <1>12, <1>13
       DEF StartProceeds

LEMMA InitMigrates == Init => MigrationInv
<1> SUFFICES ASSUME Init
             PROVE  MigrationInv
    OBVIOUS
<1>1. \A d \in Daemon : daemon[d].pc = "down" /\ daemon[d].todo = {}
    BY DEF Init, Down, Migrating
<1>2. DOMAIN schema = {} /\ rows = {}
    BY DEF Init
<1>3. QED
    BY <1>1, <1>2 DEF MigrationInv, RowsAreApplied, LowerRecorded, InOrder, RestRecorded,
                      TodoOfRelease, Migrations

LEMMA MigrationsHold == Spec /\ ReleasesAppend => []MigrationInv
<1>1. ReleasesAppend /\ TypeOK /\ MigrationInv /\ [Next]_vars => MigrationInv'
    BY NextMigrates
<1>2. ReleasesAppend => [](ReleasesAppend)
    BY DEF ReleasesAppend
<1>3. QED
    BY <1>1, <1>2, InitMigrates, StartupTypeCorrect, PTL DEF Spec

(***************************************************************************)
(* Any number of daemons of any appending releases, dying anywhere, give   *)
(* the database each migration once and in order.                          *)
(***************************************************************************)
THEOREM MigratesInOrder == Spec => []MigrationsOnceInOrder
<1>1. CASE ReleasesAppend
    <2>1. MigrationInv => MigrationsOnceInOrder
        BY DEF MigrationInv, InOrder, MigrationsOnceInOrder
    <2>2. QED
        BY <1>1, <2>1, MigrationsHold, PTL
<1>2. CASE ~ ReleasesAppend
    <2>1. MigrationsOnceInOrder
        BY <1>2 DEF MigrationsOnceInOrder
    <2>2. QED
        BY <2>1, PTL
<1>3. QED
    BY <1>1, <1>2

(***************************************************************************)
(* A daemon that loads plugins or listens has its release's schema.        *)
(***************************************************************************)
THEOREM RunsOnItsSchema == Spec => []RunningHasItsSchema
<1>1. CASE ReleasesAppend
    <2>1. MigrationInv => RunningHasItsSchema
        BY DEF MigrationInv, RowsAreApplied, Migrations, RunningHasItsSchema
    <2>2. QED
        BY <1>1, <2>1, MigrationsHold, PTL
<1>2. CASE ~ ReleasesAppend
    <2>1. RunningHasItsSchema
        BY <1>2 DEF RunningHasItsSchema
    <2>2. QED
        BY <2>1, PTL
<1>3. QED
    BY <1>1, <1>2

-----------------------------------------------------------------------------

(***************************************************************************)
(* What the step of one daemon, from d on as s, is to an operator: its     *)
(* release and whether it serves, the others being as they were.           *)
(***************************************************************************)
LEMMA OneDaemonMoves ==
    ASSUME TypeOK, NEW d \in Daemon, NEW s, daemon' = [daemon EXCEPT ![d] = s]
    PROVE  /\ [e \in Daemon |-> daemon'[e].release]
                  = [[e \in Daemon |-> daemon[e].release] EXCEPT ![d] = s.release]
           /\ {e \in Daemon : daemon'[e].pc = "running"}
                  = IF s.pc = "running" THEN {e \in Daemon : daemon[e].pc = "running"} \cup {d}
                    ELSE {e \in Daemon : daemon[e].pc = "running"} \ {d}
<1>1. \A e \in Daemon : daemon'[e] = IF e = d THEN s ELSE daemon[e]
    BY DEF TypeOK
<1> DEFINE rel == [e \in Daemon |-> daemon[e].release]
<1>2. [e \in Daemon |-> daemon'[e].release] = [rel EXCEPT ![d] = s.release]
    <2>1. \A e \in Daemon : daemon'[e].release = IF e = d THEN s.release ELSE rel[e]
        BY <1>1
    <2> HIDE DEF rel
    <2>2. [e \in Daemon |-> daemon'[e].release] = [e \in Daemon |-> IF e = d THEN s.release ELSE rel[e]]
        BY <2>1
    <2>3. DOMAIN rel = Daemon
        BY DEF rel
    <2>4. [rel EXCEPT ![d] = s.release] = [e \in Daemon |-> IF e = d THEN s.release ELSE rel[e]]
        BY <2>3
    <2>5. QED
        BY <2>2, <2>4
<1>3. CASE s.pc = "running"
    BY <1>1, <1>2, <1>3
<1>4. CASE s.pc # "running"
    BY <1>1, <1>2, <1>4
<1>5. QED
    BY <1>3, <1>4

(***************************************************************************)
(* A step that keeps the release, the schema and does not end in serving   *)
(* stops the daemon, if it was serving at all.                             *)
(***************************************************************************)
LEMMA StopsAtMost ==
    ASSUME TypeOK, NEW d \in Daemon, NEW s, daemon' = [daemon EXCEPT ![d] = s],
           s.release = daemon[d].release, s.pc # "running", schema' = schema
    PROVE  R!Stop(d)
<1>1. [[e \in Daemon |-> daemon[e].release] EXCEPT ![d] = s.release]
          = [e \in Daemon |-> daemon[e].release]
    OBVIOUS
<1>2. QED
    BY <1>1, OneDaemonMoves DEF R!Stop

(***************************************************************************)
(* Executing a pending file is the abstract migration, if the daemon that  *)
(* does it keeps its release and was not serving.                          *)
(***************************************************************************)
LEMMA ExecuteMigrates ==
    ASSUME ReleasesAppend, TypeOK, MigrationInv,
           NEW d \in Daemon, daemon[d].pc = "apply", NEW f \in Pending(d), Execute(f),
           NEW s, daemon' = [daemon EXCEPT ![d] = s],
           s.release = daemon[d].release, s.pc # "running"
    PROVE  R!Migrate
<1>1. f \in File
    BY ReleaseFiles DEF TypeOK, Pending
<1>2. rows = R!Applied /\ rows' = rows \cup {f}
    BY ExecuteInOrder DEF MigrationInv, RowsAreApplied, R!Applied
<1>3. f \notin rows /\ schema' = Append(schema, f)
    BY DEF Execute, Recordable
<1>4. \A g \in File : g.version < f.version => g \in rows
    <2>1. \A g \in File : g.version < f.version => g \in rows'
        BY <1>2, ExecuteInOrder DEF LowerRecorded
    <2>2. QED
        BY <1>1, <1>2, <2>1, FileTyped
<1>5. /\ [[e \in Daemon |-> daemon[e].release] EXCEPT ![d] = s.release]
             = [e \in Daemon |-> daemon[e].release]
      /\ {e \in Daemon : daemon[e].pc = "running"} \ {d} = {e \in Daemon : daemon[e].pc = "running"}
    OBVIOUS
<1>6. R!File = File
    BY DEF R!File, File
<1>7. QED
    BY <1>1, <1>2, <1>3, <1>4, <1>5, <1>6, OneDaemonMoves DEF R!Migrate

(***************************************************************************)
(* Each step of the daemons is a step of the rollout, or none.             *)
(***************************************************************************)
LEMMA NextRollsOut ==
    ReleasesAppend /\ TypeOK /\ MigrationInv /\ [Next]_vars => [R!Next]_R!vars
<1> SUFFICES ASSUME ReleasesAppend, TypeOK, MigrationInv, [Next]_vars
             PROVE  R!Next \/ UNCHANGED R!vars
    OBVIOUS
<1>0. CASE UNCHANGED vars
    BY <1>0 DEF vars, R!vars
<1> SUFFICES ASSUME NEW d \in Daemon,
                    StartProceeds(d) \/ CommitUnanswered(d) \/ InitFails(d) \/ Crash(d) \/ Upgrade(d)
             PROVE  R!Next
    BY <1>0 DEF Next
<1> DEFINE r == daemon[d].release
<1>a. r \in DOMAIN Release
    BY DEF TypeOK
<1>b. \A q, pc, todo : Migrating(q, pc, todo).pc = pc /\ Migrating(q, pc, todo).release = q
    BY DEF Migrating
<1>c. \A q : Down(q).pc = "down" /\ Down(q).release = q
    BY <1>b DEF Down
<1>1. CASE \E pc \in Pc \ {"running"} : \E todo :
              daemon' = [daemon EXCEPT ![d] = Migrating(r, pc, todo)] /\ schema' = schema
    <2>0. PICK pc \in Pc \ {"running"} : \E todo :
              daemon' = [daemon EXCEPT ![d] = Migrating(r, pc, todo)] /\ schema' = schema
        BY <1>1
    <2>1. PICK todo : daemon' = [daemon EXCEPT ![d] = Migrating(r, pc, todo)] /\ schema' = schema
        BY <2>0
    <2> DEFINE m == Migrating(r, pc, todo)
    <2>2. m.pc # "running" /\ m.release = r
        BY <1>b
    <2> HIDE DEF m
    <2>3. daemon' = [daemon EXCEPT ![d] = m] /\ schema' = schema
        BY <2>1 DEF m
    <2>4. R!Stop(d)
        BY <2>2, <2>3, StopsAtMost
    <2>5. QED
        BY <2>4 DEF R!Next
<1>2. CASE ApplyFile(d)
    <2>1. PICK f \in Pending(d) :
              /\ Execute(f) /\ daemon[d].pc = "apply"
              /\ daemon' = [daemon EXCEPT ![d] = Migrating(r, "apply",
                               {g \in daemon[d].todo : ~ Skipped(g.version, f.version)})]
        BY <1>2 DEF ApplyFile, Becomes
    <2> DEFINE m == Migrating(r, "apply", {g \in daemon[d].todo : ~ Skipped(g.version, f.version)})
    <2>2. m.pc # "running" /\ m.release = r
        BY <1>b
    <2>3. daemon' = [daemon EXCEPT ![d] = m]
        BY <2>1
    <2> HIDE DEF m
    <2>4. R!Migrate
        BY <2>1, <2>2, <2>3, ExecuteMigrates
    <2>5. QED
        BY <2>4 DEF R!Next
<1>3. CASE CommitUnanswered(d)
    <2>1. PICK f \in Pending(d) :
              /\ Execute(f) /\ daemon[d].pc = "apply"
              /\ daemon' = [daemon EXCEPT ![d] = Down(r)]
        BY <1>3 DEF CommitUnanswered, Becomes
    <2>2. R!Migrate
        BY <1>c, <2>1, ExecuteMigrates
    <2>3. QED
        BY <2>2 DEF R!Next
<1>4. CASE ApplyConflicts(d) \/ InitFails(d) \/ Crash(d)
    <2>1. daemon' = [daemon EXCEPT ![d] = Down(r)] /\ schema' = schema
        BY <1>4 DEF ApplyConflicts, InitFails, Crash, Becomes
    <2>2. R!Stop(d)
        BY <1>c, <2>1, StopsAtMost
    <2>3. QED
        BY <2>2 DEF R!Next
<1>5. CASE OpenDirectory(d)
    <2>1. PICK s : /\ daemon' = [daemon EXCEPT ![d] = s] /\ schema' = schema
                   /\ s.pc \in {"load", "configure"} /\ s.release = r
        <3> DEFINE t == IF daemon[d].directory = Len(Directory)
                        THEN [daemon[d] EXCEPT !.pc = "configure"]
                        ELSE Loading(r, daemon[d].directory + 1, Directory[daemon[d].directory + 1],
                                     daemon[d].registry, daemon[d].handles)
        <3>1. daemon' = [daemon EXCEPT ![d] = t] /\ schema' = schema
            BY <1>5 DEF OpenDirectory, Becomes
        <3>2. [daemon[d] EXCEPT !.pc = "configure"].pc = "configure"
              /\ [daemon[d] EXCEPT !.pc = "configure"].release = r
            BY DEF TypeOK
        <3>3. t.pc \in {"load", "configure"} /\ t.release = r
            BY <3>2 DEF Loading
        <3>4. QED
            BY <3>1, <3>3
    <2>2. R!Stop(d)
        BY <2>1, StopsAtMost
    <2>3. QED
        BY <2>2 DEF R!Next
<1>6. CASE LoadFile(d)
    <2>1. PICK l \in daemon[d].libraries :
              daemon' = [daemon EXCEPT ![d] = Loading(r, daemon[d].directory, LeftAfter(d, l),
                                                      Registered(d, l), Opened(d, l))]
        BY <1>6 DEF LoadFile, Becomes
    <2> DEFINE m == Loading(r, daemon[d].directory, LeftAfter(d, l), Registered(d, l), Opened(d, l))
    <2>2. m.pc = "load" /\ m.release = r
        BY DEF Loading
    <2>3. daemon' = [daemon EXCEPT ![d] = m] /\ schema' = schema
        BY <1>6, <2>1 DEF LoadFile
    <2> HIDE DEF m
    <2>4. R!Stop(d)
        BY <2>2, <2>3, StopsAtMost
    <2>5. QED
        BY <2>4 DEF R!Next
<1>7. CASE Configure(d)
    <2>1. /\ daemon[d].pc = "configure" /\ schema' = schema
          /\ daemon' = [daemon EXCEPT ![d] = [daemon[d] EXCEPT !.pc = "running"]]
        BY <1>7 DEF Configure, Becomes
    <2>2. [daemon[d] EXCEPT !.pc = "running"].pc = "running"
          /\ [daemon[d] EXCEPT !.pc = "running"].release = r
        BY DEF TypeOK
    <2>3. Release[r] \subseteq R!Applied
        BY <2>1 DEF MigrationInv, Migrations, RowsAreApplied, R!Applied
    <2>4. [[e \in Daemon |-> daemon[e].release] EXCEPT ![d] = r]
              = [e \in Daemon |-> daemon[e].release]
        OBVIOUS
    <2>5. R!Serve(d)
        BY <2>1, <2>2, <2>3, <2>4, OneDaemonMoves DEF R!Serve
    <2>6. QED
        BY <2>5 DEF R!Next
<1>8. CASE Upgrade(d)
    <2>1. /\ r < Len(Release) /\ schema' = schema
          /\ daemon' = [daemon EXCEPT ![d] = Down(r + 1)]
        BY <1>8 DEF Upgrade
    <2>2. /\ [e \in Daemon |-> daemon'[e].release]
                 = [[e \in Daemon |-> daemon[e].release] EXCEPT ![d] = r + 1]
          /\ {e \in Daemon : daemon'[e].pc = "running"} = {e \in Daemon : daemon[e].pc = "running"} \ {d}
        <3> DEFINE m == Down(r + 1)
        <3>1. m.pc = "down" /\ m.release = r + 1 /\ daemon' = [daemon EXCEPT ![d] = m]
            BY <1>c, <2>1
        <3> HIDE DEF m
        <3>2. QED
            BY <3>1, OneDaemonMoves
    <2>3. [[e \in Daemon |-> daemon[e].release] EXCEPT ![d] = r + 1]
              = [[e \in Daemon |-> daemon[e].release] EXCEPT ![d] = @ + 1]
        OBVIOUS
    <2>4. R!Upgrade(d)
        BY <2>1, <2>2, <2>3 DEF R!Upgrade
    <2>5. QED
        BY <2>4 DEF R!Next
<1>9. Start(d) \/ EnsureTable(d) \/ ReadCurrent(d) \/ Migrated(d) =>
          \E pc \in Pc \ {"running"} : \E todo :
              daemon' = [daemon EXCEPT ![d] = Migrating(r, pc, todo)] /\ schema' = schema
    <2> DEFINE Goes(pc, todo) ==
                   daemon' = [daemon EXCEPT ![d] = Migrating(r, pc, todo)] /\ schema' = schema
    <2>1. Start(d) => Goes("ensure", {})
        BY DEF Start, Becomes
    <2>2. EnsureTable(d) => Goes("current", {})
        BY DEF EnsureTable, Becomes
    <2>3. ReadCurrent(d) => \E todo : Goes("apply", todo)
        BY DEF ReadCurrent, Becomes
    <2>4. Migrated(d) => Goes("load", {})
        BY DEF Migrated, Becomes
    <2>5. {"ensure", "current", "apply", "load"} \subseteq Pc \ {"running"}
        BY DEF Pc
    <2> HIDE DEF Goes
    <2>6. Start(d) \/ EnsureTable(d) \/ ReadCurrent(d) \/ Migrated(d) =>
              \E pc \in Pc \ {"running"} : \E todo : Goes(pc, todo)
        BY <2>1, <2>2, <2>3, <2>4, <2>5
    <2>7. QED
        BY <2>6 DEF Goes
<1>10. QED
    BY <1>1, <1>2, <1>3, <1>4, <1>5, <1>6, <1>7, <1>8, <1>9 DEF StartProceeds

(***************************************************************************)
(* Startup implements the rollout for any number of daemons and releases,  *)
(* with any failures and crashes, provided that releases only append       *)
(* migrations (Application::init, Migrator::migrate).                      *)
(***************************************************************************)
THEOREM StartupImplementsRollout == Spec /\ ReleasesAppend => ImplementsRollout
<1>1. Init => R!Init
    BY DEF Init, R!Init, Down, Migrating
<1>2. ReleasesAppend /\ TypeOK /\ MigrationInv /\ [Next]_vars => [R!Next]_R!vars
    BY NextRollsOut
<1>3. ReleasesAppend => [](ReleasesAppend)
    BY DEF ReleasesAppend
<1>4. QED
    BY <1>1, <1>2, <1>3, StartupTypeCorrect, MigrationsHold, PTL DEF Spec, ImplementsRollout, R!Spec

-----------------------------------------------------------------------------

\* A key that is taken belongs to an open plugin that registers under it.
OpenPlugins(s) ==
    \A k \in Keys : LET p == s.registry[k] IN
        p # NoPlugin => Verdict[p] = "plugin" /\ Key[p] = k /\ p \in s.handles

\* The plugins in ls have their keys taken, whoever has them now.
Taken(s, ls) == \A l \in ls : Verdict[l] = "plugin" => s.registry[Key[l]] # NoPlugin

(***************************************************************************)
(* A daemon that has gone through its first directories, but for the       *)
(* libraries it has still to try, has registered what they offer.          *)
(***************************************************************************)
PluginInv(s) ==
    /\ OpenPlugins(s)
    /\ s.pc = "load" => \A i \in 1 .. s.directory : Taken(s, Directory[i] \ s.libraries)
    /\ s.pc \in {"configure", "running"} => Taken(s, Library)

LEMMA NoPluginYet ==
    ASSUME NEW r, NEW pc, pc \notin {"configure", "running"}, NEW todo
    PROVE  PluginInv(Migrating(r, pc, todo))
<1>1. OpenPlugins(Migrating(r, pc, todo))
    BY DEF OpenPlugins, Migrating, NoPlugins
<1>2. \A i : i \notin 1 .. Migrating(r, pc, todo).directory
    BY DEF Migrating
<1>3. Migrating(r, pc, todo).pc = pc
    BY DEF Migrating
<1>4. QED
    BY <1>1, <1>2, <1>3 DEF PluginInv

LEMMA OpeningADirectory ==
    ASSUME TypeOK, NEW d \in Daemon, PluginInv(daemon[d]), OpenDirectory(d)
    PROVE  PluginInv(daemon'[d])
<1> DEFINE s == daemon[d]
<1>1. /\ s.pc = "load" /\ s.libraries = {} /\ s.directory \in 0 .. Len(Directory)
      /\ daemon'[d] = IF s.directory = Len(Directory) THEN [s EXCEPT !.pc = "configure"]
                      ELSE Loading(s.release, s.directory + 1, Directory[s.directory + 1],
                                   s.registry, s.handles)
    BY DEF OpenDirectory, Becomes, TypeOK
<1>2. \A i \in 1 .. s.directory : Taken(s, Directory[i])
    BY <1>1 DEF PluginInv, Taken
<1>3. CASE s.directory = Len(Directory)
    <2> DEFINE t == [s EXCEPT !.pc = "configure"]
    <2>1. t.pc = "configure" /\ t.registry = s.registry /\ t.handles = s.handles
        BY DEF TypeOK
    <2>2. Taken(t, Library)
        <3>1. DOMAIN Directory = 1 .. Len(Directory)
            BY LibraryAssumption
        <3>2. QED
            BY <1>2, <1>3, <2>1, <3>1 DEF Taken, Library
    <2>3. QED
        BY <1>1, <1>3, <2>1, <2>2 DEF PluginInv, OpenPlugins
<1>4. CASE s.directory # Len(Directory)
    <2> DEFINE t == Loading(s.release, s.directory + 1, Directory[s.directory + 1],
                            s.registry, s.handles)
    <2>1. /\ t.pc = "load" /\ t.registry = s.registry /\ t.handles = s.handles
          /\ t.directory = s.directory + 1 /\ t.libraries = Directory[s.directory + 1]
        BY DEF Loading
    <2>2. ASSUME NEW i \in 1 .. s.directory + 1
          PROVE  Taken(t, Directory[i] \ t.libraries)
        <3>1. i \in 1 .. s.directory \/ i = s.directory + 1
            BY <1>1, DirectoryTyped
        <3>2. QED
            BY <1>2, <2>1, <3>1 DEF Taken
    <2>3. QED
        BY <1>1, <1>4, <2>1, <2>2 DEF PluginInv, OpenPlugins
<1>5. QED
    BY <1>3, <1>4

LEMMA LoadingAFile ==
    ASSUME TypeOK, NEW d \in Daemon, PluginInv(daemon[d]), LoadFile(d)
    PROVE  PluginInv(daemon'[d])
<1> DEFINE s == daemon[d]
           t == daemon'[d]
<1>1. PICK l \in s.libraries :
          t = Loading(s.release, s.directory, LeftAfter(d, l), Registered(d, l), Opened(d, l))
    BY DEF LoadFile, Becomes, TypeOK
<1>2. /\ t.pc = "load" /\ t.directory = s.directory /\ t.libraries = s.libraries \ {l}
      /\ t.registry = IF Verdict[l] = "plugin" THEN [s.registry EXCEPT ![Key[l]] = l]
                      ELSE s.registry
      /\ s.handles \subseteq t.handles /\ (Verdict[l] = "plugin" => l \in t.handles)
    BY <1>1 DEF Loading, LeftAfter, Registered, Opened
<1>3. /\ s.pc = "load" /\ l \in Library /\ l # NoPlugin /\ Key[l] \in Keys
      /\ s.registry \in [Keys -> Library \cup {NoPlugin}]
    BY LibraryAssumption DEF LoadFile, Becomes, TypeOK, Keys
<1>4. \A k \in Keys : t.registry[k] = IF Verdict[l] = "plugin" /\ k = Key[l] THEN l
                                      ELSE s.registry[k]
    BY <1>2, <1>3
<1> HIDE DEF t
<1>5. OpenPlugins(t)
    BY <1>2, <1>4 DEF PluginInv, OpenPlugins
<1>6. ASSUME NEW i \in 1 .. s.directory
      PROVE  Taken(t, Directory[i] \ t.libraries)
    <2>1. Taken(s, Directory[i] \ s.libraries)
        BY <1>3 DEF PluginInv
    <2>2. Directory[i] \subseteq Library
        <3>1. s.directory \in 0 .. Len(Directory)
            BY DEF TypeOK
        <3>2. i \in 1 .. Len(Directory)
            BY <3>1, DirectoryTyped
        <3>3. QED
            BY <3>2, DirectoryTyped
    <2>3. ASSUME NEW m \in Directory[i] \ t.libraries, Verdict[m] = "plugin"
          PROVE  t.registry[Key[m]] # NoPlugin
        <3>1. Key[m] \in Keys
            BY <2>2 DEF Keys
        <3>2. m = l \/ s.registry[Key[m]] # NoPlugin
            BY <1>2, <2>1, <2>3 DEF Taken
        <3>3. QED
            BY <1>3, <1>4, <2>3, <3>1, <3>2
    <2>4. QED
        BY <2>3 DEF Taken
<1>7. QED
    BY <1>2, <1>5, <1>6 DEF PluginInv, t

LEMMA PluginsKept ==
    TypeOK /\ (\A d \in Daemon : PluginInv(daemon[d])) /\ [Next]_vars
        => \A d \in Daemon : PluginInv(daemon'[d])
<1> SUFFICES ASSUME TypeOK, \A d \in Daemon : PluginInv(daemon[d]), [Next]_vars
             PROVE  \A d \in Daemon : PluginInv(daemon'[d])
    OBVIOUS
<1>1. CASE UNCHANGED vars
    BY <1>1 DEF vars
<1>2. ASSUME NEW d \in Daemon,
             StartProceeds(d) \/ CommitUnanswered(d) \/ InitFails(d) \/ Crash(d) \/ Upgrade(d)
      PROVE  \A e \in Daemon : PluginInv(daemon'[e])
    <2>1. \A e \in Daemon : e # d => daemon'[e] = daemon[e]
        BY <1>2 DEF StartProceeds, Start, EnsureTable, ReadCurrent, ApplyFile, ApplyConflicts,
                    Migrated, OpenDirectory, LoadFile, Configure, CommitUnanswered, InitFails,
                    Crash, Upgrade, Becomes, TypeOK
    <2>2. ASSUME ~ OpenDirectory(d), ~ LoadFile(d), ~ Configure(d)
          PROVE  PluginInv(daemon'[d])
        <3>1. \E r, todo : \E pc \in {"down", "ensure", "current", "apply", "load"} :
                  daemon'[d] = Migrating(r, pc, todo)
            BY <1>2, <2>2
               DEF StartProceeds, Start, EnsureTable, ReadCurrent, ApplyFile, ApplyConflicts,
                   Migrated, CommitUnanswered, InitFails, Crash, Upgrade, Becomes, Down, TypeOK
        <3>2. QED
            BY <3>1, NoPluginYet
    <2>3. ASSUME Configure(d)
          PROVE  PluginInv(daemon'[d])
        <3> DEFINE s == daemon[d]
                   t == [s EXCEPT !.pc = "running"]
        <3>1. daemon'[d] = t /\ s.pc = "configure"
            BY <2>3 DEF Configure, Becomes, TypeOK
        <3>2. t.pc = "running" /\ t.registry = s.registry /\ t.handles = s.handles
            BY DEF TypeOK
        <3> HIDE DEF t
        <3>3. QED
            BY <3>1, <3>2 DEF PluginInv, OpenPlugins, Taken
    <2>4. PluginInv(daemon'[d])
        BY <2>2, <2>3, OpeningADirectory, LoadingAFile
    <2>5. QED
        BY <2>1, <2>4
<1>3. QED
    BY <1>1, <1>2 DEF Next

(***************************************************************************)
(* A daemon that listens offers every source and every ecosystem that some *)
(* library in its directories implements, whatever else in there does not  *)
(* load and whichever of two plugins for one key came last                 *)
(* (PluginLoader::loadDirectory, registerPlugin).                          *)
(***************************************************************************)
THEOREM PluginsAreAvailable == Spec => []PluginsAvailable
<1> DEFINE Inv == \A d \in Daemon : PluginInv(daemon[d])
<1>1. Init => Inv
    <2>1. "down" \notin {"configure", "running"}
        OBVIOUS
    <2>2. PluginInv(Migrating(1, "down", {}))
        BY <2>1, NoPluginYet
    <2>3. QED
        BY <2>2 DEF Init, Down
<1>2. TypeOK /\ Inv /\ [Next]_vars => Inv'
    BY PluginsKept
<1>3. Inv => PluginsAvailable
    <2> SUFFICES ASSUME Inv, NEW d \in Daemon, daemon[d].pc = "running",
                        NEW l \in Library, Verdict[l] = "plugin"
                 PROVE  LET p == daemon[d].registry[Key[l]] IN
                        /\ p # NoPlugin /\ p \in daemon[d].handles
                        /\ Verdict[p] = "plugin" /\ Key[p] = Key[l]
        BY DEF PluginsAvailable
    <2>1. Key[l] \in Keys
        BY DEF Keys
    <2>2. PluginInv(daemon[d])
        OBVIOUS
    <2>3. QED
        BY <2>1, <2>2 DEF PluginInv, OpenPlugins, Taken
<1>4. QED
    BY <1>1, <1>2, <1>3, StartupTypeCorrect, PTL DEF Spec
=============================================================================
