------------------------------- MODULE GitSync -------------------------------
(***************************************************************************)
(* ProjectController::sync and the GitRepository under it, for one project *)
(* (each has a directory and version rows of its own).  A sync is one      *)
(* DbLoop thread; nothing keeps two syncs, or a sync and an analysis, from *)
(* using the directory at once.  The statements a sync issues run on the   *)
(* connections of the pool, in any order, after the sync has ended; one    *)
(* that fails is logged at most and never repeated.                        *)
(*                                                                         *)
(* The n-th commit of a branch or tag is the number n, 0 where the ref     *)
(* does not exist.  What libgit2 does to the directory is modelled from    *)
(* the calls: git_clone makes one local branch, that of the remote's HEAD, *)
(* git_remote_fetch moves the remote-tracking branches and adds the tags   *)
(* the directory does not have, and neither deletes a ref.                 *)
(***************************************************************************)
EXTENDS Naturals, FiniteSets

CONSTANTS
    Branch,      \* branches of the remote
    Tag,         \* its tags; a tag may have the name of a branch
    Default,     \* the branch its HEAD names
    SyncJob,     \* the syncs requested
    MaxPushes,   \* bounds of the pushes to one branch,
    MaxChecks,   \* of the analyses,
    MaxMishaps,  \* and, together, of the version rows deleted by request, the
                 \* crashes of the process and the names whose upserts fail
    NoRow        \* no such row, no checkout under way

ASSUME DefaultAssumption == Default \in Branch

VARIABLES
    remoteHeads, \* the remote's branches
    remoteTags,  \* and tags
    directory,   \* "absent", "partial" (.git is there, its clone unfinished), "cloned"
    heads,       \* refs/heads of the directory
    tracking,    \* refs/remotes/origin
    tags,        \* refs/tags
    rows,        \* project_versions by ref_name
    synced,      \* projects.last_synced_at is set
    issued,      \* the upserts issued and not executed yet
    stamping,    \* the syncs whose UPDATE of last_synced_at is
    sjob,        \* what each sync is at
    checkedOut,  \* the commit an analysis has checked out
    checks, removals, crashes,
    lost         \* the names an upsert of which failed

remoteVars == << remoteHeads, remoteTags >>
repoVars   == << directory, heads, tracking, tags >>
tableVars  == << rows, synced >>
queueVars  == << issued, stamping >>
boundVars  == << checks, removals, crashes, lost >>
vars == << remoteVars, repoVars, tableVars, queueVars, sjob, checkedOut, boundVars >>

Name == Branch \cup Tag
Kind == {"branch", "tag"}

\* A row keeps the ref_type of its first upsert; of says whose commit it has.
Row    == [type : Kind, of : Kind, commit : Nat]
Upsert == [sync : SyncJob, name : Name, of : Kind, commit : Nat]

ASSUME NullAssumption == NoRow \notin Row

NoBranches == [b \in Branch |-> 0]
NoTags     == [t \in Tag |-> 0]

Init ==
    /\ remoteHeads = [b \in Branch |-> IF b = Default THEN 1 ELSE 0]
    /\ remoteTags = NoTags
    /\ directory = "absent"
    /\ heads = NoBranches /\ tracking = NoBranches /\ tags = NoTags
    /\ rows = [n \in Name |-> NoRow] /\ synced = FALSE
    /\ issued = {} /\ stamping = {}
    /\ sjob = [j \in SyncJob |-> "ready"] /\ checkedOut = NoRow
    /\ checks = 0 /\ removals = 0 /\ crashes = 0 /\ lost = {}

TypeOK ==
    /\ remoteHeads \in [Branch -> Nat] /\ remoteTags \in [Tag -> Nat]
    /\ directory \in {"absent", "partial", "cloned"}
    /\ heads \in [Branch -> Nat] /\ tracking \in [Branch -> Nat] /\ tags \in [Tag -> Nat]
    /\ rows \in [Name -> Row \cup {NoRow}] /\ synced \in BOOLEAN
    /\ issued \subseteq Upsert /\ stamping \subseteq SyncJob
    /\ sjob \in [SyncJob -> {"ready", "open", "clone", "cloning", "fetch", "list", "done"}]
    /\ checkedOut \in [name : Name, of : Kind, commit : Nat] \cup {NoRow}
    /\ checks \in Nat /\ removals \in Nat /\ crashes \in Nat /\ lost \subseteq Name

-----------------------------------------------------------------------------

\* Developers push to a branch, and tag.
Push(b) ==
    /\ remoteHeads[b] < MaxPushes
    /\ remoteHeads' = [remoteHeads EXCEPT ![b] = @ + 1]
    /\ UNCHANGED << remoteTags, repoVars, tableVars, queueVars, sjob, checkedOut, boundVars >>

PushTag(t) ==
    /\ remoteTags[t] = 0
    /\ remoteTags' = [remoteTags EXCEPT ![t] = 1]
    /\ UNCHANGED << remoteHeads, repoVars, tableVars, queueVars, sjob, checkedOut, boundVars >>

\* Sync j goes from one point of the code to another.
Goes(j, from, to) ==
    /\ sjob[j] = from
    /\ sjob' = [sjob EXCEPT ![j] = to]
    /\ UNCHANGED << remoteVars, tableVars, checkedOut, boundVars >>

\* The handler: the project's row is there, the job starts.
SyncRequest(j) ==
    /\ Goes(j, "ready", "open")
    /\ UNCHANGED << repoVars, queueVars >>

\* cloneOrFetch: is there a .git?
CloneOrFetch(j) ==
    /\ Goes(j, "open", IF directory = "absent" THEN "clone" ELSE "fetch")
    /\ UNCHANGED << repoVars, queueVars >>

\* doClone: git_clone makes the .git; it refuses a directory that has files.
CloneBegins(j) ==
    /\ directory = "absent"
    /\ Goes(j, "clone", "cloning")
    /\ directory' = "partial"
    /\ UNCHANGED << heads, tracking, tags, queueVars >>

CloneRefused(j) ==
    /\ directory # "absent"
    /\ Goes(j, "clone", "done")
    /\ UNCHANGED << repoVars, queueVars >>

\* The tags after a download; those that are there stay as they are.
TagsFetched == [t \in Tag |-> IF tags[t] # 0 THEN tags[t] ELSE remoteTags[t]]

CloneFinishes(j) ==
    /\ Goes(j, "cloning", "list")
    /\ directory' = "cloned"
    /\ heads' = [heads EXCEPT ![Default] = remoteHeads[Default]]
    /\ tracking' = remoteHeads
    /\ tags' = TagsFetched
    /\ UNCHANGED queueVars

\* git_clone that fails removes what it made.
CloneFails(j) ==
    /\ Goes(j, "cloning", "done")
    /\ directory' = "absent"
    /\ heads' = NoBranches /\ tracking' = NoBranches /\ tags' = NoTags
    /\ UNCHANGED queueVars

\* A slip: the fetch moves the local branches.
HeadsFetchedMoved == [b \in Branch |-> remoteHeads[b]]

\* The local branches after doFetch: "refs/heads/*:refs/remotes/origin/*".
HeadsFetched == heads

\* doFetch; in a directory whose clone is unfinished it may work as well.
Fetch(j) ==
    /\ directory # "absent"
    /\ Goes(j, "fetch", "list")
    /\ heads' = HeadsFetched
    /\ tracking' = remoteHeads
    /\ tags' = TagsFetched
    /\ UNCHANGED << directory, queueVars >>

FetchFails(j) ==
    /\ Goes(j, "fetch", "done")
    /\ UNCHANGED << repoVars, queueVars >>

\* A slip: the remote-tracking branches are listed.
ListedTracking ==
    {<< b, "remote", tracking[b] >> : b \in {x \in Branch : tracking[x] # 0}} \cup
    {<< t, "tag", tags[t] >> : t \in {x \in Tag : tags[x] # 0}}

\* A slip: the tags are not.
ListedBranches == {<< b, "branch", heads[b] >> : b \in {x \in Branch : heads[x] # 0}}

\* listRefs: local branches, then tags, with the commit each resolves to.
Listed ==
    {<< b, "branch", heads[b] >> : b \in {x \in Branch : heads[x] # 0}} \cup
    {<< t, "tag", tags[t] >> : t \in {x \in Tag : tags[x] # 0}}

\* An upsert for each ref, and last_synced_at, issued without waiting.
ListRefs(j) ==
    /\ Goes(j, "list", "done")
    /\ issued' = issued \cup
           {[sync |-> j, name |-> x[1], of |-> x[2], commit |-> x[3]] : x \in Listed}
    /\ stamping' = stamping \cup {j}
    /\ UNCHANGED repoVars

\* INSERT ... ON CONFLICT(project_id, ref_name) DO UPDATE SET commit_hash.
ExecUpsert(u) ==
    /\ u \in issued
    /\ issued' = issued \ {u}
    /\ rows' = [rows EXCEPT ![u.name] =
           [type |-> IF rows[u.name] = NoRow THEN u.of ELSE rows[u.name].type,
            of |-> u.of, commit |-> u.commit]]
    /\ UNCHANGED << remoteVars, repoVars, synced, stamping, sjob, checkedOut, boundVars >>

Mishaps == removals + crashes + Cardinality(lost)

\* The error callback of the upsert only logs; the table stays as it is.
UpsertFails(u) ==
    /\ u \in issued
    /\ u.name \in lost \/ Mishaps < MaxMishaps
    /\ issued' = issued \ {u}
    /\ lost' = lost \cup {u.name}
    /\ UNCHANGED << remoteVars, repoVars, tableVars, stamping, sjob, checkedOut, checks, removals, crashes >>

\* The UPDATE of last_synced_at, done or failed in silence.
ExecStamp(j) ==
    /\ j \in stamping
    /\ stamping' = stamping \ {j}
    /\ synced' \in {synced, TRUE}
    /\ UNCHANGED << remoteVars, repoVars, rows, issued, sjob, checkedOut, boundVars >>

\* git_revparse_single looks for a tag of the name before a local branch.
ResolvedTag(n) == n \in Tag /\ tags[n] # 0
Resolvable(n)  == ResolvedTag(n) \/ (n \in Branch /\ heads[n] # 0)

\* checkout for an analysis of row n.
Checkout(n) ==
    /\ checks < MaxChecks /\ checkedOut = NoRow /\ rows[n] # NoRow
    /\ directory # "absent" /\ Resolvable(n)
    /\ checks' = checks + 1
    /\ checkedOut' = IF ResolvedTag(n)
                     THEN [name |-> n, of |-> "tag", commit |-> tags[n]]
                     ELSE [name |-> n, of |-> "branch", commit |-> heads[n]]
    /\ UNCHANGED << remoteVars, repoVars, tableVars, queueVars, sjob, removals, crashes, lost >>

\* storeDependencies sets the commit_hash of the row.
StoreCommit ==
    /\ checkedOut # NoRow
    /\ rows' = [rows EXCEPT ![checkedOut.name] =
           [type |-> rows[checkedOut.name].type, of |-> checkedOut.of,
            commit |-> checkedOut.commit]]
    /\ checkedOut' = NoRow
    /\ UNCHANGED << remoteVars, repoVars, synced, queueVars, sjob, boundVars >>

\* VersionController::remove; an analysis of the row then finds no row to
\* store into, not even when a sync inserts the name again.
RemoveVersion(n) ==
    /\ Mishaps < MaxMishaps /\ rows[n] # NoRow
    /\ removals' = removals + 1
    /\ rows' = [rows EXCEPT ![n] = NoRow]
    /\ checkedOut' = IF checkedOut # NoRow /\ checkedOut.name = n THEN NoRow ELSE checkedOut
    /\ UNCHANGED << remoteVars, repoVars, synced, queueVars, sjob, checks, crashes, lost >>

\* The process dies and is started again; the directory stays as it is.
Crash ==
    /\ Mishaps < MaxMishaps
    /\ crashes' = crashes + 1
    /\ sjob' = [j \in SyncJob |-> IF sjob[j] = "ready" THEN "ready" ELSE "done"]
    /\ issued' = {} /\ stamping' = {} /\ checkedOut' = NoRow
    /\ UNCHANGED << remoteVars, repoVars, tableVars, checks, removals, lost >>

SyncProceeds(j) ==
    \/ CloneOrFetch(j)
    \/ CloneBegins(j) \/ CloneRefused(j) \/ CloneFinishes(j) \/ CloneFails(j)
    \/ Fetch(j) \/ FetchFails(j)
    \/ ListRefs(j)

\* The steps of a sync in which nothing is asked of the remote.
SyncAlone(j) == CloneOrFetch(j) \/ CloneRefused(j) \/ ListRefs(j)

\* A clone or a fetch under way holds the thread it runs on.
Held == \E j \in SyncJob : sjob[j] \in {"clone", "cloning", "fetch"}

DatabaseProceeds ==
    \/ \E u \in issued : ExecUpsert(u) \/ UpsertFails(u)
    \/ \E j \in stamping : ExecStamp(j)

Next ==
    \/ \E b \in Branch : Push(b)
    \/ \E t \in Tag : PushTag(t)
    \/ \E j \in SyncJob : SyncRequest(j) \/ SyncProceeds(j)
    \/ DatabaseProceeds
    \/ \E n \in Name : Checkout(n) \/ RemoveVersion(n)
    \/ StoreCommit
    \/ Crash

(***************************************************************************)
(* Fairness: the thread of a sync takes the steps that are its own, and    *)
(* the database executes what it was sent while no remote holds a thread,  *)
(* as it may be the one the statement waits for.  The remote is owed       *)
(* nothing: GitRepository sets no timeout, so a fetch may stall for ever.  *)
(***************************************************************************)
Spec ==
    /\ Init /\ [][Next]_vars
    /\ \A j \in SyncJob : WF_vars(SyncAlone(j))
    /\ WF_vars(~ Held /\ DatabaseProceeds)

-----------------------------------------------------------------------------

(***************************************************************************)
(* The commit of a row never goes back, whichever sync's upsert comes last *)
(* and whatever an analysis stores that checked its commit out before      *)
(* (ProjectController::sync, AnalysisService::storeDependencies); a row    *)
(* that changes between a branch and a tag of its name apart.              *)
(***************************************************************************)
CommitNeverGoesBack ==
    [][\A n \in Name :
         /\ rows[n] # NoRow /\ rows'[n] # NoRow
         /\ rows[n].of = rows'[n].of
         => rows[n].commit <= rows'[n].commit]_vars

(***************************************************************************)
(* Seen from the table, whatever syncs, analyses and crashes interleave,   *)
(* each statement records one ref of the remote, with a commit it has or   *)
(* had and not an earlier one than before; the type of a row is that of    *)
(* its first upsert (ProjectController::sync, storeDependencies).          *)
(***************************************************************************)
V == INSTANCE VersionTable

ImplementsVersionTable == V!Spec

(***************************************************************************)
(* Every row of a cloned project names a ref that an analysis can check    *)
(* out, even a row of a sync that listed the directory while another sync  *)
(* was still cloning it (GitRepository::listRefs, checkout).               *)
(***************************************************************************)
VersionsResolvable ==
    directory = "cloned" => \A n \in Name : rows[n] # NoRow => Resolvable(n)

(***************************************************************************)
(* A tag that is in the directory when a sync lists it gets its version    *)
(* row, whatever else syncs do and whichever upserts of other refs fail,   *)
(* if no request deletes rows, the process lives and no remote holds a     *)
(* thread for ever; only its own upsert's failure leaves it without one    *)
(* (ProjectController::sync).                                              *)
(***************************************************************************)
ListedTagGetsRow ==
    []<>(~ Held) =>
    \A t \in Tag :
        tags[t] # 0 /\ (\E j \in SyncJob : sjob[j] = "list")
            ~> rows[t] # NoRow \/ t \in lost \/ removals > 0 \/ crashes > 0 \/ directory # "cloned"

(***************************************************************************)
(* After a sync there is a row for each branch of the remote the directory *)
(* tracks, if no upsert failed, no request deleted rows and the process    *)
(* did not die.                                                            *)
(***************************************************************************)
TrackedBranchesHaveRows ==
    /\ synced /\ issued = {} /\ lost = {} /\ removals = 0 /\ crashes = 0
    /\ \A j \in SyncJob : sjob[j] \in {"ready", "done"}
    => \A b \in Branch : tracking[b] # 0 => rows[b] # NoRow
=============================================================================
