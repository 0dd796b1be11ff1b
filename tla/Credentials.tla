----------------------------- MODULE Credentials -----------------------------
(***************************************************************************)
(* The Git credentials of a project: ProjectController's handlers that     *)
(* write them, CredentialProvider's encryption, and what a sync or a       *)
(* connection test does with them, from its SELECT to libgit2's callback.  *)
(* One project, since each has a row of its own.                           *)
(*                                                                         *)
(* encrypt gives bytes with any value, and they are bound to columns of    *)
(* type TEXT.  What arrives is the driver's doing: all of them, those      *)
(* before the first zero byte, or an error where they are not UTF-8.       *)
(* decrypt throws on anything but what encrypt gave under the same key,    *)
(* in a callback where nobody catches, and the process terminates.         *)
(***************************************************************************)
EXTENDS Naturals

CONSTANTS
    Secret,      \* a token, or the content of a pair of key files
    SecretKey,   \* values of BLUEDUCK_SECRET_KEY
    Job,         \* the syncs and connection tests under way at once
    MaxSettings, \* bounds on the credentials requests,
    MaxRequests, \* the syncs and tests,
    MaxRestarts, \* and the deaths of the process of itself
    NoBlob       \* NULL, no row

VARIABLES
    project,    \* "new", "there", or "removed": its id is never used again
    row,        \* its row of project_credentials
    key,        \* CredentialProvider::key_
    up,
    issued,     \* the statements of setCredentials not executed yet
    job,        \* the local variables of each sync and test
    configured, \* history: what the last statement that took effect set
    settings, requests, crashes

boundVars == << settings, requests, crashes >>
vars == << project, row, key, up, issued, job, configured, boundVars >>

Methods == {"none", "pat", "ssh_key"}

Blob == [secret : Secret, key : SecretKey, whole : BOOLEAN]

\* paths: the row names key files on the server, as rows did before the
\* migration that added the key columns; no handler writes them.
Row == [method : Methods, pat : Blob \cup {NoBlob}, priv : Blob \cup {NoBlob},
        pub : Blob \cup {NoBlob}, paths : BOOLEAN]

\* NULL is no value of the columns and no row.
ASSUME NullAssumption == NoBlob \notin Blob \cup Row

Statement == [id : Nat, method : Methods, pat : Blob \cup {NoBlob},
              priv : Blob \cup {NoBlob}, pub : Blob \cup {NoBlob}]

\* A secret in use: a token, the two keys of a pair, key files, or none.
None  == [kind |-> "none"]
Files == [kind |-> "paths"]
Pat(s)    == [kind |-> "pat", secret |-> s]
Pair(s, t) == [kind |-> "ssh_key", priv |-> s, pub |-> t]
Default   == [kind |-> "default"]

Credential == {None, Files} \cup {Pat(s) : s \in Secret} \cup {Pair(s, t) : s \in Secret, t \in Secret}

\* A job that holds the row r, one that connects with credentials c.
Selected(pc, r, c) ==
    [pc |-> pc, row |-> r, creds |-> None, offer |-> None, seen |-> c]
Connected(c, o, seen) ==
    [pc |-> "connect", row |-> NoBlob, creds |-> c, offer |-> o, seen |-> seen]

IdleJob == Selected("idle", NoBlob, None)

TypeOK ==
    /\ project \in {"new", "there", "removed"}
    /\ row \in Row \cup {NoBlob}
    /\ row # NoBlob => project = "there"
    /\ key \in SecretKey /\ up \in BOOLEAN
    /\ issued \subseteq Statement
    /\ job \in [Job -> [pc : {"idle", "select", "resolve", "connect"}, row : Row \cup {NoBlob},
                        creds : Credential, offer : Credential \cup {Default},
                        seen : Credential]]
    /\ configured \in Credential
    /\ settings \in Nat /\ requests \in Nat /\ crashes \in Nat

\* The project is new, or has been there since before the key columns.
Init ==
    /\ \/ project = "new" /\ row = NoBlob /\ configured = None
       \/ /\ project = "there"
          /\ row = [method |-> "ssh_key", pat |-> NoBlob, priv |-> NoBlob, pub |-> NoBlob,
                    paths |-> TRUE]
          /\ configured = Files
    /\ key \in SecretKey /\ up = TRUE
    /\ issued = {} /\ job = [j \in Job |-> IdleJob]
    /\ settings = 0 /\ requests = 0 /\ crashes = 0

-----------------------------------------------------------------------------

\* create: the INSERT; a project has no credentials at first.
CreateProject ==
    /\ up /\ project = "new"
    /\ project' = "there"
    /\ UNCHANGED << row, key, up, issued, job, configured, boundVars >>

\* A slip: no cascade.
RemoveProjectAlone ==
    /\ up /\ project = "there"
    /\ project' = "removed" /\ configured' = None
    /\ UNCHANGED << row, key, up, issued, job, boundVars >>

\* remove: the DELETE, and the cascade to the credentials.
RemoveProject ==
    /\ up /\ project = "there"
    /\ project' = "removed" /\ row' = NoBlob /\ configured' = None
    /\ UNCHANGED << key, up, issued, job, boundVars >>

Encrypt(s) == [secret |-> s, key |-> key, whole |-> TRUE]

\* setCredentials with a body it accepts: the statement is on its way.
SetCredentials(method, s) ==
    /\ up /\ settings < MaxSettings
    /\ settings' = settings + 1
    /\ issued' = issued \cup
          {[id |-> settings + 1, method |-> method,
            pat  |-> IF method = "pat" THEN Encrypt(s) ELSE NoBlob,
            priv |-> IF method = "ssh_key" THEN Encrypt(s) ELSE NoBlob,
            pub  |-> IF method = "ssh_key" THEN Encrypt(s) ELSE NoBlob]}
    /\ UNCHANGED << project, row, key, up, job, configured, requests, crashes >>

\* What may arrive of a blob that is bound to a TEXT column.
Bound(b) == IF b = NoBlob THEN {NoBlob} ELSE {b, [b EXCEPT !.whole = FALSE]}

Inserted(s) ==
    [method |-> s.method, pat |-> s.pat, priv |-> s.priv, pub |-> s.pub, paths |-> FALSE]

\* A slip: 'none' leaves a row that is there alone.
UpsertedNoneIgnored(s) ==
    IF row # NoBlob /\ s.method = "none" THEN row ELSE Inserted(s)

\* The row after INSERT ... ON CONFLICT (project_id) DO UPDATE: 'pat' keeps
\* the keys, and 'none' every secret.
Upserted(s) ==
    IF row = NoBlob THEN Inserted(s)
    ELSE CASE s.method = "pat" ->
                  [method |-> "pat", pat |-> s.pat, priv |-> row.priv, pub |-> row.pub,
                   paths |-> FALSE]
           [] s.method = "ssh_key" ->
                  [method |-> "ssh_key", pat |-> NoBlob, priv |-> s.priv, pub |-> s.pub,
                   paths |-> FALSE]
           [] s.method = "none" -> [row EXCEPT !.method = "none"]

\* What a request to set s asks for.
Meant(s) ==
    CASE s.method = "none" -> None
      [] s.method = "pat" -> Pat(s.pat.secret)
      [] s.method = "ssh_key" -> Pair(s.priv.secret, s.pub.secret)

SettingExecutes(s) ==
    /\ up /\ s \in issued /\ project = "there"
    /\ issued' = issued \ {s}
    /\ \E pat \in Bound(s.pat), priv \in Bound(s.priv), pub \in Bound(s.pub) :
          row' = Upserted([id |-> s.id, method |-> s.method, pat |-> pat, priv |-> priv,
                           pub |-> pub])
    /\ configured' = Meant(s)
    /\ UNCHANGED << project, key, up, job, boundVars >>

\* dbError: the foreign key has no project, or the bytes are no text.
SettingRefused(s) ==
    /\ up /\ s \in issued
    /\ project # "there" \/ s.method # "none"
    /\ issued' = issued \ {s}
    /\ UNCHANGED << project, row, key, up, job, configured, boundVars >>

-----------------------------------------------------------------------------

\* sync or testConnection arrives.
JobRequest(j) ==
    /\ up /\ requests < MaxRequests /\ job[j].pc = "idle"
    /\ requests' = requests + 1
    /\ job' = [job EXCEPT ![j] = Selected("select", NoBlob, None)]
    /\ UNCHANGED << project, row, key, up, issued, configured, settings, crashes >>

\* The SELECT: 404 without the project; LEFT JOIN with its credentials.
SelectProject(j) ==
    /\ up /\ job[j].pc = "select"
    /\ job' = [job EXCEPT ![j] =
          IF project = "there" THEN Selected("resolve", row, configured) ELSE IdleJob]
    /\ UNCHANGED << project, row, key, up, issued, configured, boundVars >>

\* dbError: the SELECT fails.
SelectFails(j) ==
    /\ up /\ job[j].pc = "select"
    /\ job' = [job EXCEPT ![j] = IdleJob]
    /\ UNCHANGED << project, row, key, up, issued, configured, boundVars >>

\* The blobs the callback decrypts for a row.
Needed(r) ==
    IF r = NoBlob THEN {}
    ELSE (CASE r.method = "ssh_key" -> {r.priv, r.pub}
            [] r.method = "pat" -> {r.pat}
            [] r.method = "none" -> {}) \ {NoBlob}

\* decrypt returns rather than throws.
Decrypts(b) == b.whole /\ b.key = key

\* The credentials a row resolves to: keys before key files, and none
\* unless there is something of the row's method.
Resolved(r) ==
    CASE r # NoBlob /\ r.method = "ssh_key" ->
             IF r.priv # NoBlob THEN Pair(r.priv.secret, r.pub.secret) ELSE Files
      [] r # NoBlob /\ r.method = "pat" /\ r.pat # NoBlob -> Pat(r.pat.secret)
      [] OTHER -> None

Resolve(j) ==
    /\ up /\ job[j].pc = "resolve"
    /\ \A b \in Needed(job[j].row) : Decrypts(b)
    /\ job' = [job EXCEPT ![j] = Connected(Resolved(job[j].row), None, job[j].seen)]
    /\ UNCHANGED << project, row, key, up, issued, configured, boundVars >>

\* A slip: the request is put back to be tried again.
ResolveThrowsRetried(j) ==
    /\ up /\ job[j].pc = "resolve"
    /\ \E b \in Needed(job[j].row) : ~ Decrypts(b)
    /\ job' = [job EXCEPT ![j].pc = "select"]
    /\ UNCHANGED << project, row, key, up, issued, configured, boundVars >>

ResolveThrows(j) ==
    /\ up /\ job[j].pc = "resolve"
    /\ \E b \in Needed(job[j].row) : ~ Decrypts(b)
    /\ up' = FALSE
    /\ UNCHANGED << project, row, key, issued, job, configured, boundVars >>

\* The kinds of credential a remote may allow.
Allowed == {{"ssh_key"}, {"userpass"}, {"userpass", "default"}}

\* credentialCallback's answer; None stands for GIT_EAUTH.
Offered(creds, allowed) ==
    CASE creds.kind \in {"ssh_key", "paths"} /\ "ssh_key" \in allowed -> creds
      [] creds.kind = "pat" /\ "userpass" \in allowed -> creds
      [] OTHER -> IF "default" \in allowed THEN Default ELSE None

\* The remote asks, as often as it likes: nothing counts the attempts, and
\* the same credential is offered again.  A refused callback ends them.
CredentialCallback(j) ==
    /\ up /\ job[j].pc = "connect"
    /\ \E allowed \in Allowed :
          LET o == Offered(job[j].creds, allowed) IN
          job' = [job EXCEPT ![j] =
                IF o = None THEN IdleJob
                ELSE Connected(job[j].creds, o, job[j].seen)]
    /\ UNCHANGED << project, row, key, up, issued, configured, boundVars >>

\* The remote lets it in, or gives up; the job goes on to its end.
ConnectionEnds(j) ==
    /\ up /\ job[j].pc = "connect"
    /\ job' = [job EXCEPT ![j] = IdleJob]
    /\ UNCHANGED << project, row, key, up, issued, configured, boundVars >>

Crash ==
    /\ up /\ crashes < MaxRestarts
    /\ up' = FALSE /\ crashes' = crashes + 1
    /\ UNCHANGED << project, row, key, issued, job, configured, settings, requests >>

\* loadKeyFromEnv in the next process; an operator may have changed the key.
Restart ==
    /\ ~ up
    /\ up' = TRUE /\ key' \in SecretKey
    /\ issued' = {} /\ job' = [j \in Job |-> IdleJob]
    /\ UNCHANGED << project, row, configured, boundVars >>

\* The steps of a job in which the remote has no part.
JobAlone(j) == SelectProject(j) \/ SelectFails(j) \/ Resolve(j) \/ ResolveThrows(j)

JobProceeds(j) == JobAlone(j) \/ CredentialCallback(j) \/ ConnectionEnds(j)

\* A connection under way holds the thread it runs on.
Held == \E j \in Job : job[j].pc = "connect"

StatementEnds == \E s \in issued : SettingExecutes(s) \/ SettingRefused(s)

Next ==
    \/ CreateProject \/ RemoveProject
    \/ \E m \in Methods, s \in Secret : SetCredentials(m, s)
    \/ StatementEnds
    \/ \E j \in Job : JobRequest(j) \/ JobProceeds(j)
    \/ Crash \/ Restart

(***************************************************************************)
(* Fairness: while no connection holds a thread, that of a job runs on and *)
(* the database executes what it was sent; the container starts the        *)
(* process again.  The remote is owed nothing: no call of libgit2 here has *)
(* a timeout, so a remote that stalls or asks for ever holds its thread.   *)
(***************************************************************************)
Spec ==
    /\ Init /\ [][Next]_vars
    /\ \A j \in Job : WF_vars(~ Held /\ JobAlone(j))
    /\ WF_vars(~ Held /\ StatementEnds)
    /\ WF_vars(Restart)

-----------------------------------------------------------------------------

(***************************************************************************)
(* Whatever secrets of earlier settings the row keeps, and whatever        *)
(* settings race with the job, a remote is given only what the last        *)
(* setting before the job's SELECT asked for, both keys of it from one     *)
(* request (ProjectController::setCredentials and sync).                   *)
(***************************************************************************)
OffersWhatWasSet ==
    \A j \in Job : job[j].offer \notin {None, Default} => job[j].offer = job[j].seen

(***************************************************************************)
(* If no remote holds a job for ever, each sync and each connection test   *)
(* ends: with its answer, or with the process, which then comes back,      *)
(* whatever the row holds by then (ProjectController::sync, testConnection).*)
(***************************************************************************)
RequestsEnd ==
    []<>(~ Held) => \A j \in Job : job[j].pc # "idle" ~> up /\ job[j].pc = "idle"
=============================================================================
