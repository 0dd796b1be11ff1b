-------------------------- MODULE Credentials_proofs --------------------------
(***************************************************************************)
(* Credentials keeps its types, and no remote is offered a secret but the  *)
(* one set last, for any secrets, keys, jobs and bounds.                   *)
(***************************************************************************)
EXTENDS Credentials, TLAPS

\* What a statement on its way holds is what its method needs, and the two
\* keys of a pair together.
StatementsWhole ==
    \A s \in issued :
        /\ s.method = "pat" => s.pat \in Blob
        /\ s.method = "ssh_key" => s.priv \in Blob /\ s.pub \in Blob
        /\ s.priv = NoBlob <=> s.pub = NoBlob

\* The two keys of a row are there together.
PairWhole(r) == r # NoBlob => (r.priv = NoBlob <=> r.pub = NoBlob)

\* The row, of whatever settings its secrets are, resolves to the last.
RowMeansLast == Resolved(row) = configured /\ PairWhole(row)

\* A job goes on with what was the last at its SELECT.
JobMeansSeen(x) ==
    /\ PairWhole(x.row)
    /\ x.pc = "resolve" => Resolved(x.row) = x.seen
    /\ x.pc = "connect" => x.creds = x.seen
    /\ x.offer \notin {None, Default} => x.offer = x.seen

JobsMeanSeen == \A j \in Job : JobMeansSeen(job[j])

IInv == TypeOK /\ StatementsWhole /\ RowMeansLast /\ JobsMeanSeen

JobType == [pc : {"idle", "select", "resolve", "connect"}, row : Row \cup {NoBlob},
            creds : Credential, offer : Credential \cup {Default},
            seen : Credential]

-----------------------------------------------------------------------------

\* A row of whole pairs resolves to something a remote can be offered
\* (the switch on the method in CredentialProvider's callbacks).
LEMMA ResolvedType ==
    ASSUME NEW r \in Row \cup {NoBlob}, PairWhole(r)
    PROVE  Resolved(r) \in Credential
<1>1. CASE r = NoBlob
  BY <1>1 DEF Resolved, Credential
<1>2. CASE r # NoBlob
  <2>1. r \in Row
    BY <1>2
  <2>2. /\ r.method \in Methods
        /\ r.pat \in Blob \cup {NoBlob}
        /\ r.priv \in Blob \cup {NoBlob}
        /\ r.pub \in Blob \cup {NoBlob}
    BY <2>1 DEF Row
  <2>3. \A b \in Blob : b.secret \in Secret
    BY DEF Blob
  <2>4. CASE r.method = "ssh_key" /\ r.priv # NoBlob
    <3>1. r.priv.secret \in Secret /\ r.pub.secret \in Secret
      BY <1>2, <2>2, <2>3, <2>4 DEF PairWhole
    <3>2. Resolved(r) = Pair(r.priv.secret, r.pub.secret)
      BY <1>2, <2>4 DEF Resolved
    <3> QED
      BY <3>1, <3>2 DEF Credential
  <2>5. CASE r.method = "ssh_key" /\ r.priv = NoBlob
    <3>1. Resolved(r) = Files
      BY <1>2, <2>5 DEF Resolved
    <3> QED
      BY <3>1 DEF Credential
  <2>6. CASE r.method = "pat" /\ r.pat # NoBlob
    <3>1. Resolved(r) = Pat(r.pat.secret) /\ r.pat.secret \in Secret
      BY <1>2, <2>2, <2>3, <2>6 DEF Resolved
    <3> QED
      BY <3>1 DEF Credential
  <2>7. CASE ~ (r.method = "ssh_key") /\ ~ (r.method = "pat" /\ r.pat # NoBlob)
    <3>1. Resolved(r) = None
      BY <1>2, <2>7 DEF Resolved
    <3> QED
      BY <3>1 DEF Credential
  <2> QED
    BY <2>4, <2>5, <2>6, <2>7
<1> QED
  BY <1>1, <1>2

\* A job just made, or one with a row that means what was set, is in order.
LEMMA SelectedFits ==
    ASSUME NEW pc \in {"idle", "select", "resolve"}, NEW r \in Row \cup {NoBlob},
           NEW c \in Credential, PairWhole(r), pc = "resolve" => Resolved(r) = c
    PROVE  Selected(pc, r, c) \in JobType /\ JobMeansSeen(Selected(pc, r, c))
<1> DEFINE x == Selected(pc, r, c)
<1>1. /\ x.pc = pc /\ x.row = r /\ x.creds = None
      /\ x.offer = None /\ x.seen = c
  BY DEF Selected
<1>2. None \in Credential
  BY DEF Credential
<1>3. x \in JobType
  BY <1>2 DEF Selected, JobType
<1>4. JobMeansSeen(x)
  BY <1>1 DEF JobMeansSeen
<1> QED
  BY <1>3, <1>4

\* A job that connects with what was set, and offers that or nothing of it.
LEMMA ConnectedFits ==
    ASSUME NEW c \in Credential, NEW o \in {None, Default, c}
    PROVE  Connected(c, o, c) \in JobType /\ JobMeansSeen(Connected(c, o, c))
<1> DEFINE x == Connected(c, o, c)
<1>1. /\ x.pc = "connect" /\ x.row = NoBlob /\ x.creds = c
      /\ x.offer = o /\ x.seen = c
  BY DEF Connected
<1>2. None \in Credential
  BY DEF Credential
<1>3. x \in JobType
  BY <1>2 DEF Connected, JobType
<1>4. JobMeansSeen(x)
  BY <1>1 DEF JobMeansSeen, PairWhole
<1> QED
  BY <1>3, <1>4

\* Changing one job keeps all of them in order, if it is in order itself.
LEMMA JobChanges ==
    ASSUME IInv, NEW j \in Job, NEW x, x \in JobType, JobMeansSeen(x),
           job' = [job EXCEPT ![j] = x]
    PROVE  job' \in [Job -> JobType] /\ JobsMeanSeen'
<1>1. job \in [Job -> JobType]
  BY DEF IInv, TypeOK, JobType
<1>2. job' \in [Job -> JobType]
  BY <1>1
<1>3. ASSUME NEW k \in Job
      PROVE  JobMeansSeen(job[k])'
  <2>1. CASE k = j
    <3>1. job'[k] = x
      BY <1>1, <2>1
    <3> QED
      BY <3>1 DEF JobMeansSeen, PairWhole, Resolved
  <2>2. CASE k # j
    <3>1. job'[k] = job[k]
      BY <1>1, <2>2
    <3> QED
      BY <3>1 DEF IInv, JobsMeanSeen, JobMeansSeen
  <2> QED
    BY <2>1, <2>2
<1> QED
  BY <1>2, <1>3 DEF JobsMeanSeen

\* A job that ended is in order.
LEMMA IdleFits == IdleJob \in JobType /\ JobMeansSeen(IdleJob)
<1>1. None \in Credential /\ PairWhole(NoBlob)
  BY DEF Credential, PairWhole
<1> QED
  BY <1>1, SelectedFits DEF IdleJob

\* What arrives of a blob is a blob of the same secret (setCredentials).
LEMMA BoundKeeps ==
    ASSUME NEW b \in Blob \cup {NoBlob}, NEW c \in Bound(b)
    PROVE  /\ c \in Blob \cup {NoBlob}
           /\ b = NoBlob <=> c = NoBlob
           /\ b \in Blob => c \in Blob /\ c.secret = b.secret
<1>1. CASE b = NoBlob
  BY <1>1, NullAssumption DEF Bound
<1>2. CASE b # NoBlob
  <2>1. b \in Blob /\ c \in {b, [b EXCEPT !.whole = FALSE]}
    BY <1>2 DEF Bound
  <2>2. c \in Blob /\ c.secret = b.secret
    BY <2>1 DEF Blob
  <2> QED
    BY <1>2, <2>1, <2>2, NullAssumption
<1> QED
  BY <1>1, <1>2

\* The row after an upsert resolves to what its statement set, whatever
\* the row held before (the three INSERTs of setCredentials).
LEMMA UpsertMeans ==
    ASSUME NEW s, s.method \in Methods,
           s.pat \in Blob \cup {NoBlob}, s.priv \in Blob \cup {NoBlob},
           s.pub \in Blob \cup {NoBlob},
           s.method = "pat" => s.pat \in Blob,
           s.method = "ssh_key" => s.priv \in Blob /\ s.pub \in Blob,
           s.priv = NoBlob <=> s.pub = NoBlob,
           row \in Row \cup {NoBlob}, PairWhole(row)
    PROVE  /\ Upserted(s) \in Row /\ PairWhole(Upserted(s))
           /\ Resolved(Upserted(s)) = Meant(s)
<1> DEFINE r == Upserted(s)
           m == s.method
           pat == s.pat
           priv == s.priv
           pub == s.pub
<1> HIDE DEF r
<1>1. /\ s.method = m /\ s.pat = pat /\ s.priv = priv /\ s.pub = pub
  OBVIOUS
<1>2. row # NoBlob => /\ row \in Row
                      /\ row.pat \in Blob \cup {NoBlob} /\ row.paths \in BOOLEAN
                      /\ row.priv \in Blob \cup {NoBlob} /\ row.pub \in Blob \cup {NoBlob}
                      /\ row.priv = NoBlob <=> row.pub = NoBlob
  BY DEF Row, PairWhole
<1>3. /\ r \in Row
      /\ r.method = m
      /\ m = "pat" => r.pat = pat
      /\ m = "ssh_key" => r.priv = priv /\ r.pub = pub
      /\ r.priv = NoBlob <=> r.pub = NoBlob
  <2>1. CASE row = NoBlob
    <3>1. r = [method |-> m, pat |-> pat, priv |-> priv, pub |-> pub, paths |-> FALSE]
      BY <1>1, <2>1 DEF r, Upserted, Inserted
    <3>2. r \in Row /\ r.method = m /\ r.pat = pat /\ r.priv = priv /\ r.pub = pub
      BY <3>1 DEF Row
    <3> QED
      BY <3>2
  <2>2. CASE row # NoBlob /\ m = "pat"
    <3>1. r = [method |-> "pat", pat |-> pat, priv |-> row.priv, pub |-> row.pub, paths |-> FALSE]
      BY <1>1, <2>2 DEF r, Upserted
    <3>2. /\ r \in Row /\ r.method = m /\ r.pat = pat
          /\ r.priv = row.priv /\ r.pub = row.pub
      BY <1>2, <2>2, <3>1 DEF Row, Methods
    <3> QED
      BY <1>2, <2>2, <3>2
  <2>3. CASE row # NoBlob /\ m = "ssh_key"
    <3>1. r = [method |-> "ssh_key", pat |-> NoBlob, priv |-> priv, pub |-> pub, paths |-> FALSE]
      BY <1>1, <2>3 DEF r, Upserted
    <3>2. r \in Row /\ r.method = m /\ r.priv = priv /\ r.pub = pub
      BY <1>2, <2>3, <3>1 DEF Row, Methods
    <3> QED
      BY <2>3, <3>2
  <2>4. CASE row # NoBlob /\ m = "none"
    <3>1. r = [row EXCEPT !.method = "none"]
      BY <1>1, <2>4 DEF r, Upserted
    <3> QED
      BY <1>2, <2>4, <3>1 DEF Row
  <2> QED
    BY <2>1, <2>2, <2>3, <2>4 DEF Methods
<1>4. r # NoBlob
  BY <1>3, NullAssumption
<1>5. PairWhole(r)
  BY <1>3 DEF PairWhole
<1>6. m = "none" => Resolved(r) = None
  BY <1>3, <1>4 DEF Resolved
<1>7. m = "pat" => Resolved(r) = Pat(pat.secret)
  BY <1>3, <1>4, NullAssumption DEF Resolved
<1>8. m = "ssh_key" => Resolved(r) = Pair(priv.secret, pub.secret)
  BY <1>3, <1>4, NullAssumption DEF Resolved
<1> QED
  BY <1>3, <1>5, <1>6, <1>7, <1>8 DEF r, Methods, Meant

-----------------------------------------------------------------------------

LEMMA InitFits == Init => IInv
<1> SUFFICES ASSUME Init PROVE IInv
  OBVIOUS
<1>1. issued = {} /\ StatementsWhole
  BY DEF Init, StatementsWhole
<1>2. row \in Row \cup {NoBlob} /\ configured \in Credential /\ RowMeansLast
      /\ (row # NoBlob => project = "there") /\ project \in {"new", "there", "removed"}
  <2>1. CASE project = "new" /\ row = NoBlob /\ configured = None
    BY <2>1 DEF Credential, RowMeansLast, Resolved, PairWhole
  <2>2. CASE /\ project = "there" /\ configured = Files
             /\ row = [method |-> "ssh_key", pat |-> NoBlob, priv |-> NoBlob, pub |-> NoBlob,
                       paths |-> TRUE]
    <3>1. row \in Row
      BY <2>2 DEF Row, Methods
    <3>2. row # NoBlob
      BY <3>1, NullAssumption
    <3>3. row.method = "ssh_key" /\ row.priv = NoBlob /\ row.pub = NoBlob
      BY <2>2
    <3>4. Resolved(row) = Files
      BY <3>2, <3>3 DEF Resolved
    <3> QED
      BY <2>2, <3>1, <3>3, <3>4 DEF Credential, RowMeansLast, PairWhole
  <2> QED
    BY <2>1, <2>2 DEF Init
<1>3. job \in [Job -> JobType] /\ JobsMeanSeen
  BY IdleFits DEF Init, JobsMeanSeen
<1>4. TypeOK
  BY <1>1, <1>2, <1>3 DEF TypeOK, Init, JobType
<1> QED
  BY <1>1, <1>2, <1>3, <1>4 DEF IInv

\* The requests that change the project alone.
LEMMA ProjectStepFits == IInv /\ (CreateProject \/ RemoveProject) => IInv'
<1> SUFFICES ASSUME IInv, CreateProject \/ RemoveProject PROVE IInv'
  OBVIOUS
<1>1. CASE CreateProject
  BY <1>1 DEF IInv, CreateProject, boundVars, TypeOK, StatementsWhole, RowMeansLast, PairWhole,
              Resolved, JobsMeanSeen, JobMeansSeen
<1>2. CASE RemoveProject
  <2>1. TypeOK'
    BY <1>2 DEF IInv, RemoveProject, boundVars, TypeOK, Credential
  <2>2. RowMeansLast'
    BY <1>2 DEF RemoveProject, RowMeansLast, Resolved, PairWhole
  <2>3. StatementsWhole' /\ JobsMeanSeen'
    BY <1>2 DEF IInv, RemoveProject, StatementsWhole, JobsMeanSeen, JobMeansSeen, PairWhole, Resolved
  <2> QED
    BY <2>1, <2>2, <2>3 DEF IInv
<1> QED
  BY <1>1, <1>2

\* A request for credentials sends its statement (setCredentials).
LEMMA SetCredentialsFits ==
    ASSUME IInv, NEW m \in Methods, NEW x \in Secret, SetCredentials(m, x)
    PROVE  IInv'
<1> DEFINE s == [id |-> settings + 1, method |-> m,
                 pat  |-> IF m = "pat" THEN Encrypt(x) ELSE NoBlob,
                 priv |-> IF m = "ssh_key" THEN Encrypt(x) ELSE NoBlob,
                 pub  |-> IF m = "ssh_key" THEN Encrypt(x) ELSE NoBlob]
<1>1. Encrypt(x) \in Blob
  BY DEF IInv, TypeOK, Encrypt, Blob
<1>2. s \in Statement
  BY <1>1 DEF IInv, TypeOK, Statement
<1>3. /\ s.method = "pat" => s.pat \in Blob
      /\ s.method = "ssh_key" => s.priv \in Blob /\ s.pub \in Blob
      /\ s.priv = NoBlob <=> s.pub = NoBlob
  BY <1>1, NullAssumption
<1>4. issued' = issued \cup {s} /\ settings' = settings + 1
  BY DEF SetCredentials
<1> HIDE DEF s
<1>5. /\ UNCHANGED << project, row, key, up, job, configured, requests, crashes >>
  BY DEF SetCredentials
<1>6. TypeOK'
  BY <1>2, <1>4, <1>5 DEF IInv, TypeOK
<1>7. StatementsWhole'
  BY <1>3, <1>4 DEF IInv, StatementsWhole
<1>8. RowMeansLast' /\ JobsMeanSeen'
  BY <1>5 DEF IInv, RowMeansLast, JobsMeanSeen, JobMeansSeen, PairWhole, Resolved
<1> QED
  BY <1>6, <1>7, <1>8 DEF IInv

\* The statement sets the row and what it means at once.
LEMMA SettingExecutesFits ==
    ASSUME IInv, NEW s \in issued, SettingExecutes(s)
    PROVE  IInv'
<1>1. /\ s.id \in Nat /\ s.method \in Methods /\ s.pat \in Blob \cup {NoBlob}
      /\ s.priv \in Blob \cup {NoBlob} /\ s.pub \in Blob \cup {NoBlob}
      /\ s.method = "pat" => s.pat \in Blob
      /\ s.method = "ssh_key" => s.priv \in Blob /\ s.pub \in Blob
  <2>1. s \in Statement
    BY DEF IInv, TypeOK
  <2> QED
    BY <2>1 DEF IInv, StatementsWhole, Statement
<1>2. PICK pat \in Bound(s.pat), priv \in Bound(s.priv), pub \in Bound(s.pub) :
          row' = Upserted([id |-> s.id, method |-> s.method, pat |-> pat, priv |-> priv,
                           pub |-> pub])
  BY DEF SettingExecutes
<1>3. /\ pat \in Blob \cup {NoBlob} /\ priv \in Blob \cup {NoBlob} /\ pub \in Blob \cup {NoBlob}
      /\ s.pat \in Blob => pat \in Blob /\ pat.secret = s.pat.secret
      /\ s.priv \in Blob => priv \in Blob /\ priv.secret = s.priv.secret
      /\ s.pub \in Blob => pub \in Blob /\ pub.secret = s.pub.secret
      /\ priv = NoBlob <=> s.priv = NoBlob
      /\ pub = NoBlob <=> s.pub = NoBlob
  BY <1>1, BoundKeeps
<1>4. s.priv = NoBlob <=> s.pub = NoBlob
  BY DEF IInv, StatementsWhole
<1>5. row \in Row \cup {NoBlob} /\ PairWhole(row)
  BY DEF IInv, TypeOK, RowMeansLast
<1>6. row' \in Row /\ PairWhole(row') /\ Resolved(row') = Meant(s)
  <2> DEFINE t == [id |-> s.id, method |-> s.method, pat |-> pat, priv |-> priv, pub |-> pub]
  <2>1. row' = Upserted(t)
    BY <1>2
  <2>2. t.method = s.method /\ t.pat = pat /\ t.priv = priv /\ t.pub = pub
    OBVIOUS
  <2> HIDE DEF t
  <2>3. Upserted(t) \in Row /\ PairWhole(Upserted(t)) /\ Resolved(Upserted(t)) = Meant(t)
    BY <1>1, <1>3, <1>4, <1>5, <2>2, UpsertMeans
  <2>4. Meant(t) = Meant(s)
    BY <1>1, <1>3, <2>2 DEF Meant, Methods
  <2> QED
    BY <2>1, <2>3, <2>4
<1>7. configured' = Meant(s)
  BY DEF SettingExecutes
<1>8. Resolved(row') \in Credential
  BY <1>6, ResolvedType
<1>9. /\ project = "there" /\ issued' \subseteq issued
      /\ UNCHANGED << project, key, up, job, settings, requests, crashes >>
  BY DEF SettingExecutes, boundVars
<1>10. TypeOK'
  BY <1>6, <1>7, <1>8, <1>9 DEF IInv, TypeOK
<1>11. StatementsWhole' /\ JobsMeanSeen'
  BY <1>9 DEF IInv, StatementsWhole, JobsMeanSeen, JobMeansSeen, PairWhole, Resolved
<1>12. RowMeansLast'
  BY <1>6, <1>7 DEF RowMeansLast, PairWhole, Resolved
<1> QED
  BY <1>10, <1>11, <1>12 DEF IInv

\* A statement that is refused leaves everything as it is.
LEMMA SettingRefusedFits ==
    ASSUME IInv, NEW s \in issued, SettingRefused(s)
    PROVE  IInv'
<1>1. /\ issued' \subseteq issued
      /\ UNCHANGED << project, row, key, up, job, configured, settings, requests, crashes >>
  BY DEF SettingRefused, boundVars
<1>2. TypeOK'
  BY <1>1 DEF IInv, TypeOK
<1>3. StatementsWhole' /\ RowMeansLast' /\ JobsMeanSeen'
  BY <1>1 DEF IInv, StatementsWhole, RowMeansLast, JobsMeanSeen, JobMeansSeen, PairWhole, Resolved
<1> QED
  BY <1>2, <1>3 DEF IInv

\* A step that changes one job, to one in order, and nothing else.
LEMMA JobStepFits ==
    ASSUME IInv, NEW j \in Job, NEW x, x \in JobType, JobMeansSeen(x),
           job' = [job EXCEPT ![j] = x],
           UNCHANGED << project, row, key, up, issued, configured, settings, crashes >>,
           requests' \in Nat
    PROVE  IInv'
<1>1. job' \in [Job -> JobType] /\ JobsMeanSeen'
  BY JobChanges
<1>2. TypeOK'
  BY <1>1 DEF IInv, TypeOK, JobType
<1>3. StatementsWhole' /\ RowMeansLast'
  BY DEF IInv, StatementsWhole, RowMeansLast, PairWhole, Resolved
<1> QED
  BY <1>1, <1>2, <1>3 DEF IInv

\* The job's own steps but the one that ends the process.
LEMMA JobFits ==
    ASSUME IInv, NEW j \in Job,
           \/ JobRequest(j) \/ SelectProject(j) \/ SelectFails(j) \/ Resolve(j)
           \/ CredentialCallback(j) \/ ConnectionEnds(j)
    PROVE  IInv'
<1>1. /\ job[j] \in JobType /\ JobMeansSeen(job[j])
      /\ row \in Row \cup {NoBlob} /\ configured \in Credential /\ RowMeansLast
      /\ requests \in Nat
  BY DEF IInv, TypeOK, JobsMeanSeen, JobType
<1>2. None \in Credential /\ PairWhole(NoBlob)
  BY DEF Credential, PairWhole
<1>3. CASE JobRequest(j)
  <2>1. Selected("select", NoBlob, None) \in JobType /\ JobMeansSeen(Selected("select", NoBlob, None))
    BY <1>2, SelectedFits
  <2>2. job' = [job EXCEPT ![j] = Selected("select", NoBlob, None)] /\ requests' \in Nat
    BY <1>1, <1>3 DEF JobRequest
  <2>3. UNCHANGED << project, row, key, up, issued, configured, settings, crashes >>
    BY <1>3 DEF JobRequest
  <2> QED
    BY <2>1, <2>2, <2>3, JobStepFits
<1>4. CASE SelectProject(j)
  <2>1. CASE project = "there"
    <3>1. /\ Selected("resolve", row, configured) \in JobType
          /\ JobMeansSeen(Selected("resolve", row, configured))
      BY <1>1, SelectedFits DEF RowMeansLast
    <3>2. job' = [job EXCEPT ![j] = Selected("resolve", row, configured)]
      BY <1>4, <2>1 DEF SelectProject
    <3>3. UNCHANGED << project, row, key, up, issued, configured, settings, crashes, requests >>
      BY <1>4 DEF SelectProject, boundVars
    <3> QED
      BY <1>1, <3>1, <3>2, <3>3, JobStepFits
  <2>2. CASE project # "there"
    <3>1. job' = [job EXCEPT ![j] = IdleJob]
      BY <1>4, <2>2 DEF SelectProject
    <3>2. UNCHANGED << project, row, key, up, issued, configured, settings, crashes, requests >>
      BY <1>4 DEF SelectProject, boundVars
    <3> QED
      BY <1>1, <3>1, <3>2, IdleFits, JobStepFits
  <2> QED
    BY <2>1, <2>2
<1>5. CASE Resolve(j)
  <2> DEFINE c == job[j].seen
  <2>1. /\ job[j].pc = "resolve" /\ c \in Credential /\ Resolved(job[j].row) = c
    BY <1>1, <1>5 DEF Resolve, JobMeansSeen, JobType
  <2>2. job' = [job EXCEPT ![j] = Connected(c, None, c)]
    BY <1>5, <2>1 DEF Resolve
  <2>3. UNCHANGED << project, row, key, up, issued, configured, settings, crashes, requests >>
    BY <1>5 DEF Resolve, boundVars
  <2> HIDE DEF c
  <2>4. Connected(c, None, c) \in JobType /\ JobMeansSeen(Connected(c, None, c))
    BY <2>1, ConnectedFits
  <2> QED
    BY <1>1, <2>2, <2>3, <2>4, JobStepFits
<1>6. CASE CredentialCallback(j)
  <2> DEFINE c == job[j].seen
  <2>1. PICK allowed \in Allowed :
            LET o == Offered(job[j].creds, allowed) IN
            job' = [job EXCEPT ![j] =
                  IF o = None THEN IdleJob
                  ELSE Connected(job[j].creds, o, job[j].seen)]
    BY <1>6 DEF CredentialCallback
  <2>2. job[j].creds = c /\ c \in Credential
    BY <1>1, <1>6 DEF CredentialCallback, JobMeansSeen, JobType
  <2> DEFINE o == Offered(c, allowed)
  <2>3. o \in {None, Default, c}
    BY DEF Offered
  <2>4. job' = [job EXCEPT ![j] = IF o = None THEN IdleJob ELSE Connected(c, o, c)]
    BY <2>1, <2>2
  <2>5. UNCHANGED << project, row, key, up, issued, configured, settings, crashes, requests >>
    BY <1>6 DEF CredentialCallback, boundVars
  <2> HIDE DEF c, o
  <2>6. Connected(c, o, c) \in JobType /\ JobMeansSeen(Connected(c, o, c))
    BY <2>2, <2>3, ConnectedFits
  <2>7. CASE o = None
    <3>1. job' = [job EXCEPT ![j] = IdleJob]
      BY <2>4, <2>7
    <3> QED
      BY <1>1, <2>5, <3>1, IdleFits, JobStepFits
  <2>8. CASE o # None
    <3>1. job' = [job EXCEPT ![j] = Connected(c, o, c)]
      BY <2>4, <2>8
    <3> QED
      BY <1>1, <2>5, <2>6, <3>1, JobStepFits
  <2> QED
    BY <2>7, <2>8
<1>7. CASE ConnectionEnds(j)
  <2>1. job' = [job EXCEPT ![j] = IdleJob]
    BY <1>7 DEF ConnectionEnds
  <2>2. UNCHANGED << project, row, key, up, issued, configured, settings, crashes, requests >>
    BY <1>7 DEF ConnectionEnds, boundVars
  <2> QED
    BY <1>1, <2>1, <2>2, IdleFits, JobStepFits
<1>8. CASE SelectFails(j)
  <2>1. job' = [job EXCEPT ![j] = IdleJob]
    BY <1>8 DEF SelectFails
  <2>2. UNCHANGED << project, row, key, up, issued, configured, settings, crashes, requests >>
    BY <1>8 DEF SelectFails, boundVars
  <2> QED
    BY <1>1, <2>1, <2>2, IdleFits, JobStepFits
<1> QED
  BY <1>3, <1>4, <1>5, <1>6, <1>7, <1>8

\* The process ends, or begins again without its jobs and statements.
LEMMA ProcessFits ==
    ASSUME IInv, Crash \/ Restart \/ \E j \in Job : ResolveThrows(j)
    PROVE  IInv'
<1>1. CASE Crash \/ \E j \in Job : ResolveThrows(j)
  <2>1. /\ up' = FALSE
        /\ UNCHANGED << project, row, key, issued, job, configured, settings, requests >>
    BY <1>1 DEF Crash, ResolveThrows, boundVars
  <2>2. crashes' \in Nat
    BY <1>1 DEF Crash, ResolveThrows, boundVars, IInv, TypeOK
  <2>3. TypeOK'
    BY <2>1, <2>2 DEF IInv, TypeOK
  <2>4. StatementsWhole' /\ RowMeansLast' /\ JobsMeanSeen'
    BY <2>1 DEF IInv, StatementsWhole, RowMeansLast, JobsMeanSeen, JobMeansSeen, PairWhole, Resolved
  <2> QED
    BY <2>3, <2>4 DEF IInv
<1>2. CASE Restart
  <2>1. /\ up' = TRUE /\ key' \in SecretKey /\ issued' = {}
        /\ job' = [j \in Job |-> IdleJob]
        /\ UNCHANGED << project, row, configured, settings, requests, crashes >>
    BY <1>2 DEF Restart, boundVars
  <2>2. job' \in [Job -> JobType]
    BY <2>1, IdleFits
  <2>3. TypeOK'
    BY <2>1, <2>2 DEF IInv, TypeOK, JobType
  <2>4. StatementsWhole' /\ RowMeansLast'
    BY <2>1 DEF IInv, StatementsWhole, RowMeansLast, PairWhole, Resolved
  <2>5. JobsMeanSeen'
    <3>1. ASSUME NEW j \in Job PROVE JobMeansSeen(job[j])'
      <4>1. job'[j] = IdleJob
        BY <2>1
      <4> QED
        BY <4>1, IdleFits DEF JobMeansSeen, PairWhole, Resolved
    <3> QED
      BY <3>1 DEF JobsMeanSeen
  <2> QED
    BY <2>3, <2>4, <2>5 DEF IInv
<1> QED
  BY <1>1, <1>2

LEMMA NextFits == IInv /\ [Next]_vars => IInv'
<1> SUFFICES ASSUME IInv, [Next]_vars PROVE IInv'
  OBVIOUS
<1>1. CASE CreateProject \/ RemoveProject
  BY <1>1, ProjectStepFits
<1>2. CASE \E m \in Methods, s \in Secret : SetCredentials(m, s)
  BY <1>2, SetCredentialsFits
<1>3. CASE StatementEnds
  BY <1>3, SettingExecutesFits, SettingRefusedFits DEF StatementEnds
<1>4. CASE \E j \in Job : JobRequest(j) \/ JobProceeds(j)
  BY <1>4, JobFits, ProcessFits DEF JobProceeds, JobAlone
<1>5. CASE Crash \/ Restart
  BY <1>5, ProcessFits
<1>6. CASE UNCHANGED vars
  BY <1>6 DEF vars, boundVars, IInv, TypeOK, StatementsWhole, RowMeansLast, JobsMeanSeen,
              JobMeansSeen, PairWhole, Resolved
<1> QED
  BY <1>1, <1>2, <1>3, <1>4, <1>5, <1>6 DEF Next

LEMMA InvariantHolds == Spec => []IInv
<1> QED
  BY InitFits, NextFits, PTL DEF Spec

-----------------------------------------------------------------------------

(***************************************************************************)
(* The credentials of a project, the statements on their way and the jobs  *)
(* are of their types, and a project that is gone has no credentials       *)
(* (the cascade of project_credentials), for any constants.                *)
(***************************************************************************)
THEOREM CredentialsTypeCorrect == Spec => []TypeOK
<1>1. IInv => TypeOK
  BY DEF IInv
<1> QED
  BY <1>1, InvariantHolds, PTL

(***************************************************************************)
(* However settings, syncs, tests, removals and deaths of the process      *)
(* interleave, and whatever secrets of earlier methods a row still has, a  *)
(* remote is offered what was set last before the SELECT of the job        *)
(* (ProjectController::setCredentials, CredentialProvider).                *)
(***************************************************************************)
THEOREM OffersLastSet == Spec => []OffersWhatWasSet
<1>1. IInv => OffersWhatWasSet
  BY DEF IInv, JobsMeanSeen, JobMeansSeen, OffersWhatWasSet
<1> QED
  BY <1>1, InvariantHolds, PTL
=============================================================================
