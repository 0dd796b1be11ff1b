---------------------------- MODULE CveSync_proofs ----------------------------
(***************************************************************************)
(* Theorems about CVE syncs, for any number of them at once, any feeds and *)
(* any page size.                                                          *)
(***************************************************************************)
EXTENDS CveSync, FiniteSetTheorems, FunctionTheorems, TLAPS

SyncRecord ==
    [pc : SyncPc, source : Source \cup {NoRow}, began : Nat, start : Nat, more : BOOLEAN,
     offered : SUBSET File, file : File \cup {NoRow}, todo : SUBSET Record,
     record : Record \cup {NoRow}, added : Nat, failed : Nat, skipped : SUBSET Record,
     complete : BOOLEAN, success : BOOLEAN]

\* The record a sync has taken from its page and not counted yet.
InHand(s) == IF s.pc = "ranges" THEN 1 ELSE 0

Imported(r, sev) == sev[r.cve] # NotImported

(***************************************************************************)
(* What an NVD sync without a failure has done when pub records are        *)
(* published: it has counted every record below the start of its next page *)
(* that it does not still hold, and imported it; and if it is not to ask   *)
(* for another page, it has reached all there were when it began.          *)
(***************************************************************************)
NvdSoFar(s, pub, sev) ==
    /\ s.start <= pub
    /\ IsFiniteSet(s.todo)
    /\ s.added + Cardinality(s.todo) + InHand(s) = s.start
    /\ \A i \in 1 .. s.start : NvdRecord[i] \in s.todo \/ Imported(NvdRecord[i], sev)
    /\ s.pc # "get" /\ ~ s.more => s.began <= s.start

(***************************************************************************)
(* What a CVE.org sync has done with its archive: every record is counted, *)
(* passed over, in its hand or still to do, and what it is past without a  *)
(* failure is imported.                                                    *)
(***************************************************************************)
ArchiveSoFar(s, sev) ==
    /\ IsFiniteSet(s.todo) /\ IsFiniteSet(s.skipped)
    /\ s.todo \cap s.skipped = {}
    /\ s.added + s.failed + Cardinality(s.todo) + InHand(s) + Cardinality(s.skipped) =
          Cardinality(Documents(s.file))
    /\ s.failed = 0 =>
          \A r \in Documents(s.file) : r \in s.todo \/ r \in s.skipped \/ Imported(r, sev)

(***************************************************************************)
(* The records at hand are of different CVEs, none of which the NVD has    *)
(* another record of further on.                                           *)
(***************************************************************************)
Apart(s) ==
    \A r \in s.todo :
        /\ \A q \in s.todo : q.cve = r.cve => q = r
        /\ s.source = "nvd" => \A i \in s.start + 1 .. Len(NvdRecord) : NvdRecord[i].cve # r.cve

\* Each kind of sync passes through its own states, and starts from nothing.
Course(s) ==
    /\ Apart(s)
    /\ s.pc \in {"ready", "discover", "download", "open"} =>
         s.added = 0 /\ s.failed = 0 /\ s.todo = {} /\ s.skipped = {} /\ ~ s.more
    /\ s.pc = "ready" => s.start = 0
    /\ s.pc \in {"discover", "download", "open"} => s.source = "cveorg"
    /\ s.pc = "get" => s.source = "nvd" /\ s.todo = {}
    /\ s.pc \in {"records", "ranges"} => s.source \in Source /\ (s.more => s.source = "nvd")
    /\ s.pc \in {"open", "records", "ranges"} /\ s.source = "cveorg" =>
         s.file \in File

Reading == {"get", "records", "ranges"}

Result(s, sev) ==
    /\ s.source = "nvd" /\ s.success /\ s.failed = 0 =>
         /\ \A i \in 1 .. s.added : Imported(NvdRecord[i], sev)
         /\ s.added <= Len(NvdRecord)
         /\ s.complete => s.added >= s.began
    /\ s.source = "cveorg" /\ s.complete => s.file \in File /\ s.todo = {} /\ ArchiveSoFar(s, sev)

SyncFits(s, pub, sev) ==
    /\ Course(s)
    /\ s.began <= pub
    /\ s.pc \in Reading /\ s.source = "nvd" /\ s.failed = 0 => NvdSoFar(s, pub, sev)
    /\ s.pc \in Reading /\ s.source = "cveorg" => ArchiveSoFar(s, sev)
    /\ s.pc = "done" => Result(s, sev)

SyncInv == \A w \in Writer : SyncFits(csync[w], published, severity)

(***************************************************************************)
(* The CVEs whose record sync s may still upsert, and the rows it may still*)
(* insert.  Neither grows again, and an insert takes its row off.          *)
(***************************************************************************)
Coming(s) ==
    IF s.pc \in {"ready", "discover", "download", "open"} THEN Cve
    ELSE {r.cve : r \in s.todo} \cup
         (IF s.pc # "done" /\ s.source = "nvd"
          THEN {NvdRecord[i].cve : i \in s.start + 1 .. Len(NvdRecord)} ELSE {})

Ahead(s, wr, row) ==
    \/ row.cve \in Coming(s)
    \/ row.cve = wr.cve /\ row.range \in wr.todo

\* The syncs that are past a row: each has inserted it once at most.
Past(row) == {w \in Writer : csync[w].pc # "ready" /\ ~ Ahead(csync[w], writing[w], row)}

RowsInv ==
    /\ \A w \in Writer : writing[w].todo # {} => writing[w].cve \notin Coming(csync[w])
    /\ \A row \in AffectedRow : affected[row] <= Cardinality(Past(row))

IInv == TypeOK /\ SyncInv

\* From s to t a sync takes on nothing it was past.
Advances(s, t) ==
    /\ Coming(t) \subseteq Coming(s)
    /\ t.pc = "ready" => s.pc = "ready"

SyncsAdvance == \A w \in Writer : Advances(csync[w], csync'[w])

-----------------------------------------------------------------------------

Severities == [Cve -> Severity \cup {NotImported}]

\* No record of sev is gone in later.
NoneGone(sev, later) == \A c \in Cve : sev[c] # NotImported => later[c] # NotImported

\* What a severity tells apart: an imported record's is never NotImported.
LEMMA ImportedSeverity == NotImported \notin Severity
BY DEF NotImported, Severity, Counted

\* The records of the NVD are records.
LEMMA PublishedRecord ==
    ASSUME NEW pub \in 0 .. Len(NvdRecord), NEW i \in 1 .. pub
    PROVE  NvdRecord[i] \in Record /\ NvdRecord[i].cve \in Cve
<1>1. i \in 1 .. Len(NvdRecord)
    BY FeedAssumption
<1>2. NvdRecord[i] \in Record
    BY <1>1, FeedAssumption
<1>3. QED
    BY <1>2 DEF Record

(***************************************************************************)
(* A page: as many distinct records as the NVD says it returns.            *)
(***************************************************************************)
LEMMA PageIsInterval ==
    ASSUME NEW s \in Nat, NEW pub \in Nat
    PROVE  LET I == {k \in s + 1 .. s + PageSize : k <= pub}
               n == Cardinality(I)
           IN  /\ IsFiniteSet(I)
               /\ n \in Nat
               /\ s <= pub => s + n <= pub /\ I = s + 1 .. s + n
               /\ s + n >= pub \/ n = PageSize
<1> DEFINE I == {k \in s + 1 .. s + PageSize : k <= pub}
           m == IF pub < s + PageSize THEN pub ELSE s + PageSize
<1>1. m \in Nat /\ PageSize \in Nat /\ PageSize > 0
    BY FeedAssumption
<1>2. I = s + 1 .. m
    BY <1>1
<1>3. IsFiniteSet(I) /\ Cardinality(I) = IF s + 1 > m THEN 0 ELSE m - (s + 1) + 1
    <2>1. s + 1 \in Int /\ m \in Int
        BY <1>1
    <2> HIDE DEF m, I
    <2>2. IsFiniteSet(s + 1 .. m)
             /\ Cardinality(s + 1 .. m) = IF s + 1 > m THEN 0 ELSE m - (s + 1) + 1
        BY <2>1, FS_Interval
    <2>3. QED
        BY <1>2, <2>2
<1>4. Cardinality(I) \in Nat
    BY <1>1, <1>3
<1>5. s <= pub => s + Cardinality(I) = m
    BY <1>1, <1>3
<1>6. s + Cardinality(I) >= pub \/ Cardinality(I) = PageSize
    BY <1>1, <1>3
<1>7. m <= pub
    BY <1>1
<1> HIDE DEF I, m
<1>8. QED
    BY <1>2, <1>3, <1>4, <1>5, <1>6, <1>7 DEF I

LEMMA PageCounts ==
    ASSUME NEW s \in Nat, published \in 0 .. Len(NvdRecord)
    PROVE  /\ Page(s) \subseteq Record
           /\ IsFiniteSet(Page(s))
           /\ Returned(s) \in Nat
           /\ Cardinality(Page(s)) = Returned(s)
           /\ s <= published =>
                 /\ NextStart(s) <= published
                 /\ \A i \in s + 1 .. NextStart(s) : NvdRecord[i] \in Page(s)
<1> DEFINE I == {k \in s + 1 .. s + PageSize : k <= published}
           F == [k \in I |-> NvdRecord[k]]
<1>1. published \in Nat /\ PageSize \in Nat
    BY FeedAssumption
<1>2. \A k \in I : k \in 1 .. published /\ k \in DOMAIN NvdRecord
    BY <1>1, FeedAssumption
<1>3. Page(s) \subseteq Record
    BY <1>2, PublishedRecord DEF Page
<1>4. F \in [I -> Page(s)] /\ \A t \in Page(s) : \E k \in I : F[k] = t
    BY DEF Page
<1>5. \A i, k \in I : F[i] = F[k] => i = k
    BY <1>2, DistinctAssumption
<1>6. F \in Bijection(I, Page(s))
    <2> HIDE DEF F, I
    <2> QED
        BY <1>4, <1>5, Fun_IsBij
<1>7. IsFiniteSet(I) /\ Cardinality(I) \in Nat /\ Returned(s) = Cardinality(I)
    BY <1>1, PageIsInterval DEF Returned
<1>8. IsFiniteSet(Page(s)) /\ Cardinality(Page(s)) = Cardinality(I)
    <2> HIDE DEF F, I
    <2>1. ExistsBijection(I, Page(s))
        BY <1>6, Fun_ExistsBij
    <2> QED
        BY <2>1, <1>7, FS_Bijection
<1>9. ASSUME s <= published
      PROVE  /\ NextStart(s) <= published
             /\ \A i \in s + 1 .. NextStart(s) : NvdRecord[i] \in Page(s)
    <2>1. s + Cardinality(I) <= published /\ I = s + 1 .. s + Cardinality(I)
        BY <1>1, <1>9, PageIsInterval
    <2>2. QED
        BY <1>7, <2>1 DEF NextStart, Page
<1>10. QED
    BY <1>3, <1>7, <1>8, <1>9

(***************************************************************************)
(* The records of an archive are finitely many, of different CVEs, and     *)
(* each is either reached or too deep.                                     *)
(***************************************************************************)
LEMMA DocumentsAre ==
    ASSUME NEW f \in File
    PROVE  /\ Documents(f) \subseteq Record /\ IsFiniteSet(Documents(f))
           /\ \A q, r \in Documents(f) : q.cve = r.cve => q = r
           /\ Documents(f) = Entries(f) \cup TooDeep(f)
           /\ Entries(f) \cap TooDeep(f) = {}
<1> DEFINE S == Archive[f]
           F == [e \in S |-> e.record]
<1>1. /\ S \subseteq Entry /\ IsFiniteSet(S)
      /\ \A d, e \in S : d.record.cve = e.record.cve => d = e
    BY FeedAssumption, DistinctAssumption
<1>2. \A e \in S : e.record \in Record /\ e.depth \in Nat
    BY <1>1 DEF Entry
<1>3. Documents(f) \subseteq Record
    BY <1>2 DEF Documents
<1>4. F \in [S -> Documents(f)] /\ \A t \in Documents(f) : \E e \in S : F[e] = t
    BY DEF Documents
<1>5. F \in Surjection(S, Documents(f))
    <2> HIDE DEF F, S
    <2> QED
        BY <1>4, Fun_IsSurj
<1>6. IsFiniteSet(Documents(f))
    BY <1>1, <1>5, FS_Surjection
<1>7. \A q, r \in Documents(f) : q.cve = r.cve => q = r
    BY <1>1 DEF Documents
<1>8. Documents(f) = Entries(f) \cup TooDeep(f)
    BY <1>2 DEF Documents, Entries, TooDeep
<1>9. ASSUME NEW r \in Entries(f), r \in TooDeep(f) PROVE FALSE
    <2>1. PICK d \in S : d.depth <= 4 /\ d.record = r
        BY DEF Entries
    <2>2. PICK e \in S : e.depth > 4 /\ e.record = r
        BY <1>9 DEF TooDeep
    <2>3. d = e
        BY <1>1, <2>1, <2>2
    <2>4. d.depth \in Nat
        BY <1>2
    <2>5. QED
        BY <2>1, <2>2, <2>3, <2>4
<1>10. QED
    BY <1>3, <1>6, <1>7, <1>8, <1>9

-----------------------------------------------------------------------------

(***************************************************************************)
(* What other syncs and the NVD do leaves a sync fitting: the NVD grows,   *)
(* and no record is taken out of cve_records again.                        *)
(***************************************************************************)
LEMMA StillFits ==
    ASSUME NEW s \in SyncRecord,
           NEW pub \in 0 .. Len(NvdRecord), NEW pub2 \in 0 .. Len(NvdRecord), pub <= pub2,
           NEW sev \in Severities, NEW sev2 \in Severities, NoneGone(sev, sev2),
           SyncFits(s, pub, sev)
    PROVE  SyncFits(s, pub2, sev2)
<1>0. pub \in Nat /\ pub2 \in Nat /\ s.start \in Nat /\ s.began \in Nat /\ s.began <= pub
    BY FeedAssumption DEF SyncRecord, SyncFits
<1>1. ASSUME NEW i \in 1 .. pub, Imported(NvdRecord[i], sev)
      PROVE  Imported(NvdRecord[i], sev2)
    BY <1>1, PublishedRecord DEF Imported, NoneGone
<1>2. NvdSoFar(s, pub, sev) => NvdSoFar(s, pub2, sev2)
    <2>1. SUFFICES ASSUME NvdSoFar(s, pub, sev) PROVE NvdSoFar(s, pub2, sev2)
        OBVIOUS
    <2>2. s.start <= pub2
        BY <1>0, <2>1 DEF NvdSoFar
    <2>3. \A i \in 1 .. s.start : NvdRecord[i] \in s.todo \/ Imported(NvdRecord[i], sev2)
        BY <1>0, <1>1, <2>1 DEF NvdSoFar
    <2>4. QED
        BY <2>1, <2>2, <2>3 DEF NvdSoFar
<1>3. ArchiveSoFar(s, sev) /\ s.file \in File => ArchiveSoFar(s, sev2)
    <2>1. SUFFICES ASSUME ArchiveSoFar(s, sev), s.file \in File PROVE ArchiveSoFar(s, sev2)
        OBVIOUS
    <2>2. \A r \in Documents(s.file) : Imported(r, sev) => Imported(r, sev2)
        BY <2>1, DocumentsAre DEF Imported, NoneGone, Record
    <2>3. QED
        BY <2>1, <2>2 DEF ArchiveSoFar
<1>4. Result(s, sev) => Result(s, sev2)
    <2>1. ASSUME NEW i \in 1 .. s.added, s.added <= Len(NvdRecord), Imported(NvdRecord[i], sev)
          PROVE  Imported(NvdRecord[i], sev2)
        <3>1. s.added \in Nat /\ Len(NvdRecord) \in Nat
            BY FeedAssumption DEF SyncRecord
        <3>2. Len(NvdRecord) \in 0 .. Len(NvdRecord) /\ i \in 1 .. Len(NvdRecord)
            BY <2>1, <3>1
        <3>3. NvdRecord[i].cve \in Cve
            BY <3>2, PublishedRecord
        <3>4. QED
            BY <2>1, <3>3 DEF Imported, NoneGone
    <2>2. QED
        BY <1>3, <2>1 DEF Result
<1>5. s.pc \in Reading /\ s.source = "cveorg" => s.file \in File
    BY DEF SyncFits, Course, Reading
<1>6. s.began <= pub2
    BY <1>0
<1>7. QED
    BY <1>2, <1>3, <1>4, <1>5, <1>6 DEF SyncFits

(***************************************************************************)
(* A sync that gets on with the records it has, or comes to an end, takes  *)
(* on no others.                                                           *)
(***************************************************************************)
LEMMA GetsOn ==
    ASSUME NEW s \in SyncRecord, NEW t \in SyncRecord, Apart(s),
           t.todo \subseteq s.todo, t.source = s.source, t.start = s.start,
           s.pc \in Reading, t.pc \in Reading
    PROVE  Apart(t) /\ Advances(s, t)
<1>1. Apart(t)
    BY DEF Apart
<1>2. Coming(t) \subseteq Coming(s)
    BY DEF Coming, Reading
<1>3. QED
    BY <1>1, <1>2 DEF Advances, Reading

\* Before a sync has its first page or archive every record may come.
LEMMA SetsOut ==
    ASSUME NEW s \in SyncRecord, NEW t \in SyncRecord,
           s.pc \in {"ready", "discover", "download", "open"}, t.pc # "ready"
    PROVE  Advances(s, t)
<1>1. Len(NvdRecord) \in Nat /\ Len(NvdRecord) \in 0 .. Len(NvdRecord)
    BY FeedAssumption
<1>2. \A i \in t.start + 1 .. Len(NvdRecord) : NvdRecord[i].cve \in Cve
    BY <1>1, PublishedRecord DEF SyncRecord
<1>3. \A r \in t.todo : r.cve \in Cve
    BY DEF SyncRecord, Record
<1>4. QED
    BY <1>2, <1>3 DEF Advances, Coming

(***************************************************************************)
(* A sync that ended: its result is what its counters say.                 *)
(***************************************************************************)
LEMMA EndedIs ==
    ASSUME NEW s \in SyncRecord, NEW b \in BOOLEAN
    PROVE  LET t == Ended(s, b)
           IN  /\ t \in SyncRecord
               /\ t.pc = "done" /\ t.source = s.source /\ t.began = s.began /\ t.file = s.file
               /\ t.added = s.added /\ t.failed = s.failed /\ t.skipped = s.skipped
               /\ t.complete = s.complete /\ t.success = b /\ t.todo = {}
               /\ Advances(s, t)
<1> DEFINE t == Ended(s, b)
<1>1. Unstarted \in SyncRecord
    BY DEF Unstarted, SyncRecord, SyncPc
<1>2. /\ t \in SyncRecord
      /\ t.pc = "done" /\ t.source = s.source /\ t.began = s.began /\ t.file = s.file
      /\ t.added = s.added /\ t.failed = s.failed /\ t.skipped = s.skipped
      /\ t.complete = s.complete /\ t.success = b /\ t.todo = {}
    <2>1. Unstarted.todo = {}
        BY DEF Unstarted
    <2>2. QED
        BY <1>1, <2>1 DEF Ended, SyncRecord, SyncPc
<1> HIDE DEF t
<1>3. Advances(s, t)
    BY <1>2 DEF Advances, Coming
<1>4. QED
    BY <1>2, <1>3 DEF t

LEMMA EndedFits ==
    ASSUME NEW s \in SyncRecord, NEW b \in BOOLEAN, NEW pub, NEW sev,
           s.began <= pub, Result(Ended(s, b), sev)
    PROVE  /\ Ended(s, b) \in SyncRecord /\ SyncFits(Ended(s, b), pub, sev)
           /\ Advances(s, Ended(s, b))
<1> DEFINE t == Ended(s, b)
<1>1. /\ t \in SyncRecord /\ Advances(s, t)
      /\ t.pc = "done" /\ t.began = s.began /\ t.todo = {}
    BY EndedIs
<1> HIDE DEF t
<1>2. Course(t)
    BY <1>1 DEF Course, Apart
<1>3. QED
    BY <1>1, <1>2 DEF SyncFits, Reading, t

LEMMA GivenUpFits ==
    ASSUME NEW s \in SyncRecord, NEW pub, NEW sev, s.began <= pub
    PROVE  /\ GivenUp(s) \in SyncRecord /\ SyncFits(GivenUp(s), pub, sev)
           /\ Advances(s, GivenUp(s))
<1> DEFINE u == [s EXCEPT !.complete = FALSE]
<1>1. /\ u \in SyncRecord /\ u.began = s.began /\ ~ u.complete
      /\ u.pc = s.pc /\ u.source = s.source /\ u.start = s.start /\ u.todo = s.todo
    BY DEF SyncRecord
<1> HIDE DEF u
<1>2. GivenUp(s) = Ended(u, FALSE)
    BY DEF GivenUp, u
<1>3. ~ GivenUp(s).complete /\ ~ GivenUp(s).success
    BY <1>1, <1>2, EndedIs
<1>4. Result(GivenUp(s), sev)
    BY <1>3 DEF Result
<1>5. GivenUp(s) \in SyncRecord /\ SyncFits(GivenUp(s), pub, sev) /\ Advances(u, GivenUp(s))
    BY <1>1, <1>2, <1>4, EndedFits
<1>6. Coming(u) = Coming(s)
    BY <1>1 DEF Coming
<1>7. QED
    BY <1>1, <1>5, <1>6 DEF Advances

(***************************************************************************)
(* A request: the sync starts from nothing.                                *)
(***************************************************************************)
LEMMA RequestFits ==
    ASSUME NEW s \in SyncRecord, NEW pub \in Nat, NEW sev, SyncFits(s, pub, sev),
           s.pc = "ready", NEW source \in Source
    PROVE  LET t == [s EXCEPT !.pc = IF source = "nvd" THEN "get" ELSE "discover",
                              !.source = source, !.began = pub]
           IN  t \in SyncRecord /\ SyncFits(t, pub, sev) /\ Advances(s, t)
<1> DEFINE p == IF source = "nvd" THEN "get" ELSE "discover"
           t == [s EXCEPT !.pc = p, !.source = source, !.began = pub]
<1>0. p \in SyncPc /\ p \in {"get", "discover"} /\ (p = "get" <=> source = "nvd")
    BY DEF SyncPc
<1>1. /\ t \in SyncRecord
      /\ t.pc = p /\ t.source = source /\ t.began = pub /\ t.start = s.start
      /\ t.more = s.more /\ t.todo = s.todo /\ t.added = s.added /\ t.failed = s.failed
      /\ t.skipped = s.skipped
    <2> HIDE DEF p
    <2>1. QED
        BY <1>0 DEF SyncRecord
<1>2. /\ s.added = 0 /\ s.failed = 0 /\ s.todo = {} /\ s.skipped = {} /\ ~ s.more
      /\ s.start = 0
    BY DEF SyncFits, Course
<1> HIDE DEF t, p
<1>3. SyncFits(t, pub, sev)
    <2>0. Apart(t)
        BY <1>1, <1>2 DEF Apart
    <2>1. Course(t)
        BY <1>0, <1>1, <1>2, <2>0 DEF Course, Source
    <2>2. t.pc = "get" => NvdSoFar(t, pub, sev)
        BY <1>1, <1>2, FS_EmptySet DEF NvdSoFar, InHand
    <2>3. t.pc \in Reading => t.pc = "get" /\ t.source = "nvd"
        BY <1>0, <1>1 DEF Reading
    <2>4. t.pc # "done" /\ t.began <= pub
        BY <1>0, <1>1
    <2>5. QED
        BY <2>1, <2>2, <2>3, <2>4 DEF SyncFits
<1>4. Advances(s, t)
    BY <1>0, <1>1, SetsOut
<1>5. QED
    BY <1>1, <1>3, <1>4 DEF t, p

(***************************************************************************)
(* A page is at hand: it has what was published past the records counted,  *)
(* and without a next page nothing the NVD had at the start is missing.    *)
(***************************************************************************)
LEMMA PageFits ==
    ASSUME NEW s \in SyncRecord, published \in 0 .. Len(NvdRecord), NEW sev,
           SyncFits(s, published, sev), s.pc = "get"
    PROVE  LET t == [s EXCEPT !.pc = "records", !.todo = Page(s.start),
                              !.more = More(s.start), !.start = NextStart(s.start)]
           IN  t \in SyncRecord /\ SyncFits(t, published, sev) /\ Advances(s, t)
<1> DEFINE t == [s EXCEPT !.pc = "records", !.todo = Page(s.start),
                          !.more = More(s.start), !.start = NextStart(s.start)]
<1>0. s.start \in Nat /\ s.added \in Nat /\ s.began \in Nat /\ published \in Nat
    BY FeedAssumption DEF SyncRecord
<1>1. /\ Page(s.start) \subseteq Record
      /\ IsFiniteSet(Page(s.start))
      /\ Cardinality(Page(s.start)) \in Nat
      /\ NextStart(s.start) = s.start + Cardinality(Page(s.start))
      /\ s.start <= published =>
            /\ NextStart(s.start) <= published
            /\ \A i \in s.start + 1 .. NextStart(s.start) : NvdRecord[i] \in Page(s.start)
    BY <1>0, PageCounts DEF NextStart
<1>2. /\ More(s.start) \in BOOLEAN
      /\ ~ More(s.start) => published <= NextStart(s.start)
    BY <1>0, <1>1 DEF More, NextStart
<1>3. /\ t \in SyncRecord
      /\ t.pc = "records" /\ t.source = s.source /\ t.began = s.began
      /\ t.start = NextStart(s.start) /\ t.more = More(s.start) /\ t.todo = Page(s.start)
      /\ t.added = s.added /\ t.failed = s.failed /\ t.complete = s.complete
    <2>1. NextStart(s.start) \in Nat
        BY <1>0, <1>1
    <2>2. QED
        BY <1>1, <1>2, <2>1 DEF SyncRecord, SyncPc
<1> HIDE DEF t
<1>4. s.source = "nvd" /\ s.todo = {} /\ s.began <= published
    BY DEF SyncFits, Course
<1>5. NvdSoFar(s, published, sev) => NvdSoFar(t, published, sev)
    <2>1. SUFFICES ASSUME NvdSoFar(s, published, sev) PROVE NvdSoFar(t, published, sev)
        OBVIOUS
    <2>2. s.start <= published /\ s.added = s.start
        BY <1>0, <1>4, <2>1, FS_EmptySet DEF NvdSoFar, InHand
    <2>3. t.added + Cardinality(t.todo) + InHand(t) = t.start
        BY <1>0, <1>1, <1>3, <2>2 DEF InHand
    <2>4. ASSUME NEW i \in 1 .. t.start
          PROVE  NvdRecord[i] \in t.todo \/ Imported(NvdRecord[i], sev)
        <3>1. CASE i <= s.start
            BY <1>0, <1>1, <1>3, <1>4, <2>1, <3>1 DEF NvdSoFar
        <3>2. CASE ~ i <= s.start
            <4>1. i \in s.start + 1 .. NextStart(s.start)
                BY <1>0, <1>1, <1>3, <2>4, <3>2
            <4>2. QED
                BY <1>1, <1>3, <2>2, <4>1
        <3>3. QED
            BY <3>1, <3>2
    <2>5. t.start <= published /\ (~ t.more => t.began <= t.start)
        BY <1>0, <1>1, <1>2, <1>3, <1>4, <2>2
    <2>6. QED
        BY <1>1, <1>3, <2>3, <2>4, <2>5 DEF NvdSoFar
<1>6. /\ \A r \in t.todo : \E k \in s.start + 1 .. t.start :
              k \in 1 .. Len(NvdRecord) /\ NvdRecord[k] = r
      /\ s.start <= t.start
    <2> DEFINE I == {k \in s.start + 1 .. s.start + PageSize : k <= published}
    <2>1. \A r \in t.todo : \E k \in I : NvdRecord[k] = r
        BY <1>3 DEF Page
    <2>2. \A k \in I : k \in s.start + 1 .. t.start
        <3>1. CASE s.start <= published
            <4>1. /\ Returned(s.start) = Cardinality(I) /\ t.start = s.start + Returned(s.start)
                  /\ I = s.start + 1 .. s.start + Cardinality(I)
                BY <1>0, <1>3, <3>1, PageIsInterval DEF Returned, NextStart
            <4> HIDE DEF I
            <4>2. QED
                BY <4>1
        <3>2. CASE ~ s.start <= published
            BY <1>0, <3>2, FeedAssumption
        <3>3. QED
            BY <3>1, <3>2
    <2>3. \A k \in I : k \in 1 .. Len(NvdRecord)
        BY <1>0, FeedAssumption
    <2> HIDE DEF I
    <2>4. s.start <= t.start
        BY <1>0, <1>1, <1>3
    <2>5. QED
        BY <2>1, <2>2, <2>3, <2>4
<1>7. Apart(t)
    <2>1. ASSUME NEW r \in t.todo, NEW q \in t.todo, q.cve = r.cve PROVE q = r
        BY <1>6, <2>1, DistinctAssumption, FeedAssumption
    <2>2. ASSUME NEW r \in t.todo, NEW i \in t.start + 1 .. Len(NvdRecord)
          PROVE  NvdRecord[i].cve # r.cve
        <3>1. PICK k \in s.start + 1 .. t.start : k \in 1 .. Len(NvdRecord) /\ NvdRecord[k] = r
            BY <1>6
        <3>2. t.start \in Nat /\ Len(NvdRecord) \in Nat
            BY <1>3, FeedAssumption DEF SyncRecord
        <3>3. i \in 1 .. Len(NvdRecord) /\ i # k
            BY <1>0, <3>2
        <3>4. QED
            BY <3>1, <3>3, DistinctAssumption, FeedAssumption
    <2>3. QED
        BY <2>1, <2>2 DEF Apart
<1>8. Course(t) /\ t.began <= published
    BY <1>3, <1>4, <1>7 DEF Course, Source
<1>9. SyncFits(t, published, sev)
    BY <1>3, <1>4, <1>5, <1>8 DEF SyncFits, Reading
<1>10. Advances(s, t)
    <2>1. ASSUME NEW r \in t.todo
          PROVE  \E k \in s.start + 1 .. Len(NvdRecord) : NvdRecord[k].cve = r.cve
        <3>1. PICK k \in s.start + 1 .. t.start : k \in 1 .. Len(NvdRecord) /\ NvdRecord[k] = r
            BY <1>6
        <3>2. Len(NvdRecord) \in Nat /\ k \in s.start + 1 .. Len(NvdRecord)
            BY <1>0, <3>1, FeedAssumption
        <3>3. QED
            BY <3>1, <3>2
    <2>2. ASSUME NEW i \in t.start + 1 .. Len(NvdRecord)
          PROVE  i \in s.start + 1 .. Len(NvdRecord)
        <3>1. t.start \in Nat /\ Len(NvdRecord) \in Nat
            BY <1>3, FeedAssumption DEF SyncRecord
        <3>2. QED
            BY <1>0, <1>6, <3>1
    <2>3. QED
        BY <1>3, <1>4, <2>1, <2>2 DEF Advances, Coming
<1>11. QED
    BY <1>3, <1>9, <1>10 DEF t

SameCounts(t, s) ==
    /\ t.source = s.source /\ t.began = s.began
    /\ t.more = s.more /\ t.todo = s.todo /\ t.added = s.added /\ t.failed = s.failed
    /\ t.skipped = s.skipped

(***************************************************************************)
(* The downloads of a CVE.org sync: nothing is counted yet.                *)
(***************************************************************************)
LEMMA DownloadFits ==
    ASSUME NEW s \in SyncRecord, NEW pub, NEW sev, SyncFits(s, pub, sev),
           s.pc \in {"discover", "download"},
           NEW t \in SyncRecord, SameCounts(t, s),
           t.pc \in {"download", "open"},
           t.pc = "open" => t.file \in File
    PROVE  SyncFits(t, pub, sev) /\ Advances(s, t)
<1>1. /\ t.source = s.source /\ t.began = s.began /\ t.skipped = s.skipped
      /\ t.more = s.more /\ t.todo = s.todo /\ t.added = s.added /\ t.failed = s.failed
    BY DEF SameCounts
<1>2. /\ s.added = 0 /\ s.failed = 0 /\ s.todo = {} /\ s.skipped = {} /\ ~ s.more
      /\ s.source = "cveorg" /\ s.began <= pub
    BY DEF SyncFits, Course
<1>3. Course(t)
    BY <1>1, <1>2 DEF Course, Apart
<1>4. Advances(s, t)
    BY SetsOut
<1>5. QED
    BY <1>1, <1>2, <1>3, <1>4 DEF SyncFits, Reading

(***************************************************************************)
(* The archive is open: all its entries that are not too deep are to do.   *)
(***************************************************************************)
LEMMA ArchiveFits ==
    ASSUME NEW s \in SyncRecord, NEW pub, NEW sev, SyncFits(s, pub, sev), s.pc = "open"
    PROVE  LET t == [s EXCEPT !.pc = "records", !.todo = Entries(s.file),
                              !.skipped = TooDeep(s.file)]
           IN  t \in SyncRecord /\ SyncFits(t, pub, sev) /\ Advances(s, t)
<1> DEFINE t == [s EXCEPT !.pc = "records", !.todo = Entries(s.file),
                          !.skipped = TooDeep(s.file)]
           D == Documents(s.file)
           E == Entries(s.file)
           X == TooDeep(s.file)
<1>1. /\ s.added = 0 /\ s.failed = 0 /\ ~ s.more /\ s.source = "cveorg" /\ s.began <= pub
      /\ s.file \in File
    BY DEF SyncFits, Course
<1>2. /\ D \subseteq Record /\ IsFiniteSet(D) /\ D = E \cup X /\ E \cap X = {}
      /\ \A q, r \in D : q.cve = r.cve => q = r
    BY <1>1, DocumentsAre
<1>3. /\ t \in SyncRecord
      /\ t.pc = "records" /\ t.todo = E /\ t.skipped = X /\ t.file = s.file
      /\ t.source = s.source /\ t.began = s.began /\ t.more = s.more
      /\ t.added = s.added /\ t.failed = s.failed
    <2>1. E \subseteq Record /\ X \subseteq Record
        BY <1>2
    <2> HIDE DEF E, X, D
    <2>2. t = [s EXCEPT !.pc = "records", !.todo = E, !.skipped = X]
        BY DEF E, X
    <2> HIDE DEF t
    <2>3. QED
        BY <2>1, <2>2 DEF SyncRecord, SyncPc
<1> HIDE DEF t, D, E, X
<1>4. IsFiniteSet(E) /\ IsFiniteSet(X)
    BY <1>2, FS_Subset
<1>5. /\ Cardinality(E) \in Nat /\ Cardinality(X) \in Nat
      /\ Cardinality(D) = Cardinality(E) + Cardinality(X)
    <2>1. Cardinality(E) \in Nat /\ Cardinality(X) \in Nat
        BY <1>4, FS_CardinalityType
    <2>2. Cardinality(E \cup X) = Cardinality(E) + Cardinality(X) - Cardinality(E \cap X)
        BY <1>4, FS_Union
    <2>3. Cardinality(E \cap X) = 0
        BY <1>2, FS_EmptySet
    <2>4. QED
        BY <1>2, <2>1, <2>2, <2>3
<1>6. ArchiveSoFar(t, sev)
    <2>1. Documents(t.file) = D /\ InHand(t) = 0
        BY <1>3 DEF D, InHand
    <2>2. t.added + t.failed + Cardinality(t.todo) + InHand(t) + Cardinality(t.skipped) =
              Cardinality(D)
        BY <1>1, <1>3, <1>5, <2>1
    <2>3. QED
        BY <1>2, <1>3, <1>4, <2>1, <2>2 DEF ArchiveSoFar
<1>7. Apart(t)
    BY <1>1, <1>2, <1>3 DEF Apart
<1>8. Course(t)
    BY <1>1, <1>3, <1>7 DEF Course, Source
<1>9. SyncFits(t, pub, sev)
    BY <1>1, <1>3, <1>6, <1>8 DEF SyncFits
<1>10. Advances(s, t)
    BY <1>3, SetsOut
<1>11. QED
    BY <1>3, <1>9, <1>10 DEF t, E, X

(***************************************************************************)
(* A record is imported, and counted once its ranges are through.          *)
(***************************************************************************)
LEMMA UpsertFits ==
    ASSUME NEW s \in SyncRecord, NEW pub \in 0 .. Len(NvdRecord), NEW sev \in Severities,
           SyncFits(s, pub, sev), s.pc = "records", NEW r \in s.todo,
           NEW sev2 \in Severities, NoneGone(sev, sev2), Imported(r, sev2)
    PROVE  LET t == [s EXCEPT !.pc = "ranges", !.record = r, !.todo = @ \ {r}]
           IN  /\ t \in SyncRecord /\ SyncFits(t, pub, sev2) /\ Advances(s, t)
               /\ r.cve \in Coming(s) /\ r.cve \notin Coming(t)
<1> DEFINE t == [s EXCEPT !.pc = "ranges", !.record = r, !.todo = @ \ {r}]
<1>0. SyncFits(s, pub, sev2)
    <2>1. pub <= pub
        BY FeedAssumption
    <2>2. QED
        BY <2>1, StillFits
<1>1. /\ t \in SyncRecord
      /\ t.pc = "ranges" /\ t.todo = s.todo \ {r} /\ t.file = s.file
      /\ t.source = s.source /\ t.began = s.began /\ t.more = s.more /\ t.start = s.start
      /\ t.added = s.added /\ t.failed = s.failed /\ t.complete = s.complete
      /\ t.skipped = s.skipped
    BY DEF SyncRecord, SyncPc
<1> HIDE DEF t
<1>2. ASSUME IsFiniteSet(s.todo)
      PROVE  /\ IsFiniteSet(t.todo)
             /\ Cardinality(s.todo) \in Nat
             /\ Cardinality(t.todo) = Cardinality(s.todo) - 1
    BY <1>1, <1>2, FS_RemoveElement, FS_CardinalityType
<1>3. s.added \in Nat /\ s.failed \in Nat /\ InHand(s) = 0 /\ InHand(t) = 1
    BY <1>1 DEF SyncRecord, InHand
<1>4. NvdSoFar(s, pub, sev2) => NvdSoFar(t, pub, sev2)
    <2>1. SUFFICES ASSUME NvdSoFar(s, pub, sev2) PROVE NvdSoFar(t, pub, sev2)
        OBVIOUS
    <2>2. t.added + Cardinality(t.todo) + InHand(t) = t.start /\ IsFiniteSet(t.todo)
        BY <1>1, <1>2, <1>3, <2>1 DEF NvdSoFar
    <2>3. \A i \in 1 .. t.start : NvdRecord[i] \in t.todo \/ Imported(NvdRecord[i], sev2)
        BY <1>1, <2>1 DEF NvdSoFar
    <2>4. QED
        BY <1>1, <2>1, <2>2, <2>3 DEF NvdSoFar
<1>5. ArchiveSoFar(s, sev2) => ArchiveSoFar(t, sev2)
    <2>1. SUFFICES ASSUME ArchiveSoFar(s, sev2) PROVE ArchiveSoFar(t, sev2)
        OBVIOUS
    <2>2. IsFiniteSet(s.skipped) /\ Cardinality(s.skipped) \in Nat
        BY <2>1, FS_CardinalityType DEF ArchiveSoFar
    <2>3. /\ IsFiniteSet(t.todo) /\ t.todo \cap t.skipped = {}
          /\ t.added + t.failed + Cardinality(t.todo) + InHand(t) + Cardinality(t.skipped) =
                Cardinality(Documents(t.file))
        BY <1>1, <1>2, <1>3, <2>1, <2>2 DEF ArchiveSoFar
    <2>4. t.failed = 0 =>
              \A q \in Documents(t.file) : q \in t.todo \/ q \in t.skipped \/ Imported(q, sev2)
        BY <1>1, <2>1 DEF ArchiveSoFar
    <2>5. QED
        BY <1>1, <2>2, <2>3, <2>4 DEF ArchiveSoFar
<1>6. Apart(s) /\ Apart(t) /\ Advances(s, t)
    <2>1. Apart(s)
        BY <1>0 DEF SyncFits, Course
    <2>2. QED
        BY <1>1, <2>1, GetsOn DEF Reading
<1>7. Course(t)
    BY <1>0, <1>1, <1>6 DEF SyncFits, Course
<1>8. SyncFits(t, pub, sev2)
    BY <1>0, <1>1, <1>4, <1>5, <1>7 DEF SyncFits, Reading
<1>9. r.cve \in Coming(s) /\ r.cve \notin Coming(t)
    <2>1. ASSUME NEW q \in t.todo PROVE q.cve # r.cve
        BY <1>1, <1>6 DEF Apart
    <2>2. ASSUME t.source = "nvd", NEW i \in t.start + 1 .. Len(NvdRecord)
          PROVE  NvdRecord[i].cve # r.cve
        BY <1>1, <1>6, <2>2 DEF Apart
    <2>3. QED
        BY <1>1, <2>1, <2>2 DEF Coming
<1>10. QED
    BY <1>1, <1>6, <1>8, <1>9 DEF t

LEMMA CountFits ==
    ASSUME NEW s \in SyncRecord, NEW pub, NEW sev, SyncFits(s, pub, sev), s.pc = "ranges"
    PROVE  LET t == [s EXCEPT !.pc = "records", !.added = @ + 1, !.record = NoRow]
           IN  t \in SyncRecord /\ SyncFits(t, pub, sev) /\ Advances(s, t)
<1> DEFINE t == [s EXCEPT !.pc = "records", !.added = @ + 1, !.record = NoRow]
<1>1. /\ t \in SyncRecord
      /\ t.pc = "records" /\ t.todo = s.todo /\ t.file = s.file
      /\ t.source = s.source /\ t.began = s.began /\ t.more = s.more /\ t.start = s.start
      /\ t.added = s.added + 1 /\ t.failed = s.failed /\ t.complete = s.complete
      /\ t.skipped = s.skipped
    <2>1. s.added \in Nat /\ s.added + 1 \in Nat
        BY DEF SyncRecord
    <2>2. QED
        BY <2>1 DEF SyncRecord, SyncPc
<1> HIDE DEF t
<1>2. s.added \in Nat /\ s.failed \in Nat /\ InHand(s) = 1 /\ InHand(t) = 0
    BY <1>1 DEF SyncRecord, InHand
<1>3. \A S : IsFiniteSet(S) => Cardinality(S) \in Nat
    BY FS_CardinalityType
<1>4. NvdSoFar(s, pub, sev) => NvdSoFar(t, pub, sev)
    BY <1>1, <1>2, <1>3 DEF NvdSoFar
<1>5. ArchiveSoFar(s, sev) => ArchiveSoFar(t, sev)
    BY <1>1, <1>2, <1>3 DEF ArchiveSoFar
<1>6. Apart(t) /\ Advances(s, t)
    <2>1. Apart(s)
        BY DEF SyncFits, Course
    <2>2. QED
        BY <1>1, <2>1, GetsOn DEF Reading
<1>7. Course(t)
    BY <1>1, <1>6 DEF SyncFits, Course
<1>8. SyncFits(t, pub, sev)
    BY <1>1, <1>4, <1>5, <1>7 DEF SyncFits, Reading
<1>9. QED
    BY <1>1, <1>6, <1>8 DEF t

(***************************************************************************)
(* A record that fails is counted as such; an entry that is passed over is *)
(* counted nowhere.                                                        *)
(***************************************************************************)
LEMMA FailFits ==
    ASSUME NEW s \in SyncRecord, NEW pub, NEW sev, SyncFits(s, pub, sev), s.pc = "records",
           NEW r \in s.todo
    PROVE  LET t == [s EXCEPT !.todo = @ \ {r}, !.failed = @ + 1]
           IN  t \in SyncRecord /\ SyncFits(t, pub, sev) /\ Advances(s, t)
<1> DEFINE t == [s EXCEPT !.todo = @ \ {r}, !.failed = @ + 1]
<1>1. /\ t \in SyncRecord
      /\ t.pc = "records" /\ t.todo = s.todo \ {r} /\ t.file = s.file /\ t.start = s.start
      /\ t.source = s.source /\ t.began = s.began /\ t.more = s.more
      /\ t.added = s.added /\ t.failed = s.failed + 1 /\ t.skipped = s.skipped
    <2>1. s.failed \in Nat /\ s.failed + 1 \in Nat
        BY DEF SyncRecord
    <2>2. QED
        BY <2>1 DEF SyncRecord, SyncPc
<1> HIDE DEF t
<1>2. s.added \in Nat /\ s.failed \in Nat /\ InHand(s) = 0 /\ InHand(t) = 0 /\ t.failed # 0
    BY <1>1 DEF SyncRecord, InHand
<1>3. ASSUME IsFiniteSet(s.todo)
      PROVE  /\ IsFiniteSet(t.todo)
             /\ Cardinality(s.todo) \in Nat
             /\ Cardinality(t.todo) = Cardinality(s.todo) - 1
    BY <1>1, <1>3, FS_RemoveElement, FS_CardinalityType
<1>4. \A S : IsFiniteSet(S) => Cardinality(S) \in Nat
    BY FS_CardinalityType
<1>5. ArchiveSoFar(s, sev) => ArchiveSoFar(t, sev)
    BY <1>1, <1>2, <1>3, <1>4 DEF ArchiveSoFar
<1>6. Apart(t) /\ Advances(s, t)
    <2>1. Apart(s)
        BY DEF SyncFits, Course
    <2>2. QED
        BY <1>1, <2>1, GetsOn DEF Reading
<1>7. Course(t)
    BY <1>1, <1>6 DEF SyncFits, Course
<1>8. SyncFits(t, pub, sev)
    BY <1>1, <1>2, <1>5, <1>7 DEF SyncFits, Reading
<1>9. QED
    BY <1>1, <1>6, <1>8 DEF t

LEMMA LoseFits ==
    ASSUME NEW s \in SyncRecord, NEW pub, NEW sev, SyncFits(s, pub, sev), s.pc = "records",
           s.source = "cveorg", NEW r \in s.todo
    PROVE  LET t == [s EXCEPT !.todo = @ \ {r}, !.skipped = @ \cup {r}]
           IN  t \in SyncRecord /\ SyncFits(t, pub, sev) /\ Advances(s, t)
<1> DEFINE t == [s EXCEPT !.todo = @ \ {r}, !.skipped = @ \cup {r}]
<1>1. /\ t \in SyncRecord
      /\ t.pc = "records" /\ t.todo = s.todo \ {r} /\ t.file = s.file /\ t.start = s.start
      /\ t.source = s.source /\ t.began = s.began /\ t.more = s.more
      /\ t.added = s.added /\ t.failed = s.failed /\ t.skipped = s.skipped \cup {r}
    BY DEF SyncRecord, SyncPc
<1> HIDE DEF t
<1>2. s.added \in Nat /\ s.failed \in Nat /\ InHand(s) = 0 /\ InHand(t) = 0
    BY <1>1 DEF SyncRecord, InHand
<1>3. ArchiveSoFar(s, sev) /\ Apart(s)
    BY DEF SyncFits, Course, Reading
<1>4. /\ IsFiniteSet(t.todo) /\ Cardinality(s.todo) \in Nat
      /\ Cardinality(t.todo) = Cardinality(s.todo) - 1
    BY <1>1, <1>3, FS_RemoveElement, FS_CardinalityType DEF ArchiveSoFar
<1>5. /\ IsFiniteSet(t.skipped) /\ Cardinality(s.skipped) \in Nat
      /\ Cardinality(t.skipped) = Cardinality(s.skipped) + 1
    <2>1. IsFiniteSet(s.skipped) /\ r \notin s.skipped
        BY <1>3 DEF ArchiveSoFar
    <2>2. QED
        BY <1>1, <2>1, FS_AddElement, FS_CardinalityType
<1>6. ArchiveSoFar(t, sev)
    <2>1. t.todo \cap t.skipped = {}
        BY <1>1, <1>3 DEF ArchiveSoFar
    <2>2. t.added + t.failed + Cardinality(t.todo) + InHand(t) + Cardinality(t.skipped) =
              Cardinality(Documents(t.file))
        BY <1>1, <1>2, <1>3, <1>4, <1>5 DEF ArchiveSoFar
    <2>3. t.failed = 0 =>
              \A q \in Documents(t.file) : q \in t.todo \/ q \in t.skipped \/ Imported(q, sev)
        BY <1>1, <1>3 DEF ArchiveSoFar
    <2>4. QED
        BY <1>4, <1>5, <2>1, <2>2, <2>3 DEF ArchiveSoFar
<1>7. Apart(t) /\ Advances(s, t)
    BY <1>1, <1>3, GetsOn DEF Reading
<1>8. Course(t)
    BY <1>1, <1>7 DEF SyncFits, Course
<1>9. SyncFits(t, pub, sev)
    BY <1>1, <1>6, <1>8 DEF SyncFits
<1>10. QED
    BY <1>1, <1>7, <1>9 DEF t

(***************************************************************************)
(* The page or the archive is through: the next page is asked for, or the  *)
(* result is what has been counted.                                        *)
(***************************************************************************)
LEMMA NextPageFits ==
    ASSUME NEW s \in SyncRecord, NEW pub, NEW sev, SyncFits(s, pub, sev), s.pc = "records",
           s.todo = {}, s.more
    PROVE  LET t == [s EXCEPT !.pc = "get"]
           IN  t \in SyncRecord /\ SyncFits(t, pub, sev) /\ Advances(s, t)
<1> DEFINE t == [s EXCEPT !.pc = "get"]
<1>1. /\ t \in SyncRecord
      /\ t.pc = "get" /\ t.todo = s.todo /\ t.file = s.file
      /\ t.source = s.source /\ t.began = s.began /\ t.more = s.more /\ t.start = s.start
      /\ t.added = s.added /\ t.failed = s.failed /\ t.complete = s.complete
    BY DEF SyncRecord, SyncPc
<1> HIDE DEF t
<1>2. s.source = "nvd" /\ Apart(s)
    BY DEF SyncFits, Course
<1>3. NvdSoFar(s, pub, sev) => NvdSoFar(t, pub, sev)
    BY <1>1 DEF NvdSoFar, InHand
<1>4. Apart(t) /\ Advances(s, t)
    BY <1>1, <1>2, GetsOn DEF Reading
<1>5. Course(t)
    BY <1>1, <1>2, <1>4 DEF SyncFits, Course
<1>6. SyncFits(t, pub, sev)
    BY <1>1, <1>2, <1>3, <1>5 DEF SyncFits, Reading
<1>7. QED
    BY <1>1, <1>4, <1>6 DEF t

(***************************************************************************)
(* Between two pages an NVD sync may end at any time: all it has counted   *)
(* are the first records.                                                  *)
(***************************************************************************)
LEMMA NvdPrefix ==
    ASSUME NEW s \in SyncRecord, NEW pub \in 0 .. Len(NvdRecord), NEW sev,
           NvdSoFar(s, pub, sev), s.pc # "ranges", s.todo = {}
    PROVE  /\ s.added = s.start /\ s.added <= Len(NvdRecord)
           /\ \A i \in 1 .. s.added : Imported(NvdRecord[i], sev)
<1>1. s.added \in Nat /\ s.start \in Nat /\ InHand(s) = 0 /\ Len(NvdRecord) \in Nat
    BY FeedAssumption DEF SyncRecord, InHand
<1>2. s.added = s.start
    BY <1>1, FS_EmptySet DEF NvdSoFar
<1>3. QED
    BY <1>1, <1>2 DEF NvdSoFar

LEMMA FinishedFits ==
    ASSUME NEW s \in SyncRecord, NEW pub \in 0 .. Len(NvdRecord), NEW sev, SyncFits(s, pub, sev),
           s.pc = "records", s.todo = {}, ~ s.more
    PROVE  /\ Finished(s) \in SyncRecord /\ SyncFits(Finished(s), pub, sev)
           /\ Advances(s, Finished(s))
<1> DEFINE t == Finished(s)
<1>1. Succeeds(s) \in BOOLEAN /\ s.began <= pub
    BY DEF SyncFits, Succeeds
<1>2. /\ t.pc = "done" /\ t.source = s.source /\ t.began = s.began /\ t.file = s.file
      /\ t.added = s.added /\ t.failed = s.failed /\ t.skipped = s.skipped /\ t.todo = {}
    BY <1>1, EndedIs DEF Finished
<1> HIDE DEF t
<1>3. ASSUME s.source = "nvd", s.failed = 0
      PROVE  /\ s.added >= s.began /\ s.added <= Len(NvdRecord)
             /\ \A i \in 1 .. s.added : Imported(NvdRecord[i], sev)
    <2>1. NvdSoFar(s, pub, sev) /\ s.began <= s.start
        BY <1>3 DEF SyncFits, Reading, NvdSoFar
    <2>2. s.added \in Nat /\ s.began \in Nat
        BY DEF SyncRecord
    <2>3. QED
        BY <2>1, <2>2, NvdPrefix
<1>4. ASSUME s.source = "cveorg"
      PROVE  s.file \in File /\ ArchiveSoFar(t, sev)
    <2>1. ArchiveSoFar(s, sev) /\ s.file \in File
        BY <1>4 DEF SyncFits, Course, Reading
    <2>2. InHand(t) = 0 /\ InHand(s) = 0
        BY <1>2 DEF InHand
    <2>3. QED
        BY <1>2, <2>1, <2>2 DEF ArchiveSoFar
<1>5. Result(t, sev)
    BY <1>2, <1>3, <1>4 DEF Result
<1>6. QED
    BY <1>1, <1>5, EndedFits DEF Finished, t

LEMMA GetFailsFits ==
    ASSUME NEW s \in SyncRecord, NEW pub \in 0 .. Len(NvdRecord), NEW sev, SyncFits(s, pub, sev),
           s.pc = "get"
    PROVE  LET t == Finished([s EXCEPT !.complete = FALSE])
           IN  t \in SyncRecord /\ SyncFits(t, pub, sev) /\ Advances(s, t)
<1> DEFINE u == [s EXCEPT !.complete = FALSE]
           t == Finished(u)
<1>1. /\ u \in SyncRecord /\ ~ u.complete /\ u.began = s.began /\ u.pc = s.pc
      /\ u.source = s.source /\ u.added = s.added /\ u.failed = s.failed
      /\ u.todo = s.todo /\ u.start = s.start
    BY DEF SyncRecord
<1> HIDE DEF u
<1>2. Succeeds(u) \in BOOLEAN /\ s.began <= pub /\ s.todo = {} /\ s.source = "nvd"
    BY DEF SyncFits, Course, Succeeds
<1>3. /\ t.source = s.source /\ t.added = s.added /\ t.failed = s.failed /\ ~ t.complete
      /\ Advances(u, t)
    BY <1>1, <1>2, EndedIs DEF Finished
<1> HIDE DEF t
<1>4. s.failed = 0 => /\ s.added <= Len(NvdRecord)
                      /\ \A i \in 1 .. s.added : Imported(NvdRecord[i], sev)
    <2>1. s.failed = 0 => NvdSoFar(s, pub, sev)
        BY <1>2 DEF SyncFits, Reading
    <2>2. QED
        BY <1>2, <2>1, NvdPrefix
<1>5. Result(t, sev)
    BY <1>2, <1>3, <1>4 DEF Result
<1>6. t \in SyncRecord /\ SyncFits(t, pub, sev)
    BY <1>1, <1>2, <1>5, EndedFits DEF Finished, t
<1>7. Coming(u) = Coming(s)
    BY <1>1 DEF Coming
<1>8. QED
    BY <1>1, <1>3, <1>6, <1>7 DEF Advances, t, u

-----------------------------------------------------------------------------

(***************************************************************************)
(* The writer's statements: the tables stay of their types, and a record   *)
(* that is imported stays so.                                              *)
(***************************************************************************)
LEMMA UpsertKeepsRecords ==
    ASSUME CveTypeOK, NEW w \in Writer, NEW r \in Record,
           UpsertCveRecord(w, r.cve, r.severity, r.ranges)
    PROVE  CveTypeOK' /\ NoneGone(severity, severity') /\ Imported(r, severity')
<1>1. r.cve \in Cve /\ r.severity \in Severity /\ r.ranges \subseteq VersionedPackage
    BY DEF Record
<1>2. /\ severity' = [severity EXCEPT ![r.cve] = r.severity]
      /\ writing' = [writing EXCEPT ![w] = [cve |-> r.cve, todo |-> r.ranges]]
      /\ affected' = affected
    BY DEF UpsertCveRecord
<1>3. r.severity # NotImported
    BY <1>1, ImportedSeverity
<1>4. severity \in Severities /\ severity' \in Severities
    BY <1>1, <1>2 DEF CveTypeOK, Severities
<1>5. NoneGone(severity, severity') /\ Imported(r, severity')
    BY <1>1, <1>2, <1>3, <1>4 DEF NoneGone, Imported, Severities
<1>6. /\ writing' \in [Writer -> [cve : Cve \cup {NoRow}, todo : SUBSET VersionedPackage]]
      /\ \A v \in Writer : writing'[v].todo # {} => writing'[v].cve \in Cve
    BY <1>1, <1>2 DEF CveTypeOK
<1>7. CveTypeOK'
    BY <1>2, <1>4, <1>6 DEF CveTypeOK, Severities
<1>8. QED
    BY <1>5, <1>7

LEMMA InsertKeepsRecords ==
    ASSUME CveTypeOK, NEW w \in Writer, NEW x \in writing[w].todo, InsertAffectedProduct(w, x)
    PROVE  CveTypeOK' /\ severity' = severity
<1>1. x \in VersionedPackage /\ writing[w].cve \in Cve /\ writing[w].todo \subseteq VersionedPackage
    BY DEF CveTypeOK
<1>2. affected' \in [AffectedRow -> Nat]
    <2> DEFINE row == [cve |-> writing[w].cve, range |-> x]
    <2>1. row \in AffectedRow
        BY <1>1 DEF AffectedRow
    <2>2. affected[row] \in Nat /\ affected \in [AffectedRow -> Nat]
        BY <2>1 DEF CveTypeOK
    <2> HIDE DEF row
    <2>3. OneMore(row) \in [AffectedRow -> Nat]
        BY <2>1, <2>2 DEF OneMore
    <2>4. affected' \in {affected, OneMore(row)}
        BY DEF InsertAffectedProduct, row
    <2>5. QED
        BY <2>2, <2>3, <2>4
<1>3. /\ writing' \in [Writer -> [cve : Cve \cup {NoRow}, todo : SUBSET VersionedPackage]]
      /\ \A v \in Writer : writing'[v].todo # {} => writing'[v].cve \in Cve
    BY <1>1 DEF CveTypeOK, InsertAffectedProduct
<1>4. severity' = severity
    BY DEF InsertAffectedProduct
<1>5. QED
    BY <1>2, <1>3, <1>4 DEF CveTypeOK

(***************************************************************************)
(* One sync moves on and the others stay where they are.                   *)
(***************************************************************************)
LEMMA OneSyncMoves ==
    ASSUME IInv, NEW w \in Writer, NEW t \in SyncRecord,
           csync' = [csync EXCEPT ![w] = t], UNCHANGED << published, crashes >>,
           CveTypeOK', NoneGone(severity, severity'),
           SyncFits(t, published, severity'), Advances(csync[w], t)
    PROVE  IInv' /\ SyncsAdvance
<1>1. /\ csync \in [Writer -> SyncRecord] /\ csync' \in [Writer -> SyncRecord]
      /\ severity \in Severities /\ severity' \in Severities
      /\ published \in 0 .. Len(NvdRecord) /\ published <= published
    BY FeedAssumption DEF IInv, TypeOK, CveTypeOK, SyncRecord, Severities
<1>2. ASSUME NEW v \in Writer PROVE SyncFits(csync'[v], published, severity')
    <2>1. CASE v = w
        BY <1>1, <2>1
    <2>2. CASE v # w
        <3>1. SyncFits(csync[v], published, severity) /\ csync'[v] = csync[v]
            BY <1>1, <2>2 DEF IInv, SyncInv
        <3>2. QED
            BY <1>1, <3>1, StillFits
    <2>3. QED
        BY <2>1, <2>2
<1>3. SyncInv'
    BY <1>2 DEF SyncInv
<1>4. TypeOK'
    BY <1>1 DEF IInv, TypeOK, SyncRecord
<1>5. ASSUME NEW v \in Writer PROVE Advances(csync[v], csync'[v])
    <2>1. csync'[v] = IF v = w THEN t ELSE csync[v]
        BY <1>1
    <2>2. Advances(csync[v], csync[v])
        BY DEF Advances
    <2>3. QED
        BY <2>1, <2>2
<1>6. QED
    BY <1>3, <1>4, <1>5 DEF IInv, SyncsAdvance

\* The same when the sync is at pc and leaves the tables alone.
LEMMA OneSyncGoes ==
    ASSUME IInv, NEW w \in Writer, NEW pc, NEW t \in SyncRecord, Becomes(w, pc, t),
           UNCHANGED cveVars, SyncFits(t, published, severity), Advances(csync[w], t)
    PROVE  IInv' /\ SyncsAdvance
<1>1. CveTypeOK' /\ severity' = severity
    BY DEF IInv, TypeOK, CveTypeOK, cveVars
<1>2. NoneGone(severity, severity')
    BY <1>1 DEF NoneGone
<1>3. QED
    BY <1>1, <1>2, OneSyncMoves DEF Becomes

\* Where every sync stands.
LEMMA SyncStands ==
    ASSUME IInv, NEW w \in Writer
    PROVE  /\ csync[w] \in SyncRecord /\ SyncFits(csync[w], published, severity)
           /\ published \in 0 .. Len(NvdRecord) /\ published \in Nat
           /\ severity \in Severities
           /\ csync[w].began <= published
BY FeedAssumption DEF IInv, TypeOK, CveTypeOK, SyncRecord, Severities, SyncInv, SyncFits

\* No sync moves.
LEMMA NoSyncMoves ==
    ASSUME csync' = csync
    PROVE  SyncsAdvance
BY DEF SyncsAdvance, Advances

(***************************************************************************)
(* The actions of one sync.                                                *)
(***************************************************************************)
LEMMA SyncGoes ==
    ASSUME IInv, NEW w \in Writer, SyncProceeds(w)
    PROVE  IInv' /\ SyncsAdvance
<1> DEFINE s == csync[w]
<1>0. /\ s \in SyncRecord /\ SyncFits(s, published, severity)
      /\ published \in 0 .. Len(NvdRecord) /\ published \in Nat
      /\ severity \in Severities
      /\ s.began <= published
    BY SyncStands
<1>1. CASE GetPage(w)
    <2>1. PICK t : /\ t = [s EXCEPT !.pc = "records", !.todo = Page(s.start),
                                    !.more = More(s.start), !.start = NextStart(s.start)]
                   /\ Becomes(w, "get", t) /\ UNCHANGED cveVars
        BY <1>1 DEF GetPage
    <2>2. s.pc = "get"
        BY <2>1 DEF Becomes
    <2>3. t \in SyncRecord /\ SyncFits(t, published, severity) /\ Advances(s, t)
        BY <1>0, <2>1, <2>2, PageFits
    <2>4. QED
        BY <1>0, <2>1, <2>3, OneSyncGoes
<1>2. CASE GetFails(w)
    <2>1. PICK t : /\ t = Finished([s EXCEPT !.complete = FALSE])
                   /\ Becomes(w, "get", t) /\ UNCHANGED cveVars
        BY <1>2 DEF GetFails
    <2>2. t \in SyncRecord /\ SyncFits(t, published, severity) /\ Advances(s, t)
        BY <1>0, <2>1, GetFailsFits DEF Becomes
    <2>3. QED
        BY <1>0, <2>1, <2>2, OneSyncGoes
<1>3. CASE Discover(w)
    <2>1. PICK fs \in SUBSET File :
              Becomes(w, "discover", IF fs = {} THEN GivenUp(s)
                                     ELSE [s EXCEPT !.pc = "download", !.offered = fs])
        BY <1>3 DEF Discover
    <2>2. s.pc = "discover" /\ UNCHANGED cveVars
        BY <1>3 DEF Discover, Becomes
    <2>3. CASE fs = {}
        <3>1. Becomes(w, "discover", GivenUp(s))
            BY <2>1, <2>3
        <3>2. /\ GivenUp(s) \in SyncRecord /\ SyncFits(GivenUp(s), published, severity)
             /\ Advances(s, GivenUp(s))
            BY <1>0, GivenUpFits
        <3>3. QED
            BY <1>0, <2>2, <3>1, <3>2, OneSyncGoes
    <2>4. CASE fs # {}
        <3>1. PICK t : t = [s EXCEPT !.pc = "download", !.offered = fs] /\ Becomes(w, "discover", t)
            BY <2>1, <2>4
        <3>2. t \in SyncRecord
            BY <1>0, <3>1 DEF SyncRecord, SyncPc
        <3>3. SameCounts(t, s) /\ t.pc = "download"
            BY <1>0, <3>1 DEF SyncRecord, SameCounts
        <3>4. SyncFits(t, published, severity) /\ Advances(s, t)
            BY <1>0, <2>2, <3>2, <3>3, DownloadFits
        <3>5. QED
            BY <1>0, <2>2, <3>1, <3>2, <3>4, OneSyncGoes
    <2>5. QED
        BY <2>3, <2>4
<1>4. CASE ConnectFails(w)
    <2>1. Becomes(w, "get", GivenUp(s)) /\ UNCHANGED cveVars
        BY <1>4 DEF ConnectFails
    <2>2. /\ GivenUp(s) \in SyncRecord /\ SyncFits(GivenUp(s), published, severity)
          /\ Advances(s, GivenUp(s))
        BY <1>0, GivenUpFits
    <2>3. QED
        BY <1>0, <2>1, <2>2, OneSyncGoes
<1>5. CASE Download(w)
    <2> DEFINE f == Tried(s)
    <2>1. PICK t : t = [s EXCEPT !.pc = "open", !.file = f] /\ Becomes(w, "download", t)
        BY <1>5 DEF Download
    <2>2. s.pc = "download" /\ UNCHANGED cveVars /\ f \in File
        BY <1>5 DEF Download, Becomes, Tried, File
    <2> HIDE DEF f
    <2>3. t \in SyncRecord
        BY <1>0, <2>1, <2>2 DEF SyncRecord, SyncPc
    <2>4. SameCounts(t, s) /\ t.pc = "open" /\ t.file = f
        BY <1>0, <2>1 DEF SyncRecord, SameCounts
    <2>5. SyncFits(t, published, severity) /\ Advances(s, t)
        BY <1>0, <2>2, <2>3, <2>4, DownloadFits
    <2>6. QED
        BY <1>0, <2>1, <2>2, <2>3, <2>5, OneSyncGoes
<1>6. CASE DownloadFails(w)
    <2> DEFINE rest == s.offered \ {Tried(s)}
    <2>1. /\ Becomes(w, "download", IF rest = {} THEN GivenUp(s)
                                    ELSE [s EXCEPT !.offered = rest])
          /\ s.pc = "download" /\ UNCHANGED cveVars
        BY <1>0, <1>6 DEF DownloadFails, Becomes
    <2>2. rest \in SUBSET File
        BY <1>0 DEF SyncRecord
    <2> HIDE DEF rest
    <2>3. CASE rest = {}
        <3>1. Becomes(w, "download", GivenUp(s))
            BY <2>1, <2>3
        <3>2. /\ GivenUp(s) \in SyncRecord /\ SyncFits(GivenUp(s), published, severity)
             /\ Advances(s, GivenUp(s))
            BY <1>0, GivenUpFits
        <3>3. QED
            BY <1>0, <2>1, <3>1, <3>2, OneSyncGoes
    <2>4. CASE rest # {}
        <3>1. PICK t : t = [s EXCEPT !.offered = rest] /\ Becomes(w, "download", t)
            BY <2>1, <2>4
        <3>2. t \in SyncRecord
            BY <1>0, <2>2, <3>1 DEF SyncRecord
        <3>3. SameCounts(t, s) /\ t.pc = "download"
            BY <1>0, <2>1, <3>1 DEF SyncRecord, SameCounts
        <3>4. SyncFits(t, published, severity) /\ Advances(s, t)
            BY <1>0, <2>1, <3>2, <3>3, DownloadFits
        <3>5. QED
            BY <1>0, <2>1, <3>1, <3>2, <3>4, OneSyncGoes
    <2>5. QED
        BY <2>3, <2>4
<1>7. CASE OpenZip(w)
    <2>1. PICK t : /\ t = [s EXCEPT !.pc = "records", !.todo = Entries(s.file),
                                    !.skipped = TooDeep(s.file)]
                   /\ Becomes(w, "open", t) /\ UNCHANGED cveVars
        BY <1>7 DEF OpenZip
    <2>2. t \in SyncRecord /\ SyncFits(t, published, severity) /\ Advances(s, t)
        BY <1>0, <2>1, ArchiveFits DEF Becomes
    <2>3. QED
        BY <1>0, <2>1, <2>2, OneSyncGoes
<1>8. CASE OpenZipFails(w)
    <2>1. /\ GivenUp(s) \in SyncRecord /\ SyncFits(GivenUp(s), published, severity)
             /\ Advances(s, GivenUp(s))
        BY <1>0, GivenUpFits
    <2>2. QED
        BY <1>0, <1>8, <2>1, OneSyncGoes DEF OpenZipFails
<1>9. CASE LoseEntry(w)
    <2>0. s.source = "cveorg"
        BY <1>9 DEF LoseEntry
    <2>1. PICK r, t :
              /\ r \in s.todo
              /\ t = [s EXCEPT !.todo = @ \ {r}, !.skipped = @ \cup {r}]
              /\ Becomes(w, "records", t) /\ UNCHANGED cveVars
        BY <1>9 DEF LoseEntry
    <2>2. t \in SyncRecord /\ SyncFits(t, published, severity) /\ Advances(s, t)
        BY <1>0, <2>0, <2>1, LoseFits DEF Becomes
    <2>3. QED
        BY <1>0, <2>1, <2>2, OneSyncGoes
<1>10. CASE Upsert(w)
    <2>1. PICK r, t :
              /\ r \in s.todo
              /\ UpsertCveRecord(w, r.cve, r.severity, r.ranges)
              /\ t = [s EXCEPT !.pc = "ranges", !.record = r, !.todo = @ \ {r}]
              /\ Becomes(w, "records", t)
        BY <1>10 DEF Upsert
    <2>2. r \in Record /\ CveTypeOK
        BY <1>0, <2>1 DEF SyncRecord, IInv, TypeOK
    <2>3. CveTypeOK' /\ NoneGone(severity, severity') /\ Imported(r, severity')
        BY <2>1, <2>2, UpsertKeepsRecords
    <2>4. severity' \in Severities
        BY <2>3 DEF CveTypeOK, Severities
    <2>5. t \in SyncRecord /\ SyncFits(t, published, severity') /\ Advances(s, t)
        BY <1>0, <2>1, <2>3, <2>4, UpsertFits DEF Becomes
    <2>6. QED
        BY <1>0, <2>1, <2>3, <2>5, OneSyncMoves DEF Becomes
<1>11. CASE UpsertFails(w)
    <2>1. PICK r, t :
              /\ r \in s.todo
              /\ t = [s EXCEPT !.todo = @ \ {r}, !.failed = @ + 1]
              /\ Becomes(w, "records", t) /\ UNCHANGED cveVars
        BY <1>11 DEF UpsertFails
    <2>2. t \in SyncRecord /\ SyncFits(t, published, severity) /\ Advances(s, t)
        BY <1>0, <2>1, FailFits DEF Becomes
    <2>3. QED
        BY <1>0, <2>1, <2>2, OneSyncGoes
<1>12. CASE InsertRange(w)
    <2>1. PICK x \in writing[w].todo : InsertAffectedProduct(w, x)
        BY <1>12 DEF InsertRange
    <2>2. UNCHANGED << published, csync, crashes >>
        BY <1>12 DEF InsertRange
    <2>3. CveTypeOK' /\ severity' = severity
        BY <2>1, InsertKeepsRecords DEF IInv, TypeOK
    <2>4. TypeOK' /\ SyncInv'
        BY <2>2, <2>3 DEF IInv, TypeOK, SyncInv
    <2>5. QED
        BY <2>2, <2>4, NoSyncMoves DEF IInv
<1>13. CASE UpsertReturns(w)
    <2>1. PICK t :
              /\ t = [s EXCEPT !.pc = "records", !.added = @ + 1, !.record = NoRow]
              /\ Becomes(w, "ranges", t) /\ UNCHANGED cveVars
        BY <1>13 DEF UpsertReturns
    <2>2. t \in SyncRecord /\ SyncFits(t, published, severity) /\ Advances(s, t)
        BY <1>0, <2>1, CountFits DEF Becomes
    <2>3. QED
        BY <1>0, <2>1, <2>2, OneSyncGoes
<1>14. CASE RecordsDone(w)
    <2>1. /\ s.pc = "records" /\ s.todo = {} /\ UNCHANGED cveVars
          /\ Becomes(w, "records", IF s.more THEN [s EXCEPT !.pc = "get"] ELSE Finished(s))
        BY <1>14 DEF RecordsDone, Becomes
    <2>2. CASE s.more
        <3>1. PICK t : t = [s EXCEPT !.pc = "get"] /\ Becomes(w, "records", t)
            BY <2>1, <2>2
        <3>2. t \in SyncRecord /\ SyncFits(t, published, severity) /\ Advances(s, t)
            BY <1>0, <2>1, <2>2, <3>1, NextPageFits
        <3>3. QED
            BY <1>0, <2>1, <3>1, <3>2, OneSyncGoes
    <2>3. CASE ~ s.more
        <3>1. Becomes(w, "records", Finished(s))
            BY <2>1, <2>3
        <3>2. /\ Finished(s) \in SyncRecord /\ SyncFits(Finished(s), published, severity)
             /\ Advances(s, Finished(s))
            BY <1>0, <2>1, <2>3, FinishedFits
        <3>3. QED
            BY <1>0, <2>1, <3>1, <3>2, OneSyncGoes
    <2>4. QED
        BY <2>2, <2>3
<1>15. QED
    BY <1>1, <1>2, <1>3, <1>4, <1>5, <1>6, <1>7, <1>8, <1>9, <1>10, <1>11, <1>12, <1>13, <1>14
       DEF SyncProceeds

LEMMA RequestGoes ==
    ASSUME IInv, NEW w \in Writer, NEW source \in Source, SyncRequest(w, source)
    PROVE  IInv' /\ SyncsAdvance
<1> DEFINE s == csync[w]
<1>1. PICK t : /\ t = [s EXCEPT !.pc = IF source = "nvd" THEN "get" ELSE "discover",
                                !.source = source, !.began = published]
               /\ Becomes(w, "ready", t) /\ UNCHANGED cveVars
    BY DEF SyncRequest
<1>2. /\ s \in SyncRecord /\ SyncFits(s, published, severity) /\ s.pc = "ready"
      /\ published \in Nat
    BY <1>1, SyncStands DEF Becomes
<1>3. t \in SyncRecord /\ SyncFits(t, published, severity) /\ Advances(s, t)
    BY <1>1, <1>2, RequestFits
<1>4. QED
    BY <1>1, <1>2, <1>3, OneSyncGoes

\* The NVD publishes a record.
LEMMA PublishKeeps ==
    ASSUME IInv, Publish
    PROVE  IInv' /\ SyncsAdvance
<1>1. /\ published' = published + 1 /\ published < Len(NvdRecord) /\ published \in Nat
      /\ UNCHANGED << severity, affected, writing, csync, crashes >>
    BY FeedAssumption DEF Publish, cveVars, IInv, TypeOK
<1>2. published' \in 0 .. Len(NvdRecord) /\ published <= published'
    BY <1>1, FeedAssumption
<1>3. TypeOK'
    BY <1>1, <1>2 DEF IInv, TypeOK, CveTypeOK
<1>4. ASSUME NEW w \in Writer PROVE SyncFits(csync[w], published', severity)
    <2>1. NoneGone(severity, severity)
        BY DEF NoneGone
    <2>2. QED
        BY <1>2, <2>1, SyncStands, StillFits
<1>5. SyncInv'
    BY <1>1, <1>4 DEF SyncInv
<1>6. QED
    BY <1>1, <1>3, <1>5, NoSyncMoves DEF IInv

\* The process dies: a sync under way ends, and is not complete.
LEMMA CrashKeeps ==
    ASSUME IInv, Crash
    PROVE  IInv' /\ SyncsAdvance
<1>1. ASSUME NEW w \in Writer
      PROVE  /\ csync'[w] \in SyncRecord /\ SyncFits(csync'[w], published, severity)
             /\ Advances(csync[w], csync'[w])
    <2>1. csync'[w] = csync[w] \/ csync'[w] = GivenUp(csync[w])
        BY DEF Crash
    <2>2. /\ csync[w] \in SyncRecord /\ SyncFits(csync[w], published, severity)
          /\ csync[w].began <= published
        BY SyncStands
    <2>3. /\ GivenUp(csync[w]) \in SyncRecord
          /\ SyncFits(GivenUp(csync[w]), published, severity)
          /\ Advances(csync[w], GivenUp(csync[w]))
        BY <2>2, GivenUpFits
    <2>4. Advances(csync[w], csync[w])
        BY DEF Advances
    <2>5. QED
        BY <2>1, <2>2, <2>3, <2>4
<1>2. csync' \in [Writer -> SyncRecord]
    <2>1. csync' = [w \in Writer |-> csync'[w]]
        BY DEF Crash
    <2>2. QED
        BY <1>1, <2>1
<1>3. CveTypeOK'
    BY DEF IInv, TypeOK, CveTypeOK, Crash, IdleWriter
<1>4. crashes' \in Nat /\ published' = published
    BY DEF IInv, TypeOK, Crash
<1>5. TypeOK'
    BY <1>2, <1>3, <1>4 DEF IInv, TypeOK, SyncRecord
<1>6. SyncInv'
    BY <1>1 DEF SyncInv, Crash
<1>7. QED
    BY <1>1, <1>5, <1>6 DEF IInv, SyncsAdvance

(***************************************************************************)
(* IInv is inductive.                                                      *)
(***************************************************************************)
LEMMA InitHolds == Init => IInv
<1>1. SUFFICES ASSUME Init PROVE IInv
    OBVIOUS
<1>2. Unstarted \in SyncRecord
    BY DEF Unstarted, SyncRecord, SyncPc
<1>3. csync = [w \in Writer |-> Unstarted] /\ published \in 0 .. Len(NvdRecord)
    BY <1>1 DEF Init
<1>4. CveTypeOK
    BY <1>1 DEF Init, CveTypeOK, IdleWriter
<1>5. TypeOK
    BY <1>1, <1>2, <1>3, <1>4 DEF Init, TypeOK, SyncRecord
<1>6. SyncFits(Unstarted, published, severity)
    BY <1>3, FeedAssumption DEF Unstarted, SyncFits, Course, Apart, Reading
<1>7. SyncInv
    BY <1>3, <1>6 DEF SyncInv
<1>8. QED
    BY <1>5, <1>7 DEF IInv

LEMMA StepHolds == IInv /\ [Next]_vars => IInv' /\ SyncsAdvance
<1>1. SUFFICES ASSUME IInv, [Next]_vars PROVE IInv' /\ SyncsAdvance
    OBVIOUS
<1>2. CASE UNCHANGED vars
    <2>1. TypeOK' /\ SyncInv'
        BY <1>1, <1>2 DEF vars, cveVars, IInv, TypeOK, CveTypeOK, SyncInv
    <2>2. SyncsAdvance
        BY <1>2, NoSyncMoves DEF vars
    <2>3. QED
        BY <2>1, <2>2 DEF IInv
<1>3. CASE Next
    BY <1>1, <1>3, PublishKeeps, RequestGoes, SyncGoes, CrashKeeps DEF Next
<1>4. QED
    BY <1>1, <1>2, <1>3

LEMMA InvariantHolds == Spec => []IInv
BY InitHolds, StepHolds, PTL DEF Spec

(***************************************************************************)
(* Type correctness.                                                       *)
(***************************************************************************)
THEOREM SyncTypeCorrect == Spec => []TypeOK
BY InvariantHolds, PTL DEF IInv

(***************************************************************************)
(* How a sync comes to its end while the process lives: through its        *)
(* records, or giving up a download or an archive it could not open.       *)
(***************************************************************************)
(* A successful NVD sync without a failed record has imported the first    *)
(* records of the NVD, and all it had at the start unless a page could not *)
(* be had, whatever the NVD published and the other syncs wrote meanwhile: *)
(* for any feed, any page size and any number of syncs.                    *)
(***************************************************************************)
THEOREM NvdImportsInFull == Spec => []NvdImportedInFull
<1>1. IInv => NvdImportedInFull
    BY DEF IInv, SyncInv, SyncFits, Result, Imported, NvdImportedInFull
<1>2. QED
    BY <1>1, InvariantHolds, PTL

(***************************************************************************)
(* A CVE.org sync that got through its archive has met every record of it  *)
(* once: for any archives, nested to any depth, and any entries it passed  *)
(* over.                                                                   *)
(***************************************************************************)
THEOREM ArchivesCountInFull == Spec => []ArchiveCountedInFull
<1>1. ASSUME IInv, NEW w \in Writer,
             csync[w].source = "cveorg", csync[w].pc = "done", csync[w].complete
      PROVE  LET s   == csync[w]
                 all == Documents(s.file)
             IN  /\ s.added + s.failed + Cardinality(s.skipped) = Cardinality(all)
                 /\ s.failed = 0 =>
                       \A r \in all \ s.skipped : severity[r.cve] # NotImported
    <2> DEFINE s == csync[w]
    <2>1. s \in SyncRecord /\ s.todo = {} /\ ArchiveSoFar(s, severity) /\ InHand(s) = 0
        BY <1>1, SyncStands DEF SyncFits, Result, InHand
    <2>2. Cardinality(s.todo) = 0 /\ Cardinality(s.skipped) \in Nat
        BY <2>1, FS_EmptySet, FS_CardinalityType DEF ArchiveSoFar
    <2>3. s.added \in Nat /\ s.failed \in Nat
        BY <2>1 DEF SyncRecord
    <2> HIDE DEF s
    <2>4. s.added + s.failed + Cardinality(s.skipped) = Cardinality(Documents(s.file))
        BY <2>1, <2>2, <2>3 DEF ArchiveSoFar
    <2>5. s.failed = 0 => \A r \in Documents(s.file) \ s.skipped : severity[r.cve] # NotImported
        BY <2>1 DEF ArchiveSoFar, Imported
    <2>6. QED
        BY <2>4, <2>5 DEF s
<1>2. IInv => ArchiveCountedInFull
    BY <1>1 DEF ArchiveCountedInFull
<1>3. QED
    BY <1>2, InvariantHolds, PTL

-----------------------------------------------------------------------------

\* Whoever is past a row stays past it, if nobody takes on a record.
LEMMA PastGrows ==
    ASSUME IInv, SyncsAdvance, NEW row \in AffectedRow,
           \A w \in Writer : Ahead(csync'[w], writing'[w], row) => Ahead(csync[w], writing[w], row)
    PROVE  /\ Past(row) \subseteq Past(row)'
           /\ IsFiniteSet(Past(row)) /\ IsFiniteSet(Past(row)')
           /\ Cardinality(Past(row)) \in Nat /\ Cardinality(Past(row)') \in Nat
           /\ Cardinality(Past(row)) <= Cardinality(Past(row)')
<1>1. Past(row) \subseteq Past(row)'
    BY DEF Past, SyncsAdvance, Advances
<1>2. Past(row) \subseteq Writer /\ Past(row)' \subseteq Writer
    BY DEF Past
<1>3. IsFiniteSet(Past(row)) /\ IsFiniteSet(Past(row)')
    BY <1>2, WriterAssumption, FS_Subset
<1>4. Cardinality(Past(row)) <= Cardinality(Past(row)')
    BY <1>1, <1>3, FS_Subset
<1>5. QED
    BY <1>1, <1>3, <1>4, FS_CardinalityType

(***************************************************************************)
(* Steps that leave cve_affected_products alone and give a writer no row   *)
(* of a record it was past.                                                *)
(***************************************************************************)
LEMMA NoRowInserted ==
    ASSUME IInv, RowsInv, SyncsAdvance, affected' = affected,
           \A w \in Writer : writing'[w].todo # {} =>
               /\ writing'[w].cve \notin Coming(csync'[w])
               /\ \/ writing'[w] = writing[w]
                  \/ writing'[w].cve \in Coming(csync[w])
    PROVE  RowsInv'
<1>1. ASSUME NEW row \in AffectedRow PROVE affected[row] <= Cardinality(Past(row)')
    <2>1. ASSUME NEW w \in Writer, Ahead(csync'[w], writing'[w], row)
          PROVE  Ahead(csync[w], writing[w], row)
        BY <2>1 DEF Ahead, SyncsAdvance, Advances
    <2>2. /\ Cardinality(Past(row)) \in Nat /\ Cardinality(Past(row)') \in Nat
          /\ Cardinality(Past(row)) <= Cardinality(Past(row)')
        BY <2>1, PastGrows
    <2>3. affected[row] \in Nat /\ affected[row] <= Cardinality(Past(row))
        BY DEF IInv, TypeOK, CveTypeOK, RowsInv
    <2>4. QED
        BY <2>2, <2>3
<1>2. \A w \in Writer : writing'[w].todo # {} => writing'[w].cve \notin Coming(csync'[w])
    OBVIOUS
<1>3. \A row \in AffectedRow : affected'[row] <= Cardinality(Past(row)')
    BY <1>1
<1>4. QED
    BY <1>2, <1>3 DEF RowsInv

\* An insert: its sync is past the row then, and was not before.
LEMMA RowInserted ==
    ASSUME IInv, RowsInv, SyncsAdvance, NEW w \in Writer, InsertRange(w)
    PROVE  RowsInv'
<1>1. PICK x \in writing[w].todo : InsertAffectedProduct(w, x)
    BY DEF InsertRange
<1>2. csync' = csync /\ csync[w].pc = "ranges"
    BY DEF InsertRange
<1> DEFINE c == writing[w].cve
           one == [cve |-> c, range |-> x]
           fewer == [cve |-> c, todo |-> writing[w].todo \ {x}]
<1>3. /\ writing' = [writing EXCEPT ![w] = fewer]
      /\ affected' \in {affected, OneMore(one)}
    BY <1>1 DEF InsertAffectedProduct
<1>4. /\ writing \in [Writer -> [cve : Cve \cup {NoRow}, todo : SUBSET VersionedPackage]]
      /\ affected \in [AffectedRow -> Nat] /\ c \in Cve /\ x \in VersionedPackage
    BY <1>1 DEF IInv, TypeOK, CveTypeOK
<1>5. one \in AffectedRow /\ one.cve = c /\ one.range = x
    BY <1>4 DEF AffectedRow
<1>6. fewer.cve = c /\ fewer.todo = writing[w].todo \ {x}
    OBVIOUS
<1>7. \A v \in Writer : writing'[v] = IF v = w THEN fewer ELSE writing[v]
    BY <1>3, <1>4
<1>8. c \notin Coming(csync[w])
    BY <1>1 DEF RowsInv
<1> HIDE DEF fewer, one
<1>9. ASSUME NEW v \in Writer, writing'[v].todo # {}
      PROVE  writing'[v].cve \notin Coming(csync'[v])
    <2>1. CASE v = w
        BY <1>2, <1>6, <1>7, <1>8, <2>1
    <2>2. CASE v # w
        BY <1>2, <1>7, <1>9, <2>2 DEF RowsInv
    <2>3. QED
        BY <2>1, <2>2
<1>10. ASSUME NEW row \in AffectedRow PROVE affected'[row] <= Cardinality(Past(row)')
    <2>1. ASSUME NEW v \in Writer, Ahead(csync'[v], writing'[v], row)
          PROVE  Ahead(csync[v], writing[v], row)
        BY <1>2, <1>6, <1>7, <2>1 DEF Ahead
    <2>2. /\ Past(row) \subseteq Past(row)' /\ IsFiniteSet(Past(row)) /\ IsFiniteSet(Past(row)')
          /\ Cardinality(Past(row)) \in Nat /\ Cardinality(Past(row)') \in Nat
          /\ Cardinality(Past(row)) <= Cardinality(Past(row)')
        BY <2>1, PastGrows
    <2>3. affected[row] \in Nat /\ affected[row] <= Cardinality(Past(row))
        BY <1>4 DEF RowsInv
    <2>4. CASE affected'[row] = affected[row]
        BY <2>2, <2>3, <2>4
    <2>5. CASE affected'[row] # affected[row]
        <3>1. row = one /\ affected'[row] = affected[row] + 1
            BY <1>3, <1>4, <1>5, <2>5 DEF OneMore
        <3>2. w \notin Past(row)
            BY <1>1, <1>5, <3>1 DEF Past, Ahead
        <3>3. w \in Past(row)'
            <4>1. ~ Ahead(csync'[w], writing'[w], row)
                BY <1>2, <1>5, <1>6, <1>7, <1>8, <3>1 DEF Ahead
            <4>2. QED
                BY <1>2, <4>1 DEF Past
        <3>4. Cardinality(Past(row) \cup {w}) = Cardinality(Past(row)) + 1
            BY <2>2, <3>2, FS_AddElement
        <3>5. Past(row) \cup {w} \subseteq Past(row)'
            BY <2>2, <3>3
        <3>6. Cardinality(Past(row) \cup {w}) <= Cardinality(Past(row)')
            BY <2>2, <3>5, FS_Subset
        <3>7. QED
            BY <2>2, <2>3, <3>1, <3>4, <3>6
    <2>6. QED
        BY <2>4, <2>5
<1>11. QED
    BY <1>9, <1>10 DEF RowsInv

(***************************************************************************)
(* Every other step inserts no row; an upsert gives its writer the rows of *)
(* a record that was still coming and no longer is.                        *)
(***************************************************************************)
LEMMA OthersInsertNone ==
    ASSUME IInv, RowsInv, [Next]_vars, \A w \in Writer : ~ InsertRange(w)
    PROVE  RowsInv'
<1>0. SyncsAdvance
    BY StepHolds
<1>1. CASE UNCHANGED << affected, writing >>
    <2>1. ASSUME NEW w \in Writer, writing'[w].todo # {}
          PROVE  writing'[w].cve \notin Coming(csync'[w]) /\ writing'[w] = writing[w]
        BY <1>0, <1>1, <2>1 DEF RowsInv, SyncsAdvance, Advances
    <2>2. affected' = affected
        BY <1>1
    <2>3. QED
        BY <1>0, <2>1, <2>2, NoRowInserted
<1>2. CASE Crash
    <2>1. affected' = affected /\ \A w \in Writer : writing'[w].todo = {}
        BY <1>2 DEF Crash, IdleWriter
    <2>2. QED
        BY <1>0, <2>1, NoRowInserted
<1>3. ASSUME NEW w \in Writer, Upsert(w) PROVE RowsInv'
    <2> DEFINE s == csync[w]
    <2>1. PICK r, t :
              /\ r \in s.todo
              /\ UpsertCveRecord(w, r.cve, r.severity, r.ranges)
              /\ t = [s EXCEPT !.pc = "ranges", !.record = r, !.todo = @ \ {r}]
              /\ Becomes(w, "records", t)
        BY <1>3 DEF Upsert
    <2>2. /\ s \in SyncRecord /\ SyncFits(s, published, severity) /\ CveTypeOK /\ r \in Record
          /\ published \in 0 .. Len(NvdRecord) /\ severity \in Severities /\ s.pc = "records"
        BY <2>1, SyncStands DEF IInv, TypeOK, SyncRecord, Becomes
    <2>3. NoneGone(severity, severity') /\ Imported(r, severity') /\ severity' \in Severities
        BY <2>1, <2>2, UpsertKeepsRecords DEF CveTypeOK, Severities
    <2>4. r.cve \in Coming(s) /\ r.cve \notin Coming(t)
        BY <2>1, <2>2, <2>3, UpsertFits
    <2>5. /\ affected' = affected
          /\ writing' = [writing EXCEPT ![w] = [cve |-> r.cve, todo |-> r.ranges]]
          /\ csync' = [csync EXCEPT ![w] = t]
        BY <2>1 DEF UpsertCveRecord, Becomes
    <2>6. /\ \A v \in Writer : csync'[v] = IF v = w THEN t ELSE csync[v]
          /\ writing'[w].cve = r.cve
          /\ \A v \in Writer : v # w => writing'[v] = writing[v]
        BY <2>2, <2>5 DEF IInv, TypeOK, CveTypeOK
    <2> HIDE DEF s
    <2>7. ASSUME NEW v \in Writer, writing'[v].todo # {}
          PROVE  /\ writing'[v].cve \notin Coming(csync'[v])
                 /\ writing'[v] = writing[v] \/ writing'[v].cve \in Coming(csync[v])
        <3>1. CASE v = w
            BY <2>4, <2>6, <3>1 DEF s
        <3>2. CASE v # w
            BY <2>6, <2>7, <3>2 DEF RowsInv
        <3>3. QED
            BY <3>1, <3>2
    <2>8. QED
        BY <1>0, <2>5, <2>7, NoRowInserted
<1>4. ASSUME NEW w \in Writer, SyncProceeds(w), ~ Upsert(w), ~ InsertRange(w)
      PROVE  UNCHANGED << affected, writing >>
    BY <1>4 DEF SyncProceeds, ConnectFails, GetPage, GetFails, Discover, Download, DownloadFails,
                OpenZip, OpenZipFails, LoseEntry, UpsertFails, UpsertReturns, RecordsDone, cveVars
<1>5. ASSUME NEW w \in Writer, NEW source \in Source, SyncRequest(w, source)
      PROVE  UNCHANGED << affected, writing >>
    BY <1>5 DEF SyncRequest, cveVars
<1>6. Publish \/ UNCHANGED vars => UNCHANGED << affected, writing >>
    BY DEF Publish, vars, cveVars
<1>7. QED
    BY <1>1, <1>2, <1>3, <1>4, <1>5, <1>6 DEF Next

(***************************************************************************)
(* A sync adds no row twice: however often the feeds are read, there are   *)
(* no more copies of a row than there have been syncs.                     *)
(***************************************************************************)
THEOREM RangesOncePerSync == Spec => []RangeOncePerSync
<1>1. Init => RowsInv
    <2>1. SUFFICES ASSUME Init PROVE RowsInv
        OBVIOUS
    <2>2. ASSUME NEW row \in AffectedRow PROVE affected[row] <= Cardinality(Past(row))
        <3>1. IsFiniteSet(Past(row))
            BY WriterAssumption, FS_Subset DEF Past
        <3>2. Cardinality(Past(row)) \in Nat
            BY <3>1, FS_CardinalityType
        <3>3. affected[row] = 0
            BY <2>1 DEF Init
        <3>4. QED
            BY <3>2, <3>3
    <2>3. QED
        BY <2>1, <2>2 DEF Init, RowsInv, IdleWriter
<1>2. IInv /\ RowsInv /\ [Next]_vars => RowsInv'
    <2>1. SUFFICES ASSUME IInv, RowsInv, [Next]_vars PROVE RowsInv'
        OBVIOUS
    <2>2. CASE \E w \in Writer : InsertRange(w)
        BY <2>1, <2>2, StepHolds, RowInserted
    <2>3. QED
        BY <2>1, <2>2, OthersInsertNone
<1>3. IInv /\ RowsInv => RangeOncePerSync
    <2>1. SUFFICES ASSUME IInv, RowsInv, NEW row \in AffectedRow
                   PROVE  affected[row] <= Cardinality({w \in Writer : csync[w].pc # "ready"})
        BY DEF RangeOncePerSync
    <2> DEFINE S == {w \in Writer : csync[w].pc # "ready"}
    <2>2. IsFiniteSet(S)
        BY WriterAssumption, FS_Subset
    <2>3. Past(row) \subseteq S
        BY DEF Past
    <2> HIDE DEF S
    <2>4. /\ IsFiniteSet(Past(row)) /\ Cardinality(Past(row)) <= Cardinality(S)
          /\ Cardinality(S) \in Nat
        BY <2>2, <2>3, FS_Subset, FS_CardinalityType
    <2>5. Cardinality(Past(row)) \in Nat
        BY <2>4, FS_CardinalityType
    <2>6. affected[row] \in Nat /\ affected[row] <= Cardinality(Past(row))
        BY <2>1 DEF IInv, TypeOK, CveTypeOK, RowsInv
    <2>7. QED
        BY <2>4, <2>5, <2>6 DEF S
<1>4. QED
    BY <1>1, <1>2, <1>3, InvariantHolds, PTL DEF Spec
=============================================================================
