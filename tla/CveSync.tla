------------------------------- MODULE CveSync -------------------------------
(***************************************************************************)
(* The CVE sources' syncs over CveDbWriter: NvdSource pages through the    *)
(* NVD's records, CveOrgSource downloads an archive into the plugin's one  *)
(* cache directory and walks its entries.  CveSourceController::sync runs  *)
(* a sync on the thread of its request, and nothing keeps two syncs, of    *)
(* two sources or of the same, from running at once.                       *)
(*                                                                         *)
(* A record is what the parsers make of a JSON document: the CVE, its      *)
(* severity and the package versions its ranges match.  A document they    *)
(* reject is not in the feed; one they throw on ends the process (Crash).  *)
(*                                                                         *)
(* The cache file is written in place.  That a second sync empties it or   *)
(* writes it at the same time, that the file is damaged, or that a nested  *)
(* archive in it is: the sync meets all of them as an archive that does    *)
(* not open or as entries that cannot be read, and both may happen to any  *)
(* sync at any time.                                                       *)
(***************************************************************************)
EXTENDS CveDbWriter, Sequences

CONSTANTS
    NvdRecord,  \* the records of the NVD, in the order it lists them
    PageSize,   \* NvdSource::PAGE_SIZE
    Archive,    \* Archive[f]: the entries of CVE.org's "delta" and "full"
    MaxCrashes  \* bound on the crashes of the process

File   == {"delta", "full"}
Record == [cve : Cve, severity : Severity, ranges : SUBSET VersionedPackage]
Source == {"nvd", "cveorg"}
\* depth: how many archives the entry's own archive is nested in.
Entry  == [record : Record, depth : Nat]

ASSUME FeedAssumption ==
    /\ NvdRecord \in Seq(Record)
    /\ PageSize \in Nat \ {0}
    /\ Archive \in [File -> SUBSET Entry]

\* The NVD lists no CVE twice and an archive has one document for each: a
\* page and the entries of an archive are sets.
ASSUME DistinctAssumption ==
    /\ \A i, k \in DOMAIN NvdRecord : NvdRecord[i].cve = NvdRecord[k].cve => i = k
    /\ \A f \in File :
          /\ IsFiniteSet(Archive[f])
          /\ \A d, e \in Archive[f] : d.record.cve = e.record.cve => d = e

ASSUME WriterAssumption == IsFiniteSet(Writer)

VARIABLES
    published, \* how many records the NVD has by now
    csync,     \* the local variables and the result of each sync
    crashes

cveVars  == << severity, affected, writing >>
vars == << cveVars, published, csync, crashes >>

SyncPc == {"ready", "get", "discover", "download", "open", "records", "ranges", "done"}

\* began: what the NVD had when the sync started.  complete: the sync got to
\* its last page or through its archive.  skipped: the records of entries it
\* passed over, which the code keeps no count of.
Unstarted ==
    [pc |-> "ready", source |-> NoRow, began |-> 0, start |-> 0, more |-> FALSE, offered |-> {},
     file |-> NoRow, todo |-> {}, record |-> NoRow, added |-> 0, failed |-> 0,
     skipped |-> {}, complete |-> TRUE, success |-> FALSE]

TypeOK ==
    /\ CveTypeOK
    /\ published \in 0 .. Len(NvdRecord)
    /\ csync \in [Writer -> [pc : SyncPc, source : Source \cup {NoRow}, began : Nat, start : Nat, more : BOOLEAN,
                             offered : SUBSET File, file : File \cup {NoRow},
                             todo : SUBSET Record, record : Record \cup {NoRow},
                             added : Nat, failed : Nat, skipped : SUBSET Record,
                             complete : BOOLEAN, success : BOOLEAN]]
    /\ crashes \in Nat

Init ==
    /\ severity = [c \in Cve |-> NotImported]
    /\ affected = [row \in AffectedRow |-> 0]
    /\ writing = [w \in Writer |-> IdleWriter]
    /\ published \in 0 .. Len(NvdRecord)
    /\ csync = [w \in Writer |-> Unstarted]
    /\ crashes = 0

-----------------------------------------------------------------------------

\* The NVD publishes its next record.
Publish ==
    /\ published < Len(NvdRecord)
    /\ published' = published + 1
    /\ UNCHANGED << cveVars, csync, crashes >>

\* Sync w is at pc and becomes s.
Becomes(w, pc, s) ==
    /\ csync[w].pc = pc
    /\ csync' = [csync EXCEPT ![w] = s]
    /\ UNCHANGED << published, crashes >>

SyncRequest(w, source) ==
    /\ Becomes(w, "ready", [csync[w] EXCEPT
           !.pc = IF source = "nvd" THEN "get" ELSE "discover",
           !.source = source, !.began = published])
    /\ UNCHANGED cveVars

\* The result of a sync whose records are all handled.
Succeeds(s) == s.added > 0 \/ s.failed = 0

\* What is left of a sync that returned: its result, and what it was about.
Ended(s, success) ==
    [Unstarted EXCEPT !.pc = "done", !.source = s.source, !.began = s.began, !.file = s.file,
        !.added = s.added, !.failed = s.failed, !.skipped = s.skipped, !.complete = s.complete,
        !.success = success]

Finished(s) == Ended(s, Succeeds(s))
GivenUp(s)  == Ended([s EXCEPT !.complete = FALSE], FALSE)

\* The records of the page that starts at s.
Page(s) == {NvdRecord[i] : i \in {k \in s + 1 .. s + PageSize : k <= published}}

\* How many records the page has: resultsPerPage of the reply.
Returned(s) == Cardinality({k \in s + 1 .. s + PageSize : k <= published})

\* A slip: one page more when the last one was just full.
MoreOffByOne(s) == s + Returned(s) <= published

\* A slip: the index of the next page counts from one.
NextStartFromOne(s) == s + Returned(s) + 1

\* A slip: the next page starts with the last record of this one.
NextStartOverlapping(s) == s + Returned(s) - 1

\* nextPageUrl: is there a next page, and where does it start?
More(s)      == s + Returned(s) < published
NextStart(s) == s + Returned(s)

\* NvdSource::sync's database connection is refused before the first page.
ConnectFails(w) ==
    /\ csync[w].start = 0
    /\ Becomes(w, "get", GivenUp(csync[w]))
    /\ UNCHANGED cveVars

\* paginate: GET a page, parse it, and work out the next URL.
GetPage(w) ==
    /\ LET s == csync[w].start IN
       Becomes(w, "get", [csync[w] EXCEPT !.pc = "records", !.todo = Page(s),
                              !.more = More(s), !.start = NextStart(s)])
    /\ UNCHANGED cveVars

\* A page that cannot be had, or is no JSON, ends the loop, not the sync.
GetFails(w) ==
    /\ Becomes(w, "get", Finished([csync[w] EXCEPT !.complete = FALSE]))
    /\ UNCHANGED cveVars

\* discoverAssetUrls: some of the files, or none.
Discover(w) ==
    /\ \E fs \in SUBSET File :
          Becomes(w, "discover",
                  IF fs = {} THEN GivenUp(csync[w])
                  ELSE [csync[w] EXCEPT !.pc = "download", !.offered = fs])
    /\ UNCHANGED cveVars

\* The file to try: the delta if it is offered, else all CVEs.
Tried(s) == IF "delta" \in s.offered THEN "delta" ELSE "full"

\* downloadFile: the reply is in the cache file.
Download(w) ==
    /\ Becomes(w, "download", [csync[w] EXCEPT !.pc = "open", !.file = Tried(csync[w])])
    /\ UNCHANGED cveVars

\* The GET or the write fails: the next file is tried, if there is one.
DownloadFails(w) ==
    LET rest == csync[w].offered \ {Tried(csync[w])} IN
    /\ Becomes(w, "download", IF rest = {} THEN GivenUp(csync[w])
                              ELSE [csync[w] EXCEPT !.offered = rest])
    /\ UNCHANGED cveVars

\* A slip: archives within the archive are not opened.
TopLevel(f) == {e.record : e \in {x \in Archive[f] : x.depth < 1}}

\* The records processZipEntries reaches; kMaxZipNestingDepth is 4.
Entries(f) == {e.record : e \in {x \in Archive[f] : x.depth <= 4}}

\* Those below them, where the descent is aborted.
TooDeep(f) == {e.record : e \in {x \in Archive[f] : x.depth > 4}}

\* processBulkZip.
OpenZip(w) ==
    /\ Becomes(w, "open", [csync[w] EXCEPT !.pc = "records", !.todo = Entries(csync[w].file),
                               !.skipped = TooDeep(csync[w].file)])
    /\ UNCHANGED cveVars

\* The archive is broken, or the database refuses the connection.
OpenZipFails(w) ==
    /\ Becomes(w, "open", GivenUp(csync[w]))
    /\ UNCHANGED cveVars

\* An entry that cannot be opened, read to its end or parsed is passed over;
\* of a nested archive that does not open, this is every entry.
LoseEntry(w) ==
    /\ csync[w].source = "cveorg"
    /\ \E r \in csync[w].todo :
          Becomes(w, "records", [csync[w] EXCEPT !.todo = @ \ {r}, !.skipped = @ \cup {r}])
    /\ UNCHANGED cveVars

\* upsertCve: the record, then its ranges one by one, then the count.
Upsert(w) ==
    \E r \in csync[w].todo :
        /\ UpsertCveRecord(w, r.cve, r.severity, r.ranges)
        /\ Becomes(w, "records", [csync[w] EXCEPT !.pc = "ranges", !.record = r, !.todo = @ \ {r}])

UpsertFails(w) ==
    /\ \E r \in csync[w].todo :
          Becomes(w, "records", [csync[w] EXCEPT !.todo = @ \ {r}, !.failed = @ + 1])
    /\ UNCHANGED cveVars

InsertRange(w) ==
    /\ csync[w].pc = "ranges"
    /\ \E x \in writing[w].todo : InsertAffectedProduct(w, x)
    /\ UNCHANGED << published, csync, crashes >>

UpsertReturns(w) ==
    /\ writing[w].todo = {}
    /\ Becomes(w, "ranges", [csync[w] EXCEPT !.pc = "records", !.added = @ + 1,
                                 !.record = NoRow])
    /\ UNCHANGED cveVars

\* The page or the archive is through.
RecordsDone(w) ==
    /\ csync[w].todo = {}
    /\ Becomes(w, "records", IF csync[w].more THEN [csync[w] EXCEPT !.pc = "get"]
                                              ELSE Finished(csync[w]))
    /\ UNCHANGED cveVars

\* The process dies, with the syncs under way, and is started again.
Crash ==
    /\ crashes < MaxCrashes
    /\ crashes' = crashes + 1
    /\ csync' = [w \in Writer |->
           IF csync[w].pc \in {"ready", "done"} THEN csync[w]
           ELSE GivenUp(csync[w])]
    /\ writing' = [w \in Writer |-> IdleWriter]
    /\ UNCHANGED << severity, affected, published >>

SyncProceeds(w) ==
    \/ ConnectFails(w) \/ GetPage(w) \/ GetFails(w)
    \/ Discover(w) \/ Download(w) \/ DownloadFails(w)
    \/ OpenZip(w) \/ OpenZipFails(w)
    \/ LoseEntry(w) \/ Upsert(w) \/ UpsertFails(w) \/ InsertRange(w) \/ UpsertReturns(w)
    \/ RecordsDone(w)

Next ==
    \/ Publish
    \/ \E w \in Writer, source \in Source : SyncRequest(w, source)
    \/ \E w \in Writer : SyncProceeds(w)
    \/ Crash

(***************************************************************************)
(* Fairness: the thread of a sync runs on; every request it waits for ends *)
(* by CURLOPT_TIMEOUT at the latest.                                       *)
(***************************************************************************)
Spec == Init /\ [][Next]_vars /\ \A w \in Writer : WF_vars(SyncProceeds(w))

-----------------------------------------------------------------------------

(***************************************************************************)
(* An NVD sync that reports success without a failed record has imported   *)
(* the first records of the NVD, as many as it says it added; and unless a *)
(* page could not be had, which the report does not tell, these are all    *)
(* the NVD had when it began, though records were published and other      *)
(* syncs wrote the same tables meanwhile (NvdParser::nextPageUrl,          *)
(* CveHttpClient::paginate, NvdSource::sync).                              *)
(***************************************************************************)
NvdImportedInFull ==
    \A w \in Writer :
        /\ csync[w].source = "nvd" /\ csync[w].pc = "done"
        /\ csync[w].success /\ csync[w].failed = 0
        => /\ \A i \in 1 .. csync[w].added : severity[NvdRecord[i].cve] # NotImported
           /\ csync[w].complete => csync[w].added >= csync[w].began

\* The records of an archive, at any depth.
Documents(f) == {e.record : e \in Archive[f]}

(***************************************************************************)
(* A CVE.org sync that got through its archive has met every record of it, *)
(* in whatever archive within it, once: it counted the record as added or  *)
(* failed, or passed it over without a count; and if none failed, all it   *)
(* did not pass over are imported, whatever other syncs do                 *)
(* (CveOrgSource::processZipEntries).                                      *)
(***************************************************************************)
ArchiveCountedInFull ==
    \A w \in Writer :
        csync[w].source = "cveorg" /\ csync[w].pc = "done" /\ csync[w].complete
        => LET s   == csync[w]
               all == Documents(s.file)
           IN  /\ s.added + s.failed + Cardinality(s.skipped) = Cardinality(all)
               /\ s.failed = 0 =>
                     \A r \in all \ s.skipped : severity[r.cve] # NotImported

(***************************************************************************)
(* No constraint keeps a row of cve_affected_products from being there     *)
(* twice, and every sync adds the ranges of a record it has imported       *)
(* before once more; but a sync adds none twice, so the copies of a row    *)
(* are never more than the syncs there have been                           *)
(* (CveDbWriter::upsertAffectedProducts, paginate, processZipEntries).     *)
(***************************************************************************)
RangeOncePerSync ==
    \A row \in AffectedRow :
        affected[row] <= Cardinality({w \in Writer : csync[w].pc # "ready"})

(***************************************************************************)
(* Every sync ends: the pages come to an end though the NVD grows while    *)
(* it is read, and so do the downloads and the archives.                   *)
(***************************************************************************)
SyncsEnd == \A w \in Writer : csync[w].pc # "ready" ~> csync[w].pc = "done"
=============================================================================
