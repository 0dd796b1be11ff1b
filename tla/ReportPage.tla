----------------------------- MODULE ReportPage ------------------------------
(***************************************************************************)
(* A browser's page of one report (report-detail.component.ts, with its    *)
(* dialog), the requests it sends, and how MitigationController answers    *)
(* them: createBulk's UPDATEs complete on several DbLoop threads, which    *)
(* share the plain int that says when the last one has.  Mitigation has    *)
(* what the handlers do to the tables, and other clients do it too.        *)
(*                                                                         *)
(* Sorting and which of the rows a filter shows decide nothing but what    *)
(* "select all" takes.                                                     *)
(***************************************************************************)
EXTENDS Mitigation, Sequences

CONSTANTS
    Order,       \* the findings of the report, in the order of the list
    MaxSaves,    \* bounds on the dialogs saved,
    MaxOutside   \* and on what others do, connections that fail included

ASSUME OrderAssumption ==
    /\ Order \in Seq(FindingRow)
    /\ \A i, k \in DOMAIN Order :
          Order[i].report = Order[k].report /\ (Order[i] = Order[k] => i = k)

VARIABLES
    shown,     \* the page's list: the findings, and those it has a mitigation for
    selected,  \* selectedIds
    dialog,    \* the findings it names and the request it waits for, 0 for none
    loads,     \* the GETs of the list under way, with the answer once there is one
    loaded,    \* how many were sent, and the one shown
    posts,     \* the POSTs that have not reached the database
    request,   \* those that have: each one's mitigation, findings, counter and answers
    callbacks, \* UPDATEs done whose callback has still to run
    counting,  \* callbacks that have read the counter, and what they read
    replies,   \* the answers on their way to the page
    saves, outside,
    owed,      \* history: findings a request of the page has mitigated, so far
    confirmed, \* history: the requests whose dialog closed with their answer
    hasty      \* history: ticked, or opened a dialog, while a load was under way

pageVars   == << shown, selected, dialog, loads, loaded, confirmed, hasty >>
answerVars == << posts, request, callbacks, counting, replies >>
countVars  == << saves, outside >>
vars == << tables, up, mitigationVars, writing, pageVars, answerVars, countVars, owed >>

Listed == {Order[i] : i \in DOMAIN Order}

\* ids[0] of a request for the findings fs.
First(fs) == CHOOSE f \in fs : \E i \in DOMAIN Order :
                 Order[i] = f /\ \A k \in 1 .. i - 1 : Order[k] \notin fs

NoDialog == [findings |-> {}, waits |-> 0]

Unanswered == [all |-> {}, mitigated |-> {}, at |-> 0]

\* The list as the findings handler SELECTs it.
CurrentList == [all |-> findings, mitigated |-> {f \in findings : MitigatedBy(f) # {}}, at |-> 1]

ListType == [all : SUBSET Listed, mitigated : SUBSET Listed, at : {0, 1}]

Saves == 1 .. saves

TypeOK ==
    /\ SchemaTypeOK /\ MitigationTypeOK
    /\ shown \in ListType /\ selected \subseteq Listed
    /\ dialog \in [findings : SUBSET Listed, waits : 0 .. saves]
    /\ loads \subseteq [n : Nat, list : ListType]
    /\ loaded \in [sent : Nat, shown : Nat] /\ loaded.shown <= loaded.sent
    /\ posts \subseteq [n : Saves, findings : SUBSET Listed]
    /\ DOMAIN request \subseteq Saves
    /\ \A n \in DOMAIN request :
          /\ request[n] \in [mitigation : MitigationRow, findings : SUBSET Listed,
                             completed : Nat, answers : Nat, created : BOOLEAN,
                             lost : BOOLEAN, failed : Nat]
          /\ request[n].completed + request[n].failed <= Cardinality(request[n].findings)
    /\ callbacks \subseteq Link
    /\ counting \subseteq [link : Link, value : Nat]
    /\ replies \subseteq [n : Saves, ok : BOOLEAN]
    /\ saves \in Nat /\ outside \in Nat
    /\ owed \subseteq Saves \X Listed /\ confirmed \subseteq Saves /\ hasty \in BOOLEAN

\* The tables after a report was generated; the page is opened.
Init ==
    /\ projects = {f.report.version.project : f \in Listed}
    /\ versions = {f.report.version : f \in Listed} /\ analyzed = versions
    /\ deps = {f.dep : f \in Listed}
    /\ reports = {f.report : f \in Listed}
    /\ summary = [r \in reports |-> EmptySummary]
    /\ findings = Listed /\ mitigations = {} /\ links = {}
    /\ severity = [c \in Cve |-> NotImported] /\ affected = [x \in AffectedRow |-> 0]
    /\ writing = [w \in Writer |-> IdleWriter] /\ up = TRUE
    /\ MitigationInit
    /\ shown = Unanswered /\ selected = {} /\ dialog = NoDialog
    /\ loads = {[n |-> 1, list |-> Unanswered]} /\ loaded = [sent |-> 1, shown |-> 0]
    /\ posts = {} /\ request = [n \in {} |-> 0] /\ callbacks = {} /\ counting = {}
    /\ replies = {} /\ saves = 0 /\ outside = 0
    /\ owed = {} /\ confirmed = {} /\ hasty = FALSE

-----------------------------------------------------------------------------

FromOutside == outside < MaxOutside /\ outside' = outside + 1

Open == shown.all \ shown.mitigated

\* A step of the page alone.
PageOnly == UNCHANGED << tables, up, mitigationVars, writing, answerVars, countVars, owed >>

\* toggleSelect: only rows without a mitigation have a box.
ToggleSelect(f, checked) ==
    /\ dialog = NoDialog /\ f \in Open
    /\ selected' = IF checked THEN selected \cup {f} ELSE selected \ {f}
    /\ hasty' = (hasty \/ loads # {})
    /\ UNCHANGED << shown, dialog, loads, loaded, confirmed >> /\ PageOnly

\* toggleSelectAll, of the open findings a filter shows.
ToggleSelectAll(filter, checked) ==
    /\ dialog = NoDialog
    /\ LET visible == {f \in Open : f.severity \in filter} IN
       selected' = IF checked THEN selected \cup visible ELSE selected \ visible
    /\ hasty' = (hasty \/ loads # {})
    /\ UNCHANGED << shown, dialog, loads, loaded, confirmed >> /\ PageOnly

OpenDialog(fs) ==
    /\ dialog = NoDialog /\ fs # {}
    /\ dialog' = [findings |-> fs, waits |-> 0]
    /\ hasty' = (hasty \/ loads # {})
    /\ UNCHANGED << shown, selected, loads, loaded, confirmed >> /\ PageOnly

OpenMitigation(f) == f \in Open /\ OpenDialog({f})

\* Of the whole list, shown or not.
MitigateSelected == OpenDialog(shown.all \cap selected)

\* Cancel, escape, a click beside it: also while it is saving.
Cancel ==
    /\ dialog # NoDialog
    /\ dialog' = NoDialog
    /\ UNCHANGED << shown, selected, loads, loaded, confirmed, hasty >> /\ PageOnly

\* save of the dialog: create for one finding, createBulk for several.
Save ==
    /\ dialog # NoDialog /\ dialog.waits = 0 /\ saves < MaxSaves
    /\ saves' = saves + 1
    /\ dialog' = [dialog EXCEPT !.waits = saves + 1]
    /\ posts' = posts \cup {[n |-> saves + 1, findings |-> dialog.findings]}
    /\ UNCHANGED << tables, up, mitigationVars, writing, shown, selected, loads, loaded,
                    confirmed, hasty, request, callbacks, counting, replies, outside,
                    owed >>

-----------------------------------------------------------------------------

\* The INSERT of create and createBulk, and the UPDATEs its callback issues.
InsertMitigation(p) ==
    /\ p \in posts
    /\ posts' = posts \ {p}
    /\ First(p.findings) \in findings
    /\ CreateMitigation(p.findings, First(p.findings))
    /\ request' = [n \in DOMAIN request \cup {p.n} |->
          IF n # p.n THEN request[n]
          ELSE [mitigation |-> [id |-> created + 1, finding |-> First(p.findings)],
                findings |-> p.findings, completed |-> 0, answers |-> 0,
                created |-> FALSE, lost |-> FALSE, failed |-> 0]]
    /\ owed' = owed \cup ({p.n} \X p.findings)
    /\ UNCHANGED << writing, pageVars, callbacks, counting, replies, countVars >>

\* Its foreign key: the finding named first is gone.
InsertRefused(p) ==
    /\ p \in posts
    /\ First(p.findings) \notin findings
    /\ posts' = posts \ {p}
    /\ replies' = replies \cup {[n |-> p.n, ok |-> FALSE]}
    /\ UNCHANGED << tables, up, mitigationVars, writing, pageVars, request, callbacks,
                    counting, countVars, owed >>

OfPage(l) == \E n \in DOMAIN request : request[n].mitigation = l.mitigation
NumberOf(l) == CHOOSE n \in DOMAIN request : request[n].mitigation = l.mitigation

\* One UPDATE; of a request of the page its callback is to run.
UpdateExecutes(l) ==
    /\ LinkMitigation(l)
    /\ callbacks' = IF OfPage(l) THEN callbacks \cup {l} ELSE callbacks
    /\ UNCHANGED << writing, pageVars, posts, request, counting, replies, countVars, owed >>

\* The answer of request n: a second one of the same request is not sent.
Replies(n, ok) ==
    IF request[n].answers = 0 THEN replies \cup {[n |-> n, ok |-> ok]} ELSE replies

\* A slip: the error callback counts as well.
FailedCounted(r) == [r EXCEPT !.failed = @ + 1, !.answers = @ + 1, !.completed = @ + 1]

\* The error callback answers, and leaves the counter.
Failed(r) == [r EXCEPT !.failed = @ + 1, !.answers = @ + 1]

\* The connection is lost, before the UPDATE or after it: its error callback
\* answers at once.
UpdateFails(l) ==
    /\ up /\ l \in linking /\ FromOutside
    /\ linking' = linking \ {l}
    /\ links' \in {links, IF l.finding \in findings /\ l.mitigation \in mitigations
                          THEN Relink(l) ELSE links}
    /\ IF OfPage(l)
       THEN LET n == NumberOf(l) IN
            /\ replies' = Replies(n, FALSE)
            /\ request' = [request EXCEPT ![n] = Failed(@)]
       ELSE UNCHANGED << replies, request >>
    /\ UNCHANGED << projects, versions, analyzed, deps, severity, affected, reports, summary,
                    findings, mitigations, created, up, writing, pageVars, posts, callbacks,
                    counting, saves, owed >>

\* The callback loads the counter ...
LoadCompleted(l) ==
    /\ l \in callbacks
    /\ callbacks' = callbacks \ {l}
    /\ counting' = counting \cup {[link |-> l, value |-> request[NumberOf(l)].completed]}
    /\ UNCHANGED << tables, up, mitigationVars, writing, pageVars, posts, request, replies,
                    countVars, owed >>

\* A slip: the first one answers.
CompleteAtOnce(value, fs) == value = 1

\* A slip: the old value of the counter is compared.
CompleteNever(value, fs) == value = Cardinality(fs) + 1

\* The test for the last of the UPDATEs.
Complete(value, fs) == value = Cardinality(fs)

\* Request r after a callback that read value: the last one answers.
Stored(r, value) ==
    LET last == Complete(value + 1, r.findings) IN
    [r EXCEPT !.completed = value + 1,
              !.lost = @ \/ r.completed # value,
              !.answers = IF last THEN @ + 1 ELSE @,
              !.created = @ \/ (last /\ r.answers = 0)]

\* ... and stores it plus one, over what other threads stored meanwhile.
StoreCompleted(c) ==
    LET n == NumberOf(c.link) IN
    /\ c \in counting
    /\ counting' = counting \ {c}
    /\ request' = [request EXCEPT ![n] = Stored(@, c.value)]
    /\ replies' = IF Complete(c.value + 1, request[n].findings) THEN Replies(n, TRUE)
                  ELSE replies
    /\ UNCHANGED << tables, up, mitigationVars, writing, pageVars, posts, callbacks,
                    countVars, owed >>

-----------------------------------------------------------------------------

Reload == loads \cup {[n |-> loaded.sent + 1, list |-> Unanswered]}

\* A slip: the selection outlives the dialog.
AfterSuccessKept == selected

\* selectedIds once a dialog has closed with a result.
AfterSuccess == {}

\* A slip: the list is not asked for again.
AfterClosedNoReload ==
    /\ selected' = AfterSuccess
    /\ UNCHANGED << loads, loaded >>

\* afterClosed with a result, of either kind of dialog.
AfterClosed ==
    /\ selected' = AfterSuccess
    /\ loads' = Reload
    /\ loaded' = [loaded EXCEPT !.sent = @ + 1]

\* The answer of request n arrives; nobody may be waiting for it any more.
ReplyArrives(r) ==
    /\ r \in replies
    /\ replies' = replies \ {r}
    /\ \/ /\ dialog.waits = r.n /\ r.ok
          /\ dialog' = NoDialog /\ confirmed' = confirmed \cup {r.n} /\ hasty' = FALSE
          /\ AfterClosed
       \/ /\ dialog.waits = r.n /\ ~ r.ok
          /\ dialog' = [dialog EXCEPT !.waits = 0]
          /\ UNCHANGED << selected, loads, loaded, confirmed, hasty >>
       \/ /\ dialog.waits # r.n
          /\ UNCHANGED << selected, dialog, loads, loaded, confirmed, hasty >>
    /\ UNCHANGED << tables, up, mitigationVars, writing, shown, posts, request, callbacks,
                    counting, countVars, owed >>

\* ReportController::findings executes its SELECT.
AnswerLoad(x) ==
    /\ x \in loads /\ x.list = Unanswered
    /\ loads' = (loads \ {x}) \cup {[x EXCEPT !.list = CurrentList]}
    /\ UNCHANGED << shown, selected, dialog, loaded, confirmed, hasty >> /\ PageOnly

\* Its answer arrives, in any order.
ShowLoad(x) ==
    /\ x \in loads /\ x.list # Unanswered
    /\ loads' = loads \ {x}
    /\ shown' = x.list /\ loaded' = [loaded EXCEPT !.shown = x.n]
    /\ UNCHANGED << selected, dialog, confirmed, hasty >> /\ PageOnly

\* remove, for this page or another client.  It answers 404, and the page
\* reloads only after a success.
Removed(f) ==
    /\ FromOutside /\ MitigatedBy(f) # {}
    /\ RemoveMitigation(f)
    /\ owed' = {x \in owed : x[2] # f}
    /\ UNCHANGED << writing, pageVars, answerVars, saves >>

\* The version is analysed again, and the findings of its reports are gone.
AnalysedAgain ==
    /\ FromOutside /\ findings # {}
    /\ Retain(versions, {})
    /\ owed' = {}
    /\ UNCHANGED << projects, analyzed, severity, affected, writing, up, mitigationVars,
                    pageVars, answerVars, saves >>

ServerProceeds ==
    \/ \E p \in posts : InsertMitigation(p) \/ InsertRefused(p)
    \/ \E l \in linking : UpdateExecutes(l) \/ UpdateFails(l)
    \/ \E l \in callbacks : LoadCompleted(l)
    \/ \E c \in counting : StoreCompleted(c)

PageProceeds ==
    \/ \E r \in replies : ReplyArrives(r)
    \/ \E x \in loads : AnswerLoad(x) \/ ShowLoad(x)

UserActs ==
    \/ \E f \in Listed : \E checked \in BOOLEAN : ToggleSelect(f, checked)
    \/ \E filter \in {Severity} \cup {{s} : s \in Severity} : \E checked \in BOOLEAN : ToggleSelectAll(filter, checked)
    \/ \E f \in Listed : OpenMitigation(f)
    \/ MitigateSelected \/ Cancel \/ Save

OthersAct ==
    \/ \E f \in Listed : Removed(f)
    \/ AnalysedAgain

Next == ServerProceeds \/ PageProceeds \/ UserActs \/ OthersAct

Spec == Init /\ [][Next]_vars

-----------------------------------------------------------------------------

(***************************************************************************)
(* A mitigation reported as created is: each finding it names that still   *)
(* exists was linked, by an UPDATE that did not fail, whatever the threads *)
(* did to the counter; and a request of which at most one UPDATE fails is  *)
(* answered once at most (MitigationController::createBulk).               *)
(***************************************************************************)
AnsweredWhenLinked ==
    \A n \in DOMAIN request :
        /\ request[n].created =>
              /\ request[n].failed = 0
              /\ \A l \in linking : l.mitigation # request[n].mitigation
        /\ request[n].failed <= 1 => request[n].answers <= 1

(***************************************************************************)
(* What the user was told is saved is what the list shows: with a dialog   *)
(* closed on its answer and the list as the last reload brought it, the    *)
(* findings the dialog named are mitigated, unless a removal or a new      *)
(* analysis undid it (ReportDetailComponent.reloadFindings).               *)
(***************************************************************************)
OwnMitigationShown ==
    loads = {} /\ loaded.shown = loaded.sent =>
        \A x \in owed : x[1] \in confirmed => x[2] \in shown.mitigated

(***************************************************************************)
(* The findings a dialog is about to mitigate are not shown as mitigated   *)
(* already, by whatever ways they were selected, unless the user ticked or *)
(* opened it while the list was being loaded                               *)
(* (ReportDetailComponent.mitigateSelected).                               *)
(***************************************************************************)
NamesOpenFindings ==
    dialog # NoDialog /\ ~ hasty => dialog.findings \cap shown.mitigated = {}

(***************************************************************************)
(* A request is not left without an answer: when the last of its UPDATEs   *)
(* is through, and its callback, one was sent, unless two threads lost an  *)
(* increment of its counter (MitigationController::createBulk).            *)
(***************************************************************************)
SavesAnswered ==
    \A n \in DOMAIN request :
        (\A l \in linking \cup callbacks \cup {c.link : c \in counting} :
            l.mitigation # request[n].mitigation)
        => request[n].answers > 0 \/ request[n].lost
=============================================================================
