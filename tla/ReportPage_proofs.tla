--------------------------- MODULE ReportPage_proofs ---------------------------
(***************************************************************************)
(* Theorems about a report's page and the requests it sends, for any list  *)
(* of findings and any number of saves, removals and failing connections.  *)
(***************************************************************************)
EXTENDS ReportPage, FiniteSetTheorems, FunctionTheorems, TLAPS

(***************************************************************************)
(* The page.  Unless the user acted while a list was on its way, nothing   *)
(* is selected, and no dialog is open, until the list has come; and then   *)
(* what is selected or named was open in it.                               *)
(***************************************************************************)
Untouched == selected = {} /\ dialog = NoDialog

NamesOpen ==
    /\ selected \cap shown.mitigated = {}
    /\ dialog.findings \cap shown.mitigated = {}

PageInv == ~ hasty => IF loads # {} THEN Untouched ELSE NamesOpen

(***************************************************************************)
(* The UPDATEs of a request under way: issued, executed, or with a         *)
(* callback that has read the counter.  A link is in one of these places,  *)
(* once, and is one of its request's.                                      *)
(***************************************************************************)
LinksRead(cs) == {c.link : c \in cs}

UnderWay == linking \cup callbacks \cup LinksRead(counting)

Pending(r, ls) == {l \in ls : l.mitigation = r.mitigation}

LinksOf(r) == {[finding |-> f, mitigation |-> r.mitigation] : f \in r.findings}

Disjoint ==
    /\ linking \cap callbacks = {}
    /\ (linking \cup callbacks) \cap LinksRead(counting) = {}
    /\ \A c, d \in counting : c.link = d.link => c = d

Numbered ==
    /\ \A n \in DOMAIN request :
          /\ request[n].mitigation.id <= created
          /\ \A k \in DOMAIN request : request[k].mitigation = request[n].mitigation => k = n
    /\ \A l \in UnderWay : \E n \in DOMAIN request : l \in LinksOf(request[n])
    /\ \A p \in posts :
          /\ p.n \notin DOMAIN request /\ p.n \notin confirmed
          /\ \A r \in replies : r.n # p.n
          /\ \A q \in posts : q.n = p.n => q = p
    /\ \A x \in loads : x.n <= loaded.sent

(***************************************************************************)
(* The counter of request r whose UPDATEs ps are under way and whose       *)
(* callbacks have read cs: it is behind those that are through, unless an  *)
(* increment was lost it is equal; and the last one answers.               *)
(***************************************************************************)
Through(r, ps) == Cardinality(r.findings) - r.failed - Cardinality(ps)

Tally(r, ps, cs) ==
    /\ IsFiniteSet(r.findings) /\ IsFiniteSet(ps)
    /\ r.completed <= Through(r, ps)
    /\ \A c \in cs : c.link.mitigation = r.mitigation => c.value <= Through(r, ps)
    /\ ~ r.lost => r.completed = Through(r, ps)
    /\ r.created => ps = {} /\ r.failed = 0
    /\ \/ r.answers = r.failed
       \/ r.answers = 1 /\ ps = {} /\ r.failed = 0
    /\ ps = {} /\ r.failed = 0 /\ ~ r.lost => r.answers > 0

Tallies == \A n \in DOMAIN request : Tally(request[n], Pending(request[n], UnderWay), counting)

(***************************************************************************)
(* What a request owes: each finding is mitigated, or its UPDATE is under  *)
(* way or has failed.  The findings go all at once, their mitigations with *)
(* them.  Who is told of success, or was, is owed nothing more.            *)
(***************************************************************************)
Paid(r, f, ls, lks) ==
    \/ [finding |-> f, mitigation |-> r.mitigation] \in ls
    \/ r.failed > 0
    \/ \E k \in lks : k.finding = f

Owes ==
    /\ findings \in {Listed, {}}
    /\ findings # {} => \A l \in linking : l.mitigation \in mitigations
    /\ findings = {} => owed = {}
    /\ \A x \in owed : x[1] \in DOMAIN request /\ Paid(request[x[1]], x[2], linking, links)
    /\ \A r \in replies : r.ok => r.n \in DOMAIN request /\ request[r.n].created
    /\ \A n \in confirmed : n \in DOMAIN request /\ request[n].created

(***************************************************************************)
(* The list asked for last has what was confirmed before it was asked for. *)
(***************************************************************************)
HasConfirmed(list) == \A x \in owed : x[1] \in confirmed => x[2] \in list.mitigated

ListsConfirm ==
    /\ \A x \in loads : x.n = loaded.sent /\ x.list # Unanswered => HasConfirmed(x.list)
    /\ loaded.shown = loaded.sent => HasConfirmed(shown)

IInv ==
    /\ TypeOK /\ PageInv /\ Disjoint /\ Numbered /\ Tallies /\ Owes /\ ListsConfirm

RequestRow ==
    [mitigation : MitigationRow, findings : SUBSET Listed, completed : Nat, answers : Nat,
     created : BOOLEAN, lost : BOOLEAN, failed : Nat]

-----------------------------------------------------------------------------

\* The findings of the page are finitely many rows.
LEMMA ListedFinite == Listed \subseteq FindingRow /\ IsFiniteSet(Listed)
<1> DEFINE F == [i \in DOMAIN Order |-> Order[i]]
<1>1. DOMAIN Order = 1 .. Len(Order) /\ Len(Order) \in Nat
    BY OrderAssumption
<1>2. IsFiniteSet(DOMAIN Order)
    BY <1>1, FS_Interval
<1>3. F \in [DOMAIN Order -> Listed] /\ \A f \in Listed : \E i \in DOMAIN Order : F[i] = f
    BY DEF Listed
<1>4. F \in Surjection(DOMAIN Order, Listed)
    BY <1>3, Fun_IsSurj
<1>5. IsFiniteSet(Listed)
    BY <1>2, <1>4, FS_Surjection
<1>6. Listed \subseteq FindingRow
    BY <1>1, OrderAssumption DEF Listed
<1>7. QED
    BY <1>5, <1>6

\* A request has one UPDATE for each of its findings.
LEMMA OneUpdateEach ==
    ASSUME NEW r, r.findings \subseteq Listed
    PROVE  /\ IsFiniteSet(r.findings) /\ Cardinality(r.findings) \in Nat
           /\ IsFiniteSet(LinksOf(r))
           /\ Cardinality(LinksOf(r)) = Cardinality(r.findings)
<1> DEFINE F == [f \in r.findings |-> [finding |-> f, mitigation |-> r.mitigation]]
<1>1. IsFiniteSet(r.findings) /\ Cardinality(r.findings) \in Nat
    BY ListedFinite, FS_Subset, FS_CardinalityType
<1>2. F \in [r.findings -> LinksOf(r)] /\ \A l \in LinksOf(r) : \E f \in r.findings : F[f] = l
    BY DEF LinksOf
<1>3. \A f, g \in r.findings : F[f] = F[g] => f = g
    <2>1. \A f \in r.findings : F[f].finding = f
        OBVIOUS
    <2>2. QED
        BY <2>1
<1>4. F \in Bijection(r.findings, LinksOf(r))
    <2> HIDE DEF F
    <2> QED
        BY <1>2, <1>3, Fun_IsBij
<1>5. ExistsBijection(r.findings, LinksOf(r))
    BY <1>4, Fun_ExistsBij
<1>6. QED
    BY <1>1, <1>5, FS_Bijection

(***************************************************************************)
(* The counter when its request is inserted ...                            *)
(***************************************************************************)
LEMMA TallyBegins ==
    ASSUME NEW r \in RequestRow, NEW cs, r.findings # {},
           r.completed = 0, r.answers = 0, ~ r.created, ~ r.lost, r.failed = 0,
           \A c \in cs : c.link.mitigation # r.mitigation
    PROVE  Tally(r, LinksOf(r), cs)
<1>1. r.findings \subseteq Listed
    BY DEF RequestRow
<1>2. /\ IsFiniteSet(r.findings) /\ Cardinality(r.findings) \in Nat
      /\ IsFiniteSet(LinksOf(r)) /\ Cardinality(LinksOf(r)) = Cardinality(r.findings)
    BY <1>1, OneUpdateEach
<1>3. Through(r, LinksOf(r)) = 0
    BY <1>2 DEF Through
<1>4. LinksOf(r) # {}
    BY DEF LinksOf
<1>5. QED
    BY <1>2, <1>3, <1>4 DEF Tally

(***************************************************************************)
(* ... when one of its UPDATEs fails ...                                   *)
(***************************************************************************)
LEMMA TallyFails ==
    ASSUME NEW r \in RequestRow, NEW ps, NEW cs, Tally(r, ps, cs), NEW l \in ps
    PROVE  Failed(r) \in RequestRow /\ Tally(Failed(r), ps \ {l}, cs)
<1> DEFINE t == Failed(r)
<1>1. r.failed \in Nat /\ r.answers \in Nat /\ r.completed \in Nat
    BY DEF RequestRow
<1>2. /\ t \in RequestRow
      /\ t.mitigation = r.mitigation /\ t.findings = r.findings /\ t.completed = r.completed
      /\ t.answers = r.answers + 1 /\ t.created = r.created /\ t.lost = r.lost
      /\ t.failed = r.failed + 1
    <2>1. r.failed + 1 \in Nat /\ r.answers + 1 \in Nat
        BY <1>1
    <2>2. QED
        BY <2>1 DEF Failed, RequestRow
<1> HIDE DEF t
<1>3. /\ IsFiniteSet(r.findings) /\ IsFiniteSet(ps) /\ Cardinality(r.findings) \in Nat
      /\ Cardinality(ps) \in Nat
      /\ IsFiniteSet(ps \ {l}) /\ Cardinality(ps \ {l}) = Cardinality(ps) - 1
    BY FS_CardinalityType, FS_RemoveElement DEF Tally
<1>4. Through(t, ps \ {l}) = Through(r, ps)
    BY <1>1, <1>2, <1>3 DEF Through
<1>5. ~ t.created /\ t.answers = t.failed /\ t.failed > 0
    BY <1>1, <1>2 DEF Tally
<1>6. QED
    BY <1>1, <1>2, <1>3, <1>4, <1>5 DEF Tally, t

(***************************************************************************)
(* ... when a callback reads it ...                                        *)
(***************************************************************************)
LEMMA TallyRead ==
    ASSUME NEW r, NEW ps, NEW cs, Tally(r, ps, cs), NEW l, NEW v,
           l.mitigation = r.mitigation => v = r.completed
    PROVE  Tally(r, ps, cs \cup {[link |-> l, value |-> v]})
BY DEF Tally

(***************************************************************************)
(* ... and when the callback writes it back.                               *)
(***************************************************************************)
LEMMA TallyStored ==
    ASSUME NEW r \in RequestRow, NEW ps, NEW cs, Tally(r, ps, cs),
           NEW c \in cs, c.link \in ps, c.link.mitigation = r.mitigation, c.value \in Nat,
           \A d \in cs : d.link.mitigation = r.mitigation => d.value \in Nat
    PROVE  /\ Stored(r, c.value) \in RequestRow
           /\ Stored(r, c.value).mitigation = r.mitigation
           /\ Stored(r, c.value).findings = r.findings
           /\ Stored(r, c.value).failed = r.failed
           /\ r.created => Stored(r, c.value).created
           /\ Complete(c.value + 1, r.findings) /\ r.answers = 0
                 => Stored(r, c.value).created
           /\ Tally(Stored(r, c.value), ps \ {c.link}, cs \ {c})
<1> DEFINE t == Stored(r, c.value)
           last == Complete(c.value + 1, r.findings)
<1>1. r.failed \in Nat /\ r.answers \in Nat /\ r.completed \in Nat
    BY DEF RequestRow
<1> DEFINE lost == r.lost \/ r.completed # c.value
           made == r.created \/ (last /\ r.answers = 0)
           n == IF last THEN r.answers + 1 ELSE r.answers
<1>2. lost \in BOOLEAN /\ made \in BOOLEAN /\ n \in Nat /\ c.value + 1 \in Nat
    BY <1>1 DEF RequestRow, Complete
<1>3. /\ t \in RequestRow
      /\ t.mitigation = r.mitigation /\ t.findings = r.findings /\ t.failed = r.failed
      /\ t.completed = c.value + 1 /\ t.lost = lost /\ t.answers = n /\ t.created = made
    <2> HIDE DEF lost, made, n, t, last
    <2>1. t = [r EXCEPT !.completed = c.value + 1, !.lost = lost, !.answers = n, !.created = made]
        BY DEF lost, made, n, t, last, Stored
    <2>2. QED
        BY <1>2, <2>1 DEF RequestRow
<1>4. /\ IsFiniteSet(r.findings) /\ IsFiniteSet(ps) /\ Cardinality(r.findings) \in Nat
      /\ Cardinality(ps) \in Nat /\ ps # {}
      /\ IsFiniteSet(ps \ {c.link}) /\ Cardinality(ps \ {c.link}) = Cardinality(ps) - 1
      /\ Cardinality(ps \ {c.link}) \in Nat
    BY FS_CardinalityType, FS_RemoveElement DEF Tally
<1>5. ~ r.created /\ r.answers = r.failed
    BY <1>4 DEF Tally
<1> DEFINE qs == ps \ {c.link}
<1>6. Through(r, ps) \in Int /\ Through(t, qs) = Through(r, ps) + 1
    BY <1>1, <1>3, <1>4 DEF Through
<1>7. c.value <= Through(r, ps) /\ (~ lost => c.value = Through(r, ps))
    BY DEF Tally
<1>8. last => qs = {} /\ t.failed = 0
    <2>1. SUFFICES ASSUME last PROVE Cardinality(qs) = 0 /\ t.failed = 0
        BY <1>4, FS_EmptySet
    <2>2. c.value + 1 = Cardinality(r.findings)
        BY <2>1 DEF Complete
    <2>3. Cardinality(r.findings) <= Cardinality(r.findings) - r.failed - Cardinality(qs)
        BY <1>3, <1>6, <1>7, <2>2 DEF Through
    <2>4. QED
        BY <1>1, <1>3, <1>4, <2>3
<1>9. qs = {} /\ t.failed = 0 /\ ~ t.lost => last
    <2>1. SUFFICES ASSUME qs = {}, t.failed = 0, ~ t.lost PROVE c.value + 1 = Cardinality(r.findings)
        BY DEF Complete
    <2>2. Cardinality(qs) = 0
        BY <2>1, FS_EmptySet
    <2>3. Through(t, qs) = Cardinality(r.findings)
        BY <1>3, <1>4, <2>1, <2>2 DEF Through
    <2>4. QED
        BY <1>3, <1>6, <1>7, <2>1, <2>3
<1>10. \A d \in cs \ {c} : d.link.mitigation = t.mitigation => d.value <= Through(t, qs)
    BY <1>3, <1>6 DEF Tally
<1>11. Tally(t, qs, cs \ {c})
    <2> HIDE DEF qs
    <2>1. t.completed <= Through(t, qs) /\ (~ t.lost => t.completed = Through(t, qs))
        <3>1. t.completed = c.value + 1 /\ t.lost = lost /\ Through(t, qs) = Through(r, ps) + 1
            BY <1>3, <1>6
        <3>2. c.value \in Nat /\ Through(r, ps) \in Int
            BY <1>6
        <3> HIDE DEF lost
        <3>3. QED
            BY <1>7, <3>1, <3>2
    <2>2. t.created => qs = {} /\ t.failed = 0
        BY <1>3, <1>5, <1>8
    <2>3. t.answers = t.failed \/ (t.answers = 1 /\ qs = {} /\ t.failed = 0)
        BY <1>1, <1>3, <1>5, <1>8
    <2>4. qs = {} /\ t.failed = 0 /\ ~ t.lost => t.answers > 0
        BY <1>1, <1>3, <1>9
    <2>5. IsFiniteSet(t.findings) /\ IsFiniteSet(qs)
        BY <1>3, <1>4 DEF qs
    <2>6. QED
        BY <1>10, <2>1, <2>2, <2>3, <2>4, <2>5 DEF Tally
<1>12. QED
    BY <1>3, <1>11

-----------------------------------------------------------------------------

(***************************************************************************)
(* TypeOK by groups of variables; its inequality is the tally's.           *)
(***************************************************************************)
TablesTyped == SchemaTypeOK /\ MitigationTypeOK

PageTyped ==
    /\ shown \in ListType /\ selected \subseteq Listed
    /\ dialog \in [findings : SUBSET Listed, waits : 0 .. saves]
    /\ loads \subseteq [n : Nat, list : ListType]
    /\ loaded \in [sent : Nat, shown : Nat] /\ loaded.shown <= loaded.sent
    /\ saves \in Nat /\ outside \in Nat /\ confirmed \subseteq Saves /\ hasty \in BOOLEAN

AnswersTyped ==
    /\ posts \subseteq [n : Saves, findings : SUBSET Listed]
    /\ DOMAIN request \subseteq Saves
    /\ \A n \in DOMAIN request : request[n] \in RequestRow
    /\ callbacks \subseteq Link
    /\ counting \subseteq [link : Link, value : Nat]
    /\ replies \subseteq [n : Saves, ok : BOOLEAN]
    /\ owed \subseteq Saves \X Listed

LEMMA TypesByGroup == TypeOK => TablesTyped /\ PageTyped /\ AnswersTyped
BY DEF TypeOK, TablesTyped, PageTyped, AnswersTyped, RequestRow

LEMMA TypesTogether ==
    ASSUME TablesTyped, PageTyped, AnswersTyped, Tallies
    PROVE  TypeOK
<1>1. ASSUME NEW n \in DOMAIN request
      PROVE  request[n].completed + request[n].failed <= Cardinality(request[n].findings)
    <2> DEFINE r == request[n]
               ps == Pending(r, UnderWay)
    <2>1. Tally(r, ps, counting) /\ r \in RequestRow
        BY DEF Tallies, AnswersTyped
    <2> HIDE DEF ps, r
    <2>2. /\ Cardinality(ps) \in Nat /\ Cardinality(r.findings) \in Nat
          /\ r.completed \in Nat /\ r.failed \in Nat
        BY <2>1, FS_CardinalityType DEF Tally, RequestRow
    <2>3. r.completed <= Cardinality(r.findings) - r.failed - Cardinality(ps)
        BY <2>1 DEF Tally, Through
    <2>4. r.completed + r.failed <= Cardinality(r.findings)
        BY <2>2, <2>3
    <2>5. QED
        BY <2>4 DEF r
<1>2. QED
    BY <1>1 DEF TypeOK, TablesTyped, PageTyped, AnswersTyped, RequestRow

(***************************************************************************)
(* What is under way belongs to one request.                               *)
(***************************************************************************)
LEMMA NumberIs ==
    ASSUME Numbered, NEW l \in UnderWay
    PROVE  /\ OfPage(l) /\ NumberOf(l) \in DOMAIN request
           /\ l \in LinksOf(request[NumberOf(l)])
           /\ l.mitigation = request[NumberOf(l)].mitigation
           /\ \A k \in DOMAIN request : request[k].mitigation = l.mitigation => k = NumberOf(l)
<1>1. PICK n \in DOMAIN request : l \in LinksOf(request[n])
    BY DEF Numbered
<1>2. l.mitigation = request[n].mitigation
    BY <1>1 DEF LinksOf
<1>3. \A k \in DOMAIN request : request[k].mitigation = l.mitigation => k = n
    BY <1>2 DEF Numbered
<1>4. NumberOf(l) = n
    BY <1>2, <1>3 DEF NumberOf
<1>5. QED
    BY <1>1, <1>2, <1>3, <1>4 DEF OfPage

(***************************************************************************)
(* Request n becomes t and its link l is through: nothing changes for the  *)
(* other requests.                                                         *)
(***************************************************************************)
LEMMA TalliesMove ==
    ASSUME Numbered, Tallies, NEW n \in DOMAIN request, NEW t, NEW l,
           t.mitigation = request[n].mitigation, l.mitigation = request[n].mitigation,
           request' = [request EXCEPT ![n] = t], UnderWay' = UnderWay \ {l},
           counting' \subseteq counting,
           Tally(t, Pending(request[n], UnderWay) \ {l}, counting')
    PROVE  Tallies'
<1>1. SUFFICES ASSUME NEW k \in DOMAIN request'
               PROVE  Tally(request'[k], Pending(request'[k], UnderWay'), counting')
    BY DEF Tallies
<1>2. k \in DOMAIN request
    BY <1>1
<1>3. CASE k = n
    <2>1. request'[k] = t
        BY <1>2, <1>3
    <2>2. Pending(t, UnderWay') = Pending(request[n], UnderWay) \ {l}
        BY DEF Pending
    <2>3. QED
        BY <2>1, <2>2
<1>4. CASE k # n
    <2>1. request'[k] = request[k] /\ request[k].mitigation # l.mitigation
        BY <1>2, <1>4 DEF Numbered
    <2>2. Pending(request[k], UnderWay') = Pending(request[k], UnderWay)
        BY <2>1 DEF Pending
    <2>3. Tally(request[k], Pending(request[k], UnderWay), counting)
        BY <1>2 DEF Tallies
    <2>4. Tally(request[k], Pending(request[k], UnderWay), counting')
        BY <2>3 DEF Tally
    <2>5. QED
        BY <2>1, <2>2, <2>4
<1>5. QED
    BY <1>3, <1>4

(***************************************************************************)
(* What was confirmed is in the database: the links are, and stay unless   *)
(* owed is told.                                                           *)
(***************************************************************************)
LEMMA ConfirmedIsLinked ==
    ASSUME Tallies, Owes, AnswersTyped, NEW x \in owed, x[1] \in confirmed
    PROVE  x[2] \in findings /\ \E k \in links : k.finding = x[2]
<1> DEFINE r == request[x[1]]
<1>1. x[2] \in Listed /\ findings = Listed
    BY DEF Owes, AnswersTyped
<1>2. x[1] \in DOMAIN request /\ r.created /\ Paid(r, x[2], linking, links)
    BY DEF Owes
<1>3. Pending(r, UnderWay) = {} /\ r.failed = 0
    BY <1>2 DEF Tallies, Tally
<1>4. [finding |-> x[2], mitigation |-> r.mitigation] \notin linking
    BY <1>3 DEF Pending, UnderWay
<1>5. QED
    BY <1>1, <1>2, <1>3, <1>4 DEF Paid

-----------------------------------------------------------------------------

(***************************************************************************)
(* A step of the page alone.                                               *)
(***************************************************************************)
LEMMA PageStep ==
    ASSUME IInv, PageOnly, PageTyped', PageInv', ListsConfirm', confirmed' = confirmed,
           \A x \in loads' : x.n <= loaded'.sent
    PROVE  IInv'
<1>0. TablesTyped /\ PageTyped /\ AnswersTyped
    BY TypesByGroup DEF IInv
<1>1. /\ UNCHANGED << projects, versions, analyzed, deps, severity, affected, reports, summary,
                      findings, mitigations, links, up, linking, created >>
      /\ UNCHANGED << posts, request, callbacks, counting, replies, saves, outside, owed >>
    BY DEF PageOnly, tables, mitigationVars, answerVars, countVars
<1>2. TablesTyped'
    BY <1>0, <1>1 DEF TablesTyped, SchemaTypeOK, MitigationTypeOK
<1>3. AnswersTyped'
    BY <1>0, <1>1 DEF AnswersTyped, Saves
<1>4. Disjoint' /\ Owes'
    BY <1>1 DEF IInv, Disjoint, Owes, LinksRead
<1>5. Tallies'
    BY <1>1 DEF IInv, Tallies, UnderWay
<1>6. Numbered'
    BY <1>1 DEF IInv, Numbered, UnderWay
<1>7. TypeOK'
    <2>1. TablesTyped' /\ PageTyped' /\ AnswersTyped' /\ Tallies' => TypeOK'
        BY TypesTogether, PTL
    <2>2. QED
        BY <1>2, <1>3, <1>5, <2>1
<1>8. QED
    BY <1>4, <1>5, <1>6, <1>7 DEF IInv

\* Ticking a row, or all, and a dialog that is opened or left.
LEMMA TickKeeps ==
    ASSUME IInv, PageOnly, dialog = NoDialog,
           selected' \subseteq selected \cup Open, hasty' = (hasty \/ loads # {}),
           UNCHANGED << shown, dialog, loads, loaded, confirmed >>
    PROVE  IInv'
<1>0. TablesTyped /\ PageTyped /\ AnswersTyped
    BY TypesByGroup DEF IInv
<1>1. UNCHANGED << posts, request, callbacks, counting, replies, saves, outside, owed >>
    BY DEF PageOnly, answerVars, countVars
<1>2. Open \subseteq Listed /\ Open \cap shown.mitigated = {}
    BY <1>0 DEF PageTyped, ListType, Open
<1>3. PageTyped'
    BY <1>0, <1>1, <1>2 DEF PageTyped, Saves
<1>4. PageInv'
    BY <1>2 DEF IInv, PageInv, NamesOpen, NoDialog, Untouched
<1>5. ListsConfirm'
    BY <1>1 DEF IInv, ListsConfirm, HasConfirmed
<1>6. \A x \in loads' : x.n <= loaded'.sent
    BY DEF IInv, Numbered
<1>7. QED
    BY <1>3, <1>4, <1>5, <1>6, PageStep

LEMMA DialogKeeps ==
    ASSUME IInv, NEW fs, OpenDialog(fs),
           fs \subseteq Open \/ fs = shown.all \cap selected
    PROVE  IInv'
<1>0. TablesTyped /\ PageTyped /\ AnswersTyped
    BY TypesByGroup DEF IInv
<1>1. /\ UNCHANGED << posts, request, callbacks, counting, replies, saves, outside, owed >>
      /\ dialog = NoDialog /\ fs # {} /\ dialog' = [findings |-> fs, waits |-> 0]
      /\ hasty' = (hasty \/ loads # {})
      /\ UNCHANGED << shown, selected, loads, loaded, confirmed >> /\ PageOnly
    BY DEF OpenDialog, PageOnly, answerVars, countVars
<1>2. /\ Open \subseteq Listed /\ Open \cap shown.mitigated = {}
      /\ shown.all \cap selected \subseteq Listed /\ saves \in Nat
    BY <1>0 DEF PageTyped, ListType, Open
<1>3. dialog' \in [findings : SUBSET Listed, waits : 0 .. saves] /\ dialog'.findings = fs
    BY <1>1, <1>2
<1>4. PageTyped'
    BY <1>0, <1>1, <1>3 DEF PageTyped, Saves
<1>5. PageInv'
    <2>1. SUFFICES ASSUME ~ hasty, loads = {} PROVE NamesOpen'
        BY <1>1 DEF PageInv
    <2>2. NamesOpen
        BY <2>1 DEF IInv, PageInv
    <2>3. fs \cap shown.mitigated = {}
        BY <1>2, <2>2 DEF NamesOpen
    <2>4. QED
        BY <1>1, <1>3, <2>2, <2>3 DEF NamesOpen
<1>6. ListsConfirm'
    BY <1>1 DEF IInv, ListsConfirm, HasConfirmed
<1>7. \A x \in loads' : x.n <= loaded'.sent
    BY <1>1 DEF IInv, Numbered
<1>8. QED
    BY <1>1, <1>4, <1>5, <1>6, <1>7, PageStep

LEMMA CancelKeeps ==
    ASSUME IInv, Cancel
    PROVE  IInv'
<1>0. TablesTyped /\ PageTyped /\ AnswersTyped
    BY TypesByGroup DEF IInv
<1>1. /\ UNCHANGED << posts, request, callbacks, counting, replies, saves, outside, owed >>
      /\ dialog' = NoDialog
      /\ UNCHANGED << shown, selected, loads, loaded, confirmed, hasty >> /\ PageOnly
    BY DEF Cancel, PageOnly, answerVars, countVars
<1>2. NoDialog \in [findings : SUBSET Listed, waits : 0 .. saves] /\ NoDialog.findings = {}
    BY <1>0 DEF PageTyped, NoDialog
<1>3. PageTyped'
    BY <1>0, <1>1, <1>2 DEF PageTyped, Saves
<1>4. PageInv'
    BY <1>1, <1>2 DEF IInv, PageInv, NamesOpen, Untouched
<1>5. ListsConfirm'
    BY <1>1 DEF IInv, ListsConfirm, HasConfirmed
<1>6. \A x \in loads' : x.n <= loaded'.sent
    BY <1>1 DEF IInv, Numbered
<1>7. QED
    BY <1>1, <1>3, <1>4, <1>5, <1>6, PageStep

(***************************************************************************)
(* A list is read: it has what was confirmed so far.                       *)
(***************************************************************************)
LEMMA AnswerKeeps ==
    ASSUME IInv, NEW x \in loads, AnswerLoad(x)
    PROVE  IInv'
<1> DEFINE y == [x EXCEPT !.list = CurrentList]
<1>0. TablesTyped /\ PageTyped /\ AnswersTyped
    BY TypesByGroup DEF IInv
<1>1. /\ UNCHANGED << posts, request, callbacks, counting, replies, saves, outside, owed >>
      /\ loads' = (loads \ {x}) \cup {y}
      /\ UNCHANGED << shown, selected, dialog, loaded, confirmed, hasty >> /\ PageOnly
    BY DEF AnswerLoad, PageOnly, answerVars, countVars
<1>2. x \in [n : Nat, list : ListType]
    BY <1>0 DEF PageTyped
<1>3. CurrentList \in ListType
    BY DEF CurrentList, ListType, IInv, Owes
<1>4. y \in [n : Nat, list : ListType] /\ y.n = x.n /\ y.list = CurrentList
    BY <1>2, <1>3
<1> HIDE DEF y
<1>5. PageTyped'
    BY <1>0, <1>1, <1>4 DEF PageTyped, Saves
<1>6. PageInv'
    BY <1>1 DEF IInv, PageInv, Untouched
<1>7. HasConfirmed(CurrentList)
    <2>1. SUFFICES ASSUME NEW z \in owed, z[1] \in confirmed PROVE z[2] \in CurrentList.mitigated
        BY DEF HasConfirmed
    <2>2. z[2] \in findings /\ \E k \in links : k.finding = z[2]
        BY <1>0, <2>1, ConfirmedIsLinked DEF IInv
    <2>3. MitigatedBy(z[2]) # {}
        BY <2>2 DEF MitigatedBy
    <2>4. QED
        BY <2>2, <2>3 DEF CurrentList
<1>8. ListsConfirm'
    BY <1>1, <1>4, <1>7 DEF IInv, ListsConfirm, HasConfirmed
<1>9. \A z \in loads' : z.n <= loaded'.sent
    BY <1>1, <1>4 DEF IInv, Numbered
<1>10. QED
    BY <1>1, <1>5, <1>6, <1>8, <1>9, PageStep

LEMMA ShowKeeps ==
    ASSUME IInv, NEW x \in loads, ShowLoad(x)
    PROVE  IInv'
<1>0. TablesTyped /\ PageTyped /\ AnswersTyped
    BY TypesByGroup DEF IInv
<1>1. /\ UNCHANGED << posts, request, callbacks, counting, replies, saves, outside, owed >>
      /\ x.list # Unanswered /\ loads' = loads \ {x}
      /\ shown' = x.list /\ loaded' = [loaded EXCEPT !.shown = x.n]
      /\ UNCHANGED << selected, dialog, confirmed, hasty >> /\ PageOnly
    BY DEF ShowLoad, PageOnly, answerVars, countVars
<1>2. x \in [n : Nat, list : ListType] /\ x.n <= loaded.sent
    BY <1>0 DEF PageTyped, IInv, Numbered
<1>3. /\ loaded' \in [sent : Nat, shown : Nat] /\ loaded'.sent = loaded.sent
      /\ loaded'.shown = x.n
    BY <1>0, <1>1, <1>2 DEF PageTyped
<1>4. PageTyped'
    BY <1>0, <1>1, <1>2, <1>3 DEF PageTyped, Saves
<1>5. PageInv'
    <2>1. SUFFICES ASSUME ~ hasty PROVE Untouched' /\ NamesOpen'
        BY <1>1 DEF PageInv
    <2>2. Untouched
        BY <2>1 DEF IInv, PageInv
    <2>3. QED
        BY <1>1, <2>2 DEF Untouched, NamesOpen, NoDialog
<1>6. ListsConfirm'
    BY <1>1, <1>3 DEF IInv, ListsConfirm, HasConfirmed
<1>7. \A z \in loads' : z.n <= loaded'.sent
    BY <1>1, <1>3 DEF IInv, Numbered
<1>8. QED
    BY <1>1, <1>4, <1>5, <1>6, <1>7, PageStep

-----------------------------------------------------------------------------

(***************************************************************************)
(* A step that leaves the page alone.                                      *)
(***************************************************************************)
LEMMA ServerStep ==
    ASSUME IInv, UNCHANGED pageVars, saves' = saves, outside' \in Nat,
           TablesTyped', AnswersTyped', Disjoint', Numbered', Tallies', Owes',
           \A x \in owed' : x[1] \in confirmed => x \in owed
    PROVE  IInv'
<1>0. TablesTyped /\ PageTyped /\ AnswersTyped
    BY TypesByGroup DEF IInv
<1>1. PageTyped' /\ PageInv' /\ ListsConfirm'
    BY <1>0 DEF pageVars, PageTyped, Saves, IInv, PageInv, Untouched, NamesOpen, ListsConfirm,
                HasConfirmed
<1>2. TypeOK'
    <2>1. TablesTyped' /\ PageTyped' /\ AnswersTyped' /\ Tallies' => TypeOK'
        BY TypesTogether, PTL
    <2>2. QED
        BY <1>1, <2>1
<1>3. QED
    BY <1>1, <1>2 DEF IInv

\* Relinking a finding takes no other's mitigation, and gives it one.
LEMMA RelinkLinks ==
    ASSUME NEW l
    PROVE  /\ \A f : (\E k \in links : k.finding = f) => \E k \in Relink(l) : k.finding = f
           /\ \E k \in Relink(l) : k.finding = l.finding
           /\ Relink(l) \subseteq links \cup {l}
BY DEF Relink

\* One more answer is on its way.
LEMMA ReplyTyped ==
    ASSUME AnswersTyped, NEW k \in Saves, NEW b \in BOOLEAN,
           replies' \subseteq replies \cup {[n |-> k, ok |-> b]}
    PROVE  replies' \subseteq [n : Saves, ok : BOOLEAN]
<1>1. [n |-> k, ok |-> b] \in [n : Saves, ok : BOOLEAN]
    OBVIOUS
<1>2. replies \subseteq [n : Saves, ok : BOOLEAN]
    BY DEF AnswersTyped
<1>3. QED
    BY <1>1, <1>2

(***************************************************************************)
(* A request reaches the database.                                         *)
(***************************************************************************)
LEMMA InsertKeeps ==
    ASSUME IInv, NEW p \in posts, InsertMitigation(p)
    PROVE  IInv'
<1> DEFINE n == p.n
           fs == p.findings
           m == [id |-> created + 1, finding |-> First(fs)]
           r == [mitigation |-> m, findings |-> fs, completed |-> 0, answers |-> 0,
                 created |-> FALSE, lost |-> FALSE, failed |-> 0]
<1>0. TablesTyped /\ PageTyped /\ AnswersTyped
    BY TypesByGroup DEF IInv
<1>1. /\ n \in Saves /\ fs \subseteq Listed /\ First(fs) \in fs /\ First(fs) \in findings
      /\ created \in Nat /\ fs # {}
    BY <1>0 DEF InsertMitigation, CreateMitigation, AnswersTyped, TablesTyped, MitigationTypeOK
<1>2. m \in MitigationRow /\ m.id = created + 1 /\ m.finding = First(fs)
    BY <1>1, ListedFinite DEF MitigationRow
<1>3. r \in RequestRow
    BY <1>1, <1>2 DEF RequestRow
<1>4. /\ r.mitigation = m /\ r.findings = fs /\ r.completed = 0 /\ r.answers = 0 /\ ~ r.created
      /\ ~ r.lost /\ r.failed = 0
    OBVIOUS
<1>5. /\ posts' = posts \ {p} /\ mitigations' = mitigations \cup {m}
      /\ linking' = linking \cup LinksOf(r) /\ created' = created + 1
      /\ owed' = owed \cup ({n} \X fs)
      /\ UNCHANGED << projects, versions, analyzed, deps, severity, affected, reports, summary,
                      findings, links, up >>
      /\ UNCHANGED << pageVars, callbacks, counting, replies, saves, outside >>
    BY DEF InsertMitigation, CreateMitigation, countVars, LinksOf
<1>6. n \notin DOMAIN request
    BY DEF IInv, Numbered
<1>7. /\ DOMAIN request' = DOMAIN request \cup {n}
      /\ request'[n] = r /\ \A k \in DOMAIN request : request'[k] = request[k]
    BY <1>6 DEF InsertMitigation
<1> HIDE DEF n, fs, m, r
<1>8. \A k \in DOMAIN request : request[k].mitigation # m
    <2>1. \A k \in DOMAIN request : request[k].mitigation.id \in Nat
        BY <1>0 DEF AnswersTyped, RequestRow, MitigationRow
    <2>2. QED
        BY <1>1, <1>2, <2>1 DEF IInv, Numbered
<1>9. \A l \in UnderWay : l.mitigation # m
    BY <1>8, NumberIs DEF IInv
<1>10. \A l \in LinksOf(r) : l.mitigation = m /\ l.finding \in fs /\ l \in Link
    BY <1>1, <1>2, <1>4, ListedFinite DEF LinksOf, Link
<1>11. UnderWay' = UnderWay \cup LinksOf(r)
    BY <1>5 DEF UnderWay
<1>12. TablesTyped'
    BY <1>0, <1>1, <1>2, <1>5, <1>10 DEF TablesTyped, SchemaTypeOK, MitigationTypeOK
<1>13. AnswersTyped'
    BY <1>0, <1>1, <1>3, <1>5, <1>7 DEF AnswersTyped, Saves
<1>14. Disjoint'
    BY <1>5, <1>9, <1>10 DEF IInv, Disjoint, UnderWay
<1>15. Numbered'
    <2>1. \A k \in DOMAIN request' :
              /\ request'[k].mitigation.id <= created'
              /\ \A j \in DOMAIN request' : request'[j].mitigation = request'[k].mitigation => j = k
        <3>1. \A k \in DOMAIN request :
                  request[k].mitigation.id \in Nat /\ request[k].mitigation.id <= created
            BY <1>0 DEF AnswersTyped, RequestRow, MitigationRow, IInv, Numbered
        <3>2. \A k \in DOMAIN request' : request'[k].mitigation.id <= created'
            BY <1>1, <1>2, <1>4, <1>5, <1>7, <3>1
        <3>3. \A j, k \in DOMAIN request : request[j].mitigation = request[k].mitigation => j = k
            BY DEF IInv, Numbered
        <3>4. QED
            BY <1>4, <1>7, <1>8, <3>2, <3>3
    <2>2. \A l \in UnderWay' : \E k \in DOMAIN request' : l \in LinksOf(request'[k])
        BY <1>7, <1>11 DEF IInv, Numbered
    <2>3. \A q \in posts' :
              /\ q.n \notin DOMAIN request' /\ q.n \notin confirmed'
              /\ \A a \in replies' : a.n # q.n
              /\ \A o \in posts' : o.n = q.n => o = q
        BY <1>5, <1>7 DEF IInv, Numbered, pageVars, n
    <2>4. \A x \in loads' : x.n <= loaded'.sent
        BY <1>5 DEF IInv, Numbered, pageVars
    <2>5. QED
        BY <2>1, <2>2, <2>3, <2>4 DEF Numbered
<1>16. Tallies'
    <2>1. SUFFICES ASSUME NEW k \in DOMAIN request'
                   PROVE  Tally(request'[k], Pending(request'[k], UnderWay'), counting)
        BY <1>5 DEF Tallies
    <2>2. CASE k = n
        <3>1. Pending(r, UnderWay') = LinksOf(r)
            BY <1>4, <1>9, <1>10, <1>11 DEF Pending
        <3>2. \A c \in counting : c.link.mitigation # m
            BY <1>9 DEF UnderWay, LinksRead
        <3>3. Tally(r, LinksOf(r), counting)
            BY <1>1, <1>3, <1>4, <3>2, TallyBegins
        <3>4. QED
            BY <1>7, <2>2, <3>1, <3>3
    <2>3. CASE k \in DOMAIN request
        <3>1. Pending(request[k], UnderWay') = Pending(request[k], UnderWay)
            BY <1>8, <1>10, <1>11, <2>3 DEF Pending
        <3>2. QED
            BY <1>7, <2>3, <3>1 DEF IInv, Tallies
    <2>4. QED
        BY <1>7, <2>1, <2>2, <2>3
<1>17. Owes'
    <2>1. /\ findings' = findings /\ findings' \in {Listed, {}} /\ findings' # {}
          /\ links' = links /\ replies' = replies /\ confirmed' = confirmed
        BY <1>1, <1>5 DEF IInv, Owes, pageVars
    <2>2. \A l \in linking' : l.mitigation \in mitigations'
        BY <1>1, <1>5, <1>10 DEF IInv, Owes
    <2>3. ASSUME NEW x \in owed'
          PROVE  x[1] \in DOMAIN request' /\ Paid(request'[x[1]], x[2], linking', links')
        <3>1. CASE x \in owed
            BY <1>5, <1>7, <3>1 DEF IInv, Owes, Paid
        <3>2. CASE x \in {n} \X fs
            <4>1. x[1] = n /\ x[2] \in fs
                BY <3>2
            <4>2. [finding |-> x[2], mitigation |-> m] \in linking'
                BY <1>4, <1>5, <4>1 DEF LinksOf
            <4>3. QED
                BY <1>4, <1>7, <4>1, <4>2 DEF Paid
        <3>3. QED
            BY <1>5, <2>3, <3>1, <3>2
    <2>4. /\ \A a \in replies' : a.ok => a.n \in DOMAIN request' /\ request'[a.n].created
          /\ \A k \in confirmed' : k \in DOMAIN request' /\ request'[k].created
        BY <1>7, <2>1 DEF IInv, Owes
    <2>5. QED
        BY <2>1, <2>2, <2>3, <2>4 DEF Owes
<1>18. \A x \in owed' : x[1] \in confirmed => x \in owed
    <2>1. n \notin confirmed
        BY DEF n, IInv, Numbered
    <2>2. QED
        BY <1>5, <2>1
<1>19. outside' \in Nat
    BY <1>0, <1>5 DEF PageTyped
<1>20. QED
    BY <1>5, <1>12, <1>13, <1>14, <1>15, <1>16, <1>17, <1>18, <1>19, ServerStep

LEMMA RefusalKeeps ==
    ASSUME IInv, NEW p \in posts, InsertRefused(p)
    PROVE  IInv'
<1>0. TablesTyped /\ PageTyped /\ AnswersTyped
    BY TypesByGroup DEF IInv
<1>1. /\ posts' = posts \ {p} /\ replies' = replies \cup {[n |-> p.n, ok |-> FALSE]}
      /\ UNCHANGED << projects, versions, analyzed, deps, severity, affected, reports, summary,
                      findings, mitigations, links, up, linking, created >>
      /\ UNCHANGED << pageVars, request, callbacks, counting, saves, outside, owed >>
    BY DEF InsertRefused, tables, mitigationVars, countVars
<1>2. TablesTyped' /\ outside' \in Nat
    BY <1>0, <1>1 DEF TablesTyped, SchemaTypeOK, MitigationTypeOK, PageTyped
<1>3. AnswersTyped'
    <2>1. p.n \in Saves
        BY <1>0 DEF AnswersTyped
    <2>2. replies' \subseteq [n : Saves, ok : BOOLEAN]
        BY <1>0, <1>1, <2>1, ReplyTyped
    <2>3. QED
        BY <1>0, <1>1, <2>2 DEF AnswersTyped, Saves
<1>4. Disjoint' /\ Tallies'
    BY <1>1 DEF IInv, Disjoint, Tallies, UnderWay
<1>5. Numbered'
    <2>1. \A q \in posts' :
              /\ q.n \notin DOMAIN request' /\ q.n \notin confirmed'
              /\ \A a \in replies' : a.n # q.n
              /\ \A o \in posts' : o.n = q.n => o = q
        BY <1>1 DEF IInv, Numbered, pageVars
    <2>2. QED
        BY <1>1, <2>1 DEF IInv, Numbered, UnderWay, pageVars
<1>6. Owes'
    BY <1>1 DEF IInv, Owes, pageVars
<1>7. QED
    BY <1>1, <1>2, <1>3, <1>4, <1>5, <1>6, ServerStep

(***************************************************************************)
(* An UPDATE is executed: its link is in the table and its callback waits. *)
(***************************************************************************)
LEMMA UpdateKeeps ==
    ASSUME IInv, NEW l \in linking, UpdateExecutes(l)
    PROVE  IInv'
<1>0. TablesTyped /\ PageTyped /\ AnswersTyped
    BY TypesByGroup DEF IInv
<1>1. l \in UnderWay /\ l \in Link
    BY <1>0 DEF UnderWay, TablesTyped, MitigationTypeOK
<1>2. OfPage(l)
    BY <1>1, NumberIs DEF IInv
<1>3. /\ linking' = linking \ {l} /\ callbacks' = callbacks \cup {l}
      /\ links' = IF l.finding \in findings /\ l.mitigation \in mitigations
                  THEN Relink(l) ELSE links
      /\ UNCHANGED << projects, versions, analyzed, deps, severity, affected, reports, summary,
                      findings, mitigations, created, up >>
      /\ UNCHANGED << pageVars, posts, request, counting, replies, saves, outside, owed >>
    BY <1>2 DEF UpdateExecutes, LinkMitigation, countVars
<1>4. TablesTyped' /\ outside' \in Nat
    <2>1. links' \subseteq Link
        BY <1>0, <1>1, <1>3, RelinkLinks DEF TablesTyped, SchemaTypeOK
    <2>2. QED
        BY <1>0, <1>3, <2>1 DEF TablesTyped, SchemaTypeOK, MitigationTypeOK, PageTyped
<1>5. AnswersTyped'
    BY <1>0, <1>1, <1>3 DEF AnswersTyped, Saves
<1>6. Disjoint'
    BY <1>3 DEF IInv, Disjoint
<1>7. UnderWay' = UnderWay
    BY <1>3 DEF UnderWay
<1>8. Numbered' /\ Tallies'
    BY <1>3, <1>7 DEF IInv, Numbered, Tallies, pageVars
<1>9. Owes'
    <2>1. /\ findings' \in {Listed, {}}
          /\ findings' # {} => \A k \in linking' : k.mitigation \in mitigations'
          /\ findings' = {} => owed' = {}
        BY <1>3 DEF IInv, Owes
    <2>2. ASSUME NEW x \in owed'
          PROVE  x[1] \in DOMAIN request' /\ Paid(request'[x[1]], x[2], linking', links')
        <3> DEFINE r == request[x[1]]
                   k == [finding |-> x[2], mitigation |-> r.mitigation]
        <3>1. /\ x \in owed /\ x[1] \in DOMAIN request /\ Paid(r, x[2], linking, links)
              /\ findings = Listed /\ findings # {} /\ x[2] \in findings
            BY <1>0, <1>3, <2>2 DEF IInv, Owes, AnswersTyped
        <3>2. l.mitigation \in mitigations
            BY <3>1 DEF IInv, Owes
        <3>3. CASE k = l
            <4>1. l.finding = x[2]
                BY <3>3
            <4>2. links' = Relink(l)
                BY <1>3, <3>1, <3>2, <4>1
            <4>3. \E z \in links' : z.finding = x[2]
                BY <4>1, <4>2, RelinkLinks
            <4>4. QED
                BY <1>3, <3>1, <4>3 DEF Paid
        <3>4. CASE k # l
            <4>1. k \in linking => k \in linking'
                BY <1>3, <3>4
            <4>2. (\E z \in links : z.finding = x[2]) => \E z \in links' : z.finding = x[2]
                BY <1>3, RelinkLinks
            <4>3. QED
                BY <1>3, <3>1, <4>1, <4>2 DEF Paid
        <3>5. QED
            BY <3>3, <3>4
    <2>3. /\ \A a \in replies' : a.ok => a.n \in DOMAIN request' /\ request'[a.n].created
          /\ \A n \in confirmed' : n \in DOMAIN request' /\ request'[n].created
        BY <1>3 DEF IInv, Owes, pageVars
    <2>4. QED
        BY <2>1, <2>2, <2>3 DEF Owes
<1>10. QED
    BY <1>3, <1>4, <1>5, <1>6, <1>8, <1>9, ServerStep

(***************************************************************************)
(* A connection fails: the request has failed, whether or not the UPDATE   *)
(* took effect.                                                            *)
(***************************************************************************)
LEMMA FailureKeeps ==
    ASSUME IInv, NEW l \in linking, UpdateFails(l)
    PROVE  IInv'
<1> DEFINE n == NumberOf(l)
           t == Failed(request[n])
<1>0. TablesTyped /\ PageTyped /\ AnswersTyped
    BY TypesByGroup DEF IInv
<1>1. l \in UnderWay /\ l \in Link
    BY <1>0 DEF UnderWay, TablesTyped, MitigationTypeOK
<1>2. /\ OfPage(l) /\ n \in DOMAIN request /\ l.mitigation = request[n].mitigation
      /\ \A k \in DOMAIN request : request[k].mitigation = l.mitigation => k = n
    BY <1>1, NumberIs DEF IInv
<1>3. /\ linking' = linking \ {l} /\ links' \subseteq links \cup {l}
      /\ \A f : (\E k \in links : k.finding = f) => \E k \in links' : k.finding = f
      /\ request' = [request EXCEPT ![n] = t]
      /\ replies' = Replies(n, FALSE)
      /\ outside' = outside + 1
    <2>1. links' = links \/ links' = Relink(l)
        BY DEF UpdateFails
    <2>2. /\ links' \subseteq links \cup {l}
          /\ \A f : (\E k \in links : k.finding = f) => \E k \in links' : k.finding = f
        BY <2>1, RelinkLinks
    <2>3. /\ linking' = linking \ {l} /\ outside' = outside + 1
          /\ request' = [request EXCEPT ![n] = t] /\ replies' = Replies(n, FALSE)
        BY <1>2 DEF UpdateFails, FromOutside
    <2>4. QED
        BY <2>2, <2>3
<1>4. /\ UNCHANGED << projects, versions, analyzed, deps, severity, affected, reports, summary,
                      findings, mitigations, created, up >>
      /\ UNCHANGED << pageVars, posts, callbacks, counting, saves, owed >>
    BY DEF UpdateFails
<1>5. /\ request[n] \in RequestRow
      /\ Tally(request[n], Pending(request[n], UnderWay), counting)
      /\ l \in Pending(request[n], UnderWay)
    BY <1>0, <1>1, <1>2 DEF AnswersTyped, IInv, Tallies, Pending
<1>6. /\ t \in RequestRow /\ Tally(t, Pending(request[n], UnderWay) \ {l}, counting)
    BY <1>5, TallyFails
<1>7. /\ t.mitigation = request[n].mitigation /\ t.findings = request[n].findings
      /\ t.created = request[n].created /\ t.failed > 0
    BY <1>5 DEF Failed, RequestRow
<1>8. /\ DOMAIN request' = DOMAIN request /\ request'[n] = t
      /\ \A k \in DOMAIN request : k # n => request'[k] = request[k]
    BY <1>2, <1>3
<1>9. /\ \A k \in DOMAIN request :
           /\ request'[k].mitigation = request[k].mitigation
           /\ LinksOf(request'[k]) = LinksOf(request[k])
           /\ request'[k].created = request[k].created
    BY <1>7, <1>8 DEF LinksOf
<1>10. replies' \subseteq replies \cup {[n |-> n, ok |-> FALSE]}
    BY <1>3 DEF Replies
<1> HIDE DEF n, t
<1>11. TablesTyped' /\ outside' \in Nat
    BY <1>0, <1>1, <1>3, <1>4 DEF TablesTyped, SchemaTypeOK, MitigationTypeOK, PageTyped
<1>12. AnswersTyped'
    <2>1. n \in Saves
        BY <1>0, <1>2 DEF AnswersTyped
    <2>2. replies' \subseteq [n : Saves, ok : BOOLEAN]
        BY <1>0, <1>10, <2>1, ReplyTyped
    <2>3. \A k \in DOMAIN request' : request'[k] \in RequestRow
        BY <1>0, <1>6, <1>8 DEF AnswersTyped
    <2>4. QED
        BY <1>0, <1>4, <1>8, <2>2, <2>3 DEF AnswersTyped, Saves
<1>13. Disjoint'
    BY <1>3, <1>4 DEF IInv, Disjoint
<1>14. UnderWay' = UnderWay \ {l}
    BY <1>3, <1>4 DEF IInv, Disjoint, UnderWay
<1>15. Tallies'
    BY <1>2, <1>3, <1>4, <1>6, <1>7, <1>14, TalliesMove DEF IInv
<1>16. Numbered'
    <2>1. \A k \in DOMAIN request' :
              /\ request'[k].mitigation.id <= created'
              /\ \A j \in DOMAIN request' : request'[j].mitigation = request'[k].mitigation => j = k
        BY <1>4, <1>8, <1>9 DEF IInv, Numbered
    <2>2. \A k \in UnderWay' : \E j \in DOMAIN request' : k \in LinksOf(request'[j])
        BY <1>8, <1>9, <1>14 DEF IInv, Numbered
    <2>3. \A q \in posts' :
              /\ q.n \notin DOMAIN request' /\ q.n \notin confirmed'
              /\ \A a \in replies' : a.n # q.n
              /\ \A o \in posts' : o.n = q.n => o = q
        BY <1>2, <1>4, <1>8, <1>10 DEF IInv, Numbered, pageVars
    <2>4. \A x \in loads' : x.n <= loaded'.sent
        BY <1>4 DEF IInv, Numbered, pageVars
    <2>5. QED
        BY <2>1, <2>2, <2>3, <2>4 DEF Numbered
<1>17. Owes'
    <2>1. /\ findings' \in {Listed, {}}
          /\ findings' # {} => \A k \in linking' : k.mitigation \in mitigations'
          /\ findings' = {} => owed' = {}
        BY <1>3, <1>4 DEF IInv, Owes
    <2>2. ASSUME NEW x \in owed'
          PROVE  x[1] \in DOMAIN request' /\ Paid(request'[x[1]], x[2], linking', links')
        <3>1. x \in owed /\ x[1] \in DOMAIN request /\ Paid(request[x[1]], x[2], linking, links)
            BY <1>4, <2>2 DEF IInv, Owes
        <3>2. CASE x[1] = n
            BY <1>7, <1>8, <3>1, <3>2 DEF Paid
        <3>3. CASE x[1] # n
            <4>1. request'[x[1]] = request[x[1]] /\ request[x[1]].mitigation # l.mitigation
                BY <1>2, <1>8, <3>1, <3>3
            <4>2. [finding |-> x[2], mitigation |-> request[x[1]].mitigation] # l
                BY <4>1
            <4>3. QED
                BY <1>3, <1>8, <3>1, <4>1, <4>2 DEF Paid
        <3>4. QED
            BY <3>2, <3>3
    <2>3. /\ \A a \in replies' : a.ok => a.n \in DOMAIN request' /\ request'[a.n].created
          /\ \A k \in confirmed' : k \in DOMAIN request' /\ request'[k].created
        BY <1>4, <1>8, <1>9, <1>10 DEF IInv, Owes, pageVars
    <2>4. QED
        BY <2>1, <2>2, <2>3 DEF Owes
<1>18. QED
    BY <1>4, <1>11, <1>12, <1>13, <1>15, <1>16, <1>17, ServerStep

(***************************************************************************)
(* A callback reads the counter ...                                        *)
(***************************************************************************)
LEMMA LoadKeeps ==
    ASSUME IInv, NEW l \in callbacks, LoadCompleted(l)
    PROVE  IInv'
<1> DEFINE n == NumberOf(l)
           d == [link |-> l, value |-> request[n].completed]
<1>0. TablesTyped /\ PageTyped /\ AnswersTyped
    BY TypesByGroup DEF IInv
<1>1. /\ l \in UnderWay /\ l \in Link
      /\ n \in DOMAIN request
      /\ \A k \in DOMAIN request : request[k].mitigation = l.mitigation => k = n
    <2>1. l \in UnderWay
        BY DEF UnderWay
    <2>2. QED
        BY <1>0, <2>1, NumberIs DEF AnswersTyped, IInv
<1>2. /\ callbacks' = callbacks \ {l} /\ counting' = counting \cup {d}
      /\ UNCHANGED << projects, versions, analyzed, deps, severity, affected, reports, summary,
                      findings, mitigations, links, up, linking, created >>
      /\ UNCHANGED << pageVars, posts, request, replies, saves, outside, owed >>
    BY DEF LoadCompleted, tables, mitigationVars, countVars
<1>3. request[n].completed \in Nat
    BY <1>0, <1>1 DEF AnswersTyped, RequestRow
<1>4. d \in [link : Link, value : Nat] /\ d.link = l /\ d.value = request[n].completed
    BY <1>1, <1>3
<1> HIDE DEF n
<1>5. TablesTyped' /\ outside' \in Nat
    BY <1>0, <1>2 DEF TablesTyped, SchemaTypeOK, MitigationTypeOK, PageTyped
<1>6. AnswersTyped'
    <2> HIDE DEF d
    <2> QED
        BY <1>0, <1>2, <1>4 DEF AnswersTyped, Saves
<1>7. LinksRead(counting') = LinksRead(counting) \cup {l}
    <2> HIDE DEF d
    <2> QED
        BY <1>2, <1>4 DEF LinksRead
<1>8. UnderWay' = UnderWay
    BY <1>2, <1>7 DEF UnderWay
<1>9. Disjoint'
    <2>1. linking' \cap callbacks' = {} /\ (linking' \cup callbacks') \cap LinksRead(counting') = {}
        BY <1>2, <1>7 DEF IInv, Disjoint
    <2>2. \A c \in counting : c.link # l
        BY DEF IInv, Disjoint, LinksRead
    <2>3. \A c, e \in counting' : c.link = e.link => c = e
        <3> HIDE DEF d
        <3> QED
            BY <1>2, <1>4, <2>2 DEF IInv, Disjoint
    <2>4. QED
        BY <2>1, <2>3 DEF Disjoint
<1>10. Numbered' /\ Owes'
    BY <1>2, <1>8 DEF IInv, Numbered, Owes, pageVars
<1>11. Tallies'
    <2>1. SUFFICES ASSUME NEW k \in DOMAIN request
                   PROVE  Tally(request[k], Pending(request[k], UnderWay), counting')
        BY <1>2, <1>8 DEF Tallies
    <2>2. Tally(request[k], Pending(request[k], UnderWay), counting)
        BY DEF IInv, Tallies
    <2>3. l.mitigation = request[k].mitigation => request[n].completed = request[k].completed
        BY <1>1
    <2>4. QED
        BY <1>2, <2>2, <2>3, TallyRead
<1>12. QED
    BY <1>2, <1>5, <1>6, <1>9, <1>10, <1>11, ServerStep

(***************************************************************************)
(* ... and stores it: the last one answers, and by then nothing of the     *)
(* request is under way and nothing of it failed.                          *)
(***************************************************************************)
LEMMA StoreKeeps ==
    ASSUME IInv, NEW c \in counting, StoreCompleted(c)
    PROVE  IInv'
<1> DEFINE l == c.link
           n == NumberOf(l)
           r == request[n]
           last == Complete(c.value + 1, r.findings)
           t == Stored(r, c.value)
<1>0. TablesTyped /\ PageTyped /\ AnswersTyped
    BY TypesByGroup DEF IInv
<1>1. l \in UnderWay
    BY DEF UnderWay, LinksRead
<1>2. /\ n \in DOMAIN request /\ l.mitigation = r.mitigation
      /\ \A k \in DOMAIN request : request[k].mitigation = l.mitigation => k = n
    BY <1>1, NumberIs DEF IInv
<1>3. /\ counting' = counting \ {c} /\ request' = [request EXCEPT ![n] = t]
      /\ replies' = IF last THEN Replies(n, TRUE) ELSE replies
      /\ UNCHANGED << projects, versions, analyzed, deps, severity, affected, reports, summary,
                      findings, mitigations, links, up, linking, created >>
      /\ UNCHANGED << pageVars, posts, callbacks, saves, outside, owed >>
    <2>1. counting' = counting \ {c}
        BY DEF StoreCompleted
    <2>2. request' = [request EXCEPT ![n] = t]
        BY DEF StoreCompleted
    <2>3. replies' = IF last THEN Replies(n, TRUE) ELSE replies
        BY DEF StoreCompleted
    <2>4. /\ UNCHANGED << projects, versions, analyzed, deps, severity, affected, reports, summary,
                          findings, mitigations, links, up, linking, created >>
          /\ UNCHANGED << pageVars, posts, callbacks, saves, outside, owed >>
        BY DEF StoreCompleted, tables, mitigationVars, countVars
    <2> HIDE DEF l, n, r, last, t
    <2>5. QED
        BY <2>1, <2>2, <2>3, <2>4
<1>4. /\ r \in RequestRow /\ Tally(r, Pending(r, UnderWay), counting)
      /\ l \in Pending(r, UnderWay)
      /\ c.value \in Nat /\ \A d \in counting : d.value \in Nat
    BY <1>0, <1>1, <1>2 DEF AnswersTyped, IInv, Tallies, Pending
<1>5. /\ t \in RequestRow
      /\ t.mitigation = r.mitigation /\ t.findings = r.findings /\ t.failed = r.failed
      /\ r.created => t.created
      /\ last /\ r.answers = 0 => t.created
      /\ Tally(t, Pending(r, UnderWay) \ {l}, counting \ {c})
    <2> HIDE DEF n, r
    <2>1. c.link \in Pending(r, UnderWay) /\ c.link.mitigation = r.mitigation /\ c.value \in Nat
        BY <1>2, <1>4
    <2>2. \A d \in counting : d.link.mitigation = r.mitigation => d.value \in Nat
        BY <1>4
    <2>3. r \in RequestRow /\ Tally(r, Pending(r, UnderWay), counting)
        BY <1>4
    <2> HIDE DEF l
    <2>4. /\ Stored(r, c.value) \in RequestRow
          /\ Stored(r, c.value).mitigation = r.mitigation
          /\ Stored(r, c.value).findings = r.findings
          /\ Stored(r, c.value).failed = r.failed
          /\ r.created => Stored(r, c.value).created
          /\ Complete(c.value + 1, r.findings) /\ r.answers = 0
                => Stored(r, c.value).created
          /\ Tally(Stored(r, c.value), Pending(r, UnderWay) \ {c.link}, counting \ {c})
        BY <2>1, <2>2, <2>3, TallyStored
    <2>5. QED
        BY <2>4 DEF l
<1>6. replies' \subseteq replies \cup {[n |-> n, ok |-> TRUE]}
    BY <1>3 DEF Replies
<1>7. replies' # replies => last /\ r.answers = 0
    BY <1>3 DEF Replies
<1>8. /\ DOMAIN request' = DOMAIN request /\ request'[n] = t
      /\ \A k \in DOMAIN request : k # n => request'[k] = request[k]
    <2> HIDE DEF t, n
    <2> QED
        BY <1>2, <1>3
<1> HIDE DEF t, n, last, l, r
<1>9. \A k \in DOMAIN request :
           /\ request'[k].mitigation = request[k].mitigation
           /\ LinksOf(request'[k]) = LinksOf(request[k])
           /\ request'[k].failed = request[k].failed
           /\ request[k].created => request'[k].created
    BY <1>5, <1>8 DEF LinksOf, r
<1>10. TablesTyped' /\ outside' \in Nat
    BY <1>0, <1>3 DEF TablesTyped, SchemaTypeOK, MitigationTypeOK, PageTyped
<1>11. AnswersTyped'
    <2>1. n \in Saves
        BY <1>0, <1>2 DEF AnswersTyped
    <2>2. replies' \subseteq [n : Saves, ok : BOOLEAN]
        BY <1>0, <1>6, <2>1, ReplyTyped
    <2>3. \A k \in DOMAIN request' : request'[k] \in RequestRow
        BY <1>0, <1>5, <1>8 DEF AnswersTyped
    <2>4. QED
        BY <1>0, <1>3, <1>8, <2>2, <2>3 DEF AnswersTyped, Saves
<1>12. LinksRead(counting') = LinksRead(counting) \ {l}
    BY <1>3 DEF IInv, Disjoint, LinksRead, l
<1>13. UnderWay' = UnderWay \ {l}
    <2>1. l \in LinksRead(counting)
        BY DEF LinksRead, l
    <2>2. QED
        BY <1>3, <1>12, <2>1 DEF IInv, Disjoint, UnderWay
<1>14. Disjoint'
    BY <1>3, <1>12 DEF IInv, Disjoint
<1>15. Tallies'
    BY <1>2, <1>3, <1>5, <1>13, TalliesMove DEF IInv, r
<1>16. Numbered'
    <2>1. \A k \in DOMAIN request' :
              /\ request'[k].mitigation.id <= created'
              /\ \A j \in DOMAIN request' : request'[j].mitigation = request'[k].mitigation => j = k
        BY <1>3, <1>8, <1>9 DEF IInv, Numbered
    <2>2. \A k \in UnderWay' : \E j \in DOMAIN request' : k \in LinksOf(request'[j])
        BY <1>8, <1>9, <1>13 DEF IInv, Numbered
    <2>3. \A q \in posts' :
              /\ q.n \notin DOMAIN request' /\ q.n \notin confirmed'
              /\ \A a \in replies' : a.n # q.n
              /\ \A o \in posts' : o.n = q.n => o = q
        <3>1. posts' = posts /\ confirmed' = confirmed /\ DOMAIN request' = DOMAIN request
            BY <1>3, <1>8 DEF pageVars
        <3>2. \A q \in posts : q.n # n
            BY <1>2 DEF IInv, Numbered
        <3>3. \A a \in replies' : a \in replies \/ a.n = n
            BY <1>6
        <3>4. QED
            BY <3>1, <3>2, <3>3 DEF IInv, Numbered
    <2>4. \A x \in loads' : x.n <= loaded'.sent
        BY <1>3 DEF IInv, Numbered, pageVars
    <2>5. QED
        BY <2>1, <2>2, <2>3, <2>4 DEF Numbered
<1>17. Owes'
    <2>1. /\ findings' \in {Listed, {}}
          /\ findings' # {} => \A k \in linking' : k.mitigation \in mitigations'
          /\ findings' = {} => owed' = {}
        BY <1>3 DEF IInv, Owes
    <2>2. \A x \in owed' : x[1] \in DOMAIN request' /\ Paid(request'[x[1]], x[2], linking', links')
        BY <1>3, <1>8, <1>9 DEF IInv, Owes, Paid
    <2>3. \A a \in replies' : a.ok => a.n \in DOMAIN request' /\ request'[a.n].created
        <3>1. \A a \in replies : a.ok => a.n \in DOMAIN request' /\ request'[a.n].created
            BY <1>8, <1>9 DEF IInv, Owes
        <3>2. replies' # replies => n \in DOMAIN request' /\ request'[n].created
            BY <1>2, <1>5, <1>7, <1>8
        <3>3. QED
            BY <1>6, <3>1, <3>2
    <2>4. \A k \in confirmed' : k \in DOMAIN request' /\ request'[k].created
        BY <1>3, <1>8, <1>9 DEF IInv, Owes, pageVars
    <2>5. QED
        BY <2>1, <2>2, <2>3, <2>4 DEF Owes
<1>18. QED
    BY <1>3, <1>10, <1>11, <1>14, <1>15, <1>16, <1>17, ServerStep

(***************************************************************************)
(* The dialog sends its request, with a number no other one has.           *)
(***************************************************************************)
LEMMA SaveKeeps ==
    ASSUME IInv, Save
    PROVE  IInv'
<1> DEFINE n == saves + 1
           p == [n |-> n, findings |-> dialog.findings]
           d == [dialog EXCEPT !.waits = n]
<1>0. TablesTyped /\ PageTyped /\ AnswersTyped
    BY TypesByGroup DEF IInv
<1>1. /\ saves' = n /\ dialog' = d /\ posts' = posts \cup {p} /\ dialog # NoDialog
      /\ UNCHANGED << projects, versions, analyzed, deps, severity, affected, reports, summary,
                      findings, mitigations, links, up, linking, created >>
      /\ UNCHANGED << shown, selected, loads, loaded, confirmed, hasty, request, callbacks,
                      counting, replies, outside, owed >>
    BY DEF Save, tables, mitigationVars
<1>2. /\ n \in Nat /\ n \notin Saves /\ n \in Saves' /\ Saves \subseteq Saves'
      /\ saves \in Nat
    BY <1>0, <1>1 DEF PageTyped, Saves
<1>3. /\ dialog.findings \subseteq Listed /\ d.findings = dialog.findings
      /\ d \in [findings : SUBSET Listed, waits : 0 .. n]
    BY <1>0, <1>2 DEF PageTyped
<1>4. p \in [n : Saves', findings : SUBSET Listed] /\ p.n = n
    BY <1>2, <1>3
<1> HIDE DEF n, p, d
<1>5. TablesTyped'
    BY <1>0, <1>1 DEF TablesTyped, SchemaTypeOK, MitigationTypeOK
<1>6. PageTyped'
    BY <1>0, <1>1, <1>2, <1>3 DEF PageTyped
<1>7. AnswersTyped'
    <2>1. posts' \subseteq [n : Saves', findings : SUBSET Listed]
        BY <1>0, <1>1, <1>2, <1>4 DEF AnswersTyped
    <2>2. replies' \subseteq [n : Saves', ok : BOOLEAN] /\ owed' \subseteq Saves' \X Listed
        BY <1>0, <1>1, <1>2 DEF AnswersTyped
    <2>3. DOMAIN request' \subseteq Saves' /\ \A k \in DOMAIN request' : request'[k] \in RequestRow
        BY <1>0, <1>1, <1>2 DEF AnswersTyped
    <2>4. callbacks' \subseteq Link /\ counting' \subseteq [link : Link, value : Nat]
        BY <1>0, <1>1 DEF AnswersTyped
    <2>5. QED
        BY <2>1, <2>2, <2>3, <2>4 DEF AnswersTyped
<1>8. PageInv'
    BY <1>1, <1>3 DEF IInv, PageInv, Untouched, NamesOpen
<1>9. Disjoint' /\ Owes' /\ Tallies' /\ ListsConfirm'
    BY <1>1 DEF IInv, Disjoint, Owes, Tallies, ListsConfirm, HasConfirmed, UnderWay
<1>10. Numbered'
    <2>1. /\ n \notin DOMAIN request /\ n \notin confirmed /\ \A r \in replies : r.n # n
          /\ \A q \in posts : q.n # n
        BY <1>0, <1>2 DEF PageTyped, AnswersTyped
    <2>2. \A q \in posts' :
              /\ q.n \notin DOMAIN request' /\ q.n \notin confirmed'
              /\ \A a \in replies' : a.n # q.n
              /\ \A o \in posts' : o.n = q.n => o = q
        BY <1>1, <1>4, <2>1 DEF IInv, Numbered
    <2>3. QED
        BY <1>1, <2>2 DEF IInv, Numbered, UnderWay
<1>11. TypeOK'
    <2>1. TablesTyped' /\ PageTyped' /\ AnswersTyped' /\ Tallies' => TypeOK'
        BY TypesTogether, PTL
    <2>2. QED
        BY <1>5, <1>6, <1>7, <1>9, <2>1
<1>12. QED
    BY <1>8, <1>9, <1>10, <1>11 DEF IInv

(***************************************************************************)
(* A list is asked for: nothing was shown or answered of it yet.           *)
(***************************************************************************)
LEMMA ReloadAsks ==
    ASSUME PageTyped, \A x \in loads : x.n <= loaded.sent
    PROVE  LET y == [n |-> loaded.sent + 1, list |-> Unanswered]
               z == [loaded EXCEPT !.sent = @ + 1] IN
           /\ y \in [n : Nat, list : ListType]
           /\ z \in [sent : Nat, shown : Nat] /\ z.shown < z.sent
           /\ \A x \in Reload : x.n <= z.sent
           /\ \A x \in Reload : x.n = z.sent => x.list = Unanswered
<1> DEFINE y == [n |-> loaded.sent + 1, list |-> Unanswered]
           z == [loaded EXCEPT !.sent = @ + 1]
<1>1. loaded.sent \in Nat /\ loaded.shown \in Nat /\ loaded.shown <= loaded.sent
    BY DEF PageTyped
<1>2. Unanswered \in ListType
    BY DEF Unanswered, ListType
<1>3. y \in [n : Nat, list : ListType]
    BY <1>1, <1>2
<1>4. /\ z \in [sent : Nat, shown : Nat] /\ z.sent = loaded.sent + 1
      /\ z.shown = loaded.shown
    BY <1>1 DEF PageTyped
<1>5. Reload = loads \cup {y} /\ y.n = loaded.sent + 1 /\ y.list = Unanswered
    BY DEF Reload
<1>6. \A x \in loads : x.n \in Nat
    BY DEF PageTyped
<1> HIDE DEF y, z
<1>7. z.shown < z.sent
    BY <1>1, <1>4
<1>8. \A x \in Reload : x.n <= z.sent
    BY <1>1, <1>4, <1>5, <1>6
<1>9. \A x \in Reload : x.n = z.sent => x.list = Unanswered
    BY <1>1, <1>4, <1>5, <1>6
<1>10. QED
    BY <1>3, <1>4, <1>7, <1>8, <1>9 DEF y, z

(***************************************************************************)
(* The answer to a request reaches the page.                               *)
(***************************************************************************)
LEMMA ReplyKeeps ==
    ASSUME IInv, NEW r \in replies, ReplyArrives(r)
    PROVE  IInv'
<1> DEFINE y == [n |-> loaded.sent + 1, list |-> Unanswered]
           z == [loaded EXCEPT !.sent = @ + 1]
           d == [dialog EXCEPT !.waits = 0]
<1>0. TablesTyped /\ PageTyped /\ AnswersTyped
    BY TypesByGroup DEF IInv
<1>1. /\ replies' = replies \ {r}
      /\ UNCHANGED << projects, versions, analyzed, deps, severity, affected, reports, summary,
                      findings, mitigations, links, up, linking, created >>
      /\ UNCHANGED << shown, posts, request, callbacks, counting, saves, outside, owed >>
    BY DEF ReplyArrives, tables, mitigationVars, countVars
<1>2. \/ /\ r.ok /\ dialog' = NoDialog /\ confirmed' = confirmed \cup {r.n}
         /\ hasty' = FALSE /\ selected' = {} /\ loads' = Reload /\ loaded' = z
      \/ /\ dialog.waits = r.n /\ dialog' = d
         /\ UNCHANGED << selected, loads, loaded, confirmed, hasty >>
      \/ UNCHANGED << selected, dialog, loads, loaded, confirmed, hasty >>
    BY DEF ReplyArrives, AfterClosed, AfterSuccess
<1>3. r.n \in Saves /\ saves \in Nat /\ Saves' = Saves
    BY <1>0, <1>1 DEF PageTyped, AnswersTyped, Saves
<1>4. /\ y \in [n : Nat, list : ListType]
      /\ z \in [sent : Nat, shown : Nat] /\ z.shown < z.sent
      /\ \A x \in Reload : x.n <= z.sent
      /\ \A x \in Reload : x.n = z.sent => x.list = Unanswered
    BY <1>0, ReloadAsks DEF IInv, Numbered
<1>5. Reload = loads \cup {y}
    BY DEF Reload
<1>6. /\ d \in [findings : SUBSET Listed, waits : 0 .. saves] /\ d.findings = dialog.findings
      /\ NoDialog \in [findings : SUBSET Listed, waits : 0 .. saves]
    BY <1>0 DEF PageTyped, NoDialog
<1> HIDE DEF y, z, d
<1>7. TablesTyped' /\ AnswersTyped'
    BY <1>0, <1>1 DEF TablesTyped, SchemaTypeOK, MitigationTypeOK, AnswersTyped, Saves
<1>8. PageTyped'
    <2>1. /\ shown' \in ListType /\ saves' \in Nat /\ outside' \in Nat
          /\ selected' \subseteq Listed /\ confirmed' \subseteq Saves' /\ hasty' \in BOOLEAN
        BY <1>0, <1>1, <1>2, <1>3 DEF PageTyped
    <2>2. dialog' \in [findings : SUBSET Listed, waits : 0 .. saves']
        BY <1>0, <1>1, <1>2, <1>6 DEF PageTyped
    <2>3. loads' \subseteq [n : Nat, list : ListType]
        BY <1>0, <1>2, <1>4, <1>5 DEF PageTyped
    <2>4. loaded' \in [sent : Nat, shown : Nat] /\ loaded'.shown <= loaded'.sent
        BY <1>0, <1>2, <1>4 DEF PageTyped
    <2>5. QED
        BY <2>1, <2>2, <2>3, <2>4 DEF PageTyped
<1>9. PageInv'
    <2>1. SUFFICES ASSUME ~ hasty' PROVE IF loads' # {} THEN Untouched' ELSE NamesOpen'
        BY DEF PageInv
    <2>2. CASE selected' = {} /\ dialog' = NoDialog /\ loads' = Reload
        BY <1>5, <2>2 DEF Untouched
    <2>3. CASE dialog.waits = r.n /\ dialog' = d /\ UNCHANGED << selected, loads, hasty >>
        <3>1. dialog # NoDialog
            BY <1>3, <2>3 DEF Saves, NoDialog
        <3>2. NamesOpen /\ loads = {}
            BY <2>1, <2>3, <3>1 DEF IInv, PageInv, Untouched
        <3>3. QED
            BY <1>1, <1>6, <2>3, <3>2 DEF NamesOpen
    <2>4. CASE UNCHANGED << selected, dialog, loads, hasty >>
        BY <1>1, <2>1, <2>4 DEF IInv, PageInv, Untouched, NamesOpen
    <2>5. QED
        BY <1>2, <2>2, <2>3, <2>4
<1>10. Disjoint' /\ Tallies'
    BY <1>1 DEF IInv, Disjoint, Tallies, UnderWay
<1>11. Numbered'
    <2>1. \A q \in posts' :
              /\ q.n \notin DOMAIN request' /\ q.n \notin confirmed'
              /\ \A a \in replies' : a.n # q.n
              /\ \A o \in posts' : o.n = q.n => o = q
        BY <1>1, <1>2 DEF IInv, Numbered
    <2>2. \A x \in loads' : x.n <= loaded'.sent
        BY <1>2, <1>4 DEF IInv, Numbered
    <2>3. QED
        BY <1>1, <2>1, <2>2 DEF IInv, Numbered, UnderWay
<1>12. Owes'
    <2>1. r.ok => r.n \in DOMAIN request /\ request[r.n].created
        BY DEF IInv, Owes
    <2>2. \A k \in confirmed' : k \in DOMAIN request' /\ request'[k].created
        BY <1>1, <1>2, <2>1 DEF IInv, Owes
    <2>3. QED
        BY <1>1, <2>2 DEF IInv, Owes
<1>13. ListsConfirm'
    <2>1. CASE loads' = Reload /\ loaded' = z
        BY <1>4, <2>1, <1>8 DEF ListsConfirm, PageTyped
    <2>2. CASE UNCHANGED << loads, loaded, confirmed >>
        BY <1>1, <2>2 DEF IInv, ListsConfirm, HasConfirmed
    <2>3. QED
        BY <1>2, <2>1, <2>2
<1>14. TypeOK'
    <2>1. TablesTyped' /\ PageTyped' /\ AnswersTyped' /\ Tallies' => TypeOK'
        BY TypesTogether, PTL
    <2>2. QED
        BY <1>7, <1>8, <1>10, <2>1
<1>15. QED
    BY <1>9, <1>10, <1>11, <1>12, <1>13, <1>14 DEF IInv

(***************************************************************************)
(* Others take a mitigation away ...                                       *)
(***************************************************************************)
LEMMA RemovedKeeps ==
    ASSUME IInv, NEW f, Removed(f)
    PROVE  IInv'
<1>0. TablesTyped /\ PageTyped /\ AnswersTyped
    BY TypesByGroup DEF IInv
<1>1. /\ links' = {l \in links : l.finding # f} /\ owed' = {x \in owed : x[2] # f}
      /\ outside' = outside + 1
      /\ UNCHANGED << projects, versions, analyzed, deps, severity, affected, reports, summary,
                      findings, mitigations, up, linking, created >>
      /\ UNCHANGED << pageVars, posts, request, callbacks, counting, replies, saves >>
    BY DEF Removed, RemoveMitigation, FromOutside, mitigationVars, answerVars
<1>2. TablesTyped' /\ outside' \in Nat
    BY <1>0, <1>1 DEF TablesTyped, SchemaTypeOK, MitigationTypeOK, PageTyped
<1>3. AnswersTyped'
    BY <1>0, <1>1 DEF AnswersTyped, Saves
<1>4. Disjoint' /\ Tallies'
    BY <1>1 DEF IInv, Disjoint, Tallies, UnderWay
<1>5. Numbered'
    BY <1>1 DEF IInv, Numbered, UnderWay, pageVars
<1>6. Owes'
    <2>1. \A x \in owed' : x[1] \in DOMAIN request' /\ Paid(request'[x[1]], x[2], linking', links')
        BY <1>1 DEF IInv, Owes, Paid
    <2>2. QED
        BY <1>1, <2>1 DEF IInv, Owes, pageVars
<1>7. QED
    BY <1>1, <1>2, <1>3, <1>4, <1>5, <1>6, ServerStep

(***************************************************************************)
(* ... or analyse the version again: the report's findings are gone.       *)
(***************************************************************************)
LEMMA AnalysedKeeps ==
    ASSUME IInv, AnalysedAgain
    PROVE  IInv'
<1>0. TablesTyped /\ PageTyped /\ AnswersTyped
    BY TypesByGroup DEF IInv
<1>1. /\ versions' = versions /\ findings' = {} /\ mitigations' = {} /\ links' = {}
      /\ deps' = {} /\ reports' \subseteq reports /\ summary' = [r \in reports' |-> summary[r]]
    BY DEF AnalysedAgain, Retain
<1>2. /\ owed' = {} /\ outside' = outside + 1
      /\ UNCHANGED << projects, analyzed, severity, affected, up, linking, created >>
      /\ UNCHANGED << pageVars, posts, request, callbacks, counting, replies, saves >>
    BY DEF AnalysedAgain, FromOutside, mitigationVars, answerVars
<1>3. summary' \in [reports' -> Summary]
    BY <1>0, <1>1 DEF TablesTyped, SchemaTypeOK
<1>4. TablesTyped' /\ outside' \in Nat
    BY <1>0, <1>1, <1>2, <1>3 DEF TablesTyped, SchemaTypeOK, MitigationTypeOK, PageTyped
<1>5. AnswersTyped'
    BY <1>0, <1>2 DEF AnswersTyped, Saves
<1>6. Disjoint' /\ Tallies'
    BY <1>2 DEF IInv, Disjoint, Tallies, UnderWay
<1>7. Numbered'
    BY <1>2 DEF IInv, Numbered, UnderWay, pageVars
<1>8. Owes'
    BY <1>1, <1>2 DEF IInv, Owes, pageVars
<1>9. QED
    BY <1>2, <1>4, <1>5, <1>6, <1>7, <1>8, ServerStep

-----------------------------------------------------------------------------

(***************************************************************************)
(* The page is opened on a report.                                         *)
(***************************************************************************)
LEMMA InitHolds == Init => IInv
<1> SUFFICES ASSUME Init PROVE IInv
    OBVIOUS
<1>1. /\ findings = Listed /\ mitigations = {} /\ links = {} /\ linking = {} /\ created = 0
      /\ posts = {} /\ request = [n \in {} |-> 0] /\ callbacks = {} /\ counting = {}
      /\ replies = {} /\ saves = 0 /\ outside = 0
      /\ owed = {} /\ confirmed = {} /\ ~ hasty /\ hasty \in BOOLEAN
      /\ shown = Unanswered /\ selected = {} /\ dialog = NoDialog
      /\ loads = {[n |-> 1, list |-> Unanswered]} /\ loaded = [sent |-> 1, shown |-> 0]
    BY DEF Init, MitigationInit
<1>2. DOMAIN request = {}
    BY <1>1
<1>3. TablesTyped
    <2>1. \A f \in Listed : /\ f \in FindingRow /\ f.report \in ReportRow
                            /\ f.dep \in DependencyRow /\ f.report.version \in VersionRow
                            /\ f.report.version.project \in Project
        BY ListedFinite DEF FindingRow, ReportRow, VersionRow
    <2>2. EmptySummary \in Summary
        BY DEF EmptySummary, Summary
    <2>3. /\ projects \subseteq Project /\ versions \subseteq VersionRow /\ analyzed \subseteq versions
          /\ deps \subseteq DependencyRow /\ reports \subseteq ReportRow
          /\ findings \subseteq FindingRow
        BY <2>1 DEF Init
    <2>4. summary \in [reports -> Summary]
        BY <2>2 DEF Init
    <2>5. up \in BOOLEAN
        BY DEF Init
    <2>6. QED
        BY <1>1, <2>3, <2>4, <2>5 DEF TablesTyped, SchemaTypeOK, MitigationTypeOK
<1>4. PageTyped
    <2>1. Unanswered \in ListType /\ NoDialog \in [findings : SUBSET Listed, waits : 0 .. 0]
        BY DEF Unanswered, ListType, NoDialog
    <2>2. [n |-> 1, list |-> Unanswered] \in [n : Nat, list : ListType]
        BY <2>1
    <2>3. loaded \in [sent : Nat, shown : Nat] /\ loaded.shown <= loaded.sent
        BY <1>1
    <2>4. QED
        BY <1>1, <2>1, <2>2, <2>3 DEF PageTyped, Saves
<1>5. AnswersTyped
    BY <1>1, <1>2 DEF AnswersTyped
<1>6. PageInv
    BY <1>1 DEF PageInv, Untouched
<1>7. LinksRead(counting) = {} /\ UnderWay = {}
    BY <1>1 DEF UnderWay, LinksRead
<1>8. Disjoint /\ Tallies /\ Owes
    BY <1>1, <1>2, <1>7 DEF Disjoint, Tallies, Owes
<1>9. Numbered
    BY <1>1, <1>2, <1>7 DEF Numbered
<1>10. ListsConfirm
    BY <1>1 DEF ListsConfirm, HasConfirmed
<1>11. QED
    BY <1>3, <1>4, <1>5, <1>6, <1>8, <1>9, <1>10, TypesTogether DEF IInv

(***************************************************************************)
(* Every step keeps it.                                                    *)
(***************************************************************************)
LEMMA NextKeeps == IInv /\ [Next]_vars => IInv'
<1> SUFFICES ASSUME IInv, [Next]_vars PROVE IInv'
    OBVIOUS
<1>1. ASSUME NEW p \in posts, InsertMitigation(p) \/ InsertRefused(p) PROVE IInv'
    BY <1>1, InsertKeeps, RefusalKeeps
<1>2. ASSUME NEW l \in linking, UpdateExecutes(l) \/ UpdateFails(l) PROVE IInv'
    BY <1>2, UpdateKeeps, FailureKeeps
<1>3. ASSUME NEW l \in callbacks, LoadCompleted(l) PROVE IInv'
    BY <1>3, LoadKeeps
<1>4. ASSUME NEW c \in counting, StoreCompleted(c) PROVE IInv'
    BY <1>4, StoreKeeps
<1>5. ASSUME NEW r \in replies, ReplyArrives(r) PROVE IInv'
    BY <1>5, ReplyKeeps
<1>6. ASSUME NEW x \in loads, AnswerLoad(x) \/ ShowLoad(x) PROVE IInv'
    BY <1>6, AnswerKeeps, ShowKeeps
<1>7. ASSUME NEW f, NEW checked, ToggleSelect(f, checked) PROVE IInv'
    <2>1. selected' \subseteq selected \cup Open
        BY <1>7 DEF ToggleSelect
    <2>2. /\ PageOnly /\ dialog = NoDialog /\ hasty' = (hasty \/ loads # {})
          /\ UNCHANGED << shown, dialog, loads, loaded, confirmed >>
        BY <1>7 DEF ToggleSelect
    <2>3. QED
        BY <2>1, <2>2, TickKeeps
<1>8. ASSUME NEW filter, NEW checked, ToggleSelectAll(filter, checked) PROVE IInv'
    <2>1. selected' \subseteq selected \cup Open
        BY <1>8 DEF ToggleSelectAll
    <2>2. /\ PageOnly /\ dialog = NoDialog /\ hasty' = (hasty \/ loads # {})
          /\ UNCHANGED << shown, dialog, loads, loaded, confirmed >>
        BY <1>8 DEF ToggleSelectAll
    <2>3. QED
        BY <2>1, <2>2, TickKeeps
<1>9. ASSUME NEW f, OpenMitigation(f) PROVE IInv'
    <2>1. OpenDialog({f}) /\ {f} \subseteq Open
        BY <1>9 DEF OpenMitigation
    <2>2. QED
        BY <2>1, DialogKeeps
<1>10. CASE MitigateSelected
    <2>1. OpenDialog(shown.all \cap selected)
        BY <1>10 DEF MitigateSelected
    <2>2. QED
        BY <2>1, DialogKeeps
<1>11. ASSUME NEW f, Removed(f) PROVE IInv'
    BY <1>11, RemovedKeeps
<1>12. CASE UNCHANGED vars
    <2>1. /\ UNCHANGED << projects, versions, analyzed, deps, severity, affected, reports, summary,
                          findings, mitigations, links, up, linking, created >>
          /\ UNCHANGED << shown, selected, dialog, loads, loaded, confirmed, hasty >>
          /\ UNCHANGED << posts, request, callbacks, counting, replies, saves, outside, owed >>
          /\ PageOnly
        BY <1>12 DEF vars, PageOnly, tables, mitigationVars, pageVars, answerVars, countVars
    <2>2. PageTyped' /\ PageInv' /\ ListsConfirm'
        <3>1. PageTyped
            BY TypesByGroup DEF IInv
        <3>2. QED
            BY <2>1, <3>1 DEF PageTyped, Saves, IInv, PageInv, Untouched, NamesOpen,
                              ListsConfirm, HasConfirmed
    <2>3. \A x \in loads' : x.n <= loaded'.sent
        BY <2>1 DEF IInv, Numbered
    <2>4. QED
        BY <2>1, <2>2, <2>3, PageStep
<1>13. CASE ServerProceeds
    BY <1>1, <1>2, <1>3, <1>4, <1>13 DEF ServerProceeds
<1>14. CASE PageProceeds
    BY <1>5, <1>6, <1>14 DEF PageProceeds
<1>15. CASE UserActs
    BY <1>7, <1>8, <1>9, <1>10, <1>15, CancelKeeps, SaveKeeps DEF UserActs
<1>16. CASE OthersAct
    BY <1>11, <1>16, AnalysedKeeps DEF OthersAct
<1>17. QED
    BY <1>12, <1>13, <1>14, <1>15, <1>16 DEF Next

LEMMA InvariantHolds == Spec => []IInv
BY InitHolds, NextKeeps, PTL DEF Spec

-----------------------------------------------------------------------------

(***************************************************************************)
(* Every variable of the page, of the requests under way and of the tables *)
(* they change keeps its type, and no request counts more UPDATEs than it  *)
(* has findings.                                                           *)
(***************************************************************************)
THEOREM PageTypeCorrect == Spec => []TypeOK
<1>1. IInv => TypeOK
    BY DEF IInv
<1>2. QED
    BY <1>1, InvariantHolds, PTL

(***************************************************************************)
(* However the threads of createBulk interleave on its counter, and        *)
(* whichever of its UPDATEs fail, success is never reported with an UPDATE *)
(* failed or under way, and one failure at most is one answer at most: for *)
(* a request of any number of findings.                                    *)
(***************************************************************************)
THEOREM AnswersComeLast == Spec => []AnsweredWhenLinked
<1>1. ASSUME IInv, NEW n \in DOMAIN request
      PROVE  /\ request[n].created =>
                    /\ request[n].failed = 0
                    /\ \A l \in linking : l.mitigation # request[n].mitigation
             /\ request[n].failed <= 1 => request[n].answers <= 1
    <2>1. Tally(request[n], Pending(request[n], UnderWay), counting)
        BY <1>1 DEF IInv, Tallies
    <2>2. request[n].created => request[n].failed = 0 /\ Pending(request[n], UnderWay) = {}
        BY <2>1 DEF Tally
    <2>3. \A l \in linking : l.mitigation = request[n].mitigation
                => l \in Pending(request[n], UnderWay)
        BY DEF Pending, UnderWay
    <2>4. request[n].failed \in Nat /\ request[n].answers \in Nat
        BY <1>1 DEF IInv, TypeOK
    <2>5. request[n].failed <= 1 => request[n].answers <= 1
        BY <2>1, <2>4 DEF Tally
    <2>6. QED
        BY <2>2, <2>3, <2>5
<1>2. IInv => AnsweredWhenLinked
    BY <1>1 DEF AnsweredWhenLinked
<1>3. QED
    BY <1>2, InvariantHolds, PTL

(***************************************************************************)
(* A request whose UPDATEs and callbacks are all through was answered,     *)
(* unless two threads lost an increment of its counter.                    *)
(***************************************************************************)
THEOREM AnswersCome == Spec => []SavesAnswered
<1>1. ASSUME IInv, NEW n \in DOMAIN request,
             \A l \in linking \cup callbacks \cup {c.link : c \in counting} :
                l.mitigation # request[n].mitigation
      PROVE  request[n].answers > 0 \/ request[n].lost
    <2>1. Tally(request[n], Pending(request[n], UnderWay), counting)
        BY <1>1 DEF IInv, Tallies
    <2>2. Pending(request[n], UnderWay) = {}
        BY <1>1 DEF Pending, UnderWay, LinksRead
    <2>3. request[n].failed \in Nat /\ request[n].answers \in Nat
        BY <1>1 DEF IInv, TypeOK
    <2>4. CASE request[n].failed = 0
        BY <2>1, <2>2, <2>4 DEF Tally
    <2>5. CASE request[n].failed > 0
        BY <2>1, <2>3, <2>5 DEF Tally
    <2>6. QED
        BY <2>3, <2>4, <2>5
<1>2. IInv => SavesAnswered
    BY <1>1 DEF SavesAnswered
<1>3. QED
    BY <1>2, InvariantHolds, PTL

(***************************************************************************)
(* In whatever order the lists come back, the one asked for last shows     *)
(* every finding mitigated whose dialog closed with success, and whose     *)
(* mitigation nobody removed since.                                        *)
(***************************************************************************)
THEOREM SuccessIsShown == Spec => []OwnMitigationShown
<1>1. IInv => OwnMitigationShown
    BY DEF IInv, ListsConfirm, HasConfirmed, OwnMitigationShown
<1>2. QED
    BY <1>1, InvariantHolds, PTL

(***************************************************************************)
(* A dialog names no finding the page shows as mitigated, unless the user  *)
(* acted while a list was on its way.                                      *)
(***************************************************************************)
THEOREM DialogsNameOpenFindings == Spec => []NamesOpenFindings
<1>1. IInv => NamesOpenFindings
    BY DEF IInv, PageInv, Untouched, NamesOpen, NamesOpenFindings
<1>2. QED
    BY <1>1, InvariantHolds, PTL
=============================================================================
