--------------------------- MODULE AtomicReports ----------------------------
(***************************************************************************)
(* What a report promises to whoever reads it, told without statements and *)
(* jobs: it is made from the dependency rows its version has at one        *)
(* moment, published once, with all its findings and counters that fit     *)
(* them, and loses its findings only all together, when new rows replace   *)
(* those it was made from.  BlueDuck implements it.                        *)
(***************************************************************************)
EXTENDS FiniteSets, Naturals

CONSTANTS
    Rated,  \* the severities that have a counter
    Frozen  \* TRUE when no CVE is imported

VARIABLES
    rows,     \* the dependency rows of all versions
    matched,  \* matched[c]: the package versions CVE c affects
    begun,    \* the reports being made, each with the rows it is made from
    published \* the list of findings and the counters of each finished report

vars == << rows, matched, begun, published >>

RowsOf(v)    == {d \in rows : d.version = v}
ReportsOf(v) == {r \in DOMAIN published : r.version = v}

Init == rows = {} /\ begun = {} /\ DOMAIN published = {}

Begin ==
    /\ \E b \in begun' :
         /\ b.report \notin DOMAIN published \cup {x.report : x \in begun}
         /\ b.rows = RowsOf(b.report.version)
         /\ begun' = begun \cup {b}
    /\ UNCHANGED << rows, matched, published >>

\* The findings fs and the counters c of a report made from the rows R.
Complete(R, fs, c) ==
    /\ Cardinality(fs) = c.vulnerable
    /\ \A s \in Rated : Cardinality({f \in fs : f.severity = s}) = c.by[s]
    /\ \A f, g \in fs : f.dep = g.dep /\ f.cve = g.cve => f = g
    /\ \A f \in fs : f.dep \in R
    /\ Frozen => {<< f.dep, f.cve >> : f \in fs} =
                 {x \in R \X DOMAIN matched : << x[1].package, x[1].ver >> \in matched[x[2]]}

\* All the report's findings, or none if its rows have been replaced.
Publish ==
    /\ \E b \in begun :
         /\ begun' = begun \ {b}
         /\ DOMAIN published' = DOMAIN published \cup {b.report}
         /\ \A r \in DOMAIN published : published'[r] = published[r]
         /\ LET p == published'[b.report] IN
            /\ p.counts.total = Cardinality(b.rows)
            /\ IF RowsOf(b.report.version) = b.rows
               THEN Complete(b.rows, p.list, p.counts)
               ELSE p.list = {}
    /\ UNCHANGED << rows, matched >>

\* Reports that are never finished: the process died, a row was missing.
Abandon ==
    /\ begun' \subseteq begun
    /\ UNCHANGED << rows, matched, published >>

\* New rows for version v, which no report was made from.
Replace(v) ==
    /\ LET fresh == rows' \ rows IN
         /\ rows' = {d \in rows : d.version # v} \cup fresh
         /\ \A d \in fresh : d.version = v /\ \A b \in begun : d \notin b.rows
    /\ published' = [r \in DOMAIN published |->
                        IF r \in ReportsOf(v) THEN [published[r] EXCEPT !.list = {}]
                                              ELSE published[r]]
    /\ UNCHANGED << matched, begun >>

\* Versions V are deleted.
Forget(V) ==
    /\ rows' = {d \in rows : d.version \notin V}
    /\ published' = [r \in {x \in DOMAIN published : x.version \notin V} |-> published[r]]
    /\ UNCHANGED << matched, begun >>

Import ==
    /\ ~ Frozen
    /\ UNCHANGED << rows, begun, published >>

Next ==
    \/ Begin \/ Publish \/ Abandon \/ Import
    \/ \E v \in {d.version : d \in rows \cup rows'} : Replace(v)
    \/ \E V \in SUBSET ({d.version : d \in rows} \cup {r.version : r \in DOMAIN published}) :
          Forget(V)

Spec == Init /\ [][Next]_vars
=============================================================================
