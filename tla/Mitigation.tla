----------------------------- MODULE Mitigation -----------------------------
(***************************************************************************)
(* MitigationController.  create and createBulk insert one record, owned   *)
(* by the first finding named, and link it from the INSERT's callback with *)
(* one UPDATE per finding; the UPDATEs run on the connections of the pool, *)
(* in any order, between any other statements.                             *)
(***************************************************************************)
EXTENDS Schema

CONSTANTS
    MaxMitigations, \* bound on the mitigations created
    MaxBulk         \* bound on the findings of one request

VARIABLES
    linking, \* the UPDATEs of report_findings that are under way
    created  \* how many mitigations were created; numbers their rows

mitigationVars == << linking, created >>

MitigationTypeOK ==
    /\ linking \subseteq Link
    /\ created \in Nat

MitigationInit == linking = {} /\ created = 0

-----------------------------------------------------------------------------

\* create (one finding) and createBulk: the INSERT, and the UPDATEs its
\* callback issues for the findings fs.
CreateMitigation(fs, first) ==
    /\ up /\ created < MaxMitigations
    /\ first \in fs
    /\ LET m == [id |-> created + 1, finding |-> first] IN
       /\ mitigations' = mitigations \cup {m}
       /\ linking' = linking \cup {[finding |-> f, mitigation |-> m] : f \in fs}
    /\ created' = created + 1
    /\ UNCHANGED << projects, versions, analyzed, deps, severity, affected, reports, summary,
                    findings, links, up >>

\* A slip: the finding keeps the mitigation it had.
RelinkKeepingOld(l) == links \cup {l}

\* report_findings after UPDATE ... SET mitigation_id WHERE id.
Relink(l) == {k \in links : k.finding # l.finding} \cup {l}

\* One of those UPDATEs: no row when the finding is gone, a foreign-key
\* error and no change when the mitigation is.
LinkMitigation(l) ==
    /\ up /\ l \in linking
    /\ linking' = linking \ {l}
    /\ links' = IF l.finding \in findings /\ l.mitigation \in mitigations
                THEN Relink(l) ELSE links
    /\ UNCHANGED << projects, versions, analyzed, deps, severity, affected, reports, summary,
                    findings, mitigations, created, up >>

\* remove: UPDATE ... SET mitigation_id=NULL ... RETURNING mitigation_id
\* returns the new value, NULL, so the handler answers 404 and its DELETE is
\* never issued.
RemoveMitigation(f) ==
    /\ up /\ f \in findings
    /\ links' = {l \in links : l.finding # f}
    /\ UNCHANGED << projects, versions, analyzed, deps, severity, affected, reports, summary,
                    findings, mitigations, mitigationVars, up >>
=============================================================================
