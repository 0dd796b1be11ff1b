---------------------------- MODULE CveDbWriter ----------------------------
(***************************************************************************)
(* CveDbWriter: the only writer of cve_records and cve_affected_products.  *)
(* A CVE sync opens a writer of its own, with a connection of its own and  *)
(* no transaction, so every statement of upsertCve commits by itself.      *)
(*                                                                         *)
(* Of a record the severity is kept, which reports copy.  An affected      *)
(* range is the package versions it matches, one row for each; no UNIQUE   *)
(* constraint covers the table, so a row may be there several times.       *)
(***************************************************************************)
EXTENDS Naturals, FiniteSets

CONSTANTS
    Package,    \* dependencies.(ecosystem, package_name)
    PkgVersion, \* dependencies.package_version
    Cve,        \* cve_records.id, integers: findMatchingCves sorts by it
    Writer,     \* the CVE syncs that may run at once
    NoRow       \* what a local variable holds where it has no row yet

ASSUME CveAssumption == Cve \subseteq Nat

VARIABLES
    severity, \* cve_records.severity by record, NotImported when no row
    affected, \* how many rows of cve_affected_products say so
    writing   \* the record each writer is at, and its rows still to insert

NotImported == "not imported"
Counted     == {"CRITICAL", "HIGH", "MEDIUM", "LOW"}
\* Sources leave the severity of an unscored CVE empty.
Severity    == Counted \cup {"NONE", ""}

VersionedPackage == Package \X PkgVersion
AffectedRow      == [cve : Cve, range : VersionedPackage]

IdleWriter       == [cve |-> NoRow, todo |-> {}]

CveTypeOK ==
    /\ severity \in [Cve -> Severity \cup {NotImported}]
    /\ affected \in [AffectedRow -> Nat]
    /\ writing \in [Writer -> [cve : Cve \cup {NoRow}, todo : SUBSET VersionedPackage]]
    /\ \A w \in Writer : writing[w].todo # {} => writing[w].cve \in Cve

-----------------------------------------------------------------------------

\* A slip: ON CONFLICT(cve_id) DO NOTHING, which RETURNS no id on a conflict.
UpsertDoingNothing(w, c, s, ranges) ==
    /\ writing[w].todo = {}
    /\ severity' = IF severity[c] = NotImported THEN [severity EXCEPT ![c] = s] ELSE severity
    /\ writing' = [writing EXCEPT ![w] =
          [cve |-> IF severity[c] = NotImported THEN c ELSE NoRow, todo |-> ranges]]
    /\ UNCHANGED affected

\* upsertCveRecord: INSERT ... ON CONFLICT(cve_id) DO UPDATE.
UpsertCveRecord(w, c, s, ranges) ==
    /\ writing[w].todo = {}
    /\ severity' = [severity EXCEPT ![c] = s]
    /\ writing' = [writing EXCEPT ![w] = [cve |-> c, todo |-> ranges]]
    /\ UNCHANGED affected

\* The rows after the INSERT of one more; ON CONFLICT DO NOTHING meets no
\* constraint that could conflict.
OneMore(row) == [affected EXCEPT ![row] = @ + 1]

\* upsertAffectedProducts, one INSERT; a statement that fails is logged and
\* the loop goes on.
InsertAffectedProduct(w, x) ==
    /\ x \in writing[w].todo
    /\ affected' \in {affected, OneMore([cve |-> writing[w].cve, range |-> x])}
    /\ writing' = [writing EXCEPT ![w] =
                      [cve |-> writing[w].cve, todo |-> writing[w].todo \ {x}]]
    /\ UNCHANGED severity

\* The package versions some row says CVE c affects.
AffectedRanges(c) == {x \in VersionedPackage : affected[[cve |-> c, range |-> x]] > 0}

(***************************************************************************)
(* Only a record that is there has affected ranges: the foreign key of     *)
(* cve_affected_products.                                                  *)
(***************************************************************************)
RangesOfRecords ==
    \A c \in Cve : AffectedRanges(c) # {} => severity[c] # NotImported
=============================================================================
