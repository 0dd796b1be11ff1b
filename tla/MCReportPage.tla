---------------------------- MODULE MCReportPage ----------------------------
(***************************************************************************)
(* A page of a report with one finding for each package.                   *)
(***************************************************************************)
EXTENDS ReportPage

CONSTANTS p1, main, lib, app, old

MCVersion == [id |-> 1, project |-> p1, ref |-> main]

MCFinding(n, s) ==
    [report |-> [id |-> 1, version |-> MCVersion],
     dep |-> [batch |-> 1, version |-> MCVersion, package |-> n, ver |-> old],
     cve |-> 1, severity |-> s]

MCOrder == << MCFinding(lib, "HIGH"), MCFinding(app, "NONE") >>
=============================================================================
