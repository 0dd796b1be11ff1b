----------------------------- MODULE MCBlueDuck -----------------------------
(***************************************************************************)
(* BlueDuck on small instances: what the analyzers find in each ref, which *)
(* package versions each CVE affects and how it is rated.                  *)
(***************************************************************************)
EXTENDS BlueDuck, TLC

CONSTANTS p1, p2, main, tag, npm, cmake, lib, app, old, new, j1, j2

\* Both refs of p1 declare lib, the tag twice and in two versions; main has
\* a second package, from another analyzer.  p2 shares nothing with p1.
MCManifest ==
    [p \in Project |-> [r \in Ref |-> [a \in Analyzer |->
        CASE p = p1 /\ r = main /\ a = npm   -> {<< lib, old >>}
          [] p = p1 /\ r = main /\ a = cmake -> {<< app, old >>}
          [] p = p1 /\ r = tag  /\ a = npm   -> {<< lib, old >>, << lib, new >>}
          [] p = p2 /\ a = npm               -> {<< app, new >>}
          [] OTHER                           -> {}]]]

\* CVE 1 affects both packages, CVE 2 lib; neither the newer lib.
MCAffectedBy ==
    [c \in Cve |-> IF c = 1 THEN {<< lib, old >>, << app, old >>} ELSE {<< lib, old >>}]

MCFeed == [c \in Cve |-> IF c = 1 THEN {"HIGH"} ELSE {"NONE"}]

\* The report jobs are alike.
Jobs == Permutations(ReportJob)
=============================================================================
