----------------------------- MODULE MCCveSync ------------------------------
(***************************************************************************)
(* CveSync on small feeds: three CVEs, one of them published by both       *)
(* sources, one to a page, and a nested archive of all CVEs, one of which  *)
(* lies deeper than the descent goes.                                      *)
(***************************************************************************)
EXTENDS CveSync

CONSTANTS lib, old, new

Rated(c, s, ranges) == [cve |-> c, severity |-> s, ranges |-> ranges]

MCNvdRecord == << Rated(1, "HIGH", {<< lib, old >>}), Rated(3, "", {}) >>

Recent == Rated(1, "CRITICAL", {<< lib, old >>})

MCArchive == [f \in File |->
    IF f = "delta" THEN {[record |-> Recent, depth |-> 0]}
    ELSE {[record |-> Recent, depth |-> 1], [record |-> Rated(2, "LOW", {}), depth |-> 1],
          [record |-> Rated(3, "", {}), depth |-> 5]}]
=============================================================================
