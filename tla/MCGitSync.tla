----------------------------- MODULE MCGitSync ------------------------------
(***************************************************************************)
(* GitSync on a remote with two branches and two tags, one of them with    *)
(* the name of the default branch.                                         *)
(***************************************************************************)
EXTENDS GitSync

CONSTANTS main, dev, v1
=============================================================================
