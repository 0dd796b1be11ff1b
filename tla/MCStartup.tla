----------------------------- MODULE MCStartup ------------------------------
(***************************************************************************)
(* Startup with two releases and five libraries in the two directories.    *)
(***************************************************************************)
EXTENDS Startup

CONSTANTS nvd, npm, npm2, bad, alien, source, ecosystem

Migration(n, name) == [version |-> n, name |-> name]

Initial == {Migration(1, 1), Migration(2, 2)}

\* The second release adds a file.
MCReleases == << Initial, Initial \cup {Migration(3, 3)} >>

\* Two plugins for one ecosystem among libraries that do not load.
MCDirectory == << {nvd, alien}, {npm, npm2, bad} >>

MCVerdict == [l \in {nvd, npm, npm2, bad, alien} |->
    CASE l = bad -> "null" [] l = alien -> "unknown" [] OTHER -> "plugin"]

MCKey == [l \in {nvd, npm, npm2, bad, alien} |-> IF l \in {nvd, alien} THEN source ELSE ecosystem]
=============================================================================
