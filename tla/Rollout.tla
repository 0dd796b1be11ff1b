------------------------------ MODULE Rollout -------------------------------
(***************************************************************************)
(* What starting daemons over one database promises to whoever runs them,  *)
(* told without processes, transactions and tables: migrations are added   *)
(* one by one, lowest first and each once, and a daemon serves only on a   *)
(* schema that has every migration of its release.  Startup implements it. *)
(***************************************************************************)
EXTENDS Naturals, Sequences

CONSTANTS
    Daemon,
    Release  \* the releases in order, each a set of migration files

VARIABLES
    done,    \* the migrations the schema went through, in order
    release, \* the release of each daemon
    serving  \* the daemons that listen

vars == << done, release, serving >>

Applied == {done[i] : i \in DOMAIN done}

File == UNION {Release[i] : i \in DOMAIN Release}

Init ==
    /\ done = << >>
    /\ release = [d \in Daemon |-> 1]
    /\ serving = {}

\* The lowest migration of all that are missing.
Migrate ==
    /\ \E f \in File \ Applied :
          /\ \A g \in File : g.version < f.version => g \in Applied
          /\ done' = Append(done, f)
    /\ UNCHANGED << release, serving >>

Serve(d) ==
    /\ Release[release[d]] \subseteq Applied
    /\ serving' = serving \cup {d}
    /\ UNCHANGED << done, release >>

Stop(d) ==
    /\ serving' = serving \ {d}
    /\ UNCHANGED << done, release >>

\* Replaced by the next release, which does not serve yet.
Upgrade(d) ==
    /\ release[d] < Len(Release)
    /\ release' = [release EXCEPT ![d] = @ + 1]
    /\ serving' = serving \ {d}
    /\ UNCHANGED done

Next == Migrate \/ \E d \in Daemon : Serve(d) \/ Stop(d) \/ Upgrade(d)

Spec == Init /\ [][Next]_vars
=============================================================================
