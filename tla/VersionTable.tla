---------------------------- MODULE VersionTable ----------------------------
(***************************************************************************)
(* What the table of a project's versions promises, told without           *)
(* directories, syncs and queues: a row appears or changes one at a time,  *)
(* with a commit the remote has or had for the ref, which never goes back, *)
(* keeps the type it was first recorded with, and goes away only by        *)
(* request.  GitSync implements it.                                        *)
(***************************************************************************)
EXTENDS Naturals

CONSTANTS
    Branch, Tag,
    NoRow

VARIABLES
    remoteHeads, \* the remote's branches, by the number of their commits
    remoteTags,  \* and tags
    rows         \* the rows by name: their type, and the ref whose commit they have

vars == << remoteHeads, remoteTags, rows >>

Name == Branch \cup Tag

Init == \A n \in Name : rows[n] = NoRow

Push(b) ==
    /\ remoteHeads' = [remoteHeads EXCEPT ![b] = @ + 1]
    /\ UNCHANGED << remoteTags, rows >>

PushTag(t) ==
    /\ remoteTags[t] = 0
    /\ remoteTags' = [remoteTags EXCEPT ![t] = 1]
    /\ UNCHANGED << remoteHeads, rows >>

\* One of the commits, of the branch or the tag of the name.
Record(n, kind, commits) ==
    /\ \E c \in commits :
         /\ rows[n] # NoRow /\ rows[n].of = kind => rows[n].commit <= c
         /\ rows' = [rows EXCEPT ![n] =
                [type |-> IF rows[n] = NoRow THEN kind ELSE rows[n].type,
                 of |-> kind, commit |-> c]]
    /\ UNCHANGED << remoteHeads, remoteTags >>

Remove(n) ==
    /\ rows' = [rows EXCEPT ![n] = NoRow]
    /\ UNCHANGED << remoteHeads, remoteTags >>

Next ==
    \/ \E b \in Branch : Push(b)
    \/ \E t \in Tag : PushTag(t)
    \/ \E b \in Branch : Record(b, "branch", 1 .. remoteHeads[b])
    \/ \E t \in Tag : remoteTags[t] # 0 /\ Record(t, "tag", {remoteTags[t]})
    \/ \E n \in Name : Remove(n)

Spec == Init /\ [][Next]_vars
=============================================================================
