---------------------------- MODULE GitSync_proofs ----------------------------
(***************************************************************************)
(* Theorems about GitSync, for any branches and tags, any number of syncs  *)
(* and any bounds.                                                         *)
(***************************************************************************)
EXTENDS GitSync, TLAPS

Pc == {"ready", "open", "clone", "cloning", "fetch", "list", "done"}

CheckedOutRef == [name : Name, of : Kind, commit : Nat]

(***************************************************************************)
(* The directory.  One sync clones at a time, into a directory nobody else *)
(* clones into; until it is done there is no local branch, and afterwards  *)
(* there is the default one only.  Tags do not move.                       *)
(***************************************************************************)
OneCloneAtATime ==
    \A j, k \in SyncJob :
        sjob[j] = "cloning" => directory = "partial" /\ (sjob[k] = "cloning" => j = k)

HeadsOfTheClone ==
    /\ \A b \in Branch : heads[b] # 0 => directory = "cloned" /\ b = Default
    /\ directory = "cloned" => heads[Default] # 0

TagsOfTheRemote ==
    /\ \A t \in Tag : tags[t] # 0 => tags[t] = remoteTags[t]
    /\ remoteHeads[Default] # 0

(***************************************************************************)
(* Version name n, with commit c of a ref of kind k, says what the         *)
(* directory says: of a tag, that of the remote, which a finished clone    *)
(* has; of a branch, the commit the clone left it at.                      *)
(***************************************************************************)
SaysWhatIsThere(n, k, c) ==
    /\ c # 0
    /\ k = "tag" =>
          n \in Tag /\ c = remoteTags[n] /\ (directory = "cloned" => tags[n] # 0)
    /\ k = "branch" => n \in Branch /\ c = heads[n]

RowsSay   == \A n \in Name : rows[n] # NoRow => SaysWhatIsThere(n, rows[n].of, rows[n].commit)
IssuedSay == \A u \in issued : SaysWhatIsThere(u.name, u.of, u.commit)
CheckoutSays ==
    checkedOut # NoRow =>
        /\ rows[checkedOut.name] # NoRow
        /\ SaysWhatIsThere(checkedOut.name, checkedOut.of, checkedOut.commit)

IInv ==
    /\ TypeOK
    /\ OneCloneAtATime /\ HeadsOfTheClone /\ TagsOfTheRemote
    /\ RowsSay /\ IssuedSay /\ CheckoutSays

-----------------------------------------------------------------------------

(***************************************************************************)
(* What a sync does to the directory: nothing, or one of the five calls of *)
(* GitRepository (cloneOrFetch).                                           *)
(***************************************************************************)
DirectoryChanges ==
    \/ UNCHANGED repoVars
    \/ /\ directory = "absent" /\ directory' = "partial"
       /\ UNCHANGED << heads, tracking, tags >>
    \/ /\ directory' = "cloned"
       /\ heads' = [heads EXCEPT ![Default] = remoteHeads[Default]]
       /\ tracking' = remoteHeads /\ tags' = TagsFetched
    \/ /\ directory' = "absent"
       /\ heads' = NoBranches /\ tracking' = NoBranches /\ tags' = NoTags
    \/ UNCHANGED << directory, heads >> /\ tracking' = remoteHeads /\ tags' = TagsFetched

(***************************************************************************)
(* Types.                                                                  *)
(***************************************************************************)
LEMMA InitTyped == Init => TypeOK
<1>1. SUFFICES ASSUME Init PROVE TypeOK
    OBVIOUS
<1>2. remoteHeads \in [Branch -> Nat] /\ NoBranches \in [Branch -> Nat] /\ NoTags \in [Tag -> Nat]
    BY <1>1 DEF Init, NoBranches, NoTags
<1>3. QED
    BY <1>1, <1>2 DEF Init, TypeOK

LEMMA ListedTyped ==
    ASSUME TypeOK, NEW x \in Listed
    PROVE  x[1] \in Name /\ x[2] \in Kind /\ x[3] \in Nat \ {0}
BY DEF Listed, Name, Kind, TypeOK

LEMMA SyncTyped ==
    ASSUME TypeOK, NEW j \in SyncJob, SyncRequest(j) \/ SyncProceeds(j)
    PROVE  TypeOK' /\ DirectoryChanges
<1> USE DEF Goes
<1>1. UNCHANGED << remoteVars, tableVars, checkedOut, boundVars >>
    BY DEF SyncRequest, SyncProceeds, CloneOrFetch, CloneBegins, CloneRefused, CloneFinishes,
           CloneFails, Fetch, FetchFails, ListRefs
<1>2. \E pc \in Pc : sjob' = [sjob EXCEPT ![j] = pc]
    BY DEF SyncRequest, SyncProceeds, CloneOrFetch, CloneBegins, CloneRefused, CloneFinishes,
           CloneFails, Fetch, FetchFails, ListRefs, Pc
<1>3. sjob' \in [SyncJob -> Pc]
    BY <1>2 DEF TypeOK, Pc
<1>4. DirectoryChanges
    BY DEF DirectoryChanges, SyncRequest, SyncProceeds, CloneOrFetch, CloneBegins, CloneRefused,
           CloneFinishes, CloneFails, Fetch, FetchFails, ListRefs, HeadsFetched, repoVars
<1>5. TagsFetched \in [Tag -> Nat] /\ NoTags \in [Tag -> Nat] /\ NoBranches \in [Branch -> Nat]
    BY DEF TypeOK, TagsFetched, NoTags, NoBranches
<1>6. /\ directory' \in {"absent", "partial", "cloned"}
      /\ heads' \in [Branch -> Nat] /\ tracking' \in [Branch -> Nat] /\ tags' \in [Tag -> Nat]
    BY <1>4, <1>5, DefaultAssumption DEF TypeOK, DirectoryChanges, repoVars
<1>7. issued' \subseteq Upsert /\ stamping' \subseteq SyncJob
    <2>1. CASE UNCHANGED queueVars
        BY <2>1 DEF queueVars, TypeOK
    <2>2. CASE ListRefs(j)
        <3>1. {[sync |-> j, name |-> x[1], of |-> x[2], commit |-> x[3]] : x \in Listed}
                  \subseteq Upsert
            BY ListedTyped DEF Upsert
        <3>2. QED
            BY <2>2, <3>1 DEF ListRefs, TypeOK
    <2>3. QED
        BY <2>1, <2>2
           DEF SyncRequest, SyncProceeds, CloneOrFetch, CloneBegins, CloneRefused, CloneFinishes,
               CloneFails, Fetch, FetchFails
<1>8. QED
    BY <1>1, <1>3, <1>4, <1>6, <1>7 DEF TypeOK, Pc, remoteVars, tableVars, boundVars

LEMMA CheckoutTyped ==
    ASSUME TypeOK, NEW n \in Name, Checkout(n)
    PROVE  /\ checkedOut' \in CheckedOutRef
           /\ checkedOut'.name = n
           /\ checkedOut'.of = "tag" => n \in Tag /\ tags[n] # 0 /\ checkedOut'.commit = tags[n]
           /\ checkedOut'.of = "branch" =>
                 n \in Branch /\ heads[n] # 0 /\ checkedOut'.commit = heads[n]
BY DEF Checkout, Resolvable, ResolvedTag, TypeOK, CheckedOutRef, Kind

LEMMA NextTyped ==
    ASSUME IInv, [Next]_vars
    PROVE  TypeOK'
<1> USE DEF remoteVars, repoVars, tableVars, queueVars, boundVars
<1>1. ASSUME NEW j \in SyncJob, SyncRequest(j) \/ SyncProceeds(j)
      PROVE  TypeOK'
    BY <1>1, SyncTyped DEF IInv
<1>2. ASSUME NEW b \in Branch, Push(b)
      PROVE  TypeOK'
    BY <1>2 DEF Push, IInv, TypeOK
<1>3. ASSUME NEW t \in Tag, PushTag(t)
      PROVE  TypeOK'
    BY <1>3 DEF PushTag, IInv, TypeOK
<1>4. ASSUME NEW u \in issued, ExecUpsert(u)
      PROVE  TypeOK'
    BY <1>4 DEF ExecUpsert, IInv, TypeOK, Upsert, Row
<1>5. ASSUME NEW j \in stamping, ExecStamp(j)
      PROVE  TypeOK'
    BY <1>5 DEF ExecStamp, IInv, TypeOK
<1>6. ASSUME NEW n \in Name, Checkout(n)
      PROVE  TypeOK'
    BY <1>6, CheckoutTyped DEF Checkout, IInv, TypeOK, CheckedOutRef
<1>7. ASSUME NEW n \in Name, RemoveVersion(n)
      PROVE  TypeOK'
    BY <1>7 DEF RemoveVersion, IInv, TypeOK
<1>8. CASE StoreCommit
    BY <1>8 DEF StoreCommit, IInv, CheckoutSays, TypeOK, Row
<1>9. CASE Crash
    BY <1>9 DEF Crash, IInv, TypeOK
<1>10. CASE UNCHANGED vars
    BY <1>10 DEF vars, IInv, TypeOK
<1>11. ASSUME NEW u \in issued, UpsertFails(u)
       PROVE  TypeOK'
    BY <1>11 DEF UpsertFails, IInv, TypeOK, Upsert
<1>12. QED
    BY <1>1, <1>2, <1>3, <1>4, <1>5, <1>6, <1>7, <1>8, <1>9, <1>10, <1>11 DEF Next, DatabaseProceeds

-----------------------------------------------------------------------------

(***************************************************************************)
(* The invariant.                                                          *)
(***************************************************************************)
LEMMA InitSays == Init => IInv
<1>1. SUFFICES ASSUME Init PROVE IInv
    OBVIOUS
<1>2. OneCloneAtATime /\ IssuedSay /\ CheckoutSays
    BY <1>1 DEF Init, OneCloneAtATime, IssuedSay, CheckoutSays
<1>3. HeadsOfTheClone /\ TagsOfTheRemote
    BY <1>1, DefaultAssumption
       DEF Init, HeadsOfTheClone, TagsOfTheRemote, NoBranches, NoTags
<1>4. RowsSay
    BY <1>1 DEF Init, RowsSay
<1>5. QED
    BY <1>1, <1>2, <1>3, <1>4, InitTyped DEF IInv

(***************************************************************************)
(* At most one sync clones, before and after any step of another one.      *)
(***************************************************************************)
LEMMA SyncClonesAlone ==
    ASSUME IInv, NEW j \in SyncJob, SyncRequest(j) \/ SyncProceeds(j)
    PROVE  OneCloneAtATime'
<1> USE DEF IInv, OneCloneAtATime, TypeOK, Goes
<1>1. CASE CloneBegins(j)
    BY <1>1 DEF CloneBegins
<1>2. CASE CloneFinishes(j) \/ CloneFails(j)
    BY <1>2 DEF CloneFinishes, CloneFails
<1>3. CASE /\ directory' = directory
           /\ \E pc \in Pc \ {"cloning"} : sjob' = [sjob EXCEPT ![j] = pc]
    BY <1>3
<1>4. QED
    BY <1>1, <1>2, <1>3
       DEF SyncRequest, SyncProceeds, CloneOrFetch, CloneRefused, Fetch, FetchFails, ListRefs,
           repoVars, Pc

(***************************************************************************)
(* After a call of GitRepository the directory has the branch of its clone *)
(* and tags of the remote, and what it said of a ref before it still says. *)
(* A clone that fails takes only tags away, and no row can name a branch   *)
(* by then.                                                                *)
(***************************************************************************)
LEMMA DirectoryKeeps ==
    ASSUME IInv, NEW j \in SyncJob, SyncRequest(j) \/ SyncProceeds(j)
    PROVE  /\ HeadsOfTheClone' /\ TagsOfTheRemote'
           /\ \A n \in Name, k \in Kind, c \in Nat :
                  SaysWhatIsThere(n, k, c) => SaysWhatIsThere(n, k, c)'
<1> USE DefaultAssumption
        DEF IInv, HeadsOfTheClone, TagsOfTheRemote, SaysWhatIsThere, TypeOK, repoVars
<1>1. UNCHANGED remoteVars
    BY DEF Goes, SyncRequest, SyncProceeds, CloneOrFetch, CloneBegins, CloneRefused,
           CloneFinishes, CloneFails, Fetch, FetchFails, ListRefs
<1>2. \A t \in Tag :
          /\ TagsFetched[t] # 0 => TagsFetched[t] = remoteTags[t]
          /\ remoteTags[t] # 0 => TagsFetched[t] # 0
    BY DEF TagsFetched
<1>3. CASE CloneFinishes(j)
    <2>1. directory = "partial"
        BY <1>3 DEF CloneFinishes, Goes, OneCloneAtATime
    <2>2. QED
        BY <1>1, <1>2, <1>3, <2>1 DEF CloneFinishes, remoteVars
<1>4. CASE CloneFails(j)
    <2>1. directory = "partial"
        BY <1>4 DEF CloneFails, Goes, OneCloneAtATime
    <2>2. QED
        BY <1>1, <1>4, <2>1 DEF CloneFails, remoteVars, NoBranches, NoTags
<1>5. CASE CloneBegins(j)
    BY <1>1, <1>5 DEF CloneBegins, remoteVars
<1>6. CASE Fetch(j)
    BY <1>1, <1>2, <1>6 DEF Fetch, HeadsFetched, remoteVars
<1>7. CASE UNCHANGED repoVars
    BY <1>1, <1>7 DEF remoteVars
<1>8. QED
    BY <1>3, <1>4, <1>5, <1>6, <1>7
       DEF SyncRequest, SyncProceeds, CloneOrFetch, CloneRefused, FetchFails, ListRefs

(***************************************************************************)
(* What a sync lists is there.                                             *)
(***************************************************************************)
LEMMA ListedSays ==
    ASSUME IInv, NEW x \in Listed
    PROVE  SaysWhatIsThere(x[1], x[2], x[3])
<1> USE DEF IInv, TypeOK, TagsOfTheRemote, SaysWhatIsThere
<1>1. CASE \E b \in Branch : heads[b] # 0 /\ x = << b, "branch", heads[b] >>
    BY <1>1
<1>2. CASE \E t \in Tag : tags[t] # 0 /\ x = << t, "tag", tags[t] >>
    BY <1>2
<1>3. QED
    BY <1>1, <1>2 DEF Listed

LEMMA SyncSays ==
    ASSUME IInv, NEW j \in SyncJob, SyncRequest(j) \/ SyncProceeds(j)
    PROVE  IInv'
<1>1. TypeOK' /\ OneCloneAtATime' /\ HeadsOfTheClone' /\ TagsOfTheRemote'
    BY SyncTyped, SyncClonesAlone, DirectoryKeeps DEF IInv
<1>2. UNCHANGED << rows, checkedOut >>
    BY DEF Goes, tableVars, SyncRequest, SyncProceeds, CloneOrFetch, CloneBegins, CloneRefused,
           CloneFinishes, CloneFails, Fetch, FetchFails, ListRefs
<1>3. RowsSay'
    BY <1>2, DirectoryKeeps DEF IInv, RowsSay, TypeOK, Row
<1>4. CheckoutSays'
    BY <1>2, DirectoryKeeps DEF IInv, CheckoutSays, TypeOK
<1>5. \A u \in issued : SaysWhatIsThere(u.name, u.of, u.commit)'
    BY DirectoryKeeps DEF IInv, IssuedSay, TypeOK, Upsert
<1>6. CASE ListRefs(j)
    <2>1. \A x \in Listed : SaysWhatIsThere(x[1], x[2], x[3])'
        BY ListedSays, ListedTyped, DirectoryKeeps DEF IInv
    <2>2. \A u \in issued' \ issued : \E x \in Listed : u.name = x[1] /\ u.of = x[2] /\ u.commit = x[3]
        BY <1>6 DEF ListRefs
    <2>3. IssuedSay'
        BY <1>5, <2>1, <2>2 DEF IssuedSay
    <2>4. QED
        BY <1>1, <1>3, <1>4, <2>3 DEF IInv
<1>7. CASE UNCHANGED queueVars
    BY <1>1, <1>3, <1>4, <1>5, <1>7 DEF IInv, IssuedSay, queueVars
<1>8. QED
    BY <1>6, <1>7
       DEF SyncRequest, SyncProceeds, CloneOrFetch, CloneBegins, CloneRefused, CloneFinishes,
           CloneFails, Fetch, FetchFails

(***************************************************************************)
(* Whatever happens, what a ref's commit is said to be stays so.           *)
(***************************************************************************)
LEMMA NextKeeps ==
    ASSUME IInv, [Next]_vars,
           NEW n \in Name, NEW k \in Kind, NEW c \in Nat, SaysWhatIsThere(n, k, c)
    PROVE  SaysWhatIsThere(n, k, c)'
<1>1. ASSUME NEW j \in SyncJob, SyncRequest(j) \/ SyncProceeds(j)
      PROVE  SaysWhatIsThere(n, k, c)'
    BY <1>1, DirectoryKeeps
<1>2. ASSUME NEW t \in Tag, PushTag(t)
      PROVE  SaysWhatIsThere(n, k, c)'
    BY <1>2 DEF PushTag, SaysWhatIsThere, repoVars, IInv, TypeOK
<1>3. CASE UNCHANGED << remoteTags, repoVars >>
    BY <1>3 DEF SaysWhatIsThere, repoVars
<1>4. QED
    BY <1>1, <1>2, <1>3
       DEF Next, DatabaseProceeds, Push, ExecUpsert, UpsertFails, ExecStamp, Checkout, RemoveVersion,
           StoreCommit, Crash, vars, remoteVars

LEMMA NextSays == IInv /\ [Next]_vars => IInv'
<1>1. SUFFICES ASSUME IInv, [Next]_vars PROVE IInv'
    OBVIOUS
<1>2. TypeOK'
    BY <1>1, NextTyped
<1>3. ASSUME UNCHANGED << remoteVars, repoVars, sjob >>, RowsSay', IssuedSay', CheckoutSays'
      PROVE  IInv'
    BY <1>1, <1>2, <1>3
       DEF IInv, OneCloneAtATime, HeadsOfTheClone, TagsOfTheRemote, remoteVars, repoVars
<1> USE DEF IInv, RowsSay, IssuedSay, CheckoutSays
<1>4. ASSUME NEW j \in SyncJob, SyncRequest(j) \/ SyncProceeds(j)
      PROVE  IInv'
    BY <1>1, <1>4, SyncSays
<1>5. ASSUME UNCHANGED << repoVars, rows, issued, sjob, checkedOut >>, TagsOfTheRemote'
      PROVE  IInv'
    <2>1. RowsSay'
        BY <1>1, <1>5, NextKeeps DEF TypeOK, Row
    <2>2. IssuedSay'
        BY <1>1, <1>5, NextKeeps DEF TypeOK, Upsert
    <2>3. CheckoutSays'
        BY <1>1, <1>5, NextKeeps DEF TypeOK
    <2>4. QED
        BY <1>1, <1>2, <1>5, <2>1, <2>2, <2>3 DEF OneCloneAtATime, HeadsOfTheClone, repoVars
<1>6. ASSUME NEW b \in Branch, Push(b)
      PROVE  IInv'
    <2>1. TagsOfTheRemote'
        BY <1>1, <1>6, DefaultAssumption DEF Push, TagsOfTheRemote, TypeOK, repoVars
    <2>2. QED
        BY <1>5, <1>6, <2>1 DEF Push, tableVars, queueVars
<1>7. ASSUME NEW t \in Tag, PushTag(t)
      PROVE  IInv'
    <2>1. TagsOfTheRemote'
        BY <1>1, <1>7 DEF PushTag, TagsOfTheRemote, TypeOK, repoVars
    <2>2. QED
        BY <1>5, <1>7, <2>1 DEF PushTag, tableVars, queueVars
<1>8. ASSUME NEW n \in Name, NEW k \in Kind, NEW c \in Nat, UNCHANGED << remoteTags, repoVars >>
      PROVE  SaysWhatIsThere(n, k, c)' <=> SaysWhatIsThere(n, k, c)
    BY <1>8 DEF SaysWhatIsThere, repoVars
<1>9. ASSUME NEW u \in issued, ExecUpsert(u)
      PROVE  IInv'
    <2>1. u.name \in Name /\ u.of \in Kind /\ u.commit \in Nat /\ SaysWhatIsThere(u.name, u.of, u.commit)
        BY <1>1 DEF TypeOK, Upsert
    <2>2. \A n \in Name : n # u.name => rows'[n] = rows[n]
        BY <1>1, <1>9 DEF ExecUpsert, TypeOK
    <2>3. rows'[u.name].of = u.of /\ rows'[u.name].commit = u.commit
        BY <1>1, <1>9, <2>1 DEF ExecUpsert, TypeOK
    <2>4. UNCHANGED << remoteVars, repoVars, sjob, checkedOut >> /\ issued' \subseteq issued
        BY <1>9 DEF ExecUpsert
    <2>5. \A n \in Name, k \in Kind, c \in Nat :
              SaysWhatIsThere(n, k, c)' <=> SaysWhatIsThere(n, k, c)
        BY <1>8, <2>4 DEF remoteVars
    <2>6. RowsSay'
        BY <1>1, <2>1, <2>2, <2>3, <2>5 DEF TypeOK, Row
    <2>7. IssuedSay'
        BY <1>1, <2>4, <2>5 DEF TypeOK, Upsert
    <2>8. CheckoutSays'
        <3>1. rows'[u.name] # NoRow
            BY <1>1, <1>2, <1>9, <2>1, NullAssumption DEF ExecUpsert, TypeOK, Row
        <3>2. QED
            BY <1>1, <2>1, <2>2, <2>4, <2>5, <3>1 DEF TypeOK
    <2>9. QED
        BY <1>3, <2>4, <2>6, <2>7, <2>8
<1>10. ASSUME NEW j \in stamping, ExecStamp(j)
       PROVE  IInv'
    BY <1>1, <1>5, <1>10 DEF ExecStamp, remoteVars, TagsOfTheRemote, repoVars
<1>11. ASSUME NEW n \in Name, Checkout(n)
       PROVE  IInv'
    <2>1. UNCHANGED << remoteVars, repoVars, sjob, rows, issued >>
        BY <1>11 DEF Checkout, tableVars, queueVars
    <2>2. \A m \in Name, k \in Kind, c \in Nat :
              SaysWhatIsThere(m, k, c)' <=> SaysWhatIsThere(m, k, c)
        BY <1>8, <2>1 DEF remoteVars
    <2>3. RowsSay' /\ IssuedSay'
        BY <1>1, <2>1, <2>2 DEF TypeOK, Row, Upsert
    <2>4. /\ checkedOut'.name = n /\ checkedOut'.of \in Kind /\ checkedOut'.commit \in Nat
          /\ SaysWhatIsThere(n, checkedOut'.of, checkedOut'.commit)
        BY <1>1, <1>11, CheckoutTyped DEF SaysWhatIsThere, TagsOfTheRemote, CheckedOutRef, Kind
    <2>5. CheckoutSays'
        BY <1>11, <2>1, <2>2, <2>4 DEF Checkout
    <2>6. QED
        BY <1>3, <2>1, <2>3, <2>5
<1>12. ASSUME NEW n \in Name, RemoveVersion(n)
       PROVE  IInv'
    <2>1. UNCHANGED << remoteVars, repoVars, sjob, issued >>
        BY <1>12 DEF RemoveVersion, queueVars
    <2>2. \A m \in Name, k \in Kind, c \in Nat :
              SaysWhatIsThere(m, k, c)' <=> SaysWhatIsThere(m, k, c)
        BY <1>8, <2>1 DEF remoteVars
    <2>3. \A m \in Name : rows'[m] = IF m = n THEN NoRow ELSE rows[m]
        BY <1>1, <1>12 DEF RemoveVersion, TypeOK
    <2>4. RowsSay' /\ IssuedSay'
        BY <1>1, <2>1, <2>2, <2>3 DEF TypeOK, Row, Upsert
    <2>5. CheckoutSays'
        BY <1>1, <1>12, <2>2, <2>3 DEF RemoveVersion, TypeOK
    <2>6. QED
        BY <1>3, <2>1, <2>4, <2>5
<1>13. CASE StoreCommit
    <2>1. UNCHANGED << remoteVars, repoVars, sjob, issued >> /\ checkedOut' = NoRow
        BY <1>13 DEF StoreCommit, queueVars
    <2>2. \A m \in Name, k \in Kind, c \in Nat :
              SaysWhatIsThere(m, k, c)' <=> SaysWhatIsThere(m, k, c)
        BY <1>8, <2>1 DEF remoteVars
    <2>3. \A m \in Name :
              \/ rows'[m] = rows[m]
              \/ /\ m = checkedOut.name
                 /\ rows'[m].of = checkedOut.of /\ rows'[m].commit = checkedOut.commit
        BY <1>1, <1>13 DEF StoreCommit, TypeOK
    <2>4. checkedOut \in CheckedOutRef /\ SaysWhatIsThere(checkedOut.name, checkedOut.of, checkedOut.commit)
        BY <1>1, <1>13 DEF StoreCommit, TypeOK, CheckedOutRef
    <2>5. RowsSay'
        BY <1>1, <2>2, <2>3, <2>4 DEF TypeOK, Row, CheckedOutRef
    <2>6. IssuedSay' /\ CheckoutSays'
        BY <1>1, <2>1, <2>2 DEF TypeOK, Upsert
    <2>7. QED
        BY <1>3, <2>1, <2>5, <2>6
<1>14. CASE Crash
    <2>1. OneCloneAtATime'
        BY <1>1, <1>14 DEF Crash, OneCloneAtATime, TypeOK
    <2>2. UNCHANGED << remoteVars, repoVars, rows >> /\ issued' = {} /\ checkedOut' = NoRow
        BY <1>14 DEF Crash, tableVars
    <2>3. \A m \in Name, k \in Kind, c \in Nat :
              SaysWhatIsThere(m, k, c)' <=> SaysWhatIsThere(m, k, c)
        BY <1>8, <2>2 DEF remoteVars
    <2>4. RowsSay' /\ IssuedSay' /\ CheckoutSays'
        BY <1>1, <2>2, <2>3 DEF TypeOK, Row
    <2>5. QED
        BY <1>1, <1>2, <2>1, <2>2, <2>4 DEF HeadsOfTheClone, TagsOfTheRemote, remoteVars, repoVars
<1>15. CASE UNCHANGED vars
    BY <1>1, <1>5, <1>15 DEF vars, remoteVars, tableVars, queueVars, TagsOfTheRemote, repoVars
<1>16. ASSUME NEW u \in issued, UpsertFails(u)
       PROVE  IInv'
    <2>1. UNCHANGED << remoteVars, repoVars, sjob, rows, checkedOut >> /\ issued' \subseteq issued
        BY <1>16 DEF UpsertFails, tableVars
    <2>2. \A n \in Name, k \in Kind, c \in Nat :
              SaysWhatIsThere(n, k, c)' <=> SaysWhatIsThere(n, k, c)
        BY <1>8, <2>1 DEF remoteVars
    <2>3. RowsSay'
        BY <1>1, <2>1, <2>2 DEF TypeOK, Row
    <2>4. IssuedSay'
        BY <1>1, <2>1, <2>2 DEF TypeOK, Upsert
    <2>5. CheckoutSays'
        BY <1>1, <2>1, <2>2 DEF TypeOK
    <2>6. QED
        BY <1>3, <2>1, <2>3, <2>4, <2>5
<1>17. QED
    BY <1>1, <1>4, <1>6, <1>7, <1>9, <1>10, <1>11, <1>12, <1>13, <1>14, <1>15, <1>16
       DEF Next, DatabaseProceeds

LEMMA InvariantHolds == Spec => []IInv
BY InitSays, NextSays, PTL DEF Spec

-----------------------------------------------------------------------------

(***************************************************************************)
(* Directory, rows and queues hold what their types say.                   *)
(***************************************************************************)
THEOREM GitSyncTypeCorrect == Spec => []TypeOK
BY InvariantHolds, PTL DEF IInv

(***************************************************************************)
(* Every version row of a cloned project can be checked out, whatever      *)
(* syncs interleave with whose clone and wherever the process dies.        *)
(***************************************************************************)
THEOREM RowsResolve == Spec => []VersionsResolvable
<1>1. IInv => VersionsResolvable
    BY DEF IInv, TypeOK, Row, RowsSay, SaysWhatIsThere, VersionsResolvable, Resolvable,
           ResolvedTag, Kind
<1>2. QED
    BY <1>1, InvariantHolds, PTL

(***************************************************************************)
(* No statement of any sync or analysis takes a row back to an earlier     *)
(* commit of its ref, in whatever order the statements run.                *)
(***************************************************************************)
THEOREM CommitsNeverGoBack == Spec => CommitNeverGoesBack
<1> DEFINE Forward ==
        \A n \in Name :
            /\ rows[n] # NoRow /\ rows'[n] # NoRow
            /\ rows[n].of = rows'[n].of
            => rows[n].commit <= rows'[n].commit
<1>1. IInv /\ [Next]_vars => Forward
    <2>1. SUFFICES ASSUME IInv, [Next]_vars, NEW n \in Name, rows[n] # NoRow, rows'[n] # NoRow,
                          rows[n].of = rows'[n].of
                   PROVE  rows[n].commit <= rows'[n].commit
        OBVIOUS
    <2>2. rows[n] \in Row /\ rows'[n] \in Row
        BY <2>1, NextTyped DEF IInv, TypeOK
    <2>3. PICK k \in Kind, c \in Nat, d \in Nat :
              k = rows[n].of /\ c = rows[n].commit /\ d = rows'[n].commit
        BY <2>2 DEF Row
    <2>4. SaysWhatIsThere(n, k, c)'
        BY <2>1, <2>3, NextKeeps DEF IInv, RowsSay
    <2>5. SaysWhatIsThere(n, k, d)'
        BY <2>1, <2>3, NextSays DEF IInv, RowsSay
    <2>6. c = d
        BY <2>4, <2>5 DEF SaysWhatIsThere, Kind
    <2>7. QED
        BY <2>3, <2>6
<1>2. QED
    BY <1>1, InvariantHolds, PTL DEF Spec, CommitNeverGoesBack

-----------------------------------------------------------------------------

(***************************************************************************)
(* The directory is never ahead of the remote.                             *)
(***************************************************************************)
HeadsBehind == \A b \in Branch : heads[b] <= remoteHeads[b]

LEMMA NextBehind == IInv /\ HeadsBehind /\ [Next]_vars => HeadsBehind'
<1>1. SUFFICES ASSUME IInv, HeadsBehind, [Next]_vars PROVE HeadsBehind'
    OBVIOUS
<1> USE <1>1 DEF IInv, TypeOK, HeadsBehind, repoVars, remoteVars
<1>2. ASSUME NEW j \in SyncJob, SyncRequest(j) \/ SyncProceeds(j)
      PROVE  HeadsBehind'
    <2>1. UNCHANGED remoteHeads
        BY <1>2 DEF Goes, SyncRequest, SyncProceeds, CloneOrFetch, CloneBegins, CloneRefused,
                    CloneFinishes, CloneFails, Fetch, FetchFails, ListRefs
    <2>2. DirectoryChanges
        BY <1>2, SyncTyped
    <2>3. QED
        BY <2>1, <2>2, DefaultAssumption DEF DirectoryChanges, NoBranches
<1>3. ASSUME NEW b \in Branch, Push(b)
      PROVE  HeadsBehind'
    BY <1>3 DEF Push
<1>4. CASE UNCHANGED << remoteHeads, heads >>
    BY <1>4
<1>5. QED
    BY <1>2, <1>3, <1>4
       DEF Next, DatabaseProceeds, PushTag, ExecUpsert, UpsertFails, ExecStamp, Checkout, RemoveVersion,
           StoreCommit, Crash, vars

(***************************************************************************)
(* A statement that sets row n to commit c of a ref of kind k is a step of *)
(* VersionTable, if c is what there is of the ref.                         *)
(***************************************************************************)
LEMMA RecordAppears ==
    ASSUME IInv, HeadsBehind, NEW n \in Name, NEW k \in Kind, NEW c \in Nat,
           SaysWhatIsThere(n, k, c),
           rows' = [rows EXCEPT ![n] =
               [type |-> IF rows[n] = NoRow THEN k ELSE rows[n].type, of |-> k, commit |-> c]],
           UNCHANGED remoteVars
    PROVE  V!Next
<1>1. rows[n] # NoRow /\ rows[n].of = k => rows[n].commit <= c
    BY DEF IInv, TypeOK, Row, RowsSay, SaysWhatIsThere, Kind
<1>2. UNCHANGED << remoteHeads, remoteTags >>
    BY DEF remoteVars
<1>3. CASE k = "tag"
    <2>1. n \in Tag /\ remoteTags[n] # 0 /\ c \in {remoteTags[n]}
        BY <1>3 DEF SaysWhatIsThere
    <2>2. V!Record(n, "tag", {remoteTags[n]})
        BY <1>1, <1>2, <1>3, <2>1 DEF V!Record
    <2>3. QED
        BY <2>1, <2>2 DEF V!Next
<1>4. CASE k = "branch"
    <2>1. n \in Branch /\ c \in 1 .. remoteHeads[n]
        BY <1>4 DEF SaysWhatIsThere, HeadsBehind, IInv, TypeOK
    <2>2. V!Record(n, "branch", 1 .. remoteHeads[n])
        BY <1>1, <1>2, <1>4, <2>1 DEF V!Record
    <2>3. QED
        BY <2>1, <2>2 DEF V!Next
<1>5. QED
    BY <1>3, <1>4 DEF Kind

LEMMA StepRecords ==
    ASSUME IInv, HeadsBehind, [Next]_vars
    PROVE  V!Next \/ UNCHANGED V!vars
<1>1. ASSUME NEW u \in issued, ExecUpsert(u)
      PROVE  V!Next
    <2>1. u.name \in Name /\ u.of \in Kind /\ u.commit \in Nat
        BY DEF IInv, TypeOK, Upsert
    <2>2. SaysWhatIsThere(u.name, u.of, u.commit)
        BY DEF IInv, IssuedSay
    <2>3. QED
        BY <1>1, <2>1, <2>2, RecordAppears DEF ExecUpsert
<1>2. CASE StoreCommit
    <2>1. /\ checkedOut.name \in Name /\ checkedOut.of \in Kind /\ checkedOut.commit \in Nat
          /\ rows[checkedOut.name] # NoRow
          /\ SaysWhatIsThere(checkedOut.name, checkedOut.of, checkedOut.commit)
        BY <1>2 DEF StoreCommit, IInv, TypeOK, CheckoutSays
    <2>2. QED
        BY <1>2, <2>1, RecordAppears DEF StoreCommit
<1>3. ASSUME NEW n \in Name, RemoveVersion(n)
      PROVE  V!Next
    BY <1>3 DEF RemoveVersion, remoteVars, V!Remove, V!Next, V!Name, Name
<1>4. ASSUME NEW b \in Branch, Push(b)
      PROVE  V!Next
    BY <1>4 DEF Push, tableVars, V!Push, V!Next
<1>5. ASSUME NEW t \in Tag, PushTag(t)
      PROVE  V!Next
    BY <1>5 DEF PushTag, tableVars, V!PushTag, V!Next
<1>6. CASE UNCHANGED << remoteVars, rows >>
    BY <1>6 DEF V!vars, remoteVars
<1>7. ASSUME NEW j \in SyncJob, SyncRequest(j) \/ SyncProceeds(j)
      PROVE  UNCHANGED << remoteVars, rows >>
    BY <1>7 DEF Goes, tableVars, SyncRequest, SyncProceeds, CloneOrFetch, CloneBegins,
                CloneRefused, CloneFinishes, CloneFails, Fetch, FetchFails, ListRefs
<1>8. QED
    BY <1>1, <1>2, <1>3, <1>4, <1>5, <1>6, <1>7
       DEF Next, DatabaseProceeds, UpsertFails, ExecStamp, Checkout, Crash, tableVars, vars

(***************************************************************************)
(* Whatever syncs, analyses and crashes interleave, the version rows are   *)
(* recorded one by one from what the remote has or had, and keep the type  *)
(* of their first upsert (ProjectController::sync, storeDependencies).     *)
(***************************************************************************)
THEOREM GitSyncImplementsVersionTable == Spec => ImplementsVersionTable
<1>1. Init => V!Init
    BY DEF Init, V!Init, V!Name, Name
<1>2. Init => HeadsBehind
  <2>1. SUFFICES ASSUME Init, NEW b \in Branch
                 PROVE  heads[b] <= remoteHeads[b]
        BY DEF HeadsBehind
  <2>2. heads[b] = 0
        BY <2>1 DEF Init, NoBranches
  <2>3. remoteHeads[b] \in {0, 1}
    <3>1. remoteHeads[b] = IF b = Default THEN 1 ELSE 0
          BY <2>1 DEF Init
    <3>2. QED
          BY <3>1
  <2>4. QED
        BY <2>2, <2>3
<1>3. IInv /\ HeadsBehind /\ [Next]_vars => [V!Next]_V!vars
    BY StepRecords
<1>4. QED
    BY <1>1, <1>2, <1>3, NextBehind, InvariantHolds, PTL
       DEF Spec, ImplementsVersionTable, V!Spec
=============================================================================
