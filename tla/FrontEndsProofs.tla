-------------------------- MODULE FrontEndsProofs ---------------------------
(***************************************************************************)
(* Theorems about the policy store (PolicyStore), the server (ApiServer)   *)
(* and its callers (FrontEnds), for any policies, payloads, versions,      *)
(* requests and bounds.                                                    *)
(*                                                                         *)
(* Policies.  ActiveIsServed is not inductive: it says nothing of a key    *)
(* that points at an inactive revision.  What the code keeps is that an    *)
(* active revision is always the keyed one (ActiveIsKeyed): each save of   *)
(* an active revision and each activation re-keys and deactivates the rest *)
(* in one step.                                                            *)
(*                                                                         *)
(* Callers.  RecordsAgree and AnswersAreTrue follow from FrontInv: how     *)
(* contexts, results and calls are numbered (RecordsInv), and what may     *)
(* have been done for a call at each point of its connection (CallInv).    *)
(***************************************************************************)
EXTENDS FrontEnds, SequenceTheorems, FiniteSetTheorems, TLAPS

Words == STRING \cup {"0", "1", "."}
Versioned == [stem : Seq(Words), number : Nat \cup {Unnumbered}, padded : BOOLEAN]
Contents == Payloads \cup {Defaults}
CleanLists(lists) == [l \in DOMAIN lists |-> Clean(lists[l])]

Revision ==
    [policy_id : PolicyIds, version : Versioned, is_active : BOOLEAN,
     limits : {c.limits : c \in Contents},
     lists : {c.lists : c \in Contents} \cup {CleanLists(c.lists) : c \in Contents},
     actions : {c.actions : c \in Contents}]

Histories == [PolicyIds -> Seq(Revision)]

\* Nothing below depends on what a revision or a version is made of, only on
\* their being the members of these sets.
TypedStore ==
    /\ revisions \in Histories
    /\ latest \in [PolicyIds -> Versioned]
    /\ active_key \subseteq PolicyIds \X Versioned

ActiveIsKeyed ==
    \A q \in PolicyIds : \A i \in DOMAIN revisions[q] :
       revisions[q][i].is_active => active_key = {<<q, revisions[q][i].version>>}

StoreInv == TypedStore /\ OnePerVersion /\ ActiveIsKeyed

-----------------------------------------------------------------------------
(***************************************************************************)
(* Histories                                                               *)
(***************************************************************************)

\* An entry of a history is a revision.
LEMMA EntryIsRevision ==
    ASSUME NEW revs \in Histories, NEW q \in PolicyIds, NEW i \in DOMAIN revs[q]
    PROVE  revs[q][i] \in Revision
<1>1. revs[q] \in Seq(Revision)
    BY DEF Histories
<1> QED BY <1>1

\* A function on 1..n is a sequence.
LEMMA IsSequence ==
    ASSUME NEW S, NEW n \in Nat, NEW f \in [1..n -> S]
    PROVE  f \in Seq(S)
BY SeqDef

\* revs with each entry active as on says.
Marked(revs, on) ==
    [q \in PolicyIds |-> [i \in DOMAIN revs[q] |-> [revs[q][i] EXCEPT !.is_active = on[q][i]]]]

\* Marking which entries are active keeps their places and versions.
LEMMA Marking ==
    ASSUME NEW revs \in Histories, NEW on, NEW new, new = Marked(revs, on),
           \A q \in PolicyIds : \A i \in DOMAIN revs[q] : on[q][i] \in BOOLEAN
    PROVE  /\ new \in Histories
           /\ \A q \in PolicyIds :
                 /\ DOMAIN new[q] = DOMAIN revs[q]
                 /\ \A i \in DOMAIN revs[q] :
                       /\ new[q][i].version = revs[q][i].version
                       /\ new[q][i].is_active <=> on[q][i]
<1>1. ASSUME NEW q \in PolicyIds
      PROVE  /\ new[q] \in Seq(Revision)
             /\ DOMAIN new[q] = DOMAIN revs[q]
             /\ \A i \in DOMAIN revs[q] :
                   /\ new[q][i].version = revs[q][i].version
                   /\ new[q][i].is_active <=> on[q][i]
  <2>1. new[q] = [i \in DOMAIN revs[q] |-> [revs[q][i] EXCEPT !.is_active = on[q][i]]]
      BY DEF Marked
  <2>2. revs[q] \in Seq(Revision)
      BY DEF Histories
  <2>3. DOMAIN revs[q] = 1..Len(revs[q]) /\ Len(revs[q]) \in Nat
      BY <2>2
  <2>4. ASSUME NEW i \in DOMAIN revs[q]
        PROVE  /\ new[q][i] \in Revision
               /\ new[q][i].version = revs[q][i].version
               /\ new[q][i].is_active <=> on[q][i]
    <3>1. revs[q][i] \in Revision /\ on[q][i] \in BOOLEAN
        BY EntryIsRevision
    <3>2. new[q][i] = [revs[q][i] EXCEPT !.is_active = on[q][i]]
        BY <2>1
    <3> QED BY <3>1, <3>2 DEF Revision
  <2>5. new[q] \in [1..Len(revs[q]) -> Revision]
      BY <2>1, <2>3, <2>4
  <2>6. new[q] \in Seq(Revision)
      BY <2>3, <2>5, IsSequence
  <2> QED BY <2>1, <2>4, <2>6
<1> QED BY <1>1 DEF Histories, Marked

\* Storing a revision replaces the one of its version or follows the last:
\* every entry but the stored one is an old one in its place.
LEMMA Storing ==
    ASSUME revisions \in Histories, OnePerVersion, NEW p \in Revision,
           NEW new, new = Stored(revisions, p)
    PROVE  /\ new \in Histories
           /\ \A q \in PolicyIds : \A i \in DOMAIN revisions[q] :
                 i \in DOMAIN new[q] /\ new[q][i].version = revisions[q][i].version
           /\ \A q \in PolicyIds : \A i \in DOMAIN new[q] :
                 \/ q = p.policy_id /\ new[q][i] = p
                 \/ /\ i \in DOMAIN revisions[q] /\ new[q][i] = revisions[q][i]
                    /\ ~(q = p.policy_id /\ new[q][i].version = p.version)
           /\ \E i \in DOMAIN new[p.policy_id] : new[p.policy_id][i] = p
           /\ \A q \in PolicyIds : \A i, j \in DOMAIN new[q] :
                 new[q][i].version = new[q][j].version => i = j
<1> DEFINE pid == p.policy_id
           old == revisions[pid]
<1>1. pid \in PolicyIds
    BY DEF Revision
<1>2. old \in Seq(Revision)
    BY <1>1 DEF Histories
<1>3. DOMAIN old = 1..Len(old) /\ Len(old) \in Nat
    BY <1>2
<1>4. \A i \in DOMAIN old : old[i] \in Revision
    BY <1>2
<1>5. p.version \in Versions(pid) <=> \E i \in DOMAIN old : old[i].version = p.version
    BY DEF Versions, Revisions
<1>6. \A i, j \in DOMAIN old : old[i].version = old[j].version => i = j
    BY <1>1 DEF OnePerVersion
<1>7. new = [revisions EXCEPT ![pid] =
                IF p.version \in Versions(pid)
                THEN [i \in DOMAIN old |-> IF old[i].version = p.version THEN p ELSE old[i]]
                ELSE Append(old, p)]
    BY DEF Stored
<1>8. /\ \A q \in PolicyIds : q # pid => new[q] = revisions[q]
      /\ new = [q \in PolicyIds |-> IF q = pid THEN new[pid] ELSE revisions[q]]
    BY <1>7 DEF Histories
<1> HIDE DEF old
<1>9. /\ new[pid] \in Seq(Revision)
      /\ \A i \in DOMAIN old : i \in DOMAIN new[pid] /\ new[pid][i].version = old[i].version
      /\ \A i \in DOMAIN new[pid] :
            \/ new[pid][i] = p
            \/ i \in DOMAIN old /\ new[pid][i] = old[i] /\ new[pid][i].version # p.version
      /\ \E i \in DOMAIN new[pid] : new[pid][i] = p
      /\ \A i, j \in DOMAIN new[pid] : new[pid][i].version = new[pid][j].version => i = j
  <2>1. CASE p.version \in Versions(pid)
    <3>1. new[pid] = [i \in DOMAIN old |-> IF old[i].version = p.version THEN p ELSE old[i]]
        BY <1>1, <1>7, <2>1 DEF Histories
    <3>2. new[pid] \in [1..Len(old) -> Revision]
        BY <3>1, <1>3, <1>4
    <3>3. new[pid] \in Seq(Revision)
        BY <3>2, <1>3, IsSequence
    <3>4. \A i \in DOMAIN old : i \in DOMAIN new[pid] /\ new[pid][i].version = old[i].version
        BY <3>1
    <3>5. \A i \in DOMAIN new[pid] :
             \/ new[pid][i] = p
             \/ i \in DOMAIN old /\ new[pid][i] = old[i] /\ new[pid][i].version # p.version
        BY <3>1
    <3>6. \E i \in DOMAIN new[pid] : new[pid][i] = p
        BY <3>1, <2>1, <1>5
    <3>7. \A i, j \in DOMAIN new[pid] : new[pid][i].version = new[pid][j].version => i = j
        BY <3>1, <3>4, <1>6
    <3> QED BY <3>3, <3>4, <3>5, <3>6, <3>7
  <2>2. CASE p.version \notin Versions(pid)
    <3>1. new[pid] = Append(old, p)
        BY <1>1, <1>7, <2>2 DEF Histories
    <3>2. new[pid] \in Seq(Revision)
        BY <3>1, <1>2
    <3>3. /\ DOMAIN new[pid] = 1..(Len(old) + 1)
          /\ \A i \in DOMAIN old : new[pid][i] = old[i]
          /\ new[pid][Len(old) + 1] = p
        BY <3>1, <1>2, <1>3
    <3>4. \A i \in DOMAIN new[pid] : i \in DOMAIN old \/ i = Len(old) + 1
        BY <3>3, <1>3
    <3>5. \A i \in DOMAIN old : i \in DOMAIN new[pid] /\ old[i].version # p.version
        BY <3>3, <1>3, <1>5, <2>2
    <3>6. \E i \in DOMAIN new[pid] : new[pid][i] = p
        BY <3>3, <1>3
    <3>7. \A i, j \in DOMAIN new[pid] : new[pid][i].version = new[pid][j].version => i = j
        BY <3>3, <3>4, <3>5, <1>6
    <3> QED BY <3>2, <3>3, <3>4, <3>5, <3>6, <3>7
  <2> QED BY <2>1, <2>2
<1>10. new \in Histories
  <2>1. \A q \in PolicyIds : new[q] \in Seq(Revision)
      BY <1>8, <1>9 DEF Histories
  <2> QED BY <1>8, <2>1 DEF Histories
<1>11. ASSUME NEW q \in PolicyIds, NEW i \in DOMAIN revisions[q]
       PROVE  i \in DOMAIN new[q] /\ new[q][i].version = revisions[q][i].version
  <2>1. CASE q = pid
      BY <2>1, <1>9 DEF old
  <2>2. CASE q # pid
      BY <2>2, <1>8
  <2> QED BY <2>1, <2>2
<1>12. ASSUME NEW q \in PolicyIds, NEW i \in DOMAIN new[q]
       PROVE  \/ q = pid /\ new[q][i] = p
              \/ /\ i \in DOMAIN revisions[q] /\ new[q][i] = revisions[q][i]
                 /\ ~(q = pid /\ new[q][i].version = p.version)
  <2>1. CASE q = pid
      BY <2>1, <1>9 DEF old
  <2>2. CASE q # pid
      BY <2>2, <1>8
  <2> QED BY <2>1, <2>2
<1>13. ASSUME NEW q \in PolicyIds, NEW i \in DOMAIN new[q], NEW j \in DOMAIN new[q],
              new[q][i].version = new[q][j].version
       PROVE  i = j
  <2>1. CASE q = pid
      BY <2>1, <1>9, <1>13
  <2>2. CASE q # pid
      BY <2>2, <1>8, <1>13 DEF OnePerVersion
  <2> QED BY <2>1, <2>2
<1> QED BY <1>9, <1>10, <1>11, <1>12, <1>13

\* Keeping only one revision active keeps places and versions, and what is
\* active afterwards is of that policy and version.
LEMMA Deactivating ==
    ASSUME NEW revs \in Histories, NEW pid, NEW v,
           NEW new, new = Only(revs, pid, v)
    PROVE  /\ new \in Histories
           /\ \A q \in PolicyIds :
                 /\ DOMAIN new[q] = DOMAIN revs[q]
                 /\ \A i \in DOMAIN revs[q] :
                       /\ new[q][i].version = revs[q][i].version
                       /\ new[q][i].is_active => q = pid /\ new[q][i].version = v
                       /\ revs[q][i].is_active /\ q = pid /\ revs[q][i].version = v
                            => new[q][i].is_active
<1> DEFINE On(q, i) == revs[q][i].is_active /\ q = pid /\ revs[q][i].version = v
           on == [q \in PolicyIds |-> [i \in DOMAIN revs[q] |-> On(q, i)]]
<1>1. \A q \in PolicyIds : \A i \in DOMAIN revs[q] : on[q][i] = On(q, i)
    OBVIOUS
<1>2. \A q \in PolicyIds : \A i \in DOMAIN revs[q] : On(q, i) \in BOOLEAN
    BY EntryIsRevision DEF Revision
<1>3. new = [q \in PolicyIds |-> [i \in DOMAIN revs[q] |->
                [revs[q][i] EXCEPT !.is_active = On(q, i)]]]
    BY DEF Only
<1>4. new = Marked(revs, on)
    BY <1>1, <1>3 DEF Marked
<1>5. \A q \in PolicyIds : \A i \in DOMAIN revs[q] : on[q][i] \in BOOLEAN
    BY <1>1, <1>2
<1> HIDE DEF on
<1>6. /\ new \in Histories
      /\ \A q \in PolicyIds :
            /\ DOMAIN new[q] = DOMAIN revs[q]
            /\ \A i \in DOMAIN revs[q] :
                  /\ new[q][i].version = revs[q][i].version
                  /\ new[q][i].is_active <=> on[q][i]
    BY <1>4, <1>5, Marking
<1>7. ASSUME NEW q \in PolicyIds, NEW i \in DOMAIN revs[q], new[q][i].is_active
      PROVE  q = pid /\ new[q][i].version = v
  <2>1. on[q][i]
      BY <1>6, <1>7
  <2>2. On(q, i)
      BY ONLY <1>1, <2>1
  <2> QED BY <2>2, <1>6
<1>8. ASSUME NEW q \in PolicyIds, NEW i \in DOMAIN revs[q],
             revs[q][i].is_active, q = pid, revs[q][i].version = v
      PROVE  new[q][i].is_active
  <2>1. On(q, i)
      BY <1>8
  <2>2. on[q][i]
      BY ONLY <1>1, <1>8, <2>1
  <2> QED BY <2>2, <1>6
<1> QED BY <1>6, <1>7, <1>8

-----------------------------------------------------------------------------
(***************************************************************************)
(* The repository's two writes                                             *)
(***************************************************************************)

\* The invariant follows from where the entries of the new history come from.
LEMMA Written ==
    ASSUME StoreInv, NEW pid \in PolicyIds, NEW v \in Versioned,
           revisions' \in Histories,
           \A q \in PolicyIds : \A i, j \in DOMAIN revisions'[q] :
              revisions'[q][i].version = revisions'[q][j].version => i = j,
           \A q \in PolicyIds : Exists(q)' => q = pid \/ Exists(q),
           KeepsVersions,
           \E i \in DOMAIN revisions'[pid] : revisions'[pid][i].version = v,
           latest' = [latest EXCEPT ![pid] = v]
    PROVE  OnePerVersion' /\ latest' \in [PolicyIds -> Versioned]
<1>1. latest' \in [PolicyIds -> Versioned]
    BY DEF StoreInv, TypedStore
<1>2. ASSUME NEW q \in PolicyIds, Exists(q)'
      PROVE  latest'[q] \in Versions(q)'
  <2>1. CASE q = pid
      BY <2>1 DEF StoreInv, TypedStore, Versions, Revisions
  <2>2. CASE q # pid
    <3>1. Exists(q) /\ latest'[q] = latest[q]
        BY <2>2, <1>2 DEF StoreInv, TypedStore
    <3>2. PICK i \in DOMAIN revisions[q] : revisions[q][i].version = latest[q]
        BY <3>1 DEF StoreInv, OnePerVersion, Versions, Revisions
    <3>3. i \in DOMAIN revisions'[q] /\ revisions'[q][i].version = latest'[q]
        BY <3>1, <3>2 DEF KeepsVersions
    <3> QED BY <3>3 DEF Versions, Revisions
  <2> QED BY <2>1, <2>2
<1> QED BY <1>1, <1>2 DEF OnePerVersion

\* A history has entries when it is not empty.
LEMMA Nonempty ==
    ASSUME NEW s \in Seq(Revision)
    PROVE  s # <<>> <=> \E i \in DOMAIN s : TRUE
<1>1. CASE s = <<>>
    BY <1>1
<1>2. CASE s # <<>>
  <2>1. Len(s) \in Nat /\ Len(s) # 0 /\ DOMAIN s = 1..Len(s)
      BY <1>2
  <2>2. 1 \in DOMAIN s
      BY <2>1
  <2> QED BY <1>2, <2>2
<1> QED BY <1>1, <1>2

\* Saving any revision keeps the invariant and the history (memory.py save):
\* an active one re-keys and deactivates the others in the same step.
LEMMA Saves ==
    ASSUME StoreInv, NEW p \in Revision, save(p)
    PROVE  StoreInv' /\ KeepsVersions /\ p.version \in Versions(p.policy_id)'
<1> DEFINE pid == p.policy_id
           mid == Stored(revisions, p)
<1>1. pid \in PolicyIds /\ p.version \in Versioned /\ p.is_active \in BOOLEAN
    BY DEF Revision
<1>2. revisions \in Histories /\ OnePerVersion
    BY DEF StoreInv, TypedStore
<1>3. /\ mid \in Histories
      /\ \A q \in PolicyIds : \A i \in DOMAIN revisions[q] :
            i \in DOMAIN mid[q] /\ mid[q][i].version = revisions[q][i].version
      /\ \A q \in PolicyIds : \A i \in DOMAIN mid[q] :
            \/ q = pid /\ mid[q][i] = p
            \/ /\ i \in DOMAIN revisions[q] /\ mid[q][i] = revisions[q][i]
               /\ ~(q = pid /\ mid[q][i].version = p.version)
      /\ \E i \in DOMAIN mid[pid] : mid[pid][i] = p
      /\ \A q \in PolicyIds : \A i, j \in DOMAIN mid[q] :
            mid[q][i].version = mid[q][j].version => i = j
    BY <1>2, Storing
<1>4. latest' = [latest EXCEPT ![pid] = p.version]
    BY DEF save
<1> HIDE DEF mid
<1>5. /\ revisions' \in Histories
      /\ \A q \in PolicyIds :
            /\ DOMAIN revisions'[q] = DOMAIN mid[q]
            /\ \A i \in DOMAIN mid[q] : revisions'[q][i].version = mid[q][i].version
  <2>1. CASE p.is_active
    <3>1. revisions' = Only(mid, pid, p.version)
        BY <2>1 DEF save, mid
    <3> QED BY <3>1, <1>3, Deactivating
  <2>2. CASE ~p.is_active
    <3>1. revisions' = mid
        BY <2>2 DEF save, mid
    <3> QED BY <3>1, <1>3
  <2> QED BY <2>1, <2>2
<1>6. KeepsVersions
    BY <1>3, <1>5 DEF KeepsVersions
<1>7. \A q \in PolicyIds : \A i, j \in DOMAIN revisions'[q] :
         revisions'[q][i].version = revisions'[q][j].version => i = j
    BY <1>3, <1>5
<1>8. \E i \in DOMAIN revisions'[pid] : revisions'[pid][i].version = p.version
    BY <1>1, <1>3, <1>5
<1>9. ASSUME NEW q \in PolicyIds, Exists(q)', q # pid PROVE Exists(q)
  <2>1. revisions'[q] \in Seq(Revision) /\ revisions[q] \in Seq(Revision)
      BY <1>2, <1>5 DEF Histories
  <2>2. PICK i \in DOMAIN revisions'[q] : TRUE
      BY <1>9, <2>1, Nonempty DEF Exists
  <2>3. i \in DOMAIN revisions[q]
      BY <1>3, <1>5, <1>9
  <2> QED BY <2>1, <2>3, Nonempty DEF Exists
<1>10. OnePerVersion' /\ latest' \in [PolicyIds -> Versioned]
    BY <1>1, <1>4, <1>5, <1>6, <1>7, <1>8, <1>9, Written
<1>11. active_key' \subseteq PolicyIds \X Versioned
    BY <1>1 DEF save, StoreInv, TypedStore
<1>12. ActiveIsKeyed'
  <2>1. CASE p.is_active
    <3>1. revisions' = Only(mid, pid, p.version) /\ active_key' = {<<pid, p.version>>}
        BY <2>1 DEF save, mid
    <3>2. \A q \in PolicyIds : \A i \in DOMAIN revisions'[q] :
             revisions'[q][i].is_active => q = pid /\ revisions'[q][i].version = p.version
        BY <3>1, <1>3, Deactivating
    <3> QED BY <3>1, <3>2 DEF ActiveIsKeyed
  <2>2. CASE ~p.is_active
    <3>1. revisions' = mid /\ active_key' = active_key
        BY <2>2 DEF save, mid
    <3> QED BY <3>1, <2>2, <1>3 DEF StoreInv, ActiveIsKeyed
  <2> QED BY <2>1, <2>2
<1>13. p.version \in Versions(pid)'
    BY <1>8 DEF Versions, Revisions
<1> QED BY <1>5, <1>6, <1>10, <1>11, <1>12, <1>13 DEF StoreInv, TypedStore

\* Activating a revision the policy has keeps the invariant and the history
\* (memory.py set_active).
LEMMA Activates ==
    ASSUME StoreInv, NEW pid \in PolicyIds, NEW v \in Versions(pid), set_active(pid, v)
    PROVE  StoreInv' /\ KeepsVersions
<1> DEFINE On(q, i) == q = pid /\ revisions[q][i].version = v
           on == [q \in PolicyIds |-> [i \in DOMAIN revisions[q] |-> On(q, i)]]
<1>1. revisions \in Histories /\ OnePerVersion
    BY DEF StoreInv, TypedStore
<1>2. PICK k \in DOMAIN revisions[pid] : revisions[pid][k].version = v
    BY DEF Versions, Revisions
<1>3. v \in Versioned
    BY <1>1, <1>2, EntryIsRevision DEF Revision
<1>4. \A q \in PolicyIds : \A i \in DOMAIN revisions[q] : on[q][i] = On(q, i)
    OBVIOUS
<1>5. revisions' = [q \in PolicyIds |-> [i \in DOMAIN revisions[q] |->
                       [revisions[q][i] EXCEPT !.is_active = On(q, i)]]]
    BY DEF set_active
<1>6. revisions' = Marked(revisions, on)
    BY <1>4, <1>5 DEF Marked
<1>7. \A q \in PolicyIds : \A i \in DOMAIN revisions[q] : on[q][i] \in BOOLEAN
    BY <1>4
<1> HIDE DEF on
<1>8. /\ revisions' \in Histories
      /\ \A q \in PolicyIds :
            /\ DOMAIN revisions'[q] = DOMAIN revisions[q]
            /\ \A i \in DOMAIN revisions[q] :
                  /\ revisions'[q][i].version = revisions[q][i].version
                  /\ revisions'[q][i].is_active <=> on[q][i]
    BY <1>1, <1>6, <1>7, Marking
<1>9. KeepsVersions
    BY <1>8 DEF KeepsVersions
<1>10. \A q \in PolicyIds : \A i, j \in DOMAIN revisions'[q] :
          revisions'[q][i].version = revisions'[q][j].version => i = j
    BY <1>1, <1>8 DEF OnePerVersion
<1>11. ASSUME NEW q \in PolicyIds, Exists(q)' PROVE Exists(q)
  <2>1. revisions'[q] \in Seq(Revision) /\ revisions[q] \in Seq(Revision)
      BY <1>1, <1>8 DEF Histories
  <2>2. PICK i \in DOMAIN revisions'[q] : TRUE
      BY <1>11, <2>1, Nonempty DEF Exists
  <2>3. i \in DOMAIN revisions[q]
      BY <1>8
  <2> QED BY <2>1, <2>3, Nonempty DEF Exists
<1>12. latest' = [latest EXCEPT ![pid] = v] /\ active_key' = {<<pid, v>>}
    BY DEF set_active
<1>13. OnePerVersion' /\ latest' \in [PolicyIds -> Versioned]
    BY <1>2, <1>3, <1>8, <1>9, <1>10, <1>11, <1>12, Written, ZenonT(40)
<1>14. ASSUME NEW q \in PolicyIds, NEW i \in DOMAIN revisions'[q], revisions'[q][i].is_active
       PROVE  active_key' = {<<q, revisions'[q][i].version>>}
  <2>1. on[q][i] /\ i \in DOMAIN revisions[q]
      BY <1>8, <1>14
  <2>2. On(q, i)
      BY ONLY <1>4, <2>1
  <2> QED BY <2>1, <2>2, <1>8, <1>12
<1> QED BY <1>3, <1>8, <1>9, <1>12, <1>13, <1>14 DEF StoreInv, TypedStore, ActiveIsKeyed

\* A policy is in force when some entry of a history is active.
SomeActive == \E q \in PolicyIds : \E i \in DOMAIN revisions[q] : revisions[q][i].is_active

LEMMA InForce ==
    /\ \A x : x \in ActiveOnes <=>
         \E q \in PolicyIds : \E i \in DOMAIN revisions[q] :
            revisions[q][i].is_active /\ x = <<q, revisions[q][i].version>>
    /\ SomeActive' => ActiveOnes' # {}
<1>1. \A x : x \in ActiveOnes <=>
         \E q \in PolicyIds : \E i \in DOMAIN revisions[q] :
            revisions[q][i].is_active /\ x = <<q, revisions[q][i].version>>
    BY DEF ActiveOnes, Revisions
<1>2. ASSUME NEW q \in PolicyIds, NEW i \in DOMAIN revisions'[q], revisions'[q][i].is_active
      PROVE  <<q, revisions'[q][i].version>> \in ActiveOnes'
    BY <1>2 DEF ActiveOnes, Revisions
<1> QED BY <1>1, <1>2 DEF SomeActive

\* A save leaves no policy in force only when it stores one that is not active
\* in the place of the one that was.
LEMMA SavesGovern ==
    ASSUME StoreInv, NEW p \in Revision, save(p), ActiveOnes' = {}, NEW k \in ActiveOnes
    PROVE  /\ k = <<p.policy_id, p.version>> /\ k[2] \in Versions(k[1])
           /\ latest'[k[1]] = k[2] /\ active_key' = active_key
<1> DEFINE pid == p.policy_id
           mid == Stored(revisions, p)
<1>1. revisions \in Histories /\ OnePerVersion /\ pid \in PolicyIds
    BY DEF StoreInv, TypedStore, Revision
<1>2. /\ mid \in Histories
      /\ \A q \in PolicyIds : \A i \in DOMAIN revisions[q] :
            i \in DOMAIN mid[q] /\ mid[q][i].version = revisions[q][i].version
      /\ \A q \in PolicyIds : \A i \in DOMAIN mid[q] :
            \/ q = pid /\ mid[q][i] = p
            \/ /\ i \in DOMAIN revisions[q] /\ mid[q][i] = revisions[q][i]
               /\ ~(q = pid /\ mid[q][i].version = p.version)
      /\ \E i \in DOMAIN mid[pid] : mid[pid][i] = p
    BY <1>1, Storing
<1>3. ~SomeActive'
    BY InForce
<1>4. ~p.is_active
  <2> SUFFICES ASSUME p.is_active PROVE FALSE
      OBVIOUS
  <2>1. revisions' = Only(mid, pid, p.version)
      BY DEF save
  <2> HIDE DEF mid
  <2>2. PICK i \in DOMAIN mid[pid] : mid[pid][i] = p
      BY <1>2
  <2>3. i \in DOMAIN revisions'[pid] /\ revisions'[pid][i].is_active
      BY <1>1, <1>2, <2>1, <2>2, Deactivating
  <2> QED BY <1>1, <1>3, <2>3 DEF SomeActive
<1>5. /\ revisions' = mid /\ active_key' = active_key
      /\ latest' = [latest EXCEPT ![pid] = p.version]
    BY <1>4 DEF save
<1> HIDE DEF mid
<1>10. PICK q \in PolicyIds : \E i \in DOMAIN revisions[q] :
          revisions[q][i].is_active /\ k = <<q, revisions[q][i].version>>
    BY InForce
<1>6. PICK i \in DOMAIN revisions[q] :
          revisions[q][i].is_active /\ k = <<q, revisions[q][i].version>>
    BY <1>10
<1>7. q = pid /\ mid[q][i] = p
  <2>1. mid[q][i] # revisions[q][i]
      BY <1>2, <1>3, <1>5, <1>6 DEF SomeActive
  <2> QED BY <1>2, <1>6, <2>1
<1>8. k = <<pid, p.version>> /\ k[2] \in Versions(k[1])
    BY <1>2, <1>6, <1>7 DEF Versions, Revisions
<1>9. latest'[pid] = p.version
    BY <1>1, <1>5 DEF StoreInv, TypedStore
<1> QED BY <1>5, <1>8, <1>9

\* An activation leaves the revision it names in force.
LEMMA ActivationGoverns ==
    ASSUME StoreInv, NEW pid \in PolicyIds, NEW v \in Versions(pid), set_active(pid, v)
    PROVE  ActiveOnes' # {}
<1>1. revisions \in Histories
    BY DEF StoreInv, TypedStore
<1>2. PICK i \in DOMAIN revisions[pid] : revisions[pid][i].version = v
    BY DEF Versions, Revisions
<1>3. revisions'[pid] = [j \in DOMAIN revisions[pid] |->
                           [revisions[pid][j] EXCEPT !.is_active = revisions[pid][j].version = v]]
    BY DEF set_active
<1>4. revisions[pid][i] \in Revision
    BY <1>1, <1>2, EntryIsRevision
<1>5. i \in DOMAIN revisions'[pid] /\ revisions'[pid][i].is_active
    BY <1>2, <1>3, <1>4 DEF Revision
<1> QED BY <1>5, InForce DEF SomeActive

-----------------------------------------------------------------------------
(***************************************************************************)
(* The manager                                                             *)
(***************************************************************************)

\* What a policy is once normalised (validation.py normalize_policy).
LEMMA Normalised ==
    ASSUME NEW pid \in PolicyIds, NEW v \in Versioned, NEW active \in BOOLEAN, NEW c \in Payloads
    PROVE  normalize_policy(Policy(pid, v, active, c)) =
              [policy_id |-> pid, version |-> Strip(v), is_active |-> active,
               limits |-> c.limits, lists |-> CleanLists(c.lists), actions |-> c.actions]
<1> DEFINE p == Policy(pid, v, active, c)
           q == [p EXCEPT !.version = Strip(p.version)]
<1>1. p = [policy_id |-> pid, version |-> v, is_active |-> active, limits |-> c.limits,
           lists |-> c.lists, actions |-> c.actions]
    BY DEF Policy
<1>2. p.version = v /\ p.lists = c.lists
    BY <1>1
<1>3. normalize_policy(p) = [q EXCEPT !.lists = CleanLists(c.lists)]
    BY <1>2 DEF normalize_policy, CleanLists
<1> HIDE DEF p
<1>4. q = [policy_id |-> pid, version |-> Strip(v), is_active |-> active, limits |-> c.limits,
           lists |-> c.lists, actions |-> c.actions]
    BY <1>1, <1>2
<1> HIDE DEF q
<1> QED BY <1>3, <1>4 DEF p

LEMMA ReleaseStem == Release.stem \in Seq(Words)
<1>1. ASSUME NEW one \in Words, NEW dot \in Words, NEW zero \in Words
      PROVE  <<one, dot, zero, dot>> \in Seq(Words)
    OBVIOUS
<1>2. "1" \in Words /\ "." \in Words /\ "0" \in Words
    BY DEF Words
<1>3. <<"1", ".", "0", ".">> \in Seq(Words)
    BY <1>1, <1>2
<1> QED BY <1>3 DEF Release, Version

\* A version without its blanks, and one bumped, are versions.
LEMMA VersionsAreVersions ==
    ASSUME NEW v \in Versioned
    PROVE  Strip(v) \in Versioned /\ _bump_version(v) \in Versioned
<1>1. v.stem \in Seq(Words) /\ v.number \in Nat \cup {-1} /\ v.padded \in BOOLEAN
    BY DEF Versioned, Unnumbered
<1>2. Strip(v) = [stem |-> v.stem, number |-> v.number, padded |-> FALSE]
  <2>1. v = [stem |-> v.stem, number |-> v.number, padded |-> v.padded]
      BY DEF Versioned
  <2> DEFINE a == v.stem
             b == v.number
             d == v.padded
  <2>2. v = [stem |-> a, number |-> b, padded |-> d]
      BY <2>1
  <2> HIDE DEF a, b, d
  <2>3. \A f : [v EXCEPT !.padded = f] = [stem |-> a, number |-> b, padded |-> f]
      BY <2>2
  <2> QED BY <2>3 DEF Strip, a, b, d
<1>3. v.number # -1 => v.number + 1 \in Nat
    BY <1>1
<1>4. Append(v.stem, ".") \in Seq(Words)
    BY <1>1 DEF Words
<1>5. _bump_version(v) \in Versioned
  <2>1. CASE v.number = Unnumbered
      BY <1>4, <2>1 DEF _bump_version, Version, Versioned
  <2>2. CASE v.number # Unnumbered
      BY <1>1, <1>3, <2>2 DEF _bump_version, Version, Versioned, Unnumbered
  <2> QED BY <2>1, <2>2
<1> QED BY <1>1, <1>2, <1>5 DEF Versioned, Unnumbered

LEMMA SubmittedIsVersioned == Submitted \subseteq Versioned
<1> SUFFICES ASSUME NEW v \in Submitted PROVE v \in Versioned
    OBVIOUS
<1>1. v.stem \in Seq(Words)
  <2>1. v.stem \in Seq(STRING)
      BY PolicyAssumption DEF IsVersion
  <2>2. STRING \subseteq Words
      BY DEF Words
  <2> DEFINE stem == v.stem
  <2>3. stem \in Seq(STRING)
      BY <2>1
  <2> HIDE DEF stem
  <2>4. stem \in [1..Len(stem) -> STRING] /\ Len(stem) \in Nat
      BY <2>3
  <2>5. stem \in [1..Len(stem) -> Words]
      BY <2>2, <2>4
  <2>6. stem \in Seq(Words)
      BY <2>4, <2>5, IsSequence
  <2> QED BY <2>6 DEF stem
<1> QED BY <1>1, PolicyAssumption DEF IsVersion, Versioned

\* A draft is a policy of a submitted version.
LEMMA DraftIsPolicy ==
    ASSUME NEW p \in Drafts
    PROVE  \E pid \in PolicyIds, v \in Versioned, active \in BOOLEAN, c \in Payloads :
              p = Policy(pid, v, active, c) /\ p.policy_id = pid
<1>1. PICK pid \in PolicyIds, v \in Submitted, active \in BOOLEAN, c \in Payloads :
          p = Policy(pid, v, active, c)
    BY DEF Drafts
<1>2. v \in Versioned
    BY SubmittedIsVersioned
<1> QED BY <1>1, <1>2 DEF Policy

\* What a creation or an update saves is a revision.
LEMMA SavedIsRevision ==
    ASSUME StoreInv, NEW p \in Drafts
    PROVE  /\ \A b \in BOOLEAN : [normalize_policy(p) EXCEPT !.is_active = @ \/ b] \in Revision
           /\ normalize_policy(Renumbered(p)) \in Revision
           /\ normalize_policy(Renumbered(p)).policy_id = p.policy_id
<1>1. PICK pid \in PolicyIds, v \in Versioned, active \in BOOLEAN, c \in Payloads :
          p = Policy(pid, v, active, c) /\ p.policy_id = pid
    BY DraftIsPolicy
<1>2. c \in Contents
    BY DEF Contents
<1>3. ASSUME NEW w \in Versioned, NEW a \in BOOLEAN
      PROVE  [policy_id |-> pid, version |-> Strip(w), is_active |-> a, limits |-> c.limits,
              lists |-> CleanLists(c.lists), actions |-> c.actions] \in Revision
    BY <1>2, VersionsAreVersions DEF Revision
<1>4. ASSUME NEW b \in BOOLEAN
      PROVE  [normalize_policy(p) EXCEPT !.is_active = @ \/ b] \in Revision
  <2>1. normalize_policy(p) =
           [policy_id |-> pid, version |-> Strip(v), is_active |-> active,
            limits |-> c.limits, lists |-> CleanLists(c.lists), actions |-> c.actions]
      BY <1>1, Normalised
  <2>2. [normalize_policy(p) EXCEPT !.is_active = @ \/ b] =
           [policy_id |-> pid, version |-> Strip(v), is_active |-> active \/ b,
            limits |-> c.limits, lists |-> CleanLists(c.lists), actions |-> c.actions]
      BY <2>1
  <2>3. (active \/ b) \in BOOLEAN
      OBVIOUS
  <2> QED BY <1>3, <2>2, <2>3
<1>5. PICK w \in Versioned : Renumbered(p) = Policy(pid, w, active, c)
  <2>1. CASE Renumbered(p) = p
      BY <1>1, <2>1
  <2>2. CASE Renumbered(p) # p
    <3>1. Renumbered(p) = [p EXCEPT !.version = _bump_version(latest[pid])]
        BY <1>1, <2>2 DEF Renumbered
    <3>2. latest[pid] \in Versioned
        BY DEF StoreInv, TypedStore
    <3>3. Renumbered(p) = Policy(pid, _bump_version(latest[pid]), active, c)
        BY <1>1, <3>1 DEF Policy
    <3> QED BY <3>2, <3>3, VersionsAreVersions
  <2> QED BY <2>1, <2>2
<1>6. /\ normalize_policy(Renumbered(p)) \in Revision
      /\ normalize_policy(Renumbered(p)).policy_id = p.policy_id
    BY <1>1, <1>3, <1>5, Normalised
<1> QED BY <1>4, <1>6

\* The seeded default policy is alone, active and keyed.
LEMMA Seeded == PolicyInit => StoreInv
<1> SUFFICES ASSUME PolicyInit PROVE StoreInv
    OBVIOUS
<1> DEFINE first(pid) == Policy(pid, Release, TRUE, Defaults)
<1>1. PICK pid \in PolicyIds :
          /\ revisions = [q \in PolicyIds |-> IF q = pid THEN <<first(pid)>> ELSE <<>>]
          /\ latest = [q \in PolicyIds |-> Release]
          /\ active_key = {<<pid, Release>>}
    BY DEF PolicyInit
<1>2. Release \in Versioned
  <2>1. Release.stem \in Seq(Words)
      BY ReleaseStem
  <2>2. 0 \in Nat \cup {Unnumbered}
      OBVIOUS
  <2>3. FALSE \in BOOLEAN
      OBVIOUS
  <2> QED BY <2>1, <2>2, <2>3 DEF Release, Version, Versioned
<1>3. /\ first(pid) \in Revision
      /\ first(pid).version = Release
    BY <1>2 DEF Policy, Revision, Contents
<1> HIDE DEF first
<1>4. ASSUME NEW q \in PolicyIds
      PROVE  /\ revisions[q] \in Seq(Revision)
             /\ q = pid => DOMAIN revisions[q] = {1} /\ revisions[q][1] = first(pid)
             /\ q # pid => DOMAIN revisions[q] = {}
             /\ Exists(q) => q = pid
  <2>1. CASE q = pid
      BY <2>1, <1>1, <1>3 DEF Exists
  <2>2. CASE q # pid
      BY <2>2, <1>1 DEF Exists
  <2> QED BY <2>1, <2>2
<1>5. TypedStore
    BY <1>1, <1>2, <1>4 DEF TypedStore, Histories
<1>6. OnePerVersion
    BY <1>1, <1>3, <1>4 DEF OnePerVersion, Versions, Revisions
<1>7. ActiveIsKeyed
    BY <1>1, <1>3, <1>4 DEF ActiveIsKeyed
<1> QED BY <1>5, <1>6, <1>7 DEF StoreInv

\* Every call keeps the invariant and the history.
LEMMA Steps ==
    ASSUME StoreInv, [PolicyNext]_policy_vars
    PROVE  StoreInv' /\ KeepsVersions /\ KeepsGoverning
<1>1. ASSUME NEW p \in Drafts, NEW activate \in BOOLEAN, create_policy(p, activate)
      PROVE  StoreInv' /\ KeepsVersions /\ KeepsGoverning
    BY <1>1, SavedIsRevision, Saves, SavesGovern DEF create_policy, KeepsGoverning
<1>2. ASSUME NEW p \in Drafts, update_policy(p)
      PROVE  StoreInv' /\ KeepsVersions /\ KeepsGoverning
    BY <1>2, SavedIsRevision, Saves, SavesGovern DEF update_policy, KeepsGoverning
<1>3. ASSUME NEW pid \in PolicyIds, activate_policy(pid)
      PROVE  StoreInv' /\ KeepsVersions /\ KeepsGoverning
  <2>1. PICK v \in Versions(pid) : set_active(pid, v)
      BY <1>3 DEF activate_policy, Activate, ActivateLatest, StoreInv, OnePerVersion
  <2> QED BY <2>1, Activates, ActivationGoverns DEF KeepsGoverning
<1>4. CASE UNCHANGED policy_vars
  <2>1. StoreInv'
      BY <1>4 DEF policy_vars, StoreInv, TypedStore, OnePerVersion, ActiveIsKeyed, Exists,
                  Versions, Revisions
  <2>2. KeepsVersions
      BY <1>4 DEF policy_vars, KeepsVersions
  <2>3. ActiveOnes' = ActiveOnes
      BY <1>4 DEF policy_vars, ActiveOnes, Revisions
  <2> QED BY <2>1, <2>2, <2>3 DEF KeepsGoverning
<1> QED BY <1>1, <1>2, <1>3, <1>4 DEF PolicyNext

\* The revision a version names is the one of its history, and there is one.
LEMMA Named ==
    ASSUME StoreInv, NEW pid \in PolicyIds, NEW v \in Versions(pid)
    PROVE  \E i \in DOMAIN revisions[pid] :
              get_revision(pid, v) = revisions[pid][i] /\ revisions[pid][i].version = v
<1>1. \E r \in Revisions(pid) : r.version = v
    BY DEF Versions
<1>2. get_revision(pid, v) \in Revisions(pid) /\ get_revision(pid, v).version = v
    BY <1>1 DEF get_revision
<1> QED BY <1>2 DEF Revisions

\* An active revision is the only one.
LEMMA OneActive == ASSUME StoreInv, ActiveOnes # {} PROVE Cardinality(ActiveOnes) = 1
<1>1. PICK q \in PolicyIds : \E i \in DOMAIN revisions[q] : revisions[q][i].is_active
    BY InForce
<1>2. PICK i \in DOMAIN revisions[q] : revisions[q][i].is_active
    BY <1>1
<1>3. active_key = {<<q, revisions[q][i].version>>}
    BY <1>2 DEF StoreInv, ActiveIsKeyed
<1>4. ActiveOnes = {<<q, revisions[q][i].version>>}
    BY <1>2, <1>3, InForce DEF StoreInv, ActiveIsKeyed
<1> QED BY <1>4, FS_Singleton

\* What is served follows from the invariant.
LEMMA Serves == ASSUME StoreInv PROVE ActiveIsServed
<1>1. \A x : x \in ActiveOnes <=>
         \E q \in PolicyIds : \E i \in DOMAIN revisions[q] :
            revisions[q][i].is_active /\ x = <<q, revisions[q][i].version>>
    BY InForce
<1>2. CASE ActiveOnes = {}
  <2>1. \A q \in PolicyIds : \A i \in DOMAIN revisions[q] : ~revisions[q][i].is_active
      BY <1>1, <1>2
  <2>2. ASSUME NEW k \in Keyed PROVE FALSE
    <3>1. k[1] \in PolicyIds /\ k[2] \in Versions(k[1]) /\ get_revision(k[1], k[2]).is_active
        BY DEF Keyed, StoreInv, TypedStore
    <3> QED BY <3>1, <2>1, Named
  <2>3. ASSUME NEW q \in PolicyIds, Exists(q), get_by_id(q).is_active PROVE FALSE
    <3>1. latest[q] \in Versions(q)
        BY <2>3 DEF StoreInv, OnePerVersion
    <3> QED BY <3>1, <2>3, <2>1, Named DEF get_by_id
  <2>4. Pointed = {}
      BY <2>3 DEF Pointed
  <2>5. get_active = ActiveOnes
      BY <1>2, <2>2, <2>4 DEF get_active
  <2>6. Cardinality(ActiveOnes) = 0
      BY <1>2, FS_EmptySet
  <2> QED BY <2>5, <2>6 DEF ActiveIsServed, StoreInv
<1>3. CASE ActiveOnes # {}
  <2>1. PICK q \in PolicyIds : \E i \in DOMAIN revisions[q] : revisions[q][i].is_active
      BY <1>1, <1>3
  <2>2. PICK i \in DOMAIN revisions[q] : revisions[q][i].is_active
      BY <2>1
  <2> DEFINE k == <<q, revisions[q][i].version>>
  <2>3. active_key = {k}
      BY <2>2 DEF StoreInv, ActiveIsKeyed
  <2>4. ActiveOnes = {k}
      BY <1>1, <2>2, <2>3 DEF StoreInv, ActiveIsKeyed
  <2>5. k[2] \in Versions(k[1])
      BY DEF Versions, Revisions
  <2>6. PICK j \in DOMAIN revisions[q] : /\ get_revision(k[1], k[2]) = revisions[q][j]
                                        /\ revisions[q][j].version = revisions[q][i].version
      BY <2>5, Named
  <2>7. j = i
      BY <2>6 DEF StoreInv, OnePerVersion
  <2>8. Keyed = {k}
      BY <2>2, <2>3, <2>5, <2>6, <2>7 DEF Keyed
  <2>9. get_active = ActiveOnes
      BY <2>4, <2>8 DEF get_active
  <2>10. Cardinality(ActiveOnes) = 1
      BY <2>4, FS_Singleton
  <2> QED BY <2>9, <2>10 DEF ActiveIsServed, StoreInv
<1> QED BY <1>2, <1>3

\* Whatever is created, updated and activated, in whatever order and from
\* whatever payloads: at most one revision of one policy is active, no
\* version is recorded twice, and get_active answers the active revision.
THEOREM OneGoverns == PolicySpec => []ActiveIsServed
<1>1. StoreInv /\ [PolicyNext]_policy_vars => StoreInv'
    BY Steps
<1> QED BY Seeded, <1>1, Serves, PTL DEF PolicySpec

\* No call removes a revision from a history or moves it, and the policy in
\* force gives way to nothing only to an inactive update in its own place.
THEOREM HistoryOnlyGrows == PolicySpec => HistoryGrows
<1>1. StoreInv /\ [PolicyNext]_policy_vars => StoreInv'
    BY Steps
<1>2. StoreInv /\ [PolicyNext]_policy_vars => [KeepsVersions /\ KeepsGoverning]_policy_vars
    BY Steps
<1> QED BY Seeded, <1>1, <1>2, PTL DEF PolicySpec, HistoryGrows

\* What revision i of q says is still said by an entry of its version.
StillSaid(q, i) ==
    \E j \in DOMAIN revisions'[q] :
        /\ revisions'[q][j].version = revisions[q][i].version
        /\ revisions'[q][j].limits = revisions[q][i].limits
        /\ revisions'[q][j].lists = revisions[q][i].lists
        /\ revisions'[q][j].actions = revisions[q][i].actions

\* What two entries say is the same, but for whether they are active.
SaysTheSame(s, r) ==
    s.version = r.version /\ s.limits = r.limits /\ s.lists = r.lists /\ s.actions = r.actions

LEMMA MarkedSaysTheSame ==
    ASSUME NEW revs \in Histories, NEW on, NEW new, new = Marked(revs, on)
    PROVE  \A q \in PolicyIds :
              /\ DOMAIN new[q] = DOMAIN revs[q]
              /\ \A i \in DOMAIN revs[q] : SaysTheSame(new[q][i], revs[q][i])
<1> SUFFICES ASSUME NEW q \in PolicyIds
             PROVE  /\ DOMAIN new[q] = DOMAIN revs[q]
                    /\ \A i \in DOMAIN revs[q] : SaysTheSame(new[q][i], revs[q][i])
    OBVIOUS
<1>1. new[q] = [i \in DOMAIN revs[q] |-> [revs[q][i] EXCEPT !.is_active = on[q][i]]]
    BY DEF Marked
<1>2. ASSUME NEW i \in DOMAIN revs[q] PROVE SaysTheSame(new[q][i], revs[q][i])
  <2>1. revs[q][i] \in Revision /\ new[q][i] = [revs[q][i] EXCEPT !.is_active = on[q][i]]
      BY <1>1, EntryIsRevision
  <2> QED BY <2>1 DEF Revision, SaysTheSame
<1> QED BY <1>1, <1>2

\* Neither of the two ways to deactivate revisions changes what they say.
LEMMA OnlySaysTheSame ==
    ASSUME NEW revs \in Histories, NEW pid, NEW v, NEW new, new = Only(revs, pid, v)
    PROVE  \A q \in PolicyIds :
              /\ DOMAIN new[q] = DOMAIN revs[q]
              /\ \A i \in DOMAIN revs[q] : SaysTheSame(new[q][i], revs[q][i])
<1> DEFINE On(q, i) == revs[q][i].is_active /\ q = pid /\ revs[q][i].version = v
           on == [q \in PolicyIds |-> [i \in DOMAIN revs[q] |-> On(q, i)]]
<1>1. \A q \in PolicyIds : \A i \in DOMAIN revs[q] : on[q][i] = On(q, i)
    OBVIOUS
<1>2. new = [q \in PolicyIds |-> [i \in DOMAIN revs[q] |->
                [revs[q][i] EXCEPT !.is_active = On(q, i)]]]
    BY DEF Only
<1>3. new = Marked(revs, on)
    BY <1>1, <1>2 DEF Marked
<1> HIDE DEF on
<1> QED BY <1>3, MarkedSaysTheSame

LEMMA ActivatedSaysTheSame ==
    ASSUME revisions \in Histories, NEW pid, NEW v, set_active(pid, v)
    PROVE  \A q \in PolicyIds :
              /\ DOMAIN revisions'[q] = DOMAIN revisions[q]
              /\ \A i \in DOMAIN revisions[q] : SaysTheSame(revisions'[q][i], revisions[q][i])
<1> DEFINE On(q, i) == q = pid /\ revisions[q][i].version = v
           on == [q \in PolicyIds |-> [i \in DOMAIN revisions[q] |-> On(q, i)]]
<1>1. \A q \in PolicyIds : \A i \in DOMAIN revisions[q] : on[q][i] = On(q, i)
    OBVIOUS
<1>2. revisions' = [q \in PolicyIds |-> [i \in DOMAIN revisions[q] |->
                       [revisions[q][i] EXCEPT !.is_active = On(q, i)]]]
    BY DEF set_active
<1>3. revisions' = Marked(revisions, on)
    BY <1>1, <1>2 DEF Marked
<1> HIDE DEF on
<1> QED BY <1>3, MarkedSaysTheSame

\* A revision saved under a version not recorded yet changes no other.
LEMMA FreshSaveKeeps ==
    ASSUME StoreInv, NEW p \in Revision, save(p), p.version \notin Versions(p.policy_id)
    PROVE  KeepsContents
<1> DEFINE mid == Stored(revisions, p)
<1>1. revisions \in Histories /\ OnePerVersion
    BY DEF StoreInv, TypedStore
<1>2. /\ mid \in Histories
      /\ \A q \in PolicyIds : \A i \in DOMAIN revisions[q] :
            i \in DOMAIN mid[q] /\ mid[q][i].version = revisions[q][i].version
      /\ \A q \in PolicyIds : \A i \in DOMAIN mid[q] :
            \/ q = p.policy_id /\ mid[q][i] = p
            \/ i \in DOMAIN revisions[q] /\ mid[q][i] = revisions[q][i]
    BY <1>1, Storing
<1>3. ASSUME NEW q \in PolicyIds, NEW i \in DOMAIN revisions[q]
      PROVE  i \in DOMAIN mid[q] /\ mid[q][i] = revisions[q][i]
  <2>1. ~(q = p.policy_id /\ mid[q][i] = p)
      BY <1>2 DEF Versions, Revisions
  <2> QED BY <1>2, <2>1
<1>4. ASSUME NEW q \in PolicyIds, NEW i \in DOMAIN revisions[q] PROVE StillSaid(q, i)
  <2>1. i \in DOMAIN mid[q] /\ mid[q][i] = revisions[q][i] /\ mid[q][i] \in Revision
      BY <1>2, <1>3, EntryIsRevision
  <2>2. CASE revisions' = mid
      BY <2>1, <2>2 DEF StillSaid
  <2>3. CASE revisions' = Only(mid, p.policy_id, p.version)
    <3> HIDE DEF mid
    <3>1. i \in DOMAIN revisions'[q] /\ SaysTheSame(revisions'[q][i], mid[q][i])
        BY <1>2, <2>1, <2>3, OnlySaysTheSame
    <3> QED BY <2>1, <3>1 DEF StillSaid, SaysTheSame
  <2> QED BY <2>2, <2>3 DEF save
<1> QED BY <1>4 DEF KeepsContents, StillSaid

\* An activation changes no revision but for what is active.
LEMMA ActivationKeeps ==
    ASSUME StoreInv, NEW pid, NEW v, set_active(pid, v)
    PROVE  KeepsContents
<1>1. ASSUME NEW q \in PolicyIds, NEW i \in DOMAIN revisions[q] PROVE StillSaid(q, i)
  <2>1. i \in DOMAIN revisions'[q] /\ SaysTheSame(revisions'[q][i], revisions[q][i])
      BY ActivatedSaysTheSame DEF StoreInv, TypedStore
  <2> QED BY <2>1 DEF StillSaid, SaysTheSame
<1> QED BY <1>1 DEF KeepsContents, StillSaid

\* A creation saves the first revision of its policy.
LEMMA CreationIsFirst ==
    ASSUME StoreInv, NEW p \in Drafts, NEW activate \in BOOLEAN, create_policy(p, activate)
    PROVE  \E r \in Revision : /\ save(r) /\ r.policy_id = p.policy_id
                               /\ r.version = Strip(p.version)
                               /\ Versions(r.policy_id) = {}
<1> DEFINE n == normalize_policy(p)
           r == [n EXCEPT !.is_active = @ \/ activate]
<1>1. r \in Revision /\ save(r)
    BY SavedIsRevision DEF create_policy
<1>2. PICK pid \in PolicyIds, v \in Versioned, active \in BOOLEAN, c \in Payloads :
          p = Policy(pid, v, active, c) /\ p.policy_id = pid
    BY DraftIsPolicy
<1>3. n = [policy_id |-> pid, version |-> Strip(v), is_active |-> active,
           limits |-> c.limits, lists |-> CleanLists(c.lists), actions |-> c.actions]
    BY <1>2, Normalised
<1> HIDE DEF n
<1>4. r.policy_id = pid /\ r.version = Strip(p.version)
    BY <1>2, <1>3 DEF Policy
<1>5. revisions[pid] = <<>>
    BY <1>2 DEF create_policy, Exists
<1>6. Versions(pid) = {}
    BY <1>5 DEF Versions, Revisions
<1> QED BY <1>1, <1>2, <1>4, <1>6

\* An update saves a revision under the number it was given, without blanks.
LEMMA UpdateIsNumbered ==
    ASSUME StoreInv, NEW p \in Drafts, update_policy(p)
    PROVE  \E r \in Revision : /\ save(r) /\ r.policy_id = p.policy_id
                               /\ p.policy_id \in PolicyIds /\ p.version \in Submitted
                               /\ r.version = Strip(Renumbered(p).version)
                               /\ Renumbered(p).version =
                                     IF p.version \in Versions(p.policy_id) \cup
                                                      {latest[p.policy_id], Release}
                                     THEN _bump_version(latest[p.policy_id]) ELSE p.version
                               /\ Exists(p.policy_id)
<1> DEFINE n == Renumbered(p)
           r == normalize_policy(n)
<1>1. r \in Revision /\ r.policy_id = p.policy_id /\ save(r) /\ Exists(p.policy_id)
    BY SavedIsRevision DEF update_policy
<1>2. PICK pid \in PolicyIds, v \in Submitted, active \in BOOLEAN, c \in Payloads :
          p = Policy(pid, v, active, c)
    BY DEF Drafts
<1>3. PICK w : /\ n = Policy(pid, w, active, c)
               /\ w = IF p.version \in Versions(p.policy_id) \cup {latest[p.policy_id], Release}
                      THEN _bump_version(latest[p.policy_id]) ELSE p.version
  <2>1. CASE p.version \in Versions(p.policy_id) \cup {latest[p.policy_id], Release}
      BY <1>2, <2>1 DEF Renumbered, Policy
  <2>2. CASE p.version \notin Versions(p.policy_id) \cup {latest[p.policy_id], Release}
      BY <1>2, <2>2 DEF Renumbered, Policy
  <2> QED BY <2>1, <2>2
<1>4. n.version = w /\ p.version = v /\ p.policy_id = pid
    BY <1>2, <1>3 DEF Policy
<1> HIDE DEF n
<1>5. r.version = Strip(n.version)
    BY <1>3 DEF normalize_policy, Policy
<1> QED BY <1>1, <1>2, <1>3, <1>4, <1>5 DEF n

\* A version without blanks is not changed by leaving them out.
LEMMA NothingToStrip ==
    ASSUME NEW v \in Versioned, ~v.padded
    PROVE  Strip(v) = v
BY DEF Strip, Versioned

\* What a recorded revision says stays, and a policy stays in force.
StaysKept == KeepsContents /\ (ActiveOnes # {} => ActiveOnes' # {})

LEMMA FreshSaveStays ==
    ASSUME StoreInv, NEW p \in Revision, save(p), p.version \notin Versions(p.policy_id)
    PROVE  StaysKept
<1>1. KeepsContents
    BY FreshSaveKeeps
<1>2. ASSUME ActiveOnes' = {}, NEW k \in ActiveOnes PROVE FALSE
    BY <1>2, SavesGovern
<1> QED BY <1>1, <1>2 DEF StaysKept

\* As long as no version is submitted with blanks, a call changes what a
\* recorded revision says, or leaves no policy in force, only if some policy
\* points below its newest number.
THEOREM SnapshotsKeptWhileFree == ASSUME Unpadded PROVE PolicySpec => KeptWhileFree
<1>1. ASSUME StoreInv, [PolicyNext]_policy_vars, NextIsFree PROVE StaysKept
  <2>1. ASSUME NEW p \in Drafts, NEW activate \in BOOLEAN, create_policy(p, activate)
        PROVE  StaysKept
      BY <1>1, <2>1, CreationIsFirst, FreshSaveStays
  <2>2. ASSUME NEW p \in Drafts, update_policy(p) PROVE StaysKept
    <3> DEFINE pid == p.policy_id
               w == Renumbered(p).version
    <3>1. PICK r \in Revision :
              /\ save(r) /\ r.policy_id = pid /\ pid \in PolicyIds /\ p.version \in Submitted
              /\ r.version = Strip(w) /\ Exists(pid)
              /\ w = IF p.version \in Versions(pid) \cup {latest[pid], Release}
                     THEN _bump_version(latest[pid]) ELSE p.version
        BY <1>1, <2>2, UpdateIsNumbered
    <3> HIDE DEF w
    <3>2. _bump_version(latest[pid]) \in Versioned /\ ~_bump_version(latest[pid]).padded
      <4>1. latest[pid] \in Versioned
          BY <1>1, <3>1 DEF StoreInv, TypedStore
      <4> QED BY <4>1, VersionsAreVersions DEF _bump_version, Version
    <3>3. p.version \in Versioned /\ ~p.version.padded
        BY <3>1, SubmittedIsVersioned, PolicyAssumption DEF Unpadded, IsVersion
    <3>4. w \in Versioned /\ ~w.padded /\ w \notin Versions(pid)
        BY <1>1, <3>1, <3>2, <3>3 DEF NextIsFree
    <3>5. r.version \notin Versions(r.policy_id)
        BY <3>1, <3>4, NothingToStrip
    <3> QED BY <1>1, <3>1, <3>5, FreshSaveStays
  <2>3. ASSUME NEW pid \in PolicyIds, activate_policy(pid) PROVE StaysKept
    <3>1. PICK v \in Versions(pid) : set_active(pid, v)
        BY <1>1, <2>3 DEF activate_policy, Activate, ActivateLatest, StoreInv, OnePerVersion
    <3> QED BY <1>1, <3>1, ActivationKeeps, ActivationGoverns DEF StaysKept
  <2>4. CASE UNCHANGED policy_vars
    <3>1. KeepsContents
        BY <2>4 DEF policy_vars, KeepsContents
    <3>2. ActiveOnes' = ActiveOnes
        BY <2>4 DEF policy_vars, ActiveOnes, Revisions
    <3> QED BY <3>1, <3>2 DEF StaysKept
  <2> QED BY <1>1, <2>1, <2>2, <2>3, <2>4 DEF PolicyNext
<1>2. StoreInv /\ [PolicyNext]_policy_vars => [NextIsFree => StaysKept]_policy_vars
    BY <1>1
<1>3. StoreInv /\ [PolicyNext]_policy_vars => StoreInv'
    BY Steps
<1> QED BY Seeded, <1>2, <1>3, PTL DEF PolicySpec, KeptWhileFree, StaysKept

\* The versions of a policy are numbered from 1.0.0 up to the one it points
\* at.
Numbered(v) == v.stem = Release.stem /\ v.number \in Nat /\ ~v.padded

Ascending ==
    \A q \in PolicyIds :
        /\ Numbered(latest[q])
        /\ \A i \in DOMAIN revisions[q] :
              /\ Numbered(revisions[q][i].version)
              /\ revisions[q][i].version.number <= latest[q].number

LEMMA ReleaseIsNumbered ==
    Release \in Versioned /\ Numbered(Release) /\ Release.number = 0
<1>1. Release.stem \in Seq(Words) /\ Release.number = 0 /\ ~Release.padded
    BY ReleaseStem DEF Release, Version
<1>2. 0 \in Nat \cup {Unnumbered} /\ FALSE \in BOOLEAN
    OBVIOUS
<1> QED BY <1>1, <1>2 DEF Release, Version, Versioned, Numbered

LEMMA SeedAscends == PolicyInit => Ascending
<1> SUFFICES ASSUME PolicyInit, NEW q \in PolicyIds, NEW i \in DOMAIN revisions[q]
             PROVE  Numbered(revisions[q][i].version)
                    /\ revisions[q][i].version.number <= latest[q].number
    BY ReleaseIsNumbered DEF PolicyInit, Ascending
<1>1. latest[q] = Release
    BY DEF PolicyInit
<1>2. PICK pid \in PolicyIds :
         revisions[q] = IF q = pid THEN <<Policy(pid, Release, TRUE, Defaults)>> ELSE <<>>
    BY DEF PolicyInit
<1>3. revisions[q][i].version = Release
  <2> DEFINE first == Policy(pid, Release, TRUE, Defaults)
  <2> HIDE DEF first
  <2>1. revisions[q] = IF q = pid THEN <<first>> ELSE <<>>
      BY <1>2 DEF first
  <2>2. revisions[q][i] = first
    <3>1. CASE q = pid
      <4>1. DOMAIN revisions[q] = {1} /\ revisions[q][1] = first
          BY <2>1, <3>1
      <4> QED BY <4>1
    <3>2. CASE q # pid
      <4>1. DOMAIN revisions[q] = {}
          BY <2>1, <3>2
      <4> QED BY <4>1
    <3> QED BY <3>1, <3>2
  <2> QED BY <2>2 DEF Policy, first
<1> QED BY <1>1, <1>3, ReleaseIsNumbered

\* A version bumped is numbered one higher, so it is not recorded.
LEMMA BumpIsHigher ==
    ASSUME NEW v, Numbered(v)
    PROVE  Numbered(_bump_version(v)) /\ _bump_version(v).number = v.number + 1
BY DEF Numbered, _bump_version, Version, Unnumbered

LEMMA AscendingIsFree == Ascending => NextIsFree
<1> SUFFICES ASSUME Ascending, NEW q \in PolicyIds, NEW i \in DOMAIN revisions[q],
                    revisions[q][i].version = _bump_version(latest[q])
             PROVE  FALSE
    BY DEF NextIsFree, Versions, Revisions
<1>1. /\ Numbered(latest[q]) /\ revisions[q][i].version.number <= latest[q].number
    BY DEF Ascending
<1>2. revisions[q][i].version.number = latest[q].number + 1
    BY <1>1, BumpIsHigher
<1> QED BY <1>1, <1>2 DEF Numbered

\* A save under a number no lower than the one pointed at keeps the order.
LEMMA SaveAscends ==
    ASSUME StoreInv, Ascending, NEW p \in Revision, save(p), Numbered(p.version),
           \A i \in DOMAIN revisions[p.policy_id] :
              latest[p.policy_id].number <= p.version.number
    PROVE  Ascending'
<1> DEFINE mid == Stored(revisions, p)
           pid == p.policy_id
<1>1. revisions \in Histories /\ OnePerVersion /\ latest \in [PolicyIds -> Versioned]
    BY DEF StoreInv, TypedStore
<1>2. /\ mid \in Histories
      /\ \A q \in PolicyIds : \A i \in DOMAIN mid[q] :
            \/ q = pid /\ mid[q][i] = p
            \/ i \in DOMAIN revisions[q] /\ mid[q][i] = revisions[q][i]
    BY <1>1, Storing
<1>3. \A q \in PolicyIds :
         /\ DOMAIN revisions'[q] = DOMAIN mid[q]
         /\ \A i \in DOMAIN mid[q] : revisions'[q][i].version = mid[q][i].version
  <2>1. CASE revisions' = mid
      BY <2>1
  <2>2. CASE revisions' = Only(mid, pid, p.version)
    <3> HIDE DEF mid
    <3> QED BY <1>2, <2>2, Deactivating
  <2> QED BY <2>1, <2>2 DEF save
<1>4. latest' = [latest EXCEPT ![pid] = p.version] /\ pid \in PolicyIds
    BY DEF save, Revision
<1> HIDE DEF mid
<1>5. ASSUME NEW q \in PolicyIds
      PROVE  /\ Numbered(latest'[q])
             /\ \A i \in DOMAIN revisions'[q] :
                   /\ Numbered(revisions'[q][i].version)
                   /\ revisions'[q][i].version.number <= latest'[q].number
  <2>1. CASE q # pid
      BY <1>1, <1>2, <1>3, <1>4, <2>1 DEF Ascending
  <2>2. CASE q = pid
    <3>1. latest'[q] = p.version
        BY <1>1, <1>4, <2>2
    <3>2. ASSUME NEW i \in DOMAIN revisions'[q]
          PROVE  /\ Numbered(revisions'[q][i].version)
                 /\ revisions'[q][i].version.number <= p.version.number
      <4>1. revisions'[q][i].version = mid[q][i].version /\ i \in DOMAIN mid[q]
          BY <1>3, <3>2
      <4>2. CASE mid[q][i] = p
          BY <4>1, <4>2 DEF Numbered
      <4>3. CASE i \in DOMAIN revisions[q] /\ mid[q][i] = revisions[q][i]
        <5>1. /\ Numbered(revisions[q][i].version) /\ Numbered(latest[q])
              /\ revisions[q][i].version.number <= latest[q].number
              /\ latest[q].number <= p.version.number
            BY <2>2, <4>3 DEF Ascending
        <5> QED BY <4>1, <4>3, <5>1 DEF Numbered
      <4> QED BY <1>2, <4>1, <4>2, <4>3
    <3> QED BY <3>1, <3>2
  <2> QED BY <2>1, <2>2
<1> QED BY <1>5 DEF Ascending

\* An activation of the revision pointed at moves nothing.
LEMMA ActivationAscends ==
    ASSUME StoreInv, Ascending, Forward, NEW pid \in PolicyIds, NEW v \in Versions(pid),
           set_active(pid, v)
    PROVE  Ascending'
<1>1. v = latest[pid]
    BY DEF Forward
<1>2. latest' = latest
    BY <1>1 DEF set_active, StoreInv, TypedStore
<1>3. ASSUME NEW q \in PolicyIds, NEW i \in DOMAIN revisions'[q]
      PROVE  i \in DOMAIN revisions[q] /\ revisions'[q][i].version = revisions[q][i].version
    BY <1>3, ActivatedSaysTheSame DEF StoreInv, TypedStore, SaysTheSame
<1> QED BY <1>2, <1>3 DEF Ascending

\* The versions handed out by the manager rise while callers submit the
\* default one and activate no older revision.
LEMMA ForwardAscends ==
    ASSUME Submitted = {Release}, StoreInv, Ascending, [PolicyNext]_policy_vars,
           [Forward]_policy_vars
    PROVE  Ascending'
<1>0. CASE UNCHANGED policy_vars
    BY <1>0 DEF policy_vars, Ascending, Numbered
<1>1. ASSUME NEW p \in Drafts, NEW activate \in BOOLEAN, create_policy(p, activate)
      PROVE  Ascending'
  <2>1. PICK r \in Revision : /\ save(r) /\ r.version = Strip(p.version)
                             /\ Versions(r.policy_id) = {}
      BY <1>1, CreationIsFirst
  <2>2. p.version = Release
      BY DEF Drafts, Policy
  <2>3. Strip(Release) = Release
      BY ReleaseIsNumbered, NothingToStrip DEF Numbered
  <2>4. ~\E i \in DOMAIN revisions[r.policy_id] : TRUE
      BY <2>1 DEF Versions, Revisions
  <2> QED BY <2>1, <2>2, <2>3, <2>4, ReleaseIsNumbered, SaveAscends
<1>2. ASSUME NEW p \in Drafts, update_policy(p) PROVE Ascending'
  <2> DEFINE pid == p.policy_id
             w == _bump_version(latest[pid])
  <2>1. PICK r \in Revision : /\ save(r) /\ r.policy_id = pid /\ pid \in PolicyIds
                             /\ p.version \in Submitted
                             /\ r.version = Strip(Renumbered(p).version)
                             /\ Renumbered(p).version =
                                   IF p.version \in Versions(pid) \cup {latest[pid], Release}
                                   THEN w ELSE p.version
      BY <1>2, UpdateIsNumbered
  <2>2. r.version = Strip(w)
      BY <2>1
  <2>3. Numbered(latest[pid]) /\ latest[pid] \in Versioned
      BY <2>1 DEF Ascending, StoreInv, TypedStore
  <2>4. Numbered(w) /\ w.number = latest[pid].number + 1 /\ w \in Versioned
      BY <2>3, BumpIsHigher, VersionsAreVersions
  <2> HIDE DEF w
  <2>5. r.version = w
      BY <2>2, <2>4, NothingToStrip DEF Numbered
  <2>6. latest[r.policy_id].number <= r.version.number
      BY <2>1, <2>3, <2>4, <2>5 DEF Numbered
  <2> QED BY <2>1, <2>4, <2>5, <2>6, SaveAscends
<1>3. ASSUME NEW pid \in PolicyIds, activate_policy(pid), ~UNCHANGED policy_vars
      PROVE  Ascending'
  <2>1. PICK v \in Versions(pid) : set_active(pid, v)
      BY <1>3 DEF activate_policy, Activate, ActivateLatest, StoreInv, OnePerVersion
  <2>2. Forward
      BY <1>3
  <2> QED BY <2>1, <2>2, ActivationAscends
<1> QED BY <1>0, <1>1, <1>2, <1>3 DEF PolicyNext

\* Whoever leaves the numbering to the manager, and activates no revision but
\* the one a policy points at, keeps every snapshot: the numbers only rise,
\* and no update meets one that is recorded.
THEOREM ForwardKeepsSnapshots ==
    ASSUME Submitted = {Release}
    PROVE  PolicySpec /\ [][Forward]_policy_vars => SnapshotsAreImmutable
<1>1. Unpadded
    BY DEF Unpadded, Release, Version
<1>2. StoreInv /\ Ascending /\ [PolicyNext]_policy_vars /\ [Forward]_policy_vars => Ascending'
    BY ForwardAscends
<1>3. StoreInv /\ [PolicyNext]_policy_vars => StoreInv'
    BY Steps
<1>4. PolicySpec => [][NextIsFree => StaysKept]_policy_vars
    BY <1>1, SnapshotsKeptWhileFree DEF KeptWhileFree, StaysKept
<1>5. NextIsFree /\ [NextIsFree => StaysKept]_policy_vars => [KeepsContents]_policy_vars
    BY DEF StaysKept
<1> QED BY Seeded, SeedAscends, AscendingIsFree, <1>2, <1>3, <1>4, <1>5, PTL
        DEF PolicySpec, SnapshotsAreImmutable

\* For the same callers what docs/architecture/policy_manager.md says of the
\* active policy holds: exactly one revision of one policy is active.
THEOREM ForwardKeepsOneActive ==
    ASSUME Submitted = {Release}
    PROVE  PolicySpec /\ [][Forward]_policy_vars => [](Cardinality(ActiveOnes) = 1)
<1>1. Unpadded
    BY DEF Unpadded, Release, Version
<1>2. StoreInv /\ Ascending /\ [PolicyNext]_policy_vars /\ [Forward]_policy_vars => Ascending'
    BY ForwardAscends
<1>3. StoreInv /\ [PolicyNext]_policy_vars => StoreInv'
    BY Steps
<1>4. PolicySpec => [][NextIsFree => StaysKept]_policy_vars
    BY <1>1, SnapshotsKeptWhileFree DEF KeptWhileFree, StaysKept
<1> DEFINE Some == ActiveOnes # {}
<1>5. NextIsFree /\ Some /\ [NextIsFree => StaysKept]_policy_vars => Some'
  <2>1. UNCHANGED policy_vars => ActiveOnes' = ActiveOnes
      BY DEF policy_vars, ActiveOnes, Revisions
  <2> QED BY <2>1 DEF StaysKept
<1>6. PolicyInit => Some
  <2> SUFFICES ASSUME PolicyInit PROVE ActiveOnes # {}
      OBVIOUS
  <2>1. PICK pid \in PolicyIds :
            revisions[pid] = <<Policy(pid, Release, TRUE, Defaults)>>
      BY DEF PolicyInit
  <2>2. 1 \in DOMAIN revisions[pid] /\ revisions[pid][1].is_active
      BY <2>1 DEF Policy
  <2> QED BY <2>2, InForce
<1>7. StoreInv /\ Some => Cardinality(ActiveOnes) = 1
    BY OneActive
<1> HIDE DEF Some
<1> QED BY Seeded, SeedAscends, AscendingIsFree, <1>2, <1>3, <1>4, <1>5, <1>6, <1>7, PTL
        DEF PolicySpec

-----------------------------------------------------------------------------
(***************************************************************************)
(* The server and its callers.                                             *)
(***************************************************************************)
Writes == {"execute", "ingest_event", "update_policy"}

\* The requests an execution is made of, and what the repositories can hold.
AskedRequests == {Only1(c.request) : c \in {d \in Asked : d.op = "execute" /\ d.body = "ok"}}
KnownContexts == UNION {create_execution_context(r, x, {}) : r \in AskedRequests, x \in Nat}
KnownResults == {Seed} \cup {Result(x, r) : x \in Nat, r \in AskedRequests}
KnownEvents == {SeedEvent} \cup {<<Only1(c.id), Only1(c.event)[2]>> : c \in Asked}

\* A call was executed as the result i says.
ExecutedAs(n, i) ==
    LET request == Only1(call[n].request)
    IN /\ {results[i]} = reply[n].executions
       /\ results[i].request_id = request.request_id
       /\ request.preferred_providers # <<>> =>
             results[i].provider \notin ToSet(request.excluded_providers)

ExecutedCalls == {n \in Calls : applied[n] /\ call[n].op = "execute"}

\* The execution with context i has result i + 1: the first one is the seed.
RecordsInv ==
    /\ contexts \in Seq(KnownContexts) /\ results \in Seq(KnownResults)
    /\ events \in Seq(KnownEvents)
    /\ Len(results) = Len(contexts) + 1 /\ results[1] = Seed
    /\ \A i \in DOMAIN contexts :
          /\ contexts[i].execution_id = i /\ results[i + 1].execution_id = i
          /\ contexts[i].request_id = trim(results[i + 1].request_id)
    /\ Len(contexts) = Cardinality(ExecutedCalls)
    /\ \A n \in ExecutedCalls : \E i \in DOMAIN results : ExecutedAs(n, i)
    /\ \A i \in DOMAIN events : Ingestible(events[i][1])

\* What a caller was told was done is still there.
Done(n) ==
    /\ reply[n].executions \subseteq ToSet(results)
    /\ \A e \in reply[n].event_ids : \E i \in DOMAIN events : events[i] = <<Only1(call[n].id), e>>
    /\ \A p \in reply[n].policies : p[1] \in PolicyIds /\ p[2] \in Versions(p[1])

AsOffered(c) ==
    /\ c \in Asked
    /\ c.front # "http" =>
          c.run \in Runs[c.front] /\ c.step \in DOMAIN c.run /\ c.op = Sends[c.run[c.step]]

Refusals == {"ValidationError", "NotFoundError", "AuthenticationError", "ConflictError",
             "ValueError"}
Tellings == Refusals \cup {"none", "ok", "UNSUPPORTED", "TransportError", "TimeoutError",
                           "ServerError"}

\* An answer of the server says whether what was asked was done.
Fair(n, answer, done) ==
    /\ answer.status \in {200, 201, 400, 404, 422}
    /\ answer.status < 400 /\ call[n].op \in Writes => done
    /\ answer.status >= 400 => ~done

CallInv(n) ==
    /\ wire[n] \in {"none", "request", "reply", "closed"} /\ applied[n] \in BOOLEAN
    /\ told[n] \in Tellings
    /\ wire[n] # "none" => AsOffered(call[n])
    /\ wire[n] \in {"none", "request"} => ~applied[n]
    /\ wire[n] = "none" => told[n] = "none"
    /\ wire[n] \in {"request", "reply"} => told[n] \in {"none", "TransportError"}
    /\ wire[n] = "reply" => Fair(n, reply[n], applied[n])
    /\ applied[n] => call[n].op \in Writes /\ Done(n)
    /\ told[n] = "ok" /\ call[n].op \in Writes => applied[n]
    /\ told[n] \in Refusals => ~applied[n]
    /\ told[n] = "UNSUPPORTED" => call[n].op = "control"

CallsInv ==
    /\ call = [n \in Calls |-> call[n]] /\ wire = [n \in Calls |-> wire[n]]
    /\ reply = [n \in Calls |-> reply[n]] /\ applied = [n \in Calls |-> applied[n]]
    /\ told = [n \in Calls |-> told[n]]
    /\ \A n \in Calls : CallInv(n)

FrontInv == StoreInv /\ RecordsInv /\ CallsInv

-----------------------------------------------------------------------------
\* What is built of a request (context/service.py, context/normalization.py).
LEMMA BuiltIs ==
    ASSUME NEW r, NEW x, NEW ctx \in create_execution_context(r, x, {})
    PROVE  /\ ctx.execution_id = x /\ ctx.request_id = trim(r.request_id)
           /\ ToSet(r.preferred_providers) \cap ToSet(r.excluded_providers) = {}
<1> DEFINE raw == from_execution_request(r, x, {})
<1>1. validate_execution_context(raw) /\ ctx = normalize_execution_context(raw)
    BY DEF create_execution_context, build
<1>2. /\ raw.execution_id = x /\ raw.request_id = r.request_id
      /\ raw.preferred_providers = r.preferred_providers
      /\ raw.excluded_providers = r.excluded_providers
      /\ {"execution_id", "request_id"} \subseteq DOMAIN raw
    BY DEF from_execution_request
<1> HIDE DEF raw
<1>3. ctx.execution_id = raw.execution_id /\ ctx.request_id = trim(raw.request_id)
    BY <1>1, <1>2 DEF normalize_execution_context
<1> QED
    BY <1>1, <1>2, <1>3 DEF validate_execution_context

\* A request that was asked has the shape its schema asks for.
LEMMA AskedIsRequest ==
    ASSUME NEW c \in Asked, c.op = "execute", c.body = "ok"
    PROVE  Only1(c.request) \in AskedRequests /\ IsRequest(Only1(c.request))
<1>1. PICK r \in c.request : c.request = {r} /\ IsRequest(r)
    BY AskedAssumption
<1>2. Only1(c.request) = r
    BY <1>1 DEF Only1
<1> QED
    BY <1>1, <1>2 DEF AskedRequests

LEMMA AskedIsDraft ==
    ASSUME NEW c \in Asked, c.op = "update_policy", c.body = "ok"
    PROVE  Only1(c.policy) \in Drafts
<1>1. PICK p \in c.policy : c.policy = {p} /\ p \in Drafts
    BY AskedAssumption
<1> QED
    BY <1>1 DEF Only1

\* The result of a request that passed validation has no excluded provider.
LEMMA ResultIs ==
    ASSUME NEW r, IsRequest(r), NEW x
    PROVE  /\ Result(x, r).execution_id = x /\ Result(x, r).request_id = r.request_id
           /\ r.preferred_providers # <<>> =>
                 Result(x, r).provider \in ToSet(r.preferred_providers)
<1>1. r.preferred_providers \in Seq(AnyName)
    BY DEF IsRequest
<1>2. ASSUME r.preferred_providers # <<>>
      PROVE  r.preferred_providers[1] \in ToSet(r.preferred_providers)
  <2>1. 1 \in DOMAIN r.preferred_providers
      BY <1>1, <1>2
  <2> QED
      BY <2>1 DEF ToSet
<1>3. r.preferred_providers # <<>> => Result(x, r).provider = r.preferred_providers[1]
    BY DEF Result, First
<1> QED
    BY <1>2, <1>3 DEF Result

-----------------------------------------------------------------------------
(***************************************************************************)
(* What a step of the server keeps.                                        *)
(***************************************************************************)
\* Nothing leaves the repositories.
StoresGrow ==
    /\ ToSet(results) \subseteq ToSet(results')
    /\ \A i \in DOMAIN events : i \in DOMAIN events' /\ events'[i] = events[i]
    /\ \A pid \in PolicyIds : Versions(pid) \subseteq Versions(pid)'

LEMMA DoneStays ==
    ASSUME StoresGrow, NEW n \in Calls, Done(n), call'[n] = call[n], reply'[n] = reply[n]
    PROVE  Done(n)'
BY DEF Done, StoresGrow

LEMMA HistoriesGrow ==
    ASSUME KeepsVersions, NEW pid \in PolicyIds
    PROVE  Versions(pid) \subseteq Versions(pid)'
BY DEF KeepsVersions, Versions, Revisions

\* An answer to one caller changes nothing of what the others were told.
LEMMA Answered ==
    ASSUME CallsInv, NEW n \in Calls, wire[n] = "request", NEW answer, NEW done \in BOOLEAN,
           Respond(n, answer, done), told' = told, Fair(n, answer, done), StoresGrow,
           done => call[n].op \in Writes /\ Done(n)'
    PROVE  /\ CallsInv'
           /\ reply'[n] = answer /\ applied'[n] = done /\ call' = call
           /\ deployment' = deployment /\ ~applied[n]
           /\ \A m \in Calls : m # n => reply'[m] = reply[m] /\ applied'[m] = applied[m]
<1>1. /\ reply' = [m \in Calls |-> IF m = n THEN answer ELSE reply[m]]
      /\ wire' = [m \in Calls |-> IF m = n THEN "reply" ELSE wire[m]]
      /\ applied' = [m \in Calls |-> IF m = n THEN done ELSE applied[m]]
      /\ call' = call /\ deployment' = deployment
    BY DEF Respond, CallsInv
<1>2. /\ reply'[n] = answer /\ applied'[n] = done /\ wire'[n] = "reply"
      /\ \A m \in Calls : m # n => /\ reply'[m] = reply[m] /\ applied'[m] = applied[m]
                                   /\ wire'[m] = wire[m]
    BY <1>1
<1>3. ASSUME NEW m \in Calls, m # n
      PROVE  CallInv(m)'
  <2>1. CallInv(m) /\ (Done(m) => Done(m)')
      BY <1>1, <1>2, <1>3, DoneStays DEF CallsInv
  <2>2. Fair(m, reply[m], applied[m]) => Fair(m, reply[m], applied[m])'
      BY <1>1, <1>2, <1>3 DEF Fair
  <2> QED
      BY <1>1, <1>2, <1>3, <2>1, <2>2 DEF CallInv
<1>4. CallInv(n)'
  <2>1. CallInv(n)
      BY DEF CallsInv
  <2>2. Fair(n, reply[n], applied[n])'
      BY <1>1, <1>2 DEF Fair
  <2>3. told[n] \in {"none", "TransportError"}
      BY <2>1 DEF CallInv
  <2> QED
      BY <1>1, <1>2, <2>1, <2>2, <2>3 DEF CallInv, Refusals
<1>5. CallsInv'
  <2>1. \A m \in Calls : CallInv(m)'
      BY <1>3, <1>4
  <2>2. /\ call' = [m \in Calls |-> call'[m]] /\ wire' = [m \in Calls |-> wire'[m]]
        /\ reply' = [m \in Calls |-> reply'[m]] /\ applied' = [m \in Calls |-> applied'[m]]
        /\ told' = [m \in Calls |-> told'[m]]
      BY <1>1 DEF CallsInv
  <2> QED
      BY <2>1, <2>2 DEF CallsInv
<1>6. ~applied[n]
    BY DEF CallsInv, CallInv
<1> QED
    BY <1>1, <1>2, <1>5, <1>6

\* The records agree after a step that executes nothing.
LEMMA RecordsStay ==
    ASSUME RecordsInv, UNCHANGED <<contexts, results, deployment>>,
           \A n \in Calls : (applied'[n] /\ call'[n].op = "execute")
                              <=> (applied[n] /\ call[n].op = "execute"),
           \A n \in ExecutedCalls : call'[n] = call[n] /\ reply'[n] = reply[n],
           events' \in Seq(KnownEvents), \A i \in DOMAIN events' : Ingestible(events'[i][1])
    PROVE  RecordsInv'
<1>1. ExecutedCalls' = ExecutedCalls
    BY DEF ExecutedCalls
<1>2. \A x : Ingestible(x)' <=> Ingestible(x)
    BY DEF Ingestible, Known
<1>3. ASSUME NEW n \in ExecutedCalls
      PROVE  (\E i \in DOMAIN results : ExecutedAs(n, i))'
  <2>1. PICK i \in DOMAIN results : ExecutedAs(n, i)
      BY DEF RecordsInv
  <2>2. ExecutedAs(n, i)'
      BY <2>1 DEF ExecutedAs
  <2> QED
      BY <2>2
<1>4. \A n \in ExecutedCalls' : (\E i \in DOMAIN results : ExecutedAs(n, i))'
    BY <1>1, <1>3
<1>5. Cardinality(ExecutedCalls') = Cardinality(ExecutedCalls)
    BY <1>1
<1>6. \A i \in DOMAIN events' : Ingestible(events[i][1])'
  <2>1. ASSUME NEW i \in DOMAIN events'
        PROVE  Ingestible(events[i][1])'
    <3> DEFINE y == events'[i][1]
    <3>1. Ingestible(y)
        OBVIOUS
    <3> QED
        BY <3>1 DEF Ingestible, Known
  <2> QED
      BY <2>1
<1> QED
    BY <1>4, <1>5, <1>6 DEF RecordsInv

LEMMA NothingLost ==
    ASSUME UNCHANGED <<policy_vars, results, events>>
    PROVE  StoresGrow
BY DEF StoresGrow, policy_vars, Versions, Revisions

LEMMA StoreStays ==
    ASSUME StoreInv, UNCHANGED policy_vars
    PROVE  StoreInv'
BY Steps

-----------------------------------------------------------------------------
(***************************************************************************)
(* The routes that change nothing, and the two that add an execution or an *)
(* event.                                                                  *)
(***************************************************************************)
\* A reply to a call that is not to execute, with the execution records as they were.
LEMMA AnsweredOnly ==
    ASSUME FrontInv, StoreInv', NEW n \in Calls, wire[n] = "request", NEW answer,
           NEW done \in BOOLEAN, Respond(n, answer, done), told' = told,
           Fair(n, answer, done), StoresGrow,
           done => call[n].op \in Writes \ {"execute"} /\ Done(n)',
           UNCHANGED <<contexts, results>>,
           events' \in Seq(KnownEvents), \A i \in DOMAIN events' : Ingestible(events'[i][1])
    PROVE  FrontInv'
<1>1. /\ CallsInv'
      /\ reply'[n] = answer /\ applied'[n] = done /\ call' = call
      /\ deployment' = deployment /\ ~applied[n]
      /\ \A m \in Calls : m # n => reply'[m] = reply[m] /\ applied'[m] = applied[m]
    BY Answered DEF FrontInv
<1>2. \A m \in Calls : (applied'[m] /\ call'[m].op = "execute")
                         <=> (applied[m] /\ call[m].op = "execute")
    BY <1>1
<1>3. \A m \in ExecutedCalls : call'[m] = call[m] /\ reply'[m] = reply[m]
    BY <1>1 DEF ExecutedCalls
<1>4. RecordsInv'
    BY <1>1, <1>2, <1>3, RecordsStay DEF FrontInv
<1> QED
    BY <1>1, <1>4 DEF FrontInv

LEMMA Refused ==
    ASSUME FrontInv, NEW n \in Calls, wire[n] = "request",
           NEW code \in {"BAD_REQUEST", "MALFORMED_JSON", "VALIDATION_ERROR", "NOT_FOUND"},
           Refuse(n, code), told' = told
    PROVE  FrontInv'
<1> DEFINE answer == Reply(Statuses[code], code, {}, {}, {})
<1>1. /\ Respond(n, answer, FALSE)
      /\ UNCHANGED <<policy_vars, contexts, results, events>>
    BY DEF Refuse
<1>2. answer.status \in {400, 404, 422}
    BY DEF Reply, Statuses
<1> HIDE DEF answer
<1>3. Fair(n, answer, FALSE)
    BY <1>2 DEF Fair
<1>4. StoreInv'
    BY <1>1, StoreStays DEF FrontInv
<1>5. StoresGrow
    BY <1>1, NothingLost
<1>6. events' \in Seq(KnownEvents) /\ \A i \in DOMAIN events' : Ingestible(events'[i][1])
    BY <1>1 DEF FrontInv, RecordsInv
<1> QED
    BY <1>1, <1>3, <1>4, <1>5, <1>6, AnsweredOnly

\* An answer that shows what is there.
LEMMA Shown ==
    ASSUME FrontInv, NEW n \in Calls, wire[n] = "request", call[n].op \notin Writes, NEW answer,
           answer.status = 200, Respond(n, answer, FALSE), told' = told,
           UNCHANGED <<policy_vars, contexts, results, events>>
    PROVE  FrontInv'
<1>1. Fair(n, answer, FALSE)
    BY DEF Fair
<1>2. StoreInv'
    BY StoreStays DEF FrontInv
<1>3. StoresGrow
    BY NothingLost
<1>4. events' \in Seq(KnownEvents) /\ \A i \in DOMAIN events' : Ingestible(events'[i][1])
    BY DEF FrontInv, RecordsInv
<1> QED
    BY <1>1, <1>2, <1>3, <1>4, AnsweredOnly

\* The event is filed under an execution the event service knows.
LEMMA Ingested ==
    ASSUME FrontInv, NEW n \in Calls, ingest_event(n), told' = told
    PROVE  FrontInv'
<1>1. wire[n] = "request" /\ call[n].op = "ingest_event"
    BY DEF ingest_event, Serving
<1> DEFINE x == Only1(call[n].id)
           event_id == Only1(call[n].event)[2]
           event == <<x, event_id>>
           answer == Reply(201, "INGESTED", {}, {event_id}, {})
<1>2. CASE ~Ingestible(x)
  <2>1. Refuse(n, "NOT_FOUND")
      BY <1>2 DEF ingest_event
  <2> QED
      BY <1>1, <2>1, Refused
<1>3. CASE Ingestible(x)
  <2>1. /\ events' = Append(events, event) /\ Respond(n, answer, TRUE)
        /\ UNCHANGED <<policy_vars, contexts, results>>
      BY <1>3 DEF ingest_event
  <2>2. call[n] \in Asked
      BY <1>1 DEF FrontInv, CallsInv, CallInv, AsOffered
  <2>3. event \in KnownEvents /\ event[1] = x
      BY <2>2 DEF KnownEvents
  <2>4. /\ answer.status = 201 /\ answer.executions = {} /\ answer.policies = {}
        /\ answer.event_ids = {event_id}
      BY DEF Reply
  <2> HIDE DEF answer, event
  <2>5. events \in Seq(KnownEvents) /\ \A i \in DOMAIN events : Ingestible(events[i][1])
      BY DEF FrontInv, RecordsInv
  <2>6. Len(events) \in Nat /\ DOMAIN events = 1 .. Len(events)
      BY <2>5
  <2>7. /\ events' \in Seq(KnownEvents) /\ DOMAIN events' = 1 .. Len(events) + 1
        /\ \A i \in DOMAIN events : i \in DOMAIN events' /\ events'[i] = events[i]
        /\ events'[Len(events) + 1] = event
      BY <2>1, <2>3, <2>5, <2>6
  <2>8. \A i \in DOMAIN events' : Ingestible(events'[i][1])
    <3>1. ASSUME NEW i \in DOMAIN events'
          PROVE  Ingestible(events'[i][1])
      <4>1. CASE i \in DOMAIN events
          BY <2>5, <2>7, <4>1
      <4>2. CASE i = Len(events) + 1
          BY <1>3, <2>3, <2>7, <4>2
      <4> QED
          BY <2>6, <2>7, <4>1, <4>2
    <3> QED
        BY <3>1
  <2>9. StoresGrow
      BY <2>1, <2>7 DEF StoresGrow, policy_vars, Versions, Revisions
  <2>10. reply'[n] = answer /\ call' = call
      BY <2>1 DEF Respond, FrontInv, CallsInv
  <2>11. Done(n)'
    <3>1. Len(events) + 1 \in DOMAIN events' /\ events'[Len(events) + 1] = <<x, event_id>>
        BY <2>6, <2>7 DEF event
    <3> QED
        BY <2>4, <2>10, <3>1 DEF Done
  <2>12. Fair(n, answer, TRUE)
      BY <2>4 DEF Fair
  <2>13. StoreInv'
      BY <2>1, StoreStays DEF FrontInv
  <2> QED
      BY <1>1, <2>1, <2>7, <2>8, <2>9, <2>11, <2>12, <2>13, AnsweredOnly DEF Writes
<1> QED
    BY <1>2, <1>3

\* The execution, its context and its answer are made in one step.
LEMMA Executed ==
    ASSUME FrontInv, NEW n \in Calls, execute_operation(n), told' = told
    PROVE  FrontInv'
<1>1. wire[n] = "request" /\ call[n].op = "execute" /\ call[n].body = "ok"
    BY DEF execute_operation, Serving
<1> DEFINE request == Only1(call[n].request)
           x == Len(results)
           result == Result(x, request)
           answer == Reply(200, "OK", {result}, {}, {})
<1>2. CASE Refuse(n, "VALIDATION_ERROR")
    BY <1>1, <1>2, Refused
<1>3. CASE /\ create_context(request, x, {})
           /\ results' = Append(results, result) /\ Respond(n, answer, TRUE)
           /\ UNCHANGED <<policy_vars, events>>
  <2>1. request \in AskedRequests /\ IsRequest(request)
      BY <1>1, AskedIsRequest DEF FrontInv, CallsInv, CallInv, AsOffered
  <2>2. PICK ctx \in create_execution_context(request, x, {}) : save_context(ctx)
      BY <1>3 DEF create_context
  <2>3. /\ ctx.execution_id = x /\ ctx.request_id = trim(request.request_id)
        /\ ToSet(request.preferred_providers) \cap ToSet(request.excluded_providers) = {}
      BY <2>2, BuiltIs
  <2>4. /\ result.execution_id = x /\ result.request_id = request.request_id
        /\ request.preferred_providers # <<>> =>
              result.provider \in ToSet(request.preferred_providers)
      BY <2>1, ResultIs
  <2>5. /\ contexts \in Seq(KnownContexts) /\ results \in Seq(KnownResults)
        /\ Len(results) = Len(contexts) + 1 /\ results[1] = Seed
        /\ \A i \in DOMAIN contexts :
              /\ contexts[i].execution_id = i /\ results[i + 1].execution_id = i
              /\ contexts[i].request_id = trim(results[i + 1].request_id)
      BY DEF FrontInv, RecordsInv
  <2>6. /\ Len(contexts) \in Nat /\ DOMAIN contexts = 1 .. Len(contexts)
        /\ x \in Nat /\ x = Len(contexts) + 1 /\ DOMAIN results = 1 .. x
      BY <2>5
  <2>7. ctx \in KnownContexts /\ result \in KnownResults
      BY <2>1, <2>2, <2>6 DEF KnownContexts, KnownResults
  <2>8. /\ answer.status = 200 /\ answer.executions = {result} /\ answer.policies = {}
        /\ answer.event_ids = {}
      BY DEF Reply
  <2> HIDE DEF answer, result, request, x
  <2>9. x \notin ContextIds
    <3>1. ASSUME NEW i \in DOMAIN contexts
          PROVE  contexts[i].execution_id # x
        BY <2>5, <2>6
    <3> QED
        BY <3>1 DEF ContextIds, ToSet
  <2>10. contexts' = Append(contexts, ctx)
      BY <2>2, <2>3, <2>9 DEF save_context
  <2>11. /\ contexts' \in Seq(KnownContexts) /\ Len(contexts') = x
         /\ DOMAIN contexts' = 1 .. x
         /\ \A i \in DOMAIN contexts : contexts'[i] = contexts[i]
         /\ contexts'[x] = ctx
      BY <2>5, <2>6, <2>7, <2>10
  <2>12. /\ results' \in Seq(KnownResults) /\ Len(results') = x + 1
         /\ DOMAIN results' = 1 .. x + 1
         /\ \A i \in DOMAIN results : i \in DOMAIN results' /\ results'[i] = results[i]
         /\ results'[x + 1] = result
      BY <1>3, <2>5, <2>6, <2>7 DEF x
  <2>13. /\ x + 1 \in DOMAIN results' /\ result \in ToSet(results')
      BY <2>6, <2>12 DEF ToSet
  <2>14. StoresGrow
      BY <1>3, <2>12 DEF StoresGrow, ToSet, policy_vars, Versions, Revisions
  <2>15. reply'[n] = answer /\ call' = call
      BY <1>3 DEF Respond, FrontInv, CallsInv
  <2>16. Done(n)'
      BY <2>8, <2>13, <2>15 DEF Done
  <2>17. Fair(n, answer, TRUE)
      BY <2>8 DEF Fair
  <2>18. /\ CallsInv'
         /\ reply'[n] = answer /\ applied'[n] = TRUE /\ call' = call
         /\ deployment' = deployment /\ ~applied[n]
         /\ \A m \in Calls : m # n => reply'[m] = reply[m] /\ applied'[m] = applied[m]
      BY <1>1, <1>3, <2>14, <2>16, <2>17, Answered DEF FrontInv, Writes
  <2>19. ExecutedCalls' = ExecutedCalls \cup {n} /\ n \notin ExecutedCalls
      BY <1>1, <2>18 DEF ExecutedCalls
  <2>20. Cardinality(ExecutedCalls') = Cardinality(ExecutedCalls) + 1
    <3>1. IsFiniteSet(Calls)
        BY CallsAssumption, FS_Interval DEF Calls
    <3>2. IsFiniteSet(ExecutedCalls)
      <4>1. ExecutedCalls \in SUBSET Calls
          BY DEF ExecutedCalls
      <4> QED
          BY <3>1, <4>1, FS_Subset
    <3>3. Cardinality(ExecutedCalls \cup {n}) = Cardinality(ExecutedCalls) + 1
        BY <2>19, <3>2, FS_AddElement
    <3> QED
        BY <2>19, <3>3
  <2>21. Len(contexts) = Cardinality(ExecutedCalls)
      BY DEF FrontInv, RecordsInv
  <2>22. ASSUME NEW m \in ExecutedCalls'
         PROVE  (\E i \in DOMAIN results : ExecutedAs(m, i))'
    <3>1. CASE m = n
      <4>1. PICK k \in Nat : k = x + 1
          BY <2>6
      <4>2. Only1(call'[n].request) = request
          BY <2>15 DEF request
      <4>3. /\ results'[k] = result /\ reply'[n].executions = {result} /\ k \in DOMAIN results'
            /\ request.preferred_providers # <<>> =>
                  result.provider \notin ToSet(request.excluded_providers)
          BY <2>3, <2>4, <2>8, <2>12, <2>13, <2>15, <4>1
      <4>4. ExecutedAs(n, k)'
          BY <2>4, <4>2, <4>3 DEF ExecutedAs
      <4> QED
          BY <3>1, <4>3, <4>4
    <3>2. CASE m # n
      <4>1. m \in ExecutedCalls /\ m \in Calls
          BY <2>19, <3>2 DEF ExecutedCalls
      <4>2. PICK i \in DOMAIN results : ExecutedAs(m, i)
          BY <4>1 DEF FrontInv, RecordsInv
      <4>3. ExecutedAs(m, i)'
          BY <2>12, <2>18, <3>2, <4>1, <4>2 DEF ExecutedAs
      <4> QED
          BY <2>12, <4>3
    <3> QED
        BY <3>1, <3>2
  <2>23. ASSUME NEW i \in DOMAIN events'
         PROVE  Ingestible(events[i][1])'
    <3>1. PICK y : y = events[i][1] /\ events' = events /\ Ingestible(y)
        BY <1>3 DEF FrontInv, RecordsInv
    <3>2. Known(y) \subseteq Known(y)'
        BY <2>14 DEF Known, StoresGrow
    <3> QED
        BY <2>18, <3>1, <3>2 DEF Ingestible
  <2>24. ASSUME NEW i \in DOMAIN contexts'
         PROVE  /\ contexts'[i].execution_id = i /\ results'[i + 1].execution_id = i
                /\ contexts'[i].request_id = trim(results'[i + 1].request_id)
    <3>1. CASE i = x
        BY <2>3, <2>4, <2>11, <2>12, <3>1
    <3>2. CASE i # x
      <4>1. i \in DOMAIN contexts /\ i + 1 \in DOMAIN results
          BY <2>6, <2>11, <3>2
      <4> QED
          BY <2>5, <2>11, <2>12, <4>1
    <3> QED
        BY <3>1, <3>2
  <2>25. results'[1] = Seed /\ events' \in Seq(KnownEvents)
    <3>1. 1 \in DOMAIN results
        BY <2>6
    <3> QED
        BY <1>3, <2>5, <2>12, <3>1 DEF FrontInv, RecordsInv
  <2>26. Len(contexts') = Cardinality(ExecutedCalls')
      BY <2>6, <2>11, <2>20, <2>21
  <2>27. RecordsInv'
      BY <2>11, <2>12, <2>22, <2>23, <2>24, <2>25, <2>26 DEF RecordsInv
  <2>28. StoreInv'
      BY <1>3, StoreStays DEF FrontInv
  <2> QED
      BY <2>18, <2>27, <2>28 DEF FrontInv
<1> QED
    BY <1>2, <1>3 DEF execute_operation

\* A policy that exists is updated with the policy sent.
LEMMA Updated ==
    ASSUME FrontInv, NEW n \in Calls, put_policy(n), told' = told
    PROVE  FrontInv'
<1>1. wire[n] = "request" /\ call[n].op = "update_policy" /\ call[n].body = "ok"
    BY DEF put_policy, Serving
<1>2. CASE Refuse(n, "NOT_FOUND") \/ Refuse(n, "VALIDATION_ERROR")
    BY <1>1, <1>2, Refused
<1>3. PICK p : p = Only1(call[n].policy) /\ p \in Drafts
    BY <1>1, AskedIsDraft DEF FrontInv, CallsInv, CallInv, AsOffered
<1>4. PICK s : s = normalize_policy(Renumbered(p))
    OBVIOUS
<1> DEFINE answer == Reply(200, "OK", {}, {}, {<<p.policy_id, s.version>>})
<1>5. CASE /\ update_policy(p) /\ Respond(n, answer, TRUE)
           /\ UNCHANGED <<contexts, results, events>>
  <2>1. s \in Revision /\ s.policy_id = p.policy_id /\ save(s)
      BY <1>3, <1>4, <1>5, SavedIsRevision DEF update_policy, FrontInv
  <2>2. StoreInv' /\ KeepsVersions /\ s.version \in Versions(p.policy_id)'
      BY <2>1, Saves DEF FrontInv
  <2>3. p.policy_id \in PolicyIds
      BY <2>1 DEF Revision
  <2>4. /\ answer.status = 200 /\ answer.executions = {} /\ answer.event_ids = {}
        /\ answer.policies = {<<p.policy_id, s.version>>}
      BY DEF Reply
  <2> HIDE DEF answer
  <2>5. StoresGrow
      BY <1>5, <2>2, HistoriesGrow DEF StoresGrow
  <2>6. reply'[n] = answer
      BY <1>5 DEF Respond, FrontInv, CallsInv
  <2>7. Done(n)'
      BY <2>2, <2>3, <2>4, <2>6 DEF Done
  <2>8. Fair(n, answer, TRUE)
      BY <2>4 DEF Fair
  <2>9. events' \in Seq(KnownEvents) /\ \A i \in DOMAIN events' : Ingestible(events'[i][1])
      BY <1>5 DEF FrontInv, RecordsInv
  <2> QED
      BY <1>1, <1>5, <2>2, <2>5, <2>7, <2>8, <2>9, AnsweredOnly DEF Writes
<1> QED
    BY <1>2, <1>3, <1>4, <1>5 DEF put_policy

\* Serving any request keeps the invariant.
LEMMA Served ==
    ASSUME FrontInv, NEW n \in Calls, Serve(n), told' = told
    PROVE  FrontInv'
<1>1. CASE RefusePath(n)
    BY <1>1, Refused DEF RefusePath, BlankPath
<1>2. CASE MalformedBody(n)
    BY <1>2, Refused DEF MalformedBody
<1>3. CASE list_executions(n)
  <2>1. wire[n] = "request" /\ call[n].op \notin Writes
      BY <1>3 DEF list_executions, Serving, Writes
  <2>2. CASE Refuse(n, "BAD_REQUEST")
      BY <2>1, <2>2, Refused
  <2>3. ASSUME NEW found, Show(n, found)
        PROVE  FrontInv'
      BY <2>1, <2>3, Shown DEF Show, Reply
  <2> QED
      BY <1>3, <2>2, <2>3 DEF list_executions
<1>4. CASE get_execution(n)
  <2>1. wire[n] = "request" /\ call[n].op \notin Writes
      BY <1>4 DEF get_execution, Serving, Writes
  <2>2. CASE Refuse(n, "NOT_FOUND")
      BY <2>1, <2>2, Refused
  <2>3. ASSUME NEW found, Show(n, found)
        PROVE  FrontInv'
      BY <2>1, <2>3, Shown DEF Show, Reply
  <2> QED
      BY <1>4, <2>2, <2>3 DEF get_execution
<1>5. CASE list_policies(n)
  <2>1. wire[n] = "request" /\ call[n].op \notin Writes
      BY <1>5 DEF list_policies, Serving, Writes
  <2>2. PICK answer : /\ answer.status = 200 /\ Respond(n, answer, FALSE)
                      /\ UNCHANGED <<policy_vars, contexts, results, events>>
      BY <1>5 DEF list_policies, Reply
  <2> QED
      BY <2>1, <2>2, Shown
<1> QED
    BY <1>1, <1>2, <1>3, <1>4, <1>5, Executed, Ingested, Updated DEF Serve

-----------------------------------------------------------------------------
(***************************************************************************)
(* The callers.                                                            *)
(***************************************************************************)
\* The server and the calls that were made are as they were.
LEMMA ServerStays ==
    ASSUME FrontInv, UNCHANGED <<policy_vars, server_vars, reply, applied>>,
           \A n \in Calls : applied[n] => call'[n] = call[n]
    PROVE  /\ StoreInv' /\ RecordsInv'
           /\ \A n \in Calls : Done(n) /\ call'[n] = call[n] => Done(n)'
<1>1. StoreInv'
    BY StoreStays DEF FrontInv
<1>2. UNCHANGED <<contexts, results, events, deployment>>
    BY DEF server_vars
<1>3. events' \in Seq(KnownEvents) /\ \A i \in DOMAIN events' : Ingestible(events'[i][1])
    BY <1>2 DEF FrontInv, RecordsInv
<1>4. \A n \in Calls : (applied'[n] /\ call'[n].op = "execute")
                         <=> (applied[n] /\ call[n].op = "execute")
    OBVIOUS
<1>5. \A n \in ExecutedCalls : call'[n] = call[n] /\ reply'[n] = reply[n]
    BY DEF ExecutedCalls
<1>6. RecordsInv'
    BY <1>2, <1>3, <1>4, <1>5, RecordsStay DEF FrontInv
<1>7. StoresGrow
    BY <1>2, NothingLost
<1>8. \A n \in Calls : Done(n) /\ call'[n] = call[n] => Done(n)'
    BY <1>7, DoneStays
<1> QED
    BY <1>1, <1>6, <1>8

\* A call is made: it is refused at once, or on its way.
LEMMA Asks ==
    ASSUME FrontInv, NEW n \in Calls, Next1(n), NEW c \in Asked, Ask(n, c)
    PROVE  FrontInv'
<1>1. /\ wire[n] = "none" /\ CallInv(n) /\ ~applied[n] /\ told[n] = "none"
    BY DEF Next1, FrontInv, CallsInv, CallInv
<1>2. /\ call' = [m \in Calls |-> IF m = n THEN c ELSE call[m]]
      /\ UNCHANGED <<policy_vars, server_vars, reply, applied>>
    BY DEF Ask, FrontInv, CallsInv
<1>3. AsOffered(c)
    BY DEF Ask, Offered, AsOffered
<1>4. PICK outcome, place :
          /\ wire' = [m \in Calls |-> IF m = n THEN place ELSE wire[m]]
          /\ told' = [m \in Calls |-> IF m = n THEN outcome ELSE told[m]]
          /\ \/ place = "request" /\ outcome = "none"
             \/ /\ place = "closed" /\ outcome \in {"ValueError", "UNSUPPORTED", "ValidationError"}
                /\ outcome = "UNSUPPORTED" => c.op = "control"
  <2>1. CASE c.front # "http" /\ (Unsendable(c) \/ c.body = "bad_schema" \/ c.op = "control")
    <3> DEFINE outcome == IF Unsendable(c) THEN "ValueError"
                          ELSE IF c.op = "control" THEN "UNSUPPORTED" ELSE "ValidationError"
    <3>1. /\ wire' = [wire EXCEPT ![n] = "closed"] /\ told' = [told EXCEPT ![n] = outcome]
        BY <2>1 DEF Ask
    <3>2. /\ outcome \in {"ValueError", "UNSUPPORTED", "ValidationError"}
          /\ outcome = "UNSUPPORTED" => c.op = "control"
        OBVIOUS
    <3> HIDE DEF outcome
    <3>3. /\ wire' = [m \in Calls |-> IF m = n THEN "closed" ELSE wire[m]]
          /\ told' = [m \in Calls |-> IF m = n THEN outcome ELSE told[m]]
        BY <3>1 DEF FrontInv, CallsInv
    <3> QED
        BY <3>2, <3>3
  <2>2. CASE ~(c.front # "http" /\ (Unsendable(c) \/ c.body = "bad_schema" \/ c.op = "control"))
    <3>1. wire' = [m \in Calls |-> IF m = n THEN "request" ELSE wire[m]] /\ told' = told
        BY <2>2 DEF Ask, FrontInv, CallsInv
    <3>2. told' = [m \in Calls |-> IF m = n THEN "none" ELSE told[m]]
        BY <1>1, <3>1 DEF FrontInv, CallsInv
    <3> QED
        BY <3>1, <3>2
  <2> QED
      BY <2>1, <2>2
<1>5. \A m \in Calls : applied[m] => call'[m] = call[m]
    BY <1>1, <1>2
<1>6. /\ StoreInv' /\ RecordsInv'
      /\ \A m \in Calls : Done(m) /\ call'[m] = call[m] => Done(m)'
    BY <1>2, <1>5, ServerStays
<1>7. ASSUME NEW m \in Calls, m # n
      PROVE  CallInv(m)'
  <2>1. CallInv(m)
      BY DEF FrontInv, CallsInv
  <2>2. /\ call'[m] = call[m] /\ wire'[m] = wire[m] /\ told'[m] = told[m]
        /\ reply'[m] = reply[m] /\ applied'[m] = applied[m]
      BY <1>2, <1>4, <1>7
  <2>3. Fair(m, reply[m], applied[m]) => Fair(m, reply[m], applied[m])'
      BY <2>2 DEF Fair
  <2> QED
      BY <1>6, <2>1, <2>2, <2>3 DEF CallInv
<1>8. CallInv(n)'
  <2>1. /\ call'[n] = c /\ wire'[n] \in {"request", "closed"} /\ applied'[n] = applied[n]
        /\ wire'[n] = "request" => told'[n] = "none"
        /\ wire'[n] = "closed" => told'[n] \in {"ValueError", "UNSUPPORTED", "ValidationError"}
        /\ told'[n] = "UNSUPPORTED" => c.op = "control"
      BY <1>2, <1>4
  <2> QED
      BY <1>1, <1>3, <2>1 DEF CallInv, Tellings, Refusals
<1>9. CallsInv'
  <2>1. \A m \in Calls : CallInv(m)'
      BY <1>7, <1>8
  <2>2. /\ call' = [m \in Calls |-> call'[m]] /\ wire' = [m \in Calls |-> wire'[m]]
        /\ reply' = [m \in Calls |-> reply'[m]] /\ applied' = [m \in Calls |-> applied'[m]]
        /\ told' = [m \in Calls |-> told'[m]]
      BY <1>2, <1>4 DEF FrontInv, CallsInv
  <2> QED
      BY <2>1, <2>2 DEF CallsInv
<1> QED
    BY <1>6, <1>9 DEF FrontInv

\* ChatGPT's actions write nothing but executions.
LEMMA ChatGptWrites ==
    ASSUME NEW c, AsOffered(c), c.front = "chatgpt", c.op \in Writes
    PROVE  c.run[c.step] = "execute"
<1> DEFINE plain == {"get_active", "list", "get_state", "get", "get_decision", "list_policies",
                     "the_policy", "the_active", "dispatch"}
<1>1. c.run \in RunsOf(ChatGptReads) \cup RunsOf(ChatGptRest)
    BY DEF AsOffered, Runs
<1>2. ASSUME c.run \in RunsOf(ChatGptReads)
      PROVE  \A k \in DOMAIN c.run : c.run[k] \in plain
    BY <1>2 DEF RunsOf, ChatGptReads
<1>3. ASSUME c.run \in RunsOf(ChatGptRest)
      PROVE  \A k \in DOMAIN c.run : c.run[k] \in plain \cup {"execute"}
    BY <1>3 DEF RunsOf, ChatGptRest
<1>4. c.step \in DOMAIN c.run /\ c.op = Sends[c.run[c.step]]
    BY DEF AsOffered
<1>5. c.run[c.step] \in plain \cup {"execute"}
    BY <1>1, <1>2, <1>3, <1>4
<1>6. \A operation \in plain : Sends[operation] \notin Writes
    BY DEF Sends, Writes
<1> QED
    BY <1>4, <1>5, <1>6

\* What an SDK call ends with says whether the server did what it was asked.
LEMMA HeardIs ==
    ASSUME NEW c, AsOffered(c), NEW answer, answer.status \in {200, 201, 400, 404, 422},
           NEW heard, heard = Heard(c, answer)
    PROVE  /\ heard \in {"ok", "ValidationError", "NotFoundError"}
           /\ heard = "ok" /\ c.op \in Writes => answer.status < 400
           /\ heard # "ok" => answer.status >= 400 \/ c.op \notin Writes
<1>1. CASE answer.status < 400
  <2>1. heard = IF c.front # "http" /\ Absent(c, answer) THEN "NotFoundError" ELSE "ok"
      BY <1>1 DEF Heard
  <2>2. c.front # "http" /\ Absent(c, answer) => c.op = "list_policies"
      BY DEF Absent, AsOffered, Sends
  <2>3. "list_policies" \notin Writes
      BY DEF Writes
  <2> QED
      BY <1>1, <2>1, <2>2, <2>3
<1>2. CASE answer.status >= 400 /\ c.front # "chatgpt"
  <2>1. heard = raised(answer.status)
      BY <1>2 DEF Heard
  <2>2. /\ answer.status \in {400, 422} => raised(answer.status) = "ValidationError"
        /\ answer.status = 404 => raised(answer.status) = "NotFoundError"
      BY DEF raised
  <2> QED
      BY <1>2, <2>1, <2>2
<1>3. CASE answer.status >= 400 /\ c.front = "chatgpt"
  <2>1. heard = IF Misread(c.run[c.step]) THEN "ValidationError" ELSE "ok"
      BY <1>3 DEF Heard
  <2>2. c.op \in Writes => Misread(c.run[c.step])
      BY <1>3, ChatGptWrites DEF Misread
  <2> QED
      BY <1>3, <2>1, <2>2
<1> QED
    BY <1>1, <1>2, <1>3

\* A caller is told, or told nothing more.
LEMMA Tells ==
    ASSUME FrontInv, NEW n \in Calls, wire[n] \in {"request", "reply"},
           UNCHANGED <<policy_vars, server_vars, call, reply, applied>>,
           NEW place \in {"request", "closed"}, NEW outcome \in Tellings,
           wire' = [wire EXCEPT ![n] = place], told' = [told EXCEPT ![n] = outcome],
           place = "request" => wire[n] = "request" /\ outcome = "TransportError",
           outcome = "ok" /\ call[n].op \in Writes => applied[n],
           outcome \in Refusals => ~applied[n],
           outcome # "UNSUPPORTED"
    PROVE  FrontInv'
<1>1. /\ call' = call /\ reply' = reply /\ applied' = applied
      /\ wire' = [m \in Calls |-> IF m = n THEN place ELSE wire[m]]
      /\ told' = [m \in Calls |-> IF m = n THEN outcome ELSE told[m]]
    BY DEF FrontInv, CallsInv
<1>2. /\ StoreInv' /\ RecordsInv' /\ \A m \in Calls : Done(m) => Done(m)'
    BY <1>1, ServerStays
<1>3. ASSUME NEW m \in Calls, m # n
      PROVE  CallInv(m)'
  <2>1. CallInv(m)
      BY DEF FrontInv, CallsInv
  <2>2. wire'[m] = wire[m] /\ told'[m] = told[m]
      BY <1>1, <1>3
  <2>3. Fair(m, reply[m], applied[m]) => Fair(m, reply[m], applied[m])'
      BY <1>1 DEF Fair
  <2> QED
      BY <1>1, <1>2, <2>1, <2>2, <2>3 DEF CallInv
<1>4. CallInv(n)'
  <2>1. CallInv(n)
      BY DEF FrontInv, CallsInv
  <2>2. wire'[n] = place /\ told'[n] = outcome
      BY <1>1
  <2> QED
      BY <1>1, <1>2, <2>1, <2>2 DEF CallInv, Refusals
<1>5. CallsInv'
  <2>1. \A m \in Calls : CallInv(m)'
      BY <1>3, <1>4
  <2>2. /\ call' = [m \in Calls |-> call'[m]] /\ wire' = [m \in Calls |-> wire'[m]]
        /\ reply' = [m \in Calls |-> reply'[m]] /\ applied' = [m \in Calls |-> applied'[m]]
        /\ told' = [m \in Calls |-> told'[m]]
      BY <1>1 DEF FrontInv, CallsInv
  <2> QED
      BY <2>1, <2>2 DEF CallsInv
<1> QED
    BY <1>2, <1>5 DEF FrontInv

LEMMA Hears ==
    ASSUME FrontInv, NEW n \in Calls, Hear(n)
    PROVE  FrontInv'
<1>1. PICK outcome : outcome = Heard(call[n], reply[n])
    OBVIOUS
<1>2. /\ wire[n] = "reply" /\ wire' = [wire EXCEPT ![n] = "closed"]
      /\ told' = [told EXCEPT ![n] = outcome]
      /\ UNCHANGED <<policy_vars, server_vars, call, reply, applied>>
    BY <1>1 DEF Hear
<1>3. AsOffered(call[n]) /\ Fair(n, reply[n], applied[n]) /\ applied[n] \in BOOLEAN
      /\ (applied[n] => call[n].op \in Writes)
    BY <1>2 DEF FrontInv, CallsInv, CallInv
<1>4. reply[n].status \in {200, 201, 400, 404, 422}
    BY <1>3 DEF Fair
<1>5. /\ outcome \in {"ok", "ValidationError", "NotFoundError"}
      /\ outcome = "ok" /\ call[n].op \in Writes => reply[n].status < 400
      /\ outcome # "ok" => reply[n].status >= 400 \/ call[n].op \notin Writes
    BY <1>1, <1>3, <1>4, HeardIs
<1>6. /\ outcome = "ok" /\ call[n].op \in Writes => applied[n]
      /\ outcome \in Refusals => ~applied[n]
    BY <1>3, <1>5 DEF Fair, Refusals
<1>7. outcome \in Tellings /\ outcome # "UNSUPPORTED"
    BY <1>5 DEF Tellings, Refusals
<1> QED
    BY <1>2, <1>6, <1>7, Tells

LEMMA Fails ==
    ASSUME FrontInv, NEW n \in Calls, Unreached(n) \/ Broken(n) \/ Drop(n)
    PROVE  FrontInv'
<1>1. CASE Unreached(n)
  <2>1. PICK failure \in {"TransportError", "TimeoutError"} : told' = [told EXCEPT ![n] = failure]
      BY <1>1 DEF Unreached
  <2>2. /\ wire[n] = "request" /\ wire' = [wire EXCEPT ![n] = "closed"]
        /\ UNCHANGED <<policy_vars, server_vars, call, reply, applied>>
      BY <1>1 DEF Unreached
  <2>3. failure \in Tellings \ (Refusals \cup {"ok", "UNSUPPORTED"})
      BY DEF Tellings, Refusals
  <2> QED
      BY <2>1, <2>2, <2>3, Tells
<1>2. CASE Broken(n)
  <2>1. /\ wire[n] \in {"request", "reply"} /\ told' = [told EXCEPT ![n] = "TransportError"]
        /\ UNCHANGED <<policy_vars, server_vars, call, reply, applied>>
      BY <1>2 DEF Broken
  <2>2. PICK outcome \in {"TransportError"} : told' = [told EXCEPT ![n] = outcome]
      BY <2>1
  <2>3. /\ outcome = "TransportError" /\ outcome \in Tellings /\ outcome \notin Refusals
        /\ outcome # "ok" /\ outcome # "UNSUPPORTED"
      BY <2>2 DEF Tellings, Refusals
  <2>4. PICK place \in {"request", "closed"} :
           /\ wire' = [wire EXCEPT ![n] = place]
           /\ place = "request" => wire[n] = "request" /\ outcome = "TransportError"
      BY <1>2, <2>3 DEF Broken
  <2>5. /\ outcome = "ok" /\ call[n].op \in Writes => applied[n]
        /\ outcome \in Refusals => ~applied[n]
      BY <2>3
  <2> QED
      BY <2>1, <2>2, <2>3, <2>4, <2>5, Tells
<1>3. CASE Drop(n)
  <2>1. /\ wire[n] = "reply" /\ wire' = [wire EXCEPT ![n] = "closed"] /\ told' = told
        /\ told[n] # "none"
        /\ UNCHANGED <<policy_vars, server_vars, call, reply, applied>>
      BY <1>3 DEF Drop
  <2>2. told[n] = "TransportError"
      BY <2>1 DEF FrontInv, CallsInv, CallInv
  <2>3. told' = [told EXCEPT ![n] = "TransportError"]
      BY <2>1, <2>2 DEF FrontInv, CallsInv
  <2>4. "TransportError" \in Tellings \ (Refusals \cup {"ok", "UNSUPPORTED"})
      BY DEF Tellings, Refusals
  <2> QED
      BY <2>1, <2>3, <2>4, Tells
<1> QED
    BY <1>1, <1>2, <1>3

-----------------------------------------------------------------------------
LEMMA FrontStarts == FrontInit => FrontInv
<1> SUFFICES ASSUME FrontInit PROVE FrontInv
    OBVIOUS
<1>1. StoreInv
    BY Seeded DEF FrontInit
<1>2. /\ contexts = <<>> /\ results = <<Seed>> /\ events = <<SeedEvent>>
      /\ call = [n \in Calls |-> NoCall] /\ wire = [n \in Calls |-> "none"]
      /\ reply = [n \in Calls |-> NoReply] /\ applied = [n \in Calls |-> FALSE]
      /\ told = [n \in Calls |-> "none"]
    BY DEF FrontInit, ApiInit
<1>3. CallsInv
  <2>1. "none" \in Tellings /\ "none" \notin Refusals
      BY DEF Tellings, Refusals
  <2>2. \A n \in Calls : CallInv(n)
      BY <1>2, <2>1 DEF CallInv
  <2> QED
      BY <1>2, <2>2 DEF CallsInv
<1>4. RecordsInv
  <2>1. Seed \in KnownResults /\ SeedEvent \in KnownEvents
      BY DEF KnownResults, KnownEvents
  <2>2. Ingestible(0)
    <3>1. Seed \in ToSet(results)
      <4>1. DOMAIN results = {1} /\ results[1] = Seed
          BY <1>2
      <4> QED
          BY <4>1 DEF ToSet
    <3>2. Seed.execution_id = 0
        BY DEF Seed
    <3> QED
        BY <3>1, <3>2 DEF Ingestible, Known
  <2>3. SeedEvent[1] = 0
      BY DEF SeedEvent
  <2>4. ExecutedCalls = {}
      BY <1>2 DEF ExecutedCalls
  <2>5. Cardinality(ExecutedCalls) = 0
      BY <2>4, FS_EmptySet
  <2> HIDE DEF Seed, SeedEvent
  <2>6. /\ contexts \in Seq(KnownContexts) /\ results \in Seq(KnownResults)
        /\ events \in Seq(KnownEvents) /\ Len(contexts) = 0 /\ Len(results) = 1
        /\ results[1] = Seed /\ DOMAIN contexts = {} /\ DOMAIN events = {1}
        /\ events[1] = SeedEvent
      BY <1>2, <2>1
  <2> QED
      BY <2>2, <2>3, <2>4, <2>5, <2>6 DEF RecordsInv
<1> QED
    BY <1>1, <1>3, <1>4 DEF FrontInv

LEMMA FrontSteps == FrontInv /\ [FrontNext]_front_vars => FrontInv'
<1> SUFFICES ASSUME FrontInv, [FrontNext]_front_vars
             PROVE  FrontInv'
    OBVIOUS
<1>1. CASE UNCHANGED front_vars
  <2>1. /\ UNCHANGED <<policy_vars, server_vars, reply, applied>>
        /\ call' = call /\ wire' = wire /\ told' = told
      BY <1>1 DEF front_vars, api_vars
  <2>2. /\ StoreInv' /\ RecordsInv' /\ \A n \in Calls : Done(n) => Done(n)'
      BY <2>1, ServerStays
  <2>3. ASSUME NEW n \in Calls
        PROVE  CallInv(n)'
    <3>1. CallInv(n)
        BY DEF FrontInv, CallsInv
    <3>2. Fair(n, reply[n], applied[n]) => Fair(n, reply[n], applied[n])'
        BY <2>1 DEF Fair
    <3> QED
        BY <2>1, <2>2, <3>1, <3>2 DEF CallInv
  <2>4. CallsInv'
      BY <2>1, <2>3 DEF FrontInv, CallsInv
  <2> QED
      BY <2>2, <2>4 DEF FrontInv
<1>2. ASSUME NEW n \in {m \in Calls : Next1(m)}, NEW c \in Asked, Ask(n, c)
      PROVE  FrontInv'
    BY <1>2, Asks
<1>3. ASSUME NEW n \in Calls, Serve(n) /\ UNCHANGED told
      PROVE  FrontInv'
    BY <1>3, Served
<1>4. ASSUME NEW n \in Calls, Hear(n) \/ Unreached(n) \/ Broken(n) \/ Drop(n)
      PROVE  FrontInv'
    BY <1>4, Hears, Fails
<1> QED
    BY <1>1, <1>2, <1>3, <1>4 DEF FrontNext

\* Whatever clients ask, in whatever order requests are served and wherever
\* connections break: each execution served has one result and one context of
\* its own, with the request's ids and no provider it excludes where it
\* prefers any, and every event belongs to an execution that is known.
THEOREM RecordsStayTrue == FrontSpec => []RecordsAgree
<1>1. FrontInv => RecordsAgree
  <2> SUFFICES ASSUME FrontInv PROVE RecordsAgree
      OBVIOUS
  <2>1. RecordsInv
      BY DEF FrontInv
  <2>2. Len(contexts) \in Nat /\ Len(results) = Len(contexts) + 1
      BY <2>1 DEF RecordsInv
  <2>3. \A n \in ExecutedCalls : \E i \in DOMAIN results :
           LET request == Only1(call[n].request)
           IN /\ {results[i]} = reply[n].executions
              /\ results[i].request_id = request.request_id
              /\ request.preferred_providers # <<>> =>
                    results[i].provider \notin ToSet(request.excluded_providers)
      BY <2>1 DEF RecordsInv, ExecutedAs
  <2>4. Len(contexts) = Cardinality(ExecutedCalls)
      BY <2>1 DEF RecordsInv
  <2>5. ExecutedCalls = {n \in Calls : applied[n] /\ call[n].op = "execute"}
      BY DEF ExecutedCalls
  <2> QED
      BY <2>1, <2>2, <2>3, <2>4, <2>5 DEF RecordsAgree, RecordsInv
<1> QED
    BY <1>1, FrontStarts, FrontSteps, PTL DEF FrontSpec

\* Whatever a connection does: what a caller was told was done is in the
\* repositories, and what it was told was refused was not done and will not be.
THEOREM CallersAreToldTheTruth == FrontSpec => []AnswersAreTrue
<1>1. FrontInv => AnswersAreTrue
  <2> SUFFICES ASSUME FrontInv, NEW n \in Calls, told[n] # "none"
               PROVE  /\ (Succeeds(n) /\ call[n].op \in Writes) =>
                            /\ applied[n]
                            /\ reply[n].executions \subseteq ToSet(results)
                            /\ \A e \in reply[n].event_ids : \E i \in DOMAIN events :
                                  events[i] = <<Only1(call[n].id), e>>
                            /\ \A p \in reply[n].policies : p[2] \in Versions(p[1])
                      /\ Refuses(n) => ~applied[n] /\ wire[n] # "request"
      BY DEF AnswersAreTrue, Writes
  <2>1. CallInv(n)
      BY DEF FrontInv, CallsInv
  <2>2. told[n] \in Tellings \ {"none"}
      BY <2>1 DEF CallInv
  <2>3. told[n] \in {"ok", "AuthenticationError", "ValidationError", "NotFoundError", "UNSUPPORTED",
                     "TransportError", "TimeoutError", "ServerError", "ConflictError", "ValueError"}
      BY <2>2 DEF Tellings, Refusals
  <2> DEFINE exits == map_error_to_exit_code[told[n]]
             code  == map_error_to_code[told[n]]
  <2>8. /\ exits = 0 => told[n] = "ok"
        /\ exits \in {3, 4, 10} => told[n] \in Refusals
      BY <2>3 DEF map_error_to_exit_code, Refusals
  <2>9. /\ code = "none" => told[n] \in {"ok", "UNSUPPORTED"}
        /\ code \in {"VALIDATION_ERROR", "NOT_FOUND", "AUTHENTICATION_ERROR", "CONFLICT_ERROR",
                     "INVALID_ARGUMENT"} => told[n] \in Refusals
    <3>1. CASE told[n] \in {"TransportError", "TimeoutError", "ServerError"}
      <4>1. code \in {"TRANSPORT_ERROR", "TIMEOUT_ERROR", "SERVER_ERROR"}
          BY <3>1 DEF map_error_to_code
      <4> QED
          BY <4>1
    <3>2. CASE told[n] \in Refusals
      <4>1. code \in {"VALIDATION_ERROR", "NOT_FOUND", "AUTHENTICATION_ERROR", "CONFLICT_ERROR",
                     "INVALID_ARGUMENT"}
          BY <3>2 DEF map_error_to_code, Refusals
      <4> QED
          BY <3>2, <4>1
    <3>3. CASE told[n] \in {"ok", "UNSUPPORTED"}
      <4>1. code = "none"
          BY <3>3 DEF map_error_to_code
      <4> QED
          BY <3>3, <4>1
    <3> QED
        BY <2>3, <3>1, <3>2, <3>3 DEF Refusals
  <2>4. Succeeds(n) => told[n] \in {"ok", "UNSUPPORTED"}
    <3>1. CASE call[n].front = "cli"
      <4>1. exit_code(n) \in {2, exits} /\ (exit_code(n) = 2 => exit_code(n) # 0)
          BY DEF exit_code
      <4> QED
          BY <2>8, <3>1, <4>1 DEF Succeeds
    <3>2. CASE call[n].front = "mcp"
        BY <2>9, <3>2 DEF Succeeds
    <3>3. CASE call[n].front \notin {"cli", "mcp"}
        BY <3>3 DEF Succeeds
    <3> QED
        BY <3>1, <3>2, <3>3
  <2>5. Refuses(n) => told[n] \in Refusals
    <3>1. CASE call[n].front = "cli"
      <4>1. exit_code(n) \in {2, exits} /\ (exit_code(n) = 2 => exit_code(n) \notin {3, 4, 10})
          BY DEF exit_code
      <4> QED
          BY <2>8, <3>1, <4>1 DEF Refuses, Refusals
    <3>2. CASE call[n].front = "mcp"
        BY <2>9, <3>2 DEF Refuses
    <3>3. CASE call[n].front \notin {"cli", "mcp"}
        BY <3>3 DEF Refuses, Refusals
    <3> QED
        BY <3>1, <3>2, <3>3
  <2>6. Succeeds(n) /\ call[n].op \in Writes => applied[n] /\ Done(n)
      BY <2>1, <2>4 DEF CallInv, Writes
  <2>7. Refuses(n) => ~applied[n] /\ wire[n] # "request"
      BY <2>1, <2>5 DEF CallInv, Refusals
  <2> QED
      BY <2>6, <2>7 DEF Done
<1> QED
    BY <1>1, FrontStarts, FrontSteps, PTL DEF FrontSpec
=============================================================================
