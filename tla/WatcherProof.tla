---------------------------- MODULE WatcherProof ----------------------------
(***************************************************************************)
(* Machine-checked proofs about internal/watcher, for any number of        *)
(* changes of the project.                                                 *)
(*                                                                         *)
(* The metadata polling overlooks nothing: what the last poll knew either  *)
(* has a path or has an outdated directory above it.                       *)
(*                                                                         *)
(* The event loop misses nothing: a directory that is not watched is in    *)
(* front of the loop, in the walk or as an event that no later removal     *)
(* takes back (Covered).  That needs to be said of the queue: the comings  *)
(* and goings of a task are in it in turns (TurnInv), what a task reports  *)
(* after it went comes after its return (LeafInv), and what is still known *)
(* of a directory whose watch has ended is forgotten by an event that is   *)
(* in the queue (KnownInv).                                                *)
(***************************************************************************)
EXTENDS Watcher, TLAPS

Paths == Polling!Paths
Ancestors(p) == Polling!Ancestors(p)

\* What exists is in a directory, and nothing has a time to come.
Tree ==
    /\ \A p \in Paths \ Polling!Optional :
          disk[p] # None => Polling!IsDir(disk[Polling!Parent[p]])
    /\ \A p \in Paths : disk[p] # None => disk[p].time <= edits

Past(m) == \A p \in DOMAIN m : m[p] # None => m[p].time <= edits

\* The stamps have the path, or an outdated directory above it.
Announced(m, q) ==
    q \in DOMAIN m \/ \E a \in Ancestors(q) \cap DOMAIN m : m[a] # disk[a]

\* A walk has still to come to the path.
Coming(q) == q \in todo \/ \E a \in Ancestors(q) : a \in todo \cup dirs

Walking == phase \in {"first", "walk"} /\ ~failed
Comparing == phase = "known" /\ ~failed /\ ~fallback

PollInv ==
    /\ Polling!TypeOK /\ Tree /\ Past(previous) /\ Past(current)
    /\ Polling!UnknownIsAnnounced
    /\ phase \in {"idle", "gone"} => ~failed
    /\ Walking =>
          /\ \A q \in Paths : disk[q] # None => Announced(current, q) \/ Coming(q)
          /\ Polling!Optional \subseteq DOMAIN current \cup todo
    /\ Comparing =>
          /\ DOMAIN previous = DOMAIN current \cup todo
          /\ \A p \in DOMAIN current : ~Polling!MustWalk(previous[p], current[p])

LEMMA Kinship ==
    /\ Polling!Optional \subseteq Paths
    /\ \A q \in Polling!Optional : Ancestors(q) = {}
    /\ \A q \in Paths \ Polling!Optional :
          /\ Polling!Parent[q] \in Paths /\ Polling!Parent[q] # q
          /\ Ancestors(q) = {Polling!Parent[q]} \cup Ancestors(Polling!Parent[q])
          /\ "tasks" \in Ancestors(q)
    /\ "tasks" \in Polling!Optional
    /\ \A q \in Paths : Ancestors(q) \subseteq Paths \ {q}
  BY DEF Polling!Optional, Paths, Polling!Paths, Ancestors, Polling!Ancestors, Polling!Parent

LEMMA AboveIsDir ==
    ASSUME Tree, NEW q \in Paths, disk[q] # None, NEW a \in Ancestors(q)
    PROVE  Polling!IsDir(disk[a])
<1>1. q \notin Polling!Optional BY Kinship
<1>2. Polling!IsDir(disk[Polling!Parent[q]]) BY <1>1 DEF Tree
<1>3. CASE a = Polling!Parent[q] BY <1>2, <1>3
<1>4. CASE a # Polling!Parent[q]
  <2>1. a \in Ancestors(Polling!Parent[q]) /\ Polling!Parent[q] \in Paths
    BY <1>1, <1>4, Kinship
  <2>2. Polling!Parent[q] = "d" /\ a = "tasks" /\ Polling!Parent["d"] = "tasks"
    BY <1>1, <2>1 DEF Paths, Polling!Paths, Polling!Optional, Ancestors,
                      Polling!Ancestors, Polling!Parent
  <2>3. disk["d"] # None BY <1>2, <2>2 DEF Polling!IsDir
  <2>4. "d" \in Paths \ Polling!Optional BY DEF Paths, Polling!Paths, Polling!Optional
  <2> QED BY <2>2, <2>3, <2>4 DEF Tree
<1> QED BY <1>3, <1>4

\* What an edit does to the tree: what changes gets a new time or is gone, and
\* so does the directory of what is new.
Edited ==
    /\ edits' = edits + 1 /\ edits < PollEdits
    /\ disk' \in [Paths -> Polling!Stamps \cup {None}]
    /\ \A q \in Paths : \/ disk'[q] = disk[q] \/ disk'[q] = None
                        \/ disk'[q] # None /\ disk'[q].time = edits + 1
    /\ \A q \in Paths \ Polling!Optional :
          disk'[q] # None => Polling!IsDir(disk'[Polling!Parent[q]])
    /\ \A q \in Paths \ Polling!Optional :
          disk[q] = None /\ disk'[q] # None =>
             /\ disk[Polling!Parent[q]] # None
             /\ disk'[Polling!Parent[q]].time = edits + 1
    /\ UNCHANGED <<phase, previous, current, todo, dirs, fallback, failed, faults>>

LEMMA StampTypes ==
    ASSUME edits \in Nat, edits < PollEdits, NEW s \in Polling!Stamps
    PROVE  /\ [s EXCEPT !.time = edits + 1] \in Polling!Stamps
           /\ [s EXCEPT !.time = edits + 1].time = edits + 1
           /\ [s EXCEPT !.time = edits + 1].kind = s.kind
           /\ \A kind \in {"file", "dir"} :
                 /\ [kind |-> kind, time |-> edits + 1] \in Polling!Stamps
                 /\ [kind |-> kind, time |-> edits + 1] # None
<1>1. edits + 1 \in 0 .. PollEdits BY BoundsAssumption
<1> QED BY <1>1, BoundsAssumption DEF Polling!Stamps

\* The time of a directory follows its entries.
LEMMA TouchParent ==
    ASSUME edits \in Nat, edits < PollEdits, NEW p \in Paths,
           NEW d \in [Paths -> Polling!Stamps \cup {None}],
           p \notin Polling!Optional => Polling!IsDir(d[Polling!Parent[p]])
    PROVE  /\ Polling!Entry(p, d) \in [Paths -> Polling!Stamps \cup {None}]
           /\ \A q \in Paths :
                 IF p \notin Polling!Optional /\ q = Polling!Parent[p]
                 THEN /\ Polling!IsDir(Polling!Entry(p, d)[q])
                      /\ Polling!Entry(p, d)[q].time = edits + 1
                 ELSE Polling!Entry(p, d)[q] = d[q]
<1>1. CASE p \in Polling!Optional BY <1>1 DEF Polling!Entry
<1>2. CASE p \notin Polling!Optional
  <2> DEFINE up == Polling!Parent[p]
             e == [d EXCEPT ![up].time = edits + 1]
  <2>1. up \in Paths /\ Polling!IsDir(d[up]) BY <1>2, Kinship
  <2>2. d[up] \in Polling!Stamps BY <2>1 DEF Polling!IsDir
  <2>3. Polling!Entry(p, d) = e BY <1>2 DEF Polling!Entry
  <2>4. e = [d EXCEPT ![up] = [d[up] EXCEPT !.time = edits + 1]] OBVIOUS
  <2> HIDE DEF up, e
  <2>5. /\ e \in [Paths -> Polling!Stamps \cup {None}]
        /\ e[up] = [d[up] EXCEPT !.time = edits + 1]
        /\ \A q \in Paths \ {up} : e[q] = d[q]
    BY <2>1, <2>2, <2>4, StampTypes
  <2>6. Polling!IsDir(e[up]) /\ e[up].time = edits + 1
    <3>1. e[up] \in Polling!Stamps /\ e[up].kind = d[up].kind /\ e[up].time = edits + 1
      BY <2>2, <2>5, StampTypes
    <3> QED BY <2>1, <3>1, BoundsAssumption DEF Polling!IsDir
  <2> QED BY <1>2, <2>3, <2>5, <2>6 DEF up
<1> QED BY <1>1, <1>2

LEMMA EditsEdit == ASSUME Polling!TypeOK, Tree, Polling!Edits PROVE Edited
<1>1. /\ disk \in [Paths -> Polling!Stamps \cup {None}] /\ edits \in Nat
  BY BoundsAssumption DEF Polling!TypeOK, Paths
<1>2. \A q \in Paths : disk[q] # None =>
         disk[q] \in Polling!Stamps /\ disk[q].kind \in {"file", "dir"}
  BY <1>1 DEF Polling!Stamps
<1> DEFINE Frame == /\ edits' = edits + 1 /\ edits < PollEdits
                    /\ UNCHANGED <<phase, previous, current, todo, dirs,
                                   fallback, failed, faults>>
<1>3. ASSUME NEW p \in Paths, Polling!WriteFile(p) PROVE Edited
  <2>1. /\ disk[p] # None /\ disk[p].kind = "file" /\ Frame
        /\ disk' = [disk EXCEPT ![p].time = edits + 1]
    BY <1>3 DEF Polling!WriteFile, Polling!Edit
  <2>2. disk' = [disk EXCEPT ![p] = [disk[p] EXCEPT !.time = edits + 1]] BY <2>1
  <2>3. /\ disk' \in [Paths -> Polling!Stamps \cup {None}]
        /\ disk'[p].time = edits + 1 /\ disk'[p].kind = "file"
        /\ disk'[p] # None
        /\ \A q \in Paths \ {p} : disk'[q] = disk[q]
    BY <1>1, <1>2, <2>1, <2>2, StampTypes, BoundsAssumption
  <2>4. ASSUME NEW q \in Paths \ Polling!Optional, disk'[q] # None
        PROVE  Polling!IsDir(disk'[Polling!Parent[q]]) /\ disk[q] # None
    <3>1. disk[q] # None BY <2>1, <2>3, <2>4
    <3>2. Polling!IsDir(disk[Polling!Parent[q]]) /\ Polling!Parent[q] \in Paths
      BY <3>1, Kinship DEF Tree
    <3>3. Polling!Parent[q] # p BY <2>1, <3>2 DEF Polling!IsDir
    <3> QED BY <2>3, <3>1, <3>2, <3>3
  <2> QED BY <2>1, <2>3, <2>4 DEF Edited
<1>4. ASSUME NEW p \in Paths, NEW kind \in {"file", "dir"}, Polling!Create(p, kind)
      PROVE  Edited
  <2> DEFINE new == [kind |-> kind, time |-> edits + 1]
             d == [disk EXCEPT ![p] = new]
  <2>1. /\ disk[p] = None /\ Frame /\ disk' = Polling!Entry(p, d)
        /\ p \notin Polling!Optional => Polling!IsDir(disk[Polling!Parent[p]])
    BY <1>4 DEF Polling!Create, Polling!Edit
  <2>2. new \in Polling!Stamps /\ new # None /\ new.time = edits + 1
    <3>1. edits + 1 \in 0 .. PollEdits BY <1>1, <2>1, BoundsAssumption
    <3> QED BY <3>1, BoundsAssumption DEF Polling!Stamps
  <2> HIDE DEF new
  <2>3. /\ d \in [Paths -> Polling!Stamps \cup {None}] /\ d[p] = new
        /\ \A q \in Paths \ {p} : d[q] = disk[q]
    BY <1>1, <2>2
  <2> HIDE DEF d
  <2>4. p \notin Polling!Optional =>
           Polling!Parent[p] \in Paths /\ Polling!Parent[p] # p
           /\ Polling!IsDir(d[Polling!Parent[p]])
    BY <2>1, <2>3, Kinship
  <2>5. /\ disk' \in [Paths -> Polling!Stamps \cup {None}]
        /\ \A q \in Paths :
              IF p \notin Polling!Optional /\ q = Polling!Parent[p]
              THEN Polling!IsDir(disk'[q]) /\ disk'[q].time = edits + 1
              ELSE disk'[q] = d[q]
    BY <1>1, <2>1, <2>3, <2>4, TouchParent
  <2>6. disk'[p] = new BY <2>3, <2>4, <2>5
  <2>7. \A q \in Paths : \/ disk'[q] = disk[q]
                         \/ disk'[q] # None /\ disk'[q].time = edits + 1
    BY <2>2, <2>3, <2>5, <2>6 DEF Polling!IsDir
  <2>8. \A q \in Paths : Polling!IsDir(disk[q]) => Polling!IsDir(disk'[q])
    BY <2>1, <2>3, <2>5 DEF Polling!IsDir
  <2>9. \A q \in Paths \ {p} : disk'[q] # None => disk[q] # None
    BY <2>3, <2>4, <2>5, <2>1 DEF Polling!IsDir
  <2>10. ASSUME NEW q \in Paths \ Polling!Optional, disk'[q] # None
         PROVE  /\ Polling!IsDir(disk'[Polling!Parent[q]])
                /\ disk[q] = None => /\ disk[Polling!Parent[q]] # None
                                     /\ disk'[Polling!Parent[q]].time = edits + 1
    <3>1. CASE q = p BY <2>1, <2>4, <2>5, <3>1 DEF Polling!IsDir
    <3>2. CASE q # p
      <4>1. disk[q] # None BY <2>9, <2>10, <3>2
      <4>2. Polling!IsDir(disk[Polling!Parent[q]]) /\ Polling!Parent[q] \in Paths
        BY <4>1, Kinship DEF Tree
      <4> QED BY <2>8, <4>1, <4>2
    <3> QED BY <3>1, <3>2
  <2> QED BY <2>1, <2>5, <2>7, <2>10 DEF Edited
<1>5. ASSUME NEW p \in Paths, Polling!Remove(p) PROVE Edited
  <2> DEFINE d == [q \in Paths |-> IF q \in Polling!Within(p) THEN None ELSE disk[q]]
  <2>1. disk[p] # None /\ Frame /\ disk' = Polling!Entry(p, d)
    BY <1>5 DEF Polling!Remove, Polling!Edit, Paths
  <2>2. /\ d \in [Paths -> Polling!Stamps \cup {None}]
        /\ \A q \in Paths : d[q] = IF q \in Polling!Within(p) THEN None ELSE disk[q]
    BY <1>1
  <2> HIDE DEF d
  <2>3. \A q \in Paths : q \in Polling!Within(p) <=> q = p \/ p \in Ancestors(q)
    BY DEF Polling!Within, Paths, Ancestors
  <2>4. p \notin Polling!Optional =>
           /\ Polling!Parent[p] \in Paths
           /\ Polling!Parent[p] \notin Polling!Within(p)
           /\ Polling!IsDir(d[Polling!Parent[p]])
    <3> SUFFICES ASSUME p \notin Polling!Optional
                 PROVE  /\ Polling!Parent[p] \in Paths
                        /\ Polling!Parent[p] \notin Polling!Within(p)
                        /\ Polling!IsDir(d[Polling!Parent[p]])
      OBVIOUS
    <3>1. Polling!Parent[p] \in Paths /\ Polling!Parent[p] # p BY Kinship
    <3>2. p \notin Ancestors(Polling!Parent[p]) BY Kinship
    <3>3. Polling!IsDir(disk[Polling!Parent[p]]) BY <2>1 DEF Tree
    <3> QED BY <2>2, <2>3, <3>1, <3>2, <3>3
  <2>5. /\ disk' \in [Paths -> Polling!Stamps \cup {None}]
        /\ \A q \in Paths :
              IF p \notin Polling!Optional /\ q = Polling!Parent[p]
              THEN Polling!IsDir(disk'[q]) /\ disk'[q].time = edits + 1
              ELSE disk'[q] = d[q]
    BY <1>1, <2>1, <2>2, <2>4, TouchParent
  <2>6. \A q \in Paths : \/ disk'[q] = disk[q] \/ disk'[q] = None
                         \/ disk'[q] # None /\ disk'[q].time = edits + 1
    BY <2>2, <2>5 DEF Polling!IsDir
  <2>7. ASSUME NEW q \in Paths, disk'[q] # None
        PROVE  disk[q] # None /\ q \notin Polling!Within(p)
    <3>1. CASE p \notin Polling!Optional /\ q = Polling!Parent[p]
      <4>1. d[q] = disk[q] /\ d[q] # None BY <2>2, <2>4, <3>1 DEF Polling!IsDir
      <4> QED BY <2>4, <3>1, <4>1
    <3>2. CASE ~(p \notin Polling!Optional /\ q = Polling!Parent[p])
      BY <2>2, <2>5, <2>7, <3>2
    <3> QED BY <3>1, <3>2
  <2>8. ASSUME NEW q \in Paths \ Polling!Optional, disk'[q] # None
        PROVE  Polling!IsDir(disk'[Polling!Parent[q]]) /\ disk[q] # None
    <3> DEFINE up == Polling!Parent[q]
    <3>1. disk[q] # None /\ q \notin Polling!Within(p) BY <2>7, <2>8
    <3>2. up \in Paths /\ Polling!IsDir(disk[up]) /\ Ancestors(q) = {up} \cup Ancestors(up)
      BY <3>1, Kinship DEF Tree
    <3>3. up \notin Polling!Within(p) BY <2>3, <3>1, <3>2
    <3>4. d[up] = disk[up] BY <2>2, <3>2, <3>3
    <3>5. Polling!IsDir(disk'[up]) BY <2>5, <3>2, <3>4
    <3> QED BY <3>1, <3>5
  <2> QED BY <2>1, <2>5, <2>6, <2>8 DEF Edited
<1> QED BY <1>3, <1>4, <1>5 DEF Polling!Edits, Paths

LEMMA EditedTree == ASSUME Polling!TypeOK, Tree, Edited PROVE Tree'
<1>1. edits \in Nat /\ disk \in [Paths -> Polling!Stamps \cup {None}]
  BY BoundsAssumption DEF Polling!TypeOK, Paths
<1>2. ASSUME NEW q \in Paths, disk'[q] # None PROVE disk'[q].time <= edits'
  <2>1. CASE disk'[q] = disk[q]
    <3>1. disk[q].time \in Nat
      <4>1. disk[q] \in Polling!Stamps BY <1>1, <1>2, <2>1
      <4> QED BY <4>1, BoundsAssumption DEF Polling!Stamps
    <3> QED BY <1>1, <1>2, <2>1, <3>1 DEF Tree, Edited
  <2>2. CASE disk'[q].time = edits + 1 BY <1>1, <2>2 DEF Edited
  <2> QED BY <1>2, <2>1, <2>2 DEF Edited
<1> QED BY <1>2 DEF Tree, Edited

\* Stamps from before an edit go on announcing what they announced, and
\* announce what is new as far as they announced its directory.
LEMMA EditedStamps ==
    ASSUME Polling!TypeOK, Tree, Edited, NEW m, Past(m),
           NEW q \in Paths, disk'[q] # None
    PROVE  /\ \A a \in Ancestors(q) \cap DOMAIN m : m[a] # disk[a] => m[a] # disk'[a]
           /\ q \notin Polling!Optional /\ disk[q] = None =>
                 LET up == Polling!Parent[q]
                 IN  up \in DOMAIN m => m[up] # disk'[up]
<1>1. edits \in Nat BY BoundsAssumption DEF Polling!TypeOK
<1>2. Tree' BY EditedTree
<1>3. ASSUME NEW a \in Ancestors(q), a \in DOMAIN m, m[a] # disk[a]
      PROVE  m[a] # disk'[a]
  <2>1. q \notin Polling!Optional /\ a \in Paths BY Kinship
  <2>2. Polling!IsDir(disk'[a])
    <3>1. a = Polling!Parent[q] \/ (a \in Ancestors(Polling!Parent[q])
                                    /\ Polling!Parent[q] \in Paths \ Polling!Optional)
      BY <2>1, Kinship
    <3>2. Polling!IsDir(disk'[Polling!Parent[q]]) BY <2>1 DEF Edited
    <3>3. ASSUME a \in Ancestors(Polling!Parent[q]), Polling!Parent[q] \in Paths \ Polling!Optional
          PROVE  Polling!IsDir(disk'[a])
      <4>1. a = "tasks" /\ Polling!Parent[Polling!Parent[q]] = "tasks"
        BY <2>1, <3>3 DEF Paths, Polling!Paths, Polling!Optional, Ancestors,
                          Polling!Ancestors, Polling!Parent
      <4>2. disk'[Polling!Parent[q]] # None BY <3>2 DEF Polling!IsDir
      <4> QED BY <3>3, <4>1, <4>2 DEF Edited
    <3> QED BY <3>1, <3>2, <3>3
  <2>3. disk'[a] # None BY <2>2 DEF Polling!IsDir
  <2>4. CASE disk'[a] = disk[a] BY <1>3, <2>4
  <2>5. CASE disk'[a].time = edits + 1
    <3>1. CASE m[a] = None BY <2>3, <3>1
    <3>2. CASE m[a] # None
      <4>1. m[a].time <= edits BY <1>3, <3>2 DEF Past
      <4>2. m[a].time # edits + 1 BY <1>1, <4>1
      <4> QED BY <2>5, <4>2
    <3> QED BY <3>1, <3>2
  <2> QED BY <2>1, <2>3, <2>4, <2>5 DEF Edited
<1>4. ASSUME q \notin Polling!Optional, disk[q] = None, Polling!Parent[q] \in DOMAIN m
      PROVE  m[Polling!Parent[q]] # disk'[Polling!Parent[q]]
  <2> DEFINE up == Polling!Parent[q]
  <2>1. Polling!IsDir(disk'[up]) /\ disk'[up].time = edits + 1 BY <1>4 DEF Edited
  <2>2. disk'[up] # None BY <2>1 DEF Polling!IsDir
  <2>3. m[up] # None => m[up].time <= edits BY <1>4 DEF Past
  <2> HIDE DEF up
  <2>4. m[up] # None => m[up].time # edits + 1 BY <1>1, <2>3
  <2>5. m[up] # disk'[up] BY <2>1, <2>2, <2>4
  <2> QED BY <2>5 DEF up
<1> QED BY <1>3, <1>4

LEMMA EditInv == ASSUME PollInv, Polling!Edits PROVE PollInv'
<1>1. Edited BY EditsEdit DEF PollInv
<1>2. Tree' BY <1>1, EditedTree DEF PollInv
<1>3. edits \in Nat /\ edits' = edits + 1 /\ edits' \in 0 .. PollEdits
  BY <1>1, BoundsAssumption DEF Edited, PollInv, Polling!TypeOK
<1>4. UNCHANGED <<phase, previous, current, todo, dirs, fallback, failed, faults>>
  BY <1>1 DEF Edited
<1>5. Polling!TypeOK'
  BY <1>1, <1>3, <1>4 DEF Edited, PollInv, Polling!TypeOK, Polling!IsMetadata,
     Polling!Stamps, Paths, Polling!Paths, Polling!Optional
<1>6. ASSUME NEW m, Past(m), Polling!IsMetadata(m)
      PROVE  \A a \in DOMAIN m : m[a] # None => m[a].time <= edits'
  <2> SUFFICES ASSUME NEW a \in DOMAIN m, m[a] # None PROVE m[a].time <= edits'
    OBVIOUS
  <2>1. m[a].time \in Nat
    <3>1. m[a] \in Polling!Stamps BY <1>6 DEF Polling!IsMetadata
    <3> QED BY <3>1, BoundsAssumption DEF Polling!Stamps
  <2>2. m[a].time <= edits BY <1>6 DEF Past
  <2> QED BY <1>3, <2>1, <2>2
<1>7. Past(previous)' /\ Past(current)'
  BY <1>4, <1>6 DEF PollInv, Past, Polling!TypeOK
<1>8. Polling!UnknownIsAnnounced'
  <2> SUFFICES ASSUME phase \notin {"first", "gone"}, NEW q \in Paths, disk'[q] # None,
                      q \notin DOMAIN previous
               PROVE  \E a \in Ancestors(q) \cap DOMAIN previous : previous[a] # disk'[a]
    BY <1>4 DEF Polling!UnknownIsAnnounced, Paths, Ancestors
  <2>1. \A r \in Paths : disk[r] # None /\ r \notin DOMAIN previous =>
           \E a \in Ancestors(r) \cap DOMAIN previous : previous[a] # disk[a]
    BY DEF PollInv, Polling!UnknownIsAnnounced, Paths, Ancestors
  <2>2. CASE disk[q] # None BY <1>1, <2>1, <2>2, EditedStamps DEF PollInv
  <2>3. CASE disk[q] = None
    <3> DEFINE up == Polling!Parent[q]
    <3>1. q \notin Polling!Optional BY DEF PollInv, Polling!TypeOK
    <3>2. up \in Paths /\ Ancestors(q) = {up} \cup Ancestors(up) BY <3>1, Kinship
    <3>3. CASE up \in DOMAIN previous
      BY <1>1, <2>3, <3>1, <3>2, <3>3, EditedStamps DEF PollInv
    <3>4. CASE up \notin DOMAIN previous
      <4>1. disk[up] # None BY <1>1, <2>3, <3>1 DEF Edited
      <4>2. PICK a \in Ancestors(up) \cap DOMAIN previous : previous[a] # disk[a]
        BY <2>1, <3>2, <3>4, <4>1
      <4> QED BY <1>1, <3>2, <4>2, EditedStamps DEF PollInv
    <3> QED BY <3>3, <3>4
  <2> QED BY <2>2, <2>3
<1>9. ASSUME Walking, NEW q \in Paths, disk'[q] # None
      PROVE  \/ q \in DOMAIN current
             \/ \E a \in Ancestors(q) \cap DOMAIN current : current[a] # disk'[a]
             \/ Coming(q)
  <2>1. \A r \in Paths : disk[r] # None => Announced(current, r) \/ Coming(r)
    BY <1>9 DEF PollInv
  <2>2. CASE disk[q] # None
    BY <1>1, <1>9, <2>1, <2>2, EditedStamps DEF PollInv, Announced
  <2>3. CASE disk[q] = None
    <3> DEFINE up == Polling!Parent[q]
    <3>1. CASE q \in Polling!Optional BY <1>9, <3>1 DEF PollInv, Coming
    <3>2. CASE q \notin Polling!Optional
      <4>1. up \in Paths /\ Ancestors(q) = {up} \cup Ancestors(up) BY <3>2, Kinship
      <4>2. CASE up \in DOMAIN current
        BY <1>1, <1>9, <2>3, <3>2, <4>1, <4>2, EditedStamps DEF PollInv
      <4>3. CASE up \notin DOMAIN current
        <5>1. disk[up] # None BY <1>1, <1>9, <2>3, <3>2 DEF Edited
        <5>2. \/ \E a \in Ancestors(up) \cap DOMAIN current : current[a] # disk[a]
              \/ Coming(up)
          BY <2>1, <4>1, <4>3, <5>1 DEF Announced
        <5>3. CASE Coming(up) BY <4>1, <5>3 DEF Coming
        <5>4. CASE \E a \in Ancestors(up) \cap DOMAIN current : current[a] # disk[a]
          BY <1>1, <1>9, <4>1, <5>4, EditedStamps DEF PollInv
        <5> QED BY <5>2, <5>3, <5>4
      <4> QED BY <4>2, <4>3
    <3> QED BY <3>1, <3>2
  <2> QED BY <2>2, <2>3
<1>10. Walking' =>
          /\ (\A q \in Paths : disk[q] # None => Announced(current, q) \/ Coming(q))'
          /\ Polling!Optional \subseteq (DOMAIN current \cup todo)'
  BY <1>4, <1>9 DEF PollInv, Walking, Announced, Coming
<1>11. Comparing' =>
          /\ DOMAIN previous' = (DOMAIN current \cup todo)'
          /\ (\A p \in DOMAIN current : ~Polling!MustWalk(previous[p], current[p]))'
  BY <1>4 DEF PollInv, Comparing, Polling!MustWalk, Polling!IsDir
<1>12. phase' \in {"idle", "gone"} => ~failed' BY <1>4 DEF PollInv
<1> QED BY <1>2, <1>5, <1>7, <1>8, <1>10, <1>11, <1>12 DEF PollInv

\* The rest of the invariant, for a step that leaves the tree alone.
LEMMA PollStep ==
    ASSUME PollInv, UNCHANGED <<disk, edits>>,
           phase' \in {"first", "idle", "known", "walk", "gone"},
           Polling!IsMetadata(previous'), Polling!IsMetadata(current'),
           phase' \notin {"first", "gone"} => Polling!Optional \subseteq DOMAIN previous',
           todo' \subseteq Paths, dirs' \subseteq Paths, fallback' \in BOOLEAN,
           failed' \in BOOLEAN, faults' \in 0 .. MaxFaults,
           Past(previous'), Past(current'),
           phase' \in {"idle", "gone"} => ~failed',
           phase' \notin {"first", "gone"} =>
              \A p \in Paths : disk[p] # None => Announced(previous', p),
           phase' \in {"first", "walk"} /\ ~failed' =>
              /\ \A q \in Paths : disk[q] # None =>
                    \/ Announced(current', q) \/ q \in todo'
                    \/ \E a \in Ancestors(q) : a \in todo' \cup dirs'
              /\ Polling!Optional \subseteq DOMAIN current' \cup todo',
           phase' = "known" /\ ~failed' /\ ~fallback' =>
              /\ DOMAIN previous' = DOMAIN current' \cup todo'
              /\ \A p \in DOMAIN current' : ~Polling!MustWalk(previous'[p], current'[p])
    PROVE  PollInv'
<1>1. Polling!TypeOK'
  <2>1. Polling!IsMetadata(previous)' /\ Polling!IsMetadata(current)'
    BY DEF Polling!IsMetadata
  <2> QED BY <2>1 DEF PollInv, Polling!TypeOK, Paths
<1>2. Tree' BY DEF PollInv, Tree
<1>3. Past(previous)' /\ Past(current)' BY DEF Past
<1>4. Polling!UnknownIsAnnounced'
  BY DEF Polling!UnknownIsAnnounced, Announced, Paths, Ancestors
<1>5. Walking' =>
          /\ (\A q \in Paths : disk[q] # None => Announced(current, q) \/ Coming(q))'
          /\ Polling!Optional \subseteq (DOMAIN current \cup todo)'
  BY DEF Walking, Announced, Coming
<1>6. Comparing' =>
          /\ DOMAIN previous' = (DOMAIN current \cup todo)'
          /\ (\A p \in DOMAIN current : ~Polling!MustWalk(previous[p], current[p]))'
  BY DEF Comparing, Polling!MustWalk
<1> QED BY <1>1, <1>2, <1>3, <1>4, <1>5, <1>6 DEF PollInv

\* What holds before a step of a poll.
LEMMA PollTypes ==
    ASSUME PollInv
    PROVE  /\ phase \in {"first", "idle", "known", "walk", "gone"}
           /\ disk \in [Paths -> Polling!Stamps \cup {None}]
           /\ Polling!IsMetadata(previous) /\ Polling!IsMetadata(current)
           /\ phase \notin {"first", "gone"} => Polling!Optional \subseteq DOMAIN previous
           /\ todo \subseteq Paths /\ dirs \subseteq Paths
           /\ fallback \in BOOLEAN /\ failed \in BOOLEAN /\ faults \in 0 .. MaxFaults
           /\ Past(previous) /\ Past(current)
           /\ phase \in {"idle", "gone"} => ~failed
           /\ phase \notin {"first", "gone"} =>
                 \A p \in Paths : disk[p] # None => Announced(previous, p)
  BY DEF PollInv, Polling!TypeOK, Paths, Polling!UnknownIsAnnounced, Announced, Ancestors

LEMMA NothingYet ==
    /\ DOMAIN Polling!Nothing = {} /\ Polling!IsMetadata(Polling!Nothing)
    /\ Past(Polling!Nothing)
  BY DEF Polling!Nothing, Polling!IsMetadata, Past

\* One more stamp.
LEMMA WithOne ==
    ASSUME PollInv, NEW p \in Paths, NEW m, m = Polling!With(p, disk[p])
    PROVE  /\ DOMAIN m = DOMAIN current \cup {p}
           /\ m[p] = disk[p]
           /\ \A q \in DOMAIN current \ {p} : m[q] = current[q]
           /\ Polling!IsMetadata(m) /\ Past(m)
<1>1. /\ DOMAIN m = DOMAIN current \cup {p} /\ m[p] = disk[p]
      /\ \A q \in DOMAIN current \ {p} : m[q] = current[q]
  BY DEF Polling!With
<1>2. /\ DOMAIN current \subseteq Paths
      /\ \A q \in DOMAIN current : current[q] \in Polling!Stamps \cup {None}
      /\ disk[p] \in Polling!Stamps \cup {None}
  BY PollTypes DEF Polling!IsMetadata, Paths
<1>3. Polling!IsMetadata(m) BY <1>1, <1>2 DEF Polling!IsMetadata, Paths
<1>4. Past(m) BY <1>1, <1>2 DEF Past, PollInv, Tree
<1> QED BY <1>1, <1>3, <1>4

LEMMA WalkStarts ==
    \A q \in Paths : \/ q \in Polling!Optional
                     \/ \E a \in Ancestors(q) : a \in Polling!Optional
  BY Kinship

LEMMA RestingInv ==
    ASSUME PollInv, Polling!Rest, UNCHANGED <<disk, edits, faults>>,
           phase' \in {"idle", "gone"}, Polling!IsMetadata(previous'), Past(previous'),
           phase' = "idle" => /\ Polling!Optional \subseteq DOMAIN previous'
                              /\ \A p \in Paths : disk[p] # None => Announced(previous', p)
    PROVE  PollInv'
  BY PollTypes, NothingYet, PollStep DEF Polling!Rest

LEMMA BeginInv == ASSUME PollInv, Polling!PollBegin PROVE PollInv'
<1>1. /\ phase = "idle" /\ phase' = "known" /\ current' = Polling!Nothing
      /\ todo' = DOMAIN previous
      /\ UNCHANGED <<disk, edits, previous, dirs, fallback, failed, faults>>
  BY DEF Polling!PollBegin, Polling!tree
<1>2. DOMAIN previous \subseteq Paths BY PollTypes DEF Polling!IsMetadata, Paths
<1> QED BY <1>1, <1>2, PollTypes, NothingYet, PollStep

LEMMA FallBackInv == ASSUME PollInv, Polling!FallBack PROVE PollInv'
<1>1. /\ phase = "known" /\ phase' = "walk" /\ current' = Polling!Nothing
      /\ todo' = Polling!Optional /\ dirs' = {} /\ fallback' = FALSE /\ failed' = FALSE
      /\ UNCHANGED <<disk, edits, previous, faults>>
  BY DEF Polling!FallBack, Polling!StartWalk, Polling!tree
<1>2. \A q \in Paths : q \in todo' \/ \E a \in Ancestors(q) : a \in todo' \cup dirs'
  BY <1>1, WalkStarts
<1> QED BY <1>1, <1>2, PollTypes, NothingYet, Kinship, PollStep

LEMMA StatKnownInv == ASSUME PollInv, NEW p \in Paths, Polling!StatKnown(p) PROVE PollInv'
<1>1. /\ phase = "known" /\ p \in todo /\ todo' = todo \ {p}
      /\ UNCHANGED <<disk, edits, phase, previous, dirs, faults>>
      /\ \/ failed' = TRUE /\ UNCHANGED <<current, fallback>>
         \/ /\ current' = Polling!With(p, disk[p])
            /\ fallback' = (fallback \/ Polling!MustWalk(previous[p], disk[p]))
            /\ UNCHANGED failed
  BY DEF Polling!StatKnown, Polling!tree
<1>2. CASE failed' = TRUE /\ UNCHANGED <<current, fallback>>
  BY <1>1, <1>2, PollTypes, PollStep
<1>3. CASE /\ current' = Polling!With(p, disk[p])
           /\ fallback' = (fallback \/ Polling!MustWalk(previous[p], disk[p]))
           /\ UNCHANGED failed
  <2>1. /\ DOMAIN current' = DOMAIN current \cup {p} /\ current'[p] = disk[p]
        /\ \A q \in DOMAIN current \ {p} : current'[q] = current[q]
        /\ Polling!IsMetadata(current') /\ Past(current')
    BY <1>3, WithOne
  <2>2. fallback' \in BOOLEAN BY <1>3
  <2>3. ASSUME ~failed', ~fallback'
        PROVE  /\ DOMAIN previous' = DOMAIN current' \cup todo'
               /\ \A q \in DOMAIN current' : ~Polling!MustWalk(previous'[q], current'[q])
    <3>1. Comparing /\ ~Polling!MustWalk(previous[p], disk[p])
      BY <1>1, <1>3, <2>3 DEF Comparing
    <3>2. /\ DOMAIN previous = DOMAIN current \cup todo
          /\ \A q \in DOMAIN current : ~Polling!MustWalk(previous[q], current[q])
      BY <3>1 DEF PollInv
    <3> QED BY <1>1, <2>1, <3>1, <3>2
  <2> QED BY <1>1, <1>3, <2>1, <2>2, <2>3, PollTypes, PollStep
<1> QED BY <1>1, <1>2, <1>3

LEMMA StatEntryInv == ASSUME PollInv, NEW p \in Paths, Polling!StatEntry(p) PROVE PollInv'
<1>1. /\ phase \in {"first", "walk"} /\ p \in todo /\ todo' = todo \ {p}
      /\ UNCHANGED <<disk, edits, phase, previous, fallback, faults>>
      /\ \/ failed' = TRUE /\ UNCHANGED <<current, dirs>>
         \/ /\ disk[p] # None \/ p \in Polling!Optional
            /\ current' = Polling!With(p, disk[p])
            /\ dirs' = IF Polling!IsDir(disk[p]) THEN dirs \cup {p} ELSE dirs
            /\ UNCHANGED failed
  BY DEF Polling!StatEntry, Polling!tree
<1>2. CASE failed' = TRUE /\ UNCHANGED <<current, dirs>>
  BY <1>1, <1>2, PollTypes, PollStep
<1>3. CASE /\ current' = Polling!With(p, disk[p])
           /\ dirs' = IF Polling!IsDir(disk[p]) THEN dirs \cup {p} ELSE dirs
           /\ UNCHANGED failed
  <2>1. /\ DOMAIN current' = DOMAIN current \cup {p} /\ current'[p] = disk[p]
        /\ \A q \in DOMAIN current \ {p} : current'[q] = current[q]
        /\ Polling!IsMetadata(current') /\ Past(current')
    BY <1>3, WithOne
  <2>2. dirs' \subseteq Paths /\ dirs \subseteq dirs' BY <1>3, PollTypes
  <2>3. ASSUME ~failed', NEW q \in Paths, disk[q] # None
        PROVE  \/ Announced(current', q) \/ q \in todo'
               \/ \E a \in Ancestors(q) : a \in todo' \cup dirs'
    <3>1. p \in Ancestors(q) => p \in dirs' BY <1>3, <2>3, AboveIsDir DEF PollInv
    <3>2. Announced(current, q) \/ Coming(q)
      <4>1. Walking BY <1>1, <1>3, <2>3 DEF Walking
      <4> QED BY <2>3, <4>1 DEF PollInv
    <3>3. CASE p \in Ancestors(q) BY <3>1, <3>3
    <3>4. CASE q = p BY <2>1, <3>4 DEF Announced
    <3>5. CASE q # p /\ p \notin Ancestors(q)
      <4>1. CASE Announced(current, q) BY <2>1, <3>5, <4>1 DEF Announced
      <4>2. CASE Coming(q) BY <1>1, <2>2, <3>5, <4>2 DEF Coming
      <4> QED BY <3>2, <4>1, <4>2
    <3> QED BY <3>3, <3>4, <3>5
  <2>4. ASSUME ~failed' PROVE Polling!Optional \subseteq DOMAIN current' \cup todo'
    <3>1. Walking BY <1>1, <1>3, <2>4 DEF Walking
    <3> QED BY <1>1, <2>1, <3>1 DEF PollInv
  <2> QED BY <1>1, <1>3, <2>1, <2>2, <2>3, <2>4, PollTypes, PollStep
<1> QED BY <1>1, <1>2, <1>3

LEMMA ReadDirInv == ASSUME PollInv, NEW d \in Paths, Polling!ReadDir(d) PROVE PollInv'
<1>1. /\ phase \in {"first", "walk"} /\ todo = {} /\ ~failed /\ d \in dirs
      /\ dirs' = dirs \ {d}
      /\ UNCHANGED <<disk, edits, phase, previous, current, fallback, faults>>
      /\ \/ /\ todo' = {p \in Paths \ Polling!Optional :
                           Polling!Parent[p] = d /\ disk[p] # None}
            /\ UNCHANGED failed
         \/ failed' = TRUE /\ UNCHANGED todo
  BY DEF Polling!ReadDir, Polling!tree, Paths
<1>2. CASE failed' = TRUE /\ UNCHANGED todo
  BY <1>1, <1>2, PollTypes, PollStep
<1>3. CASE /\ todo' = {p \in Paths \ Polling!Optional :
                          Polling!Parent[p] = d /\ disk[p] # None}
           /\ UNCHANGED failed
  <2>1. Walking BY <1>1 DEF Walking
  <2>2. ASSUME NEW q \in Paths, disk[q] # None
        PROVE  \/ Announced(current', q) \/ q \in todo'
               \/ \E a \in Ancestors(q) : a \in todo' \cup dirs'
    <3>1. Announced(current, q) \/ \E a \in Ancestors(q) : a \in dirs
      BY <1>1, <2>1, <2>2 DEF PollInv, Coming
    <3>2. CASE Announced(current, q) BY <1>1, <3>2 DEF Announced
    <3>3. CASE \E a \in Ancestors(q) : a \in dirs
      <4>1. PICK a \in Ancestors(q) : a \in dirs BY <3>3
      <4>2. CASE a # d BY <1>1, <4>1, <4>2
      <4>3. CASE a = d
        <5> DEFINE up == Polling!Parent[q]
        <5>1. q \notin Polling!Optional BY <4>1, Kinship
        <5>2. up \in Paths /\ Ancestors(q) = {up} \cup Ancestors(up) BY <5>1, Kinship
        <5>3. CASE up = d BY <1>3, <2>2, <5>1, <5>3
        <5>4. CASE up # d
          <6>1. d \in Ancestors(up) /\ up \notin Polling!Optional
            BY <4>1, <4>3, <5>2, <5>4, Kinship
          <6>2. Polling!Parent[up] = d
            BY <5>1, <6>1 DEF Paths, Polling!Paths, Polling!Optional, Ancestors,
                              Polling!Ancestors, Polling!Parent
          <6>3. disk[up] # None BY <2>2, <5>2, AboveIsDir DEF PollInv, Polling!IsDir
          <6>4. up \in todo' BY <1>3, <5>2, <6>1, <6>2, <6>3
          <6> QED BY <5>2, <6>4
        <5> QED BY <5>3, <5>4
      <4> QED BY <4>2, <4>3
    <3> QED BY <3>1, <3>2, <3>3
  <2>3. Polling!Optional \subseteq DOMAIN current' \cup todo'
    BY <1>1, <2>1 DEF PollInv
  <2>4. todo' \subseteq Paths /\ dirs' \subseteq Paths BY <1>1, <1>3, PollTypes
  <2> QED BY <1>1, <1>3, <2>2, <2>3, <2>4, PollTypes, PollStep
<1> QED BY <1>1, <1>2, <1>3

LEMMA DoneInv == ASSUME PollInv, Polling!PollDone PROVE PollInv'
<1>1. /\ ~failed /\ todo = {}
      /\ \/ phase = "known" /\ ~fallback
         \/ phase \in {"first", "walk"} /\ dirs = {}
      /\ previous' = current /\ phase' = "idle" /\ Polling!Rest
      /\ UNCHANGED <<disk, edits, faults>>
  BY DEF Polling!PollDone, Polling!tree
<1>2. CASE phase = "known" /\ ~fallback
  <2>1. /\ DOMAIN previous = DOMAIN current
        /\ \A p \in DOMAIN current : ~Polling!MustWalk(previous[p], current[p])
    BY <1>1, <1>2 DEF PollInv, Comparing
  <2>2. ASSUME NEW q \in Paths, disk[q] # None PROVE Announced(current, q)
    <3>1. Announced(previous, q) BY <1>2, <2>2, PollTypes
    <3>2. CASE q \in DOMAIN previous BY <2>1, <3>2 DEF Announced
    <3>3. CASE q \notin DOMAIN previous
      <4>1. PICK a \in Ancestors(q) \cap DOMAIN previous : previous[a] # disk[a]
        BY <3>1, <3>3 DEF Announced
      <4>2. Polling!IsDir(disk[a]) BY <2>2, AboveIsDir DEF PollInv
      <4>3. current[a] = previous[a] \/ ~Polling!IsDir(current[a])
        BY <2>1, <4>1 DEF Polling!MustWalk, Polling!IsDir
      <4>4. current[a] # disk[a] BY <4>1, <4>2, <4>3
      <4> QED BY <2>1, <4>1, <4>4 DEF Announced
    <3> QED BY <3>2, <3>3
  <2> QED BY <1>1, <1>2, <2>1, <2>2, PollTypes, RestingInv
<1>3. CASE phase \in {"first", "walk"} /\ dirs = {}
  <2>1. /\ \A q \in Paths : disk[q] # None => Announced(current, q)
        /\ Polling!Optional \subseteq DOMAIN current
    BY <1>1, <1>3 DEF PollInv, Walking, Coming
  <2> QED BY <1>1, <2>1, PollTypes, RestingInv
<1> QED BY <1>1, <1>2, <1>3

LEMMA FailsInv == ASSUME PollInv, Polling!PollFails PROVE PollInv'
<1>1. /\ phase' = IF phase = "first" THEN "gone" ELSE "idle"
      /\ Polling!Rest /\ UNCHANGED <<disk, edits, previous, faults>>
  BY DEF Polling!PollFails, Polling!tree
<1>2. phase # "gone" BY DEF Polling!PollFails, PollInv
<1>3. phase' = "idle" => phase # "first" BY <1>1
<1>4. phase' \in {"idle", "gone"} BY <1>1
<1> QED BY <1>1, <1>2, <1>3, <1>4, PollTypes, RestingInv

LEMMA FaultInv == ASSUME PollInv, Polling!IOFails PROVE PollInv'
<1>1. /\ phase # "idle" /\ phase # "gone"
      /\ failed' = TRUE /\ faults < MaxFaults /\ faults' = faults + 1
      /\ UNCHANGED <<disk, edits, phase, previous, current, todo, dirs, fallback>>
  BY DEF Polling!IOFails, Polling!tree
<1>2. faults' \in 0 .. MaxFaults BY <1>1, PollTypes, BoundsAssumption
<1> QED BY <1>1, <1>2, PollTypes, PollStep

LEMMA InitPollInv == ASSUME Polling!Init PROVE PollInv
<1>1. /\ disk = [p \in Paths |-> [kind |-> Polling!Usual[p], time |-> 0]] /\ edits = 0
      /\ phase = "first" /\ previous = Polling!Nothing /\ current = Polling!Nothing
      /\ todo = Polling!Optional /\ dirs = {}
      /\ fallback = FALSE /\ failed = FALSE /\ faults = 0
  BY DEF Polling!Init, Paths
<1>2. \A p \in Paths : Polling!Usual[p] \in {"file", "dir"}
  BY DEF Paths, Polling!Paths, Polling!Usual
<1>3. 0 \in 0 .. PollEdits /\ 0 \in 0 .. MaxFaults BY BoundsAssumption
<1>4. \A p \in Paths :
         /\ disk[p] \in Polling!Stamps
         /\ disk[p].kind = Polling!Usual[p] /\ disk[p].time = 0
  BY <1>1, <1>2, <1>3 DEF Polling!Stamps
<1>5. Polling!TypeOK
  <2>1. disk \in [Paths -> Polling!Stamps \cup {None}]
    <3>1. DOMAIN disk = Paths /\ disk = [p \in Paths |-> disk[p]] BY <1>1
    <3> QED BY <1>4, <3>1
  <2> QED BY <1>1, <1>3, <2>1, NothingYet, Kinship DEF Polling!TypeOK, Paths
<1>6. Tree
  <2>1. \A p \in Paths : disk[p].time <= edits BY <1>1, <1>4
  <2>2. \A p \in Paths \ Polling!Optional : Polling!Usual[Polling!Parent[p]] = "dir"
    BY DEF Paths, Polling!Paths, Polling!Optional, Polling!Parent, Polling!Usual
  <2>3. \A p \in Paths \ Polling!Optional : Polling!IsDir(disk[Polling!Parent[p]])
    BY <1>4, <2>2, Kinship, BoundsAssumption DEF Polling!IsDir
  <2> QED BY <2>1, <2>3 DEF Tree
<1> QED
  BY <1>1, <1>5, <1>6, NothingYet, WalkStarts
  DEF PollInv, Polling!UnknownIsAnnounced, Walking, Comparing, Coming

LEMMA NextPollInv == ASSUME PollInv, Polling!Next PROVE PollInv'
<1>1. CASE Polling!Edits BY <1>1, EditInv
<1>2. CASE Polling!Poll
  BY <1>2, BeginInv, FallBackInv, DoneInv, FailsInv, StatKnownInv, StatEntryInv, ReadDirInv
  DEF Polling!Poll, Paths
<1>3. CASE Polling!IOFails BY <1>3, FaultInv
<1> QED BY <1>1, <1>2, <1>3 DEF Polling!Next

LEMMA IdlePollInv ==
    ASSUME PollInv, UNCHANGED <<edits, polling>> PROVE PollInv'
  BY PollTypes, PollStep DEF polling, PollInv, Walking, Comparing, Coming

Polled == kqueue => PollInv

\* A path that the last poll did not know of has a directory above it whose
\* stamp the poll knew and which has changed since, however many changes and
\* I/O errors there were and wherever in a poll they came: the polls that look
\* at the known paths alone overlook nothing (watcher.go:551).
THEOREM PollingOverlooksNothing == Spec => []UnknownIsAnnounced
<1>1. Init => Polled BY InitPollInv DEF Init, Polled
<1>2. Polled /\ [Next]_vars => Polled'
  <2> SUFFICES ASSUME Polled, [Next]_vars, kqueue' PROVE PollInv' BY DEF Polled
  <2>1. CASE kqueue /\ Polling!Next BY <2>1, NextPollInv DEF Polled
  <2>2. CASE ~kqueue /\ UNCHANGED kqueue BY <2>2
  <2>3. CASE UNCHANGED vars BY <2>3, IdlePollInv DEF vars, Polled
  <2> QED BY <2>1, <2>2, <2>3 DEF Next
<1>3. Polled => UnknownIsAnnounced BY DEF Polled, PollInv, UnknownIsAnnounced
<1> QED BY <1>1, <1>2, <1>3, PTL DEF Spec

-----------------------------------------------------------------------------
(* The event loop                                                          *)

Leaves == {"docs", "notes"}

\* The events about a directory, but for the writes in it.
Creations(d) == {e \in events : e.op = "create" /\ e.dir = d}
Removals(d) == {e \in events : e.op = "remove" /\ e.dir = d}

\* Who reports what; an event carries the number of a change there was.
ReporterInv ==
    \A e \in events :
        /\ e.at <= edits
        /\ e.op # "write" =>
              \/ e.dir = "task" /\ e.by = "tasks"
              \/ e.dir \in Leaves /\ e.by = "task"
              \/ e.dir \in Leaves /\ e.op = "remove" /\ e.by = e.dir

\* The root stays; what exists has its parent.
TreeInv ==
    /\ "tasks" \in native
    /\ \A d \in exists : Watching!Parents(d) \subseteq exists

\* A directory whose watch has ended is forgotten when its removal is taken.
KnownInv == \A d \in known \ native : Removals(d) # {}

\* The root is always watched, so that the task's comings and goings are all
\* in the queue, in turns.
TurnInv ==
    /\ "task" \in exists =>
          \A r \in Removals("task") : \E c \in Creations("task") : r.at < c.at
    /\ "task" \notin exists =>
          \A c \in Creations("task") : \E r \in Removals("task") : c.at < r.at
    /\ \A b, c \in Creations("task") : b.at < c.at =>
          \E r \in Removals("task") : b.at < r.at /\ r.at < c.at

\* A task that is still to be found has no watch, and no walk is under way.
FreshInv ==
    \A c \in Creations("task") :
        \/ \E r \in Removals("task") : r.at < c.at
        \/ "task" \notin known /\ walk = None

\* What the task reports after it went, it reports after it came back.
LeafInv ==
    \A e \in events : e.op # "write" /\ e.dir \in Leaves =>
        /\ "task" \in known
        /\ e.by \in known \/ Watching!IsFirst(e, events)
        /\ \A r \in Removals("task") : r.at < e.at =>
              \E c \in Creations("task") : r.at < c.at /\ c.at < e.at

WalkInv ==
    walk # None =>
        /\ "tasks" \notin walk.listed \cup walk.stack
        /\ Leaves \cap walk.listed # {} \/ "task" \in walk.stack => "task" \in known
        /\ "task" \in exists \/ Removals("task") # {}

\* Every directory is watched or will be.
TaskCovered ==
    "task" \in exists =>
        \/ Creations("task") # {}
        \/ "task" \in native
        \/ walk # None /\ "task" \in walk.listed

LeafCovered(d) ==
    d \in exists =>
        \/ Creations("task") # {}
        \/ \E c \in Creations(d) : \A r \in Removals(d) : r.at < c.at
        \/ /\ Removals(d) = {}
           /\ \/ d \in native
              \/ walk # None /\ (d \in walk.listed \/ "task" \in walk.listed \cup walk.stack)

Covered == TaskCovered /\ \A d \in Leaves : LeafCovered(d)

Unreported == unseen => events # {} \/ walk # None \/ pending

EventInv ==
    /\ Watching!TypeOK /\ ~stopped
    /\ ReporterInv /\ TreeInv /\ KnownInv /\ TurnInv /\ FreshInv /\ LeafInv /\ WalkInv
    /\ gaveUp \/ (Covered /\ Unreported)

LEMMA Layout ==
    /\ Watching!Root = "tasks" /\ Watching!Dirs = {"tasks", "task", "docs", "notes"}
    /\ Watching!Parents("tasks") = {} /\ Watching!Parents("task") = {"tasks"}
    /\ \A d \in Leaves : Watching!Parents(d) = {"task"}
    /\ Watching!Children["tasks"] = {"task"} /\ Watching!Children["task"] = Leaves
    /\ \A d \in Leaves : Watching!Children[d] = {} /\ Watching!Within(d) = {d}
    /\ Watching!Within("task") = {"task"} \cup Leaves
<1>1. /\ Watching!Root = "tasks" /\ Watching!Dirs = {"tasks", "task", "docs", "notes"}
      /\ Watching!Children["tasks"] = {"task"} /\ Watching!Children["task"] = Leaves
      /\ \A d \in Leaves : Watching!Children[d] = {}
  BY DEF Watching!Root, Watching!Dirs, Watching!Children, Leaves
<1>2. /\ Watching!Parents("tasks") = {} /\ Watching!Parents("task") = {"tasks"}
      /\ \A d \in Leaves : Watching!Parents(d) = {"task"}
  BY <1>1 DEF Watching!Parents, Leaves
<1>3. \A d \in Leaves : Watching!Within(d) = {d}
  BY <1>1 DEF Watching!Within
<1>4. Watching!Within("task") = {"task"} \cup Leaves
  BY <1>1 DEF Watching!Within, Leaves
<1> QED BY <1>1, <1>2, <1>3, <1>4

LEMMA EventTypes ==
    ASSUME EventInv
    PROVE  /\ edits \in Nat
           /\ exists \subseteq Watching!Dirs /\ known \subseteq Watching!Dirs
           /\ native \subseteq exists /\ native \subseteq known /\ "tasks" \in native
           /\ \A e \in events :
                 /\ e.op \in {"write", "create", "remove"} /\ e.dir \in Watching!Dirs
                 /\ e.by \in Watching!Dirs /\ e.at \in Nat /\ e.at <= edits
           /\ \A d \in Leaves : /\ d \in exists => "task" \in exists
                                /\ d \in known => "task" \in known
           /\ walk # None => walk \in Watching!Walks
<1>1. edits \in Nat BY BoundsAssumption DEF EventInv, Watching!TypeOK
<1>2. \A e \in events :
         /\ e.op \in {"write", "create", "remove"} /\ e.dir \in Watching!Dirs
         /\ e.by \in Watching!Dirs /\ e.at \in Nat /\ e.at <= edits
  BY BoundsAssumption DEF EventInv, Watching!TypeOK, ReporterInv, Watching!Changes
<1>3. \A d \in Leaves : /\ d \in exists => "task" \in exists
                        /\ d \in known => "task" \in known
  BY Layout DEF EventInv, TreeInv, Watching!TypeOK
<1> QED BY <1>1, <1>2, <1>3 DEF EventInv, TreeInv, Watching!TypeOK

\* A change, and the event it may be.
LEMMA Report ==
    ASSUME EventInv, Watching!Edit, NEW op \in {"write", "create", "remove"},
           NEW d \in Watching!Dirs, NEW by \in Watching!Dirs,
           events' = Watching!Notified(op, d, by)
    PROVE  /\ events' \subseteq Watching!Changes
           /\ \A e, f \in events' : e.at = f.at => e = f
           /\ edits' = edits + 1 /\ edits' \in 0 .. EventEdits
           /\ events \subseteq events'
           /\ \A e \in events : e.at < edits + 1
           /\ \A e \in events : Watching!IsFirst(e, events) => Watching!IsFirst(e, events')
           /\ \A e \in events' : e \in events \/
                 (by \in native /\ e.op = op /\ e.dir = d /\ e.by = by /\ e.at = edits + 1)
           /\ by \in native => \E e \in events' :
                 e.op = op /\ e.dir = d /\ e.by = by /\ e.at = edits + 1
<1> DEFINE new == [op |-> op, dir |-> d, by |-> by, at |-> edits + 1]
<1>1. /\ edits \in Nat /\ edits < EventEdits /\ edits' = edits + 1
      /\ events \subseteq Watching!Changes /\ \A e, f \in events : e.at = f.at => e = f
      /\ \A e \in events : e.at \in Nat /\ e.at <= edits
  BY EventTypes DEF Watching!Edit, EventInv, Watching!TypeOK
<1>2. events' = IF by \notin native THEN events ELSE events \cup {new}
  BY DEF Watching!Notified
<1>3. new \in Watching!Changes
  BY <1>1, BoundsAssumption DEF Watching!Changes
<1>4. new.op = op /\ new.dir = d /\ new.by = by /\ new.at = edits + 1 OBVIOUS
<1> HIDE DEF new
<1>5. \A e \in events : e.at < edits + 1 BY <1>1
<1>6. \A e \in events : Watching!IsFirst(e, events) => Watching!IsFirst(e, events')
  BY <1>1, <1>2, <1>4 DEF Watching!IsFirst
<1>7. \A e, f \in events' : e.at = f.at => e = f BY <1>1, <1>2, <1>4, <1>5
<1>8. edits' \in 0 .. EventEdits BY <1>1, BoundsAssumption
<1> QED BY <1>1, <1>2, <1>3, <1>4, <1>5, <1>6, <1>7, <1>8

\* Whatever is reported, and in whatever way the tree changes, the queue keeps
\* its order.
LEMMA EditQueue ==
    ASSUME EventInv, Watching!Edit, NEW op \in {"write", "create", "remove"},
           NEW d \in Watching!Dirs, NEW by \in Watching!Dirs,
           events' = Watching!Notified(op, d, by),
           native' \subseteq native, native' \subseteq exists', exists' \subseteq Watching!Dirs,
           \A x \in exists' : Watching!Parents(x) \subseteq exists', "tasks" \in native',
           \A x \in native \ native' : op = "remove" /\ d = x /\ by \in native,
           op # "write" =>
              \/ /\ d = "task" /\ by = "tasks"
                 /\ IF op = "create" THEN "task" \in exists' \ exists
                                     ELSE "task" \in exists \ exists'
              \/ /\ d \in Leaves /\ (by = "task" \/ (by = d /\ op = "remove"))
                 /\ "task" \in exists,
           op = "write" \/ d # "task" => ("task" \in exists' <=> "task" \in exists)
    PROVE  /\ Watching!TypeOK'
           /\ ReporterInv' /\ TreeInv' /\ KnownInv' /\ TurnInv' /\ FreshInv' /\ LeafInv'
           /\ WalkInv'
<1>1. /\ UNCHANGED <<known, walk, pending, stopped, gaveUp>> /\ unseen' = TRUE
  BY DEF Watching!Edit, Watching!loop
<1>2. /\ events' \subseteq Watching!Changes
      /\ \A e, f \in events' : e.at = f.at => e = f
      /\ edits' = edits + 1 /\ edits' \in 0 .. EventEdits
      /\ events \subseteq events'
      /\ \A e \in events : e.at < edits + 1
      /\ \A e \in events : Watching!IsFirst(e, events) => Watching!IsFirst(e, events')
      /\ \A e \in events' : e \in events \/
            (by \in native /\ e.op = op /\ e.dir = d /\ e.by = by /\ e.at = edits + 1)
      /\ by \in native => \E e \in events' :
            e.op = op /\ e.dir = d /\ e.by = by /\ e.at = edits + 1
  BY Report
<1>3. /\ edits \in Nat
      /\ exists \subseteq Watching!Dirs /\ known \subseteq Watching!Dirs
      /\ native \subseteq exists /\ native \subseteq known /\ "tasks" \in native
      /\ \A e \in events : e.at \in Nat
      /\ \A x \in Leaves : /\ x \in exists => "task" \in exists
                           /\ x \in known => "task" \in known
  BY EventTypes
<1>4. Watching!TypeOK' BY <1>1, <1>2, <1>3 DEF EventInv, Watching!TypeOK
<1>5. ReporterInv'
  BY <1>2, <1>3 DEF EventInv, ReporterInv
<1>6. TreeInv' BY DEF TreeInv
<1>7. KnownInv'
  <2> SUFFICES ASSUME NEW x \in known, x \notin native'
               PROVE  \E e \in events' : e.op = "remove" /\ e.dir = x
    BY <1>1 DEF KnownInv, Removals
  <2>1. CASE x \in native BY <1>2, <2>1
  <2>2. CASE x \notin native BY <1>2, <2>2 DEF EventInv, KnownInv, Removals
  <2> QED BY <2>1, <2>2
<1>8. TurnInv'
  <2>1. CASE op # "write" /\ d = "task"
    <3> QED BY <1>2, <1>3, <2>1 DEF EventInv, TurnInv, Creations, Removals, Leaves
  <2>2. CASE op = "write" \/ d # "task"
    <3>1. \A e \in events' : e.op # "write" /\ e.dir = "task" => e \in events
      BY <1>2, <2>2
    <3>2. Creations("task")' = Creations("task") /\ Removals("task")' = Removals("task")
      BY <1>2, <3>1 DEF Creations, Removals
    <3> QED BY <2>2, <3>2 DEF EventInv, TurnInv
  <2> QED BY <2>1, <2>2
<1>9. FreshInv'
  <2> SUFFICES ASSUME NEW c \in events', c.op = "create", c.dir = "task"
               PROVE  \/ \E r \in Removals("task")' : r.at < c.at
                      \/ "task" \notin known /\ walk = None
    BY <1>1 DEF FreshInv, Creations
  <2>1. Removals("task") \subseteq Removals("task")' BY <1>2 DEF Removals
  <2>2. CASE c \in events BY <2>1, <2>2 DEF EventInv, FreshInv, Creations
  <2>3. CASE c \notin events
    <3>1. c.at = edits + 1 /\ "task" \notin exists BY <1>2, <2>3 DEF Leaves
    <3>2. CASE Removals("task") # {}
      BY <1>2, <2>1, <3>1, <3>2 DEF Removals
    <3>3. CASE Removals("task") = {}
      BY <1>3, <3>1, <3>3 DEF EventInv, KnownInv, WalkInv
    <3> QED BY <3>2, <3>3
  <2> QED BY <2>2, <2>3
<1>10. LeafInv'
  <2> SUFFICES ASSUME NEW e \in events', e.op # "write", e.dir \in Leaves
               PROVE  /\ "task" \in known
                      /\ e.by \in known \/ Watching!IsFirst(e, events')
                      /\ \A r \in Removals("task")' : r.at < e.at =>
                            \E c \in Creations("task")' : r.at < c.at /\ c.at < e.at
    BY <1>1 DEF LeafInv, Watching!IsFirst
  <2>1. Creations("task") \subseteq Creations("task")' BY <1>2 DEF Creations
  <2>2. CASE e \in events
    <3>1. \A r \in Removals("task")' : r.at < e.at => r \in Removals("task")
      BY <1>2, <1>3, <2>2 DEF Removals
    <3> QED BY <1>2, <2>1, <2>2, <3>1 DEF EventInv, LeafInv
  <2>3. CASE e \notin events
    <3>1. /\ by \in native /\ e.op = op /\ e.dir = d /\ e.by = by /\ e.at = edits + 1
          /\ op # "write" /\ d \in Leaves /\ d # "task"
      BY <1>2, <2>3 DEF Leaves
    <3>2. Removals("task")' \subseteq Removals("task") BY <1>2, <3>1 DEF Removals
    <3>3. "task" \in known BY <1>3, <3>1
    <3>4. "task" \in exists BY <3>1
    <3>5. \A r \in Removals("task") : \E c \in Creations("task") : r.at < c.at
      BY <3>4 DEF EventInv, TurnInv
    <3>6. \A c \in Creations("task") : c.at < e.at BY <1>2, <3>1 DEF Creations
    <3> QED BY <1>3, <2>1, <3>1, <3>2, <3>3, <3>5, <3>6
  <2> QED BY <2>2, <2>3
<1>11. WalkInv'
  <2>1. Removals("task") \subseteq Removals("task")' BY <1>2 DEF Removals
  <2>2. "task" \in exists /\ "task" \notin exists' => Removals("task")' # {}
    BY <1>2 DEF Removals, Leaves
  <2> QED BY <1>1, <2>1, <2>2 DEF EventInv, WalkInv
<1> QED BY <1>4, <1>5, <1>6, <1>7, <1>8, <1>9, <1>10, <1>11

\* A change that is not reported is one of a directory that is yet to be found.
LEMMA EditReported ==
    ASSUME EventInv, Watching!Edit, ~gaveUp, NEW op \in {"write", "create", "remove"},
           NEW d \in Watching!Dirs, NEW by \in Watching!Dirs, by \in exists,
           events' = Watching!Notified(op, d, by)
    PROVE  Unreported'
<1>1. /\ events \subseteq events'
      /\ by \in native => events' # {}
      /\ UNCHANGED <<walk, pending>>
  BY Report DEF Watching!Edit, Watching!loop
<1>2. CASE by \in native
  <2>1. events' # {} BY <1>1, <1>2
  <2> QED BY <2>1 DEF Unreported
<1>3. CASE by \notin native
  <2>1. by = "task" \/ by \in Leaves BY <1>3, Layout, EventTypes DEF Leaves
  <2>2. events # {} \/ walk # None
    <3>1. CASE by = "task"
      BY <1>3, <3>1 DEF EventInv, Covered, TaskCovered, Creations
    <3>2. CASE by \in Leaves
      BY <1>3, <3>2 DEF EventInv, Covered, LeafCovered, Creations
    <3> QED BY <2>1, <3>1, <3>2
  <2>3. events' # {} \/ walk' # None BY <1>1, <2>2
  <2> QED BY <2>3 DEF Unreported
<1> QED BY <1>2, <1>3

LEMMA WriteInv == ASSUME EventInv, NEW d \in Watching!Dirs, Watching!Write(d) PROVE EventInv'
<1>1. /\ Watching!Edit /\ d \in exists /\ UNCHANGED <<exists, native>>
      /\ events' = Watching!Notified("write", d, d)
  BY DEF Watching!Write
<1>2. /\ Watching!TypeOK'
      /\ ReporterInv' /\ TreeInv' /\ KnownInv' /\ TurnInv' /\ FreshInv' /\ LeafInv' /\ WalkInv'
  BY <1>1, EditQueue, EventTypes DEF EventInv, TreeInv
<1>3. UNCHANGED <<known, walk, stopped, gaveUp>> BY <1>1 DEF Watching!Edit, Watching!loop
<1>4. \A x : Creations(x)' = Creations(x) /\ Removals(x)' = Removals(x)
  BY <1>1, Report DEF Creations, Removals
<1>5. ASSUME ~gaveUp PROVE Covered' /\ Unreported'
  <2>1. Covered'
    BY <1>1, <1>3, <1>4, <1>5 DEF EventInv, Covered, TaskCovered, LeafCovered
  <2> QED BY <1>1, <1>5, <2>1, EditReported
<1> QED BY <1>2, <1>3, <1>5 DEF EventInv

LEMMA CreateInv ==
    ASSUME EventInv, NEW d \in Watching!Dirs, NEW held \in SUBSET Watching!Children[d],
           Watching!Create(d, held)
    PROVE  EventInv'
<1>1. /\ Watching!Edit /\ d \notin exists /\ Watching!Parents(d) \subseteq exists
      /\ exists' = exists \cup {d} \cup held /\ UNCHANGED native
      /\ \E up \in Watching!Parents(d) : events' = Watching!Notified("create", d, up)
  BY DEF Watching!Create
<1>2. d = "task" \/ d \in Leaves BY <1>1, Layout, EventTypes DEF Leaves
<1>3. PICK up \in Watching!Parents(d) : events' = Watching!Notified("create", d, up) BY <1>1
<1>4. /\ d = "task" => up = "tasks" /\ held \subseteq Leaves
      /\ d \in Leaves => up = "task" /\ held = {}
      /\ up \in Watching!Dirs /\ up \in exists
  BY <1>1, <1>2, <1>3, Layout
<1>5. /\ exists' \subseteq Watching!Dirs
      /\ \A x \in exists' : Watching!Parents(x) \subseteq exists'
  <2>1. exists' \subseteq Watching!Dirs
    BY <1>1, <1>2, <1>4, Layout, EventTypes DEF Leaves
  <2>2. \A x \in exists : Watching!Parents(x) \subseteq exists' BY <1>1 DEF EventInv, TreeInv
  <2>3. Watching!Parents(d) \subseteq exists' BY <1>1
  <2>4. \A x \in held : Watching!Parents(x) = {d} /\ d \in exists'
    BY <1>1, <1>2, <1>4, Layout
  <2> QED BY <1>1, <2>1, <2>2, <2>3, <2>4
<1>6. /\ Watching!TypeOK'
      /\ ReporterInv' /\ TreeInv' /\ KnownInv' /\ TurnInv' /\ FreshInv' /\ LeafInv' /\ WalkInv'
  <2>1. native' \subseteq native /\ native' \subseteq exists' /\ "tasks" \in native'
    BY <1>1, EventTypes
  <2>2. \/ d = "task" /\ up = "tasks" /\ "task" \in exists' /\ "task" \notin exists
        \/ d \in Leaves /\ up = "task" /\ "task" \in exists
    BY <1>1, <1>2, <1>4
  <2>3. d # "task" => ("task" \in exists' <=> "task" \in exists)
    BY <1>1, <1>2, <1>4
  <2>4. \A x \in native \ native' : "create" = "remove" /\ d = x /\ up \in native BY <1>1
  <2> QED
    BY <1>1, <1>3, <1>4, <1>5, <2>1, <2>2, <2>3, <2>4, EditQueue
<1>7. UNCHANGED <<known, walk, stopped, gaveUp>> BY <1>1 DEF Watching!Edit, Watching!loop
<1>8. /\ \A x : Removals(x)' = Removals(x) /\ Creations(x) \subseteq Creations(x)'
      /\ \A x : \A r \in Removals(x) : r.at < edits + 1
      /\ up \in native => \E c \in Creations(d)' : c.at = edits + 1
  BY <1>1, <1>3, <1>4, Report DEF Creations, Removals
<1>9. ASSUME ~gaveUp PROVE Covered' /\ Unreported'
  <2>1. Unreported' BY <1>1, <1>3, <1>4, <1>9, EditReported
  <2>2. CASE d = "task"
    <3>1. Creations("task")' # {} BY <1>4, <1>8, <2>2, EventTypes
    <3> QED BY <2>1, <3>1 DEF Covered, TaskCovered, LeafCovered
  <2>3. CASE d \in Leaves
    <3>1. TaskCovered /\ \A x \in Leaves : LeafCovered(x) BY <1>9 DEF EventInv, Covered
    <3>2. TaskCovered'
      BY <1>1, <1>4, <1>7, <1>8, <2>3, <3>1 DEF TaskCovered, Leaves
    <3>3. ASSUME NEW x \in Leaves \ {d} PROVE LeafCovered(x)'
      BY <1>1, <1>4, <1>7, <1>8, <2>3, <3>1, <3>3 DEF LeafCovered
    <3>4. LeafCovered(d)'
      <4>1. CASE up \in native BY <1>8, <4>1 DEF LeafCovered
      <4>2. CASE Creations("task") # {} BY <1>8, <4>2 DEF LeafCovered
      <4>3. CASE up \notin native /\ Creations("task") = {}
        <5>1. "task" \in exists /\ "task" \notin native BY <1>1, <1>4, <2>3, <4>3
        <5>2. walk # None /\ "task" \in walk.listed BY <3>1, <4>3, <5>1 DEF TaskCovered
        <5>3. Removals("task") = {} BY <4>3, <5>1 DEF EventInv, TurnInv
        <5>4. "task" \notin known BY <5>1, <5>3 DEF EventInv, KnownInv
        <5>5. Removals(d) = {} BY <2>3, <5>4 DEF EventInv, LeafInv, Removals
        <5> QED BY <1>7, <1>8, <5>2, <5>5 DEF LeafCovered
      <4> QED BY <4>1, <4>2, <4>3
    <3> QED BY <2>1, <3>2, <3>3, <3>4 DEF Covered
  <2> QED BY <1>2, <2>2, <2>3
<1> QED BY <1>6, <1>7, <1>9 DEF EventInv

LEMMA RemoveInv == ASSUME EventInv, NEW d \in Watching!Dirs, Watching!Remove(d) PROVE EventInv'
<1>1. /\ Watching!Edit /\ d \in exists /\ d # "tasks"
      /\ Watching!Children[d] \cap exists = {}
      /\ exists' = exists \ {d} /\ native' = native \ {d}
      /\ \E up \in Watching!Parents(d) :
            events' = Watching!Notified("remove", d, IF up \in native THEN up ELSE d)
  BY Layout DEF Watching!Remove
<1>2. d = "task" \/ d \in Leaves BY <1>1, Layout, EventTypes DEF Leaves
<1>3. PICK up \in Watching!Parents(d) :
         events' = Watching!Notified("remove", d, IF up \in native THEN up ELSE d)
  BY <1>1
<1>4. PICK by \in Watching!Dirs : /\ by = (IF up \in native THEN up ELSE d)
                                  /\ events' = Watching!Notified("remove", d, by)
  BY <1>2, <1>3, Layout
<1>5. /\ d = "task" => by = "tasks" /\ "tasks" \in native
      /\ d \in Leaves => (by = "task" \/ by = d) /\ "task" \in exists
      /\ by \in exists
      /\ d \in native => by \in native
  BY <1>1, <1>2, <1>3, <1>4, Layout, EventTypes DEF Leaves
<1>6. /\ Watching!TypeOK'
      /\ ReporterInv' /\ TreeInv' /\ KnownInv' /\ TurnInv' /\ FreshInv' /\ LeafInv' /\ WalkInv'
  <2>1. \A x \in exists' : Watching!Parents(x) \subseteq exists'
    <3>1. \A x \in exists : x # "tasks" => Watching!Parents(x) # {d}
      BY <1>1, <1>2, Layout, EventTypes DEF Leaves
    <3> QED BY <1>1, <1>2, <3>1, Layout, EventTypes DEF EventInv, TreeInv, Leaves
  <2>2. /\ native' \subseteq native /\ native' \subseteq exists' /\ "tasks" \in native'
        /\ exists' \subseteq Watching!Dirs
        /\ \A x \in native \ native' : d = x /\ by \in native
    BY <1>1, <1>5, EventTypes
  <2>3. \/ d = "task" /\ by = "tasks" /\ "task" \notin exists' /\ "task" \in exists
        \/ d \in Leaves /\ (by = "task" \/ by = d) /\ "task" \in exists
    BY <1>1, <1>2, <1>5
  <2>4. d # "task" => ("task" \in exists' <=> "task" \in exists) BY <1>1
  <2> QED BY <1>1, <1>4, <2>1, <2>2, <2>3, <2>4, EditQueue
<1>7. UNCHANGED <<known, walk, stopped, gaveUp>> BY <1>1 DEF Watching!Edit, Watching!loop
<1>8. /\ \A x : Creations(x)' = Creations(x)
      /\ \A x : x # d => Removals(x)' = Removals(x)
  BY <1>1, <1>4, Report DEF Creations, Removals
<1>9. ASSUME ~gaveUp PROVE Covered' /\ Unreported'
  <2>1. Unreported' BY <1>1, <1>4, <1>5, <1>9, EditReported
  <2>2. TaskCovered /\ \A x \in Leaves : LeafCovered(x) BY <1>9 DEF EventInv, Covered
  <2>3. TaskCovered' BY <1>1, <1>7, <1>8, <2>2 DEF TaskCovered
  <2>4. ASSUME NEW x \in Leaves PROVE LeafCovered(x)'
    BY <1>1, <1>7, <1>8, <2>2 DEF LeafCovered
  <2> QED BY <2>1, <2>3, <2>4 DEF Covered
<1> QED BY <1>6, <1>7, <1>9 DEF EventInv

\* What the loop leaves in the queue keeps its order.
LEMMA StaysFirst ==
    ASSUME NEW rest, NEW queue, rest \subseteq queue, NEW e \in rest,
           Watching!IsFirst(e, queue)
    PROVE  Watching!IsFirst(e, rest)
  BY DEF Watching!IsFirst

LEMMA TakeWriteInv == ASSUME EventInv, NEW e \in events, Watching!TakeWrite(e) PROVE EventInv'
<1>1. /\ walk = None /\ e.op = "write" /\ events' = events \ {e} /\ pending' = TRUE
      /\ UNCHANGED <<exists, edits, unseen, gaveUp, native, known, walk, stopped>>
  BY DEF Watching!TakeWrite, Watching!TakeEvent, Watching!tree
<1>2. \A x : Creations(x)' = Creations(x) /\ Removals(x)' = Removals(x)
  BY <1>1 DEF Creations, Removals
<1>3. \A f \in events' :
         f \in events /\ (Watching!IsFirst(f, events) => Watching!IsFirst(f, events'))
  BY <1>1, StaysFirst
<1>4. Watching!TypeOK' BY <1>1 DEF EventInv, Watching!TypeOK
<1>5. ReporterInv' /\ TreeInv' BY <1>1 DEF EventInv, ReporterInv, TreeInv
<1>6. KnownInv' /\ TurnInv' /\ FreshInv' /\ WalkInv'
  BY <1>1, <1>2 DEF EventInv, KnownInv, TurnInv, FreshInv, WalkInv
<1>7. LeafInv' BY <1>1, <1>2, <1>3 DEF EventInv, LeafInv
<1>8. ~gaveUp => Covered' BY <1>1, <1>2 DEF EventInv, Covered, TaskCovered, LeafCovered
<1>9. Unreported' BY <1>1 DEF Unreported
<1> QED BY <1>1, <1>4, <1>5, <1>6, <1>7, <1>8, <1>9 DEF EventInv

LEMMA TakeCreateInv == ASSUME EventInv, NEW e \in events, Watching!TakeCreate(e) PROVE EventInv'
<1>1. /\ walk = None /\ e.op = "create" /\ events' = events \ {e}
      /\ Watching!IsFirst(e, events)
      /\ IF e.dir \in exists
         THEN walk' = Watching!Walking({e.dir}, {}) /\ UNCHANGED pending
         ELSE walk' = walk /\ pending' = TRUE
      /\ UNCHANGED <<exists, edits, unseen, gaveUp, native, known, stopped>>
  BY DEF Watching!TakeCreate, Watching!TakeEvent, Watching!tree
<1>2. /\ e.dir = "task" \/ e.dir \in Leaves
      /\ \A f \in events : e.at <= f.at
      /\ \A f \in events : f # e => e.at < f.at
  BY <1>1, EventTypes DEF EventInv, ReporterInv, Watching!IsFirst, Watching!TypeOK
<1>3. /\ \A x : Creations(x)' = Creations(x) \ {e} /\ Removals(x)' = Removals(x)
      /\ \A x : x # e.dir => Creations(x)' = Creations(x)
      /\ \A x : \A r \in Removals(x) : e.at < r.at
  BY <1>1, <1>2 DEF Creations, Removals
<1>4. \A f \in events' :
         f \in events /\ (Watching!IsFirst(f, events) => Watching!IsFirst(f, events'))
  BY <1>1, StaysFirst
<1>5. \/ walk' = None /\ e.dir \notin exists /\ pending' = TRUE
      \/ /\ e.dir \in exists /\ walk' \in Watching!Walks /\ walk' # None
         /\ walk'.listed = {e.dir} /\ walk'.stack = {}
  <2>1. CASE e.dir \in exists
    <3>1. walk' = [listed |-> {e.dir}, stack |-> {}]
      BY <1>1, <2>1 DEF Watching!Walking
    <3>2. walk' \in Watching!Walks
      BY <3>1, EventTypes DEF Watching!Walks
    <3> QED BY <2>1, <3>1, <3>2, BoundsAssumption
  <2> QED BY <1>1, <2>1
<1>6. Watching!TypeOK' BY <1>1, <1>5 DEF EventInv, Watching!TypeOK
<1>7. ReporterInv' /\ TreeInv' BY <1>1 DEF EventInv, ReporterInv, TreeInv
<1>8. KnownInv' BY <1>1, <1>3 DEF EventInv, KnownInv
<1>9. TurnInv'
  <2>1. \A r \in Removals("task") : \A c \in Creations("task") : r.at < c.at => c # e
    BY <1>2, <1>3, EventTypes DEF Removals, Creations
  <2> QED BY <1>1, <1>3, <2>1 DEF EventInv, TurnInv
<1>10. FreshInv'
  <2> SUFFICES ASSUME NEW c \in Creations("task"), c # e,
                      \A r \in Removals("task") : ~(r.at < c.at)
               PROVE  "task" \notin known /\ walk' = None
    BY <1>1, <1>3 DEF FreshInv
  <2>1. "task" \notin known BY DEF EventInv, FreshInv
  <2>2. e.dir # "task"
    <3>1. e.at < c.at BY <1>2 DEF Creations
    <3>2. e.dir = "task" => e \in Creations("task") BY <1>1 DEF Creations
    <3> QED BY <3>1, <3>2 DEF EventInv, TurnInv
  <2>3. "task" \in known BY <1>1, <1>2, <2>2 DEF EventInv, LeafInv
  <2> QED BY <2>1, <2>3
<1>11. LeafInv'
  <2> SUFFICES ASSUME NEW f \in events', f.op # "write", f.dir \in Leaves
               PROVE  /\ "task" \in known
                      /\ f.by \in known \/ Watching!IsFirst(f, events')
                      /\ \A r \in Removals("task") : r.at < f.at =>
                            \E c \in Creations("task")' : r.at < c.at /\ c.at < f.at
    BY <1>1, <1>3 DEF LeafInv
  <2>1. \A r \in Removals("task") : \A c \in Creations("task") : r.at < c.at => c # e
    BY <1>2, <1>3, EventTypes DEF Removals, Creations
  <2> QED BY <1>1, <1>3, <1>4, <2>1 DEF EventInv, LeafInv
<1>12. WalkInv'
  <2> SUFFICES ASSUME walk' # None PROVE WalkInv' BY DEF WalkInv
  <2>1. /\ e.dir \in exists /\ walk'.listed = {e.dir} /\ walk'.stack = {} BY <1>5
  <2>2. e.dir \in Leaves => "task" \in known BY <1>1 DEF EventInv, LeafInv
  <2>3. "task" \in exists BY <1>2, <2>1, EventTypes
  <2> QED BY <1>1, <1>2, <2>1, <2>2, <2>3 DEF WalkInv, Leaves
<1>13. ASSUME ~gaveUp PROVE Covered' /\ Unreported'
  <2>1. Unreported' BY <1>5 DEF Unreported
  <2>2. TaskCovered /\ \A x \in Leaves : LeafCovered(x) BY <1>13 DEF EventInv, Covered
  <2>3. CASE e.dir = "task"
    <3>1. CASE Creations("task")' # {}
      BY <2>1, <3>1 DEF Covered, TaskCovered, LeafCovered
    <3>2. CASE Creations("task")' = {} /\ "task" \in exists
      <4>1. Removals("task") = {}
        <5>1. \A r \in Removals("task") : \A c \in Creations("task") :
                 e.at < r.at /\ e.at \in Nat /\ r.at \in Nat /\ c = e
          BY <1>3, <3>2, EventTypes DEF Removals
        <5> QED BY <3>2, <5>1 DEF EventInv, TurnInv
      <4>2. "task" \notin known
        BY <1>1, <2>3, <4>1 DEF EventInv, FreshInv, Creations
      <4>3. \A x \in Leaves : Removals(x) = {}
        BY <4>2 DEF EventInv, LeafInv, Removals
      <4> QED BY <1>1, <1>3, <1>5, <2>1, <2>3, <3>2, <4>3
          DEF Covered, TaskCovered, LeafCovered
    <3>3. CASE "task" \notin exists
      BY <1>1, <2>1, <3>3, EventTypes DEF Covered, TaskCovered, LeafCovered
    <3> QED BY <3>1, <3>2, <3>3
  <2>4. CASE e.dir \in Leaves
    <3>1. Creations("task")' = Creations("task") BY <1>3, <2>4 DEF Leaves
    <3>2. TaskCovered' BY <1>1, <2>2, <3>1 DEF TaskCovered
    <3>3. ASSUME NEW x \in Leaves, x # e.dir PROVE LeafCovered(x)'
      BY <1>1, <1>3, <2>2, <3>1, <3>3 DEF LeafCovered
    <3>4. ASSUME e.dir \in exists PROVE LeafCovered(e.dir)'
      <4>1. CASE Creations("task") # {} BY <3>1, <4>1 DEF LeafCovered
      <4>2. CASE Removals(e.dir) = {} BY <1>3, <1>5, <3>4, <4>2 DEF LeafCovered
      <4>3. CASE Creations("task") = {} /\ Removals(e.dir) # {}
        <5>1. PICK c \in Creations(e.dir) : \A r \in Removals(e.dir) : r.at < c.at
          BY <1>1, <2>2, <2>4, <3>4, <4>3 DEF LeafCovered
        <5>2. c # e BY <1>2, <1>3, <4>3, <5>1, EventTypes DEF Removals, Creations
        <5> QED BY <1>3, <5>1, <5>2 DEF LeafCovered
      <4> QED BY <4>1, <4>2, <4>3
    <3>5. e.dir \notin exists => LeafCovered(e.dir)' BY <1>1 DEF LeafCovered
    <3> QED BY <2>1, <3>2, <3>3, <3>4, <3>5 DEF Covered
  <2> QED BY <1>2, <2>3, <2>4
<1> QED BY <1>1, <1>6, <1>7, <1>8, <1>9, <1>10, <1>11, <1>12, <1>13 DEF EventInv

\* An event is dropped with the watch that reported it, and everything about
\* the places that are forgotten with it, unless it is the next to be taken.
LEMMA TakeRemoveInv ==
    ASSUME EventInv, NEW e \in events, Watching!TakeRemove(e), ~stopped'
    PROVE  EventInv'
<1> DEFINE gone == Watching!Within(e.dir) \cap known
           rest == events \ {e}
<1>1. /\ walk = None /\ e.op = "remove" /\ Watching!IsFirst(e, events)
      /\ known' = known \ Watching!Within(e.dir) /\ native' = native \ gone
      /\ pending' = TRUE
      /\ UNCHANGED <<exists, edits, unseen, gaveUp, walk, stopped>>
  BY DEF EventInv, Watching!TakeRemove, Watching!TakeEvent, Watching!tree,
         Watching!ForgetPath, Watching!ForgetFails, Watching!Unwatch
<1>2. PICK sent \in SUBSET {f \in rest : Watching!IsFirst(f, rest)} :
         events' = {f \in rest : f.by \notin gone} \cup sent
  BY DEF Watching!TakeRemove, Watching!ForgetPath, Watching!ForgetFails, Watching!Unwatch
<1>3. /\ e.dir = "task" \/ e.dir \in Leaves
      /\ \A f \in events : f # e => e.at < f.at
  BY <1>1, EventTypes DEF EventInv, ReporterInv, Watching!IsFirst, Watching!TypeOK
<1>4. /\ \A x : Creations(x)' \subseteq Creations(x) /\ Removals(x)' \subseteq Removals(x) \ {e}
      /\ \A x : x # e.dir => e \notin Removals(x)
      /\ \A x : e \notin Creations(x)
  BY <1>1, <1>2 DEF Creations, Removals
<1>5. \A f \in rest : f.by \notin Watching!Within(e.dir) => f \in events'
  BY <1>2
<1>6. ASSUME NEW f \in events', ~Watching!IsFirst(f, events')
      PROVE  f \in events /\ f.by \notin gone /\ ~Watching!IsFirst(f, events)
  <2>1. f \in rest /\ ~Watching!IsFirst(f, rest)
    BY <1>2, <1>6, StaysFirst
  <2>2. f \notin sent BY <1>2, <2>1
  <2>3. ~Watching!IsFirst(f, events) BY <2>1, StaysFirst
  <2> QED BY <1>2, <2>1, <2>2, <2>3
<1>7. e.dir \in Watching!Dirs /\ e.dir \in Watching!Within(e.dir)
      /\ "tasks" \notin Watching!Within(e.dir)
  BY <1>3, Layout DEF Leaves
<1>8. Creations("task")' = Creations("task") /\ Removals("task")' = Removals("task") \ {e}
  <2>1. \A f \in Creations("task") \cup Removals("task") : f.by = "tasks"
    BY DEF EventInv, ReporterInv, Creations, Removals, Leaves
  <2> QED BY <1>4, <1>5, <1>7, <2>1 DEF Creations, Removals
<1>9. Watching!TypeOK'
  <2>1. \A x \in known' : Watching!Parents(x) \subseteq known'
    BY <1>1, <1>3, Layout, EventTypes DEF EventInv, Watching!TypeOK, Leaves
  <2>2. events' \subseteq events BY <1>2
  <2>3. native' \subseteq native /\ native' \subseteq known' BY <1>1, EventTypes
  <2> QED BY <1>1, <2>1, <2>2, <2>3 DEF EventInv, Watching!TypeOK
<1>10. ReporterInv' /\ TreeInv'
  BY <1>1, <1>2, <1>7 DEF EventInv, ReporterInv, TreeInv
<1>11. KnownInv'
  <2> SUFFICES ASSUME NEW x \in known, x \notin Watching!Within(e.dir), x \notin native'
               PROVE  Removals(x)' # {}
    BY <1>1 DEF KnownInv
  <2>1. x \notin native BY <1>1
  <2>2. PICK f \in Removals(x) : TRUE BY <2>1 DEF EventInv, KnownInv
  <2>3. f \in events /\ f.dir = x /\ f.op = "remove" /\ f # e /\ f \in rest
    BY <1>7, <2>2 DEF Removals
  <2>4. x \in Watching!Dirs /\ x # "tasks" BY <2>1, EventTypes
  <2>5. f.by \notin Watching!Within(e.dir)
    BY <1>3, <2>3, <2>4, Layout DEF EventInv, ReporterInv, Leaves
  <2>6. f \in events' BY <1>5, <2>3, <2>5
  <2> QED BY <2>3, <2>6 DEF Removals
<1>12. TurnInv'
  <2>1. \A c \in Creations("task") : e.at < c.at /\ e.at \in Nat /\ c.at \in Nat
    BY <1>1, <1>3, EventTypes DEF Creations
  <2> QED BY <1>1, <1>8, <2>1 DEF EventInv, TurnInv
<1>13. FreshInv'
  <2> SUFFICES ASSUME NEW c \in Creations("task"),
                      \A r \in Removals("task") \ {e} : ~(r.at < c.at)
               PROVE  "task" \notin known'
    BY <1>1, <1>8 DEF FreshInv
  <2>1. CASE e.dir = "task" BY <1>1, <1>7, <2>1
  <2>2. CASE e.dir # "task"
    <3>1. "task" \notin known BY <1>4, <2>2 DEF EventInv, FreshInv
    <3> QED BY <1>1, <3>1
  <2> QED BY <2>1, <2>2
<1>14. CASE e.dir = "task"
  <2>1. ASSUME NEW f \in events', f.op # "write", f.dir \in Leaves PROVE FALSE
    <3>1. f \in events /\ f # e /\ e.at < f.at BY <1>1, <1>2, <1>3, <2>1
    <3>2. PICK c \in Creations("task") : e.at < c.at /\ c.at < f.at
      BY <1>1, <1>14, <2>1, <3>1 DEF EventInv, LeafInv, Removals
    <3>3. c \in rest /\ c \in events /\ c.at \in Nat /\ f.at \in Nat
      BY <1>1, <3>1, <3>2, EventTypes DEF Creations
    <3>4. ~(f.at <= c.at) BY <3>2, <3>3
    <3>5. ~Watching!IsFirst(f, rest) /\ ~Watching!IsFirst(f, events)
      BY <3>3, <3>4 DEF Watching!IsFirst
    <3>6. f.by \in known BY <2>1, <3>1, <3>5 DEF EventInv, LeafInv
    <3>7. f.by \in Watching!Within("task")
      BY <2>1, <3>1, Layout DEF EventInv, ReporterInv, Leaves
    <3> QED BY <1>2, <1>14, <3>5, <3>6, <3>7
  <2>2. LeafInv' BY <2>1 DEF LeafInv
  <2>3. WalkInv' BY <1>1 DEF WalkInv
  <2>4. ASSUME ~gaveUp PROVE Covered' /\ Unreported'
    <3>1. Unreported' BY <1>1 DEF Unreported
    <3>2. CASE "task" \in exists
      <4>1. Creations("task")' # {}
        <5>1. e \in Removals("task") BY <1>1, <1>14 DEF Removals
        <5> QED BY <1>8, <3>2, <5>1 DEF EventInv, TurnInv
      <4> QED BY <3>1, <4>1 DEF Covered, TaskCovered, LeafCovered
    <3>3. CASE "task" \notin exists
      BY <1>1, <3>1, <3>3, EventTypes DEF Covered, TaskCovered, LeafCovered
    <3> QED BY <3>2, <3>3
  <2> QED BY <1>1, <1>9, <1>10, <1>11, <1>12, <1>13, <2>2, <2>3, <2>4 DEF EventInv
<1>15. CASE e.dir \in Leaves
  <2>1. /\ Watching!Within(e.dir) = {e.dir} /\ e.dir # "task"
        /\ Removals("task")' = Removals("task")
    BY <1>4, <1>8, <1>15, Layout DEF Leaves
  <2>2. LeafInv'
    <3> SUFFICES ASSUME NEW f \in events', f.op # "write", f.dir \in Leaves
                 PROVE  /\ "task" \in known'
                        /\ f.by \in known' \/ Watching!IsFirst(f, events')
                        /\ \A r \in Removals("task") : r.at < f.at =>
                              \E c \in Creations("task") : r.at < c.at /\ c.at < f.at
      BY <1>8, <2>1 DEF LeafInv
    <3>1. f \in events BY <1>2
    <3>2. "task" \in known' BY <1>1, <2>1, <3>1 DEF EventInv, LeafInv
    <3>3. ~Watching!IsFirst(f, events') => f.by \in known'
      BY <1>1, <1>6, <3>1 DEF EventInv, LeafInv
    <3> QED BY <3>1, <3>2, <3>3 DEF EventInv, LeafInv
  <2>3. WalkInv' BY <1>1 DEF WalkInv
  <2>4. ASSUME ~gaveUp PROVE Covered' /\ Unreported'
    <3>1. Unreported' BY <1>1 DEF Unreported
    <3>2. TaskCovered /\ \A x \in Leaves : LeafCovered(x) BY <2>4 DEF EventInv, Covered
    <3>3. TaskCovered' BY <1>1, <1>8, <2>1, <3>2 DEF TaskCovered
    <3>4. \A x \in Leaves : Creations(x)' = Creations(x)
      <4>1. \A x \in Leaves : \A c \in Creations(x) : c.by = "task"
        BY DEF EventInv, ReporterInv, Creations, Leaves
      <4> QED BY <1>4, <1>5, <2>1, <4>1 DEF Creations
    <3>5. ASSUME NEW x \in Leaves, x # e.dir PROVE LeafCovered(x)'
      BY <1>1, <1>4, <1>8, <2>1, <3>2, <3>4, <3>5 DEF LeafCovered
    <3>6. LeafCovered(e.dir)'
      <4>1. e \in Removals(e.dir) BY <1>1 DEF Removals
      <4> QED BY <1>1, <1>4, <1>8, <1>15, <3>2, <3>4, <4>1 DEF LeafCovered
    <3> QED BY <3>1, <3>3, <3>5, <3>6 DEF Covered
  <2> QED BY <1>1, <1>9, <1>10, <1>11, <1>12, <1>13, <2>2, <2>3, <2>4 DEF EventInv
<1> QED BY <1>3, <1>14, <1>15

LEMMA VisitInv == ASSUME EventInv, NEW d \in Watching!Dirs, Watching!Visit(d) PROVE EventInv'
<1>1. /\ walk # None /\ d \in walk.listed /\ walk \in Watching!Walks
      /\ UNCHANGED <<exists, edits, events, stopped, unseen>>
      /\ \/ /\ d \in exists
            /\ walk' = [listed |-> walk.listed \ {d}, stack |-> walk.stack \cup {d}]
            /\ known' = known \cup {d}
            /\ native' = IF d \in known THEN native ELSE native \cup {d}
            /\ UNCHANGED <<pending, gaveUp>>
         \/ d \notin exists /\ walk' = None /\ pending' = TRUE /\ gaveUp' = TRUE
            /\ UNCHANGED <<known, native>>
  BY EventTypes DEF Watching!Visit, Watching!tree, Watching!Walking, Watching!EndWalk
<1>2. d = "task" \/ d \in Leaves BY <1>1, Layout DEF EventInv, WalkInv, Leaves
<1>3. \A x : Creations(x)' = Creations(x) /\ Removals(x)' = Removals(x)
  BY <1>1 DEF Creations, Removals
<1>4. CASE d \notin exists
  <2>1. /\ UNCHANGED <<exists, edits, events, stopped, unseen, known, native>>
        /\ walk' = None /\ pending' = TRUE /\ gaveUp' = TRUE
    BY <1>1, <1>4
  <2>2. Watching!TypeOK' BY <2>1 DEF EventInv, Watching!TypeOK
  <2>3. ReporterInv' /\ TreeInv' /\ KnownInv' /\ TurnInv' /\ FreshInv' /\ LeafInv' /\ WalkInv'
    BY <1>3, <2>1 DEF EventInv, ReporterInv, TreeInv, KnownInv, TurnInv, FreshInv, LeafInv,
       WalkInv, Watching!IsFirst
  <2> QED BY <2>1, <2>2, <2>3 DEF EventInv
<1>5. CASE d \in exists
  <2>1. /\ UNCHANGED <<exists, edits, events, stopped, unseen, pending, gaveUp>>
        /\ walk' = [listed |-> walk.listed \ {d}, stack |-> walk.stack \cup {d}]
        /\ known' = known \cup {d}
        /\ native' = IF d \in known THEN native ELSE native \cup {d}
    BY <1>1, <1>5
  <2>2. /\ walk' \in Watching!Walks /\ walk' # None
        /\ walk'.listed = walk.listed \ {d} /\ walk'.stack = walk.stack \cup {d}
    BY <1>1, <2>1, BoundsAssumption DEF Watching!Walks
  <2>3. Watching!Parents(d) \subseteq known
    BY <1>1, <1>2, Layout, EventTypes DEF EventInv, WalkInv
  <2>4. Watching!TypeOK'
    BY <1>5, <2>1, <2>2, <2>3 DEF EventInv, Watching!TypeOK
  <2>5. ReporterInv' /\ TreeInv' /\ TurnInv'
    BY <1>3, <2>1 DEF EventInv, ReporterInv, TreeInv, TurnInv
  <2>6. KnownInv' BY <1>3, <2>1 DEF EventInv, KnownInv
  <2>7. FreshInv' BY <1>1, <1>3, <2>1 DEF EventInv, FreshInv
  <2>8. LeafInv' BY <1>3, <2>1 DEF EventInv, LeafInv, Watching!IsFirst
  <2>9. WalkInv'
    BY <1>1, <1>2, <1>3, <2>1, <2>2, EventTypes DEF EventInv, WalkInv, Leaves
  <2>10. d \in native' \/ Removals(d) # {}
    BY <2>1 DEF EventInv, KnownInv
  <2>11. ASSUME ~gaveUp PROVE Covered' /\ Unreported'
    <3>1. TaskCovered /\ \A x \in Leaves : LeafCovered(x) BY <2>11 DEF EventInv, Covered
    <3>2. Unreported' BY <2>2 DEF Unreported
    <3>3. TaskCovered'
      <4>1. d = "task" => "task" \in native' \/ Creations("task") # {}
        BY <1>5, <2>10 DEF EventInv, TurnInv
      <4> QED BY <1>3, <2>1, <2>2, <3>1, <4>1 DEF TaskCovered
    <3>4. ASSUME NEW x \in Leaves PROVE LeafCovered(x)'
      BY <1>1, <1>3, <2>1, <2>2, <2>10, <3>1 DEF LeafCovered
    <3> QED BY <3>2, <3>3, <3>4 DEF Covered
  <2> QED BY <2>1, <2>4, <2>5, <2>6, <2>7, <2>8, <2>9, <2>11 DEF EventInv
<1> QED BY <1>4, <1>5

\* The end of a walk, and the steps that leave queue and watches alone.
LEMMA WalkStep ==
    ASSUME EventInv, UNCHANGED <<exists, edits, events, known, native, stopped>>,
           walk' \in Watching!Walks \cup {None}, WalkInv', walk' = None \/ walk # None,
           pending' \in BOOLEAN, unseen' \in BOOLEAN, gaveUp' \in BOOLEAN,
           gaveUp' \/ (Covered' /\ Unreported')
    PROVE  EventInv'
<1>1. \A x : Creations(x)' = Creations(x) /\ Removals(x)' = Removals(x)
  BY DEF Creations, Removals
<1>2. Watching!TypeOK' BY DEF EventInv, Watching!TypeOK
<1>3. ReporterInv' /\ TreeInv' /\ KnownInv' /\ TurnInv' /\ FreshInv' /\ LeafInv'
  BY <1>1 DEF EventInv, ReporterInv, TreeInv, KnownInv, TurnInv, FreshInv, LeafInv,
     Watching!IsFirst
<1> QED BY <1>2, <1>3 DEF EventInv

LEMMA OpenInv == ASSUME EventInv, NEW d \in Watching!Dirs, Watching!Open(d) PROVE EventInv'
<1>1. /\ walk # None /\ walk.listed = {} /\ d \in walk.stack /\ walk \in Watching!Walks
      /\ UNCHANGED <<exists, edits, events, native, known, stopped, unseen>>
      /\ \/ /\ d \in exists
            /\ walk' = [listed |-> Watching!Children[d] \cap exists, stack |-> walk.stack \ {d}]
            /\ UNCHANGED <<pending, gaveUp>>
         \/ d \notin exists /\ walk' = None /\ pending' = TRUE /\ gaveUp' = TRUE
  BY EventTypes DEF Watching!Open, Watching!tree, Watching!Walking, Watching!EndWalk
<1>2. /\ unseen' \in BOOLEAN /\ pending' \in BOOLEAN /\ gaveUp' \in BOOLEAN
  BY <1>1 DEF EventInv, Watching!TypeOK
<1>3. CASE d \notin exists
  <2>1. walk' = None /\ gaveUp' = TRUE BY <1>1, <1>3
  <2>2. WalkInv' BY <2>1 DEF WalkInv
  <2> QED BY <1>1, <1>2, <2>1, <2>2, WalkStep
<1>4. CASE d \in exists
  <2>1. d = "task" \/ d \in Leaves BY <1>1, Layout DEF EventInv, WalkInv, Leaves
  <2>2. /\ d = "task" => Watching!Children[d] = Leaves
        /\ d \in Leaves => Watching!Children[d] = {}
    BY Layout
  <2>3. /\ walk' = [listed |-> Watching!Children[d] \cap exists, stack |-> walk.stack \ {d}]
        /\ UNCHANGED <<pending, gaveUp>>
    BY <1>1, <1>4
  <2>4. walk' \in Watching!Walks
    BY <1>1, <2>3, EventTypes DEF Watching!Walks
  <2>5. /\ walk' # None /\ walk'.listed = Watching!Children[d] \cap exists
        /\ walk'.stack = walk.stack \ {d}
    BY <2>3, <2>4, BoundsAssumption
  <2>6. \A x : Creations(x)' = Creations(x) /\ Removals(x)' = Removals(x)
    BY <1>1 DEF Creations, Removals
  <2>7. WalkInv'
    BY <1>1, <2>1, <2>2, <2>5, <2>6 DEF EventInv, WalkInv, Leaves
  <2>8. ASSUME ~gaveUp PROVE Covered' /\ Unreported'
    <3>1. TaskCovered /\ \A x \in Leaves : LeafCovered(x) BY <2>8 DEF EventInv, Covered
    <3>2. TaskCovered' BY <1>1, <2>6, <3>1 DEF TaskCovered
    <3>3. ASSUME NEW x \in Leaves PROVE LeafCovered(x)'
      BY <1>1, <2>1, <2>2, <2>5, <2>6, <3>1 DEF LeafCovered, Leaves
    <3> QED BY <2>5, <3>2, <3>3 DEF Covered, Unreported
  <2> QED BY <1>1, <1>2, <2>3, <2>4, <2>7, <2>8, WalkStep
<1> QED BY <1>3, <1>4

LEMMA FinishInv == ASSUME EventInv, Watching!FinishWalk PROVE EventInv'
<1>1. /\ walk = [listed |-> {}, stack |-> {}] /\ walk' = None /\ pending' = TRUE
      /\ gaveUp' = (gaveUp \/ FALSE)
      /\ UNCHANGED <<exists, edits, events, native, known, stopped, unseen>>
  BY DEF Watching!FinishWalk, Watching!EndWalk, Watching!Walking, Watching!tree
<1>2. walk # None
  <2>1. walk \in Watching!Walks BY <1>1 DEF Watching!Walks
  <2> QED BY <2>1, BoundsAssumption
<1>3. /\ unseen' \in BOOLEAN /\ gaveUp' \in BOOLEAN /\ gaveUp' = gaveUp
  BY <1>1 DEF EventInv, Watching!TypeOK
<1>4. WalkInv' BY <1>1 DEF WalkInv
<1>5. \A x : Creations(x)' = Creations(x) /\ Removals(x)' = Removals(x)
  BY <1>1 DEF Creations, Removals
<1>6. ~gaveUp => Covered'
  BY <1>1, <1>5 DEF EventInv, Covered, TaskCovered, LeafCovered
<1>7. Unreported' BY <1>1 DEF Unreported
<1> QED BY <1>1, <1>2, <1>3, <1>4, <1>6, <1>7, WalkStep

LEMMA ReportInv == ASSUME EventInv, Watching!ReportChanges PROVE EventInv'
<1>1. /\ walk = None /\ pending' = FALSE /\ unseen' = FALSE
      /\ UNCHANGED <<exists, edits, events, native, known, walk, stopped, gaveUp>>
  BY DEF Watching!ReportChanges, Watching!tree
<1>2. gaveUp' \in BOOLEAN /\ gaveUp' = gaveUp BY <1>1 DEF EventInv, Watching!TypeOK
<1>3. WalkInv' BY <1>1 DEF WalkInv
<1>4. \A x : Creations(x)' = Creations(x) /\ Removals(x)' = Removals(x)
  BY <1>1 DEF Creations, Removals
<1>5. ~gaveUp => Covered'
  BY <1>1, <1>4 DEF EventInv, Covered, TaskCovered, LeafCovered
<1>6. Unreported' BY <1>1 DEF Unreported
<1>7. walk' = None /\ pending' \in BOOLEAN /\ unseen' \in BOOLEAN BY <1>1
<1>8. gaveUp' \/ (Covered' /\ Unreported') BY <1>2, <1>5, <1>6
<1> QED BY <1>1, <1>2, <1>3, <1>7, <1>8, WalkStep

LEMMA InitEventInv == ASSUME Watching!Init PROVE EventInv
<1>1. /\ exists \subseteq Watching!Dirs /\ "tasks" \in exists
      /\ \A d \in exists : Watching!Parents(d) \subseteq exists
      /\ edits = 0 /\ native = exists /\ known = exists
      /\ events = {} /\ walk = None /\ pending = FALSE /\ stopped = FALSE
      /\ unseen = FALSE /\ gaveUp = FALSE
  <2>1. PICK more \in SUBSET Watching!Dirs : exists = {"tasks"} \cup more
    BY Layout DEF Watching!Init
  <2> QED BY <2>1, Layout DEF Watching!Init
<1>2. Watching!TypeOK
  <2>1. 0 \in 0 .. EventEdits BY BoundsAssumption
  <2> QED BY <1>1, <2>1 DEF Watching!TypeOK
<1>3. \A x : Creations(x) = {} /\ Removals(x) = {} BY <1>1 DEF Creations, Removals
<1>4. ReporterInv /\ TreeInv /\ KnownInv /\ TurnInv /\ FreshInv /\ LeafInv /\ WalkInv
  BY <1>1, <1>3 DEF ReporterInv, TreeInv, KnownInv, TurnInv, FreshInv, LeafInv, WalkInv
<1>5. Covered /\ Unreported
  BY <1>1, <1>3 DEF Covered, TaskCovered, LeafCovered, Unreported
<1> QED BY <1>1, <1>2, <1>4, <1>5 DEF EventInv

LEMMA NextEventInv == ASSUME EventInv, Watching!Next, ~stopped' PROVE EventInv'
  BY WriteInv, CreateInv, RemoveInv, VisitInv, OpenInv, TakeWriteInv, TakeRemoveInv,
     TakeCreateInv, FinishInv, ReportInv DEF Watching!Next

LEMMA IdleEventInv == ASSUME EventInv, UNCHANGED <<edits, watching>> PROVE EventInv'
<1>1. UNCHANGED <<exists, edits, native, events, known, walk, pending, stopped, unseen, gaveUp>>
  BY DEF watching
<1>2. \A x : Creations(x)' = Creations(x) /\ Removals(x)' = Removals(x)
  BY <1>1 DEF Creations, Removals
<1>3. WalkInv' BY <1>1, <1>2 DEF EventInv, WalkInv
<1>4. ~gaveUp => Covered' /\ Unreported'
  BY <1>1, <1>2 DEF EventInv, Covered, TaskCovered, LeafCovered, Unreported
<1>5. /\ walk' \in Watching!Walks \cup {None}
      /\ pending' \in BOOLEAN /\ unseen' \in BOOLEAN /\ gaveUp' \in BOOLEAN
  BY <1>1 DEF EventInv, Watching!TypeOK
<1> QED BY <1>1, <1>3, <1>4, <1>5, WalkStep

\* A loop that returned: it watches and knows nothing any more, nothing is left
\* to take or report.
StoppedInv == Watching!TypeOK /\ stopped

LEMMA StoppingInv == ASSUME EventInv, Watching!Next, stopped' PROVE StoppedInv'
<1>1. PICK e \in events : Watching!TakeEvent("remove", e) /\ Watching!ForgetFails(e.dir)
                        /\ UNCHANGED walk
  BY DEF EventInv, Watching!Next, Watching!Write, Watching!Create, Watching!Remove,
         Watching!Edit, Watching!loop, Watching!Visit, Watching!Open, Watching!FinishWalk,
         Watching!ReportChanges, Watching!TakeWrite, Watching!TakeCreate, Watching!TakeRemove
<1>2. /\ walk = None /\ e.op = "remove"
      /\ known' = known \ Watching!Within(e.dir)
      /\ native' = {} /\ events' = {} /\ pending' = FALSE /\ stopped' = TRUE
      /\ UNCHANGED <<exists, edits, walk, unseen, gaveUp>>
  BY <1>1 DEF Watching!TakeEvent, Watching!ForgetFails, Watching!tree
<1>3. e.dir = "task" \/ e.dir \in Leaves BY <1>2 DEF EventInv, ReporterInv
<1>4. \A x \in known' : Watching!Parents(x) \subseteq known'
  BY <1>2, <1>3, Layout, EventTypes DEF EventInv, Watching!TypeOK, Leaves
<1>5. Watching!TypeOK BY DEF EventInv
<1>6. \A f, g \in events' : f.at = g.at => f = g BY <1>2
<1> QED BY <1>2, <1>4, <1>5, <1>6 DEF StoppedInv, Watching!TypeOK

LEMMA StaysStopped == ASSUME StoppedInv, Watching!Next PROVE StoppedInv'
<1>1. native = {} /\ events = {} /\ walk = None /\ ~pending /\ stopped
  BY DEF StoppedInv, Watching!TypeOK
<1>2. walk # [listed |-> {}, stack |-> {}]
  <2>1. [listed |-> {}, stack |-> {}] \in Watching!Walks BY DEF Watching!Walks
  <2> QED BY <1>1, <2>1, BoundsAssumption
<1>3. /\ Watching!Edit /\ native' = {} /\ events' = {} /\ exists' \in SUBSET Watching!Dirs
  <2>1. PICK d \in Watching!Dirs : \/ Watching!Write(d) \/ Watching!Remove(d)
                                   \/ \E held \in SUBSET Watching!Children[d] :
                                         Watching!Create(d, held)
    BY <1>1, <1>2 DEF Watching!Next, Watching!Visit, Watching!Open, Watching!FinishWalk,
       Watching!Walking, Watching!ReportChanges
  <2>2. Watching!Children[d] \subseteq Watching!Dirs BY Layout DEF Leaves
  <2>3. exists \in SUBSET Watching!Dirs BY DEF StoppedInv, Watching!TypeOK
  <2> QED BY <1>1, <2>1, <2>2, <2>3
          DEF Watching!Write, Watching!Remove, Watching!Create, Watching!Notified
<1>4. /\ edits' \in 0 .. EventEdits /\ unseen' = TRUE
      /\ UNCHANGED <<known, walk, pending, stopped, gaveUp>>
  BY <1>3, BoundsAssumption DEF StoppedInv, Watching!TypeOK, Watching!Edit, Watching!loop
<1> QED BY <1>1, <1>3, <1>4 DEF StoppedInv, Watching!TypeOK

Watched == ~kqueue => EventInv \/ StoppedInv

\* However often directories come, go and come back, and whatever the loop is
\* doing meanwhile: once it has nothing left to do it has reported every change
\* and watches every directory, unless a walk gave up or an error of
\* native.Remove ended the loop (watcher.go:174-228, 278-304, 346-360).
THEOREM WatchingMissesNothing == Spec => []NothingMissed
<1>1. Init => Watched BY InitEventInv DEF Init, Watched
<1>2. Watched /\ [Next]_vars => Watched'
  <2> SUFFICES ASSUME Watched, [Next]_vars, ~kqueue' PROVE EventInv' \/ StoppedInv'
    BY DEF Watched
  <2>1. CASE ~kqueue /\ Watching!Next
    BY <2>1, NextEventInv, StoppingInv, StaysStopped DEF Watched
  <2>2. CASE kqueue /\ UNCHANGED kqueue BY <2>2
  <2>3. CASE UNCHANGED vars
    <3>1. EventInv => EventInv' BY <2>3, IdleEventInv DEF vars
    <3>2. StoppedInv => StoppedInv'
      BY <2>3 DEF vars, watching, StoppedInv, Watching!TypeOK
    <3> QED BY <2>3, <3>1, <3>2 DEF vars, Watched
  <2> QED BY <2>1, <2>2, <2>3 DEF Next
<1>3. Watched => NothingMissed
  <2> SUFFICES ASSUME EventInv, Watching!Idle, ~gaveUp
               PROVE  ~unseen /\ exists \subseteq native
    BY EventTypes DEF Watched, NothingMissed, Watching!NothingMissed, EventInv, StoppedInv
  <2>1. events = {} /\ walk = None /\ ~pending BY DEF Watching!Idle
  <2>2. \A x : Creations(x) = {} BY <2>1 DEF Creations
  <2>3. ~unseen BY <2>1 DEF EventInv, Unreported
  <2>4. "task" \in exists => "task" \in native
    BY <2>1, <2>2 DEF EventInv, Covered, TaskCovered
  <2>5. \A d \in Leaves : d \in exists => d \in native
    BY <2>1, <2>2 DEF EventInv, Covered, LeafCovered
  <2> QED BY <2>3, <2>4, <2>5, Layout, EventTypes DEF Leaves
<1> QED BY <1>1, <1>2, <1>3, PTL DEF Spec

=============================================================================
