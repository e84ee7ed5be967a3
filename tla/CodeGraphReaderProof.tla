------------------------- MODULE CodeGraphReaderProof -------------------------
(***************************************************************************)
(* Machine-checked proofs about the reader of the CodeGraph index, while   *)
(* another program commits to it, checkpoints it and replaces it, for      *)
(* every number of requests and commits.                                   *)
(*                                                                         *)
(* The files only grow, and a change leaves a trace in their times         *)
(* (Grows).  So a request that found no WAL, opened the main file as       *)
(* immutable and found all as it was afterwards has seen one state         *)
(* (RequestInv), and so has the schema whose check it puts into the cache  *)
(* (CacheInv).                                                             *)
(***************************************************************************)
EXTENDS CodeGraphReader, TLAPS

USE PageAssumption, BoundsAssumption, NoneAssumption

Phases == {"idle", "main", "wal", "shm", "open", "schema", "first", "second", "done"}
Requests ==
    [phase : Phases, asked : Nat, info : {None} \cup [inode : Nat, stamp : Nat],
     wal : Nat \cup {None}, shm : BOOLEAN, immutable : BOOLEAN, inode : Nat, first : Nat,
     answer : {None} \cup [error : Errors \cup {None}, pages : {None} \cup (Nat \X Nat)]]

\* The files.  Without frames in the WAL the main file is all there is.
FilesInv ==
    /\ version \in 0 .. MaxCommits /\ compatible \subseteq 0 .. version
    /\ inode \in 1 .. version + 1
    /\ pages \in [1 .. MaxCommits + 1 -> [PageNos -> 0 .. version]]
    /\ stamp \in [main : Nat, wal : Nat]
    /\ wal \in {"none", "empty", "frames"} /\ shm \in BOOLEAN
    /\ faults \in 0 .. MaxFaults
    /\ polled[2] \in {"none", "empty", "frames"}
    /\ wal # "frames" => \A p \in PageNos : pages[inode][p] = version

Main == [inode |-> inode, stamp |-> stamp.main]

\* A request, in the order it goes: what it looked at is no newer than the
\* files are; a database opened as immutable has all that there was when the
\* request was made, and so has one that was replaced.
Opened == {"schema", "first", "second"}
Looked == {"shm", "open", "schema"}

RequestInv(r) ==
    /\ req[r].asked <= version
    /\ req[r].phase \in Looked \cup {"wal"} =>
          /\ req[r].info \in [inode : Nat, stamp : Nat]
          /\ req[r].info.inode <= inode /\ req[r].info.stamp <= stamp.main
    /\ req[r].phase \in Looked =>
          /\ req[r].wal = None => req[r].immutable
          /\ req[r].wal # None => req[r].wal <= stamp.wal
          /\ req[r].immutable /\ req[r].info = Main /\ req[r].wal = stamp.wal
                => pages[inode][1] = version
    /\ req[r].phase \in {"shm", "open"} /\ req[r].immutable =>
          \A p \in PageNos : pages[inode][p] >= req[r].asked
    /\ req[r].phase \in {"open", "schema"} => req[r].immutable \/ req[r].shm
    /\ req[r].phase \in Opened =>
          /\ req[r].inode \in 1 .. inode
          /\ req[r].immutable \/ req[r].inode # inode =>
                \A p \in PageNos : pages[req[r].inode][p] >= req[r].asked
    /\ req[r].phase = "schema" => req[r].inode >= req[r].info.inode
    /\ req[r].phase = "second" => req[r].first >= req[r].asked
    /\ req[r].phase = "done" =>
          /\ req[r].answer \in [error : Errors \cup {None}, pages : {None} \cup (Nat \X Nat)]
          /\ req[r].answer.error = None =>
                /\ req[r].answer.pages \in Nat \X Nat
                /\ \A p \in PageNos : req[r].answer.pages[p] >= req[r].asked

\* The files the cache knows: with the WAL they had they are compatible, and
\* without one their main file is.
CacheInv ==
    cache # None =>
        /\ cache.info.inode <= inode /\ cache.info.stamp <= stamp.main
        /\ cache.wal # None => cache.wal <= stamp.wal
        /\ cache.info = Main /\ cache.wal = stamp.wal => version \in compatible
        /\ cache.info = Main /\ cache.wal = None => pages[inode][1] \in compatible

Inv ==
    /\ FilesInv
    /\ req \in [Reqs -> Requests] /\ cache \in Identities \cup {None}
    /\ \A r \in Reqs : RequestInv(r)
    /\ CacheInv

-----------------------------------------------------------------------------
LEMMA InitInv == Init => Inv
<1> SUFFICES ASSUME Init PROVE Inv
  OBVIOUS
<1>1. Idle \in Requests /\ Idle.asked = 0 /\ Idle.phase = "idle"
  BY DEF Idle, Requests, Phases
<1>2. FilesInv
  <2>1. polled[2] = "none" BY DEF Init, Fingerprint
  <2>2. pages \in [1 .. MaxCommits + 1 -> [PageNos -> 0 .. version]] BY DEF Init
  <2>3. version = 0 /\ compatible = {0} /\ inode = 1 /\ stamp = [main |-> 0, wal |-> 0]
    BY DEF Init
  <2>4. \A p \in PageNos : pages[inode][p] = version BY <2>3 DEF Init
  <2>5. /\ version \in 0 .. MaxCommits /\ compatible \subseteq 0 .. version
        /\ inode \in 1 .. version + 1 /\ stamp \in [main : Nat, wal : Nat]
        /\ faults \in 0 .. MaxFaults
    BY <2>3 DEF Init
  <2> QED BY <2>1, <2>2, <2>4, <2>5 DEF Init, FilesInv
<1>3. ASSUME NEW r \in Reqs PROVE RequestInv(r)
  <2>1. req[r] = Idle /\ version = 0 BY DEF Init
  <2> QED BY <1>1, <2>1 DEF RequestInv, Looked, Opened
<1> QED BY <1>1, <1>2, <1>3 DEF Init, Inv, CacheInv

-----------------------------------------------------------------------------
(* The writer: the index only grows, and a change of the files leaves a    *)
(* trace in their times.                                                   *)

Grows ==
    /\ version <= version' /\ compatible \subseteq compatible' /\ inode <= inode'
    /\ stamp.main <= stamp'.main /\ stamp.wal <= stamp'.wal
    /\ \A i \in 1 .. inode, p \in PageNos : pages[i][p] <= pages'[i][p]
    /\ Main' = Main => pages'[inode] = pages[inode]
    /\ Main' = Main /\ stamp'.wal = stamp.wal => version' = version
    /\ inode' # inode => \A p \in PageNos : /\ pages'[inode][p] = version
                                            /\ pages'[inode'][p] >= version

Writer ==
    Commit \/ (\E p \in PageNos : CheckpointPage(p)) \/ EndCheckpoint \/ Replace \/ LoseShm
        \/ Recover

LEMMA TouchType ==
    ASSUME stamp \in [main : Nat, wal : Nat], NEW file \in {"main", "wal"}, Touch(file)
    PROVE  /\ stamp' \in [main : Nat, wal : Nat]
           /\ stamp'[file] = stamp[file] + 1
           /\ \A other \in {"main", "wal"} \ {file} : stamp'[other] = stamp[other]
  BY DEF Touch

LEMMA WriterGrows ==
    ASSUME FilesInv, Writer
    PROVE  FilesInv' /\ Grows /\ UNCHANGED <<reader, page>>
<1> USE DEF FilesInv
<1>0. polled' = polled
  BY DEF Writer, Commit, CheckpointPage, EndCheckpoint, Replace, LoseShm, Recover, page
<1>1. CASE Commit
  <2>1. /\ stamp' \in [main : Nat, wal : Nat]
        /\ stamp'.wal = stamp.wal + 1 /\ stamp'.main = stamp.main
    BY <1>1, TouchType DEF Commit
  <2>2. /\ version < MaxCommits /\ version' = version + 1
        /\ compatible' \in {compatible, compatible \cup {version'}}
        /\ wal' = "frames" /\ shm' = TRUE
        /\ UNCHANGED <<inode, pages, faults, reader, page>>
    BY <1>1 DEF Commit
  <2>3. compatible' \subseteq 0 .. version' /\ compatible \subseteq compatible' BY <2>2
  <2>4. pages' \in [1 .. MaxCommits + 1 -> [PageNos -> 0 .. version']] BY <2>2
  <2>5. FilesInv' BY <1>0, <2>1, <2>2, <2>3, <2>4
  <2>6. Grows BY <2>1, <2>2, <2>3 DEF Grows, Main
  <2> QED BY <2>2, <2>5, <2>6
<1>2. ASSUME NEW p \in PageNos, CheckpointPage(p)
      PROVE  FilesInv' /\ Grows /\ UNCHANGED <<reader, page>>
  <2>1. /\ stamp' \in [main : Nat, wal : Nat]
        /\ stamp'.main = stamp.main + 1 /\ stamp'.wal = stamp.wal
    BY <1>2, TouchType DEF CheckpointPage
  <2>2. /\ wal = "frames"
        /\ pages' = [pages EXCEPT ![inode][p] = version]
        /\ UNCHANGED <<version, compatible, inode, wal, shm, faults, reader, page>>
    BY <1>2 DEF CheckpointPage
  <2>3. inode \in 1 .. MaxCommits + 1 OBVIOUS
  <2>4. pages' \in [1 .. MaxCommits + 1 -> [PageNos -> 0 .. version]]
    <3>1. [pages[inode] EXCEPT ![p] = version] \in [PageNos -> 0 .. version] BY <2>3
    <3>2. pages' = [pages EXCEPT ![inode] = [pages[inode] EXCEPT ![p] = version]] BY <2>2
    <3> QED BY <3>1, <3>2
  <2>5. \A i \in 1 .. inode, q \in PageNos : pages[i][q] <= pages'[i][q]
    <3>1. SUFFICES ASSUME NEW i \in 1 .. inode, NEW q \in PageNos
                   PROVE  pages[i][q] <= pages'[i][q]
      OBVIOUS
    <3>2. pages[i][q] \in 0 .. version /\ i \in 1 .. MaxCommits + 1 BY <2>3
    <3>3. pages'[i][q] = IF i = inode /\ q = p THEN version ELSE pages[i][q]
      BY <2>2, <2>3, <3>2
    <3> QED BY <3>2, <3>3
  <2>6. FilesInv' BY <1>0, <2>1, <2>2, <2>4
  <2>7. Grows BY <2>1, <2>2, <2>5 DEF Grows, Main
  <2> QED BY <2>2, <2>6, <2>7
<1>3. CASE EndCheckpoint
  <2>1. /\ stamp' \in [main : Nat, wal : Nat]
        /\ stamp'.wal = stamp.wal + 1 /\ stamp'.main = stamp.main
    BY <1>3, TouchType DEF EndCheckpoint
  <2>2. /\ \A p \in PageNos : pages[inode][p] = version
        /\ UNCHANGED <<version, compatible, inode, pages, faults, reader, page>>
        /\ wal' \in {"empty", "none"} /\ shm' \in BOOLEAN
    BY <1>3 DEF EndCheckpoint
  <2>3. FilesInv' BY <1>0, <2>1, <2>2
  <2>4. Grows BY <2>1, <2>2 DEF Grows, Main
  <2> QED BY <2>2, <2>3, <2>4
<1>4. CASE Replace
  <2>1. /\ stamp' \in [main : Nat, wal : Nat]
        /\ stamp'.main = stamp.main + 1 /\ stamp'.wal = stamp.wal
    BY <1>4, TouchType DEF Replace
  <2>2. /\ wal = "none" /\ version < MaxCommits /\ version' = version + 1
        /\ compatible' \in {compatible, compatible \cup {version'}}
        /\ inode' = inode + 1
        /\ pages' = [pages EXCEPT ![inode'] = [p \in PageNos |-> version']]
        /\ UNCHANGED <<wal, shm, faults, reader, page>>
    BY <1>4 DEF Replace
  <2>3. compatible' \subseteq 0 .. version' /\ compatible \subseteq compatible' BY <2>2
  <2>4. inode' \in 1 .. MaxCommits + 1 /\ inode \in 1 .. MaxCommits + 1
        /\ inode' \in 1 .. version' + 1
    BY <2>2
  <2>5. /\ pages'[inode'] = [p \in PageNos |-> version']
        /\ \A i \in 1 .. inode : pages'[i] = pages[i]
    BY <2>2, <2>4
  <2>6. pages' \in [1 .. MaxCommits + 1 -> [PageNos -> 0 .. version']]
    <3>1. [p \in PageNos |-> version'] \in [PageNos -> 0 .. version'] BY <2>2
    <3>2. pages \in [1 .. MaxCommits + 1 -> [PageNos -> 0 .. version']] BY <2>2
    <3> QED BY <2>2, <2>4, <3>1, <3>2
  <2>7. FilesInv' BY <1>0, <2>1, <2>2, <2>3, <2>4, <2>5, <2>6
  <2>8. \A p \in PageNos : pages[inode][p] = version BY <2>2
  <2>9. Grows BY <2>1, <2>2, <2>3, <2>4, <2>5, <2>8 DEF Grows, Main
  <2> QED BY <2>2, <2>7, <2>9
<1>5. CASE LoseShm \/ Recover
  <2>1. /\ UNCHANGED <<version, compatible, inode, pages, stamp, wal, reader, page>>
        /\ shm' \in BOOLEAN /\ faults' \in 0 .. MaxFaults
    <3>1. CASE LoseShm
      <4>1. faults \in 0 .. MaxFaults /\ faults < MaxFaults /\ faults' = faults + 1
        BY <3>1 DEF LoseShm
      <4>2. faults' \in 0 .. MaxFaults BY <4>1
      <4>3. shm' \in BOOLEAN BY <3>1 DEF LoseShm
      <4> QED BY <3>1, <4>2, <4>3 DEF LoseShm
    <3>2. CASE Recover BY <3>2 DEF Recover
    <3> QED BY <1>5, <3>1, <3>2
  <2>2. FilesInv' BY <1>0, <2>1
  <2>3. Grows BY <2>1 DEF Grows, Main
  <2> QED BY <2>1, <2>2, <2>3
<1> QED BY <1>1, <1>2, <1>3, <1>4, <1>5 DEF Writer

LEMMA InodeType ==
    ASSUME NEW v \in 0 .. MaxCommits, NEW i \in 1 .. v + 1
    PROVE  v \in Nat /\ i \in Nat /\ i \in 1 .. MaxCommits + 1
  OBVIOUS

LEMMA WriterInv == Inv /\ Writer => Inv'
<1> SUFFICES ASSUME Inv, Writer PROVE Inv'
  OBVIOUS
<1>1. FilesInv /\ FilesInv' /\ Grows /\ UNCHANGED <<reader, page>>
  BY WriterGrows DEF Inv
<1>2. UNCHANGED <<req, cache>> BY <1>1 DEF reader
<1>3. inode \in Nat /\ inode' \in Nat /\ stamp \in [main : Nat, wal : Nat]
      /\ stamp' \in [main : Nat, wal : Nat] /\ version \in Nat /\ version' \in Nat
      /\ inode \in 1 .. MaxCommits + 1 /\ inode' \in 1 .. MaxCommits + 1
  <2>1. stamp \in [main : Nat, wal : Nat] /\ stamp' \in [main : Nat, wal : Nat]
    BY <1>1 DEF FilesInv
  <2>2. version \in 0 .. MaxCommits /\ inode \in 1 .. version + 1 BY <1>1 DEF FilesInv
  <2>3. version' \in 0 .. MaxCommits /\ inode' \in 1 .. version' + 1 BY <1>1 DEF FilesInv
  <2>4. version \in Nat /\ inode \in Nat /\ inode \in 1 .. MaxCommits + 1 BY <2>2, InodeType
  <2>5. version' \in Nat /\ inode' \in Nat /\ inode' \in 1 .. MaxCommits + 1 BY <2>3, InodeType
  <2> QED BY <2>1, <2>4, <2>5
<1>4. ASSUME NEW info \in [inode : Nat, stamp : Nat], info = Main',
             info.inode <= inode, info.stamp <= stamp.main
      PROVE  Main' = Main
  BY <1>1, <1>3, <1>4 DEF Grows, Main
<1>5. /\ \A i \in 1 .. inode, p \in PageNos : /\ pages[i][p] \in Nat
                                              /\ pages'[i][p] \in Nat
      /\ \A p \in PageNos : pages'[inode'][p] \in Nat
  BY <1>1, <1>3 DEF FilesInv
<1>6. ASSUME NEW r \in Reqs PROVE RequestInv(r)'
  <2> DEFINE q == req[r]
  <2>1. RequestInv(r) /\ q \in Requests /\ req'[r] = q BY <1>2 DEF Inv
  <2>2. q.asked <= version' BY <1>1, <1>3, <2>1 DEF RequestInv, Grows, Requests
  <2>3. q.phase \in Looked \cup {"wal"} =>
          /\ q.info \in [inode : Nat, stamp : Nat]
          /\ q.info.inode <= inode' /\ q.info.stamp <= stamp'.main
    BY <1>1, <1>3, <2>1 DEF RequestInv, Grows
  <2>4. q.phase \in Looked =>
          /\ q.wal = None => q.immutable
          /\ q.wal # None => q.wal <= stamp'.wal
          /\ q.immutable /\ q.info = Main' /\ q.wal = stamp'.wal => pages'[inode'][1] = version'
    <3> SUFFICES ASSUME q.phase \in Looked PROVE
          /\ q.wal = None => q.immutable
          /\ q.wal # None => q.wal <= stamp'.wal
          /\ q.immutable /\ q.info = Main' /\ q.wal = stamp'.wal => pages'[inode'][1] = version'
      OBVIOUS
    <3>1. q.wal # None => q.wal \in Nat /\ q.wal <= stamp.wal /\ q.wal <= stamp'.wal
      BY <1>1, <1>3, <2>1 DEF RequestInv, Grows, Requests
    <3>2. ASSUME q.immutable, q.info = Main', q.wal = stamp'.wal
          PROVE  pages'[inode'][1] = version'
      <4>1. Main' = Main BY <1>4, <2>1, <3>2 DEF RequestInv
      <4>2. stamp'.wal = stamp.wal BY <1>1, <1>3, <3>1, <3>2 DEF Grows
      <4>3. inode' = inode /\ pages'[inode] = pages[inode] /\ version' = version
        BY <1>1, <4>1, <4>2 DEF Grows, Main
      <4>4. pages[inode][1] = version BY <2>1, <3>2, <4>1, <4>2 DEF RequestInv
      <4> QED BY <4>3, <4>4
    <3> QED BY <2>1, <3>1, <3>2 DEF RequestInv
  <2>5. q.phase \in {"shm", "open"} /\ q.immutable =>
          \A p \in PageNos : pages'[inode'][p] >= q.asked
    <3> SUFFICES ASSUME q.phase \in {"shm", "open"}, q.immutable, NEW p \in PageNos
                 PROVE  pages'[inode'][p] >= q.asked
      OBVIOUS
    <3>1. pages[inode][p] >= q.asked /\ q.asked \in Nat /\ q.asked <= version
      BY <2>1 DEF RequestInv, Requests
    <3>2. CASE inode' = inode
      <4>1. pages[inode][p] <= pages'[inode][p] BY <1>1, <1>3 DEF Grows, FilesInv
      <4> QED BY <1>3, <1>5, <3>1, <3>2, <4>1 DEF FilesInv
    <3>3. CASE inode' # inode BY <1>1, <1>3, <1>5, <3>1, <3>3 DEF Grows
    <3> QED BY <3>2, <3>3
  <2>6. q.phase \in Opened =>
          /\ q.inode \in 1 .. inode'
          /\ q.immutable \/ q.inode # inode' =>
                \A p \in PageNos : pages'[q.inode][p] >= q.asked
    <3> SUFFICES ASSUME q.phase \in Opened
                 PROVE  /\ q.inode \in 1 .. inode'
                        /\ q.immutable \/ q.inode # inode' =>
                              \A p \in PageNos : pages'[q.inode][p] >= q.asked
      OBVIOUS
    <3>1. q.inode \in 1 .. inode /\ q.asked \in Nat /\ q.asked <= version
      BY <2>1 DEF RequestInv, Requests
    <3>2. q.inode \in 1 .. inode' BY <1>1, <1>3, <3>1 DEF Grows
    <3>3. ASSUME q.immutable \/ q.inode # inode', NEW p \in PageNos
          PROVE  pages'[q.inode][p] >= q.asked
      <4>1. pages[q.inode][p] <= pages'[q.inode][p] BY <1>1, <3>1 DEF Grows
      <4>2. CASE q.immutable \/ q.inode # inode
        <5>1. pages[q.inode][p] >= q.asked BY <2>1, <4>2 DEF RequestInv
        <5> QED BY <1>5, <3>1, <4>1, <5>1
      <4>3. CASE q.inode = inode /\ ~q.immutable
        <5>1. pages'[inode][p] = version BY <1>1, <3>3, <4>3 DEF Grows
        <5> QED BY <1>3, <3>1, <4>3, <5>1
      <4> QED BY <4>2, <4>3
    <3> QED BY <3>2, <3>3
  <2>7. /\ q.phase \in {"open", "schema"} => q.immutable \/ q.shm
        /\ q.phase = "schema" => q.inode >= q.info.inode
        /\ q.phase = "second" => q.first >= q.asked
        /\ q.phase = "done" =>
              /\ q.answer \in [error : Errors \cup {None}, pages : {None} \cup (Nat \X Nat)]
              /\ q.answer.error = None =>
                    /\ q.answer.pages \in Nat \X Nat
                    /\ \A p \in PageNos : q.answer.pages[p] >= q.asked
    BY <2>1 DEF RequestInv
  <2> QED BY <1>2, <2>2, <2>3, <2>4, <2>5, <2>6, <2>7 DEF RequestInv
<1>7. CacheInv'
  <2> SUFFICES ASSUME cache # None
               PROVE  /\ cache.info.inode <= inode' /\ cache.info.stamp <= stamp'.main
                      /\ cache.wal # None => cache.wal <= stamp'.wal
                      /\ cache.info = Main' /\ cache.wal = stamp'.wal
                            => version' \in compatible'
                      /\ cache.info = Main' /\ cache.wal = None
                            => pages'[inode'][1] \in compatible'
    BY <1>2 DEF CacheInv
  <2>1. /\ cache.info \in [inode : Nat, stamp : Nat] /\ cache.wal \in Nat \cup {None}
        /\ cache.info.inode <= inode /\ cache.info.stamp <= stamp.main
        /\ cache.wal # None => cache.wal <= stamp.wal
        /\ cache.info = Main /\ cache.wal = stamp.wal => version \in compatible
        /\ cache.info = Main /\ cache.wal = None => pages[inode][1] \in compatible
    BY DEF Inv, CacheInv, Identities
  <2>2. /\ cache.info.inode <= inode' /\ cache.info.stamp <= stamp'.main
        /\ cache.wal # None => cache.wal <= stamp'.wal
    BY <1>1, <1>3, <2>1 DEF Grows
  <2>3. cache.info = Main' => Main' = Main BY <1>4, <2>1
  <2>4. ASSUME cache.info = Main', cache.wal = stamp'.wal PROVE version' \in compatible'
    <3>1. stamp'.wal = stamp.wal BY <1>1, <1>3, <2>1, <2>4 DEF Grows
    <3> QED BY <1>1, <2>1, <2>3, <2>4, <3>1 DEF Grows
  <2>5. ASSUME cache.info = Main', cache.wal = None PROVE pages'[inode'][1] \in compatible'
    <3>1. Main' = Main /\ inode' = inode BY <2>3, <2>5 DEF Main
    <3> QED BY <1>1, <2>1, <2>5, <3>1 DEF Grows
  <2> QED BY <2>2, <2>4, <2>5
<1> QED BY <1>1, <1>2, <1>6, <1>7 DEF Inv

-----------------------------------------------------------------------------
(* The requests *)

\* A step of one request leaves the files and the other requests alone.
LEMMA RequestStep ==
    ASSUME Inv, NEW r \in Reqs, NEW new \in Requests, req' = [req EXCEPT ![r] = new],
           UNCHANGED index, polled' \in {polled, Fingerprint},
           RequestInv(r)', cache' \in Identities \cup {None}, CacheInv'
    PROVE  Inv'
<1>1. FilesInv' BY DEF Inv, FilesInv, index, Fingerprint
<1>2. req' \in [Reqs -> Requests] BY DEF Inv
<1>3. ASSUME NEW s \in Reqs PROVE RequestInv(s)'
  <2>1. CASE s = r BY <2>1
  <2>2. CASE s # r
    <3>1. req'[s] = req[s] /\ RequestInv(s) BY <2>2 DEF Inv
    <3> QED BY <3>1 DEF RequestInv, index, Main
  <2> QED BY <2>1, <2>2
<1> QED BY <1>1, <1>2, <1>3 DEF Inv

LEMMA CacheKept ==
    ASSUME Inv, UNCHANGED <<index, cache>>
    PROVE  CacheInv' /\ cache' \in Identities \cup {None}
  BY DEF Inv, CacheInv, index, Main

LEMMA StartingType ==
    ASSUME version \in Nat
    PROVE  /\ Starting \in Requests /\ Idle \in Requests
           /\ Starting.phase = "main" /\ Starting.asked = version
           /\ Idle.phase = "idle" /\ Idle.asked = 0
  BY DEF Starting, Idle, Requests, Phases

\* Asking, polling and delivering.
LEMMA BeginInv ==
    ASSUME Inv, Poll \/ \E r \in Reqs : Ask(r) \/ Deliver(r)
    PROVE  Inv'
<1>0. version \in Nat BY DEF Inv, FilesInv
<1>1. ASSUME NEW r \in Reqs, NEW new \in {Starting, Idle}, req' = [req EXCEPT ![r] = new],
             UNCHANGED <<index, cache>>, polled' \in {polled, Fingerprint}
      PROVE  Inv'
  <2>1. new \in Requests /\ new.asked <= version /\ new.phase \in {"main", "idle"}
    BY <1>0, StartingType
  <2>2. req'[r] = new BY <1>1 DEF Inv
  <2>3. RequestInv(r)' BY <1>1, <2>1, <2>2 DEF RequestInv, Looked, Opened, index
  <2> QED BY <1>1, <2>1, <2>3, CacheKept, RequestStep
<1>2. CASE Poll BY <1>1, <1>2 DEF Poll
<1>3. ASSUME NEW r \in Reqs, Ask(r) PROVE Inv' BY <1>1, <1>3 DEF Ask, page
<1>4. ASSUME NEW r \in Reqs, Deliver(r) PROVE Inv' BY <1>1, <1>4 DEF Deliver
<1> QED BY <1>2, <1>3, <1>4

\* Looking at the files.
LEMMA LookInv ==
    ASSUME Inv, NEW r \in Reqs, StatMain(r) \/ StatWal(r) \/ StatShm(r) \/ Open(r)
    PROVE  Inv'
<1> DEFINE q == req[r]
<1>0. /\ FilesInv /\ q \in Requests /\ RequestInv(r)
      /\ version \in Nat /\ inode \in Nat /\ stamp.main \in Nat /\ stamp.wal \in Nat
  BY DEF Inv, FilesInv
<1>1. UNCHANGED <<index, cache, page>>
  BY DEF StatMain, StatWal, StatShm, Open, At
<1>2. UNCHANGED <<version, inode, pages, stamp, polled>> BY <1>1 DEF index, page
<1>3. ASSUME NEW new \in Requests, req' = [req EXCEPT ![r] = new], RequestInv(r)'
      PROVE  Inv'
  BY <1>1, <1>2, <1>3, CacheKept, RequestStep
<1>4. CASE StatMain(r)
  <2> DEFINE new == [q EXCEPT !.phase = "wal", !.info = Main]
  <2>1. req' = [req EXCEPT ![r] = new]
    <3>1. [new EXCEPT !.asked = q.asked] = new BY <1>0 DEF Requests
    <3> QED BY <1>4, <3>1 DEF StatMain, At, Main
  <2>2. Main \in [inode : Nat, stamp : Nat] BY <1>0 DEF Main
  <2>3. /\ new \in Requests /\ new.phase = "wal" /\ new.info = Main /\ new.asked = q.asked
    BY <1>0, <2>2 DEF Requests, Phases
  <2> HIDE DEF new
  <2>4. req'[r] = new BY <2>1 DEF Inv
  <2>5. RequestInv(r)'
    BY <1>0, <1>2, <2>2, <2>3, <2>4 DEF RequestInv, Looked, Opened, Main
  <2> QED BY <1>3, <2>1, <2>3, <2>5
<1>5. CASE StatWal(r)
  <2> DEFINE new == [q EXCEPT !.phase = "shm", !.immutable = wal # "frames",
                              !.wal = IF wal = "none" THEN None ELSE stamp.wal]
  <2>0. q.phase = "wal" BY <1>5 DEF StatWal, At
  <2>1. req' = [req EXCEPT ![r] = new]
    <3>1. [new EXCEPT !.asked = q.asked] = new BY <1>0 DEF Requests
    <3> QED BY <1>5, <3>1 DEF StatWal, At
  <2>2. /\ new \in Requests /\ new.phase = "shm" /\ new.immutable = (wal # "frames")
        /\ new.info = q.info /\ new.asked = q.asked
        /\ new.wal = IF wal = "none" THEN None ELSE stamp.wal
    BY <1>0 DEF Requests, Phases
  <2> HIDE DEF new
  <2>3. req'[r] = new BY <2>1 DEF Inv
  <2>4. wal # "frames" => \A p \in PageNos : pages[inode][p] = version BY <1>0 DEF FilesInv
  <2>5. q.info \in [inode : Nat, stamp : Nat] /\ q.info.inode <= inode
        /\ q.info.stamp <= stamp.main /\ q.asked <= version
    BY <1>0, <2>0 DEF RequestInv
  <2>6. RequestInv(r)'
    BY <1>0, <1>2, <2>2, <2>3, <2>4, <2>5 DEF RequestInv, Looked, Opened, Main, PageNos, Requests
  <2> QED BY <1>3, <2>1, <2>2, <2>6
<1>6. CASE StatShm(r)
  <2>0. q.phase = "shm" BY <1>6 DEF StatShm, At
  <2>1. CASE q.immutable \/ shm
    <3> DEFINE new == [q EXCEPT !.phase = "open", !.shm = shm]
    <3>1. req' = [req EXCEPT ![r] = new]
      <4>1. [new EXCEPT !.asked = q.asked] = new BY <1>0 DEF Requests
      <4> QED BY <1>6, <2>1, <4>1 DEF StatShm, At
    <3>2. /\ new \in Requests /\ new.phase = "open" /\ new.immutable = q.immutable
          /\ new.info = q.info /\ new.asked = q.asked /\ new.wal = q.wal /\ new.shm = shm
      BY <1>0 DEF Requests, Phases, FilesInv
    <3> HIDE DEF new
    <3>3. req'[r] = new BY <3>1 DEF Inv
    <3>4. RequestInv(r)'
      BY <1>0, <1>2, <2>0, <2>1, <3>2, <3>3 DEF RequestInv, Looked, Opened, Main
    <3> QED BY <1>3, <3>1, <3>2, <3>4
  <2>2. CASE ~(q.immutable \/ shm)
    <3> DEFINE new == [Answered(r, Failed("busy")) EXCEPT !.asked = q.asked]
    <3>1. req' = [req EXCEPT ![r] = new] BY <1>6, <2>2 DEF StatShm, At
    <3>2. /\ new \in Requests /\ new.phase = "done" /\ new.asked = q.asked
          /\ new.answer = Failed("busy")
          /\ Failed("busy") \in [error : Errors \cup {None}, pages : {None} \cup (Nat \X Nat)]
          /\ Failed("busy").error # None
      BY <1>0 DEF Requests, Phases, Answered, Idle, Failed, Errors
    <3> HIDE DEF new
    <3>3. req'[r] = new BY <3>1 DEF Inv
    <3>4. RequestInv(r)' BY <1>0, <1>2, <3>2, <3>3 DEF RequestInv, Looked, Opened
    <3> QED BY <1>3, <3>1, <3>2, <3>4
  <2> QED BY <2>1, <2>2
<1>7. CASE Open(r)
  <2> DEFINE new == [q EXCEPT !.phase = "schema", !.inode = inode]
  <2>0. q.phase = "open" BY <1>7 DEF Open, At
  <2>1. req' = [req EXCEPT ![r] = new]
    <3>1. [new EXCEPT !.asked = q.asked] = new BY <1>0 DEF Requests
    <3> QED BY <1>7, <3>1 DEF Open, At
  <2>2. /\ new \in Requests /\ new.phase = "schema" /\ new.immutable = q.immutable
        /\ new.info = q.info /\ new.asked = q.asked /\ new.wal = q.wal /\ new.shm = q.shm
        /\ new.inode = inode
    BY <1>0 DEF Requests, Phases
  <2> HIDE DEF new
  <2>3. req'[r] = new BY <2>1 DEF Inv
  <2>4. inode \in 1 .. inode BY <1>0 DEF FilesInv
  <2>5. RequestInv(r)'
    BY <1>0, <1>2, <2>0, <2>2, <2>3, <2>4 DEF RequestInv, Looked, Opened, Main
  <2> QED BY <1>3, <2>1, <2>2, <2>5
<1> QED BY <1>4, <1>5, <1>6, <1>7

\* What a request reads is none of the past.
LEMMA ViewIsRecent ==
    ASSUME Inv, NEW r \in Reqs, req[r].phase \in Opened, NEW p \in PageNos
    PROVE  View(r, p) = None \/ (View(r, p) \in Nat /\ View(r, p) >= req[r].asked)
<1>0. /\ RequestInv(r) /\ req[r] \in Requests /\ version \in Nat
      /\ req[r].inode \in 1 .. inode /\ req[r].asked <= version
  BY DEF Inv, FilesInv, RequestInv
<1>1. CASE req[r].immutable \/ req[r].inode # inode
  <2>1. req[r].inode \in 1 .. MaxCommits + 1
    <3>1. version \in 0 .. MaxCommits /\ inode \in 1 .. version + 1 BY DEF Inv, FilesInv
    <3>2. inode \in 1 .. MaxCommits + 1 BY <3>1, InodeType
    <3> QED BY <1>0, <3>2
  <2>2. pages[req[r].inode][p] \in Nat
    <3>1. pages[req[r].inode][p] \in 0 .. version BY <2>1 DEF Inv, FilesInv
    <3> QED BY <3>1
  <2>3. pages[req[r].inode][p] >= req[r].asked BY <1>0, <1>1 DEF RequestInv
  <2> QED BY <1>1, <2>2, <2>3 DEF View
<1>2. CASE ~(req[r].immutable \/ req[r].inode # inode)
  BY <1>0, <1>2 DEF View
<1> QED BY <1>1, <1>2

LEMMA Numbers == ASSUME Inv PROVE None \notin compatible /\ compatible \subseteq Nat
<1>1. compatible \subseteq 0 .. version BY DEF Inv, FilesInv
<1>2. compatible \subseteq Nat BY <1>1
<1> QED BY <1>2

\* When the schema was found to be the expected one, and the files are still
\* those the request looked at, it is.
LEMMA CheckedIsTrue ==
    ASSUME Inv, NEW r \in Reqs, req[r].phase = "schema", View(r, 1) \in compatible,
           req[r].info = Main
    PROVE  /\ req[r].wal = stamp.wal => version \in compatible
           /\ req[r].wal = None => pages[inode][1] \in compatible
<1>0. /\ FilesInv /\ RequestInv(r) /\ req[r] \in Requests /\ req[r].phase \in Looked \cap Opened
      /\ inode \in Nat /\ stamp.wal \in Nat
  BY DEF Inv, FilesInv, Looked, Opened
<1>1. req[r].inode = inode
  <2>1. req[r].inode \in 1 .. inode /\ req[r].inode >= req[r].info.inode
    BY <1>0 DEF RequestInv
  <2>2. req[r].info.inode = inode BY DEF Main
  <2> QED BY <1>0, <2>1, <2>2
<1>2. CASE req[r].immutable
  <2>1. View(r, 1) = pages[inode][1] BY <1>1, <1>2 DEF View
  <2>2. req[r].wal = stamp.wal => pages[inode][1] = version BY <1>0, <1>2 DEF RequestInv
  <2> QED BY <2>1, <2>2
<1>3. CASE ~req[r].immutable
  <2>1. View(r, 1) = version BY <1>1, <1>3, Numbers DEF View
  <2>2. req[r].wal # None BY <1>0, <1>3 DEF RequestInv
  <2> QED BY <2>1, <2>2
<1> QED BY <1>2, <1>3

\* A request that has its answer.
LEMMA AnswerInv ==
    ASSUME Inv, NEW r \in Reqs, UNCHANGED <<index, cache, page>>,
           NEW answer \in [error : Errors \cup {None}, pages : {None} \cup (Nat \X Nat)],
           req' = [req EXCEPT ![r] = [Answered(r, answer) EXCEPT !.asked = req[r].asked]],
           answer.error = None =>
              /\ answer.pages \in Nat \X Nat
              /\ \A p \in PageNos : answer.pages[p] >= req[r].asked
    PROVE  Inv'
<1> DEFINE new == [Answered(r, answer) EXCEPT !.asked = req[r].asked]
<1>1. req[r].asked \in Nat /\ req[r].asked <= version BY DEF Inv, Requests, RequestInv
<1>2. /\ new \in Requests /\ new.phase = "done" /\ new.asked = req[r].asked
      /\ new.answer = answer
  BY <1>1 DEF Requests, Phases, Answered, Idle
<1>3. req' = [req EXCEPT ![r] = new] OBVIOUS
<1> HIDE DEF new
<1>4. req'[r] = new BY <1>3 DEF Inv
<1>5. RequestInv(r)' BY <1>1, <1>2, <1>4 DEF RequestInv, Looked, Opened, index
<1>6. polled' \in {polled, Fingerprint} BY DEF page
<1> QED BY <1>2, <1>3, <1>5, <1>6, CacheKept, RequestStep

LEMMA FailedType ==
    ASSUME NEW error \in Errors
    PROVE  /\ Failed(error) \in [error : Errors \cup {None}, pages : {None} \cup (Nat \X Nat)]
           /\ Failed(error).error # None
  BY DEF Failed

LEMMA SchemaInv == ASSUME Inv, NEW r \in Reqs, CheckSchema(r) PROVE Inv'
<1> DEFINE q == req[r]
           new == [q EXCEPT !.phase = "first", !.info = None, !.wal = None, !.shm = FALSE]
<1>0. /\ q.phase = "schema" /\ UNCHANGED <<index, page>> /\ q \in Requests /\ RequestInv(r)
  BY DEF CheckSchema, Inv, Checked, At
<1>1. CASE cache = Identity(r) \/ View(r, 1) \in compatible
  <2>1. req' = [req EXCEPT ![r] = new]
    <3>1. [new EXCEPT !.asked = q.asked] = new BY <1>0 DEF Requests
    <3> QED BY <1>1, <3>1 DEF CheckSchema, Checked, At
  <2>2. /\ new \in Requests /\ new.phase = "first" /\ new.asked = q.asked
        /\ new.immutable = q.immutable /\ new.inode = q.inode
    BY <1>0 DEF Requests, Phases
  <2> HIDE DEF new
  <2>3. req'[r] = new BY <2>1 DEF Inv
  <2>4. RequestInv(r)' BY <1>0, <2>2, <2>3 DEF RequestInv, Looked, Opened, index
  <2>5. CacheInv' /\ cache' \in Identities \cup {None}
    <3>1. CASE cache = Identity(r)
      <4>1. cache' = cache BY <3>1 DEF CheckSchema, Checked
      <4> QED BY <1>0, <4>1, CacheKept
    <3>2. CASE cache # Identity(r)
      <4>1. cache' = Identity(r) BY <1>1, <3>2 DEF CheckSchema, Checked
      <4>2. /\ q.info \in [inode : Nat, stamp : Nat]
            /\ q.info.inode <= inode /\ q.info.stamp <= stamp.main
            /\ q.wal \in Nat \cup {None}
            /\ q.wal # None => q.wal <= stamp.wal
            /\ q.shm \in BOOLEAN
        BY <1>0 DEF RequestInv, Looked, Requests
      <4>3. Identity(r) \in Identities /\ Identity(r).info = q.info /\ Identity(r).wal = q.wal
        <5>1. Identity(r) = [info |-> q.info, wal |-> q.wal, shm |-> q.shm] BY DEF Identity
        <5>2. q.info \in [inode : Nat, stamp : Nat] /\ q.wal \in Nat \cup {None}
              /\ q.shm \in BOOLEAN
          BY <4>2
        <5> HIDE DEF q
        <5>3. [info |-> q.info, wal |-> q.wal, shm |-> q.shm]
                \in [info : [inode : Nat, stamp : Nat], wal : Nat \cup {None}, shm : BOOLEAN]
          BY <5>2
        <5>4. Identity(r) \in Identities BY <5>1, <5>3 DEF Identities
        <5> QED BY <5>1, <5>4
      <4>4. UNCHANGED <<inode, stamp, version, compatible, pages>> BY <1>0 DEF index
      <4>5. /\ q.info = Main /\ q.wal = stamp.wal => version \in compatible
            /\ q.info = Main /\ q.wal = None => pages[inode][1] \in compatible
        BY <1>0, <1>1, <3>2, CheckedIsTrue
      <4>6. Main' = Main BY <4>4 DEF Main
      <4>7. CacheInv'
        <5>1. /\ cache'.info.inode <= inode' /\ cache'.info.stamp <= stamp'.main
              /\ cache'.wal # None => cache'.wal <= stamp'.wal
          <6>1. cache'.info = q.info /\ cache'.wal = q.wal BY <4>1, <4>3
          <6>2. q.info.inode <= inode' /\ q.info.stamp <= stamp'.main BY <4>2, <4>4
          <6>3. q.wal # None => q.wal <= stamp'.wal BY <4>2, <4>4
          <6> QED BY <6>1, <6>2, <6>3
        <5>2. /\ cache'.info = Main' /\ cache'.wal = stamp'.wal => version' \in compatible'
              /\ cache'.info = Main' /\ cache'.wal = None => pages'[inode'][1] \in compatible'
          BY <4>1, <4>3, <4>4, <4>5, <4>6
        <5> QED BY <5>1, <5>2 DEF CacheInv
      <4> QED BY <4>1, <4>3, <4>7
    <3> QED BY <3>1, <3>2
  <2>6. polled' \in {polled, Fingerprint} /\ UNCHANGED index BY <1>0 DEF page
  <2> QED BY <2>1, <2>2, <2>4, <2>5, <2>6, RequestStep
<1>2. CASE ~(cache = Identity(r) \/ View(r, 1) \in compatible)
  <2> DEFINE error == IF View(r, 1) = None THEN "unreadable" ELSE "incompatible"
  <2>1. error \in Errors BY DEF Errors
  <2>2. /\ req' = [req EXCEPT ![r] = [Answered(r, Failed(error)) EXCEPT !.asked = req[r].asked]]
        /\ cache' = cache
    BY <1>2 DEF CheckSchema, Checked, At
  <2> HIDE DEF error
  <2> QED BY <1>0, <2>1, <2>2, FailedType, AnswerInv
<1> QED BY <1>1, <1>2

LEMMA QueryInv == ASSUME Inv, NEW r \in Reqs, QueryFirst(r) \/ QuerySecond(r) PROVE Inv'
<1> DEFINE q == req[r]
<1>0. /\ UNCHANGED <<index, cache, page>> /\ q \in Requests /\ RequestInv(r)
      /\ q.phase \in Opened
  BY DEF QueryFirst, QuerySecond, Inv, At, Opened
<1>1. CASE QueryFirst(r) /\ View(r, 1) \in compatible
  <2> DEFINE new == [q EXCEPT !.phase = "second", !.first = View(r, 1)]
  <2>1. req' = [req EXCEPT ![r] = new]
    <3>1. [new EXCEPT !.asked = q.asked] = new BY <1>0 DEF Requests
    <3> QED BY <1>1, <3>1 DEF QueryFirst, At
  <2>2. View(r, 1) \in Nat /\ View(r, 1) >= q.asked
    BY <1>0, <1>1, ViewIsRecent, Numbers DEF PageNos
  <2>3. /\ new \in Requests /\ new.phase = "second" /\ new.asked = q.asked
        /\ new.immutable = q.immutable /\ new.inode = q.inode /\ new.first = View(r, 1)
    BY <1>0, <2>2 DEF Requests, Phases
  <2> HIDE DEF new
  <2>4. req'[r] = new BY <2>1 DEF Inv
  <2>5. RequestInv(r)' BY <1>0, <2>2, <2>3, <2>4 DEF RequestInv, Looked, Opened, index
  <2>6. polled' \in {polled, Fingerprint} BY <1>0 DEF page
  <2> QED BY <1>0, <2>1, <2>3, <2>5, <2>6, CacheKept, RequestStep
<1>2. CASE QueryFirst(r) /\ View(r, 1) \notin compatible
  <2>1. req' = [req EXCEPT ![r] =
                   [Answered(r, Failed("unreadable")) EXCEPT !.asked = req[r].asked]]
    BY <1>2 DEF QueryFirst, At
  <2>2. "unreadable" \in Errors BY DEF Errors
  <2> QED BY <1>0, <2>1, <2>2, FailedType, AnswerInv
<1>3. CASE QuerySecond(r)
  <2> DEFINE second == IF q.immutable THEN View(r, 2) ELSE q.first
             answer == Found(<<q.first, second>>)
  <2>1. req' = [req EXCEPT ![r] = [Answered(r, answer) EXCEPT !.asked = req[r].asked]]
    BY <1>3 DEF QuerySecond, At
  <2>2. q.first \in Nat /\ q.first >= q.asked
    BY <1>0, <1>3 DEF QuerySecond, RequestInv, Requests
  <2>3. second \in Nat /\ second >= q.asked
    <3>1. CASE ~q.immutable BY <2>2, <3>1
    <3>2. CASE q.immutable
      <4>1. View(r, 2) # None
        <5>1. View(r, 2) = pages[q.inode][2] BY <3>2 DEF View
        <5>2. q.inode \in 1 .. MaxCommits + 1
          <6>1. version \in 0 .. MaxCommits /\ inode \in 1 .. version + 1 BY DEF Inv, FilesInv
          <6>2. inode \in 1 .. MaxCommits + 1 BY <6>1, InodeType
          <6> QED BY <1>0, <6>2 DEF RequestInv
        <5>3. pages[q.inode][2] \in 0 .. version BY <5>2 DEF Inv, FilesInv, PageNos
        <5> QED BY <5>1, <5>3
      <4> QED BY <1>0, <3>2, <4>1, ViewIsRecent DEF PageNos
    <3> QED BY <3>1, <3>2
  <2> HIDE DEF second
  <2>4. /\ answer \in [error : Errors \cup {None}, pages : {None} \cup (Nat \X Nat)]
        /\ answer.pages \in Nat \X Nat
        /\ \A p \in PageNos : answer.pages[p] >= req[r].asked
    BY <2>2, <2>3 DEF Found, PageNos
  <2> HIDE DEF answer
  <2> QED BY <1>0, <2>1, <2>4, AnswerInv
<1> QED BY <1>1, <1>2, <1>3

LEMMA NextInv == Inv /\ [Next]_vars => Inv'
<1> SUFFICES ASSUME Inv, [Next]_vars PROVE Inv'
  OBVIOUS
<1>1. CASE Writer BY <1>1, WriterInv
<1>2. CASE Poll BY <1>2, BeginInv
<1>3. ASSUME NEW r \in Reqs, Ask(r) \/ Step(r) PROVE Inv'
  BY <1>3, BeginInv, LookInv, SchemaInv, QueryInv DEF Step
<1>4. CASE UNCHANGED vars
  BY <1>4 DEF vars, index, reader, page, Inv, FilesInv, RequestInv, CacheInv, Main
<1> QED BY <1>1, <1>2, <1>3, <1>4 DEF Next, Writer

\* A request that is under way has looked at files no newer than those that are
\* there, and has opened one with all that was committed when it was made.
THEOREM ReaderInvariant == Spec => []Inv
<1> QED BY InitInv, NextInv, PTL DEF Spec

\* What an answer holds is no older than the index was when it was asked for
\* (reader.go:76-95, 339-387).
THEOREM AnswersAreRecent == Spec => []NotOlderThanAsked
<1>1. Inv => NotOlderThanAsked BY DEF Inv, NotOlderThanAsked, HasAnswer, RequestInv
<1> QED BY <1>1, ReaderInvariant, PTL

\* The cache never vouches for an index whose schema was not checked
\* (reader.go:399-418).
THEOREM CacheVouches == Spec => []CacheIsTrue
<1>1. Inv => TypeOK
  <2> SUFFICES ASSUME Inv PROVE TypeOK
    OBVIOUS
  <2>1. DOMAIN pages = 1 .. MaxCommits + 1 BY DEF Inv, FilesInv
  <2>2. inode \in DOMAIN pages
    <3>1. version \in 0 .. MaxCommits /\ inode \in 1 .. version + 1 BY DEF Inv, FilesInv
    <3> QED BY <2>1, <3>1, InodeType
  <2>3. \A r \in Reqs : /\ req[r].phase \in Phases
                        /\ req[r].phase \in {"open", "schema"} => req[r].immutable \/ req[r].shm
    BY DEF Inv, Requests, RequestInv
  <2> QED BY <2>1, <2>2, <2>3 DEF Inv, FilesInv, TypeOK, Phases
<1>2. Inv => (cache = [info |-> [inode |-> inode, stamp |-> stamp.main],
                       wal |-> IF wal = "none" THEN None ELSE stamp.wal, shm |-> shm]
                 => version \in compatible)
  <2> SUFFICES ASSUME Inv, cache = [info |-> Main,
                                    wal |-> IF wal = "none" THEN None ELSE stamp.wal,
                                    shm |-> shm]
               PROVE  version \in compatible
    BY DEF Main
  <2>1. cache.info = Main /\ cache.wal = IF wal = "none" THEN None ELSE stamp.wal OBVIOUS
  <2>2. /\ inode \in Nat /\ stamp.main \in Nat /\ stamp.wal \in Nat /\ shm \in BOOLEAN
        /\ pages[inode][1] = version \/ wal = "frames"
    BY DEF Inv, FilesInv, PageNos
  <2>3. cache \in Identities BY <2>2 DEF Identities, Main
  <2>4. cache # None BY <2>3
  <2> QED BY <2>1, <2>2, <2>4 DEF Inv, CacheInv
<1>3. Inv => CacheIsTrue BY <1>1, <1>2 DEF CacheIsTrue
<1> QED BY <1>3, ReaderInvariant, PTL

=============================================================================
