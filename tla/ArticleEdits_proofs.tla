---- MODULE ArticleEdits_proofs ----
(* Proofs about ArticleEdits, for any texts, batches, requests, reviews and     *)
(* staged copies and any number of failures: one active version, what retrieval *)
(* finds, what a drafting task finds when it ends, and that edits implement     *)
(* compare-and-set.                                                             *)
EXTENDS ArticleEdits, TLAPS

--------------------------------------------------------------------------------
(* The catalog *)

Commits == [phase : {"idle", "delete", "add", "record", "finish"},
            text : Texts \cup {None}, old : SUBSET AllChunks, batch : Nat,
            source : Stages \cup Requests \cup {None}]

OneActive(v) ==
    /\ \A t, u \in Texts : v[t] = "active" /\ v[u] = "active" => t = u
    /\ (\E t \in Texts : v[t] # "absent") => \E t \in Texts : v[t] = "active"

ActiveOf(v) ==
    IF \E t \in Texts : v[t] = "active" THEN CHOOSE t \in Texts : v[t] = "active" ELSE None

CatalogTypes ==
    /\ version \in [Texts -> {"absent", "active", "superseded"}]
    /\ recorded \in [Texts -> SUBSET AllChunks]
    /\ index \subseteq AllChunks
    /\ commits \in [Processes -> Commits]
    /\ \A p \in Processes :
         /\ Busy(p) => commits[p].text \in Texts
         /\ commits[p].phase \in {"delete", "add"} =>
              commits[p].batch < Batches[commits[p].text]
    /\ OneActive(version)
    /\ disturbed \in BOOLEAN

\* Where a commit that nothing has disturbed stands.
InStep ==
    ~ disturbed =>
        /\ \A p, q \in Processes : HalfDone(p) /\ HalfDone(q) => p = q
        /\ \A p \in Processes :
             /\ HalfDone(p) => commits[p].text = Active
             /\ commits[p].phase = "delete" => index = commits[p].old /\ commits[p].batch = 0
             /\ commits[p].phase = "add" => index = {commits[p].text} \X (1..commits[p].batch)
             /\ commits[p].phase = "record" => index = Chunks(commits[p].text)
        /\ Active = None => index = {}
        /\ (\A p \in Processes : ~ HalfDone(p)) /\ Active # None =>
             index = Chunks(Active) /\ recorded[Active] = index

CatalogSound == CatalogTypes /\ InStep

LEMMA ActiveIs == Active = ActiveOf(version) /\ Active' = ActiveOf(version')
  BY DEF Active, ActiveOf

LEMMA ActiveText ==
  ASSUME NEW v, OneActive(v)
  PROVE  /\ ActiveOf(v) \in Texts \cup {None}
         /\ ActiveOf(v) # None => v[ActiveOf(v)] = "active"
         /\ \A t \in Texts : v[t] = "active" => ActiveOf(v) = t
         /\ ActiveOf(v) = None => \A t \in Texts : v[t] = "absent"
<1>1. CASE \E t \in Texts : v[t] = "active"
  <2>1. PICK t \in Texts : v[t] = "active" /\ ActiveOf(v) = t
    BY <1>1 DEF ActiveOf
  <2>2. t # None
    BY CatalogAssumption
  <2>3. QED
    BY <2>1, <2>2 DEF OneActive
<1>2. CASE ~ \E t \in Texts : v[t] = "active"
  BY <1>2 DEF ActiveOf, OneActive
<1>3. QED
  BY <1>1, <1>2

LEMMA ChunksAreChunks ==
  /\ \A t \in Texts : Chunks(t) \in SUBSET AllChunks
  /\ \A t \in Texts : \A n \in 1..Batches[t] : <<t, n>> \in AllChunks
  BY DEF Chunks, AllChunks

LEMMA IdleType == Idle \in Commits /\ Idle.phase = "idle"
  BY DEF Idle, Commits

LEMMA CatalogInitSound == CatalogInit => CatalogSound
<1> SUFFICES ASSUME CatalogInit
             PROVE  CatalogSound
  OBVIOUS
<1>1. \A p \in Processes : commits[p] = Idle
  BY DEF CatalogInit
<1>2. \A p \in Processes : ~ Busy(p) /\ ~ HalfDone(p)
  BY <1>1, IdleType DEF Busy, HalfDone
<1>3. OneActive(version) /\ Active = None
  BY DEF CatalogInit, OneActive, Active
<1>4. CatalogTypes
  BY <1>1, <1>2, <1>3, IdleType DEF CatalogInit, CatalogTypes
<1>5. InStep
  BY <1>1, <1>2, <1>3, IdleType DEF CatalogInit, InStep
<1>6. QED
  BY <1>4, <1>5 DEF CatalogSound

\* Nothing of a commit happens.
LEMMA CatalogStays ==
  ASSUME CatalogSound, UNCHANGED <<version, recorded, index, commits, disturbed>>
  PROVE  CatalogSound'
<1>1. Active' = Active
  BY ActiveIs
<1>2. CatalogTypes'
  BY DEF CatalogSound, CatalogTypes, Busy
<1>3. InStep'
  BY <1>1 DEF CatalogSound, InStep, HalfDone
<1>4. QED
  BY <1>2, <1>3 DEF CatalogSound

\* The statuses after a new text was registered.
LEMMA ActivatedSound ==
  ASSUME CatalogTypes, NEW t \in Texts
  PROVE  /\ Activated(t) \in [Texts -> {"absent", "active", "superseded"}]
         /\ OneActive(Activated(t)) /\ ActiveOf(Activated(t)) = t
<1>1. Activated(t) \in [Texts -> {"absent", "active", "superseded"}]
  BY DEF Activated, CatalogTypes
<1>2. Activated(t)[t] = "active" /\ \A u \in Texts : u # t => Activated(t)[u] # "active"
  BY DEF Activated
<1>3. OneActive(Activated(t))
  BY <1>2 DEF OneActive
<1>4. QED
  BY <1>1, <1>2, <1>3, ActiveText

LEMMA RegisterSound ==
  ASSUME CatalogSound, NEW p \in Processes, NEW t \in Texts,
         NEW source \in Stages \cup Requests, Register(p, t, source)
  PROVE  CatalogSound' /\ Active' = t
<1>0. CatalogTypes /\ InStep /\ ~ Busy(p) /\ ~ HalfDone(p) /\ index' = index
  BY DEF CatalogSound, Register, Busy, HalfDone
<1>1. CASE Active = t
  <2> DEFINE job == [Idle EXCEPT !.phase = "finish", !.text = t, !.source = source]
  <2>1. /\ commits' = [commits EXCEPT ![p] = job]
        /\ UNCHANGED <<version, recorded, disturbed>>
    BY <1>1 DEF Register
  <2>2. job \in Commits /\ job.phase = "finish" /\ job.text = t
    BY DEF Idle, Commits
  <2> HIDE DEF job
  <2>3. Active' = Active
    BY <2>1, ActiveIs
  <2>4. commits' \in [Processes -> Commits] /\ commits'[p] = job
        /\ \A q \in Processes : q # p => commits'[q] = commits[q]
    BY <1>0, <2>1, <2>2 DEF CatalogTypes
  <2>5. CatalogTypes'
    BY <1>0, <2>1, <2>2, <2>4 DEF CatalogTypes, Busy
  <2>6. \A q \in Processes : HalfDone(q)' <=> HalfDone(q)
    BY <1>0, <2>2, <2>4 DEF HalfDone
  <2>7. \A q \in Processes : commits'[q].phase \in {"delete", "add", "record"} =>
          commits'[q] = commits[q]
    BY <2>2, <2>4
  <2>8. InStep'
    <3>1. ASSUME ~ disturbed
          PROVE  \A q \in Processes :
             /\ HalfDone(q)' => commits'[q].text = Active
             /\ commits'[q].phase = "delete" => index = commits'[q].old /\ commits'[q].batch = 0
             /\ commits'[q].phase = "add" => index = {commits'[q].text} \X (1..commits'[q].batch)
             /\ commits'[q].phase = "record" => index = Chunks(commits'[q].text)
      BY <1>0, <2>6, <2>7, <3>1 DEF InStep, HalfDone
    <3>2. QED
      BY <1>0, <2>1, <2>3, <2>6, <3>1 DEF InStep
  <2>9. QED
    BY <1>1, <2>3, <2>5, <2>8 DEF CatalogSound
<1>2. CASE Active # t
  <2> DEFINE job == [phase |-> "delete", text |-> t, old |-> OldChunks(t), batch |-> 0,
                     source |-> source]
  <2>1. /\ commits' = [commits EXCEPT ![p] = job]
        /\ version' = Activated(t)
        /\ recorded' = [recorded EXCEPT ![t] = {}]
        /\ disturbed' = (disturbed \/ \E q \in Processes : HalfDone(q))
    BY <1>2 DEF Register
  <2>2. OldChunks(t) \in SUBSET AllChunks
    BY <1>0, ActiveIs, ActiveText DEF CatalogTypes, OldChunks
  <2>3. /\ job \in Commits /\ job.phase = "delete" /\ job.text = t /\ job.batch = 0
        /\ job.old = OldChunks(t)
    BY <2>2 DEF Commits
  <2> HIDE DEF job
  <2>4. Active' = t /\ OneActive(version')
        /\ version' \in [Texts -> {"absent", "active", "superseded"}]
    BY <1>0, <2>1, ActiveIs, ActivatedSound
  <2>5. commits' \in [Processes -> Commits] /\ commits'[p] = job
        /\ \A q \in Processes : q # p => commits'[q] = commits[q]
    BY <1>0, <2>1, <2>3 DEF CatalogTypes
  <2>6. 0 < Batches[t] /\ t # None
    BY CatalogAssumption
  <2>7. disturbed' \in BOOLEAN /\ recorded' \in [Texts -> SUBSET AllChunks]
    BY <1>0, <2>1 DEF CatalogTypes
  <2>8. \A q \in Processes :
          /\ Busy(q)' => commits'[q].text \in Texts
          /\ commits'[q].phase \in {"delete", "add"} =>
               commits'[q].batch < Batches[commits'[q].text]
    BY <1>0, <2>3, <2>5, <2>6 DEF CatalogTypes, Busy
  <2>9. CatalogTypes'
    BY <1>0, <2>4, <2>5, <2>7, <2>8 DEF CatalogTypes
  <2>10. ASSUME ~ disturbed'
         PROVE  /\ \A q \in Processes : HalfDone(q)' <=> q = p
                /\ index = OldChunks(t)
    <3>1. ~ disturbed /\ \A q \in Processes : ~ HalfDone(q)
      BY <1>0, <2>1, <2>10
    <3>2. \A q \in Processes : HalfDone(q)' <=> q = p
      BY <2>3, <2>5, <3>1 DEF HalfDone
    <3>3. index = OldChunks(t)
      BY <1>0, <3>1 DEF InStep, OldChunks
    <3>4. QED
      BY <3>2, <3>3
  <2>11. InStep'
    <3> SUFFICES ASSUME ~ disturbed'
                 PROVE  InStep'
      BY DEF InStep
    <3>1. \A q \in Processes : q # p => commits'[q].phase \notin {"delete", "add", "record"}
      BY <2>10 DEF HalfDone
    <3>2. QED
      BY <1>0, <2>3, <2>4, <2>5, <2>6, <2>10, <3>1 DEF InStep
  <2>12. QED
    BY <2>4, <2>9, <2>11 DEF CatalogSound
<1>3. QED
  BY <1>1, <1>2

\* A commit ends: it has returned, or it was cut short and then it counts.
LEMMA EndCommit ==
  ASSUME CatalogSound, NEW p \in Processes, commits' = [commits EXCEPT ![p] = Idle],
         UNCHANGED <<version, recorded, index>>, disturbed' = (disturbed \/ HalfDone(p))
  PROVE  CatalogSound' /\ Active' = Active
<1>1. Active' = Active
  BY ActiveIs
<1>2. /\ commits' \in [Processes -> Commits] /\ commits'[p] = Idle
      /\ \A q \in Processes : q # p => commits'[q] = commits[q]
  BY IdleType DEF CatalogSound, CatalogTypes
<1>3. CatalogTypes'
  BY <1>2, IdleType DEF CatalogSound, CatalogTypes, Busy
<1>4. InStep'
  <2> SUFFICES ASSUME ~ disturbed'
               PROVE  InStep'
    BY DEF InStep
  <2>1. ~ disturbed /\ ~ HalfDone(p)
    OBVIOUS
  <2>2. \A q \in Processes : HalfDone(q)' <=> HalfDone(q)
    BY <1>2, <2>1, IdleType DEF HalfDone
  <2>3. \A q \in Processes : HalfDone(q) => commits'[q] = commits[q]
    BY <1>2, <2>1
  <2>4. ASSUME NEW q \in Processes
        PROVE  /\ HalfDone(q)' => commits'[q].text = Active
               /\ commits'[q].phase = "delete" => index = commits'[q].old /\ commits'[q].batch = 0
               /\ commits'[q].phase = "add" => index = {commits'[q].text} \X (1..commits'[q].batch)
               /\ commits'[q].phase = "record" => index = Chunks(commits'[q].text)
    BY <1>2, <2>1, <2>2, <2>3, IdleType DEF CatalogSound, InStep, HalfDone
  <2>5. QED
    BY <1>1, <2>1, <2>2, <2>4 DEF CatalogSound, InStep
<1>5. QED
  BY <1>1, <1>3, <1>4 DEF CatalogSound

\* One step of a commit: its part of the vector store, or the chunk ids.
LEMMA CommitSound ==
  ASSUME CatalogSound, NEW p \in Processes, DeleteOld(p) \/ AddBatch(p) \/ RecordChunks(p)
  PROVE  CatalogSound' /\ Active' = Active
<1>0. /\ CatalogTypes /\ InStep /\ HalfDone(p) /\ Busy(p)
      /\ UNCHANGED <<version, disturbed>> /\ Active' = Active
  BY ActiveIs DEF CatalogSound, HalfDone, Busy, DeleteOld, AddBatch, RecordChunks
<1> DEFINE job == commits[p]
           t == job.text
<1>1. job \in Commits /\ t \in Texts /\ Batches[t] \in Nat /\ t # None
  BY <1>0, CatalogAssumption DEF CatalogTypes
<1>2. ASSUME ~ disturbed
      PROVE  t = Active /\ \A q \in Processes : q # p => ~ HalfDone(q)
  BY <1>0, <1>2 DEF InStep
\* What a step has to establish: its own phase, and that of nobody else.
<1>3. ASSUME NEW next \in Commits, commits' = [commits EXCEPT ![p] = next],
             next.text = t, next.phase \in {"add", "record", "finish"},
             next.phase = "add" => next.batch < Batches[t],
             index' \subseteq AllChunks, recorded' \in [Texts -> SUBSET AllChunks],
             ~ disturbed =>
               /\ next.phase = "add" => index' = {t} \X (1..next.batch)
               /\ next.phase = "record" => index' = Chunks(t)
               /\ next.phase = "finish" => index' = Chunks(t) /\ recorded'[t] = index'
      PROVE  CatalogSound'
  <2>1. /\ commits' \in [Processes -> Commits] /\ commits'[p] = next
        /\ \A q \in Processes : q # p => commits'[q] = commits[q]
    BY <1>0, <1>3 DEF CatalogTypes
  <2>2. \A q \in Processes :
          /\ Busy(q)' => commits'[q].text \in Texts
          /\ commits'[q].phase \in {"delete", "add"} =>
               commits'[q].batch < Batches[commits'[q].text]
    BY <1>0, <1>1, <1>3, <2>1 DEF CatalogTypes, Busy
  <2>3. CatalogTypes'
    BY <1>0, <1>3, <2>1, <2>2 DEF CatalogTypes
  <2>4. InStep'
    <3> SUFFICES ASSUME ~ disturbed
                 PROVE  InStep'
      BY <1>0 DEF InStep
    <3>1. \A q \in Processes : q # p => commits'[q].phase \notin {"delete", "add", "record"}
      BY <1>2, <2>1 DEF HalfDone
    <3>2. HalfDone(p)' <=> next.phase # "finish"
      BY <1>3, <2>1 DEF HalfDone
    <3>3. \A q \in Processes : HalfDone(q)' => q = p
      BY <3>1 DEF HalfDone
    <3>4. Active' = t /\ t # None
      BY <1>0, <1>1, <1>2
    <3>5. ASSUME NEW q \in Processes
          PROVE  /\ HalfDone(q)' => commits'[q].text = Active'
                 /\ commits'[q].phase = "delete" => index' = commits'[q].old /\ commits'[q].batch = 0
                 /\ commits'[q].phase = "add" => index' = {commits'[q].text} \X (1..commits'[q].batch)
                 /\ commits'[q].phase = "record" => index' = Chunks(commits'[q].text)
      <4>1. CASE q = p
        BY <1>3, <2>1, <3>4, <4>1
      <4>2. CASE q # p
        BY <3>1, <3>3, <4>2
      <4>3. QED
        BY <4>1, <4>2
    <3>6. (\A q \in Processes : ~ HalfDone(q)') => index' = Chunks(t) /\ recorded'[t] = index'
      BY <1>3, <3>2
    <3>7. QED
      BY <3>3, <3>4, <3>5, <3>6 DEF InStep
  <2>5. QED
    BY <2>3, <2>4 DEF CatalogSound
<1>4. CASE DeleteOld(p)
  <2> DEFINE next == [job EXCEPT !.phase = "add"]
  <2>1. job.phase = "delete" /\ commits' = [commits EXCEPT ![p] = next]
        /\ index' = index \ job.old /\ recorded' = recorded
    BY <1>4 DEF DeleteOld
  <2>2. next \in Commits /\ next.phase = "add" /\ next.text = t /\ next.batch = job.batch
    BY <1>1 DEF Commits
  <2>3. next.batch < Batches[t]
    BY <1>0, <2>1, <2>2 DEF CatalogTypes
  <2>4. ~ disturbed => index' = {t} \X (1..next.batch)
    <3>1. ~ disturbed => index' = {} /\ next.batch = 0
      BY <1>0, <2>1, <2>2 DEF InStep
    <3>2. {t} \X (1..0) = {}
      OBVIOUS
    <3>3. QED
      BY <3>1, <3>2
  <2>5. index' \subseteq AllChunks /\ recorded' \in [Texts -> SUBSET AllChunks]
    BY <1>0, <2>1 DEF CatalogTypes
  <2> HIDE DEF next
  <2>6. QED
    BY <1>0, <1>3, <2>1, <2>2, <2>3, <2>4, <2>5
<1>5. CASE AddBatch(p)
  <2> DEFINE n == job.batch + 1
             phase == IF n = Batches[t] THEN "record" ELSE "add"
             next == [job EXCEPT !.batch = n, !.phase = phase]
  <2>1. job.phase = "add" /\ commits' = [commits EXCEPT ![p] = next]
        /\ index' = index \cup {<<t, n>>} /\ recorded' = recorded
    BY <1>0, <1>5 DEF AddBatch, CatalogTypes
  <2>2. next \in Commits /\ next.phase = phase /\ next.text = t /\ next.batch = n
    <3>1. phase \in {"record", "add"}
      OBVIOUS
    <3>2. job.batch \in Nat /\ n \in Nat
      BY <1>1 DEF Commits
    <3> HIDE DEF phase, n
    <3>3. QED
      BY <1>1, <3>1, <3>2 DEF Commits
  <2>3. job.batch \in Nat /\ job.batch < Batches[t] /\ n \in 1..Batches[t]
    BY <1>0, <1>1, <2>1 DEF CatalogTypes, Commits
  <2>4. next.phase = "add" => next.batch < Batches[t]
    BY <1>1, <2>2, <2>3
  <2>5. index' \subseteq AllChunks /\ recorded' \in [Texts -> SUBSET AllChunks]
    BY <1>0, <1>1, <2>1, <2>3, ChunksAreChunks DEF CatalogTypes
  <2>6. ~ disturbed => index' = {t} \X (1..n)
    <3>1. ~ disturbed => index = {t} \X (1..job.batch)
      BY <1>0, <2>1 DEF InStep
    <3>2. 1..n = (1..job.batch) \cup {n}
      BY <2>3
    <3>3. QED
      BY <2>1, <3>1, <3>2
  <2>7. n = Batches[t] => {t} \X (1..n) = Chunks(t)
    BY DEF Chunks
  <2>8. ~ disturbed =>
          /\ next.phase = "add" => index' = {t} \X (1..next.batch)
          /\ next.phase = "record" => index' = Chunks(t)
    BY <2>2, <2>6, <2>7
  <2>9. next.phase \in {"add", "record"}
    BY <2>2
  <2> HIDE DEF next
  <2>10. QED
    BY <1>0, <1>3, <2>1, <2>2, <2>4, <2>5, <2>8, <2>9
<1>6. CASE RecordChunks(p)
  <2> DEFINE next == [job EXCEPT !.phase = "finish"]
  <2>1. job.phase = "record" /\ commits' = [commits EXCEPT ![p] = next]
        /\ index' = index /\ recorded' = [recorded EXCEPT ![t] = Chunks(t)]
    BY <1>6 DEF RecordChunks
  <2>2. next \in Commits /\ next.phase = "finish" /\ next.text = t
    BY <1>1 DEF Commits
  <2>3. index' \subseteq AllChunks /\ recorded' \in [Texts -> SUBSET AllChunks]
        /\ recorded'[t] = Chunks(t)
    BY <1>0, <1>1, <2>1, ChunksAreChunks DEF CatalogTypes
  <2>4. ~ disturbed => index' = Chunks(t) /\ recorded'[t] = index'
    BY <1>0, <2>1, <2>3 DEF InStep
  <2> HIDE DEF next
  <2>5. QED
    BY <1>0, <1>3, <2>1, <2>2, <2>3, <2>4
<1>7. QED
  BY <1>0, <1>4, <1>5, <1>6

--------------------------------------------------------------------------------
(* Uploads *)

FilesSound ==
    /\ staged \in [Stages -> {"none", "staged", "confirmed", "failed", "cancelled"}]
    /\ onDisk \in BOOLEAN
    /\ failures \in 0..MaxFailures

LEMMA FailureType ==
  ASSUME failures \in 0..MaxFailures, Failure
  PROVE  failures' \in 0..MaxFailures
  BY CatalogAssumption DEF Failure

LEMMA CutShortSound ==
  ASSUME CatalogSound, NEW p \in Processes, CutShort(p)
  PROVE  CatalogSound' /\ Active' = Active
  BY EndCommit DEF CutShort

\* What becomes of the active version in a step of the bot: it stays, or the
\* uploaded file takes its place. The other process's commit is not touched.
LEMMA UploadSound ==
  ASSUME CatalogSound, FilesSound, Upload
  PROVE  /\ CatalogSound' /\ FilesSound'
         /\ Active' \in {Active, Original}
         /\ commits'["frontend"] = commits["frontend"]
<1>0. "bot" \in Processes /\ "frontend" \in Processes /\ Original \in Texts
  BY CatalogAssumption DEF Processes
<1>1. CASE BotStops
  BY <1>0, <1>1, CutShortSound, FailureType DEF BotStops, CutShort, FilesSound, CatalogSound, CatalogTypes
<1>2. ASSUME NEW s \in Stages, Stage(s) \/ CancelUpload(s)
      PROVE  /\ CatalogSound' /\ FilesSound' /\ Active' = Active
             /\ commits'["frontend"] = commits["frontend"]
  <2>1. UNCHANGED <<version, recorded, index, commits, failures, disturbed>>
    BY <1>2 DEF Stage, CancelUpload
  <2>2. FilesSound'
    BY <1>2, <2>1 DEF Stage, CancelUpload, FilesSound
  <2>3. QED
    BY <2>1, <2>2, CatalogStays, ActiveIs
<1>3. ASSUME NEW s \in Stages, Confirm(s)
      PROVE  /\ CatalogSound' /\ FilesSound' /\ Active' = Original
             /\ commits'["frontend"] = commits["frontend"]
  <2>1. Register("bot", Original, s) /\ UNCHANGED <<staged, onDisk, failures>>
    BY <1>3 DEF Confirm
  <2>2. CatalogSound' /\ Active' = Original
    BY <1>0, <2>1, RegisterSound
  <2>3. commits'["frontend"] = commits["frontend"]
    BY <1>0, <2>1 DEF Register, CatalogSound, CatalogTypes
  <2>4. QED
    BY <2>1, <2>2, <2>3 DEF FilesSound
<1>4. ASSUME NEW s \in Stages, ConfirmFails(s)
      PROVE  /\ CatalogSound' /\ FilesSound' /\ Active' = Active
             /\ commits'["frontend"] = commits["frontend"]
  <2>1. UNCHANGED <<version, recorded, index, commits, onDisk, disturbed>>
    BY <1>4 DEF ConfirmFails
  <2>2. failures' \in 0..MaxFailures
    BY <1>4, FailureType DEF ConfirmFails, FilesSound
  <2>3. staged' \in [Stages -> {"none", "staged", "confirmed", "failed", "cancelled"}]
    BY <1>4 DEF ConfirmFails, FilesSound
  <2>4. QED
    BY <2>1, <2>2, <2>3, CatalogStays, ActiveIs DEF FilesSound
<1>5. ASSUME NEW s \in Stages, Confirmed(s)
      PROVE  /\ CatalogSound' /\ FilesSound' /\ Active' = Active
             /\ commits'["frontend"] = commits["frontend"]
  <2>1. /\ commits' = [commits EXCEPT !["bot"] = Idle] /\ ~ HalfDone("bot")
        /\ UNCHANGED <<version, recorded, index, onDisk, failures, disturbed>>
        /\ staged' = [staged EXCEPT ![s] = "confirmed"]
    BY <1>5 DEF Confirmed, HalfDone
  <2>2. disturbed' = (disturbed \/ HalfDone("bot"))
    BY <2>1 DEF CatalogSound, CatalogTypes
  <2>3. CatalogSound' /\ Active' = Active
    BY <1>0, <2>1, <2>2, EndCommit
  <2>4. commits'["frontend"] = commits["frontend"]
    BY <1>0, <2>1 DEF CatalogSound, CatalogTypes
  <2>5. FilesSound'
    BY <2>1 DEF FilesSound
  <2>6. QED
    BY <2>3, <2>4, <2>5
<1>6. ASSUME NEW s \in Stages, CommitRaises(s)
      PROVE  /\ CatalogSound' /\ FilesSound' /\ Active' = Active
             /\ commits'["frontend"] = commits["frontend"]
  <2>1. CutShort("bot") /\ staged' = [staged EXCEPT ![s] = "failed"]
    BY <1>6 DEF CommitRaises
  <2>2. FilesSound'
    BY <2>1, FailureType DEF FilesSound, CutShort
  <2>3. commits'["frontend"] = commits["frontend"]
    BY <1>0, <2>1 DEF CutShort, CatalogSound, CatalogTypes
  <2>4. QED
    BY <1>0, <2>1, <2>2, <2>3, CutShortSound
<1>7. QED
  BY <1>1, <1>2, <1>3, <1>4, <1>5, <1>6 DEF Upload

--------------------------------------------------------------------------------
(* Requests *)

RequestRows ==
    [status : Statuses, base : Texts \cup {None}, text : Texts \cup {None},
     by : Users \cup {None}, card : BOOLEAN,
     applied : SUBSET Reviews, feedback : SUBSET Reviews]

DraftRows == [phase : {"none", "scheduling", "running"}, kind : Drafting \cup {"none"},
              from : Texts \cup {None}]

ReviewRows == [status : {"none", "requested", "completed"}, version : Texts \cup {None}]

\* A request, the task drafting for it, and the reviews it counts on.
RowSound(row, task, reviews) ==
    /\ row \in RequestRows /\ task \in DraftRows
    /\ row.status = "review" => row.text \in Texts
    /\ task.phase # "none" => task.kind \in Drafting /\ row.status = task.kind
    /\ task.phase = "running" /\ task.kind = "feedback_drafting" => task.from = row.text
    /\ row.status = "feedback_drafting" => row.feedback \cap row.applied = {}
    /\ \A v \in row.applied \cup row.feedback :
         reviews[v] = [status |-> "completed", version |-> row.base]

EditsSound ==
    /\ request \in [Requests -> RequestRows]
    /\ draft \in [Requests -> DraftRows]
    /\ \A r \in Requests : RowSound(request[r], draft[r], review)
    /\ modal \in [Requests -> Users \cup {None}]
    /\ review \in [Reviews -> ReviewRows]
    /\ owner \in Users \cup {None}
    /\ landed \subseteq Requests

\* What the frontend commits has landed.
Landing == Busy("frontend") => commits["frontend"].source \in landed

DecisionOf(status) ==
    CASE status \in {"none", "published"} -> status
      [] status \in {"stale", "dismissed"} -> "withdrawn"
      [] OTHER -> "open"

Sound == CatalogSound /\ FilesSound /\ EditsSound /\ Landing

LEMMA RowsInit ==
  /\ NoRequest \in RequestRows /\ NoRequest.status = "none" /\ NoRequest.base = None
  /\ NoDraft \in DraftRows /\ NoDraft.phase = "none"
  /\ NoReview \in ReviewRows /\ NoReview.status = "none"
  /\ \A reviews : RowSound(NoRequest, NoDraft, reviews)
<1>1. NoRequest \in RequestRows /\ NoRequest.status = "none" /\ NoRequest.base = None
      /\ NoRequest.applied = {} /\ NoRequest.feedback = {}
  BY DEF NoRequest, RequestRows, Statuses
<1>2. NoDraft \in DraftRows /\ NoDraft.phase = "none"
  BY DEF NoDraft, DraftRows
<1>3. NoReview \in ReviewRows /\ NoReview.status = "none"
  BY DEF NoReview, ReviewRows
<1>4. QED
  BY <1>1, <1>2, <1>3 DEF RowSound

LEMMA SoundInit == Init => Sound
<1> SUFFICES ASSUME Init
             PROVE  Sound
  OBVIOUS
<1>1. CatalogSound
  BY CatalogInitSound DEF Init
<1>2. FilesSound
  <2>1. failures \in 0..MaxFailures
    BY CatalogAssumption DEF Init, CatalogInit
  <2>2. staged \in [Stages -> {"none", "staged", "confirmed", "failed", "cancelled"}]
        /\ onDisk \in BOOLEAN
    BY DEF Init, CatalogInit
  <2>3. QED
    BY <2>1, <2>2 DEF FilesSound
<1>3. EditsSound
  BY RowsInit DEF Init, EditsSound
<1>4. Landing
  BY IdleType DEF Init, CatalogInit, Landing, Busy, Processes
<1>5. QED
  BY <1>1, <1>2, <1>3, <1>4 DEF Sound

\* No task drafts for a request that is in no status of drafting.
LEMMA Undrafted ==
  ASSUME EditsSound, NEW r \in Requests, request[r].status \notin Drafting
  PROVE  draft[r].phase = "none"
  BY DEF EditsSound, RowSound

\* A step of one request.
LEMMA RequestStep ==
  ASSUME EditsSound, NEW r \in Requests, NEW row, NEW task,
         request' = [request EXCEPT ![r] = row], draft' = [draft EXCEPT ![r] = task],
         RowSound(row, task, review), UNCHANGED <<review, owner>>,
         modal' \in [Requests -> Users \cup {None}], landed' \subseteq Requests
  PROVE  EditsSound'
<1>1. row \in RequestRows /\ task \in DraftRows
  BY DEF RowSound
<1>2. \A h \in Requests : \/ request'[h] = request[h] /\ draft'[h] = draft[h]
                          \/ request'[h] = row /\ draft'[h] = task
  BY DEF EditsSound
<1>3. QED
  BY <1>1, <1>2 DEF EditsSound

\* What such a step is to those who only see decisions and bases.
LEMMA RequestSeen ==
  ASSUME EditsSound, NEW r \in Requests, NEW row \in RequestRows,
         request' = [request EXCEPT ![r] = row]
  PROVE  /\ \A h \in Requests : Decision(h) = DecisionOf(request[h].status)
         /\ [h \in Requests |-> Decision(h)]' =
              [[h \in Requests |-> Decision(h)] EXCEPT ![r] = DecisionOf(row.status)]
         /\ [h \in Requests |-> request[h].base]' =
              [[h \in Requests |-> request[h].base] EXCEPT ![r] = row.base]
<1>1. \A h \in Requests : request'[h] = IF h = r THEN row ELSE request[h]
  BY DEF EditsSound
<1>2. \A h \in Requests : Decision(h) = DecisionOf(request[h].status)
  BY DEF Decision, DecisionOf
<1>3. \A h \in Requests : Decision(h)' = DecisionOf(request'[h].status)
  BY DEF Decision, DecisionOf
<1>4. \A h \in Requests : Decision(h)' = IF h = r THEN DecisionOf(row.status) ELSE Decision(h)
  BY <1>1, <1>2, <1>3
<1>5. [h \in Requests |-> Decision(h)]' =
        [[h \in Requests |-> Decision(h)] EXCEPT ![r] = DecisionOf(row.status)]
  BY <1>4
<1>6. [h \in Requests |-> request[h].base]' =
        [[h \in Requests |-> request[h].base] EXCEPT ![r] = row.base]
  <2>1. \A h \in Requests : request'[h].base = IF h = r THEN row.base ELSE request[h].base
    BY <1>1
  <2>2. QED
    BY <2>1
<1>7. QED
  BY <1>2, <1>5, <1>6

Seen == <<Active, [r \in Requests |-> Decision(r)], [r \in Requests |-> request[r].base], landed>>

\* A step that changes neither a base nor what was decided is not seen.
LEMMA Unseen ==
  ASSUME EditsSound, NEW r \in Requests, NEW row \in RequestRows,
         request' = [request EXCEPT ![r] = row],
         DecisionOf(row.status) = DecisionOf(request[r].status), row.base = request[r].base,
         Active' = Active, landed' = landed
  PROVE  UNCHANGED Seen
<1>1. \A h \in Requests : Decision(h)' = Decision(h) /\ request'[h].base = request[h].base
  <2>1. \A h \in Requests : request'[h] = IF h = r THEN row ELSE request[h]
    BY DEF EditsSound
  <2>2. QED
    BY <2>1 DEF Decision, DecisionOf
<1>2. QED
  BY <1>1 DEF Seen

Step == Revisions!Next \/ UNCHANGED Seen

\* A request is withdrawn.
LEMMA WithdrawSeen ==
  ASSUME EditsSound, NEW r \in Requests, NEW row \in RequestRows,
         request' = [request EXCEPT ![r] = row],
         request[r].status \notin {"none", "published"},
         row.status \in {"stale", "dismissed"}, row.base = request[r].base,
         Active' = Active, landed' = landed
  PROVE  Step
<1>1. DecisionOf(row.status) = "withdrawn"
  BY DEF DecisionOf
<1>2. CASE DecisionOf(request[r].status) = "withdrawn"
  BY <1>1, <1>2, Unseen DEF Step
<1>3. CASE DecisionOf(request[r].status) = "open"
  <2>1. Revisions!Withdraw(r)
    <3>1. [h \in Requests |-> request[h].base]' = [h \in Requests |-> request[h].base]
      BY RequestSeen
    <3>2. QED
      BY <1>1, <1>3, <3>1, RequestSeen DEF Revisions!Withdraw
  <2>2. QED
    BY <2>1 DEF Step, Revisions!Next
<1>4. QED
  BY <1>2, <1>3 DEF DecisionOf

\* The handlers of the card and the drafting tasks: none of them commits.
CardStep(r) ==
    \/ StartDraft(r) \/ RenderRaises(r) \/ FinishDraft(r) \/ DraftFails(r) \/ SaveManual(r)
    \/ \E u \in Users :
         \/ Flag(r, u) \/ MarkStale(r, u) \/ DraftWithAI(r, u) \/ ApplyFeedback(r, u)
         \/ EditManually(r, u) \/ Dismiss(r, u)

LEMMA CardStepSound ==
  ASSUME Sound, NEW r \in Requests, CardStep(r)
  PROVE  EditsSound' /\ Step
<1> DEFINE old == request[r]
           task == draft[r]
<1>0. /\ EditsSound /\ old \in RequestRows /\ task \in DraftRows /\ RowSound(old, task, review)
      /\ modal \in [Requests -> Users \cup {None}] /\ landed \subseteq Requests
      /\ request = [request EXCEPT ![r] = old] /\ draft = [draft EXCEPT ![r] = task]
  BY DEF Sound, EditsSound
<1>1. UNCHANGED <<Active, review, owner, landed>>
  BY ActiveIs DEF CardStep, StartDraft, RenderRaises, FinishDraft, DraftFails, SaveManual, Flag,
         MarkStale, DraftWithAI, ApplyFeedback, EditManually, Dismiss, catalogVars
<1>2. Active \in Texts \cup {None}
  BY ActiveIs, ActiveText DEF Sound, CatalogSound, CatalogTypes
<1>3. ASSUME NEW row, NEW next, request' = [request EXCEPT ![r] = row],
             draft' = [draft EXCEPT ![r] = next], RowSound(row, next, review),
             modal' \in [Requests -> Users \cup {None}]
      PROVE  EditsSound' /\ row \in RequestRows
  BY <1>0, <1>1, <1>3, RequestStep DEF RowSound
<1>4. ASSUME NEW next, UNCHANGED request,
             draft' = [draft EXCEPT ![r] = next], RowSound(old, next, review),
             modal' \in [Requests -> Users \cup {None}]
      PROVE  EditsSound' /\ Step
  <2>1. request' = [request EXCEPT ![r] = old]
    BY <1>0, <1>4
  <2>2. EditsSound'
    BY <1>3, <1>4, <2>1
  <2>3. UNCHANGED Seen
    BY <1>0, <1>1, <2>1, Unseen
  <2>4. QED
    BY <2>2, <2>3 DEF Step
<1>5. ASSUME NEW row, NEW next, request' = [request EXCEPT ![r] = row],
             draft' = [draft EXCEPT ![r] = next], RowSound(row, next, review),
             modal' \in [Requests -> Users \cup {None}],
             DecisionOf(row.status) = DecisionOf(old.status), row.base = old.base
      PROVE  EditsSound' /\ Step
  <2>1. EditsSound' /\ row \in RequestRows
    BY <1>3, <1>5
  <2>2. UNCHANGED Seen
    BY <1>0, <1>1, <1>5, <2>1, Unseen
  <2>3. QED
    BY <2>1, <2>2 DEF Step
<1>6. ASSUME NEW row, request' = [request EXCEPT ![r] = row], UNCHANGED draft,
             RowSound(row, task, review), modal' \in [Requests -> Users \cup {None}],
             old.status \notin {"none", "published"},
             row.status \in {"stale", "dismissed"}, row.base = old.base
      PROVE  EditsSound' /\ Step
  <2>1. EditsSound' /\ row \in RequestRows
    BY <1>0, <1>3, <1>6
  <2>2. Step
    BY <1>0, <1>1, <1>6, <2>1, WithdrawSeen
  <2>3. QED
    BY <2>1, <2>2
<1>7. /\ DecisionOf("none") = "none"
      /\ \A status \in {"awaiting_action", "drafting", "feedback_drafting", "review",
                        "draft_failed"} : DecisionOf(status) = "open"
      /\ DecisionOf("dismissed") = "withdrawn"
  BY DEF DecisionOf
<1>8. old.status \notin Drafting => task.phase = "none"
  BY <1>0, Undrafted
<1>10. CASE StartDraft(r)
  <2> DEFINE from == IF task.kind = "feedback_drafting" THEN old.text
                     ELSE IF index = Chunks(old.base) THEN old.base ELSE None
             next == [task EXCEPT !.phase = "running", !.from = from]
  <2>1. task.phase = "scheduling" /\ draft' = [draft EXCEPT ![r] = next] /\ UNCHANGED <<request, modal>>
    BY <1>10 DEF StartDraft
  <2>2. from \in Texts \cup {None}
    BY <1>0 DEF RequestRows
  <2>3. next \in DraftRows /\ next.phase = "running" /\ next.from = from /\ next.kind = task.kind
    <3> HIDE DEF from
    <3>1. QED
      BY <1>0, <2>2 DEF DraftRows
  <2>4. next.kind = "feedback_drafting" => next.from = old.text
    BY <2>3
  <2> HIDE DEF next
  <2>5. RowSound(old, next, review)
    BY <1>0, <2>1, <2>3, <2>4 DEF RowSound
  <2>6. QED
    BY <1>0, <1>4, <2>1, <2>5
<1>11. CASE RenderRaises(r)
  <2>1. draft' = [draft EXCEPT ![r] = NoDraft] /\ UNCHANGED <<request, modal>>
    BY <1>11 DEF RenderRaises
  <2>2. RowSound(old, NoDraft, review)
    BY <1>0, RowsInit DEF RowSound
  <2>3. QED
    BY <1>0, <1>4, <2>1, <2>2
<1>12. CASE FinishDraft(r)
  <2>1. PICK t \in Texts : request' = [request EXCEPT ![r] = Written(r, t)]
    BY <1>12 DEF FinishDraft
  <2>2. /\ task.phase = "running" /\ draft' = [draft EXCEPT ![r] = NoDraft] /\ UNCHANGED modal
        /\ old.status = task.kind /\ task.kind \in Drafting
    BY <1>0, <1>12 DEF FinishDraft, RowSound
  <2>3. \/ Written(r, t) = [old EXCEPT !.status = "review", !.text = t]
        \/ Written(r, t) = [old EXCEPT !.status = "review", !.text = t,
                                       !.applied = @ \cup old.feedback, !.feedback = {}]
    BY <2>2 DEF Written
  <2>4. /\ Written(r, t) \in RequestRows
        /\ Written(r, t).status = "review" /\ Written(r, t).text = t
        /\ Written(r, t).base = old.base
        /\ Written(r, t).applied \cup Written(r, t).feedback \subseteq old.applied \cup old.feedback
    <3>1. CASE Written(r, t) = [old EXCEPT !.status = "review", !.text = t]
      BY <1>0, <3>1 DEF RequestRows, Statuses
    <3>2. CASE Written(r, t) = [old EXCEPT !.status = "review", !.text = t,
                                           !.applied = @ \cup old.feedback, !.feedback = {}]
      <4>1. old.applied \cup old.feedback \in SUBSET Reviews
        BY <1>0 DEF RequestRows
      <4>2. Written(r, t) = [status |-> "review", base |-> old.base, text |-> t, by |-> old.by,
                             card |-> old.card, applied |-> old.applied \cup old.feedback,
                             feedback |-> {}]
        BY <1>0, <3>2 DEF RequestRows
      <4>3. QED
        BY <1>0, <4>1, <4>2 DEF RequestRows, Statuses
    <3>3. QED
      BY <2>3, <3>1, <3>2
  <2>5. RowSound(Written(r, t), NoDraft, review)
    BY <1>0, <2>4, RowsInit DEF RowSound
  <2>6. DecisionOf("review") = "open" /\ DecisionOf(old.status) = "open"
    BY <1>7, <2>2 DEF Drafting
  <2>7. QED
    BY <1>0, <1>5, <2>1, <2>2, <2>4, <2>5, <2>6
<1>13. CASE DraftFails(r)
  <2> DEFINE row == [old EXCEPT !.status = "draft_failed"]
  <2>1. task.phase = "running" /\ old.status = task.kind /\ task.kind \in Drafting
    BY <1>0, <1>13 DEF DraftFails, RowSound
  <2>2. request' = [request EXCEPT ![r] = row] /\ draft' = [draft EXCEPT ![r] = NoDraft]
        /\ UNCHANGED modal
    BY <1>0, <1>13, <2>1 DEF DraftFails, EditsSound
  <2>3. /\ row \in RequestRows /\ row.status = "draft_failed" /\ row.base = old.base
        /\ row.applied = old.applied /\ row.feedback = old.feedback
    BY <1>0 DEF RequestRows, Statuses
  <2> HIDE DEF row
  <2>4. RowSound(row, NoDraft, review)
    BY <1>0, <2>3, RowsInit DEF RowSound
  <2>5. DecisionOf(row.status) = DecisionOf(old.status)
    BY <1>7, <2>1, <2>3 DEF Drafting
  <2>6. QED
    BY <1>0, <1>5, <2>2, <2>3, <2>4, <2>5
<1>14. CASE SaveManual(r)
  <2>1. modal' \in [Requests -> Users \cup {None}] /\ UNCHANGED draft
    BY <1>0, <1>14 DEF SaveManual
  <2>2. CASE UNCHANGED request
    BY <1>0, <1>4, <2>1, <2>2
  <2>3. CASE old.status \in Editable /\ request' = [request EXCEPT ![r].status = "stale"]
    <3> DEFINE row == [old EXCEPT !.status = "stale"]
    <3>1. request' = [request EXCEPT ![r] = row]
      BY <2>3
    <3>2. /\ row \in RequestRows /\ row.status = "stale" /\ row.base = old.base
          /\ row.applied = old.applied /\ row.feedback = old.feedback
      BY <1>0 DEF RequestRows, Statuses
    <3>3. old.status \notin Drafting /\ old.status \notin {"none", "published"}
      BY <2>3 DEF Editable, AwaitsDraft, AwaitsDecision, Drafting
    <3> HIDE DEF row
    <3>4. RowSound(row, task, review)
      BY <1>0, <1>8, <3>2, <3>3 DEF RowSound
    <3>5. QED
      BY <1>6, <2>1, <3>1, <3>2, <3>3, <3>4
  <2>4. ASSUME old.status \in Editable, NEW t \in Texts,
               request' = [request EXCEPT ![r].status = "review", ![r].text = t]
        PROVE  EditsSound' /\ Step
    <3> DEFINE row == [old EXCEPT !.status = "review", !.text = t]
    <3>1. request' = [request EXCEPT ![r] = row]
      BY <1>0, <2>4 DEF EditsSound
    <3>2. /\ row \in RequestRows /\ row.status = "review" /\ row.base = old.base /\ row.text = t
          /\ row.applied = old.applied /\ row.feedback = old.feedback
      BY <1>0 DEF RequestRows, Statuses
    <3>3. old.status \notin Drafting /\ DecisionOf(old.status) = "open"
      BY <1>7, <2>4 DEF Editable, AwaitsDraft, AwaitsDecision, Drafting
    <3> HIDE DEF row
    <3>4. RowSound(row, task, review)
      BY <1>0, <1>8, <3>2, <3>3 DEF RowSound
    <3>5. DecisionOf(row.status) = DecisionOf(old.status)
      BY <1>7, <3>2, <3>3
    <3>6. QED
      BY <1>0, <1>5, <2>1, <3>1, <3>2, <3>4, <3>5
  <2>5. QED
    BY <1>14, <2>2, <2>3, <2>4 DEF SaveManual
<1>15. ASSUME NEW u \in Users, Flag(r, u)
       PROVE  EditsSound' /\ Step
  <2>1. PICK status \in {"awaiting_action", "dismissed"}, card \in BOOLEAN :
          request' = [request EXCEPT ![r] =
            [NoRequest EXCEPT !.status = status, !.base = Active, !.by = u, !.card = card]]
    BY <1>15 DEF Flag
  <2> DEFINE row == [NoRequest EXCEPT !.status = status, !.base = Active, !.by = u, !.card = card]
  <2>2. /\ old.status = "none" /\ Active # None /\ UNCHANGED <<draft, modal>>
        /\ request' = [request EXCEPT ![r] = row]
    BY <1>15, <2>1 DEF Flag
  <2>3. /\ row \in RequestRows /\ row.status = status /\ row.base = Active
        /\ row.applied = {} /\ row.feedback = {}
    BY <1>2 DEF NoRequest, RequestRows, Statuses
  <2> HIDE DEF row
  <2>4. task.phase = "none"
    BY <1>8, <2>2 DEF Drafting
  <2>5. RowSound(row, task, review)
    BY <1>0, <2>3, <2>4 DEF RowSound
  <2>6. EditsSound'
    BY <1>0, <1>3, <2>2, <2>5
  <2>7. DecisionOf(status) \in {"open", "withdrawn"} /\ Decision(r) = "none"
    BY <1>0, <1>7, <2>2, <2>3, RequestSeen
  <2>8. Revisions!Open(r)
    BY <1>0, <1>1, <2>2, <2>3, <2>7, RequestSeen DEF Revisions!Open
  <2>9. QED
    BY <2>6, <2>8 DEF Step, Revisions!Next
<1>16. ASSUME NEW u \in Users, MarkStale(r, u) \/ Dismiss(r, u)
       PROVE  EditsSound' /\ Step
  <2>1. PICK status \in {"stale", "dismissed"} : request' = [request EXCEPT ![r].status = status]
    BY <1>16 DEF MarkStale, Dismiss
  <2> DEFINE row == [old EXCEPT !.status = status]
  <2>2. request' = [request EXCEPT ![r] = row] /\ UNCHANGED <<draft, modal>>
        /\ old.status \in AwaitsDraft \cup AwaitsDecision \cup {"stale"}
    BY <1>16, <2>1 DEF MarkStale, Dismiss, MayAct
  <2>3. /\ row \in RequestRows /\ row.status = status /\ row.base = old.base
        /\ row.applied = old.applied /\ row.feedback = old.feedback
    BY <1>0 DEF RequestRows, Statuses
  <2>4. old.status \notin Drafting /\ old.status \notin {"none", "published"}
    BY <2>2 DEF AwaitsDraft, AwaitsDecision, Drafting
  <2> HIDE DEF row
  <2>5. RowSound(row, task, review)
    BY <1>0, <1>8, <2>3, <2>4 DEF RowSound
  <2>6. QED
    BY <1>0, <1>6, <2>2, <2>3, <2>4, <2>5
<1>17. ASSUME NEW u \in Users, DraftWithAI(r, u)
       PROVE  EditsSound' /\ Step
  <2> DEFINE row == [old EXCEPT !.status = "drafting"]
  <2>1. /\ request' = [request EXCEPT ![r] = row]
        /\ draft' = [draft EXCEPT ![r] = Scheduling("drafting")]
        /\ UNCHANGED modal /\ old.status \in AwaitsDraft
    BY <1>17 DEF DraftWithAI, MayAct
  <2>2. /\ row \in RequestRows /\ row.status = "drafting" /\ row.base = old.base
        /\ row.applied = old.applied /\ row.feedback = old.feedback
    BY <1>0 DEF RequestRows, Statuses
  <2>3. /\ Scheduling("drafting") \in DraftRows /\ Scheduling("drafting").phase = "scheduling"
        /\ Scheduling("drafting").kind = "drafting" /\ "drafting" \in Drafting
    BY DEF Scheduling, DraftRows, Drafting
  <2> HIDE DEF row
  <2>4. RowSound(row, Scheduling("drafting"), review)
    BY <1>0, <2>2, <2>3 DEF RowSound
  <2>5. DecisionOf(row.status) = DecisionOf(old.status)
    BY <1>7, <2>1, <2>2 DEF AwaitsDraft
  <2>6. QED
    BY <1>0, <1>5, <2>1, <2>2, <2>4, <2>5
<1>18. ASSUME NEW u \in Users, ApplyFeedback(r, u)
       PROVE  EditsSound' /\ Step
  <2> DEFINE row == [old EXCEPT !.status = "feedback_drafting", !.feedback = ReviewsToApply(r)]
  <2>1. /\ request' = [request EXCEPT ![r].status = "feedback_drafting",
                                      ![r].feedback = ReviewsToApply(r)]
        /\ draft' = [draft EXCEPT ![r] = Scheduling("feedback_drafting")]
        /\ UNCHANGED modal /\ old.status \in AwaitsDecision
    BY <1>18 DEF ApplyFeedback, MayAct
  <2>2. request' = [request EXCEPT ![r] = row]
    BY <1>0, <2>1 DEF EditsSound
  <2>3. /\ ReviewsToApply(r) \in SUBSET Reviews /\ ReviewsToApply(r) \cap old.applied = {}
        /\ \A v \in ReviewsToApply(r) :
             review[v] = [status |-> "completed", version |-> old.base]
    BY DEF ReviewsToApply
  <2>4. /\ row \in RequestRows /\ row.status = "feedback_drafting" /\ row.base = old.base
        /\ row.applied = old.applied /\ row.feedback = ReviewsToApply(r)
    BY <1>0, <2>3 DEF RequestRows, Statuses
  <2>5. /\ Scheduling("feedback_drafting") \in DraftRows
        /\ Scheduling("feedback_drafting").phase = "scheduling"
        /\ Scheduling("feedback_drafting").kind = "feedback_drafting"
        /\ "feedback_drafting" \in Drafting
    BY DEF Scheduling, DraftRows, Drafting
  <2> HIDE DEF row
  <2>6. RowSound(row, Scheduling("feedback_drafting"), review)
    BY <1>0, <2>3, <2>4, <2>5 DEF RowSound
  <2>7. DecisionOf(row.status) = DecisionOf(old.status)
    BY <1>7, <2>1, <2>4 DEF AwaitsDecision
  <2>8. QED
    BY <1>0, <1>5, <2>1, <2>2, <2>4, <2>6, <2>7
<1>19. ASSUME NEW u \in Users, EditManually(r, u)
       PROVE  EditsSound' /\ Step
  <2>1. modal' \in [Requests -> Users \cup {None}] /\ UNCHANGED <<request, draft>>
    BY <1>0, <1>19 DEF EditManually
  <2>2. QED
    BY <1>0, <1>4, <2>1
<1>20. QED
  BY <1>10, <1>11, <1>12, <1>13, <1>14, <1>15, <1>16, <1>17, <1>18, <1>19 DEF CardStep

LEMMA CardStepStays ==
  ASSUME Sound, NEW r \in Requests, CardStep(r)
  PROVE  CatalogSound' /\ FilesSound' /\ Landing'
<1>1. /\ UNCHANGED <<version, recorded, index, commits, disturbed, staged, onDisk, landed>>
      /\ failures' = failures \/ Failure
  BY DEF CardStep, StartDraft, RenderRaises, FinishDraft, DraftFails, SaveManual, Flag,
         MarkStale, DraftWithAI, ApplyFeedback, EditManually, Dismiss, catalogVars
<1>2. failures' \in 0..MaxFailures
  BY <1>1, FailureType DEF Sound, FilesSound
<1>3. QED
  BY <1>1, <1>2, CatalogStays DEF Sound, FilesSound, Landing, Busy

--------------------------------------------------------------------------------
(* Publishing *)

LEMMA ApproveStep ==
  ASSUME Sound, NEW r \in Requests, NEW u \in Users, Approve(r, u)
  PROVE  Sound' /\ Step
<1>1. /\ request[r].status = "review" /\ Active = request[r].base
      /\ Register("frontend", request[r].text, r) /\ landed' = landed \cup {r}
      /\ UNCHANGED <<staged, onDisk, failures, request, draft, modal, review, owner>>
  BY DEF Approve, MayAct, AwaitsDecision, Current
<1>2. request[r].text \in Texts /\ "frontend" \in Processes
  BY <1>1 DEF Sound, EditsSound, RowSound, Processes
<1>3. CatalogSound' /\ Active' \in Texts
  BY <1>1, <1>2, RegisterSound DEF Sound
<1>4. EditsSound'
  BY <1>1 DEF Sound, EditsSound
<1>5. FilesSound'
  BY <1>1 DEF Sound, FilesSound
<1>6. commits'["frontend"].source = r
  <2>1. commits \in [Processes -> Commits]
    BY DEF Sound, CatalogSound, CatalogTypes
  <2>2. CASE Active = request[r].text
    <3>1. commits' = [commits EXCEPT !["frontend"] =
            [Idle EXCEPT !.phase = "finish", !.text = request[r].text, !.source = r]]
      BY <1>1, <2>2 DEF Register
    <3>2. QED
      BY <1>2, <2>1, <3>1 DEF Idle
  <2>3. CASE Active # request[r].text
    <3>1. commits' = [commits EXCEPT !["frontend"] =
            [phase |-> "delete", text |-> request[r].text, old |-> OldChunks(request[r].text),
             batch |-> 0, source |-> r]]
      BY <1>1, <2>3 DEF Register
    <3>2. QED
      BY <1>2, <2>1, <3>1
  <2>4. QED
    BY <2>2, <2>3
<1>7. Landing'
  BY <1>1, <1>6 DEF Landing
<1>8. Revisions!Land(r)
  <2>1. Decision(r) = "open"
    BY <1>1 DEF Decision
  <2>2. /\ [h \in Requests |-> Decision(h)]' = [h \in Requests |-> Decision(h)]
        /\ [h \in Requests |-> request[h].base]' = [h \in Requests |-> request[h].base]
    BY <1>1 DEF Decision
  <2>3. QED
    BY <1>1, <1>3, <2>1, <2>2 DEF Revisions!Land
<1>9. QED
  BY <1>3, <1>4, <1>5, <1>7, <1>8 DEF Sound, Step, Revisions!Next

\* The commit has returned, and the request has landed.
LEMMA PublishedStep ==
  ASSUME Sound, NEW r \in Requests, Published(r)
  PROVE  Sound' /\ Step
<1> DEFINE old == request[r]
           status == IF old.status = "review" THEN "published" ELSE old.status
           row == [old EXCEPT !.status = status]
<1>0. /\ EditsSound /\ old \in RequestRows /\ RowSound(old, draft[r], review)
      /\ draft = [draft EXCEPT ![r] = draft[r]]
      /\ modal \in [Requests -> Users \cup {None}] /\ landed \subseteq Requests
  BY DEF Sound, EditsSound
<1>1. /\ commits["frontend"].phase = "finish" /\ commits["frontend"].source = r
      /\ commits' = [commits EXCEPT !["frontend"] = Idle]
      /\ UNCHANGED <<version, recorded, index, staged, onDisk, failures, disturbed,
                     draft, modal, review, owner, landed>>
  BY DEF Published
<1>2. "frontend" \in Processes /\ ~ HalfDone("frontend") /\ Busy("frontend")
  BY <1>1 DEF Processes, HalfDone, Busy
<1>3. CatalogSound' /\ Active' = Active
  BY <1>1, <1>2, EndCommit DEF Sound, CatalogSound, CatalogTypes
<1>4. FilesSound'
  BY <1>1 DEF Sound, FilesSound
<1>5. Landing'
  BY <1>1, <1>2, IdleType DEF Sound, CatalogSound, CatalogTypes, Landing, Busy
<1>6. request' = [request EXCEPT ![r] = row]
  BY <1>0 DEF Published, EditsSound
<1>7. /\ row \in RequestRows /\ row.status = status /\ row.base = old.base
      /\ row.text = old.text /\ row.applied = old.applied /\ row.feedback = old.feedback
  <2>1. status \in Statuses
    BY <1>0 DEF RequestRows, Statuses
  <2> HIDE DEF status
  <2>2. QED
    BY <1>0, <2>1 DEF RequestRows
<1>8. RowSound(row, draft[r], review)
  <2> HIDE DEF row
  <2>1. CASE old.status = "review"
    <3>1. draft[r].phase = "none"
      BY <1>0, <2>1, Undrafted DEF Drafting
    <3>2. QED
      BY <1>0, <1>7, <2>1, <3>1 DEF RowSound
  <2>2. CASE old.status # "review"
    BY <1>0, <1>7, <2>2 DEF RowSound
  <2>3. QED
    BY <2>1, <2>2
<1>9. EditsSound'
  BY <1>0, <1>1, <1>6, <1>8, RequestStep
<1>10. Step
  <2> HIDE DEF row
  <2>1. CASE old.status = "review"
    <3>1. Decision(r) = "open" /\ DecisionOf(row.status) = "published"
      BY <1>7, <2>1 DEF Decision, DecisionOf
    <3>2. r \in landed
      BY <1>1, <1>2 DEF Sound, Landing
    <3>3. [h \in Requests |-> request[h].base]' = [h \in Requests |-> request[h].base]
      BY <1>0, <1>6, <1>7, RequestSeen
    <3>4. [h \in Requests |-> Decision(h)]' =
            [[h \in Requests |-> Decision(h)] EXCEPT ![r] = "published"]
      <4>1. [h \in Requests |-> Decision(h)]' =
              [[h \in Requests |-> Decision(h)] EXCEPT ![r] = DecisionOf(row.status)]
        BY <1>0, <1>6, <1>7, RequestSeen
      <4>2. QED
        BY <3>1, <4>1
    <3>5. [h \in Requests |-> Decision(h)][r] = "open" /\ UNCHANGED <<Active, landed>>
      BY <1>1, <1>3, <3>1
    <3>6. Revisions!Publish(r)
      BY <3>2, <3>3, <3>4, <3>5 DEF Revisions!Publish
    <3>7. QED
      BY <3>6 DEF Step, Revisions!Next
  <2>2. CASE old.status # "review"
    BY <1>0, <1>1, <1>3, <1>6, <1>7, <2>2, Unseen DEF Step
  <2>3. QED
    BY <2>1, <2>2
<1>11. QED
  BY <1>3, <1>4, <1>5, <1>9, <1>10 DEF Sound

\* The commit of the frontend is cut short, and perhaps its drafting tasks with it.
LEMMA StopStep ==
  ASSUME Sound, FrontendStops \/ \E r \in Requests : PublishingFails(r)
  PROVE  Sound' /\ Step
<1>0. "frontend" \in Processes
  BY DEF Processes
<1>1. /\ Failure /\ commits' = [commits EXCEPT !["frontend"] = Idle]
      /\ disturbed' = (disturbed \/ HalfDone("frontend"))
      /\ UNCHANGED <<version, recorded, index, staged, onDisk, request, modal, review,
                     owner, landed>>
      /\ draft' = draft \/ draft' = [r \in Requests |-> NoDraft]
  BY DEF FrontendStops, PublishingFails, CutShort, editVars
<1>2. CatalogSound' /\ Active' = Active
  BY <1>0, <1>1, EndCommit DEF Sound
<1>3. FilesSound'
  BY <1>1, FailureType DEF Sound, FilesSound
<1>4. Landing'
  BY <1>0, <1>1, IdleType DEF Sound, CatalogSound, CatalogTypes, Landing, Busy
<1>5. EditsSound'
  <2>1. CASE draft' = draft
    BY <1>1, <2>1 DEF Sound, EditsSound
  <2>2. CASE draft' = [r \in Requests |-> NoDraft]
    <3>1. \A r \in Requests : RowSound(request[r], NoDraft, review)
      BY RowsInit DEF Sound, EditsSound, RowSound
    <3>2. QED
      BY <1>1, <2>2, <3>1, RowsInit DEF Sound, EditsSound
  <2>3. QED
    BY <1>1, <2>1, <2>2
<1>6. UNCHANGED Seen
  BY <1>1, <1>2 DEF Seen, Decision
<1>7. QED
  BY <1>2, <1>3, <1>4, <1>5, <1>6 DEF Sound, Step

--------------------------------------------------------------------------------
(* Everything else *)

LEMMA CommitsAndUploads ==
  ASSUME Sound, CommitStep \/ Upload, UNCHANGED editVars
  PROVE  Sound' /\ Step
<1>0. CatalogSound /\ FilesSound /\ "frontend" \in Processes
  BY DEF Sound, Processes
<1>1. EditsSound' /\ UNCHANGED <<request, landed>>
  BY DEF Sound, EditsSound, editVars
<1>2. [r \in Requests |-> Decision(r)]' = [r \in Requests |-> Decision(r)]
      /\ [r \in Requests |-> request[r].base]' = [r \in Requests |-> request[r].base]
  BY <1>1 DEF Decision
<1>3. CASE CommitStep
  <2>1. PICK p \in Processes : DeleteOld(p) \/ AddBatch(p) \/ RecordChunks(p)
    BY <1>3 DEF CommitStep
  <2>2. CatalogSound' /\ Active' = Active
    BY <1>0, <2>1, CommitSound
  <2>3. FilesSound'
    BY <1>0, <2>1 DEF FilesSound, DeleteOld, AddBatch, RecordChunks
  <2>4. Busy(p) /\ commits'["frontend"].source = commits["frontend"].source
        /\ (Busy("frontend")' => Busy("frontend"))
    BY <1>0, <2>1 DEF CatalogSound, CatalogTypes, Commits, Busy, DeleteOld, AddBatch, RecordChunks
  <2>5. Landing'
    BY <1>1, <2>4 DEF Sound, Landing
  <2>6. QED
    BY <1>1, <1>2, <2>2, <2>3, <2>5 DEF Sound, Step, Seen
<1>4. CASE Upload
  <2>1. /\ CatalogSound' /\ FilesSound' /\ Active' \in {Active, Original}
        /\ commits'["frontend"] = commits["frontend"]
    BY <1>0, <1>4, UploadSound
  <2>2. Landing'
    BY <1>1, <2>1 DEF Sound, Landing, Busy
  <2>3. CASE Active' = Active
    BY <1>1, <1>2, <2>1, <2>2, <2>3 DEF Sound, Step, Seen
  <2>4. CASE Active' = Original
    <3>1. Revisions!Overwrite
      BY <1>1, <1>2, <2>4 DEF Revisions!Overwrite
    <3>2. QED
      BY <1>1, <2>1, <2>2, <3>1 DEF Sound, Step, Revisions!Next
  <2>5. QED
    BY <2>1, <2>3, <2>4
<1>5. QED
  BY <1>3, <1>4

\* The owner and the reviews: a review that counts is never changed again.
LEMMA GovernanceStep ==
  ASSUME Sound,
         \/ \E u \in Users : AssignOwner(u)
         \/ \E v \in Reviews : RequestReview(v) \/ CompleteReview(v)
         \/ UNCHANGED vars
  PROVE  Sound' /\ Step
<1>1. UNCHANGED <<version, recorded, index, commits, disturbed, staged, onDisk, failures,
                  request, draft, modal, landed>>
  BY DEF AssignOwner, RequestReview, CompleteReview, vars, catalogVars, editVars
<1>2. owner' \in Users \cup {None}
  BY DEF Sound, EditsSound, AssignOwner, RequestReview, CompleteReview, vars, editVars
<1>3. review' \in [Reviews -> ReviewRows]
      /\ \A v \in Reviews : review[v].status = "completed" => review'[v] = review[v]
  <2>1. review \in [Reviews -> ReviewRows]
    BY DEF Sound, EditsSound
  <2>2. CASE UNCHANGED review
    BY <2>1, <2>2
  <2>3. ASSUME NEW v \in Reviews, RequestReview(v)
        PROVE  <1>3!1 /\ <1>3!2
    <3>1. Active \in Texts \cup {None}
      BY ActiveIs, ActiveText DEF Sound, CatalogSound, CatalogTypes
    <3>2. [status |-> "requested", version |-> Active] \in ReviewRows
      BY <3>1 DEF ReviewRows
    <3>3. review[v].status = "none"
      BY <2>3, RowsInit DEF RequestReview
    <3>4. QED
      BY <2>1, <2>3, <3>2, <3>3 DEF RequestReview
  <2>4. ASSUME NEW v \in Reviews, CompleteReview(v)
        PROVE  <1>3!1 /\ <1>3!2
    <3>1. [review[v] EXCEPT !.status = "completed"] \in ReviewRows
      BY <2>1 DEF ReviewRows
    <3>2. QED
      BY <2>1, <2>4, <3>1 DEF CompleteReview
  <2>5. QED
    BY <2>2, <2>3, <2>4 DEF AssignOwner, vars, editVars
<1>4. \A r \in Requests : RowSound(request[r], draft[r], review')
  <2>1. \A r \in Requests : RowSound(request[r], draft[r], review)
    BY DEF Sound, EditsSound
  <2>2. \A r \in Requests : request[r].applied \cup request[r].feedback \subseteq Reviews
    BY <2>1 DEF RowSound, RequestRows
  <2>3. QED
    BY <1>3, <2>1, <2>2 DEF RowSound
<1>5. EditsSound'
  BY <1>1, <1>2, <1>3, <1>4 DEF Sound, EditsSound
<1>6. CatalogSound' /\ FilesSound' /\ Landing' /\ Active' = Active
  BY <1>1, CatalogStays, ActiveIs DEF Sound, FilesSound, Landing, Busy
<1>7. QED
  BY <1>1, <1>5, <1>6 DEF Sound, Step, Seen, Decision

LEMMA SoundNext == Sound /\ [Next]_vars => Sound' /\ Step
<1> SUFFICES ASSUME Sound, [Next]_vars
             PROVE  Sound' /\ Step
  OBVIOUS
<1>1. ASSUME NEW r \in Requests, Edit(r)
      PROVE  Sound' /\ Step
  <2>1. CASE CardStep(r)
    BY <2>1, CardStepSound, CardStepStays DEF Sound
  <2>2. CASE Published(r)
    BY <2>2, PublishedStep
  <2>3. CASE PublishingFails(r)
    BY <2>3, StopStep
  <2>4. ASSUME NEW u \in Users, Approve(r, u)
        PROVE  Sound' /\ Step
    BY <2>4, ApproveStep
  <2>5. QED
    BY <1>1, <2>1, <2>2, <2>3, <2>4 DEF Edit, CardStep
<1>2. CASE (CommitStep \/ Upload) /\ UNCHANGED editVars
  BY <1>2, CommitsAndUploads
<1>3. CASE FrontendStops
  BY <1>3, StopStep
<1>4. CASE \/ \E u \in Users : AssignOwner(u)
           \/ \E v \in Reviews : RequestReview(v) \/ CompleteReview(v)
           \/ UNCHANGED vars
  BY <1>4, GovernanceStep
<1>5. QED
  BY <1>1, <1>2, <1>3, <1>4 DEF Next

\* The invariant that the theorems below are read off.
THEOREM AlwaysSound == Spec => []Sound
  BY SoundInit, SoundNext, PTL DEF Spec

--------------------------------------------------------------------------------
(* The theorems *)

\* Every column, task and commit keeps to the values the code gives it.
THEOREM EditsTypeCorrect == Spec => []TypeOK
<1>1. Sound => TypeOK
  <2> SUFFICES ASSUME Sound
               PROVE  TypeOK
    OBVIOUS
  <2>1. CatalogTypeOK
    <3>1. \A p \in Processes :
            /\ commits[p] \in Commits
            /\ Busy(p) => commits[p].text \in Texts
      BY DEF Sound, CatalogSound, CatalogTypes
    <3>2. \A p \in Processes :
            /\ commits[p].phase \in {"idle", "delete", "add", "record", "finish"}
            /\ commits[p].text \in Texts \cup {None}
            /\ commits[p].old \subseteq AllChunks
            /\ commits[p].batch \in Nat
            /\ Busy(p) => commits[p].text # None
      BY <3>1, CatalogAssumption DEF Commits
    <3>3. DOMAIN commits = Processes
      BY DEF Sound, CatalogSound, CatalogTypes
    <3>4. QED
      BY <3>2, <3>3 DEF Sound, CatalogSound, CatalogTypes, FilesSound, CatalogTypeOK
  <2>2. QED
    BY <2>1 DEF Sound, EditsSound, TypeOK, RequestRows, DraftRows, ReviewRows
<1>2. QED
  BY <1>1, AlwaysSound, PTL

\* An article has one active version, however edits, uploads and the return of an
\* earlier text follow each other in two processes and wherever these stop.
THEOREM OneVersionIsActive == Spec => []OneActiveVersion
<1>1. Sound => OneActiveVersion
  BY ActiveIs, ActiveText DEF Sound, CatalogSound, CatalogTypes, OneActive, OneActiveVersion
<1>2. QED
  BY <1>1, AlwaysSound, PTL

\* Between commits that nothing disturbed, the vector store has exactly the chunks
\* of the active version.
THEOREM SearchFindsActive == Spec => []SearchFindsTheActiveVersion
<1>1. Sound => SearchFindsTheActiveVersion
  BY DEF Sound, CatalogSound, InStep, Busy, HalfDone, SearchFindsTheActiveVersion
<1>2. QED
  BY <1>1, AlwaysSound, PTL

\* A draft comes back to the request it was started for, in the state it left it in,
\* and applies only completed reviews of its version, each once.
THEOREM DraftsMeet == Spec => []DraftsMeetTheirRequest
<1>1. Sound => DraftsMeetTheirRequest
  BY DEF Sound, EditsSound, RowSound, DraftsMeetTheirRequest
<1>2. QED
  BY <1>1, AlwaysSound, PTL

\* Edits implement compare-and-set on the article: what the handlers, the drafting
\* tasks and both processes' commits do are steps of ArticleRevisions or not seen.
THEOREM EditsImplementRevisions == Spec => ImplementsRevisions
<1>1. Init => Revisions!Init
  <2> SUFFICES ASSUME Init
               PROVE  Revisions!Init
    OBVIOUS
  <2>1. Active = None /\ landed = {}
    BY DEF Init, CatalogInit, Active
  <2>2. \A r \in Requests : request[r].status = "none" /\ request[r].base = None
    BY RowsInit DEF Init
  <2>3. QED
    BY <2>1, <2>2 DEF Revisions!Init, Decision
<1>2. Step => [Revisions!Next]_(Revisions!revisionVars)
  BY DEF Step, Seen, Revisions!revisionVars
<1>3. QED
  BY <1>1, <1>2, AlwaysSound, SoundNext, PTL DEF Spec, ImplementsRevisions, Revisions!Spec
====
