---- MODULE KnowledgeCatalog ----
(* The versions of one governed article (knowledge/catalog.py), its chunks in  *)
(* the vector store, and the commit that keeps the two in step                 *)
(* (knowledge/governed_ingest.py). Two processes commit: the main bot, when an *)
(* upload is confirmed (agents/knowledge_ingest), and the frontend             *)
(* application, when an edit request is approved. A commit is one synchronous  *)
(* call of its process, but several transactions on two stores: the other      *)
(* process, an exception or the end of the process may come between any two.   *)
EXTENDS Naturals, FiniteSets

CONSTANTS Texts,      \* contents of the article; a version is named by its hash
          Original,   \* the text of the uploaded file
          Batches,    \* Batches[t]: batches of chunks text t is embedded in
          Stages,     \* staged copies of the file
          MaxFailures, \* how often a store may raise or a process end
          None

ASSUME CatalogAssumption ==
    /\ Original \in Texts
    /\ None \notin Texts \cup Stages
    /\ Batches \in [Texts -> Nat \ {0}]
    /\ MaxFailures \in Nat

VARIABLES version,    \* document_versions.status of each text, or "absent"
          recorded,   \* document_versions.chunk_ids_json
          index,      \* the article's chunks in the vector store
          commits,    \* what each process is committing
          staged,     \* staged_uploads.status
          onDisk,     \* whether the downloaded file is in the staging directory
          failures,   \* history: how often one did
          disturbed   \* history: a commit was cut short or met another one

catalogVars ==
    <<version, recorded, index, commits, staged, onDisk, failures, disturbed>>

Processes == {"bot", "frontend"}

Chunks(t) == {t} \X (1..Batches[t])

AllChunks == UNION {Chunks(t) : t \in Texts}

\* The commit of a process that is not committing.
Idle == [phase |-> "idle", text |-> None, old |-> {}, batch |-> 0, source |-> None]

Busy(p) == commits[p].phase # "idle"

\* The catalog has advanced, and the vector store or the chunk ids have not yet.
HalfDone(p) == commits[p].phase \in {"delete", "add", "record"}

\* KnowledgeCatalog.active_version; None before the first version.
Active ==
    IF \E t \in Texts : version[t] = "active"
    THEN CHOOSE t \in Texts : version[t] = "active" ELSE None

CatalogInit ==
    /\ version = [t \in Texts |-> "absent"]
    /\ recorded = [t \in Texts |-> {}]
    /\ index = {}
    /\ commits = [p \in Processes |-> Idle]
    /\ staged = [s \in Stages |-> "none"]
    /\ onDisk = FALSE
    /\ failures = 0
    /\ disturbed = FALSE

--------------------------------------------------------------------------------
(* The commit *)

\* An exception of a store, or the end of a process.
Failure ==
    /\ failures < MaxFailures
    /\ failures' = failures + 1

\* The new active version leaves its predecessor active too.
ActivatedBesides(t) == [version EXCEPT ![t] = "active"]

\* What register_version makes of the statuses: t active, its predecessor superseded.
Activated(t) ==
    [u \in Texts |-> IF u = t THEN "active"
                     ELSE IF version[u] = "active" THEN "superseded" ELSE version[u]]

\* The chunk ids are read of the version registered now, not of the one before.
OwnOldChunks(t) == recorded[t]

\* The chunks register_version tells the commit to delete: those the active
\* version has recorded.
OldChunks(t) == IF Active = None THEN {} ELSE recorded[Active]

\* register_version: one transaction. A text that is active already leaves
\* everything as it is, and the call is over (unchanged). Otherwise the row of the
\* text is inserted, or replaced if the article has had that text before, and the
\* commit goes on with the vector store.
Register(p, t, source) ==
    /\ ~ Busy(p)
    /\ IF Active = t
       THEN /\ commits' = [commits EXCEPT ![p] =
                 [Idle EXCEPT !.phase = "finish", !.text = t, !.source = source]]
            /\ UNCHANGED <<version, recorded, disturbed>>
       ELSE /\ commits' = [commits EXCEPT ![p] =
                 [phase |-> "delete", text |-> t, old |-> OldChunks(t), batch |-> 0,
                  source |-> source]]
            /\ version' = Activated(t)
            /\ recorded' = [recorded EXCEPT ![t] = {}]
            /\ disturbed' = (disturbed \/ \E q \in Processes : HalfDone(q))
    /\ UNCHANGED index

\* vector_store.delete_documents(old_ids)
DeleteOld(p) ==
    /\ commits[p].phase = "delete"
    /\ index' = index \ commits[p].old
    /\ commits' = [commits EXCEPT ![p].phase = "add"]
    /\ UNCHANGED <<version, recorded, staged, onDisk, failures, disturbed>>

\* vector_store.add_documents: a batch is embedded and upserted at a time, under
\* ids made of the content hash and the position.
AddBatch(p) ==
    LET job == commits[p]
        n == job.batch + 1
    IN  /\ job.phase = "add"
        /\ index' = index \cup {<<job.text, n>>}
        /\ commits' = [commits EXCEPT
             ![p].batch = n,
             ![p].phase = IF n = Batches[job.text] THEN "record" ELSE "add"]
        /\ UNCHANGED <<version, recorded, staged, onDisk, failures, disturbed>>

\* catalog.set_chunk_ids: the commit returns to its caller.
RecordChunks(p) ==
    /\ commits[p].phase = "record"
    /\ recorded' = [recorded EXCEPT ![commits[p].text] = Chunks(commits[p].text)]
    /\ commits' = [commits EXCEPT ![p].phase = "finish"]
    /\ UNCHANGED <<version, index, staged, onDisk, failures, disturbed>>

\* The commit of p ends with an exception of a store, or with the process.
\* Whatever it has done stays done.
CutShort(p) ==
    /\ Failure
    /\ Busy(p)
    /\ commits' = [commits EXCEPT ![p] = Idle]
    /\ disturbed' = (disturbed \/ HalfDone(p))
    /\ UNCHANGED <<version, recorded, index, onDisk>>

--------------------------------------------------------------------------------
(* Uploads (agents/knowledge_ingest/agent.py). The bot is one event loop: while *)
(* it commits it handles nothing else.                                          *)

\* A Slack file is downloaded and its text extracted. The same file may be staged
\* again (posted twice, or its message delivered twice): the local path is made of
\* the id and the name of the file, so the copies share it.
Stage(s) ==
    /\ ~ Busy("bot")
    /\ staged[s] = "none"
    /\ staged' = [staged EXCEPT ![s] = "staged"]
    /\ onDisk' = TRUE
    /\ UNCHANGED <<version, recorded, index, commits, failures, disturbed>>

\* "confirm <stage-id>", and "confirm all" for each of its uploads in turn.
\* No version is expected: the file replaces whatever the article has become.
Confirm(s) ==
    /\ staged[s] = "staged"
    /\ onDisk
    /\ Register("bot", Original, s)
    /\ UNCHANGED <<staged, onDisk, failures>>

\* The file has gone, its text cannot be extracted, or the first transaction fails.
ConfirmFails(s) ==
    /\ ~ Busy("bot")
    /\ staged[s] = "staged"
    /\ Failure \/ (~ onDisk /\ UNCHANGED failures)
    /\ staged' = [staged EXCEPT ![s] = "failed"]
    /\ UNCHANGED <<version, recorded, index, commits, onDisk, disturbed>>

\* The incidents of a CSV are indexed, then the upload is marked.
Confirmed(s) ==
    /\ commits["bot"].phase = "finish"
    /\ commits["bot"].source = s
    /\ commits' = [commits EXCEPT !["bot"] = Idle]
    /\ staged' = [staged EXCEPT ![s] = "confirmed"]
    /\ UNCHANGED <<version, recorded, index, onDisk, failures, disturbed>>

\* Any exception of the commit, or of indexing incidents after it: "I could not
\* commit that upload", also when the catalog has advanced.
CommitRaises(s) ==
    /\ commits["bot"].source = s
    /\ CutShort("bot")
    /\ staged' = [staged EXCEPT ![s] = "failed"]

\* The bot's process ends: the upload stays staged and can be confirmed again.
BotStops ==
    /\ CutShort("bot")
    /\ UNCHANGED staged

\* "cancel <stage-id>" removes the file, whichever other copy needs it.
CancelUpload(s) ==
    /\ ~ Busy("bot")
    /\ staged[s] = "staged"
    /\ staged' = [staged EXCEPT ![s] = "cancelled"]
    /\ onDisk' = FALSE
    /\ UNCHANGED <<version, recorded, index, commits, failures, disturbed>>

CommitStep == \E p \in Processes : DeleteOld(p) \/ AddBatch(p) \/ RecordChunks(p)

Upload ==
    \/ BotStops
    \/ \E s \in Stages :
         \/ Stage(s)
         \/ Confirm(s)
         \/ ConfirmFails(s)
         \/ Confirmed(s)
         \/ CommitRaises(s)
         \/ CancelUpload(s)

--------------------------------------------------------------------------------
(* Properties *)

\* The columns and the steps of a commit have the values the code gives them.
CatalogTypeOK ==
    /\ version \in [Texts -> {"absent", "active", "superseded"}]
    /\ recorded \in [Texts -> SUBSET AllChunks]
    /\ index \subseteq AllChunks
    /\ DOMAIN commits = Processes
    /\ \A p \in Processes :
         /\ commits[p].phase \in {"idle", "delete", "add", "record", "finish"}
         /\ commits[p].text \in Texts \cup {None}
         /\ commits[p].old \subseteq AllChunks
         /\ commits[p].batch \in Nat
         /\ Busy(p) => commits[p].text # None
    /\ staged \in [Stages -> {"none", "staged", "confirmed", "failed", "cancelled"}]
    /\ onDisk \in BOOLEAN
    /\ failures \in 0..MaxFailures
    /\ disturbed \in BOOLEAN

\* The schema allows any number of active versions of a document; the code keeps
\* one, through edits, uploads and the return of an earlier text, whatever two
\* processes do and wherever they stop. Once there is one there always is.
OneActiveVersion ==
    /\ \A t, u \in Texts : version[t] = "active" /\ version[u] = "active" => t = u
    /\ (\E t \in Texts : version[t] # "absent") => Active # None

\* When no commit is under way, and none was ever cut short or overtaken by
\* another, retrieval finds exactly the chunks of the active version, and the
\* catalog has recorded exactly these for the next commit to delete.
SearchFindsTheActiveVersion ==
    ~ disturbed /\ (\A p \in Processes : ~ Busy(p)) /\ Active # None =>
        /\ index = Chunks(Active)
        /\ recorded[Active] = index
====
