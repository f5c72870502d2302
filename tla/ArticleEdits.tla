---- MODULE ArticleEdits ----
(* Edit requests for a governed article (knowledge/edit_requests.py), the       *)
(* handlers of their card (bot/frontend_knowledge_edit, knowledge_edit_workflow, *)
(* knowledge_edit_decisions), the drafting tasks (knowledge_edit_drafting) and   *)
(* the reviews and the owner of the article (article_governance,                 *)
(* knowledge_governance_interactivity).                                          *)
(* All of it is one event loop, the frontend application: what a handler does    *)
(* between two awaits is one step, and nothing else of it runs while it commits. *)
EXTENDS KnowledgeCatalog

CONSTANTS Requests, Users, Reviews

VARIABLES request,    \* frontend_knowledge_edit_requests
          draft,      \* the asyncio task drafting for a request
          modal,      \* who has the manual edit of a request open
          review,     \* knowledge_article_reviews
          owner,      \* knowledge_article_ownership
          landed      \* history: requests whose text became a version

editVars == <<request, draft, modal, review, owner, landed>>
vars == <<catalogVars, editVars>>

NoRequest ==
    [status |-> "none", base |-> None, text |-> None, by |-> None, card |-> FALSE,
     applied |-> {}, feedback |-> {}]

NoDraft == [phase |-> "none", kind |-> "none", from |-> None]

\* A task that starts once the handler's rendering of the card is over.
Scheduling(kind) == [phase |-> "scheduling", kind |-> kind, from |-> None]

NoReview == [status |-> "none", version |-> None]

Drafting == {"drafting", "feedback_drafting"}

Init ==
    /\ CatalogInit
    /\ request = [r \in Requests |-> NoRequest]
    /\ draft = [r \in Requests |-> NoDraft]
    /\ modal = [r \in Requests |-> None]
    /\ review = [v \in Reviews |-> NoReview]
    /\ owner = None
    /\ landed = {}

\* The statuses whose card has the buttons of a first draft, and the one whose card
\* has those that decide about a draft. Drafting, stale, published and dismissed
\* requests show none; a card rendered late still shows those of before.
AwaitsDraft == {"awaiting_action", "draft_failed"}
AwaitsDecision == {"review"}

\* The owner of the article, or who asked for the edit while it has none.
Authority(r) == IF owner # None THEN owner ELSE request[r].by

Current(r) == Active = request[r].base

\* A button of the card of r, pressed by u: the handler reads the request again
\* and returns unless its status is one of these and u is the authority.
MayAct(r, u, statuses) ==
    /\ ~ Busy("frontend")
    /\ request[r].card
    /\ request[r].status \in statuses
    /\ u = Authority(r)

--------------------------------------------------------------------------------
(* The request and its drafts *)

\* flag_article_edit: the request is stored, then its card is posted. Without a
\* channel or a message timestamp it is dismissed; if posting raises it stays as
\* it is, with no card to act on it.
Flag(r, u) ==
    /\ ~ Busy("frontend")
    /\ request[r].status = "none"
    /\ Active # None
    /\ \E status \in {"awaiting_action", "dismissed"}, card \in BOOLEAN :
         /\ ~ card \/ status = "awaiting_action"
         /\ request' = [request EXCEPT ![r] =
              [NoRequest EXCEPT !.status = status, !.base = Active, !.by = u, !.card = card]]
    /\ UNCHANGED <<catalogVars, draft, modal, review, owner, landed>>

\* Every handler that would go on from a version that is no longer the active one
\* marks the request stale instead; approving does so when register_version says so.
MarkStale(r, u) ==
    /\ MayAct(r, u, AwaitsDraft \cup AwaitsDecision)
    /\ ~ Current(r)
    /\ request' = [request EXCEPT ![r].status = "stale"]
    /\ UNCHANGED <<catalogVars, draft, modal, review, owner, landed>>

\* draft_with_ai and start_ai_draft, up to the await on rendering the card.
DraftWithAI(r, u) ==
    /\ MayAct(r, u, AwaitsDraft)
    /\ Current(r)
    /\ request' = [request EXCEPT ![r].status = "drafting"]
    /\ draft' = [draft EXCEPT ![r] = Scheduling("drafting")]
    /\ UNCHANGED <<catalogVars, modal, review, owner, landed>>

\* Completed reviews of the version the request is about, not yet applied to it.
ReviewsToApply(r) ==
    {v \in Reviews : review[v] = [status |-> "completed", version |-> request[r].base]}
        \ request[r].applied

\* apply_feedback and start_feedback_draft, up to the await on rendering.
ApplyFeedback(r, u) ==
    /\ MayAct(r, u, AwaitsDecision)
    /\ Current(r)
    /\ ReviewsToApply(r) # {}
    /\ request' = [request EXCEPT ![r].status = "feedback_drafting",
                                  ![r].feedback = ReviewsToApply(r)]
    /\ draft' = [draft EXCEPT ![r] = Scheduling("feedback_drafting")]
    /\ UNCHANGED <<catalogVars, modal, review, owner, landed>>

\* The card is rendered and the task starts: it reads the article from the vector
\* store, or the proposed text the feedback is to be applied to. Whether the
\* store held exactly the base version is remembered.
StartDraft(r) ==
    /\ ~ Busy("frontend")
    /\ draft[r].phase = "scheduling"
    /\ draft' = [draft EXCEPT ![r] =
         [@ EXCEPT !.phase = "running",
                   !.from = IF draft[r].kind = "feedback_drafting" THEN request[r].text
                            ELSE IF index = Chunks(request[r].base) THEN request[r].base
                            ELSE None]]
    /\ UNCHANGED <<catalogVars, request, modal, review, owner, landed>>

\* Rendering raises: the task is never scheduled.
RenderRaises(r) ==
    /\ Failure
    /\ ~ Busy("frontend")
    /\ draft[r].phase = "scheduling"
    /\ draft' = [draft EXCEPT ![r] = NoDraft]
    /\ UNCHANGED <<version, recorded, index, commits, staged, onDisk, disturbed, request, modal, review, owner, landed>>

\* set_draft and set_feedback_draft: each writes only to a request in its status.
Written(r, t) ==
    IF request[r].status # draft[r].kind THEN request[r]
    ELSE IF draft[r].kind = "drafting"
    THEN [request[r] EXCEPT !.status = "review", !.text = t]
    ELSE [request[r] EXCEPT !.status = "review", !.text = t,
                            !.applied = @ \cup request[r].feedback, !.feedback = {}]

\* The model answers.
FinishDraft(r) ==
    /\ ~ Busy("frontend")
    /\ draft[r].phase = "running"
    /\ \E t \in Texts : request' = [request EXCEPT ![r] = Written(r, t)]
    /\ draft' = [draft EXCEPT ![r] = NoDraft]
    /\ UNCHANGED <<catalogVars, modal, review, owner, landed>>

\* The model raises, or answers nothing (mark_failed). The ids of the feedback
\* that was to be applied stay in their column.
DraftFails(r) ==
    /\ ~ Busy("frontend")
    /\ draft[r].phase = "running"
    /\ request' = [request EXCEPT ![r].status = IF @ \in Drafting THEN "draft_failed" ELSE @]
    /\ draft' = [draft EXCEPT ![r] = NoDraft]
    /\ UNCHANGED <<catalogVars, modal, review, owner, landed>>

\* edit_manually: the text of the moment is put into a modal.
EditManually(r, u) ==
    /\ MayAct(r, u, AwaitsDraft \cup AwaitsDecision)
    /\ Current(r)
    /\ modal' = [modal EXCEPT ![r] = u]
    /\ UNCHANGED <<catalogVars, request, draft, review, owner, landed>>

\* A manual draft is written while the model is drafting too.
EditableAnyhow == AwaitsDraft \cup AwaitsDecision \cup Drafting

\* The statuses in which set_manual_draft may write a text.
Editable == AwaitsDraft \cup AwaitsDecision

\* save_manual_edit: the modal may have been open for long. Its user must still be
\* the authority and the version still be current (else mark_stale), and
\* set_manual_draft wants the status to be one of Editable.
SaveManual(r) ==
    /\ ~ Busy("frontend")
    /\ modal[r] # None
    /\ modal' = [modal EXCEPT ![r] = None]
    /\ IF modal[r] # Authority(r) \/ request[r].status \notin Editable
       THEN UNCHANGED request
       ELSE IF ~ Current(r) THEN request' = [request EXCEPT ![r].status = "stale"]
       ELSE \E t \in Texts :
              request' = [request EXCEPT ![r].status = "review", ![r].text = t]
    /\ UNCHANGED <<catalogVars, draft, review, owner, landed>>

--------------------------------------------------------------------------------
(* Deciding *)

\* commit_knowledge without an expected version: the request overwrites the article.
ApproveUnconditionally(r, u) ==
    /\ MayAct(r, u, AwaitsDecision)
    /\ Register("frontend", request[r].text, r)
    /\ landed' = landed \cup {r}
    /\ UNCHANGED <<staged, onDisk, failures, request, draft, modal, review, owner>>

\* approve_publish: the commit expects the version the request was opened on, and
\* register_version compares it in its transaction.
Approve(r, u) ==
    /\ MayAct(r, u, AwaitsDecision)
    /\ Current(r)
    /\ Register("frontend", request[r].text, r)
    /\ landed' = landed \cup {r}
    /\ UNCHANGED <<staged, onDisk, failures, request, draft, modal, review, owner>>

\* The commit has returned: mark_published.
Published(r) ==
    /\ commits["frontend"].phase = "finish"
    /\ commits["frontend"].source = r
    /\ commits' = [commits EXCEPT !["frontend"] = Idle]
    /\ request' = [request EXCEPT ![r].status = IF @ = "review" THEN "published" ELSE @]
    /\ UNCHANGED <<version, recorded, index, staged, onDisk, failures, disturbed,
                   draft, modal, review, owner, landed>>

\* A store raises in the commit: "Publishing failed. The governed article was not
\* intentionally advanced; please retry".
PublishingFails(r) ==
    /\ commits["frontend"].source = r
    /\ HalfDone("frontend")
    /\ CutShort("frontend")
    /\ UNCHANGED <<staged, editVars>>

\* The frontend's process ends: the commit it was in, and every drafting task.
FrontendStops ==
    /\ Failure
    /\ commits' = [commits EXCEPT !["frontend"] = Idle]
    /\ disturbed' = (disturbed \/ HalfDone("frontend"))
    /\ draft' = [r \in Requests |-> NoDraft]
    /\ UNCHANGED <<version, recorded, index, staged, onDisk,
                   request, modal, review, owner, landed>>

\* dismiss_revision
Dismiss(r, u) ==
    /\ MayAct(r, u, AwaitsDraft \cup AwaitsDecision \cup {"stale"})
    /\ request' = [request EXCEPT ![r].status = "dismissed"]
    /\ UNCHANGED <<catalogVars, draft, modal, review, owner, landed>>

--------------------------------------------------------------------------------
(* Owner and reviews *)

\* assign_owner: anyone may name any member of the channel.
AssignOwner(u) ==
    /\ ~ Busy("frontend")
    /\ owner' = u
    /\ UNCHANGED <<catalogVars, request, draft, modal, review, landed>>

\* submit_review: the review is attached to the version active by then.
RequestReview(v) ==
    /\ ~ Busy("frontend")
    /\ review[v] = NoReview
    /\ Active # None
    /\ review' = [review EXCEPT ![v] = [status |-> "requested", version |-> Active]]
    /\ UNCHANGED <<catalogVars, request, draft, modal, owner, landed>>

\* submit_review_response and complete_review: once, by its reviewer.
CompleteReview(v) ==
    /\ ~ Busy("frontend")
    /\ review[v].status = "requested"
    /\ review' = [review EXCEPT ![v].status = "completed"]
    /\ UNCHANGED <<catalogVars, request, draft, modal, owner, landed>>

Edit(r) ==
    \/ StartDraft(r) \/ RenderRaises(r) \/ FinishDraft(r) \/ DraftFails(r)
    \/ SaveManual(r) \/ Published(r) \/ PublishingFails(r)
    \/ \E u \in Users :
         \/ Flag(r, u) \/ MarkStale(r, u) \/ DraftWithAI(r, u) \/ ApplyFeedback(r, u)
         \/ EditManually(r, u) \/ Approve(r, u) \/ Dismiss(r, u)

Next ==
    \/ CommitStep /\ UNCHANGED editVars
    \/ Upload /\ UNCHANGED editVars
    \/ \E r \in Requests : Edit(r)
    \/ \E u \in Users : AssignOwner(u)
    \/ \E v \in Reviews : RequestReview(v) \/ CompleteReview(v)
    \/ FrontendStops

Spec == Init /\ [][Next]_vars

--------------------------------------------------------------------------------
(* Properties *)

Statuses == {"none", "awaiting_action", "drafting", "feedback_drafting", "review",
             "draft_failed", "stale", "published", "dismissed"}

\* Every column and every task has a value the code gives it.
TypeOK ==
    /\ CatalogTypeOK
    /\ request \in [Requests ->
         [status : Statuses, base : Texts \cup {None}, text : Texts \cup {None},
          by : Users \cup {None}, card : BOOLEAN,
          applied : SUBSET Reviews, feedback : SUBSET Reviews]]
    /\ draft \in [Requests ->
         [phase : {"none", "scheduling", "running"}, kind : Drafting \cup {"none"},
          from : Texts \cup {None}]]
    /\ modal \in [Requests -> Users \cup {None}]
    /\ review \in [Reviews ->
         [status : {"none", "requested", "completed"}, version : Texts \cup {None}]]
    /\ owner \in Users \cup {None}
    /\ landed \subseteq Requests

\* A drafting task finds its request as it left it: in the status of its kind, and,
\* for feedback, with the proposal it was given. However long the model takes, its
\* answer neither overwrites what a human wrote or decided meanwhile nor is lost.
\* What it applies are completed reviews of the version the edit was opened on, none
\* of them applied before; reviews of another version never enter the text.
DraftsMeetTheirRequest ==
    \A r \in Requests :
        /\ draft[r].phase # "none" => request[r].status = draft[r].kind
        /\ draft[r].phase = "running" /\ draft[r].kind = "feedback_drafting" =>
             draft[r].from = request[r].text
        /\ request[r].status = "feedback_drafting" =>
             request[r].feedback \cap request[r].applied = {}
        /\ \A v \in request[r].applied \cup request[r].feedback :
             review[v] = [status |-> "completed", version |-> request[r].base]

Decision(r) ==
    CASE request[r].status \in {"none", "published"} -> request[r].status
      [] request[r].status \in {"stale", "dismissed"} -> "withdrawn"
      [] OTHER -> "open"

Revisions ==
    INSTANCE ArticleRevisions WITH
        content <- Active,
        decision <- [r \in Requests |-> Decision(r)],
        base <- [r \in Requests |-> request[r].base]

\* Edits implement compare-and-set: one lands only on the version it was opened on,
\* is published only if it landed, and never lands once it is withdrawn, with two
\* processes committing and stopping anywhere.
ImplementsRevisions == Revisions!Spec
====
