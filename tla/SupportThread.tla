---- MODULE SupportThread ----
(* One thread of the support channel: what the assistant stores of it           *)
(* (agents/frontend_support/collaboration.py), the questions it asks back       *)
(* (clarification.py) and the handlers that act on its messages and buttons     *)
(* (bot/frontend_support_app.py, bot/frontend_interactivity.py).                *)
(* The application is one event loop: a handler runs alone up to its next       *)
(* await, and any number of other handlers run while it waits. A message that   *)
(* is edited or delivered again is handled like a new one of the same user.     *)
EXTENDS Naturals, FiniteSets

CONSTANTS Users,
          Keys,       \* what may be asked back: "application", "failure_stage"
          Jobs,       \* handlers that may be waiting at the same time
          MaxRounds,  \* MAX_CLARIFICATION_ROUNDS
          None

ASSUME ThreadAssumption ==
    /\ MaxRounds \in Nat
    /\ None \notin Users \cup Keys

VARIABLES thread,        \* frontend_thread_state
          participants,  \* its participants_json, the users of its events
          clarification, \* frontend_clarifications
          cards,         \* questions whose buttons are still shown
          job,           \* the waiting handlers
          prompted,      \* whether a capture prompt is shown
          knowledge,     \* the thread's row of frontend_reusable_knowledge
          task,          \* created_by of its row of frontend_knowledge_tasks
          asked          \* history: how many questions were asked

vars == <<thread, participants, clarification, cards, job, prompted, knowledge, task, asked>>

NoThread ==
    [requester |-> None, incident |-> FALSE, status |-> "open", resolver |-> None,
     suppressed |-> FALSE]

NoCard == <<None, 0>>

NoJob == [phase |-> "none", by |-> None, card |-> NoCard]

NoCapture == [resolver |-> None, by |-> None, contributors |-> {}]

Init ==
    /\ thread = NoThread
    /\ participants = {}
    /\ clarification = [round |-> 0, pending |-> None, answers |-> {}]
    /\ cards = {}
    /\ job = [j \in Jobs |-> NoJob]
    /\ prompted = FALSE
    /\ knowledge = NoCapture
    /\ task = None
    /\ asked = 0

--------------------------------------------------------------------------------
(* Observing *)

\* MessageKind, as far as a handler tells kinds apart. "support" stands for a
\* technical question, a support signal, troubleshooting, and for a text that only
\* looks_like_support.
Kinds == {"resume", "suppress", "resolution", "support", "other"}

\* Whoever writes first is the requester, also in a thread whose root was not seen.
Requester(u) == IF thread.requester = None THEN u ELSE thread.requester

\* A new fix leaves a captured thread resolved.
ObservedStillResolved(u, kind, incident) ==
    [requester |-> Requester(u),
     incident |-> thread.incident \/ incident,
     status |-> IF kind = "resolution" /\ thread.status # "resolved"
                THEN "possible_resolution" ELSE thread.status,
     resolver |-> IF kind = "resolution" THEN u ELSE thread.resolver,
     suppressed |-> CASE kind = "suppress" -> TRUE
                      [] kind = "resume" -> FALSE
                      [] OTHER -> thread.suppressed]

\* observe: the thread after a message of u. A message that sounds like a fix makes
\* its author the resolver, also in a thread that was captured already.
Observed(u, kind, incident) ==
    [requester |-> Requester(u),
     incident |-> thread.incident \/ incident,
     status |-> IF kind = "resolution" THEN "possible_resolution" ELSE thread.status,
     resolver |-> IF kind = "resolution" THEN u ELSE thread.resolver,
     suppressed |-> CASE kind = "suppress" -> TRUE
                      [] kind = "resume" -> FALSE
                      [] OTHER -> thread.suppressed]

\* Only the requester binds an incident number.
Observe(u, kind, incident) ==
    /\ incident => u = Requester(u) /\ ~ thread.incident
    /\ thread' = Observed(u, kind, incident)
    /\ participants' = participants \cup {u}

\* answer: the key is recorded, and no question is pending any more, whichever it was.
Answered(k) ==
    [clarification EXCEPT !.pending = None, !.answers = @ \cup {k}]

\* consume_free_text: any reply in the thread answers the pending question. Only the
\* root message, when it is edited or delivered again, is no reply.
Consumes(u, reply) ==
    /\ reply => clarification.pending # None
    /\ ~ reply => clarification.pending = None \/ u = thread.requester

\* A handler starts and comes to its first await.
Start(phase, u, card) ==
    \E j \in Jobs :
        /\ job[j] = NoJob
        /\ job' = [job EXCEPT ![j] = [phase |-> phase, by |-> u, card |-> card]]

\* should_invoke: the text calls for support and the assistant is not suppressed, or
\* it was taken for the answer to a question.
Invokes(kind, answer) ==
    \/ kind = "support" /\ ~ thread.suppressed
    \/ answer

\* handle_message and _public, up to the await on the first post. A text that looks
\* like a knowledge edit is offered one, unless the assistant is suppressed, and
\* nothing else is done. A fix is offered for capture, suppressed or not, if the
\* thread has an incident.
HandleMessage(u) ==
    \E kind \in Kinds, incident, answer, offered \in BOOLEAN :
        /\ offered => /\ kind \in {"resolution", "support", "other"}
                      /\ ~ Observed(u, kind, incident).suppressed
        /\ Observe(u, kind, incident)
        /\ Consumes(u, answer)
        /\ clarification' = IF answer THEN Answered(clarification.pending)
                            ELSE clarification
        /\ prompted' = (\/ prompted
                        \/ /\ kind = "resolution" /\ ~ offered
                           /\ Observed(u, kind, incident).incident)
        /\ IF ~ offered /\ kind \in {"support", "other"} /\ Invokes(kind, answer)
           THEN Start("heard", None, NoCard)
           ELSE UNCHANGED job
        /\ UNCHANGED <<cards, knowledge, task, asked>>

\* handle_mention: nothing is taken for an answer, and the assistant answers
\* whatever the text is, unless it looks like a knowledge edit.
HandleMention(u) ==
    \E kind \in Kinds \ {"support"}, incident, edit \in BOOLEAN :
        /\ Observe(u, kind, incident)
        /\ IF edit THEN UNCHANGED job
           ELSE Start("called", None, NoCard)
        /\ UNCHANGED <<clarification, cards, prompted, knowledge, task, asked>>

--------------------------------------------------------------------------------
(* Questions and answers *)

\* There is no end to the questions.
QuestionsWithoutEnd ==
    IF clarification.pending # None THEN {} ELSE Keys \ clarification.answers

\* next_question: none while one is pending and after the last round; otherwise one
\* not answered yet. Whether it is asked depends on the texts.
Questions ==
    IF clarification.pending # None \/ clarification.round >= MaxRounds THEN {}
    ELSE Keys \ clarification.answers

Round == IF clarification.round < MaxRounds THEN clarification.round + 1 ELSE MaxRounds

\* ask, then the await on posting the question, which may fail: the question is
\* pending and nobody has seen it.
Ask(k, others) ==
    /\ clarification' = [clarification EXCEPT !.round = Round, !.pending = k]
    /\ cards' \in {others, others \cup {<<k, Round>>}}
    /\ asked' = asked + 1

\* The handler goes on: it asks back, or it searches and posts what it found, which
\* stores nothing of the thread.
AskOrSearch(j, others) ==
    /\ job' = [job EXCEPT ![j] = NoJob]
    /\ \/ \E k \in Questions : Ask(k, others)
       \/ cards' = others /\ UNCHANGED <<clarification, asked>>

\* _public and handle_mention after their acknowledgement was posted, or was not.
Acknowledged(j) ==
    /\ job[j].phase \in {"heard", "called"}
    /\ AskOrSearch(j, cards)
    /\ UNCHANGED <<thread, participants, prompted, knowledge, task>>

\* clarification_selected, up to the await on updating the card: until then, and if
\* that fails, its buttons can be pressed again.
Select(u) ==
    \E card \in cards :
        /\ Start("selected", u, card)
        /\ clarification' = Answered(card[1])
        /\ UNCHANGED <<thread, participants, cards, prompted, knowledge, task, asked>>

\* "Other / type it": the buttons go, the question stays pending.
SelectOther ==
    /\ \E card \in cards : cards' = cards \ {card}
    /\ UNCHANGED <<thread, participants, clarification, job, prompted, knowledge, task, asked>>

\* The card is updated: the answer is added to the thread, and the next question is
\* asked or the search begins.
Selected(j) ==
    /\ job[j].phase = "selected"
    /\ Observe(job[j].by, "other", FALSE)
    /\ AskOrSearch(j, cards \ {job[j].card})
    /\ UNCHANGED <<prompted, knowledge, task>>

\* Updating the card raises: the handler ends there.
SelectRaises(j) ==
    /\ job[j].phase = "selected"
    /\ job' = [job EXCEPT ![j] = NoJob]
    /\ UNCHANGED <<thread, participants, clarification, cards, prompted, knowledge,
                   task, asked>>

--------------------------------------------------------------------------------
(* Capturing a resolution *)

\* confirm_knowledge for anybody who took part.
MayCaptureAnyone(u) == prompted /\ u \in participants /\ thread.incident

\* confirm_knowledge: the requester or the resolver, once an incident is bound.
MayCapture(u) ==
    /\ prompted
    /\ u \in {thread.requester, thread.resolver}
    /\ thread.incident

\* capture_resolution, up to the await on removing the buttons; they may be pressed
\* again until then, and those of an earlier prompt stay. An earlier row is
\* replaced. Saving the support graph may raise after that: the handler ends.
\* The contributors are the authors of the last 50 events. How often anyone wrote
\* is not modelled: these may be any of the participants, and in a long thread need
\* not include the resolver or whoever confirms.
Capture(u) ==
    /\ MayCapture(u)
    /\ \E recent \in SUBSET participants \ {{}} :
         knowledge' = [resolver |-> thread.resolver, by |-> u, contributors |-> recent]
    /\ thread' = [thread EXCEPT !.status = "resolved"]
    /\ prompted' \in BOOLEAN
    /\ Start("captured", u, NoCard) \/ UNCHANGED job
    /\ UNCHANGED <<participants, clarification, cards, task, asked>>

\* create_knowledge_task inserts the row unless there is one.
TaskAfter(u) == IF task = None THEN u ELSE task

\* _maybe_create_knowledge_gap, after the posts of capture_resolution. It reads the
\* thread again. No task when governed knowledge covers the fix, or when the search
\* or a post raises.
OpenTask(j) ==
    /\ job[j].phase = "captured"
    /\ job' = [job EXCEPT ![j] = NoJob]
    /\ task' \in {task, TaskAfter(job[j].by)}
    /\ UNCHANGED <<thread, participants, clarification, cards, prompted, knowledge, asked>>

\* dismiss_resolution: the buttons of one prompt go.
DismissCapture ==
    /\ prompted
    /\ prompted' = FALSE
    /\ UNCHANGED <<thread, participants, clarification, cards, job, knowledge, task, asked>>

\* The application stops and starts again: what was waiting is lost, what was
\* written stays.
Restart ==
    /\ \E j \in Jobs : job[j] # NoJob
    /\ job' = [j \in Jobs |-> NoJob]
    /\ UNCHANGED <<thread, participants, clarification, cards, prompted, knowledge,
                   task, asked>>

Next ==
    \/ \E u \in Users : HandleMessage(u) \/ HandleMention(u) \/ Select(u) \/ Capture(u)
    \/ \E j \in Jobs : Acknowledged(j) \/ Selected(j) \/ SelectRaises(j) \/ OpenTask(j)
    \/ SelectOther
    \/ DismissCapture
    \/ Restart

Spec == Init /\ [][Next]_vars

--------------------------------------------------------------------------------
(* Properties *)

Asked == Keys \X (1..MaxRounds)

Phases == {"none", "heard", "called", "selected", "captured"}

\* Every row, card and waiting handler has a value the code gives it.
TypeOK ==
    /\ thread \in [requester : Users \cup {None}, incident : BOOLEAN,
                   status : {"open", "possible_resolution", "resolved"},
                   resolver : Users \cup {None}, suppressed : BOOLEAN]
    /\ participants \subseteq Users
    /\ clarification \in [round : 0..MaxRounds, pending : Keys \cup {None},
                          answers : SUBSET Keys]
    /\ cards \subseteq Asked
    /\ job \in [Jobs -> [phase : Phases, by : Users \cup {None},
                         card : Asked \cup {NoCard}]]
    /\ prompted \in BOOLEAN
    /\ knowledge \in [resolver : Users \cup {None}, by : Users \cup {None}, contributors : SUBSET Users]
    /\ task \in Users \cup {None}
    /\ asked \in Nat

\* "clarification n/3": a thread is asked at most three times, however many handlers
\* wait to ask, and however often old buttons are pressed, which makes an unanswered
\* question due again.
AtMostThreeQuestions == asked <= MaxRounds

\* A resolved thread has been captured with the resolver it still names, by the
\* requester or by that resolver; a fix reported later takes it out of that state.
\* The record names a resolver and whoever confirmed, and they and the contributors
\* took part in the thread. A knowledge task is about a captured thread, whatever
\* its handler waited for.
ResolvedIsCaptured ==
    /\ thread.status = "resolved" =>
         /\ knowledge # NoCapture
         /\ knowledge.resolver = thread.resolver
         /\ knowledge.by \in {thread.requester, thread.resolver}
    /\ knowledge # NoCapture =>
         {knowledge.resolver, knowledge.by} \cup knowledge.contributors \subseteq participants
    /\ task # None => knowledge # NoCapture
====
