---------------------------- MODULE BuilderQueue ----------------------------
(***************************************************************************)
(* The queue of Builder turns (BuilderTaskStore) and the Slack process     *)
(* that fills it (builder_app, BuilderAgent).                              *)
(*                                                                         *)
(* The Slack process and the worker (BuilderWorker) are different          *)
(* operating system processes on one SQLite table, so every call of the    *)
(* store is a step of its own.  The Slack process runs coroutines: the     *)
(* handler of a message awaits the history of its thread between marking   *)
(* the message as seen and queueing it.  The messages of this module come  *)
(* from trusted senders and are neither empty nor a greeting.              *)
(*                                                                         *)
(* A definition whose name says what it leaves out or gets wrong is a      *)
(* plausible defect of the one after it; the specification does not use it.*)
(***************************************************************************)
EXTENDS Sequences, FiniteSetsExt

CONSTANTS
  Messages,      \* Slack messages, as event_key tells them apart
  ThreadOf,      \* the thread of each message
  HandoffOf,     \* the pull request a message names, or None
  PullRequests,  \* pull requests the Builder did not open
  SeenLimit,     \* _SEEN_LIMIT: how many messages are remembered as seen
  MaxTurns,      \* bound: rows of builder_tasks
  MaxRestarts,   \* bound: restarts of the Slack process
  None           \* an empty column

VARIABLES
  seen,        \* _seen_order: keys of handled messages, oldest first
  handling,    \* how many handlers await the thread history, per message
  turns,       \* builder_tasks in the order of created_at
  cancelling,  \* the turn a cancel command has read as pending, or None
  restarts     \* restarts of the Slack process so far

queue == <<seen, handling, cancelling, restarts>>

TurnIds == 1 .. MaxTurns

\* A branch is the one the worker makes for a turn, builder/<task_id>, or the
\* head of a pull request from elsewhere.  A pull request is named by its branch.
Own(i) == <<"builder", i>>
External(p) == <<"external", p>>
Branches == {Own(i) : i \in TurnIds} \union {External(p) : p \in PullRequests}

Turn == [message : Messages,
         status : {"pending", "running", "succeeded", "failed", "cancelled"},
         branch : Branches \union {None}, pr : Branches \union {None},
         continuation : Branches \union {None}, continuation_pr : Branches \union {None}]

ASSUME QueueAssumption ==
  /\ SeenLimit \in Nat /\ MaxTurns \in Nat /\ MaxRestarts \in Nat
  /\ DOMAIN ThreadOf = Messages
  /\ HandoffOf \in [Messages -> PullRequests \union {None}]
  /\ None \notin PullRequests /\ None \notin TurnIds /\ None \notin Branches

QueueTypeOK ==
  /\ seen \in Seq(Messages)
  /\ handling \in [Messages -> Nat]
  /\ turns \in Seq(Turn)
  /\ cancelling \in TurnIds \union {None}
  /\ restarts \in 0 .. MaxRestarts

QueueInit ==
  /\ seen = << >>
  /\ handling = [m \in Messages |-> 0]
  /\ turns = << >>
  /\ cancelling = None
  /\ restarts = 0

-----------------------------------------------------------------------------
(* The store.                                                              *)

In(status) == {i \in DOMAIN turns : turns[i].status = status}

PublishedAnywhere(m) ==
  {i \in In("succeeded") : turns[i].branch # None /\ turns[i].pr # None}

\* The turns of m's thread that succeeded with a pull request.
Published(m) ==
  {i \in In("succeeded") : /\ ThreadOf[turns[i].message] = ThreadOf[m]
                           /\ turns[i].branch # None /\ turns[i].pr # None}

\* A turn continues the pull request of the last one, if it names none itself.
\* Which one is last is settled when the turn is queued.
NewTurn(m) ==
  LET continues == HandoffOf[m] = None /\ Published(m) # {}
      last == turns[Max(Published(m))]
  IN  [message |-> m, status |-> "pending", branch |-> None, pr |-> None,
       continuation |-> IF continues THEN last.branch ELSE None,
       continuation_pr |-> IF continues THEN last.pr ELSE None]

MarkCancelledAnyway(i) == turns' = [turns EXCEPT ![i].status = "cancelled"]

\* The update says AND status='pending'.
MarkCancelled(i) ==
  turns' = IF turns[i].status = "pending" THEN [turns EXCEPT ![i].status = "cancelled"] ELSE turns

-----------------------------------------------------------------------------
(* The Slack process.                                                      *)

\* Slack may deliver a message any number of times; the first time starts a
\* handler.
Deliver(m) ==
  /\ \A k \in DOMAIN seen : seen[k] # m
  /\ LET longer == Append(seen, m) IN
       seen' = IF Len(longer) > SeenLimit THEN Tail(longer) ELSE longer
  /\ handling' = [handling EXCEPT ![m] = @ + 1]
  /\ UNCHANGED <<turns, cancelling, restarts>>

\* The handler goes on.
Enqueue(m) ==
  /\ handling[m] > 0
  /\ Len(turns) < MaxTurns
  /\ handling' = [handling EXCEPT ![m] = @ - 1]
  /\ turns' = Append(turns, NewTurn(m))
  /\ UNCHANGED <<seen, cancelling, restarts>>

\* Or it fails and answers with an error.
GiveUp(m) ==
  /\ handling[m] > 0
  /\ handling' = [handling EXCEPT ![m] = @ - 1]
  /\ UNCHANGED <<seen, turns, cancelling, restarts>>

\* cancel <task-id> reads the turn and, if it is pending, updates it.  Nothing
\* is awaited in between, but the worker may claim the turn.
ReadForCancel(i) ==
  /\ i \in In("pending")
  /\ cancelling' = i
  /\ UNCHANGED <<seen, handling, turns, restarts>>

Cancel ==
  /\ cancelling # None
  /\ MarkCancelled(cancelling)
  /\ cancelling' = None
  /\ UNCHANGED <<seen, handling, restarts>>

\* What is seen and what is handled is in memory only.
AppRestarts ==
  /\ restarts < MaxRestarts
  /\ restarts' = restarts + 1
  /\ seen' = << >>
  /\ handling' = [m \in Messages |-> 0]
  /\ cancelling' = None
  /\ UNCHANGED turns

App ==
  \/ /\ cancelling = None
     /\ \/ \E m \in Messages : Deliver(m) \/ Enqueue(m) \/ GiveUp(m)
        \/ \E i \in DOMAIN turns : ReadForCancel(i)
  \/ Cancel
  \/ AppRestarts
=============================================================================
