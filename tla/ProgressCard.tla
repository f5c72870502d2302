---- MODULE ProgressCard ----
(* The progress card of one builder turn: the worker's main thread and the      *)
(* heartbeat thread of each long phase (ux/background_activity.py) publish to   *)
(* one Slack message, whose timestamp is read from and stored in the turn's row *)
(* (worker/builder_worker.py).                                                  *)
EXTENDS Naturals, Sequences

CONSTANTS MaxActivities,  \* long phases of the turn
          MaxFailures     \* how often Slack or the database fails

ASSUME CardAssumption == MaxActivities \in Nat /\ MaxFailures \in Nat

VARIABLES stored,    \* progress_message_ts: which card, 0 for none
          cards,     \* what the cards posted so far show
          publish,   \* the call of _publish_status each thread is in
          main,      \* where the main thread is, and in which activity
          beat,      \* the heartbeat thread of each activity
          stop,      \* its _stop event
          failures,  \* history: how often one did
          late       \* history: whether a join timed out

vars == <<stored, cards, publish, main, beat, stop, failures, late>>

Activities == 1..MaxActivities
Threads == {0} \cup Activities
Main == 0

NoCall == [step |-> "none", card |-> 0, shows |-> "working"]

Call(text) == [step |-> "read", card |-> 0, shows |-> text]

Init ==
    /\ stored = 0
    /\ cards = <<>>
    /\ publish = [t \in Threads |-> NoCall]
    /\ main = [at |-> "working", activity |-> 0]
    /\ beat = [n \in Activities |-> "none"]
    /\ stop = [n \in Activities |-> FALSE]
    /\ failures = 0
    /\ late = FALSE

Publishing(t) == publish[t].step # "none"

--------------------------------------------------------------------------------
(* _publish_status, in any thread. Whatever fails is logged and forgotten.      *)

\* store.get
ReadCard(t) ==
    /\ publish[t].step = "read"
    /\ publish' = [publish EXCEPT ![t].step = "send", ![t].card = stored]
    /\ UNCHANGED <<stored, cards, main, beat, stop, failures, late>>

\* The Slack call has its effect: it updates the card that was read, or posts one.
Shown(t) ==
    IF publish[t].card = 0 THEN Append(cards, publish[t].shows)
    ELSE [cards EXCEPT ![publish[t].card] = publish[t].shows]

Send(t) ==
    /\ publish[t].step = "send"
    /\ cards' = Shown(t)
    /\ publish' = [publish EXCEPT ![t] =
         IF @.card = 0 THEN [@ EXCEPT !.step = "store", !.card = Len(cards) + 1] ELSE NoCall]
    /\ UNCHANGED <<stored, main, beat, stop, failures, late>>

\* set_progress_message_ts
StoreCard(t) ==
    /\ publish[t].step = "store"
    /\ stored' = publish[t].card
    /\ publish' = [publish EXCEPT ![t] = NoCall]
    /\ UNCHANGED <<cards, main, beat, stop, failures, late>>

\* The call or the database raises; what was sent may have been shown nevertheless.
PublishFails(t) ==
    /\ Publishing(t)
    /\ failures < MaxFailures
    /\ failures' = failures + 1
    /\ cards' \in {cards} \cup (IF publish[t].step = "send" THEN {Shown(t)} ELSE {})
    /\ publish' = [publish EXCEPT ![t] = NoCall]
    /\ UNCHANGED <<stored, main, beat, stop, late>>

--------------------------------------------------------------------------------
(* The main thread: _run_task and _run_with_heartbeat *)

\* _publish_status between the activities.
PublishPhase ==
    /\ main.at = "working"
    /\ ~ Publishing(Main)
    /\ publish' = [publish EXCEPT ![Main] = Call("working")]
    /\ UNCHANGED <<stored, cards, main, beat, stop, failures, late>>

\* activity.start publishes; the thread is not running yet.
StartActivity ==
    /\ main.at = "working"
    /\ ~ Publishing(Main)
    /\ main.activity < MaxActivities
    /\ main' = [at |-> "starting", activity |-> main.activity + 1]
    /\ publish' = [publish EXCEPT ![Main] = Call("working")]
    /\ UNCHANGED <<stored, cards, beat, stop, failures, late>>

\* activity.start, once _emit has returned.
Spawn ==
    /\ main.at = "starting"
    /\ ~ Publishing(Main)
    /\ main' = [main EXCEPT !.at = "operating"]
    /\ beat' = [beat EXCEPT ![main.activity] = "running"]
    /\ UNCHANGED <<stored, cards, publish, stop, failures, late>>

\* The event is not set.
JoinOnly ==
    /\ main.at = "operating"
    /\ main' = [main EXCEPT !.at = "joining"]
    /\ UNCHANGED <<stored, cards, publish, beat, stop, failures, late>>

\* operation() has returned or raised: activity.stop sets the event and joins.
StopActivity ==
    /\ main.at = "operating"
    /\ ~ Publishing(Main)
    /\ main' = [main EXCEPT !.at = "joining"]
    /\ stop' = [stop EXCEPT ![main.activity] = TRUE]
    /\ UNCHANGED <<stored, cards, publish, beat, failures, late>>

\* The join does not wait.
JoinedAtOnce ==
    /\ main.at = "joining"
    /\ main' = [main EXCEPT !.at = "working"]
    /\ UNCHANGED <<stored, cards, publish, beat, stop, failures, late>>

Joined ==
    /\ main.at = "joining"
    /\ beat[main.activity] = "ended"
    /\ main' = [main EXCEPT !.at = "working"]
    /\ UNCHANGED <<stored, cards, publish, beat, stop, failures, late>>

\* join(timeout=min(heartbeat, 2.0)): a heartbeat still in its Slack call is left behind.
JoinTimesOut ==
    /\ main.at = "joining"
    /\ main.activity \in {n \in Activities : Publishing(n)}
    /\ main' = [main EXCEPT !.at = "working"]
    /\ late' = TRUE
    /\ UNCHANGED <<stored, cards, publish, beat, stop, failures>>

\* The turn succeeded or failed: the card is to say so.
PublishEnd ==
    /\ main.at = "working"
    /\ ~ Publishing(Main)
    /\ main' = [main EXCEPT !.at = "ending"]
    /\ publish' = [publish EXCEPT ![Main] = Call("over")]
    /\ UNCHANGED <<stored, cards, beat, stop, failures, late>>

EndTurn ==
    /\ main.at = "ending"
    /\ ~ Publishing(Main)
    /\ main' = [main EXCEPT !.at = "over"]
    /\ UNCHANGED <<stored, cards, publish, beat, stop, failures, late>>

\* The worker process ends, and its threads with it.
WorkerStops ==
    /\ main.at \notin {"over", "stopped"}
    /\ failures < MaxFailures
    /\ failures' = failures + 1
    /\ main' = [main EXCEPT !.at = "stopped"]
    /\ publish' = [t \in Threads |-> NoCall]
    /\ beat' = [n \in Activities |-> IF beat[n] = "running" THEN "ended" ELSE beat[n]]
    /\ UNCHANGED <<stored, cards, stop, late>>

--------------------------------------------------------------------------------
(* A heartbeat thread *)

\* _heartbeat_loop: the wait timed out.
Heartbeat(n) ==
    /\ beat[n] = "running"
    /\ ~ Publishing(n)
    /\ ~ stop[n]
    /\ publish' = [publish EXCEPT ![n] = Call("working")]
    /\ UNCHANGED <<stored, cards, main, beat, stop, failures, late>>

EndHeartbeat(n) ==
    /\ beat[n] = "running"
    /\ ~ Publishing(n)
    /\ stop[n]
    /\ beat' = [beat EXCEPT ![n] = "ended"]
    /\ UNCHANGED <<stored, cards, publish, main, stop, failures, late>>

Publish(t) == ReadCard(t) \/ Send(t) \/ StoreCard(t)

MainStep ==
    \/ PublishPhase \/ StartActivity \/ Spawn \/ StopActivity \/ Joined \/ JoinTimesOut
    \/ PublishEnd \/ EndTurn

Next ==
    \/ MainStep
    \/ WorkerStops
    \/ \E t \in Threads : Publish(t) \/ PublishFails(t)
    \/ \E n \in Activities : Heartbeat(n) \/ EndHeartbeat(n)

\* Threads are scheduled and Slack calls return. Nothing makes an operation end, nor
\* the wait of a heartbeat time out.
Spec ==
    /\ Init
    /\ [][Next]_vars
    /\ \A t \in Threads : WF_vars(Publish(t))
    /\ \A n \in Activities : WF_vars(EndHeartbeat(n))
    /\ WF_vars(Joined)

--------------------------------------------------------------------------------
(* Properties *)

\* The card, the threads and their calls have the values the code gives them.
TypeOK ==
    /\ stored \in 0..Len(cards)
    /\ \A i \in DOMAIN cards : cards[i] \in {"working", "over"}
    /\ \A t \in Threads :
         /\ publish[t].step \in {"none", "read", "send", "store"}
         /\ publish[t].card \in 0..Len(cards)
         /\ publish[t].shows \in {"working", "over"}
    /\ main.at \in {"working", "starting", "operating", "joining", "ending", "over", "stopped"}
    /\ main.activity \in 0..MaxActivities
    /\ beat \in [Activities -> {"none", "running", "ended"}]
    /\ stop \in [Activities -> BOOLEAN]
    /\ failures \in 0..MaxFailures
    /\ late \in BOOLEAN

\* The turn's end is what its card shows, and goes on showing, unless a publication
\* failed or a join timed out.
EndIsShown ==
    main.at = "over" /\ failures = 0 /\ ~ late => cards = <<"over">>

\* A heartbeat that was told to stop ends, and the main thread gets past joining it,
\* whatever failed and however long the calls of the others take.
HeartbeatsEnd ==
    /\ \A n \in Activities : beat[n] = "running" /\ main.at = "joining" ~> beat[n] = "ended"
    /\ main.at = "joining" ~> main.at # "joining"

\* "Never leave a stale Working card behind": once the turn and its threads are over
\* no card says it is still at work, if Slack and the database never failed.
NoStaleCard ==
    main.at = "over" /\ failures = 0 /\ (\A t \in Threads : ~ Publishing(t)) =>
        \A i \in DOMAIN cards : cards[i] # "working"
====
