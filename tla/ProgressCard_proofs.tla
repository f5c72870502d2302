---- MODULE ProgressCard_proofs ----
(* Proofs about ProgressCard, for any number of long phases and of failures:    *)
(* the types, and that the card of a turn that is over says so. Liveness is     *)
(* checked by TLC only.                                                         *)
EXTENDS ProgressCard, TLAPS

Shows == {"working", "over"}

Calls == [step : {"none", "read", "send", "store"}, card : Nat, shows : Shows]

\* No call names a card that was not posted.
TypeInv ==
    /\ cards \in Seq(Shows)
    /\ stored \in 0..Len(cards)
    /\ publish \in [Threads -> Calls]
    /\ \A t \in Threads : publish[t].card \in 0..Len(cards)
    /\ main \in [at : {"working", "starting", "operating", "joining", "ending", "over", "stopped"},
                 activity : 0..MaxActivities]
    /\ beat \in [Activities -> {"none", "running", "ended"}]
    /\ stop \in [Activities -> BOOLEAN]
    /\ failures \in 0..MaxFailures
    /\ late \in BOOLEAN

LEMMA TypeInit == Init => TypeInv
<1> SUFFICES ASSUME Init
             PROVE  TypeInv
  OBVIOUS
<1>1. NoCall \in Calls /\ NoCall.card = 0
  BY DEF NoCall, Calls, Shows
<1>2. cards = <<>> /\ Len(cards) = 0 /\ cards \in Seq(Shows)
  BY DEF Init
<1>3. \A t \in Threads : publish[t] = NoCall
  BY DEF Init
<1>4. publish \in [Threads -> Calls] /\ \A t \in Threads : publish[t].card \in 0..Len(cards)
  BY <1>1, <1>2, <1>3 DEF Init
<1>5. main \in [at : {"working", "starting", "operating", "joining", "ending", "over", "stopped"},
                activity : 0..MaxActivities]
  BY CardAssumption DEF Init
<1>6. /\ beat \in [Activities -> {"none", "running", "ended"}]
      /\ stop \in [Activities -> BOOLEAN]
      /\ failures \in 0..MaxFailures /\ late \in BOOLEAN /\ stored \in 0..Len(cards)
  <2>1. stored \in 0..Len(cards) /\ failures \in 0..MaxFailures
    BY <1>2, CardAssumption DEF Init
  <2>2. late \in BOOLEAN /\ stop \in [Activities -> BOOLEAN]
    BY DEF Init
  <2>3. beat \in [Activities -> {"none", "running", "ended"}]
    BY DEF Init
  <2>4. QED
    BY <2>1, <2>2, <2>3
<1>7. QED
  BY <1>2, <1>4, <1>5, <1>6 DEF TypeInv

\* What a call that is sent makes of the cards.
LEMMA ShownType ==
  ASSUME TypeInv, NEW t \in Threads
  PROVE  /\ Shown(t) \in Seq(Shows)
         /\ Len(cards) \in Nat /\ Len(Shown(t)) \in Nat
         /\ publish[t].card = 0 => Len(Shown(t)) = Len(cards) + 1
         /\ publish[t].card # 0 => Len(Shown(t)) = Len(cards)
<1>1. publish[t] \in Calls /\ publish[t].shows \in Shows /\ publish[t].card \in 0..Len(cards)
  BY DEF TypeInv, Calls
<1>2. CASE publish[t].card = 0
  BY <1>1, <1>2 DEF TypeInv, Shown
<1>3. CASE publish[t].card # 0
  BY <1>1, <1>3 DEF TypeInv, Shown
<1>4. QED
  BY <1>2, <1>3

\* Cards are only added; a call that starts, goes on or ends names one of them.
LEMMA CallsType ==
  ASSUME TypeInv, cards' \in Seq(Shows), Len(cards') >= Len(cards), Len(cards') \in Nat,
         stored' \in 0..Len(cards'), NEW t \in Threads, NEW call \in Calls,
         call.card \in 0..Len(cards'), publish' = [publish EXCEPT ![t] = call],
         UNCHANGED <<main, beat, stop, late>>, failures' \in 0..MaxFailures
  PROVE  TypeInv'
<1>1. Len(cards) \in Nat
  BY DEF TypeInv
<1>2. publish' \in [Threads -> Calls]
  BY DEF TypeInv
<1>3. \A s \in Threads : publish'[s] = publish[s] \/ publish'[s] = call
  BY DEF TypeInv
<1>4. \A s \in Threads : publish'[s].card \in 0..Len(cards')
  BY <1>1, <1>3 DEF TypeInv
<1>5. QED
  BY <1>2, <1>4 DEF TypeInv

LEMMA CallTypes ==
  /\ NoCall \in Calls /\ NoCall.card = 0 /\ NoCall.step = "none"
  /\ \A text \in Shows : /\ Call(text) \in Calls /\ Call(text).card = 0
                         /\ Call(text).step = "read" /\ Call(text).shows = text
  BY DEF NoCall, Call, Calls, Shows

LEMMA PublishType ==
  ASSUME TypeInv, NEW t \in Threads, Publish(t) \/ PublishFails(t)
  PROVE  TypeInv'
<1>0. /\ publish[t] \in Calls /\ cards \in Seq(Shows) /\ Len(cards) \in Nat
      /\ stored \in 0..Len(cards) /\ stored \in Nat /\ publish[t].card \in 0..Len(cards)
      /\ failures \in 0..MaxFailures
  <2>1. Len(cards) \in Nat /\ stored \in 0..Len(cards)
    BY DEF TypeInv
  <2>2. QED
    BY <2>1 DEF TypeInv
<1>1. CASE ReadCard(t)
  <2> DEFINE call == [publish[t] EXCEPT !.step = "send", !.card = stored]
  <2>1. call \in Calls /\ call.card = stored
    BY <1>0 DEF Calls
  <2>2. publish' = [publish EXCEPT ![t] = call]
    BY <1>1 DEF ReadCard
  <2>3. /\ cards' = cards /\ stored' = stored /\ failures' = failures
        /\ UNCHANGED <<main, beat, stop, late>>
    BY <1>1 DEF ReadCard
  <2> HIDE DEF call
  <2>4. Len(cards') >= Len(cards) /\ call.card \in 0..Len(cards')
    BY <1>0, <2>1, <2>3
  <2>5. QED
    BY <1>0, <2>1, <2>2, <2>3, <2>4, CallsType
<1>2. CASE Send(t)
  <2> DEFINE call == IF publish[t].card = 0
                     THEN [publish[t] EXCEPT !.step = "store", !.card = Len(cards) + 1]
                     ELSE NoCall
  <2>1. call \in Calls /\ call.card \in 0..Len(Shown(t))
    <3>1. CASE publish[t].card = 0
      <4>1. Len(cards) + 1 \in Nat /\ Len(cards) + 1 \in 0..Len(Shown(t))
        BY <1>0, <3>1, ShownType
      <4>2. QED
        BY <1>0, <3>1, <4>1 DEF Calls
    <3>2. CASE publish[t].card # 0
      BY <1>0, <3>2, ShownType, CallTypes
    <3>3. QED
      BY <3>1, <3>2
  <2>2. publish' = [publish EXCEPT ![t] = call] /\ cards' = Shown(t)
    BY <1>2 DEF Send
  <2>3. Len(cards') >= Len(cards) /\ Len(cards') \in Nat /\ cards' \in Seq(Shows)
    BY <1>0, <2>2, ShownType
  <2>4. stored' \in 0..Len(cards')
    BY <1>0, <1>2, <2>3 DEF Send
  <2>5. QED
    BY <1>0, <1>2, <2>1, <2>2, <2>3, <2>4, CallsType DEF Send
<1>3. CASE StoreCard(t)
  <2>1. stored' \in 0..Len(cards') /\ publish' = [publish EXCEPT ![t] = NoCall]
        /\ UNCHANGED <<cards, main, beat, stop, failures, late>>
    BY <1>0, <1>3 DEF StoreCard
  <2>2. NoCall.card \in 0..Len(cards')
    BY <1>0, <2>1, CallTypes
  <2>3. Len(cards') >= Len(cards) /\ Len(cards') \in Nat /\ cards' \in Seq(Shows)
        /\ failures' \in 0..MaxFailures
    BY <1>0, <2>1
  <2>4. QED
    BY <2>1, <2>2, <2>3, CallTypes, CallsType
<1>4. CASE PublishFails(t)
  <2>1. /\ publish' = [publish EXCEPT ![t] = NoCall]
        /\ cards' = cards \/ cards' = Shown(t)
        /\ failures' \in 0..MaxFailures
        /\ UNCHANGED <<stored, main, beat, stop, late>>
    BY <1>0, <1>4, CardAssumption DEF PublishFails
  <2>2. Len(cards') >= Len(cards) /\ Len(cards') \in Nat /\ cards' \in Seq(Shows)
    BY <1>0, <2>1, ShownType
  <2>3. stored' \in 0..Len(cards') /\ NoCall.card \in 0..Len(cards')
    BY <1>0, <2>1, <2>2, CallTypes
  <2>4. QED
    BY <2>1, <2>2, <2>3, CallTypes, CallsType
<1>5. QED
  BY <1>1, <1>2, <1>3, <1>4 DEF Publish

\* The main thread and the heartbeats start calls; they touch no card.
LEMMA ThreadsType ==
  ASSUME TypeInv, MainStep \/ WorkerStops \/ (\E n \in Activities : Heartbeat(n) \/ EndHeartbeat(n))
  PROVE  TypeInv'
<1>1. Main \in Threads /\ \A n \in Activities : n \in Threads
  BY DEF Main, Threads
<1>2. UNCHANGED <<cards, stored>>
  BY DEF MainStep, PublishPhase, StartActivity, Spawn, StopActivity, Joined, JoinTimesOut,
         PublishEnd, EndTurn, WorkerStops, Heartbeat, EndHeartbeat
<1>3. \/ publish' = publish
      \/ \E t \in Threads, text \in Shows : publish' = [publish EXCEPT ![t] = Call(text)]
      \/ publish' = [t \in Threads |-> NoCall]
  BY <1>1 DEF MainStep, PublishPhase, StartActivity, Spawn, StopActivity, Joined, JoinTimesOut,
         PublishEnd, EndTurn, WorkerStops, Heartbeat, EndHeartbeat, Shows
<1>4. /\ publish' \in [Threads -> Calls]
      /\ \A t \in Threads : publish'[t].card = publish[t].card \/ publish'[t].card = 0
  <2>1. publish \in [Threads -> Calls]
    BY DEF TypeInv
  <2>2. CASE publish' = publish
    BY <2>1, <2>2
  <2>3. ASSUME NEW t \in Threads, NEW text \in Shows,
               publish' = [publish EXCEPT ![t] = Call(text)]
        PROVE  /\ publish' \in [Threads -> Calls]
               /\ \A s \in Threads : publish'[s].card = publish[s].card \/ publish'[s].card = 0
    <3>1. Call(text) \in Calls /\ Call(text).card = 0
      BY CallTypes
    <3>2. QED
      BY <2>1, <2>3, <3>1
  <2>4. CASE publish' = [t \in Threads |-> NoCall]
    BY <2>4, CallTypes
  <2>5. QED
    BY <1>3, <2>2, <2>3, <2>4
<1>5. main' \in [at : {"working", "starting", "operating", "joining", "ending", "over", "stopped"},
                 activity : 0..MaxActivities]
  <2>1. main \in [at : {"working", "starting", "operating", "joining", "ending", "over", "stopped"},
                  activity : 0..MaxActivities]
    BY DEF TypeInv
  <2>2. CASE StartActivity
    BY <2>1, <2>2, CardAssumption DEF StartActivity
  <2>3. CASE ~ StartActivity
    <3>1. \/ main' = main
          \/ \E at \in {"operating", "joining", "working", "ending", "over", "stopped"} :
               main' = [main EXCEPT !.at = at]
      BY <2>3 DEF MainStep, PublishPhase, Spawn, StopActivity, Joined, JoinTimesOut,
                  PublishEnd, EndTurn, WorkerStops, Heartbeat, EndHeartbeat
    <3>2. QED
      BY <2>1, <3>1
  <2>4. QED
    BY <2>2, <2>3
<1>6. beat' \in [Activities -> {"none", "running", "ended"}] /\ stop' \in [Activities -> BOOLEAN]
  BY DEF TypeInv, MainStep, PublishPhase, StartActivity, Spawn, StopActivity, Joined,
         JoinTimesOut, PublishEnd, EndTurn, WorkerStops, Heartbeat, EndHeartbeat
<1>7. failures' \in 0..MaxFailures /\ late' \in BOOLEAN
  <2>1. failures' = failures \/ (failures < MaxFailures /\ failures' = failures + 1)
    BY DEF MainStep, PublishPhase, StartActivity, Spawn, StopActivity, Joined, JoinTimesOut,
           PublishEnd, EndTurn, WorkerStops, Heartbeat, EndHeartbeat
  <2>2. late' = late \/ late' = TRUE
    BY DEF MainStep, PublishPhase, StartActivity, Spawn, StopActivity, Joined, JoinTimesOut,
           PublishEnd, EndTurn, WorkerStops, Heartbeat, EndHeartbeat
  <2>3. failures \in 0..MaxFailures /\ late \in BOOLEAN
    BY DEF TypeInv
  <2>4. failures' \in 0..MaxFailures
    BY <2>1, <2>3, CardAssumption
  <2>5. late' \in BOOLEAN
    BY <2>2, <2>3
  <2>6. QED
    BY <2>4, <2>5
<1>8. Len(cards) \in Nat
  BY DEF TypeInv
<1>9. \A t \in Threads : publish'[t].card \in 0..Len(cards')
  BY <1>2, <1>4, <1>8 DEF TypeInv
<1>10. QED
  BY <1>2, <1>4, <1>5, <1>6, <1>7, <1>9 DEF TypeInv

LEMMA TypeNext == TypeInv /\ [Next]_vars => TypeInv'
<1>1. TypeInv /\ UNCHANGED vars => TypeInv'
  BY DEF vars, TypeInv
<1>2. QED
  BY <1>1, PublishType, ThreadsType DEF Next

\* The card, the threads and their calls keep their types (_publish_status and
\* BackgroundActivity).
THEOREM CardTypeCorrect == Spec => []TypeOK
<1>1. TypeInv => TypeOK
  BY DEF TypeInv, TypeOK, Calls, Shows
<1>2. QED
  BY <1>1, TypeInit, TypeNext, PTL DEF Spec

--------------------------------------------------------------------------------
(* The end of a turn *)

\* While nothing has failed and no join timed out: heartbeats run only while the
\* main thread waits for an operation or for them, so that at most one thread
\* publishes at a time, and there is never a second card.
Orderly ==
    failures = 0 /\ ~ late =>
        /\ main.at # "stopped"
        /\ \A n \in Activities :
             beat[n] = "running" =>
                 main.at \in {"operating", "joining"} /\ main.activity = n
        /\ \A n \in Activities : Publishing(n) => beat[n] = "running"
        /\ Publishing(Main) => main.at \in {"working", "starting", "ending"}
        /\ (\A t \in Threads : publish[t].step # "store") => Len(cards) = stored
        /\ stored \in {0, 1}
        /\ \A t \in Threads :
             /\ publish[t].step = "send" => publish[t].card = stored
             /\ publish[t].step = "store" =>
                  stored = 0 /\ publish[t].card = 1 /\ cards = <<publish[t].shows>>
        /\ main.at = "ending" /\ Publishing(Main) => publish[Main].shows = "over"
        /\ main.at = "ending" /\ ~ Publishing(Main) => cards = <<"over">>
        /\ main.at = "over" => cards = <<"over">>

\* At most one thread publishes.
LEMMA OneCall ==
  ASSUME TypeInv, Orderly, failures = 0, ~ late, NEW t \in Threads, Publishing(t),
         NEW s \in Threads, Publishing(s)
  PROVE  s = t
<1>1. Threads = {Main} \cup Activities /\ Main \notin Activities
  BY DEF Threads, Main, Activities
<1>2. QED
  BY <1>1 DEF Orderly

LEMMA OrderlyInit == Init => Orderly
  BY DEF Init, Orderly, Publishing, NoCall, Activities, Threads, Main

LEMMA OrderlyCalls ==
  ASSUME TypeInv, Orderly, NEW t \in Threads, Publish(t)
  PROVE  Orderly'
<1> SUFFICES ASSUME failures = 0, ~ late
             PROVE  Orderly'
  BY DEF Orderly, Publish, ReadCard, Send, StoreCard
<1>1. /\ Publishing(t) /\ UNCHANGED <<main, beat, stop, failures, late>>
      /\ publish \in [Threads -> Calls] /\ Len(cards) \in Nat /\ cards \in Seq(Shows)
  BY DEF Publish, ReadCard, Send, StoreCard, Publishing, TypeInv
<1>2. \A s \in Threads : s # t => publish[s].step = "none"
  BY <1>1, OneCall DEF Publishing
<1>3. \A s \in Threads : s # t => publish'[s] = publish[s]
  BY <1>1 DEF Publish, ReadCard, Send, StoreCard
<1>4. Main \in Threads /\ \A n \in Activities : n \in Threads
  BY DEF Main, Threads
<1>5. /\ Publishing(Main) => main.at \in {"working", "starting", "ending"}
      /\ \A n \in Activities : Publishing(n) => beat[n] = "running"
      /\ \A n \in Activities : beat[n] = "running" => main.at \in {"operating", "joining"}
      /\ main.at # "stopped" /\ main.at # "over"
      /\ main.at = "ending" => t = Main
  <2>1. Threads = {Main} \cup Activities
    BY DEF Threads, Main, Activities
  <2>2. QED
    BY <1>1, <2>1 DEF Orderly
<1>6. /\ \A n \in Activities : Publishing(n)' => beat'[n] = "running"
      /\ Publishing(Main)' => main'.at \in {"working", "starting", "ending"}
  BY <1>1, <1>3, <1>4, <1>5 DEF Publishing
<1>7. CASE ReadCard(t)
  <2>1. /\ publish[t].step = "read" /\ UNCHANGED <<stored, cards>>
        /\ publish'[t] = [publish[t] EXCEPT !.step = "send", !.card = stored]
    BY <1>1, <1>7 DEF ReadCard
  <2>2. /\ publish'[t].step = "send" /\ publish'[t].card = stored
        /\ publish'[t].shows = publish[t].shows
    BY <1>1, <2>1 DEF Calls
  <2>3. Len(cards) = stored
    BY <1>2, <2>1 DEF Orderly
  <2>4. QED
    BY <1>1, <1>2, <1>3, <1>4, <1>5, <1>6, <2>1, <2>2, <2>3 DEF Orderly, Publishing
<1>8. CASE Send(t)
  <2>1. /\ publish[t].step = "send" /\ publish[t].card = stored /\ stored' = stored
        /\ Len(cards) = stored /\ stored \in {0, 1} /\ publish[t].shows \in Shows
    BY <1>1, <1>2, <1>8 DEF Send, Orderly, Calls
  <2>2. CASE stored = 0
    <3>1. cards = <<>>
      BY <1>1, <2>1, <2>2
    <3>2. cards' = <<publish[t].shows>>
      BY <1>8, <2>1, <2>2, <3>1 DEF Send, Shown
    <3>3. publish'[t] = [publish[t] EXCEPT !.step = "store", !.card = 1]
      BY <1>1, <1>8, <2>1, <2>2 DEF Send
    <3>4. /\ publish'[t].step = "store" /\ publish'[t].card = 1
          /\ publish'[t].shows = publish[t].shows
      BY <1>1, <3>3 DEF Calls
    <3>5. QED
      BY <1>1, <1>2, <1>3, <1>4, <1>5, <1>6, <2>1, <2>2, <3>2, <3>4 DEF Orderly, Publishing
  <2>3. CASE stored = 1
    <3>1. cards' = <<publish[t].shows>>
      BY <1>1, <1>8, <2>1, <2>3 DEF Send, Shown
    <3>2. publish'[t] = NoCall
      BY <1>1, <1>8, <2>1, <2>3 DEF Send
    <3>3. QED
      BY <1>1, <1>2, <1>3, <1>4, <1>5, <1>6, <2>1, <2>3, <3>1, <3>2
         DEF Orderly, Publishing, NoCall
  <2>4. QED
    BY <2>1, <2>2, <2>3
<1>9. CASE StoreCard(t)
  <2>1. /\ publish[t].step = "store" /\ publish[t].card = 1 /\ cards = <<publish[t].shows>>
        /\ stored' = 1 /\ cards' = cards /\ publish'[t] = NoCall
    BY <1>1, <1>9 DEF StoreCard, Orderly
  <2>2. QED
    BY <1>1, <1>2, <1>3, <1>4, <1>5, <1>6, <2>1 DEF Orderly, Publishing, NoCall
<1>10. QED
  BY <1>7, <1>8, <1>9 DEF Publish

LEMMA OrderlyThreads ==
  ASSUME TypeInv, Orderly, failures = 0, ~ late,
         MainStep \/ (\E n \in Activities : Heartbeat(n) \/ EndHeartbeat(n))
  PROVE  Orderly'
<1>1. publish \in [Threads -> Calls] /\ beat \in [Activities -> {"none", "running", "ended"}]
      /\ main.activity \in 0..MaxActivities
  BY DEF TypeInv
<1>2. Main \in Threads /\ Main \notin Activities /\ Threads = {Main} \cup Activities
  BY DEF Main, Threads, Activities
<1>3. ASSUME NEW t \in Threads, NEW text \in Shows, publish' = [publish EXCEPT ![t] = Call(text)]
      PROVE  /\ \A s \in Threads : s # t => publish'[s] = publish[s]
             /\ publish'[t].step = "read" /\ publish'[t].shows = text
  BY <1>1, <1>3, CallTypes
<1>4. \A n \in Activities : Publishing(n) => main.at \in {"operating", "joining"}
  BY DEF Orderly
<1>5. CASE PublishPhase
  BY <1>1, <1>2, <1>3, <1>4, <1>5 DEF PublishPhase, Orderly, Publishing, Shows
<1>6. CASE StartActivity
  BY <1>1, <1>2, <1>3, <1>4, <1>6 DEF StartActivity, Orderly, Publishing, Shows
<1>7. CASE Spawn
  BY <1>1, <1>2, <1>4, <1>7 DEF Spawn, Orderly, Publishing
<1>8. CASE StopActivity
  BY <1>1, <1>2, <1>4, <1>8 DEF StopActivity, Orderly, Publishing
<1>9. CASE Joined
  BY <1>1, <1>2, <1>4, <1>9 DEF Joined, Orderly, Publishing
<1>10. CASE JoinTimesOut
  BY <1>10 DEF JoinTimesOut, Orderly
<1>11. CASE PublishEnd
  <2>1. /\ main.at = "working" /\ ~ Publishing(Main) /\ main'.at = "ending"
        /\ publish' = [publish EXCEPT ![Main] = Call("over")]
        /\ UNCHANGED <<stored, cards, beat, stop, failures, late>>
    BY <1>11 DEF PublishEnd, TypeInv
  <2>2. /\ \A s \in Threads : s # Main => publish'[s] = publish[s]
        /\ publish'[Main].step = "read" /\ publish'[Main].shows = "over"
    BY <1>2, <1>3, <2>1 DEF Shows
  <2>3. \A n \in Activities : ~ Publishing(n)' /\ beat'[n] # "running"
    BY <1>2, <1>4, <2>1, <2>2 DEF Orderly, Publishing
  <2>4. Publishing(Main)'
    BY <2>2 DEF Publishing
  <2>5. /\ \A t \in Threads : publish'[t].step \in {"none", "read"}
        /\ Len(cards) = stored /\ stored \in {0, 1}
    BY <1>2, <1>4, <2>1, <2>2 DEF Orderly, Publishing
  <2>6. QED
    BY <2>1, <2>2, <2>3, <2>4, <2>5 DEF Orderly
<1>12. CASE EndTurn
  BY <1>1, <1>2, <1>4, <1>12 DEF EndTurn, Orderly, Publishing
<1>13. ASSUME NEW n \in Activities, Heartbeat(n)
       PROVE  Orderly'
  <2>1. /\ beat[n] = "running" /\ ~ Publishing(n) /\ n \in Threads
        /\ publish' = [publish EXCEPT ![n] = Call("working")]
        /\ UNCHANGED <<stored, cards, main, beat, stop, failures, late>>
    BY <1>2, <1>13 DEF Heartbeat
  <2>2. /\ \A s \in Threads : s # n => publish'[s] = publish[s]
        /\ publish'[n].step = "read"
    BY <1>3, <2>1 DEF Shows
  <2>3. Publishing(Main)' <=> Publishing(Main)
    BY <1>2, <2>1, <2>2 DEF Publishing
  <2>4. \A h \in Activities : Publishing(h)' => beat'[h] = "running"
    BY <1>2, <2>1, <2>2 DEF Orderly, Publishing
  <2>5. main.at \in {"operating", "joining"}
    BY <2>1 DEF Orderly
  <2>6. publish[n].step = "none"
    BY <2>1 DEF Publishing
  <2>7. (\A t \in Threads : publish'[t].step # "store")
            => \A t \in Threads : publish[t].step # "store"
    BY <2>2, <2>6
  <2>8. \A t \in Threads : publish'[t].step \in {"send", "store"} => publish'[t] = publish[t]
    BY <2>2
  <2>9. QED
    BY <2>1, <2>3, <2>4, <2>5, <2>7, <2>8 DEF Orderly
<1>14. ASSUME NEW n \in Activities, EndHeartbeat(n)
       PROVE  Orderly'
  BY <1>1, <1>2, <1>14 DEF EndHeartbeat, Orderly, Publishing
<1>15. QED
  BY <1>5, <1>6, <1>7, <1>8, <1>9, <1>10, <1>11, <1>12, <1>13, <1>14 DEF MainStep

LEMMA OrderlyNext == TypeInv /\ Orderly /\ [Next]_vars => Orderly'
<1> SUFFICES ASSUME TypeInv, Orderly, [Next]_vars
             PROVE  Orderly'
  OBVIOUS
<1>1. CASE WorkerStops \/ \E t \in Threads : PublishFails(t)
  <2>1. failures' = failures + 1 /\ failures \in 0..MaxFailures
    BY <1>1 DEF WorkerStops, PublishFails, TypeInv
  <2>2. failures' # 0
    BY <2>1, CardAssumption
  <2>3. QED
    BY <2>2 DEF Orderly
<1>2. CASE UNCHANGED vars
  BY <1>2 DEF vars, Orderly, Publishing
<1>3. CASE \E t \in Threads : Publish(t)
  BY <1>3, OrderlyCalls
<1>4. CASE MainStep \/ \E n \in Activities : Heartbeat(n) \/ EndHeartbeat(n)
  <2>1. CASE failures = 0 /\ ~ late
    BY <1>4, <2>1, OrderlyThreads
  <2>2. CASE ~ (failures = 0 /\ ~ late)
    <3>1. failures' = failures /\ (late' = late \/ late' = TRUE)
      BY <1>4 DEF MainStep, PublishPhase, StartActivity, Spawn, StopActivity, Joined, JoinTimesOut,
                  PublishEnd, EndTurn, Heartbeat, EndHeartbeat
    <3>2. QED
      BY <2>2, <3>1 DEF Orderly
  <2>3. QED
    BY <2>1, <2>2
<1>5. QED
  BY <1>1, <1>2, <1>3, <1>4 DEF Next

\* A turn that is over is shown as over, by its only card, unless a publication
\* failed or a join timed out: no heartbeat of any of its phases comes after the
\* last publication (stop and _run_with_heartbeat).
THEOREM EndStaysShown == Spec => []EndIsShown
<1>1. Orderly => EndIsShown
  BY DEF Orderly, EndIsShown
<1>2. QED
  BY <1>1, TypeInit, TypeNext, OrderlyInit, OrderlyNext, PTL DEF Spec
====
