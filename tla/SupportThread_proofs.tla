---- MODULE SupportThread_proofs ----
(* Theorems about a support thread, for any users, keys, handlers and limit of   *)
(* rounds.                                                                       *)
EXTENDS SupportThread, TLAPS

--------------------------------------------------------------------------------
(* The invariant. Its parts are about disjoint variables, which most steps       *)
(* change one at a time.                                                         *)

\* The questions: every question asked was a round.
QuestionsSound ==
    /\ clarification \in [round : 0..MaxRounds, pending : Keys \cup {None},
                          answers : SUBSET Keys]
    /\ cards \subseteq Asked
    /\ asked = clarification.round

\* The thread: who it names has written in it, and a prompt is shown only after
\* somebody reported a fix.
ThreadSound ==
    /\ thread \in [requester : Users \cup {None}, incident : BOOLEAN,
                   status : {"open", "possible_resolution", "resolved"},
                   resolver : Users \cup {None}, suppressed : BOOLEAN]
    /\ participants \subseteq Users
    /\ {thread.requester, thread.resolver} \subseteq participants \cup {None}
    /\ knowledge \in [resolver : Users \cup {None}, by : Users \cup {None},
                      contributors : SUBSET Users]
    /\ task \in Users \cup {None}
    /\ ResolvedIsCaptured

PromptSound == prompted \in BOOLEAN /\ (prompted => thread.resolver # None)

\* The handlers: those that go on after a button know whose it was, and those that
\* may open a task have captured something.
JobsSound ==
    /\ job \in [Jobs -> [phase : Phases, by : Users \cup {None}, card : Asked \cup {NoCard}]]
    /\ \A j \in Jobs :
         /\ job[j].phase = "selected" => job[j].by \in Users
         /\ job[j].phase = "captured" => knowledge # NoCapture

Sound == QuestionsSound /\ ThreadSound /\ PromptSound /\ JobsSound

LEMMA SoundInit == Init => Sound
<1> SUFFICES ASSUME Init
             PROVE  Sound
  OBVIOUS
<1>1. QuestionsSound
  BY ThreadAssumption DEF Init, QuestionsSound
<1>2. ThreadSound
  BY ThreadAssumption DEF Init, ThreadSound, ResolvedIsCaptured, NoThread, NoCapture
<1>3. PromptSound /\ JobsSound
  BY DEF Init, PromptSound, JobsSound, NoJob, Phases
<1>4. QED
  BY <1>1, <1>2, <1>3 DEF Sound

--------------------------------------------------------------------------------
(* What the parts of a step do to the parts of the invariant.                    *)

\* An answer leaves no question pending.
LEMMA AnsweredSound ==
  ASSUME QuestionsSound, NEW k \in Keys, clarification' = Answered(k),
         cards' \subseteq cards, asked' = asked
  PROVE  QuestionsSound'
<1>1. /\ clarification' \in [round : 0..MaxRounds, pending : Keys \cup {None},
                             answers : SUBSET Keys]
      /\ clarification'.round = clarification.round /\ clarification'.pending = None
  BY DEF QuestionsSound, Answered
<1>2. QED
  BY <1>1 DEF QuestionsSound

\* A question is asked only if a round is left.
LEMMA AskOrSearchSound ==
  ASSUME QuestionsSound, NEW j, NEW others \in SUBSET cards, AskOrSearch(j, others)
  PROVE  QuestionsSound'
<1>1. CASE cards' = others /\ UNCHANGED <<clarification, asked>>
  BY <1>1 DEF QuestionsSound
<1>2. ASSUME NEW k \in Questions, Ask(k, others)
      PROVE  QuestionsSound'
  <2>1. /\ clarification.round \in 0..MaxRounds /\ clarification.round < MaxRounds
        /\ k \in Keys
    BY <1>2, ThreadAssumption DEF Questions, QuestionsSound
  <2>2. Round = clarification.round + 1 /\ Round \in 1..MaxRounds /\ Round \in 0..MaxRounds
    BY <2>1, ThreadAssumption DEF Round
  <2>3. clarification' = [clarification EXCEPT !.round = Round, !.pending = k]
    BY <1>2 DEF Ask
  <2>4. /\ clarification' \in [round : 0..MaxRounds, pending : Keys \cup {None},
                               answers : SUBSET Keys]
        /\ clarification'.round = Round
    <3>1. clarification' =
            [round |-> Round, pending |-> k, answers |-> clarification.answers]
      BY <2>3 DEF QuestionsSound
    <3>2. clarification.answers \in SUBSET Keys
      BY DEF QuestionsSound
    <3>3. QED
      BY <2>1, <2>2, <3>1, <3>2
  <2>5. cards' \subseteq Asked
    <3>1. <<k, Round>> \in Asked
      BY <2>1, <2>2 DEF Asked
    <3>2. QED
      BY <1>2, <3>1 DEF Ask, QuestionsSound
  <2>6. asked' = clarification'.round
    BY <1>2, <2>2, <2>4 DEF Ask, QuestionsSound
  <2>7. QED
    BY <2>1, <2>4, <2>5, <2>6 DEF QuestionsSound
<1>3. QED
  BY <1>1, <1>2 DEF AskOrSearch

\* A message names its author only, and takes a thread out of the resolved state
\* when it names a resolver.
LEMMA ObserveSound ==
  ASSUME ThreadSound, NEW u \in Users, NEW kind \in Kinds, NEW incident \in BOOLEAN,
         Observe(u, kind, incident), UNCHANGED <<knowledge, task>>
  PROVE  /\ ThreadSound'
         /\ thread.resolver # None => thread'.resolver # None
         /\ kind = "resolution" => thread'.resolver # None
<1>1. thread' = Observed(u, kind, incident) /\ participants' = participants \cup {u}
  BY DEF Observe
<1>2. /\ thread' \in [requester : Users \cup {None}, incident : BOOLEAN,
                      status : {"open", "possible_resolution", "resolved"},
                      resolver : Users \cup {None}, suppressed : BOOLEAN]
      /\ thread'.requester = Requester(u)
      /\ thread'.resolver = IF kind = "resolution" THEN u ELSE thread.resolver
      /\ thread'.status = IF kind = "resolution" THEN "possible_resolution" ELSE thread.status
  BY <1>1 DEF ThreadSound, Observed, Requester
<1>3. /\ thread'.requester \in participants' /\ thread'.resolver \in participants' \cup {None}
      /\ participants' \subseteq Users
  BY <1>1, <1>2 DEF ThreadSound, Requester
<1>4. ResolvedIsCaptured'
  <2>1. ASSUME thread'.status = "resolved"
        PROVE  /\ knowledge # NoCapture
               /\ knowledge.resolver = thread'.resolver
               /\ knowledge.by \in {thread'.requester, thread'.resolver}
    <3>1. kind # "resolution" /\ thread.status = "resolved" /\ thread'.resolver = thread.resolver
      BY <1>2, <2>1
    <3>2. /\ knowledge # NoCapture /\ knowledge.resolver = thread.resolver
          /\ knowledge.by \in {thread.requester, thread.resolver}
      BY <3>1 DEF ThreadSound, ResolvedIsCaptured
    <3>3. knowledge.by # None
      BY <3>2, ThreadAssumption DEF ThreadSound, ResolvedIsCaptured
    <3>4. QED
      BY <1>2, <3>1, <3>2, <3>3 DEF Requester
  <2>2. QED
    BY <1>1, <2>1 DEF ThreadSound, ResolvedIsCaptured
<1>5. QED
  BY <1>2, <1>3, <1>4, ThreadAssumption DEF ThreadSound

\* A handler starts with the values it is given.
LEMMA StartSound ==
  ASSUME JobsSound, NEW phase \in Phases, NEW u \in Users \cup {None},
         NEW card \in Asked \cup {NoCard}, Start(phase, u, card),
         phase = "selected" => u \in Users,
         phase = "captured" \/ knowledge' = knowledge,
         knowledge' # NoCapture \/ (knowledge' = knowledge /\ phase # "captured")
  PROVE  JobsSound'
<1>1. PICK j \in Jobs : job' = [job EXCEPT ![j] = [phase |-> phase, by |-> u, card |-> card]]
  BY DEF Start
<1>2. job' \in [Jobs -> [phase : Phases, by : Users \cup {None}, card : Asked \cup {NoCard}]]
  BY <1>1 DEF JobsSound
<1>3. ASSUME NEW i \in Jobs
      PROVE  /\ job'[i].phase = "selected" => job'[i].by \in Users
             /\ job'[i].phase = "captured" => knowledge' # NoCapture
  <2>1. CASE i = j
    BY <1>1, <2>1 DEF JobsSound
  <2>2. CASE i # j
    BY <1>1, <2>2 DEF JobsSound
  <2>3. QED
    BY <2>1, <2>2
<1>4. QED
  BY <1>2, <1>3 DEF JobsSound

\* A handler ends.
LEMMA EndSound ==
  ASSUME JobsSound, NEW j \in Jobs, job' = [job EXCEPT ![j] = NoJob], UNCHANGED knowledge
  PROVE  JobsSound'
<1>1. /\ NoJob \in [phase : Phases, by : Users \cup {None}, card : Asked \cup {NoCard}]
      /\ NoJob.phase = "none"
  BY DEF NoJob, Phases
<1>2. job' \in [Jobs -> [phase : Phases, by : Users \cup {None}, card : Asked \cup {NoCard}]]
  BY <1>1 DEF JobsSound
<1>3. \A i \in Jobs : job'[i] = job[i] \/ job'[i].phase = "none"
  BY <1>1 DEF JobsSound
<1>4. QED
  BY <1>2, <1>3 DEF JobsSound

LEMMA JobsStay == ASSUME JobsSound, UNCHANGED <<job, knowledge>> PROVE JobsSound'
  BY DEF JobsSound

LEMMA QuestionsStay ==
  ASSUME QuestionsSound, UNCHANGED <<clarification, asked>>, cards' \subseteq cards
  PROVE  QuestionsSound'
  BY DEF QuestionsSound

LEMMA ThreadStays ==
  ASSUME ThreadSound, UNCHANGED <<thread, participants, knowledge, task>>
  PROVE  ThreadSound'
  BY DEF ThreadSound, ResolvedIsCaptured

--------------------------------------------------------------------------------
(* One lemma for each kind of step.                                              *)

LEMMA MessageStep ==
  ASSUME Sound, NEW u \in Users, HandleMessage(u)
  PROVE  Sound'
<1> USE DEF Sound
<1>1. PICK kind \in Kinds, incident \in BOOLEAN, answer \in BOOLEAN, offered \in BOOLEAN :
        /\ Observe(u, kind, incident)
        /\ Consumes(u, answer)
        /\ clarification' = IF answer THEN Answered(clarification.pending) ELSE clarification
        /\ prompted' = (\/ prompted
                        \/ /\ kind = "resolution" /\ ~ offered
                           /\ Observed(u, kind, incident).incident)
        /\ Start("heard", None, NoCard) \/ UNCHANGED job
        /\ UNCHANGED <<cards, knowledge, task, asked>>
  BY DEF HandleMessage
<1>2. /\ ThreadSound'
      /\ thread.resolver # None => thread'.resolver # None
      /\ kind = "resolution" => thread'.resolver # None
  BY <1>1, ObserveSound
<1>3. QuestionsSound'
  <2>1. CASE answer
    <3>1. clarification.pending \in Keys
      BY <1>1, <2>1 DEF Consumes, QuestionsSound
    <3>2. QED
      BY <1>1, <2>1, <3>1, AnsweredSound
  <2>2. CASE ~ answer
    BY <1>1, <2>2, QuestionsStay
  <2>3. QED
    BY <2>1, <2>2
<1>4. PromptSound'
  <2>1. prompted' \in BOOLEAN
    BY <1>1 DEF PromptSound
  <2>2. prompted' => prompted \/ kind = "resolution"
    BY <1>1
  <2>3. QED
    BY <1>2, <2>1, <2>2 DEF PromptSound
<1>5. JobsSound'
  BY <1>1, StartSound, JobsStay DEF Phases
<1>6. QED
  BY <1>2, <1>3, <1>4, <1>5

LEMMA MentionStep ==
  ASSUME Sound, NEW u \in Users, HandleMention(u)
  PROVE  Sound'
<1> USE DEF Sound
<1>1. PICK kind \in Kinds, incident \in BOOLEAN :
        /\ Observe(u, kind, incident)
        /\ Start("called", None, NoCard) \/ UNCHANGED job
        /\ UNCHANGED <<clarification, cards, prompted, knowledge, task, asked>>
  BY DEF HandleMention
<1>2. ThreadSound' /\ (thread.resolver # None => thread'.resolver # None)
  BY <1>1, ObserveSound
<1>3. QuestionsSound'
  BY <1>1, QuestionsStay
<1>4. PromptSound'
  BY <1>1, <1>2 DEF PromptSound
<1>5. JobsSound'
  BY <1>1, StartSound, JobsStay DEF Phases
<1>6. QED
  BY <1>2, <1>3, <1>4, <1>5

LEMMA ButtonStep ==
  ASSUME Sound, NEW u \in Users, Select(u)
  PROVE  Sound'
<1> USE DEF Sound
<1>1. PICK card \in cards :
        /\ Start("selected", u, card)
        /\ clarification' = Answered(card[1])
        /\ UNCHANGED <<thread, participants, cards, prompted, knowledge, task, asked>>
  BY DEF Select
<1>2. card \in Asked /\ card[1] \in Keys
  BY DEF QuestionsSound, Asked
<1>3. QuestionsSound'
  BY <1>1, <1>2, AnsweredSound
<1>4. ThreadSound' /\ PromptSound'
  BY <1>1, ThreadStays DEF PromptSound
<1>5. JobsSound'
  BY <1>1, <1>2, StartSound DEF Phases
<1>6. QED
  BY <1>3, <1>4, <1>5

\* A handler that waited goes on, after whatever happened meanwhile.
LEMMA HandlerStep ==
  ASSUME Sound, NEW j \in Jobs, Acknowledged(j) \/ Selected(j) \/ SelectRaises(j)
  PROVE  Sound'
<1> USE DEF Sound
<1>1. CASE Acknowledged(j)
  <2>1. AskOrSearch(j, cards) /\ UNCHANGED <<thread, participants, prompted, knowledge, task>>
    BY <1>1 DEF Acknowledged
  <2>2. QuestionsSound' /\ JobsSound'
    BY <2>1, AskOrSearchSound, EndSound DEF AskOrSearch
  <2>3. ThreadSound' /\ PromptSound'
    BY <2>1, ThreadStays DEF PromptSound
  <2>4. QED
    BY <2>2, <2>3
<1>2. CASE Selected(j)
  <2>1. /\ job[j].by \in Users
        /\ Observe(job[j].by, "other", FALSE)
        /\ AskOrSearch(j, cards \ {job[j].card})
        /\ UNCHANGED <<prompted, knowledge, task>>
    BY <1>2 DEF Selected, JobsSound
  <2>2. QuestionsSound' /\ JobsSound'
    BY <2>1, AskOrSearchSound, EndSound DEF AskOrSearch
  <2>3. ThreadSound' /\ (thread.resolver # None => thread'.resolver # None)
    BY <2>1, ObserveSound DEF Kinds
  <2>4. PromptSound'
    BY <2>1, <2>3 DEF PromptSound
  <2>5. QED
    BY <2>2, <2>3, <2>4
<1>3. CASE SelectRaises(j)
  BY <1>3, QuestionsStay, ThreadStays, EndSound DEF SelectRaises, PromptSound
<1>4. QED
  BY <1>1, <1>2, <1>3

\* Capturing records the resolver the thread names, who has written in it, and some
\* of those who took part.
LEMMA CaptureStep ==
  ASSUME Sound, NEW u \in Users, Capture(u)
  PROVE  Sound'
<1> USE DEF Sound
<1>1. /\ prompted /\ u \in {thread.requester, thread.resolver}
      /\ \E recent \in SUBSET participants \ {{}} :
           knowledge' = [resolver |-> thread.resolver, by |-> u, contributors |-> recent]
      /\ thread' = [thread EXCEPT !.status = "resolved"]
      /\ prompted' \in BOOLEAN
      /\ Start("captured", u, NoCard) \/ UNCHANGED job
      /\ UNCHANGED <<participants, clarification, cards, task, asked>>
  BY DEF Capture, MayCapture
<1>2. /\ u # None /\ thread.resolver # None
      /\ u \in participants /\ thread.resolver \in participants
  BY <1>1, ThreadAssumption DEF ThreadSound, PromptSound
<1>3. knowledge' # NoCapture
  BY <1>1, <1>2 DEF NoCapture
<1>4. /\ thread' \in [requester : Users \cup {None}, incident : BOOLEAN,
                      status : {"open", "possible_resolution", "resolved"},
                      resolver : Users \cup {None}, suppressed : BOOLEAN]
      /\ thread'.requester = thread.requester /\ thread'.resolver = thread.resolver
  BY <1>1 DEF ThreadSound
<1>5. ThreadSound'
  <2>1. ResolvedIsCaptured'
    <3>1. /\ knowledge'.resolver = thread.resolver /\ knowledge'.by = u
          /\ knowledge'.contributors \subseteq participants
      BY <1>1
    <3>2. participants' = participants /\ task' = task
      BY <1>1
    <3>3. QED
      BY <1>1, <1>2, <1>3, <1>4, <3>1, <3>2 DEF ResolvedIsCaptured
  <2>2. knowledge' \in [resolver : Users \cup {None}, by : Users \cup {None},
                        contributors : SUBSET Users]
    BY <1>1 DEF ThreadSound
  <2>3. QED
    BY <1>1, <1>4, <2>1, <2>2 DEF ThreadSound
<1>6. PromptSound'
  BY <1>1, <1>2, <1>4 DEF PromptSound
<1>7. QuestionsSound'
  BY <1>1, QuestionsStay
<1>8. JobsSound'
  <2>1. CASE Start("captured", u, NoCard)
    <3>1. PICK j \in Jobs :
            job' = [job EXCEPT ![j] = [phase |-> "captured", by |-> u, card |-> NoCard]]
      BY <2>1 DEF Start
    <3>2. job' \in [Jobs -> [phase : Phases, by : Users \cup {None},
                            card : Asked \cup {NoCard}]]
      BY <3>1 DEF JobsSound, Phases
    <3>3. \A i \in Jobs : job'[i] = job[i] \/ job'[i].phase = "captured"
      BY <3>1 DEF JobsSound
    <3>4. QED
      BY <1>3, <3>2, <3>3 DEF JobsSound
  <2>2. CASE UNCHANGED job
    BY <1>3, <2>2 DEF JobsSound
  <2>3. QED
    BY <1>1, <2>1, <2>2
<1>9. QED
  BY <1>5, <1>6, <1>7, <1>8

\* The handler of a captured resolution opens a task about it.
LEMMA TaskStep ==
  ASSUME Sound, NEW j \in Jobs, OpenTask(j)
  PROVE  Sound'
<1> USE DEF Sound
<1>1. /\ job[j].phase = "captured" /\ job' = [job EXCEPT ![j] = NoJob]
      /\ task' \in {task, TaskAfter(job[j].by)}
      /\ UNCHANGED <<thread, participants, clarification, cards, prompted, knowledge, asked>>
  BY DEF OpenTask
<1>2. knowledge # NoCapture /\ job[j].by \in Users \cup {None}
  BY <1>1 DEF JobsSound
<1>3. task' \in Users \cup {None}
  BY <1>1, <1>2 DEF TaskAfter, ThreadSound
<1>4. ThreadSound'
  BY <1>1, <1>2, <1>3 DEF ThreadSound, ResolvedIsCaptured
<1>5. QED
  BY <1>1, <1>4, QuestionsStay, EndSound DEF PromptSound

\* Buttons disappear, or the application starts again.
LEMMA QuietStep ==
  ASSUME Sound, SelectOther \/ DismissCapture \/ Restart \/ UNCHANGED vars
  PROVE  Sound'
<1> USE DEF Sound
<1>1. CASE SelectOther
  BY <1>1, QuestionsStay, ThreadStays, JobsStay DEF SelectOther, PromptSound
<1>2. CASE DismissCapture
  BY <1>2, QuestionsStay, ThreadStays, JobsStay DEF DismissCapture, PromptSound
<1>3. CASE Restart
  <2>1. /\ job' = [i \in Jobs |-> NoJob]
        /\ UNCHANGED <<thread, participants, clarification, cards, prompted, knowledge, task, asked>>
    BY <1>3 DEF Restart
  <2>2. JobsSound'
    BY <2>1 DEF JobsSound, NoJob, Phases
  <2>3. QED
    BY <2>1, <2>2, QuestionsStay, ThreadStays DEF PromptSound
<1>4. CASE UNCHANGED vars
  BY <1>4, QuestionsStay, ThreadStays, JobsStay DEF vars, PromptSound
<1>5. QED
  BY <1>1, <1>2, <1>3, <1>4

LEMMA SoundNext == Sound /\ [Next]_vars => Sound'
<1> SUFFICES ASSUME Sound, [Next]_vars
             PROVE  Sound'
  OBVIOUS
<1>1. CASE \E u \in Users : HandleMessage(u) \/ HandleMention(u) \/ Select(u) \/ Capture(u)
  BY <1>1, MessageStep, MentionStep, ButtonStep, CaptureStep
<1>2. CASE \E j \in Jobs : Acknowledged(j) \/ Selected(j) \/ SelectRaises(j) \/ OpenTask(j)
  BY <1>2, HandlerStep, TaskStep
<1>3. CASE SelectOther \/ DismissCapture \/ Restart \/ UNCHANGED vars
  BY <1>3, QuietStep
<1>4. QED
  BY <1>1, <1>2, <1>3 DEF Next

LEMMA AlwaysSound == Spec => []Sound
  BY SoundInit, SoundNext, PTL DEF Spec

--------------------------------------------------------------------------------
(* The theorems                                                                  *)

\* Every row, card and waiting handler of a thread always has a value the code
\* gives it.
THEOREM ThreadTypeCorrect == Spec => []TypeOK
<1>1. Sound => TypeOK
  BY ThreadAssumption DEF Sound, QuestionsSound, ThreadSound, PromptSound, JobsSound, TypeOK
<1>2. QED
  BY <1>1, AlwaysSound, PTL

\* A thread is asked back at most MaxRounds times, with any number of handlers
\* waiting and buttons of any age.
THEOREM QuestionsEnd == Spec => []AtMostThreeQuestions
<1>1. Sound => AtMostThreeQuestions
  BY ThreadAssumption DEF Sound, QuestionsSound, AtMostThreeQuestions
<1>2. QED
  BY <1>1, AlwaysSound, PTL

\* A resolved thread was captured, from the resolver it names, by one of the two
\* people who may, and credits only people who took part.
THEOREM CapturesAreSound == Spec => []ResolvedIsCaptured
<1>1. Sound => ResolvedIsCaptured
  BY DEF Sound, ThreadSound
<1>2. QED
  BY <1>1, AlwaysSound, PTL
====
