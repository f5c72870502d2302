------------------------ MODULE BuilderWorker_proofs ------------------------
(***************************************************************************)
(* Proofs about BuilderWorker, for any messages, threads and pull          *)
(* requests, any number of turns, restarts and repairs: what is published  *)
(* was verified, stays in its thread and is what a success names, a        *)
(* message becomes one turn for each run of the Slack process, and the     *)
(* table implements TurnQueue.  They use the safety part of Spec alone.    *)
(***************************************************************************)
EXTENDS BuilderWorker, FiniteSetTheorems, SequenceTheorems, WellFoundedInduction, TLAPS

-----------------------------------------------------------------------------
(* The latest of some turns exists.                                        *)

Below == {p \in Nat \X Nat : p[1] < p[2]}

LEMMA BelowIsWellFounded == IsWellFoundedOn(Below, Nat)
  BY NatLessThanWellFounded DEF OpToRel, Below

LEMMA LeastExists ==
  ASSUME NEW T \in SUBSET Nat, T # {}
  PROVE  \E x \in T : \A y \in T : x <= y
<1>1. \E x \in T : \A y \in T : <<y, x>> \notin Below
  BY BelowIsWellFounded, WFMin
<1>2. ASSUME NEW x \in Nat, NEW y \in Nat, <<y, x>> \notin Below
      PROVE  x <= y
  <2>1. <<y, x>> \in Nat \X Nat
    OBVIOUS
  <2>2. ~ (y < x)
    BY <1>2, <2>1 DEF Below
  <2>3. QED
    BY <2>2
<1>3. QED
  BY <1>1, <1>2

LEMMA LatestExists ==
  ASSUME NEW n \in Nat, NEW T \in SUBSET (1 .. n), T # {}
  PROVE  Max(T) \in T
<1> DEFINE U == {u \in Nat : \E y \in T : u = n - y}
<1>0. \A y \in T : n - y \in Nat
  OBVIOUS
<1>1. U \in SUBSET Nat /\ U # {}
  BY <1>0
<1>2. PICK u \in U : \A v \in U : u <= v
  BY <1>1, LeastExists
<1>3. PICK x \in T : u = n - x
  OBVIOUS
<1>4. \A y \in T : x >= y
  BY <1>0, <1>2, <1>3
<1>5. QED
  BY <1>4 DEF Max

-----------------------------------------------------------------------------
(* The table.                                                              *)

Over == {"succeeded", "failed"}

\* A turn over before i, of the same thread, has worked on b.
Worked(ts, i, b) ==
  \E j \in 1 .. i - 1 : /\ ThreadOf[ts[j].message] = ThreadOf[ts[i].message]
                        /\ ts[j].branch = b /\ ts[j].status \in Over

Theirs(ts, i, b) ==
  LET m == ts[i].message IN
    IF HandoffOf[m] # None THEN b = External(HandoffOf[m]) ELSE b = Own(i) \/ Worked(ts, i, b)

RowSound(ts, cs, ps, i) ==
  /\ ts[i].status = "succeeded" =>
       /\ ts[i].pr # None => ps[ts[i].pr] # None
       /\ \A b \in Branches : i \in cs[b] => ts[i].pr = b
       /\ ts[i].pr # None /\ ts[i].branch # None => ts[i].pr = ts[i].branch
  /\ ts[i].continuation # None =>
       /\ ts[i].continuation_pr = ts[i].continuation
       /\ Worked(ts, i, ts[i].continuation)

TableSound(ts, cs, ps) ==
  /\ \A b \in Branches : \A i \in cs[b] :
       /\ i \in 1 .. Len(ts) /\ ts[i].status \notin {"pending", "cancelled"}
       /\ Theirs(ts, i, b)
  /\ \A i \in 1 .. Len(ts) : RowSound(ts, cs, ps, i)

\* What a step leaves of the rows there were.
Kept(ts, us) ==
  /\ Len(ts) <= Len(us)
  /\ \A j \in 1 .. Len(ts) :
       /\ us[j].message = ts[j].message
       /\ ts[j].status \in Over => us[j].status \in Over /\ us[j].branch = ts[j].branch

Types ==
  /\ TypeOK /\ Len(turns) <= MaxTurns
  /\ cancelling \in (1 .. Len(turns)) \union {None}

LEMMA TypesFacts ==
  ASSUME Types
  PROVE  /\ turns \in Seq(Turn) /\ Len(turns) \in Nat /\ DOMAIN turns = 1 .. Len(turns)
         /\ DOMAIN turns \subseteq TurnIds
         /\ \A i \in 1 .. Len(turns) : turns[i] \in Turn
         /\ MaxTurns \in Nat
<1>1. turns \in Seq(Turn) /\ MaxTurns \in Nat
  BY QueueAssumption DEF Types, TypeOK, QueueTypeOK
<1>2. Len(turns) \in Nat /\ DOMAIN turns = 1 .. Len(turns)
      /\ \A i \in 1 .. Len(turns) : turns[i] \in Turn
  BY <1>1, LenProperties, ElementOfSeq
<1>3. QED
  BY <1>1, <1>2 DEF Types, TurnIds

LEMMA WorkedStays ==
  ASSUME NEW ts, NEW us, Len(ts) \in Nat, Kept(ts, us), NEW i \in 1 .. Len(ts), NEW b,
         Worked(ts, i, b)
  PROVE  Worked(us, i, b)
<1>1. PICK j \in 1 .. i - 1 : /\ ThreadOf[ts[j].message] = ThreadOf[ts[i].message]
                              /\ ts[j].branch = b /\ ts[j].status \in Over
  BY DEF Worked
<1>2. j \in 1 .. Len(ts)
  OBVIOUS
<1>3. QED
  BY <1>1, <1>2 DEF Worked, Kept

LEMMA TheirsStays ==
  ASSUME NEW ts, NEW us, Len(ts) \in Nat, Kept(ts, us), NEW i \in 1 .. Len(ts), NEW b,
         Theirs(ts, i, b)
  PROVE  Theirs(us, i, b)
<1>1. us[i].message = ts[i].message
  BY DEF Kept
<1>2. QED
  BY <1>1, WorkedStays DEF Theirs

\* One row changes.
LEMMA RowStep ==
  ASSUME Types, NEW i \in 1 .. Len(turns), NEW row \in Turn,
         turns' = [turns EXCEPT ![i] = row]
  PROVE  /\ turns' \in Seq(Turn) /\ Len(turns') = Len(turns)
         /\ DOMAIN turns' = DOMAIN turns
         /\ \A j \in 1 .. Len(turns) : turns'[j] = IF j = i THEN row ELSE turns[j]
  BY TypesFacts, ExceptSeq, LenProperties

LEMMA RowChanges ==
  ASSUME Types, TableSound(turns, commits, prs), NEW i \in 1 .. Len(turns), NEW row \in Turn,
         turns' = [turns EXCEPT ![i] = row],
         row.message = turns[i].message, row.continuation = turns[i].continuation,
         row.continuation_pr = turns[i].continuation_pr,
         turns[i].status \in Over => row.status \in Over /\ row.branch = turns[i].branch,
         turns[i].status \notin {"pending", "cancelled"} => row.status \notin {"pending", "cancelled"},
         row.status = "succeeded" =>
           /\ row.pr # None => prs[row.pr] # None
           /\ \A b \in Branches : i \in commits[b] => row.pr = b
           /\ row.pr # None /\ row.branch # None => row.pr = row.branch
  PROVE  TableSound(turns', commits, prs) /\ Kept(turns, turns')
<1>1. /\ Len(turns') = Len(turns) /\ Len(turns) \in Nat
      /\ \A j \in 1 .. Len(turns) : turns'[j] = IF j = i THEN row ELSE turns[j]
  BY RowStep, TypesFacts
<1>2. Kept(turns, turns')
  BY <1>1 DEF Kept
<1>3. ASSUME NEW b \in Branches, NEW j \in commits[b]
      PROVE  /\ j \in 1 .. Len(turns') /\ turns'[j].status \notin {"pending", "cancelled"}
             /\ Theirs(turns', j, b)
  <2>1. /\ j \in 1 .. Len(turns) /\ turns[j].status \notin {"pending", "cancelled"}
        /\ Theirs(turns, j, b)
    BY <1>3 DEF TableSound
  <2>2. QED
    BY <1>1, <1>2, <2>1, TheirsStays
<1>4. ASSUME NEW j \in 1 .. Len(turns)
      PROVE  RowSound(turns', commits, prs, j)
  <2>1. RowSound(turns, commits, prs, j)
    BY DEF TableSound
  <2>2. turns[j].continuation # None => Worked(turns', j, turns[j].continuation)
    BY <1>1, <1>2, <2>1, WorkedStays DEF RowSound
  <2>3. CASE j = i
    BY <1>1, <2>1, <2>2, <2>3 DEF RowSound
  <2>4. CASE j # i
    BY <1>1, <2>1, <2>2, <2>4 DEF RowSound
  <2>5. QED
    BY <2>3, <2>4
<1>5. QED
  BY <1>1, <1>2, <1>3, <1>4 DEF TableSound

-----------------------------------------------------------------------------
(* The worker.                                                             *)

BranchOf(x) == IF x.target # None THEN x.target ELSE Own(x.turn)

Targeted == {"preparing", "working", "validating", "repairing", "pushing", "opening", "recording"}
BeforeThePush == {"resolving", "preparing", "working", "validating", "repairing", "pushing"}

\* Where _run_task stands: what it knows of its turn, of the branch it works on,
\* and of what it has pushed.
WorkerSound(x, ts, cs, ps) ==
  x.at # "polling" =>
    LET row == ts[x.turn]
        handoff == HandoffOf[row.message]
    IN  /\ x.turn \in 1 .. Len(ts)
        /\ x.at \in Targeted \union {"resolving"} => row.status = "running"
        /\ x.at = "reporting" => row.status = "succeeded"
        /\ x.at = "failing" => row.status \in {"running", "succeeded"}
        /\ x.at \in Targeted =>
             /\ handoff # None => x.target = External(handoff)
             /\ handoff = None => x.target \in {None, row.continuation}
             /\ x.target # None => ps[x.target] # None
        /\ x.at \in Targeted \ {"preparing"} => row.branch = BranchOf(x)
        /\ x.at \in BeforeThePush => \A b \in Branches : x.turn \notin cs[b]
        /\ x.at \in {"opening", "recording"} =>
             \A b \in Branches : x.turn \in cs[b] => b = BranchOf(x) /\ x.changed = TRUE
        /\ x.at \in {"pushing", "opening"} => x.changed = TRUE
        /\ x.at = "opening" => x.target = None
        /\ x.at = "repairing" => x.repairs < MaxRepairs
        /\ x.at = "recording" /\ x.target = None /\ x.changed = TRUE => ps[Own(x.turn)] # None

Workers ==
  [at : Phases, turn : TurnIds \union {None}, target : Branches \union {None},
   changed : BOOLEAN, verified : BOOLEAN, repairs : 0 .. MaxRepairs]

\* A worktree is the worker's or was left behind.
WorktreesSound(x, trees, stopped) ==
  \A i \in TurnIds : trees[i] # None => i \in stopped \/ (x.at # "polling" /\ i = x.turn)

Verified(x, ts) ==
  /\ RequireTests /\ x.at \in {"pushing", "opening"} => x.verified = TRUE
  /\ RequireTests /\ x.at = "recording" /\ HandoffOf[ts[x.turn].message] # None =>
       x.verified = TRUE

Sound ==
  /\ Types
  /\ TableSound(turns, commits, prs)
  /\ WorkerSound(worker, turns, commits, prs)
  /\ WorktreesSound(worker, worktrees, interrupted)
  /\ Verified(worker, turns)

LEMMA PollingType ==
  /\ Polling \in Workers /\ Polling.at = "polling"
  /\ \A ts, cs, ps : WorkerSound(Polling, ts, cs, ps)
  /\ \A ts : Verified(Polling, ts)
<1>1. Polling \in Workers /\ Polling.at = "polling"
  BY WorkerAssumption DEF Polling, Workers, Phases
<1>2. QED
  BY <1>1 DEF WorkerSound, Verified

LEMMA BranchType ==
  /\ \A i \in TurnIds : Own(i) \in Branches
  /\ \A p \in PullRequests : External(p) \in Branches
  /\ \A x \in Workers : x.turn \in TurnIds => BranchOf(x) \in Branches
<1>1. \A i \in TurnIds : Own(i) \in Branches
  BY DEF Branches
<1>2. \A p \in PullRequests : External(p) \in Branches
  BY DEF Branches
<1>3. QED
  BY <1>1, <1>2 DEF BranchOf, Workers

LEMMA SoundInit == Init => Sound
<1> SUFFICES ASSUME Init
             PROVE  Sound
  OBVIOUS
<1>1. Types
  <2>1. QueueTypeOK /\ Len(turns) <= MaxTurns
    BY QueueAssumption, EmptySeq DEF Init, QueueInit, QueueTypeOK
  <2>2. worker \in Workers
    BY PollingType DEF Init
  <2>3. prs \in [Branches -> {"open", "closed", None}]
    BY DEF Init
  <2>4. QED
    BY <2>1, <2>2, <2>3 DEF Init, QueueInit, Types, TypeOK, Workers
<1>2. TableSound(turns, commits, prs)
  BY DEF Init, QueueInit, TableSound
<1>3. QED
  BY <1>1, <1>2, PollingType DEF Init, Sound, WorktreesSound

\* What the refinement sees of a step.
Step == Queue!Next \/ UNCHANGED Queue!vars

LEMMA NotSeen ==
  ASSUME UNCHANGED <<turns, commits>>
  PROVE  UNCHANGED Queue!vars
  BY DEF Queue!vars, In

\* A step of the worker alone.
LEMMA WorkerMoves ==
  ASSUME Sound, NEW next \in Workers, worker' = next, UNCHANGED <<queue, turns, remote>>,
         worktrees' \in [TurnIds -> Branches \union {None}], interrupted' \subseteq TurnIds,
         WorkerSound(next, turns, commits, prs), Verified(next, turns),
         WorktreesSound(next, worktrees', interrupted')
  PROVE  Sound' /\ Step
<1>1. Types'
  BY DEF Sound, Types, TypeOK, QueueTypeOK, queue, remote, Workers
<1>2. TableSound(turns, commits, prs)'
  BY DEF Sound, TableSound, RowSound, Theirs, Worked, remote
<1>3. UNCHANGED <<turns, commits, prs>>
  BY DEF remote
<1>4. QED
  BY <1>1, <1>2, <1>3, NotSeen DEF Sound, Step, WorkerSound, Verified, WorktreesSound

LEMMA WorkerFacts ==
  ASSUME Sound
  PROVE  /\ worker \in Workers /\ worktrees \in [TurnIds -> Branches \union {None}]
         /\ interrupted \subseteq TurnIds /\ commits \in [Branches -> SUBSET TurnIds]
         /\ prs \in [Branches -> {"open", "closed", None}]
         /\ worker.at # "polling" =>
              /\ worker.turn \in 1 .. Len(turns) /\ worker.turn \in TurnIds
              /\ Current \in Turn
  BY TypesFacts DEF Sound, Types, TypeOK, Workers, WorkerSound, Current

\* The phases that nobody else sees.
LEMMA UnseenSteps ==
  ASSUME Sound,
         \/ \E target \in Branches \union {None} : Resolve(target)
         \/ \E changed \in BOOLEAN : Work(changed) \/ Repair(changed)
         \/ \E success \in BOOLEAN : Validate(success)
         \/ Report \/ Abort \/ CleanUp
         \/ \E removed \in BOOLEAN : Stop(removed)
  PROVE  Sound' /\ Step
<1>0. /\ WorkerSound(worker, turns, commits, prs) /\ Verified(worker, turns)
      /\ WorktreesSound(worker, worktrees, interrupted)
      /\ worker \in Workers /\ worktrees \in [TurnIds -> Branches \union {None}]
      /\ interrupted \subseteq TurnIds
  BY WorkerFacts DEF Sound
<1>1. ASSUME NEW next \in Workers, worker' = next,
             UNCHANGED <<queue, turns, worktrees, remote, interrupted>>,
             WorkerSound(next, turns, commits, prs), Verified(next, turns),
             worker.at # "polling", next.at # "polling", next.turn = worker.turn
      PROVE  Sound' /\ Step
  <2>1. WorktreesSound(next, worktrees', interrupted')
    BY <1>0, <1>1 DEF WorktreesSound
  <2>2. QED
    BY <1>0, <1>1, <2>1, WorkerMoves
<1>2. ASSUME NEW target \in Branches \union {None}, Resolve(target)
      PROVE  Sound' /\ Step
  <2> DEFINE next == [worker EXCEPT !.at = "preparing", !.target = target]
             row == turns[worker.turn]
  <2>1. worker.at = "resolving" /\ worker' = next
        /\ UNCHANGED <<queue, turns, worktrees, remote, interrupted>>
    BY <1>2 DEF Resolve, At
  <2>2. /\ next \in Workers /\ next.at = "preparing" /\ next.target = target
        /\ next.turn = worker.turn /\ next.changed = worker.changed
    BY <1>0, <1>2 DEF Workers, Phases
  <2>3. row \in Turn /\ RowSound(turns, commits, prs, worker.turn)
    BY <2>1, WorkerFacts DEF Sound, TableSound, Current
  <2>4. /\ HandoffOf[row.message] # None => target = External(HandoffOf[row.message])
        /\ HandoffOf[row.message] = None => target \in {None, row.continuation}
        /\ target # None => prs[target] # None
    <3>1. CASE Handoff /\ target = External(HandoffOf[Current.message]) /\ prs[target] = "open"
      BY <3>1, WorkerAssumption DEF Handoff, Current
    <3>2. CASE /\ ~Handoff /\ Current.continuation # None
               /\ target = Current.continuation /\ prs[Current.continuation_pr] = "open"
      BY <3>2, <2>3, WorkerAssumption DEF Handoff, Current, RowSound
    <3>3. CASE ~Handoff /\ target = None
      BY <3>3 DEF Handoff, Current
    <3>4. QED
      BY <1>2, <3>1, <3>2, <3>3 DEF Resolve
  <2> HIDE DEF next
  <2>5. WorkerSound(next, turns, commits, prs)
    BY <1>0, <2>1, <2>2, <2>4 DEF WorkerSound, Targeted, BeforeThePush
  <2>6. Verified(next, turns)
    BY <2>2 DEF Verified
  <2>7. QED
    BY <1>1, <2>1, <2>2, <2>5, <2>6
<1>3. ASSUME NEW changed \in BOOLEAN, Work(changed)
      PROVE  Sound' /\ Step
  <2> DEFINE at == IF Handoff \/ changed THEN "validating" ELSE "recording"
             next == [worker EXCEPT !.changed = changed, !.at = at]
  <2>1. worker.at = "working" /\ worker' = next
        /\ UNCHANGED <<queue, turns, worktrees, remote, interrupted>>
    BY <1>3 DEF Work, At
  <2>2. at \in {"validating", "recording"} /\ (at = "recording" => ~Handoff /\ ~changed)
    OBVIOUS
  <2> HIDE DEF at
  <2>3. /\ next \in Workers /\ next.at = at /\ next.target = worker.target
        /\ next.turn = worker.turn /\ next.changed = changed
    BY <1>0, <2>2 DEF Workers, Phases
  <2> HIDE DEF next
  <2>4. WorkerSound(next, turns, commits, prs)
    BY <1>0, <2>1, <2>2, <2>3 DEF WorkerSound, Targeted, BeforeThePush, BranchOf
  <2>5. Verified(next, turns)
    BY <2>2, <2>3 DEF Verified, Handoff, Current
  <2>6. QED
    BY <1>1, <2>1, <2>2, <2>3, <2>4, <2>5
<1>4. ASSUME NEW changed \in BOOLEAN, Repair(changed)
      PROVE  Sound' /\ Step
  <2> DEFINE next == [worker EXCEPT !.repairs = @ + 1, !.verified = FALSE, !.changed = changed,
                        !.at = "validating"]
  <2>1. worker.at = "repairing" /\ worker' = next
        /\ UNCHANGED <<queue, turns, worktrees, remote, interrupted>>
    BY <1>4 DEF Repair, At
  <2>2. worker.repairs + 1 \in 0 .. MaxRepairs
    BY <1>0, <2>1, WorkerAssumption DEF WorkerSound, Workers
  <2>3. /\ next \in Workers /\ next.at = "validating" /\ next.target = worker.target
        /\ next.turn = worker.turn
    BY <1>0, <2>2 DEF Workers, Phases
  <2> HIDE DEF next
  <2>4. WorkerSound(next, turns, commits, prs)
    BY <1>0, <2>1, <2>3 DEF WorkerSound, Targeted, BeforeThePush, BranchOf
  <2>5. Verified(next, turns)
    BY <2>3 DEF Verified
  <2>6. QED
    BY <1>1, <2>1, <2>3, <2>4, <2>5
<1>5. ASSUME NEW success \in BOOLEAN, Validate(success)
      PROVE  Sound' /\ Step
  <2> DEFINE at == IF success THEN AfterValidation
                   ELSE IF worker.repairs < MaxRepairs THEN "repairing"
                   ELSE IF RequireTests THEN "failing"
                   ELSE AfterValidation
             next == [worker EXCEPT !.verified = success, !.at = at]
  <2>1. worker.at = "validating" /\ worker' = next
        /\ UNCHANGED <<queue, turns, worktrees, remote, interrupted>>
    BY <1>5 DEF Validate, At
  <2>2. /\ at \in {"pushing", "recording", "repairing", "failing"}
        /\ at = "pushing" => worker.changed = TRUE
        /\ at = "recording" => worker.changed = FALSE
        /\ at = "repairing" => worker.repairs < MaxRepairs
        /\ at \in {"pushing", "recording"} /\ RequireTests => success = TRUE
    BY <1>0, WorkerAssumption DEF AfterValidation, Workers
  <2> HIDE DEF at
  <2>3. /\ next \in Workers /\ next.at = at /\ next.target = worker.target
        /\ next.turn = worker.turn /\ next.changed = worker.changed
        /\ next.repairs = worker.repairs /\ next.verified = success
    BY <1>0, <2>2 DEF Workers, Phases
  <2> HIDE DEF next
  <2>4. WorkerSound(next, turns, commits, prs)
    BY <1>0, <2>1, <2>2, <2>3 DEF WorkerSound, Targeted, BeforeThePush, BranchOf
  <2>5. Verified(next, turns)
    BY <2>2, <2>3 DEF Verified
  <2>6. QED
    BY <1>1, <2>1, <2>2, <2>3, <2>4, <2>5
<1>6. ASSUME NEW at \in {"cleaning", "failing"}, GoOn(at), worker.at # "polling",
             at = "failing" => worker.at \in Trying
      PROVE  Sound' /\ Step
  <2> DEFINE next == [worker EXCEPT !.at = at]
  <2>1. worker' = next /\ UNCHANGED <<queue, turns, worktrees, remote, interrupted>>
    BY <1>6 DEF GoOn
  <2>2. next \in Workers /\ next.at = at /\ next.turn = worker.turn
    BY <1>0 DEF Workers, Phases
  <2> HIDE DEF next
  <2>3. at = "failing" => turns[worker.turn].status \in {"running", "succeeded"}
    BY <1>0, <1>6 DEF WorkerSound, Trying, Phases, Targeted
  <2>4. WorkerSound(next, turns, commits, prs)
    BY <1>0, <1>6, <2>2, <2>3 DEF WorkerSound, Targeted, BeforeThePush
  <2>5. Verified(next, turns)
    BY <2>2 DEF Verified
  <2>6. QED
    BY <1>1, <1>6, <2>1, <2>2, <2>4, <2>5
\* Back to polling: the worktree is gone, or its turn was interrupted.
<1>7. ASSUME worker' = Polling, worker.at # "polling", UNCHANGED <<queue, turns, remote>>,
             NEW trees, worktrees' = [worktrees EXCEPT ![worker.turn] = trees],
             trees \in {None, worktrees[worker.turn]},
             \/ trees = None /\ UNCHANGED interrupted
             \/ interrupted' = interrupted \union {worker.turn}
      PROVE  Sound' /\ Step
  <2>1. worker.turn \in TurnIds
    BY <1>7, WorkerFacts
  <2>2. /\ worktrees' \in [TurnIds -> Branches \union {None}] /\ interrupted' \subseteq TurnIds
        /\ \A i \in TurnIds : worktrees'[i] = IF i = worker.turn THEN trees ELSE worktrees[i]
    BY <1>0, <1>7, <2>1
  <2>3. WorktreesSound(Polling, worktrees', interrupted')
    BY <1>0, <1>7, <2>1, <2>2, PollingType DEF WorktreesSound
  <2>4. QED
    BY <1>7, <2>2, <2>3, PollingType, WorkerMoves
<1>8. CASE Report
  BY <1>6, <1>8 DEF Report, At
<1>9. CASE Abort
  BY <1>6, <1>9 DEF Abort, Trying
<1>10. CASE CleanUp
  BY <1>7, <1>10 DEF CleanUp, At
<1>11. ASSUME NEW removed \in BOOLEAN, Stop(removed)
       PROVE  Sound' /\ Step
  <2> DEFINE trees == IF removed THEN None ELSE worktrees[worker.turn]
  <2>1. worktrees' = [worktrees EXCEPT ![worker.turn] = trees]
    BY <1>11 DEF Stop
  <2>2. QED
    BY <1>7, <1>11, <2>1 DEF Stop, At
<1>12. QED
  BY <1>2, <1>3, <1>4, <1>5, <1>8, <1>9, <1>10, <1>11

-----------------------------------------------------------------------------
(* The phases that others see.                                             *)

LEMMA InAfter ==
  ASSUME Types, NEW i \in 1 .. Len(turns), NEW row \in Turn,
         turns' = [turns EXCEPT ![i] = row]
  PROVE  \A status : In(status)' = IF row.status = status THEN In(status) \union {i}
                                   ELSE In(status) \ {i}
  BY RowStep, TypesFacts DEF In

\* A row changes, and the worker goes on.
LEMMA RowTypes ==
  ASSUME Sound, NEW i \in 1 .. Len(turns), NEW row \in Turn,
         turns' = [turns EXCEPT ![i] = row], worker' \in Workers,
         UNCHANGED <<queue, remote, interrupted>>,
         worktrees' \in [TurnIds -> Branches \union {None}]
  PROVE  Types'
  BY RowStep DEF Sound, Types, TypeOK, QueueTypeOK, queue, remote, Workers

LEMMA PrepareStep ==
  ASSUME Sound, Prepare
  PROVE  Sound' /\ Step
<1> DEFINE w == worker.turn
           row == [turns[w] EXCEPT !.branch = Branch]
           next == [worker EXCEPT !.at = "working"]
<1>1. /\ worker.at = "preparing" /\ worker' = next
      /\ worktrees' = [worktrees EXCEPT ![w] = Branch]
      /\ turns' = [turns EXCEPT ![w] = row]
      /\ UNCHANGED <<queue, remote, interrupted>>
  BY DEF Prepare, At
<1>2. /\ w \in 1 .. Len(turns) /\ w \in TurnIds /\ turns[w] \in Turn /\ worker \in Workers
      /\ worktrees \in [TurnIds -> Branches \union {None}]
      /\ Branch = BranchOf(worker) /\ Branch \in Branches
  BY <1>1, WorkerFacts, BranchType DEF Current, Branch, BranchOf
<1>3. /\ row \in Turn /\ row.branch = Branch /\ row.status = turns[w].status
      /\ row.message = turns[w].message /\ row.continuation = turns[w].continuation
      /\ row.continuation_pr = turns[w].continuation_pr /\ row.pr = turns[w].pr
  BY <1>2 DEF Turn
<1>4. turns[w].status = "running"
  BY <1>1 DEF Sound, WorkerSound, Targeted
<1>5. /\ next \in Workers /\ next.at = "working" /\ next.turn = w
      /\ next.target = worker.target
  BY <1>2 DEF Workers, Phases
<1> HIDE DEF row, next
<1>6. worktrees' \in [TurnIds -> Branches \union {None}]
  BY <1>1, <1>2
<1>7. Types'
  BY <1>1, <1>2, <1>3, <1>5, <1>6, RowTypes
<1>8. /\ TableSound(turns', commits, prs)
      /\ \A j \in 1 .. Len(turns) : turns'[j] = IF j = w THEN row ELSE turns[j]
      /\ Len(turns') = Len(turns)
  BY <1>1, <1>2, <1>3, <1>4, RowChanges, RowStep DEF Sound, Over
<1>9. WorkerSound(next, turns', commits, prs)
  BY <1>1, <1>2, <1>3, <1>4, <1>5, <1>8 DEF Sound, WorkerSound, Targeted, BeforeThePush, BranchOf
<1>10. WorktreesSound(next, worktrees', interrupted) /\ Verified(next, turns')
  BY <1>1, <1>2, <1>5 DEF Sound, WorktreesSound, Verified
<1>11. \A status : In(status)' = In(status)
  BY <1>1, <1>2, <1>3, InAfter DEF Sound, In
<1>12. UNCHANGED Queue!vars
  BY <1>1, <1>11 DEF Queue!vars, remote
<1>13. QED
  BY <1>1, <1>7, <1>8, <1>9, <1>10, <1>12 DEF Sound, Step, remote

LEMMA PushStep ==
  ASSUME Sound, Push
  PROVE  Sound' /\ Step
<1> DEFINE w == worker.turn
           at == IF worker.target = None THEN "opening" ELSE "recording"
           next == [worker EXCEPT !.at = at]
<1>1. /\ worker.at = "pushing" /\ worker' = next
      /\ commits' = [commits EXCEPT ![Branch] = @ \union {w}]
      /\ UNCHANGED <<queue, turns, worktrees, prs, interrupted>>
  BY DEF Push, At
<1>2. /\ w \in 1 .. Len(turns) /\ w \in TurnIds /\ turns[w] \in Turn /\ worker \in Workers
      /\ commits \in [Branches -> SUBSET TurnIds]
      /\ Branch = BranchOf(worker) /\ Branch \in Branches
  BY <1>1, WorkerFacts, BranchType DEF Current, Branch, BranchOf
<1>3. /\ WorkerSound(worker, turns, commits, prs) /\ TableSound(turns, commits, prs)
      /\ turns[w].status = "running"
  BY <1>1 DEF Sound, WorkerSound, Targeted
<1>4. /\ at \in {"opening", "recording"} /\ (at = "opening" <=> worker.target = None)
  OBVIOUS
<1> HIDE DEF at
<1>5. /\ next \in Workers /\ next.at = at /\ next.turn = w /\ next.target = worker.target
      /\ next.changed = worker.changed /\ next.verified = worker.verified
  BY <1>2, <1>4 DEF Workers, Phases
<1> HIDE DEF next
<1>6. /\ commits' \in [Branches -> SUBSET TurnIds]
      /\ \A b \in Branches : commits'[b] = IF b = Branch THEN commits[b] \union {w} ELSE commits[b]
  BY <1>1, <1>2
<1>7. Types'
  BY <1>1, <1>5, <1>6 DEF Sound, Types, TypeOK, QueueTypeOK, queue, Workers
<1>8. Theirs(turns, w, Branch)
  <2>1. CASE HandoffOf[turns[w].message] # None
    BY <1>1, <1>2, <1>3, <2>1, QueueAssumption, BranchType
       DEF WorkerSound, Targeted, BranchOf, Theirs, Turn
  <2>2. CASE HandoffOf[turns[w].message] = None /\ worker.target # None
    BY <1>1, <1>2, <1>3, <2>2
       DEF WorkerSound, Targeted, BranchOf, Theirs, TableSound, RowSound
  <2>3. CASE HandoffOf[turns[w].message] = None /\ worker.target = None
    BY <1>2, <2>3 DEF BranchOf, Theirs
  <2>4. QED
    BY <2>1, <2>2, <2>3
<1>9. TableSound(turns, commits', prs)
  BY <1>2, <1>3, <1>6, <1>8 DEF TableSound, RowSound
<1>10. WorkerSound(next, turns, commits', prs)
  <2>1. \A b \in Branches : w \notin commits[b]
    BY <1>1, <1>3 DEF WorkerSound, BeforeThePush
  <2>2. worker.changed = TRUE
    BY <1>1, <1>3 DEF WorkerSound
  <2>3. \A b \in Branches : w \in commits'[b] => b = BranchOf(next) /\ next.changed = TRUE
    BY <1>2, <1>5, <1>6, <2>1, <2>2 DEF BranchOf
  <2>4. QED
    BY <1>1, <1>3, <1>4, <1>5, <2>2, <2>3 DEF WorkerSound, Targeted, BeforeThePush, BranchOf
<1>11. Verified(next, turns)
  BY <1>1, <1>4, <1>5 DEF Sound, Verified
<1>12. WorktreesSound(next, worktrees, interrupted)
  BY <1>1, <1>4, <1>5 DEF Sound, WorktreesSound
<1>13. ASSUME NEW i \in TurnIds, i = w
       PROVE  Queue!Publish(i)
  <2>1. i \in In("running")
    BY <1>2, <1>3, <1>13, TypesFacts DEF Sound, In
  <2>2. UNION {commits'[b] : b \in Branches} =
          (UNION {commits[b] : b \in Branches}) \union {i}
    <3>1. \A j : j \in UNION {commits'[b] : b \in Branches} <=> \E b \in Branches : j \in commits'[b]
      OBVIOUS
    <3>2. \A j : j \in UNION {commits[b] : b \in Branches} <=> \E b \in Branches : j \in commits[b]
      OBVIOUS
    <3>3. \A j : (\E b \in Branches : j \in commits'[b]) <=>
                (\E b \in Branches : j \in commits[b]) \/ j = i
      BY <1>2, <1>6, <1>13
    <3>4. QED
      BY <3>1, <3>2, <3>3
  <2>3. \A status : In(status)' = In(status)
    BY <1>1 DEF In
  <2>4. QED
    BY <2>1, <2>2, <2>3 DEF Queue!Publish
<1>14. Step
  BY <1>2, <1>13 DEF Step, Queue!Next
<1>15. QED
  BY <1>1, <1>7, <1>9, <1>10, <1>11, <1>12, <1>14 DEF Sound

\* A pull request never goes away.
LEMMA RequestsStay ==
  ASSUME Sound, NEW ps, \A b \in Branches : prs[b] # None => ps[b] # None
  PROVE  TableSound(turns, commits, ps) /\ WorkerSound(worker, turns, commits, ps)
<1>1. \A i \in 1 .. Len(turns) : turns[i].pr \in Branches \union {None}
  BY TypesFacts DEF Sound, Turn
<1>2. TableSound(turns, commits, ps)
  BY <1>1 DEF Sound, TableSound, RowSound
<1>3. WorkerSound(worker, turns, commits, ps)
  BY WorkerFacts, BranchType DEF Sound, WorkerSound, Workers
<1>4. QED
  BY <1>2, <1>3

LEMMA OpenStep ==
  ASSUME Sound, NEW answered \in BOOLEAN, OpenPullRequest(answered)
  PROVE  Sound' /\ Step
<1> DEFINE w == worker.turn
           at == IF answered THEN "recording" ELSE "failing"
           next == [worker EXCEPT !.at = at]
<1>1. /\ worker.at = "opening" /\ worker' = next
      /\ prs' = [prs EXCEPT ![Branch] = "open"]
      /\ UNCHANGED <<queue, turns, worktrees, commits, interrupted>>
  BY DEF OpenPullRequest, At
<1>2. /\ w \in 1 .. Len(turns) /\ w \in TurnIds /\ worker \in Workers
      /\ prs \in [Branches -> {"open", "closed", None}]
      /\ Branch = BranchOf(worker) /\ Branch \in Branches
  BY <1>1, WorkerFacts, BranchType DEF Branch, BranchOf
<1>3. /\ worker.target = None /\ worker.changed = TRUE /\ turns[w].status = "running"
  BY <1>1 DEF Sound, WorkerSound, Targeted
<1>4. at \in {"recording", "failing"}
  OBVIOUS
<1> HIDE DEF at
<1>5. /\ next \in Workers /\ next.at = at /\ next.turn = w /\ next.target = None
      /\ next.changed = worker.changed /\ next.verified = worker.verified
  BY <1>2, <1>3, <1>4 DEF Workers, Phases
<1> HIDE DEF next
<1>6. /\ prs' \in [Branches -> {"open", "closed", None}]
      /\ prs'[Own(w)] # None /\ \A b \in Branches : prs[b] # None => prs'[b] # None
  BY <1>1, <1>2, <1>3, WorkerAssumption DEF BranchOf
<1>7. Types'
  BY <1>1, <1>5, <1>6 DEF Sound, Types, TypeOK, QueueTypeOK, queue, Workers
<1>8. TableSound(turns, commits, prs') /\ WorkerSound(worker, turns, commits, prs')
  BY <1>6, RequestsStay
<1>9. WorkerSound(next, turns, commits, prs')
  BY <1>1, <1>3, <1>4, <1>5, <1>6, <1>8 DEF WorkerSound, Targeted, BeforeThePush, BranchOf
<1>10. Verified(next, turns) /\ WorktreesSound(next, worktrees, interrupted)
  BY <1>1, <1>4, <1>5 DEF Sound, Verified, WorktreesSound
<1>11. QED
  BY <1>1, <1>7, <1>8, <1>9, <1>10, NotSeen DEF Sound, Step

LEMMA CloseStep ==
  ASSUME Sound, NEW b \in Branches, Close(b)
  PROVE  Sound' /\ Step
<1>1. /\ prs' = [prs EXCEPT ![b] = "closed"]
      /\ UNCHANGED <<queue, turns, worker, worktrees, commits, interrupted>>
  BY DEF Close
<1>2. /\ prs' \in [Branches -> {"open", "closed", None}]
      /\ \A c \in Branches : prs[c] # None => prs'[c] # None
  BY <1>1, WorkerFacts, WorkerAssumption
<1>3. Types'
  BY <1>1, <1>2 DEF Sound, Types, TypeOK, QueueTypeOK, queue
<1>4. QED
  BY <1>1, <1>2, <1>3, RequestsStay, NotSeen DEF Sound, Step, Verified, WorktreesSound

-----------------------------------------------------------------------------
(* The status of a turn.                                                   *)

\* To those who see the status only, a row that changes it.
LEMMA StatusSeen ==
  ASSUME Sound, NEW i \in 1 .. Len(turns), NEW row \in Turn,
         turns' = [turns EXCEPT ![i] = row], UNCHANGED commits,
         \/ turns[i].status = "pending" /\ row.status = "cancelled"
         \/ /\ turns[i].status = "pending" /\ row.status = "running"
            /\ \A j \in In("pending") : i <= j
         \/ turns[i].status = "running" /\ row.status \in Over
         \/ turns[i].status = "succeeded" /\ row.status = "failed"
  PROVE  Step
<1>1. \A status :
        /\ row.status = status => In(status)' = In(status) \union {i}
        /\ row.status # status /\ turns[i].status = status => In(status)' = In(status) \ {i}
        /\ row.status # status /\ turns[i].status # status => In(status)' = In(status)
  <2>1. \A status : In(status)' = IF row.status = status THEN In(status) \union {i}
                                  ELSE In(status) \ {i}
    BY InAfter DEF Sound
  <2>2. \A status : turns[i].status # status => In(status) \ {i} = In(status)
    BY DEF In
  <2>3. QED
    BY <2>1, <2>2
<1>2. /\ i \in TurnIds
      /\ \A status : i \in In(status) <=> turns[i].status = status
      /\ UNCHANGED (UNION {commits[b] : b \in Branches})
  BY TypesFacts DEF Sound, In
<1>3. CASE turns[i].status = "pending" /\ row.status = "cancelled"
  <2>1. /\ In("pending")' = In("pending") \ {i} /\ In("cancelled")' = In("cancelled") \union {i}
        /\ UNCHANGED <<In("running"), In("succeeded"), In("failed")>>
    BY <1>1, <1>3
  <2>2. Queue!Withdraw(i)
    BY <1>2, <1>3, <2>1 DEF Queue!Withdraw
  <2>3. QED
    BY <1>2, <2>2 DEF Step, Queue!Next
<1>4. CASE /\ turns[i].status = "pending" /\ row.status = "running"
           /\ \A j \in In("pending") : i <= j
  <2>1. /\ In("pending")' = In("pending") \ {i} /\ In("running")' = In("running") \union {i}
        /\ UNCHANGED <<In("cancelled"), In("succeeded"), In("failed")>>
    BY <1>1, <1>4
  <2>2. Queue!Take(i)
    BY <1>2, <1>4, <2>1 DEF Queue!Take
  <2>3. QED
    BY <1>2, <2>2 DEF Step, Queue!Next
<1>5. CASE turns[i].status = "running" /\ row.status \in Over
  <2>1. /\ In("running")' = In("running") \ {i}
        /\ In("succeeded")' \union In("failed")' = In("succeeded") \union In("failed") \union {i}
        /\ In("pending")' = In("pending") /\ In("cancelled")' = In("cancelled")
    <3>1. CASE row.status = "succeeded"
      BY <1>1, <1>5, <3>1
    <3>2. CASE row.status = "failed"
      BY <1>1, <1>5, <3>2
    <3>3. QED
      BY <1>5, <3>1, <3>2 DEF Over
  <2>2. Queue!End(i)
    BY <1>2, <1>5, <2>1 DEF Queue!End
  <2>3. QED
    BY <1>2, <2>2 DEF Step, Queue!Next
<1>6. CASE turns[i].status = "succeeded" /\ row.status = "failed"
  <2>1. /\ In("running")' = In("running")
        /\ In("succeeded")' \union In("failed")' = In("succeeded") \union In("failed")
        /\ In("pending")' = In("pending") /\ In("cancelled")' = In("cancelled")
    <3>1. /\ In("failed")' = In("failed") \union {i}
          /\ In("succeeded")' = In("succeeded") \ {i} /\ i \in In("succeeded")
      BY <1>1, <1>2, <1>6
    <3>2. In("running")' = In("running") /\ In("pending")' = In("pending")
          /\ In("cancelled")' = In("cancelled")
      BY <1>1, <1>6
    <3>3. QED
      BY <3>1, <3>2
  <2>2. UNCHANGED Queue!vars
    BY <1>2, <2>1 DEF Queue!vars
  <2>3. QED
    BY <2>2 DEF Step
<1>7. QED
  BY <1>3, <1>4, <1>5, <1>6

LEMMA ClaimStep ==
  ASSUME Sound, NEW i \in DOMAIN turns, Claim(i)
  PROVE  Sound' /\ Step
<1> DEFINE row == [turns[i] EXCEPT !.status = "running"]
           next == [Polling EXCEPT !.at = "resolving", !.turn = i]
<1>1. /\ worker.at = "polling" /\ worker' = next /\ turns[i].status = "pending"
      /\ \A j \in In("pending") : i <= j
      /\ turns' = [turns EXCEPT ![i] = row]
      /\ UNCHANGED <<queue, worktrees, remote, interrupted>>
  BY DEF Claim, At, In
<1>2. i \in 1 .. Len(turns) /\ i \in TurnIds /\ turns[i] \in Turn
  BY TypesFacts DEF Sound
<1>3. /\ row \in Turn /\ row.branch = turns[i].branch /\ row.status = "running"
      /\ row.message = turns[i].message /\ row.continuation = turns[i].continuation
      /\ row.continuation_pr = turns[i].continuation_pr /\ row.pr = turns[i].pr
  BY <1>2 DEF Turn
<1>4. next \in Workers /\ next.at = "resolving" /\ next.turn = i
  BY <1>2, PollingType DEF Workers, Phases
<1> HIDE DEF row, next
<1>5. Types'
  BY <1>1, <1>2, <1>3, <1>4, RowTypes, WorkerFacts
<1>6. /\ TableSound(turns', commits, prs) /\ Len(turns') = Len(turns)
      /\ turns'[i] = row
  BY <1>1, <1>2, <1>3, RowChanges, RowStep DEF Sound, Over
<1>7. \A b \in Branches : i \notin commits[b]
  BY <1>1 DEF Sound, TableSound
<1>8. WorkerSound(next, turns', commits, prs)
  BY <1>2, <1>3, <1>4, <1>6, <1>7 DEF WorkerSound, Targeted
<1>9. WorktreesSound(next, worktrees, interrupted) /\ Verified(next, turns')
  BY <1>1, <1>4 DEF Sound, WorktreesSound, Verified
<1>10. Step
  BY <1>1, <1>2, <1>3, StatusSeen DEF remote
<1>11. QED
  BY <1>1, <1>5, <1>6, <1>8, <1>9, <1>10 DEF Sound, remote

\* The turn is over, as a success or as a failure.
LEMMA MarkStep ==
  ASSUME Sound, MarkSucceeded \/ MarkFailed
  PROVE  Sound' /\ Step
<1> DEFINE w == worker.turn
<1>1. ASSUME NEW row \in Turn, NEW at \in {"reporting", "cleaning"}, worker.at # "polling",
             worker' = [worker EXCEPT !.at = at], turns' = [turns EXCEPT ![w] = row],
             UNCHANGED <<queue, worktrees, remote, interrupted>>,
             row.message = turns[w].message, row.continuation = turns[w].continuation,
             row.continuation_pr = turns[w].continuation_pr, row.branch = turns[w].branch,
             \/ turns[w].status = "running" /\ row.status \in Over
             \/ turns[w].status = "succeeded" /\ row.status = "failed",
             at = "reporting" => row.status = "succeeded",
             row.status = "succeeded" =>
               /\ row.pr # None => prs[row.pr] # None
               /\ \A b \in Branches : w \in commits[b] => row.pr = b
               /\ row.pr # None /\ row.branch # None => row.pr = row.branch
      PROVE  Sound' /\ Step
  <2> DEFINE next == [worker EXCEPT !.at = at]
  <2>1. w \in 1 .. Len(turns) /\ w \in TurnIds /\ worker \in Workers
    BY <1>1, WorkerFacts
  <2>2. next \in Workers /\ next.at = at /\ next.turn = w /\ worker' = next
    BY <1>1, <2>1 DEF Workers, Phases
  <2> HIDE DEF next
  <2>3. Types'
    BY <1>1, <2>1, <2>2, RowTypes, WorkerFacts
  <2>4. TableSound(turns', commits, prs) /\ Len(turns') = Len(turns) /\ turns'[w] = row
    <3>1. Types /\ TableSound(turns, commits, prs)
      BY DEF Sound
    <3>2. TableSound(turns', commits, prs)
      BY <1>1, <2>1, <3>1, RowChanges DEF Over
    <3>3. Len(turns') = Len(turns) /\ turns'[w] = row
      BY <1>1, <2>1, <3>1, RowStep
    <3>4. QED
      BY <3>2, <3>3
  <2>5. WorkerSound(next, turns', commits, prs)
    BY <1>1, <2>1, <2>2, <2>4 DEF WorkerSound, Targeted, BeforeThePush
  <2>6. WorktreesSound(next, worktrees, interrupted) /\ Verified(next, turns')
    BY <1>1, <2>2 DEF Sound, WorktreesSound, Verified
  <2>7. Step
    BY <1>1, <2>1, StatusSeen DEF remote
  <2>8. QED
    BY <1>1, <2>2, <2>3, <2>4, <2>5, <2>6, <2>7 DEF Sound, remote
<1>2. CASE MarkSucceeded
  <2> DEFINE row == [turns[w] EXCEPT !.status = "succeeded", !.pr = Result]
  <2>1. /\ worker.at = "recording" /\ worker' = [worker EXCEPT !.at = "reporting"]
        /\ turns' = [turns EXCEPT ![w].status = "succeeded", ![w].pr = Result]
        /\ UNCHANGED <<queue, worktrees, remote, interrupted>>
    BY <1>2 DEF MarkSucceeded, At
  <2>2. w \in 1 .. Len(turns) /\ w \in TurnIds /\ worker \in Workers /\ turns[w] \in Turn
    BY <2>1, WorkerFacts DEF Current
  <2>3. turns' = [turns EXCEPT ![w] = row]
    BY <2>1, <2>2, TypesFacts DEF Sound
  <2>4. Result \in Branches \union {None}
    BY <2>2, BranchType DEF Result, Workers
  <2>5. /\ row \in Turn /\ row.branch = turns[w].branch /\ row.status = "succeeded"
        /\ row.message = turns[w].message /\ row.continuation = turns[w].continuation
        /\ row.continuation_pr = turns[w].continuation_pr /\ row.pr = Result
    BY <2>2, <2>4 DEF Turn
  <2> HIDE DEF row
  <2>6. /\ turns[w].status = "running" /\ turns[w].branch = BranchOf(worker)
        /\ Result # None => prs[Result] # None
        /\ \A b \in Branches : w \in commits[b] => Result = b
        /\ Result # None => Result = BranchOf(worker)
    BY <2>1, <2>2 DEF Sound, WorkerSound, Targeted, Result, BranchOf, Workers
  <2>7. QED
    BY <1>1, <2>1, <2>3, <2>5, <2>6 DEF Over
<1>3. CASE MarkFailed
  <2> DEFINE row == [turns[w] EXCEPT !.status = "failed"]
  <2>1. /\ worker.at = "failing" /\ worker' = [worker EXCEPT !.at = "cleaning"]
        /\ turns' = [turns EXCEPT ![w] = row]
        /\ UNCHANGED <<queue, worktrees, remote, interrupted>>
    BY <1>3 DEF MarkFailed, At
  <2>2. turns[w] \in Turn /\ turns[w].status \in {"running", "succeeded"}
    BY <2>1, WorkerFacts DEF Sound, WorkerSound, Current
  <2>3. /\ row \in Turn /\ row.branch = turns[w].branch /\ row.status = "failed"
        /\ row.message = turns[w].message /\ row.continuation = turns[w].continuation
        /\ row.continuation_pr = turns[w].continuation_pr
    BY <2>2 DEF Turn
  <2> HIDE DEF row
  <2>4. QED
    BY <1>1, <2>1, <2>2, <2>3 DEF Over
<1>4. QED
  BY <1>2, <1>3

-----------------------------------------------------------------------------
(* The Slack process.                                                      *)

AppKeeps == UNCHANGED <<worker, worktrees, remote, interrupted>>

\* A turn that continues a pull request continues that of an earlier turn of its
\* thread.
LEMMA NewTurnSound ==
  ASSUME Sound, NEW m \in Messages
  PROVE  /\ NewTurn(m) \in Turn /\ NewTurn(m).message = m /\ NewTurn(m).status = "pending"
         /\ NewTurn(m).continuation # None =>
              /\ NewTurn(m).continuation_pr = NewTurn(m).continuation
              /\ \E j \in 1 .. Len(turns) :
                   /\ ThreadOf[turns[j].message] = ThreadOf[m]
                   /\ turns[j].branch = NewTurn(m).continuation /\ turns[j].status \in Over
<1> DEFINE continues == HandoffOf[m] = None /\ Published(m) # {}
           last == turns[Max(Published(m))]
<1>1. CASE continues
  <2>1. Published(m) \subseteq 1 .. Len(turns) /\ Len(turns) \in Nat
    BY TypesFacts DEF Sound, Published, In
  <2>2. Max(Published(m)) \in Published(m)
    BY <1>1, <2>1, LatestExists
  <2>3. PICK j \in 1 .. Len(turns) : j = Max(Published(m)) /\ j \in Published(m)
    BY <2>1, <2>2
  <2>4. /\ turns[j] \in Turn /\ turns[j].status = "succeeded"
        /\ ThreadOf[turns[j].message] = ThreadOf[m]
        /\ turns[j].branch # None /\ turns[j].pr # None
    BY <2>3, TypesFacts DEF Sound, Published, In
  <2>5. turns[j].pr = turns[j].branch
    BY <2>4 DEF Sound, TableSound, RowSound
  <2>6. NewTurn(m) =
          [message |-> m, status |-> "pending", branch |-> None, pr |-> None,
           continuation |-> turns[j].branch, continuation_pr |-> turns[j].pr]
    BY <1>1, <2>3 DEF NewTurn
  <2>7. turns[j].branch \in Branches /\ turns[j].pr \in Branches
    BY <2>4 DEF Turn
  <2>8. NewTurn(m) \in Turn
    BY <2>6, <2>7 DEF Turn
  <2>9. QED
    BY <2>4, <2>5, <2>6, <2>8 DEF Over
<1>2. CASE ~ continues
  <2>1. NewTurn(m) =
          [message |-> m, status |-> "pending", branch |-> None, pr |-> None,
           continuation |-> None, continuation_pr |-> None]
    BY <1>2 DEF NewTurn
  <2>2. QED
    BY <2>1 DEF Turn
<1>3. QED
  BY <1>1, <1>2

LEMMA EnqueueStep ==
  ASSUME Sound, NEW m \in Messages, Enqueue(m), AppKeeps
  PROVE  Sound' /\ Step
<1> DEFINE row == NewTurn(m)
           n == Len(turns)
<1>1. /\ handling[m] > 0 /\ n < MaxTurns
      /\ handling' = [handling EXCEPT ![m] = @ - 1]
      /\ turns' = Append(turns, row)
      /\ UNCHANGED <<seen, cancelling, restarts, worker, worktrees, commits, prs, interrupted>>
  BY DEF Enqueue, AppKeeps, remote
<1>2. /\ turns \in Seq(Turn) /\ n \in Nat /\ MaxTurns \in Nat /\ n + 1 \in TurnIds
      /\ DOMAIN turns = 1 .. n
  BY <1>1, TypesFacts DEF Sound, TurnIds
<1>3. /\ row \in Turn /\ row.message = m /\ row.status = "pending"
      /\ row.continuation # None =>
           /\ row.continuation_pr = row.continuation
           /\ \E j \in 1 .. n :
                /\ ThreadOf[turns[j].message] = ThreadOf[m]
                /\ turns[j].branch = row.continuation /\ turns[j].status \in Over
  BY NewTurnSound
<1> HIDE DEF row
<1>4. /\ turns' \in Seq(Turn) /\ Len(turns') = n + 1
      /\ \A j \in 1 .. n : turns'[j] = turns[j]
      /\ turns'[n + 1] = row
  BY <1>1, <1>2, <1>3, AppendProperties
<1>5. DOMAIN turns' = 1 .. n + 1
  BY <1>4, LenProperties
<1>6. Types'
  <2>1. handling' \in [Messages -> Nat]
    BY <1>1 DEF Sound, Types, TypeOK, QueueTypeOK
  <2>2. QED
    BY <1>1, <1>2, <1>4, <2>1 DEF Sound, Types, TypeOK, QueueTypeOK
<1>7. Kept(turns, turns')
  BY <1>2, <1>4 DEF Kept
<1>8. TableSound(turns', commits, prs)
  <2>1. ASSUME NEW b \in Branches, NEW i \in commits[b]
        PROVE  /\ i \in 1 .. Len(turns') /\ turns'[i].status \notin {"pending", "cancelled"}
               /\ Theirs(turns', i, b)
    <3>1. /\ i \in 1 .. n /\ turns[i].status \notin {"pending", "cancelled"}
          /\ Theirs(turns, i, b)
      BY <2>1 DEF Sound, TableSound
    <3>2. QED
      BY <1>2, <1>4, <1>7, <3>1, TheirsStays
  <2>2. ASSUME NEW i \in 1 .. n
        PROVE  RowSound(turns', commits, prs, i)
    <3>1. RowSound(turns, commits, prs, i)
      BY DEF Sound, TableSound
    <3>2. turns[i].continuation # None => Worked(turns', i, turns[i].continuation)
      BY <1>2, <1>7, <3>1, WorkedStays DEF RowSound
    <3>3. QED
      BY <1>4, <3>1, <3>2 DEF RowSound
  <2>3. RowSound(turns', commits, prs, n + 1)
    <3>1. row.continuation # None => Worked(turns', n + 1, row.continuation)
      BY <1>2, <1>3, <1>4 DEF Worked
    <3>2. QED
      BY <1>3, <1>4, <3>1 DEF RowSound
  <2>4. QED
    BY <1>2, <1>4, <2>1, <2>2, <2>3 DEF TableSound
<1>9. WorkerSound(worker, turns', commits, prs) /\ Verified(worker, turns')
  <2>1. worker.at # "polling" => worker.turn \in 1 .. n /\ turns'[worker.turn] = turns[worker.turn]
    BY <1>4, WorkerFacts
  <2>2. QED
    BY <1>2, <1>4, <2>1 DEF Sound, WorkerSound, Verified, Phases
<1>10. Queue!Ask(n + 1)
  <2>1. \A status : In(status)' = IF status = "pending" THEN In(status) \union {n + 1}
                                  ELSE In(status)
    BY <1>2, <1>3, <1>4, <1>5 DEF In
  <2>2. \A status : \A j \in In(status) : j < n + 1
    BY <1>2 DEF In
  <2>3. QED
    BY <1>1, <2>1, <2>2 DEF Queue!Ask
<1>11. Step
  BY <1>2, <1>10 DEF Step, Queue!Next
<1>12. QED
  BY <1>1, <1>6, <1>8, <1>9, <1>11 DEF Sound, WorktreesSound

LEMMA CancelStep ==
  ASSUME Sound, Cancel, AppKeeps
  PROVE  Sound' /\ Step
<1>1. /\ cancelling # None /\ cancelling' = None /\ MarkCancelled(cancelling)
      /\ UNCHANGED <<seen, handling, restarts, worker, worktrees, commits, prs, interrupted>>
  BY DEF Cancel, AppKeeps, remote
<1>2. CASE turns' = turns
  <2>1. Types'
    BY <1>1, <1>2 DEF Sound, Types, TypeOK, QueueTypeOK
  <2>2. QED
    BY <1>1, <1>2, <2>1, NotSeen DEF Sound, Step, WorktreesSound
<1>3. ASSUME NEW i \in 1 .. Len(turns), turns[i].status = "pending",
             turns' = [turns EXCEPT ![i].status = "cancelled"]
      PROVE  Sound' /\ Step
  <2> DEFINE row == [turns[i] EXCEPT !.status = "cancelled"]
  <2>1. turns[i] \in Turn /\ turns' = [turns EXCEPT ![i] = row]
    BY <1>3, TypesFacts DEF Sound
  <2>2. /\ row \in Turn /\ row.branch = turns[i].branch /\ row.status = "cancelled"
        /\ row.message = turns[i].message /\ row.continuation = turns[i].continuation
        /\ row.continuation_pr = turns[i].continuation_pr /\ row.pr = turns[i].pr
    BY <2>1 DEF Turn
  <2> HIDE DEF row
  <2>3. Types /\ TableSound(turns, commits, prs)
    BY DEF Sound
  <2>4. /\ turns' \in Seq(Turn) /\ Len(turns') = Len(turns)
        /\ \A j \in 1 .. Len(turns) : turns'[j] = IF j = i THEN row ELSE turns[j]
    BY <2>1, <2>2, <2>3, RowStep
  <2>5. Types'
    BY <1>1, <2>4 DEF Sound, Types, TypeOK, QueueTypeOK
  <2>6. TableSound(turns, commits, prs)'
    <3>1. TableSound(turns', commits, prs)
      BY <1>3, <2>1, <2>2, <2>3, RowChanges DEF Over
    <3>2. QED
      BY <1>1, <3>1
  <2>7. WorkerSound(worker, turns', commits, prs) /\ Verified(worker, turns')
    <3>1. /\ worker.at # "polling" => worker.turn \in 1 .. Len(turns)
          /\ worker.at \in Targeted \union {"resolving", "reporting", "failing"} => worker.turn # i
      BY <1>3, WorkerFacts DEF Sound, WorkerSound, Targeted
    <3>2. QED
      BY <1>1, <2>4, <3>1 DEF Sound, WorkerSound, Verified, Targeted, BeforeThePush
  <2>8. Step
    BY <1>1, <1>3, <2>1, <2>2, StatusSeen
  <2>9. QED
    BY <1>1, <2>5, <2>6, <2>7, <2>8 DEF Sound, WorktreesSound
<1>4. CASE turns' # turns
  <2>1. /\ turns[cancelling].status = "pending"
        /\ turns' = [turns EXCEPT ![cancelling].status = "cancelled"]
    BY <1>1, <1>4 DEF MarkCancelled
  <2>2. cancelling \in 1 .. Len(turns)
    BY <1>1 DEF Sound, Types
  <2>3. QED
    BY <1>3, <2>1, <2>2
<1>5. QED
  BY <1>2, <1>4

\* What the Slack process does besides changing the table.
LEMMA OtherAppSteps ==
  ASSUME Sound, AppKeeps,
         \/ \E m \in Messages : Deliver(m) \/ GiveUp(m)
         \/ \E i \in DOMAIN turns : ReadForCancel(i)
         \/ AppRestarts
  PROVE  Sound' /\ Step
<1>1. /\ turns \in Seq(Turn) /\ DOMAIN turns = 1 .. Len(turns) /\ DOMAIN turns \subseteq TurnIds
      /\ seen \in Seq(Messages) /\ handling \in [Messages -> Nat] /\ restarts \in 0 .. MaxRestarts
      /\ cancelling \in (1 .. Len(turns)) \union {None} /\ MaxRestarts \in Nat
      /\ UNCHANGED <<turns, worker, worktrees, commits, prs, interrupted>>
  BY TypesFacts, QueueAssumption
     DEF Sound, Types, TypeOK, QueueTypeOK, AppKeeps, remote, Deliver, GiveUp, ReadForCancel, AppRestarts
<1>2. /\ seen' \in Seq(Messages) /\ handling' \in [Messages -> Nat]
      /\ restarts' \in 0 .. MaxRestarts
      /\ cancelling' \in (1 .. Len(turns)) \union {None}
  <2>1. ASSUME NEW m \in Messages, Deliver(m)
        PROVE  <1>2
    <3> DEFINE longer == Append(seen, m)
    <3>1. longer \in Seq(Messages) /\ longer # << >>
      BY <1>1, AppendProperties
    <3>2. Tail(longer) \in Seq(Messages)
      BY <3>1, HeadTailProperties
    <3>3. seen' = IF Len(longer) > SeenLimit THEN Tail(longer) ELSE longer
      BY <2>1 DEF Deliver
    <3> HIDE DEF longer
    <3>4. seen' \in Seq(Messages)
      BY <3>1, <3>2, <3>3
    <3>5. QED
      BY <1>1, <2>1, <3>4 DEF Deliver
  <2>2. ASSUME NEW m \in Messages, GiveUp(m)
        PROVE  <1>2
    BY <1>1, <2>2 DEF GiveUp
  <2>3. ASSUME NEW i \in DOMAIN turns, ReadForCancel(i)
        PROVE  <1>2
    BY <1>1, <2>3 DEF ReadForCancel
  <2>4. CASE AppRestarts
    BY <1>1, <2>4, EmptySeq DEF AppRestarts
  <2>5. QED
    BY <2>1, <2>2, <2>3, <2>4
<1>3. Types'
  BY <1>1, <1>2 DEF Sound, Types, TypeOK, QueueTypeOK
<1>4. QED
  BY <1>1, <1>3, NotSeen DEF Sound, Step, WorktreesSound

LEMMA SoundNext == Sound /\ [Next]_vars => Sound' /\ Step
<1> SUFFICES ASSUME Sound, [Next]_vars
             PROVE  Sound' /\ Step
  OBVIOUS
<1>1. CASE App /\ AppKeeps
  BY <1>1, EnqueueStep, CancelStep, OtherAppSteps DEF App
<1>2. CASE Worker
  BY <1>2, ClaimStep, PrepareStep, PushStep, OpenStep, MarkStep, UnseenSteps DEF Worker
<1>3. ASSUME NEW removed \in BOOLEAN, Stop(removed)
      PROVE  Sound' /\ Step
  BY <1>3, UnseenSteps
<1>4. ASSUME NEW b \in Branches, Close(b)
      PROVE  Sound' /\ Step
  BY <1>4, CloseStep
<1>5. CASE UNCHANGED vars
  <2>1. UNCHANGED <<seen, handling, cancelling, restarts, turns, worker, worktrees, commits, prs,
                    interrupted>>
    BY <1>5 DEF vars, queue, remote
  <2>2. Types'
    BY <2>1 DEF Sound, Types, TypeOK, QueueTypeOK
  <2>3. QED
    BY <2>1, <2>2, NotSeen DEF Sound, Step, WorktreesSound
<1>6. QED
  BY <1>1, <1>2, <1>3, <1>4, <1>5 DEF Next, AppKeeps

\* The invariant that the theorems below are read off.
THEOREM AlwaysSound == Spec => []Sound
  BY SoundInit, SoundNext, PTL DEF Spec

-----------------------------------------------------------------------------
(* The theorems.                                                           *)

\* Both processes keep the types of the table, of the worker and of the remote.
THEOREM BuilderTypeCorrect == Spec => []TypeOK
<1>1. Sound => TypeOK
  BY DEF Sound, Types
<1>2. QED
  BY <1>1, AlwaysSound, PTL

\* With tests required, nothing is pushed, and no handoff reported as done, that
\* was not validated after its last repair, however many repairs there are.
THEOREM PublishedWasVerified == Spec => []PublishedIsVerified
<1>1. Sound => PublishedIsVerified
  BY WorkerFacts DEF Sound, Verified, PublishedIsVerified, At, Handoff, Current, Workers
<1>2. QED
  BY <1>1, AlwaysSound, PTL

\* A turn pushes to its own branch, to the pull request handed off, or to a branch
\* an earlier turn of its thread worked on.
THEOREM PushesStay == Spec => []PushesStayInTheirThread
<1>1. Sound => PushesStayInTheirThread
  BY DEF Sound, TableSound, Theirs, Worked, PushesStayInTheirThread
<1>2. QED
  BY <1>1, AlwaysSound, PTL

\* A success is recorded with the existing pull request that has what it pushed.
THEOREM SuccessNames == Spec => []SuccessNamesWhatWasPushed
<1>1. Sound => SuccessNamesWhatWasPushed
  BY TypesFacts DEF Sound, TableSound, RowSound, In, SuccessNamesWhatWasPushed
<1>2. QED
  BY <1>1, AlwaysSound, PTL

\* Only a turn the process stopped in leaves its worktree, and with it a branch
\* that cannot be checked out, behind.
THEOREM WorktreesGo == Spec => []WorktreesAreRemoved
<1>1. Sound => WorktreesAreRemoved
  BY DEF Sound, WorktreesSound, WorktreesAreRemoved
<1>2. QED
  BY <1>1, AlwaysSound, PTL

\* The table implements the queue: turns are taken up in order or withdrawn, and
\* only a turn being worked on publishes.
THEOREM ImplementsQueue == Spec => ImplementsTurnQueue
<1>1. Init => Queue!Init
  <2> SUFFICES ASSUME Init
               PROVE  Queue!Init
    OBVIOUS
  <2>1. \A status : In(status) = {}
    BY EmptySeq DEF Init, QueueInit, In
  <2>2. UNION {commits[b] : b \in Branches} = {}
    BY DEF Init
  <2>3. QED
    BY <2>1, <2>2 DEF Queue!Init
<1>2. Step => [Queue!Next]_(Queue!vars)
  BY DEF Step
<1>3. QED
  BY <1>1, <1>2, AlwaysSound, SoundNext, PTL DEF Spec, ImplementsTurnQueue, Queue!Spec

-----------------------------------------------------------------------------
(* How often a message is turned into a turn, as long as the Slack process *)
(* forgets none of them.                                                   *)

TurnsOf(m) == {i \in DOMAIN turns : turns[i].message = m}
IsSeen(m) == \E k \in DOMAIN seen : seen[k] = m

\* The turns a message has, those its handlers may still add and the one a
\* further delivery would start are no more than the runs of the process.
Budget(m) == Cardinality(TurnsOf(m)) + handling[m] + (IF IsSeen(m) THEN 0 ELSE 1)

SeenOnce == \A j, k \in DOMAIN seen : seen[j] = seen[k] => j = k

Counted == SeenOnce /\ \A m \in Messages : Budget(m) <= 1 + restarts

LEMMA TurnsAreFinite ==
  ASSUME Sound, NEW m
  PROVE  IsFiniteSet(TurnsOf(m)) /\ Cardinality(TurnsOf(m)) \in Nat
<1>1. DOMAIN turns = 1 .. Len(turns) /\ Len(turns) \in Nat
  BY TypesFacts DEF Sound
<1>2. IsFiniteSet(1 .. Len(turns))
  BY <1>1, FS_Interval
<1>3. QED
  BY <1>1, <1>2, FS_Subset, FS_CardinalityType DEF TurnsOf

\* Updating a column of a row leaves the messages of the rows.
LEMMA MessagesStay ==
  ASSUME Sound, NEW i \in DOMAIN turns,
         \/ \E status : turns' = [turns EXCEPT ![i].status = status]
         \/ \E branch : turns' = [turns EXCEPT ![i].branch = branch]
         \/ \E status, pr : turns' = [turns EXCEPT ![i].status = status, ![i].pr = pr],
         NEW m
  PROVE  TurnsOf(m)' = TurnsOf(m)
<1>1. turns[i] \in Turn
  BY TypesFacts DEF Sound
<1>2. DOMAIN turns' = DOMAIN turns
  OBVIOUS
<1>3. \A j \in DOMAIN turns : turns'[j].message = turns[j].message
  <2>1. \A j \in DOMAIN turns \ {i} : turns'[j] = turns[j]
    OBVIOUS
  <2>2. turns'[i].message = turns[i].message
    <3>1. ASSUME NEW status, turns' = [turns EXCEPT ![i].status = status]
          PROVE  turns'[i].message = turns[i].message
      BY <1>1, <3>1 DEF Turn
    <3>2. ASSUME NEW branch, turns' = [turns EXCEPT ![i].branch = branch]
          PROVE  turns'[i].message = turns[i].message
      BY <1>1, <3>2 DEF Turn
    <3>3. ASSUME NEW status, NEW pr, turns' = [turns EXCEPT ![i].status = status, ![i].pr = pr]
          PROVE  turns'[i].message = turns[i].message
      <4>1. turns'[i] = [turns[i] EXCEPT !.status = status, !.pr = pr]
        BY <3>3
      <4>2. QED
        BY <1>1, <4>1 DEF Turn
    <3>4. QED
      BY <3>1, <3>2, <3>3
  <2>3. QED
    BY <2>1, <2>2
<1>4. QED
  BY <1>2, <1>3 DEF TurnsOf

\* No step of the worker, and no closed pull request, adds a turn.
LEMMA WorkerAddsNoTurn ==
  ASSUME Sound, Worker \/ (\E removed \in BOOLEAN : Stop(removed)) \/ \E b \in Branches : Close(b),
         NEW m
  PROVE  UNCHANGED queue /\ TurnsOf(m)' = TurnsOf(m)
<1>1. ASSUME turns' = turns
      PROVE  TurnsOf(m)' = TurnsOf(m)
  BY <1>1 DEF TurnsOf
<1>2. worker.at # "polling" => worker.turn \in DOMAIN turns
  BY WorkerFacts, TypesFacts DEF Sound
<1>3. ASSUME NEW i \in DOMAIN turns, Claim(i)
      PROVE  UNCHANGED queue /\ TurnsOf(m)' = TurnsOf(m)
  BY <1>3, MessagesStay DEF Claim
<1>4. CASE Prepare \/ MarkSucceeded \/ MarkFailed
  BY <1>2, <1>4, MessagesStay DEF Prepare, MarkSucceeded, MarkFailed, At
<1>5. ASSUME \/ \E target \in Branches \union {None} : Resolve(target)
             \/ \E changed \in BOOLEAN : Work(changed) \/ Repair(changed)
             \/ \E success \in BOOLEAN : Validate(success)
             \/ Push
             \/ \E answered \in BOOLEAN : OpenPullRequest(answered)
             \/ Report
             \/ Abort
             \/ CleanUp
             \/ \E removed \in BOOLEAN : Stop(removed)
             \/ \E b \in Branches : Close(b)
      PROVE  UNCHANGED queue /\ TurnsOf(m)' = TurnsOf(m)
  BY <1>1, <1>5 DEF Resolve, Work, Repair, Validate, Push, OpenPullRequest, Report, Abort, GoOn,
     CleanUp, Stop, Close
<1>6. QED
  BY <1>3, <1>4, <1>5 DEF Worker

\* A message that is not remembered fits into the memory.
LEMMA SeenFits ==
  ASSUME Sound, SeenOnce, NoneForgotten, NEW m \in Messages, ~ IsSeen(m)
  PROVE  Len(Append(seen, m)) <= SeenLimit
<1> DEFINE longer == Append(seen, m)
           n == Len(seen)
<1>1. seen \in Seq(Messages) /\ n \in Nat /\ DOMAIN seen = 1 .. n /\ SeenLimit \in Nat
  BY LenProperties, QueueAssumption DEF Sound, Types, TypeOK, QueueTypeOK
<1>2. /\ longer \in Seq(Messages) /\ Len(longer) = n + 1
      /\ \A k \in 1 .. n : longer[k] = seen[k]
      /\ longer[n + 1] = m
  BY <1>1, AppendProperties
<1>3. longer \in [1 .. n + 1 -> Messages]
  BY <1>1, <1>2, LenProperties, ElementOfSeq
<1> HIDE DEF longer, n
<1>4. \A j, k \in 1 .. n + 1 : longer[j] = longer[k] => j = k
  <2>1. ASSUME NEW j \in 1 .. n, NEW k \in 1 .. n, longer[j] = longer[k]
        PROVE  j = k
    BY <1>1, <1>2, <2>1 DEF SeenOnce
  <2>2. \A j \in 1 .. n : longer[j] # longer[n + 1]
    BY <1>1, <1>2 DEF IsSeen
  <2>3. \A j \in 1 .. n + 1 : j \in 1 .. n \/ j = n + 1
    BY <1>1
  <2>4. QED
    BY <2>1, <2>2, <2>3
<1>5. longer \in Injection(1 .. n + 1, Messages)
  BY <1>3, <1>4 DEF Injection, IsInjective
<1>6. Cardinality(1 .. n + 1) <= Cardinality(Messages)
  BY <1>5, FS_Injection DEF NoneForgotten
<1>7. n + 1 \in Nat /\ Cardinality(1 .. n + 1) = n + 1
  BY <1>1, FS_Interval
<1>8. Cardinality(Messages) \in Nat
  BY FS_CardinalityType DEF NoneForgotten
<1>9. QED
  BY <1>1, <1>2, <1>6, <1>7, <1>8 DEF NoneForgotten, longer

LEMMA CountedApp ==
  ASSUME Sound, Counted, NoneForgotten, App
  PROVE  Counted'
<1>1. /\ seen \in Seq(Messages) /\ handling \in [Messages -> Nat] /\ restarts \in Nat
      /\ Len(seen) \in Nat /\ DOMAIN seen = 1 .. Len(seen)
      /\ \A m \in Messages : Cardinality(TurnsOf(m)) \in Nat
  BY TurnsAreFinite, LenProperties, QueueAssumption DEF Sound, Types, TypeOK, QueueTypeOK
<1>2. ASSUME NEW m \in Messages, Deliver(m)
      PROVE  Counted'
  <2>1. ~ IsSeen(m)
    BY <1>2 DEF Deliver, IsSeen
  <2>2. Len(Append(seen, m)) <= SeenLimit
    BY <2>1, SeenFits DEF Counted
  <2>3. seen' = Append(seen, m)
    <3>1. seen' = IF Len(Append(seen, m)) > SeenLimit THEN Tail(Append(seen, m)) ELSE Append(seen, m)
      BY <1>2 DEF Deliver
    <3>2. Len(Append(seen, m)) \in Nat /\ SeenLimit \in Nat
      BY <1>1, AppendProperties, LenProperties, QueueAssumption
    <3>3. QED
      BY <2>2, <3>1, <3>2
  <2>4. /\ seen' \in Seq(Messages) /\ Len(seen') = Len(seen) + 1
        /\ \A k \in 1 .. Len(seen) : seen'[k] = seen[k]
        /\ seen'[Len(seen) + 1] = m
    BY <1>1, <2>3, AppendProperties
  <2>5. DOMAIN seen' = 1 .. Len(seen) + 1
    BY <2>4, LenProperties
  <2>6. \A j \in 1 .. Len(seen) + 1 : j \in 1 .. Len(seen) \/ j = Len(seen) + 1
    BY <1>1
  <2>7. SeenOnce'
    <3> SUFFICES ASSUME NEW j \in 1 .. Len(seen) + 1, NEW k \in 1 .. Len(seen) + 1,
                        seen'[j] = seen'[k]
                 PROVE  j = k
      BY <2>5 DEF SeenOnce
    <3>1. \A i \in 1 .. Len(seen) : seen[i] # m
      BY <1>1, <2>1 DEF IsSeen
    <3>2. CASE j \in 1 .. Len(seen) /\ k \in 1 .. Len(seen)
      BY <1>1, <2>4, <3>2 DEF Counted, SeenOnce
    <3>3. CASE j = Len(seen) + 1 \/ k = Len(seen) + 1
      BY <2>4, <2>6, <3>1, <3>3
    <3>4. QED
      BY <2>6, <3>2, <3>3
  <2>8. IsSeen(m)' /\ \A k \in Messages : IsSeen(k) => IsSeen(k)'
    <3>1. IsSeen(m)'
      BY <1>1, <2>4, <2>5 DEF IsSeen
    <3>2. \A k \in Messages : IsSeen(k) => IsSeen(k)'
      BY <1>1, <2>4, <2>5, <2>6 DEF IsSeen
    <3>3. QED
      BY <3>1, <3>2
  <2>9. handling' = [handling EXCEPT ![m] = @ + 1] /\ turns' = turns /\ restarts' = restarts
    BY <1>2 DEF Deliver
  <2>10. ASSUME NEW k \in Messages
         PROVE  Budget(k)' <= 1 + restarts'
    <3>1. Cardinality(TurnsOf(k))' = Cardinality(TurnsOf(k))
      BY <2>9 DEF TurnsOf
    <3>2. Budget(k) <= 1 + restarts
      BY DEF Counted
    <3>3. handling[k] \in Nat /\ handling'[k] = IF k = m THEN handling[k] + 1 ELSE handling[k]
      BY <1>1, <2>9
    <3>4. Budget(k)' = Cardinality(TurnsOf(k))' + handling'[k] + (IF IsSeen(k)' THEN 0 ELSE 1)
      BY DEF Budget
    <3>5. CASE k = m
      BY <1>1, <2>1, <2>8, <2>9, <3>1, <3>2, <3>3, <3>4, <3>5 DEF Budget
    <3>6. CASE k # m
      BY <1>1, <2>8, <2>9, <3>1, <3>2, <3>3, <3>4, <3>6 DEF Budget
    <3>7. QED
      BY <3>5, <3>6
  <2>11. QED
    BY <2>7, <2>10 DEF Counted
<1>3. ASSUME seen' = seen, restarts' = restarts,
             \A k \in Messages : /\ Cardinality(TurnsOf(k))' \in Nat /\ handling'[k] \in Nat
                                 /\ Cardinality(TurnsOf(k))' + handling'[k]
                                      <= Cardinality(TurnsOf(k)) + handling[k]
      PROVE  Counted'
  <2>1. SeenOnce'
    BY <1>3 DEF Counted, SeenOnce
  <2>2. ASSUME NEW k \in Messages
        PROVE  Budget(k)' <= 1 + restarts'
    <3>1. IsSeen(k)' <=> IsSeen(k)
      BY <1>3 DEF IsSeen
    <3>2. Budget(k) <= 1 + restarts /\ handling[k] \in Nat /\ Cardinality(TurnsOf(k)) \in Nat
      BY <1>1 DEF Counted
    <3>3. Budget(k)' = Cardinality(TurnsOf(k))' + handling'[k] + (IF IsSeen(k)' THEN 0 ELSE 1)
      BY DEF Budget
    <3>4. QED
      BY <1>1, <1>3, <3>1, <3>2, <3>3 DEF Budget
  <2>3. QED
    BY <2>1, <2>2 DEF Counted
<1>4. ASSUME NEW m \in Messages, Enqueue(m)
      PROVE  Counted'
  <2> DEFINE n == Len(turns)
  <2>1. /\ turns \in Seq(Turn) /\ n \in Nat /\ DOMAIN turns = 1 .. n
    BY TypesFacts DEF Sound
  <2>2. NewTurn(m) \in Turn /\ NewTurn(m).message = m
    BY NewTurnSound
  <2>3. turns' = Append(turns, NewTurn(m)) /\ seen' = seen /\ restarts' = restarts
        /\ handling' = [handling EXCEPT ![m] = @ - 1] /\ handling[m] > 0
    BY <1>4 DEF Enqueue
  <2>4. /\ turns' \in Seq(Turn) /\ Len(turns') = n + 1
        /\ \A j \in 1 .. n : turns'[j] = turns[j]
        /\ turns'[n + 1] = NewTurn(m)
    BY <2>1, <2>2, <2>3, AppendProperties
  <2>5. DOMAIN turns' = 1 .. n + 1
    BY <2>4, LenProperties
  <2> HIDE DEF n
  <2>6. ASSUME NEW k \in Messages
        PROVE  /\ Cardinality(TurnsOf(k))' \in Nat /\ handling'[k] \in Nat
               /\ Cardinality(TurnsOf(k))' + handling'[k] <= Cardinality(TurnsOf(k)) + handling[k]
    <3>1. IsFiniteSet(TurnsOf(k)) /\ Cardinality(TurnsOf(k)) \in Nat
      BY TurnsAreFinite
    <3>2. CASE k = m
      <4>1. TurnsOf(m)' = TurnsOf(m) \union {n + 1} /\ n + 1 \notin TurnsOf(m)
        BY <2>1, <2>2, <2>4, <2>5 DEF TurnsOf
      <4>2. Cardinality(TurnsOf(m) \union {n + 1}) = Cardinality(TurnsOf(m)) + 1
        BY <3>1, <3>2, <4>1, FS_AddElement
      <4>3. Cardinality(TurnsOf(m))' = Cardinality(TurnsOf(m)) + 1
        BY <4>1, <4>2
      <4>4. QED
        BY <1>1, <2>3, <3>1, <3>2, <4>3
    <3>3. CASE k # m
      <4>1. TurnsOf(k)' = TurnsOf(k)
        BY <2>1, <2>2, <2>4, <2>5, <3>3 DEF TurnsOf
      <4>2. QED
        BY <1>1, <2>3, <3>1, <3>3, <4>1
    <3>4. QED
      BY <3>2, <3>3
  <2>7. QED
    BY <1>3, <2>3, <2>6
<1>5. ASSUME NEW m \in Messages, GiveUp(m)
      PROVE  Counted'
  <2>1. \A k \in Messages : Cardinality(TurnsOf(k))' = Cardinality(TurnsOf(k))
    BY <1>5 DEF GiveUp, TurnsOf
  <2>2. \A k \in Messages : handling'[k] \in Nat /\ handling'[k] <= handling[k]
    BY <1>1, <1>5 DEF GiveUp
  <2>3. seen' = seen /\ restarts' = restarts
    BY <1>5 DEF GiveUp
  <2>4. QED
    BY <1>1, <1>3, <2>1, <2>2, <2>3
<1>6. ASSUME UNCHANGED <<seen, handling, restarts>>, \A m : TurnsOf(m)' = TurnsOf(m)
      PROVE  Counted'
  <2>1. \A k \in Messages : Cardinality(TurnsOf(k))' = Cardinality(TurnsOf(k))
    BY <1>6
  <2>2. QED
    BY <1>1, <1>3, <1>6, <2>1
<1>7. CASE Cancel
  <2>1. CASE turns' = turns
    BY <1>6, <1>7, <2>1 DEF Cancel, TurnsOf
  <2>2. CASE turns' # turns
    <3>1. cancelling \in DOMAIN turns
      BY <1>7, TypesFacts DEF Cancel, Sound, Types
    <3>2. turns' = [turns EXCEPT ![cancelling].status = "cancelled"]
      BY <1>7, <2>2 DEF Cancel, MarkCancelled
    <3>3. \A m : TurnsOf(m)' = TurnsOf(m)
      BY <3>1, <3>2, MessagesStay
    <3>4. QED
      BY <1>6, <1>7, <3>3 DEF Cancel
  <2>3. QED
    BY <2>1, <2>2
<1>8. ASSUME NEW i \in DOMAIN turns, ReadForCancel(i)
      PROVE  Counted'
  BY <1>6, <1>8 DEF ReadForCancel, TurnsOf
<1>9. CASE AppRestarts
  <2>1. /\ seen' = << >> /\ restarts' = restarts + 1 /\ turns' = turns
        /\ handling' = [m \in Messages |-> 0]
    BY <1>9 DEF AppRestarts
  <2>2. SeenOnce'
    BY <2>1 DEF SeenOnce
  <2>3. ASSUME NEW k \in Messages
        PROVE  Budget(k)' <= 1 + restarts'
    <3>1. Budget(k) <= 1 + restarts /\ handling[k] \in Nat /\ Cardinality(TurnsOf(k)) \in Nat
      BY <1>1 DEF Counted
    <3>2. Cardinality(TurnsOf(k))' = Cardinality(TurnsOf(k))
      BY <2>1 DEF TurnsOf
    <3>3. Budget(k)' = Cardinality(TurnsOf(k))' + handling'[k] + (IF IsSeen(k)' THEN 0 ELSE 1)
      BY DEF Budget
    <3>4. QED
      BY <1>1, <2>1, <3>1, <3>2, <3>3 DEF Budget
  <2>4. QED
    BY <2>2, <2>3 DEF Counted
<1>10. QED
  BY <1>2, <1>4, <1>5, <1>7, <1>8, <1>9 DEF App

\* Each run of the Slack process makes at most one turn of a message.
TurnsPerMessage == \A m \in Messages : Cardinality(TurnsOf(m)) <= 1 + restarts

\* A message becomes at most one turn for each run of the Slack process, and one
\* turn in all while that process has not been started again: Deliver remembers it
\* before the handler awaits anything (mark_first_delivery in bot/builder_app.py).
THEOREM OneTurnPerMessage ==
  ASSUME NoneForgotten
  PROVE  Spec => [](TurnsPerMessage /\ (restarts = 0 => OneTaskPerMessage))
<1>1. Init => Counted
  <2> SUFFICES ASSUME Init
               PROVE  Counted
    OBVIOUS
  <2>1. \A m \in Messages : TurnsOf(m) = {} /\ handling[m] = 0 /\ restarts = 0
    BY EmptySeq DEF Init, QueueInit, TurnsOf
  <2>2. \A m \in Messages : Budget(m) <= 1 + restarts
    BY <2>1, FS_EmptySet DEF Budget
  <2>3. SeenOnce
    BY DEF Init, QueueInit, SeenOnce
  <2>4. QED
    BY <2>2, <2>3 DEF Counted
<1>2. Sound /\ Counted /\ [Next]_vars => Counted'
  <2> SUFFICES ASSUME Sound, Counted, [Next]_vars
               PROVE  Counted'
    OBVIOUS
  <2>1. CASE App
    BY <2>1, CountedApp
  <2>2. ASSUME UNCHANGED queue, \A m : TurnsOf(m)' = TurnsOf(m)
        PROVE  Counted'
    <3>1. UNCHANGED <<seen, handling, restarts>>
      BY <2>2 DEF queue
    <3>2. \A m : Cardinality(TurnsOf(m))' = Cardinality(TurnsOf(m))
      BY <2>2
    <3>3. \A m : IsSeen(m)' <=> IsSeen(m)
      BY <3>1 DEF IsSeen
    <3>4. \A m \in Messages : Budget(m)' = Budget(m)
      BY <3>1, <3>2, <3>3 DEF Budget
    <3>5. QED
      BY <3>1, <3>4 DEF Counted, SeenOnce
  <2>3. CASE UNCHANGED vars
    BY <2>2, <2>3 DEF vars, TurnsOf
  <2>4. QED
    BY <2>1, <2>2, <2>3, WorkerAddsNoTurn DEF Next
<1>3. Sound /\ Counted => TurnsPerMessage
  <2> SUFFICES ASSUME Sound, Counted, NEW m \in Messages
               PROVE  Cardinality(TurnsOf(m)) <= 1 + restarts
    BY DEF TurnsPerMessage
  <2>1. /\ Budget(m) <= 1 + restarts /\ handling[m] \in Nat /\ restarts \in Nat
        /\ Cardinality(TurnsOf(m)) \in Nat
    BY TurnsAreFinite, QueueAssumption DEF Counted, Sound, Types, TypeOK, QueueTypeOK
  <2>2. QED
    BY <2>1 DEF Budget
<1>4. Sound /\ TurnsPerMessage => (restarts = 0 => OneTaskPerMessage)
  <2> SUFFICES ASSUME Sound, TurnsPerMessage, restarts = 0,
                      NEW i \in DOMAIN turns, NEW j \in DOMAIN turns,
                      turns[i].message = turns[j].message, i # j
               PROVE  FALSE
    BY DEF OneTaskPerMessage
  <2> DEFINE m == turns[i].message
  <2>1. m \in Messages
    BY TypesFacts DEF Sound, Turn
  <2>2. {i, j} \subseteq TurnsOf(m)
    BY DEF TurnsOf
  <2>3. IsFiniteSet(TurnsOf(m)) /\ Cardinality(TurnsOf(m)) \in Nat
    BY <2>1, TurnsAreFinite
  <2>4. Cardinality({i, j}) = 2
    <3>1. IsFiniteSet({j}) /\ Cardinality({j}) = 1
      BY FS_Singleton
    <3>2. Cardinality({j} \union {i}) = 1 + 1
      BY <3>1, FS_AddElement
    <3>3. {j} \union {i} = {i, j}
      OBVIOUS
    <3>4. QED
      BY <3>2, <3>3
  <2>5. Cardinality({i, j}) <= Cardinality(TurnsOf(m))
    BY <2>2, <2>3, FS_Subset
  <2>6. Cardinality(TurnsOf(m)) <= 1
    BY <2>1 DEF TurnsPerMessage
  <2>7. QED
    BY <2>3, <2>4, <2>5, <2>6
<1>5. QED
  BY <1>1, <1>2, <1>3, <1>4, AlwaysSound, PTL DEF Spec
=============================================================================
