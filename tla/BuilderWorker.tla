--------------------------- MODULE BuilderWorker ---------------------------
(***************************************************************************)
(* The Builder worker: one process that claims the oldest pending turn,    *)
(* has a coding harness work on it in a git worktree, validates the result,*)
(* pushes it, opens a pull request or continues one, and reports.  systemd *)
(* starts the process again whenever it stops; the turn it was working on  *)
(* is not looked at again.                                                 *)
(*                                                                         *)
(* Git, GitHub and the harness are external.  The calls of a phase that    *)
(* changes nothing others can see are one step; the progress card, which   *)
(* no decision reads, is left out.                                         *)
(***************************************************************************)
EXTENDS BuilderQueue

CONSTANTS
  MaxRepairs,    \* builder_max_repair_attempts
  RequireTests   \* builder_require_tests_pass

VARIABLES
  worker,       \* the local state of _run_task
  worktrees,    \* the branch checked out in the worktree of each turn
  commits,      \* the turns that pushed to each branch of the remote
  prs,          \* the pull request of each branch
  interrupted   \* history: turns the process stopped in

vars == <<queue, turns, worker, worktrees, commits, prs, interrupted>>
remote == <<commits, prs>>

Phases == {"polling", "resolving", "preparing", "working", "validating", "repairing",
           "pushing", "opening", "recording", "reporting", "failing", "cleaning"}

\* The phases that run git or another command.  subprocess.run has no timeout for
\* git, and for a shell it has one that does not reach what the shell has started:
\* such a phase may never return.
MayHang == {"preparing", "working", "validating", "repairing", "pushing", "cleaning"}

\* The phases inside the try block.
Trying == Phases \ {"polling", "failing", "cleaning"}

Polling == [at |-> "polling", turn |-> None, target |-> None, changed |-> FALSE,
            verified |-> FALSE, repairs |-> 0]

ASSUME WorkerAssumption ==
  /\ MaxRepairs \in Nat /\ RequireTests \in BOOLEAN
  /\ None \notin {"open", "closed"}

TypeOK ==
  /\ QueueTypeOK
  /\ worker \in [at : Phases, turn : TurnIds \union {None}, target : Branches \union {None},
                 changed : BOOLEAN, verified : BOOLEAN, repairs : 0 .. MaxRepairs]
  /\ worktrees \in [TurnIds -> Branches \union {None}]
  /\ commits \in [Branches -> SUBSET TurnIds]
  /\ prs \in [Branches -> {"open", "closed", None}]
  /\ interrupted \subseteq TurnIds

Init ==
  /\ QueueInit
  /\ worker = Polling
  /\ worktrees = [i \in TurnIds |-> None]
  /\ commits = [b \in Branches |-> {}]
  /\ prs = [b \in Branches |-> IF b \in {External(p) : p \in PullRequests} THEN "open" ELSE None]
  /\ interrupted = {}

-----------------------------------------------------------------------------
(* _run_task.                                                              *)

At(phase) == worker.at = phase
Current == turns[worker.turn]
Handoff == HandoffOf[Current.message] # None
Branch == IF worker.target # None THEN worker.target ELSE Own(worker.turn)

\* Goes on to a phase, changing nothing but the worker itself.
GoOn(phase) ==
  /\ worker' = [worker EXCEPT !.at = phase]
  /\ UNCHANGED <<queue, turns, worktrees, remote, interrupted>>

Claim(i) ==
  /\ At("polling")
  /\ i \in In("pending")
  /\ \A j \in In("pending") : i <= j
  /\ turns' = [turns EXCEPT ![i].status = "running"]
  /\ worker' = [Polling EXCEPT !.at = "resolving", !.turn = i]
  /\ UNCHANGED <<queue, worktrees, remote, interrupted>>

\* The branch to work on: that of the pull request handed off, which has to be
\* open, or that of the pull request to continue if it is open and GitHub can
\* be asked, or a new one.
Resolve(target) ==
  /\ At("resolving")
  /\ \/ Handoff /\ target = External(HandoffOf[Current.message]) /\ prs[target] = "open"
     \/ /\ ~Handoff /\ Current.continuation # None
        /\ target = Current.continuation /\ prs[Current.continuation_pr] = "open"
     \/ ~Handoff /\ target = None
  /\ worker' = [worker EXCEPT !.at = "preparing", !.target = target]
  /\ UNCHANGED <<queue, turns, worktrees, remote, interrupted>>

\* git refuses a branch that is checked out in another worktree.  That it adds the
\* worktree and then cannot say what commit it is at, which would leave the
\* worktree behind, is left out.
Prepare ==
  /\ At("preparing")
  /\ \A j \in TurnIds : worktrees[j] # Branch
  /\ worktrees' = [worktrees EXCEPT ![worker.turn] = Branch]
  /\ turns' = [turns EXCEPT ![worker.turn].branch = Branch]
  /\ worker' = [worker EXCEPT !.at = "working"]
  /\ UNCHANGED <<queue, remote, interrupted>>

\* The harness changes files or only answers.  A pull request handed off is
\* validated in any case.
Work(changed) ==
  /\ At("working")
  /\ worker' = [worker EXCEPT !.changed = changed,
                  !.at = IF Handoff \/ changed THEN "validating" ELSE "recording"]
  /\ UNCHANGED <<queue, turns, worktrees, remote, interrupted>>

AfterValidation == IF worker.changed THEN "pushing" ELSE "recording"

Validate(success) ==
  /\ At("validating")
  /\ worker' = [worker EXCEPT !.verified = success,
                  !.at = IF success THEN AfterValidation
                         ELSE IF worker.repairs < MaxRepairs THEN "repairing"
                         ELSE IF RequireTests THEN "failing"
                         ELSE AfterValidation]
  /\ UNCHANGED <<queue, turns, worktrees, remote, interrupted>>

RepairLast(changed) ==
  /\ At("repairing")
  /\ changed \in (IF Handoff THEN BOOLEAN ELSE {TRUE})
  /\ worker' = [worker EXCEPT !.repairs = @ + 1, !.verified = FALSE, !.changed = changed,
                  !.at = IF worker.repairs + 1 = MaxRepairs /\ changed THEN "pushing"
                         ELSE "validating"]
  /\ UNCHANGED <<queue, turns, worktrees, remote, interrupted>>

\* A repair edits the files, so the last validation no longer counts.  Whether
\* anything differs from the pull request is asked again for a handoff only.
Repair(changed) ==
  /\ At("repairing")
  /\ changed \in (IF Handoff THEN BOOLEAN ELSE {TRUE})
  /\ worker' = [worker EXCEPT !.repairs = @ + 1, !.verified = FALSE, !.changed = changed,
                  !.at = "validating"]
  /\ UNCHANGED <<queue, turns, worktrees, remote, interrupted>>

Push ==
  /\ At("pushing")
  /\ commits' = [commits EXCEPT ![Branch] = @ \union {worker.turn}]
  /\ worker' = [worker EXCEPT !.at = IF worker.target = None THEN "opening" ELSE "recording"]
  /\ UNCHANGED <<queue, turns, worktrees, prs, interrupted>>

\* GitHub's answer may be lost.
OpenPullRequest(answered) ==
  /\ At("opening")
  /\ prs' = [prs EXCEPT ![Branch] = "open"]
  /\ worker' = [worker EXCEPT !.at = IF answered THEN "recording" ELSE "failing"]
  /\ UNCHANGED <<queue, turns, worktrees, commits, interrupted>>

ResultOfItsOwn == IF worker.changed THEN Own(worker.turn) ELSE worker.target

\* The pull request the turn ends with.
Result ==
  IF worker.target # None THEN worker.target
  ELSE IF worker.changed THEN Own(worker.turn)
  ELSE None

MarkSucceeded ==
  /\ At("recording")
  /\ turns' = [turns EXCEPT ![worker.turn].status = "succeeded", ![worker.turn].pr = Result]
  /\ worker' = [worker EXCEPT !.at = "reporting"]
  /\ UNCHANGED <<queue, worktrees, remote, interrupted>>

Report == At("reporting") /\ GoOn("cleaning")

\* Anything in the try block may raise: GitHub, git, the harness, the store,
\* and Slack when the answer is reported.
Abort == worker.at \in Trying /\ GoOn("failing")

NothingMarked == At("failing") /\ GoOn("cleaning")

MarkFailedLeavingTheWorktree ==
  /\ At("failing")
  /\ turns' = [turns EXCEPT ![worker.turn].status = "failed"]
  /\ worker' = Polling
  /\ UNCHANGED <<queue, worktrees, remote, interrupted>>

\* Whatever the status was: also for a turn that has just succeeded.
MarkFailed ==
  /\ At("failing")
  /\ turns' = [turns EXCEPT ![worker.turn].status = "failed"]
  /\ worker' = [worker EXCEPT !.at = "cleaning"]
  /\ UNCHANGED <<queue, worktrees, remote, interrupted>>

\* The removal is taken to succeed; if it does not, that is only logged.
CleanUp ==
  /\ At("cleaning")
  /\ worktrees' = [worktrees EXCEPT ![worker.turn] = None]
  /\ worker' = Polling
  /\ UNCHANGED <<queue, turns, remote, interrupted>>

\* The process is killed in a turn, or ends because the store fails when the
\* turn is to be marked as failed; in that case it still cleans up.
Stop(removed) ==
  /\ ~At("polling")
  /\ removed => At("failing")
  /\ worktrees' = [worktrees EXCEPT ![worker.turn] = IF removed THEN None ELSE @]
  /\ interrupted' = interrupted \union {worker.turn}
  /\ worker' = Polling
  /\ UNCHANGED <<queue, turns, remote>>

Worker ==
  \/ \E i \in DOMAIN turns : Claim(i)
  \/ \E target \in Branches \union {None} : Resolve(target)
  \/ Prepare
  \/ \E changed \in BOOLEAN : Work(changed) \/ Repair(changed)
  \/ \E success \in BOOLEAN : Validate(success)
  \/ Push
  \/ \E answered \in BOOLEAN : OpenPullRequest(answered)
  \/ MarkSucceeded
  \/ Report
  \/ Abort
  \/ MarkFailed
  \/ CleanUp

\* Somebody merges or closes a pull request.
Close(b) ==
  /\ prs[b] = "open"
  /\ prs' = [prs EXCEPT ![b] = "closed"]
  /\ UNCHANGED <<queue, turns, worker, worktrees, commits, interrupted>>

Next ==
  \/ App /\ UNCHANGED <<worker, worktrees, remote, interrupted>>
  \/ Worker
  \/ \E removed \in BOOLEAN : Stop(removed)
  \/ \E b \in Branches : Close(b)

\* The worker polls for ever, and the phases that only call the store, GitHub and
\* Slack return: the calls have timeouts.  Nothing else is sure to happen.
Spec == Init /\ [][Next]_vars /\ WF_vars(Worker /\ worker.at \notin MayHang)

-----------------------------------------------------------------------------
(* Properties.                                                             *)

\* With tests required, what a turn publishes has passed them as it is, after
\* the last repair, and a pull request handed off is not reported as done
\* before they passed.
PublishedIsVerified ==
  RequireTests /\ (worker.at \in {"pushing", "opening"} \/ (At("recording") /\ Handoff)) =>
    worker.verified

\* A turn pushes to a branch of its own, to the pull request its message
\* names, or to a branch an earlier turn of the same thread worked on.
PushesStayInTheirThread ==
  \A b \in Branches : \A i \in commits[b] :
    LET m == turns[i].message IN
      IF HandoffOf[m] # None THEN b = External(HandoffOf[m])
      ELSE b = Own(i) \/ \E j \in 1 .. i - 1 :
             ThreadOf[turns[j].message] = ThreadOf[m] /\ turns[j].branch = b

\* What a succeeded turn pushed is in the pull request it is recorded with, the
\* pull request exists, and a turn recorded without one has pushed nothing.
SuccessNamesWhatWasPushed ==
  \A i \in In("succeeded") :
    /\ turns[i].pr # None => prs[turns[i].pr] # None
    /\ \A b \in Branches : i \in commits[b] => turns[i].pr = b

\* A worktree belongs to the turn being worked on, so that the branch of an
\* earlier turn can be checked out again; only a turn the process stopped in
\* leaves one behind.
WorktreesAreRemoved ==
  \A i \in TurnIds : worktrees[i] # None => i = worker.turn \/ i \in interrupted

\* The Slack process remembers as many messages as it can be told of.  A message
\* it has forgotten becomes a turn again when it is delivered again.
NoneForgotten == IsFiniteSet(Messages) /\ Cardinality(Messages) <= SeenLimit

\* "One Slack message cannot produce two Builder tasks after reconnect/redelivery."
OneTaskPerMessage ==
  \A i, j \in DOMAIN turns : turns[i].message = turns[j].message => i = j

Ended(i) == i \in In("succeeded") \union In("failed") \union In("cancelled")

\* A queued turn ends, unless the process stops in it or the worker stays for ever
\* in a phase whose command does not return: none is passed over, whatever fails.
TurnsEndUnlessStuck ==
  \A i \in TurnIds :
    i \in DOMAIN turns ~> (Ended(i) \/ i \in interrupted \/ [](worker.at \in MayHang))

\* "I stopped without publishing the change" is true: a failed turn pushed
\* nothing.
FailedTurnsPublishNothing == \A i \in In("failed") : \A b \in Branches : i \notin commits[b]

\* The table is a queue of turns that are taken up in order or withdrawn.
Queue == INSTANCE TurnQueue WITH
  Turns <- TurnIds,
  waiting <- In("pending"),
  withdrawn <- In("cancelled"),
  working <- In("running"),
  ended <- In("succeeded") \union In("failed"),
  published <- UNION {commits[b] : b \in Branches}

ImplementsTurnQueue == Queue!Spec
=============================================================================
