----------------------------- MODULE TriageAgent -----------------------------
(***************************************************************************)
(* The control-plane triage agent: one process that polls GitHub Actions,  *)
(* and takes every failed run through assemble -> diagnose -> notify ->    *)
(* mark seen, retrying a bounded number of times with backoff.             *)
(*                                                                         *)
(* The poll pass (run_time/service.py) and the three event handlers        *)
(* (run_time/event_handlers.py) run on one asyncio loop and the event bus  *)
(* awaits every handler, so a pass is sequential; pc is where it stands.   *)
(* Around it GitHub, the clock, the Discord gateway thread and the file    *)
(* system move on their own, and the process may die between any two       *)
(* steps.  Each await and each call that can raise is a step boundary.     *)
(***************************************************************************)
EXTENDS StateStore, FiniteSets

CONSTANTS
    Watch,           \* Watch[i][j]: runs that pass the branch, name and id filters
                     \* of the j-th target of the i-th watched repository
    NoRun,           \* stands for "no run is being triaged"
    RepoOf,          \* RepoOf[r]: index of the repository of run r
    PerPage,         \* MAX_RUNS_PER_REPO: the only page list_recent_runs asks for
    Lookback,        \* LOOKBACK_MINUTES, in clock ticks
    Conclusions,     \* conclusions GitHub may give a run
    Faults,          \* the kinds of fault of this instance, see FaultKinds
    MaxTime,         \* bound of the clock
    MaxCrashes,      \* bound on process deaths
    MaxWriteFails    \* bound on failing writes of state.json

FaultKinds ==
    {"list",      \* list_recent_runs raises
     "stage",     \* assembling or diagnosing an incident raises
     "send",      \* Discord refuses a message
     "late",      \* the wait for Discord ends before its answer
     "gateway",   \* the Discord gateway thread dies
     "torn"}      \* a write of state.json stops after it truncated the file

ASSUME WatchAssumption ==
    /\ Watch \in Seq(Seq(SUBSET Runs))
    /\ RepoOf \in [Runs -> 1 .. Len(Watch)]
ASSUME RunsAssumption == IsFiniteSet(Runs) /\ NoRun \notin Runs
ASSUME BoundsAssumption ==
    /\ PerPage \in Nat /\ Lookback \in Nat
    /\ MaxTime \in Nat /\ MaxCrashes \in Nat /\ MaxWriteFails \in Nat
ASSUME FaultsAssumption == Faults \subseteq FaultKinds
ASSUME ConclusionsAssumption == "in_progress" \notin Conclusions

VARIABLES
    now,         \* wall clock
    serial,      \* GitHub: serial[r] is the creation order of r, 0 before it exists
    born,        \* GitHub: created_at
    conclusion,  \* GitHub: "in_progress", then the conclusion of the completed run
    pc,          \* agent: where the poll pass stands
    repoIx,      \* agent: repository being polled
    targetIx,    \* agent: target of that repository being matched
    listing,     \* agent: failed runs of the page the pass fetched
    queue,       \* agent: matched runs the pass has not reached yet
    cur,         \* agent: the run being triaged
    store,       \* agent: StateStore._data
    disk,        \* last complete image of state.json
    file,        \* state.json is "whole", or "torn": truncated, it no longer parses
    gateway,     \* "up" or "dead": the Discord gateway thread
    late,        \* messages in flight that nobody waits for any more, per run
    posted,      \* messages that reached the channel, per run
    sent,        \* history: messages handed to Discord, per run
    lastFail,    \* history: time of the last recorded failed attempt
    evicted,     \* history: runs pushed out of the seen list
    crashes,     \* history: process deaths
    writeFails   \* history: failed writes of state.json

githubVars  == <<serial, born, conclusion>>
passVars    == <<repoIx, targetIx, listing>>
fileVars    == <<disk, file, writeFails>>
discordVars == <<late, posted, sent>>
vars == <<now, githubVars, pc, passVars, queue, cur, store, fileVars, gateway,
          discordVars, lastFail, evicted, crashes>>

TriageSteps == {"assemble", "diagnose", "notify", "sending", "mark", "failed"}
PcValues == {"sleep", "list", "match", "runs", "down"} \cup TriageSteps

TypeOK ==
    /\ now \in Nat
    /\ serial \in [Runs -> Nat] /\ born \in [Runs -> Nat]
    /\ conclusion \in [Runs -> Conclusions \cup {"in_progress"}]
    /\ pc \in PcValues
    /\ repoIx \in Nat \ {0} /\ targetIx \in Nat \ {0}
    /\ listing \in SUBSET Runs /\ queue \in SUBSET Runs
    /\ cur \in Runs \cup {NoRun}
    /\ cur # NoRun <=> pc \in TriageSteps
    /\ store \in Store /\ Len(store.seen) <= SeenCap
    /\ disk \in Store /\ Len(disk.seen) <= SeenCap
    /\ file \in {"whole", "torn"}
    /\ gateway \in {"up", "dead"}
    /\ late \in [Runs -> Nat] /\ posted \in [Runs -> Nat] /\ sent \in [Runs -> Nat]
    /\ lastFail \in [Runs -> Nat \cup {None}]
    /\ evicted \in SUBSET Runs
    /\ crashes \in Nat /\ writeFails \in Nat

(* Process start: no state.json yet, the gateway has reported ready. *)
Init ==
    /\ now = 0
    /\ serial = [r \in Runs |-> 0] /\ born = [r \in Runs |-> 0]
    /\ conclusion = [r \in Runs |-> "in_progress"]
    /\ pc = "list" /\ repoIx = 1 /\ targetIx = 1
    /\ listing = {} /\ queue = {} /\ cur = NoRun
    /\ store = EmptyStore /\ disk = EmptyStore /\ file = "whole"
    /\ gateway = "up"
    /\ late = [r \in Runs |-> 0] /\ posted = [r \in Runs |-> 0]
    /\ sent = [r \in Runs |-> 0]
    /\ lastFail = [r \in Runs |-> None]
    /\ evicted = {}
    /\ crashes = 0 /\ writeFails = 0

-----------------------------------------------------------------------------
(* GitHub and the clock (external) *)

Tick ==
    /\ now < MaxTime
    /\ now' = now + 1
    /\ UNCHANGED <<githubVars, pc, passVars, queue, cur, store, fileVars, gateway,
                   discordVars, lastFail, evicted, crashes>>

CreateRun(r) ==
    /\ serial[r] = 0
    /\ serial' = [serial EXCEPT ![r] = Cardinality({q \in Runs : serial[q] # 0}) + 1]
    /\ born' = [born EXCEPT ![r] = now]
    /\ UNCHANGED <<now, conclusion, pc, passVars, queue, cur, store, fileVars, gateway,
                   discordVars, lastFail, evicted, crashes>>

CompleteRun(r) ==
    /\ serial[r] # 0 /\ conclusion[r] = "in_progress"
    /\ \E c \in Conclusions : conclusion' = [conclusion EXCEPT ![r] = c]
    /\ UNCHANGED <<now, serial, born, pc, passVars, queue, cur, store, fileVars, gateway,
                   discordVars, lastFail, evicted, crashes>>

(* The page GitHub answers with: the newest PerPage runs of a repository. *)
Page(i) ==
    LET all == {r \in Runs : RepoOf[r] = i /\ serial[r] # 0}
    IN  {r \in all : Cardinality({q \in all : serial[q] > serial[r]}) < PerPage}

-----------------------------------------------------------------------------
(* The poll pass: run_forever and poll_once *)

UnchangedOutsidePass ==
    UNCHANGED <<now, githubVars, store, fileVars, gateway, discordVars, lastFail,
                evicted, crashes>>

(* The locals of poll_once do not outlive the pass. *)
ForgetPass == repoIx' = 1 /\ targetIx' = 1 /\ listing' = {} /\ queue' = {}

LeavePass == pc' = "sleep" /\ ForgetPass

WakeUp ==
    /\ pc = "sleep"
    /\ pc' = "list"
    /\ UNCHANGED <<passVars, queue, cur>>
    /\ UnchangedOutsidePass

(* match_runs looks at the status and the conclusion the page showed, so   *)
(* that half of the filter is applied here and the age half in MatchRuns.  *)
TargetConclusions == {"failure"}

ListRuns ==
    /\ pc = "list" /\ repoIx <= Len(Watch)
    /\ listing' = {r \in Page(repoIx) : conclusion[r] \in TargetConclusions}
    /\ targetIx' = 1 /\ pc' = "match"
    /\ UNCHANGED <<repoIx, queue, cur>>
    /\ UnchangedOutsidePass

(* The exception leaves poll_once; run_forever logs it and sleeps. *)
ListRunsRaises ==
    /\ "list" \in Faults
    /\ pc = "list" /\ repoIx <= Len(Watch)
    /\ LeavePass /\ UNCHANGED cur
    /\ UnchangedOutsidePass

EndPass ==
    /\ pc = "list" /\ repoIx > Len(Watch)
    /\ LeavePass /\ UNCHANGED cur
    /\ UnchangedOutsidePass

InWindow(r) == born[r] + Lookback >= now

MatchRuns ==
    /\ pc = "match" /\ targetIx <= Len(Watch[repoIx])
    /\ queue' = {r \in listing \cap Watch[repoIx][targetIx] : InWindow(r)}
    /\ pc' = "runs"
    /\ UNCHANGED <<passVars, cur>>
    /\ UnchangedOutsidePass

NextRepository_EndsPass ==
    /\ pc = "match" /\ targetIx > Len(Watch[repoIx])
    /\ LeavePass /\ UNCHANGED cur
    /\ UnchangedOutsidePass

NextRepository ==
    /\ pc = "match" /\ targetIx > Len(Watch[repoIx])
    /\ repoIx' = repoIx + 1 /\ targetIx' = 1 /\ listing' = {} /\ pc' = "list"
    /\ UNCHANGED <<queue, cur>>
    /\ UnchangedOutsidePass

NextTarget ==
    /\ pc = "runs" /\ queue = {}
    /\ targetIx' = targetIx + 1 /\ pc' = "match"
    /\ UNCHANGED <<repoIx, listing, queue, cur>>
    /\ UnchangedOutsidePass

(* The code leaves the order of a page to GitHub, so any order is possible. *)
SkipRun(r) ==
    /\ pc = "runs" /\ r \in queue
    /\ ~ShouldProcess(store, r, now)
    /\ queue' = queue \ {r}
    /\ UNCHANGED <<pc, passVars, cur>>
    /\ UnchangedOutsidePass

(* publish(WorkflowRunDetected): the handler asks has_seen again, and      *)
(* nothing awaited in between can have changed the answer.                 *)
DetectRun(r) ==
    /\ pc = "runs" /\ r \in queue
    /\ ShouldProcess(store, r, now)
    /\ queue' = queue \ {r} /\ cur' = r /\ pc' = "assemble"
    /\ UNCHANGED passVars
    /\ UnchangedOutsidePass

-----------------------------------------------------------------------------
(* The handlers behind WorkflowRunDetected, in the order the bus runs them *)

UnchangedInStage ==
    UNCHANGED <<now, githubVars, passVars, queue, cur, store, fileVars, gateway,
                lastFail, evicted, crashes>>

AssembleIncident ==
    /\ pc = "assemble"
    /\ pc' = "diagnose"
    /\ UNCHANGED discordVars
    /\ UnchangedInStage

Diagnose ==
    /\ pc = "diagnose"
    /\ pc' = "notify"
    /\ UNCHANGED discordVars
    /\ UnchangedInStage

StageRaises ==
    /\ "stage" \in Faults
    /\ pc \in {"assemble", "diagnose"}
    /\ pc' = "failed"
    /\ UNCHANGED discordVars
    /\ UnchangedInStage

(* DiscordNotifier.send hands the message to the gateway's loop and waits. *)
StartSend ==
    /\ pc = "notify" /\ gateway = "up"
    /\ pc' = "sending"
    /\ sent' = [sent EXCEPT ![cur] = @ + 1]
    /\ UNCHANGED <<late, posted>>
    /\ UnchangedInStage

(* The loop of a dead gateway is closed: scheduling a coroutine raises. *)
SendWithoutGateway ==
    /\ pc = "notify" /\ gateway = "dead"
    /\ pc' = "failed"
    /\ UNCHANGED discordVars
    /\ UnchangedInStage

SendDelivered ==
    /\ pc = "sending" /\ gateway = "up"
    /\ pc' = "mark"
    /\ posted' = [posted EXCEPT ![cur] = @ + 1]
    /\ UNCHANGED <<late, sent>>
    /\ UnchangedInStage

SendRefused ==
    /\ "send" \in Faults
    /\ pc = "sending" /\ gateway = "up"
    /\ pc' = "failed"
    /\ UNCHANGED discordVars
    /\ UnchangedInStage

AfterTimeout_Delivered == "mark"

AfterTimeout == "failed"

(* future.result(timeout=30) raises while the message is still on its way. *)
SendTimesOut ==
    /\ "late" \in Faults \/ gateway = "dead"
    /\ pc = "sending"
    /\ pc' = AfterTimeout
    /\ late' = [late EXCEPT ![cur] = @ + 1]
    /\ UNCHANGED <<posted, sent>>
    /\ UnchangedInStage

(* A message nobody waits for still reaches the channel, or is lost. *)
LateMessage(r) ==
    /\ late[r] > 0
    /\ late' = [late EXCEPT ![r] = @ - 1]
    /\ UNCHANGED posted \/ posted' = [posted EXCEPT ![r] = @ + 1]
    /\ UNCHANGED <<pc, sent>>
    /\ UnchangedInStage

GatewayDies ==
    /\ "gateway" \in Faults
    /\ gateway = "up" /\ pc # "down"
    /\ gateway' = "dead"
    /\ UNCHANGED <<now, githubVars, pc, passVars, queue, cur, store, fileVars,
                   discordVars, lastFail, evicted, crashes>>

-----------------------------------------------------------------------------
(* Recording the outcome.  StateStore changes its data and then rewrites   *)
(* the whole file: memory always changes, the file only if _write returns. *)

Write_Skipped(s) == UNCHANGED disk /\ file' = "whole"

Write(s) == disk' = s /\ file' = "whole"

WriteRaises ==
    /\ writeFails < MaxWriteFails
    /\ writeFails' = writeFails + 1
    /\ file' \in {file} \cup (Faults \cap {"torn"})
    /\ UNCHANGED disk

UnchangedInRecord ==
    UNCHANGED <<now, githubVars, gateway, discordVars, crashes>>

(* handle_incident_diagnosed: mark_seen after the notifier returned. *)
MarkRunSeen ==
    /\ pc = "mark"
    /\ store' = MarkSeen(store, cur)
    /\ evicted' = evicted \cup PushedOut(store, cur)
    /\ \/ /\ Write(store') /\ UNCHANGED writeFails
          /\ pc' = "runs" /\ cur' = NoRun
       \/ /\ WriteRaises
          /\ pc' = "failed" /\ UNCHANGED cur
    /\ UNCHANGED <<passVars, queue, lastFail>>
    /\ UnchangedInRecord

(* The except clause of poll_once.  It stands outside the try, so a write   *)
(* that raises here ends the pass.                                         *)
RecordFailure ==
    /\ pc = "failed"
    /\ store' = RecordFailedAttempt(store, cur, now)
    /\ evicted' = IF Terminal(store.states[cur].attempts + 1)
                  THEN evicted \cup PushedOut(store, cur) ELSE evicted
    /\ lastFail' = [lastFail EXCEPT ![cur] = now]
    /\ cur' = NoRun
    /\ \/ /\ Write(store') /\ UNCHANGED writeFails
          /\ pc' = "runs" /\ UNCHANGED <<passVars, queue>>
       \/ /\ WriteRaises
          /\ LeavePass
    /\ UnchangedInRecord

-----------------------------------------------------------------------------
(* The process dies, and Kubernetes starts it again. *)

Crash ==
    /\ pc # "down" /\ crashes < MaxCrashes
    /\ crashes' = crashes + 1
    /\ pc' = "down" /\ cur' = NoRun /\ ForgetPass
    /\ store' = EmptyStore
    /\ late' = IF pc = "sending" THEN [late EXCEPT ![cur] = @ + 1] ELSE late
    /\ \/ UNCHANGED file
       \/ "torn" \in Faults /\ pc \in {"mark", "failed"} /\ file' = "torn"
    /\ UNCHANGED <<now, githubVars, disk, writeFails, gateway, posted, sent, lastFail,
                   evicted>>

Restart ==
    /\ pc = "down" /\ file = "whole"
    /\ store' = disk
    /\ gateway' = "up" /\ pc' = "list"
    /\ UNCHANGED <<now, githubVars, passVars, queue, cur, fileVars, discordVars,
                   lastFail, evicted, crashes>>

(* json.loads of a truncated file raises before the service exists: the    *)
(* pod starts, exits and is back where it was.                             *)
RestartRaises == pc = "down" /\ file = "torn" /\ UNCHANGED vars

-----------------------------------------------------------------------------
PollStep ==
    \/ WakeUp \/ ListRuns \/ ListRunsRaises \/ EndPass
    \/ MatchRuns \/ NextRepository \/ NextTarget
    \/ \E r \in Runs : SkipRun(r) \/ DetectRun(r)

HandlerStep ==
    \/ AssembleIncident \/ Diagnose \/ StageRaises
    \/ StartSend \/ SendWithoutGateway
    \/ SendDelivered \/ SendRefused \/ SendTimesOut
    \/ MarkRunSeen \/ RecordFailure

AgentStep == PollStep \/ HandlerStep

Environment ==
    \/ Tick \/ GatewayDies \/ Crash
    \/ \E r \in Runs : CreateRun(r) \/ CompleteRun(r) \/ LateMessage(r)

Next == AgentStep \/ Restart \/ RestartRaises \/ Environment

Spec == Init /\ [][Next]_vars

(* The loop in run_forever always takes its next step, every await of it   *)
(* has a timeout, and Kubernetes restarts a dead pod.  Nothing is assumed  *)
(* of GitHub, of the clock or of late messages.                            *)
Fairness == WF_vars(AgentStep) /\ WF_vars(Restart)

FairSpec == Spec /\ Fairness

-----------------------------------------------------------------------------
(* Safety *)

Closed(s) == {r \in Runs : s.states[r].status \in {"success", "seen_with_failure"}}

(* README "the same run is not retried forever": on disk and in memory a   *)
(* run has at most MaxAttempts failures, through crashes, failed writes    *)
(* and the success that could not be written; only a run that fell off the *)
(* end of the seen list escapes the limit.                                 *)
AttemptsBounded ==
    \A r \in Runs \ evicted :
        /\ store.states[r].attempts <= MaxAttempts
        /\ disk.states[r].attempts <= MaxAttempts

(* A run is recorded as triaged with success only if a message about it is *)
(* in the channel (handle_incident_diagnosed: "once delivery completes").  *)
SuccessWasPosted ==
    \A r \in Runs :
        "success" \in {store.states[r].status, disk.states[r].status} => posted[r] > 0

(* What has an outcome is in the seen list of the same store, so that the  *)
(* cheap has_seen test agrees with run_states, unless the cap pushed it    *)
(* out.                                                                    *)
ClosedRunsAreSeen ==
    /\ Closed(store) \subseteq SeenRuns(store) \cup evicted
    /\ Closed(disk) \subseteq SeenRuns(disk) \cup evicted

(* Operators see at most one message per recorded failure and one more for *)
(* every crash, every failed write and the final success: a resend always  *)
(* has a cause on record.                                                  *)
MessagesBounded ==
    \A r \in Runs :
        /\ posted[r] + late[r] <= sent[r]
        /\ r \notin evicted =>
             sent[r] <= disk.states[r].attempts + crashes + writeFails + 1

(* As long as no write has failed, a crash between any two steps loses no  *)
(* recorded outcome: the file says what memory says.                       *)
DiskIsCurrent == pc # "down" /\ writeFails = 0 => disk = store /\ file = "whole"

RetriesWait ==
    \A r \in Runs :
        /\ DetectRun(r)
        /\ writeFails = 0 /\ r \notin evicted /\ lastFail[r] # None
        => now >= lastFail[r] + Backoff(store.states[r].attempts)

(* A retry waits out the backoff of the last recorded failure, also when   *)
(* the process was restarted in between.                                   *)
BackoffHonoured == [][RetriesWait]_vars

-----------------------------------------------------------------------------
(* Liveness *)

(* A run the configuration asks for and GitHub still shows. *)
Eligible(r) ==
    /\ conclusion[r] = "failure" /\ r \in Page(RepoOf[r]) /\ InWindow(r)
    /\ \E j \in 1 .. Len(Watch[RepoOf[r]]) : r \in Watch[RepoOf[r]][j]

(* Every eligible run is taken up: it is announced, or a failure of it is  *)
(* recorded, unless it leaves the page or the lookback window first.       *)
FailedRunIsTriaged ==
    \A r \in Runs : Eligible(r) ~> (sent[r] > 0 \/ lastFail[r] # None \/ ~Eligible(r))

RetryDue(r, n) ==
    /\ pc # "down" /\ Eligible(r) /\ ~HasSeen(store, r)
    /\ store.states[r].attempts = n /\ store.states[r].nextRetry <= now

(* A due retry is not forgotten: it ends in another recorded failure or in *)
(* an outcome, unless the run leaves the page or the window first.         *)
DueRetryIsTaken ==
    \A r \in Runs, n \in 1 .. MaxAttempts :
        RetryDue(r, n) ~> (HasSeen(store, r) \/ store.states[r].attempts > n \/ ~Eligible(r))

-----------------------------------------------------------------------------
(* The agent implements RunLifecycle on what state.json says. *)

Outcome(r) ==
    CASE disk.states[r].status = "success"           -> "success"
      [] disk.states[r].status = "seen_with_failure" -> "gave_up"
      [] OTHER                                       -> "open"

Lifecycle == INSTANCE RunLifecycle WITH
    outcome   <- [r \in Runs |-> Outcome(r)],
    attempts  <- [r \in Runs |-> disk.states[r].attempts],
    announced <- sent,
    arrived   <- posted

ImplementsLifecycle == Lifecycle!Spec

-----------------------------------------------------------------------------
(* What the documentation says and the code does not do *)

(* README "detects newly failed or cancelled runs".                        *)
CancelledRunsAreDetected ==
    \A r \in Runs :
        conclusion[r] = "cancelled" ~> (cur = r \/ ~InWindow(r) \/ r \notin Page(RepoOf[r]))

(* poll_once: "Execute one full polling pass across all configured         *)
(* repositories".                                                          *)
PassCoversAllRepositories ==
    [][pc # "sleep" /\ pc' = "sleep" => repoIx > Len(Watch)]_vars

(* state.py: the module owns a "durable state file"; the next process must *)
(* be able to load it.                                                     *)
StateFileLoads == pc = "down" => file = "whole"

(* README's example maps three namespaces to one repository and branch: a  *)
(* run that all of them match is triaged for every one of them.            *)
EveryTargetIsTriaged ==
    \A r \in Runs : \A j \in 1 .. Len(Watch[RepoOf[r]]) :
        Eligible(r) /\ r \in Watch[RepoOf[r]][j]
            ~> (cur = r /\ targetIx = j) \/ ~Eligible(r)

=============================================================================
