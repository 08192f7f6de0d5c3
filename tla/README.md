# homelab-cloud: a verification project

homelab-cloud is a private cluster (k3s on spot nodes, Terraform, Helm charts, GitHub Actions)
and the four programs that run on it. This directory models the programs whose behaviour is hard
to test, in TLA+: TLC checks the models on small instances and TLAPS proves theorems about them
for every value of their constants. Paths below are relative to the repository.

## 1. Inventory

### A. control-plane-triage-agent (`apps/control-plane-triage-agent`, Python)

One process. The main thread polls GitHub Actions; a daemon thread holds the Discord gateway;
`asyncio.to_thread` workers run the blocking calls of both.

| part | state | operations |
| --- | --- | --- |
| `core/state.py` StateStore | `seen_run_ids` (newest 500), `run_states` per run, the same in `state.json` | `_load`, `get_retry_decision`, `record_failed_attempt`, `mark_seen`, `_write`, `get_status_counts` |
| `run_time/service.py` TriageService | the locals of the pass under way | `run_forever`, `poll_once`, `render_status`, `answer_operator_prompt` |
| `run_time/event_handlers.py`, `core/event_bus.py` | none between events | detected -> assembled -> diagnosed -> notified, each awaited |
| `functions/github_actions.py` | none (GitHub holds the runs) | `list_recent_runs`, `list_jobs`, `download_run_logs`, `match_runs` |
| `functions/discord.py` | gateway loop and client, messages in flight | `start`, `send`, `on_message`, `close` |
| `functions/diagnoser.py`, `core/openhands_runtime.py` | workspaces on disk: `incident-*`, `discord-operator-chat/*` | `run_incident_diagnosis`, `run_operator_reply`, retention |

Hard: a message and the record of it are two steps; the wait for Discord can end before Discord
does; every write of the file can fail or stop half way; the process can die anywhere; one
exception ends a pass; operator threads share files with each other and with the poll loop.
Correct means: bounded attempts, no success without a message, resends only with a cause, backoff
kept over restarts, no eligible run forgotten, one outcome per run; for the operator chat, an
answer belongs to its question and history stays in its budget.

### B. node-disk-janitor (`apps/node-disk-janitor`, Go)

One pod per node (a DaemonSet), all with the same cluster-wide duties. State: `lastSelfHealTime`,
`lastCleanupTime`, `lastClusterSweep` in memory. Operations: connectivity self-heal, host disk
cleanup with fallbacks, deletion of terminated pods of the node, cluster-wide deletion of finished
jobs and of empty namespaces. Hard: several janitors on stale lists, a namespace judged empty by
nine successive lists and then deleted by name, cooldowns lost on restart, partial failure of host
commands. Correct means: a namespace in use is not deleted, a sweep that failed is repeated, a
cooldown spaces heals, what is healthy is not restarted.

### C. chatgpt-mcp-hello (`apps/chatgpt-mcp-hello`, TypeScript)

An HTTP MCP server behind an in-memory OAuth provider (clients, codes, tokens), with a lazily
connected bridge to a child process that speaks MCP (`arch-mcp.ts`: client, connect promise, remote
tools). Hard: a bridge reset by the close of an old connection, a cache filled after an await, codes
redeemed twice, everything lost on restart. Correct means: a code yields one token, for its client;
no request passes with an expired, revoked or forgotten token; the bridge's fields name connections
that exist, and every request is answered.

### D. client (`apps/client`, Next.js)

Stateless: derives a status for every deployment, cron job and workload from lists of Kubernetes
objects (`lib/status.ts`, `lib/catalog.ts`). Hard: the latest run of a CronJob is told from times
that Kubernetes sets for some outcomes only, on a list that janitors delete from. Correct means: a
workload whose latest run failed is shown as degraded.

### E. CI/CD, charts, Terraform, docs

GitHub workflows deploy each app (concurrency groups, wait loops, retries) and run perf cadences;
the rest is declarative.

### How they interact

The workflows of E fail, A sees that through GitHub and reads the namespace through Kubernetes; B
removes finished jobs and empty namespaces that A and D look at; D reads what all of them leave in
the cluster; C is independent. All links are calls to GitHub, Kubernetes or Discord that may fail
or answer late; there is no shared memory between programs.

## 2. Plan

In order of importance:

1. **StateStore, RunLifecycle, TriageAgent, TriageAgentProofs** (done): the store, the abstract
   promise per run, the whole agent loop with its faults, and the theorems.
2. **OperatorChat, OperatorChatProofs, IncidentWorkspaces** (done): concurrent prompts of one
   conversation, stale `REPLY.md`, history trimming; retention, run by operator threads too,
   against a diagnosis under way.
3. **ClusterSweep, NodeJanitor, DashboardStatus** (done): the janitors of several nodes against
   users and each other, the self-heal and the disk cleanup, and what the dashboard shows of the
   cluster meanwhile.
4. **OAuthProvider, ArchBridge, McpServer** (done): codes and tokens, connections that die between
   awaits, and the requests that meet both.
5. **IncidentWorkspacesProofs, NodeJanitorProofs, LifecycleProofs** (done): the safety properties of
   the other components, and the refinement step by step.

A dozen runs in all: one or more per composed module, for its safety and its liveness, and one for
each disagreement between the code and what its documents say.

## 3. What is modelled

### StateStore.tla (`core/state.py`)

A store is a value `[seen, states]`; every method is an operator from stores to stores, so memory
and file are two stores and the same lemmas serve both. `seen` is the list with its cap (500 in the
code, `SeenCap` here), `states` maps each run to status, attempt count and `next_retry_at`; a run
without an entry has status `"absent"`. Times are clock ticks. `last_error` and `last_attempted_at`
are written and never read, and left out. Statuses the code never writes (`"unknown"` for a
hand-edited file) are left out too.

### TriageAgent.tla (`service.py`, `event_handlers.py`, `github_actions.py`, `discord.py`)

`pc` says where the single poll pass stands. Between two awaits nothing else of the main thread
runs, so each await and each call that can raise is a step of its own:

| pc | code | actions |
| --- | --- | --- |
| `sleep` | `time.sleep` in `run_forever` | `WakeUp` |
| `list` | loop over repositories | `ListRuns`, `ListRunsRaises`, `EndPass` |
| `match` | loop over targets | `MatchRuns`, `NextRepository` |
| `runs` | loop over matched runs, `get_retry_decision` | `SkipRun`, `DetectRun`, `NextTarget` |
| `assemble`, `diagnose` | first two handlers | `AssembleIncident`, `Diagnose`, `StageRaises` |
| `notify`, `sending` | `DiscordNotifier.send` | `StartSend`, `SendWithoutGateway`, `SendDelivered`, `SendRefused`, `SendTimesOut` |
| `mark` | `mark_seen` | `MarkRunSeen` |
| `failed` | except clause of `poll_once` | `RecordFailure` |
| `down` | the pod is gone | `Restart`, `RestartRaises` |

Around it: `Tick`, `CreateRun`, `CompleteRun` (GitHub), `LateMessage` (Discord delivers, or loses, a
message nobody waits for), `GatewayDies`, `Crash`. A write changes the image `disk`; one that raises
leaves the old image, or a truncated `file`. The webhook path of `send` has the same three outcomes
as the bot path, so one set of actions stands for both. The order of runs within a page is GitHub's,
so any order is allowed. Which runs pass the branch, name and id filters of a target is the constant
`Watch`; the filters on conclusion and age are actions, because they change with time. `Page` is
GitHub's answer: the newest `PerPage` runs.

History variables (`sent`, `posted`, `lastFail`, `evicted`, `crashes`, `writeFails`) are read by
no guard but those that bound faults.

Operators named `Op_What` are `Op` with a plausible bug; they show that a property notices it.

### RunLifecycle.tla

The abstract promise per run, with no loop, file or crash: open until closed by success or by
giving up after `MaxAttempts` failures, only open runs are announced, success needs an arrived
message, nothing reopens. The mapping reads outcome and attempts from `disk`: only what the file
says survives. It holds as long as writes do not fail and no run is pushed out of the seen list
(a late flush can record two failures at once, an evicted run is opened again); the run checks it
under exactly these bounds.

### OperatorChat.tla (`discord.py` on_message, `diagnoser.py`, `openhands_runtime.py`)

A thread of control per message, and the thread of the poll loop. Per channel or thread of Discord,
`reply` says whose answer `REPLY.md` holds and `history` how many entries `HISTORY.md` has.

| pc of a message | code | actions |
| --- | --- | --- |
| `new`, `queued` | `on_message`: filters, placeholder, `asyncio.to_thread` | `Receive`, `StartWorker` |
| `prompt`, `prompted` | status snapshot, `append_history_event("user")` | `AppendPrompt`, `TrimRead`, `TrimWrite`, `Converse` |
| `converse` | the OpenHands conversation | `WriteReply`, `FinishConversation` |
| `read` | `_read_output` | `ReadReply` |
| `answer`, `answered` | `append_history_event("assistant")` | `AppendAnswer`, `TrimRead`, `TrimWrite`, `StartSweep` |
| `sweep` | `_trim_operator_history` over all conversations | `SweepNext`, `TrimWrite`, `EndSweep` |
| `raised`, `deliver` | except clauses, final edit | `WorkerRaises`, `Excuse`, `Deliver` |

`_trim_file` is a read and a later write of the same file, without a lock, so any number of threads
can be between the two. `PollerSweeps` starts and ends the sweep that follows each diagnosis; what
the poll loop does otherwise is in TriageAgent. `WriteReply` may happen or not: the code asks the
model for the file and cannot make it write one.

Abstracted: `STATUS.md`, which each thread overwrites and only the model reads; the words of prompts
and answers (only whose answer it is counts); the byte budget, counted in entries of equal size; the
rewrite of a trimmed history in one step (threads that rewrite at once all write a tail within the
budget from the start of the file); a conversation writes `REPLY.md` at most once. `_trim_file` itself does not raise here. A configured
channel and one guild are assumed, as deployed, so the key of a conversation is its channel or
thread.

### IncidentWorkspaces.tla (`openhands_runtime.py`)

`dirs` and `mtime` are the workspaces on disk and their age. The poll loop goes from `StartDiagnosis`
through the conversation (external: it writes `DIAGNOSIS.md` or not, it may raise) to its pruning;
operator threads come to theirs by `OperatorReplyEnds`. A pruning is `ListWorkspaces` (globbing,
`stat` and the decision what to keep: one step), then one `RemoveWorkspace` per `rmtree`, then
`EndPruning`, with anything in between. A retry of a run rewrites `incident.json` in the old
directory, which does not renew its modification time; a new file does. `Restart` ends the process
anywhere and runs the constructor's pruning. A removed directory disappears in one step, and a
removal that fails (`ignore_errors`) is left out.

### ClusterSweep.tla, NodeJanitor.tla (`cleanup.go`, `janitor.go`, `connectivity.go`, `main.go`)

ClusterSweep has the cluster (external: users, the CronJob and namespace controllers, an outage)
and the deletions, one API call a step: `ListJobs`, `ListPodsOnNode`, `DeleteObject`,
`ListNamespaces`, `TakeNamespace`, `InspectKind` (one of the nine lists of
`NamespaceHasNoWorkloads`), `DeleteNamespace`. A name may mean something else by the time it is
deleted; the history `renewed` notes which. NodeJanitor puts them into the cycle:

| pc of a janitor | code | actions |
| --- | --- | --- |
| `asleep` | ticker in `main` | `StartCycle` |
| `heal`, `restart` | `runConnectivitySelfHealCycle` | `InspectHost`, `RunSelfHealScript` |
| `listJobs`, `deleteJobs` | `runFinishedJobCleanup` | `RunFinishedJobCleanup`, `SweepFails` |
| `listNamespaces`, `namespaces`, `inspectNamespace`, `deleteNamespace` | `runEmptyNamespaceCleanup` | `RunEmptyNamespaceCleanup`, `SweepFails`, `EndSweep` |
| `measure` | disk usage, trigger, cooldown | `Measure` |
| `listPods`, `deletePods`, `command` | `runDiskCleanup` | `DeleteTerminatedPods`, `RunHostCleanupCommand` |

Timers are kept as time since they were set, capped at their cooldown, where a timer that was never
set is one that has run out. `lastClusterSweep` becomes the time at which the sweep was found due,
so `sweepAge` counts from there. The host is a set of units that may stop (`ServiceStops`), may not
be installed (`fleet.units`) or may not start again (`fleet.broken`); a unit without a name is not
restarted, and a tailscaled that does not restart ends the script before k3s (`Restarted`). A node
without a Tailscale service is never healthy, so with `RESTART_K3S_ON_HEAL` its k3s is restarted
after every cooldown even when it runs; the model has this, and no document speaks of such a node.
`fleet`, chosen in `Init` and never changed, says which janitors run, what they are configured to
do and what may happen to them.

### DashboardStatus.tla (`client/lib/status.ts`)

The pure functions, as operators on values; NodeJanitor evaluates them on its cluster, for one
CronJob and one deployment (`ShownStatuses`, with the fall back to the catalog in an outage). A
failed job has no completion time, so it is sorted by its start: a run that starts in the very
second in which another succeeded may sort behind it, and its failure is not shown (`Shadowed`, which
also exempts runs whose order is lost because ages stop at `Horizon`).

### OAuthProvider.tla, ArchBridge.tla, McpServer.tla (`chatgpt-mcp-hello/src`)

OAuthProvider: clients, codes and tokens; a `/token` request asks for the challenge of its code and
exchanges it later, others in between (`exchange` holds those on their way). ArchBridge: the three
fields of the bridge, named by the transport they belong to (`client` and `transport` are set and
reset together, so one variable stands for both), and a state per transport. JavaScript runs to the
next await, so a settled connect moves all requests that wait for it in the same step (`Settle`).
`ConnectFails` leaves the transport `closing`: its close event comes later and resets the bridge
whatever it holds by then. McpServer: a request is authenticated once, lists tools, may call one,
and ends `denied`, `answered` or `failed`; `RestartProcess` forgets provider and bridge. `site`,
chosen in `Init`, says which requests, clients and codes are used.

Abstracted: redirects, scopes, resources and PKCE values; `warnedUnavailable`; the names of proxied
tools; the local tools, which keep no state.

## 4. Runs

| run | question | bounds and why they suffice |
| --- | --- | --- |
| `triage_retries` | do attempts, messages, file and backoff survive every fault? | one run (the pass is sequential and states of different runs are separate entries), `MaxAttempts = 3` with backoffs 1 and 2, so doubling and the limit are reached; `MaxTime = 5` leaves room for one attempt too many; two crashes and two failed writes, so that one fault can hit the recovery from another |
| `triage_eviction` | do list and outcomes agree when the list overflows? | two runs, a list of one entry; a failed write and a crash. A run pushed out is triaged over and over, `AtMostTwoMessages` stops that |
| `triage_liveness` | is every eligible run and every due retry taken up, and is RunLifecycle implemented? | two repositories with a run each, failing stages and late answers, one crash, `MaxAttempts = 2` |
| `triage_cancelled` | README: cancelled runs are detected | violated: `_TARGET_CONCLUSIONS` has only `failure` |
| `triage_pass_aborts` | `poll_once`: a pass covers all repositories | violated: a raising listing ends the pass |
| `triage_torn` | `state.py`: a durable state file | violated: a crash inside `write_text` leaves a file that no start can load |
| `triage_shared_repo` | README's example: three namespaces of one repository | violated: the run is triaged for the first target only |
| `operator_chat` | do histories keep their budget, answers their channel, and does every placeholder go? | two prompts in a channel and one in its thread, so that both sharing and separation occur; two executor threads for three prompts, so that one waits; a budget of one entry, exceeded by a single question and answer; reading the status or the reply may raise |
| `operator_stale` | `diagnoser.py`: a conversation without `REPLY.md` is refused | violated: an older or concurrent conversation's `REPLY.md` is shown |
| `incident_workspaces` | is disk use bounded, and which diagnosis can lose its workspace while it runs? | three runs of which two workspaces may stay, so that one must go; the poll loop and two operator threads, so that stale lists overlap; `MaxAge = 2` of five changes or days, so that age decides too; one restart |
| `janitor_fleet` | what do janitors delete from stale lists, what is shown meanwhile, and do sweeps, heals and cleanups come back? | seven fleets, one per part of the janitor; two janitors where they meet (namespaces, jobs); graces and cooldowns of 1 (2 for the disk cleanup), `Horizon = 2`, the first age that no part of the code tells from a later one; three of the nine kinds, so that a first, a middle and a last list exist; one restart, outages at any time |
| `mcp_server` | are codes worth one token, do requests pass with live tokens only, do the bridge's fields stay consistent, is every request answered? | one site where two clients contend for two codes through two exchanges, one where two requests share a bridge over three transports; two connects that fail, so that two late close events meet a newer connection; one restart; tokens that live one tick |

The safety properties of the triage agent:

- `AttemptsBounded`: no run outside `evicted` has more than `MaxAttempts` failures, in memory or on disk.
- `SuccessWasPosted`: a success on record means the message is in the channel.
- `ClosedRunsAreSeen`: an outcome and the seen list of the same store agree.
- `MessagesBounded`: `sent <= attempts on disk + crashes + failed writes + 1`, so that every resend
  has a cause, and nothing arrives that was not sent.
- `DiskIsCurrent`: until a write fails, the file equals memory.
- `BackoffHonoured`: no `DetectRun` before the backoff of the last recorded failure is over.

Those of the operator chat:

- `HistoryBounded`: a history holds at most its budget and one entry per thread that has appended
  and is about to trim, however many threads read and rewrite it at once.
- `AnswersStayInConversation`: what is shown below a message was written for a message of the same
  channel or thread. It may be another message of it: that is `operator_stale`.
- `EveryPromptIsAnswered` (liveness): a placeholder ends as an answer or an excuse.

Those of the workspaces:

- `WorkspacesBounded`: beyond `INCIDENT_RETENTION_MAX_COUNT` there are only workspaces made since
  the last pruning that ended took its list. A conversation that raises is not followed by a
  pruning, so the README's bound holds in this form only.
- `RunningWorkspaceIsKept`: a thread removes the workspace under a running conversation only if it
  listed before that diagnosis began or after it had outlived the age window, or if the diagnosis is
  a retry in an old workspace. Without either exemption TLC finds the removal: retention really
  takes the workspace of a retry.

Those of the janitors:

- `OnlyFinishedAreDeleted`, `NamespaceSeenEmpty`: what is deleted by name was finished for its grace
  period, or old, unprotected and seen empty, unless it was made again since it was listed. The
  exemptions are needed: the code deletes what was made in between.
- `FailureIsShown`: janitors and dashboard together keep a failed latest run visible for its grace
  period, but for the shadowed runs above.
- `EmptyNamespaceIsDeleted`, `StoppedK3SIsRestarted`, `FullDiskIsCleaned` (liveness): an empty
  namespace does not stay, a stopped k3s is started if both units can be started, a full disk is
  cleaned again.

Those of the MCP server:

- `ReferencesAreLive`: nothing waits on, or names, a connection that is gone; a field left behind by
  a reset would make every later request wait for nothing.
- `LeaksArePaidFor`: a child process that the bridge no longer knows is paid for by a connect that
  failed. Such processes do occur; requests alone leave none behind.
- `CacheIsCurrent`: until a connect fails, the cached tools are those of the current process.
- `OneTokenPerCode`, `AdmittedWithLiveToken`: across contending exchanges, expiry, revocation and
  restarts. A token is looked at once: it may expire while its request runs.
- `EveryRequestEnds` (liveness): an admitted request is answered, with an error if need be.

Liveness of the triage agent assumes weak fairness of the agent's own step and of `Restart`: `run_forever` catches every
exception and always takes its next step, GitHub and Discord calls have timeouts of 30 or 60
seconds (a diagnosis is bounded by its iteration count, and a model call that hangs for ever is
outside the model), and Kubernetes restarts a dead pod. Nothing is assumed of the clock, GitHub, the
gateway or late messages. Both liveness properties exempt a run that leaves the lookback window or
the page: the code really drops it then.

Liveness of the chat assumes weak fairness of each message's own steps: the system schedules threads,
the executor takes queued commands in order, `max_iterations` (at most 8) ends each conversation, and
Discord takes edits. Nothing is assumed of what the model writes or of the poll loop.

Liveness of the janitors assumes weak fairness of each janitor's next step and of the clock, and that
calls are answered from some time on (`Reliable`): the ticker fires for ever, `main` only logs the
error of a cycle, and a pod that dies is restarted (here at once). Nothing is assumed of users, and
services may stop again and again. Liveness of the MCP server assumes weak fairness of a request's
steps and of a connect under way: the event loop runs, and the SDK bounds each request to the child,
initialize included, by a timeout. Nothing is assumed of the child processes and of close events.

Deadlock is checked in every passing run; none of the systems ever ends, so there is none.

## 5. Proofs

### TriageAgentProofs.tla

For every set of runs, watch list, cap, limit, backoff and fault, from the assumptions named in
StateStore and TriageAgent only (finitely many runs, naturals where the configuration has
naturals, `MaxAttempts` and `SeenCap` at least 1, the backoff products natural):

- `TypeCorrect`: `Spec => []TypeOK`; `AddSeenType` is the lemma that the trimmed list keeps its cap.
- `AttemptsAreBounded`, `SuccessImpliesPosted`, `ClosedImpliesSeen` come from one inductive
  invariant, `OutcomeInv`. The three properties are not inductive by themselves: nothing in them
  says why a run at the limit is not tried again. `OutcomeOK` adds that such a run is in the seen
  list (or evicted), and `OutcomeInv` that the run in hand is below the limit, which `DetectRun`
  gets from `has_seen`, and that a run being marked has a message in the channel. `OutcomeOK` takes the store as a parameter: `Restart`,
  a returning write and a crash only move a store that has it from one variable to another.
- `DiskStaysCurrent` comes from `FileInv`: memory is never behind the file, and a run in the first
  triage stages was not in the file's seen list.
- `MessagesAreBounded` comes from `MessageInv` over `FileInv`: each message is charged to a recorded
  failure, a crash or a failed write, the one on top is the attempt under way or the recorded success.
- `RetriesWaitOutBackoff` is the action property, from `BackoffInv`: until a write fails, what the
  file says about a failed run is the time of its last failure plus its backoff.

### OperatorChatProofs.tla

For every set of messages and channels, any number of executor threads, any budget and any set of
steps that raise, from the assumptions named in OperatorChat:

- `ChatTypeCorrect`: `Spec => []TypeOK`.
- `HistoryStaysBounded`: `HistoryBounded` is inductive over `TypeOK`. `AppendStep` charges each new
  entry to its own thread (`Pending`); `TrimStep` shows that a thread leaves `Pending` only when
  it saw a history within budget or wrote one; `MoveStep` that all other moves keep `Pending`.
- `AnswersStayInChannel`: from `ChannelInv`, which says the same of `REPLY.md` and of what a worker
  has read from it. The property alone is not inductive: it says nothing of answers on the way.

### McpServerProofs.tla

For any requests, clients, codes and tokens, finitely many transports, any number of failures, from
the assumptions named in ArchBridge, OAuthProvider and McpServer:

- `ServerTypeCorrect`: `Spec => []TypeOK`, each module's part by a lemma of its own.
- `ReferencesStayLive`: `ReferencesAreLive` is inductive over `TypeOK`. `BecomesLive` is the case
  common to the steps of a request that go on with a connection: what it waits for is connecting, what
  it uses is up. `LiveRequestStep` and `LiveArchStep` are the steps of requests and of the child.
- `CacheStaysCurrent` comes from `NoFailureInv`: while nothing has failed, every open transport is the
  client or the one being connected, and cached tools are the client's.
- `LeaksStayPaidFor` comes from `PaidInv`: open transports are at most the failures plus those that the
  bridge knows, which `KnownSize` shows to be one at most; the cardinalities are by FiniteSetTheorems.
- `CodesAreWorthOneToken`: `OneTokenPerCode` is inductive over `TypeOK`.
- `AdmissionNeedsLiveToken` is the action property, from `TokenInv` (a token in the map has a
  grant and was never withdrawn) and from `OnlyAuthenticateAdmits`: no other step admits a request.

### LifecycleProofs.tla

The refinement of RunLifecycle, one abstract action at a time: `StartSend` is `Announce`,
`SendDelivered` and a late message that arrives are `Arrive`, `RecordFailure` is `Fail`, `MarkRunSeen`
is `Succeed`, every other step (crash and restart included) stutters.

- `UndisturbedLifecycle`: every behaviour of `Spec` that stays `Undisturbed` (no failed write, nothing
  pushed out of the seen list) implements RunLifecycle. `OpenInv` says that the run in hand is open in the
  file; `DetectedIsOpen` gets it from `has_seen` by `OutcomeInv` and `DiskIsCurrent`. The guards of the
  abstract actions come from the invariants above: `attempts < MaxAttempts` and the arrived message from
  `OutcomeInv`, `arrived < announced` from `MessageInv`.
- `AgentImplementsLifecycle`: the same from the configuration, `MaxWriteFails = 0` and
  `Cardinality(Runs) <= SeenCap` (500 in the code). `AddSeenCounted` shows that the seen list has no
  duplicates, so that it never overflows. Crashes, and all faults but failing writes, are allowed.

Without these hypotheses the refinement is false, see RunLifecycle above.

### IncidentWorkspacesProofs.tla

For any runs, threads, restarts and limits, over `ConversationInv` (a conversation is about a run). A
set of naturals has a least element (`LeastNatural`, in NaturalLemmas.tla, from the library's
well-founded induction), which is what counting by age needs.

- `WorkspacesTypeCorrect`: `Spec => []TypeOK`.
- `WorkspacesStayBounded`: alone, the bound says nothing of what an unfinished pruning has still to
  remove. `ListInv` adds that a thread's kept, still to be removed, and new since its list are all
  there is, and that it keeps `MaxCount` at most. `KeptBounded` proves that: no two workspaces are of
  one age (`TimesInv`), so all others that are kept are newer than the oldest one kept, which has fewer
  than `MaxCount` newer ones.
- `RunningWorkspaceStays`, the action property, from `NewestInv`: the workspace of a first attempt is the
  newest of all while its conversation runs, so a pruning keeps it unless it is past `MaxAge`.

### NodeJanitorProofs.tla

For any nodes, namespaces, objects and fleets, any order of inspection, graces and cooldowns:

- `JanitorTypeCorrect`: `TypeOK` is not inductive, because a sweep is well typed only if the loop it is in
  holds names of the right sort. `Cursor` adds, by `pc`, what `todo`, `at` and `listed` may be.
  `JanitorCases` sorts the steps of a janitor into those that sweep and those that leave sweeps alone,
  and `SweepsAreLocal` says that they touch the cursor of their own janitor only.
- `DeletedAreFinished`, `DeletedNamespaceSeenEmpty`, the action properties, from `ListInv`: what is to
  be deleted is finished and old enough (`FinishedAt`, `OldAt`), and what the namespace at hand holds of
  the kinds listed so far is new (`EmptyAt`), always but for names used again. `NothingCreated` is
  the case common to all steps but the two that create: lists only get shorter, ages only grow.
- `FailureStaysShown`, from `RunsInv`. The property is about what the dashboard computes from a list;
  the invariant is about the runs that are in it: while a failure is to be shown, no run of the CronJob
  is under way, and some failed run, as old as the failure, started after every success ended
  (`LatestFailure`). `OneRunInv` is why that is so when a run fails: it began after everything before
  it had ended. A janitor cannot delete the failed run, by its age, nor a new one of its name
  (`RunNamesInv`), and `LastRunFailed` computes what the dashboard sorts first.

The last proof corrected the model: ages are capped at `Horizon`, so with a grace of two or more a run
that started at the cap could not be told from a success of that age, and the property was false for
such constants (TLC finds it with `FinishedJobGrace = 2`, `Horizon = 4`). `Shadowed` now covers those
runs; in the code, where times do not saturate, there are none.

### What is only model-checked

The liveness properties and everything under fairness (`Spec` is proved about without it, and the
prover has no rule for `ENABLED`), and the violations. Every invariant, action property and refinement
that a passing run checks is stated by a theorem.

## 6. Not modelled, and why

A re-run of a workflow under its old id: GitHub reopens a run that the store has closed, and the
agent skips it. CI/CD workflows: concurrency groups, retries and wait loops are interpreted by
GitHub, so a model would be of GitHub; the scripts around them are one-shot. The finding of unit names
by the inspection script, redirects and scopes of OAuth, the names of proxied tools and the local
tools of the MCP server, log excerpts, message layout, summaries of the dashboard, tracing,
configuration parsing: no state, or text only. Pages of the dashboard; charts, Terraform and docs
(declarative).
PROJECT.json lists every component with its status and every hazard with the properties that cover it.
