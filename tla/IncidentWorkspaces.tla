------------------------- MODULE IncidentWorkspaces -------------------------
(***************************************************************************)
(* The incident workspaces of the triage agent: run_incident_diagnosis and *)
(* _prune_incident_workspaces of core/openhands_runtime.py.                *)
(*                                                                         *)
(* The poll loop diagnoses one run at a time and then prunes; worker       *)
(* threads of operator replies prune beside it.  A pruning thread takes    *)
(* the directories and their modification times first and removes the      *)
(* stale ones later, one after the other.                                  *)
(*                                                                         *)
(* A directory is as old as the last file created in it: writing           *)
(* incident.json once more does not renew it, a new DIAGNOSIS.md does.     *)
(* External: the conversation, which may raise or write no diagnosis.      *)
(***************************************************************************)
EXTENDS Integers, FiniteSets

CONSTANTS
    Runs,          \* failed workflow runs
    NoRun,
    Poller,        \* the thread of the poll loop
    Operators,     \* worker threads of operator replies
    MaxCount,      \* INCIDENT_RETENTION_MAX_COUNT
    MaxAge,        \* INCIDENT_RETENTION_MAX_AGE_DAYS, in units of the clock
    LastTime,      \* bound: the clock stops
    MaxRestarts    \* bound: restarts of the process

Threads == Operators \cup {Poller}

ASSUME WorkspacesAssumption ==
    /\ IsFiniteSet(Runs) /\ NoRun \notin Runs /\ Poller \notin Operators
    /\ MaxCount \in Nat \ {0} /\ {MaxAge, LastTime, MaxRestarts} \subseteq Nat

VARIABLES
    now,          \* the clock; no two changes of a directory are at one time
    dirs,         \* workspaces on disk
    mtime,        \* modification time of a workspace
    diagnosed,    \* workspaces that hold a DIAGNOSIS.md
    current,      \* run that the poll loop diagnoses, or NoRun
    pc,           \* where a thread stands
    victims,      \* workspaces that the thread will remove
    kept,         \* workspaces that it decided to keep
    since,        \* history: workspaces made since the thread listed them
    lastKept,     \* history: kept and since of the last pruning that ended
    sinceLast,
    fresh,        \* history: the current diagnosis made its workspace
    excused,      \* history: threads that listed before it began, or when it was past MaxAge
    restarts

dirVars == <<dirs, mtime, diagnosed>>
pruneVars == <<victims, kept, since, lastKept, sinceLast>>
vars == <<now, dirVars, current, pc, pruneVars, fresh, excused, restarts>>

TypeOK ==
    /\ now \in 0..LastTime /\ restarts \in 0..MaxRestarts
    /\ dirs \in SUBSET Runs /\ diagnosed \in SUBSET dirs
    /\ mtime \in [Runs -> 0..LastTime]
    /\ current \in Runs \cup {NoRun}
    /\ pc \in [Threads -> {"idle", "conversation", "prune", "remove"}]
    /\ victims \in [Threads -> SUBSET Runs] /\ kept \in [Threads -> SUBSET Runs]
    /\ since \in [Threads -> SUBSET Runs]
    /\ lastKept \in SUBSET Runs /\ sinceLast \in SUBSET Runs
    /\ fresh \in BOOLEAN /\ excused \in SUBSET Threads

(* The constructor of OpenHandsRuntime prunes what an earlier process left. *)
Init ==
    /\ now = 0 /\ restarts = 0
    /\ dirs = {} /\ diagnosed = {} /\ mtime = [i \in Runs |-> 0]
    /\ current = NoRun
    /\ pc = [t \in Threads |-> IF t = Poller THEN "prune" ELSE "idle"]
    /\ victims = [t \in Threads |-> {}] /\ kept = [t \in Threads |-> {}]
    /\ since = [t \in Threads |-> {}]
    /\ lastKept = {} /\ sinceLast = {}
    /\ fresh = FALSE /\ excused = {}

-----------------------------------------------------------------------------
Goto(t, where) == pc' = [pc EXCEPT ![t] = where]

(* The directory of i is made, or a file is created in it.                 *)
Touch(i) ==
    /\ now < LastTime /\ now' = now + 1
    /\ dirs' = dirs \cup {i}
    /\ mtime' = [mtime EXCEPT ![i] = now']
    /\ IF i \in dirs
       THEN UNCHANGED <<since, sinceLast>>
       ELSE /\ since' = [t \in Threads |-> IF pc[t] = "remove" THEN since[t] \cup {i} ELSE {}]
            /\ sinceLast' = sinceLast \cup {i}

(* mkdir with exist_ok, and incident.json.                                 *)
StartDiagnosis(i) ==
    /\ pc[Poller] = "idle" /\ current = NoRun
    /\ current' = i
    /\ Goto(Poller, "conversation")
    /\ IF i \in dirs THEN UNCHANGED <<now, dirs, mtime, since, sinceLast>> ELSE Touch(i)
    /\ fresh' = (i \notin dirs)
    /\ excused' = {t \in Threads : pc[t] = "remove"}
    /\ UNCHANGED <<diagnosed, victims, kept, lastKept, restarts>>

(* The model creates DIAGNOSIS.md, in a directory of its own if need be,   *)
(* or rewrites it.                                                         *)
WriteDiagnosis ==
    /\ pc[Poller] = "conversation" /\ current \notin diagnosed
    /\ Touch(current)
    /\ diagnosed' = diagnosed \cup {current}
    /\ UNCHANGED <<current, pc, victims, kept, lastKept, fresh, excused, restarts>>

(* The output is read, whichever attempt it is of, or missed: retention    *)
(* applies before the diagnoser refuses.                                   *)
FinishDiagnosis ==
    /\ pc[Poller] = "conversation"
    /\ current' = NoRun
    /\ Goto(Poller, "prune")
    /\ UNCHANGED <<now, dirVars, pruneVars, fresh, excused, restarts>>

(* No retention after a conversation that raises.                          *)
DiagnosisRaises ==
    /\ pc[Poller] = "conversation"
    /\ current' = NoRun
    /\ Goto(Poller, "idle")
    /\ UNCHANGED <<now, dirVars, pruneVars, fresh, excused, restarts>>

OperatorReplyEnds(t) ==
    /\ t \in Operators /\ pc[t] = "idle"
    /\ Goto(t, "prune")
    /\ UNCHANGED <<now, dirVars, current, pruneVars, fresh, excused, restarts>>

-----------------------------------------------------------------------------
(* _prune_incident_workspaces *)

Young(i) == now - mtime[i] <= MaxAge

Ahead_Older(i) == {j \in dirs : mtime[j] < mtime[i]}

(* The workspaces ranked before i, newest first.                           *)
Ahead(i) == {j \in dirs : mtime[j] > mtime[i]}

Kept_Larger == {i \in dirs : Young(i) /\ Cardinality({j \in Ahead(i) : Young(j)}) <= MaxCount}

Kept == {i \in dirs : Young(i) /\ Cardinality({j \in Ahead(i) : Young(j)}) < MaxCount}

ListWorkspaces(t) ==
    /\ pc[t] = "prune"
    /\ kept' = [kept EXCEPT ![t] = Kept]
    /\ victims' = [victims EXCEPT ![t] = dirs \ Kept]
    /\ since' = [since EXCEPT ![t] = {}]
    /\ Goto(t, "remove")
    /\ excused' = IF current # NoRun /\ ~Young(current) THEN excused \cup {t} ELSE excused
    /\ UNCHANGED <<now, dirVars, current, lastKept, sinceLast, fresh, restarts>>

Rmtree_KeepsFiles(i) == dirs' = dirs \ {i} /\ UNCHANGED diagnosed

(* With whatever has the name by now, or nothing.                          *)
Rmtree(i) == dirs' = dirs \ {i} /\ diagnosed' = diagnosed \ {i}

RemoveWorkspace(t) ==
    /\ pc[t] = "remove"
    /\ \E i \in victims[t] : victims' = [victims EXCEPT ![t] = @ \ {i}] /\ Rmtree(i)
    /\ UNCHANGED <<now, mtime, current, pc, kept, since, lastKept, sinceLast, fresh, excused, restarts>>

EndPruning(t) ==
    /\ pc[t] = "remove" /\ victims[t] = {}
    /\ lastKept' = kept[t] /\ sinceLast' = since[t]
    /\ kept' = [kept EXCEPT ![t] = {}] /\ since' = [since EXCEPT ![t] = {}]
    /\ Goto(t, "idle")
    /\ excused' = excused \ {t}
    /\ UNCHANGED <<now, dirVars, current, victims, fresh, restarts>>

-----------------------------------------------------------------------------
DayPasses ==
    /\ now < LastTime /\ now' = now + 1
    /\ UNCHANGED <<dirVars, current, pc, pruneVars, fresh, excused, restarts>>

(* The process stops anywhere and starts again with its constructor.       *)
Restart ==
    /\ restarts < MaxRestarts /\ restarts' = restarts + 1
    /\ current' = NoRun /\ fresh' = FALSE /\ excused' = {}
    /\ pc' = [t \in Threads |-> IF t = Poller THEN "prune" ELSE "idle"]
    /\ victims' = [t \in Threads |-> {}] /\ kept' = [t \in Threads |-> {}]
    /\ since' = [t \in Threads |-> {}]
    /\ UNCHANGED <<now, dirVars, lastKept, sinceLast>>

Next ==
    \/ \E i \in Runs : StartDiagnosis(i)
    \/ WriteDiagnosis \/ FinishDiagnosis \/ DiagnosisRaises
    \/ \E t \in Threads :
         OperatorReplyEnds(t) \/ ListWorkspaces(t) \/ RemoveWorkspace(t) \/ EndPruning(t)
    \/ DayPasses \/ Restart

Spec == Init /\ [][Next]_vars

-----------------------------------------------------------------------------
(* README "keeps disk usage bounded by pruning old incident workspaces":   *)
(* beyond INCIDENT_RETENTION_MAX_COUNT there are only workspaces made      *)
(* since the last pruning that ended took its list, however prunings,      *)
(* diagnoses and restarts interleave.  Diagnoses that raise prune nothing, *)
(* so this is the most that can be said.                                   *)
WorkspacesBounded ==
    /\ dirs \subseteq lastKept \cup sinceLast
    /\ Cardinality(lastKept) <= MaxCount

(* A thread removes the workspace under a running conversation only if it  *)
(* listed the directories before that diagnosis began, or if the diagnosis *)
(* is a retry in a workspace of an earlier attempt, which keeps its age.   *)
RunningWorkspaceIsKept ==
    [][\A t \in Threads :
         pc[Poller] = "conversation" /\ current \in victims[t] \ victims'[t] /\ restarts' = restarts =>
             t \in excused \/ ~fresh]_vars

=============================================================================
