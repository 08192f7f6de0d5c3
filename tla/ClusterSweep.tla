---------------------------- MODULE ClusterSweep ----------------------------
(***************************************************************************)
(* The deletions of the node-disk-janitor (internal/cleanup/cleanup.go)    *)
(* beside the users, controllers and other janitors of the cluster.        *)
(*                                                                         *)
(* Every janitor lists, decides on what it listed and deletes by name, one *)
(* API call a step; what a name stands for may have changed meanwhile.     *)
(* The API server is external: a namespace, its phase and its contents;    *)
(* pods, jobs and other objects with the time since they ended.            *)
(*                                                                         *)
(* Abstracted: ages are counted in ticks, and no further than the code or  *)
(* the dashboard can tell; the order of items in a list; the deletion      *)
(* timestamps of jobs and pods (they go at once).                          *)
(***************************************************************************)
EXTENDS Integers, Sequences, FiniteSets

CONSTANTS
    Nodes,                \* every node runs one janitor
    Namespaces,
    Objects,              \* names of pods, jobs and other namespaced objects
    KindOf,               \* KindOf[o]: kind of object o
    NsOf,                 \* NsOf[o]: namespace of object o
    NodeOf,               \* NodeOf[o]: node of pod o
    CronRuns,             \* the jobs that a CronJob creates
    Fleets,               \* JanitorConfigs and clusters of the instance
    Protected,            \* EMPTY_NAMESPACE_PROTECTED_NAMESPACES
    InspectOrder,         \* kinds that NamespaceHasNoWorkloads lists, in order
    NoNamespace,
    FinishedJobGrace, EmptyNamespaceGrace, TerminatedPodGrace,
    Horizon               \* bound: ages of jobs and pods are not counted further

Fleet ==
    [janitors : SUBSET Nodes,   \* nodes whose janitor runs
     does : SUBSET {"heal", "restartK3S", "jobs", "namespaces", "pods"},
     names : SUBSET (Namespaces \cup Objects),   \* what users create and delete
     units : SUBSET {"tailscaled", "k3s"},       \* services installed on the nodes
     broken : SUBSET {"tailscaled", "k3s"},      \* services that do not start again
     faults : SUBSET {"tailscaled", "k3s", "peer", "disk", "outage", "restart"}]

ASSUME GraceAssumption ==
    /\ {Horizon, EmptyNamespaceGrace} \subseteq Nat
    /\ {FinishedJobGrace, TerminatedPodGrace} \subseteq 0..Horizon
ASSUME ClusterAssumption ==
    /\ NsOf \in [Objects -> Namespaces] /\ NoNamespace \notin Namespaces
    /\ Namespaces \cap Objects = {}
    /\ CronRuns \subseteq {o \in Objects : KindOf[o] = "Job"} /\ Protected \subseteq Namespaces
    /\ InspectOrder \in Seq(STRING) /\ Len(InspectOrder) > 0
    /\ Fleets \subseteq Fleet

VARIABLES
    fleet,       \* chosen once, by the deployment
    outage,      \* API server and host answer no call
    phase,       \* phase of a namespace, "absent" when there is none
    nsAge,       \* ticks since the namespace was created
    status,      \* of an object, "absent" when there is none
    started,     \* ticks since a run of the CronJob started
    ended,       \* ticks since a pod or job finished
    failedFor,   \* history: ticks since the latest run failed, up to its grace period
    pc,          \* where a janitor stands in its maintenance cycle
    todo,        \* names that the janitor listed and has not looked at yet
    at,          \* namespace that it inspects, or NoNamespace
    listed,      \* kinds found empty in that namespace
    renewed      \* history: names of todo and at, or in at, created since they were listed

objectVars == <<phase, nsAge, status, started, ended, failedFor>>
sweepVars == <<todo, at, listed, renewed>>

Jobs == {o \in Objects : KindOf[o] = "Job"}
Pods == {o \in Objects : KindOf[o] = "Pod"}
InspectedKinds == {InspectOrder[i] : i \in 1..Len(InspectOrder)}

NotFailing == FinishedJobGrace
Finished == {"succeeded", "failed"}

Exists(o) == status[o] # "absent"
In(ns) == {o \in Objects : NsOf[o] = ns /\ Exists(o)}

-----------------------------------------------------------------------------
(* The cluster: users, controllers and the API server *)

(* The objects of os are removed.                                          *)
Remove(os) ==
    /\ status' = [o \in Objects |-> IF o \in os THEN "absent" ELSE status[o]]
    /\ started' = [o \in Objects |-> IF o \in os THEN 0 ELSE started[o]]
    /\ ended' = [o \in Objects |-> IF o \in os THEN 0 ELSE ended[o]]

(* Janitor n is about to delete x, or the namespace that x appears in.     *)
Concerns(n, x) == x \in todo[n] \cup {at[n]} \/ (x \in Objects /\ NsOf[x] = at[n])

Renew(x) ==
    renewed' = [n \in Nodes |-> IF Concerns(n, x) THEN renewed[n] \cup {x} ELSE renewed[n]]

CreateNamespace(ns) ==
    /\ ns \in fleet.names /\ phase[ns] = "absent"
    /\ phase' = [phase EXCEPT ![ns] = "Active"]
    /\ nsAge' = [nsAge EXCEPT ![ns] = 0]
    /\ Renew(ns)
    /\ UNCHANGED <<fleet, outage, status, started, ended, failedFor, pc, todo, at, listed>>

UserDeletesNamespace(ns) ==
    /\ ns \in fleet.names /\ phase[ns] = "Active"
    /\ phase' = [phase EXCEPT ![ns] = "Terminating"]
    /\ UNCHANGED <<fleet, outage, nsAge, status, started, ended, failedFor, pc>>
    /\ UNCHANGED sweepVars

(* The namespace controller removes the contents and then the namespace.   *)
FinalizeNamespace(ns) ==
    /\ phase[ns] = "Terminating"
    /\ phase' = [phase EXCEPT ![ns] = "absent"]
    /\ nsAge' = [nsAge EXCEPT ![ns] = 0]
    /\ Remove(In(ns))
    /\ failedFor' = IF In(ns) \cap CronRuns = {} THEN failedFor ELSE NotFailing
    /\ UNCHANGED <<fleet, outage, pc>> /\ UNCHANGED sweepVars

(* The CronJob creates a run under a new name, and none while one is       *)
(* active (concurrencyPolicy Forbid in the charts).                        *)
MayStart(o) ==
    o \in CronRuns =>
        /\ \A r \in CronRuns : status[r] # "running"
        /\ \A n \in Nodes : o \notin todo[n]

CreateObject(o) ==
    /\ o \in fleet.names /\ phase[NsOf[o]] = "Active" /\ ~Exists(o) /\ MayStart(o)
    /\ status' = [status EXCEPT ![o] = "running"]
    /\ failedFor' = IF o \in CronRuns THEN NotFailing ELSE failedFor
    /\ Renew(o)
    /\ UNCHANGED <<fleet, outage, phase, nsAge, started, ended, pc, todo, at, listed>>

(* Another run succeeded in the second in which r started, or the horizon  *)
(* is too near to tell for a grace period which of the two came first.     *)
Shadowed(r) ==
    \E q \in CronRuns \ {r} :
        /\ status[q] = "succeeded"
        /\ ended[q] = started[r] \/ started[r] + FinishedJobGrace > Horizon

Finish(o, outcome) ==
    /\ o \in fleet.names \cap (Jobs \cup Pods) /\ status[o] = "running"
    /\ status' = [status EXCEPT ![o] = outcome]
    /\ failedFor' = IF o \in CronRuns /\ outcome = "failed" /\ ~Shadowed(o)
                    THEN 0 ELSE failedFor
    /\ UNCHANGED <<fleet, outage, phase, nsAge, started, ended, pc>>
    /\ UNCHANGED sweepVars

(* Pods of a deployment become ready, or stop being so.                    *)
ChangeReadiness(o) ==
    /\ o \in fleet.names /\ KindOf[o] = "Deployment" /\ Exists(o)
    /\ status' = [status EXCEPT ![o] = IF @ = "running" THEN "unready" ELSE "running"]
    /\ UNCHANGED <<fleet, outage, phase, nsAge, started, ended, failedFor, pc>>
    /\ UNCHANGED sweepVars

UserDeletesObject(o) ==
    /\ o \in fleet.names /\ Exists(o)
    /\ Remove({o})
    /\ failedFor' = IF o \in CronRuns THEN NotFailing ELSE failedFor
    /\ UNCHANGED <<fleet, outage, phase, nsAge, pc>> /\ UNCHANGED sweepVars

OutageStartsOrEnds ==
    /\ "outage" \in fleet.faults
    /\ outage' = ~outage
    /\ UNCHANGED <<fleet, pc>> /\ UNCHANGED objectVars /\ UNCHANGED sweepVars

UsersNext ==
    \/ \E ns \in Namespaces :
         CreateNamespace(ns) \/ UserDeletesNamespace(ns) \/ FinalizeNamespace(ns)
    \/ \E o \in Objects :
         CreateObject(o) \/ ChangeReadiness(o) \/ UserDeletesObject(o)
         \/ \E outcome \in Finished : Finish(o, outcome)
    \/ OutageStartsOrEnds

-----------------------------------------------------------------------------
(* DeleteFinishedJobsClusterWide and DeleteTerminatedPodsOnNode *)

Goto(n, where) == pc' = [pc EXCEPT ![n] = where]

(* The janitor n has found names to look at, one after the other.          *)
Found(n, names) ==
    /\ todo' = [todo EXCEPT ![n] = names]
    /\ renewed' = [renewed EXCEPT ![n] = {}]
    /\ UNCHANGED <<at, listed>>

IsFinishedJob_AnyAge(o) == o \in Jobs /\ status[o] \in Finished

IsFinishedJob(o) ==
    o \in Jobs /\ status[o] \in Finished /\ ended[o] >= FinishedJobGrace

IsTerminatedPod(o) ==
    o \in Pods /\ status[o] \in Finished /\ ended[o] >= TerminatedPodGrace

ListJobs(n, next) ==
    /\ ~outage
    /\ Found(n, {o \in Jobs : IsFinishedJob(o)})
    /\ Goto(n, next)
    /\ UNCHANGED <<fleet, outage>> /\ UNCHANGED objectVars

ListPodsOnNode(n, next) ==
    /\ ~outage
    /\ Found(n, {o \in Pods : NodeOf[o] = n /\ IsTerminatedPod(o)})
    /\ Goto(n, next)
    /\ UNCHANGED <<fleet, outage>> /\ UNCHANGED objectVars

(* By name: NotFound counts as deleted, any other error is logged.         *)
DeleteObject(n) ==
    /\ pc[n] \in {"deleteJobs", "deletePods"}
    /\ \E o \in todo[n] :
         /\ todo' = [todo EXCEPT ![n] = @ \ {o}]
         /\ IF outage THEN UNCHANGED <<status, started, ended>> ELSE Remove({o})
    /\ UNCHANGED <<fleet, outage, phase, nsAge, failedFor, pc, at, listed, renewed>>

-----------------------------------------------------------------------------
(* DeleteEmptyNamespacesClusterWide *)

IsNamespaceCleanupCandidate_Young(ns) ==
    phase[ns] = "Active" /\ nsAge[ns] < EmptyNamespaceGrace /\ ns \notin Protected

IsNamespaceCleanupCandidate(ns) ==
    phase[ns] = "Active" /\ nsAge[ns] >= EmptyNamespaceGrace /\ ns \notin Protected

ListNamespaces(n, next) ==
    /\ ~outage
    /\ Found(n, {ns \in Namespaces : IsNamespaceCleanupCandidate(ns)})
    /\ Goto(n, next)
    /\ UNCHANGED <<fleet, outage>> /\ UNCHANGED objectVars

TakeNamespace(n) ==
    /\ pc[n] = "namespaces"
    /\ \E ns \in todo[n] :
         /\ todo' = [todo EXCEPT ![n] = @ \ {ns}]
         /\ at' = [at EXCEPT ![n] = ns]
    /\ renewed' = [renewed EXCEPT ![n] = @ \cap Namespaces]
    /\ Goto(n, "inspectNamespace")
    /\ UNCHANGED <<fleet, outage, listed>> /\ UNCHANGED objectVars

LeaveNamespace(n) ==
    /\ at' = [at EXCEPT ![n] = NoNamespace]
    /\ listed' = [listed EXCEPT ![n] = 0]
    /\ Goto(n, "namespaces")

HasKind(ns, kind) == \E o \in In(ns) : KindOf[o] = kind

LastInspected_OneLess == Len(InspectOrder) - 1

LastInspected == Len(InspectOrder)

(* NamespaceHasNoWorkloads: one list per kind, until one is not empty or   *)
(* fails.                                                                  *)
InspectKind(n) ==
    /\ pc[n] = "inspectNamespace"
    /\ IF outage \/ HasKind(at[n], InspectOrder[listed[n] + 1])
       THEN LeaveNamespace(n)
       ELSE /\ listed' = [listed EXCEPT ![n] = @ + 1]
            /\ IF listed[n] + 1 = LastInspected
               THEN Goto(n, "deleteNamespace") ELSE UNCHANGED pc
            /\ UNCHANGED at
    /\ UNCHANGED <<fleet, outage, todo, renewed>> /\ UNCHANGED objectVars

(* By name, whatever it stands for by now.                                 *)
DeleteNamespace(n) ==
    /\ pc[n] = "deleteNamespace"
    /\ phase' = IF phase[at[n]] = "Active" /\ ~outage
                THEN [phase EXCEPT ![at[n]] = "Terminating"] ELSE phase
    /\ LeaveNamespace(n)
    /\ UNCHANGED <<fleet, outage, nsAge, status, started, ended, failedFor, todo, renewed>>

=============================================================================
