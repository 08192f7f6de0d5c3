----------------------------- MODULE NodeJanitor -----------------------------
(***************************************************************************)
(* The node-disk-janitor of every node: the maintenance cycle of           *)
(* internal/runtime/janitor.go, called in a loop by main.go, with the      *)
(* connectivity self-heal (internal/connectivity), the cluster sweep       *)
(* (ClusterSweep) and the disk cleanup, and what the dashboard shows of    *)
(* the cluster meanwhile (DashboardStatus).                                *)
(*                                                                         *)
(* A time.Time that was never set is a timer that has run out.  A pod that *)
(* is restarted forgets its timers.  The host is external: services that   *)
(* stop, a peer that is lost, a disk that fills.                           *)
(***************************************************************************)
EXTENDS ClusterSweep

CONSTANTS
    ClusterCleanupCooldown, CleanupCooldown, SelfHealCooldown,
    MaxRestarts           \* bound: restarts of janitor pods

ASSUME CooldownAssumption ==
    {ClusterCleanupCooldown, CleanupCooldown, SelfHealCooldown, MaxRestarts} \subseteq Nat

VARIABLES
    sinceSweep,    \* lastClusterSweep, as time since
    sinceCleanup,  \* lastCleanupTime
    sinceHeal,     \* lastSelfHealTime
    sweepAge,      \* ticks since the sweep under way was found due
    down,          \* host of a node: services that stopped, "peer" when it is lost
    full,          \* nodes whose disk usage is at or above the trigger
    plan,          \* services that the self-heal script is told to restart
    restarts       \* restarts of janitor pods so far

timerVars == <<sinceSweep, sinceCleanup, sinceHeal, sweepAge>>
hostVars == <<down, full>>
clusterVars == <<fleet, outage, objectVars>>
vars == <<clusterVars, pc, sweepVars, timerVars, hostVars, plan, restarts>>

D == INSTANCE DashboardStatus

Services == {"tailscaled", "k3s"}
Sweeping == {"listJobs", "deleteJobs", "listNamespaces", "namespaces",
             "inspectNamespace", "deleteNamespace"}
Steps == Sweeping \cup
    {"asleep", "heal", "restart", "measure", "listPods", "deletePods", "command"}
Age == 0..Horizon

TypeOK ==
    /\ fleet \in Fleets /\ outage \in BOOLEAN
    /\ phase \in [Namespaces -> {"absent", "Active", "Terminating"}]
    /\ nsAge \in [Namespaces -> 0..EmptyNamespaceGrace]
    /\ status \in [Objects -> {"absent", "running", "unready"} \cup Finished]
    /\ started \in [Objects -> Age] /\ ended \in [Objects -> Age]
    /\ failedFor \in 0..NotFailing
    /\ pc \in [Nodes -> Steps]
    /\ todo \in [Nodes -> SUBSET (Namespaces \cup Objects)]
    /\ at \in [Nodes -> Namespaces \cup {NoNamespace}]
    /\ listed \in [Nodes -> 0..LastInspected]
    /\ renewed \in [Nodes -> SUBSET (Namespaces \cup Objects)]
    /\ sinceSweep \in [Nodes -> 0..ClusterCleanupCooldown]
    /\ sweepAge \in [Nodes -> 0..ClusterCleanupCooldown]
    /\ sinceCleanup \in [Nodes -> 0..CleanupCooldown]
    /\ sinceHeal \in [Nodes -> 0..SelfHealCooldown]
    /\ down \in [Nodes -> SUBSET (Services \cup {"peer"})]
    /\ full \in SUBSET Nodes
    /\ plan \in [Nodes -> SUBSET Services]
    /\ restarts \in 0..MaxRestarts

Init ==
    /\ fleet \in Fleets /\ outage = FALSE
    /\ phase = [ns \in Namespaces |-> "Active"]
    /\ nsAge = [ns \in Namespaces |-> EmptyNamespaceGrace]
    /\ status = [o \in Objects |-> "absent"]
    /\ started = [o \in Objects |-> 0] /\ ended = [o \in Objects |-> 0]
    /\ failedFor = NotFailing
    /\ pc = [n \in Nodes |-> "asleep"]
    /\ todo = [n \in Nodes |-> {}] /\ renewed = [n \in Nodes |-> {}]
    /\ at = [n \in Nodes |-> NoNamespace] /\ listed = [n \in Nodes |-> 0]
    /\ sinceSweep = [n \in Nodes |-> ClusterCleanupCooldown]
    /\ sweepAge = [n \in Nodes |-> 0]
    /\ sinceCleanup = [n \in Nodes |-> CleanupCooldown]
    /\ sinceHeal = [n \in Nodes |-> SelfHealCooldown]
    /\ down = [n \in Nodes |-> {}] /\ full = {}
    /\ plan = [n \in Nodes |-> {}]
    /\ restarts = 0

-----------------------------------------------------------------------------
(* Time and the host *)

Later(age, bound) == IF age < bound THEN age + 1 ELSE age

LaterEach(ages, bound) == [n \in Nodes |-> Later(ages[n], bound)]

Tick ==
    /\ nsAge' = [ns \in Namespaces |-> IF phase[ns] = "Active" THEN Later(nsAge[ns], EmptyNamespaceGrace) ELSE 0]
    /\ started' = [o \in Objects |->
                     IF o \in CronRuns /\ Exists(o) THEN Later(started[o], Horizon) ELSE started[o]]
    /\ ended' = [o \in Objects |->
                   IF status[o] \in Finished THEN Later(ended[o], Horizon) ELSE ended[o]]
    /\ failedFor' = Later(failedFor, NotFailing)
    /\ sinceSweep' = LaterEach(sinceSweep, ClusterCleanupCooldown)
    /\ sinceCleanup' = LaterEach(sinceCleanup, CleanupCooldown)
    /\ sinceHeal' = LaterEach(sinceHeal, SelfHealCooldown)
    /\ sweepAge' = [n \in Nodes |->
                      IF pc[n] \in Sweeping THEN Later(sweepAge[n], ClusterCleanupCooldown) ELSE 0]
    /\ UNCHANGED <<fleet, outage, phase, status, pc, hostVars, plan, restarts>>
    /\ UNCHANGED sweepVars

ServiceStops(n, what) ==
    /\ n \in fleet.janitors
    /\ what \in fleet.faults \cap (fleet.units \cup {"peer"}) /\ what \notin down[n]
    /\ down' = [down EXCEPT ![n] = @ \cup {what}]
    /\ UNCHANGED <<clusterVars, pc, sweepVars, timerVars, full, plan, restarts>>

DiskFills(n) ==
    /\ n \in fleet.janitors /\ "disk" \in fleet.faults /\ n \notin full
    /\ full' = full \cup {n}
    /\ UNCHANGED <<clusterVars, pc, sweepVars, timerVars, down, plan, restarts>>

-----------------------------------------------------------------------------
(* main: the ticker calls RunMaintenanceCycle *)

UnchangedByCycle == UNCHANGED <<clusterVars, sweepVars, restarts>>

ClusterCleanupDue(n) == sinceSweep[n] >= ClusterCleanupCooldown

(* What follows the self-heal.                                             *)
SweepOrMeasure(n) ==
    IF ~ClusterCleanupDue(n) THEN "measure"
    ELSE IF "jobs" \in fleet.does THEN "listJobs" ELSE "listNamespaces"

StartCycle(n) ==
    /\ pc[n] = "asleep" /\ n \in fleet.janitors
    /\ Goto(n, IF "heal" \in fleet.does THEN "heal" ELSE SweepOrMeasure(n))
    /\ UnchangedByCycle /\ UNCHANGED <<timerVars, hostVars, plan>>

(* The kubelet restarts the pod: New builds a Janitor with zero times.     *)
RestartPod(n) ==
    /\ n \in fleet.janitors /\ "restart" \in fleet.faults /\ restarts < MaxRestarts
    /\ restarts' = restarts + 1
    /\ Goto(n, "asleep")
    /\ todo' = [todo EXCEPT ![n] = {}] /\ renewed' = [renewed EXCEPT ![n] = {}]
    /\ at' = [at EXCEPT ![n] = NoNamespace] /\ listed' = [listed EXCEPT ![n] = 0]
    /\ sinceSweep' = [sinceSweep EXCEPT ![n] = ClusterCleanupCooldown]
    /\ sinceCleanup' = [sinceCleanup EXCEPT ![n] = CleanupCooldown]
    /\ sinceHeal' = [sinceHeal EXCEPT ![n] = SelfHealCooldown]
    /\ sweepAge' = [sweepAge EXCEPT ![n] = 0]
    /\ plan' = [plan EXCEPT ![n] = {}]
    /\ UNCHANGED <<clusterVars, hostVars>>

-----------------------------------------------------------------------------
(* runConnectivitySelfHealCycle *)

TailscaleActive(n) == "tailscaled" \in fleet.units \ down[n]
(* No IPv4 address, or no answer of the peer, which is pinged through an   *)
(* active tailscaled only.                                                 *)
PeerLost(n) == TailscaleActive(n) /\ "peer" \in down[n]
K3SActive(n) == "k3s" \in fleet.units \ down[n]

Healthy(n) == TailscaleActive(n) /\ ~PeerLost(n) /\ ("k3s" \in fleet.units => K3SActive(n))

NeedsTailscaleRestart(n) == ~TailscaleActive(n) \/ PeerLost(n)

NeedsK3SRestart_Together(n) ==
    /\ "k3s" \in fleet.units
    /\ NeedsTailscaleRestart(n) /\ "restartK3S" \in fleet.does

NeedsK3SRestart(n) ==
    /\ "k3s" \in fleet.units
    /\ ~K3SActive(n) \/ (NeedsTailscaleRestart(n) /\ "restartK3S" \in fleet.does)

RestartPlan_Unnamed(n) ==
    {IF s \in fleet.units THEN s ELSE "" :
       s \in {t \in Services : \/ t = "tailscaled" /\ NeedsTailscaleRestart(n)
                               \/ t = "k3s" /\ NeedsK3SRestart(n)}}

(* The script that is built restarts a unit only when it has its name.     *)
RestartPlan(n) ==
    {s \in fleet.units : \/ s = "tailscaled" /\ NeedsTailscaleRestart(n)
                         \/ s = "k3s" /\ NeedsK3SRestart(n)}

InspectHost(n) ==
    /\ pc[n] = "heal"
    /\ IF outage \/ Healthy(n) \/ sinceHeal[n] < SelfHealCooldown
       THEN Goto(n, SweepOrMeasure(n)) /\ UNCHANGED <<sinceHeal, plan>>
       ELSE /\ sinceHeal' = [sinceHeal EXCEPT ![n] = 0]
            /\ plan' = [plan EXCEPT ![n] = RestartPlan(n)]
            /\ Goto(n, "restart")
    /\ UnchangedByCycle /\ UNCHANGED <<sinceSweep, sinceCleanup, sweepAge, hostVars>>

(* set -eu: a tailscaled that does not restart ends the script.            *)
Restarted(n) ==
    IF outage \/ "tailscaled" \in plan[n] \cap fleet.broken THEN {} ELSE plan[n] \ fleet.broken

(* Whether the peer answers again is up to the network.                    *)
RunSelfHealScript(n) ==
    /\ pc[n] = "restart"
    /\ \E cured \in SUBSET (Restarted(n) \cup {"peer"}) :
         /\ Restarted(n) \subseteq cured
         /\ "peer" \in cured => "tailscaled" \in Restarted(n)
         /\ down' = [down EXCEPT ![n] = @ \ cured]
    /\ plan' = [plan EXCEPT ![n] = {}]
    /\ Goto(n, SweepOrMeasure(n))
    /\ UnchangedByCycle /\ UNCHANGED <<timerVars, full>>

-----------------------------------------------------------------------------
(* runClusterCleanupCycle *)

UnchangedBySweep == UNCHANGED <<sinceCleanup, sinceHeal, hostVars, plan, restarts>>

(* An error of a list ends the sweep and leaves its cooldown untouched.    *)
SweepFails(n) ==
    /\ outage
    /\ \/ pc[n] = "listJobs"
       \/ pc[n] = "listNamespaces" /\ "namespaces" \in fleet.does
    /\ sweepAge' = [sweepAge EXCEPT ![n] = 0]
    /\ Goto(n, "measure")
    /\ UNCHANGED <<clusterVars, sweepVars, sinceSweep>> /\ UnchangedBySweep

RunFinishedJobCleanup(n) ==
    /\ \/ pc[n] = "listJobs" /\ ListJobs(n, "deleteJobs")
       \/ pc[n] = "deleteJobs" /\ DeleteObject(n)
       \/ /\ pc[n] = "deleteJobs" /\ todo[n] = {}
          /\ Goto(n, "listNamespaces")
          /\ renewed' = [renewed EXCEPT ![n] = {}]
          /\ UNCHANGED <<clusterVars, todo, at, listed>>
    /\ UNCHANGED <<sinceSweep, sweepAge>> /\ UnchangedBySweep

RunEmptyNamespaceCleanup(n) ==
    /\ \/ /\ pc[n] = "listNamespaces" /\ "namespaces" \in fleet.does
          /\ ListNamespaces(n, "namespaces")
       \/ TakeNamespace(n) \/ InspectKind(n) \/ DeleteNamespace(n)
    /\ UNCHANGED <<sinceSweep, sweepAge>> /\ UnchangedBySweep

(* lastClusterSweep = now, which is when the sweep was found due.          *)
EndSweep(n) ==
    /\ \/ pc[n] = "listNamespaces" /\ "namespaces" \notin fleet.does
       \/ pc[n] = "namespaces" /\ todo[n] = {}
    /\ sinceSweep' = [sinceSweep EXCEPT ![n] = sweepAge[n]]
    /\ sweepAge' = [sweepAge EXCEPT ![n] = 0]
    /\ renewed' = [renewed EXCEPT ![n] = {}]
    /\ Goto(n, "measure")
    /\ UNCHANGED <<clusterVars, todo, at, listed>> /\ UnchangedBySweep

-----------------------------------------------------------------------------
(* runDiskCleanupIfNeeded *)

UnchangedByCleanup == UNCHANGED <<sinceSweep, sinceHeal, sweepAge, down, plan, restarts>>

CleanupDue(n) == n \in full /\ sinceCleanup[n] >= CleanupCooldown

Measure_AlwaysNoted(n) ==
    /\ pc[n] = "measure"
    /\ Goto(n, IF ~outage /\ CleanupDue(n) THEN "listPods" ELSE "asleep")
    /\ sinceCleanup' = IF ~outage /\ n \in full THEN [sinceCleanup EXCEPT ![n] = 0] ELSE sinceCleanup
    /\ UNCHANGED <<clusterVars, sweepVars, full>> /\ UnchangedByCleanup

(* A measurement that fails ends the cycle.                                *)
Measure(n) ==
    /\ pc[n] = "measure"
    /\ IF ~outage /\ CleanupDue(n)
       THEN Goto(n, "listPods") /\ sinceCleanup' = [sinceCleanup EXCEPT ![n] = 0]
       ELSE Goto(n, "asleep") /\ UNCHANGED sinceCleanup
    /\ UNCHANGED <<clusterVars, sweepVars, full>> /\ UnchangedByCleanup

DeleteTerminatedPods(n) ==
    /\ \/ pc[n] = "listPods" /\ "pods" \in fleet.does /\ ListPodsOnNode(n, "deletePods")
       \/ pc[n] = "deletePods" /\ DeleteObject(n)
       \/ /\ \/ pc[n] = "listPods" /\ ("pods" \notin fleet.does \/ outage)
             \/ pc[n] = "deletePods" /\ todo[n] = {}
          /\ Goto(n, "command")
          /\ renewed' = [renewed EXCEPT ![n] = {}]
          /\ UNCHANGED <<clusterVars, todo, at, listed>>
    /\ UNCHANGED <<sinceCleanup, full>> /\ UnchangedByCleanup

(* The command may free enough, or not; the last measurement only logs.    *)
RunHostCleanupCommand(n) ==
    /\ pc[n] = "command"
    /\ full' \in IF outage THEN {full} ELSE {full, full \ {n}}
    /\ Goto(n, "asleep")
    /\ UNCHANGED <<clusterVars, sweepVars, sinceCleanup>> /\ UnchangedByCleanup

-----------------------------------------------------------------------------
JanitorStep(n) ==
    \/ StartCycle(n) \/ InspectHost(n) \/ RunSelfHealScript(n)
    \/ SweepFails(n) \/ RunFinishedJobCleanup(n)
    \/ RunEmptyNamespaceCleanup(n) \/ EndSweep(n)
    \/ Measure(n) \/ DeleteTerminatedPods(n) \/ RunHostCleanupCommand(n)

Next ==
    \/ UsersNext /\ UNCHANGED <<timerVars, hostVars, plan, restarts>>
    \/ Tick
    \/ \E n \in Nodes :
         JanitorStep(n) \/ RestartPod(n) \/ DiskFills(n)
         \/ \E what \in Services \cup {"peer"} : ServiceStops(n, what)

Spec == Init /\ [][Next]_vars

(* The ticker wakes the janitor, its calls return, and time passes.        *)
FairSpec == Spec /\ WF_vars(Tick) /\ \A n \in Nodes : WF_vars(JanitorStep(n))

-----------------------------------------------------------------------------
(* Safety *)

(* Every name that a janitor is about to delete a job or pod by, and that  *)
(* was not reused since its list, has been finished for the grace period.  *)
(* cleanup.go deletes by name, one call after the other, while users and   *)
(* the other node's janitor do the same.                                   *)
OldEnough(o) ==
    \/ o \in Jobs /\ ended[o] >= FinishedJobGrace
    \/ o \in Pods /\ ended[o] >= TerminatedPodGrace

OnlyFinishedAreDeleted ==
    [][\A n \in Nodes : \A o \in todo[n] \ todo'[n] :
         o \in Objects /\ Exists(o) /\ status'[o] = "absent" =>
             (status[o] \in Finished /\ OldEnough(o)) \/ o \in renewed[n]]_vars

(* A namespace that a janitor deletes is not protected, was old enough     *)
(* unless it was created again since the list, and of the kinds that       *)
(* NamespaceHasNoWorkloads inspects it holds only objects created after    *)
(* the inspection began.                                                   *)
NamespaceSeenEmpty ==
    [][\A n \in Nodes :
         pc[n] = "deleteNamespace" /\ at'[n] = NoNamespace /\ phase' # phase =>
             /\ at[n] \notin Protected
             /\ nsAge[at[n]] >= EmptyNamespaceGrace \/ at[n] \in renewed[n]
             /\ \A o \in In(at[n]) : KindOf[o] \in InspectedKinds => o \in renewed[n]]_vars

RunsOfCronJob ==
    {[state |-> status[r], started |-> started[r], ended |-> ended[r]] :
       r \in {q \in CronRuns : Exists(q)}}

(* buildClusterSnapshot for a CronJob and a deployment of one replica.     *)
ClusterStatus(deployment, lastRun) ==
    D!WorkloadStatus(
        {D!CronJobStatus(lastRun),
         D!DeploymentStatus(IF Exists(deployment) THEN 1 ELSE 0,
                            IF status[deployment] = "running" THEN 1 ELSE 0)})

(* getDashboardSnapshot falls back to the catalog when the cluster cannot  *)
(* be read.                                                                *)
ShownStatuses(deployment) ==
    IF outage
    THEN {D!WorkloadStatus({D!CatalogStatus("cronjob", TRUE), D!CatalogStatus("deployment", TRUE)})}
    ELSE {ClusterStatus(deployment, lastRun) : lastRun \in D!LastRunStates(RunsOfCronJob)}

(* The latest run of a CronJob failed: as long as the cluster can be read  *)
(* the dashboard shows the workload as degraded, and no janitor removes    *)
(* the run before FINISHED_JOB_GRACE.  A run that started in the second    *)
(* in which another succeeded is left out: its failure is not shown.       *)
FailureIsShown ==
    ~outage /\ failedFor < FinishedJobGrace =>
        \A d \in Objects : KindOf[d] = "Deployment" => ShownStatuses(d) = {"degraded"}

-----------------------------------------------------------------------------
(* Liveness, once calls are answered again *)

Reliable == <>[]~outage

(* An empty namespace outside the protected list does not stay, in spite   *)
(* of failed sweeps, users, other janitors and restarts.                   *)
EmptyNamespaceIsDeleted ==
    Reliable =>
        \A ns \in Namespaces :
            ~<>[](/\ fleet.janitors # {} /\ "namespaces" \in fleet.does
                  /\ phase[ns] = "Active" /\ ns \notin Protected
                  /\ \A o \in In(ns) : KindOf[o] \notin InspectedKinds)

(* A k3s that is down is started again, whatever else goes wrong on the    *)
(* host, if both units can be started at all: the script restarts          *)
(* tailscaled first and stops (set -e) when that fails.                    *)
StoppedK3SIsRestarted ==
    Reliable =>
        \A n \in Nodes :
            ~<>[](/\ n \in fleet.janitors /\ "heal" \in fleet.does
                  /\ fleet.broken = {} /\ "k3s" \in down[n])

(* A disk that stays above the trigger is cleaned again and again.         *)
FullDiskIsCleaned ==
    Reliable => \A n \in Nodes : (n \in full) ~> (n \notin full \/ pc[n] = "command")

=============================================================================
