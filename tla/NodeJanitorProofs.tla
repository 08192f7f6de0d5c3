------------------------- MODULE NodeJanitorProofs -------------------------
(***************************************************************************)
(* Theorems of NodeJanitor, for any number of nodes, namespaces and        *)
(* objects, any fleets, order of inspection, graces and cooldowns.         *)
(***************************************************************************)
EXTENDS NodeJanitor, NaturalLemmas, TLAPS

LEMMA Numbers ==
    /\ Horizon \in Nat /\ EmptyNamespaceGrace \in Nat
    /\ FinishedJobGrace \in Nat /\ FinishedJobGrace <= Horizon
    /\ TerminatedPodGrace \in Nat
    /\ ClusterCleanupCooldown \in Nat /\ CleanupCooldown \in Nat /\ SelfHealCooldown \in Nat
    /\ MaxRestarts \in Nat
    /\ LastInspected \in Nat \ {0}
BY GraceAssumption, ClusterAssumption, CooldownAssumption DEF LastInspected

LEMMA Names ==
    /\ NsOf \in [Objects -> Namespaces] /\ NoNamespace \notin Namespaces
    /\ Namespaces \cap Objects = {}
    /\ \A f \in Fleets : f \in Fleet
    /\ \A r \in CronRuns : r \in Objects /\ KindOf[r] = "Job"
BY ClusterAssumption

-----------------------------------------------------------------------------
(* Types.  The loops of a sweep: names of the right sort are to do, and    *)
(* none outside the loops; a namespace is at hand while it is inspected,   *)
(* up to the last kind, and deleted after it.                              *)

NamespaceLoop == {"namespaces", "inspectNamespace", "deleteNamespace"}
ObjectLoop == {"deleteJobs", "deletePods"}

ClusterType ==
    /\ fleet \in Fleets /\ outage \in BOOLEAN
    /\ phase \in [Namespaces -> {"absent", "Active", "Terminating"}]
    /\ nsAge \in [Namespaces -> 0..EmptyNamespaceGrace]
    /\ status \in [Objects -> {"absent", "running", "unready"} \cup Finished]
    /\ started \in [Objects -> Age] /\ ended \in [Objects -> Age]
    /\ failedFor \in 0..NotFailing

SweepType ==
    /\ pc \in [Nodes -> Steps]
    /\ todo \in [Nodes -> SUBSET (Namespaces \cup Objects)]
    /\ at \in [Nodes -> Namespaces \cup {NoNamespace}]
    /\ listed \in [Nodes -> 0..LastInspected]
    /\ renewed \in [Nodes -> SUBSET (Namespaces \cup Objects)]

HostType ==
    /\ sinceSweep \in [Nodes -> 0..ClusterCleanupCooldown]
    /\ sweepAge \in [Nodes -> 0..ClusterCleanupCooldown]
    /\ sinceCleanup \in [Nodes -> 0..CleanupCooldown]
    /\ sinceHeal \in [Nodes -> 0..SelfHealCooldown]
    /\ down \in [Nodes -> SUBSET (Services \cup {"peer"})]
    /\ full \in SUBSET Nodes
    /\ plan \in [Nodes -> SUBSET Services]
    /\ restarts \in 0..MaxRestarts

LEMMA TypeParts == TypeOK <=> ClusterType /\ SweepType /\ HostType
BY DEF TypeOK, ClusterType, SweepType, HostType

LEMMA TypePartsNext == TypeOK' <=> ClusterType' /\ SweepType' /\ HostType'
BY DEF TypeOK, ClusterType, SweepType, HostType

Cursor(n) ==
    /\ pc[n] \in NamespaceLoop => todo[n] \subseteq Namespaces
    /\ pc[n] \in ObjectLoop => todo[n] \subseteq Objects
    /\ pc[n] \notin NamespaceLoop \cup ObjectLoop => todo[n] = {}
    /\ pc[n] \in {"inspectNamespace", "deleteNamespace"} => at[n] \in Namespaces
    /\ pc[n] = "inspectNamespace" => listed[n] < LastInspected
    /\ pc[n] = "deleteNamespace" => listed[n] = LastInspected
    /\ pc[n] \notin {"inspectNamespace", "deleteNamespace"} => at[n] = NoNamespace /\ listed[n] = 0

CursorInv == TypeOK /\ \A n \in Nodes : Cursor(n)

(* What users, controllers and the API server do leaves every janitor      *)
(* where it stands.                                                        *)
LEMMA UsersLeaveSweeps == UsersNext => UNCHANGED <<fleet, pc, todo, at, listed>>
BY DEF UsersNext, CreateNamespace, UserDeletesNamespace, FinalizeNamespace, CreateObject,
       ChangeReadiness, UserDeletesObject, Finish, OutageStartsOrEnds, sweepVars

(* No namespace is at hand, and no kind listed.                            *)
LEMMA NoneType ==
    ASSUME SweepType, NEW n \in Nodes,
           at' = [at EXCEPT ![n] = NoNamespace], listed' = [listed EXCEPT ![n] = 0]
    PROVE  at' \in [Nodes -> Namespaces \cup {NoNamespace}] /\ listed' \in [Nodes -> 0..LastInspected]
<1>1. 0 \in 0..LastInspected
  BY Numbers
<1> QED
  BY <1>1 DEF SweepType

LEMMA RemoveType ==
    ASSUME ClusterType, NEW os, Remove(os)
    PROVE  /\ status' \in [Objects -> {"absent", "running", "unready"} \cup Finished]
           /\ started' \in [Objects -> Age] /\ ended' \in [Objects -> Age]
<1>1. 0 \in Age
  BY Numbers DEF Age
<1> QED
  BY <1>1 DEF Remove, ClusterType

LEMMA RenewType ==
    ASSUME SweepType, NEW x \in Namespaces \cup Objects, Renew(x)
    PROVE  renewed' \in [Nodes -> SUBSET (Namespaces \cup Objects)]
BY DEF Renew, SweepType

LEMMA UsersType ==
    ASSUME TypeOK, UsersNext
    PROVE  ClusterType' /\ SweepType'
<1>0. ClusterType /\ SweepType
  BY TypeParts
<1>1. UNCHANGED <<fleet, pc, todo, at, listed>>
  BY UsersLeaveSweeps
<1>2. NotFailing \in 0..NotFailing /\ 0 \in 0..NotFailing /\ 0 \in 0..EmptyNamespaceGrace
  BY Numbers DEF NotFailing
<1> DEFINE Goal == ClusterType' /\ SweepType'
<1>3. ASSUME NEW ns \in Namespaces, CreateNamespace(ns) PROVE Goal
  <2>1. renewed' \in [Nodes -> SUBSET (Namespaces \cup Objects)]
    BY <1>0, <1>3, RenewType DEF CreateNamespace
  <2> QED
    BY <1>0, <1>1, <1>2, <1>3, <2>1 DEF CreateNamespace, ClusterType, SweepType
<1>4. ASSUME NEW ns \in Namespaces, UserDeletesNamespace(ns) PROVE Goal
  BY <1>0, <1>1, <1>4 DEF UserDeletesNamespace, ClusterType, SweepType, sweepVars
<1>5. ASSUME NEW ns \in Namespaces, FinalizeNamespace(ns) PROVE Goal
  <2>1. /\ status' \in [Objects -> {"absent", "running", "unready"} \cup Finished]
        /\ started' \in [Objects -> Age] /\ ended' \in [Objects -> Age]
    BY <1>0, <1>5, RemoveType DEF FinalizeNamespace
  <2>2. failedFor' \in 0..NotFailing
    BY <1>0, <1>2, <1>5 DEF FinalizeNamespace, ClusterType
  <2> QED
    BY <1>0, <1>1, <1>2, <1>5, <2>1, <2>2 DEF FinalizeNamespace, ClusterType, SweepType, sweepVars
<1>6. ASSUME NEW o \in Objects, CreateObject(o) PROVE Goal
  <2>1. renewed' \in [Nodes -> SUBSET (Namespaces \cup Objects)]
    BY <1>0, <1>6, RenewType DEF CreateObject
  <2>2. failedFor' \in 0..NotFailing
    BY <1>0, <1>2, <1>6 DEF CreateObject, ClusterType
  <2> QED
    BY <1>0, <1>1, <1>6, <2>1, <2>2 DEF CreateObject, ClusterType, SweepType
<1>7. ASSUME NEW o \in Objects, ChangeReadiness(o) PROVE Goal
  BY <1>0, <1>1, <1>7 DEF ChangeReadiness, ClusterType, SweepType, sweepVars
<1>8. ASSUME NEW o \in Objects, UserDeletesObject(o) PROVE Goal
  <2>1. /\ status' \in [Objects -> {"absent", "running", "unready"} \cup Finished]
        /\ started' \in [Objects -> Age] /\ ended' \in [Objects -> Age]
    BY <1>0, <1>8, RemoveType DEF UserDeletesObject
  <2>2. failedFor' \in 0..NotFailing
    BY <1>0, <1>2, <1>8 DEF UserDeletesObject, ClusterType
  <2> QED
    BY <1>0, <1>1, <1>8, <2>1, <2>2 DEF UserDeletesObject, ClusterType, SweepType, sweepVars
<1>9. ASSUME NEW o \in Objects, NEW outcome \in Finished, Finish(o, outcome) PROVE Goal
  <2>1. failedFor' \in 0..NotFailing
    BY <1>0, <1>2, <1>9 DEF Finish, ClusterType
  <2> QED
    BY <1>0, <1>1, <1>9, <2>1 DEF Finish, ClusterType, SweepType, sweepVars
<1>10. CASE OutageStartsOrEnds
  BY <1>0, <1>1, <1>10 DEF OutageStartsOrEnds, ClusterType, SweepType, sweepVars, objectVars
<1> QED
  BY <1>3, <1>4, <1>5, <1>6, <1>7, <1>8, <1>9, <1>10 DEF UsersNext

LEMMA LaterType ==
    /\ \A b \in Nat : \A a \in 0..b : Later(a, b) \in 0..b
    /\ \A b \in Nat : \A ages \in [Nodes -> 0..b] : LaterEach(ages, b) \in [Nodes -> 0..b]
<1>1. \A b \in Nat : \A a \in 0..b : Later(a, b) \in 0..b
  BY DEF Later
<1> QED
  BY <1>1 DEF LaterEach

LEMMA TickType == TypeOK /\ Tick => TypeOK'
<1> SUFFICES ASSUME TypeOK, Tick PROVE ClusterType' /\ SweepType' /\ HostType'
  BY TypePartsNext
<1>0. ClusterType /\ SweepType /\ HostType
  BY TypeParts
<1> USE Numbers, LaterType DEF Tick
<1>1. nsAge' \in [Namespaces -> 0..EmptyNamespaceGrace]
  BY <1>0 DEF ClusterType
<1>2. started' \in [Objects -> Age] /\ ended' \in [Objects -> Age]
  BY <1>0 DEF ClusterType, Age
<1>3. failedFor' \in 0..NotFailing
  BY <1>0 DEF ClusterType, NotFailing
<1>4. ClusterType'
  BY <1>0, <1>1, <1>2, <1>3 DEF ClusterType
<1>5. SweepType'
  BY <1>0 DEF SweepType, sweepVars
<1>6. sweepAge' \in [Nodes -> 0..ClusterCleanupCooldown]
  BY <1>0 DEF HostType
<1>7. /\ sinceSweep' \in [Nodes -> 0..ClusterCleanupCooldown]
      /\ sinceCleanup' \in [Nodes -> 0..CleanupCooldown]
      /\ sinceHeal' \in [Nodes -> 0..SelfHealCooldown]
  BY <1>0 DEF HostType
<1>8. HostType'
  BY <1>0, <1>6, <1>7 DEF HostType, hostVars
<1> QED
  BY <1>4, <1>5, <1>8

(* The host changes, or a pod is restarted.                                *)
LEMMA HostStepType ==
    ASSUME TypeOK, NEW n \in Nodes,
           \/ DiskFills(n) \/ RestartPod(n)
           \/ \E what \in Services \cup {"peer"} : ServiceStops(n, what)
    PROVE  TypeOK'
<1> SUFFICES ClusterType' /\ SweepType' /\ HostType'
  BY TypePartsNext
<1>0. ClusterType /\ SweepType /\ HostType
  BY TypeParts
<1>1. CASE DiskFills(n)
  BY <1>0, <1>1
  DEF DiskFills, clusterVars, objectVars, sweepVars, timerVars, ClusterType, SweepType, HostType
<1>2. ASSUME NEW what \in Services \cup {"peer"}, ServiceStops(n, what)
      PROVE  ClusterType' /\ SweepType' /\ HostType'
  BY <1>0, <1>2
  DEF ServiceStops, clusterVars, objectVars, sweepVars, timerVars, ClusterType, SweepType, HostType
<1>3. CASE RestartPod(n)
  <2>1. ClusterType'
    BY <1>0, <1>3 DEF RestartPod, clusterVars, objectVars, ClusterType
  <2>2. pc' \in [Nodes -> Steps]
    BY <1>0, <1>3 DEF RestartPod, Goto, SweepType, Steps
  <2>3. SweepType'
    BY <1>0, <1>3, <2>2, NoneType DEF RestartPod, SweepType
  <2>4. restarts' \in 0..MaxRestarts
    BY <1>0, <1>3, Numbers DEF RestartPod, HostType
  <2>5. HostType'
    BY <1>0, <1>3, <2>4, Numbers DEF RestartPod, HostType, hostVars
  <2> QED
    BY <2>1, <2>3, <2>5
<1> QED
  BY <1>1, <1>2, <1>3

-----------------------------------------------------------------------------
(* What a step of the janitor of n is for its sweep: it goes on with       *)
(* nothing to do, has listed names, deletes one, or inspects a namespace.  *)

(* It has nothing to do, before and after.                                 *)
Rests(n) ==
    /\ UNCHANGED <<clusterVars, todo, at, listed>>
    /\ renewed' = renewed \/ renewed' = [renewed EXCEPT ![n] = {}]
    /\ todo[n] = {}
    /\ pc[n] \notin {"inspectNamespace", "deleteNamespace"}
    /\ \E where \in Steps \ (NamespaceLoop \cup ObjectLoop) : Goto(n, where)

Lists(n) ==
    \/ ListJobs(n, "deleteJobs") \/ ListPodsOnNode(n, "deletePods")
    \/ ListNamespaces(n, "namespaces")

Listing(n) == pc[n] \in {"listJobs", "listPods", "listNamespaces"} /\ Lists(n)

SweepStep(n) ==
    \/ Rests(n) \/ Listing(n)
    \/ DeleteObject(n) \/ TakeNamespace(n) \/ InspectKind(n) \/ DeleteNamespace(n)

LEMMA JanitorCases ==
    ASSUME CursorInv, NEW n \in Nodes, JanitorStep(n)
    PROVE  SweepStep(n)
<1>1. Cursor(n) /\ SweepType
  BY TypeParts DEF CursorInv
<1>2. SweepOrMeasure(n) \in {"measure", "listJobs", "listNamespaces"}
  BY DEF SweepOrMeasure
<1>3. CASE StartCycle(n)
  BY <1>1, <1>2, <1>3
  DEF StartCycle, Goto, UnchangedByCycle, sweepVars, Cursor, SweepStep, Rests, Steps, Sweeping,
      NamespaceLoop, ObjectLoop
<1>4. CASE InspectHost(n)
  BY <1>1, <1>2, <1>4
  DEF InspectHost, Goto, UnchangedByCycle, sweepVars, Cursor, SweepStep, Rests, Steps, Sweeping,
      NamespaceLoop, ObjectLoop
<1>5. CASE RunSelfHealScript(n)
  BY <1>1, <1>2, <1>5
  DEF RunSelfHealScript, Goto, UnchangedByCycle, sweepVars, Cursor, SweepStep, Rests, Steps,
      Sweeping, NamespaceLoop, ObjectLoop
<1>6. CASE SweepFails(n)
  BY <1>1, <1>6
  DEF SweepFails, Goto, sweepVars, Cursor, SweepStep, Rests, Steps, Sweeping,
      NamespaceLoop, ObjectLoop
<1>7. CASE RunFinishedJobCleanup(n)
  BY <1>1, <1>7
  DEF RunFinishedJobCleanup, Goto, Cursor, SweepStep, Rests, Listing, Lists, Steps, Sweeping,
      NamespaceLoop, ObjectLoop
<1>8. CASE RunEmptyNamespaceCleanup(n)
  BY <1>8 DEF RunEmptyNamespaceCleanup, SweepStep, Listing, Lists
<1>9. CASE EndSweep(n)
  BY <1>1, <1>9
  DEF EndSweep, Goto, Cursor, SweepStep, Rests, Steps, Sweeping, NamespaceLoop, ObjectLoop
<1>10. CASE Measure(n)
  BY <1>1, <1>10
  DEF Measure, Goto, sweepVars, Cursor, SweepStep, Rests, Steps, Sweeping, NamespaceLoop, ObjectLoop
<1>11. CASE DeleteTerminatedPods(n)
  BY <1>1, <1>11
  DEF DeleteTerminatedPods, Goto, Cursor, SweepStep, Rests, Listing, Lists, Steps, Sweeping,
      NamespaceLoop, ObjectLoop
<1>12. CASE RunHostCleanupCommand(n)
  BY <1>1, <1>12
  DEF RunHostCleanupCommand, Goto, sweepVars, Cursor, SweepStep, Rests, Steps, Sweeping,
      NamespaceLoop, ObjectLoop
<1> QED
  BY <1>3, <1>4, <1>5, <1>6, <1>7, <1>8, <1>9, <1>10, <1>11, <1>12 DEF JanitorStep

(* A janitor changes nothing in the sweep of another node.                 *)
LEMMA SweepsAreLocal ==
    ASSUME TypeOK, NEW n \in Nodes, SweepStep(n), NEW m \in Nodes \ {n}
    PROVE  /\ pc'[m] = pc[m] /\ todo'[m] = todo[m] /\ at'[m] = at[m]
           /\ listed'[m] = listed[m] /\ renewed'[m] = renewed[m]
<1>1. SweepType
  BY TypeParts
<1>2. CASE Rests(n)
  BY <1>1, <1>2 DEF Rests, Goto, SweepType
<1>3. CASE Listing(n)
  BY <1>1, <1>3
  DEF Listing, Lists, ListJobs, ListPodsOnNode, ListNamespaces, Found, Goto, SweepType
<1>4. CASE DeleteObject(n)
  BY <1>1, <1>4 DEF DeleteObject, SweepType
<1>5. CASE TakeNamespace(n)
  BY <1>1, <1>5 DEF TakeNamespace, Goto, SweepType
<1>6. CASE InspectKind(n)
  BY <1>1, <1>6 DEF InspectKind, LeaveNamespace, Goto, SweepType
<1>7. CASE DeleteNamespace(n)
  BY <1>1, <1>7 DEF DeleteNamespace, LeaveNamespace, Goto, SweepType
<1> QED
  BY <1>2, <1>3, <1>4, <1>5, <1>6, <1>7 DEF SweepStep

LEMMA SweepStepType ==
    ASSUME CursorInv, NEW n \in Nodes, SweepStep(n)
    PROVE  ClusterType' /\ SweepType' /\ \A m \in Nodes : Cursor(m)'
<1>1. ClusterType /\ SweepType /\ Cursor(n) /\ \A m \in Nodes \ {n} : Cursor(m)
  BY TypeParts DEF CursorInv
<1>2. \A m \in Nodes \ {n} : Cursor(m)'
  BY <1>1, SweepsAreLocal DEF CursorInv, Cursor
<1>3. CASE Rests(n)
  <2>1. ClusterType' /\ SweepType'
    BY <1>1, <1>3 DEF Rests, clusterVars, objectVars, ClusterType, SweepType, Goto
  <2>2. Cursor(n)'
    BY <1>1, <1>3 DEF Rests, SweepType, Goto, Cursor, NamespaceLoop, ObjectLoop
  <2> QED
    BY <1>2, <2>1, <2>2
<1>4. CASE Listing(n)
  <2>1. ClusterType'
    BY <1>1, <1>4
    DEF Listing, Lists, ListJobs, ListPodsOnNode, ListNamespaces, objectVars, ClusterType
  <2>2. PICK names \in SUBSET (Namespaces \cup Objects),
             where \in {"deleteJobs", "deletePods", "namespaces"} :
          /\ Found(n, names) /\ Goto(n, where)
          /\ where = "namespaces" => names \subseteq Namespaces
          /\ where # "namespaces" => names \subseteq Objects
    BY <1>4
    DEF Listing, Lists, ListJobs, ListPodsOnNode, ListNamespaces, Jobs, Pods
  <2>3. where \in Steps
    BY DEF Steps, Sweeping
  <2>4. SweepType'
    BY <1>1, <2>2, <2>3 DEF Found, Goto, SweepType
  <2>5. pc'[n] = where /\ todo'[n] = names /\ at'[n] = NoNamespace /\ listed'[n] = 0
    BY <1>1, <1>4, <2>2 DEF Found, Goto, SweepType, Cursor, Listing
  <2>6. Cursor(n)'
    BY <2>2, <2>5 DEF Cursor, NamespaceLoop, ObjectLoop
  <2> QED
    BY <1>2, <2>1, <2>4, <2>6
<1>5. CASE DeleteObject(n)
  <2>1. PICK o \in todo[n] :
          /\ todo' = [todo EXCEPT ![n] = @ \ {o}]
          /\ UNCHANGED <<status, started, ended>> \/ Remove({o})
    BY <1>5 DEF DeleteObject
  <2>2. /\ status' \in [Objects -> {"absent", "running", "unready"} \cup Finished]
        /\ started' \in [Objects -> Age] /\ ended' \in [Objects -> Age]
    BY <1>1, <2>1, RemoveType DEF ClusterType
  <2>3. ClusterType'
    BY <1>1, <1>5, <2>2 DEF DeleteObject, ClusterType
  <2>4. SweepType'
    BY <1>1, <1>5, <2>1 DEF DeleteObject, SweepType
  <2>5. Cursor(n)'
    BY <1>1, <1>5, <2>1 DEF DeleteObject, SweepType, Cursor, NamespaceLoop, ObjectLoop
  <2> QED
    BY <1>2, <2>3, <2>4, <2>5
<1>6. CASE TakeNamespace(n)
  <2>1. PICK ns \in todo[n] :
          /\ todo' = [todo EXCEPT ![n] = @ \ {ns}]
          /\ at' = [at EXCEPT ![n] = ns]
    BY <1>6 DEF TakeNamespace
  <2>2. todo[n] \subseteq Namespaces
    BY <1>1, <1>6 DEF TakeNamespace, Cursor, NamespaceLoop
  <2>3. ClusterType'
    BY <1>1, <1>6 DEF TakeNamespace, ClusterType, objectVars
  <2>4. pc' \in [Nodes -> Steps] /\ pc'[n] = "inspectNamespace"
    BY <1>1, <1>6 DEF TakeNamespace, Goto, SweepType, Steps, Sweeping
  <2>5. SweepType'
    BY <1>1, <1>6, <2>1, <2>2, <2>4 DEF TakeNamespace, SweepType
  <2>6. /\ at'[n] \in Namespaces /\ todo'[n] \subseteq Namespaces
        /\ listed'[n] = 0 /\ listed'[n] < LastInspected
    BY <1>1, <1>6, <2>1, <2>2, Numbers DEF TakeNamespace, SweepType, Cursor
  <2>7. Cursor(n)'
    BY <2>4, <2>6 DEF Cursor, NamespaceLoop, ObjectLoop
  <2> QED
    BY <1>2, <2>3, <2>5, <2>7
<1>7. CASE InspectKind(n)
  <2>1. ClusterType'
    BY <1>1, <1>7 DEF InspectKind, ClusterType, objectVars
  <2>2. /\ pc[n] = "inspectNamespace" /\ todo[n] \subseteq Namespaces
        /\ at[n] \in Namespaces /\ listed[n] < LastInspected /\ listed[n] \in Nat
    BY <1>1, <1>7, Numbers DEF InspectKind, SweepType, Cursor, NamespaceLoop
  <2>3. CASE LeaveNamespace(n)
    <3>1. pc' \in [Nodes -> Steps] /\ pc'[n] = "namespaces"
      BY <1>1, <2>3 DEF LeaveNamespace, Goto, SweepType, Steps, Sweeping
    <3>2. SweepType'
      BY <1>1, <1>7, <2>3, <3>1, NoneType DEF InspectKind, LeaveNamespace, SweepType
    <3>3. at'[n] = NoNamespace /\ listed'[n] = 0 /\ todo'[n] = todo[n]
      BY <1>1, <1>7, <2>3 DEF InspectKind, LeaveNamespace, SweepType
    <3>4. Cursor(n)'
      BY <2>2, <3>1, <3>3 DEF Cursor, NamespaceLoop, ObjectLoop
    <3> QED
      BY <1>2, <2>1, <3>2, <3>4
  <2>4. CASE /\ listed' = [listed EXCEPT ![n] = @ + 1]
             /\ IF listed[n] + 1 = LastInspected
                THEN Goto(n, "deleteNamespace") ELSE UNCHANGED pc
             /\ UNCHANGED at
    <3>1. /\ pc' \in [Nodes -> Steps]
          /\ pc'[n] = IF listed[n] + 1 = LastInspected THEN "deleteNamespace" ELSE "inspectNamespace"
      BY <1>1, <2>2, <2>4 DEF Goto, SweepType, Steps, Sweeping
    <3>2. listed[n] + 1 \in 0..LastInspected
      BY <2>2, Numbers
    <3>3. SweepType'
      BY <1>1, <1>7, <2>4, <3>1, <3>2 DEF InspectKind, SweepType
    <3>4. at'[n] = at[n] /\ listed'[n] = listed[n] + 1 /\ todo'[n] = todo[n]
      BY <1>1, <1>7, <2>4 DEF InspectKind, SweepType
    <3>5. Cursor(n)'
      BY <2>2, <3>1, <3>2, <3>4, Numbers DEF Cursor, NamespaceLoop, ObjectLoop
    <3> QED
      BY <1>2, <2>1, <3>3, <3>5
  <2> QED
    BY <1>7, <2>3, <2>4 DEF InspectKind
<1>8. CASE DeleteNamespace(n)
  <2>1. ClusterType'
    BY <1>1, <1>8 DEF DeleteNamespace, ClusterType
  <2>2. pc' \in [Nodes -> Steps] /\ pc'[n] = "namespaces"
    BY <1>1, <1>8 DEF DeleteNamespace, LeaveNamespace, Goto, SweepType, Steps, Sweeping
  <2>3. SweepType'
    BY <1>1, <1>8, <2>2, NoneType DEF DeleteNamespace, LeaveNamespace, SweepType
  <2>4. at'[n] = NoNamespace /\ listed'[n] = 0 /\ todo'[n] = todo[n] /\ todo[n] \subseteq Namespaces
    BY <1>1, <1>8 DEF DeleteNamespace, LeaveNamespace, SweepType, Cursor, NamespaceLoop
  <2>5. Cursor(n)'
    BY <2>2, <2>4 DEF Cursor, NamespaceLoop, ObjectLoop
  <2> QED
    BY <1>2, <2>1, <2>3, <2>5
<1> QED
  BY <1>3, <1>4, <1>5, <1>6, <1>7, <1>8 DEF SweepStep

(* The timers of a janitor, its host, its plan.                            *)
LEMMA JanitorHostType ==
    ASSUME TypeOK, NEW n \in Nodes, JanitorStep(n)
    PROVE  HostType'
<1>0. HostType
  BY TypeParts
<1> USE <1>0, Numbers DEF HostType, timerVars, hostVars
<1>1. CASE StartCycle(n)
  BY <1>1 DEF StartCycle, UnchangedByCycle
<1>2. CASE InspectHost(n)
  <2>1. RestartPlan(n) \in SUBSET Services
    BY DEF RestartPlan, Services
  <2> QED
    BY <1>2, <2>1 DEF InspectHost, UnchangedByCycle
<1>3. CASE RunSelfHealScript(n)
  BY <1>3 DEF RunSelfHealScript, UnchangedByCycle
<1>4. CASE SweepFails(n)
  BY <1>4 DEF SweepFails, UnchangedBySweep
<1>5. CASE RunFinishedJobCleanup(n)
  BY <1>5 DEF RunFinishedJobCleanup, UnchangedBySweep
<1>6. CASE RunEmptyNamespaceCleanup(n)
  BY <1>6 DEF RunEmptyNamespaceCleanup, UnchangedBySweep
<1>7. CASE EndSweep(n)
  BY <1>7 DEF EndSweep, UnchangedBySweep
<1>8. CASE Measure(n)
  BY <1>8 DEF Measure, UnchangedByCleanup
<1>9. CASE DeleteTerminatedPods(n)
  BY <1>9 DEF DeleteTerminatedPods, UnchangedByCleanup
<1>10. CASE RunHostCleanupCommand(n)
  BY <1>10 DEF RunHostCleanupCommand, UnchangedByCleanup
<1> QED
  BY <1>1, <1>2, <1>3, <1>4, <1>5, <1>6, <1>7, <1>8, <1>9, <1>10 DEF JanitorStep

-----------------------------------------------------------------------------
(* The steps of the system, for a reader of sweeps *)

(* The pod of n is new.                                                    *)
LEMMA RestartedSweep ==
    ASSUME TypeOK, NEW n \in Nodes, RestartPod(n)
    PROVE  /\ pc'[n] = "asleep" /\ todo'[n] = {} /\ at'[n] = NoNamespace /\ listed'[n] = 0
           /\ renewed'[n] = {}
           /\ \A m \in Nodes \ {n} :
                /\ pc'[m] = pc[m] /\ todo'[m] = todo[m] /\ at'[m] = at[m]
                /\ listed'[m] = listed[m] /\ renewed'[m] = renewed[m]
           /\ UNCHANGED clusterVars
BY TypeParts DEF RestartPod, Goto, SweepType

LEMMA CursorStep == CursorInv /\ [Next]_vars => CursorInv'
<1> SUFFICES ASSUME CursorInv, [Next]_vars PROVE TypeOK' /\ \A m \in Nodes : Cursor(m)'
  BY DEF CursorInv
<1>0. TypeOK /\ \A m \in Nodes : Cursor(m)
  BY DEF CursorInv
<1>1. CASE UNCHANGED <<pc, todo, at, listed>> /\ TypeOK'
  BY <1>0, <1>1 DEF Cursor
<1>2. CASE UNCHANGED vars
  <2>1. TypeOK'
    BY <1>0, <1>2 DEF vars, clusterVars, objectVars, sweepVars, timerVars, hostVars, TypeOK
  <2> QED
    BY <1>1, <1>2, <2>1 DEF vars, sweepVars
<1>3. CASE UsersNext /\ UNCHANGED <<timerVars, hostVars, plan, restarts>>
  <2>1. HostType'
    BY <1>0, <1>3, TypeParts DEF HostType, timerVars, hostVars
  <2> QED
    BY <1>0, <1>1, <1>3, <2>1, UsersType, UsersLeaveSweeps, TypePartsNext
<1>4. CASE Tick
  BY <1>0, <1>1, <1>4, TickType DEF Tick, sweepVars
<1>5. ASSUME NEW n \in Nodes, JanitorStep(n) PROVE TypeOK' /\ \A m \in Nodes : Cursor(m)'
  BY <1>0, <1>5, JanitorCases, SweepStepType, JanitorHostType, TypePartsNext
<1>6. ASSUME NEW n \in Nodes, RestartPod(n) PROVE TypeOK' /\ \A m \in Nodes : Cursor(m)'
  BY <1>0, <1>6, HostStepType, RestartedSweep DEF Cursor, NamespaceLoop, ObjectLoop
<1>7. ASSUME NEW n \in Nodes,
             DiskFills(n) \/ \E what \in Services \cup {"peer"} : ServiceStops(n, what)
      PROVE  TypeOK' /\ \A m \in Nodes : Cursor(m)'
  <2>1. UNCHANGED <<pc, todo, at, listed>>
    BY <1>7 DEF DiskFills, ServiceStops, sweepVars
  <2> QED
    BY <1>0, <1>1, <1>7, <2>1, HostStepType
<1> QED
  BY <1>2, <1>3, <1>4, <1>5, <1>6, <1>7 DEF Next

LEMMA CursorInit == Init => CursorInv
<1> SUFFICES ASSUME Init PROVE TypeOK /\ \A n \in Nodes : Cursor(n)
  BY DEF CursorInv
<1> USE Numbers DEF Init
<1>1. ClusterType
  <2>1. nsAge \in [Namespaces -> 0..EmptyNamespaceGrace]
    OBVIOUS
  <2>2. started \in [Objects -> Age] /\ ended \in [Objects -> Age]
    BY DEF Age
  <2>3. failedFor \in 0..NotFailing
    BY DEF NotFailing
  <2> QED
    BY <2>1, <2>2, <2>3 DEF ClusterType
<1>2. SweepType
  BY DEF SweepType, Steps
<1>3. HostType
  BY DEF HostType
<1>4. \A n \in Nodes : Cursor(n)
  BY DEF Cursor, NamespaceLoop, ObjectLoop
<1> QED
  BY <1>1, <1>2, <1>3, <1>4, TypeParts

LEMMA CursorInvariant == Spec => []CursorInv
BY CursorInit, CursorStep, PTL DEF Spec

(* Every variable of janitors, hosts and cluster keeps its type: a sweep   *)
(* has names of the right sort to do, whoever deletes and creates them.    *)
THEOREM JanitorTypeCorrect == Spec => []TypeOK
<1>1. CursorInv => TypeOK
  BY DEF CursorInv
<1> QED
  BY <1>1, CursorInvariant, PTL

-----------------------------------------------------------------------------
(* Deletions.  What is to do, and was not created again since the list,    *)
(* is still what the list showed.                                          *)

FinishedAt(n) ==
    \A o \in todo[n] \cap Objects :
        Exists(o) /\ o \notin renewed[n] => status[o] \in Finished /\ OldEnough(o)

OldAt(n) ==
    \A ns \in (todo[n] \cup {at[n]}) \cap Namespaces :
        /\ ns \notin Protected
        /\ phase[ns] = "Active" => nsAge[ns] >= EmptyNamespaceGrace \/ ns \in renewed[n]

EmptyAt(n) ==
    at[n] \in Namespaces =>
        \A o \in In(at[n]) : \A i \in 1..listed[n] : KindOf[o] = InspectOrder[i] => o \in renewed[n]

ListInv == \A n \in Nodes : FinishedAt(n) /\ OldAt(n) /\ EmptyAt(n)

(* Nothing that a list left out comes into being, and ages only grow.      *)
NothingCreated ==
    /\ \A o \in Objects :
         Exists(o)' =>
             /\ Exists(o)
             /\ status[o] \in Finished /\ OldEnough(o) => status'[o] \in Finished /\ OldEnough(o)'
    /\ \A ns \in Namespaces :
         phase'[ns] = "Active" =>
             /\ phase[ns] = "Active"
             /\ nsAge[ns] >= EmptyNamespaceGrace => nsAge'[ns] >= EmptyNamespaceGrace

LEMMA ListInvKept ==
    ASSUME NothingCreated, NEW n \in Nodes, FinishedAt(n), OldAt(n), EmptyAt(n),
           todo'[n] \subseteq todo[n], at'[n] = at[n], listed'[n] = listed[n],
           renewed'[n] = renewed[n]
    PROVE  FinishedAt(n)' /\ OldAt(n)' /\ EmptyAt(n)'
<1>1. \A o \in Objects : Exists(o)' => Exists(o)
  BY DEF NothingCreated
<1>2. FinishedAt(n)'
  BY DEF FinishedAt, NothingCreated
<1>3. OldAt(n)'
  <2> SUFFICES ASSUME NEW ns \in (todo'[n] \cup {at'[n]}) \cap Namespaces
               PROVE  /\ ns \notin Protected
                      /\ phase'[ns] = "Active" =>
                           nsAge'[ns] >= EmptyNamespaceGrace \/ ns \in renewed'[n]
    BY DEF OldAt
  <2> QED
    BY DEF OldAt, NothingCreated
<1>4. EmptyAt(n)'
  BY <1>1 DEF EmptyAt, In
<1> QED
  BY <1>2, <1>3, <1>4

LEMMA RemoveCreatesNothing ==
    ASSUME TypeOK, NEW os, Remove(os)
    PROVE  \A o \in Objects :
             Exists(o)' => /\ Exists(o) /\ status'[o] = status[o]
                           /\ started'[o] = started[o] /\ ended'[o] = ended[o]
BY DEF Remove, Exists

LEMMA UsersCreate ==
    ASSUME TypeOK, UsersNext
    PROVE  \/ NothingCreated /\ UNCHANGED renewed
           \/ \E ns \in Namespaces : CreateNamespace(ns)
           \/ \E o \in Objects : CreateObject(o)
<1>0. ClusterType
  BY TypeParts
<1> DEFINE Goal == NothingCreated /\ UNCHANGED renewed
<1>1. ASSUME NEW ns \in Namespaces, UserDeletesNamespace(ns) PROVE Goal
  BY <1>0, <1>1
  DEF UserDeletesNamespace, NothingCreated, Exists, OldEnough, sweepVars, ClusterType
<1>2. ASSUME NEW ns \in Namespaces, FinalizeNamespace(ns) PROVE Goal
  <2>1. \A o \in Objects : Exists(o)' => Exists(o) /\ status'[o] = status[o] /\ ended'[o] = ended[o]
    BY <1>2, RemoveCreatesNothing DEF FinalizeNamespace
  <2>2. \A m \in Namespaces \ {ns} : phase'[m] = phase[m] /\ nsAge'[m] = nsAge[m]
    BY <1>0, <1>2 DEF FinalizeNamespace, ClusterType
  <2>3. phase'[ns] = "absent"
    BY <1>0, <1>2 DEF FinalizeNamespace, ClusterType
  <2>4. \A m \in Namespaces : nsAge[m] \in Nat
    BY <1>0, Numbers DEF ClusterType
  <2> QED
    BY <1>2, <2>1, <2>2, <2>3, <2>4 DEF FinalizeNamespace, NothingCreated, OldEnough, sweepVars
<1>3. \A m \in Namespaces : nsAge[m] \in Nat /\ nsAge[m] >= nsAge[m]
  BY <1>0, Numbers DEF ClusterType
<1>4. ASSUME NEW o \in Objects, ChangeReadiness(o) PROVE Goal
  BY <1>0, <1>3, <1>4
  DEF ChangeReadiness, NothingCreated, Exists, OldEnough, sweepVars, ClusterType, Jobs, Pods
<1>5. ASSUME NEW o \in Objects, UserDeletesObject(o) PROVE Goal
  <2>1. \A q \in Objects : Exists(q)' => Exists(q) /\ status'[q] = status[q] /\ ended'[q] = ended[q]
    BY <1>5, RemoveCreatesNothing DEF UserDeletesObject
  <2> QED
    BY <1>3, <1>5, <2>1 DEF UserDeletesObject, NothingCreated, OldEnough, sweepVars
<1>6. ASSUME NEW o \in Objects, NEW outcome \in Finished, Finish(o, outcome) PROVE Goal
  BY <1>0, <1>3, <1>6 DEF Finish, NothingCreated, Exists, OldEnough, sweepVars, ClusterType, Finished
<1>7. CASE OutageStartsOrEnds
  BY <1>3, <1>7
  DEF OutageStartsOrEnds, NothingCreated, Exists, OldEnough, sweepVars, objectVars
<1> QED
  BY <1>1, <1>2, <1>4, <1>5, <1>6, <1>7 DEF UsersNext

(* A step of a janitor creates nothing.                                    *)
LEMMA SweepCreatesNothing ==
    ASSUME TypeOK, NEW n \in Nodes, SweepStep(n)
    PROVE  NothingCreated
<1>0. ClusterType /\ \A m \in Namespaces : nsAge[m] \in Nat /\ nsAge[m] >= nsAge[m]
  BY TypeParts, Numbers DEF ClusterType
<1>1. CASE UNCHANGED objectVars
  BY <1>0, <1>1 DEF objectVars, NothingCreated, Exists, OldEnough
<1>2. CASE DeleteObject(n)
  <2>1. \A o \in Objects : Exists(o)' => Exists(o) /\ status'[o] = status[o] /\ ended'[o] = ended[o]
    <3>1. (\E o \in todo[n] : Remove({o})) \/ UNCHANGED <<status, started, ended>>
      BY <1>2 DEF DeleteObject
    <3> QED
      BY <3>1, RemoveCreatesNothing DEF Exists
  <2> QED
    BY <1>0, <1>2, <2>1 DEF DeleteObject, NothingCreated, OldEnough
<1>3. CASE DeleteNamespace(n)
  <2>1. \A ns \in Namespaces : phase'[ns] = "Active" => phase[ns] = "Active"
    BY <1>0, <1>3 DEF DeleteNamespace, ClusterType
  <2> QED
    BY <1>0, <1>3, <2>1 DEF DeleteNamespace, NothingCreated, Exists, OldEnough
<1>4. CASE Rests(n) \/ Listing(n) \/ TakeNamespace(n) \/ InspectKind(n)
  <2>1. UNCHANGED objectVars
    BY <1>4
    DEF Rests, clusterVars, Listing, Lists, ListJobs, ListPodsOnNode, ListNamespaces,
        TakeNamespace, InspectKind
  <2> QED
    BY <1>1, <2>1
<1> QED
  BY <1>2, <1>3, <1>4 DEF SweepStep

LEMMA TickCreatesNothing == TypeOK /\ Tick => NothingCreated /\ UNCHANGED sweepVars
<1> SUFFICES ASSUME TypeOK, Tick PROVE NothingCreated /\ UNCHANGED sweepVars
  OBVIOUS
<1>0. ClusterType
  BY TypeParts
<1>1. \A a, b \in Nat : Later(a, b) >= a
  BY DEF Later
<1>2. \A ns \in Namespaces :
        phase'[ns] = "Active" =>
            /\ phase[ns] = "Active"
            /\ nsAge[ns] >= EmptyNamespaceGrace => nsAge'[ns] >= EmptyNamespaceGrace
  BY <1>0, Numbers DEF Tick, ClusterType, Later
<1>3. \A o \in Objects : /\ status'[o] = status[o] /\ ended[o] \in Nat /\ ended'[o] \in Nat
                         /\ ended'[o] >= ended[o]
  <2>1. \A o \in Objects : ended[o] \in 0..Horizon
    BY <1>0 DEF ClusterType, Age
  <2>2. \A o \in Objects :
          ended'[o] = IF status[o] \in Finished THEN Later(ended[o], Horizon) ELSE ended[o]
    BY DEF Tick
  <2> QED
    BY <2>1, <2>2, <1>1, Numbers DEF Tick, Later
<1>4. \A o \in Objects : OldEnough(o) => OldEnough(o)'
  BY <1>3, Numbers DEF OldEnough
<1>5. NothingCreated
  BY <1>2, <1>3, <1>4 DEF NothingCreated, Exists
<1> QED
  BY <1>5 DEF Tick

(* The janitor of n after a step of its own.                               *)
LEMMA ListInvOwnStep ==
    ASSUME CursorInv, ListInv, NEW n \in Nodes, SweepStep(n)
    PROVE  FinishedAt(n)' /\ OldAt(n)' /\ EmptyAt(n)'
<1>0. TypeOK /\ SweepType /\ Cursor(n) /\ FinishedAt(n) /\ OldAt(n) /\ EmptyAt(n)
  BY TypeParts DEF CursorInv, ListInv
<1>1. NothingCreated
  BY <1>0, SweepCreatesNothing
<1>2. CASE Rests(n)
  <2>1. todo'[n] = {} /\ at'[n] = NoNamespace
    BY <1>0, <1>2 DEF Rests, Cursor
  <2> QED
    BY <2>1, Names DEF FinishedAt, OldAt, EmptyAt
<1>3. CASE Listing(n)
  <2>1. at[n] = NoNamespace
    BY <1>0, <1>3 DEF Listing, Cursor
  <2>2. CASE ListJobs(n, "deleteJobs") \/ ListPodsOnNode(n, "deletePods")
    <3>1. /\ todo'[n] \subseteq {o \in Objects : status[o] \in Finished /\ OldEnough(o)}
          /\ UNCHANGED objectVars /\ at' = at
      BY <1>0, <2>2
      DEF ListJobs, ListPodsOnNode, Found, IsFinishedJob, IsTerminatedPod, OldEnough, Jobs, Pods,
          SweepType
    <3>2. FinishedAt(n)'
      BY <3>1 DEF FinishedAt, OldEnough, objectVars
    <3> QED
      BY <2>1, <3>1, <3>2, Names DEF OldAt, EmptyAt
  <2>3. CASE ListNamespaces(n, "namespaces")
    <3>1. /\ todo'[n] = {ns \in Namespaces : IsNamespaceCleanupCandidate(ns)}
          /\ UNCHANGED objectVars /\ at' = at
      BY <1>0, <2>3 DEF ListNamespaces, Found, SweepType
    <3> QED
      BY <2>1, <3>1, Names
      DEF FinishedAt, OldAt, EmptyAt, IsNamespaceCleanupCandidate, objectVars
  <2> QED
    BY <1>3, <2>2, <2>3 DEF Listing, Lists
<1>4. CASE DeleteObject(n)
  <2>1. /\ todo'[n] \subseteq todo[n] /\ at'[n] = at[n] /\ listed'[n] = listed[n]
        /\ renewed'[n] = renewed[n]
    BY <1>0, <1>4 DEF DeleteObject, SweepType
  <2> QED
    BY <1>0, <1>1, <2>1, ListInvKept
<1>5. CASE TakeNamespace(n)
  <2>1. /\ todo[n] \subseteq Namespaces /\ todo'[n] \subseteq todo[n] /\ at'[n] \in todo[n]
        /\ renewed'[n] = renewed[n] \cap Namespaces
        /\ listed'[n] = 0
        /\ UNCHANGED objectVars
    BY <1>0, <1>5 DEF TakeNamespace, SweepType, Cursor, NamespaceLoop
  <2>2. FinishedAt(n)'
    BY <2>1, Names DEF FinishedAt
  <2>3. OldAt(n)'
    BY <1>0, <2>1 DEF OldAt, objectVars
  <2>4. EmptyAt(n)'
    BY <2>1 DEF EmptyAt
  <2> QED
    BY <2>2, <2>3, <2>4
<1>6. CASE InspectKind(n)
  <2>1. /\ UNCHANGED <<objectVars, todo, renewed>>
        /\ at[n] \in Namespaces /\ listed[n] \in Nat
    BY <1>0, <1>6, Numbers DEF InspectKind, Cursor, SweepType
  <2>2. CASE LeaveNamespace(n)
    <3>1. at'[n] = NoNamespace
      BY <1>0, <2>2 DEF LeaveNamespace, SweepType
    <3> QED
      BY <1>0, <2>1, <3>1, Names DEF FinishedAt, OldAt, EmptyAt, objectVars, Exists, OldEnough
  <2>3. CASE /\ ~HasKind(at[n], InspectOrder[listed[n] + 1])
             /\ listed' = [listed EXCEPT ![n] = @ + 1] /\ UNCHANGED at
    <3>1. listed'[n] = listed[n] + 1
      BY <1>0, <2>3 DEF SweepType
    <3>2. \A i \in 1..listed'[n] : i \in 1..listed[n] \/ i = listed[n] + 1
      BY <2>1, <3>1
    <3>3. EmptyAt(n)'
      <4> SUFFICES ASSUME NEW o \in In(at[n]), NEW i \in 1..listed'[n], KindOf[o] = InspectOrder[i]
                   PROVE  o \in renewed[n]
        BY <2>1, <2>3 DEF EmptyAt, In, Exists, objectVars
      <4>1. i \in 1..listed[n]
        BY <2>3, <3>2 DEF HasKind
      <4> QED
        BY <1>0, <2>1, <4>1 DEF EmptyAt
    <3>4. FinishedAt(n)' /\ OldAt(n)'
      BY <1>0, <2>1, <2>3 DEF FinishedAt, OldAt, objectVars, Exists, OldEnough
    <3> QED
      BY <3>3, <3>4
  <2> QED
    BY <1>6, <2>2, <2>3 DEF InspectKind
<1>7. CASE DeleteNamespace(n)
  <2>1. /\ at'[n] = NoNamespace /\ UNCHANGED <<nsAge, status, started, ended, todo, renewed>>
        /\ \A ns \in Namespaces : phase'[ns] = "Active" => phase[ns] = "Active"
    BY <1>0, <1>1, <1>7 DEF DeleteNamespace, LeaveNamespace, SweepType, NothingCreated
  <2> QED
    BY <1>0, <2>1, Names DEF FinishedAt, OldAt, EmptyAt, Exists, OldEnough
<1> QED
  BY <1>2, <1>3, <1>4, <1>5, <1>6, <1>7 DEF SweepStep

LEMMA ListInvStep == CursorInv /\ ListInv /\ [Next]_vars => ListInv'
<1> SUFFICES ASSUME CursorInv, ListInv, [Next]_vars, NEW m \in Nodes
             PROVE  FinishedAt(m)' /\ OldAt(m)' /\ EmptyAt(m)'
  BY DEF ListInv
<1>0. TypeOK /\ FinishedAt(m) /\ OldAt(m) /\ EmptyAt(m) /\ ClusterType /\ SweepType
  BY TypeParts DEF CursorInv, ListInv
<1>1. CASE UNCHANGED <<clusterVars, sweepVars>>
  BY <1>0, <1>1
  DEF clusterVars, objectVars, sweepVars, FinishedAt, OldAt, EmptyAt, Exists, OldEnough, In
<1>2. CASE NothingCreated /\ UNCHANGED sweepVars
  BY <1>0, <1>2, ListInvKept DEF sweepVars
<1>3. ASSUME NEW ns \in Namespaces, CreateNamespace(ns)
      PROVE  FinishedAt(m)' /\ OldAt(m)' /\ EmptyAt(m)'
  <2>1. /\ \A k \in Namespaces \ {ns} : phase'[k] = phase[k] /\ nsAge'[k] = nsAge[k]
        /\ UNCHANGED <<status, started, ended, todo, at, listed>>
        /\ renewed[m] \subseteq renewed'[m]
        /\ ns \in todo[m] \cup {at[m]} => ns \in renewed'[m]
        /\ renewed'[m] \subseteq renewed[m] \cup {ns}
    BY <1>0, <1>3 DEF CreateNamespace, Renew, Concerns, ClusterType
  <2>2. FinishedAt(m)'
    BY <1>0, <2>1 DEF FinishedAt, Exists, OldEnough
  <2>3. OldAt(m)'
    BY <1>0, <2>1 DEF OldAt
  <2>4. EmptyAt(m)'
    BY <1>0, <2>1 DEF EmptyAt, In, Exists
  <2> QED
    BY <2>2, <2>3, <2>4
<1>4. ASSUME NEW o \in Objects, CreateObject(o)
      PROVE  FinishedAt(m)' /\ OldAt(m)' /\ EmptyAt(m)'
  <2>1. /\ \A q \in Objects \ {o} : status'[q] = status[q]
        /\ UNCHANGED <<phase, nsAge, started, ended, todo, at, listed>>
        /\ renewed[m] \subseteq renewed'[m]
        /\ o \in todo[m] \/ NsOf[o] = at[m] => o \in renewed'[m]
    BY <1>0, <1>4 DEF CreateObject, Renew, Concerns, ClusterType
  <2>2. FinishedAt(m)'
    BY <1>0, <2>1 DEF FinishedAt, Exists, OldEnough
  <2>3. OldAt(m)'
    BY <1>0, <2>1 DEF OldAt
  <2>4. EmptyAt(m)'
    BY <1>0, <2>1 DEF EmptyAt, In, Exists
  <2> QED
    BY <2>2, <2>3, <2>4
<1>5. CASE UsersNext
  <2>1. CASE NothingCreated /\ UNCHANGED renewed
    BY <1>2, <1>5, <2>1, UsersLeaveSweeps DEF sweepVars
  <2> QED
    BY <1>0, <1>3, <1>4, <1>5, <2>1, UsersCreate
<1>6. CASE Tick
  BY <1>0, <1>2, <1>6, TickCreatesNothing
<1>7. ASSUME NEW n \in Nodes, JanitorStep(n)
      PROVE  FinishedAt(m)' /\ OldAt(m)' /\ EmptyAt(m)'
  <2>1. SweepStep(n)
    BY <1>7, JanitorCases
  <2>2. CASE m = n
    BY <2>1, <2>2, ListInvOwnStep
  <2>3. CASE m # n
    <3>1. /\ NothingCreated
          /\ todo'[m] = todo[m] /\ at'[m] = at[m] /\ listed'[m] = listed[m] /\ renewed'[m] = renewed[m]
      BY <1>0, <2>1, <2>3, SweepCreatesNothing, SweepsAreLocal
    <3> QED
      BY <1>0, <3>1, ListInvKept
  <2> QED
    BY <2>2, <2>3
<1>8. ASSUME NEW n \in Nodes, RestartPod(n)
      PROVE  FinishedAt(m)' /\ OldAt(m)' /\ EmptyAt(m)'
  <2>1. UNCHANGED <<phase, nsAge, status, started, ended>>
    BY <1>0, <1>8, RestartedSweep DEF clusterVars, objectVars
  <2>2. CASE m = n
    <3>1. todo'[m] = {} /\ at'[m] = NoNamespace
      BY <1>0, <1>8, <2>2, RestartedSweep
    <3> QED
      BY <3>1, Names DEF FinishedAt, OldAt, EmptyAt
  <2>3. CASE m # n
    <3>1. todo'[m] = todo[m] /\ at'[m] = at[m] /\ listed'[m] = listed[m] /\ renewed'[m] = renewed[m]
      BY <1>0, <1>8, <2>3, RestartedSweep
    <3> QED
      BY <1>0, <2>1, <3>1 DEF FinishedAt, OldAt, EmptyAt, Exists, OldEnough, In
  <2> QED
    BY <2>2, <2>3
<1>9. CASE \E n \in Nodes : DiskFills(n) \/ \E what \in Services \cup {"peer"} : ServiceStops(n, what)
  BY <1>1, <1>9 DEF DiskFills, ServiceStops
<1>10. CASE UNCHANGED vars
  BY <1>1, <1>10 DEF vars
<1> QED
  BY <1>5, <1>6, <1>7, <1>8, <1>9, <1>10 DEF Next

LEMMA ListInvariant == Spec => [](CursorInv /\ ListInv)
<1>1. Init => ListInv
  BY Names DEF Init, ListInv, FinishedAt, OldAt, EmptyAt
<1> QED
  BY <1>1, CursorInvariant, ListInvStep, PTL DEF Spec

(* A job or pod that a janitor deletes by name has finished for its grace  *)
(* period, unless the name was used again since the list.                  *)
THEOREM DeletedAreFinished == Spec => OnlyFinishedAreDeleted
<1> DEFINE Step ==
      \A n \in Nodes : \A o \in todo[n] \ todo'[n] :
         o \in Objects /\ Exists(o) /\ status'[o] = "absent" =>
             (status[o] \in Finished /\ OldEnough(o)) \/ o \in renewed[n]
<1>1. ListInv => Step
  BY DEF ListInv, FinishedAt
<1>2. OnlyFinishedAreDeleted <=> [][Step]_vars
  BY DEF OnlyFinishedAreDeleted
<1> HIDE DEF Step
<1> QED
  BY <1>1, <1>2, ListInvariant, PTL

(* A namespace that a janitor deletes is unprotected and, unless it was    *)
(* created again since the list, old enough; of the kinds inspected it     *)
(* holds only objects created after the inspection began.                  *)
THEOREM DeletedNamespaceSeenEmpty == Spec => NamespaceSeenEmpty
<1> DEFINE Step ==
      \A n \in Nodes :
         pc[n] = "deleteNamespace" /\ at'[n] = NoNamespace /\ phase' # phase =>
             /\ at[n] \notin Protected
             /\ nsAge[at[n]] >= EmptyNamespaceGrace \/ at[n] \in renewed[n]
             /\ \A o \in In(at[n]) : KindOf[o] \in InspectedKinds => o \in renewed[n]
<1>1. CursorInv /\ ListInv /\ [Next]_vars => Step
  <2> SUFFICES ASSUME CursorInv, ListInv, [Next]_vars, NEW n \in Nodes,
                      pc[n] = "deleteNamespace", at'[n] = NoNamespace, phase' # phase
               PROVE  /\ at[n] \notin Protected
                      /\ nsAge[at[n]] >= EmptyNamespaceGrace \/ at[n] \in renewed[n]
                      /\ \A o \in In(at[n]) : KindOf[o] \in InspectedKinds => o \in renewed[n]
    OBVIOUS
  <2>1. /\ TypeOK /\ ClusterType /\ SweepType
        /\ at[n] \in Namespaces /\ listed[n] = LastInspected
        /\ OldAt(n) /\ EmptyAt(n)
    BY TypeParts DEF CursorInv, ListInv, Cursor
  <2>2. at'[n] # at[n]
    BY <2>1, Names
  <2>3. PICK k \in Nodes : JanitorStep(k)
    <3>1. ~UNCHANGED vars
      BY DEF vars, clusterVars, objectVars
    <3>2. ~UsersNext
      BY <2>2, UsersLeaveSweeps
    <3>3. ~Tick
      BY DEF Tick
    <3>4. \A k \in Nodes : ~RestartPod(k) /\ ~DiskFills(k)
                           /\ \A what \in Services \cup {"peer"} : ~ServiceStops(k, what)
      BY DEF RestartPod, DiskFills, ServiceStops, clusterVars, objectVars
    <3> QED
      BY <3>1, <3>2, <3>3, <3>4 DEF Next
  <2>4. SweepStep(n)
    <3>1. SweepStep(k)
      BY <2>3, JanitorCases
    <3>2. k = n
      BY <2>1, <2>2, <3>1, SweepsAreLocal
    <3> QED
      BY <3>1, <3>2
  <2>5. DeleteNamespace(n)
    BY <2>4
    DEF SweepStep, Rests, Listing, DeleteObject, TakeNamespace, InspectKind
  <2>6. phase[at[n]] = "Active"
    BY <2>5 DEF DeleteNamespace
  <2>7. InspectedKinds = {InspectOrder[i] : i \in 1..listed[n]}
    BY <2>1 DEF InspectedKinds, LastInspected
  <2> QED
    BY <2>1, <2>6, <2>7 DEF OldAt, EmptyAt
<1>2. NamespaceSeenEmpty <=> [][Step]_vars
  BY DEF NamespaceSeenEmpty
<1> HIDE DEF Step
<1> QED
  BY <1>1, <1>2, ListInvariant, PTL DEF Spec

-----------------------------------------------------------------------------
(* What the dashboard shows.  The failure that it must show is of a run    *)
(* that started after every success ended: CronJobs start no run beside    *)
(* another one, and a janitor finds no run before its grace period.        *)

KindsInv ==
    \A o \in Objects :
        /\ status[o] = "unready" => KindOf[o] = "Deployment"
        /\ status[o] \in Finished => KindOf[o] \in {"Job", "Pod"}
        /\ status[o] \notin Finished => ended[o] = 0
        /\ status[o] = "absent" => started[o] = 0

OneRunInv ==
    \A q, r \in CronRuns :
        status[r] = "running" =>
            /\ status[q] = "running" => q = r
            /\ status[q] = "succeeded" => started[r] <= ended[q]

(* The name of a run that is to be deleted is not used again.              *)
RunNamesInv == \A n \in Nodes : todo[n] \cap renewed[n] \cap CronRuns = {}

LatestFailure(r) ==
    /\ status[r] = "failed" /\ ended[r] = failedFor
    /\ \A q \in CronRuns :
         status[q] = "succeeded" =>
             /\ started[r] < ended[q]
             /\ started[r] + FinishedJobGrace <= Horizon + failedFor

FailureInv ==
    failedFor < NotFailing =>
        /\ \A q \in CronRuns : status[q] # "running"
        /\ \E r \in CronRuns : LatestFailure(r)

RunsInv == KindsInv /\ OneRunInv /\ FailureInv

LEMMA AgesAreNatural ==
    ASSUME TypeOK
    PROVE  /\ \A o \in Objects : started[o] \in 0..Horizon /\ ended[o] \in 0..Horizon
           /\ failedFor \in 0..FinishedJobGrace
BY DEF TypeOK, Age, NotFailing

(* Runs go, but not the latest failure unless it is forgotten.             *)
LEMMA RunsInvRemove ==
    ASSUME TypeOK, RunsInv, NEW os, Remove(os),
           \/ failedFor' = NotFailing
           \/ failedFor' = failedFor /\ \A r \in CronRuns : LatestFailure(r) => r \notin os
    PROVE  RunsInv'
<1>1. \A o \in Objects : IF o \in os
                         THEN status'[o] = "absent" /\ started'[o] = 0 /\ ended'[o] = 0
                         ELSE status'[o] = status[o] /\ started'[o] = started[o] /\ ended'[o] = ended[o]
  BY DEF Remove
<1>2. KindsInv'
  BY <1>1 DEF RunsInv, KindsInv, Finished
<1>3. OneRunInv'
  BY <1>1, Names DEF RunsInv, OneRunInv
<1>4. CASE failedFor' = NotFailing
  BY <1>2, <1>3, <1>4, Numbers DEF RunsInv, FailureInv, NotFailing
<1>5. CASE failedFor' = failedFor /\ \A r \in CronRuns : LatestFailure(r) => r \notin os
  <2>1. \A r \in CronRuns : LatestFailure(r) => LatestFailure(r)'
    BY <1>1, <1>5, Names DEF LatestFailure
  <2>2. FailureInv'
    BY <1>1, <1>5, <2>1, Names DEF RunsInv, FailureInv
  <2> QED
    BY <1>2, <1>3, <2>2 DEF RunsInv
<1> QED
  BY <1>4, <1>5

LEMMA RunsInvSame ==
    ASSUME RunsInv, UNCHANGED <<status, started, ended, failedFor>>
    PROVE  RunsInv'
BY DEF RunsInv, KindsInv, OneRunInv, FailureInv, LatestFailure

(* A run fails, and no success is as recent as its start.                  *)
LEMMA RunsInvFinish ==
    ASSUME TypeOK, RunsInv, NEW o \in Objects, NEW outcome \in Finished, Finish(o, outcome)
    PROVE  RunsInv'
<1>1. /\ status[o] = "running" /\ status'[o] = outcome /\ outcome # "running"
      /\ KindOf[o] \in {"Job", "Pod"}
      /\ \A q \in Objects \ {o} : status'[q] = status[q]
      /\ UNCHANGED <<started, ended>>
  BY DEF Finish, TypeOK, Finished, Jobs, Pods
<1>2. KindsInv'
  BY <1>1 DEF RunsInv, KindsInv, Finished
<1>3. OneRunInv'
  <2> SUFFICES ASSUME NEW q \in CronRuns, NEW r \in CronRuns, status'[r] = "running"
               PROVE  /\ status'[q] = "running" => q = r
                      /\ status'[q] = "succeeded" => started[r] <= ended[q]
    BY <1>1 DEF OneRunInv
  <2>1. r # o /\ status[r] = "running"
    BY <1>1, Names
  <2>2. q # o
    BY <1>1, <2>1 DEF RunsInv, OneRunInv
  <2> QED
    BY <1>1, <2>1, <2>2, Names DEF RunsInv, OneRunInv
<1>4. CASE o \notin CronRuns
  <2>1. /\ failedFor' = failedFor
        /\ \A q \in CronRuns : status'[q] = status[q]
    BY <1>1, <1>4, Names DEF Finish
  <2>2. FailureInv'
    BY <1>1, <2>1 DEF RunsInv, FailureInv, LatestFailure
  <2> QED
    BY <1>2, <1>3, <2>2 DEF RunsInv
<1>5. CASE o \in CronRuns
  <2>1. failedFor = NotFailing
    BY <1>1, <1>5, AgesAreNatural, Numbers DEF RunsInv, FailureInv, NotFailing
  <2>2. CASE outcome = "failed" /\ ~Shadowed(o)
    <3>1. failedFor' = 0 /\ status'[o] = "failed" /\ ended'[o] = 0
      BY <1>1, <1>5, <2>2 DEF Finish, RunsInv, KindsInv, Finished
    <3>2. ASSUME NEW q \in CronRuns, status'[q] = "succeeded"
          PROVE  started'[o] < ended'[q] /\ started'[o] + FinishedJobGrace <= Horizon
      <4>1. q # o /\ status[q] = "succeeded"
        BY <1>1, <3>1, <3>2, Names
      <4>2. started[o] <= ended[q]
        BY <1>1, <1>5, <4>1 DEF RunsInv, OneRunInv
      <4>3. ended[q] # started[o] /\ ~(started[o] + FinishedJobGrace > Horizon)
        BY <2>2, <4>1 DEF Shadowed
      <4> QED
        BY <1>1, <4>2, <4>3, AgesAreNatural, Names, Numbers
    <3>3. LatestFailure(o)'
      BY <3>1, <3>2, Numbers DEF LatestFailure
    <3>4. \A q \in CronRuns : status'[q] # "running"
      BY <1>1, <1>5, Names DEF RunsInv, OneRunInv
    <3> QED
      BY <1>2, <1>3, <1>5, <3>3, <3>4 DEF RunsInv, FailureInv
  <2>3. CASE ~(outcome = "failed" /\ ~Shadowed(o))
    <3>1. failedFor' = failedFor
      BY <2>3 DEF Finish
    <3> QED
      BY <1>2, <1>3, <2>1, <3>1, Numbers DEF RunsInv, FailureInv, NotFailing
  <2> QED
    BY <2>2, <2>3
<1> QED
  BY <1>4, <1>5

LEMMA RunsInvUsers ==
    ASSUME TypeOK, RunsInv, UsersNext
    PROVE  RunsInv'
<1>1. ASSUME NEW ns \in Namespaces, CreateNamespace(ns) \/ UserDeletesNamespace(ns)
      PROVE  RunsInv'
  BY <1>1, RunsInvSame DEF CreateNamespace, UserDeletesNamespace
<1>2. ASSUME NEW ns \in Namespaces, FinalizeNamespace(ns) PROVE RunsInv'
  BY <1>2, RunsInvRemove DEF FinalizeNamespace
<1>3. ASSUME NEW o \in Objects, CreateObject(o) PROVE RunsInv'
  <2>1. /\ status[o] = "absent" /\ status'[o] = "running"
        /\ \A q \in Objects \ {o} : status'[q] = status[q]
        /\ UNCHANGED <<started, ended>>
    BY <1>3 DEF CreateObject, Exists, TypeOK
  <2>2. KindsInv'
    BY <2>1 DEF RunsInv, KindsInv, Finished
  <2>3. CASE o \notin CronRuns
    <3>1. failedFor' = failedFor /\ \A q \in CronRuns : status'[q] = status[q]
      BY <1>3, <2>1, <2>3, Names DEF CreateObject
    <3>2. OneRunInv' /\ FailureInv'
      BY <2>1, <3>1 DEF RunsInv, OneRunInv, FailureInv, LatestFailure
    <3> QED
      BY <2>2, <3>2 DEF RunsInv
  <2>4. CASE o \in CronRuns
    <3>1. failedFor' = NotFailing /\ \A q \in CronRuns : status[q] # "running"
      BY <1>3, <2>4 DEF CreateObject, MayStart
    <3>2. started[o] = 0 /\ \A q \in CronRuns : 0 <= ended[q]
      BY <2>1, AgesAreNatural, Names DEF RunsInv, KindsInv
    <3>3. OneRunInv'
      BY <2>1, <3>1, <3>2, Names DEF OneRunInv
    <3>4. FailureInv'
      BY <3>1, Numbers DEF FailureInv, NotFailing
    <3> QED
      BY <2>2, <3>3, <3>4 DEF RunsInv
  <2> QED
    BY <2>3, <2>4
<1>4. ASSUME NEW o \in Objects, ChangeReadiness(o) PROVE RunsInv'
  <2>1. /\ KindOf[o] = "Deployment" /\ status[o] \notin Finished /\ status[o] # "absent"
        /\ status'[o] \in {"running", "unready"}
        /\ \A q \in Objects \ {o} : status'[q] = status[q]
        /\ UNCHANGED <<started, ended, failedFor>>
    BY <1>4 DEF ChangeReadiness, TypeOK, Exists, RunsInv, KindsInv
  <2>2. \A q \in CronRuns : status'[q] = status[q]
    BY <2>1, Names
  <2>3. KindsInv'
    BY <2>1 DEF RunsInv, KindsInv, Finished
  <2> QED
    BY <2>1, <2>2, <2>3 DEF RunsInv, OneRunInv, FailureInv, LatestFailure
<1>5. ASSUME NEW o \in Objects, UserDeletesObject(o) PROVE RunsInv'
  BY <1>5, RunsInvRemove DEF UserDeletesObject
<1>6. ASSUME NEW o \in Objects, NEW outcome \in Finished, Finish(o, outcome) PROVE RunsInv'
  BY <1>6, RunsInvFinish
<1>7. CASE OutageStartsOrEnds
  BY <1>7, RunsInvSame DEF OutageStartsOrEnds, objectVars
<1> QED
  BY <1>1, <1>2, <1>3, <1>4, <1>5, <1>6, <1>7 DEF UsersNext

(* Until the grace period is over, ages of the failed run and of older     *)
(* successes grow alike: the horizon does not make them equal.             *)
LEMMA RunsInvTick == TypeOK /\ RunsInv /\ Tick => RunsInv'
<1> SUFFICES ASSUME TypeOK, RunsInv, Tick PROVE RunsInv'
  OBVIOUS
<1>1. \A o \in Objects :
        /\ status'[o] = status[o]
        /\ status[o] \in Finished => ended'[o] = Later(ended[o], Horizon)
        /\ status[o] \notin Finished => ended'[o] = ended[o]
        /\ started'[o] = Later(started[o], Horizon) \/ started'[o] = started[o]
        /\ status[o] = "absent" => started'[o] = started[o]
  BY DEF Tick, Exists
<1>2. \A r \in CronRuns : status[r] # "absent" => started'[r] = Later(started[r], Horizon)
  BY Names DEF Tick, Exists
<1>3. \A o \in Objects : started[o] \in 0..Horizon /\ ended[o] \in 0..Horizon
  BY AgesAreNatural
<1>4. KindsInv'
  BY <1>1 DEF RunsInv, KindsInv
<1>5. OneRunInv'
  <2>1. \A a, b \in 0..Horizon : a <= b => Later(a, Horizon) <= Later(b, Horizon)
    BY Numbers DEF Later
  <2> QED
    BY <1>1, <1>2, <1>3, <2>1, Names DEF RunsInv, OneRunInv, Finished
<1>6. FailureInv'
  <2> SUFFICES ASSUME failedFor' < NotFailing
               PROVE  /\ \A q \in CronRuns : status'[q] # "running"
                      /\ \E r \in CronRuns : LatestFailure(r)'
    BY DEF FailureInv
  <2>1. failedFor < FinishedJobGrace /\ failedFor' = failedFor + 1 /\ failedFor + 1 < FinishedJobGrace
    BY AgesAreNatural, Numbers DEF Tick, Later, NotFailing
  <2>2. PICK r \in CronRuns : LatestFailure(r)
    BY <2>1 DEF RunsInv, FailureInv, NotFailing
  <2>3. status'[r] = "failed" /\ ended'[r] = failedFor + 1
    BY <1>1, <2>1, <2>2, AgesAreNatural, Names, Numbers DEF LatestFailure, Finished, Later
  <2>4. ASSUME NEW q \in CronRuns, status'[q] = "succeeded"
        PROVE  /\ started'[r] < ended'[q]
               /\ started'[r] + FinishedJobGrace <= Horizon + failedFor'
    <3>1. /\ status[q] = "succeeded" /\ started[r] < ended[q]
          /\ started[r] + FinishedJobGrace <= Horizon + failedFor
      BY <1>1, <2>2, <2>4, Names DEF LatestFailure
    <3>2. started'[r] = Later(started[r], Horizon) /\ ended'[q] = Later(ended[q], Horizon)
      BY <1>1, <1>2, <2>2, <3>1, Names DEF LatestFailure, Finished
    <3>3. started[r] \in 0..Horizon /\ ended[q] \in 0..Horizon /\ failedFor \in 0..FinishedJobGrace
      BY <1>3, AgesAreNatural, Names
    <3> QED
      BY <2>1, <3>1, <3>2, <3>3, Numbers DEF Later
  <2>5. LatestFailure(r)'
    BY <2>1, <2>3, <2>4 DEF LatestFailure
  <2>6. \A q \in CronRuns : status'[q] # "running"
    BY <1>1, <2>1, Names DEF RunsInv, FailureInv, NotFailing
  <2> QED
    BY <2>5, <2>6
<1> QED
  BY <1>4, <1>5, <1>6 DEF RunsInv

(* A janitor that has the latest failure to do found it too early, or      *)
(* under a name used again.                                                *)
LEMMA RunsInvDelete ==
    ASSUME TypeOK, ListInv, RunNamesInv, RunsInv, NEW n \in Nodes, DeleteObject(n)
    PROVE  RunsInv'
<1>1. CASE UNCHANGED <<status, started, ended>>
  BY <1>1, RunsInvSame DEF DeleteObject
<1>2. ASSUME NEW o \in todo[n], Remove({o}) PROVE RunsInv'
  <2>1. CASE failedFor = NotFailing
    BY <1>2, <2>1, RunsInvRemove DEF DeleteObject
  <2>2. ASSUME NEW r \in CronRuns, LatestFailure(r), failedFor # NotFailing PROVE r # o
    <3>1. r \in Objects /\ Exists(r) /\ KindOf[r] = "Job" /\ ended[r] < FinishedJobGrace
      BY <2>2, AgesAreNatural, Names, Numbers DEF LatestFailure, Exists, NotFailing
    <3>2. ~OldEnough(r)
      BY <3>1, AgesAreNatural, Numbers DEF OldEnough, Pods
    <3>3. r \in todo[n] => r \in renewed[n]
      BY <3>1, <3>2 DEF ListInv, FinishedAt
    <3> QED
      BY <3>3 DEF RunNamesInv
  <2> QED
    BY <1>2, <2>1, <2>2, RunsInvRemove DEF DeleteObject
<1> QED
  BY <1>1, <1>2 DEF DeleteObject

LEMMA RunNamesStep == CursorInv /\ RunNamesInv /\ [Next]_vars => RunNamesInv'
<1> SUFFICES ASSUME CursorInv, RunNamesInv, [Next]_vars, NEW m \in Nodes, NEW r \in CronRuns,
                    r \in todo'[m], r \in renewed'[m]
             PROVE  FALSE
  BY DEF RunNamesInv
<1>0. TypeOK /\ SweepType /\ r \in Objects /\ ~(r \in todo[m] /\ r \in renewed[m])
  BY TypeParts, Names DEF CursorInv, RunNamesInv
<1>1. CASE UNCHANGED <<todo, renewed>>
  BY <1>0, <1>1
<1>2. CASE UsersNext
  <2>1. CASE NothingCreated /\ UNCHANGED renewed
    BY <1>1, <1>2, <2>1, UsersLeaveSweeps
  <2>2. ASSUME NEW ns \in Namespaces, CreateNamespace(ns) PROVE FALSE
    <3>1. renewed'[m] \subseteq renewed[m] \cup {ns} /\ todo' = todo
      BY <1>0, <2>2 DEF CreateNamespace, Renew
    <3> QED
      BY <1>0, <3>1, Names
  <2>3. ASSUME NEW o \in Objects, CreateObject(o) PROVE FALSE
    <3>1. /\ renewed'[m] \subseteq renewed[m] \cup {o} /\ todo' = todo
          /\ o \in CronRuns => o \notin todo[m]
      BY <1>0, <2>3 DEF CreateObject, MayStart, Renew
    <3> QED
      BY <1>0, <3>1
  <2> QED
    BY <1>0, <1>2, <2>1, <2>2, <2>3, UsersCreate
<1>3. ASSUME NEW n \in Nodes, JanitorStep(n) PROVE FALSE
  <2>1. SweepStep(n)
    BY <1>3, JanitorCases
  <2>2. m = n
    BY <1>0, <2>1, SweepsAreLocal
  <2>3. renewed'[n] \subseteq renewed[n] /\ (todo'[n] \subseteq todo[n] \/ renewed'[n] = {})
    <3>1. CASE Listing(n)
      <4>1. renewed' = [renewed EXCEPT ![n] = {}]
        BY <3>1 DEF Listing, Lists, ListJobs, ListPodsOnNode, ListNamespaces, Found
      <4> QED
        BY <1>0, <4>1 DEF SweepType
    <3>2. CASE Rests(n)
      BY <1>0, <3>2 DEF Rests, SweepType
    <3>3. CASE DeleteObject(n)
      BY <1>0, <3>3 DEF DeleteObject, SweepType
    <3>4. CASE TakeNamespace(n)
      BY <1>0, <3>4 DEF TakeNamespace, SweepType
    <3>5. CASE InspectKind(n)
      BY <1>0, <3>5 DEF InspectKind, SweepType
    <3>6. CASE DeleteNamespace(n)
      BY <1>0, <3>6 DEF DeleteNamespace, SweepType
    <3> QED
      BY <2>1, <3>1, <3>2, <3>3, <3>4, <3>5, <3>6 DEF SweepStep
  <2> QED
    BY <1>0, <2>2, <2>3
<1>4. ASSUME NEW n \in Nodes, RestartPod(n) PROVE FALSE
  BY <1>0, <1>4, RestartedSweep
<1>5. CASE \/ UNCHANGED vars \/ Tick
           \/ \E n \in Nodes : DiskFills(n) \/ \E what \in Services \cup {"peer"} : ServiceStops(n, what)
  BY <1>1, <1>5 DEF vars, Tick, DiskFills, ServiceStops, sweepVars
<1> QED
  BY <1>2, <1>3, <1>4, <1>5 DEF Next

LEMMA RunsInvStep ==
    CursorInv /\ ListInv /\ RunNamesInv /\ RunsInv /\ [Next]_vars => RunsInv'
<1> SUFFICES ASSUME CursorInv, ListInv, RunNamesInv, RunsInv, [Next]_vars PROVE RunsInv'
  OBVIOUS
<1>0. TypeOK
  BY DEF CursorInv
<1>1. CASE UNCHANGED objectVars
  BY <1>1, RunsInvSame DEF objectVars
<1>2. CASE UsersNext \/ Tick
  BY <1>0, <1>2, RunsInvUsers, RunsInvTick
<1>3. ASSUME NEW n \in Nodes, JanitorStep(n) PROVE RunsInv'
  <2>1. SweepStep(n)
    BY <1>3, JanitorCases
  <2>2. CASE DeleteObject(n)
    BY <1>0, <2>2, RunsInvDelete
  <2>3. CASE UNCHANGED <<status, started, ended, failedFor>>
    BY <2>3, RunsInvSame
  <2> QED
    BY <2>1, <2>2, <2>3
    DEF SweepStep, Rests, clusterVars, objectVars, Listing, Lists, ListJobs, ListPodsOnNode,
        ListNamespaces, TakeNamespace, InspectKind, DeleteNamespace
<1>4. CASE \/ UNCHANGED vars
           \/ \E n \in Nodes : \/ RestartPod(n) \/ DiskFills(n)
                               \/ \E what \in Services \cup {"peer"} : ServiceStops(n, what)
  BY <1>1, <1>4 DEF vars, clusterVars, RestartPod, DiskFills, ServiceStops
<1> QED
  BY <1>2, <1>3, <1>4 DEF Next

LEMMA RunsInvariant == Spec => [](TypeOK /\ RunsInv)
<1>1. Init => RunNamesInv /\ RunsInv
  <2> SUFFICES ASSUME Init PROVE RunNamesInv /\ RunsInv
    OBVIOUS
  <2>1. RunNamesInv
    BY DEF Init, RunNamesInv
  <2>2. KindsInv /\ OneRunInv
    BY Names DEF Init, KindsInv, OneRunInv, Finished
  <2>3. FailureInv
    BY Numbers DEF Init, FailureInv, NotFailing
  <2> QED
    BY <2>1, <2>2, <2>3 DEF RunsInv
<1>2. CursorInv => TypeOK
  BY DEF CursorInv
<1> QED
  BY <1>1, <1>2, ListInvariant, RunNamesStep, RunsInvStep, PTL DEF Spec

(* The dashboard picks a run that failed.                                  *)
LEMMA LastRunFailed ==
    ASSUME TypeOK, RunsInv, failedFor < FinishedJobGrace
    PROVE  D!LastRunStates(RunsOfCronJob) = {"failed"}
<1> DEFINE run(q) == [state |-> status[q], started |-> started[q], ended |-> ended[q]]
           jobs == RunsOfCronJob
           keys == {D!KeyAge(job) : job \in jobs}
<1>1. PICK r \in CronRuns : LatestFailure(r)
  BY DEF RunsInv, FailureInv, NotFailing
<1>2. jobs = {run(q) : q \in {p \in CronRuns : Exists(p)}}
  BY DEF RunsOfCronJob
<1>3. run(r) \in jobs /\ D!KeyAge(run(r)) = started[r]
  BY <1>1, <1>2 DEF LatestFailure, Exists, D!KeyAge
<1>4. \A q \in CronRuns : D!KeyAge(run(q)) = IF status[q] = "succeeded" THEN ended[q] ELSE started[q]
  BY DEF D!KeyAge
<1>5. keys \subseteq Nat /\ keys # {}
  <2>1. \A q \in CronRuns : started[q] \in Nat /\ ended[q] \in Nat
    BY AgesAreNatural, Names, Numbers
  <2> HIDE DEF run
  <2>2. \A job \in jobs : D!KeyAge(job) \in Nat
    BY <1>2, <1>4, <2>1
  <2> QED
    BY <1>3, <2>2
<1>6. PICK first \in jobs : \A job \in jobs : D!KeyAge(first) <= D!KeyAge(job)
  <2>1. PICK m \in keys : \A k \in keys : m <= k
    BY <1>5, LeastNatural
  <2> QED
    BY <2>1
<1>7. ASSUME NEW job \in D!LastRuns(jobs) PROVE job.state = "failed"
  <2>1. job \in jobs /\ D!KeyAge(job) <= started[r]
    BY <1>3, <1>7 DEF D!LastRuns
  <2>2. PICK q \in CronRuns : Exists(q) /\ job = run(q)
    BY <1>2, <2>1
  <2>3. status[q] # "succeeded"
    <3>1. status[q] = "succeeded" => started[r] < ended[q]
      BY <1>1 DEF LatestFailure
    <3>2. started[r] \in Nat /\ ended[q] \in Nat
      BY AgesAreNatural, Names, Numbers
    <3> QED
      BY <1>4, <2>1, <2>2, <3>1, <3>2
  <2>4. status[q] \in {"running", "unready", "succeeded", "failed"}
    BY <2>2, Names DEF TypeOK, Exists, Finished
  <2>5. status[q] # "running" /\ status[q] # "unready"
    BY Names DEF RunsInv, FailureInv, KindsInv, NotFailing
  <2> QED
    BY <2>2, <2>3, <2>4, <2>5
<1>8. first \in D!LastRuns(jobs)
  BY <1>6 DEF D!LastRuns
<1>9. {job.state : job \in D!LastRuns(jobs)} = {"failed"}
  BY <1>7, <1>8
<1> QED
  BY <1>3, <1>9 DEF D!LastRunStates

(* While the cluster can be read, a failed latest run is shown for its     *)
(* grace period, whatever janitors, users and the CronJob do.              *)
THEOREM FailureStaysShown == Spec => []FailureIsShown
<1>1. TypeOK /\ RunsInv => FailureIsShown
  <2> SUFFICES ASSUME TypeOK, RunsInv, ~outage, failedFor < FinishedJobGrace, NEW d \in Objects
               PROVE  ShownStatuses(d) = {"degraded"}
    BY DEF FailureIsShown
  <2>1. D!CronJobStatus("failed") = "degraded"
    BY DEF D!CronJobStatus
  <2>2. ClusterStatus(d, "failed") = "degraded"
    BY <2>1 DEF ClusterStatus, D!WorkloadStatus
  <2> QED
    BY <2>2, LastRunFailed DEF ShownStatuses
<1> QED
  BY <1>1, RunsInvariant, PTL

=============================================================================
