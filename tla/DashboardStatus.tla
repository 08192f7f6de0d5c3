--------------------------- MODULE DashboardStatus ---------------------------
(***************************************************************************)
(* What the client's dashboard makes of the cluster objects it reads       *)
(* (client/lib/status.ts), as operators on values.  A job is a record of   *)
(* its state and of the seconds since it started and since it ended.       *)
(***************************************************************************)
EXTENDS Integers

Job == [state : {"running", "succeeded", "failed"}, started : Nat, ended : Nat]

KeyAge_Oldest(job) == IF job.state = "succeeded" THEN -job.ended ELSE -job.started

(* completionTime ?? startTime: Kubernetes sets the completion time of     *)
(* jobs that succeeded only.                                               *)
KeyAge(job) == IF job.state = "succeeded" THEN job.ended ELSE job.started

(* The first of the sorted jobs, or each of those that share its second.   *)
LastRuns(jobs) == {job \in jobs : \A other \in jobs : KeyAge(job) <= KeyAge(other)}

LastRunStates(jobs) ==
    IF jobs = {} THEN {"unknown"} ELSE {job.state : job \in LastRuns(jobs)}

CronJobStatus(lastRun) ==
    CASE lastRun = "failed"  -> "degraded"
      [] lastRun = "running" -> "active"
      [] OTHER               -> "scheduled"

(* A deployment that was not found counts as one of no replicas.           *)
DeploymentStatus(desired, available) ==
    IF desired = 0 THEN "inactive"
    ELSE IF available >= desired THEN "active" ELSE "degraded"

CatalogStatus(kind, enabledByDefault) ==
    IF kind = "cronjob" THEN "scheduled"
    ELSE IF enabledByDefault THEN "unknown" ELSE "inactive"

(* Of the statuses of a workload's services.                               *)
WorkloadStatus(services) ==
    IF "degraded" \in services THEN "degraded"
    ELSE IF "active" \in services THEN "active"
    ELSE IF "scheduled" \in services THEN "scheduled"
    ELSE IF services \subseteq {"inactive"} THEN "inactive" ELSE "unknown"

=============================================================================
