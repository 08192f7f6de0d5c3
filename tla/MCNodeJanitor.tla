---------------------------- MODULE MCNodeJanitor ----------------------------
(***************************************************************************)
(* An instance of NodeJanitor for TLC: each fleet is for one part of the   *)
(* janitor, so that their states add up and do not multiply.               *)
(***************************************************************************)
EXTENDS NodeJanitor, TLC

CONSTANTS n1, n2, team, shop, system, pod, service, claim, job, run1, run2, web

Kinds == (pod :> "Pod") @@ (service :> "Service") @@ (claim :> "PersistentVolumeClaim")
         @@ (web :> "Deployment") @@ [o \in {job, run1, run2} |-> "Job"]
Homes == [o \in Objects |-> IF o \in {run1, run2, web} THEN shop ELSE team]
Hosts == [o \in Objects |-> n1]

(* A part of the nine kinds, in the order of the code.                     *)
Order == <<"Service", "PersistentVolumeClaim", "Job">>

One == [janitors |-> {n1}, does |-> {}, names |-> {}, units |-> {},
        broken |-> {}, faults |-> {"outage", "restart"}]
Two == [One EXCEPT !.janitors = {n1, n2}, !.faults = {}]

(* Two janitors sweep a namespace that users fill, empty, delete and make. *)
TwoSweepNamespaces == [Two EXCEPT !.does = {"namespaces"}, !.names = {team, service, claim}]

(* Two janitors delete a job whose name is used again.                     *)
TwoSweepJobs == [Two EXCEPT !.does = {"jobs"}, !.names = {job}]

(* One janitor deletes runs of a CronJob that the dashboard shows.         *)
CronRunsFinish == [One EXCEPT !.does = {"jobs"}, !.names = {run1, run2, web}]

(* A finished job keeps a namespace until it is swept.                     *)
JobInNamespace == [One EXCEPT !.does = {"jobs", "namespaces"}, !.names = {team, job}]

(* One janitor heals its host and cleans its disk.                         *)
HostFails ==
    [One EXCEPT !.does = {"heal", "pods", "restartK3S"}, !.names = {pod},
                !.units = {"tailscaled", "k3s"},
                !.faults = {"outage", "restart", "tailscaled", "k3s", "peer", "disk"}]

(* tailscaled is not installed, or does not start any more.                *)
NoTailscale == [One EXCEPT !.does = {"heal", "restartK3S"}, !.units = {"k3s"}, !.faults = {"k3s"}]
BrokenTailscale ==
    [One EXCEPT !.does = {"heal"}, !.units = {"tailscaled", "k3s"}, !.broken = {"tailscaled"},
                !.faults = {"tailscaled", "k3s"}]

AllFleets == {TwoSweepNamespaces, TwoSweepJobs, CronRunsFinish, JobInNamespace,
              HostFails, NoTailscale, BrokenTailscale}

=============================================================================
