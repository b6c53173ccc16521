--------------------------- MODULE VersionLifecycle ---------------------------
(***************************************************************************)
(* The versions of one Dataset: who creates them (DatasetReconciler,       *)
(* CronRunnable, POST build), the DatasetVersionReconciler that takes each *)
(* from building to ready, active, retired and gone, or to failed, and the *)
(* Job builder and volume manager it calls.                                *)
(*                                                                         *)
(* The reconcilers read custom resources and VolumeAttachments from        *)
(* informer caches: a cache is the API server's state at some earlier      *)
(* revision, and writes not delivered to it yet are in `watch`, in order.  *)
(* Their patches carry no resource version, so a write never fails because *)
(* the read was old.  The builder reads the API server itself.             *)
(* The cache of VolumeAttachments needs no lag of its own: an attachment   *)
(* it misses is one made after the list was read, and one it still has     *)
(* only delays the deletion.                                               *)
(*                                                                         *)
(* The Job controller, the volume provisioner and the node-agent are       *)
(* modelled as far as the reconcilers see them.                            *)
(***************************************************************************)
EXTENDS Naturals, Sequences, FiniteSets

CONSTANTS
    MaxVersion,  \* bound on the version IDs
    Named,       \* the IDs that cron and POST build use; the others are "v1", "v2", ...
    MaxLag,      \* bound on the writes the cache may be behind
    Retention,   \* spec.retention
    FaultKinds,  \* which faults may happen
    MaxFaults    \* bound on the faults of a behaviour

Version == 1 .. MaxVersion

ASSUME LifecycleAssumption ==
    /\ MaxVersion \in Nat \ {0}
    /\ Named \subseteq Version
    /\ MaxLag \in Nat \ {0}
    /\ Retention \in Nat
    /\ MaxFaults \in Nat

VARIABLES
    ver,        \* the DatasetVersion of each number
    cache,      \* the same as the informer has it
    watch,      \* the changes of ver that the informer has not seen
    rec,        \* the Reconcile call of the DatasetVersionReconciler
    pvc,        \* the build's PersistentVolumeClaim
    configMap,  \* the build's ConfigMap exists
    job,        \* the build's Job
    noted,      \* the Job is annotated with the PV name
    pv,         \* the PersistentVolume of the build
    assigned,   \* the version the node-agent is to serve, 0: none
    attached,   \* the versions with a VolumeAttachment
    born,       \* the versions in the order of their creation timestamps
    late,       \* the versions older than the build timeout
    faults,     \* how many faults happened
    served,     \* history: a version was active once
    lagged,     \* history: a promotion listed the siblings from an old cache
    cleaned     \* history: the failed versions whose reconcileFailed succeeded

resources == <<ver, watch>>
build == <<pvc, configMap, job, noted, pv>>
agent == <<assigned, attached>>
clock == <<born, late>>
history == <<served, lagged, cleaned>>
vars == <<resources, cache, rec, build, agent, clock, faults, history>>

\* state "none": there is no such DatasetVersion; "": it has no status yet.
State == {"none", "", "building", "ready", "active", "retired", "failed"}
VersionRecord == [state : State, job : BOOLEAN, pv : BOOLEAN]
NoVersion == [state |-> "none", job |-> FALSE, pv |-> FALSE]
NewVersion == [state |-> "", job |-> FALSE, pv |-> FALSE]

Steps == {"idle", "pvc", "configmap", "job", "started", "poll", "retain", "release", "finalize",
          "note", "complete", "fail", "canceljob", "cancelmap", "cancelpvc", "demote",
          "deletepv", "delete"}

Idle == [pc |-> "idle", v |-> 0, todo |-> {}, timeout |-> FALSE]

LifecycleTypeOK ==
    /\ ver \in [Version -> VersionRecord] /\ cache \in [Version -> VersionRecord]
    /\ watch \in Seq([v : Version, now : VersionRecord]) /\ Len(watch) <= MaxLag
    /\ rec \in [pc : Steps, v : 0 .. MaxVersion, todo : SUBSET Version, timeout : BOOLEAN]
    /\ pvc \in [Version -> {"none", "pending", "bound"}]
    /\ configMap \in [Version -> BOOLEAN] /\ noted \in [Version -> BOOLEAN]
    /\ job \in [Version -> {"none", "running", "complete", "failed"}]
    /\ pv \in [Version -> {"none", "delete", "retain", "final"}]
    /\ assigned \in 0 .. MaxVersion
    /\ attached \subseteq Version
    /\ born \in Seq(Version) /\ Len(born) <= MaxVersion
    /\ late \subseteq Version /\ faults \in 0 .. MaxFaults
    /\ served \in BOOLEAN /\ lagged \in BOOLEAN /\ cleaned \subseteq Version

Init ==
    /\ ver = [v \in Version |-> NoVersion] /\ cache = ver /\ watch = << >>
    /\ rec = Idle
    /\ pvc = [v \in Version |-> "none"] /\ job = [v \in Version |-> "none"]
    /\ configMap = [v \in Version |-> FALSE] /\ noted = [v \in Version |-> FALSE]
    /\ pv = [v \in Version |-> "none"]
    /\ assigned = 0 /\ attached = {}
    /\ born = << >> /\ late = {} /\ faults = 0
    /\ served = FALSE /\ lagged = FALSE /\ cleaned = {}

Fault(kind) ==
    /\ kind \in FaultKinds /\ faults < MaxFaults
    /\ faults' = faults + 1

-----------------------------------------------------------------------------
(* The API server and the informer caches                                    *)

\* A sequence of writes.  A write that changes nothing has no event.
Write(changes) ==
    LET News(c) == ver[c.v] # c.now
        news == SelectSeq(changes, News)
    IN  /\ Len(watch) + Len(news) <= MaxLag
        /\ ver' = [v \in Version |->
                     LET of == {i \in DOMAIN news : news[i].v = v}
                     IN  IF of = {} THEN ver[v] ELSE news[CHOOSE i \in of : TRUE].now]
        /\ watch' = watch \o news

Patched(v, now) == <<[v |-> v, now |-> now]>>

Deliver ==
    /\ watch # << >>
    /\ cache' = [cache EXCEPT ![Head(watch).v] = Head(watch).now]
    /\ watch' = Tail(watch)
    /\ UNCHANGED <<ver, rec, build, agent, clock, faults, history>>

Cached(states) == {v \in Version : cache[v].state \in states}
Existing == {v \in Version : cache[v].state # "none"}

-----------------------------------------------------------------------------
(* DatasetReconciler, CronRunnable and POST build                            *)

Creates(v) == IF ver[v].state = "none" THEN <<[v |-> v, now |-> NewVersion]>> ELSE << >>

\* The new version is the youngest, and its history starts again.
Born(v) ==
    /\ LET Other(w) == w # v IN born' = Append(SelectSeq(born, Other), v)
    /\ late' = late \ {v} /\ cleaned' = cleaned \ {v}

NextVersion ==
    LET numbered == Existing \ Named
    IN  CHOOSE n \in 1 .. MaxVersion + 1 :
            /\ \A v \in numbered : v < n
            /\ n = 1 \/ n - 1 \in numbered

EnsureVersion ==
    IF Cached({"building", "active", "ready", "failed"}) # {} \/ NextVersion > MaxVersion
    THEN << >>
    ELSE Creates(NextVersion)

\* The oldest retired versions in excess of spec.retention that still exist.
EnforceRetention ==
    LET IsRetired(v) == cache[v].state = "retired"
        retired == SelectSeq(born, IsRetired)
        excess == SubSeq(retired, 1, Len(retired) - Retention)
        deletes == [i \in DOMAIN excess |-> [v |-> excess[i], now |-> NoVersion]]
    IN  IF Retention = 0 THEN << >> ELSE deletes

DatasetReconcile ==
    /\ Write(EnsureVersion \o EnforceRetention)
    /\ IF EnsureVersion = << >> THEN UNCHANGED <<clock, cleaned>> ELSE Born(NextVersion)
    /\ UNCHANGED <<cache, rec, build, agent, faults, served, lagged>>

\* IDs are used once: those of cron are timestamps, posting one that exists does
\* nothing, and posting one again after its version was deleted is left out.
Unused(v) == v \in Named /\ \A i \in DOMAIN born : born[i] # v

\* CronRunnable.fire, on schedule or as the catch-up of Start.
CronFire(v) ==
    /\ Unused(v)
    /\ Cached({"building"}) = {}
    /\ Write(Creates(v)) /\ Born(v)
    /\ UNCHANGED <<cache, rec, build, agent, faults, served, lagged>>

\* An existing version is left as it is, and counts as started.
StartBuild(v) ==
    /\ Unused(v)
    /\ Write(Creates(v)) /\ Born(v)
    /\ UNCHANGED <<cache, rec, build, agent, faults, served, lagged>>

\* POST /v1/datasets/{name}/build; a request that is refused changes nothing.
HandleBuild(v) == StartBuild(v)

\* Deleting a failed version by hand is how a new build attempt is made.  The
\* operator is slower than the informer and than a call: the cache has the failure
\* by then, and no call that read the version before it failed is in progress.
DeleteFailed(v) ==
    /\ ver[v].state = "failed" /\ cache[v].state = "failed" /\ rec.v # v
    /\ Fault("delete")
    /\ Write(Patched(v, NoVersion))
    /\ UNCHANGED <<cache, rec, build, agent, clock, history>>

-----------------------------------------------------------------------------
(* DatasetVersionReconciler.Reconcile                                        *)

At(pc) == rec.pc = pc
Goto(pc) == rec' = [rec EXCEPT !.pc = pc]
Return == rec' = Idle

\* Reconcile reads the version and dispatches on the state it read.
Dispatch(v) ==
    LET was == cache[v]
        To(pc) == rec' = [Idle EXCEPT !.pc = pc, !.v = v]
    IN  \/ was.state \in {"", "building"} /\ ~was.job /\ To("pvc") /\ UNCHANGED lagged
        \/ was.state = "building" /\ was.job /\ v \notin late /\ To("poll") /\ UNCHANGED lagged
        \/ /\ was.state = "building" /\ was.job /\ v \in late
           /\ rec' = [Idle EXCEPT !.pc = "canceljob", !.v = v, !.timeout = TRUE]
           /\ UNCHANGED lagged
        \/ /\ was.state = "ready"
           /\ rec' = [Idle EXCEPT !.pc = "demote", !.v = v, !.todo = Cached({"active"}) \ {v}]
           /\ lagged' = (lagged \/ watch # << >>)
        \/ /\ was.state = "retired" /\ (was.pv => v \notin attached)
           /\ To(IF was.pv THEN "deletepv" ELSE "delete") /\ UNCHANGED lagged
        \/ was.state = "failed" /\ To("canceljob") /\ UNCHANGED lagged

Reconcile(v) ==
    /\ At("idle")
    /\ Dispatch(v)
    /\ UNCHANGED <<resources, cache, build, agent, clock, faults, served, cleaned>>

\* A status patch of the version, without effect if the version is gone; an API
\* error returns and is retried by a later Reconcile.
PatchSelf(pc, now) ==
    /\ At(pc) /\ Return
    /\ \/ /\ Write(IF ver[rec.v].state = "none" THEN << >> ELSE Patched(rec.v, now))
          /\ UNCHANGED faults
       \/ Fault("api") /\ UNCHANGED resources

\* What no step of Reconcile changes.
others == <<cache, agent, clock>>

PersistHandle ==
    /\ PatchSelf("started", [ver[rec.v] EXCEPT !.state = "building", !.job = TRUE])
    /\ UNCHANGED <<others, build, history>>

MarkReady ==
    /\ PatchSelf("complete", [ver[rec.v] EXCEPT !.state = "ready", !.pv = TRUE])
    /\ UNCHANGED <<others, build, history>>

MarkFailed ==
    /\ PatchSelf("fail", [ver[rec.v] EXCEPT !.state = "failed"])
    /\ UNCHANGED <<others, build, history>>

\* reconcileReady: one active sibling after the other, then the version itself.
Demote(s) ==
    /\ At("demote") /\ s \in rec.todo
    /\ \/ /\ ver[s].state # "none"
          /\ Write(Patched(s, [ver[s] EXCEPT !.state = "retired"]))
          /\ rec' = [rec EXCEPT !.todo = @ \ {s}] /\ UNCHANGED faults
       \/ Fault("api") /\ Return /\ UNCHANGED resources
    /\ UNCHANGED <<others, build, history>>

\* Mutant of Promote: before the siblings are demoted.
PromoteFirst ==
    /\ PatchSelf("demote", [ver[rec.v] EXCEPT !.state = "active"])
    /\ served' = (served \/ ver'[rec.v].state = "active")
    /\ UNCHANGED <<others, build, lagged, cleaned>>

\* Mutant of Promote: an error fails the version.
PromoteOrFail ==
    /\ rec.todo = {} /\ At("demote")
    /\ \/ /\ Return /\ UNCHANGED faults
          /\ Write(Patched(rec.v, [ver[rec.v] EXCEPT !.state = "active"]))
       \/ Fault("api") /\ Goto("fail") /\ UNCHANGED resources
    /\ served' = (served \/ ver'[rec.v].state = "active")
    /\ UNCHANGED <<others, build, lagged, cleaned>>

Promote ==
    /\ rec.todo = {}
    /\ PatchSelf("demote", [ver[rec.v] EXCEPT !.state = "active"])
    /\ served' = (served \/ ver'[rec.v].state = "active")
    /\ UNCHANGED <<others, build, lagged, cleaned>>

\* reconcileRetired, once no VolumeAttachment was listed.
DeletePV ==
    /\ At("deletepv")
    /\ \/ pv' = [pv EXCEPT ![rec.v] = "none"] /\ Goto("delete") /\ UNCHANGED faults
       \/ Fault("api") /\ Return /\ UNCHANGED pv
    /\ UNCHANGED <<resources, others, pvc, configMap, job, noted, history>>

DeleteVersion ==
    /\ PatchSelf("delete", NoVersion)
    /\ UNCHANGED <<others, build, history>>

-----------------------------------------------------------------------------
(* The Job builder: Start, Poll with the volume manager's FinalizeBuild, and *)
(* Cancel                                                                    *)

\* An API error in Start or in FinalizeBuild fails the version.
Errs == Fault("api") /\ Goto("fail")

quiet == <<resources, others, history>>

CreateBuildPVC ==
    /\ At("pvc")
    /\ \/ /\ pvc' = [pvc EXCEPT ![rec.v] = IF @ = "none" THEN "pending" ELSE @]
          /\ Goto("configmap") /\ UNCHANGED faults
       \/ Errs /\ UNCHANGED pvc
    /\ UNCHANGED <<quiet, configMap, job, noted, pv>>

CreateConfigMap ==
    /\ At("configmap")
    /\ \/ configMap' = [configMap EXCEPT ![rec.v] = TRUE] /\ Goto("job") /\ UNCHANGED faults
       \/ Errs /\ UNCHANGED configMap
    /\ UNCHANGED <<quiet, pvc, job, noted, pv>>

CreateJob ==
    /\ At("job")
    /\ \/ /\ job' = [job EXCEPT ![rec.v] = IF @ = "none" THEN "running" ELSE @]
          /\ Goto("started") /\ UNCHANGED faults
       \/ Errs /\ UNCHANGED job
    /\ UNCHANGED <<quiet, pvc, configMap, noted, pv>>

\* Mutant of Poll: a complete Job is reported without finalizing its volume.
PollUnfinalized ==
    LET v == rec.v
    IN  /\ At("poll")
        /\ CASE job[v] = "running" -> Return
             [] job[v] \in {"none", "failed"} -> Goto("fail")
             [] job[v] = "complete" -> Goto("complete")
        /\ UNCHANGED <<quiet, build, faults>>

\* The phase Poll reports, and where it leads; a complete Job that is not yet
\* annotated is finalized, which fails when its claim is gone.
Poll ==
    LET v == rec.v
    IN  /\ At("poll")
        /\ \/ /\ CASE job[v] = "running" -> Return
                  [] job[v] \in {"none", "failed"} -> Goto("fail")
                  [] job[v] = "complete" /\ noted[v] -> Goto("complete")
                  [] job[v] = "complete" /\ ~noted[v] ->
                       Goto(IF pvc[v] = "bound" THEN "retain" ELSE "fail")
              /\ UNCHANGED faults
           \/ Fault("api") /\ Return
        /\ UNCHANGED <<quiet, build>>

SetRetainPolicy ==
    /\ At("retain")
    /\ \/ pv' = [pv EXCEPT ![rec.v] = "retain"] /\ Goto("release") /\ UNCHANGED faults
       \/ Errs /\ UNCHANGED pv
    /\ UNCHANGED <<quiet, pvc, configMap, job, noted>>

\* Deleting a bound claim deletes its volume unless the policy is Retain.
Unclaim ==
    /\ pvc' = [pvc EXCEPT ![rec.v] = "none"]
    /\ pv' = [pv EXCEPT ![rec.v] = IF @ = "delete" THEN "none" ELSE @]

\* The claim's deletion may also be accepted and the wait for it time out.
DeletePVC ==
    /\ At("release")
    /\ \/ Unclaim /\ Goto("finalize") /\ UNCHANGED faults
       \/ Errs /\ (Unclaim \/ UNCHANGED <<pvc, pv>>)
    /\ UNCHANGED <<quiet, configMap, job, noted>>

FinalizePV ==
    /\ At("finalize")
    /\ \/ /\ pv' = [pv EXCEPT ![rec.v] = IF @ = "none" THEN @ ELSE "final"]
          /\ Goto(IF pv[rec.v] = "none" THEN "fail" ELSE "note") /\ UNCHANGED faults
       \/ Errs /\ UNCHANGED pv
    /\ UNCHANGED <<quiet, pvc, configMap, job, noted>>

\* Recording the PV name on the Job may fail without failing the build.
AnnotateJob ==
    /\ At("note") /\ Goto("complete")
    /\ \/ noted' = [noted EXCEPT ![rec.v] = TRUE] /\ UNCHANGED faults
       \/ Fault("api") /\ UNCHANGED noted
    /\ UNCHANGED <<quiet, pvc, configMap, job, pv>>

\* Mutant of CancelReturns: a timed-out build is cancelled but not marked failed.
CancelReturnsOnly(ok) ==
    /\ Return
    /\ cleaned' = IF ok /\ ~rec.timeout THEN cleaned \cup {rec.v} ELSE cleaned

\* Cancel returns: a timed-out build is marked failed whatever it returned, and
\* reconcileFailed is done if it returned no error.
CancelReturns(ok) ==
    /\ IF rec.timeout THEN Goto("fail") ELSE Return
    /\ cleaned' = IF ok /\ ~rec.timeout THEN cleaned \cup {rec.v} ELSE cleaned

\* Cancel reads the Job for the labels that name the other resources, and
\* deletes it; without the Job it knows no names.
CancelJob ==
    LET named == job[rec.v] # "none"
        Delete == /\ job' = [job EXCEPT ![rec.v] = "none"]
                  /\ noted' = [noted EXCEPT ![rec.v] = FALSE]
    IN  /\ At("canceljob")
        /\ \/ named /\ Delete /\ Goto("cancelmap") /\ UNCHANGED <<faults, cleaned>>
           \/ ~named /\ CancelReturns(TRUE) /\ UNCHANGED <<job, noted, faults>>
           \/ Fault("api") /\ named /\ Delete /\ CancelReturns(TRUE)
           \/ Fault("api") /\ CancelReturns(FALSE) /\ UNCHANGED <<job, noted>>
        /\ UNCHANGED <<resources, others, pvc, configMap, pv, served, lagged>>

CancelConfigMap ==
    /\ At("cancelmap")
    /\ \/ /\ configMap' = [configMap EXCEPT ![rec.v] = FALSE]
          /\ Goto("cancelpvc") /\ UNCHANGED <<faults, cleaned>>
       \/ Fault("api") /\ CancelReturns(FALSE) /\ UNCHANGED configMap
    /\ UNCHANGED <<resources, others, pvc, job, noted, pv, served, lagged>>

\* Mutant of CancelPVC: the claim is left behind.
CancelPVCKeepsIt ==
    /\ At("cancelpvc") /\ CancelReturns(TRUE)
    /\ UNCHANGED <<resources, others, build, faults, served, lagged>>

CancelPVC ==
    /\ At("cancelpvc")
    /\ \/ Unclaim /\ CancelReturns(TRUE) /\ UNCHANGED faults
       \/ Fault("api") /\ CancelReturns(FALSE) /\ UNCHANGED <<pvc, pv>>
    /\ UNCHANGED <<resources, others, configMap, job, noted, served, lagged>>

-----------------------------------------------------------------------------
(* What the builder and the reconcilers meet: time, restarts, the Job        *)
(* controller, the provisioner and the node-agent                            *)

\* The control plane restarts: the call in progress is lost, the caches are
\* filled anew.
Restart ==
    /\ Fault("restart")
    /\ rec' = Idle /\ cache' = ver /\ watch' = << >>
    /\ UNCHANGED <<ver, build, assigned, attached, clock, history>>

DeadlinePasses(v) ==
    /\ ver[v].state \in {"", "building"} /\ v \notin late
    /\ late' = late \cup {v}
    /\ UNCHANGED <<resources, cache, rec, build, agent, born, faults, history>>

\* The Job's pod is scheduled, its claim is bound, and it runs to the end; it
\* fails on the first failure of its pod.
BindClaim(v) ==
    /\ job[v] = "running" /\ pvc[v] = "pending"
    /\ pvc' = [pvc EXCEPT ![v] = "bound"] /\ pv' = [pv EXCEPT ![v] = "delete"]
    /\ UNCHANGED <<resources, cache, rec, configMap, job, noted, agent, clock, faults,
                   history>>

JobCompletes(v) ==
    /\ job[v] = "running" /\ pvc[v] = "bound"
    /\ job' = [job EXCEPT ![v] = "complete"]
    /\ UNCHANGED <<resources, cache, rec, pvc, configMap, noted, pv, agent, clock,
                   faults, history>>

JobFails(v) ==
    /\ job[v] = "running" /\ Fault("build")
    /\ job' = [job EXCEPT ![v] = "failed"]
    /\ UNCHANGED <<resources, cache, rec, pvc, configMap, noted, pv, agent, clock,
                   history>>

\* The assignments of the node follow the active versions of the cache.
Assign(v) ==
    /\ cache[v].state = "active" /\ cache[v].pv /\ assigned # v
    /\ assigned' = v
    /\ UNCHANGED <<resources, cache, rec, build, attached, clock, faults,
                   history>>

\* The node-agent attaches the assigned version's disk, and detaches the one it
\* replaces once the new one is served.
Attach(v) ==
    /\ v = assigned /\ v \notin attached /\ pv[v] # "none"
    /\ attached' = attached \cup {v}
    /\ UNCHANGED <<resources, cache, rec, build, assigned, clock, faults,
                   history>>

Detach(v) ==
    /\ v \in attached /\ v # assigned /\ assigned \in attached
    /\ attached' = attached \ {v}
    /\ UNCHANGED <<resources, cache, rec, build, assigned, clock, faults,
                   history>>

-----------------------------------------------------------------------------
Step ==
    \/ PersistHandle \/ MarkReady \/ MarkFailed
    \/ \E s \in Version : Demote(s)
    \/ Promote \/ DeletePV \/ DeleteVersion
    \/ CreateBuildPVC \/ CreateConfigMap \/ CreateJob
    \/ Poll \/ SetRetainPolicy \/ DeletePVC \/ FinalizePV \/ AnnotateJob
    \/ CancelJob \/ CancelConfigMap \/ CancelPVC

TimePasses == \E v \in Version : DeadlinePasses(v)
AgentStep == \E v \in Version : Assign(v) \/ Attach(v) \/ Detach(v)

Next ==
    \/ Deliver
    \/ DatasetReconcile
    \/ \E v \in Version : CronFire(v) \/ HandleBuild(v) \/ DeleteFailed(v)
    \/ \E v \in Version : Reconcile(v)
    \/ Step
    \/ Restart
    \/ \E v \in Version : BindClaim(v) \/ JobCompletes(v) \/ JobFails(v)
    \/ TimePasses
    \/ AgentStep

Spec == Init /\ [][Next]_vars

\* The informers deliver, the worker finishes its call and takes every version
\* of its first-in-first-out queue in turn, time passes, and the node-agent
\* follows its assignments.  Nothing is assumed of the builds.
Fairness ==
    /\ WF_vars(Deliver) /\ WF_vars(Step) /\ WF_vars(TimePasses) /\ WF_vars(AgentStep)
    /\ \A v \in Version : SF_vars(Reconcile(v))

FairSpec == Spec /\ Fairness

-----------------------------------------------------------------------------
(* Properties                                                                *)

Active == {v \in Version : ver[v].state = "active"}

\* At most one version is active: reconcileReady demotes every active sibling
\* before it promotes.  control-plane.md:191 says so of every dataset.
OneActive == Cardinality(Active) <= 1

\* At most one version is active as long as no promotion listed the siblings
\* from a cache that missed a write: crashes, failed patches and restarts
\* between the demotions and the promotion never leave two.
OneActiveWhenFresh == ~lagged => OneActive

\* Under the same condition, once a version has been active there is always one
\* that is active or ready to be: a promotion that stops between demoting the
\* old version and promoting the new one leaves a version that the next
\* Reconcile promotes.
SuccessorRemains ==
    ~lagged /\ served => \E v \in Version : ver[v].state \in {"active", "ready"}

\* The volume of an active version, and of one about to be, is finalized and
\* has not been deleted: neither the cleanup of a failed or timed-out build nor
\* the end of a retired version takes it away.
ActiveBacked == \A v \in Version : ver[v].state \in {"ready", "active"} => pv[v] = "final"

\* No version stays on its way: one that is created is activated, fails or is
\* deleted even if its Job never ends, and a retired one is deleted once the
\* node-agent has let go of it for its successor.  Only a promotion that acted on
\* an old cache can leave a retired version behind, without a successor.
VersionsSettle ==
    \A v \in Version :
        ver[v].state \in {"", "building", "ready", "retired"} ~>
            \/ ver[v].state \in {"none", "active", "failed"}
            \/ ver[v].state = "retired" /\ lagged

Leftover(v) == pvc[v] # "none" \/ configMap[v] \/ job[v] # "none"

\* A failed version whose reconcileFailed succeeded has no Job, ConfigMap or
\* claim left.
FailedIsCleaned == \A v \in cleaned : ver[v].state = "failed" => ~Leftover(v)

\* It has none left if no call to the API server failed and the control plane
\* did not restart.
FailedIsCleanedUndisturbed == faults = 0 => FailedIsCleaned

\* A volume is only deleted while no node has it attached.
DrainedBeforeDelete ==
    [][\A v \in Version : v \in attached => (pv[v] # "none" => pv'[v] # "none")]_vars

\* A version whose Job completed does not fail if every API call succeeds, for
\* Poll is idempotent.
CompletedIsKept ==
    \A v \in Version : job[v] = "complete" /\ v \notin late => ver[v].state # "failed"
=============================================================================
