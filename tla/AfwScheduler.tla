---------------------------- MODULE AfwScheduler ----------------------------
(***************************************************************************)
(* One reconcile pass of the App Framework scheduler, afwSchedulerEntry in *)
(* src/pkg/splunk/enterprise/afwscheduler.go.                              *)
(*                                                                         *)
(* Goroutines of the pass and their program counters:                      *)
(*   entryPc       afwSchedulerEntry itself (init, seeding, wait)          *)
(*   mPc[p]        the three phase managers, one per pipeline phase p      *)
(*   sdPc          scheduleDownloads, the download dispatcher              *)
(*   dl[a]         the Download goroutine of app a, with its deferred      *)
(*                 decrement of activeWorkers split into a read and a      *)
(*                 write because the counter is shared without a common    *)
(*                 lock (each worker locks only its own workerMutex)       *)
(*   task[w]       pod-copy / install tasks that receive from the PodCopy  *)
(*                 and Install msgChannels (not in src/: see README)       *)
(*   yPc           the yield goroutine that sends the three sigTerms       *)
(*                                                                         *)
(* A worker is the pair <<app, pod>>: <<a, Seed>> is the worker created by *)
(* createAndAddPipelineWorker, <<a, i>> the fan-out clone for replica i.   *)
(* All workers of one app share one appDeployInfo, info[a], because the    *)
(* clones copy the pointer; info[a] is itself a copy of the context entry  *)
(* (the seeding loop takes &deployInfo of a loop-local copy), so the       *)
(* persisted context ctx never changes during the pass.                    *)
(***************************************************************************)
EXTENDS Integers, FiniteSets, Sequences, FiniteSetsExt

CONSTANTS
    Apps,           \* app packages listed in the AppDeploymentContext
    ClusterScoped,  \* the apps whose AppSource has Scope = cluster
    Kind,           \* cr.GetObjectKind().GroupVersionKind().Kind
    Replicas,       \* *sts.Spec.Replicas of the CR's statefulset
    CtxKinds,       \* kinds of context entry the pass may start from
    AuxLen,         \* length of AuxPhaseInfo an earlier pass left behind
    Size,           \* AppDeploymentInfo.Size (uint64), per app
    DiskSpace,      \* values getAvailableDiskSpace may return
    UInt64,         \* modulus of uint64 arithmetic, scaled down from 2^64
    MaxConcurrentAppDownloads,
    MaxRetry,       \* pipelinePhaseMaxRetryCount
    IOFaults,       \* the I/O calls that may fail: a subset of IOCalls
    TimeoutEnabled, \* the 90 s yield timer may expire during the pass
    Seed            \* model value: the pod slot of the seeded worker

Phases == {"Download", "PodCopy", "Install"}
PodIds == 0 .. (Max({Replicas, AuxLen}) - 1)
Workers == Apps \X (PodIds \cup {Seed})
NoWorker == <<>>

\* getAvailableDiskSpace, createAppDownloadDir, getRemoteObjectKey/DownloadApp,
\* and the pod exec of the copy and install tasks
IOCalls == {"statfs", "mkdir", "download", "podexec"}

ASSUME /\ IOFaults \subseteq IOCalls
       /\ ClusterScoped \subseteq Apps
       /\ Replicas \in Nat \ {0}
       \* only the Standalone statefulset is scaled; afwGetReleventStatefulsetByKind
       \* returns nil (replicaCount 1) for kinds without a statefulset
       /\ Kind # "Standalone" => Replicas = 1
       /\ CtxKinds \subseteq {"new", "updated", "installed"}
       /\ Size \in [Apps -> 1 .. (UInt64 - 1)]
       /\ DiskSpace \subseteq 1 .. (UInt64 - 1)
       /\ MaxConcurrentAppDownloads \in Nat \ {0}

PhaseInfo(ph, st) == [phase |-> ph, status |-> st, retry |-> 0]

(* The context entries the rest of the operator writes before a pass:     *)
(* "new" by the manifest reconciler for a newly listed app, "updated" by  *)
(* it for an app whose digest changed (PhaseInfo reset, AuxPhaseInfo      *)
(* kept), "installed" by the v2->v3 status migration of a deployed app.   *)
CtxEntry(k) ==
    CASE k = "new" ->
           [phase |-> "Download", status |-> "DownloadPending", retry |-> 0,
            deploy |-> "pending", aux |-> <<>>]
      [] k = "updated" ->
           [phase |-> "Download", status |-> "DownloadPending", retry |-> 0,
            deploy |-> "pending",
            aux |-> [i \in 1 .. AuxLen |-> PhaseInfo("Install", "InstallComplete")]]
      [] k = "installed" ->
           [phase |-> "Install", status |-> "InstallComplete", retry |-> 0,
            deploy |-> "complete",
            aux |-> [i \in 1 .. AuxLen |-> PhaseInfo("Install", "InstallComplete")]]

VARIABLES
    ctx,            \* AppDeploymentContext entries, per app
    info,           \* the in-memory appDeployInfo the workers mutate, per app
    q,              \* pplnPhases[p].q, as a set of workers
    active,         \* worker.isActive
    waiter,         \* worker.waiter: "nil" or the phase whose workerWaiter it is
    entryPc, seeded,
    mPc,            \* phase manager control: off, select, visit, send, drain, done
    toVisit,        \* workers the current range over q[p] has still to visit
    dmSend,         \* worker the download manager is blocked sending
    moving,         \* per manager: worker whose TransitionWorkerPhase awaits its delete
    sdPc,           \* scheduleDownloads control: off, loop, mkdir, requeue, drain, done
    sdCur,          \* the worker scheduleDownloads is admitting
    disk,           \* ppln.availableDiskSpace
    activeWorkers,  \* the uint64 shared by scheduleDownloads and Download
    dlWaiter,       \* pplnPhases[Download].workerWaiter counter
    dl, dlLocal,    \* Download goroutine control and its read of activeWorkers
    task,           \* pod-copy / install task running for a worker
    yPc, ySent,     \* yield goroutine and the number of sigTerms it sent
    phaseWaiter,    \* afwPipeline.phaseWaiter counter
    crashed,        \* a goroutine panicked and took the operator down
    staged,         \* history: apps whose package was downloaded this pass
    installedOn,    \* history: pods that hold the current package, per app
    copiedTo,       \* history: pods the current package was copied to, per app
    reserved,       \* history: bytes admitted by the download dispatcher
    diskAtEntry     \* history: availableDiskSpace at entry

pplnVars == <<info, q, active, waiter>>
mgrVars == <<mPc, toVisit, dmSend, moving>>
dlVars == <<sdPc, sdCur, disk, activeWorkers, dlWaiter, dl, dlLocal>>
yVars == <<yPc, ySent, phaseWaiter>>
histVars == <<staged, installedOn, copiedTo, reserved, diskAtEntry>>
vars == <<ctx, pplnVars, entryPc, seeded, mgrVars, dlVars, task, yVars,
          crashed, histVars>>

TargetPod(w) == IF w[2] = Seed THEN 0 ELSE w[2]

-----------------------------------------------------------------------------
(* Helpers of afwscheduler.go                                              *)

\* the phase a context entry is seeded into by afwSchedulerEntry, or "none"
SeedPhase(e) ==
    CASE e.phase = "Download" /\ e.retry < MaxRetry -> "Download"
      [] e.phase = "PodCopy" /\ e.retry < MaxRetry -> "PodCopy"
      [] e.phase = "Install" /\ e.status # "InstallComplete"
           /\ e.retry < MaxRetry -> "Install"
      [] OTHER -> "none"

isPipelineEmpty == \A p \in Phases : q[p] = {}

isAppInstallationCompleteOnStandaloneReplicas(aux) ==
    \A i \in DOMAIN aux : aux[i].phase = "Install" /\ aux[i].status = "InstallComplete"

\* updatePplnWorkerPhaseInfo on the appDeployInfo of app a
UpdatePhaseInfo(a, ph, r, st) ==
    info' = [info EXCEPT ![a].phase = ph, ![a].retry = r, ![a].status = st]

\* deleteWorkerFromPipelinePhase: a no-op when w is not in q[p]
DeleteWorker(p, w) == [q EXCEPT ![p] = @ \ {w}]

\* TransitionWorkerPhase(worker, currentPhase, nextPhase) up to its last
\* call: the PhaseInfo write and the add to the next queue(s).  The write
\* (146-160) and the add (161, 212-213) are one step, for no other goroutine
\* visits w between them; the delete from currentPhase (219) is a step of
\* its own, TransitionDelete, and until then w is in both queues.
TransitionWorkerPhase(w, cur, nxt) ==
    /\ LET a == w[1]
           aux == info[a].aux
           clones == IF aux = <<>> THEN {<<a, i>> : i \in 0 .. Replicas - 1}
                     ELSE {<<a, i - 1>> : i \in DOMAIN aux}
           toInstall == {<<a, i - 1>> : i \in {j \in DOMAIN aux :
                             aux[j].phase = "Install" /\ aux[j].status # "InstallComplete"}}
       IN IF Replicas = 1 \/ cur # "Download"
          THEN \* simple transition: re-use the same worker
               /\ info' = [info EXCEPT ![a].phase = nxt, ![a].retry = 0,
                                       ![a].status = nxt \o "Pending"]
               /\ active' = [active EXCEPT ![w] = FALSE]
               /\ waiter' = [waiter EXCEPT ![w] = "nil"]
               /\ q' = [q EXCEPT ![nxt] = @ \cup {w}]
          ELSE \* fan-out to one clone per replica (Kind = "Standalone")
               /\ info' = IF aux = <<>>
                          THEN [info EXCEPT ![a].aux =
                                  [i \in 1 .. Replicas |-> PhaseInfo("PodCopy", "PodCopyPending")]]
                          ELSE info
               /\ active' = [v \in Workers |-> IF v \in clones THEN FALSE ELSE active[v]]
               /\ waiter' = [v \in Workers |-> IF v \in clones THEN "nil" ELSE waiter[v]]
               /\ q' = [q EXCEPT !["PodCopy"] = @ \cup (clones \ toInstall),
                                 !["Install"] = @ \cup toInstall]
    /\ mPc' = [mPc EXCEPT ![cur] = "delete"]
    /\ moving' = [moving EXCEPT ![cur] = w]

\* the last call of TransitionWorkerPhase, run by the manager of phase p:
\* deleteWorkerFromPipelinePhase(currentPhase, worker); the range goes on
TransitionDelete(p) ==
    /\ mPc[p] = "delete"
    /\ q' = DeleteWorker(p, moving[p])
    /\ mPc' = [mPc EXCEPT ![p] = "visit"]
    /\ moving' = [moving EXCEPT ![p] = NoWorker]
    /\ UNCHANGED <<ctx, info, active, waiter, entryPc, seeded, toVisit, dmSend,
                   dlVars, task, yVars, crashed, histVars>>

-----------------------------------------------------------------------------
(* The yield goroutine's sigTerm: an unbuffered channel on which it sends  *)
(* true three times and then closes it.  A receiver's case is ready while  *)
(* the yielder is blocked in one of its sends, or once it is closed.       *)
TermReady == (yPc = "send" /\ ySent < 3) \/ yPc = "done"
RecvTerm == ySent' = IF yPc = "send" THEN ySent + 1 ELSE ySent

Init ==
    /\ \E k \in [Apps -> CtxKinds] : ctx = [a \in Apps |-> CtxEntry(k[a])]
    /\ info = ctx
    /\ q = [p \in Phases |-> {}]
    /\ active = [w \in Workers |-> FALSE]
    /\ waiter = [w \in Workers |-> "nil"]
    /\ entryPc = "init"
    /\ seeded = {}
    /\ mPc = [p \in Phases |-> "off"]
    /\ toVisit = [p \in Phases |-> {}]
    /\ dmSend = NoWorker
    /\ moving = [p \in Phases |-> NoWorker]
    /\ sdPc = "off"
    /\ sdCur = NoWorker
    /\ disk = 0
    /\ activeWorkers = 0
    /\ dlWaiter = 0
    /\ dl = [a \in Apps |-> "idle"]
    /\ dlLocal = [a \in Apps |-> 0]
    /\ task = [w \in Workers |-> "idle"]
    /\ yPc = "off"
    /\ ySent = 0
    /\ phaseWaiter = 0
    /\ crashed = FALSE
    /\ staged = {}
    /\ copiedTo = [a \in Apps |-> {}]
    /\ installedOn = [a \in Apps |->
                        IF ctx[a].deploy = "complete" THEN 0 .. AuxLen - 1 ELSE {}]
    /\ reserved = 0
    /\ diskAtEntry = 0

-----------------------------------------------------------------------------
(* afwSchedulerEntry                                                       *)

\* mutant: phaseWaiter.Add counts one manager too many
EntryInitWaiterOffByOne ==
    /\ entryPc = "init"
    /\ \/ /\ "statfs" \in IOFaults
          /\ entryPc' = "done"          \* getAvailableDiskSpace failed
          /\ UNCHANGED <<mgrVars, dlVars, yVars, diskAtEntry>>
       \/ \E d \in DiskSpace :
            /\ disk' = d
            /\ diskAtEntry' = d
            /\ mPc' = [p \in Phases |-> "select"]
            /\ sdPc' = "loop"
            /\ phaseWaiter' = 4
            /\ entryPc' = "seed"
            /\ UNCHANGED <<toVisit, dmSend, moving, sdCur, activeWorkers, dlWaiter, dl, dlLocal,
                           yPc, ySent>>
    /\ UNCHANGED <<ctx, pplnVars, seeded, task, crashed, staged, installedOn, copiedTo, reserved>>

\* initAppInstallPipeline, getAvailableDiskSpace, and the start of the three
\* phase managers (scheduleDownloads is started by the download manager)
EntryInit ==
    /\ entryPc = "init"
    /\ \/ /\ "statfs" \in IOFaults
          /\ entryPc' = "done"          \* getAvailableDiskSpace failed
          /\ UNCHANGED <<mgrVars, dlVars, yVars, diskAtEntry>>
       \/ \E d \in DiskSpace :
            /\ disk' = d
            /\ diskAtEntry' = d
            /\ mPc' = [p \in Phases |-> "select"]
            /\ sdPc' = "loop"
            /\ phaseWaiter' = 3
            /\ entryPc' = "seed"
            /\ UNCHANGED <<toVisit, dmSend, moving, sdCur, activeWorkers, dlWaiter, dl, dlLocal,
                           yPc, ySent>>
    /\ UNCHANGED <<ctx, pplnVars, seeded, task, crashed, staged, installedOn, copiedTo, reserved>>

\* one iteration of the seeding loop: createAndAddPipelineWorker for app a
EntrySeed(a) ==
    /\ entryPc = "seed"
    /\ a \notin seeded
    /\ seeded' = seeded \cup {a}
    /\ LET ph == SeedPhase(ctx[a]) IN
         q' = IF ph = "none" THEN q ELSE [q EXCEPT ![ph] = @ \cup {<<a, Seed>>}]
    /\ UNCHANGED <<ctx, info, active, waiter, entryPc, mgrVars, dlVars, task,
                   yVars, crashed, histVars>>

\* start the yield goroutine, then phaseWaiter.Wait()
EntryStartYield ==
    /\ entryPc = "seed"
    /\ seeded = Apps
    /\ entryPc' = "wait"
    /\ yPc' = "run"
    /\ phaseWaiter' = phaseWaiter + 1
    /\ UNCHANGED <<ctx, pplnVars, seeded, mgrVars, dlVars, task, ySent, crashed, histVars>>

EntryReturn ==
    /\ entryPc = "wait"
    /\ phaseWaiter = 0
    /\ entryPc' = "done"
    /\ UNCHANGED <<ctx, pplnVars, seeded, mgrVars, dlVars, task, yVars, crashed, histVars>>

-----------------------------------------------------------------------------
(* The select at the head of each phase manager's loop: a ready sigTerm    *)
(* wins over the default branch, which starts one range over the queue.   *)

ManagerSelect(p, afterTerm) ==
    /\ mPc[p] = "select"
    /\ \/ /\ TermReady
          /\ RecvTerm
          /\ mPc' = [mPc EXCEPT ![p] = afterTerm]
          /\ phaseWaiter' = IF afterTerm = "done" THEN phaseWaiter - 1 ELSE phaseWaiter
          /\ UNCHANGED toVisit
       \/ /\ ~TermReady
          /\ mPc' = [mPc EXCEPT ![p] = "visit"]
          /\ toVisit' = [toVisit EXCEPT ![p] = q[p]]
          /\ UNCHANGED <<ySent, phaseWaiter>>
    /\ UNCHANGED <<ctx, pplnVars, entryPc, seeded, dmSend, moving, dlVars, task, yPc,
                   crashed, histVars>>

\* downloadPhaseManager: on sigTerm it waits for scheduleDownloads first
DownloadPhaseManagerSelect == ManagerSelect("Download", "drain")
\* the pod copy and install workerWaiters are never Add()ed to, so their
\* Wait() returns at once and the manager signals phaseWaiter
PodCopyPhaseManagerSelect == ManagerSelect("PodCopy", "done")
InstallPhaseManagerSelect == ManagerSelect("Install", "done")

\* the range over the queue is exhausted: sleep and loop
ManagerEndPass(p) ==
    /\ mPc[p] = "visit"
    /\ toVisit[p] = {}
    /\ mPc' = [mPc EXCEPT ![p] = "select"]
    /\ UNCHANGED <<ctx, pplnVars, entryPc, seeded, toVisit, dmSend, moving, dlVars, task,
                   yVars, crashed, histVars>>

Visiting(p, w) ==
    /\ mPc[p] = "visit"
    /\ w \in toVisit[p]

Visited(p, w) == toVisit' = [toVisit EXCEPT ![p] = @ \ {w}]

\* mutant: the eligibility test without the retry ceiling
EligibleNoRetryCap(w, done) ==
    /\ ~active[w]
    /\ info[w[1]].status # done

Eligible(w, done) ==
    /\ ~active[w]
    /\ info[w[1]].retry < MaxRetry
    /\ info[w[1]].status # done

-----------------------------------------------------------------------------
(* downloadPhaseManager: one visit of the range over q[Download]           *)

\* an eligible worker gets its waiter and is sent, blocking, on msgChannel
DownloadManagerDispatch(w) ==
    /\ Visiting("Download", w)
    /\ Eligible(w, "DownloadComplete")
    /\ waiter' = [waiter EXCEPT ![w] = "Download"]
    /\ mPc' = [mPc EXCEPT !["Download"] = "send"]
    /\ dmSend' = w
    /\ Visited("Download", w)
    /\ UNCHANGED <<ctx, info, q, active, moving, entryPc, seeded, dlVars, task, yVars,
                   crashed, histVars>>

\* mutant: an app still DownloadInProgress is also moved on
DownloadManagerTransitionEarly(w) ==
    /\ Visiting("Download", w)
    /\ info[w[1]].status \in {"DownloadComplete", "DownloadInProgress"}
    /\ TransitionWorkerPhase(w, "Download", "PodCopy")
    /\ Visited("Download", w)
    /\ UNCHANGED <<ctx, entryPc, seeded, dmSend, dlVars, task, yVars,
                   crashed, histVars>>

DownloadManagerTransition(w) ==
    /\ Visiting("Download", w)
    /\ info[w[1]].status = "DownloadComplete"
    /\ TransitionWorkerPhase(w, "Download", "PodCopy")
    /\ Visited("Download", w)
    /\ UNCHANGED <<ctx, entryPc, seeded, dmSend, dlVars, task, yVars,
                   crashed, histVars>>

\* retries exhausted: mark DownloadError and delete from q[PhaseInfo.Phase]
DownloadManagerGiveUp(w) ==
    /\ Visiting("Download", w)
    /\ info[w[1]].status # "DownloadComplete"
    /\ info[w[1]].retry >= MaxRetry
    /\ info' = [info EXCEPT ![w[1]].status = "DownloadError"]
    /\ q' = DeleteWorker(info[w[1]].phase, w)
    /\ Visited("Download", w)
    /\ UNCHANGED <<ctx, active, waiter, entryPc, seeded, mPc, dmSend, moving, dlVars, task,
                   yVars, crashed, histVars>>

\* an active worker whose download has not finished is passed over
DownloadManagerSkip(w) ==
    /\ Visiting("Download", w)
    /\ active[w]
    /\ info[w[1]].retry < MaxRetry
    /\ info[w[1]].status # "DownloadComplete"
    /\ Visited("Download", w)
    /\ UNCHANGED <<ctx, pplnVars, entryPc, seeded, mPc, dmSend, moving, dlVars, task,
                   yVars, crashed, histVars>>

\* after sigTerm: downloadPhaseWaiter.Wait() for scheduleDownloads to end
DownloadManagerFinish ==
    /\ mPc["Download"] = "drain"
    /\ sdPc = "done"
    /\ mPc' = [mPc EXCEPT !["Download"] = "done"]
    /\ phaseWaiter' = phaseWaiter - 1
    /\ UNCHANGED <<ctx, pplnVars, entryPc, seeded, toVisit, dmSend, moving, dlVars, task,
                   yPc, ySent, crashed, histVars>>

-----------------------------------------------------------------------------
(* scheduleDownloads: while activeWorkers <= maxWorkers it selects on      *)
(* sigTerm and msgChannel (Go picks at random among the ready cases).     *)

SDReady == sdPc = "loop" /\ activeWorkers <= MaxConcurrentAppDownloads

\* the rendezvous with the download manager's blocking send; the manager
\* then sets isActive and goes on with its range
Received(w) ==
    /\ SDReady
    /\ mPc["Download"] = "send"
    /\ dmSend = w
    /\ mPc' = [mPc EXCEPT !["Download"] = "visit"]
    /\ dmSend' = NoWorker
    /\ active' = [active EXCEPT ![w] = TRUE]
    /\ UNCHANGED moving

\* availableDiskSpace - Size <= 0 on uint64 holds only when they are equal:
\* the worker is sent back on the same unbuffered channel, whose only
\* receiver is this goroutine, so the send never completes
ScheduleDownloadsRequeue(w) ==
    /\ Received(w)
    /\ (disk - Size[w[1]]) % UInt64 = 0
    /\ sdPc' = "requeue"
    /\ UNCHANGED <<ctx, info, q, waiter, entryPc, seeded, toVisit, sdCur, disk, activeWorkers,
                   dlWaiter, dl, dlLocal, task, yVars, crashed, histVars>>

\* admission (306-315): activeWorkers++, waiter.Add(1), debit the disk and
\* mark the app DownloadInProgress; createAppDownloadDir comes next
ScheduleDownloadsAdmit(w) ==
    /\ Received(w)
    /\ (disk - Size[w[1]]) % UInt64 # 0
    /\ activeWorkers' = (activeWorkers + 1) % UInt64
    /\ dlWaiter' = dlWaiter + 1
    /\ disk' = (disk - Size[w[1]]) % UInt64
    /\ reserved' = reserved + Size[w[1]]
    /\ UpdatePhaseInfo(w[1], "Download", info[w[1]].retry, "DownloadInProgress")
    /\ sdPc' = "mkdir"
    /\ sdCur' = w
    /\ UNCHANGED <<ctx, q, waiter, entryPc, seeded, toVisit, dl, dlLocal, task,
                   yVars, crashed, staged, installedOn, copiedTo, diskAtEntry>>

\* the directory exists: go downloadWorker.Download(&activeWorkers, localPath)
ScheduleDownloadsStart ==
    /\ sdPc = "mkdir"
    /\ dl' = [dl EXCEPT ![sdCur[1]] = "run"]
    /\ sdPc' = "loop"
    /\ sdCur' = NoWorker
    /\ UNCHANGED <<ctx, pplnVars, entryPc, seeded, mgrVars, disk, activeWorkers,
                   dlWaiter, dlLocal, task, yVars, crashed, histVars>>

\* createAppDownloadDir failed: Status = DownloadError, at once overwritten
\* by DownloadPending with one more retry, and continue -- neither the
\* counter nor the waiter is given back.  The two writes are one step: the
\* worker is active, so the only other reader of its status, the download
\* manager's range, takes the same branch for DownloadError and Pending.
ScheduleDownloadsDirFailed ==
    /\ sdPc = "mkdir"
    /\ "mkdir" \in IOFaults
    /\ UpdatePhaseInfo(sdCur[1], "Download", info[sdCur[1]].retry + 1, "DownloadPending")
    /\ sdPc' = "loop"
    /\ sdCur' = NoWorker
    /\ UNCHANGED <<ctx, q, active, waiter, entryPc, seeded, mgrVars, disk, activeWorkers,
                   dlWaiter, dl, dlLocal, task, yVars, crashed, histVars>>

ScheduleDownloadsTerm ==
    /\ SDReady
    /\ TermReady
    /\ RecvTerm
    /\ sdPc' = "drain"
    /\ UNCHANGED <<ctx, pplnVars, entryPc, seeded, mgrVars, sdCur, disk, activeWorkers,
                   dlWaiter, dl, dlLocal, task, yPc, phaseWaiter, crashed, histVars>>

\* pplnPhase.workerWaiter.Wait(), then downloadPhaseWaiter.Done()
ScheduleDownloadsFinish ==
    /\ sdPc = "drain"
    /\ dlWaiter = 0
    /\ sdPc' = "done"
    /\ UNCHANGED <<ctx, pplnVars, entryPc, seeded, mgrVars, sdCur, disk, activeWorkers,
                   dlWaiter, dl, dlLocal, task, yVars, crashed, histVars>>

-----------------------------------------------------------------------------
(* PipelineWorker.Download for app a                                       *)

DownloadBody(a) ==
    /\ dl[a] = "run"
    /\ \/ /\ UpdatePhaseInfo(a, "Download", 0, "DownloadComplete")
          /\ staged' = staged \cup {a}
       \/ /\ "download" \in IOFaults
          /\ UpdatePhaseInfo(a, "Download", info[a].retry + 1, "DownloadPending")
          /\ UNCHANGED staged
    /\ dl' = [dl EXCEPT ![a] = "decRead"]
    /\ UNCHANGED <<ctx, q, active, waiter, entryPc, seeded, mgrVars, sdPc, sdCur, disk,
                   activeWorkers, dlWaiter, dlLocal, task, yVars, crashed,
                   installedOn, copiedTo, reserved, diskAtEntry>>

\* deferred: *activeWorkers-- under the worker's own mutex, read half
DownloadDecRead(a) ==
    /\ dl[a] = "decRead"
    /\ dlLocal' = [dlLocal EXCEPT ![a] = activeWorkers]
    /\ dl' = [dl EXCEPT ![a] = "decWrite"]
    /\ UNCHANGED <<ctx, pplnVars, entryPc, seeded, mgrVars, sdPc, sdCur, disk, activeWorkers,
                   dlWaiter, task, yVars, crashed, histVars>>

\* mutant: the deferred waiter.Done() is missing
DownloadDecWriteNoDone(a) ==
    /\ dl[a] = "decWrite"
    /\ waiter[<<a, Seed>>] = "Download"
    /\ activeWorkers' = (dlLocal[a] + UInt64 - 1) % UInt64
    /\ dl' = [dl EXCEPT ![a] = "idle"]
    /\ UNCHANGED <<ctx, pplnVars, entryPc, seeded, mgrVars, sdPc, sdCur, disk, dlLocal, task,
                   dlWaiter, yVars, crashed, histVars>>

\* write half, then pplnWorker.waiter.Done(): a nil waiter is a nil pointer
\* dereference and another phase's waiter goes negative -- both panic
DownloadDecWrite(a) ==
    /\ dl[a] = "decWrite"
    /\ waiter[<<a, Seed>>] = "Download"
    /\ activeWorkers' = (dlLocal[a] + UInt64 - 1) % UInt64
    /\ dl' = [dl EXCEPT ![a] = "idle"]
    /\ dlWaiter' = dlWaiter - 1
    /\ UNCHANGED <<ctx, pplnVars, entryPc, seeded, mgrVars, sdPc, sdCur, disk, dlLocal, task,
                   yVars, crashed, histVars>>

\* the same defer once TransitionWorkerPhase has moved the worker on: its
\* waiter is nil (or another phase's), and waiter.Done() panics; the panic
\* ends the operator process, so every goroutine stops where it is
DownloadPanic(a) ==
    /\ dl[a] = "decWrite"
    /\ waiter[<<a, Seed>>] # "Download"
    /\ activeWorkers' = (dlLocal[a] + UInt64 - 1) % UInt64
    /\ crashed' = TRUE
    /\ entryPc' = "dead"
    /\ mPc' = [p \in Phases |-> "dead"]
    /\ sdPc' = "dead"
    /\ yPc' = "dead"
    /\ dl' = [x \in Apps |-> "dead"]
    /\ task' = [w \in Workers |-> "dead"]
    /\ UNCHANGED <<ctx, pplnVars, seeded, toVisit, dmSend, moving, sdCur, disk, dlWaiter, dlLocal,
                   ySent, phaseWaiter, histVars>>

-----------------------------------------------------------------------------
(* podCopyPhaseManager: one visit of the range over q[PodCopy]; the send  *)
(* on msgChannel is non-blocking and succeeds only when a pod-copy task   *)
(* is ready to receive it.                                                 *)

PodCopyManagerDispatch(w) ==
    /\ Visiting("PodCopy", w)
    /\ Eligible(w, "PodCopyComplete")
    /\ waiter' = [waiter EXCEPT ![w] = "PodCopy"]
    /\ active' = [active EXCEPT ![w] = TRUE]
    /\ task' = [task EXCEPT ![w] = "copy"]
    /\ Visited("PodCopy", w)
    /\ UNCHANGED <<ctx, info, q, entryPc, seeded, mPc, dmSend, moving, dlVars, yVars,
                   crashed, histVars>>

\* channel not ready: waiter = nil and break out of the range
PodCopyManagerBusy(w) ==
    /\ Visiting("PodCopy", w)
    /\ Eligible(w, "PodCopyComplete")
    /\ waiter' = [waiter EXCEPT ![w] = "nil"]
    /\ toVisit' = [toVisit EXCEPT !["PodCopy"] = {}]
    /\ UNCHANGED <<ctx, info, q, active, entryPc, seeded, mPc, dmSend, moving, dlVars, task,
                   yVars, crashed, histVars>>

\* a copied local-scope app moves on to Install
PodCopyManagerTransition(w) ==
    /\ Visiting("PodCopy", w)
    /\ info[w[1]].status = "PodCopyComplete"
    /\ w[1] \notin ClusterScoped
    /\ TransitionWorkerPhase(w, "PodCopy", "Install")
    /\ Visited("PodCopy", w)
    /\ UNCHANGED <<ctx, entryPc, seeded, dmSend, dlVars, task, yVars,
                   crashed, histVars>>

\* a copied cluster-scope app is left where it is (bundle push is external)
PodCopyManagerHoldCluster(w) ==
    /\ Visiting("PodCopy", w)
    /\ info[w[1]].status = "PodCopyComplete"
    /\ w[1] \in ClusterScoped
    /\ Visited("PodCopy", w)
    /\ UNCHANGED <<ctx, pplnVars, entryPc, seeded, mPc, dmSend, moving, dlVars, task, yVars,
                   crashed, histVars>>

PodCopyManagerGiveUp(w) ==
    /\ Visiting("PodCopy", w)
    /\ info[w[1]].status # "PodCopyComplete"
    /\ info[w[1]].retry >= MaxRetry
    /\ info' = [info EXCEPT ![w[1]].status = "PodCopyError"]
    /\ q' = DeleteWorker(info[w[1]].phase, w)
    /\ Visited("PodCopy", w)
    /\ UNCHANGED <<ctx, active, waiter, entryPc, seeded, mPc, dmSend, moving, dlVars, task,
                   yVars, crashed, histVars>>

PodCopyManagerSkip(w) ==
    /\ Visiting("PodCopy", w)
    /\ active[w]
    /\ info[w[1]].retry < MaxRetry
    /\ info[w[1]].status # "PodCopyComplete"
    /\ Visited("PodCopy", w)
    /\ UNCHANGED <<ctx, pplnVars, entryPc, seeded, mPc, dmSend, moving, dlVars, task,
                   yVars, crashed, histVars>>

-----------------------------------------------------------------------------
(* installPhaseManager: one visit of the range over q[Install]            *)

InstallManagerDispatch(w) ==
    /\ Visiting("Install", w)
    /\ Eligible(w, "InstallComplete")
    /\ waiter' = [waiter EXCEPT ![w] = "Install"]
    /\ active' = [active EXCEPT ![w] = TRUE]
    /\ task' = [task EXCEPT ![w] = "install"]
    /\ Visited("Install", w)
    /\ UNCHANGED <<ctx, info, q, entryPc, seeded, mPc, dmSend, moving, dlVars, yVars,
                   crashed, histVars>>

InstallManagerBusy(w) ==
    /\ Visiting("Install", w)
    /\ Eligible(w, "InstallComplete")
    /\ waiter' = [waiter EXCEPT ![w] = "nil"]
    /\ toVisit' = [toVisit EXCEPT !["Install"] = {}]
    /\ UNCHANGED <<ctx, info, q, active, entryPc, seeded, mPc, dmSend, moving, dlVars, task,
                   yVars, crashed, histVars>>

\* mutant: the worker is deleted but DeployStatus is never set
InstallManagerCompleteNoDeploy(w) ==
    /\ Visiting("Install", w)
    /\ info[w[1]].status = "InstallComplete"
    /\ q' = DeleteWorker(info[w[1]].phase, w)
    /\ Visited("Install", w)
    /\ UNCHANGED <<ctx, info, active, waiter, entryPc, seeded, mPc, dmSend, moving, dlVars,
                   task, yVars, crashed, histVars>>

\* InstallComplete: the deploy status is set to complete for every kind;
\* for a Standalone whose AuxPhaseInfo all reads Install/Complete the
\* PhaseInfo is also rewritten to Install/InstallComplete
InstallManagerComplete(w) ==
    /\ Visiting("Install", w)
    /\ info[w[1]].status = "InstallComplete"
    /\ LET a == w[1] IN
         info' = IF Kind = "Standalone"
                      /\ isAppInstallationCompleteOnStandaloneReplicas(info[a].aux)
                 THEN [info EXCEPT ![a].phase = "Install", ![a].status = "InstallComplete",
                                   ![a].deploy = "complete"]
                 ELSE [info EXCEPT ![a].deploy = "complete"]
    /\ q' = DeleteWorker(info[w[1]].phase, w)
    /\ Visited("Install", w)
    /\ UNCHANGED <<ctx, active, waiter, entryPc, seeded, mPc, dmSend, moving, dlVars, task,
                   yVars, crashed, histVars>>

InstallManagerGiveUp(w) ==
    /\ Visiting("Install", w)
    /\ info[w[1]].status # "InstallComplete"
    /\ info[w[1]].retry >= MaxRetry
    /\ info' = [info EXCEPT ![w[1]].status = "InstallError"]
    /\ q' = DeleteWorker(info[w[1]].phase, w)
    /\ Visited("Install", w)
    /\ UNCHANGED <<ctx, active, waiter, entryPc, seeded, mPc, dmSend, moving, dlVars, task,
                   yVars, crashed, histVars>>

InstallManagerSkip(w) ==
    /\ Visiting("Install", w)
    /\ active[w]
    /\ info[w[1]].retry < MaxRetry
    /\ info[w[1]].status # "InstallComplete"
    /\ Visited("Install", w)
    /\ UNCHANGED <<ctx, pplnVars, entryPc, seeded, mPc, dmSend, moving, dlVars, task,
                   yVars, crashed, histVars>>

-----------------------------------------------------------------------------
(* The pod-copy and install tasks that receive from the PodCopy and       *)
(* Install msgChannels.  They are not part of src/; they follow the       *)
(* design (spec section 4.5) and the receivers of TestAfwSchedulerEntry:  *)
(* they write only the Status of the worker's shared appDeployInfo (and   *)
(* one more retry on a pod exec error), never its Phase, then clear       *)
(* isActive.  The PodCopy and Install workerWaiters are never Add()ed to, *)
(* so a task does not call waiter.Done().                                 *)

\* the status (and, on failure, the retry count) written by a task
SetStatus(a, st, r) == info' = [info EXCEPT ![a].status = st, ![a].retry = r]

PodCopyTask(w) ==
    /\ task[w] = "copy"
    /\ \/ /\ SetStatus(w[1], "PodCopyComplete", info[w[1]].retry)
          /\ copiedTo' = [copiedTo EXCEPT ![w[1]] = @ \cup {TargetPod(w)}]
       \/ /\ "podexec" \in IOFaults
          /\ SetStatus(w[1], "PodCopyPending", info[w[1]].retry + 1)
          /\ UNCHANGED copiedTo
    /\ active' = [active EXCEPT ![w] = FALSE]
    /\ task' = [task EXCEPT ![w] = "idle"]
    /\ UNCHANGED <<ctx, q, waiter, entryPc, seeded, mgrVars, dlVars, yVars, crashed,
                   staged, installedOn, reserved, diskAtEntry>>

InstallTask(w) ==
    /\ task[w] = "install"
    /\ \/ /\ SetStatus(w[1], "InstallComplete", info[w[1]].retry)
          /\ installedOn' = [installedOn EXCEPT ![w[1]] = @ \cup {TargetPod(w)}]
       \/ /\ "podexec" \in IOFaults
          /\ SetStatus(w[1], "InstallPending", info[w[1]].retry + 1)
          /\ UNCHANGED installedOn
    /\ active' = [active EXCEPT ![w] = FALSE]
    /\ task' = [task EXCEPT ![w] = "idle"]
    /\ UNCHANGED <<ctx, q, waiter, entryPc, seeded, mgrVars, dlVars, yVars, crashed,
                   staged, copiedTo, reserved, diskAtEntry>>

-----------------------------------------------------------------------------
(* The yield goroutine of afwSchedulerEntry                                *)

YieldOnEmpty ==
    /\ yPc = "run"
    /\ isPipelineEmpty
    /\ yPc' = "send"
    /\ UNCHANGED <<ctx, pplnVars, entryPc, seeded, mgrVars, dlVars, task, ySent,
                   phaseWaiter, crashed, histVars>>

\* afwEntryTime + yieldTime < now
YieldOnTimeout ==
    /\ yPc = "run"
    /\ TimeoutEnabled
    /\ yPc' = "send"
    /\ UNCHANGED <<ctx, pplnVars, entryPc, seeded, mgrVars, dlVars, task, ySent,
                   phaseWaiter, crashed, histVars>>

\* all three sends were received: close(sigTerm), phaseWaiter.Done()
YieldClose ==
    /\ yPc = "send"
    /\ ySent = 3
    /\ yPc' = "done"
    /\ phaseWaiter' = phaseWaiter - 1
    /\ UNCHANGED <<ctx, pplnVars, entryPc, seeded, mgrVars, dlVars, task, ySent,
                   crashed, histVars>>

-----------------------------------------------------------------------------

EntryActions ==
    EntryInit \/ (\E a \in Apps : EntrySeed(a)) \/ EntryStartYield \/ EntryReturn

DownloadManagerActions ==
    \/ DownloadPhaseManagerSelect \/ ManagerEndPass("Download") \/ DownloadManagerFinish
    \/ TransitionDelete("Download")
    \/ \E w \in Workers :
         \/ DownloadManagerDispatch(w) \/ DownloadManagerTransition(w)
         \/ DownloadManagerGiveUp(w) \/ DownloadManagerSkip(w)

ScheduleDownloadsActions ==
    \/ ScheduleDownloadsTerm \/ ScheduleDownloadsFinish
    \/ ScheduleDownloadsStart \/ ScheduleDownloadsDirFailed
    \/ \E w \in Workers : ScheduleDownloadsRequeue(w) \/ ScheduleDownloadsAdmit(w)

DownloadActions(a) ==
    DownloadBody(a) \/ DownloadDecRead(a) \/ DownloadDecWrite(a) \/ DownloadPanic(a)

PodCopyManagerActions ==
    \/ PodCopyPhaseManagerSelect \/ ManagerEndPass("PodCopy") \/ TransitionDelete("PodCopy")
    \/ \E w \in Workers :
         \/ PodCopyManagerDispatch(w) \/ PodCopyManagerBusy(w)
         \/ PodCopyManagerTransition(w) \/ PodCopyManagerHoldCluster(w)
         \/ PodCopyManagerGiveUp(w) \/ PodCopyManagerSkip(w)

InstallManagerActions ==
    \/ InstallPhaseManagerSelect \/ ManagerEndPass("Install")
    \/ \E w \in Workers :
         \/ InstallManagerDispatch(w) \/ InstallManagerBusy(w)
         \/ InstallManagerComplete(w) \/ InstallManagerGiveUp(w)
         \/ InstallManagerSkip(w)

YieldActions == YieldOnEmpty \/ YieldOnTimeout \/ YieldClose

Next ==
    \/ EntryActions
    \/ DownloadManagerActions
    \/ ScheduleDownloadsActions
    \/ \E a \in Apps : DownloadActions(a)
    \/ PodCopyManagerActions
    \/ InstallManagerActions
    \/ \E w \in Workers : PodCopyTask(w) \/ InstallTask(w)
    \/ YieldActions

(* Every goroutine is scheduled by the Go runtime, so each is weakly fair. *)
(* A non-blocking send meets a ready receiver only now and then, so the   *)
(* dispatches to the pod-copy and install tasks are strongly fair.        *)
Fairness ==
    /\ WF_vars(EntryActions)
    /\ WF_vars(DownloadManagerActions)
    /\ WF_vars(ScheduleDownloadsActions)
    /\ \A a \in Apps : WF_vars(DownloadActions(a))
    /\ WF_vars(PodCopyManagerActions)
    /\ WF_vars(InstallManagerActions)
    /\ SF_vars(\E w \in Workers : PodCopyManagerDispatch(w))
    /\ SF_vars(\E w \in Workers : InstallManagerDispatch(w))
    /\ \A w \in Workers : WF_vars(PodCopyTask(w) \/ InstallTask(w))
    /\ WF_vars(YieldActions)

Spec == Init /\ [][Next]_vars /\ Fairness

-----------------------------------------------------------------------------
(* Properties                                                              *)

Statuses == {ph \o st : ph \in Phases,
                        st \in {"Pending", "InProgress", "Complete", "Error"}}
ErrorStatuses == {"DownloadError", "PodCopyError", "InstallError"}
\* fan-out clones share one retry count, so concurrent failures may pass the cap
RetryRange == 0 .. MaxRetry + Cardinality(PodIds)
PhaseInfoRec == [phase : Phases, status : Statuses, retry : RetryRange]

TypeOK ==
    /\ info \in [Apps -> [phase : Phases, status : Statuses, retry : RetryRange,
                          deploy : {"pending", "complete"},
                          aux : UNION {[1 .. n -> PhaseInfoRec] : n \in 0 .. Cardinality(PodIds)}]]
    /\ q \in [Phases -> SUBSET Workers]
    /\ active \in [Workers -> BOOLEAN]
    /\ waiter \in [Workers -> {"nil"} \cup Phases]
    /\ mPc \in [Phases -> {"off", "select", "visit", "delete", "send", "drain", "done", "dead"}]
    /\ moving \in [Phases -> Workers \cup {NoWorker}]
    /\ sdPc \in {"off", "loop", "mkdir", "requeue", "drain", "done", "dead"}
    /\ sdCur \in Workers \cup {NoWorker}
    /\ disk \in 0 .. UInt64 - 1 /\ activeWorkers \in 0 .. UInt64 - 1
    /\ dl \in [Apps -> {"idle", "run", "decRead", "decWrite", "dead"}]
    /\ task \in [Workers -> {"idle", "copy", "install", "dead"}]
    /\ yPc \in {"off", "run", "send", "done", "dead"} /\ ySent \in 0 .. 3
    /\ phaseWaiter \in 0 .. 4 /\ dlWaiter \in 0 .. Cardinality(Apps)
    /\ copiedTo \in [Apps -> SUBSET PodIds]

(* A package is copied to a pod only after its download succeeded in this *)
(* pass: the download manager, the dispatcher and the Download goroutine  *)
(* together must never let a worker reach PodCopy early.                  *)
CopyOnlyAfterDownload ==
    \A w \in Workers : task[w] = "copy" => w[1] \in staged

(* A worker is handed to the install stage only for a pod its package was *)
(* copied to in this pass: the pod-copy manager's test of the shared       *)
(* PhaseInfo must not let one replica's copy stand for another's.          *)
\* not in a kept run: see README, "TLC also showed"
InstallOnlyAfterCopy ==
    \A w \in Workers : task[w] = "install" => TargetPod(w) \in copiedTo[w[1]]

(* afwSchedulerEntry returns only once no pod-copy or install task is     *)
(* still working on one of its workers: each phase manager is to wait on  *)
(* its stage's workerWaiter for the in-flight workers before it signals   *)
(* phaseWaiter (design, phase manager shape, step 3).                      *)
\* not in a kept run: see README, "TLC also showed"
NoTaskOutlivesEntry ==
    entryPc = "done" => \A w \in Workers : task[w] = "idle"

(* When afwSchedulerEntry returns, the AppDeploymentContext it was handed *)
(* -- the status the caller persists and the next reconcile seeds from --  *)
(* holds what the pass did to every app: the workers' PhaseInfo and        *)
(* DeployStatus writes must reach the context's entries.                   *)
PassPersistedInContext ==
    entryPc = "done" => \A a \in Apps : ctx[a] = info[a]

(* When installPhaseManager marks an app's DeployStatus complete, the     *)
(* package is installed on every replica of the statefulset.              *)
\* not in a kept run: see README, "TLC also showed"
DeployCompleteOnAllReplicas ==
    \A a \in Apps :
        info[a].deploy = "complete" /\ ctx[a].deploy # "complete"
            => 0 .. Replicas - 1 \subseteq installedOn[a]

(* The bytes admitted by scheduleDownloads never exceed the disk space    *)
(* available at entry (spec: disk-budget admission).                      *)
DiskNeverOvercommitted == reserved <= diskAtEntry

(* At most maxConcurrentAppDownloads downloads run at once.              *)
\* not in a kept run: see README, "TLC also showed"
DownloadsWithinCap ==
    Cardinality({a \in Apps : dl[a] = "run"}) <= MaxConcurrentAppDownloads

(* No goroutine of the pass panics (nil waiter, negative WaitGroup).      *)
NoPanic == ~crashed

(* afwSchedulerEntry eventually returns, unless the process panicked.     *)
EntryEventuallyReturns == <>(entryPc = "done" \/ crashed)

(* Once scheduleDownloads has left its loop, pplnPhase.workerWaiter.Wait()  *)
(* returns: every admitted download gives its waiter count back.           *)
DownloadDrainCompletes == (sdPc = "drain") ~> (sdPc = "done" \/ crashed)

(* With no I/O failure every app of the context is eventually deployed.  *)
EveryAppDeployed ==
    <>(crashed \/ \A a \in Apps : info[a].deploy = "complete")

(* Every app eventually ends the pass deployed or in an Error status     *)
(* (spec: transient errors are retried until the retry cap).              *)
EveryAppSettles ==
    <>(crashed \/ \A a \in Apps : info[a].deploy = "complete" \/ info[a].status \in ErrorStatuses)


-----------------------------------------------------------------------------
(* Refinement of the per-app lifecycle (AppLifecycle.tla).  The abstract  *)
(* state of an app is its appDeployInfo without AuxPhaseInfo.             *)

AbstractEntry(e) ==
    [phase |-> e.phase, status |-> e.status, retry |-> e.retry, deploy |-> e.deploy]

Lifecycle == INSTANCE AppLifecycle
                 WITH app <- [a \in Apps |-> AbstractEntry(info[a])],
                      StartEntries <- {AbstractEntry(CtxEntry(k)) : k \in CtxKinds}

=============================================================================
