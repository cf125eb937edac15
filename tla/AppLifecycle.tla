---------------------------- MODULE AppLifecycle ----------------------------
(***************************************************************************)
(* What the App Framework scheduler promises of one AppDeploymentInfo,    *)
(* abstracted from queues, goroutines and channels: its PhaseInfo moves   *)
(* through Download, PodCopy and Install strictly in that order; within a *)
(* phase a transient failure returns it to <Phase>Pending with one more   *)
(* retry, never past pipelinePhaseMaxRetryCount; success zeroes the       *)
(* retries; an exhausted phase ends in <Phase>Error; and DeployStatus     *)
(* becomes complete only once the package is InstallComplete.  (Design:  *)
(* per-app phase-and-status state machine, ordering guarantees, retry     *)
(* cap and error policy.)                                                 *)
(***************************************************************************)
EXTENDS Naturals, Sequences

CONSTANTS
    Apps,           \* app packages of the AppDeploymentContext
    MaxRetry,       \* pipelinePhaseMaxRetryCount
    StartEntries    \* the entries a reconcile may find in the context

VARIABLE app        \* per app: [phase, status, retry, deploy]

Phases == {"Download", "PodCopy", "Install"}
NextPhase == [Download |-> "PodCopy", PodCopy |-> "Install"]

Pending(ph) == ph \o "Pending"
InProgress(ph) == ph \o "InProgress"
Complete(ph) == ph \o "Complete"
Failed(ph) == ph \o "Error"

\* the statuses from which the current phase may still succeed or fail
Open(e) == e.status \in {Pending(e.phase), InProgress(e.phase)}

Init == app \in [Apps -> StartEntries]

\* work on the phase begins (the download dispatcher's admission)
Start(a) ==
    /\ app[a].status = Pending(app[a].phase)
    /\ app' = [app EXCEPT ![a].status = InProgress(app[a].phase)]

\* a transient error: back to Pending with one more retry, under the cap
Fail(a) ==
    /\ Open(app[a])
    /\ app[a].retry < MaxRetry
    /\ app' = [app EXCEPT ![a].status = Pending(app[a].phase),
                          ![a].retry = app[a].retry + 1]

\* a download zeroes the retries; a copy or install leaves them to Advance
Succeed(a) ==
    /\ Open(app[a])
    /\ \E r \in {0, app[a].retry} :
         app' = [app EXCEPT ![a].status = Complete(app[a].phase), ![a].retry = r]

\* the next phase begins, afresh
Advance(a) ==
    /\ app[a].phase \in DOMAIN NextPhase
    /\ app[a].status = Complete(app[a].phase)
    /\ app' = [app EXCEPT ![a].phase = NextPhase[app[a].phase],
                          ![a].status = Pending(NextPhase[app[a].phase]),
                          ![a].retry = 0]

\* the retry budget of the phase is spent: a terminal error
GiveUp(a) ==
    /\ Open(app[a])
    /\ app[a].retry >= MaxRetry
    /\ app' = [app EXCEPT ![a].status = Failed(app[a].phase)]

Deploy(a) ==
    /\ app[a].status = Complete("Install")
    /\ app[a].deploy = "pending"
    /\ app' = [app EXCEPT ![a].deploy = "complete"]

Next ==
    \E a \in Apps :
        Start(a) \/ Fail(a) \/ Succeed(a) \/ Advance(a) \/ GiveUp(a) \/ Deploy(a)

\* the safety part: what may happen, not that anything must
Spec == Init /\ [][Next]_app

=============================================================================
