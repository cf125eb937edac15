----------------------------- MODULE AfwEntries -----------------------------
(***************************************************************************)
(* Several reconciles calling afwSchedulerEntry at once, over the package- *)
(* level handle afwPipeline (afwscheduler.go).  What happens inside a      *)
(* pipeline (queues, workers, disk) is AfwScheduler's; here a pipeline is  *)
(* its sigTerm channel and its phaseWaiter, and every expression           *)
(* `afwPipeline.x` in the entry and its yield goroutine is a fresh read of *)
(* the global, as in the code.  A pipeline is named by the entry that      *)
(* allocated it: initAppInstallPipeline allocates at most once per entry.  *)
(***************************************************************************)
EXTENDS Naturals

CONSTANTS
    Entries,            \* concurrent reconciles calling afwSchedulerEntry
    DiskErrorPossible   \* getAvailableDiskSpace may fail

Nil == "nil"
Pipelines == Entries
\* the goroutines started on a pipeline by one entry: the three phase
\* managers and the download dispatcher (scheduleDownloads)
Roles == {"download", "dispatch", "podcopy", "install"}
Goroutines == Entries \X Roles
\* the managers are started in this order (lines 631-640)
AfterStart == [download |-> "podcopy", podcopy |-> "install", install |-> "seed"]

VARIABLES
    afwPipeline,    \* the global handle: a pipeline or Nil
    sig,            \* per pipeline: its sigTerm channel, "unmade", "open" or "closed"
    pw,             \* per pipeline: the phaseWaiter counter
    gst,            \* per goroutine: "none", "run", "exited" (left its loop), "done"
    gpipe,          \* per goroutine: the pipeline it was started on (its receiver)
    pc,             \* per entry: the next statement of afwSchedulerEntry
    wch,            \* per entry: the pipeline whose phaseWaiter it waits on
    ypc,            \* per entry: the yield goroutine's next statement
    ysent,          \* per entry: sigTerm sends the yield goroutine has completed
    ych,            \* per entry: the channel its yield goroutine is blocked sending on
    panicked        \* a goroutine panicked: the operator process is down

vars == <<afwPipeline, sig, pw, gst, gpipe, pc, wch, ypc, ysent, ych, panicked>>

TypeOK ==
    /\ afwPipeline \in Pipelines \cup {Nil}
    /\ sig \in [Pipelines -> {"unmade", "open", "closed"}]
    /\ pw \in [Pipelines -> Nat]
    /\ gst \in [Goroutines -> {"none", "run", "exited", "done"}]
    /\ gpipe \in [Goroutines -> Pipelines \cup {Nil}]
    /\ ypc \in [Entries -> {"none", "loop", "send", "blocked", "close", "wgdone", "end"}]
    /\ ysent \in [Entries -> 0..3]
    /\ panicked \in BOOLEAN

Init ==
    /\ afwPipeline = Nil
    /\ sig = [p \in Pipelines |-> "unmade"]
    /\ pw = [p \in Pipelines |-> 0]
    /\ gst = [g \in Goroutines |-> "none"]
    /\ gpipe = [g \in Goroutines |-> Nil]
    /\ pc = [e \in Entries |-> "init"]
    /\ wch = [e \in Entries |-> Nil]
    /\ ypc = [e \in Entries |-> "none"]
    /\ ysent = [e \in Entries |-> 0]
    /\ ych = [e \in Entries |-> Nil]
    /\ panicked = FALSE

\* a nil dereference, a send on or a close of a closed channel, or a
\* negative WaitGroup counter: the runtime panics and the process dies
Panic ==
    /\ panicked' = TRUE
    /\ UNCHANGED <<afwPipeline, sig, pw, gst, gpipe, pc, wch, ypc, ysent, ych>>

------------------------------------------------------------------------------
(* afwSchedulerEntry                                                        *)

\* afwPipeline = initAppInstallPipeline(): a new pipeline only if the
\* global is nil, else the one already there
InitAppInstallPipeline(e) ==
    /\ pc[e] = "init"
    /\ IF afwPipeline = Nil
         THEN /\ afwPipeline' = e
              /\ sig' = [sig EXCEPT ![e] = "open"]
         ELSE UNCHANGED <<afwPipeline, sig>>
    /\ pc' = [pc EXCEPT ![e] = "disk"]
    /\ UNCHANGED <<pw, gst, gpipe, wch, ypc, ysent, ych, panicked>>

\* getAvailableDiskSpace: an error returns before the defer that clears the
\* global is registered; success stores the space in afwPipeline
GetAvailableDiskSpace(e) ==
    /\ pc[e] = "disk"
    /\ \/ /\ DiskErrorPossible
          /\ pc' = [pc EXCEPT ![e] = "done"]
          /\ UNCHANGED <<afwPipeline, sig, pw, gst, gpipe, wch, ypc, ysent, ych, panicked>>
       \/ /\ afwPipeline # Nil
          /\ pc' = [pc EXCEPT ![e] = "download"]
          /\ UNCHANGED <<afwPipeline, sig, pw, gst, gpipe, wch, ypc, ysent, ych, panicked>>
       \/ afwPipeline = Nil /\ Panic

\* afwPipeline.phaseWaiter.Add(1); go afwPipeline.<role>PhaseManager(
\*   &afwPipeline.phaseWaiter, afwPipeline.sigTerm, ...); the download
\* manager starts scheduleDownloads on the same sigTerm
StartPhaseManager(e) ==
    LET r == pc[e]
        started == IF r = "download" THEN {<<e, "download">>, <<e, "dispatch">>}
                                     ELSE {<<e, r>>}
    IN
    /\ r \in DOMAIN AfterStart
    /\ \/ /\ afwPipeline # Nil
          /\ pw' = [pw EXCEPT ![afwPipeline] = @ + 1]
          /\ gst' = [g \in Goroutines |-> IF g \in started THEN "run" ELSE gst[g]]
          /\ gpipe' = [g \in Goroutines |-> IF g \in started THEN afwPipeline ELSE gpipe[g]]
          /\ pc' = [pc EXCEPT ![e] = AfterStart[r]]
          /\ UNCHANGED <<afwPipeline, sig, wch, ypc, ysent, ych, panicked>>
       \/ afwPipeline = Nil /\ Panic

\* the seeding loop: afwPipeline.createAndAddPipelineWorker for each app
\* that is mid-journey; a context with none seeds nothing
SeedWorkers(e) ==
    /\ pc[e] = "seed"
    /\ \/ /\ pc' = [pc EXCEPT ![e] = "yield"]
          /\ UNCHANGED <<afwPipeline, sig, pw, gst, gpipe, wch, ypc, ysent, ych, panicked>>
       \/ afwPipeline = Nil /\ Panic

\* afwPipeline.phaseWaiter.Add(1) and start of the yield goroutine
StartYield(e) ==
    /\ pc[e] = "yield"
    /\ \/ /\ afwPipeline # Nil
          /\ pw' = [pw EXCEPT ![afwPipeline] = @ + 1]
          /\ ypc' = [ypc EXCEPT ![e] = "loop"]
          /\ pc' = [pc EXCEPT ![e] = "wait"]
          /\ UNCHANGED <<afwPipeline, sig, gst, gpipe, wch, ysent, ych, panicked>>
       \/ afwPipeline = Nil /\ Panic

\* the defer `afwPipeline = nil` is registered, then
\* afwPipeline.phaseWaiter.Wait() is called on the pipeline the global names
WaitPhaseManagers(e) ==
    /\ pc[e] = "wait"
    /\ \/ /\ afwPipeline # Nil
          /\ wch' = [wch EXCEPT ![e] = afwPipeline]
          /\ pc' = [pc EXCEPT ![e] = "waiting"]
          /\ UNCHANGED <<afwPipeline, sig, pw, gst, gpipe, ypc, ysent, ych, panicked>>
       \/ afwPipeline = Nil /\ Panic

\* Wait() returns and the deferred function clears the global
EntryReturn(e) ==
    /\ pc[e] = "waiting"
    /\ pw[wch[e]] = 0
    /\ afwPipeline' = Nil
    /\ pc' = [pc EXCEPT ![e] = "done"]
    /\ UNCHANGED <<sig, pw, gst, gpipe, wch, ypc, ysent, ych, panicked>>

------------------------------------------------------------------------------
(* the yield goroutine (lines 690-711)                                      *)

\* `afwEntryTime+yieldTime < now || afwPipeline.isPipelineEmpty()`: once
\* the 90 s have passed, or the poll finds the pipeline empty, it yields;
\* while the time has not passed the poll dereferences the global
YieldCheck(e) ==
    /\ ypc[e] = "loop"
    /\ \/ /\ ypc' = [ypc EXCEPT ![e] = "send"]
          /\ UNCHANGED <<afwPipeline, sig, pw, gst, gpipe, pc, wch, ysent, ych, panicked>>
       \/ afwPipeline = Nil /\ Panic

\* `afwPipeline.sigTerm <- true` evaluates the channel, then blocks on it
YieldSend(e) ==
    /\ ypc[e] = "send"
    /\ \/ /\ afwPipeline # Nil
          /\ sig[afwPipeline] = "open"
          /\ ych' = [ych EXCEPT ![e] = afwPipeline]
          /\ ypc' = [ypc EXCEPT ![e] = "blocked"]
          /\ UNCHANGED <<afwPipeline, sig, pw, gst, gpipe, pc, wch, ysent, panicked>>
       \/ afwPipeline = Nil /\ Panic
       \/ afwPipeline # Nil /\ sig[afwPipeline] = "closed" /\ Panic

\* the unbuffered send meets a goroutine selecting on the same channel,
\* which leaves its loop; after the third send the yield closes sigTerm
SigTermRendezvous(e, g) ==
    /\ ypc[e] = "blocked"
    /\ sig[ych[e]] = "open"
    /\ gst[g] = "run"
    /\ gpipe[g] = ych[e]
    /\ gst' = [gst EXCEPT ![g] = "exited"]
    /\ ysent' = [ysent EXCEPT ![e] = @ + 1]
    /\ ypc' = [ypc EXCEPT ![e] = IF ysent[e] + 1 = 3 THEN "close" ELSE "send"]
    /\ UNCHANGED <<afwPipeline, sig, pw, gpipe, pc, wch, ych, panicked>>

\* a sender blocked on a channel that another goroutine closes panics
SendOnClosed(e) ==
    /\ ypc[e] = "blocked"
    /\ sig[ych[e]] = "closed"
    /\ Panic

\* close(afwPipeline.sigTerm)
YieldClose(e) ==
    /\ ypc[e] = "close"
    /\ \/ /\ afwPipeline # Nil
          /\ sig[afwPipeline] = "open"
          /\ sig' = [sig EXCEPT ![afwPipeline] = "closed"]
          /\ ypc' = [ypc EXCEPT ![e] = "wgdone"]
          /\ UNCHANGED <<afwPipeline, pw, gst, gpipe, pc, wch, ysent, ych, panicked>>
       \/ afwPipeline = Nil /\ Panic
       \/ afwPipeline # Nil /\ sig[afwPipeline] = "closed" /\ Panic

\* afwPipeline.phaseWaiter.Done()
YieldDone(e) ==
    /\ ypc[e] = "wgdone"
    /\ \/ /\ afwPipeline # Nil
          /\ pw[afwPipeline] > 0
          /\ pw' = [pw EXCEPT ![afwPipeline] = @ - 1]
          /\ ypc' = [ypc EXCEPT ![e] = "end"]
          /\ UNCHANGED <<afwPipeline, sig, gst, gpipe, pc, wch, ysent, ych, panicked>>
       \/ afwPipeline = Nil /\ Panic
       \/ afwPipeline # Nil /\ pw[afwPipeline] = 0 /\ Panic

------------------------------------------------------------------------------
(* the phase managers and the download dispatcher, reduced to their         *)
(* termination: each selects on the sigTerm it was started with            *)

\* `case <-sigTerm` also fires on a closed channel
ReceiveClosed(g) ==
    /\ gst[g] = "run"
    /\ sig[gpipe[g]] = "closed"
    /\ gst' = [gst EXCEPT ![g] = "exited"]
    /\ UNCHANGED <<afwPipeline, sig, pw, gpipe, pc, wch, ypc, ysent, ych, panicked>>

\* phaseWaiter.Done() on the waiter the manager was started with; the
\* download manager first waits for its dispatcher (downloadPhaseWaiter)
ManagerDone(g) ==
    /\ g[2] # "dispatch"
    /\ gst[g] = "exited"
    /\ g[2] = "download" => gst[<<g[1], "dispatch">>] = "exited"
    /\ \/ /\ pw[gpipe[g]] > 0
          /\ pw' = [pw EXCEPT ![gpipe[g]] = @ - 1]
          /\ gst' = [gst EXCEPT ![g] = "done"]
          /\ UNCHANGED <<afwPipeline, sig, gpipe, pc, wch, ypc, ysent, ych, panicked>>
       \/ pw[gpipe[g]] = 0 /\ Panic

------------------------------------------------------------------------------

Next ==
    /\ ~panicked
    /\ \/ \E e \in Entries :
            \/ InitAppInstallPipeline(e) \/ GetAvailableDiskSpace(e)
            \/ StartPhaseManager(e) \/ SeedWorkers(e) \/ StartYield(e)
            \/ WaitPhaseManagers(e) \/ EntryReturn(e)
            \/ YieldCheck(e) \/ YieldSend(e) \/ SendOnClosed(e)
            \/ YieldClose(e) \/ YieldDone(e)
            \/ \E g \in Goroutines : SigTermRendezvous(e, g)
       \/ \E g \in Goroutines : ReceiveClosed(g) \/ ManagerDone(g)

Spec == Init /\ [][Next]_vars

------------------------------------------------------------------------------
(* Properties                                                               *)

(* No interleaving of reconciles brings the operator down: every           *)
(* `afwPipeline.x` of an entry and its yield goroutine finds a pipeline,   *)
(* and every sigTerm is sent to and closed once.  The spec says each pass *)
(* initializes a fresh pipeline and discards it at teardown; the code      *)
(* shares one package-level handle that initAppInstallPipeline reuses and *)
(* the first entry to return sets to nil.                                  *)
NoPanic == ~panicked

==============================================================================
