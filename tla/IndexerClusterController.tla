----------------------- MODULE IndexerClusterController -----------------------
(***************************************************************************)
(* The IndexerCluster controller (src/controllers/indexercluster_          *)
(* controller.go): the watches and the event filter of SetupWithManager    *)
(* feeding a deduplicating work queue, and Reconcile.  An event passes     *)
(* WithEventFilter(GenerationChangedPredicate) -- the filter applies to    *)
(* every watch -- when it is a create or delete, or an update that changes *)
(* metadata.generation: a StatefulSet spec edit does, a Secret edit never  *)
(* does.  EnqueueRequestForOwner{IsController, OwnerType} enqueues the     *)
(* name of the object's controller owner when its kind is OwnerType.  The  *)
(* queue is controller-runtime's: a key is in it at most once and is never *)
(* reconciled by two workers at once.  ApplyIndexerCluster is not in this  *)
(* repository; it acts on the CR and its owned objects and returns a       *)
(* requeue, no requeue, or an error.                                       *)
(***************************************************************************)
EXTENDS Naturals

CONSTANTS
    Names,      \* IndexerCluster names in the namespace
    Objs,       \* StatefulSets and Secrets carrying a controller reference
    ObjKind,    \* [Objs -> {"StatefulSet", "Secret"}]
    Owner,      \* [Objs -> [kind, name]]: the controller owner reference
    MaxEdits    \* bound on out-of-band edits of owned objects and CRs

\* the watched owner type (lines 93 and 98)
WatchOwnerType == "SearchHeadCluster"

\* the objects an IndexerCluster owns, and so reconciles back
OwnedBy(n) == {o \in Objs : Owner[o] = [kind |-> "IndexerCluster", name |-> n]}

VARIABLES
    crPresent,  \* per name: the IndexerCluster exists
    drift,      \* per object: edited away from what its owner's reconcile wrote
    queued,     \* keys in the work queue (deduplicated)
    busy,       \* keys a worker is reconciling
    edits       \* out-of-band edits made so far

vars == <<crPresent, drift, queued, busy, edits>>

TypeOK ==
    /\ crPresent \in [Names -> BOOLEAN]
    /\ drift \in [Objs -> BOOLEAN]
    /\ queued \subseteq Names /\ busy \subseteq Names
    /\ edits \in 0 .. MaxEdits

\* the request an update of object o maps to: its controller owner's name
\* when the owner kind is the watched one and the update passes the filter
UpdateRequests(o) ==
    IF ObjKind[o] = "StatefulSet" /\ Owner[o].kind = WatchOwnerType
      THEN {Owner[o].name} ELSE {}

Init ==
    /\ crPresent = [n \in Names |-> TRUE]
    /\ drift = [o \in Objs |-> FALSE]
    /\ queued = Names       \* the initial list of the informer creates events
    /\ busy = {}
    /\ edits = 0

------------------------------------------------------------------------------
(* the cluster around the controller                                       *)

\* someone edits an owned object out of band (scale, image, data)
EditObject(o) ==
    /\ edits < MaxEdits
    /\ \A n \in Names : o \in OwnedBy(n) => crPresent[n]
    /\ drift' = [drift EXCEPT ![o] = TRUE]
    /\ queued' = queued \cup UpdateRequests(o)
    /\ edits' = edits + 1
    /\ UNCHANGED <<crPresent, busy>>

\* a spec change bumps the CR's generation: the For watch enqueues it
UpdateCR(n) ==
    /\ edits < MaxEdits
    /\ crPresent[n]
    /\ queued' = queued \cup {n}
    /\ edits' = edits + 1
    /\ UNCHANGED <<crPresent, drift, busy>>

\* a delete event passes the filter; the owned objects are garbage collected
DeleteCR(n) ==
    /\ crPresent[n]
    /\ crPresent' = [crPresent EXCEPT ![n] = FALSE]
    /\ drift' = [o \in Objs |-> drift[o] /\ o \notin OwnedBy(n)]
    /\ queued' = queued \cup {n}
    /\ UNCHANGED <<busy, edits>>

------------------------------------------------------------------------------
(* the controller's workers                                                *)

\* a worker takes a key no other worker holds
WorkerGet(n) ==
    /\ n \in queued \ busy
    /\ queued' = queued \ {n}
    /\ busy' = busy \cup {n}
    /\ UNCHANGED <<crPresent, drift, edits>>

\* r.Get finds no object: return with no requeue
ReconcileNotFound(n) ==
    /\ n \in busy
    /\ ~crPresent[n]
    /\ busy' = busy \ {n}
    /\ UNCHANGED <<crPresent, drift, queued, edits>>

\* r.Get fails: the error requeues the key (rate limited)
ReconcileGetError(n) ==
    /\ n \in busy
    /\ busy' = busy \ {n}
    /\ queued' = queued \cup {n}
    /\ UNCHANGED <<crPresent, drift, edits>>

\* ApplyIndexerCluster brings the owned objects back to what the CR says;
\* its result requeues the key, or not (a cluster that is ready)
ReconcileApply(n) ==
    /\ n \in busy
    /\ crPresent[n]
    /\ drift' = [o \in Objs |-> drift[o] /\ o \notin OwnedBy(n)]
    /\ busy' = busy \ {n}
    /\ \E requeue \in BOOLEAN :
         queued' = IF requeue THEN queued \cup {n} ELSE queued
    /\ UNCHANGED <<crPresent, edits>>

Next ==
    \/ \E o \in Objs : EditObject(o)
    \/ \E n \in Names :
         \/ UpdateCR(n) \/ DeleteCR(n) \/ WorkerGet(n)
         \/ ReconcileNotFound(n) \/ ReconcileGetError(n) \/ ReconcileApply(n)

\* each worker goroutine keeps taking keys; a Get that keeps being
\* retried eventually succeeds (the API errors are transient)
Fairness ==
    \A n \in Names :
        /\ WF_vars(WorkerGet(n))
        /\ WF_vars(ReconcileNotFound(n) \/ ReconcileGetError(n) \/ ReconcileApply(n))
        /\ SF_vars(ReconcileNotFound(n) \/ ReconcileApply(n))

Spec == Init /\ [][Next]_vars /\ Fairness

------------------------------------------------------------------------------
(* Properties                                                               *)

==============================================================================
