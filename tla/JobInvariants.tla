--------------------------- MODULE JobInvariants ----------------------------
(***************************************************************************)
(* Inductive strengthenings of the safety properties of JobLifecycle: what *)
(* JobLifecycle_proofs proves, and the runs check first on small instances.*)
(***************************************************************************)
EXTENDS JobLifecycle

(* Why OnlyClearedIsConverted holds. The worker's position in its routing  *)
(* and everything reviewers can see or hold agree with the findings ...    *)
ScanAgrees ==
    \A j \in Jobs :
        /\ findings[j] = "pii" => j \in PiiDocs
        /\ findings[j] = "clean" => j \notin PiiDocs
        /\ scan[j] \in {"publish", "track", "map"} => findings[j] = "pii"
        /\ scan[j] \in {"clear", "launch"} => findings[j] = "clean"
        /\ j \in mapped \/ status[j] = "awaiting_approval" => findings[j] = "pii"

(* ... and a decision is past its validation only for a flagged document,  *)
(* in its background task only when its write was made.                    *)
RequestAgrees ==
    \A r \in Requests :
        /\ req[r] = "quick" => findings[r.job] = "pii"
        /\ req[r] \in {"untrack", "lock", "check", "update"} => r \in accepted
        /\ req[r] \in {"lock", "check", "update"} => r.verdict = "approved"
        /\ req[r] \in {"clean", "record"} => r \in accepted /\ r.verdict = "denied"

GateInv == ScanAgrees /\ RequestAgrees /\ OnlyClearedIsConverted

(* Why CompletedHasResult holds: a task is past a store only when the      *)
(* object is in the bucket, and nothing takes it out.                      *)
ResultInv ==
    /\ \A t \in Runs : /\ run[t] = "ledger" => "markdown" \in result[t.job]
                       /\ run[t] = "finish" => result[t.job] = {"markdown", "ledger"}
    /\ CompletedHasResult

(* Why StartsAreLicensed holds: a status that lets an approval start the   *)
(* pipeline still has its licence, and at most one task per job is between *)
(* taking and releasing the lock, with the key in place.                   *)
LockInv ==
    /\ \A j \in Jobs : status[j] \in {"processing_queued", "awaiting_approval"} => j \in licence
    /\ \A r \in Requests : Holding(r) /\ r.job \notin lapsed => r.job \in locks
    /\ \A r, q \in Requests :
          r.job = q.job /\ Holding(r) /\ Holding(q) /\ r.job \notin lapsed => r = q
    /\ StartsAreLicensed

(* Why SourceIsKept holds: an upload is gone only after a denial or past   *)
(* the age of the sweeps.                                                  *)
SourceInv ==
    /\ \A j \in Jobs : submit[j] # "none" /\ j \notin temp => Denied(j) \/ age[j] >= StuckAge
    /\ \A j \in Jobs : duty = "stuck" /\ hand[j] = "fail" => age[j] >= StuckAge
    /\ duty = "idle" => HandsFree
    /\ \A j \in Jobs : scan[j] # "none" \/ findings[j] # "unknown" => submit[j] # "none"
    /\ \A i \in 1..Len(piiQueue) : submit[piiQueue[i]] # "none"
    /\ \A t \in Runs : run[t] # "none" => submit[t.job] # "none"

(* Why AwaitingIsTracked and DecisionStands hold. A job comes to the       *)
(* worker once: while its scan has still to publish, nobody tracks it, can *)
(* see its token or has decided on it, ...                                 *)
ComesOnce ==
    /\ \A j \in Jobs : scan[j] # "none" => submit[j] = "done"
    /\ \A i \in 1..Len(piiQueue) : /\ submit[piiQueue[i]] = "done"
                                   /\ scan[piiQueue[i]] = "none"
    /\ \A i, k \in 1..Len(piiQueue) : piiQueue[i] = piiQueue[k] => i = k

Unpublished(j) ==
    \/ submit[j] \in {"none", "stored", "created"}
    \/ \E i \in 1..Len(piiQueue) : piiQueue[i] = j
    \/ scan[j] \in {"mark", "download", "publish"}

UnpublishedIsUnseen ==
    \A j \in Jobs :
        Unpublished(j) /\ j \notin disturbed
        => /\ j \notin mapped /\ j \notin tracked
           /\ status[j] # "awaiting_approval"
           /\ duty = "approvals" => hand[j] = "none" /\ j \notin todo
           /\ \A r \in Requests : r.job = j => req[r] = "new"

(* ... and who takes a job off the deadline list has moved it on before.   *)
UntrackedIsDecided ==
    /\ \A r \in accepted : req[r] \notin {"new", "quick"}
    /\ \A r \in Requests : req[r] = "untrack" /\ r.job \notin disturbed
                            => status[r.job] # "awaiting_approval"
    /\ \A j \in Jobs : hand[j] \in {"drop", "untrack"}
                        => /\ duty = "approvals"
                           /\ j \notin disturbed => status[j] # "awaiting_approval"
    /\ duty = "idle" => HandsFree /\ todo = {}

TrackInv == UnpublishedIsUnseen /\ UntrackedIsDecided /\ AwaitingIsTracked

(* All of it, as the proofs use it.                                        *)
SafetyInv == GateInv /\ ResultInv /\ LockInv /\ SourceInv /\ ComesOnce /\ TrackInv
=============================================================================
