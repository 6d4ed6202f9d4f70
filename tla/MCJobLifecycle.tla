--------------------------- MODULE MCJobLifecycle ---------------------------
(***************************************************************************)
(* Small instances of JobLifecycle for TLC. The bounds keep apart what     *)
(* multiplies the states: decisions, crashes and faults are limited        *)
(* together. None of them is an action with fairness.                      *)
(***************************************************************************)
EXTENDS JobInvariants

CONSTANT j1

Ask(job, via, verdict, n) == [job |-> job, via |-> via, verdict |-> verdict, n |-> n]

ApproveByToken == Ask(j1, "token", "approved", 1)
ApproveById == Ask(j1, "job_id", "approved", 1)
DenyById == Ask(j1, "job_id", "denied", 1)
Decisions == {ApproveByToken, ApproveById, DenyById}
OneApproval == {ApproveByToken}

Made == {r \in Requests : req[r] # "new"}

\* two approvals, or an approval and a denial, the latter also across a crash
TwoDecisions ==
    /\ ~({ApproveById, DenyById} \subseteq Made)
    /\ ApproveById \in Made => crashes = 0
DecisionsSpec == Init /\ [][Next /\ TwoDecisions']_vars

\* two decisions on a calm day, one with a crash or a fault, none with both
Calm ==
    /\ ~({ApproveById, DenyById} \subseteq Made)
    /\ Cardinality(Made) <= 2 - (crashes + faults)
SettlesSpec == Init /\ [][Next /\ Calm']_vars /\ Fairness
=============================================================================
