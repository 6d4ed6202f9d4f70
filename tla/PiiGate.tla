------------------------------ MODULE PiiGate -------------------------------
(***************************************************************************)
(* What the submission, scan and approval path promises of each document,  *)
(* without tasks, queues, locks or clocks: nothing is published of a       *)
(* document until its gate is open; the gate opens at once when the        *)
(* submitter asks to skip the scan, after a clean scan, or after a scan    *)
(* with findings and then an approval; an open gate never closes again.    *)
(***************************************************************************)
CONSTANTS Jobs, Objects

VARIABLES
    gate,       \* "absent", "unscanned", "held" (findings, no approval) or "open"
    published   \* what the results bucket holds of each document

Init ==
    /\ gate = [j \in Jobs |-> "absent"]
    /\ published = [j \in Jobs |-> {}]

Turn(j, before, after) ==
    /\ gate[j] = before
    /\ gate' = [gate EXCEPT ![j] = after]
    /\ UNCHANGED published

Accept(j) == Turn(j, "absent", "unscanned")
Pass(j) == Turn(j, "unscanned", "open")
Hold(j) == Turn(j, "unscanned", "held")
Approve(j) == Turn(j, "held", "open")

Publish(j) ==
    /\ gate[j] = "open"
    /\ \E object \in Objects :
          published' = [published EXCEPT ![j] = @ \cup {object}]
    /\ UNCHANGED gate

Next == \E j \in Jobs : \/ Accept(j) \/ Pass(j) \/ Hold(j) \/ Approve(j) \/ Publish(j)

Spec == Init /\ [][Next]_<<gate, published>>
=============================================================================
