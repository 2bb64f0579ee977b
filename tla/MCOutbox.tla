------------------------------ MODULE MCOutbox ------------------------------
(* Instances of Outbox for TLC: deliveries d1 and d2, callers c1 and c2,    *)
(* and w, the task of the background worker.                                *)
EXTENDS Outbox

CONSTANTS d1, d2, c1, c2, w
=============================================================================
