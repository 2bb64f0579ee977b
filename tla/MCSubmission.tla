---------------------------- MODULE MCSubmission ----------------------------
(* Instances of Submission for TLC: requests ra and rb, session sa. *)
EXTENDS Submission, TLC

CONSTANTS ra, rb, sa, pa, pb, pc

OneSession == [r \in {ra, rb} |-> sa]
(* Payloads pa and pb differ in their intent, pc in its text. *)
SameHash == [p \in {pa, pb, pc} |-> IF p = pc THEN 2 ELSE 1]
IntentSymmetry == Permutations({pa, pb})
OneHash == [p \in {pa} |-> 1]
OnlyRequest == [r \in {ra} |-> sa]
=============================================================================
