---------------------------- MODULE MCApprovals ----------------------------
(* Instances of ToolApprovals for TLC. *)
EXTENDS ToolApprovals

\* A tool that asks at first, keeps the answer and may run beside others, and one
\* that asks every time and runs alone; both want the same directory.
TwoTools == {"read", "shell"}
ThreeKeys == {"read", "shell", "dir"}
KeysOfTwo == [t \in TwoTools |-> {t, "dir"}]
=============================================================================
