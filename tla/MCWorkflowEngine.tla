-------------------------- MODULE MCWorkflowEngine --------------------------
(* Small instances of WorkflowEngine for TLC.                              *)
EXTENDS WorkflowEngine, TLC

CONSTANTS r1, r2, w1, w2, w3

\* A workflow without steps, one with two and one with three.
Counts == w1 :> 0 @@ w2 :> 2 @@ w3 :> 3

\* Every run has a workflow of its own.
Apart  == {f \in [Run -> Workflow] : f[r1] # f[r2]}
=============================================================================
