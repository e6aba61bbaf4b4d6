------------------------------ MODULE MCWorkflow ------------------------------
(* The sessions ask for all modes, the root for one planning mode; the     *)
(* interview is unproved or proved.                                        *)
EXTENDS WorkflowState

MCEvidences ==
  {NoEvidence, [gate |-> "complete", required |-> TRUE, contract |-> "valid"]}
MCUses == (Sessions \X Modes) \cup ({Root} \X (Modes \cap {"ralplan"}))
=============================================================================
