---------------------- MODULE MC_EventAuditRefinement ----------------------
(* Instance of EventAuditRefinement for TLC.                               *)
EXTENDS EventAuditRefinement

MCMessages ==
    {[form |-> "event", id |-> "e1", content |-> "c1"],
     [form |-> "badPayload", id |-> "e1", content |-> "c1"]}
=============================================================================
