-------------------------- MODULE MC_EventAudit --------------------------
(* Instances of EventAudit for TLC.                                       *)
EXTENDS EventAudit

Event(id, content) == [form |-> "event", id |-> id, content |-> content]

\* One event, a reuse of its event_id, an envelope of that id whose payload
\* is refused, and bytes that are no envelope.
MCMessages ==
    {Event("e1", "c1"), Event("e1", "c2"),
     [form |-> "badPayload", id |-> "e1", content |-> "c1"],
     [form |-> "garbage", id |-> "e2", content |-> "c1"]}

\* One event and one envelope-less message.
MCOne == {Event("e1", "c1"), [form |-> "garbage", id |-> "e2", content |-> "c1"]}
=============================================================================
