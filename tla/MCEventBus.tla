------------------------------ MODULE MCEventBus ------------------------------
(* EventBus on small instances. *)
EXTENDS EventBus
\* The second event passes every filter, the others pass none that is set.
ImportantEvents == {2}
=============================================================================
