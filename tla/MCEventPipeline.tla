-------------------------- MODULE MCEventPipeline --------------------------
(* Model values and bounds for the checks of EventPipeline.                *)
EXTENDS EventPipeline, TLC

CONSTANTS m1, m2, m3, m4

\* One receiver of each kind, the data receiver twice.
Kinds == m1 :> "data" @@ m2 :> "data" @@ m3 :> "group" @@ m4 :> "resource"

\* Two messages and a log line fit a buffer of five, three messages do not.
Sizes == [m \in Msg |-> 2]
=============================================================================
