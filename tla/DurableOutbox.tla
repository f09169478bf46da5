--------------------------- MODULE DurableOutbox ---------------------------
(***************************************************************************)
(* What the persistent outbound queue promises to the application: a       *)
(* message put in the box stays there, whatever happens to the process,    *)
(* until it was handed to the network or the box gave it up.               *)
(*                                                                         *)
(* Stops, restarts and crashes do not appear: they must not change the box.*)
(***************************************************************************)
CONSTANT Msg            \* the messages the application may send

VARIABLES
  accepted,   \* messages ever put in the box
  box,        \* messages the box holds
  handed,     \* messages handed to the network at least once
  failed      \* messages reported as failed

boxVars == <<accepted, box, handed, failed>>

BoxInit ==
  /\ accepted = {}
  /\ box = {}
  /\ handed = {}
  /\ failed = {}

\* A message is accepted once, and is durable from that moment on.
Put(m) ==
  /\ m \notin accepted
  /\ accepted' = accepted \cup {m}
  /\ box' = box \cup {m}
  /\ UNCHANGED <<handed, failed>>

\* The network takes a message: accepted ones, and those sent at once that
\* never enter the box.  It may take a message again (at least once).
HandOver(m) ==
  /\ handed' = handed \cup {m}
  /\ UNCHANGED <<accepted, box, failed>>

\* Only a message the network took leaves the box.
Discard(m) ==
  /\ m \in box \cap handed
  /\ box' = box \ {m}
  /\ UNCHANGED <<accepted, handed, failed>>

\* Otherwise the box gives messages up, and says so in the same step.
GiveUp(S) ==
  /\ S # {} /\ S \subseteq box
  /\ box' = box \ S
  /\ failed' = failed \cup S
  /\ UNCHANGED <<accepted, handed>>

BoxNext ==
  \/ \E m \in Msg : Put(m) \/ HandOver(m) \/ Discard(m)
  \/ \E S \in SUBSET Msg : GiveUp(S)

BoxSpec == BoxInit /\ [][BoxNext]_boxVars
=============================================================================
