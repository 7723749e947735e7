--------------------------- MODULE MCEventDelivery ---------------------------
(* Small instances of EventDelivery for TLC. *)
EXTENDS EventDelivery

CONSTANTS d1, d2

OneDrainer == {d1}
TwoDrainers == {d1, d2}

\* A Run that asks for attention and then succeeds, or is lost at any time.
AttentionKindsUsed == {"starting", "started", "attention", "succeeded", "lost"}

\* The shortest complete Runs: lost before or after starting.
LostKindsUsed == {"starting", "lost"}

==============================================================================
