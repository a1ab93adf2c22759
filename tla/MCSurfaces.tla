----------------------------- MODULE MCSurfaces -----------------------------
\* Surfaces for TLC.
EXTENDS Surfaces

\* Holds, turns and what stirs the pet carry no fairness, so this only leaves
\* behaviours out: the pet is stirred in those of holds alone and of turns alone,
\* and no more than one hold, or the turn, begins before the overlay's webview has subscribed.
StirsApart ==
    /\ stirs > 0 => holds = 0 \/ turn = 0
    /\ overlay.view # "live" => holds + turn <= 1 /\ stirs = 0
=============================================================================
