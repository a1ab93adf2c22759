---------------------------- MODULE OverlayPanel ----------------------------
(***************************************************************************)
(* The overlay: the native panel that stores what is to be shown, the      *)
(* webview that shows it, and the trail the webview draws during a hold.   *)
(*                                                                         *)
(*   src-tauri/src/lib.rs          show_overlay, hide_overlay              *)
(*   src/overlay/OverlayApp.tsx    the payload and overlay:clear listeners *)
(*   src/overlay/overlayEvents.ts  subscribeToOverlayPayload               *)
(*   src/overlay/GestureLayer.tsx  the trail's loop                        *)
(*   src/native/nativeBridge.ts    the calls                               *)
(*                                                                         *)
(* Commands and the delayed order-out run on the main thread, one at a     *)
(* time; the events they emit reach the webview in order, later.  As in    *)
(* Pet, an operator takes the overlay before a call or event to the one    *)
(* after it.                                                               *)
(***************************************************************************)
EXTENDS Naturals, SequencesExt

VARIABLE overlay

Nothing == [mode |-> "none"]
Gesture == [mode |-> "gesture"]
Visual(t, boxes) == [mode |-> "visual", turn |-> t, boxes |-> boxes]

NoLayer    == [mounted |-> FALSE]
FreshLayer == [mounted |-> TRUE, hears |-> FALSE, \* its listeners are registered
               recording |-> TRUE,                \* recordingRef
               ink |-> FALSE,                     \* bufferRef holds points
               loop |-> TRUE]                     \* a frame is requested

OverlayStart ==
    [stored |-> Nothing,      \* OverlayState.current_payload
     onScreen |-> FALSE,      \* the panel is ordered in
     orderOuts |-> 0,         \* threads of hide_overlay asleep
     events |-> <<>>,         \* emitted and not yet delivered
     view |-> "loading",      \* subscribeToOverlayPayload: loading, read, live
     read |-> Nothing,        \* what get_current_overlay_payload answered
     missed |-> FALSE,        \* a payload event came in between, and none since
     shown |-> Nothing,       \* the payload in the state of OverlayApp
     layer |-> NoLayer]

-----------------------------------------------------------------------------
Emit(o, e) == [o EXCEPT !.events = Append(@, e)]

(* Slips this code could have had, for the mutation runs.                   *)

HidesInSilence(o) == [o EXCEPT !.stored = Nothing, !.orderOuts = @ + 1]
OrderOutRegardless ==
    overlay.orderOuts > 0 /\ overlay' = [overlay EXCEPT !.orderOuts = @ - 1, !.onScreen = FALSE]

-----------------------------------------------------------------------------
(* The commands.                                                            *)

\* The panel is shown after the payload is stored and before it is emitted.
ShowOverlay(o, p) ==
    Emit([o EXCEPT !.stored = p, !.onScreen = TRUE], [name |-> "update", payload |-> p])

ShowGestureOverlay(o) == ShowOverlay(o, Gesture)

\* The webview is blanked now, the panel ordered out once the blank has painted.
HideOverlay(o) ==
    Emit([o EXCEPT !.stored = Nothing, !.orderOuts = @ + 1], [name |-> "clear"])

\* ptt:recording is emitted to every webview.
EmitRecording(o, on) == Emit(o, [name |-> "recording", active |-> on])

\* The 90 ms are over: a new show in between keeps the panel.
OrderOut ==
    /\ overlay.orderOuts > 0
    /\ overlay' = [overlay EXCEPT !.orderOuts = @ - 1,
                                  !.onScreen = @ /\ overlay.stored # Nothing]

-----------------------------------------------------------------------------
(* The webview.                                                             *)

\* A new payload remounts the effect of a gesture layer: its buffer and its
\* recording flag stay, its listeners are registered anew, its loop is kicked.
LayerFor(layer, p) ==
    CASE p.mode # "gesture" -> NoLayer
      [] p.mode = "gesture" /\ ~layer.mounted -> FreshLayer
      [] OTHER -> [layer EXCEPT !.hears = FALSE, !.loop = TRUE]

SetPayload(o, p) == [o EXCEPT !.shown = p, !.layer = LayerFor(@, p)]

\* The layer's listener of ptt:recording.
OnRecording(layer, on) == [layer EXCEPT !.recording = on, !.loop = TRUE]

\* An update before the subscription is lost, a clear between the read and the
\* subscription overtaken; and lost is a recording edge that no layer listens to.
Deliver ==
    /\ overlay.events # <<>>
    /\ LET e    == Head(overlay.events)
           rest == [overlay EXCEPT !.events = Tail(@),
                                   !.missed = IF e.name = "recording" THEN @ ELSE overlay.view = "read"]
       IN overlay' =
            CASE e.name = "clear" -> SetPayload(rest, Nothing)
              [] e.name = "update" -> IF overlay.view = "live" THEN SetPayload(rest, e.payload) ELSE rest
              [] OTHER -> \* "recording"
                    IF overlay.layer.mounted /\ overlay.layer.hears
                    THEN [rest EXCEPT !.layer = OnRecording(@, e.active)] ELSE rest

\* The webview asks for the current payload, shows it, and only then subscribes.
ReadPayload ==
    /\ overlay.view = "loading"
    /\ overlay' = [overlay EXCEPT !.view = "read", !.read = overlay.stored]

Subscribe ==
    /\ overlay.view = "read"
    /\ overlay' = LET live == [overlay EXCEPT !.view = "live", !.read = Nothing]
                  IN  IF overlay.read = Nothing THEN live ELSE SetPayload(live, overlay.read)

LayerListens ==
    /\ overlay.layer.mounted /\ ~overlay.layer.hears
    /\ overlay' = [overlay EXCEPT !.layer.hears = TRUE]

\* cursor:mouse, of the layer: a recording layer keeps the point.
LayerMouse(o) ==
    IF o.layer.mounted /\ o.layer.hears /\ o.layer.recording
    THEN [o EXCEPT !.layer.ink = TRUE, !.layer.loop = TRUE] ELSE o

\* A frame finds every point too old, and asks for another only while recording.
TrailFades ==
    /\ overlay.layer.mounted /\ overlay.layer.loop
    /\ overlay.layer.ink \/ ~overlay.layer.recording
    /\ overlay' = [overlay EXCEPT !.layer.ink = FALSE, !.layer.loop = overlay.layer.recording]

OverlayOwn == OrderOut \/ Deliver \/ ReadPayload \/ Subscribe \/ LayerListens \/ TrailFades

-----------------------------------------------------------------------------
OverlayTypeOK ==
    /\ DOMAIN overlay = DOMAIN OverlayStart
    /\ \A p \in {overlay.stored, overlay.read, overlay.shown} : p.mode \in {"none", "gesture", "visual"}
    /\ {overlay.onScreen, overlay.missed} \subseteq BOOLEAN /\ overlay.orderOuts \in Nat
    /\ \A e \in ToSet(overlay.events) : e.name \in {"update", "clear", "recording"}
    /\ overlay.view \in {"loading", "read", "live"}
    /\ overlay.layer \in {NoLayer} \cup [mounted : {TRUE}, hears : BOOLEAN, recording : BOOLEAN,
                                         ink : BOOLEAN, loop : BOOLEAN]

(* A stored payload is on a panel that is ordered in: the order-out of an   *)
(* earlier hide never takes away what was shown since (lib.rs:317-336).     *)
PayloadIsOnScreen == overlay.stored # Nothing => overlay.onScreen

(* Once every event is delivered, however many were queued, the subscribed  *)
(* webview shows what the panel stores (lib.rs:312-323,                     *)
(* OverlayApp.tsx:447-486), unless the last event came in between its read  *)
(* and its subscription (overlayEvents.ts:22-29).                           *)
OverlayCatchesUp ==
    overlay.view = "live" /\ overlay.events = <<>> /\ ~overlay.missed => overlay.shown = overlay.stored
=============================================================================
