----------------------------- MODULE TeleopPanel -----------------------------
(***************************************************************************)
(* The jog controls of the control station: the pad of TeleopPanel under   *)
(* the mouse, the direction keys it watches in the whole window, and       *)
(* MainWindow, which enables and disables it as the connection and the     *)
(* E-stop change.                                                          *)
(*                                                                         *)
(* The panel hears of a key only while it is enabled, its page is shown,   *)
(* no text field has the focus and the window is active; the hand on the   *)
(* keyboard does not know.  While a control drives, its velocity goes out  *)
(* 20 times a second; otherwise nothing does.                              *)
(***************************************************************************)

CONSTANTS
    Directions,
    None          \* no control

ASSUME PanelConstants == None \notin Directions

VARIABLES
    enabled,      \* TeleopPanel: enabled_
    heldKey,      \* TeleopPanel: heldKey_
    driving,      \* TeleopPanel: where vx_, vy_, wz_ come from while timer_ runs
    pad,          \* the pad button that is down
    keys,         \* the keys a hand is on
    visible,      \* the panel's page is shown
    typing,       \* a text field has the focus
    active,       \* the station's window has the keyboard
    connected,    \* BridgeClient: the general link is up
    reported,     \* BridgeClient: telemetry_.estop
    shown,        \* MainWindow: estop_->isEngaged()
    unheard,      \* history: controls the hand let go of without the panel's hearing of it
    clicked       \* history: an E-stop was asked for since the panel was enabled

panel == <<enabled, heldKey, driving, pad>>
window == <<visible, typing, active>>
station == <<connected, reported, shown>>
history == <<unheard, clicked>>
jogVars == <<panel, keys, window, station, history>>

Control(by, d) == [by |-> by, dir |-> d]
Idle == Control("none", None)
Held == {Control("key", d) : d \in keys} \cup {Control("pad", d) : d \in {pad} \ {None}}

-----------------------------------------------------------------------------
(* TeleopPanel.                                                            *)

Press(by, d) == driving' = Control(by, d)

Release == driving' = Idle

\* A pad button that is down is let go of by being disabled.
SetJogEnabled(on) ==
    /\ enabled' = on
    /\ IF on THEN UNCHANGED <<driving, pad>> ELSE Release /\ pad' = None
    /\ UNCHANGED heldKey

Hears == enabled /\ ~typing /\ visible /\ active

\* Wrong variant: a second key is not taken down while the first is held.
HearKeyDownOnce(d) ==
    /\ heldKey' = IF heldKey = None THEN d ELSE heldKey
    /\ Press("key", d)
    /\ unheard' = unheard \ {Control("key", d)}

HearKeyDown(d) == heldKey' = d /\ Press("key", d) /\ unheard' = unheard \ {Control("key", d)}

KeyDown(d) ==
    /\ d \notin keys /\ keys' = keys \cup {d}
    /\ IF Hears THEN HearKeyDown(d) ELSE UNCHANGED <<heldKey, driving, unheard>>
    /\ UNCHANGED <<enabled, pad, window, station, clicked>>

\* The release of a key another one has taken over from stops nothing.  The key's button
\* is put up either way, and is not released again when the mouse lets go of it.
HearKeyUp(d) ==
    /\ IF heldKey = d THEN heldKey' = None /\ Release ELSE UNCHANGED <<heldKey, driving>>
    /\ pad' = IF pad = d THEN None ELSE pad
    /\ unheard' = (unheard \ {Control("key", d)})
                     \cup {Control("pad", p) : p \in {pad} \cap {d}}

KeyUp(d) ==
    /\ d \in keys /\ keys' = keys \ {d}
    /\ IF Hears THEN HearKeyUp(d)
       ELSE unheard' = unheard \cup {Control("key", d)} /\ UNCHANGED <<heldKey, driving, pad>>
    /\ UNCHANGED <<enabled, window, station, clicked>>

Space ==
    /\ Hears
    /\ heldKey' = None /\ Release
    /\ UNCHANGED <<enabled, pad, keys, window, station, history>>

\* The mouse is on the page; the pad takes the focus.
PadDown(d) ==
    /\ enabled /\ visible /\ active /\ pad = None
    /\ pad' = d /\ Press("pad", d) /\ typing' = FALSE
    /\ unheard' = unheard \ {Control("pad", d)}
    /\ UNCHANGED <<enabled, heldKey, keys, visible, active, station, clicked>>

\* The button is released, or loses the focus.
PadUp ==
    /\ pad # None /\ pad' = None /\ Release
    /\ UNCHANGED <<enabled, heldKey, keys, window, station, history>>

\* The stop button is never disabled.
Stop ==
    /\ visible /\ active /\ pad = None
    /\ Release /\ typing' = FALSE
    /\ UNCHANGED <<enabled, heldKey, pad, keys, visible, active, station, history>>

-----------------------------------------------------------------------------
(* The operator's window.  What takes the page or the focus from a pad     *)
(* button the mouse holds releases it first: PadUp.  A button that is down *)
(* because of a key may have the focus, and is released when it loses it.  *)

FocusLost == pad = None /\ (UNCHANGED driving \/ Release)

ShowView(isBase) ==
    /\ active /\ FocusLost
    /\ visible' = isBase /\ typing' = FALSE
    /\ UNCHANGED <<enabled, heldKey, pad, keys, active, station, history>>

FocusMoves(toText) ==
    /\ active /\ FocusLost
    /\ typing' = toText
    /\ UNCHANGED <<enabled, heldKey, pad, keys, visible, active, station, history>>

WindowChanges(isActive) ==
    /\ FocusLost
    /\ active' = isActive
    /\ UNCHANGED <<enabled, heldKey, pad, keys, visible, typing, station, history>>

-----------------------------------------------------------------------------
(* MainWindow.                                                             *)

\* setJogEnabled as MainWindow calls it but for a click on the E-stop.
Allow(on) == SetJogEnabled(on) /\ clicked' = (clicked /\ ~on)

\* Wrong variant: the E-stop that is shown does not keep the panel disabled.
ConnectedOverEstop ==
    /\ ~connected /\ connected' = TRUE
    /\ Allow(TRUE)
    /\ UNCHANGED <<keys, window, reported, shown, unheard>>

\* Wrong variant: what the loss disabled stays disabled.
ConnectedWithoutJog ==
    /\ ~connected /\ connected' = TRUE
    /\ UNCHANGED <<panel, keys, window, reported, shown, history>>

\* connectionChanged(true).
OnConnected ==
    /\ ~connected /\ connected' = TRUE
    /\ IF shown THEN UNCHANGED <<panel, clicked>> ELSE Allow(TRUE)
    /\ UNCHANGED <<keys, window, reported, shown, unheard>>

\* connectionChanged(false), and the removal of the last robot.
OnDisconnected ==
    /\ connected /\ connected' = FALSE
    /\ Allow(FALSE)
    /\ UNCHANGED <<keys, window, reported, shown, unheard>>

\* state/safety.
OnSafety(estop) ==
    /\ connected /\ reported' = estop
    /\ UNCHANGED <<panel, keys, window, connected, shown, history>>

\* The client's state, twenty times a second, connected or not.
OnTelemetry ==
    /\ shown # reported /\ shown' = reported
    /\ IF reported THEN Allow(FALSE)
       ELSE IF connected THEN Allow(TRUE) ELSE UNCHANGED <<panel, clicked>>
    /\ UNCHANGED <<keys, window, connected, reported, unheard>>

\* The click disables at once; only the robot's word is shown as an E-stop.
EngageEstop ==
    /\ ~shown
    /\ SetJogEnabled(FALSE) /\ clicked' = TRUE
    /\ UNCHANGED <<keys, window, station, unheard>>

\* Manual mode, chosen with a connection, leads to the page of the panel.
SetMode(isAuto) ==
    /\ ~shown
    /\ Allow(connected)
    /\ IF connected /\ ~isAuto THEN visible' = TRUE ELSE UNCHANGED visible
    /\ UNCHANGED <<keys, typing, active, station, unheard>>

-----------------------------------------------------------------------------
JogInit ==
    /\ enabled = FALSE /\ heldKey = None /\ driving = Idle /\ pad = None
    /\ keys = {}
    /\ visible = FALSE /\ typing = FALSE /\ active = TRUE
    /\ connected = FALSE /\ reported = FALSE /\ shown = FALSE
    /\ unheard = {} /\ clicked = FALSE

JogNext ==
    \/ \E d \in Directions : KeyDown(d) \/ KeyUp(d) \/ PadDown(d)
    \/ Space \/ PadUp \/ Stop
    \/ \E on \in BOOLEAN : ShowView(on) \/ FocusMoves(on) \/ WindowChanges(on)
    \/ OnConnected \/ OnDisconnected \/ OnTelemetry \/ EngageEstop
    \/ \E on \in BOOLEAN : OnSafety(on) \/ SetMode(on)

JogSpec == JogInit /\ [][JogNext]_jogVars

-----------------------------------------------------------------------------
(* Properties.                                                             *)

\* A control that drives is held, or was let go of without the panel's hearing of it: keys
\* and pad may overlap and be let go of in any order.
HeldOrUnheard == driving \in Held \cup unheard \cup {Idle}

\* "The controls are disabled while the link is down or the emergency stop is engaged":
\* nothing drives without a connection or under an E-stop the station shows, in whatever
\* order the connection, the robot's state, the mode and the operator change.
JogUnderControl == driving # Idle => connected /\ ~shown

\* Unless what the loss of the connection locked is unlocked again, "the robot is there and
\* only the jog is dead": with a connection and no E-stop shown the controls are live,
\* unless the operator has asked for an E-stop since.
JogReturns == connected /\ ~shown => enabled \/ clicked

\* "Publishing happens only while a button is held", and "the hold-to-move rule cannot be
\* bypassed by using keys instead": a key that drives is down.
HoldToMove == driving.by = "key" => driving.dir \in keys
=============================================================================
