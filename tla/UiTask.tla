------------------------------- MODULE UiTask -------------------------------
(***************************************************************************)
(* ui_task: the LED, every 50 ms.  It shows the signal voltage, and is     *)
(* dark for one tick when something happened since the tick before.        *)
(***************************************************************************)
EXTENDS ProbeState

VARIABLES
    led,          \* what the LED shows, in hundredths of <<red, green, blue>>
    led_blink,    \* the last tick darkened it
    last_status,  \* last_state.host_status
    moved         \* a counter of STATE differs from last_state's: a debug
                  \* command, a UART packet or an I2C command came since the tick

uiVars == <<led, led_blink, last_status, moved>>

Dark == <<0, 0, 0>>
Red == <<100, 0, 0>>

\* Green at 3.3 V, blue at 1.8 V.
Color(mv) ==
    LET green == ((mv - 1800) * 100) \div 1500
    IN  IF mv = 0 THEN Red ELSE <<0, green, 100 - green>>

UiInit == led = Dark /\ led_blink = FALSE /\ last_status = "disconnected" /\ moved = FALSE

\* CMSISDapReactor::activity, usb_uart and WrappedI2C::transaction.
Activity ==
    /\ running /\ moved' = TRUE
    /\ UNCHANGED <<running, state, led, led_blink, last_status>>

\* CMSISDapReactor::host_status.
HostStatus(status) ==
    /\ running /\ state' = [state EXCEPT !.host_status = status]
    /\ UNCHANGED <<running, led, led_blink, last_status, moved>>

BlinkAlways == TRUE
BlinkFree == ~led_blink

Tick ==
    /\ running
    /\ LET activity == moved \/ last_status # state.host_status
           blink == activity /\ BlinkFree
       IN led_blink' = blink /\ led' = IF blink THEN Dark ELSE Color(state.trans_mv)
    /\ last_status' = state.host_status /\ moved' = FALSE
    /\ UNCHANGED <<running, state>>

UiReset == led' = Dark /\ led_blink' = FALSE /\ last_status' = "disconnected" /\ moved' = FALSE

\* main spawns the task, which starts with a red LED.
UiBoot == led' = Red /\ UNCHANGED <<led_blink, last_status, moved>>

-----------------------------------------------------------------------------

\* "the led should flash, but not toggle, such that the led always returns to
\* solid": however much happens, a dark LED comes back; and with the level
\* shifters off for good it is red, again and again (ui_task).
LedTells ==
    /\ led = Dark ~> led # Dark
    /\ <>[](running /\ state.trans_mv = 0) => []<>(led = Red)
=============================================================================
