---------------------------- MODULE ProbeSystem ----------------------------
(***************************************************************************)
(* The tasks that run beside the debug port, on one STATE: the power task, *)
(* the LED, and the handlers that store a configuration (ConfigStore, here *)
(* by what they do to STATE), report the host's status and count activity. *)
(* The probe may be reset at any moment.                                   *)
(***************************************************************************)
EXTENDS PowerTask, UiTask

CONSTANT Configs    \* the configurations the host stores

ASSUME ConfigAssumption == DefaultPowerControl \in Configs /\ Configs \subseteq PowerControls

vars == <<running, state, powerVars, uiVars>>

Init ==
    /\ running = FALSE /\ state = NewState(DefaultPowerControl)
    /\ PowerInit /\ UiInit

\* store_power_control's send_modify.
PowerConfigStored(config) ==
    /\ running /\ state' = [state EXCEPT !.power_config = config]
    /\ UNCHANGED <<running, powerVars, uiVars>>

Reset ==
    /\ running /\ running' = FALSE
    /\ state' = NewState(DefaultPowerControl)
    /\ PowerReset /\ UiReset

Boot ==
    /\ ~running /\ running' = TRUE
    /\ \E config \in Configs : state' = NewState(config)
    /\ UiBoot /\ UNCHANGED powerVars

PowerNext == PowerStep /\ UNCHANGED uiVars
UiNext == Tick /\ UNCHANGED powerVars

Next ==
    \/ PowerNext
    \/ UiNext
    \/ GroundChanges /\ UNCHANGED uiVars
    \/ (Activity \/ \E s \in HostStatuses : HostStatus(s)) /\ UNCHANGED powerVars
    \/ \E config \in Configs : PowerConfigStored(config)
    \/ Reset
    \/ Boot

\* The executor polls every task whose timer has run out: the power task awaits
\* timers and the ADC, the LED a ticker, and a boot nothing at all.
Spec == Init /\ [][Next]_vars /\ WF_vars(PowerNext) /\ WF_vars(UiNext) /\ WF_vars(Boot)

-----------------------------------------------------------------------------

\* What the host stored last governs the rails: with the ground gone for good,
\* the configuration's supply is on the target's rail, as near as the regulator
\* gets to it, and off where the ground gates it or the configuration asks for no
\* voltage; and the level shifters are off if they are gated.  All this even if an
\* iteration was under way that had sampled the ground, or an older configuration,
\* and enabled a rail afterwards (power_task, set_voltage_mv_b).
ConfigGovernsRails ==
    \A config \in Configs :
        <>[](running /\ ~gnd /\ state.power_config = config)
            => <>[](/\ key5v = config.key5v_enable
                    /\ rails["b"] = IF \/ ~config.tvcc_output \/ config.tvcc_gated_by_gnddet
                                       \/ config.tvcc_output_mv = 0
                                    THEN 0 ELSE DutyMv(config.tvcc_output_mv)
                    /\ config.transvcc_gated_by_gnddet => rails["a"] = 0)
=============================================================================
