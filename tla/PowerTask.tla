------------------------------ MODULE PowerTask ------------------------------
(***************************************************************************)
(* power_task: the target's supply (rail b) and the level shifters' (rail  *)
(* a, the signal voltage), from the configuration, the ground detection    *)
(* and the measured target voltage.  It is a loop with an await before     *)
(* each rail that is switched on and one for the ADC: whatever it sampled  *)
(* may have changed when it goes on.                                       *)
(***************************************************************************)
EXTENDS ProbeState

CONSTANT MeasuredMv    \* what the ADC reads at the TVCC pin

ASSUME PowerAssumption == MeasuredMv \subseteq Nat

MIN_TVCC == 1600
MinMv == 1800          \* pwm_vreg::Config of both rails
MaxMv == 3300

VARIABLES
    power,     \* the task: its next step, and what it sampled in this iteration
    rails,     \* millivolts at the outputs, 0 when disabled
    key5v,     \* the 5 V output is enabled
    gnd        \* the ground detection pin

powerVars == <<power, rails, key5v, gnd>>

Sampled(pc, config, gnddet, tvcc_mv) ==
    [pc |-> pc, config |-> config, gnddet |-> gnddet, tvcc_mv |-> tvcc_mv]

Unsampled == Sampled("sample", DefaultPowerControl, FALSE, 0)

PowerInit ==
    /\ power = Unsampled
    /\ rails = [r \in {"a", "b"} |-> 0] /\ key5v = FALSE
    /\ gnd \in BOOLEAN

\* duty_count: what the regulator can make of a voltage.
DutyUnclamped(mv) == mv
DutyMv(mv) == IF mv > MaxMv THEN MaxMv ELSE IF mv < MinMv THEN MinMv ELSE mv

\* set_voltage_mv_*: off at once; a rail that is on changes at once, one that is
\* off is enabled when the regulator has settled.
SetRail(rail, mv) ==
    rails' = [rails EXCEPT ![rail] =
        IF mv = 0 \/ @ = 0 THEN 0 ELSE DutyMv(mv)]

TvccMvUngated(config, gnddet) == IF config.tvcc_output THEN config.tvcc_output_mv ELSE 0
TvccMv(config, gnddet) ==
    IF ~config.tvcc_output \/ (config.tvcc_gated_by_gnddet /\ ~gnddet) THEN 0
    ELSE config.tvcc_output_mv

TransGated(p, tvcc_mv) ==
    \/ p.config.transvcc_gated_by_gnddet /\ ~p.gnddet
    \/ p.config.transvcc_gated_by_tvcc /\ tvcc_mv < MIN_TVCC

TransMv(p, tvcc_mv) ==
    IF TransGated(p, tvcc_mv) THEN 0
    ELSE IF p.config.transvcc_follows_tvcc /\ tvcc_mv >= MIN_TVCC THEN tvcc_mv
    ELSE p.config.transvcc_default_mv

Sample ==
    /\ running /\ power.pc = "sample"
    /\ LET mv == TvccMv(state.power_config, gnd)
       IN /\ SetRail("b", mv)
          /\ power' = Sampled(IF mv = 0 THEN "sweep" ELSE "settle_b",
                              state.power_config, gnd, 0)
    /\ UNCHANGED <<running, state, key5v, gnd>>

EnableB ==
    /\ running /\ power.pc = "settle_b"
    /\ rails' = [rails EXCEPT !["b"] = DutyMv(TvccMv(power.config, power.gnddet))]
    /\ power' = [power EXCEPT !.pc = "sweep"]
    /\ UNCHANGED <<running, state, key5v, gnd>>

\* The end of an iteration: the key output, and what the others see.
Publish(trans_mv, tvcc_mv) ==
    /\ key5v' = power.config.key5v_enable
    /\ state' = [state EXCEPT !.gnd_detect = power.gnddet, !.trans_mv = trans_mv,
                              !.tvcc_mv = tvcc_mv]
    /\ power' = Unsampled

Sweep(tvcc_mv) ==
    /\ running /\ power.pc = "sweep"
    /\ LET mv == TransMv(power, tvcc_mv)
       IN /\ SetRail("a", mv)
          /\ IF mv = 0
             THEN Publish(0, tvcc_mv)
             ELSE /\ power' = [power EXCEPT !.pc = "settle_a", !.tvcc_mv = tvcc_mv]
                  /\ UNCHANGED <<state, key5v>>
    /\ UNCHANGED <<running, gnd>>

EnableA ==
    /\ running /\ power.pc = "settle_a"
    /\ LET mv == DutyMv(TransMv(power, power.tvcc_mv))
       IN rails' = [rails EXCEPT !["a"] = mv] /\ Publish(mv, power.tvcc_mv)
    /\ UNCHANGED <<running, gnd>>

\* The pin follows the target, at any time.
GroundChanges ==
    /\ gnd' = ~gnd
    /\ UNCHANGED <<running, state, power, rails, key5v>>

PowerStep == Sample \/ EnableB \/ (\E mv \in MeasuredMv : Sweep(mv)) \/ EnableA

\* A reset takes the pins back to inputs: nothing is enabled.
PowerReset ==
    /\ power' = Unsampled /\ rails' = [r \in {"a", "b"} |-> 0] /\ key5v' = FALSE
    /\ UNCHANGED gnd

-----------------------------------------------------------------------------

\* What power_task publishes as the signal voltage is 0 or in the range the LED
\* arithmetic of ui_task relies on: it subtracts 1800 from it, and stores a
\* hundredth of fifteen times the rest in a byte.  And it is what is on the rail,
\* whatever the host stored and the ADC reads, until an iteration sets it anew.
SignalInRange ==
    /\ state.trans_mv = 0 \/ state.trans_mv \in MinMv..MaxMv
    /\ power.pc = "sample" => state.trans_mv = rails["a"]
=============================================================================
