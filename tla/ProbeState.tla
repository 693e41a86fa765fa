----------------------------- MODULE ProbeState -----------------------------
(***************************************************************************)
(* What the tasks of the probe share: the STATE watch of cmsis_dap.rs and  *)
(* the power configuration in it (field.rs).  A task reads a copy of STATE *)
(* and changes fields of it with send_modify, in one step.  The counters   *)
(* that say that something happened are with the task that reads them.     *)
(***************************************************************************)
EXTENDS Integers

VARIABLES
    running,    \* the tasks are spawned: FALSE from a reset to the end of the boot
    state       \* STATE

\* field::OwnedPowerControl, without its encoding.
PowerControls == [key5v_enable : BOOLEAN, transvcc_follows_tvcc : BOOLEAN,
                  transvcc_gated_by_gnddet : BOOLEAN, transvcc_gated_by_tvcc : BOOLEAN,
                  transvcc_default_mv : Nat, tvcc_output : BOOLEAN,
                  tvcc_gated_by_gnddet : BOOLEAN, tvcc_output_mv : Nat]

DefaultPowerControl ==
    [key5v_enable |-> TRUE, transvcc_follows_tvcc |-> TRUE,
     transvcc_gated_by_gnddet |-> FALSE, transvcc_gated_by_tvcc |-> FALSE,
     transvcc_default_mv |-> 3300, tvcc_output |-> FALSE,
     tvcc_gated_by_gnddet |-> FALSE, tvcc_output_mv |-> 0]

HostStatuses == {"disconnected", "connected", "running"}

States == [host_status : HostStatuses, gnd_detect : BOOLEAN, trans_mv : Nat,
           tvcc_mv : Nat, power_config : PowerControls]

\* State::new, with the configuration the boot found.
NewState(power_config) ==
    [host_status |-> "disconnected", gnd_detect |-> FALSE, trans_mv |-> 0,
     tvcc_mv |-> 0, power_config |-> power_config]
=============================================================================
