--------------------------- MODULE MCProbeSystem ---------------------------
(* ProbeSystem with the default configuration, one that gates both rails,   *)
(* one that asks for voltages the regulator cannot make, and one that       *)
(* enables both outputs at no voltage.                                      *)
EXTENDS ProbeSystem

Gated == [DefaultPowerControl EXCEPT
            !.transvcc_gated_by_gnddet = TRUE, !.transvcc_gated_by_tvcc = TRUE,
            !.tvcc_output = TRUE, !.tvcc_gated_by_gnddet = TRUE,
            !.tvcc_output_mv = 2500]

Extreme == [DefaultPowerControl EXCEPT
            !.key5v_enable = FALSE, !.transvcc_default_mv = 1,
            !.tvcc_output = TRUE, !.tvcc_output_mv = 5000]

Zero == [DefaultPowerControl EXCEPT
            !.transvcc_default_mv = 0, !.tvcc_output = TRUE, !.tvcc_output_mv = 0]

FourConfigs == {DefaultPowerControl, Gated, Extreme, Zero}
=============================================================================
