--------------------------- MODULE MCConfigStore ---------------------------
(* ConfigStore with the default configuration and one that is far from it. *)
EXTENDS ConfigStore

Gated == [DefaultPowerControl EXCEPT
            !.transvcc_gated_by_gnddet = TRUE, !.tvcc_output = TRUE, !.tvcc_output_mv = 1800]

TwoConfigs == {DefaultPowerControl, Gated}
=============================================================================
