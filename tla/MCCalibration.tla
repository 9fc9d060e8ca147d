--------------------------- MODULE MCCalibration ----------------------------
(* Full = 2: an offset of 2 is in range with a scale of 1 only.             *)
EXTENDS Calibration

MCSettable(f) ==
    CASE f = <<"dac_fs", 1>>     -> {2}
      [] f = <<"dac_offs", 0>>   -> {1}
      [] f = <<"dac_offs", 1>>   -> {1, 2}
      [] f = <<"dac_upper", 1>>  -> {1}
      [] f = <<"adc_offs", 1>>   -> {3}
      [] OTHER                   -> {}

\* between any two of the fields that are set
MCWrites == {Nothing, -1, 0, 4, 6, 7, 8, Whole}

\* with the flags but not the offset of the second channel
MCReads == {Nothing, 7, Whole}
=============================================================================
