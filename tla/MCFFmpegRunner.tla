--------------------------- MODULE MCFFmpegRunner ----------------------------
(***************************************************************************)
(* FFmpegRunner for TLC: output times before the start, within and past a  *)
(* duration of two milliseconds.                                           *)
(***************************************************************************)
EXTENDS FFmpegRunner

MCOutTimes == {-1, 0, 1000, 3000}

=============================================================================
