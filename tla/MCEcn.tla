-------------------------------- MODULE MCEcn -------------------------------
(* Ecn for TLC, with the constants of switch_config.h.                     *)
EXTENDS Ecn

\* Both sides of every kind of boundary, and sums around the wrap.
MCDepths ==
  {0, K_MIN - 1, K_MIN, K_MIN + 1, K_MIN + STEPSIZE, K_MIN + STEPSIZE + 1,
   K_MIN + 49 * STEPSIZE, K_MIN + 50 * STEPSIZE, K_MAX + 1, QDEPTH_MAX - 1}
MCSums == {1, 65532, 65533, 65534, 65535}
MCRandoms == {0, 1, 48, 49, 50, 254, 255}
=============================================================================
