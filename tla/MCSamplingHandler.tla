-------------------------- MODULE MCSamplingHandler --------------------------
(* Finite values for the constants of SamplingHandler.                       *)
EXTENDS SamplingHandler, TLC

Config(interval, probability, maxKeys) ==
    [Interval |-> interval, Probability |-> probability, MaxKeys |-> maxKeys]

\* Every bound up to the default, unset and invalid values, and a lottery.
AllConfigs ==
    {Config(2, 0, n) : n \in -1 .. 2} \cup {Config(-1, 101, 1), Config(0, 50, 1), Config(3, 50, 2)}

\* One plain configuration, whose memory holds two keys.
TwoKeys == {Config(2, 0, 2)}

Symmetry == Permutations(Keys)
=============================================================================
