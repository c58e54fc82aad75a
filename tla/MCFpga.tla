------------------------------- MODULE MCFpga -------------------------------
EXTENDS Fpga, TLC

\* Neither the places of a kind nor the memories are told apart
MCSymmetry == UNION {Permutations(S) : S \in {InputBuffer, InputOutputBuffer, Memories}}
=============================================================================
