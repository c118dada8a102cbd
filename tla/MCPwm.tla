---------------------------------- MODULE MCPwm ----------------------------------
EXTENDS Pwm, TLC
Symmetry == Permutations(Char)
=============================================================================
