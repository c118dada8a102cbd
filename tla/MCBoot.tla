--------------------------------- MODULE MCBoot ---------------------------------
EXTENDS Boot
\* The longer name does not fit the shorter one's file.
MCNameLen == [ed |-> 2, sue |-> 3]
=============================================================================
