------------------------------- MODULE MCExchanges -------------------------------
EXTENDS Exchanges
\* Two servers with one address each.
MCServerOf == [near |-> "s1", far |-> "s2"]
=============================================================================
