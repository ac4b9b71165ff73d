----------------------------- MODULE MCMenuBus -----------------------------
EXTENDS MenuBus
CONSTANTS k1, k2, p, q, none, openBus
MCKeys == {k1, k2}
MCContents == {p, q}
=============================================================================
