---------------------------- MODULE MCSidekickNet ----------------------------
EXTENDS SidekickNet
CONSTANTS prg, crt, k1, none, noFile, page, local, garbage
=============================================================================
