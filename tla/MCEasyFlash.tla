----------------------------- MODULE MCEasyFlash -----------------------------
EXTENDS EasyFlash
MCPackets == << <<0, "L">>, <<3, "H">> >>
=============================================================================
