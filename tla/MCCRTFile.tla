------------------------------ MODULE MCCRTFile ------------------------------
EXTENDS CRTFile

\* 8 kB at $8000 and $A000, and 16 kB; also others in what is only read
MCShapes ==
  [t \in {EasyFlash, LowOnly, Plain} |->
     CASE t = EasyFlash -> {<<8, 2>>, <<8, 4>>, <<10, 2>>}
       [] t = LowOnly -> {<<8, 2>>, <<10, 2>>, <<8, 1>>}
       [] t = Plain -> {<<8, 1>>, <<8, 2>>, <<8, 4>>, <<14, 2>>, <<15, 1>>, <<11, 1>>}]
=============================================================================
