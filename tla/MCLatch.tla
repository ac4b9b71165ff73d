------------------------------- MODULE MCLatch -------------------------------
EXTENDS Latch

\* SDA repeats within a frame, and changes within one and from one to the next
MCFrames == {<<TRUE, TRUE>>, <<FALSE, TRUE>>}
=============================================================================
