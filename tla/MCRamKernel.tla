----------------------------- MODULE MCRamKernel -----------------------------
EXTENDS RamKernel

\* sizes around the pages of 3 bytes, on both sides of the BASIC ROM at 23 and
\* of the I/O area from 26 to 29; the memory ends at 34, and the system area and
\* the loader are below 7
MCPrograms ==
  {p \in [start : {7, 14, 21, 22, 23, 24, 30}, size : {3, 5, 7, 8, 10, 12, 17, 29}] :
     p.start + p.size - 2 <= 34}
=============================================================================
