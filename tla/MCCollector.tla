---------------------------- MODULE MCCollector ----------------------------
EXTENDS Collector

\* Lines below the buffer of the writer, and some that exceed it.
RotatedSizes == <<2, 2, 3, 2, 2, 2, 3, 2, 2, 2, 3, 2>>
ShortSizes == <<1, 1, 1, 1, 2, 1, 2>>

NoFaults == {}
WriteFaults == {"write", "open"}
=============================================================================
