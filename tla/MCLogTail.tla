----------------------------- MODULE MCLogTail -----------------------------
EXTENDS LogTail

\* Lines of two to five bytes with their newline. Those of three and more are
\* over the writer's buffer; the longest is over the tailer's chunk as well, and
\* one just fits it.
TailSizes == <<1, 4, 2, 1, 3>>

FileFaults == {"rename", "open"}
=============================================================================
