--------------------------- MODULE MCSessionShell ---------------------------
EXTENDS SessionShell

\* A class of bytes for every branch of the handler; a mark differs from a
\* space only in that it makes a line not blank, as a letter does.
SomeBytes == AllBytes \ {"mark"}
=============================================================================
