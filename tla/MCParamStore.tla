---------------------------- MODULE MCParamStore ----------------------------
\* A step that comes with both vectors, the one that has no thread, and -1,
\* which in 8 bits is a step above 3, a channel that does not exist and what
\* erased flash holds.
EXTENDS ParamStore

MCShellValues == {2, 3, -1}
=============================================================================
