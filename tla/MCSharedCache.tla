---------------------------- MODULE MCSharedCache ----------------------------
\* Model values for the runs of SharedCache.
EXTENDS SharedCache
=============================================================================
