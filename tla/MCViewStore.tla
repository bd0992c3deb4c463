---------------------------- MODULE MCViewStore ----------------------------
\* Model values for the runs of ViewStore.
EXTENDS ViewStore
=============================================================================
