--------------------------- MODULE MCSbertWorker ---------------------------
\* A small instance of SbertWorker for TLC.
EXTENDS SbertWorker
=============================================================================
