---------------------------- MODULE MCProcesses -----------------------------
EXTENDS Processes
=============================================================================
