------------------------------- MODULE MCMutex -------------------------------
EXTENDS CMutex
=============================================================================
