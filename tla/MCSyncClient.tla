---------------------------- MODULE MCSyncClient ----------------------------
\* Model values for SyncClient.
EXTENDS SyncClient
CONSTANT p1
=============================================================================
