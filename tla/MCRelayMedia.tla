---------------------------- MODULE MCRelayMedia ----------------------------
EXTENDS RelayMedia
=============================================================================
