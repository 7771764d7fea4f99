--------------------------- MODULE MCRelayClient ---------------------------
EXTENDS RelayClient
=============================================================================
