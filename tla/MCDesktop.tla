----------------------------- MODULE MCDesktop -----------------------------
EXTENDS Desktop
=============================================================================
