---------------------------- MODULE MCWasiSignals ----------------------------
EXTENDS WasiSignals
=============================================================================
