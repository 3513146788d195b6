--------------------------- MODULE MCSmokeMeter ---------------------------
EXTENDS SmokeMeter, MCGpioService
=============================================================================
