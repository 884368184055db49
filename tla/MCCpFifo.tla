------------------------------ MODULE MCCpFifo ------------------------------
(* TLC's instances of the write FIFO: five bursts long, written around.    *)
EXTENDS CpFifo
=============================================================================
