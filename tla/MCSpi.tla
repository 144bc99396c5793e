------------------------------- MODULE MCSpi -------------------------------
(* The SPI bus with FIFOs of three bytes, so that the driver's chunks of    *)
(* FIFO_DEPTH - 1 split a four-byte message in two.                         *)
EXTENDS Spi

MCFifoDepth == 3
MCLens == {0, 1, 4}
MCMaxMsgs == 2

(* The serial flash's 50 MHz, the controller's 24 MHz, 7 MHz (which the     *)
(* divider cannot reach exactly), 46875 Hz (the slowest CDR2 clock), 40 kHz *)
(* (below the CDR2 range) and 100 Hz (below SUNXI_SPI_MIN_RATE).           *)
MCSpeedReqs == {50000000, 24000000, 7000000, 46875, 40000, 100}
=============================================================================
