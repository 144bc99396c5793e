------------------------------- MODULE MCEmac -------------------------------
(* The link monitor with one PHY link change, so that the link goes up     *)
(* after the thread started or down after it reported up, and one DMA      *)
(* error, which can come before or after the link was reported.            *)
EXTENDS Emac

MCMaxFlaps == 1
MCMaxDmaErrs == 1
=============================================================================
