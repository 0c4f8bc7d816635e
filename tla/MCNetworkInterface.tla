------------------------- MODULE MCNetworkInterface --------------------------
(***************************************************************************)
(* One ordered vnet with three VCs: messages to two destinations each to   *)
(* send, and four flits to receive into a buffer of two messages.          *)
(***************************************************************************)
EXTENDS NetworkInterface

MCDests    == [v \in Vnets |-> <<{1, 2}, {1, 2}>>]
MCArrivals == [v \in Vnets |-> 4]
=============================================================================
