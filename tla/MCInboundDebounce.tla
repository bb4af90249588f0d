-------------------------- MODULE MCInboundDebounce --------------------------
(* InboundDebounce with two keys, of which the map may track one.          *)
EXTENDS InboundDebounce
=============================================================================
