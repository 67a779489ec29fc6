----------------------------- MODULE MCAtFrame -----------------------------
(* Two clients and the receive task at one modem. *)
EXTENDS AtFrame
=============================================================================
