----------------------------- MODULE MCLifecycle -----------------------------
(* Lifecycle with responses of up to three units and a buffer of one.       *)
EXTENDS Lifecycle

MCMaxContent == 3
MCBufferSize == 1
=============================================================================
