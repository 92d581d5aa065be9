----------------------------- MODULE MCRewriter ------------------------------
(* Rewriter on every document with units of up to MCMaxBuffered tokens.     *)
EXTENDS Rewriter

MCMaxBuffered == 15
MCMaxUnits == 1
=============================================================================
