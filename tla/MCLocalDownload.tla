--------------------------- MODULE MCLocalDownload ---------------------------
(* LocalDownload with writes of up to 2 bytes, read through a buffer of 1:  *)
(* a declared length can be missed, met and exceeded, and a write takes     *)
(* several reads.                                                           *)
EXTENDS LocalDownload

MCMaxWrites == 3
MCMaxChunk == 2
MCMaxLength == 3
MCBufferSize == 1
=============================================================================
