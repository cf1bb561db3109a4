---------------------------- MODULE MCReaderBuffer ----------------------------
(* A buffer of six bytes and every short sequence of packets. *)
EXTENDS ReaderBuffer
==============================================================================
