-------------------------- MODULE MCMdnsTxAssembler --------------------------
(* Entries of size 1, 2 and 4 against a limit of 4 with a 1-unit header:  *)
(* two small entries share a message, a third overflows it, and an entry  *)
(* of size 4 is larger than the limit by itself.                          *)
EXTENDS MdnsTxAssembler

MCEntrySizes == {1, 2, 4}
MCMaxEntries == 4
MCMaxMessageSize == 4
MCHeaderSize == 1
==============================================================================
