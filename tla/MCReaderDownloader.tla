------------------------- MODULE MCReaderDownloader -------------------------
(* Instantiation of ReaderDownloader for TLC: three timestamps published   *)
(* by one or two mirrors, one process holding the reader.                 *)
EXTENDS ReaderDownloader

MCTimestamps == 1..3
MCOneUrl == {"u1"}
MCTwoUrls == {"u1", "u2"}
MCInputValues == {"i1"}
=============================================================================
