---------------------------- MODULE MCDownloader ----------------------------
(* Small instances of Downloader: three timestamps, one or two mirrors,    *)
(* one or two processes sharing the destination folder.                   *)
EXTENDS Downloader

MCTimestamps == 1..3
MCOneUrl == {"u1"}
MCTwoUrls == {"u1", "u2"}
MCOneDownloader == {"d1"}
MCTwoDownloaders == {"d1", "d2"}
MCInputValues == {"i1"}
=============================================================================
