---------------------------- MODULE MCCrawlStore ----------------------------
(* Small instances of CrawlStore. *)
EXTENDS CrawlStore

CONSTANTS t1, t2

\* Two generations of one URL.
SameUrl == [t \in Targets |-> "url"]

=============================================================================
