----------------------------- MODULE FeedHistory -----------------------------
(***************************************************************************)
(* What the publication of lifecycle feeds promises to whoever keeps the   *)
(* last one it saw: numbers without gaps, one feed per number, and every   *)
(* feed upholding all earlier ones.                                        *)
(***************************************************************************)
EXTENDS ReceiptLifecycle

VARIABLE feeds

HistoryInit == feeds = {}

Continues(feed) ==
    /\ WellFormed(feed)
    /\ IF feeds = {} THEN feed.sequence = 1
       ELSE \E last \in feeds : feed.sequence = last.sequence + 1
    /\ \A earlier \in feeds : earlier.sequence < feed.sequence /\ Upholds(earlier, feed)

Publish == \E feed \in feeds' \ feeds : Continues(feed) /\ feeds' = feeds \cup {feed}

HistorySpec == HistoryInit /\ [][Publish]_feeds
===============================================================================
