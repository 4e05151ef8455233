--------------------------- MODULE MCFeedHistory ---------------------------
EXTENDS FeedHistory, FeedScenarios
=============================================================================
