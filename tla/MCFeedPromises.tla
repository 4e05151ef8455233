--------------------------- MODULE MCFeedPromises ---------------------------
EXTENDS FeedPromises, FeedScenarios
=============================================================================
