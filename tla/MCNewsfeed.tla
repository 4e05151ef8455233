---------------------------- MODULE MCNewsfeed ----------------------------
EXTENDS Newsfeed, FeedScenarios
=============================================================================
