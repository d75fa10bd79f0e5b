--------------------------- MODULE MCFeedbackLoop ---------------------------
\* Instances of FeedbackLoop for TLC; the .cfg files give the constants.
EXTENDS FeedbackLoop
=============================================================================
