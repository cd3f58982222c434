-------------------------- MODULE MCArticleSummary --------------------------
EXTENDS ArticleSummary
=============================================================================
