--------------------------- MODULE MCChatToolCalls ---------------------------
EXTENDS ChatToolCalls, TLC
\* Requests, confirmations and generated ids are interchangeable.
Symmetry == Permutations(Requests) \union Permutations(Intents) \union Permutations(ArticleIds)
=============================================================================
