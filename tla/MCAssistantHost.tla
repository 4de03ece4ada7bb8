--------------------------- MODULE MCAssistantHost ---------------------------
\* Three requests with two command ids: a post, one that overtakes it, a repeat.
EXTENDS AssistantHost
CONSTANTS p1, p2, p3, c1, c2
MCPost == {p1, p2, p3}
MCCommand == {c1, c2}
=============================================================================
