--------------------------- MODULE MCPullRequest ---------------------------
EXTENDS PullRequest
=============================================================================
