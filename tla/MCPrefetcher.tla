---------------------------- MODULE MCPrefetcher ----------------------------
\* Model-checking instance of Prefetcher.
EXTENDS Prefetcher
=============================================================================
