--------------------------- MODULE MCChatCoverage ---------------------------
EXTENDS ChatCoverage

CONSTANTS t1, t2

=============================================================================
