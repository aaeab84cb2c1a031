--------------------------- MODULE MCChatInterface ---------------------------
EXTENDS ChatInterface
=============================================================================
