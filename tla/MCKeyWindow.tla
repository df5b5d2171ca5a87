----------------------------- MODULE MCKeyWindow -----------------------------
EXTENDS KeyWindow
==============================================================================
