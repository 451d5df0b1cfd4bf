---------------------------- MODULE MCUtilities ----------------------------
EXTENDS Utilities, MCStrings
=============================================================================
