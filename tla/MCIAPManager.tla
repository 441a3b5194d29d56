---------------------------- MODULE MCIAPManager ----------------------------
\* Instances of IAPManager for TLC.
EXTENDS IAPManager

CONSTANTS coins, gems, unknown
=============================================================================
