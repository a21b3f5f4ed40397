--------------------------- MODULE MCNetworkPath ---------------------------
(* Three usable networks and an unusable state, so that the device can     *)
(* leave a network for two others before any settings are applied.         *)
EXTENDS NetworkPath

CONSTANTS wifi, cell, other, none

MCUsable == {wifi, cell, other}
MCUnusable == {none}
=============================================================================
