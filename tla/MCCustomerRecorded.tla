------------------------- MODULE MCCustomerRecorded -------------------------
(* CustomerRecorded with the constants TLC uses.                           *)
EXTENDS CustomerRecorded, MCCustomerLab
=============================================================================
