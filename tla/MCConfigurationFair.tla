------------------------- MODULE MCConfigurationFair -------------------------
(* ConfigurationRecorded with the constants TLC uses.                      *)
EXTENDS ConfigurationRecorded, MCConfigurationService
=============================================================================
