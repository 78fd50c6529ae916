--------------------------- MODULE MCFirmwareSlots ---------------------------
(* Small instance of FirmwareSlots for TLC.                                *)
EXTENDS FirmwareSlots

MCReleases == {1, 2}
MCBaselines == {-1, -2}
=============================================================================
