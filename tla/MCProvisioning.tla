--------------------------- MODULE MCProvisioning ---------------------------
(* Two processes for TLC: between them they run every command, and both    *)
(* try to lock the configuration.                                          *)
EXTENDS Provisioning

CONSTANTS c1, c2

MCOffered == [c \in Clis |->
  CASE c = c1 -> {"WriteConfig", "LockConfig", "ProvisionToken"}
    [] c = c2 -> {"LockConfig", "LockData", "LockSlot", "ProvisionSlot"}]
=============================================================================
