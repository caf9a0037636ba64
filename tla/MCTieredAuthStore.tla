-------------------------- MODULE MCTieredAuthStore --------------------------
(* The auth store for TLC.  One asset is enough: the entries of two assets
   share nothing but the disk, and syncing one only makes the other durable. *)
EXTENDS TieredAuthStore
===============================================================================
