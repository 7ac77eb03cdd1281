------------------------------ MODULE MCSystemd ------------------------------
(* Small instances of Systemd for TLC. *)
EXTENDS Systemd
=============================================================================
