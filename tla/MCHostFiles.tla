---------------------------- MODULE MCHostFiles ----------------------------
(* The files of the scripts for TLC: two of the six that set-up appends to. *)
EXTENDS HostFiles

TwoFiles == <<"Kconfig", "meson.build">>
==============================================================================
