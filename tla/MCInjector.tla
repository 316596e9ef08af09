----------------------------- MODULE MCInjector -----------------------------
(* A small instance of Injector for TLC: two antennas of one host.         *)
EXTENDS Injector

MCHostOf(a) == "host"
=============================================================================
