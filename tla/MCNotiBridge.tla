----------------------------- MODULE MCNotiBridge -----------------------------
(* Instances of NotiBridge for TLC. *)
EXTENDS NotiBridge

CONSTANTS worker, api1, api2, f, g, m1, m2

MCWorkers == {worker}
MCOneApi == {api1}
MCApis == {api1, api2}
MCHandlers == {f, g}
MCOneHandler == {f}
MCMessage == {m1, m2}
MCOneMessage == {m1}
MCQuiet == {"set", "emit"}
=============================================================================
