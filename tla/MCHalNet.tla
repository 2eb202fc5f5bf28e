------------------------------ MODULE MCHalNet ------------------------------
(***************************************************************************)
(* HalNet for TLC: two components, with pins of every direction that meet  *)
(* on a signal, or with ports.                                             *)
(***************************************************************************)
EXTENDS HalNet

Pins(c, name, type, dir) == [comp |-> c, name |-> name, type |-> type, dir |-> dir]

\* The second component has a pin with a name of the first.
Bits == {Pins("a", 1, "BIT", "OUT"), Pins("a", 2, "BIT", "IN"), Pins("b", 2, "BIT", "IO")}
Renamed == {Pins("a", 1, "BIT", "OUT"), Pins("b", 1, "BIT", "IN"), Pins("b", 2, "BIT", "IO")}

\* More pins than fit in the memory
Ports == {Pins("a", 1, "PORT", "OUT"), Pins("a", 2, "PORT", "IN"), Pins("b", 3, "PORT", "IN"),
          Pins("b", 1, "PORT", "OUT")}

MCSystems ==
    {[exports |-> Bits, aliases |-> {}, levels |-> {{}, {"LOAD", "CONFIG"}}, values |-> {0, 1}],
     [exports |-> Renamed, aliases |-> {3}, levels |-> {{}}, values |-> {}],
     [exports |-> Ports, aliases |-> {}, levels |-> {{}}, values |-> {}]}
=============================================================================
