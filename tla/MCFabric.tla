------------------------------- MODULE MCFabric -------------------------------
(***************************************************************************)
(* Source a at router r, which sends to crossbar x or to target io; source *)
(* b at router z, which sends to r or to io; source c at arbiter g, which  *)
(* sends to x as well.  Of the outputs of x, 0 is target mem, 1 an arbiter *)
(* and 2 a crossbar without outputs, and 3 a router with one output, mem.  *)
(***************************************************************************)
EXTENDS Fabric

CONSTANTS a, b, c, r, u, z, x, y, g, h, mem, io

Wire(from, out, to, in) == [from |-> from, out |-> out, to |-> to, in |-> in]

MCWires ==
  {Wire(a, 0, r, 0), Wire(b, 0, z, 0), Wire(z, 0, r, 1), Wire(z, 1, io, 1),
   Wire(c, 0, g, 0), Wire(g, 0, x, 1),
   Wire(r, 0, x, 0), Wire(r, 1, io, 0), Wire(x, 0, mem, 0), Wire(x, 1, h, 0),
   Wire(x, 2, y, 0), Wire(x, 3, u, 0), Wire(u, 0, mem, 1)}

Low(n) == [dma |-> FALSE, low |-> n]
High(n) == [dma |-> TRUE, low |-> n]

Sends(pa, pb, pc) ==
  [s \in Sources |-> IF s = a THEN pa ELSE IF s = b THEN pb ELSE pc]

MCPrograms ==
  {Sends(<<Low(0), Low(0), Low(0)>>, <<>>, <<Low(1)>>),
   Sends(<<High(0), High(0), High(0)>>, <<High(1)>>, <<>>),
   Sends(<<Low(3), High(0)>>, <<>>, <<High(3), Low(2)>>),
   Sends(<<Low(0), Low(0)>>, <<>>, <<Low(0), Low(0)>>)}
===============================================================================
