------------------------------- MODULE MCNocMesh -------------------------------
(***************************************************************************)
(* A two by two mesh, where each pair of nodes is a different turn of the  *)
(* route.  With two bytes to a flit, p1 is a head, a body and a tail, full *)
(* from any node to any node and half full from node 1 to node 5, in the   *)
(* far corner; p2 goes to node 5 from node 0 in a single flit or empty, or *)
(* from node 1 in a single flit.                                           *)
(***************************************************************************)
EXTENDS NocMesh, TLC

CONSTANTS p1, p2

MCTraffic == p1 :> ((Node \X Node \X {6}) \cup {<<1, 5, 5>>})
          @@ p2 :> {<<0, 5, 1>>, <<1, 5, 1>>, <<0, 5, 0>>}
===============================================================================
