--------------------------- MODULE MCPeerDirectory ---------------------------
(* Three nodes for TLC: x, that may be seeded with its own endpoint, y, and *)
(* z, that some may still believe where y is now.  A fourth endpoint is     *)
(* dead.                                                                    *)
EXTENDS PeerDirectory, TLC

CONSTANTS x, y, z, ax, ay, az, dead

MCNode == {x, y, z}
MCAddress == {ax, ay, az, dead}
MCHome == (x :> ax) @@ (y :> ay) @@ (z :> az)
MCOld == {<<z, ay>>}

\* x knows nobody, or z where it was; y knows z, or all; z knows y.
MCWorlds ==
  {a \cup b \cup {<<z, <<y, ay>>>>} :
     a \in {{}, {<<x, <<z, ay>>>>}},
     b \in {{<<y, <<z, az>>>>}, {<<y, <<x, ax>>>>, <<y, <<z, az>>>>}}}

MCPublic == {x, y}

MCSeeds == {{ax, ay}, {az}}
=============================================================================
