------------------------------ MODULE MCArchive ------------------------------
(***************************************************************************)
(* Four heights in rounds of two, of which one may be missing.  Blocks 1   *)
(* and 2 were captured in full, 0 and 3 are compact.  d1 captures block 1  *)
(* again with another digest, g2 is a block at height 2 that does not link *)
(* to its neighbours, f2 a capture of block 2 that failed.  All captures   *)
(* of heights 1 and 2 share a chunk.  An open reservation cites block 0.   *)
(***************************************************************************)
EXTENDS Archive, TLC

CONSTANTS c0, c1, c2, c3, d1, g2, f2

MCCaptures == {c0, c1, c2, c3, d1, g2, f2}
MCHeight   == (c0 :> 0) @@ (c1 :> 1) @@ (c2 :> 2) @@ (c3 :> 3)
              @@ (d1 :> 1) @@ (g2 :> 2) @@ (f2 :> 2)
MCBlock    == [a \in MCCaptures |-> CASE a = g2 -> "fork" [] a = d1 -> c1 [] a = f2 -> c2 [] OTHER -> a]
MCPrevious == (c0 :> "genesis") @@ (c1 :> c0) @@ (c2 :> c1) @@ (c3 :> c2)
              @@ (d1 :> c0) @@ (g2 :> "elsewhere") @@ (f2 :> c1)
MCDigest   == [a \in MCCaptures |-> a]
MCRefs     == (c0 :> {"c0"}) @@ (c1 :> {"x"}) @@ (c2 :> {"x"}) @@ (c3 :> {"c3"})
              @@ (d1 :> {"x"}) @@ (g2 :> {"x"}) @@ (f2 :> {"x"})
=============================================================================
