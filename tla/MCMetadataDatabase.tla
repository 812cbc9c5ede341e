------------------------- MODULE MCMetadataDatabase -------------------------
(* Two settings with a default each, two requests for them and two callers  *)
(* on a pool of two connections.                                            *)
EXTENDS MetadataDatabase, TLC

CONSTANTS a, b, e1, e2, c1, c2

MCDefault == (a :> "d") @@ (b :> "d")
MCKnown == <<a, b>>

Set(k, v) == [key |-> k, value |-> v]
MCBulks == {<<Set(a, "v"), Set(b, "v")>>, <<Set(b, "d"), Set(a, "v")>>,
            <<Set(b, "v"), Set(a, Refused)>>}
=============================================================================
