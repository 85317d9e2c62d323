--------------------------- MODULE MCLineTransfer ---------------------------
(* LineTransfer on two lines of four beats.  The two payloads hold the same *)
(* words in rotated order, so a beat taken early, late or twice shows.      *)
EXTENDS LineTransfer, TLC

CONSTANTS w0, w1, w2, w3

MCPayloads == { (0 :> w0 @@ 1 :> w1 @@ 2 :> w2 @@ 3 :> w3),
                (0 :> w1 @@ 1 :> w2 @@ 2 :> w3 @@ 3 :> w0) }
=============================================================================
