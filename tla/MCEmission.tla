----------------------------- MODULE MCEmission -----------------------------
(* The real numbers scaled down: six eras whose sum is some 4% below the    *)
(* cap, and amounts of a type that barely holds the cap.                    *)
EXTENDS Emission

MCWeights == {5, 10, 11, 13, 16, 19, 20, 26, 27}
=============================================================================
