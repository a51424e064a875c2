---------------------------- MODULE MCThreadPool ----------------------------
(* Two clients and one worker.  The body r submits the jobs a and b, and a *)
(* submits two leaf jobs; s submits a job and a leaf job; r2 follows r.    *)
EXTENDS ThreadPool, TLC

CONSTANTS w, c1, c2, r, a, b, x, y, s, d, z, r2, e

MCJob == {r, a, b, x, y, s, d, z, r2, e}
MCChildren == r :> <<a, b>> @@ a :> <<x, y>> @@ s :> <<d, z>> @@ r2 :> <<e>>
              @@ b :> << >> @@ x :> << >> @@ y :> << >> @@ d :> << >> @@ z :> << >> @@ e :> << >>
MCProgram == c1 :> <<r, r2>> @@ c2 :> <<s>>
=============================================================================
