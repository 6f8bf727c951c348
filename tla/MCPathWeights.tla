---------------------------- MODULE MCPathWeights ----------------------------
(* Two functions, one of which returns nothing, one global, one local. *)
EXTENDS PathWeights, TLC

CONSTANTS err, tentative, g, fReturn, x, f, p

MCReal == tentative :> err
MCReturn == f :> fReturn @@ p :> NoReturn
MCAssignments ==
    {<<g, tentative>>, <<g, x>>, <<fReturn, tentative>>, <<fReturn, g>>, <<fReturn, x>>,
     <<x, x>>, <<x, fReturn>>, <<x, tentative>>}
=============================================================================
