--------------------------- MODULE MCProcessCache ---------------------------
(* A small instance of ProcessCache for TLC. *)
EXTENDS ProcessCache, TLC

CONSTANTS c1, c2, c3, k1, k2, ok1, err

MCFlights == {"f1", "f2"}

MCFlightOf == k1 :> "f1" @@ k2 :> "f2"

=============================================================================
