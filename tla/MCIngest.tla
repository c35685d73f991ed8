------------------------------ MODULE MCIngest ------------------------------
(* A small instance of Ingest for TLC. *)
EXTENDS Ingest

CONSTANTS d1, d2, b1, b2, c1

MCSubmissions ==
    {[id |-> d1, body |-> b1], [id |-> d1, body |-> b2], [id |-> d2, body |-> b1]}

=============================================================================
