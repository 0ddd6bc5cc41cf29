----------------------------- MODULE MCRequests -----------------------------
(* Requests on small instances. *)
EXTENDS Requests

CONSTANTS r1, r2, film, other

MCRows == {r1, r2}
MCOneRow == {r1}
MCContents == {film, other}
=============================================================================
