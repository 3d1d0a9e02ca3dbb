-------------------------- MODULE MCHttpTransport --------------------------
(* Two requests to one host and one to another.                             *)
EXTENDS HttpTransport

CONSTANTS r1, r2, r3, github, pypi

MCRequests == {r1, r2, r3}
MCHosts == {github, pypi}
MCHostOf == [r \in MCRequests |-> IF r = r3 THEN pypi ELSE github]
=============================================================================
