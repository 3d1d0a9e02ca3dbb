-------------------------- MODULE MCDockerfileRun --------------------------
(* Three Dockerfiles: the first, with two pins, and the second build to the *)
(* same image and have a health check; the third has none.                  *)
EXTENDS DockerfileRun, TLC

CONSTANTS a, b, c, p1, p2, p3, p4, v1, v2, i1, i2

MCFiles == {a, b, c}
MCPins == {p1, p2, p3, p4}
MCFileOf == p1 :> a @@ p2 :> a @@ p3 :> b @@ p4 :> c
MCVersions == {v1, v2}
MCPinned == [p \in MCPins |-> v1]
MCImages == {i1, i2}
MCImageOf == a :> i1 @@ b :> i1 @@ c :> i2
MCHasHealthcheck == a :> TRUE @@ b :> TRUE @@ c :> FALSE
MCRetries == a :> 0 @@ b :> -1 @@ c :> 0
=============================================================================
