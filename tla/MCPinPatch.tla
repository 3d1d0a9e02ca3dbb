----------------------------- MODULE MCPinPatch -----------------------------
(* Tool a, which a command answers for, is pinned by a glob over two files  *)
(* and by a second pattern in the first. Tool b, which a registry answers   *)
(* for, has a pin in the second file, and another whose pattern is anchored *)
(* to a line: Find, line by line, sees it, and Patch, that matches the      *)
(* whole file, does not. What each pattern finds and rewrites in these      *)
(* files is Locator's.                                                      *)
EXTENDS PinPatch, SequencesExt

CONSTANTS a, b, p1, p2, p3, p4, p5, v1, v2, None

L == INSTANCE Locator WITH Literals <- {v1, v2}

MCTools == {a, b}
MCCommandTools == {a}
MCFiles == {1, 2}
MCVersions == {v1, v2}
MCSites == 1..4
MCToolOf == <<a, a, b, b>>
MCExpect == <<0, 1, 0, 0>>

Pin(key) == [key |-> key, version |-> v1]

Text == <<<<Pin("hk"), Pin("hk url")>>, <<Pin("hk"), Pin("jq"), Pin("jq tag")>>>>

MCPlaces == {p1, p2, p3, p4, p5}
FileOfPlace == p1 :> 1 @@ p3 :> 1 @@ p2 :> 2 @@ p4 :> 2 @@ p5 :> 2
MCFileOf == FileOfPlace
LineOf == p1 :> 1 @@ p3 :> 2 @@ p2 :> 1 @@ p4 :> 2 @@ p5 :> 3

Site(files, key) ==
    [files |-> files, key |-> key, takes |-> MCVersions, head |-> None, anchored |-> FALSE,
     window |-> 0, expect |-> 0]

SiteOf == <<Site({1, 2}, "hk"), Site({1}, "hk url"), Site({2}, "jq"),
            [Site({2}, "jq tag") EXCEPT !.anchored = TRUE]>>

FoundBy(s) ==
    SetToSortSeq({p \in MCPlaces : \E m \in L!Find(Text, SiteOf[s]) :
                                     m[1] = MCFileOf[p] /\ m[3] = LineOf[p]},
                 LAMBDA p, q : MCFileOf[p] < MCFileOf[q])

RewrittenBy(s) ==
    {p \in MCPlaces : /\ MCFileOf[p] \in SiteOf[s].files
                      /\ LineOf[p] \in L!Captured(Text[MCFileOf[p]], SiteOf[s])}

FoundBySite == <<FoundBy(1), FoundBy(2), FoundBy(3), FoundBy(4)>>
RewrittenBySite == <<RewrittenBy(1), RewrittenBy(2), RewrittenBy(3), RewrittenBy(4)>>

MCFound == FoundBySite
MCRewritten == RewrittenBySite
=============================================================================
