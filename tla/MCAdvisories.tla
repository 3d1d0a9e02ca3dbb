---------------------------- MODULE MCAdvisories ----------------------------
(* Four results: two packages of an ecosystem OSV orders, an action of one  *)
(* it does not, and an image.                                               *)
EXTENDS Advisories

CONSTANTS pypi, distro, action, image, lib, app, act, eco, hub, A, B, C, D, S, T

MCVersions == 1..4

In(v) == [introduced |-> v, fixed |-> None]
Out(v) == [introduced |-> None, fixed |-> v]
Of(p, e, events) == [package |-> p, ecosystem |-> e, git |-> FALSE, events |-> events]

\* One fixed, broken again and fixed; one fixed later, with a range of commits;
\* an action's two windows; one of a package, and of another without a fix.
MCRecord ==
    [id \in {A, B, C, D} |->
       CASE id = A -> <<Of(lib, eco, <<In(0), Out(2), In(3), Out(4)>>)>>
         [] id = B -> <<Of(lib, eco, <<In(0), Out(3)>>),
                        [Of(lib, eco, <<In(0), Out(4)>>) EXCEPT !.git = TRUE]>>
         [] id = C -> <<Of(act, hub, <<In(1), Out(2), In(3), Out(4)>>)>>
         [] id = D -> <<Of(app, eco, <<In(0), Out(3)>>), Of(lib, eco, <<In(2)>>)>>]

\* A finding with two fixes, and one in a second target that has none.
MCScanReports == {<<>>, <<<<>>, <<[id |-> S, fixes |-> <<3, 2>>]>>>>,
                  <<<<[id |-> S, fixes |-> <<>>]>>, <<[id |-> T, fixes |-> <<>>]>>>>}

MCDefaultEcosystem ==
    [k \in {pypi, distro, action, image} |->
       CASE k = pypi -> eco [] k = action -> hub [] OTHER -> None]

Result(kind, package, ecosystem, v) ==
    [resolved |-> TRUE, kind |-> kind, package |-> package, ecosystem |-> ecosystem,
     version |-> v, commented |-> kind = action, accepts |-> MCVersions \ {2},
     ceiling |-> NoCeiling]

\* Every list with the first result resolved or not, its ecosystem declared or
\* not, the action with its comment or not, and the third held or not.
MCInputs ==
    {<<first, [Result(action, act, None, w) EXCEPT !.commented = c],
       [Result(pypi, lib, None, v) EXCEPT !.ceiling = h], Result(image, lib, None, w)>> :
       first \in {Result(distro, app, None, 1), Result(distro, app, eco, 1),
                  [Result(distro, app, eco, 1) EXCEPT !.resolved = FALSE]},
       c \in BOOLEAN, v \in 1..3, w \in 1..4, h \in {NoCeiling, 3}}
=============================================================================
