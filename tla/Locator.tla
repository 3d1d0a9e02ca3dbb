------------------------------ MODULE Locator ------------------------------
(***************************************************************************)
(* internal/locator: how a site's pattern finds its pins window by window, *)
(* how it rewrites them in a whole file, and what a rescan suggests when   *)
(* the count is wrong.                                                     *)
(*                                                                         *)
(* A text is a sequence of files, a file a sequence of lines. A line has a *)
(* key, all that is before its version, if it has one. A pattern asks for  *)
(* a key, and for a version its group takes, and may ask for a head first: *)
(* a key on an earlier line, with anything in between. It may be anchored  *)
(* to the start of the text, and may open a group before the one it        *)
(* captures.                                                               *)
(***************************************************************************)
EXTENDS Integers, Sequences, FiniteSets

CONSTANTS
    None,
    Literals \* the versions whose text has versionLiteral's numbers and dots in it

\* The lines of a text whose version the pattern captures. Matches do not
\* overlap, and a pattern with a head takes the nearest of its keys below it.
Captured(block, site) ==
    LET pins == {j \in DOMAIN block :
                   block[j].key = site.key /\ block[j].version \in site.takes}
    IN  IF site.head = None
        THEN {j \in pins : site.anchored => j = 1}
        ELSE {j \in pins : \E i \in 1..(j - 1) :
                /\ block[i].key = site.head
                /\ site.anchored => i = 1
                /\ \A k \in (i + 1)..(j - 1) : k \notin pins}

WindowSize(site) == IF site.window <= 0 THEN 1 ELSE site.window

\* Mutant: the last window of a file is left out.
WindowsButLast(file, site) == 1..(Len(file) - WindowSize(site))

Windows(file, site) == 1..(Len(file) - WindowSize(site) + 1)

\* Find's matches in a file: <<first line of the window, line>>.
FindIn(file, site) ==
    UNION {{<<i, i + j - 1>> : j \in Captured(SubSeq(file, i, i + WindowSize(site) - 1), site)} :
             i \in Windows(file, site)}

\* <<file, first line of the window, line>>, a pin once for every window that shows it.
Find(text, site) ==
    UNION {{<<f, m[1], m[2]>> : m \in FindIn(text[f], site)} : f \in site.files}

\* In file, window and line order.
First(matches) ==
    CHOOSE m \in matches : \A n \in matches :
      \/ m[1] < n[1]
      \/ m[1] = n[1] /\ m[2] < n[2]
      \/ m[1] = n[1] /\ m[2] = n[2] /\ m[3] <= n[3]

\* Expect is the exact count, or "one or more".
CheckExpect(site, matches) ==
    IF site.expect > 0 THEN Cardinality(matches) = site.expect ELSE matches # {}

\* The version literals, two to four numbers with dots between, on lines that
\* match the pattern up to its first group, whether or not the group takes them.
\* Nothing before it leaves every line; a head and its key are on no one line.
Rescan(text, site) ==
    UNION {{<<f, j>> : j \in {k \in DOMAIN text[f] :
                                /\ text[f][k].version \in Literals
                                /\ site.grouped \/ (site.head = None /\ text[f][k].key = site.key)}} :
             f \in site.files}

\* Every capture in the file's text as a whole: the window plays no part.
Patch(file, site, newValue) ==
    [j \in DOMAIN file |->
       IF j \in Captured(file, site) THEN [file[j] EXCEPT !.version = newValue] ELSE file[j]]
=============================================================================
