--------------------------- MODULE DockerfileText ---------------------------
(***************************************************************************)
(* What a Dockerfile's text says of its pins: the directives and           *)
(* instructions of internal/parser, the image references of                *)
(* internal/cli/{check,update}.go, and the rewriting of internal/updater.  *)
(*                                                                         *)
(* A line is blank, a comment, a directive or an instruction. A directive  *)
(* is its items as their author meant them, between commas. An image       *)
(* reference has, as far as its colons go, a registry's port, a tag and a  *)
(* digest; a FROM may carry a --platform before it.                        *)
(***************************************************************************)
EXTENDS VersionPatterns

CONSTANTS
    Begins,  \* pairs of tags: the text of the second begins with the first
    Garbled  \* what is left of a tag when only its beginning is replaced

Forms == {"name", "pattern", "hold", "ignore"}

\* named: the item is a name, a colon and the form. split: a comma or a
\* semicolon in the reason of a hold. A hold is a ceiling and nothing else.
Item == {i \in [form : Forms, named : BOOLEAN, split : BOOLEAN, pattern : Patterns] :
           IF i.form = "hold"
           THEN /\ i.pattern.ceiling # None
                /\ i.pattern = [AnyVersion EXCEPT !.ceiling = i.pattern.ceiling]
           ELSE i.pattern.ceiling = None}

Reference == [platform : BOOLEAN, ghcr : BOOLEAN, port : BOOLEAN, tag : Tags \cup {None},
              digest : BOOLEAN]

\* ignore: the directive is that word alone. others: the tags that follow a colon elsewhere in the line.
Line == [is : {"blank", "comment"}]
        \cup [is : {"directive"}, ignore : BOOLEAN, items : Seq(Item)]
        \cup [is : {"instruction"}, command : {"FROM", "COPY", "RUN"},
              image : Reference \cup {None}, others : Seq(Tags \cup {Garbled})]

\* Mutant: any directive above, as the parser's pendingDirective would have it.
DirectiveAbove(lines, n) ==
    LET above == {k \in 1..(n - 1) : lines[k].is = "directive"}
    IN  IF above = {} THEN None
        ELSE lines[CHOOSE k \in above : \A j \in above : j <= k]

\* directiveMap: only the line right above counts.
DirectiveOf(lines, n) ==
    IF n > 1 /\ lines[n - 1].is = "directive" THEN lines[n - 1] ELSE None

\* Without a name's colon only a hold is more than a name, `ignore` included. A
\* reason that holdRegex does not take, or that strings.Split has cut, leaves a
\* text that is read as a name or, after a name's colon, as a pattern.
parsePackageDirective(item) ==
    [ignore |-> item.form = "ignore" /\ item.named,
     pattern |-> IF \/ item.form = "pattern" /\ item.named
                    \/ item.form = "hold" /\ ~item.split
                 THEN item.pattern
                 ELSE IF item.form = "hold" /\ item.named
                 THEN [AnyVersion EXCEPT !.suffixes = {}]
                 ELSE AnyVersion]

\* Mutant: update reads a reference as check does.
answersUpdateFirst(image) == image.tag # None /\ ~image.platform /\ ~image.port

\* Whether what precedes the first colon, the check's name for an image, or the
\* last, the update's, is a name its registry answers for. A host with a port
\* is none, and neither is a name that goes on past its tag.
answersCheck(image) == image.tag # None /\ ~image.platform /\ ~image.port

answersUpdate(image) == image.tag # None /\ ~image.platform /\ ~image.port /\ ~image.digest

\* updater's version of an image is all that follows its first colon.
currentIs(image, version) == image.tag = version /\ ~image.digest /\ ~image.port

\* strings.ReplaceAll(line, ":"+old, ":"+new).
applyUpdate(line, new) ==
    LET image == line.image
        old == image.tag
        replaced(tag) == IF image.digest \/ image.port THEN tag
                         ELSE IF tag = old THEN new
                         ELSE IF <<old, tag>> \in Begins THEN Garbled
                         ELSE tag
    IN  [line EXCEPT !.image = [image EXCEPT !.tag = new, !.digest = FALSE, !.port = FALSE],
                     !.others = [k \in DOMAIN line.others |-> replaced(line.others[k])]]
=============================================================================
