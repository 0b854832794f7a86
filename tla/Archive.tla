------------------------------ MODULE Archive ------------------------------
(***************************************************************************)
(* Which files of an application reach the archive build-droplet uploads:  *)
(* the lines of .cfignore, their globs, and the zipper.                    *)
(*                                                                         *)
(* A path is the sequence of its components, a glob the sequence of what   *)
(* it allows in each.  Wildcards that are part of a component stand for    *)
(* the names they match.                                                   *)
(***************************************************************************)
EXTENDS Naturals, FiniteSetsExt, SequencesExt

CONSTANT Name   \* names of files and directories

\* ".git" stands for the six names that are ignored anywhere by default.
ASSUME NameAssumption == {".cfignore", "manifest.yml", ".git"} \subseteq Name /\ "" \notin Name

Component == [many : BOOLEAN, names : SUBSET (Name \cup {""})]
Line == [exclude : BOOLEAN, glob : Seq(Component), compiles : BOOLEAN]
Node == [path : Seq(Name), kind : {"dir", "file", "link"}, readable : BOOLEAN]

Literal(n) == [many |-> FALSE, names |-> {n}]
Star == [many |-> FALSE, names |-> Name \cup {""}]
Stars == [many |-> TRUE, names |-> {}]
Root == Literal("")     \* what comes before a leading slash
Rooted(glob) == glob # <<>> /\ glob[1] = Root

\* "**" is the expression ".*" between two slashes: one component or more, the
\* empty one in front of a slash included.  What is taken up to a component of the path is the glob up to one of its own.
Matches(glob, path) ==
    LET upto[p \in 0..Len(path)] ==
            IF p = 0 THEN {0}
            ELSE LET before == upto[p - 1]
                 IN {g \in DOMAIN glob : /\ glob[g].many \/ path[p] \in glob[g].names
                                         /\ g - 1 \in before \/ (glob[g].many /\ g \in before)}
    IN Len(glob) \in upto[Len(path)]

\* A line stands for what it names and all that is below, anywhere unless rooted.
GlobsForPattern(glob) ==
    LET Below(g) == <<g, g \o <<Star>>, g \o <<Stars, Star>>>>
    IN Below(glob) \o IF Rooted(glob) THEN <<>> ELSE Below(<<Stars>> \o glob)

ParsePatterns(lines) ==
    FlattenSeq([k \in DOMAIN lines |->
        LET globs == GlobsForPattern(lines[k].glob)
        IN [i \in DOMAIN globs |-> [exclude |-> lines[k].exclude, glob |-> globs[i]]]])

\* Faulty variant: the first pattern that matches decides.
ShouldIgnoreFirst(patterns, path) ==
    LET hits == {i \in DOMAIN patterns : Matches(patterns[i].glob, <<"">> \o path)}
    IN hits # {} /\ patterns[Min(hits)].exclude
\* The last pattern that matches decides; from the first rooted one on the
\* path has a slash in front.
ShouldIgnore(patterns, path) ==
    LET Seen(i) == IF \E j \in 1..i : Rooted(patterns[j].glob) THEN <<"">> \o path ELSE path
        hits == {i \in DOMAIN patterns : Matches(patterns[i].glob, Seen(i))}
    IN hits # {} /\ patterns[Max(hits)].exclude

Ignore(glob) == [exclude |-> TRUE, glob |-> glob, compiles |-> TRUE]
DefaultIgnoreLines == << Ignore(<<Literal(".cfignore")>>),
                         Ignore(<<Root, Literal("manifest.yml")>>),
                         Ignore(<<Literal(".git")>>) >>

\* A source is what --path names: its nodes, its .cfignore and the lines in
\* it, and whether the directory of temporary files lies below it.  A "link" is
\* one to a directory; a link to a zip is as good as the zip.
Ignored == {"none", "read", "closed"}
Source == [kind : {"dir", "link", "zip", "other"}, nodes : SUBSET Node,
           ignore : Ignored, lines : Seq(Line), holdsTemp : BOOLEAN]

\* A .cfignore that cannot be opened is taken for none.
Lines(src) == DefaultIgnoreLines \o IF src.ignore = "read" THEN src.lines ELSE <<>>
\* MustCompileGlob.
Panics(src) == \E k \in DOMAIN Lines(src) : ~Lines(src)[k].compiles

\* Walk does not follow the link it is given, as Stat and the opening of
\* .cfignore do: it visits the link itself, which the zipper leaves out.
Walked(src) == IF src.kind = "dir" THEN src.nodes ELSE {}
Kept(src) ==
    LET patterns == ParsePatterns(Lines(src))
    IN {n \in Walked(src) : ~ShouldIgnore(patterns, n.path)}

\* The walk enters every directory, the ignored ones too, and opens every file
\* it keeps; a link is stored as its target.
CanZip(src) ==
    /\ src.kind \in {"dir", "link"}
    /\ \A n \in Walked(src) : n.kind = "dir" => n.readable
    /\ \A n \in Kept(src) : n.kind = "file" => n.readable

\* The archive's own path is compared with paths relative to the source, so
\* that one which lies in a source that is walked archives itself.
Itself == [path |-> <<"artifact.zip">>, kind |-> "file", readable |-> TRUE]
Archived(src) == Kept(src) \cup IF src.kind = "dir" /\ src.holdsTemp THEN {Itself} ELSE {}

\* Directories are made for what they hold; links become files with their target.
Unzip(src) ==
    LET files == {[n EXCEPT !.kind = "file"] : n \in {e \in src.nodes : e.kind # "dir"}}
        parents == UNION {{SubSeq(n.path, 1, k) : k \in 1..Len(n.path) - 1} : n \in files}
        dirs == {[path |-> p, kind |-> "dir", readable |-> TRUE] : p \in parents}
    IN [src EXCEPT !.kind = "dir", !.nodes = files \cup dirs, !.holdsTemp = FALSE]

-----------------------------------------------------------------------------
(* The reference: a line names a path when its components are those of the *)
(* path or of a directory above it, from the start if it has a slash in    *)
(* front, and the last line that names a path decides.                     *)

\* Some way to give every component of the path one of the line; all of the line
\* are given some, but that "**" is documented to stand for none as well.
Fits(glob, path) ==
    \E f \in [DOMAIN path -> DOMAIN glob] :
        /\ \A g \in DOMAIN glob : glob[g].many \/ g \in Range(f)
        /\ \A k \in DOMAIN path, l \in DOMAIN path :
               /\ k < l => f[k] <= f[l]
               /\ k # l /\ f[k] = f[l] => glob[f[k]].many
        /\ \A k \in DOMAIN path : glob[f[k]].many \/ path[k] \in glob[f[k]].names

Names(line, path) ==
    LET anywhere == line.glob # <<>> /\ line.glob[1] = Stars
        rest == IF Rooted(line.glob) \/ anywhere THEN Tail(line.glob) ELSE line.glob
    IN \/ rest = <<>>
       \/ \E i \in DOMAIN path, j \in DOMAIN path :
              /\ i <= j /\ (Rooted(line.glob) => i = 1)
              /\ Fits(rest, SubSeq(path, i, j))

\* The files of a source that its author did not exclude.
Promised(src) ==
    LET lines == DefaultIgnoreLines \o src.lines
        naming(path) == {k \in DOMAIN lines : Names(lines[k], path)}
    IN {n.path : n \in {e \in src.nodes : /\ e.kind # "dir"
                                          /\ \/ naming(e.path) = {}
                                             \/ ~lines[Max(naming(e.path))].exclude}}
\* Lines of which the code and the documents say the same: there is no "**" but in
\* front, where it is by itself, and unless the line is "*" its beginning does not
\* match the nothing before a slash, as that of "*/app" does.
Unambiguous(glob) ==
    /\ \A k \in 2..Len(glob) : ~glob[k].many
    /\ glob # <<>> /\ ~Rooted(glob) =>
           /\ glob[1].many => glob[1] = Stars
           /\ "" \notin glob[1].names \/ glob = <<Star>>

\* Sources of which the archive is what .cfignore says: no link, with a .cfignore
\* that can be read or has no lines, not around the archive itself, and with
\* unambiguous lines only.
WellMeant(src) ==
    /\ src \in Source
    /\ src.kind # "link"
    /\ src.ignore = "read" \/ src.lines = <<>>
    /\ src.kind = "zip" \/ ~src.holdsTemp
    /\ \A n \in src.nodes : n.path # <<>>
    /\ \A k \in DOMAIN src.lines : Unambiguous(src.lines[k].glob)

\* What is archived of a source, or of the zip it was given as, are the files
\* its author did not exclude.
FilePaths(nodes) == {n.path : n \in {e \in nodes : e.kind # "dir"}}
KeepsPromise(src) ==
    LET packed == IF src.kind = "zip" THEN Unzip(src) ELSE src
    IN CanZip(packed) /\ ~Panics(packed) => FilePaths(Archived(packed)) = Promised(src)
=============================================================================
