--------------------------- MODULE MCDropletStore ---------------------------
EXTENDS DropletStore, TLC

CONSTANTS c1, c2, c3, d1, d2

MCName == {".cfignore", "manifest.yml", ".git", "app", "x.log"}
MCKinds == {"dav", "s3"}

N(path, k, r) == [path |-> path, kind |-> k, readable |-> r]
Tree == { N(<<".cfignore">>, "file", TRUE), N(<<"manifest.yml">>, "file", TRUE),
          N(<<".git">>, "dir", TRUE), N(<<".git", "x.log">>, "file", FALSE),
          N(<<"app">>, "dir", TRUE), N(<<"app", "manifest.yml">>, "file", TRUE),
          N(<<"app", "x.log">>, "file", TRUE), N(<<"app", "app">>, "dir", TRUE),
          N(<<"app", "app", "x.log">>, "file", TRUE), N(<<"x.log">>, "link", TRUE) }

L(exclude, glob) == [exclude |-> exclude, glob |-> glob, compiles |-> TRUE]
App == Literal("app")
Log == Literal("x.log")
\* x.log  /x.log  app  /app  app/*  app/**  app/**/x.log  **/x.log  /  and, each with
\* an exclamation mark, x.log  app/x.log  app/*  .git; nothing but the mark; "app\".
IgnoreLines ==
    { L(TRUE, <<Log>>), L(TRUE, <<Root, Log>>), L(TRUE, <<App>>), L(TRUE, <<Root, App>>),
      L(TRUE, <<App, Star>>), L(TRUE, <<App, Stars>>), L(TRUE, <<App, Stars, Log>>),
      L(TRUE, <<Stars, Log>>), L(TRUE, <<Root>>),
      L(FALSE, <<Log>>), L(FALSE, <<App, Log>>), L(FALSE, <<App, Star>>),
      L(FALSE, <<Literal(".git")>>), L(FALSE, <<>>),
      [exclude |-> TRUE, glob |-> <<App, Root>>, compiles |-> FALSE] }

S(k, ignore, lines, holds) ==
    [kind |-> k, nodes |-> Tree, ignore |-> ignore, lines |-> lines, holdsTemp |-> holds]
Job(o, src) == [op |-> o, droplet |-> d1, source |-> src, older |-> FALSE]
Build(k, lines) == Job("build", S(k, "read", lines, FALSE))

Meant == {l \in IgnoreLines : Unambiguous(l.glob)}

\* One build of every source with at most two lines.
Alone == {c1 :> Build(k, lines) : k \in {"dir", "zip"}, lines \in SeqOf(Meant, 2)}

\* Two or three commands, on one droplet or two.
On(d, j) == [j EXCEPT !.droplet = d]
First == Build("dir", <<L(TRUE, <<App>>)>>)
Second == Build("zip", <<L(FALSE, <<Root, Literal("manifest.yml")>>), L(TRUE, <<Log>>)>>)
Import == Job("import", Absent)
Export == Job("export", Absent)
Launch == Job("launch", Absent)
Both == {c1 :> First @@ c2 :> j : j \in {Job("list", Absent), Launch, On(d2, Second), On(d2, Import)}}
        \cup {c1 :> First @@ c2 :> Second @@ c3 :> j : j \in {Import, Export}}
        \cup {c1 :> First @@ c2 :> Import @@ c3 :> j : j \in {Export, Launch, On(d2, Export)}}

\* What the code does not exclude.
Closed == {c1 :> Job("build", S("dir", "closed", <<L(TRUE, <<App>>)>>, FALSE))}
Starred == {c1 :> Build("dir", <<L(TRUE, <<App, Stars, Log>>)>>)}
Linked == {c1 :> Build("link", <<>>)}
Within == {c1 :> Job("build", S("dir", "read", <<>>, TRUE))}
Older == {c1 :> Job("import", Absent) @@ c2 :> [Export EXCEPT !.older = TRUE]}
Restarts == {c1 :> Import @@ c2 :> Import @@ c3 :> Launch}
Listed == {c1 :> Import @@ c2 :> On(d2, Import) @@ c3 :> Job("list", Absent)}

OpenJobs == Closed \cup Starred \cup Linked \cup Within \cup Older \cup Restarts \cup Listed
MCJobs == Alone \cup Both
=============================================================================
