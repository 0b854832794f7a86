----------------------------- MODULE ImageName ------------------------------
(***************************************************************************)
(* What registry, repository and tag the image argument of ltc create      *)
(* names.  An argument is split at its slashes, so a URL has the parts     *)
(* "docker:" and ""; a colon behind the last slash starts a tag.           *)
(***************************************************************************)
EXTENDS Naturals, Sequences

CONSTANTS
    Part,   \* what may stand between slashes
    Dotted, \* those of them with a dot or a colon
    NoTag

DockerIndexServer == "docker.io"
ASSUME PartAssumption == Dotted \subseteq Part /\ {DockerIndexServer, "docker:"} \subseteq Dotted
                         /\ {"localhost", "library", ""} \subseteq Part \ Dotted

Reference == [parts : Seq(Part) \ {<<>>}, tag : {"v1", NoTag}]

\* Faulty variant: a host without a dot or a port is none.
OfficialRegistryDotted(parts) ==
    Len(parts) = 1 \/ parts[1] = DockerIndexServer \/ parts[1] \notin Dotted
OfficialRegistry(parts) ==
    \/ Len(parts) = 1
    \/ parts[1] = DockerIndexServer
    \/ parts[1] \notin Dotted \cup {"localhost"}

\* nameParts[1] is taken without a look at how many parts there are.
OutOfRange(ref) == ref.parts = <<DockerIndexServer>> /\ ref.tag = NoTag

ParseDockerRepoUrl(ref) ==
    LET official == OfficialRegistry(ref.parts)
        named == ~official \/ (ref.parts[1] = DockerIndexServer /\ Len(ref.parts) > 1)
        path == IF named THEN Tail(ref.parts) ELSE ref.parts
    IN [index |-> IF named THEN ref.parts[1] ELSE "",
        remote |-> IF official /\ Len(path) = 1 THEN <<"library">> \o path ELSE path,
        tag |-> IF ref.tag = NoTag THEN "latest" ELSE ref.tag]

\* The root file system is docker://index/remote#tag, of an argument that is no URL yet.
CanFormat(ref) == \A i \in 1 .. Len(ref.parts) - 1 : <<ref.parts[i], ref.parts[i + 1]>> # <<"docker:", "">>

-----------------------------------------------------------------------------
\* The reference: what docker pull takes such an argument for.
IsHost(part) == part \in Dotted \/ part = "localhost"
Meaning(ref) ==
    LET hosted == Len(ref.parts) > 1 /\ IsHost(ref.parts[1])
        host == IF hosted THEN ref.parts[1] ELSE DockerIndexServer
        path == IF hosted THEN Tail(ref.parts) ELSE ref.parts
    IN [host |-> host, tag |-> IF ref.tag = NoTag THEN "latest" ELSE ref.tag,
        path |-> IF host = DockerIndexServer /\ Len(path) = 1 THEN <<"library", path[1]>> ELSE path]
Means(repo, ref) ==
    Meaning(ref) = [host |-> IF repo.index = "" THEN DockerIndexServer ELSE repo.index,
                    tag |-> repo.tag, path |-> repo.remote]
=============================================================================
