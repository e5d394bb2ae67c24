---------------------------- MODULE MCBuildPipeline ----------------------------
(* Instances of BuildPipeline for TLC. *)
EXTENDS BuildPipeline, TLC

CONSTANTS b1, b2, b3, b4, flake, attribute, drv1, drv2, dev, out, x, y, z, quiet, loud

(* A reference without an attribute, one with a space, and a good one; the *)
(* log claim is asked for or not, twice or before the build.               *)
GoodReference == <<flake, attribute>>
SomeCommands ==
    {[package_ref |-> GoodReference, claims |-> claims] :
       claims \in {<<>>, <<"log", "log">>, <<"log", "build">>}}
    \cup {[package_ref |-> ref, claims |-> <<>>] : ref \in {<<flake>>, <<flake, Spaced>>}}

SomeMetadata == {[resolved_url |-> None, url |-> None, locked |-> None],
                 [resolved_url |-> None, url |-> flake, locked |-> [rev |-> None, nar_hash |-> x]]}
SomeDerivations == {{}, {drv1}, {drv1, drv2}}

(* One output, two, two of the same path, none; and no result, or two. *)
One == (1 :> out)
Two == (1 :> dev @@ 2 :> out)
SomeResults == {<<One>>, <<Two>>, <<(1 :> out @@ 2 :> out)>>, <<(<<>>)>>, <<>>, <<One, Two>>}

Info(hash, size) == [nar_hash |-> hash, nar_size |-> size, references |-> <<out>>, ca |-> None]
SomeInfos == {out :> Info(x, 1), out :> Info(y, 1), out :> Info(x, MaxInteger + 1),
              out :> Info(x, 1) @@ dev :> Info(z, 0), out :> Info(y, 1) @@ dev :> Info(z, MaxInteger)}

SomeLogs == {[stdout |-> quiet, stderr |-> loud]}

(* Two locations, with and without a slash at the end, and one that no     *)
(* reveal may have behind a good one.                                      *)
Location(scheme, slash) == [scheme |-> scheme, host |-> TRUE, credentials |-> FALSE,
                            query |-> FALSE, slash |-> slash]
SomeLocations == {<<Location("https", TRUE), Location("http", FALSE)>>,
                  <<Location("https", FALSE), Location("s3", FALSE)>>}

(* Three others, who may agree, differ or tie. *)
OtherRun(outputs) == [outputs |-> outputs, stdout |-> quiet, stderr |-> quiet,
                      started_at |-> 0, finished_at |-> 0]
OtherEvidence(b, outputs, entries) ==
    ComposeEvidence(ParseReference(GoodReference), b,
                    ResolveSource(flake, [resolved_url |-> flake, url |-> None, locked |-> None]),
                    drv1, CollectOutputInfo(outputs, entries), OtherRun(outputs), <<"build", "log">>)
OthersMaySend ==
    {OtherEvidence(c[1], One, out :> Info(c[2], 1)) : c \in {<<b2, x>>, <<b3, x>>, <<b3, y>>, <<b4, y>>}}
    \cup {OtherEvidence(b4, Two, out :> Info(x, 1) @@ dev :> Info(z, 0))}

ASSUME AnswersFit

=============================================================================
