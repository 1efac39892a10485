--------------------------- MODULE MCPersonaCache ---------------------------
(* Instances of PersonaCache.                                              *)
EXTENDS PersonaCache, TLC

CONSTANTS r1, r2, w1, w2

Mix(reads1, reads2, writes1, writes2) ==
    [reads |-> r1 :> reads1 @@ r2 :> reads2, writes |-> w1 :> writes1 @@ w2 :> writes2]

MCMixes == {
    \* two readers that merge each other's field beside a writer
    Mix({"system_prompt"}, {"sampling"}, {"update", "retune"}, {}),
    \* a reader beside two writers, whose invalidations may overlap
    Mix({"system_prompt"}, {}, {"update", "delete"}, {"update", "repeat"})}

\* An update beside a read.
RaceMixes == {Mix({"system_prompt"}, {}, {"update"}, {})}
=============================================================================
