----------------------------- MODULE MCYamlRunner -----------------------------
(* Instances of YamlRunner: cases over two objects in two versions.        *)
EXTENDS YamlRunner

Schemas == [Objects -> 0..2]

Case(current, desired, drop, directions, err, flavor, min, max) ==
    [current |-> current, desired |-> desired, enableDrop |-> drop,
     directions |-> directions, error |-> err, flavor |-> flavor, min |-> min, max |-> max]

Plain == {Case(c, d, drop, dir, "none", "matches", <<>>, <<>>) :
             c \in Schemas, d \in Schemas, drop \in BOOLEAN, dir \in {"none", "both", "up only"}}

(* Some schemas are enough where the question is the verdict.              *)
Some == {[o \in Objects |-> 0], [o \in Objects |-> 1], [o \in Objects |-> 2]}

Expecting == {Case(c, d, drop, dir, err, fl, <<>>, <<>>) :
                 c \in Some, d \in Some, drop \in BOOLEAN, dir \in {"none", "both"},
                 err \in {"none", "refused"}, fl \in {"matches", "differs"}}

Requirements == {<<>>, <<1>>, <<2>>, <<1, 1>>, <<2, 0>>}

Versioned == {Case(c, d, TRUE, "none", "none", "matches", mn, mx) :
                 c \in Some, d \in Some, mn \in Requirements, mx \in Requirements}

AllCases == Plain \cup Expecting \cup Versioned

Healthy == [kind |-> "none", object |-> CHOOSE o \in Objects : TRUE]
DefectsOf(kinds) == {[kind |-> k, object |-> o] : k \in kinds, o \in Objects}

AllDefects == {Healthy} \cup DefectsOf({"no effect", "export", "refused", "blind"})

TwoServers == {<<1, 1>>, <<2, 0>>}
BothModes == {"online", "offline"}
===============================================================================
