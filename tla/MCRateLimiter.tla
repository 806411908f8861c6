---------------------------- MODULE MCRateLimiter ----------------------------
(***************************************************************************)
(* Instances of RateLimiter for TLC.                                       *)
(***************************************************************************)
EXTENDS RateLimiter, TLC

CONSTANTS r1, r2, r3, r4, h1, h2, a1

(* r1, r2 and r3 share the bucket of the address h1, r2 behind a proxy;    *)
(* r4 loads a page.                                                        *)
Requesters == {r1, r2, r3, r4}

Shapes ==
    LET S(path, key, forwarded, host) ==
            [path |-> path, key |-> key, forwarded |-> forwarded, host |-> host]
    IN  (r1 :> S("api", NoKey, NoKey, h1)) @@
        (r2 :> S("api", NoKey, h1, h2)) @@
        (r3 :> S("api", NoKey, NoKey, h1)) @@
        (r4 :> S("page", NoKey, NoKey, h1))

SmallLimits == [p \in Prefixes |-> IF p = "api" THEN 2 ELSE 1]

(* r1, r2 and r3 have one bucket: they are interchangeable.                *)
Symmetric == Permutations({r1, r2, r3})
=============================================================================
