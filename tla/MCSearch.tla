------------------------------ MODULE MCSearch ------------------------------
(* One file with a link to it in another scope, one more file, one ignored. *)
EXTENDS Search, TLC
CONSTANTS t1, t2, a, b, c, d, f1, f2, f3, s1, s2, plain, mixed, tied

MCNames == {a, b, c, d}
MCFiles == {f1, f2, f3}
MCFileOf == (a :> f1) @@ (b :> f1) @@ (c :> f2) @@ (d :> f3)
MCLarge == {c}
MCHitIds == 1 .. 4
\* Under the link the lines' scores lie further apart.
MCQuality == (a :> <<3, 1, 1, 2>>) @@ (b :> <<4, 1, 2, 2>>) @@
             (c :> <<3, 1, 1, 2>>) @@ (d :> <<3, 1, 1, 2>>)
MCLineOf == <<1, 1, 2, 2>>
MCHeading == {4}
MCInScope == (s1 :> {a, b, d}) @@ (s2 :> {b, c})
\* What the names hold, for the arms that find it.
Table(ds, us) ==
    ("definitions" :> ds) @@ ("usages" :> us) @@
    ("content" :> [n \in MCNames |-> IF n = d THEN {3} ELSE {1, 3}]) @@ ("callers" :> us)
MCHolds ==
    \* a usage on the line of a definition is not listed again
    (plain :> Table((a :> {1}) @@ (b :> {1}) @@ (c :> {4}) @@ (d :> {}),
                    (a :> {2, 3}) @@ (b :> {2, 3}) @@ (c :> {}) @@ (d :> {3}))) @@
    \* opened under its other name the file is in another language
    (mixed :> Table((a :> {1}) @@ (b :> {}) @@ (c :> {}) @@ (d :> {}),
                    (a :> {2}) @@ (b :> {2}) @@ (c :> {3}) @@ (d :> {}))) @@
    \* two definitions on one line
    (tied :> Table((a :> {1}) @@ (b :> {1}) @@ (c :> {3, 4}) @@ (d :> {}),
                   (a :> {}) @@ (b :> {}) @@ (c :> {}) @@ (d :> {})))

\* The link scores lower in one scope and higher in the other.
MCRelevance == (a :> (s1 :> 2 @@ s2 :> 0)) @@ (b :> (s1 :> 1 @@ s2 :> 3)) @@
               (c :> (s1 :> 1 @@ s2 :> 2)) @@ (d :> (s1 :> 1 @@ s2 :> 1))
MCPathRank == (a :> 2) @@ (b :> 3) @@ (c :> 1) @@ (d :> 4)
MCPreference == (a :> 1) @@ (b :> 2) @@ (c :> 1) @@ (d :> 1)

Ask(q, k, sc, g, p, o) == [query |-> q, kind |-> k, scopes |-> sc, gitignore |-> g, paged |-> p, start |-> o]
MCRequests ==
    {Ask(q, "symbol", {s1, s2}, "unset", p, 0) : q \in {plain, mixed}, p \in BOOLEAN} \union
    {Ask(plain, "symbol", {s1}, g, p, 0) : g \in {"on", "off"}, p \in BOOLEAN} \union
    {Ask(tied, "symbol", {s2}, "unset", TRUE, o) : o \in {0, -3}} \union
    {Ask(plain, "content", {s1}, "off", p, 0) : p \in BOOLEAN} \union
    {Ask(plain, "content", {s1, s2}, "unset", p, 0) : p \in BOOLEAN} \union
    {Ask(q, "callers", {s1}, "off", FALSE, 0) : q \in {plain, mixed}} \union
    {Ask(mixed, "callers", {s2}, "on", FALSE, 0)}

MCSymmetry == Permutations({t1, t2})
=============================================================================
