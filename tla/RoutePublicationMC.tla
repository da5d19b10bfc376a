------------------------- MODULE RoutePublicationMC -------------------------
(* Small instances of RoutePublication: three routes, two of which share a    *)
(* source contract, one of them bound to a locale context.                    *)
EXTENDS RoutePublication, TLC

CONSTANTS r1, r2, r3, s1, s2, en, ko

ThreeRoutes == {r1, r2, r3}
TwoSources == {s1, s2}
SharedSource == (r1 :> s1) @@ (r2 :> s2) @@ (r3 :> s1)
TwoLocales == {en, ko}
BoundLocale == (r1 :> None) @@ (r2 :> en) @@ (r3 :> None)

TwoRoutes == {r1, r2}
OwnSources == (r1 :> s1) @@ (r2 :> s2)
NoLocales == (r1 :> None) @@ (r2 :> None)

Symmetry == Permutations(Procs)

\* Two routes of the same source contract without a locale context.
Alike == Permutations({r1, r3})

=============================================================================
