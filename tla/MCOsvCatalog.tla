----------------------------- MODULE MCOsvCatalog -----------------------------
(* Module OsvCatalog, ready for TLC. *)
EXTENDS OsvCatalog

Rel(parts) == [parts |-> parts, tag |-> 0]
Pre(parts) == [parts |-> parts, tag |-> -1]
From(w)    == [kind |-> "introduced", at |-> w]
Fixed(w)   == [kind |-> "fixed", at |-> w]
Upto(w)    == [kind |-> "last_affected", at |-> w]
Sem(events) == [type |-> "SEMVER", events |-> events]
Git         == [type |-> "GIT", events |-> {From(Zero), Fixed(Rel(<<9>>))}]
Pkg(e, n, ranges) == [eco |-> e, name |-> n, ranges |-> ranges]

\* Listed: one package of PyPI, one of npm, and one of crates.io, which OSV and
\* the scanner call differently.
MCListed == {<<"PyPI", "cryptography">>, <<"npm", "ssh2">>, <<"crates.io", "ring">>}

\* a is in two dumps, affects two branches of one package, and is amended once.
\* b mentions TLS, affects packages off the list and outside the ecosystems, has
\* two intervals in one range, behind a GIT range, and affects a crate.
MCRevisions ==
  LET a1 == Pkg("PyPI", "cryptography", <<Sem({From(Zero), Fixed(Rel(<<1, 0, 2, 1>>))})>>)
      a2 == Pkg("PyPI", "cryptography", <<Sem({From(Rel(<<2>>)), Upto(Rel(<<2, 1>>))})>>)
      a3 == Pkg("PyPI", "cryptography", <<Sem({From(Rel(<<2>>)), Fixed(Rel(<<3>>))})>>)
      an == Pkg("npm", "ssh2", <<Git, Sem({From(Zero)}), Sem({Fixed(Pre(<<2>>)), From(Zero)})>>)
      b1 == Pkg("Debian", "ssh2", <<Sem({Fixed(Rel(<<1>>)), From(Zero)})>>)
      b2 == Pkg("PyPI", "requests", <<Sem({From(Zero), Fixed(Rel(<<3>>))})>>)
      b3 == Pkg("PyPI", "cryptography", <<Sem({From(Rel(<<1>>)), Fixed(Rel(<<2>>))})>>)
      b4 == Pkg("npm", "ssh2", <<Git, Sem({From(Rel(<<1>>)), Fixed(Rel(<<1, 1>>)),
                                           From(Rel(<<2>>)), Fixed(Rel(<<2, 1>>))})>>)
      b5 == Pkg("crates.io", "ring", <<Sem({From(Zero), Fixed(Rel(<<1>>))})>>)
  IN [a |-> <<[crypto |-> FALSE, affected |-> <<a1, a2, an>>],
              [crypto |-> FALSE, affected |-> <<a1, a3, an>>]>>,
      b |-> <<[crypto |-> TRUE, affected |-> <<b1, b2, b3, b4, b5>>]>>]

MCRequests == {<<"PyPI", "npm">>, <<"npm", "PyPI">>}

MCRank == "cargo" :> 1 @@ "npm" :> 2 @@ "pypi" :> 3 @@ "cryptography" :> 1 @@ "ring" :> 2
          @@ "requests" :> 3 @@ "ssh2" :> 4 @@ "a" :> 1 @@ "b" :> 2 @@ "c" :> 3

MCCurated == {[eco |-> "npm", name |-> "ssh2", rule |-> "FIPS-DEP-SSH2", constraints |-> {}]}

\* Bounds of the ranges, one inside a truncated bound, and a pre-release of one.
MCProbes == {Rel(<<1>>), Rel(<<1, 0, 2>>), Pre(<<2>>), Rel(<<2, 1>>), Rel(<<3>>)}
=============================================================================
