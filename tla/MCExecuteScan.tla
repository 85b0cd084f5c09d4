---------------------------- MODULE MCExecuteScan ----------------------------
(* Module ExecuteScan, ready for TLC. *)
EXTENDS ExecuteScan, FiniteSets

CONSTANTS d1, d2, i1, x1

Linux(arch, variant) == [os |-> "linux", arch |-> arch, variant |-> variant]

\* An index of two images, one of them for two platforms; a second image; one
\* without layers.
MCManifest ==
  [d \in {d1, d2, i1, x1} |->
     CASE d = d1 -> [layers |-> <<"l1", "l2">>]
       [] d = d2 -> [layers |-> <<"l1", "l3">>]
       [] d = x1 -> [layers |-> <<>>]
       [] d = i1 -> [index |-> <<[platform |-> Linux("arm64", "v8"), digest |-> d2],
                                 [platform |-> Linux("amd64", ""), digest |-> d1],
                                 [platform |-> Linux("arm64", "v9"), digest |-> x1]>>]]

MCReferences == {[tag |-> "", digest |-> None], [tag |-> "latest", digest |-> d2],
                 [tag |-> "", digest |-> i1]}
MCPlatforms  == {None, Malformed, Linux("arm64", ""), Linux("arm64", "v9")}

Reg(p) == [type |-> "reg", path |-> p]

\* Two commits that can be scanned, and one that escapes.
MCArchive ==
  [c \in {"c1", "c2", "c3"} |->
     CASE c = "c1" -> <<[type |-> "dir", path |-> "a/"], Reg("a/x.go"),
                        [type |-> "link", path |-> "l.go"], Reg("go.mod"), Reg("yarn.lock")>>
       [] c = "c2" -> <<Reg("a/x.go"), Reg("vendor/y.go"), Reg("big.go"), Reg("bad.json")>>
       [] c = "c3" -> <<Reg("go.mod"), Reg("../e.go")>>]

MCPaths == {"a/", "a/x.go", "l.go", "go.mod", "yarn.lock", "vendor/y.go", "big.go",
            "bad.json", "../e.go"}

\* The two manifests report one package: Dedup keeps that of the higher rank.
MCHits == [p \in MCPaths |-> {IF p \in {"go.mod", "yarn.lock"} THEN <<"dep", p>>
                                                               ELSE <<"code", p>>}]
MCDedup(fs) == IF <<"dep", "yarn.lock">> \in fs THEN fs \ {<<"dep", "go.mod">>} ELSE fs
=============================================================================
