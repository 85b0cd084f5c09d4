---------------------------- MODULE RegistryClient ----------------------------
(***************************************************************************)
(* ScanImage's pull of one image with a registry.Client of its own: the    *)
(* manifest, through an index to the manifest of a platform when there is  *)
(* one, then the layers in order, each GET with the 401, token, retry      *)
(* exchange of authedGet.  Meanwhile the tag may be pushed again and       *)
(* tokens expire.  What the layers hold is module ImageLayers' business.   *)
(*                                                                         *)
(* The registry and the repository are one; a reference as written is a    *)
(* tag and a digest, either of which may be missing.                       *)
(***************************************************************************)
EXTENDS Naturals, Sequences

CONSTANTS
  Digests,      \* of the manifests of the repository
  Manifest,     \* of each: [layers : Seq], or [index : Seq of [platform, digest]]
  Pushed,       \* the digests the tag "latest" is ever pushed to
  None,         \* no digest, no platform
  References,   \* what a target may name: [tag, digest]
  Platforms,    \* what it may ask for: [os, arch, variant], None or Malformed
  Malformed,    \* a platform that is none
  Challenges    \* what the registry may answer to a GET without a good token: "open" if
                \* it asks for none, "basic", "missing" (no header), "bearer" with
                \* the scope of the pull, "wider" with another scope

Platform == [os : STRING, arch : STRING, variant : STRING]

VARIABLES
  latest,     \* the registry: the digest of the tag
  challenge,  \* and its challenge
  pc,         \* the pull: "idle", "get", "challenged", "retry", "done" or "failed"
  ref,        \* its reference: [tag, digest]
  plat,       \* the platform it asks for
  want,       \* what it is getting: "top", "platform" or "layers"
  left,       \* the layers it has not fetched yet
  pulled,     \* those it has
  cache,      \* the cached token of the pull's scope: "none", "good", "stale"
  hand        \* the token the retry carries
VARIABLES     \* history, read by properties only
  given,      \* the reference the pull began with
  seen,       \* the manifests it has named since then
  granted     \* the last token fetched in the pull, cached or not

registryVars == <<latest, challenge>>
clientVars   == <<pc, ref, plat, want, left, pulled, cache, hand>>
history      == <<given, seen, granted>>
vars         == <<registryVars, clientVars, history>>

IsImage(d) == "layers" \in DOMAIN Manifest[d]

Active == pc \in {"get", "challenged", "retry"}

TypeOK ==
  /\ latest \in Pushed /\ challenge \in Challenges
  /\ pc \in {"idle", "get", "challenged", "retry", "done", "failed"}
  /\ ref \in [tag : {"", "latest"}, digest : Digests \cup {None}]
  /\ want \in {"top", "platform", "layers"}
  /\ cache \in {"none", "good", "stale"} /\ hand \in {"none", "good", "stale"}
  /\ given \in [tag : {"", "latest"}, digest : Digests \cup {None}]
  /\ seen \subseteq Digests
  /\ granted \in {"none", "good", "stale"}
  /\ Active => (want = "layers" <=> left # <<>>)
  /\ Active /\ ref.digest = None =>
       ref = given /\ latest \in seen

-----------------------------------------------------------------------------
(* References and platforms. *)

ParseReference(w) == IF w.tag = "" /\ w.digest = None THEN [w EXCEPT !.tag = "latest"]
                                                      ELSE w

\* Mutant: the tag preferred to the digest.
NamedByTag(r) == IF r.tag # "" THEN latest ELSE r.digest
\* ManifestName: a reference names its digest, else what the tag points at now.
Named(r) == IF r.digest # None THEN r.digest ELSE latest

DefaultPlatform == [os |-> "linux", arch |-> "amd64", variant |-> ""]
ParsePlatform(p) == IF p = None THEN DefaultPlatform ELSE p

\* The entries of an index for the platform; its variant is compared only when one
\* was asked for.
SelectPlatform(index, p) ==
  {i \in DOMAIN index : /\ index[i].platform.os = p.os /\ index[i].platform.arch = p.arch
                        /\ p.variant \in {"", index[i].platform.variant}}

-----------------------------------------------------------------------------
Init == /\ latest \in Pushed /\ challenge \in Challenges
        /\ pc = "idle" /\ ref = [tag |-> "latest", digest |-> None]
        /\ plat = None /\ want = "top" /\ left = <<>> /\ pulled = <<>>
        /\ cache = "none" /\ hand = "none"
        /\ given = ref /\ seen = {} /\ granted = "none"

(* The registry. *)

Push(d) == /\ d \in Pushed \ {latest}
           /\ latest' = d
           /\ seen' = IF Active /\ given.digest = None THEN seen \cup {d} ELSE seen
           /\ UNCHANGED <<challenge, clientVars, given, granted>>

Stale(token) == IF token = "good" THEN "stale" ELSE token

\* A token expires at any moment, on its way or in the cache; a token the registry
\* does not take for this repository is one that has expired at once.
Expire == /\ Active /\ granted = "good"
          /\ granted' = "stale" /\ cache' = Stale(cache) /\ hand' = Stale(hand)
          /\ UNCHANGED <<registryVars, pc, ref, plat, want, left, pulled, given, seen>>

-----------------------------------------------------------------------------
(* The pull. *)

\* ScanImage makes a client of its own, with an empty cache.
Begin == /\ pc = "idle"
         /\ \E w \in References, p \in Platforms :
              /\ ref' = ParseReference(w)
              /\ plat' = ParsePlatform(p)
              /\ pc' = IF p = Malformed THEN "failed" ELSE "get"
         /\ want' = "top" /\ left' = <<>> /\ pulled' = <<>>
         /\ cache' = "none" /\ hand' = "none"
         /\ given' = ref' /\ seen' = {Named(ref')} /\ granted' = "none"
         /\ UNCHANGED registryVars

Fail == /\ pc' = "failed"
        /\ UNCHANGED <<registryVars, ref, plat, want, left, pulled, cache, hand, history>>

\* The platform is only looked at in an index; its first entry for it is fetched by
\* digest.
OpenIndex(index) ==
  LET fits == SelectPlatform(index, plat) IN
  \/ fits = {} /\ Fail
  \/ /\ \E i \in fits :
          /\ \A j \in fits : i <= j
          /\ ref' = [tag |-> "", digest |-> index[i].digest]
     /\ want' = "platform" /\ pc' = "get" /\ hand' = "none"
     /\ UNCHANGED <<registryVars, plat, left, pulled, cache, history>>

\* Mutant: a manifest without layers is an empty image.
OpenManifestEmpty(layers) ==
  /\ left' = layers /\ want' = "layers" /\ pc' = "get" /\ hand' = "none"
  /\ UNCHANGED <<registryVars, ref, plat, pulled, cache, history>>
OpenManifest(layers) ==
  \/ layers = <<>> /\ Fail
  \/ /\ layers # <<>>
     /\ left' = layers /\ want' = "layers" /\ pc' = "get" /\ hand' = "none"
     /\ UNCHANGED <<registryVars, ref, plat, pulled, cache, history>>

\* An index below an index is read as a manifest, and has no layers.
ReadManifest(d) ==
  \/ want = "top" /\ ~IsImage(d) /\ OpenIndex(Manifest[d].index)
  \/ /\ want = "platform" \/ IsImage(d)
     /\ OpenManifest(IF IsImage(d) THEN Manifest[d].layers ELSE <<>>)

ReadLayer == /\ pulled' = Append(pulled, Head(left))
             /\ left' = Tail(left)
             /\ pc' = IF left' = <<>> THEN "done" ELSE "get"
             /\ hand' = "none"
             /\ UNCHANGED <<registryVars, ref, plat, want, cache, history>>

Respond == \/ want # "layers" /\ ReadManifest(Named(ref))
           \/ want = "layers" /\ ReadLayer

Accepted == challenge = "open" \/ cache = "good"

\* The first request of authedGet, with the cached token if there is one.  Any other
\* status than 200 and 401, a lost connection and a body that does not parse all end
\* the scan.
Get == /\ pc = "get"
       /\ \/ Accepted /\ Respond
          \/ /\ ~Accepted
             /\ pc' = "challenged"
             /\ UNCHANGED <<registryVars, ref, plat, want, left, pulled, cache, hand, history>>
          \/ Fail

\* Mutant: an expired token is never replaced in the cache.
CacheTokenOnce(token) == IF cache = "none" THEN token ELSE cache
\* The token goes under the scope of the challenge, and is looked up under the
\* scope of the pull.
CacheToken(token) == IF challenge = "bearer" THEN token ELSE cache

FetchToken == /\ pc = "challenged"
              /\ \/ /\ challenge \in {"bearer", "wider"}
                    /\ hand' = "good" /\ granted' = "good" /\ cache' = CacheToken("good")
                    /\ pc' = "retry"
                    /\ UNCHANGED <<registryVars, ref, plat, want, left, pulled, given, seen>>
                 \/ Fail

\* Mutant: a second 401 starts over.
RetryAgain == /\ pc = "retry"
              /\ \/ hand = "good" /\ Respond
                 \/ /\ hand # "good" /\ pc' = "challenged"
                    /\ UNCHANGED <<registryVars, ref, plat, want, left, pulled, cache,
                                   hand, history>>
                 \/ Fail
Retry == /\ pc = "retry"
         /\ \/ hand = "good" /\ Respond
            \/ Fail

\* What ScanImage's call kept is gone once it is over, or the process.
Over == /\ pc' = "idle" /\ ref' = [tag |-> "latest", digest |-> None] /\ plat' = None
        /\ want' = "top" /\ left' = <<>> /\ pulled' = <<>>
        /\ cache' = "none" /\ hand' = "none"
        /\ given' = ref' /\ seen' = {} /\ granted' = "none"
        /\ UNCHANGED registryVars

Return == pc \in {"done", "failed"} /\ Over

Die == Active /\ Over

Registry == Expire \/ \E d \in Pushed : Push(d)
Client   == Get \/ FetchToken \/ Retry \/ Return

-----------------------------------------------------------------------------
(* Properties. *)

\* The images a manifest offers for a platform.
Images(d, p) ==
  IF IsImage(d) THEN {d}
  ELSE {e.digest : e \in {f \in {Manifest[d].index[i] : i \in DOMAIN Manifest[d].index} :
          /\ f.platform.os = p.os /\ f.platform.arch = p.arch
          /\ p.variant # "" => f.platform.variant = p.variant}}

\* However often the tag is pushed while the image is pulled, the layers are those of
\* one image, all of them in their order: one the tag pointed at during the pull, or
\* the one of the digest when the reference has one; and for an index the platform's
\* (ScanImage, ManifestName, selectPlatform).
OneImage ==
  pc = "done" => \E d \in seen : \E i \in Images(d, plat) :
                   IsImage(i) /\ pulled = Manifest[i].layers

\* One token serves all layers: a new one is fetched only when the last one has expired
\* ("consecutive blob fetches reuse one token", Client), if the registry asks for the
\* scope of the pull.
TokensAreReused ==
  [][challenge = "bearer" /\ pc = "challenged" /\ pc' = "retry" => granted # "good"]_vars
=============================================================================
