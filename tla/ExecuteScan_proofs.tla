-------------------------- MODULE ExecuteScan_proofs --------------------------
(* Theorems about module ExecuteScan, and their proofs. *)
EXTENDS ExecuteScan, SequenceTheorems, TLAPS

(***************************************************************************)
(* The repository branch.                                                  *)
(***************************************************************************)

\* The type invariant, who owns each directory, and that the entries still to be
\* extracted are entries.
RInv == /\ Repo!TypeOK
        /\ Repo!DirsAreOwned
        /\ entries \in Seq(Repo!Entry)

LEMMA RepoInit == Repo!Init => RInv
  BY EmptySeq, ArchiveAssumption
  DEF Repo!Init, RInv, Repo!TypeOK, Repo!DirsAreOwned, Repo!Running

\* Each step of the repository branch, of the host and of the process keeps it.
LEMMA RepoStep ==
  ASSUME RInv,
         \/ Repo!Begin \/ Repo!Scanner \/ Repo!Die
         \/ \E c \in Commits : Repo!Commit(c)
  PROVE  RInv'
<1> USE ArchiveAssumption DEF RInv, Repo!TypeOK, Repo!DirsAreOwned, Repo!Running
<1>1. CASE Repo!Begin
  BY <1>1 DEF Repo!Begin
<1>2. CASE \E c \in Commits : Repo!Commit(c)
  BY <1>2 DEF Repo!Commit
<1>3. CASE Repo!RequestFails
  BY <1>3 DEF Repo!RequestFails, Repo!Fails, Repo!history
<1>4. CASE Repo!Download
  BY <1>4 DEF Repo!Download, Repo!history
<1>5. CASE Repo!ExtractFails
  BY <1>5, EmptySeq
  DEF Repo!ExtractFails, Repo!Fails, Repo!RemoveAll, Repo!Leave, Repo!history
<1>6. CASE Repo!ExtractEnds
  BY <1>6 DEF Repo!ExtractEnds, Repo!history
<1>7. CASE Repo!ExtractEntry
  <2>1. Head(entries) \in Repo!Entry /\ Tail(entries) \in Seq(Repo!Entry)
    BY <1>7, HeadTailProperties DEF Repo!ExtractEntry
  <2>2. Head(entries).path \in Paths
    BY <2>1 DEF Repo!Entry
  <2>3. CASE Head(entries).path \in Escaping /\ Repo!Fails /\ Repo!RemoveAll
    BY <1>7, <2>3, EmptySeq
    DEF Repo!ExtractEntry, Repo!Fails, Repo!RemoveAll, Repo!Leave, Repo!history
  <2>4. CASE ~(Head(entries).path \in Escaping /\ Repo!Fails /\ Repo!RemoveAll)
    BY <1>7, <2>1, <2>2, <2>4 DEF Repo!ExtractEntry, Repo!history
  <2>5. QED BY <2>3, <2>4
<1>8. CASE Repo!ScanCode
  BY <1>8 DEF Repo!ScanCode, Repo!history
<1>9. CASE Repo!ScanDeps
  BY <1>9, EmptySeq DEF Repo!ScanDeps, Repo!RemoveAll, Repo!Leave, Repo!history
<1>10. CASE Repo!Return
  BY <1>10 DEF Repo!Return
<1>11. CASE Repo!Die
  BY <1>11, EmptySeq DEF Repo!Die, Repo!Leave
<1>12. QED
  BY <1>1, <1>2, <1>3, <1>4, <1>5, <1>6, <1>7, <1>8, <1>9, <1>10, <1>11 DEF Repo!Scanner

LEMMA RepoStutter == ASSUME RInv, UNCHANGED repoVars PROVE RInv'
  BY DEF RInv, repoVars, Repo!TypeOK, Repo!DirsAreOwned, Repo!Running

(***************************************************************************)
(* The image branch.                                                       *)
(***************************************************************************)

\* The image whose layers are being fetched is one a manifest of the pull offers.
OnImage == \E d \in seen : \E i \in Pull!Images(d, plat) :
             Pull!IsImage(i) /\ pulled \o left = Manifest[i].layers

\* What is known where the pull is.
AtTop      == pulled = <<>> /\ Pull!Named(ref) \in seen
AtPlatform == /\ pulled = <<>> /\ ref.digest # None
              /\ \E d \in seen : ref.digest \in Pull!Images(d, plat)
AtLayers   == pulled \in Seq(STRING) /\ left \in Seq(STRING) /\ OnImage

\* Of the tokens: when the challenge has the scope of the pull, the last one fetched
\* is the cached one, and who is challenged has none that is good.
Tokens == /\ challenge = "bearer" => granted = cache
          /\ pc = "challenged" /\ challenge = "bearer" => cache # "good"

PInv == /\ Pull!TypeOK
        /\ Pull!OneImage
        /\ Tokens
        /\ Pull!Active /\ want = "top" => AtTop
        /\ Pull!Active /\ want = "platform" => AtPlatform
        /\ Pull!Active /\ want = "layers" => AtLayers

LEMMA PullInit == Pull!Init => PInv
<1>1. Pushed \subseteq Digests /\ None \notin Digests
  BY RegistryAssumption
<1>2. QED
  BY <1>1
  DEF Pull!Init, PInv, Pull!TypeOK, Pull!OneImage, Pull!Active, Tokens

LEMMA PullStutter == ASSUME PInv, UNCHANGED imageVars PROVE PInv'
<1> Pull!TypeOK /\ Tokens
  BY DEF PInv
<1>1. Pull!TypeOK'
  <2>1. /\ latest' = latest /\ challenge' = challenge /\ pc' = pc /\ ref' = ref
        /\ want' = want /\ left' = left /\ cache' = cache /\ hand' = hand
        /\ given' = given /\ seen' = seen /\ granted' = granted
    BY DEF imageVars
  <2>2. Pull!Active' = Pull!Active
    BY <2>1 DEF Pull!Active
  <2>3. (Pull!Active => (want = "layers" <=> left # <<>>))'
    BY <2>1, <2>2 DEF Pull!TypeOK
  <2>4. (Pull!Active /\ ref.digest = None => ref = given /\ latest \in seen)'
    BY <2>1, <2>2 DEF Pull!TypeOK
  <2> DEFINE Refs == [tag : {"", "latest"}, digest : Digests \cup {None}]
  <2>5. ref' \in Refs /\ given' \in Refs
    BY <2>1 DEF Pull!TypeOK
  <2>6. /\ latest' \in Pushed /\ challenge' \in Challenges
        /\ pc' \in {"idle", "get", "challenged", "retry", "done", "failed"}
        /\ want' \in {"top", "platform", "layers"} /\ seen' \subseteq Digests
        /\ cache' \in {"none", "good", "stale"} /\ hand' \in {"none", "good", "stale"}
        /\ granted' \in {"none", "good", "stale"}
    BY <2>1 DEF Pull!TypeOK
  <2>7. QED BY <2>3, <2>4, <2>5, <2>6 DEF Pull!TypeOK
<1>7. Tokens'
  BY DEF imageVars, Tokens
<1>2. Pull!OneImage'
  BY DEF PInv, imageVars, Pull!OneImage, Pull!Images, Pull!IsImage
<1>3. Pull!Active /\ want = "top" => AtTop'
  BY DEF PInv, imageVars, AtTop, Pull!Named
<1>4. Pull!Active /\ want = "platform" => AtPlatform'
  BY DEF PInv, imageVars, AtPlatform, Pull!Images, Pull!IsImage
<1>5. Pull!Active /\ want = "layers" => AtLayers'
  BY DEF PInv, imageVars, AtLayers, OnImage, Pull!Images, Pull!IsImage
<1>6. QED BY <1>1, <1>7, <1>2, <1>3, <1>4, <1>5 DEF PInv, imageVars, Pull!Active

\* One layer more: what was to come is what has come and what is still to come.
LEMMA OneLayer ==
  ASSUME NEW p \in Seq(STRING), NEW l \in Seq(STRING), l # <<>>
  PROVE  /\ Append(p, Head(l)) \in Seq(STRING) /\ Tail(l) \in Seq(STRING)
         /\ Append(p, Head(l)) \o Tail(l) = p \o l
<1>1. /\ Head(l) \in STRING /\ Tail(l) \in Seq(STRING)
      /\ <<Head(l)>> \in Seq(STRING)
  BY HeadTailProperties
<1>2. Append(p, Head(l)) \in Seq(STRING) /\ Append(p, Head(l)) = p \o <<Head(l)>>
  BY <1>1, AppendProperties, AppendIsConcat
<1>3. l = <<Head(l)>> \o Tail(l)
  <2> DEFINE t == Tail(l)
             c == <<Head(l)>> \o t
  <2>1. c \in Seq(STRING) /\ Len(c) = 1 + Len(t)
    BY <1>1, ConcatProperties
  <2>2. Len(t) = Len(l) - 1 /\ \A i \in 1..Len(t) : t[i] = l[i + 1]
    BY HeadTailProperties
  <2>3. \A i \in 1..Len(l) : c[i] = l[i]
    <3> TAKE i \in 1..Len(l)
    <3>1. c[i] = IF i <= 1 THEN <<Head(l)>>[i] ELSE t[i - 1]
      BY <1>1, <2>2, ConcatProperties, LenProperties
    <3>2. CASE i = 1
      BY <3>1, <3>2
    <3>3. CASE i # 1
      BY <3>1, <3>3, <2>2, LenProperties
    <3>4. QED BY <3>2, <3>3
  <2>4. Len(c) = Len(l)
    BY <2>1, <2>2, LenProperties
  <2>5. QED BY <2>1, <2>3, <2>4, SeqEqual
<1>4. Append(p, Head(l)) \o Tail(l) = p \o (<<Head(l)>> \o Tail(l))
  BY <1>1, <1>2, ConcatAssociative
<1>5. QED BY <1>1, <1>2, <1>3, <1>4

LEMMA PullFails == ASSUME PInv, Pull!Fail PROVE PInv'
<1>1. /\ pc' = "failed"
      /\ latest' = latest /\ challenge' = challenge /\ ref' = ref /\ want' = want
      /\ left' = left /\ cache' = cache /\ hand' = hand
      /\ given' = given /\ seen' = seen /\ granted' = granted
  BY DEF Pull!Fail, Pull!registryVars, Pull!history
<1>2. ~Pull!Active'
  BY <1>1 DEF Pull!Active
<1>3. Pull!TypeOK'
  <2>1. Pull!TypeOK
    BY DEF PInv
  <2> QED BY <1>1, <1>2, <2>1 DEF Pull!TypeOK
<1>4. Pull!OneImage' /\ Tokens'
  <2>1. Tokens
    BY DEF PInv
  <2> QED BY <1>1, <2>1 DEF Pull!OneImage, Tokens
<1>5. QED
  BY <1>2, <1>3, <1>4 DEF PInv

\* A manifest or a layer has come.
LEMMA PullResponds ==
  ASSUME PInv, Pull!Active, Pull!Respond PROVE PInv'
<1> USE DEF PInv, Pull!Active
<1>1. CASE Pull!Fail
  BY <1>1, PullFails
<1>2. CASE want = "layers" /\ Pull!ReadLayer
  <2>1. left # <<>> /\ AtLayers
    BY <1>2 DEF Pull!TypeOK
  <2>2. /\ pulled' \in Seq(STRING) /\ left' \in Seq(STRING)
        /\ pulled' \o left' = pulled \o left
    BY <1>2, <2>1, OneLayer DEF Pull!ReadLayer, AtLayers
  <2>3. OnImage' /\ AtLayers'
    BY <1>2, <2>1, <2>2
    DEF AtLayers, OnImage, Pull!ReadLayer, Pull!Images, Pull!IsImage, Pull!history
  <2>4. Pull!OneImage'
    <3> SUFFICES ASSUME pc' = "done" PROVE Pull!OneImage'
      BY DEF Pull!OneImage
    <3>1. pulled' \o left' = pulled'
      BY <1>2, <2>2, ConcatEmptySeq DEF Pull!ReadLayer
    <3>2. QED BY <2>3, <3>1 DEF OnImage, Pull!OneImage
  <2>5. Pull!TypeOK' /\ Tokens'
    BY <1>2 DEF Pull!TypeOK, Pull!ReadLayer, Tokens, Pull!registryVars, Pull!history
  <2>6. QED BY <1>2, <2>3, <2>4, <2>5 DEF Pull!ReadLayer
<1>3. CASE want # "layers" /\ Pull!ReadManifest(Pull!Named(ref)) /\ ~Pull!Fail
  <2> DEFINE d == Pull!Named(ref)
             m == Manifest[d]
  <2>1. d \in Digests
    BY RegistryAssumption DEF Pull!TypeOK, Pull!Named
  <2>2. CASE want = "top" /\ ~Pull!IsImage(d)
    <3>1. m \in [index : Seq([platform : Pull!Platform, digest : Digests])]
      BY <2>1, <2>2, RegistryAssumption DEF Pull!IsImage
    <3>2. Pull!OpenIndex(m.index)
      BY <1>3, <2>2 DEF Pull!ReadManifest
    <3>3. PICK i \in Pull!SelectPlatform(m.index, plat) :
            ref' = [tag |-> "", digest |-> m.index[i].digest]
      BY <1>3, <3>2 DEF Pull!OpenIndex
    <3>4. /\ i \in DOMAIN m.index
          /\ m.index[i] \in [platform : Pull!Platform, digest : Digests]
      <4> DEFINE E == [platform : Pull!Platform, digest : Digests]
                 x == m.index
      <4>1. x \in Seq(E) /\ i \in DOMAIN x
        BY <3>1, <3>3 DEF Pull!SelectPlatform
      <4> HIDE DEF E, x
      <4>2. x[i] \in E
        BY <4>1, ElementOfSeq, LenProperties
      <4>3. QED BY <4>1, <4>2 DEF E, x
    <3>5. m.index[i].digest \in Pull!Images(d, plat)
      BY <2>2, <3>3, <3>4 DEF Pull!Images, Pull!SelectPlatform
    <3>6. /\ want' = "platform" /\ pc' = "get" /\ pulled' = <<>>
          /\ UNCHANGED <<seen, plat, left, latest, challenge, cache, given, granted>>
          /\ hand' = "none"
      BY <1>3, <2>2, <3>2
      DEF Pull!OpenIndex, AtTop, Pull!registryVars, Pull!history
    <3>7. ref'.digest = m.index[i].digest /\ ref'.digest \in Digests /\ ref'.digest # None
      BY <3>3, <3>4, RegistryAssumption
    <3>8. AtPlatform'
      BY <2>2, <3>5, <3>6, <3>7 DEF AtPlatform, AtTop, Pull!Images, Pull!IsImage
    <3>9. Pull!TypeOK'
      BY <2>2, <3>3, <3>4, <3>6, <3>7 DEF Pull!TypeOK
    <3>10. QED BY <3>6, <3>8, <3>9 DEF Tokens, Pull!OneImage
  <2>3. CASE ~(want = "top" /\ ~Pull!IsImage(d))
    <3>1. want \in {"top", "platform"}
      BY <1>3 DEF Pull!TypeOK
    <3>2. Pull!IsImage(d) /\ Pull!OpenManifest(m.layers) /\ m.layers # <<>>
      BY <1>3, <2>3, <3>1 DEF Pull!ReadManifest, Pull!OpenManifest
    <3>3. m.layers \in Seq(STRING)
      <4>1. \/ m \in [layers : Seq(STRING)]
            \/ m \in [index : Seq([platform : Pull!Platform, digest : Digests])]
        BY <2>1, RegistryAssumption
      <4>2. "layers" \in DOMAIN m
        BY <3>2 DEF Pull!IsImage
      <4>3. QED BY <4>1, <4>2
    <3>4. /\ want' = "layers" /\ pc' = "get" /\ left' = m.layers /\ hand' = "none"
          /\ UNCHANGED <<seen, plat, ref, pulled, latest, challenge, cache, given, granted>>
      BY <1>3, <3>2 DEF Pull!OpenManifest, Pull!registryVars, Pull!history
    <3>5. pulled = <<>> /\ \E e \in seen : d \in Pull!Images(e, plat)
      <4>1. CASE want = "top"
        BY <3>2, <4>1 DEF AtTop, Pull!Images
      <4>2. CASE want = "platform"
        BY <4>2 DEF AtPlatform, Pull!Named
      <4>3. QED BY <3>1, <4>1, <4>2
    <3>6. pulled' \o left' = m.layers
      BY <3>3, <3>4, <3>5, ConcatEmptySeq
    <3>7. AtLayers'
      <4>1. pulled' \in Seq(STRING) /\ left' \in Seq(STRING)
        BY <3>3, <3>4, <3>5, EmptySeq
      <4>2. OnImage'
        BY <3>2, <3>4, <3>5, <3>6 DEF OnImage, Pull!Images, Pull!IsImage
      <4>3. QED BY <4>1, <4>2 DEF AtLayers
    <3>8. Pull!TypeOK'
      BY <3>2, <3>4 DEF Pull!TypeOK
    <3>9. QED BY <3>4, <3>7, <3>8 DEF Tokens, Pull!OneImage
  <2>4. QED BY <2>2, <2>3
<1>4. QED BY <1>1, <1>2, <1>3 DEF Pull!Respond

\* Nothing but tokens and the position changes.
Stays == UNCHANGED <<latest, challenge, ref, plat, want, left, pulled, given, seen>>

LEMMA WhileItStays ==
  ASSUME PInv, Stays, Pull!Active, Pull!Active', Tokens',
         cache' \in {"none", "good", "stale"}, hand' \in {"none", "good", "stale"},
         granted' \in {"none", "good", "stale"}
  PROVE  PInv'
<1> Pull!TypeOK
  BY DEF PInv
<1>1. Pull!TypeOK' /\ pc' # "done"
  BY DEF Stays, Pull!TypeOK, Pull!Active
<1>2. want = "top" => AtTop'
  BY DEF PInv, Stays, AtTop, Pull!Named
<1>3. want = "platform" => AtPlatform'
  BY DEF PInv, Stays, AtPlatform, Pull!Images, Pull!IsImage
<1>4. want = "layers" => AtLayers'
  BY DEF PInv, Stays, AtLayers, OnImage, Pull!Images, Pull!IsImage
<1>5. QED BY <1>1, <1>2, <1>3, <1>4 DEF PInv, Stays, Pull!OneImage

\* Each step of the pull, of the registry and of the process keeps the invariant.
LEMMA PullStep ==
  ASSUME PInv, Pull!Begin \/ Pull!Client \/ Pull!Die \/ Pull!Registry
  PROVE  PInv'
<1>1. CASE Pull!Begin
  <2>1. PICK w \in References, p \in Platforms :
          /\ ref' = Pull!ParseReference(w) /\ plat' = Pull!ParsePlatform(p)
          /\ pc' = IF p = Malformed THEN "failed" ELSE "get"
    BY <1>1 DEF Pull!Begin
  <2>2. ref' \in [tag : {"", "latest"}, digest : Digests \cup {None}]
    BY <2>1, RegistryAssumption DEF Pull!ParseReference
  <2>3. latest' \in Digests /\ Pull!Named(ref)' \in Digests
    BY <1>1, <2>2, RegistryAssumption DEF PInv, Pull!TypeOK, Pull!Begin, Pull!Named,
                                          Pull!registryVars
  <2>4. seen' = {Pull!Named(ref)'}
    BY <1>1 DEF Pull!Begin, Pull!Named, Pull!registryVars
  <2>5. Pull!TypeOK'
    BY <1>1, <2>1, <2>2, <2>3, <2>4
    DEF PInv, Pull!TypeOK, Pull!Begin, Pull!Active, Pull!Named, Pull!registryVars
  <2>6. QED
    BY <1>1, <2>1, <2>4, <2>5
    DEF PInv, Pull!Begin, Pull!OneImage, Tokens, AtTop, Pull!registryVars
<1>2. CASE Pull!Get
  <2>1. CASE Pull!Accepted /\ Pull!Respond
    BY <1>2, <2>1, PullResponds DEF Pull!Get, Pull!Active
  <2>2. CASE ~(Pull!Accepted /\ Pull!Respond) /\ ~Pull!Fail
    <3>1. /\ pc = "get" /\ pc' = "challenged" /\ cache # "good" /\ cache' = cache
          /\ Stays /\ UNCHANGED <<hand, granted>>
      BY <1>2, <2>2
      DEF Pull!Get, Pull!Accepted, Pull!registryVars, Pull!history, Stays
    <3>2. QED BY <3>1, WhileItStays DEF PInv, Pull!TypeOK, Tokens, Pull!Active, Stays
  <2>3. QED BY <2>1, <2>2, PullFails
<1>3. CASE Pull!FetchToken /\ ~Pull!Fail
  <2>1. /\ pc = "challenged" /\ pc' = "retry" /\ Stays
        /\ hand' = "good" /\ granted' = "good" /\ cache' \in {"good", cache}
        /\ challenge = "bearer" => cache' = "good"
    BY <1>3 DEF Pull!FetchToken, Pull!CacheToken, Pull!registryVars, Stays
  <2>2. QED BY <2>1, WhileItStays DEF PInv, Pull!TypeOK, Tokens, Pull!Active, Stays
<1>4. CASE Pull!Retry
  BY <1>4, PullFails, PullResponds DEF Pull!Retry, Pull!Active
<1>5. CASE Pull!Over
  BY <1>5 DEF Pull!Over, PInv, Pull!TypeOK, Pull!OneImage, Pull!Active, Tokens,
              Pull!registryVars
<1>6. CASE Pull!Expire
  <2>1. /\ Pull!Active /\ pc' = pc /\ Stays
        /\ granted = "good" /\ granted' = "stale"
        /\ cache' = Pull!Stale(cache) /\ hand' = Pull!Stale(hand)
    BY <1>6 DEF Pull!Expire, Pull!registryVars, Stays
  <2>2. QED BY <2>1, WhileItStays DEF PInv, Pull!TypeOK, Tokens, Pull!Active, Pull!Stale, Stays
<1>7. CASE \E d \in Pushed : Pull!Push(d)
  <2>1. PICK d \in Pushed : Pull!Push(d)
    BY <1>7
  <2>2. /\ seen \subseteq seen' /\ seen' \subseteq Digests /\ latest' = d
        /\ Pull!Active /\ given.digest = None => d \in seen'
        /\ UNCHANGED <<challenge, pc, ref, plat, want, left, pulled, cache, hand,
                       given, granted>>
    BY <2>1, RegistryAssumption DEF Pull!Push, Pull!clientVars, PInv, Pull!TypeOK
  <2> Pull!TypeOK
    BY DEF PInv
  <2>3. Pull!TypeOK'
    <3>1. Pull!Active /\ ref.digest = None => ref = given /\ d \in seen'
      BY <2>2 DEF Pull!TypeOK
    <3>2. (Pull!Active /\ ref.digest = None => ref = given /\ latest \in seen)'
      BY <2>2, <3>1 DEF Pull!Active
    <3>3. (Pull!Active => (want = "layers" <=> left # <<>>))'
      BY <2>2 DEF Pull!TypeOK, Pull!Active
    <3> DEFINE Refs == [tag : {"", "latest"}, digest : Digests \cup {None}]
    <3>4. ref' \in Refs /\ given' \in Refs
      BY <2>2 DEF Pull!TypeOK
    <3>5. /\ latest' \in Pushed /\ challenge' \in Challenges
          /\ pc' \in {"idle", "get", "challenged", "retry", "done", "failed"}
          /\ want' \in {"top", "platform", "layers"} /\ seen' \subseteq Digests
          /\ cache' \in {"none", "good", "stale"} /\ hand' \in {"none", "good", "stale"}
          /\ granted' \in {"none", "good", "stale"}
      BY <2>2 DEF Pull!TypeOK
    <3>6. QED BY <3>2, <3>3, <3>4, <3>5 DEF Pull!TypeOK
  <2>4. Pull!Active /\ want = "top" => AtTop'
    BY <2>2, <2>3 DEF PInv, AtTop, Pull!Named, Pull!TypeOK, Pull!Active
  <2>5. Pull!Active /\ want = "platform" => AtPlatform'
    BY <2>2 DEF PInv, AtPlatform, Pull!Images, Pull!IsImage
  <2>6. Pull!Active /\ want = "layers" => AtLayers'
    <3>1. ASSUME OnImage PROVE OnImage'
      <4>1. PICK e \in seen : \E i \in Pull!Images(e, plat) :
              Pull!IsImage(i) /\ pulled \o left = Manifest[i].layers
        BY <3>1 DEF OnImage
      <4>2. e \in seen' /\ plat' = plat /\ pulled' \o left' = pulled \o left
        BY <2>2, <4>1
      <4>3. QED BY <4>1, <4>2 DEF OnImage, Pull!Images, Pull!IsImage
    <3>2. QED BY <2>2, <3>1 DEF PInv, AtLayers
  <2>7. Pull!OneImage'
    <3>1. Pull!OneImage
      BY DEF PInv
    <3>2. SUFFICES ASSUME pc' = "done" PROVE Pull!OneImage'
      BY DEF Pull!OneImage
    <3>3. PICK e \in seen : \E i \in Pull!Images(e, plat) :
            Pull!IsImage(i) /\ pulled = Manifest[i].layers
      BY <2>2, <3>1, <3>2 DEF Pull!OneImage
    <3>4. e \in seen' /\ plat' = plat /\ pulled' = pulled
      BY <2>2, <3>3
    <3>5. QED BY <3>3, <3>4 DEF Pull!OneImage, Pull!Images, Pull!IsImage
  <2>8. QED BY <2>2, <2>3, <2>4, <2>5, <2>6, <2>7 DEF PInv, Pull!Active, Tokens
<1>8. QED
  BY <1>1, <1>2, <1>3, <1>4, <1>5, <1>6, <1>7, PullFails
  DEF Pull!Client, Pull!Registry, Pull!Return, Pull!Die, Pull!FetchToken

(***************************************************************************)
(* The two together.                                                       *)
(***************************************************************************)

EInv == PInv /\ RInv /\ (pc = "idle" \/ stage = "idle")

LEMMA Invariance == Spec => []EInv
<1>1. Init => EInv
  BY PullInit, RepoInit DEF Init, EInv, Pull!Init
<1>2. EInv /\ [Next]_vars => EInv'
  <2> SUFFICES ASSUME EInv, [Next]_vars PROVE EInv'
    OBVIOUS
  <2>1. CASE /\ Pull!Begin \/ Pull!Client \/ Pull!Die \/ Pull!Registry
             /\ UNCHANGED repoVars /\ (pc # "idle" \/ Idle \/ Pull!Registry)
    <3>1. PInv' /\ RInv'
      BY <2>1, PullStep, RepoStutter DEF EInv
    <3>2. stage' = stage /\ (Pull!Registry => pc' = pc)
      BY <2>1 DEF repoVars, Pull!Registry, Pull!Expire, Pull!Push, Pull!clientVars
    <3>3. QED BY <2>1, <3>1, <3>2 DEF EInv, Idle
  <2>2. CASE /\ \/ Repo!Begin \/ Repo!Scanner \/ Repo!Die
                \/ \E c \in Commits : Repo!Commit(c)
             /\ UNCHANGED imageVars
             /\ (stage # "idle" \/ Idle \/ \E c \in Commits : Repo!Commit(c))
    <3>1. PInv' /\ RInv'
      BY <2>2, RepoStep, PullStutter DEF EInv
    <3>2. pc' = pc /\ ((\E c \in Commits : Repo!Commit(c)) => stage' = stage)
      BY <2>2 DEF imageVars, Repo!Commit
    <3>3. QED BY <2>2, <3>1, <3>2 DEF EInv, Idle
  <2>3. CASE UNCHANGED vars
    BY <2>3, PullStutter, RepoStutter DEF EInv, vars, imageVars, repoVars
  <2>4. Pull!Client \/ Pull!Die => pc # "idle"
    BY DEF Pull!Client, Pull!Die, Pull!Active, Pull!Get, Pull!FetchToken, Pull!Retry,
           Pull!Return
  <2>5. Repo!Scanner \/ Repo!Die => stage # "idle"
    BY DEF Repo!Scanner, Repo!Die, Repo!Running, Repo!RequestFails, Repo!Download,
           Repo!ExtractFails, Repo!ExtractEnds, Repo!ExtractEntry, Repo!ScanCode,
           Repo!ScanDeps, Repo!Return
  <2>6. QED
    BY <2>1, <2>2, <2>3, <2>4, <2>5
    DEF Next, ScanImage, ScanRepo, InImage, InRepo, Outside, Die
<1>3. QED BY <1>1, <1>2, PTL DEF Spec

\* Every variable keeps its type, and one scan runs at a time (executeScan).
THEOREM TypeCorrect == Spec => []TypeOK
<1>1. EInv => TypeOK
  BY DEF EInv, PInv, RInv, TypeOK
<1>2. QED BY <1>1, Invariance, PTL

\* For every repository of images, however often its tags are pushed meanwhile, a pull
\* ends with all layers of one image the reference named during it (ScanImage).
THEOREM PullsAreOneImage == Spec => []OneImage
<1>1. EInv => OneImage
  BY DEF EInv, PInv, OneImage
<1>2. QED BY <1>1, Invariance, PTL

\* A token is fetched again only after it has expired, when the registry challenges
\* with the scope of the pull (authedGet, cacheToken).
THEOREM TokensServe == Spec => TokensAreReused
<1>1. EInv /\ [Next]_vars =>
        [challenge = "bearer" /\ pc = "challenged" /\ pc' = "retry" => granted # "good"]_(Pull!vars)
  BY DEF EInv, PInv, Tokens
<1>2. QED BY <1>1, Invariance, PTL DEF Spec, TokensAreReused, Pull!TokensAreReused

\* Whatever archive there is and wherever the scan fails, the temporary directories
\* are those of the running scan, of scans whose process died, and those that could not
\* be removed (downloadAndExtract, executeScan).
THEOREM DirectoriesAreOwned == Spec => []DirsAreOwned
<1>1. EInv => DirsAreOwned
  BY DEF EInv, RInv, DirsAreOwned
<1>2. QED BY <1>1, Invariance, PTL

-----------------------------------------------------------------------------
(***************************************************************************)
(* ExecuteScan implements ScanPromise: each step is a step of it, or none. *)
(***************************************************************************)

(***************************************************************************)
(* What is known of the scan beyond EInv.                                  *)
(***************************************************************************)

\* What is being pulled was asked for, and the manifest it names was shown.
PullTells == Pull!Active => /\ <<"image", given, plat>> \in Asked
                            /\ Pull!Named(given) \in seen

Regular(s) == {s[i].path : i \in {j \in DOMAIN s : s[j].type = "reg"}}

\* What has been extracted, and what is still to be, is one commit's; what has been
\* found so far is what its files have.
RepoTells ==
  /\ stage \notin {"extract", "code", "deps"} => disk = {}
  /\ stage = "extract" => \E c \in heads : disk \cup Regular(entries) = Repo!Files(c)
  /\ stage = "code" => \E c \in heads : disk = Repo!Files(c)
  /\ stage = "deps" => \E c \in heads : /\ disk = Repo!Files(c)
                                        /\ found = Repo!CodeFindings(disk)

\* A step of the pull goes on with the same question, or ends the pull.
LEMMA ClientKeeps ==
  ASSUME Pull!Client \/ Pull!Die
  PROVE  /\ latest' = latest
         /\ Pull!Active' => Pull!Active
         /\ Pull!Active /\ pc' # "idle" => UNCHANGED <<given, plat, seen>>
         /\ ~Pull!Active => pc' = "idle"
BY DEF Pull!Client, Pull!Die, Pull!Get, Pull!FetchToken, Pull!Retry, Pull!Return,
       Pull!Over, Pull!Respond, Pull!ReadManifest, Pull!OpenIndex, Pull!OpenManifest,
       Pull!ReadLayer, Pull!Fail, Pull!registryVars, Pull!history, Pull!Active

\* What the registry does leaves the pull where it is, and shows where the tag points.
LEMMA RegistryShows ==
  ASSUME EInv, PullTells, Pull!Registry
  PROVE  /\ UNCHANGED <<pc, given, plat, pulled>>
         /\ Pull!Active => seen' = seen \cup {Pull!Named(given)'}
<1>1. CASE Pull!Expire
  BY <1>1 DEF PullTells, Pull!Expire, Pull!registryVars, Pull!Named
<1>2. ASSUME NEW d \in Pushed, Pull!Push(d)
      PROVE  /\ UNCHANGED <<pc, given, plat, pulled>>
             /\ Pull!Active => seen' = seen \cup {Pull!Named(given)'}
  BY <1>2 DEF PullTells, Pull!Push, Pull!clientVars, Pull!Named
<1>3. QED BY <1>1, <1>2 DEF Pull!Registry

LEMMA PullTellsBegin ==
  ASSUME EInv, Pull!Begin
  PROVE  PullTells'
<1>1. PICK w \in References, p \in Platforms :
        /\ ref' = Pull!ParseReference(w) /\ plat' = Pull!ParsePlatform(p)
        /\ pc' = IF p = Malformed THEN "failed" ELSE "get"
  BY DEF Pull!Begin
<1>2. given' = ref' /\ seen' = {Pull!Named(given)'} /\ latest' = latest
  BY DEF Pull!Begin, Pull!Named, Pull!registryVars
<1>3. Pull!Active' => p # Malformed
  BY <1>1 DEF Pull!Active
<1>4. p # Malformed => <<"image", given', plat'>> \in Asked
  BY <1>1, <1>2 DEF Asked
<1>5. QED BY <1>2, <1>3, <1>4 DEF PullTells

LEMMA PullTellsStep ==
  ASSUME EInv, PullTells, [Next]_vars
  PROVE  PullTells'
<1>1. CASE Pull!Begin
  BY <1>1, PullTellsBegin
<1>2. CASE Pull!Client \/ Pull!Die
  <2>1. Pull!Active' => pc' # "idle"
    BY DEF Pull!Active
  <2>2. QED BY <1>2, <2>1, ClientKeeps DEF PullTells, Pull!Named
<1>3. CASE Pull!Registry
  <2>1. Pull!Active' <=> Pull!Active
    BY <1>3, RegistryShows DEF Pull!Active
  <2>2. QED BY <1>3, <2>1, RegistryShows DEF PullTells
<1>4. CASE UNCHANGED imageVars
  BY <1>4 DEF PullTells, imageVars, Pull!Active, Pull!Named
<1>5. QED
  BY <1>1, <1>2, <1>3, <1>4
  DEF Next, ScanImage, ScanRepo, InImage, InRepo, Outside, Die, vars

\* One entry less to be extracted.
LEMMA OneEntry ==
  ASSUME NEW s \in Seq(Repo!Entry), s # <<>>
  PROVE  /\ Head(s).type = "reg"  => Regular(s) = {Head(s).path} \cup Regular(Tail(s))
         /\ Head(s).type # "reg" => Regular(s) = Regular(Tail(s))
<1> DEFINE t == Tail(s)
<1>1. /\ Len(s) \in Nat \ {0} /\ Len(t) = Len(s) - 1 /\ Head(s) = s[1]
      /\ DOMAIN s = 1..Len(s) /\ DOMAIN t = 1..Len(t)
      /\ \A i \in 1..Len(t) : t[i] = s[i + 1]
  BY HeadTailProperties, LenProperties, EmptySeq
<1> HIDE DEF t
<1>2. ASSUME NEW x \in Regular(t) PROVE x \in Regular(s)
  <2>1. PICK i \in 1..Len(t) : t[i].type = "reg" /\ x = t[i].path
    BY <1>1, <1>2 DEF Regular
  <2>2. i + 1 \in DOMAIN s /\ s[i + 1] = t[i]
    BY <1>1, <2>1
  <2>3. QED BY <2>1, <2>2 DEF Regular
<1>3. ASSUME NEW x \in Regular(s), ~(x = s[1].path /\ s[1].type = "reg")
      PROVE  x \in Regular(t)
  <2>1. PICK i \in 1..Len(s) : s[i].type = "reg" /\ x = s[i].path
    BY <1>1, <1>3 DEF Regular
  <2>2. i - 1 \in DOMAIN t /\ t[i - 1] = s[i]
    BY <1>1, <1>3, <2>1
  <2>3. QED BY <2>1, <2>2 DEF Regular
<1>4. s[1].type = "reg" => s[1].path \in Regular(s)
  <2>1. 1 \in DOMAIN s
    BY <1>1
  <2>2. QED BY <2>1 DEF Regular
<1>5. QED BY <1>1, <1>2, <1>3, <1>4 DEF t

\* Each step of a scan of a repository keeps it.
LEMMA RepoTellsScan ==
  ASSUME EInv, RepoTells, Repo!Scanner
  PROVE  RepoTells'
<1> RInv /\ Repo!TypeOK
  BY DEF EInv, RInv
<1>1. CASE Repo!RequestFails
  BY <1>1 DEF RepoTells, Repo!RequestFails, Repo!Fails
<1>2. CASE Repo!Download
  <2>1. head \in heads /\ disk = {}
    BY <1>2 DEF Repo!Download, Repo!TypeOK, Repo!Running, RepoTells
  <2>2. Regular(Archive[head]) = Repo!Files(head)
    BY DEF Regular, Repo!Files
  <2>3. stage' = "extract" /\ heads' = heads /\ disk' = disk /\ entries' = Archive[head]
    BY <1>2 DEF Repo!Download, Repo!history
  <2>4. disk' \cup Regular(entries') = Repo!Files(head)
    BY <2>1, <2>2, <2>3
  <2>5. QED BY <2>1, <2>3, <2>4 DEF RepoTells, Repo!Files, Regular
<1>3. CASE Repo!ExtractFails
  BY <1>3 DEF RepoTells, Repo!ExtractFails, Repo!Fails, Repo!RemoveAll, Repo!Leave
<1>4. CASE Repo!ExtractEnds
  <2>1. Regular(entries) = {}
    BY <1>4 DEF Repo!ExtractEnds, Regular
  <2>2. \E c \in heads : disk = Repo!Files(c)
    BY <1>4, <2>1 DEF RepoTells, Repo!ExtractEnds
  <2>3. QED BY <1>4, <2>2 DEF RepoTells, Repo!ExtractEnds, Repo!history, Repo!Files
<1>5. CASE Repo!ExtractEntry
  <2>1. CASE stage' = "failed"
    BY <1>5, <2>1
    DEF RepoTells, Repo!ExtractEntry, Repo!RemoveAll, Repo!Leave
  <2>2. CASE stage' # "failed"
    <3>1. /\ stage = "extract" /\ stage' = "extract" /\ heads' = heads
          /\ entries # <<>> /\ entries' = Tail(entries)
      BY <1>5, <2>2 DEF Repo!ExtractEntry, Repo!Fails, Repo!history
    <3>2. disk' = IF Head(entries).type = "reg" THEN disk \cup {Head(entries).path} ELSE disk
      BY <1>5, <2>2 DEF Repo!ExtractEntry, Repo!Fails
    <3>3. disk' \cup Regular(entries') = disk \cup Regular(entries)
      BY <3>1, <3>2, OneEntry DEF RInv
    <3>4. \E c \in heads' : disk' \cup Regular(entries') = Repo!Files(c)
      BY <3>1, <3>3 DEF RepoTells
    <3>5. QED BY <3>1, <3>4 DEF RepoTells, Repo!Files, Regular
  <2>3. QED BY <2>1, <2>2
<1>6. CASE Repo!ScanCode
  <2>1. PICK c \in heads : disk = Repo!Files(c)
    BY <1>6 DEF RepoTells, Repo!ScanCode
  <2>2. /\ stage' = "deps" /\ heads' = heads /\ disk' = disk
        /\ found' = Repo!CodeFindings(disk)
    BY <1>6 DEF Repo!ScanCode, Repo!history
  <2>3. QED BY <2>1, <2>2 DEF RepoTells, Repo!Files, Repo!CodeFindings, Repo!Walked
<1>7. CASE Repo!ScanDeps
  BY <1>7 DEF RepoTells, Repo!ScanDeps, Repo!RemoveAll, Repo!Leave
<1>8. CASE Repo!Return
  BY <1>8 DEF RepoTells, Repo!Return
<1>9. QED
  BY <1>1, <1>2, <1>3, <1>4, <1>5, <1>6, <1>7, <1>8 DEF Repo!Scanner

LEMMA RepoTellsStep ==
  ASSUME EInv, RepoTells, [Next]_vars
  PROVE  RepoTells'
<1>1. CASE Repo!Begin
  BY <1>1 DEF RepoTells, Repo!Begin
<1>2. CASE Repo!Scanner
  BY <1>2, RepoTellsScan
<1>3. CASE Repo!Die
  BY <1>3 DEF RepoTells, Repo!Die, Repo!Leave
<1>4. CASE \E c \in Commits : Repo!Commit(c)
  <2>1. UNCHANGED <<stage, entries, disk, found>> /\ (Repo!Running => heads \subseteq heads')
    BY <1>4 DEF Repo!Commit
  <2>2. QED
    BY <2>1 DEF RepoTells, Repo!Files, Repo!Running, Regular, Repo!CodeFindings, Repo!Walked
<1>5. CASE UNCHANGED repoVars
  BY <1>5 DEF RepoTells, repoVars, Repo!Files, Regular, Repo!CodeFindings, Repo!Walked
<1>6. QED
  BY <1>1, <1>2, <1>3, <1>4, <1>5
  DEF Next, ScanImage, ScanRepo, InImage, InRepo, Outside, Die, vars

LEMMA Told == Spec => [](EInv /\ PullTells /\ RepoTells)
<1>1. Init => PullTells /\ RepoTells
  BY DEF Init, Pull!Init, Repo!Init, PullTells, RepoTells, Pull!Active
<1>2. EInv /\ PullTells /\ RepoTells /\ [Next]_vars => PullTells' /\ RepoTells'
  BY PullTellsStep, RepoTellsStep
<1>3. QED BY <1>1, <1>2, Invariance, PTL DEF Spec

(***************************************************************************)
(* What the promise sees of a state.                                       *)
(***************************************************************************)

Reads ==
  /\ Pull!Active => /\ Scanned = <<"image", given, plat>> /\ ~Repo!Running
                    /\ Shown = {<<"image", d, plat>> : d \in seen}
  /\ Repo!Running => /\ Scanned = <<"repo">> /\ ~Pull!Active
                     /\ Shown = {<<"commit", c>> : c \in heads}
  /\ ~Pull!Active /\ ~Repo!Running => Scanned = Nothing /\ Shown = {}
  /\ pc = "done" => Answer = <<"image", pulled>>
  /\ stage = "return" => Answer = <<"repo", found>>
  /\ pc # "done" /\ stage # "return" => Answer = NoReport
  /\ Scanned = Nothing <=> ~Pull!Active /\ ~Repo!Running

LEMMA Reading == EInv => Reads
  BY DEF EInv, Reads, Scanned, Shown, Answer, Nothing, Pull!Active, Repo!Running

LEMMA ReadingNext == EInv' => Reads'
  BY Reading, PTL

\* What each thing's current version is.
LEMMA TipIs ==
  /\ \A t \in Things : Tips[t] = Tip(t)
  /\ \A t \in Asked : Tip(t) = <<"image", Pull!Named(t[2]), t[3]>>
  /\ Tip(<<"repo">>) = <<"commit", head>>
  BY DEF Tips, Tip, Asked

LEMMA TipIsNext ==
  /\ \A t \in Things : Tips'[t] = Tip(t)'
  /\ \A t \in Asked : Tip(t)' = <<"image", Pull!Named(t[2])', t[3]>>
  /\ Tip(<<"repo">>)' = <<"commit", head'>>
  BY DEF Tips, Tip, Asked

Typed == Tips \in [Things -> Versions]

LEMMA TipsTyped == EInv => Typed
<1> SUFFICES ASSUME EInv PROVE Typed
  OBVIOUS
<1>1. latest \in Digests /\ head \in Commits
  BY RegistryAssumption DEF EInv, PInv, RInv, Pull!TypeOK, Repo!TypeOK
<1>2. ASSUME NEW t \in Asked PROVE Tip(t) \in Versions
  <2>1. PICK r \in References, p \in Platforms \ {Malformed} :
          t = <<"image", Pull!ParseReference(r), Pull!ParsePlatform(p)>>
    BY DEF Asked
  <2>2. t[2].digest \in Digests \cup {None}
    BY <2>1, RegistryAssumption DEF Pull!ParseReference
  <2>3. Pull!Named(t[2]) \in Digests
    BY <1>1, <2>2 DEF Pull!Named
  <2>4. QED BY <2>3, TipIs DEF Versions
<1>3. Tip(<<"repo">>) \in Versions
  BY <1>1, TipIs DEF Versions
<1>4. QED BY <1>2, <1>3 DEF Typed, Tips, Things

LEMMA TipsTypedNext == EInv' => Tips' \in [Things -> Versions]
<1>1. EInv' => Typed'
  BY TipsTyped, PTL
<1>2. QED BY <1>1 DEF Typed, Things, Versions, Asked

LEMMA Quiet == ASSUME latest' = latest, head' = head PROVE Tips' = Tips
  BY DEF Tips, Tip, Pull!Named

(***************************************************************************)
(* Each kind of step.                                                      *)
(***************************************************************************)

\* A scan ends without a report, or its caller takes the answer.
LEMMA EndsWithError ==
  ASSUME EInv, EInv', Pull!Active \/ Repo!Running, latest' = latest, head' = head,
         ~Pull!Active', ~Repo!Running', pc' # "done", stage' # "return"
  PROVE  Promise!Fail
<1>1. Scanned # Nothing /\ Scanned' = Nothing /\ Shown' = {} /\ Answer' = NoReport
  BY Reading, ReadingNext DEF Reads
<1>2. QED BY <1>1, Quiet DEF Promise!Fail, Promise!Ends

LEMMA Taken ==
  ASSUME EInv, EInv', ~Pull!Active, ~Repo!Running, latest' = latest, head' = head,
         pc' = "idle", stage' = "idle"
  PROVE  Promise!Take
<1>1. /\ Scanned = Nothing /\ Shown = {} /\ Scanned' = Nothing /\ Shown' = {}
      /\ Answer' = NoReport
  BY Reading, ReadingNext DEF Reads, Pull!Active, Repo!Running
<1>2. QED BY <1>1, Quiet DEF Promise!Take

\* A scan goes on.
LEMMA GoesOn ==
  ASSUME EInv, EInv', latest' = latest, head' = head, given' = given, plat' = plat,
         seen' = seen, heads' = heads,
         \/ Pull!Active /\ Pull!Active'
         \/ Repo!Running /\ Repo!Running'
  PROVE  UNCHANGED Promise!vars
<1>1. Scanned' = Scanned /\ Shown' = Shown /\ Answer' = NoReport /\ Answer = NoReport
  BY Reading, ReadingNext DEF Reads, Pull!Active, Repo!Running, EInv
<1>2. QED BY <1>1, Quiet DEF Promise!vars

\* An image has been pulled.
LEMMA ImageSucceeds ==
  ASSUME EInv, EInv', PullTells, Pull!Active, latest' = latest, head' = head,
         plat' = plat, seen' = seen, pc' = "done", stage' = "idle"
  PROVE  Promise!Succeed
<1>1. /\ Scanned # Nothing /\ Scanned' = Nothing /\ Shown' = {}
      /\ Answer' = <<"image", pulled'>> /\ Shown = {<<"image", d, plat>> : d \in seen}
  BY Reading, ReadingNext DEF Reads, Pull!Active, Repo!Running
<1>2. PICK d \in seen : \E i \in Pull!Images(d, plat) :
                          Pull!IsImage(i) /\ pulled' = Manifest[i].layers
  BY DEF EInv, PInv, Pull!OneImage, Pull!Images, Pull!IsImage
<1> DEFINE v == <<"image", d, plat>>
<1>3. v \in Shown
  BY <1>1
<1>4. v \in Versions
  <2>1. d \in Digests /\ <<"image", given, plat>> \in Asked
    BY DEF EInv, PInv, Pull!TypeOK, PullTells
  <2>2. <<"image", given, plat>>[3] = plat
    OBVIOUS
  <2>3. QED BY <2>1, <2>2 DEF Versions
<1>5. Rights(v) = {<<"image", Manifest[i].layers>> :
                     i \in {j \in Pull!Images(d, plat) : Pull!IsImage(j)}}
  BY DEF Rights
<1>6. <<"image", pulled'>> \in Rights(v)
  BY <1>2, <1>5
<1>7. Reports[v] = Rights(v)
  BY <1>4 DEF Reports
<1>8. QED BY <1>1, <1>3, <1>6, <1>7, Quiet DEF Promise!Succeed, Promise!Ends

\* A repository has been walked.
LEMMA RepoSucceeds ==
  ASSUME EInv, EInv', RepoTells, stage = "deps", stage' = "return", pc' = "idle",
         latest' = latest, head' = head,
         found' = Dedup(found \cup Repo!DepFindings(disk))
  PROVE  Promise!Succeed
<1>1. /\ Scanned # Nothing /\ Scanned' = Nothing /\ Shown' = {}
      /\ Answer' = <<"repo", found'>> /\ Shown = {<<"commit", c>> : c \in heads}
  BY Reading, ReadingNext DEF Reads, Pull!Active, Repo!Running
<1>2. PICK c \in heads : disk = Repo!Files(c) /\ found = Repo!CodeFindings(disk)
  BY DEF RepoTells
<1>3. found' = Repo!RepoReport(c)
  BY <1>2 DEF Repo!RepoReport
<1> DEFINE v == <<"commit", c>>
<1>4. v \in Shown /\ v \in Versions
  BY <1>1 DEF Versions, EInv, RInv, Repo!TypeOK
<1>5. Reports[v] = {<<"repo", Repo!RepoReport(c)>>}
  BY <1>4 DEF Reports, Rights
<1>6. QED BY <1>1, <1>3, <1>4, <1>5, Quiet DEF Promise!Succeed, Promise!Ends

\* Someone pushes.
LEMMA Moves ==
  ASSUME EInv, EInv', PullTells, UNCHANGED <<pc, stage, given, plat, pulled, found>>,
         Pull!Active => seen' = seen \cup {Pull!Named(given)'},
         Repo!Running => heads' = heads \cup {head'}
  PROVE  Promise!Move
<1>1. Pull!Active' = Pull!Active /\ Repo!Running' = Repo!Running
  BY DEF Pull!Active, Repo!Running
<1>2. Answer' = Answer /\ Scanned' = Scanned
  BY <1>1 DEF Answer, Scanned, NoReport, Nothing
<1>3. CASE Pull!Active
  <2>1. Tips'[Scanned] = <<"image", Pull!Named(given)', plat>>
    <3> DEFINE t == <<"image", given, plat>>
    <3>1. Scanned = t /\ t \in Asked /\ t[2] = given /\ t[3] = plat
      BY <1>3, Reading DEF Reads, PullTells
    <3>2. Tips'[t] = Tip(t)' /\ Tip(t)' = <<"image", Pull!Named(t[2])', t[3]>>
      BY <3>1, TipIsNext DEF Things
    <3>3. QED BY <3>1, <3>2 DEF Pull!Named
  <2>2. Shown' = Shown \cup {Tips'[Scanned]}
    BY <1>1, <1>3, <2>1, Reading, ReadingNext DEF Reads
  <2>3. QED BY <1>2, <1>3, <2>2, Reading, TipsTypedNext DEF Reads, Promise!Move
<1>4. CASE Repo!Running
  <2>1. Tips'[Scanned] = <<"commit", head'>>
    BY <1>4, Reading, TipIsNext DEF Reads, Things
  <2>2. Shown' = Shown \cup {Tips'[Scanned]}
    BY <1>1, <1>4, <2>1, Reading, ReadingNext DEF Reads
  <2>3. QED BY <1>2, <1>4, <2>2, Reading, TipsTypedNext DEF Reads, Promise!Move
<1>5. CASE ~Pull!Active /\ ~Repo!Running
  BY <1>1, <1>2, <1>5, Reading, ReadingNext, TipsTypedNext DEF Reads, Promise!Move
<1>6. QED BY <1>3, <1>4, <1>5

\* A scan begins, or fails at once.
LEMMA ImageBegins ==
  ASSUME EInv, EInv', PullTells', Idle, Pull!Begin, UNCHANGED repoVars
  PROVE  [Promise!Next]_(Promise!vars)
<1>1. /\ pc' \in {"get", "failed"} /\ seen' = {Pull!Named(given)'}
      /\ latest' = latest /\ head' = head /\ stage' = "idle"
  BY DEF Pull!Begin, Pull!Named, Pull!registryVars, repoVars, Idle
<1>2. /\ Scanned = Nothing /\ Shown = {} /\ Answer = NoReport /\ Answer' = NoReport
      /\ Tips' = Tips
  BY <1>1, Reading, ReadingNext, Quiet DEF Reads, Idle, Pull!Active, Repo!Running
<1>3. CASE pc' = "failed"
  <2>1. Scanned' = Nothing /\ Shown' = {}
    BY <1>1, <1>3, ReadingNext DEF Reads, Pull!Active, Repo!Running
  <2>2. QED BY <1>2, <2>1 DEF Promise!vars
<1>4. CASE pc' = "get"
  <2>0. PICK g, p : g = given' /\ p = plat'
    OBVIOUS
  <2> DEFINE t == <<"image", g, p>>
  <2>1. Pull!Active'
    BY <1>4 DEF Pull!Active
  <2>2. Scanned' = t /\ Shown' = {<<"image", d, p>> : d \in seen'}
    BY <2>0, <2>1, ReadingNext DEF Reads
  <2>3. t \in Asked /\ t[2] = g /\ t[3] = p
    BY <2>0, <2>1 DEF PullTells, Asked
  <2>4. Tips'[t] = Tip(t)' /\ Tip(t)' = <<"image", Pull!Named(t[2])', t[3]>>
    BY <2>3, TipIsNext DEF Things
  <2>5. Shown' = {Tips[Scanned']}
    BY <1>1, <1>2, <2>0, <2>2, <2>3, <2>4 DEF Pull!Named
  <2>6. QED BY <1>2, <2>2, <2>3, <2>5 DEF Promise!Next, Promise!Begin, Things
<1>5. QED BY <1>1, <1>3, <1>4

LEMMA RepoBegins ==
  ASSUME EInv, EInv', Idle, Repo!Begin, UNCHANGED imageVars
  PROVE  [Promise!Next]_(Promise!vars)
<1>1. /\ stage' \in {"request", "failed"} /\ heads' = {head}
      /\ latest' = latest /\ head' = head /\ pc' = "idle"
  BY DEF Repo!Begin, imageVars, Idle
<1>2. /\ Scanned = Nothing /\ Shown = {} /\ Answer = NoReport /\ Answer' = NoReport
      /\ Tips' = Tips
  BY <1>1, Reading, ReadingNext, Quiet DEF Reads, Idle, Pull!Active, Repo!Running
<1>3. CASE stage' = "failed"
  <2>1. Scanned' = Nothing /\ Shown' = {}
    BY <1>1, <1>3, ReadingNext DEF Reads, Pull!Active, Repo!Running
  <2>2. QED BY <1>2, <2>1 DEF Promise!vars
<1>4. CASE stage' = "request"
  <2>1. Scanned' = <<"repo">> /\ Shown' = {<<"commit", c>> : c \in heads'}
    BY <1>4, ReadingNext DEF Reads, Repo!Running
  <2>2. <<"repo">> \in Things /\ Tips[<<"repo">>] = <<"commit", head>>
    BY TipIs DEF Things
  <2>3. Shown' = {Tips[Scanned']}
    BY <1>1, <2>1, <2>2
  <2>4. QED BY <1>2, <2>1, <2>2, <2>3 DEF Promise!Next, Promise!Begin
<1>5. QED BY <1>1, <1>3, <1>4

\* A step of the pull.
LEMMA ImageSteps ==
  ASSUME EInv, EInv', PullTells, Pull!Client \/ Pull!Die, UNCHANGED repoVars
  PROVE  [Promise!Next]_(Promise!vars)
<1>1. /\ latest' = latest /\ (Pull!Active' => Pull!Active)
      /\ Pull!Active /\ pc' # "idle" => UNCHANGED <<given, plat, seen>>
      /\ ~Pull!Active => pc' = "idle"
  BY ClientKeeps
<1>2. pc # "idle"
  BY DEF Pull!Client, Pull!Die, Pull!Active, Pull!Get, Pull!FetchToken, Pull!Retry,
         Pull!Return
<1>3. stage' = "idle" /\ head' = head /\ heads' = heads /\ ~Repo!Running'
  BY <1>2 DEF EInv, repoVars, Repo!Running
<1>4. CASE Pull!Active'
  <2>1. pc' # "idle"
    BY <1>4 DEF Pull!Active
  <2>2. QED BY <1>1, <1>3, <1>4, <2>1, GoesOn
<1>5. CASE pc' = "done"
  <2>1. Pull!Active
    BY <1>1, <1>5
  <2>2. QED BY <1>1, <1>3, <1>5, <2>1, ImageSucceeds DEF Promise!Next
<1>6. CASE ~Pull!Active' /\ pc' # "done" /\ Pull!Active
  BY <1>1, <1>3, <1>6, EndsWithError DEF Promise!Next
<1>7. CASE ~Pull!Active
  <2>1. ~Repo!Running
    BY <1>2 DEF EInv, Repo!Running
  <2>2. QED BY <1>1, <1>3, <1>7, <2>1, Taken DEF Promise!Next
<1>8. QED BY <1>4, <1>5, <1>6, <1>7

\* A step of the scan of a repository.
LEMMA RepoSteps ==
  ASSUME EInv, EInv', RepoTells, Repo!Scanner \/ Repo!Die, UNCHANGED imageVars
  PROVE  [Promise!Next]_(Promise!vars)
<1>1. stage # "idle"
  BY DEF Repo!Scanner, Repo!Die, Repo!Running, Repo!RequestFails, Repo!Download,
         Repo!ExtractFails, Repo!ExtractEnds, Repo!ExtractEntry, Repo!ScanCode,
         Repo!ScanDeps, Repo!Return
<1>2. pc = "idle" /\ pc' = "idle" /\ ~Pull!Active /\ ~Pull!Active'
      /\ UNCHANGED <<latest, given, plat, seen>>
  BY <1>1 DEF EInv, imageVars, Pull!Active
<1>3. head' = head
  BY DEF Repo!Scanner, Repo!Die, Repo!RequestFails, Repo!Fails, Repo!Download,
         Repo!ExtractFails, Repo!ExtractEnds, Repo!ExtractEntry, Repo!ScanCode,
         Repo!ScanDeps, Repo!Return
<1>4. CASE Repo!ScanDeps
  <2>1. /\ stage = "deps" /\ stage' = "return"
        /\ found' = Dedup(found \cup Repo!DepFindings(disk))
    BY <1>4 DEF Repo!ScanDeps
  <2>2. QED BY <1>2, <1>3, <2>1, RepoSucceeds DEF Promise!Next
<1>5. CASE Repo!Return
  <2>1. stage' = "idle" /\ ~Repo!Running
    BY <1>5 DEF Repo!Return, Repo!Running
  <2>2. QED BY <1>2, <1>3, <2>1, Taken DEF Promise!Next
<1>6. CASE Repo!Running /\ stage' \in {"failed", "idle"}
  <2>1. ~Repo!Running' /\ stage' # "return"
    BY <1>6 DEF Repo!Running
  <2>2. QED BY <1>2, <1>3, <1>6, <2>1, EndsWithError DEF Promise!Next
<1>7. CASE Repo!Running /\ Repo!Running' /\ heads' = heads
  BY <1>2, <1>3, <1>7, GoesOn
<1>8. \/ Repo!ScanDeps \/ Repo!Return
      \/ Repo!Running /\ stage' \in {"failed", "idle"}
      \/ Repo!Running /\ Repo!Running' /\ heads' = heads
  <2>1. CASE Repo!RequestFails \/ Repo!ExtractFails \/ Repo!Die
    BY <2>1 DEF Repo!Die, Repo!RequestFails, Repo!Fails, Repo!ExtractFails, Repo!Running
  <2>2. CASE Repo!Download \/ Repo!ExtractEnds \/ Repo!ScanCode
    BY <2>2 DEF Repo!Download, Repo!ExtractEnds, Repo!ScanCode, Repo!Running, Repo!history
  <2>3. CASE Repo!ExtractEntry
    <3>1. stage = "extract" /\ heads' = heads /\ stage' \in {"extract", "failed"}
      BY <2>3 DEF Repo!ExtractEntry, Repo!Fails, Repo!history
    <3>2. QED BY <3>1 DEF Repo!Running
  <2>4. QED BY <2>1, <2>2, <2>3 DEF Repo!Scanner
<1>9. QED BY <1>4, <1>5, <1>6, <1>7, <1>8

\* A step of the registry, or of the repository host.
LEMMA OutsideSteps ==
  ASSUME EInv, EInv', PullTells, Outside
  PROVE  Promise!Move
<1>1. CASE Pull!Registry /\ UNCHANGED repoVars
  <2>1. /\ UNCHANGED <<pc, stage, given, plat, pulled, found, head, heads>>
        /\ Pull!Active => seen' = seen \cup {Pull!Named(given)'}
    BY <1>1, RegistryShows DEF repoVars
  <2>2. Repo!Running => heads' = heads \cup {head'}
    BY <2>1 DEF EInv, RInv, Repo!TypeOK
  <2>3. QED BY <2>1, <2>2, Moves
<1>2. CASE \E c \in Commits : Repo!Commit(c) /\ UNCHANGED imageVars
  <2>1. /\ UNCHANGED <<pc, stage, given, plat, pulled, found, latest, seen>>
        /\ Repo!Running => heads' = heads \cup {head'}
    BY <1>2 DEF imageVars, Repo!Commit
  <2>2. Pull!Active => seen' = seen \cup {Pull!Named(given)'}
    BY <2>1 DEF PullTells, Pull!Named
  <2>3. QED BY <2>1, <2>2, Moves
<1>3. QED BY <1>1, <1>2 DEF Outside

\* For every registry, every repository and every schedule of pushes, expiries,
\* failures and deaths, executeScan answers with an error, or with all of one version
\* of the thing it was asked to scan, one that was current during the scan.
THEOREM ScansKeepPromise == Spec => ImplementsPromise
<1> DEFINE P == EInv /\ PullTells /\ RepoTells
<1>1. Init => EInv
  BY PullInit, RepoInit DEF Init, EInv, Pull!Init
<1>2. Init => Promise!Init
  <2> SUFFICES ASSUME Init PROVE Promise!Init
    OBVIOUS
  <2>1. pc = "idle" /\ stage = "idle"
    BY DEF Init, Pull!Init, Repo!Init
  <2>2. Scanned = Nothing /\ Shown = {} /\ Answer = NoReport
    BY <1>1, <2>1, Reading DEF Reads, Pull!Active, Repo!Running
  <2>3. QED BY <1>1, <2>2, TipsTyped DEF Promise!Init, Typed
<1>3. P /\ P' /\ [Next]_vars => [Promise!Next]_(Promise!vars)
  <2> SUFFICES ASSUME EInv, PullTells, RepoTells, EInv', PullTells', [Next]_vars
               PROVE  [Promise!Next]_(Promise!vars)
    OBVIOUS
  <2>1. CASE ScanImage
    BY <2>1, ImageBegins DEF ScanImage
  <2>2. CASE ScanRepo
    BY <2>2, RepoBegins DEF ScanRepo
  <2>3. CASE InImage
    BY <2>3, ImageSteps DEF InImage
  <2>4. CASE InRepo
    BY <2>4, RepoSteps DEF InRepo
  <2>5. CASE Outside
    BY <2>5, OutsideSteps DEF Promise!Next
  <2>6. CASE Die
    BY <2>6, ImageSteps, RepoSteps DEF Die
  <2>7. CASE UNCHANGED vars
    <3>1. Scanned' = Scanned /\ Shown' = Shown /\ Answer' = Answer /\ Tips' = Tips
      BY <2>7, Quiet DEF vars, imageVars, repoVars, Scanned, Shown, Answer, Nothing,
                         NoReport, Pull!Active, Repo!Running
    <3>2. QED BY <3>1 DEF Promise!vars
  <2>8. QED BY <2>1, <2>2, <2>3, <2>4, <2>5, <2>6, <2>7 DEF Next
<1>4. Spec => []P
  BY Told
<1>5. QED BY <1>2, <1>3, <1>4, PTL DEF Spec, ImplementsPromise, Promise!Spec
=============================================================================
