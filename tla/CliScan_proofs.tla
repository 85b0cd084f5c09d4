--------------------------- MODULE CliScan_proofs ---------------------------
(***************************************************************************)
(* Theorems about module CliScan, for every project, walk and set of       *)
(* flags.  At each stage the findings in hand are those that the files     *)
(* read, the comments and the flags determine, and so are those in a whole *)
(* baseline file; and of the findings of a package Dedup keeps the best.   *)
(***************************************************************************)
EXTENDS CliScan, Recursion, TLAPS

Deduped(t, mode, dedup) == IF mode # "image" /\ dedup THEN Dedup(t) ELSE t

\* What a run has in hand before it comes to the baseline.
Kept(t, ws, mode, dedup) ==
  Deduped(t, mode, dedup) \ Waived(ws, Deduped(t, mode, dedup))

KeptNow == Kept(Seen, Readable(flags.mode), flags.mode, flags.dedup)

\* The findings in hand, stage by stage.
InHand ==
  /\ pc = "dedup" => results = Seen /\ flags.mode # "image" /\ flags.dedup
  /\ pc = "waive" => results = Deduped(Seen, flags.mode, flags.dedup)
  /\ pc \in {"write", "writing", "read"} => results = KeptNow

\* A whole file holds what was in hand when it was written.
FileIsKept ==
  base = "whole" => based = Kept(made.tree, made.waivers, made.mode, made.dedup)

\* After the comparison.
Compared ==
  /\ pc = "render" \/ (pc = "exited" /\ code # 2)
  /\ flags.read
  => /\ base = "whole"
     /\ results = Diff(KeptNow, based)
     /\ resolved = Diff(based, KeptNow)

CInv == InHand /\ FileIsKept /\ Compared

-----------------------------------------------------------------------------
\* Nothing is new or resolved between equal sets of findings (Diff, Resolved).
LEMMA DiffOfEquals == ASSUME NEW X PROVE Diff(X, X) = {}
  BY DEF Diff

\* The invariant holds at the start: there is no run and no file.
LEMMA CInit == Init => CInv
  BY DEF Init, CInv, InHand, FileIsKept, Compared

\* Every stage of runScan, every way out of it and every edit keep it.
LEMMA CStep == CInv /\ [Next]_vars => CInv'
<1> SUFFICES ASSUME CInv, [Next]_vars PROVE CInv'
  OBVIOUS
<1> USE DEF CInv, projectVars, baselineVars, runVars, Seen, Without
<1>1. CASE Edit
  BY <1>1 DEF Edit, Fresh, InHand, FileIsKept, Compared
<1>2. CASE Start
  <2>1. pc' \in {"fetch", "scan"}
    BY <1>2 DEF Start
  <2> QED BY <1>2, <2>1 DEF Start, InHand, FileIsKept, Compared
<1>3. CASE Fetch
  BY <1>3 DEF Fetch, InHand, FileIsKept, Compared
<1>4. CASE Scan
  BY <1>4 DEF Scan, InHand, FileIsKept, Compared, Deduped
<1>5. CASE DedupResults
  BY <1>5 DEF DedupResults, InHand, FileIsKept, Compared, Deduped
<1>6. CASE ApplyWaivers
  <2> DEFINE d == Deduped(Seen, flags.mode, flags.dedup)
  <2>1. results = d /\ UNCHANGED <<tree, comments, here, flags, unread>>
    BY <1>6 DEF ApplyWaivers, InHand
  <2>2. results' = KeptNow'
    BY <1>6, <2>1 DEF ApplyWaivers, KeptNow, Kept, Readable
  <2>3. pc' \in {"write", "read", "render"} /\ (pc' = "render" => ~flags.read)
    BY <1>6 DEF ApplyWaivers
  <2> QED BY <1>6, <2>1, <2>2, <2>3 DEF ApplyWaivers, InHand, FileIsKept, Compared
<1>7. CASE OpenBaseline
  BY <1>7 DEF OpenBaseline, InHand, FileIsKept, Compared, KeptNow, Readable
<1>8. CASE WriteBaseline
  <2>1. results = KeptNow /\ UNCHANGED <<KeptNow, results, flags>>
    BY <1>8 DEF WriteBaseline, InHand, KeptNow, Readable
  <2>2. FileIsKept'
    BY <1>8, <2>1 DEF WriteBaseline, FileIsKept, KeptNow
  <2>3. pc' \in {"read", "render"} /\ (pc' = "render" => ~flags.read)
    BY <1>8 DEF WriteBaseline
  <2> QED BY <2>1, <2>2, <2>3 DEF InHand, Compared
<1>9. CASE ReadBaseline
  <2>1. results = KeptNow /\ UNCHANGED KeptNow
    BY <1>9 DEF ReadBaseline, InHand, KeptNow, Readable
  <2> QED BY <1>9, <2>1 DEF ReadBaseline, InHand, FileIsKept, Compared
<1>10. CASE Finish
  <2>1. UNCHANGED KeptNow
    BY <1>10 DEF Finish, KeptNow, Readable
  <2> QED BY <1>10, <2>1 DEF Finish, InHand, FileIsKept, Compared
<1>11. CASE ToolError
  BY <1>11 DEF ToolError, Die, InHand, FileIsKept, Compared
<1>12. CASE Kill
  BY <1>12 DEF Kill, Fresh, InHand, FileIsKept, Compared
<1>13. CASE UNCHANGED vars
  <2>1. UNCHANGED KeptNow
    BY <1>13 DEF vars, KeptNow, Readable
  <2> QED BY <1>13, <2>1 DEF vars, InHand, FileIsKept, Compared
<1> QED
  BY <1>1, <1>2, <1>3, <1>4, <1>5, <1>6, <1>7, <1>8, <1>9, <1>10, <1>11,
     <1>12, <1>13 DEF Next

\* A run in the way the baseline was written has the findings of the file in
\* hand when it compares.
LEMMA CQuiet == CInv => BaselineIsQuiet
<1> SUFFICES ASSUME CInv, pc = "exited", code # 2, flags.read,
                    made = [tree |-> Seen, waivers |-> Readable(flags.mode),
                            mode |-> flags.mode, dedup |-> flags.dedup]
             PROVE  results = {} /\ resolved = {}
  BY DEF BaselineIsQuiet
<1>1. /\ base = "whole"
      /\ results = Diff(KeptNow, based) /\ resolved = Diff(based, KeptNow)
  BY DEF CInv, Compared
<1>2. based = KeptNow
  BY <1>1 DEF CInv, FileIsKept, KeptNow
<1> QED
  BY <1>1, <1>2, DiffOfEquals

\* For every project and every set of flags: a second run on the project the
\* baseline was made from, in the same way, reports nothing new and nothing
\* resolved, whatever runs, failures and edits lie in between (runScan).
THEOREM BaselinesAreQuiet == Spec => []BaselineIsQuiet
  BY CInit, CStep, CQuiet, PTL DEF Spec

-----------------------------------------------------------------------------
(* What Dedup keeps. *)

\* g stands for f in a deduplicated list.
Ranks(g, f) == \/ g = f
               \/ /\ f.dep /\ g.dep /\ DepKey(g) = DepKey(f)
                  /\ Priority[g.file] >= Priority[f.file]

SameKey(out, f) == {i \in DOMAIN out : f.dep /\ out[i].dep /\ DepKey(out[i]) = DepKey(f)}

\* One round either appends the finding or puts it in places of its key where
\* it ranks higher.
LEMMA Round ==
  ASSUME NEW fs, NEW out \in Seq(fs), NEW f \in fs
  PROVE  /\ DedupAdd(out, f) \in Seq(fs)
         /\ SameKey(out, f) = {} => DedupAdd(out, f) = Append(out, f)
         /\ SameKey(out, f) # {} =>
              /\ DOMAIN DedupAdd(out, f) = DOMAIN out
              /\ \A i \in DOMAIN out :
                   DedupAdd(out, f)[i] =
                     IF i \in SameKey(out, f) /\ Priority[f.file] > Priority[out[i].file]
                     THEN f ELSE out[i]
<1>1. CASE SameKey(out, f) = {}
  <2>1. DedupAdd(out, f) = Append(out, f)
    BY <1>1 DEF DedupAdd, SameKey
  <2> QED BY <1>1, <2>1
<1>2. CASE SameKey(out, f) # {}
  <2> DEFINE new == [i \in DOMAIN out |->
                       IF i \in SameKey(out, f) /\ Priority[f.file] > Priority[out[i].file]
                       THEN f ELSE out[i]]
  <2>1. DedupAdd(out, f) = new
    BY <1>2 DEF DedupAdd, SameKey
  <2>2. DOMAIN out = 1..Len(out) /\ Len(out) \in Nat /\ \A i \in DOMAIN out : out[i] \in fs
    OBVIOUS
  <2>3. new \in [1..Len(out) -> fs]
    BY <2>2
  <2>4. new \in Seq(fs)
    BY <2>2, <2>3
  <2> QED BY <1>2, <2>1, <2>4
<1> QED BY <1>1, <1>2

LEMMA PriorityIsNat ==
  ASSUME NEW f \in Findings PROVE Priority[f.file] \in Nat
BY PriorityAssumption

\* After a round there is one that stands for the finding, and still one for
\* each there was one for before.
LEMMA RoundRanks ==
  ASSUME NEW fs, fs \subseteq Findings, NEW out \in Seq(fs), NEW f \in fs
  PROVE  /\ \E i \in DOMAIN DedupAdd(out, f) : Ranks(DedupAdd(out, f)[i], f)
         /\ \A h \in fs : (\E i \in DOMAIN out : Ranks(out[i], h)) =>
              \E i \in DOMAIN DedupAdd(out, f) : Ranks(DedupAdd(out, f)[i], h)
<1> DEFINE new == DedupAdd(out, f)
<1>1. \A i \in DOMAIN out : out[i] \in fs
  OBVIOUS
<1>0. /\ SameKey(out, f) = {} => new = Append(out, f)
      /\ SameKey(out, f) # {} =>
           /\ DOMAIN new = DOMAIN out
           /\ \A i \in DOMAIN out :
                new[i] = IF i \in SameKey(out, f) /\ Priority[f.file] > Priority[out[i].file]
                         THEN f ELSE out[i]
  BY Round
<1>2. CASE SameKey(out, f) = {}
  <2>1. new = Append(out, f)
    BY <1>0, <1>2
  <2>2. /\ Len(out) + 1 \in DOMAIN new /\ new[Len(out) + 1] = f
        /\ \A i \in DOMAIN out : i \in DOMAIN new /\ new[i] = out[i]
    BY <2>1
  <2> HIDE DEF new
  <2>3. \E i \in DOMAIN new : Ranks(new[i], f)
    BY <2>2 DEF Ranks
  <2>4. ASSUME NEW h \in fs, NEW i \in DOMAIN out, Ranks(out[i], h)
        PROVE  \E j \in DOMAIN new : Ranks(new[j], h)
    <3>1. i \in DOMAIN new /\ Ranks(new[i], h)
      BY <2>2, <2>4
    <3> QED BY <3>1
  <2> QED BY <2>3, <2>4 DEF new
<1>3. CASE SameKey(out, f) # {}
  <2>1. /\ DOMAIN new = DOMAIN out
        /\ \A i \in DOMAIN out :
             new[i] = IF i \in SameKey(out, f) /\ Priority[f.file] > Priority[out[i].file]
                      THEN f ELSE out[i]
    BY <1>0, <1>3
  <2> HIDE DEF new
  <2>2. PICK i \in SameKey(out, f) : TRUE
    BY <1>3
  <2>3. i \in DOMAIN out /\ f.dep /\ out[i].dep /\ DepKey(out[i]) = DepKey(f)
    BY <2>2 DEF SameKey
  <2>4. Priority[f.file] \in Nat /\ Priority[out[i].file] \in Nat
    BY <1>1, <2>3, PriorityIsNat
  <2>5. Ranks(new[i], f)
    <3>1. CASE Priority[f.file] > Priority[out[i].file]
      BY <3>1, <2>1, <2>2, <2>3 DEF Ranks
    <3>2. CASE ~(Priority[f.file] > Priority[out[i].file])
      <4>1. new[i] = out[i] /\ Priority[out[i].file] >= Priority[f.file]
        BY <3>2, <2>1, <2>3, <2>4
      <4> QED BY <4>1, <2>3 DEF Ranks
    <3> QED BY <3>1, <3>2
  <2>6. ASSUME NEW h \in fs, NEW j \in DOMAIN out, Ranks(out[j], h)
        PROVE  Ranks(new[j], h)
    <3>1. CASE new[j] = out[j]
      BY <3>1, <2>6
    <3>2. CASE new[j] # out[j]
      <4>1. new[j] = f /\ j \in SameKey(out, f) /\ Priority[f.file] > Priority[out[j].file]
        BY <3>2, <2>1
      <4>2. f.dep /\ out[j].dep /\ DepKey(out[j]) = DepKey(f)
        BY <4>1 DEF SameKey
      <4>3. /\ Priority[f.file] \in Nat /\ Priority[out[j].file] \in Nat
            /\ Priority[h.file] \in Nat
        BY <1>1, PriorityIsNat
      <4>4. CASE out[j] = h
        BY <4>1, <4>2, <4>3, <4>4 DEF Ranks
      <4>5. CASE /\ h.dep /\ out[j].dep /\ DepKey(out[j]) = DepKey(h)
                 /\ Priority[out[j].file] >= Priority[h.file]
        <5>1. Priority[f.file] >= Priority[h.file]
          BY <4>1, <4>3, <4>5
        <5> QED BY <4>1, <4>2, <4>5, <5>1 DEF Ranks
      <4> QED BY <2>6, <4>4, <4>5 DEF Ranks
    <3> QED BY <3>1, <3>2
  <2> QED BY <2>1, <2>3, <2>5, <2>6 DEF new
<1> QED BY <1>2, <1>3

\* Dedup returns findings it was given, and for each of them one that stands for
\* it, whatever the order of the walk and the ranks of the manifests.
THEOREM DedupKeepsBest ==
  ASSUME NEW fs, fs \subseteq Findings
  PROVE  /\ Dedup(fs) \subseteq fs
         /\ \A f \in fs : \E g \in Dedup(fs) : Ranks(g, f)
<1> DEFINE N == Len(Walk)
           One(i, out) == IF Walk[i] \in fs THEN DedupAdd(out, Walk[i]) ELSE out
           step == [x \in (1..N) \X Seq(fs) |-> One(x[1], x[2])]
           Loop(g) == [i \in 0..N |-> IF i = 0 THEN <<>> ELSE One(i, g[i - 1])]
           kept == CHOOSE g : g = Loop(g)
<1>1. N \in Nat /\ DOMAIN Walk = 1..N /\ <<>> \in Seq(fs)
  BY WalkAssumption
<1>2. \A i \in 1..N, out \in Seq(fs) : One(i, out) \in Seq(fs)
  BY Round
<1>3. kept = Loop(kept)
  <2>1. step \in [(1..N) \X Seq(fs) -> Seq(fs)]
    BY <1>2
  <2>2. \A i \in 1..N, out \in Seq(fs) : step[<<i, out>>] = One(i, out)
    OBVIOUS
  <2> HIDE DEF step, One
  <2>3. PICK g : IsLoop(g, N, Seq(fs), <<>>, step)
    <3> HIDE DEF N
    <3> QED BY <1>1, <2>1, LoopExists
  <2>4. g = Loop(g)
    <3>1. \A i \in 0..N : i # 0 => i \in 1..N /\ i - 1 \in 0..N /\ g[i - 1] \in Seq(fs)
      BY <1>1, <2>3 DEF IsLoop
    <3>2. \A i \in 0..N : i # 0 => g[i] = One(i, g[i - 1])
      BY <2>2, <2>3, <3>1 DEF IsLoop
    <3> HIDE DEF N
    <3> QED BY <2>3, <3>2 DEF IsLoop
  <2> HIDE DEF Loop
  <2> QED BY <2>4
<1>4. Dedup(fs) = ToSet(kept[N])
  BY DEF Dedup
<1> HIDE DEF kept
<1>5. /\ kept[0] = <<>>
      /\ \A i \in 1..N : kept[i] = One(i, kept[i - 1])
  BY <1>1, <1>3
<1> HIDE DEF One
<1> DEFINE Good(n) == /\ kept[n] \in Seq(fs)
                      /\ \A j \in 1..n : Walk[j] \in fs =>
                           \E k \in DOMAIN kept[n] : Ranks(kept[n][k], Walk[j])
           D == {n \in 0..N : Good(n)}
<1>6. 0 \in D
  <2>1. 0 \in 0..N /\ \A j \in 1..0 : FALSE
    BY <1>1
  <2> QED BY <1>1, <1>5, <2>1
<1>7. ASSUME NEW n \in 0..(N - 1), n \in D PROVE n + 1 \in D
  <2>1. Good(n) /\ n + 1 \in 1..N /\ n + 1 \in 0..N /\ n + 1 - 1 = n
    BY <1>1, <1>7
  <2>2. kept[n + 1] = One(n + 1, kept[n])
    BY <1>5, <2>1
  <2>3. kept[n + 1] \in Seq(fs)
    BY <1>2, <2>1, <2>2
  <2>4. ASSUME NEW j \in 1..(n + 1), Walk[j] \in fs
        PROVE  \E k \in DOMAIN kept[n + 1] : Ranks(kept[n + 1][k], Walk[j])
    <3>1. CASE Walk[n + 1] \notin fs
      <4>1. kept[n + 1] = kept[n] /\ j \in 1..n
        BY <2>2, <2>4, <3>1 DEF One
      <4> QED BY <2>1, <2>4, <4>1
    <3>2. CASE Walk[n + 1] \in fs
      <4>1. kept[n + 1] = DedupAdd(kept[n], Walk[n + 1])
        BY <2>2, <3>2 DEF One
      <4>2. CASE j = n + 1
        BY <2>1, <3>2, <4>1, <4>2, RoundRanks
      <4>3. CASE j \in 1..n
        BY <2>1, <2>4, <3>2, <4>1, <4>3, RoundRanks
      <4> QED BY <4>2, <4>3
    <3> QED BY <3>1, <3>2
  <2> QED BY <2>1, <2>3, <2>4
<1>8. Good(N)
  <2> HIDE DEF D, Good, N
  <2>1. 0..N \subseteq D
    BY <1>1, <1>6, <1>7, UpTo
  <2> QED BY <1>1, <2>1 DEF D
<1>9. Dedup(fs) \subseteq fs
  BY <1>4, <1>8 DEF ToSet
<1>10. ASSUME NEW f \in fs PROVE \E g \in Dedup(fs) : Ranks(g, f)
  <2>1. PICK j \in 1..N : Walk[j] = f
    BY <1>1 DEF Findings, ToSet
  <2> QED BY <1>4, <1>8, <2>1 DEF ToSet
<1> QED BY <1>9, <1>10

-----------------------------------------------------------------------------
(* Types. *)

TInv == TypeOK /\ (pc # "idle" => flags \in Flags)

LEMMA FreshTypes ==
  Fresh => /\ results' \subseteq Findings /\ waived' \subseteq Findings
           /\ resolved' \subseteq Findings /\ unread' \subseteq Unreadable
           /\ code' \in 0..2 /\ tmp' \in BOOLEAN
<1>1. Fresh => tmp' \in BOOLEAN
  BY DEF Fresh
<1>2. Fresh => code' \in 0..2
  BY DEF Fresh
<1> QED BY <1>1, <1>2 DEF Fresh

LEMMA TStep == TInv /\ [Next]_vars => TInv'
<1> SUFFICES ASSUME TInv, [Next]_vars PROVE TInv'
  OBVIOUS
<1> USE DEF TInv, TypeOK, projectVars, baselineVars
<1>1. CASE Edit
  <2>1. tree' \subseteq Findings /\ comments' \subseteq Waivers /\ here' = here
    BY <1>1 DEF Edit, SymDiff
  <2> QED BY FreshTypes, <1>1, <2>1 DEF Edit
<1>2. CASE Start
  <2>1. pc' \in {"fetch", "scan"}
    BY <1>2 DEF Start
  <2> QED BY FreshTypes, <1>2, <2>1 DEF Start
<1>3. CASE Fetch \/ Scan
  BY <1>3 DEF Fetch, Scan, Without
<1>4. CASE DedupResults
  BY <1>4, DedupKeepsBest DEF DedupResults
<1>5. CASE ApplyWaivers
  BY <1>5 DEF ApplyWaivers, Waived
<1>6. CASE OpenBaseline
  BY <1>6 DEF OpenBaseline
<1>7. CASE WriteBaseline
  <2>1. /\ flags \in Flags /\ Readable(flags.mode) \subseteq Waivers
        /\ Seen \subseteq Findings
    BY <1>7 DEF WriteBaseline, Readable, Seen, Without
  <2> QED BY <1>7, <2>1 DEF WriteBaseline, Flags
<1>8. CASE ReadBaseline
  BY <1>8 DEF ReadBaseline, Diff
<1>9. CASE Finish
  BY <1>9 DEF Finish
<1>10. CASE ToolError
  BY <1>10 DEF ToolError, Die
<1>11. CASE Kill
  BY FreshTypes, <1>11 DEF Kill
<1>12. CASE UNCHANGED vars
  BY <1>12 DEF vars, runVars
<1> QED
  BY <1>1, <1>2, <1>3, <1>4, <1>5, <1>6, <1>7, <1>8, <1>9, <1>10, <1>11, <1>12 DEF Next

LEMMA TInit == Init => TInv
<1> SUFFICES ASSUME Init PROVE TInv
  OBVIOUS
<1>1. tmp \in BOOLEAN
  BY DEF Init
<1>2. code \in 0..2
  BY DEF Init
<1> QED BY <1>1, <1>2 DEF Init, TInv, TypeOK

\* The state of a run and of the files it leaves keeps its types: what is in
\* hand, waived, resolved or in a baseline are findings of the walk.
THEOREM TypeCorrect == Spec => []TypeOK
<1>1. TInv => TypeOK
  BY DEF TInv
<1> QED BY <1>1, TInit, TStep, PTL DEF Spec

-----------------------------------------------------------------------------
(* The gate, and what is resolved. *)

\* What is resolved is the difference with the file, whatever ended the run.
Settled == resolved # {} => pc \in {"render", "exited"} /\ resolved = Diff(based, KeptNow)

\* What is reported, and that a run that passes found none of it severe enough.
Reported == /\ pc = "render" \/ (pc = "exited" /\ code = 0)
               => results = IF flags.read THEN Diff(KeptNow, based) ELSE KeptNow
            /\ pc = "exited" /\ code = 0 => AtLeast(results, flags.failOn) = {}
            /\ pc = "read" => flags.read

GInv == Settled /\ Reported

LEMMA GInit == Init => GInv
  BY DEF Init, GInv, Settled, Reported

LEMMA GStep == CInv /\ GInv /\ [Next]_vars => GInv'
<1> SUFFICES ASSUME CInv, GInv, [Next]_vars PROVE GInv'
  OBVIOUS
<1> USE DEF GInv, projectVars, baselineVars, Seen, Without
<1>1. CASE Edit \/ Kill
  BY <1>1 DEF Edit, Kill, Fresh, Settled, Reported
<1>2. CASE Start
  <2>1. pc' \in {"fetch", "scan"}
    BY <1>2 DEF Start
  <2> QED BY <1>2, <2>1 DEF Start, Fresh, Settled, Reported
<1>3. CASE Fetch
  BY <1>3 DEF Fetch, Settled, Reported
<1>4. CASE Scan
  <2>1. pc' \in {"dedup", "waive"}
    BY <1>4 DEF Scan
  <2> QED BY <1>4, <2>1 DEF Scan, Settled, Reported
<1>5. CASE DedupResults
  BY <1>5 DEF DedupResults, Settled, Reported
<1>6. CASE ApplyWaivers
  <2>1. results = Deduped(Seen, flags.mode, flags.dedup)
    BY <1>6 DEF ApplyWaivers, CInv, InHand
  <2>2. results' = KeptNow' /\ flags' = flags
    BY <1>6, <2>1 DEF ApplyWaivers, KeptNow, Kept, Readable
  <2>3. /\ resolved' = {} /\ pc' \in {"write", "read", "render"}
        /\ pc' = "render" => ~flags.read
        /\ pc' = "read" => flags.read
    BY <1>6 DEF ApplyWaivers, Settled
  <2> QED BY <2>2, <2>3 DEF Settled, Reported
<1>7. CASE OpenBaseline
  BY <1>7 DEF OpenBaseline, Settled, Reported
<1>8. CASE WriteBaseline
  <2>1. results' = KeptNow' /\ flags' = flags
    BY <1>8 DEF WriteBaseline, CInv, InHand, KeptNow, Readable
  <2>2. /\ resolved' = {} /\ pc' \in {"read", "render"}
        /\ pc' = "render" => ~flags.read
        /\ pc' = "read" => flags.read
    BY <1>8 DEF WriteBaseline, Settled
  <2> QED BY <2>1, <2>2 DEF Settled, Reported
<1>9. CASE ReadBaseline
  <2>1. results = KeptNow /\ KeptNow' = KeptNow /\ UNCHANGED <<flags, based>>
    BY <1>9 DEF ReadBaseline, CInv, InHand, KeptNow, Readable
  <2>2. flags.read
    BY <1>9 DEF ReadBaseline, Reported
  <2> QED BY <1>9, <2>1, <2>2 DEF ReadBaseline, Settled, Reported
<1>10. CASE Finish
  <2>1. KeptNow' = KeptNow /\ UNCHANGED <<flags, based, results, resolved>> /\ pc' = "exited"
    BY <1>10 DEF Finish, KeptNow, Readable
  <2>2. code' = 0 => AtLeast(results, flags.failOn) = {}
    BY <1>10 DEF Finish
  <2> QED BY <1>10, <2>1, <2>2 DEF Finish, Settled, Reported
<1>11. CASE ToolError
  <2>1. /\ KeptNow' = KeptNow /\ UNCHANGED <<flags, based, resolved>>
        /\ pc' = "exited" /\ code' = 2
    BY <1>11 DEF ToolError, Die, KeptNow, Readable
  <2> QED BY <2>1 DEF Settled, Reported
<1>12. CASE UNCHANGED vars
  <2>1. UNCHANGED KeptNow /\ UNCHANGED <<pc, code, flags, unread, results, resolved, based>>
    BY <1>12 DEF vars, runVars, KeptNow, Readable
  <2> QED BY <2>1 DEF Settled, Reported
<1> QED
  BY <1>1, <1>2, <1>3, <1>4, <1>5, <1>6, <1>7, <1>8, <1>9, <1>10, <1>11, <1>12 DEF Next

\* Each finding of the project is in hand when the baseline is read, or waived,
\* itself or through one that stands for it.
LEMMA StoodFor ==
  ASSUME TypeOK, NEW f \in Seen
  PROVE  \E g \in Seen : /\ Ranks(g, f)
                         /\ g \in KeptNow \/ WaivedBy(Readable(flags.mode), g)
<1> DEFINE d == Deduped(Seen, flags.mode, flags.dedup)
<1>1. d \subseteq Seen /\ \E g \in d : Ranks(g, f)
  <2>1. Seen \subseteq Findings
    BY DEF TypeOK, Seen, Without
  <2>2. CASE flags.mode # "image" /\ flags.dedup
    BY <2>1, <2>2, DedupKeepsBest DEF Deduped
  <2>3. CASE ~(flags.mode # "image" /\ flags.dedup)
    BY <2>3 DEF Deduped, Ranks
  <2> QED BY <2>2, <2>3
<1> QED
  BY <1>1 DEF KeptNow, Kept, Waived

\* What Ranks says of two findings of what it has read: the same one, or one of the same
\* package from a manifest that ranks at least as high, with the same severity.
LEMMA StandsFor ==
  ASSUME TypeOK, NEW f \in Seen, NEW g \in Seen, Ranks(g, f)
  PROVE  g = f \/ (/\ f.dep /\ DepKey(g) = DepKey(f)
                   /\ Priority[g.file] >= Priority[f.file] /\ g.severity = f.severity)
<1>1. f \in Findings /\ g \in Findings
  BY DEF TypeOK, Seen, Without
<1>2. DepKey(g) = DepKey(f) => g.rule = f.rule
  BY DEF DepKey
<1> QED BY <1>1, <1>2, WalkAssumption DEF Ranks

LEMMA GSound == TypeOK /\ CInv /\ GInv => GateIsSound
<1> SUFFICES ASSUME TypeOK, CInv, GInv, pc = "exited", code = 0,
                    NEW f \in AtLeast(Seen, flags.failOn)
             PROVE  \E g \in Seen :
                      /\ g = f \/ (f.dep /\ DepKey(g) = DepKey(f)
                                   /\ Priority[g.file] >= Priority[f.file])
                      /\ \/ WaivedBy(Readable(flags.mode), g)
                         \/ flags.read /\ base = "whole"
                            /\ \E b \in based : Fingerprint(b) = Fingerprint(g)
  BY DEF GateIsSound
<1>1. f \in Seen /\ f.severity >= flags.failOn
  BY DEF AtLeast
<1>2. PICK g \in Seen : Ranks(g, f) /\ (g \in KeptNow \/ WaivedBy(Readable(flags.mode), g))
  BY <1>1, StoodFor
<1>3. g = f \/ (/\ f.dep /\ DepKey(g) = DepKey(f)
                /\ Priority[g.file] >= Priority[f.file] /\ g.severity = f.severity)
  BY <1>1, <1>2, StandsFor
<1>4. g \notin results
  BY <1>1, <1>3 DEF GInv, Reported, AtLeast
<1>5. g \in KeptNow =>
        flags.read /\ base = "whole" /\ \E b \in based : Fingerprint(b) = Fingerprint(g)
  BY <1>4 DEF GInv, Reported, CInv, Compared, Diff
<1> QED BY <1>2, <1>3, <1>5

LEMMA GResolved == TypeOK /\ GInv => ResolvedAreGone
<1> SUFFICES ASSUME TypeOK, GInv, pc = "exited", NEW r \in resolved, NEW f \in tree,
                    Fingerprint(f) = Fingerprint(r), f.file \notin unread,
                    ~WaivedBy(Readable(flags.mode), f)
             PROVE  \E g \in Seen : f.dep /\ g # f /\ DepKey(g) = DepKey(f)
                                    /\ Priority[g.file] >= Priority[f.file]
  BY DEF ResolvedAreGone
<1>0. f \in Seen /\ Seen \subseteq Findings
  BY DEF Seen, Without, TypeOK
<1>1. f \notin KeptNow
  BY DEF GInv, Settled, Diff
<1>2. f \notin Deduped(Seen, flags.mode, flags.dedup)
  BY <1>0, <1>1 DEF KeptNow, Kept, Waived
<1>3. flags.mode # "image" /\ flags.dedup /\ f \notin Dedup(Seen)
  BY <1>0, <1>2 DEF Deduped
<1>4. PICK g \in Dedup(Seen) : g \in Seen /\ Ranks(g, f)
  BY <1>0, DedupKeepsBest
<1>5. g # f
  BY <1>3, <1>4
<1> QED BY <1>4, <1>5 DEF Ranks

\* What a run that exits with 0 lets pass has been accepted by someone, in a
\* comment or in the baseline, or is outranked by something that has (Dedup,
\* ApplyWaivers, Diff, shouldFail, one after the other in runScan).
THEOREM GateHolds == Spec => []GateIsSound
BY CInit, CStep, TInit, TStep, GInit, GStep, GSound, PTL DEF Spec, TInv

\* Nothing is called resolved that the project still has, unless a comment or a
\* better manifest accounts for it (Resolved, on what Dedup and ApplyWaivers leave).
THEOREM NothingResolvedRemains == Spec => []ResolvedAreGone
BY CInit, CStep, TInit, TStep, GInit, GStep, GResolved, PTL DEF Spec, TInv
=============================================================================
