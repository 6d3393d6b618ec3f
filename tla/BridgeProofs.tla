----------------------------- MODULE BridgeProofs -----------------------------
(***************************************************************************)
(* What the music bridge promises, proved for any number of plays, tracks, *)
(* slices, clicks, months, subscriptions and events: a track in its cache  *)
(* is one version of it (MusicCache), the free tracks it counts are those  *)
(* it queued, and the subscription it holds is the one Stripe has live     *)
(* (Billing).                                                              *)
(***************************************************************************)
EXTENDS Billing, MusicCache, FiniteSums, SequenceTheorems
----------------------------------------------------------------------------
(* Lists.                                                                  *)

\* RemoveAt takes one element out and moves the later ones up.
LEMMA RemovedOne ==
  ASSUME NEW S, NEW es \in Seq(S), NEW i \in DOMAIN es
  PROVE  /\ RemoveAt(es, i) \in Seq(S) /\ Len(RemoveAt(es, i)) = Len(es) - 1
         /\ \A j \in 1 .. Len(es) - 1 :
              RemoveAt(es, i)[j] = IF j < i THEN es[j] ELSE es[j + 1]
<1>. DEFINE b == SubSeq(es, 1, i - 1)  d == SubSeq(es, i + 1, Len(es))
<1>0. i \in 1 .. Len(es) /\ Len(es) \in Nat
  OBVIOUS
<1>1. b \in Seq(S) /\ Len(b) = i - 1 /\ \A j \in 1 .. i - 1 : b[j] = es[j]
  BY <1>0, SubSeqProperties
<1>2. d \in Seq(S) /\ Len(d) = Len(es) - i /\ \A j \in 1 .. Len(es) - i : d[j] = es[i + j]
  BY <1>0, SubSeqProperties
<1>3. RemoveAt(es, i) = b \o d
  BY Zenon DEF RemoveAt
<1>. HIDE DEF b, d
<1>4. /\ b \o d \in Seq(S) /\ Len(b \o d) = Len(es) - 1
      /\ \A j \in 1 .. Len(es) - 1 : (b \o d)[j] = IF j <= i - 1 THEN b[j] ELSE d[j - (i - 1)]
  <2>1. /\ b \o d \in Seq(S) /\ Len(b \o d) = Len(b) + Len(d)
        /\ \A j \in 1 .. Len(b) + Len(d) : (b \o d)[j] = IF j <= Len(b) THEN b[j] ELSE d[j - Len(b)]
    BY <1>1, <1>2, ConcatProperties
  <2>2. Len(b) = i - 1 /\ Len(b) + Len(d) = Len(es) - 1
    BY <1>0, <1>1, <1>2
  <2>. QED BY <2>1, <2>2, Zenon
<1>5. ASSUME NEW j \in 1 .. Len(es) - 1
      PROVE  RemoveAt(es, i)[j] = IF j < i THEN es[j] ELSE es[j + 1]
  <2>1. CASE j < i
    BY <1>0, <1>1, <1>3, <1>4, <2>1
  <2>2. CASE ~(j < i)
    <3>1. j - (i - 1) \in 1 .. Len(es) - i /\ i + (j - (i - 1)) = j + 1 /\ ~(j <= i - 1)
      BY <1>0, <2>2
    <3>2. d[j - (i - 1)] = es[j + 1]
      BY <1>2, <3>1
    <3>. QED BY <1>3, <1>4, <2>2, <3>1, <3>2
  <2>. QED BY <2>1, <2>2
<1>. QED BY <1>3, <1>4, <1>5

\* RemoveFirst, of an element that is there, takes out one place.
LEMMA FirstRemoved ==
  ASSUME NEW S, NEW s \in Seq(S), NEW e
  PROVE  RemoveFirst(s, e) \in Seq(S)
<1>. DEFINE I == {i \in 1 .. Len(s) : s[i] = e}
<1>1. CASE I = {}
  <2>1. ~\E i \in 1 .. Len(s) : s[i] = e
    BY <1>1
  <2>. QED BY <2>1 DEF RemoveFirst
<1>2. CASE I # {}
  <2>1. RemoveFirst(s, e) = RemoveAt(s, Min(I))
    <3>1. \E i \in 1 .. Len(s) : s[i] = e
      BY <1>2
    <3>. QED BY <1>2, <3>1, Zenon DEF RemoveFirst, SelectInSeq
  <2>2. I \in SUBSET Nat
    OBVIOUS
  <2>3. \E m \in I : \A k \in I : m <= k
    BY <1>2, <2>2, LeastExists
  <2>4. Min(I) \in I
    BY <2>3, Zenon DEF Min
  <2>5. Min(I) \in DOMAIN s
    BY <2>4
  <2>. HIDE DEF I
  <2>. QED BY <2>1, <2>5, RemovedOne
<1>. QED BY <1>1, <1>2

----------------------------------------------------------------------------
(* The cache.  A download is alone on its track, and what it has written   *)
(* is the first slices of one version.                                     *)

\* The first n slices of version v of a file.
Whole(v, n) == [i \in 1 .. n |-> [version |-> v, index |-> i]]

\* What one download knows of the file it is fetching.
FetchSound(p) ==
  play[p].at = "fetching" =>
    /\ play[p].track \in Tracks
    /\ play[p].restarts < MaxRestarts
    /\ play[p].offset < NumSlices
    /\ play[p].identity = 0 <=> play[p].offset = 0
    /\ part[play[p].track] = Whole(play[p].identity, play[p].offset)

FetchedOnce ==
  \A p, q \in Plays :
    play[p].at = "fetching" /\ play[q].at = "fetching" /\ play[p].track = play[q].track
      => p = q

DownloadTypes ==
  /\ version \in [Tracks -> 1 .. MaxVersions]
  /\ part \in [Tracks -> Seq(Slice)]
  /\ cached \in [Tracks -> Seq(Slice)]
  /\ play \in [Plays -> Play]

ListedTypes == fetched \in Seq(Tracks) /\ Len(fetched) <= CacheMax

MusicInv ==
  /\ DownloadTypes
  /\ FetchedOnce
  /\ \A p \in Plays : (play[p].slice # 0 => play[p].at = "fetching") /\ FetchSound(p)
  /\ CacheWhole

LEMMA WholeIsSlices ==
  ASSUME NEW v \in 1 .. MaxVersions, NEW n \in 0 .. NumSlices
  PROVE  Whole(v, n) \in Seq(Slice) /\ Len(Whole(v, n)) = n
BY MusicAssumption DEF Whole, Slice

LEMMA WholeOfNothing ==
  ASSUME NEW v
  PROVE  Whole(v, 0) = <<>>
BY DEF Whole

LEMMA WholeGrows ==
  ASSUME NEW v \in 1 .. MaxVersions, NEW n \in 0 .. NumSlices - 1
  PROVE  Append(Whole(v, n), [version |-> v, index |-> n + 1]) = Whole(v, n + 1)
<1>. DEFINE a == Append(Whole(v, n), [version |-> v, index |-> n + 1])
<1>1. /\ Whole(v, n) \in Seq(Slice) /\ Len(Whole(v, n)) = n
      /\ Whole(v, n + 1) \in Seq(Slice) /\ Len(Whole(v, n + 1)) = n + 1
  BY WholeIsSlices, MusicAssumption
<1>2. [version |-> v, index |-> n + 1] \in Slice
  BY MusicAssumption DEF Slice
<1>3. a \in Seq(Slice) /\ Len(a) = n + 1
  BY <1>1, <1>2
<1>4. ASSUME NEW i \in 1 .. n + 1 PROVE a[i] = Whole(v, n + 1)[i]
  BY <1>1, <1>2, MusicAssumption DEF Whole
<1>. QED BY <1>1, <1>3, <1>4

\* What is fetched and the slice that has come, when they are of one version.
LEMMA SliceFits ==
  ASSUME MusicInv, NEW p \in Plays, play[p].slice # 0, ~Changed(p)
  PROVE  /\ play[p].at = "fetching" /\ play[p].track \in Tracks
         /\ play[p].slice \in 1 .. MaxVersions
         /\ play[p].offset \in 0 .. NumSlices - 1
         /\ With(p) = Whole(play[p].slice, play[p].offset + 1)
         /\ With(p) \in Seq(Slice)
<1>. DEFINE t == play[p].track  v == play[p].slice  n == play[p].offset
<1>1. play[p] \in Play
  BY DEF MusicInv, DownloadTypes
<1>2. play[p].at = "fetching" /\ t \in Tracks /\ v \in 1 .. MaxVersions /\ n \in 0 .. NumSlices - 1
  BY <1>1, MusicAssumption DEF MusicInv, FetchSound, Play
<1>3. part[t] = Whole(play[p].identity, n) /\ (play[p].identity = 0 <=> n = 0)
  BY <1>2 DEF MusicInv, FetchSound
<1>4. part[t] = Whole(v, n)
  <2>1. CASE n = 0
    BY <1>3, <2>1, WholeOfNothing
  <2>2. CASE n # 0
    BY <1>3, <2>2 DEF Changed
  <2>. QED BY <2>1, <2>2
<1>5. With(p) = Whole(v, n + 1)
  BY <1>2, <1>4, WholeGrows DEF With
<1>6. n + 1 \in 0 .. NumSlices
  BY <1>2, MusicAssumption
<1>7. With(p) \in Seq(Slice)
  BY <1>2, <1>5, <1>6, WholeIsSlices
<1>. QED BY <1>2, <1>5, <1>7

LEMMA IdlePlay == NotPlaying \in Play /\ NotPlaying.at = "idle" /\ NotPlaying.slice = 0
BY MusicAssumption DEF NotPlaying, Play

LEMMA WaitingPlay ==
  ASSUME NEW t \in Tracks
  PROVE  LET w == [NotPlaying EXCEPT !.at = "waiting", !.track = t]
         IN  w \in Play /\ w.at = "waiting" /\ w.slice = 0
<1>. DEFINE a == [NotPlaying EXCEPT !.at = "waiting"]
            b == [a EXCEPT !.track = t]
<1>1. [NotPlaying EXCEPT !.at = "waiting", !.track = t] = b
  BY Zenon
<1>2. a \in Play /\ a.at = "waiting" /\ a.slice = 0
  BY MusicAssumption DEF NotPlaying, Play
<1>. HIDE DEF a
<1>3. b \in Play /\ b.at = "waiting" /\ b.slice = 0
  BY <1>2 DEF Play
<1>. QED BY <1>1, <1>3

LEMMA FetchingPlay ==
  ASSUME NEW t \in Tracks, NEW r \in 0 .. MaxRestarts
  PROVE  /\ FetchedFor(t, r) \in Play
         /\ FetchedFor(t, r).at = "fetching" /\ FetchedFor(t, r).track = t
         /\ FetchedFor(t, r).restarts = r /\ FetchedFor(t, r).offset = 0
         /\ FetchedFor(t, r).identity = 0 /\ FetchedFor(t, r).slice = 0
<1>. DEFINE a == [NotPlaying EXCEPT !.at = "fetching"]
            b == [a EXCEPT !.track = t]
            d == [b EXCEPT !.restarts = r]
<1>1. FetchedFor(t, r) = d
  BY Zenon DEF FetchedFor
<1>2. a \in Play /\ a.at = "fetching" /\ a.offset = 0 /\ a.identity = 0 /\ a.slice = 0
  BY MusicAssumption DEF NotPlaying, Play
<1>. HIDE DEF a
<1>3. b \in Play /\ b.at = "fetching" /\ b.track = t /\ b.offset = 0 /\ b.identity = 0 /\ b.slice = 0
  BY <1>2 DEF Play
<1>. HIDE DEF b
<1>4. /\ d \in Play /\ d.at = "fetching" /\ d.track = t /\ d.restarts = r
      /\ d.offset = 0 /\ d.identity = 0 /\ d.slice = 0
  BY <1>3 DEF Play
<1>. QED BY <1>1, <1>4

LEMMA MusicStarts == MusicInit => MusicInv
<1>. SUFFICES ASSUME MusicInit PROVE MusicInv
  OBVIOUS
<1>1. DownloadTypes
  BY IdlePlay, MusicAssumption DEF MusicInit, DownloadTypes
<1>2. \A p \in Plays : play[p].at = "idle" /\ play[p].slice = 0
  BY IdlePlay DEF MusicInit
<1>. QED BY <1>1, <1>2 DEF MusicInit, MusicInv, FetchedOnce, FetchSound, CacheWhole

\* Plays that end leave the others' downloads as they are.
LEMMA EndedPlays ==
  ASSUME MusicInv, NEW p \in Plays, PlaysEnd(p)
  PROVE  /\ play' \in [Plays -> Play]
         /\ \A q \in Plays : play'[q] = play[q] \/ (play'[q].at = "idle" /\ play'[q].slice = 0)
         /\ play'[p].at = "idle"
BY IdlePlay DEF MusicInv, DownloadTypes, PlaysEnd, Together

\* ... also when the file of the one that ended is written.
LEMMA OthersGoOn ==
  ASSUME MusicInv, NEW p \in Plays, play'[p].at = "idle",
         \A q \in Plays : play'[q] = play[q] \/ (play'[q].at = "idle" /\ play'[q].slice = 0),
         \A u \in Tracks \ {play[p].track} : part'[u] = part[u],
         \A q \in Plays \ {p} : play[q].at = "fetching" => play[q].track # play[p].track
  PROVE  /\ FetchedOnce'
         /\ \A q \in Plays : (play'[q].slice # 0 => play'[q].at = "fetching") /\ FetchSound(q)'
<1>1. FetchedOnce'
  BY DEF MusicInv, FetchedOnce
<1>2. \A q \in Plays : play'[q].slice # 0 => play'[q].at = "fetching"
  BY DEF MusicInv
<1>3. ASSUME NEW q \in Plays PROVE FetchSound(q)'
  <2>1. CASE play'[q].at = "idle"
    BY <2>1 DEF FetchSound
  <2>2. CASE play'[q].at # "idle"
    <3>1. play'[q] = play[q] /\ q # p /\ FetchSound(q)
      BY <2>2 DEF MusicInv
    <3>. QED BY <3>1 DEF FetchSound
  <2>. QED BY <2>1, <2>2
<1>. QED BY <1>1, <1>2, <1>3

LEMMA MusicStep == MusicInv /\ [MusicNext]_musicVars => MusicInv'
<1>. SUFFICES ASSUME MusicInv, [MusicNext]_musicVars PROVE MusicInv'
  OBVIOUS
<1>. USE DEF MusicInv
<1>1. ASSUME NEW p \in Plays, NEW t \in Tracks, PlayBegins(p, t) PROVE MusicInv'
  <2>1. CASE Fetching(t)
    <3>1. play' = [play EXCEPT ![p] = [NotPlaying EXCEPT !.at = "waiting", !.track = t]]
          /\ UNCHANGED <<version, part, cached, fetched>>
      BY <1>1, <2>1 DEF PlayBegins
    <3>2. play' \in [Plays -> Play] /\ play'[p].at = "waiting" /\ play'[p].slice = 0
          /\ \A q \in Plays \ {p} : play'[q] = play[q]
      BY <3>1, WaitingPlay DEF DownloadTypes
    <3>. QED BY <3>1, <3>2 DEF DownloadTypes, FetchedOnce, FetchSound, CacheWhole
  <2>2. CASE ~Fetching(t)
    <3>1. play' = [play EXCEPT ![p] = FetchedFor(t, 0)] /\ part' = [part EXCEPT ![t] = <<>>]
          /\ UNCHANGED <<version, cached, fetched>>
      BY <1>1, <2>2 DEF PlayBegins
    <3>0. /\ FetchedFor(t, 0) \in Play
          /\ FetchedFor(t, 0).at = "fetching" /\ FetchedFor(t, 0).track = t
          /\ FetchedFor(t, 0).restarts = 0 /\ FetchedFor(t, 0).offset = 0
          /\ FetchedFor(t, 0).identity = 0 /\ FetchedFor(t, 0).slice = 0
      <4>1. 0 \in 0 .. MaxRestarts
        BY MusicAssumption
      <4>. QED BY <4>1, FetchingPlay
    <3>2. play' \in [Plays -> Play] /\ play'[p] = FetchedFor(t, 0)
          /\ \A q \in Plays \ {p} : play'[q] = play[q]
      BY <3>1, <3>0 DEF DownloadTypes
    <3>3. /\ play'[p].at = "fetching" /\ play'[p].track = t /\ play'[p].restarts = 0
          /\ play'[p].offset = 0 /\ play'[p].identity = 0 /\ play'[p].slice = 0
      BY <3>2, <3>0
    <3>4. part' \in [Tracks -> Seq(Slice)] /\ part'[t] = <<>>
          /\ \A u \in Tracks \ {t} : part'[u] = part[u]
      BY <3>1 DEF DownloadTypes
    <3>5. \A q \in Plays \ {p} : play[q].at = "fetching" => play[q].track # t
      BY <2>2 DEF Fetching
    <3>6. FetchSound(p)'
      BY <3>3, <3>4, WholeOfNothing, MusicAssumption DEF FetchSound
    <3>7. ASSUME NEW q \in Plays \ {p} PROVE FetchSound(q)'
      BY <3>2, <3>4, <3>5, <3>7 DEF FetchSound
    <3>8. FetchedOnce'
      BY <3>2, <3>3, <3>5 DEF FetchedOnce
    <3>9. \A q \in Plays : play'[q].slice # 0 => play'[q].at = "fetching"
      BY <3>2, <3>3
    <3>. QED BY <3>1, <3>2, <3>4, <3>6, <3>7, <3>8, <3>9 DEF DownloadTypes, CacheWhole
  <2>. QED BY <2>1, <2>2
<1>2. ASSUME NEW p \in Plays, SliceRead(p) PROVE MusicInv'
  <2>1. play[p] \in Play /\ play[p].track \in Tracks
    BY <1>2 DEF SliceRead, DownloadTypes, FetchSound
  <2>2. version[play[p].track] \in 0 .. MaxVersions
    BY <2>1, MusicAssumption DEF DownloadTypes
  <2>3. play' = [play EXCEPT ![p].slice = version[play[p].track]]
    BY <1>2 DEF SliceRead
  <2>4. /\ play' \in [Plays -> Play] /\ play'[p].at = play[p].at
        /\ play'[p].track = play[p].track /\ play'[p].restarts = play[p].restarts
        /\ play'[p].offset = play[p].offset /\ play'[p].identity = play[p].identity
        /\ \A q \in Plays \ {p} : play'[q] = play[q]
    BY <2>1, <2>2, <2>3 DEF DownloadTypes, Play
  <2>. QED BY <1>2, <2>4 DEF SliceRead, DownloadTypes, FetchedOnce, FetchSound, CacheWhole
<1>3. ASSUME NEW p \in Plays, SliceOfAnother(p) PROVE MusicInv'
  <2>. DEFINE t == play[p].track
  <2>1. play[p] \in Play /\ t \in Tracks /\ play[p].at = "fetching" /\ play[p].restarts < MaxRestarts
    BY <1>3 DEF SliceOfAnother, DownloadTypes, FetchSound
  <2>2. part' = [part EXCEPT ![t] = <<>>] /\ UNCHANGED <<version, cached, fetched>>
    BY <1>3 DEF SliceOfAnother
  <2>3. part' \in [Tracks -> Seq(Slice)] /\ part'[t] = <<>>
        /\ \A u \in Tracks \ {t} : part'[u] = part[u]
    BY <2>1, <2>2 DEF DownloadTypes
  <2>4. \A q \in Plays \ {p} : play[q].at = "fetching" => play[q].track # t
    BY <2>1 DEF FetchedOnce
  <2>5. CASE play[p].restarts + 1 = MaxRestarts
    <3>1. PlaysEnd(p)
      BY <1>3, <2>5 DEF SliceOfAnother
    <3>2. /\ play' \in [Plays -> Play] /\ play'[p].at = "idle"
          /\ \A q \in Plays : play'[q] = play[q] \/ (play'[q].at = "idle" /\ play'[q].slice = 0)
      BY <3>1, EndedPlays
    <3>. QED BY <2>2, <2>3, <2>4, <3>2, OthersGoOn DEF DownloadTypes, CacheWhole
  <2>6. CASE play[p].restarts + 1 # MaxRestarts
    <3>1. play' = [play EXCEPT ![p] = FetchedFor(t, @.restarts + 1)]
      BY <1>3, <2>6 DEF SliceOfAnother
    <3>2. play[p].restarts + 1 \in 0 .. MaxRestarts /\ play[p].restarts + 1 < MaxRestarts
      BY <2>1, <2>6, MusicAssumption DEF Play
    <3>. DEFINE w == FetchedFor(t, play[p].restarts + 1)
    <3>0. /\ w \in Play /\ w.at = "fetching" /\ w.track = t
          /\ w.restarts = play[p].restarts + 1 /\ w.offset = 0 /\ w.identity = 0 /\ w.slice = 0
      BY <2>1, <3>2, FetchingPlay
    <3>3. play' \in [Plays -> Play] /\ play'[p] = w
          /\ \A q \in Plays \ {p} : play'[q] = play[q]
      BY <2>1, <3>0, <3>1 DEF DownloadTypes
    <3>4. /\ play'[p].at = "fetching" /\ play'[p].track = t /\ play'[p].restarts < MaxRestarts
          /\ play'[p].offset = 0 /\ play'[p].identity = 0 /\ play'[p].slice = 0
      BY <3>0, <3>2, <3>3
    <3>5. FetchSound(p)'
      BY <2>1, <2>3, <3>4, WholeOfNothing, MusicAssumption DEF FetchSound
    <3>6. ASSUME NEW q \in Plays \ {p} PROVE FetchSound(q)'
      BY <2>3, <2>4, <3>3, <3>6 DEF FetchSound
    <3>7. FetchedOnce'
      BY <2>4, <3>3, <3>4 DEF FetchedOnce
    <3>8. \A q \in Plays : play'[q].slice # 0 => play'[q].at = "fetching"
      BY <3>3, <3>4
    <3>. QED BY <2>2, <2>3, <3>3, <3>5, <3>6, <3>7, <3>8 DEF DownloadTypes, CacheWhole
  <2>. QED BY <2>5, <2>6
<1>4. ASSUME NEW p \in Plays, SliceArrives(p) PROVE MusicInv'
  <2>. DEFINE t == play[p].track
  <2>1. /\ play[p].slice # 0 /\ ~Changed(p) /\ play[p].offset + 1 < NumSlices
        /\ part' = [part EXCEPT ![t] = With(p)]
        /\ play' = [play EXCEPT ![p].offset = @ + 1, ![p].identity = play[p].slice, ![p].slice = 0]
        /\ UNCHANGED <<version, cached, fetched>>
    BY <1>4 DEF SliceArrives
  <2>2. /\ play[p].at = "fetching" /\ t \in Tracks
        /\ play[p].slice \in 1 .. MaxVersions
        /\ play[p].offset \in 0 .. NumSlices - 1
        /\ With(p) = Whole(play[p].slice, play[p].offset + 1)
        /\ With(p) \in Seq(Slice)
    BY <2>1, SliceFits
  <2>3. part' \in [Tracks -> Seq(Slice)] /\ part'[t] = With(p)
        /\ \A u \in Tracks \ {t} : part'[u] = part[u]
    BY <2>1, <2>2 DEF DownloadTypes
  <2>4. \A q \in Plays \ {p} : play[q].at = "fetching" => play[q].track # t
    BY <2>2 DEF FetchedOnce
  <2>5. play[p] \in Play /\ play[p].restarts < MaxRestarts
    BY <2>2 DEF DownloadTypes, FetchSound
  <2>6. /\ play' \in [Plays -> Play] /\ play'[p].at = "fetching" /\ play'[p].track = t
        /\ play'[p].restarts = play[p].restarts /\ play'[p].offset = play[p].offset + 1
        /\ play'[p].identity = play[p].slice /\ play'[p].slice = 0
        /\ \A q \in Plays \ {p} : play'[q] = play[q]
    BY <2>1, <2>2, <2>5, MusicAssumption DEF DownloadTypes, Play
  <2>7. FetchSound(p)'
    BY <2>1, <2>2, <2>3, <2>5, <2>6, MusicAssumption DEF FetchSound
  <2>8. ASSUME NEW q \in Plays \ {p} PROVE FetchSound(q)'
    BY <2>3, <2>4, <2>6, <2>8 DEF FetchSound
  <2>9. FetchedOnce'
    BY <2>4, <2>6 DEF FetchedOnce
  <2>10. \A q \in Plays : play'[q].slice # 0 => play'[q].at = "fetching"
    BY <2>6
  <2>. QED BY <2>1, <2>3, <2>6, <2>7, <2>8, <2>9, <2>10 DEF DownloadTypes, CacheWhole
<1>5. ASSUME NEW p \in Plays, DownloadEnds(p) PROVE MusicInv'
  <2>. DEFINE t == play[p].track
  <2>1. /\ play[p].slice # 0 /\ ~Changed(p) /\ play[p].offset + 1 = NumSlices
        /\ part' = [part EXCEPT ![t] = <<>>]
        /\ cached' = [u \in Tracks |-> IF u \notin ToSet(Kept(t)) THEN <<>>
                                       ELSE IF u = t THEN With(p) ELSE cached[u]]
        /\ PlaysEnd(p) /\ UNCHANGED version
    BY <1>5 DEF DownloadEnds
  <2>2. /\ play[p].at = "fetching" /\ t \in Tracks
        /\ play[p].slice \in 1 .. MaxVersions
        /\ With(p) = Whole(play[p].slice, NumSlices)
        /\ With(p) \in Seq(Slice)
    BY <2>1, SliceFits
  <2>3. \A q \in Plays \ {p} : play[q].at = "fetching" => play[q].track # t
    BY <2>2 DEF FetchedOnce
  <2>4. part' \in [Tracks -> Seq(Slice)] /\ \A u \in Tracks \ {t} : part'[u] = part[u]
    BY <2>1, <2>2 DEF DownloadTypes
  <2>5. cached' \in [Tracks -> Seq(Slice)]
    BY <2>1, <2>2 DEF DownloadTypes
  <2>6. CacheWhole'
    <3>. SUFFICES ASSUME NEW u \in Tracks
                  PROVE  cached'[u] = <<>> \/ \E v \in 1 .. MaxVersions : cached'[u] = Whole(v, NumSlices)
      BY DEF CacheWhole, Whole
    <3>1. cached'[u] \in {<<>>, With(p), cached[u]}
      BY <2>1
    <3>2. cached[u] = <<>> \/ \E v \in 1 .. MaxVersions : cached[u] = Whole(v, NumSlices)
      BY DEF CacheWhole, Whole
    <3>. QED BY <2>2, <3>1, <3>2
  <2>7. /\ play' \in [Plays -> Play] /\ play'[p].at = "idle"
        /\ \A q \in Plays : play'[q] = play[q] \/ (play'[q].at = "idle" /\ play'[q].slice = 0)
    BY <2>1, EndedPlays
  <2>8. version' \in [Tracks -> 1 .. MaxVersions]
    BY <2>1 DEF DownloadTypes
  <2>9. FetchedOnce' /\ \A q \in Plays : (play'[q].slice # 0 => play'[q].at = "fetching") /\ FetchSound(q)'
    BY <2>2, <2>3, <2>4, <2>7, OthersGoOn
  <2>. QED BY <2>4, <2>5, <2>6, <2>7, <2>8, <2>9 DEF DownloadTypes
<1>6. ASSUME NEW p \in Plays, DownloadFails(p) PROVE MusicInv'
  BY <1>6, EndedPlays, SMTT(30)
     DEF DownloadFails, DownloadTypes, FetchedOnce, FetchSound, CacheWhole
<1>7. ASSUME NEW t \in Tracks, Remade(t) PROVE MusicInv'
  <2>1. version' = [version EXCEPT ![t] = version[t] + 1] /\ version[t] < MaxVersions
        /\ UNCHANGED <<part, cached, fetched, play>>
    BY <1>7 DEF Remade
  <2>2. version[t] + 1 \in 1 .. MaxVersions
    BY <2>1, MusicAssumption DEF DownloadTypes
  <2>3. DownloadTypes'
    BY <2>1, <2>2 DEF DownloadTypes
  <2>. QED BY <2>1, <2>3 DEF FetchedOnce, FetchSound, CacheWhole
<1>8. CASE PlayerRestarts
  <2>1. play' \in [Plays -> Play] /\ \A q \in Plays : play'[q].at = "idle" /\ play'[q].slice = 0
    BY <1>8, IdlePlay DEF PlayerRestarts
  <2>. QED BY <1>8, <2>1 DEF PlayerRestarts, DownloadTypes, FetchedOnce, FetchSound, CacheWhole
<1>9. CASE UNCHANGED musicVars
  BY <1>9 DEF musicVars, DownloadTypes, FetchedOnce, FetchSound, CacheWhole
<1>. QED BY <1>1, <1>2, <1>3, <1>4, <1>5, <1>6, <1>7, <1>8, <1>9 DEF MusicNext

\* What pruneCache leaves is a list of tracks within the limit.
LEMMA KeptIs ==
  ASSUME fetched \in Seq(Tracks), NEW t \in Tracks
  PROVE  Kept(t) \in Seq(Tracks) /\ Len(Kept(t)) <= CacheMax
<1>. DEFINE all == Append(RemoveFirst(fetched, t), t)
<1>1. all \in Seq(Tracks) /\ Len(all) \in Nat
  BY FirstRemoved
<1>2. Kept(t) = IF Len(all) <= CacheMax THEN all
                ELSE SubSeq(all, Len(all) - CacheMax + 1, Len(all))
  BY Zenon DEF Kept
<1>. HIDE DEF all
<1>3. CASE Len(all) <= CacheMax
  BY <1>1, <1>2, <1>3
<1>4. CASE ~(Len(all) <= CacheMax)
  <2>1. /\ Len(all) - CacheMax + 1 \in 1 .. Len(all) + 1
        /\ Len(all) - (Len(all) - CacheMax + 1) + 1 = CacheMax
    BY <1>1, <1>4, MusicAssumption
  <2>2. \A i \in Len(all) - CacheMax + 1 .. Len(all) : all[i] \in Tracks
    BY <1>1, <1>4, MusicAssumption
  <2>3. /\ SubSeq(all, Len(all) - CacheMax + 1, Len(all)) \in Seq(Tracks)
        /\ Len(SubSeq(all, Len(all) - CacheMax + 1, Len(all))) = CacheMax
    BY <1>1, <1>4, <2>1, <2>2, SubSeqProperties, MusicAssumption
  <2>. QED BY <1>2, <1>4, <2>3, MusicAssumption
<1>. QED BY <1>3, <1>4

LEMMA ListedStep == MusicInv /\ ListedTypes /\ [MusicNext]_musicVars => ListedTypes'
<1>. SUFFICES ASSUME MusicInv, ListedTypes, [MusicNext]_musicVars PROVE ListedTypes'
  OBVIOUS
<1>1. ASSUME NEW p \in Plays, DownloadEnds(p) PROVE ListedTypes'
  <2>1. play[p].track \in Tracks /\ fetched' = Kept(play[p].track)
    <3>1. play[p].slice # 0 /\ fetched' = Kept(play[p].track)
      BY <1>1 DEF DownloadEnds
    <3>2. play[p].at = "fetching" /\ FetchSound(p)
      BY <3>1 DEF MusicInv
    <3>. QED BY <3>1, <3>2 DEF FetchSound
  <2>. QED BY <2>1, KeptIs DEF ListedTypes
<1>2. \/ \E p \in Plays : DownloadEnds(p)
      \/ UNCHANGED fetched
  BY Zenon DEF MusicNext, musicVars, PlayBegins, SliceRead, SliceOfAnother, SliceArrives,
               DownloadFails, Remade, PlayerRestarts
<1>. QED BY <1>1, <1>2 DEF ListedTypes

LEMMA MusicInvHolds == MusicSpec => [](MusicInv /\ ListedTypes)
<1>1. MusicInit => ListedTypes
  BY MusicAssumption DEF MusicInit, ListedTypes
<1>. QED BY <1>1, MusicStarts, MusicStep, ListedStep, PTL DEF MusicSpec

\* Files, downloads and the list of what is in the cache keep their types; the
\* list never outgrows cacheMaxTracks.
THEOREM MusicTypeCorrect == MusicSpec => []MusicTypeOK
<1>1. MusicInv /\ ListedTypes => MusicTypeOK
  BY DEF MusicInv, DownloadTypes, ListedTypes, MusicTypeOK
<1>. QED BY <1>1, MusicInvHolds, PTL

\* A track in the cache is one version from its first slice to its last,
\* whatever was replaced, given up or restarted while it came.
THEOREM CachedIsWhole == MusicSpec => []CacheWhole
<1>1. MusicInv => CacheWhole
  BY DEF MusicInv
<1>. QED BY <1>1, MusicStarts, MusicStep, PTL DEF MusicSpec
----------------------------------------------------------------------------
(* The types of Billing.                                                  *)

Queueing == {c \in Clicks : click[c].at = "queueing"}

\* Clicks need not be finite: the clicks under way are.
BillingTypes ==
  /\ BillingTypeOK
  /\ IsFiniteSet(Queueing)
  /\ \A c \in Clicks : click[c].at = "idle" => click[c] = NotClicked

LEMMA RolledIs ==
  ASSUME BillingTypeOK
  PROVE  /\ Rolled \in Account /\ Rolled.month = month
         /\ Rolled.used = (IF store.month = month THEN store.used ELSE 0)
         /\ Rolled.linked = store.linked /\ Rolled.sub = store.sub
         /\ Rolled.status = store.status
<1>1. CASE store.month = month
  BY <1>1 DEF BillingTypeOK, Rolled, Account
<1>2. CASE store.month # month
  <2>. DEFINE a == [store EXCEPT !.month = month]
              b == [a EXCEPT !.used = 0]
  <2>1. Rolled = b
    BY <1>2, Zenon DEF Rolled
  <2>2. /\ a \in Account /\ a.month = month /\ a.linked = store.linked
        /\ a.sub = store.sub /\ a.status = store.status
    BY DEF BillingTypeOK, Account
  <2>. HIDE DEF a
  <2>3. /\ b \in Account /\ b.month = month /\ b.used = 0 /\ b.linked = store.linked
        /\ b.sub = store.sub /\ b.status = store.status
    BY <2>2 DEF Account
  <2>. QED BY <1>2, <2>1, <2>3
<1>. QED BY <1>1, <1>2

LEMMA AppliedIs ==
  ASSUME BillingTypeOK, NEW s \in Subs, NEW st \in State
  PROVE  /\ Applied(s, st) \in Account
         /\ Applied(s, st).month = month /\ Applied(s, st).used = Rolled.used
         /\ Applied(s, st).linked = store.linked
         /\ Applied(s, st).sub = s /\ Applied(s, st).status = st
<1>. DEFINE a == [Rolled EXCEPT !.sub = s]
            b == [a EXCEPT !.status = st]
            d == [b EXCEPT !.lapsed = FALSE]
<1>1. Applied(s, st) = d
  BY Zenon DEF Applied
<1>2. /\ a \in Account /\ a.month = month /\ a.used = Rolled.used
      /\ a.linked = store.linked /\ a.sub = s
  BY RolledIs DEF Account
<1>. HIDE DEF a
<1>3. /\ b \in Account /\ b.month = month /\ b.used = Rolled.used
      /\ b.linked = store.linked /\ b.sub = s /\ b.status = st
  BY <1>2 DEF Account
<1>. HIDE DEF b
<1>4. /\ d \in Account /\ d.month = month /\ d.used = Rolled.used
      /\ d.linked = store.linked /\ d.sub = s /\ d.status = st
  BY <1>3 DEF Account
<1>. QED BY <1>1, <1>4

LEMMA SpentIs ==
  ASSUME BillingTypeOK
  PROVE  LET a == [Rolled EXCEPT !.used = @ + 1]
         IN  /\ a \in Account /\ a.month = month /\ a.used = Rolled.used + 1
             /\ a.linked = store.linked /\ a.sub = store.sub /\ a.status = store.status
BY RolledIs DEF Account

LEMMA LinkedIs ==
  ASSUME BillingTypeOK
  PROVE  LET a == [Rolled EXCEPT !.linked = TRUE]
         IN  /\ a \in Account /\ a.month = month /\ a.used = Rolled.used
             /\ a.linked = TRUE /\ a.sub = store.sub /\ a.status = store.status
BY RolledIs DEF Account

\* A refund is of a track the account has used.
LEMMA RefundedIs ==
  ASSUME BillingTypeOK, NEW m, Refunded(m)
  PROVE  /\ store' \in Account /\ disk' \in Account
         /\ store'.month = store.month /\ store'.linked = store.linked
         /\ store'.sub = store.sub /\ store'.status = store.status
         /\ \/ m # 0 /\ store.month = m /\ store.used > 0
               /\ store'.used = store.used - 1 /\ disk' = store'
            \/ ~(m # 0 /\ store.month = m /\ store.used > 0) /\ UNCHANGED <<store, disk>>
<1>1. CASE m # 0 /\ store.month = m /\ store.used > 0
  <2>. DEFINE a == [store EXCEPT !.used = @ - 1]
  <2>1. store' = a /\ disk' = a
    BY <1>1 DEF Refunded, Saves
  <2>2. store \in Account /\ store.used - 1 \in Nat
    BY <1>1 DEF BillingTypeOK, Account
  <2>3. /\ a \in Account /\ a.month = store.month /\ a.linked = store.linked
        /\ a.sub = store.sub /\ a.status = store.status /\ a.used = store.used - 1
    BY <2>2 DEF Account
  <2>. QED BY <1>1, <2>1, <2>3
<1>2. CASE ~(m # 0 /\ store.month = m /\ store.used > 0)
  BY <1>2 DEF Refunded, BillingTypeOK
<1>. QED BY <1>1, <1>2

LEMMA EventAt ==
  ASSUME BillingTypeOK, NEW i \in DOMAIN events
  PROVE  /\ events[i] \in Event /\ events[i].sub \in Subs /\ events[i].status \in State
         /\ events[i].kind \in {"checkout", "updated", "deleted"}
         /\ i \in 1 .. Len(events) /\ Len(events) \in Nat
<1>1. events \in Seq(Event)
  BY DEF BillingTypeOK
<1>2. i \in 1 .. Len(events) /\ Len(events) \in Nat
  BY <1>1
<1>3. events[i] \in Event
  BY <1>1, <1>2
<1>. QED BY <1>2, <1>3 DEF Event

LEMMA NotClickedIs == NotClicked \in Click /\ NotClicked.at = "idle" /\ NotClicked.charged = 0
BY DEF NotClicked, Click

LEMMA UnderWayIs ==
  ASSUME BillingTypes, NEW m \in Months
  PROVE  IsFiniteSet({c \in Clicks : click[c].charged = m}) /\ UnderWay(m) \in Nat
<1>1. {c \in Clicks : click[c].charged = m} \subseteq Queueing
  BY NotClickedIs DEF BillingTypes, BillingTypeOK, Click, Queueing, Months
<1>2. IsFiniteSet({c \in Clicks : click[c].charged = m})
  BY <1>1, FS_Subset DEF BillingTypes
<1>. QED BY <1>2, FS_CardinalityType DEF UnderWay

\* What one click does to the clicks under way.
LEMMA OneClick ==
  ASSUME BillingTypes, NEW c \in Clicks, NEW r \in Click, click' = [click EXCEPT ![c] = r],
         r.at = "idle" => r = NotClicked
  PROVE  /\ click' \in [Clicks -> Click]
         /\ IsFiniteSet(Queueing)'
         /\ \A d \in Clicks : click'[d].at = "idle" => click'[d] = NotClicked
<1>1. click' \in [Clicks -> Click]
  BY DEF BillingTypes, BillingTypeOK
<1>2. Queueing' \subseteq Queueing \cup {c}
  BY DEF Queueing, BillingTypes, BillingTypeOK
<1>3. IsFiniteSet(Queueing \cup {c})
  BY FS_AddElement DEF BillingTypes
<1>4. IsFiniteSet(Queueing)'
  BY <1>2, <1>3, FS_Subset
<1>. QED BY <1>1, <1>4 DEF BillingTypes, BillingTypeOK

LEMMA TypesStart == BillingInit => BillingTypes
<1>. SUFFICES ASSUME BillingInit PROVE BillingTypes
  OBVIOUS
<1>1. NewAccount \in Account
  BY BillingAssumption DEF NewAccount, Account, Months, State
<1>2. NotAsking \in [sub : Subs \cup {0}, status : State]
  BY DEF NotAsking, State
<1>3. Queueing = {}
  BY NotClickedIs DEF BillingInit, Queueing
<1>4. month \in Months
  BY BillingAssumption DEF BillingInit, Months
<1>5. BillingTypeOK
  BY <1>1, <1>2, <1>4, NotClickedIs DEF BillingInit, BillingTypeOK, State
<1>. QED BY <1>3, <1>5, FS_EmptySet DEF BillingInit, BillingTypes

\* What the step leaves of the types, when no click is concerned.
LEMMA TypesOfOthers ==
  ASSUME BillingTypes, UNCHANGED <<month, click, free, wasted>>,
         store' \in Account, disk' \in Account,
         stripe' \in [Subs -> State], events' \in Seq(Event),
         asking' \in [sub : Subs \cup {0}, status : State], orderly' \in BOOLEAN
  PROVE  BillingTypes'
<1>1. Queueing' = Queueing
  BY DEF Queueing
<1>. QED BY <1>1 DEF BillingTypes, BillingTypeOK

LEMMA ReportTypes ==
  ASSUME BillingTypes, NEW es \in Seq(Event), Reports(es), stripe' \in [Subs -> State]
  PROVE  BillingTypes'
<1>1. UNCHANGED <<month, store, disk, click, free, wasted, asking, orderly>>
      /\ events' \in Seq(Event)
  BY DEF Reports, clickVars, BillingTypes, BillingTypeOK
<1>. QED BY <1>1, TypesOfOthers DEF BillingTypes, BillingTypeOK

LEMMA EventsAre ==
  ASSUME NEW s \in Subs, NEW st \in State, NEW k \in {"checkout", "updated", "deleted"}
  PROVE  /\ Of(k, s, st) \in Event
         /\ Of(k, s, st).kind = k /\ Of(k, s, st).sub = s /\ Of(k, s, st).status = st
BY DEF Of, Event

LEMMA NotAskingIs ==
  NotAsking \in [sub : Subs \cup {0}, status : State] /\ NotAsking.sub = 0 /\ NotAsking.status = "none"
BY DEF NotAsking, State

LEMMA TypesStep == BillingTypes /\ [BillingNext]_billingVars => BillingTypes'
<1>. SUFFICES ASSUME BillingTypes, [BillingNext]_billingVars PROVE BillingTypes'
  OBVIOUS
<1>t. BillingTypeOK
  BY DEF BillingTypes
<1>1. CASE MonthTurns
  <2>1. month + 1 \in Months /\ month' = month + 1 /\ Queueing' = Queueing
        /\ UNCHANGED <<store, disk, click, free, wasted, stripe, events, asking, orderly>>
    BY <1>1, <1>t, BillingAssumption
       DEF MonthTurns, BillingTypeOK, Months, clickVars, stripeVars, Queueing
  <2>. QED BY <2>1 DEF BillingTypes, BillingTypeOK
<1>2. CASE PeriodLapses
  <2>1. store' \in Account
    BY <1>2, <1>t DEF PeriodLapses, BillingTypeOK, Account
  <2>2. disk' \in Account
    BY <1>2, <1>t DEF PeriodLapses, BillingTypeOK, Account
  <2>. QED BY <1>2, <1>t, <2>1, <2>2, TypesOfOthers
           DEF PeriodLapses, BillingTypeOK, clickVars, stripeVars
<1>3. CASE Summary
  BY <1>3, <1>t, RolledIs, TypesOfOthers DEF Summary, BillingTypeOK, clickVars, stripeVars
<1>4. ASSUME NEW c \in Clicks, ClickReserves(c) PROVE BillingTypes'
  <2>. DEFINE r == [at |-> "queueing", charged |-> IF IsPaid(Rolled) THEN 0 ELSE month]
  <2>1. r \in Click /\ r.at = "queueing"
    BY <1>t DEF Click, BillingTypeOK
  <2>2. click' = [click EXCEPT ![c] = r]
        /\ UNCHANGED <<month, free, wasted, stripe, events, asking, orderly>>
    BY <1>4 DEF ClickReserves, stripeVars
  <2>3. store' \in Account /\ disk' \in Account
    <3>1. CASE IsPaid(Rolled) /\ store' = Rolled /\ UNCHANGED disk
      BY <3>1, <1>t, RolledIs DEF BillingTypeOK
    <3>2. CASE Saves([Rolled EXCEPT !.used = @ + 1])
      BY <3>2, <1>t, SpentIs DEF Saves
    <3>. QED BY <1>4, <3>1, <3>2 DEF ClickReserves
  <2>. HIDE DEF r
  <2>4. /\ click' \in [Clicks -> Click] /\ IsFiniteSet(Queueing)'
        /\ \A d \in Clicks : click'[d].at = "idle" => click'[d] = NotClicked
    BY <2>1, <2>2, OneClick
  <2>. QED BY <1>t, <2>2, <2>3, <2>4 DEF BillingTypes, BillingTypeOK
<1>5. ASSUME NEW c \in Clicks, ClickQueued(c) PROVE BillingTypes'
  <2>1. click' = [click EXCEPT ![c] = NotClicked]
        /\ UNCHANGED <<month, store, disk, wasted, stripe, events, asking, orderly>>
    BY <1>5 DEF ClickQueued, stripeVars
  <2>2. /\ click' \in [Clicks -> Click] /\ IsFiniteSet(Queueing)'
        /\ \A d \in Clicks : click'[d].at = "idle" => click'[d] = NotClicked
    BY <2>1, NotClickedIs, OneClick
  <2>3. free' \in [Months -> Nat]
    BY <1>5, <1>t DEF ClickQueued, BillingTypeOK
  <2>. QED BY <1>t, <2>1, <2>2, <2>3 DEF BillingTypes, BillingTypeOK
<1>6. ASSUME NEW c \in Clicks, ClickFails(c) PROVE BillingTypes'
  <2>1. click' = [click EXCEPT ![c] = NotClicked]
        /\ UNCHANGED <<month, free, wasted, stripe, events, asking, orderly>>
    BY <1>6 DEF ClickFails, stripeVars
  <2>2. /\ click' \in [Clicks -> Click] /\ IsFiniteSet(Queueing)'
        /\ \A d \in Clicks : click'[d].at = "idle" => click'[d] = NotClicked
    BY <2>1, NotClickedIs, OneClick
  <2>3. store' \in Account /\ disk' \in Account
    BY <1>6, <1>t, RefundedIs DEF ClickFails
  <2>. QED BY <1>t, <2>1, <2>2, <2>3 DEF BillingTypes, BillingTypeOK
<1>7. ASSUME NEW s \in Subs, Subscribes(s) \/ Cancelled(s) \/ Renews(s) PROVE BillingTypes'
  <2>1. CASE Subscribes(s)
    <3>1. <<Of("updated", s, "live"), Of("checkout", s, "live")>> \in Seq(Event)
      BY EventsAre DEF State
    <3>2. stripe' \in [Subs -> State]
      BY <2>1, <1>t DEF Subscribes, BillingTypeOK, State
    <3>. QED BY <2>1, <3>1, <3>2, ReportTypes DEF Subscribes
  <2>2. CASE Cancelled(s)
    <3>1. <<Of("deleted", s, "ended")>> \in Seq(Event)
      BY EventsAre DEF State
    <3>2. stripe' \in [Subs -> State]
      BY <2>2, <1>t DEF Cancelled, BillingTypeOK, State
    <3>. QED BY <2>2, <3>1, <3>2, ReportTypes DEF Cancelled
  <2>3. CASE Renews(s)
    <3>1. <<Of("updated", s, "live")>> \in Seq(Event)
      BY EventsAre DEF State
    <3>2. stripe' \in [Subs -> State]
      BY <2>3, <1>t DEF Renews, BillingTypeOK, State
    <3>. QED BY <2>3, <3>1, <3>2, ReportTypes DEF Renews
  <2>. QED BY <1>7, <2>1, <2>2, <2>3
<1>8. ASSUME NEW s \in Subs, NEW st \in {"live", "unpaid"}, StatusChanges(s, st)
      PROVE  BillingTypes'
  <2>1. <<Of("updated", s, st)>> \in Seq(Event)
    BY EventsAre DEF State
  <2>2. stripe' \in [Subs -> State]
    BY <1>8, <1>t DEF StatusChanges, BillingTypeOK, State
  <2>. QED BY <1>8, <2>1, <2>2, ReportTypes DEF StatusChanges
<1>9. ASSUME NEW i \in DOMAIN events, SubscriptionEvent(i) PROVE BillingTypes'
  <2>1. events[i] \in Event /\ events[i].sub \in Subs /\ events[i].status \in State
    BY <1>t, EventAt
  <2>2. store' \in Account /\ disk' \in Account
    BY <1>9, <1>t, <2>1, AppliedIs DEF SubscriptionEvent, Saves, BillingTypeOK
  <2>3. events' \in Seq(Event)
    BY <1>9, <1>t, RemovedOne DEF SubscriptionEvent, BillingTypeOK
  <2>4. UNCHANGED <<month, click, free, wasted, stripe, asking>> /\ orderly' \in BOOLEAN
    BY <1>9 DEF SubscriptionEvent, clickVars
  <2>. QED BY <1>t, <2>2, <2>3, <2>4, TypesOfOthers DEF BillingTypeOK
<1>10. ASSUME NEW i \in DOMAIN events, CheckoutEvent(i) PROVE BillingTypes'
  <2>1. asking' \in [sub : Subs \cup {0}, status : State]
    BY <1>10, <1>t, EventAt DEF CheckoutEvent, State
  <2>2. store' \in Account
    BY <1>10, <1>t, LinkedIs DEF CheckoutEvent
  <2>3. UNCHANGED <<month, disk, click, free, wasted, stripe, events>> /\ orderly' \in BOOLEAN
    BY <1>10 DEF CheckoutEvent, clickVars
  <2>. QED BY <1>t, <2>1, <2>2, <2>3, TypesOfOthers DEF BillingTypeOK
<1>11. ASSUME NEW i \in DOMAIN events, CheckoutEnds(i) PROVE BillingTypes'
  <2>1. asking.sub \in Subs /\ asking.status \in State
    BY <1>11, <1>t, EventAt DEF CheckoutEnds, BillingTypeOK
  <2>2. store' \in Account /\ disk' \in Account
    BY <1>11, <1>t, <2>1, AppliedIs DEF CheckoutEnds, Saves
  <2>3. events' \in Seq(Event)
    BY <1>11, <1>t, RemovedOne DEF CheckoutEnds, BillingTypeOK
  <2>4. UNCHANGED <<month, click, free, wasted, stripe, orderly>> /\ asking' = NotAsking
    BY <1>11 DEF CheckoutEnds, clickVars
  <2>. QED BY <1>t, <2>2, <2>3, <2>4, NotAskingIs, TypesOfOthers DEF BillingTypeOK
<1>12. CASE StripeAnswers
  <2>1. asking' \in [sub : Subs \cup {0}, status : State]
    BY <1>12, <1>t DEF StripeAnswers, BillingTypeOK
  <2>. QED BY <1>12, <1>t, <2>1, TypesOfOthers DEF StripeAnswers, BillingTypeOK, clickVars
<1>13. CASE StripeUnanswered
  BY <1>13, <1>t, NotAskingIs, TypesOfOthers DEF StripeUnanswered, BillingTypeOK, clickVars
<1>14. CASE BridgeRestarts
  <2>1. click' \in [Clicks -> Click] /\ \A c \in Clicks : click'[c] = NotClicked
    BY <1>14, NotClickedIs DEF BridgeRestarts
  <2>2. Queueing' = {}
    BY <2>1, NotClickedIs DEF Queueing
  <2>3. \A m \in Months : UnderWay(m) \in Nat
    BY UnderWayIs
  <2>4. wasted' \in [Months -> Nat]
    <3>1. wasted' = [m \in Months |-> wasted[m] + UnderWay(m)]
      BY <1>14, Zenon DEF BridgeRestarts, UnderWay
    <3>. QED BY <1>t, <2>3, <3>1 DEF BillingTypeOK
  <2>5. store' \in Account /\ asking' = NotAsking
        /\ UNCHANGED <<month, disk, free, stripe, events, orderly>>
    BY <1>14, <1>t DEF BridgeRestarts, BillingTypeOK
  <2>6. BillingTypeOK'
    BY <1>t, <2>1, <2>4, <2>5, NotAskingIs DEF BillingTypeOK
  <2>. QED BY <2>1, <2>2, <2>6, FS_EmptySet DEF BillingTypes
<1>15. CASE UNCHANGED billingVars
  BY <1>15, <1>t DEF billingVars, BillingTypes, BillingTypeOK, Queueing
<1>. QED BY <1>1, <1>2, <1>3, <1>4, <1>5, <1>6, <1>7, <1>8, <1>9, <1>10, <1>11, <1>12,
           <1>13, <1>14, <1>15 DEF BillingNext
----------------------------------------------------------------------------
(* What is counted.                                                        *)

\* Everything a month was charged: queued, being queued, or not lived to see.
Charged(m) == free[m] + UnderWay(m) + wasted[m]

\* An account, in memory or on disk, has counted what its month was charged;
\* one that is of an earlier month shows that nothing was charged since.
Booked(a) ==
  /\ a.month <= month
  /\ a.month = month => a.used = Charged(month) /\ a.used <= Allowance
  /\ a.month < month => Charged(month) = 0

CountInv ==
  /\ Booked(store) /\ Booked(disk)
  /\ \A m \in Months : m > month => Charged(m) = 0
  /\ \A c \in Clicks : click[c].charged <= month

LEMMA ChargedIs == ASSUME BillingTypes, NEW m \in Months PROVE Charged(m) \in Nat
<1>1. UnderWay(m) \in Nat
  BY UnderWayIs
<1>2. free[m] \in Nat /\ wasted[m] \in Nat
  BY DEF BillingTypes, BillingTypeOK
<1>. QED BY <1>1, <1>2 DEF Charged

\* A click leaves the months it is not charged to as they are.
LEMMA OneCharge ==
  ASSUME BillingTypes, NEW c \in Clicks, NEW r \in Click, click' = [click EXCEPT ![c] = r],
         NEW m \in Months
  PROVE  /\ click[c].charged = m => UnderWay(m) >= 1
         /\ UnderWay(m)' = UnderWay(m) - (IF click[c].charged = m THEN 1 ELSE 0)
                                       + (IF r.charged = m THEN 1 ELSE 0)
<1>. DEFINE S == {d \in Clicks : click[d].charged = m}
            R == S \ {c}
            T == {d \in Clicks : click'[d].charged = m}
<1>1. IsFiniteSet(S) /\ Cardinality(S) \in Nat
  BY UnderWayIs, FS_CardinalityType
<1>2. IsFiniteSet(R) /\ Cardinality(S) = Cardinality(R) + (IF click[c].charged = m THEN 1 ELSE 0)
      /\ Cardinality(R) \in Nat
  <2>1. IsFiniteSet(R) /\ Cardinality(R) \in Nat
        /\ Cardinality(R) = IF c \in S THEN Cardinality(S) - 1 ELSE Cardinality(S)
    BY <1>1, FS_RemoveElement, FS_CardinalityType
  <2>. QED BY <1>1, <2>1
<1>3. T = IF r.charged = m THEN R \cup {c} ELSE R
  BY DEF BillingTypes, BillingTypeOK
<1>4. Cardinality(T) = Cardinality(R) + (IF r.charged = m THEN 1 ELSE 0)
  <2>1. c \notin R
    OBVIOUS
  <2>2. Cardinality(R \cup {c}) = Cardinality(R) + 1
    BY <1>2, <2>1, FS_AddElement, Zenon
  <2>. HIDE DEF R, T
  <2>3. CASE r.charged = m
    BY <1>3, <2>2, <2>3
  <2>4. CASE r.charged # m
    BY <1>2, <1>3, <2>4
  <2>. QED BY <2>3, <2>4
<1>5. UnderWay(m) = Cardinality(S) /\ UnderWay(m)' = Cardinality(T)
  BY DEF UnderWay
<1>. HIDE DEF S, R, T
<1>. QED BY <1>1, <1>2, <1>4, <1>5

LEMMA CountStarts == BillingInit => CountInv
<1>. SUFFICES ASSUME BillingInit PROVE CountInv
  OBVIOUS
<1>1. \A m \in Months : UnderWay(m) = 0
  <2>. SUFFICES ASSUME NEW m \in Months PROVE {c \in Clicks : click[c].charged = m} = {}
    BY FS_EmptySet DEF UnderWay
  <2>. QED BY NotClickedIs DEF BillingInit, Months
<1>2. \A m \in Months : Charged(m) = 0
  BY <1>1 DEF Charged, BillingInit
<1>3. month = 1 /\ 1 \in Months /\ store.month = 1 /\ store.used = 0 /\ disk.month = 1 /\ disk.used = 0
  BY BillingAssumption DEF BillingInit, Months, NewAccount
<1>4. \A c \in Clicks : click[c].charged <= month
  BY <1>3, NotClickedIs DEF BillingInit
<1>. QED BY <1>2, <1>3, <1>4, BillingAssumption DEF CountInv, Booked

\* The account that is as it was, or rolled into the month it is, is booked as
\* long as nothing is charged.
CountsOf(a, b) == a.month = b.month /\ a.used = b.used

KeptIn(a) == CountsOf(a, store) \/ CountsOf(a, disk) \/ CountsOf(a, Rolled)

LEMMA RolledIsBooked == ASSUME BillingTypes, CountInv PROVE Booked(Rolled)
<1>1. month \in Months /\ Charged(month) \in Nat /\ store.month \in Months
  BY ChargedIs DEF BillingTypes, BillingTypeOK, Account
<1>. QED BY <1>1, RolledIs, BillingAssumption DEF BillingTypes, CountInv, Booked, Months

LEMMA CountsStand ==
  ASSUME BillingTypes, CountInv, UNCHANGED <<month, click, free, wasted>>,
         KeptIn(store'), KeptIn(disk')
  PROVE  CountInv'
<1>1. \A m \in Months : Charged(m)' = Charged(m)
  BY DEF Charged, UnderWay
<1>2. month \in Months
  BY DEF BillingTypes, BillingTypeOK
<1>3. Booked(store)' /\ Booked(disk)'
  BY <1>1, <1>2, RolledIsBooked DEF CountInv, Booked, KeptIn, CountsOf
<1>. QED BY <1>1, <1>3 DEF CountInv

LEMMA CountStep == BillingTypes /\ CountInv /\ [BillingNext]_billingVars => CountInv'
<1>. SUFFICES ASSUME BillingTypes, CountInv, [BillingNext]_billingVars PROVE CountInv'
  OBVIOUS
<1>t. BillingTypeOK /\ month \in Months /\ store \in Account /\ disk \in Account
      /\ store.month \in Months /\ store.used \in Nat /\ disk.month \in Months /\ disk.used \in Nat
  BY DEF BillingTypes, BillingTypeOK, Account
<1>n. \A m \in Months : Charged(m) \in Nat /\ UnderWay(m) \in Nat /\ free[m] \in Nat /\ wasted[m] \in Nat
  BY ChargedIs, UnderWayIs DEF BillingTypes, BillingTypeOK
<1>m. /\ \A m \in Months : m \in Nat /\ m >= 1
      /\ month \in Nat /\ store.month \in Nat /\ disk.month \in Nat
  BY <1>t DEF Months
<1>c. \A c \in Clicks : click[c] \in Click /\ click[c].charged \in Months \cup {0} /\ click[c].charged \in Nat
  <2>. TAKE c \in Clicks
  <2>1. click[c] \in Click
    BY <1>t DEF BillingTypeOK
  <2>2. click[c].charged \in Months \cup {0}
    BY <2>1 DEF Click
  <2>. QED BY <1>m, <2>1, <2>2
<1>1. CASE MonthTurns
  <2>1. month + 1 \in Months /\ month' = month + 1
        /\ UNCHANGED <<store, disk, click, free, wasted>>
    BY <1>1, <1>t, BillingAssumption DEF MonthTurns, Months, clickVars
  <2>2. \A m \in Months : Charged(m)' = Charged(m)
    BY <2>1 DEF Charged, UnderWay
  <2>3. month' \in Months /\ Charged(month') = 0 /\ Charged(month)' = 0
    BY <1>m, <1>t, <2>1, <2>2 DEF CountInv
  <2>4. store.month < month' /\ disk.month < month'
    BY <1>m, <1>t, <2>1 DEF CountInv, Booked
  <2>5. Booked(store)' /\ Booked(disk)'
    BY <1>m, <1>t, <2>1, <2>3, <2>4 DEF Booked
  <2>6. \A m \in Months : m > month' => Charged(m)' = 0
    <3>. SUFFICES ASSUME NEW m \in Months, m > month' PROVE Charged(m)' = 0
      OBVIOUS
    <3>1. m > month
      BY <1>m, <2>1
    <3>. QED BY <2>2, <3>1 DEF CountInv
  <2>7. \A c \in Clicks : click'[c].charged <= month'
    BY <1>c, <1>m, <2>1 DEF CountInv
  <2>. QED BY <2>5, <2>6, <2>7 DEF CountInv
<1>2. CASE PeriodLapses
  <2>1. CountsOf(store', store) /\ CountsOf(disk', disk)
    BY <1>2, <1>t DEF PeriodLapses, CountsOf, Account
  <2>. QED BY <1>2, <2>1, CountsStand DEF KeptIn, PeriodLapses, clickVars
<1>3. CASE Summary
  BY <1>3, CountsStand DEF Summary, KeptIn, CountsOf, clickVars
<1>4. ASSUME NEW c \in Clicks, ClickReserves(c) PROVE CountInv'
  <2>. DEFINE r == [at |-> "queueing", charged |-> IF IsPaid(Rolled) THEN 0 ELSE month]
  <2>1. r \in Click /\ r.charged = IF IsPaid(Rolled) THEN 0 ELSE month
    BY <1>t DEF Click
  <2>2. click' = [click EXCEPT ![c] = r] /\ UNCHANGED <<month, free, wasted>> /\ click[c] = NotClicked
    BY <1>4 DEF ClickReserves
  <2>. HIDE DEF r
  <2>3. \A m \in Months : UnderWay(m)' = UnderWay(m) + (IF r.charged = m THEN 1 ELSE 0)
    <3>. TAKE m \in Months
    <3>1. click[c].charged # m
      BY <1>m, <2>2, NotClickedIs
    <3>2. UnderWay(m)' = UnderWay(m) - 0 + (IF r.charged = m THEN 1 ELSE 0)
      BY <2>1, <2>2, <3>1, OneCharge
    <3>. QED BY <1>n, <3>2
  <2>4. \A m \in Months : Charged(m)' = Charged(m) + (IF r.charged = m THEN 1 ELSE 0)
    BY <1>n, <2>2, <2>3 DEF Charged
  <2>5. Booked(Rolled) /\ Rolled.month = month /\ Rolled.used \in Nat
    BY <1>t, RolledIsBooked, RolledIs DEF Account
  <2>6. \A d \in Clicks : click'[d].charged <= month
    BY <1>t, <1>m, <2>1, <2>2 DEF CountInv, BillingTypeOK
  <2>7. \A m \in Months : m > month' => Charged(m)' = 0
    BY <1>t, <1>m, <2>1, <2>2, <2>4 DEF CountInv
  <2>8. CASE IsPaid(Rolled) /\ store' = Rolled /\ UNCHANGED disk
    <3>1. Charged(month)' = Charged(month)
      BY <1>t, <1>n, <1>m, <2>1, <2>2, <2>4, <2>8
    <3>2. Booked(store)' /\ Booked(disk)'
      BY <2>2, <2>5, <2>8, <3>1 DEF Booked, CountInv
    <3>. QED BY <2>2, <2>6, <2>7, <3>2 DEF CountInv
  <2>9. CASE ~IsPaid(Rolled) /\ Rolled.used < Allowance /\ Saves([Rolled EXCEPT !.used = @ + 1])
    <3>1. Charged(month)' = Charged(month) + 1
      BY <1>t, <1>n, <1>m, <2>1, <2>2, <2>4, <2>9
    <3>2. store'.month = month /\ store'.used = Rolled.used + 1 /\ disk' = store'
      BY <1>t, <2>9, SpentIs DEF Saves
    <3>3. store'.used = Charged(month)' /\ store'.used <= Allowance
      BY <2>5, <2>9, <3>1, <3>2, BillingAssumption DEF Booked
    <3>4. Booked(store)' /\ Booked(disk)'
      BY <1>t, <1>m, <2>2, <3>2, <3>3 DEF Booked
    <3>. QED BY <2>2, <2>6, <2>7, <3>4 DEF CountInv
  <2>. QED BY <1>4, <2>8, <2>9 DEF ClickReserves
<1>5. ASSUME NEW c \in Clicks, ClickQueued(c) PROVE CountInv'
  <2>1. click' = [click EXCEPT ![c] = NotClicked] /\ UNCHANGED <<month, store, disk, wasted>>
        /\ free' = [m \in Months |-> free[m] + (IF click[c].charged = m THEN 1 ELSE 0)]
    BY <1>5 DEF ClickQueued
  <2>2. \A m \in Months : UnderWay(m)' = UnderWay(m) - (IF click[c].charged = m THEN 1 ELSE 0)
    <3>. TAKE m \in Months
    <3>1. NotClicked.charged # m
      BY <1>m, NotClickedIs
    <3>2. UnderWay(m)' = UnderWay(m) - (IF click[c].charged = m THEN 1 ELSE 0) + 0
      BY <2>1, <3>1, NotClickedIs, OneCharge
    <3>. QED BY <1>n, <3>2
  <2>3. \A m \in Months : Charged(m)' = Charged(m)
    BY <1>n, <2>1, <2>2 DEF Charged
  <2>4. \A d \in Clicks : click'[d].charged <= month
    BY <1>c, <1>m, <2>1, NotClickedIs DEF CountInv, BillingTypes, BillingTypeOK
  <2>5. Booked(store)' /\ Booked(disk)'
    BY <1>t, <2>1, <2>3 DEF CountInv, Booked
  <2>. QED BY <2>1, <2>3, <2>4, <2>5 DEF CountInv
<1>6. ASSUME NEW c \in Clicks, ClickFails(c) PROVE CountInv'
  <2>. DEFINE k == click[c].charged
  <2>1. click' = [click EXCEPT ![c] = NotClicked] /\ UNCHANGED <<month, free, wasted>>
        /\ Refunded(k)
    BY <1>6 DEF ClickFails
  <2>2. \A m \in Months : /\ k = m => UnderWay(m) >= 1
                          /\ UnderWay(m)' = UnderWay(m) - (IF k = m THEN 1 ELSE 0)
    <3>. TAKE m \in Months
    <3>1. NotClicked.charged # m
      BY <1>m, NotClickedIs
    <3>2. /\ k = m => UnderWay(m) >= 1
          /\ UnderWay(m)' = UnderWay(m) - (IF k = m THEN 1 ELSE 0) + 0
      BY <2>1, <3>1, NotClickedIs, OneCharge
    <3>. QED BY <1>n, <3>2
  <2>3. \A m \in Months : /\ k = m => Charged(m) >= 1
                          /\ Charged(m)' = Charged(m) - (IF k = m THEN 1 ELSE 0)
    BY <1>n, <2>1, <2>2 DEF Charged
  <2>4. \A d \in Clicks : click'[d].charged <= month
    BY <1>c, <1>m, <2>1, NotClickedIs DEF CountInv, BillingTypes, BillingTypeOK
  <2>5. \A m \in Months : m > month' => Charged(m)' = 0
    BY <1>t, <1>n, <1>m, <2>1, <2>3 DEF CountInv
  <2>6. store'.month = store.month
        /\ \/ k # 0 /\ store.month = k /\ store.used > 0 /\ store'.used = store.used - 1 /\ disk' = store'
           \/ ~(k # 0 /\ store.month = k /\ store.used > 0) /\ UNCHANGED <<store, disk>>
    BY <1>t, <2>1, RefundedIs
  <2>7. Booked(store)' /\ Booked(disk)'
    <3>1. CASE k # 0 /\ store.month = k /\ store.used > 0 /\ store'.used = store.used - 1 /\ disk' = store'
      <4>1. CASE k = month
        BY <1>t, <1>n, <1>m, <2>1, <2>3, <2>6, <3>1, <4>1, BillingAssumption DEF CountInv, Booked
      <4>2. CASE k # month
        BY <1>t, <1>n, <1>m, <2>1, <2>3, <2>6, <3>1, <4>2 DEF CountInv, Booked
      <4>. QED BY <4>1, <4>2
    <3>2. CASE ~(k # 0 /\ store.month = k /\ store.used > 0) /\ UNCHANGED <<store, disk>>
      <4>1. k # month
        BY <1>t, <1>n, <1>m, <2>3, <3>2 DEF CountInv, Booked
      <4>2. Charged(month)' = Charged(month)
        <5>1. Charged(month)' = Charged(month) - 0
          BY <1>t, <2>1, <2>3, <4>1
        <5>. QED BY <1>t, <1>n, <5>1
      <4>. QED BY <2>1, <3>2, <4>2 DEF CountInv, Booked
    <3>. QED BY <2>6, <3>1, <3>2
  <2>. QED BY <2>1, <2>4, <2>5, <2>7 DEF CountInv
<1>7. ASSUME NEW s \in Subs, Subscribes(s) \/ Cancelled(s) \/ Renews(s) PROVE CountInv'
  BY <1>7, CountsStand DEF Subscribes, Cancelled, Renews, Reports, KeptIn, CountsOf, clickVars
<1>8. ASSUME NEW s \in Subs, NEW st \in {"live", "unpaid"}, StatusChanges(s, st)
      PROVE  CountInv'
  BY <1>8, CountsStand DEF StatusChanges, Reports, KeptIn, CountsOf, clickVars
<1>9. ASSUME NEW i \in DOMAIN events, SubscriptionEvent(i) PROVE CountInv'
  <2>1. CountsOf(Applied(events[i].sub, events[i].status), Rolled)
    BY <1>t, EventAt, AppliedIs, RolledIs DEF CountsOf
  <2>2. KeptIn(store') /\ KeptIn(disk')
    BY <1>9, <2>1 DEF SubscriptionEvent, Saves, KeptIn, CountsOf
  <2>. QED BY <1>9, <2>2, CountsStand DEF SubscriptionEvent, clickVars
<1>10. ASSUME NEW i \in DOMAIN events, CheckoutEvent(i) PROVE CountInv'
  <2>1. KeptIn(store')
    BY <1>10, <1>t, LinkedIs, RolledIs DEF CheckoutEvent, KeptIn, CountsOf
  <2>. QED BY <1>10, <2>1, CountsStand DEF CheckoutEvent, KeptIn, CountsOf, clickVars
<1>11. ASSUME NEW i \in DOMAIN events, CheckoutEnds(i) PROVE CountInv'
  <2>1. asking.sub \in Subs /\ asking.status \in State
    BY <1>11, <1>t, EventAt DEF CheckoutEnds, BillingTypeOK
  <2>2. CountsOf(Applied(asking.sub, asking.status), Rolled)
    BY <1>t, <2>1, AppliedIs, RolledIs DEF CountsOf
  <2>3. KeptIn(store') /\ KeptIn(disk')
    BY <1>11, <2>2 DEF CheckoutEnds, Saves, KeptIn
  <2>. QED BY <1>11, <2>3, CountsStand DEF CheckoutEnds, clickVars
<1>12. CASE StripeAnswers \/ StripeUnanswered
  BY <1>12, CountsStand DEF StripeAnswers, StripeUnanswered, KeptIn, CountsOf, clickVars
<1>13. CASE BridgeRestarts
  <2>1. wasted' = [m \in Months |-> wasted[m] + UnderWay(m)]
    BY <1>13, Zenon DEF BridgeRestarts, UnderWay
  <2>2. store' = disk /\ UNCHANGED <<month, disk, free>>
        /\ \A c \in Clicks : click'[c] = NotClicked
    BY <1>13 DEF BridgeRestarts
  <2>3. \A m \in Months : UnderWay(m)' = 0
    <3>. SUFFICES ASSUME NEW m \in Months PROVE {c \in Clicks : click'[c].charged = m} = {}
      BY FS_EmptySet DEF UnderWay
    <3>. QED BY <1>m, <2>2, NotClickedIs
  <2>4. \A m \in Months : Charged(m)' = Charged(m)
    BY <1>n, <2>1, <2>2, <2>3 DEF Charged
  <2>5. \A c \in Clicks : click'[c].charged <= month
    BY <1>t, <1>m, <2>2, NotClickedIs
  <2>. QED BY <1>t, <2>2, <2>4, <2>5 DEF CountInv, Booked
<1>14. CASE UNCHANGED billingVars
  BY <1>14, CountsStand DEF billingVars, KeptIn, CountsOf
<1>. QED BY <1>1, <1>2, <1>3, <1>4, <1>5, <1>6, <1>7, <1>8, <1>9, <1>10, <1>11, <1>12,
           <1>13, <1>14 DEF BillingNext
----------------------------------------------------------------------------
(* Who is served.                                                          *)

IsCheckout(e) == e.kind = "checkout"

Expected == \E k \in 1 .. Len(events) : IsCheckout(events[k])

\* The file may be behind the memory in one thing, that a customer is linked;
\* a checkout is asked about only when he is.
AccountLink ==
  /\ disk.linked => store.linked
  /\ disk.sub = store.sub /\ disk.status = store.status
  /\ asking.sub = 0 => asking = NotAsking
  /\ asking # NotAsking => store.linked /\ stripe[asking.sub] # "none"

\* What Stripe reports on has begun, and each began with a checkout.
EventLink ==
  /\ \A s, t \in Live : s = t
  /\ \A k \in 1 .. Len(events) : stripe[events[k].sub] # "none"
  /\ \A j, k \in 1 .. Len(events) :
       IsCheckout(events[j]) /\ IsCheckout(events[k]) /\ events[j].sub = events[k].sub => j = k
  /\ (\E s \in Subs : stripe[s] # "none") => disk.linked \/ Expected
  /\ orderly /\ asking # NotAsking =>
       Len(events) > 0 /\ IsCheckout(events[1]) /\ events[1].sub = asking.sub

LinkInv == AccountLink /\ EventLink

\* An event that leaves a live subscription s the one that is held.
Harmless(e, s) ==
  \/ e.kind = "deleted" /\ e.sub # s
  \/ e.kind = "updated" /\ e.sub = s /\ e.status = "live"

\* Once the first i events are in, s is held and live.
SettledBy(i, s) ==
  IF i = 0 THEN store.sub = s /\ store.status = "live"
  ELSE /\ events[i].sub = s
       /\ \/ /\ events[i].kind = "updated" /\ events[i].status = "live"
             /\ disk.linked \/ \E k \in 1 .. i - 1 : IsCheckout(events[k])
          \/ IsCheckout(events[i]) /\ (asking.sub = s => asking.status \in {"none", "live"})

Settled(s) ==
  \E i \in 0 .. Len(events) :
    SettledBy(i, s) /\ \A j \in i + 1 .. Len(events) : Harmless(events[j], s)

ServedInv == orderly => \A s \in Live : Settled(s)

Reported(es) ==
  /\ Len(events') = Len(events) + Len(es)
  /\ \A k \in 1 .. Len(events) : events'[k] = events[k]
  /\ \A k \in 1 .. Len(es) : events'[Len(events) + k] = es[k]

LEMMA ReportedIs ==
  ASSUME BillingTypeOK, NEW es \in Seq(Event), events' = events \o es
  PROVE  Reported(es)
<1>1. events \in Seq(Event) /\ Len(events) \in Nat /\ Len(es) \in Nat
  BY DEF BillingTypeOK
<1>2. /\ Len(events') = Len(events) + Len(es)
      /\ \A k \in 1 .. Len(events) + Len(es) :
           events'[k] = IF k <= Len(events) THEN events[k] ELSE es[k - Len(events)]
  BY <1>1, ConcatProperties
<1>3. ASSUME NEW k \in 1 .. Len(events) PROVE events'[k] = events[k]
  BY <1>1, <1>2
<1>4. ASSUME NEW k \in 1 .. Len(es) PROVE events'[Len(events) + k] = es[k]
  <2>1. Len(events) + k \in 1 .. Len(events) + Len(es) /\ ~(Len(events) + k <= Len(events))
        /\ (Len(events) + k) - Len(events) = k
    BY <1>1
  <2>2. events'[Len(events) + k] = es[(Len(events) + k) - Len(events)]
    BY <1>2, <2>1, Zenon
  <2>. QED BY <2>1, <2>2, Zenon
<1>. QED BY <1>2, <1>3, <1>4 DEF Reported

Removed(i) ==
  /\ Len(events') = Len(events) - 1
  /\ \A k \in 1 .. Len(events) - 1 :
       events'[k] = IF k < i THEN events[k] ELSE events[k + 1]

LEMMA RemovedIs ==
  ASSUME BillingTypeOK, NEW i \in DOMAIN events, events' = RemoveAt(events, i)
  PROVE  Removed(i)
<1>1. events \in Seq(Event)
  BY DEF BillingTypeOK
<1>. QED BY <1>1, RemovedOne DEF Removed

\* One event more.
LEMMA OneReport ==
  ASSUME BillingTypeOK, NEW e \in Event, Reports(<<e>>)
  PROVE  /\ UNCHANGED <<month, store, disk, click, free, wasted, asking, orderly>>
         /\ Len(events) \in Nat /\ Len(events') = Len(events) + 1
         /\ \A k \in 1 .. Len(events) : events'[k] = events[k]
         /\ events'[Len(events) + 1] = e
<1>1. <<e>> \in Seq(Event) /\ Len(<<e>>) = 1 /\ <<e>>[1] = e
  OBVIOUS
<1>2. events' = events \o <<e>>
  BY DEF Reports
<1>3. Reported(<<e>>)
  BY <1>1, <1>2, ReportedIs
<1>. QED BY <1>1, <1>3 DEF Reported, Reports, clickVars, BillingTypeOK

LEMMA LinksStart == BillingInit => LinkInv /\ ServedInv
<1>. SUFFICES ASSUME BillingInit PROVE LinkInv /\ ServedInv
  OBVIOUS
<1>1. Live = {} /\ Len(events) = 0 /\ asking = NotAsking /\ \A s \in Subs : stripe[s] = "none"
  BY DEF BillingInit, Live
<1>. QED BY <1>1 DEF BillingInit, LinkInv, AccountLink, EventLink, ServedInv, NewAccount

\* A step of the account: what is held and what Stripe says stand.
SameLink == store'.linked = store.linked /\ store'.sub = store.sub /\ store'.status = store.status

SameDiskLink == disk'.sub = store.sub /\ disk'.status = store.status

LEMMA AccountSteps ==
  ASSUME BillingTypeOK, LinkInv, ServedInv, SameLink, SameDiskLink,
         disk.linked => disk'.linked, disk'.linked => store.linked,
         UNCHANGED <<stripe, events, asking, orderly>>
  PROVE  LinkInv' /\ ServedInv'
<1>1. Live' = Live /\ Expected' = Expected
  BY DEF Live, Expected
<1>2. LinkInv'
  BY <1>1 DEF LinkInv, AccountLink, EventLink, SameLink, SameDiskLink
<1>3. ServedInv'
  BY <1>1 DEF ServedInv, Settled, SettledBy, SameLink
<1>. QED BY <1>2, <1>3

\* A step of the asking.
LEMMA AskingSteps ==
  ASSUME BillingTypeOK, NEW s \in Subs, Settled(s),
         store'.sub = store.sub, store'.status = store.status, disk' = disk, events' = events,
         asking'.sub = s => asking'.status \in {"none", "live"}
  PROVE  Settled(s)'
BY DEF Settled, SettledBy

\* One report more on a subscription that has begun.
LEMMA ReportLink ==
  ASSUME BillingTypeOK, LinkInv, NEW e \in Event, Reports(<<e>>), ~IsCheckout(e),
         stripe[e.sub] # "none", \A s \in Subs : stripe'[s] = "none" <=> stripe[s] = "none",
         \A s, t \in Live' : s = t
  PROVE  LinkInv'
<1>1. /\ UNCHANGED <<month, store, disk, click, free, wasted, asking, orderly>>
      /\ Len(events) \in Nat /\ Len(events') = Len(events) + 1
      /\ \A k \in 1 .. Len(events) : events'[k] = events[k]
      /\ events'[Len(events) + 1] = e
  BY OneReport
<1>2. \A k \in 1 .. Len(events') : k \in 1 .. Len(events) \/ k = Len(events) + 1
  BY <1>1
<1>3. e.sub \in Subs /\ \A k \in 1 .. Len(events) : events[k].sub \in Subs
  BY EventAt DEF BillingTypeOK, Event
<1>4. asking # NotAsking => asking.sub \in Subs
  BY DEF BillingTypeOK, LinkInv, AccountLink
<1>5. AccountLink'
  BY <1>1, <1>4 DEF LinkInv, AccountLink
<1>6. \A k \in 1 .. Len(events') : stripe'[events'[k].sub] # "none"
  BY <1>1, <1>2, <1>3 DEF LinkInv, EventLink
<1>7. \A j, k \in 1 .. Len(events') :
        IsCheckout(events'[j]) /\ IsCheckout(events'[k]) /\ events'[j].sub = events'[k].sub => j = k
  BY <1>1, <1>2 DEF LinkInv, EventLink
<1>8. Expected => Expected'
  BY <1>1 DEF Expected
<1>9. (\E s \in Subs : stripe'[s] # "none") => disk'.linked \/ Expected'
  BY <1>1, <1>8 DEF LinkInv, EventLink
<1>10. orderly' /\ asking' # NotAsking =>
         Len(events') > 0 /\ IsCheckout(events'[1]) /\ events'[1].sub = asking'.sub
  <2>. SUFFICES ASSUME orderly', asking' # NotAsking
                PROVE  Len(events') > 0 /\ IsCheckout(events'[1]) /\ events'[1].sub = asking'.sub
    OBVIOUS
  <2>1. Len(events) > 0 /\ IsCheckout(events[1]) /\ events[1].sub = asking.sub
    BY <1>1 DEF LinkInv, EventLink
  <2>2. events'[1] = events[1]
    BY <1>1, <2>1
  <2>. QED BY <1>1, <2>1, <2>2
<1>. QED BY <1>5, <1>6, <1>7, <1>9, <1>10 DEF LinkInv, EventLink

LEMMA HarmlessReport ==
  ASSUME BillingTypeOK, NEW e \in Event, Reports(<<e>>), NEW s \in Subs, Settled(s), Harmless(e, s)
  PROVE  Settled(s)'
<1>1. /\ UNCHANGED <<month, store, disk, click, free, wasted, asking, orderly>>
      /\ Len(events) \in Nat /\ Len(events') = Len(events) + 1
      /\ \A k \in 1 .. Len(events) : events'[k] = events[k]
      /\ events'[Len(events) + 1] = e
  BY OneReport
<1>2. PICK i \in 0 .. Len(events) :
        SettledBy(i, s) /\ \A j \in i + 1 .. Len(events) : Harmless(events[j], s)
  BY DEF Settled
<1>3. SettledBy(i, s)'
  <2>1. \A k \in 1 .. i : events'[k] = events[k]
    BY <1>1
  <2>2. CASE i = 0
    BY <1>1, <1>2, <2>2 DEF SettledBy
  <2>3. CASE i # 0
    <3>1. events'[i] = events[i] /\ \A k \in 1 .. i - 1 : events'[k] = events[k]
      BY <1>1, <2>3
    <3>. QED BY <1>1, <1>2, <2>3, <3>1 DEF SettledBy
  <2>. QED BY <2>2, <2>3
<1>4. \A j \in i + 1 .. Len(events') : Harmless(events'[j], s)
  <2>. TAKE j \in i + 1 .. Len(events')
  <2>1. j \in i + 1 .. Len(events) \/ j = Len(events) + 1
    BY <1>1
  <2>. QED BY <1>1, <1>2, <2>1
<1>. QED BY <1>1, <1>3, <1>4 DEF Settled

\* A report that s is live, to come after the one that links the account.
LEMMA SettlingReport ==
  ASSUME BillingTypeOK, NEW s \in Subs, Reports(<<Of("updated", s, "live")>>),
         disk.linked \/ Expected
  PROVE  Settled(s)'
<1>. DEFINE e == Of("updated", s, "live")
<1>1. e \in Event /\ e.kind = "updated" /\ e.sub = s /\ e.status = "live"
  BY EventsAre DEF State
<1>2. /\ UNCHANGED <<month, store, disk, click, free, wasted, asking, orderly>>
      /\ Len(events) \in Nat /\ Len(events') = Len(events) + 1
      /\ \A k \in 1 .. Len(events) : events'[k] = events[k]
      /\ events'[Len(events) + 1] = e
  BY <1>1, OneReport
<1>. HIDE DEF e
<1>n. PICK n \in Nat : n = Len(events) + 1
  BY <1>2
<1>3. disk'.linked \/ \E k \in 1 .. n - 1 : IsCheckout(events'[k])
  <2>1. n - 1 = Len(events)
    BY <1>2, <1>n
  <2>. QED BY <1>2, <2>1 DEF Expected
<1>4. SettledBy(n, s)'
  <2>1. n # 0 /\ events'[n] = e
    BY <1>2, <1>n
  <2>. QED BY <1>1, <1>3, <2>1 DEF SettledBy
<1>5. n \in 0 .. Len(events') /\ (n + 1) .. Len(events') = {}
  BY <1>2, <1>n
<1>. QED BY <1>4, <1>5 DEF Settled

\* A subscription begins: its checkout is the last event.
LEMMA SubscribeStep ==
  ASSUME BillingTypeOK, LinkInv, NEW s \in Subs, Subscribes(s)
  PROVE  LinkInv' /\ ServedInv'
<1>. DEFINE u == Of("updated", s, "live")
            c == Of("checkout", s, "live")
            n == Len(events)
<1>1. /\ u \in Event /\ u.kind = "updated" /\ u.sub = s
      /\ c \in Event /\ c.kind = "checkout" /\ c.sub = s
  BY EventsAre DEF State
<1>2. /\ Live = {} /\ stripe[s] = "none" /\ stripe' = [stripe EXCEPT ![s] = "live"]
      /\ events' = events \o <<u, c>>
      /\ UNCHANGED <<store, disk, asking, orderly>>
  BY DEF Subscribes, Reports
<1>. HIDE DEF u, c
<1>3. /\ n \in Nat /\ Len(events') = n + 2
      /\ \A k \in 1 .. n : events'[k] = events[k]
      /\ events'[n + 1] = u /\ events'[n + 2] = c
  <2>1. <<u, c>> \in Seq(Event) /\ Len(<<u, c>>) = 2 /\ <<u, c>>[1] = u /\ <<u, c>>[2] = c
    BY <1>1
  <2>2. Reported(<<u, c>>)
    BY <1>2, <2>1, ReportedIs
  <2>3. n \in Nat
    BY DEF BillingTypeOK
  <2>4. events'[n + 1] = <<u, c>>[1] /\ events'[n + 2] = <<u, c>>[2]
    BY <2>1, <2>2 DEF Reported
  <2>. QED BY <2>1, <2>2, <2>3, <2>4 DEF Reported
<1>4. /\ stripe'[s] = "live" /\ \A t \in Subs \ {s} : stripe'[t] = stripe[t]
      /\ Live' = {s}
  BY <1>2 DEF BillingTypeOK, Live
<1>5. \A k \in 1 .. n : events[k].sub \in Subs /\ events[k].sub # s
  <2>1. \A k \in 1 .. n : events[k].sub \in Subs
    BY EventAt DEF BillingTypeOK
  <2>. QED BY <1>2, <2>1 DEF LinkInv, EventLink
<1>6. asking # NotAsking => asking.sub \in Subs /\ asking.sub # s
  BY <1>2 DEF BillingTypeOK, LinkInv, AccountLink
<1>7. \A k \in 1 .. Len(events') : k \in 1 .. n \/ k = n + 1 \/ k = n + 2
  BY <1>3
<1>8. AccountLink'
  BY <1>2, <1>4, <1>6 DEF LinkInv, AccountLink
<1>9. EventLink'
  <2>1. \A k \in 1 .. Len(events') : stripe'[events'[k].sub] # "none"
    BY <1>1, <1>3, <1>4, <1>5, <1>7 DEF LinkInv, EventLink
  <2>2. \A j, k \in 1 .. Len(events') :
          IsCheckout(events'[j]) /\ IsCheckout(events'[k]) /\ events'[j].sub = events'[k].sub => j = k
    BY <1>1, <1>3, <1>5, <1>7 DEF LinkInv, EventLink, IsCheckout
  <2>3. Expected'
    BY <1>1, <1>3 DEF Expected, IsCheckout
  <2>4. orderly' /\ asking' # NotAsking =>
          Len(events') > 0 /\ IsCheckout(events'[1]) /\ events'[1].sub = asking'.sub
    <3>. SUFFICES ASSUME orderly', asking' # NotAsking
                  PROVE  Len(events') > 0 /\ IsCheckout(events'[1]) /\ events'[1].sub = asking'.sub
      OBVIOUS
    <3>1. n > 0 /\ IsCheckout(events[1]) /\ events[1].sub = asking.sub
      BY <1>2 DEF LinkInv, EventLink
    <3>2. events'[1] = events[1]
      BY <1>3, <3>1
    <3>. QED BY <1>2, <1>3, <3>1, <3>2
  <2>. QED BY <1>4, <2>1, <2>2, <2>3, <2>4 DEF EventLink
<1>10. Settled(s)'
  <2>1. asking'.sub # s
    BY <1>2, <1>6, NotAskingIs DEF Subs
  <2>2. PICK m \in Nat : m = n + 2
    BY <1>3
  <2>3. m # 0 /\ events'[m] = c
    BY <1>3, <2>2
  <2>4. SettledBy(m, s)'
    BY <1>1, <2>1, <2>3 DEF SettledBy, IsCheckout
  <2>5. m \in 0 .. Len(events') /\ m + 1 .. Len(events') = {}
    BY <1>3, <2>2
  <2>. QED BY <2>4, <2>5 DEF Settled
<1>. QED BY <1>4, <1>8, <1>9, <1>10 DEF LinkInv, ServedInv

\* An event is gone: those that are left were there, each once.
LEMMA RemovalLink ==
  ASSUME BillingTypeOK, EventLink, NEW i \in DOMAIN events, Removed(i), UNCHANGED stripe,
         ~IsCheckout(events[i]) \/ disk'.linked, disk.linked => disk'.linked,
         orderly' => asking' = NotAsking
  PROVE  EventLink'
<1>1. i \in 1 .. Len(events) /\ Len(events) \in Nat /\ Len(events') = Len(events) - 1
  BY EventAt DEF Removed
<1>. DEFINE at(k) == IF k < i THEN k ELSE k + 1
<1>2. \A k \in 1 .. Len(events') : at(k) \in 1 .. Len(events) /\ events'[k] = events[at(k)]
  BY <1>1 DEF Removed
<1>3. \A j, k \in 1 .. Len(events') : at(j) = at(k) => j = k
  BY <1>1
<1>4. \A k \in 1 .. Len(events) : k # i => \E j \in 1 .. Len(events') : events'[j] = events[k]
  <2>. SUFFICES ASSUME NEW k \in 1 .. Len(events), k # i
                PROVE  \E j \in 1 .. Len(events') : events'[j] = events[k]
    OBVIOUS
  <2>1. CASE k < i
    BY <1>1, <2>1 DEF Removed
  <2>2. CASE k > i
    <3>1. k - 1 \in 1 .. Len(events') /\ ~(k - 1 < i) /\ (k - 1) + 1 = k
      BY <1>1, <2>2
    <3>2. events'[k - 1] = events[(k - 1) + 1]
      BY <1>1, <3>1 DEF Removed
    <3>. QED BY <3>1, <3>2
  <2>. QED BY <1>1, <2>1, <2>2
<1>5. Live' = Live
  BY DEF Live
<1>. HIDE DEF at
<1>6. \A k \in 1 .. Len(events') : stripe'[events'[k].sub] # "none"
  BY <1>2 DEF EventLink
<1>7. \A j, k \in 1 .. Len(events') :
        IsCheckout(events'[j]) /\ IsCheckout(events'[k]) /\ events'[j].sub = events'[k].sub => j = k
  <2>. TAKE j, k \in 1 .. Len(events')
  <2>1. at(j) \in 1 .. Len(events) /\ at(k) \in 1 .. Len(events)
        /\ events'[j] = events[at(j)] /\ events'[k] = events[at(k)]
    BY <1>2
  <2>2. IsCheckout(events[at(j)]) /\ IsCheckout(events[at(k)]) /\ events[at(j)].sub = events[at(k)].sub
          => at(j) = at(k)
    BY <2>1 DEF EventLink
  <2>. QED BY <1>3, <2>1, <2>2
<1>8. Expected => Expected' \/ disk'.linked
  BY <1>4 DEF Expected
<1>. QED BY <1>5, <1>6, <1>7, <1>8 DEF EventLink

LEMMA LaterOnes ==
  ASSUME BillingTypeOK, NEW s \in Subs, NEW i \in 1 .. Len(events), Removed(1),
         \A j \in i + 1 .. Len(events) : Harmless(events[j], s)
  PROVE  \A j \in i .. Len(events') : Harmless(events'[j], s)
<1>1. Len(events) \in Nat
  BY DEF BillingTypeOK
<1>. TAKE j \in i .. Len(events')
<1>2. j \in 1 .. Len(events) - 1 /\ j + 1 \in i + 1 .. Len(events) /\ ~(j < 1)
  BY <1>1 DEF Removed
<1>3. events'[j] = events[j + 1]
  BY <1>2 DEF Removed
<1>. QED BY <1>2, <1>3

\* The event that settles it moves up when the first one is gone.
LEMMA SettledLater ==
  ASSUME BillingTypeOK, NEW s \in Subs, NEW i \in 2 .. Len(events), Removed(1), SettledBy(i, s),
         \A j \in i + 1 .. Len(events) : Harmless(events[j], s),
         asking'.sub # s,
         ~IsCheckout(events[1]) \/ disk'.linked, disk.linked => disk'.linked
  PROVE  Settled(s)'
<1>1. Len(events) \in Nat /\ Len(events') = Len(events) - 1
  BY DEF BillingTypeOK, Removed
<1>2. PICK n \in Nat : n = i - 1
  BY <1>1
<1>3. n # 0 /\ n \in 1 .. Len(events) - 1 /\ ~(n < 1) /\ n + 1 = i
  BY <1>1, <1>2
<1>4. events'[n] = events[i]
  BY <1>3 DEF Removed
<1>5. (\E k \in 1 .. i - 1 : IsCheckout(events[k])) => disk'.linked \/ \E k \in 1 .. n - 1 : IsCheckout(events'[k])
  <2>. SUFFICES ASSUME NEW k \in 1 .. i - 1, IsCheckout(events[k]), ~disk'.linked
                PROVE  \E j \in 1 .. n - 1 : IsCheckout(events'[j])
    OBVIOUS
  <2>1. k # 1
    OBVIOUS
  <2>2. k - 1 \in 1 .. n - 1 /\ k - 1 \in 1 .. Len(events) - 1 /\ ~(k - 1 < 1) /\ (k - 1) + 1 = k
    BY <1>1, <1>2, <2>1
  <2>3. events'[k - 1] = events[(k - 1) + 1]
    BY <2>2 DEF Removed
  <2>. QED BY <2>2, <2>3
<1>6. SettledBy(n, s)'
  BY <1>1, <1>3, <1>4, <1>5 DEF SettledBy
<1>7. \A j \in n + 1 .. Len(events') : Harmless(events'[j], s)
  <2>1. i \in 1 .. Len(events)
    BY <1>1
  <2>. QED BY <1>3, <2>1, LaterOnes
<1>8. n \in 0 .. Len(events')
  BY <1>1, <1>3
<1>. QED BY <1>6, <1>7, <1>8 DEF Settled

\* It is settled when the event that settles it is the one that is gone.
LEMMA SettledNow ==
  ASSUME BillingTypeOK, NEW s \in Subs, NEW i \in {0, 1}, i <= Len(events), Len(events) >= 1,
         Removed(1), \A j \in i + 1 .. Len(events) : Harmless(events[j], s),
         store'.sub = s, store'.status = "live"
  PROVE  Settled(s)'
<1>1. Len(events) \in Nat /\ Len(events') = Len(events) - 1
  BY DEF BillingTypeOK, Removed
<1>2. 1 \in 1 .. Len(events) /\ \A j \in 1 + 1 .. Len(events) : Harmless(events[j], s)
  BY <1>1
<1>3. \A j \in 1 .. Len(events') : Harmless(events'[j], s)
  BY <1>2, LaterOnes
<1>4. SettledBy(0, s)'
  BY DEF SettledBy
<1>5. 0 \in 0 .. Len(events') /\ \A j \in 0 + 1 .. Len(events') : Harmless(events'[j], s)
  BY <1>1, <1>3
<1>. QED BY <1>4, <1>5 DEF Settled

LEMMA SubscriptionEventStep ==
  ASSUME BillingTypeOK, LinkInv, ServedInv, NEW i \in DOMAIN events, SubscriptionEvent(i)
  PROVE  LinkInv' /\ ServedInv'
<1>. DEFINE e == events[i]
<1>1. /\ e.kind \in {"updated", "deleted"} /\ e.sub \in Subs /\ e.status \in State
      /\ i \in 1 .. Len(events) /\ Len(events) \in Nat
  BY EventAt DEF SubscriptionEvent
<1>2. Removed(i) /\ UNCHANGED <<stripe, asking>> /\ orderly' = (orderly /\ i = 1 /\ asking = NotAsking)
  BY RemovedIs DEF SubscriptionEvent
<1>3. Ignores(e) => UNCHANGED <<store, disk>>
  BY DEF SubscriptionEvent
<1>4. ~Ignores(e) => /\ store'.linked = store.linked /\ store'.sub = e.sub
                     /\ store'.status = e.status /\ disk' = store'
  <2>. SUFFICES ASSUME ~Ignores(e) PROVE /\ store'.linked = store.linked /\ store'.sub = e.sub
                                         /\ store'.status = e.status /\ disk' = store'
    OBVIOUS
  <2>1. store' = Applied(e.sub, e.status) /\ disk' = store'
    BY DEF SubscriptionEvent, Saves
  <2>. QED BY <1>1, <2>1, AppliedIs
<1>5. disk.linked => disk'.linked
  BY <1>3, <1>4 DEF LinkInv, AccountLink
<1>6. AccountLink'
  BY <1>2, <1>3, <1>4 DEF LinkInv, AccountLink
<1>7. ~IsCheckout(e) /\ (orderly' => asking' = NotAsking)
  BY <1>1, <1>2 DEF IsCheckout
<1>8. EventLink'
  BY <1>2, <1>5, <1>7, RemovalLink DEF LinkInv
<1>9. ASSUME orderly', NEW s \in Live' PROVE Settled(s)'
  <2>0. orderly /\ i = 1 /\ asking = NotAsking
    BY <1>2, <1>9, Zenon
  <2>1. orderly /\ i = 1 /\ asking = NotAsking /\ s \in Live /\ s \in Subs /\ s # 0
    BY <1>2, <1>9, <2>0 DEF Live, Subs
  <2>2. PICK k \in 0 .. Len(events) :
          SettledBy(k, s) /\ \A j \in k + 1 .. Len(events) : Harmless(events[j], s)
    BY <2>1 DEF ServedInv, Settled
  <2>3. Removed(1) /\ Len(events) >= 1
    BY <1>1, <1>2, <2>1
  <2>4. CASE k = 0
    <3>1. store.sub = s /\ store.status = "live" /\ Harmless(e, s)
      BY <1>1, <2>1, <2>2, <2>4 DEF SettledBy
    <3>2. store'.sub = s /\ store'.status = "live"
      BY <1>3, <1>4, <2>1, <3>1 DEF Harmless, Ignores
    <3>. QED BY <2>1, <2>2, <2>3, <2>4, <3>2, SettledNow
  <2>5. CASE k = 1
    <3>1. e.sub = s /\ e.kind = "updated" /\ e.status = "live" /\ disk.linked
      BY <1>1, <2>1, <2>2, <2>5 DEF SettledBy, IsCheckout
    <3>2. ~Ignores(e)
      BY <3>1 DEF LinkInv, AccountLink, Ignores
    <3>3. store'.sub = s /\ store'.status = "live"
      BY <1>4, <3>1, <3>2
    <3>. QED BY <2>1, <2>2, <2>3, <2>5, <3>3, SettledNow
  <2>6. CASE k \in 2 .. Len(events)
    <3>1. asking'.sub # s /\ ~IsCheckout(events[1])
      BY <1>2, <1>7, <2>1, NotAskingIs
    <3>. QED BY <1>5, <2>1, <2>2, <2>3, <2>6, <3>1, SettledLater
  <2>. QED BY <1>1, <2>2, <2>4, <2>5, <2>6
<1>. QED BY <1>6, <1>8, <1>9 DEF LinkInv, ServedInv

LEMMA CheckoutEndsStep ==
  ASSUME BillingTypeOK, LinkInv, ServedInv, NEW i \in DOMAIN events, CheckoutEnds(i)
  PROVE  LinkInv' /\ ServedInv'
<1>. DEFINE e == events[i]
<1>1. /\ IsCheckout(e) /\ e.sub = asking.sub /\ e.sub \in Subs
      /\ asking.status \in State /\ asking.status # "none"
      /\ i \in 1 .. Len(events) /\ Len(events) \in Nat
  BY EventAt DEF CheckoutEnds, BillingTypeOK, IsCheckout
<1>2. Removed(i) /\ UNCHANGED <<stripe, orderly>> /\ asking' = NotAsking
  BY RemovedIs DEF CheckoutEnds
<1>3. asking # NotAsking /\ store.linked
  BY <1>1, NotAskingIs DEF LinkInv, AccountLink
<1>4. /\ store'.linked /\ store'.sub = asking.sub /\ store'.status = asking.status /\ disk' = store'
  <2>1. store' = Applied(asking.sub, asking.status) /\ disk' = store'
    BY DEF CheckoutEnds, Saves
  <2>2. LET s == asking.sub
            st == asking.status
        IN  /\ Applied(s, st).linked = store.linked
            /\ Applied(s, st).sub = s /\ Applied(s, st).status = st
    <3>1. asking.sub \in Subs /\ asking.status \in State
      BY <1>1
    <3>. QED BY <3>1, AppliedIs, Zenon
  <2>. QED BY <1>3, <2>1, <2>2, Zenon
<1>5. AccountLink'
  BY <1>2, <1>4, NotAskingIs DEF AccountLink
<1>6. EventLink'
  BY <1>2, <1>4, RemovalLink DEF LinkInv
<1>7. ASSUME orderly', NEW s \in Live' PROVE Settled(s)'
  <2>1. orderly /\ s \in Live /\ s \in Subs /\ s # 0 /\ stripe[s] = "live"
    BY <1>2, <1>7 DEF Live, Subs
  <2>2. PICK k \in 0 .. Len(events) :
          SettledBy(k, s) /\ \A j \in k + 1 .. Len(events) : Harmless(events[j], s)
    BY <2>1 DEF ServedInv, Settled
  <2>3. IsCheckout(events[1]) /\ events[1].sub = asking.sub /\ Len(events) > 0
    BY <1>3, <2>1 DEF LinkInv, EventLink
  <2>4. i = 1
    <3>1. 1 \in 1 .. Len(events)
      BY <1>1, <2>3
    <3>. QED BY <1>1, <2>3, <3>1 DEF LinkInv, EventLink
  <2>5. k # 0
    <3>1. k = 0 => Harmless(events[1], s)
      BY <1>1, <2>2, <2>3
    <3>. QED BY <2>3, <3>1 DEF Harmless, IsCheckout
  <2>6. CASE k = 1
    <3>1. asking.sub = s /\ asking.status = "live"
      BY <1>1, <2>2, <2>3, <2>6 DEF SettledBy, IsCheckout
    <3>. QED BY <1>2, <1>4, <2>1, <2>2, <2>3, <2>4, <2>6, <3>1, SettledNow
  <2>7. CASE k \in 2 .. Len(events)
    <3>1. asking'.sub # s /\ disk'.linked /\ Removed(1)
      BY <1>2, <1>4, <2>1, <2>4, NotAskingIs
    <3>. QED BY <2>1, <2>2, <2>7, <3>1, SettledLater
  <2>. QED BY <1>1, <2>2, <2>5, <2>6, <2>7
<1>. QED BY <1>5, <1>6, <1>7 DEF LinkInv, ServedInv

LEMMA CheckoutEventStep ==
  ASSUME BillingTypeOK, LinkInv, ServedInv, NEW i \in DOMAIN events, CheckoutEvent(i)
  PROVE  LinkInv' /\ ServedInv'
<1>1. /\ IsCheckout(events[i]) /\ events[i].sub \in Subs /\ i \in 1 .. Len(events)
      /\ asking = NotAsking /\ asking'.sub = events[i].sub /\ asking'.status = "none"
      /\ UNCHANGED <<disk, stripe, events>> /\ orderly' = (orderly /\ i = 1)
  BY EventAt DEF CheckoutEvent, IsCheckout
<1>2. store'.linked = TRUE /\ store'.sub = store.sub /\ store'.status = store.status
  BY LinkedIs DEF CheckoutEvent
<1>3. Live' = Live /\ Expected' = Expected /\ Len(events) \in Nat
  BY <1>1 DEF Live, Expected, BillingTypeOK
<1>4. stripe[events[i].sub] # "none" /\ asking'.sub # 0
  BY <1>1 DEF LinkInv, EventLink, Subs
<1>5. AccountLink'
  BY <1>1, <1>2, <1>4 DEF LinkInv, AccountLink
<1>6. orderly' => orderly /\ i = 1
  BY <1>1, Zenon
<1>7. EventLink'
  BY <1>1, <1>3, <1>6 DEF LinkInv, EventLink
<1>8. ServedInv'
  BY <1>1, <1>2, <1>3, <1>6, AskingSteps DEF ServedInv, Live
<1>. QED BY <1>5, <1>7, <1>8 DEF LinkInv

LEMMA StripeAnswersStep ==
  ASSUME BillingTypeOK, LinkInv, ServedInv, StripeAnswers
  PROVE  LinkInv' /\ ServedInv'
<1>1. /\ asking.sub # 0 /\ asking' = [asking EXCEPT !.status = stripe[asking.sub]]
      /\ UNCHANGED <<store, disk, stripe, events, orderly>>
  BY DEF StripeAnswers
<1>2. asking'.sub = asking.sub /\ asking'.status = stripe[asking.sub]
  BY <1>1 DEF BillingTypeOK
<1>3. asking # NotAsking
  BY <1>1, NotAskingIs
<1>4. Live' = Live /\ Expected' = Expected
  BY <1>1 DEF Live, Expected
<1>5. AccountLink'
  BY <1>1, <1>2, <1>3 DEF LinkInv, AccountLink
<1>6. EventLink'
  BY <1>1, <1>2, <1>3, <1>4 DEF LinkInv, EventLink
<1>7. ASSUME orderly', NEW s \in Live' PROVE Settled(s)'
  BY <1>1, <1>2, <1>4, <1>7, AskingSteps DEF ServedInv, Live
<1>. QED BY <1>5, <1>6, <1>7 DEF LinkInv, ServedInv

\* The asking is given up, with the account as it is or as it was saved.
LEMMA GivenUpStep ==
  ASSUME BillingTypeOK, LinkInv, ServedInv, asking' = NotAsking, store' \in {store, disk},
         UNCHANGED <<disk, stripe, events, orderly>>
  PROVE  LinkInv' /\ ServedInv'
<1>1. Live' = Live /\ Expected' = Expected
  BY DEF Live, Expected
<1>2. store'.sub = store.sub /\ store'.status = store.status
  BY DEF LinkInv, AccountLink
<1>3. LinkInv'
  BY <1>1, <1>2 DEF LinkInv, AccountLink, EventLink
<1>4. ASSUME orderly', NEW s \in Live' PROVE Settled(s)'
  <2>1. s \in Subs /\ asking'.sub # s
    BY <1>4, NotAskingIs DEF Live, Subs
  <2>. QED BY <1>1, <1>2, <1>4, <2>1, AskingSteps DEF ServedInv
<1>. QED BY <1>3, <1>4 DEF ServedInv

LEMMA StripeStep ==
  ASSUME BillingTypeOK, LinkInv, ServedInv, NEW s \in Subs,
         \/ Cancelled(s) \/ Renews(s)
         \/ \E st \in {"live", "unpaid"} : StatusChanges(s, st)
  PROVE  LinkInv' /\ ServedInv'
<1>1. CASE Cancelled(s)
  <2>. DEFINE e == Of("deleted", s, "ended")
  <2>1. e \in Event /\ e.kind = "deleted" /\ e.sub = s
    BY EventsAre DEF State
  <2>2. Reports(<<e>>) /\ stripe[s] \in {"live", "unpaid"} /\ stripe' = [stripe EXCEPT ![s] = "ended"]
    BY <1>1 DEF Cancelled
  <2>. HIDE DEF e
  <2>3. Live' = Live \ {s} /\ \A t \in Subs : stripe'[t] = "none" <=> stripe[t] = "none"
    BY <2>2 DEF BillingTypeOK, Live
  <2>4. LinkInv'
    BY <2>1, <2>2, <2>3, ReportLink DEF IsCheckout, LinkInv, EventLink
  <2>5. ASSUME orderly', NEW t \in Live' PROVE Settled(t)'
    <3>1. t \in Live /\ t \in Subs /\ Harmless(e, t) /\ orderly
      BY <2>1, <2>2, <2>3, <2>5 DEF Harmless, Live, Reports
    <3>. QED BY <2>1, <2>2, <3>1, HarmlessReport DEF ServedInv
  <2>. QED BY <2>4, <2>5 DEF ServedInv
<1>2. CASE Renews(s)
  <2>. DEFINE e == Of("updated", s, "live")
  <2>1. e \in Event /\ e.kind = "updated" /\ e.sub = s /\ e.status = "live"
    BY EventsAre DEF State
  <2>2. Reports(<<e>>) /\ stripe[s] = "live" /\ UNCHANGED stripe
    BY <1>2 DEF Renews
  <2>. HIDE DEF e
  <2>3. Live' = Live /\ s \in Live
    BY <2>2 DEF Live
  <2>4. LinkInv'
    BY <2>1, <2>2, <2>3, ReportLink DEF IsCheckout, LinkInv, EventLink
  <2>5. ASSUME orderly', NEW t \in Live' PROVE Settled(t)'
    <3>1. t = s /\ t \in Live /\ orderly
      BY <2>2, <2>3, <2>5 DEF LinkInv, EventLink, Reports
    <3>2. Harmless(e, t)
      BY <2>1, <3>1 DEF Harmless
    <3>. QED BY <2>1, <2>2, <3>1, <3>2, HarmlessReport DEF ServedInv
  <2>. QED BY <2>4, <2>5 DEF ServedInv
<1>3. ASSUME NEW st \in {"live", "unpaid"}, StatusChanges(s, st) PROVE LinkInv' /\ ServedInv'
  <2>. DEFINE e == Of("updated", s, st)
  <2>1. e \in Event /\ e.kind = "updated" /\ e.sub = s /\ e.status = st
    BY EventsAre DEF State
  <2>2. Reports(<<e>>) /\ stripe' = [stripe EXCEPT ![s] = st] /\ stripe[s] \in {"live", "unpaid"}
        /\ (st = "live" => Live = {}) /\ (st = "unpaid" => stripe[s] = "live")
    BY <1>3 DEF StatusChanges
  <2>. HIDE DEF e
  <2>3. /\ \A t \in Subs : stripe'[t] = "none" <=> stripe[t] = "none"
        /\ Live' = IF st = "live" THEN {s} ELSE Live \ {s}
    BY <2>2 DEF BillingTypeOK, Live
  <2>4. \A t, u \in Live' : t = u
    BY <2>3 DEF LinkInv, EventLink
  <2>5. LinkInv'
    BY <2>1, <2>2, <2>3, <2>4, ReportLink DEF IsCheckout
  <2>6. ASSUME orderly', NEW t \in Live' PROVE Settled(t)'
    <3>1. CASE st = "live"
      <4>1. t = s /\ (disk.linked \/ Expected)
        BY <2>2, <2>3, <2>6, <3>1 DEF LinkInv, EventLink
      <4>2. Reports(<<Of("updated", s, "live")>>)
        BY <1>3, <3>1 DEF StatusChanges
      <4>. QED BY <4>1, <4>2, SettlingReport
    <3>2. CASE st = "unpaid"
      <4>1. s \in Live
        BY <2>2, <3>2 DEF Live
      <4>. QED BY <2>3, <2>6, <3>2, <4>1 DEF LinkInv, EventLink
    <3>. QED BY <3>1, <3>2
  <2>. QED BY <2>5, <2>6 DEF ServedInv
<1>. QED BY <1>1, <1>2, <1>3

LEMMA LinkStep ==
  BillingTypes /\ LinkInv /\ ServedInv /\ [BillingNext]_billingVars => LinkInv' /\ ServedInv'
<1>. SUFFICES ASSUME BillingTypes, LinkInv, ServedInv, [BillingNext]_billingVars
              PROVE  LinkInv' /\ ServedInv'
  OBVIOUS
<1>t. BillingTypeOK
  BY DEF BillingTypes
<1>1. CASE MonthTurns \/ UNCHANGED billingVars
  BY <1>1, <1>t, AccountSteps
     DEF MonthTurns, billingVars, clickVars, stripeVars, SameLink, SameDiskLink, LinkInv, AccountLink
<1>2. CASE PeriodLapses
  <2>1. store'.linked = store.linked /\ store'.sub = store.sub /\ store'.status = store.status
    BY <1>2, <1>t DEF PeriodLapses, BillingTypeOK, Account
  <2>2. disk'.linked = disk.linked /\ disk'.sub = disk.sub /\ disk'.status = disk.status
    BY <1>2, <1>t DEF PeriodLapses, BillingTypeOK, Account
  <2>. QED BY <1>2, <1>t, <2>1, <2>2, AccountSteps
           DEF PeriodLapses, stripeVars, SameLink, SameDiskLink, LinkInv, AccountLink
<1>3. CASE Summary
  BY <1>3, <1>t, RolledIs, AccountSteps
     DEF Summary, stripeVars, SameLink, SameDiskLink, LinkInv, AccountLink
<1>4. ASSUME NEW c \in Clicks, ClickReserves(c) PROVE LinkInv' /\ ServedInv'
  <2>1. CASE store' = Rolled /\ UNCHANGED disk
    BY <1>4, <2>1, <1>t, RolledIs, AccountSteps
       DEF ClickReserves, stripeVars, SameLink, SameDiskLink, LinkInv, AccountLink
  <2>2. CASE Saves([Rolled EXCEPT !.used = @ + 1])
    <3>1. disk' = store' /\ SameLink
      BY <1>t, <2>2, SpentIs DEF Saves, SameLink
    <3>. QED BY <1>4, <1>t, <3>1, AccountSteps
             DEF ClickReserves, stripeVars, SameLink, SameDiskLink, LinkInv, AccountLink
  <2>. QED BY <1>4, <2>1, <2>2 DEF ClickReserves
<1>5. ASSUME NEW c \in Clicks, ClickQueued(c) PROVE LinkInv' /\ ServedInv'
  BY <1>5, <1>t, AccountSteps
     DEF ClickQueued, stripeVars, SameLink, SameDiskLink, LinkInv, AccountLink
<1>6. ASSUME NEW c \in Clicks, ClickFails(c) PROVE LinkInv' /\ ServedInv'
  <2>1. SameLink /\ (disk' = store' \/ UNCHANGED <<store, disk>>)
    BY <1>6, <1>t, RefundedIs DEF ClickFails, SameLink
  <2>. QED BY <1>6, <1>t, <2>1, AccountSteps
           DEF ClickFails, stripeVars, SameLink, SameDiskLink, LinkInv, AccountLink
<1>7. ASSUME NEW s \in Subs, Subscribes(s) \/ Cancelled(s) \/ Renews(s)
      PROVE  LinkInv' /\ ServedInv'
  BY <1>7, <1>t, SubscribeStep, StripeStep
<1>8. ASSUME NEW s \in Subs, NEW st \in {"live", "unpaid"}, StatusChanges(s, st)
      PROVE  LinkInv' /\ ServedInv'
  BY <1>8, <1>t, StripeStep
<1>9. ASSUME NEW i \in DOMAIN events,
             SubscriptionEvent(i) \/ CheckoutEvent(i) \/ CheckoutEnds(i)
      PROVE  LinkInv' /\ ServedInv'
  BY <1>9, <1>t, SubscriptionEventStep, CheckoutEventStep, CheckoutEndsStep
<1>10. CASE StripeAnswers
  BY <1>10, <1>t, StripeAnswersStep
<1>11. CASE StripeUnanswered
  BY <1>11, <1>t, GivenUpStep DEF StripeUnanswered
<1>12. CASE BridgeRestarts
  BY <1>12, <1>t, GivenUpStep DEF BridgeRestarts
<1>. QED BY <1>1, <1>2, <1>3, <1>4, <1>5, <1>6, <1>7, <1>8, <1>9, <1>10, <1>11, <1>12
         DEF BillingNext

BillingInv == BillingTypes /\ CountInv /\ LinkInv /\ ServedInv

\* The four parts hold together, the last two only with the types.
LEMMA BillingInvariant == BillingSpec => []BillingInv
<1>1. BillingInit => BillingInv
  BY TypesStart, CountStarts, LinksStart DEF BillingInv
<1>2. BillingInv /\ [BillingNext]_billingVars => BillingInv'
  BY TypesStep, CountStep, LinkStep DEF BillingInv
<1>. QED BY <1>1, <1>2, PTL DEF BillingSpec

\* The variables of Billing are what BillingTypeOK says.
THEOREM BillingTypeCorrect == BillingSpec => []BillingTypeOK
<1>1. BillingInv => BillingTypeOK
  BY DEF BillingInv, BillingTypes
<1>. QED BY <1>1, BillingInvariant, PTL

\* What the account has used this month is what was queued for it, is being
\* queued, or was lost with the bridge, within the allowance; and when the
\* events came in order and all are in, a live subscription is the one held.
THEOREM BillsAreSound == BillingSpec => []BillingSound
<1>1. BillingInv => UsedExact
  <2>. SUFFICES ASSUME BillingInv, store.month = month PROVE UsedExact
    BY DEF UsedExact
  <2>. QED BY DEF BillingInv, CountInv, Booked, Charged, UsedExact
<1>2. BillingInv => PaidIsServed
  <2>. SUFFICES ASSUME BillingInv, orderly, events = <<>>, NEW s \in Live
                PROVE  store.sub = s /\ store.status = "live"
    BY DEF PaidIsServed
  <2>1. PICK i \in 0 .. Len(events) : SettledBy(i, s)
    BY DEF BillingInv, ServedInv, Settled
  <2>2. i = 0
    OBVIOUS
  <2>. QED BY <2>1, <2>2 DEF SettledBy
<1>. QED BY <1>1, <1>2, BillingInvariant, PTL DEF BillingSound
==============================================================================
