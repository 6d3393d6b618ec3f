----------------------------- MODULE MusicCache -----------------------------
(***************************************************************************)
(* The tracks the music bridge keeps so that they can be played            *)
(* (download, pruneCache and audio in src/bridge/music.js).  A track is    *)
(* fetched from the machine that made it, one slice per task.  The machine *)
(* may replace the file between two slices; a slice carries the size and   *)
(* time of the file it is from, which is the file's version here.          *)
(***************************************************************************)
EXTENDS Naturals, FiniteSets, Sequences, SequencesExt

CONSTANTS
  Plays,         \* requests for audio under way at once
  Tracks,
  NumSlices,     \* slices a track comes in
  MaxRestarts,   \* downloads begun again when the file has changed
  CacheMax,      \* cacheMaxTracks
  MaxVersions    \* bound: times the machine writes a file

ASSUME MusicAssumption ==
  /\ NumSlices \in Nat \ {0} /\ MaxRestarts \in Nat \ {0}
  /\ CacheMax \in Nat \ {0} /\ MaxVersions \in Nat \ {0}

VARIABLES
  version,   \* version[t]: of the file on the machine
  part,      \* part[t]: the .part file, slice by slice
  cached,    \* cached[t]: the file in the cache
  fetched,   \* the tracks in the cache, the one fetched longest ago first
  play       \* play[p]: the download p made, or that it waits for

musicVars == <<version, part, cached, fetched, play>>

Slice == [version : 1 .. MaxVersions, index : 1 .. NumSlices]

NotPlaying == [at |-> "idle", track |-> "none", restarts |-> 0, offset |-> 0,
               identity |-> 0, slice |-> 0]

Play == [at : {"idle", "waiting", "fetching"}, track : Tracks \cup {"none"},
         restarts : 0 .. MaxRestarts, offset : 0 .. NumSlices,
         identity : 0 .. MaxVersions, slice : 0 .. MaxVersions]

MusicTypeOK ==
  /\ version \in [Tracks -> 1 .. MaxVersions]
  /\ part \in [Tracks -> Seq(Slice)]
  /\ cached \in [Tracks -> Seq(Slice)]
  /\ fetched \in Seq(Tracks) /\ Len(fetched) <= CacheMax
  /\ play \in [Plays -> Play]

MusicInit ==
  /\ version = [t \in Tracks |-> 1]
  /\ part = [t \in Tracks |-> <<>>]
  /\ cached = [t \in Tracks |-> <<>>]
  /\ fetched = <<>>
  /\ play = [p \in Plays |-> NotPlaying]
----------------------------------------------------------------------------
\* downloads.has.
Fetching(t) == \E p \in Plays : play[p].at = "fetching" /\ play[p].track = t

FetchedFor(t, restarts) ==
  [NotPlaying EXCEPT !.at = "fetching", !.track = t, !.restarts = restarts]

\* audio.  A track that is there is served.
PlayBegins(p, t) ==
  /\ play[p] = NotPlaying
  /\ cached[t] = <<>>
  /\ IF Fetching(t)
     THEN /\ play' = [play EXCEPT ![p] = [NotPlaying EXCEPT !.at = "waiting", !.track = t]]
          /\ UNCHANGED part
     ELSE /\ play' = [play EXCEPT ![p] = FetchedFor(t, 0)]
          /\ part' = [part EXCEPT ![t] = <<>>]
  /\ UNCHANGED <<version, cached, fetched>>

\* fetchSlice: the machine reads its file ...
SliceRead(p) ==
  /\ play[p].at = "fetching" /\ play[p].slice = 0
  /\ play' = [play EXCEPT ![p].slice = version[play[p].track]]
  /\ UNCHANGED <<version, part, cached, fetched>>

\* The plays that were waiting for this download, and p.
Together(p) ==
  {q \in Plays : q = p \/ (play[q].at = "waiting" /\ play[q].track = play[p].track)}

PlaysEnd(p) == play' = [q \in Plays |-> IF q \in Together(p) THEN NotPlaying ELSE play[q]]

\* Slip: a slice is a slice.
ChangedNever(p) == FALSE

Changed(p) == play[p].identity \notin {0, play[p].slice}

\* ... and is found to have been replaced: from the start, but not for ever.
SliceOfAnother(p) ==
  LET t == play[p].track IN
  /\ play[p].slice # 0
  /\ Changed(p)
  /\ part' = [part EXCEPT ![t] = <<>>]
  /\ IF play[p].restarts + 1 = MaxRestarts THEN PlaysEnd(p)
     ELSE play' = [play EXCEPT ![p] = FetchedFor(t, @.restarts + 1)]
  /\ UNCHANGED <<version, cached, fetched>>

With(p) == Append(part[play[p].track],
                  [version |-> play[p].slice, index |-> play[p].offset + 1])

SliceArrives(p) ==
  LET t == play[p].track IN
  /\ play[p].slice # 0
  /\ ~Changed(p) /\ play[p].offset + 1 < NumSlices
  /\ part' = [part EXCEPT ![t] = With(p)]
  /\ play' = [play EXCEPT ![p].offset = @ + 1, ![p].identity = play[p].slice,
                          ![p].slice = 0]
  /\ UNCHANGED <<version, cached, fetched>>

\* pruneCache(keep), when t has just come in: the newest stay.
Kept(t) ==
  LET all == Append(RemoveFirst(fetched, t), t) IN
  IF Len(all) <= CacheMax THEN all
  ELSE SubSeq(all, Len(all) - CacheMax + 1, Len(all))

\* The last slice: renamed into the cache, and played by all who waited.
DownloadEnds(p) ==
  LET t == play[p].track IN
  /\ play[p].slice # 0
  /\ ~Changed(p) /\ play[p].offset + 1 = NumSlices
  /\ part' = [part EXCEPT ![t] = <<>>]
  /\ fetched' = Kept(t)
  /\ cached' = [u \in Tracks |-> IF u \notin ToSet(Kept(t)) THEN <<>>
                                 ELSE IF u = t THEN With(p) ELSE cached[u]]
  /\ PlaysEnd(p)
  /\ UNCHANGED version

\* The slice's task failed, or took too long.
DownloadFails(p) ==
  /\ play[p].at = "fetching"
  /\ PlaysEnd(p)
  /\ UNCHANGED <<version, part, cached, fetched>>

\* A run with the same recipe replaces the file in place.
Remade(t) ==
  /\ version[t] < MaxVersions
  /\ version' = [version EXCEPT ![t] = @ + 1]
  /\ UNCHANGED <<part, cached, fetched, play>>

\* The files stay, the downloads do not.
PlayerRestarts ==
  /\ play' = [p \in Plays |-> NotPlaying]
  /\ UNCHANGED <<version, part, cached, fetched>>

MusicNext ==
  \/ \E p \in Plays, t \in Tracks : PlayBegins(p, t)
  \/ \E p \in Plays : SliceRead(p) \/ SliceOfAnother(p) \/ SliceArrives(p)
                      \/ DownloadEnds(p) \/ DownloadFails(p)
  \/ \E t \in Tracks : Remade(t)
  \/ PlayerRestarts

MusicSpec == MusicInit /\ [][MusicNext]_musicVars
----------------------------------------------------------------------------
\* A download restarts "rather than stitching two versions together": a track
\* in the cache is one version from its first slice to its last, whatever was
\* replaced, played twice, given up or restarted while it came.
CacheWhole ==
  \A t \in Tracks :
    cached[t] = <<>> \/ \E v \in 1 .. MaxVersions :
      cached[t] = [i \in 1 .. NumSlices |-> [version |-> v, index |-> i]]
=============================================================================
