---------------------------- MODULE EufyGallery ----------------------------
(***************************************************************************)
(* The camera clip gallery: EufyEventService (eufy/service.py) and its     *)
(* durable cache (eufy/cache.py).  The bridge pushes clips over a socket   *)
(* that also carries requests for thumbnails and videos and their answers; *)
(* the service keeps a bounded ring of the newest clips, test clips pinned *)
(* above it, a small thumbnail LRU, and a directory with a manifest and    *)
(* the media, from which a restart shows the same gallery.                 *)
(*                                                                         *)
(* One event loop: an action runs from one await to the next.  A request   *)
(* waits for its answer while clips come in and go out; the answer is      *)
(* taken in one step of the loop and used in a later one.  The cache has   *)
(* the capacity of the ring (eufy/__init__.py).  Writing a file may fail,  *)
(* and so may removing one; the temporary file that a failed write leaves  *)
(* until the next sweep is no clip's media and left out.  The bridge is    *)
(* what it may send; pushes to the kiosks are left to the feed.            *)
(***************************************************************************)
EXTENDS Sifting, Integers, Sequences, FiniteSets, SequencesExt

CONSTANTS
  Clips,      \* clip ids of the cameras
  Injected,   \* "injected:" ids (drawn at random, never one in use)
  Requests,   \* slots for requests under way
  RingSize,   \* eufy_clip_ring_buffer_size, also the cache's capacity
  LruSize     \* eufy_thumbnail_cache_size

AllClips == Clips \cup Injected

ASSUME GalleryAssumption ==
  /\ Clips \cap Injected = {}
  /\ RingSize \in Nat \ {0} /\ LruSize \in Nat \ {0}

VARIABLES
  ring,      \* _clips: newest first
  pinned,    \* _pinned
  ids,       \* _clip_ids
  lru,       \* _thumbnail_cache: least recently used first
  warming,   \* _background_tasks: thumbnails to be fetched ahead
  requests,  \* the get_thumbnail and get_video_path calls that await
  client,    \* the socket: "none", "left" (no client; the bridge closed it in
             \* good order), "up", or "dead" (broken, not yet noticed)
  status,    \* _status
  cached,    \* EufyClipCache._clips
  manifest,  \* what manifest.json holds
  thumbs,    \* clips with a thumbnail file
  videos,    \* clips with a video file
  written,   \* history: the last write of the manifest succeeded
  left       \* history: the files that should have gone when an unlink failed

gallery == <<ring, pinned, ids>>
link == <<client, status>>
disk == <<cached, manifest, thumbs, videos, written, left>>
vars == <<gallery, lru, warming, requests, link, disk>>

Gallery == pinned \o ring
Connected == client \in {"up", "dead"}

Free == [phase |-> "free"]
Request == [phase : {"waiting", "answered"}, clip : AllClips, kind : {"thumbnail", "video"}]

TypeOK ==
  /\ ring \in Seq(Clips) /\ Len(ring) <= RingSize
  /\ pinned \in Seq(Injected)
  /\ ids \subseteq AllClips
  /\ lru \in Seq(AllClips) /\ Len(lru) <= LruSize /\ IsInjective(lru)
  /\ warming \subseteq Clips
  /\ requests \in [Requests -> Request \cup {Free}]
  /\ client \in {"none", "left", "up", "dead"}
  /\ status \in {"connecting", "connected", "error"}
  /\ cached \in Seq(AllClips) /\ manifest \in Seq(AllClips)
  /\ thumbs \subseteq AllClips /\ videos \subseteq AllClips
  /\ written \in BOOLEAN
  /\ left \in [thumbs : SUBSET AllClips, videos : SUBSET AllClips]

Init ==
  /\ ring = <<>> /\ pinned = <<>> /\ ids = {} /\ lru = <<>> /\ warming = {}
  /\ requests = [r \in Requests |-> Free]
  /\ client = "none" /\ status = "connecting"
  /\ cached = <<>> /\ manifest = <<>> /\ thumbs = {} /\ videos = {}
  /\ written = TRUE /\ left = [thumbs |-> {}, videos |-> {}]

-----------------------------------------------------------------------------
Real(clips) == Sift(clips, Clips)
Pinned(clips) == Sift(clips, Injected)
Without(clips, c) == Sift(clips, AllClips \ {c})
Newest(clips) == SubSeq(clips, 1, IF Len(clips) <= RingSize THEN Len(clips) ELSE RingSize)

\* _persist of the cache: the manifest is replaced, or the error is logged.
Persist(clips) ==
  \/ manifest' = clips /\ written' = TRUE
  \/ UNCHANGED manifest /\ written' = FALSE

\* _delete_media and _sweep_orphans: the files of the clips that are gone are
\* removed one by one, and an unlink that fails is passed over.
Unlinked(files, gone) == {files \ some : some \in SUBSET gone}
Overdue(before, files, gone, kept) == ((before \cup gone) \cap files) \ kept

DeleteMedia(gone, kept) ==
  /\ thumbs' \in Unlinked(thumbs, gone)
  /\ videos' \in Unlinked(videos, gone)
  /\ left' = [thumbs |-> Overdue(left.thumbs, thumbs', gone, kept),
              videos |-> Overdue(left.videos, videos', gone, kept)]

\* remember: prepend, forget what falls past the capacity and its media.
Remember(c) ==
  LET others == Without(cached, c)
  IN  IF c \in Injected THEN <<c>> \o others
      ELSE Pinned(others) \o Newest(<<c>> \o Real(others))

\* Mutant: nothing is ever dropped.
LruUnbounded(c) == Append(Without(lru, c), c)

\* _cache_thumbnail: newest last, the oldest goes when there are too many.
Lru(c) ==
  LET after == Append(Without(lru, c), c)
  IN  IF Len(after) > LruSize THEN Tail(after) ELSE after

\* Mutant: the check is left to the caller.
SaveAnyway(files, c) == {files \cup {c}, files}

\* A file of media is written for a clip that is still in the cache; the
\* write may fail.
Save(files, c) == IF c \in ToSet(cached) THEN {files \cup {c}, files} ELSE {files}

-----------------------------------------------------------------------------
\* run(): the bridge is started, the client connects.
Connect ==
  /\ ~Connected
  /\ client' = "up" /\ status' = "connecting"
  /\ UNCHANGED <<gallery, lru, warming, requests, disk>>

ConnectFails ==
  /\ ~Connected
  /\ client' = "none" /\ status' = "error"
  /\ UNCHANGED <<gallery, lru, warming, requests, disk>>

Ready ==
  /\ client = "up"
  /\ status' = "connected"
  /\ UNCHANGED <<gallery, lru, warming, requests, client, disk>>

\* A "status" message of the bridge.
StatusPush ==
  /\ client = "up"
  /\ status' \in {"connecting", "connected", "error"}
  /\ UNCHANGED <<gallery, lru, warming, requests, client, disk>>

\* The socket breaks; nobody has read that yet.
Break ==
  /\ client = "up" /\ client' = "dead"
  /\ UNCHANGED <<gallery, lru, warming, requests, status, disk>>

\* _fail_pending: every request that still waits ends as unavailable.
Failed == [r \in Requests |-> IF requests[r] # Free /\ requests[r].phase = "waiting"
                              THEN Free ELSE requests[r]]

\* Mutants: the pending requests, the status are left as they are.
DroppedSilently ==
  /\ client = "dead" /\ client' = "none" /\ status' = "error"
  /\ UNCHANGED <<gallery, lru, warming, requests, disk>>

DroppedUnseen ==
  /\ client = "dead" /\ client' = "none"
  /\ requests' = Failed
  /\ UNCHANGED <<gallery, lru, warming, status, disk>>

\* The read loop ends: with an error, or quietly when the bridge closed the
\* socket in good order, which is not reported as an error.
Dropped ==
  /\ client = "dead" /\ client' = "none" /\ status' = "error"
  /\ requests' = Failed
  /\ UNCHANGED <<gallery, lru, warming, disk>>

Left ==
  /\ client = "dead" /\ client' = "left"
  /\ requests' = Failed
  /\ UNCHANGED <<gallery, lru, warming, status, disk>>

\* Mutant: the evicted clip keeps its place among the ids.
EvictedNot(full) == {}

\* The oldest clip makes room when the ring is full.
Evicted(full) == IF full THEN {Last(ring)} ELSE {}

\* clip_discovered: _insert_clip, and a task to fetch the thumbnail ahead.
Discover(c) ==
  LET gone == Evicted(Len(ring) = RingSize)
      kept == Remember(c)
  IN  /\ client = "up"
      /\ c \notin ids
      /\ ring' = Newest(<<c>> \o ring)
      /\ ids' = (ids \ gone) \cup {c}
      /\ lru' = Sift(lru, AllClips \ gone)
      /\ cached' = kept
      /\ DeleteMedia(ToSet(cached) \ ToSet(kept), ToSet(kept))
      /\ Persist(kept)
      /\ warming' = warming \cup {c}
      /\ UNCHANGED <<pinned, requests, link>>

\* inject_clip: pinned, with its media, before anybody is told.
Inject(c) ==
  /\ c \notin ids \cup ToSet(lru) \cup thumbs \cup videos
  /\ \A r \in Requests : requests[r] # Free => requests[r].clip # c
  /\ pinned' = <<c>> \o pinned
  /\ ids' = ids \cup {c}
  /\ cached' = Remember(c)
  /\ thumbs' \in {thumbs \cup {c}, thumbs}
  /\ videos' \in {videos \cup {c}, videos}
  /\ lru' = Lru(c)
  /\ Persist(Remember(c))
  /\ UNCHANGED <<ring, warming, requests, link, left>>

\* Mutant: the manifest is left as it was.
RemoveInMemory(c) ==
  /\ c \in Injected /\ c \in ids
  /\ pinned' = Without(pinned, c)
  /\ ids' = ids \ {c}
  /\ lru' = Without(lru, c)
  /\ cached' = Without(cached, c)
  /\ DeleteMedia({c}, ToSet(Without(cached, c)))
  /\ UNCHANGED <<ring, warming, requests, link, manifest, written>>

RemoveInjected(c) ==
  /\ c \in Injected /\ c \in ids
  /\ pinned' = Without(pinned, c)
  /\ ids' = ids \ {c}
  /\ lru' = Without(lru, c)
  /\ cached' = Without(cached, c)
  /\ DeleteMedia({c}, ToSet(Without(cached, c)))
  /\ Persist(Without(cached, c))
  /\ UNCHANGED <<ring, warming, requests, link>>

-----------------------------------------------------------------------------
\* _request: on a broken socket send() may still take the message.
Ask(r, c, kind) ==
  /\ Connected /\ requests[r] = Free
  /\ requests' = [requests EXCEPT ![r] = [phase |-> "waiting", clip |-> c, kind |-> kind]]

\* get_thumbnail: the LRU, the directory, then the bridge.
GetThumbnail(r, c) ==
  \/ /\ c \in ToSet(lru) \/ (c \in ids /\ c \in thumbs)
     /\ lru' = Lru(c)
     /\ UNCHANGED requests
  \/ /\ c \notin ToSet(lru) /\ c \in ids /\ c \notin thumbs
     /\ Ask(r, c, "thumbnail")
     /\ UNCHANGED lru

\* The endpoint looks for the clip first.
KioskThumbnail(r, c) ==
  /\ c \in ids
  /\ GetThumbnail(r, c)
  /\ UNCHANGED <<gallery, warming, link, disk>>

\* A task of _add_clip runs.  It gives up when the clip is gone, or the bridge
\* is not there or its socket is broken.
Prefetch(r, c) ==
  /\ c \in warming
  /\ warming' = warming \ {c}
  /\ \/ GetThumbnail(r, c)
     \/ /\ c \notin ToSet(lru) /\ (c \notin ids \/ (c \notin thumbs /\ client # "up"))
        /\ UNCHANGED <<lru, requests>>
  /\ UNCHANGED <<gallery, link, disk>>

\* get_video_path: the directory, then the bridge.
KioskVideo(r, c) ==
  /\ c \in ids /\ c \notin videos
  /\ Ask(r, c, "video")
  /\ UNCHANGED <<gallery, lru, warming, link, disk>>

\* The bridge's answer settles the future; the coroutine runs later.
Answer(r) ==
  /\ client = "up"
  /\ requests[r] # Free /\ requests[r].phase = "waiting"
  /\ requests' = [requests EXCEPT ![r].phase = "answered"]
  /\ UNCHANGED <<gallery, lru, warming, link, disk>>

UseThumbnail(r) ==
  /\ requests[r] # Free
  /\ requests[r].phase = "answered" /\ requests[r].kind = "thumbnail"
  /\ lru' = Lru(requests[r].clip)
  /\ thumbs' \in Save(thumbs, requests[r].clip)
  /\ requests' = [requests EXCEPT ![r] = Free]
  /\ UNCHANGED <<gallery, warming, link, cached, manifest, videos, written, left>>

UseVideo(r) ==
  /\ requests[r] # Free
  /\ requests[r].phase = "answered" /\ requests[r].kind = "video"
  /\ videos' \in Save(videos, requests[r].clip)
  /\ requests' = [requests EXCEPT ![r] = Free]
  /\ UNCHANGED <<gallery, lru, warming, link, cached, manifest, thumbs, written, left>>

\* A timeout, or an answer with no data in it.
GiveUp(r) ==
  /\ requests[r] # Free
  /\ requests' = [requests EXCEPT ![r] = Free]
  /\ UNCHANGED <<gallery, lru, warming, link, disk>>

-----------------------------------------------------------------------------
\* A crash or restart: the directory is loaded and swept, the gallery seeded.
Restart ==
  LET loaded == Pinned(manifest) \o Newest(Real(manifest))
  IN  /\ cached' = loaded
      /\ DeleteMedia((thumbs \cup videos) \ ToSet(loaded), ToSet(loaded))
      /\ ring' = Newest(Real(loaded)) /\ pinned' = Pinned(loaded)
      /\ ids' = ToSet(loaded)
      /\ lru' = <<>> /\ warming' = {} /\ requests' = [r \in Requests |-> Free]
      /\ client' = "none" /\ status' = "connecting"
      /\ written' = (manifest = loaded)
      /\ UNCHANGED manifest

\* The manifest is damaged: it will load as empty.
LoseManifest ==
  /\ manifest' = <<>> /\ written' = FALSE
  /\ UNCHANGED <<gallery, lru, warming, requests, link, cached, thumbs, videos, left>>

Bridge ==
  \/ Connect \/ ConnectFails \/ Ready \/ StatusPush \/ Break \/ Dropped \/ Left
  \/ \E c \in Clips : Discover(c)
  \/ \E r \in Requests : Answer(r)

Kiosk ==
  \/ \E r \in Requests, c \in AllClips : KioskThumbnail(r, c) \/ KioskVideo(r, c)
  \/ \E c \in Injected : Inject(c) \/ RemoveInjected(c)

EventLoop ==
  \/ \E r \in Requests, c \in Clips : Prefetch(r, c)
  \/ \E r \in Requests : UseThumbnail(r) \/ UseVideo(r) \/ GiveUp(r)

Next == Bridge \/ Kiosk \/ EventLoop \/ Restart \/ LoseManifest

Spec == Init /\ [][Next]_vars

-----------------------------------------------------------------------------
(***************************************************************************)
(* Properties.                                                             *)
(***************************************************************************)

\* A clip is in the gallery once, and has_clip knows exactly those that are:
\* a clip that was evicted can be discovered again, one that is shown can not.
OneEntryPerClip == IsInjective(Gallery) /\ ids = ToSet(Gallery)

\* "A restart shows the same gallery": unless the last write failed, the
\* manifest names what the gallery shows, in order, so the two bounded lists
\* evict in step through discoveries, injections, removals and restarts.
SameGalleryAfterRestart == cached = Gallery /\ (written => manifest = Gallery)

\* However late an answer for an evicted clip arrives, the directory holds no
\* media but those of the gallery and those that an unlink failed to remove.
MediaOfGalleryOnly ==
  /\ thumbs \subseteq ToSet(Gallery) \cup left.thumbs
  /\ videos \subseteq ToSet(Gallery) \cup left.videos

\* Nobody waits for an answer that cannot come any more.
NobodyWaitsInVain ==
  \A r \in Requests : requests[r] # Free /\ requests[r].phase = "waiting" => Connected
=============================================================================
