----------------------------- MODULE SpiceDisplay -----------------------------
(***************************************************************************)
(* Surfaces, drawing and the image cache of the browser client's display   *)
(* channel (display.js).  Messages come in the order the server sent them; *)
(* a JPEG is drawn, and cached, only when the browser has loaded it, which *)
(* may be after any number of later messages.                              *)
(***************************************************************************)
EXTENDS Naturals, FiniteSets

CONSTANTS Surfaces,     \* ids of surfaces
          Images,       \* ids of images the server may ask to cache
          MaxSurfaces,  \* bound: surfaces created
          MaxDraws      \* bound: drawing messages

ASSUME DisplayAssumption ==
  0 \notin Surfaces \cup Images /\ MaxSurfaces \in Nat /\ MaxDraws \in Nat

(* A surface is the number of its creation, a picture that of its drawing    *)
(* message; 0 is none.                                                       *)
VARIABLES
  channel,    \* "open", "broken" by an exception in a handler, or "stopped"
  surfaces,   \* surfaces: the surface each id names now
  primary,    \* primary_surface
  screen,     \* canvases in the screen element
  hooked,     \* canvases with event handlers
  painted,    \* <<picture, surface>>: what was painted where
  jpegs,      \* JPEGs that are loading
  cache,      \* cache: the picture each image id stands for
  hasCache,   \* has the cache been created?
  target,     \* the surface each drawing message was for
  announced,  \* the server's idea of the cache
  reused,     \* pictures whose surface id was given away while they loaded
  late,       \* images the server dropped, or meant anew, while the client still
              \* loads or keeps what they stood for
  unread,     \* pictures the client could not read
  created     \* surfaces created

pictures == <<surfaces, primary, screen, hooked, created, reused>>
caching == <<cache, hasCache, announced, late, unread>>
displayVars == <<channel, pictures, painted, jpegs, target, caching>>

Draws == DOMAIN target
Living == {surfaces[s] : s \in Surfaces} \ {0}

(* Ids name surfaces and pictures that were created.                         *)
DisplayTypeOK ==
  /\ channel \in {"open", "broken", "stopped"} /\ hasCache \in BOOLEAN
  /\ surfaces \in [Surfaces -> 0 .. MaxSurfaces] /\ primary \in Surfaces \cup {0}
  /\ screen \subseteq 1 .. created /\ hooked \subseteq 1 .. created
  /\ painted \subseteq Draws \X (1 .. created)
  /\ jpegs \subseteq [picture : Draws, surface : Surfaces, image : Images \cup {0}]
  /\ cache \in [Images -> 0 .. MaxDraws] /\ announced \in [Images -> 0 .. MaxDraws]
  /\ target \in [Draws -> 1 .. created] /\ reused \subseteq Draws
  /\ late \subseteq Images /\ unread \subseteq Draws

DisplayInit ==
  /\ channel = "open"
  /\ surfaces = [s \in Surfaces |-> 0] /\ primary = 0 /\ screen = {} /\ hooked = {}
  /\ painted = {} /\ jpegs = {} /\ created = 0 /\ reused = {} /\ late = {} /\ unread = {}
  /\ cache = [i \in Images |-> 0] /\ hasCache = FALSE /\ announced = cache
  /\ target = [n \in {} |-> 0]

-----------------------------------------------------------------------------
(* SPICE_MSG_DISPLAY_SURFACE_CREATE; the server has one primary surface at a *)
(* time and gives an id anew only after destroying its surface.              *)
SurfaceCreate(s, isPrimary) ==
  /\ channel = "open" /\ created < MaxSurfaces /\ surfaces[s] = 0 /\ (isPrimary => primary = 0)
  /\ created' = created + 1
  /\ surfaces' = [surfaces EXCEPT ![s] = created']
  /\ IF isPrimary
     THEN primary' = s /\ screen' = screen \cup {created'} /\ hooked' = hooked \cup {created'}
     ELSE UNCHANGED <<primary, screen, hooked>>
  /\ reused' = reused \cup {l.picture : l \in {m \in jpegs : m.surface = s}}
  /\ UNCHANGED <<channel, painted, jpegs, target, caching>>

(* Mutant: primary_surface is forgotten before the handlers are taken off,   *)
(* which unhook_events() then no longer does.                                *)
DeleteSurfacesHooked(ids) ==
  /\ IF primary \in ids
     THEN primary' = 0 /\ screen' = screen \ {surfaces[primary]} /\ UNCHANGED hooked
     ELSE UNCHANGED <<primary, screen, hooked>>
  /\ surfaces' = [s \in Surfaces |-> IF s \in ids THEN 0 ELSE surfaces[s]]

(* delete_surface(), of one surface or, by destroy_surfaces(), of all        *)
DeleteSurfaces(ids) ==
  /\ IF primary \in ids
     THEN /\ primary' = 0
          /\ screen' = screen \ {surfaces[primary]} /\ hooked' = hooked \ {surfaces[primary]}
     ELSE UNCHANGED <<primary, screen, hooked>>
  /\ surfaces' = [s \in Surfaces |-> IF s \in ids THEN 0 ELSE surfaces[s]]

SurfaceDestroy(s) ==
  /\ channel = "open" /\ surfaces[s] # 0
  /\ DeleteSurfaces({s})
  /\ UNCHANGED <<channel, created, reused, painted, jpegs, target, caching>>

(* stop() of the main channel *)
DisplayStop ==
  /\ channel # "stopped" /\ channel' = "stopped"
  /\ DeleteSurfaces({s \in Surfaces : surfaces[s] # 0})
  /\ UNCHANGED <<created, reused, painted, jpegs, target, caching>>

-----------------------------------------------------------------------------
Drawing(s) ==
  /\ channel = "open" /\ surfaces[s] # 0 /\ Cardinality(Draws) < MaxDraws
  /\ target' = [n \in 1 .. Cardinality(Draws) + 1 |-> IF n \in Draws THEN target[n] ELSE surfaces[s]]
Picture == Cardinality(Draws) + 1

(* The server asks to cache an image it does not think cached. *)
Announce(i) ==
  IF i = 0 THEN UNCHANGED announced
  ELSE announced[i] = 0 /\ announced' = [announced EXCEPT ![i] = Picture]

(* SPICE_IMAGE_FLAGS_CACHE_ME *)
CacheImage(i, picture) ==
  IF i = 0 THEN UNCHANGED <<cache, hasCache>>
  ELSE cache' = [cache EXCEPT ![i] = picture] /\ hasCache' = TRUE

(* What image i stands for is settled unless another JPEG of it still loads. *)
Settled(i, loading) == {i} \ {l.image : l \in loading}

(* A picture is there at once and needs no cache: so do DRAW_FILL and         *)
(* COPY_BITS, which are DrawNow with image 0.                                *)
Paint(s) == Drawing(s) /\ painted' = painted \cup {<<Picture, surfaces[s]>>}

(* SPICE_MSG_DISPLAY_DRAW_COPY of a picture that is there at once (QUIC, LZ, *)
(* a bitmap, part of a surface)                                              *)
DrawNow(s, i) ==
  /\ Paint(s) /\ Announce(i)
  /\ CacheImage(i, Picture)
  /\ late' = late \ Settled(i, jpegs)
  /\ UNCHANGED <<channel, pictures, jpegs, unread>>

(* ... of one the client cannot read: of a format or type it does not know,  *)
(* without its data, or in a drawing message it does not implement. Nothing  *)
(* is painted or cached, and the server is not told.                         *)
DrawUnread(s, i) ==
  /\ Drawing(s) /\ Announce(i)
  /\ unread' = unread \cup {Picture}
  /\ UNCHANGED <<channel, pictures, painted, jpegs, cache, hasCache, late>>

(* ... of one in the cache; the message is dropped when it is not there *)
DrawCached(s, i) ==
  /\ Drawing(s) /\ announced[i] # 0
  /\ painted' = IF cache[i] = 0 THEN painted ELSE painted \cup {<<Picture, surfaces[s]>>}
  /\ UNCHANGED <<channel, pictures, jpegs, caching>>

(* ... and of a JPEG, which is left to the browser to load *)
DrawJpeg(s, i) ==
  /\ Drawing(s) /\ Announce(i)
  /\ jpegs' = jpegs \cup {[picture |-> Picture, surface |-> s, image |-> i]}
  /\ UNCHANGED <<channel, pictures, painted, cache, hasCache, late, unread>>

(* Mutant: a JPEG whose surface is gone is discarded altogether. *)
JpegLoadedDiscarding(l) ==
  /\ jpegs' = jpegs \ {l}
  /\ IF surfaces[l.surface] # 0
     THEN /\ painted' = painted \cup {<<l.picture, surfaces[l.surface]>>}
          /\ CacheImage(l.image, l.picture)
     ELSE UNCHANGED <<painted, cache, hasCache>>
  /\ UNCHANGED <<channel, pictures, target, announced, late, unread>>

(* handle_draw_jpeg_onload(): a JPEG whose surface is gone is drawn on a     *)
(* canvas nobody sees, and cached like the others; after stop() there are no *)
(* surfaces to ask, and the handler dies.                                    *)
JpegLoaded(l) ==
  /\ jpegs' = jpegs \ {l}
  /\ painted' = IF surfaces[l.surface] = 0 THEN painted
                ELSE painted \cup {<<l.picture, surfaces[l.surface]>>}
  /\ IF channel # "stopped" THEN CacheImage(l.image, l.picture) ELSE UNCHANGED <<cache, hasCache>>
  /\ late' = IF l.image # 0 /\ announced[l.image] = l.picture
             THEN late \ Settled(l.image, jpegs \ {l}) ELSE late
  /\ UNCHANGED <<channel, pictures, target, announced, unread>>

(* SPICE_MSG_DISPLAY_INVAL_LIST of images the server had cached.  When no    *)
(* image has been cached yet there is no cache to look into: the handler     *)
(* dies with the message half handled, and the channel with it.              *)
InvalList(ids) ==
  /\ channel = "open" /\ ids # {} /\ \A i \in ids : announced[i] # 0
  /\ announced' = [i \in Images |-> IF i \in ids THEN 0 ELSE announced[i]]
  /\ cache' = [i \in Images |-> IF i \in ids THEN 0 ELSE cache[i]]
  /\ late' = (late \ ids) \cup {i \in ids : \E l \in jpegs : l.image = i}
  /\ channel' = IF hasCache THEN "open" ELSE "broken"
  /\ UNCHANGED <<pictures, painted, jpegs, target, hasCache, unread>>

(* SPICE_MSG_DISPLAY_INVAL_ALL_PIXMAPS: the server forgets every image, the  *)
(* client does not implement the message and keeps them all.                 *)
InvalAllPixmaps ==
  /\ channel = "open"
  /\ announced' = [i \in Images |-> 0]
  /\ late' = late \cup {i \in Images : announced[i] # 0}
  /\ UNCHANGED <<channel, pictures, painted, jpegs, target, cache, hasCache, unread>>

DisplayNext ==
  \/ \E s \in Surfaces, p \in BOOLEAN : SurfaceCreate(s, p)
  \/ \E s \in Surfaces : SurfaceDestroy(s)
  \/ DisplayStop
  \/ \E s \in Surfaces, i \in Images \cup {0} : DrawNow(s, i)
  \/ \E s \in Surfaces, i \in Images \cup {0} : DrawUnread(s, i)
  \/ \E s \in Surfaces, i \in Images : DrawCached(s, i)
  \/ \E s \in Surfaces, i \in Images \cup {0} : DrawJpeg(s, i)
  \/ \E l \in jpegs : JpegLoaded(l)
  \/ \E ids \in SUBSET Images : InvalList(ids)
  \/ InvalAllPixmaps
DisplaySpec == DisplayInit /\ [][DisplayNext]_displayVars

-----------------------------------------------------------------------------
(* Properties *)

(* The page shows the primary surface and no other canvas, and only that one *)
(* sends mouse and key events, through any order of creations, destructions  *)
(* and the stop.                                                             *)
ScreenShowsPrimary ==
  LET shown == IF primary = 0 THEN {} ELSE {surfaces[primary]}
  IN  screen = shown /\ hooked = shown /\ 0 \notin shown

(* A picture is painted on the surface it was meant for and on no other,     *)
(* although a JPEG asks for the surface only when it has loaded -- unless    *)
(* the id was given to another surface meanwhile: the old picture then       *)
(* appears on the new one.                                                   *)
PaintedInPlace == \A d \in painted : d[2] = target[d[1]] \/ d[1] \in reused

PicturesInPlace == ScreenShowsPrimary /\ PaintedInPlace

(* The client's cache agrees with what the server thinks is in it. An image  *)
(* may be missing while it loads, or because the client could not read it: a *)
(* message that takes it from the cache then paints nothing. And a wrong     *)
(* picture may stand for it after the server dropped it while it loaded, or  *)
(* dropped all images, which the client ignores -- until the client caches   *)
(* the picture the server means and no older JPEG can displace it.           *)
CacheAgrees ==
  channel # "stopped" => \A i \in Images \ late :
    \/ cache[i] = announced[i]
    \/ cache[i] = 0 /\ (announced[i] \in unread \/ \E l \in jpegs : l.picture = announced[i])
=============================================================================
