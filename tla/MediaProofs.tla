------------------------------ MODULE MediaProofs ------------------------------
(***************************************************************************)
(* Proofs about the display, the video streams and the playback of the      *)
(* browser client, for every set of surfaces, images and times, and every   *)
(* bound.                                                                   *)
(***************************************************************************)
EXTENDS SpiceDisplay, SpiceVideo, SpicePlayback, FiniteSetTheorems, SequenceTheorems, TLAPS

-----------------------------------------------------------------------------
(* The display *)

(* Drawing messages are numbered as they come. *)
DrawsNumbered == Cardinality(Draws) \in 0 .. MaxDraws /\ Draws = 1 .. Cardinality(Draws)

(* An id names a surface that was created, and the primary one exists.        *)
SurfacesCreated ==
  /\ created \in 0 .. MaxSurfaces
  /\ \A s \in Surfaces : surfaces[s] \in 0 .. created
  /\ primary # 0 => surfaces[primary] # 0

(* A picture that loads finds the surface it was meant for or none, unless    *)
(* the id was given away.                                                     *)
LoadsInPlace ==
  \A l \in jpegs : surfaces[l.surface] \in {0, target[l.picture]} \/ l.picture \in reused

(* The server never takes a later picture for the one an image id stands for. *)
AnnouncedDrawn == \A i \in Images : announced[i] \in Draws \cup {0}
LoadsAnnounced ==
  \A l \in jpegs, i \in Images :
    /\ l.picture = announced[i] => l.image = i
    /\ l.image = i /\ i \notin late => announced[i] = l.picture

DisplayInv ==
  /\ DisplayTypeOK /\ DrawsNumbered /\ SurfacesCreated /\ LoadsInPlace
  /\ AnnouncedDrawn /\ LoadsAnnounced /\ PicturesInPlace /\ CacheAgrees

LEMMA DisplayStart == DisplayInit => DisplayInv
<1> SUFFICES ASSUME DisplayInit PROVE DisplayInv
  OBVIOUS
<1>1. /\ channel = "open" /\ surfaces = [s \in Surfaces |-> 0] /\ primary = 0 /\ screen = {}
      /\ hooked = {} /\ painted = {} /\ jpegs = {} /\ created = 0 /\ reused = {}
      /\ late = {} /\ unread = {}
      /\ cache = [i \in Images |-> 0] /\ announced = [i \in Images |-> 0] /\ hasCache = FALSE
  BY DEF DisplayInit
<1>2. Draws = {} /\ target \in [Draws -> 1 .. created]
  BY <1>1 DEF DisplayInit, Draws
<1>3. Cardinality(Draws) = 0
  BY <1>2, FS_EmptySet
<1>4. 0 \in 0 .. MaxDraws /\ 0 \in 0 .. MaxSurfaces
  BY DisplayAssumption
<1>5. DrawsNumbered
  BY <1>2, <1>3, <1>4 DEF DrawsNumbered
<1>6. DisplayTypeOK
  BY <1>1, <1>2, <1>4 DEF DisplayTypeOK
<1>7. SurfacesCreated /\ LoadsInPlace /\ AnnouncedDrawn /\ LoadsAnnounced /\ PicturesInPlace /\ CacheAgrees
  BY <1>1, <1>4 DEF SurfacesCreated, LoadsInPlace, AnnouncedDrawn, LoadsAnnounced, PicturesInPlace,
                    ScreenShowsPrimary, PaintedInPlace, CacheAgrees
<1> QED
  BY <1>5, <1>6, <1>7 DEF DisplayInv

(* A drawing message gets the next number, and its target is the surface that *)
(* has the id now.                                                            *)
LEMMA DrawingNumbers ==
  ASSUME DisplayInv, NEW s \in Surfaces, Drawing(s)
  PROVE  /\ Picture \in 1 .. MaxDraws /\ Picture \notin Draws
         /\ Draws' = Draws \cup {Picture} /\ DrawsNumbered'
         /\ surfaces[s] \in 1 .. created
         /\ target' \in [Draws' -> 1 .. created]
         /\ target'[Picture] = surfaces[s] /\ \A n \in Draws : target'[n] = target[n]
<1> DEFINE N == Cardinality(Draws)
<1>1. N \in 0 .. MaxDraws /\ Draws = 1 .. N /\ MaxDraws \in Nat
  BY DisplayAssumption DEF DisplayInv, DrawsNumbered
<1>2. surfaces[s] \in 1 .. created /\ N < MaxDraws
  BY DEF Drawing, DisplayInv, SurfacesCreated
<1>3. target' = [n \in 1 .. N + 1 |-> IF n \in Draws THEN target[n] ELSE surfaces[s]]
  BY DEF Drawing
<1>4. target \in [Draws -> 1 .. created]
  BY DEF DisplayInv, DisplayTypeOK
<1>5. Picture = N + 1
  BY DEF Picture
<1> HIDE DEF N
<1>6. Draws' = 1 .. N + 1
  BY <1>3 DEF Draws
<1>7. Cardinality(1 .. N + 1) = N + 1
  BY <1>1, FS_Interval
<1>8. Draws' = Draws \cup {Picture} /\ Picture \notin Draws /\ Picture \in 1 .. MaxDraws
  BY <1>1, <1>2, <1>5, <1>6
<1>9. DrawsNumbered'
  BY <1>1, <1>2, <1>6, <1>7 DEF DrawsNumbered
<1>10. \A n \in 1 .. N + 1 : target'[n] \in 1 .. created
  BY <1>1, <1>2, <1>3, <1>4
<1>11. target' \in [Draws' -> 1 .. created]
  BY <1>3, <1>6, <1>10
<1>12. target'[Picture] = surfaces[s] /\ \A n \in Draws : target'[n] = target[n]
  BY <1>1, <1>3, <1>5
<1> QED
  BY <1>2, <1>8, <1>9, <1>11, <1>12

(* A drawing message: what it paints is in place, it loads at most one JPEG,  *)
(* under the new number, and announces at most one image with it; the image   *)
(* is then cached and settled, or loads, or could not be read.                *)
LEMMA DrawStep ==
  ASSUME DisplayInv, NEW s \in Surfaces, NEW i \in Images \cup {0}, Drawing(s),
         channel = "open", UNCHANGED <<channel, pictures>>,
         painted' = painted \/ painted' = painted \cup {<<Picture, surfaces[s]>>},
         announced' = announced
           \/ (i # 0 /\ announced[i] = 0 /\ announced' = [announced EXCEPT ![i] = Picture]),
         \/ UNCHANGED <<jpegs, late, unread, announced, cache>>
         \/ /\ i # 0 /\ announced' = [announced EXCEPT ![i] = Picture]
            /\ cache' = [cache EXCEPT ![i] = Picture]
            /\ late' = late \ Settled(i, jpegs) /\ UNCHANGED <<jpegs, unread>>
         \/ /\ jpegs' = jpegs \cup {[picture |-> Picture, surface |-> s, image |-> i]}
            /\ i # 0 => announced' = [announced EXCEPT ![i] = Picture]
            /\ UNCHANGED <<cache, late, unread>>
         \/ unread' = unread \cup {Picture} /\ UNCHANGED <<jpegs, cache, late>>,
         hasCache' \in BOOLEAN
  PROVE  DisplayInv'
<1>1. /\ DisplayTypeOK /\ DrawsNumbered /\ SurfacesCreated /\ LoadsInPlace
      /\ AnnouncedDrawn /\ LoadsAnnounced /\ ScreenShowsPrimary /\ PaintedInPlace /\ CacheAgrees
  BY DEF DisplayInv, PicturesInPlace
<1>2. /\ Picture \in 1 .. MaxDraws /\ Picture \notin Draws
      /\ Draws' = Draws \cup {Picture} /\ DrawsNumbered'
      /\ surfaces[s] \in 1 .. created /\ target' \in [Draws' -> 1 .. created]
      /\ target'[Picture] = surfaces[s] /\ \A n \in Draws : target'[n] = target[n]
  BY DrawingNumbers
<1>3. /\ UNCHANGED <<channel, surfaces, primary, screen, hooked, created, reused>>
  BY DEF pictures
<1> DEFINE P == Picture
           new == [picture |-> P, surface |-> s, image |-> i]
<1>4. /\ painted' \subseteq painted \cup {<<P, surfaces[s]>>}
      /\ jpegs' \in {jpegs, jpegs \cup {new}}
      /\ announced' = announced \/ (i # 0 /\ announced[i] = 0 /\ announced' = [announced EXCEPT ![i] = P])
      /\ cache' = cache \/ (jpegs' = jpegs /\ i # 0 /\ announced' = [announced EXCEPT ![i] = P]
                                /\ cache' = [cache EXCEPT ![i] = P])
      /\ \/ announced' = announced
         \/ cache' = [cache EXCEPT ![i] = P]
         \/ cache' = cache /\ jpegs' = jpegs \cup {new}
         \/ cache' = cache /\ P \in unread'
      /\ jpegs' = jpegs \/ i = 0 \/ (announced[i] = 0 /\ announced' = [announced EXCEPT ![i] = P])
      /\ unread \subseteq unread' /\ unread' \subseteq unread \cup {P}
      /\ \/ late' = late
         \/ /\ jpegs' = jpegs /\ i # 0 /\ late' = late \ Settled(i, jpegs)
            /\ announced' = [announced EXCEPT ![i] = P] /\ cache' = [cache EXCEPT ![i] = P]
  <2>1. painted' = painted \/ painted' = painted \cup {<<P, surfaces[s]>>}
    OBVIOUS
  <2>2. announced' = announced \/ (i # 0 /\ announced[i] = 0 /\ announced' = [announced EXCEPT ![i] = P])
    OBVIOUS
  <2>3. \/ UNCHANGED <<jpegs, late, unread, announced, cache>>
        \/ /\ i # 0 /\ announced' = [announced EXCEPT ![i] = P] /\ cache' = [cache EXCEPT ![i] = P]
           /\ late' = late \ Settled(i, jpegs) /\ UNCHANGED <<jpegs, unread>>
        \/ /\ jpegs' = jpegs \cup {new} /\ UNCHANGED <<cache, late, unread>>
           /\ i # 0 => announced' = [announced EXCEPT ![i] = P]
        \/ unread' = unread \cup {P} /\ UNCHANGED <<jpegs, cache, late>>
    OBVIOUS
  <2>4. announced \in [Images -> 0 .. MaxDraws] /\ P # 0
    BY <1>1, <1>2 DEF DisplayTypeOK
  <2> HIDE DEF P, new
  <2>5. i # 0 /\ announced' = [announced EXCEPT ![i] = P] => announced[i] = 0
    <3>1. i # 0 /\ announced[i] # 0 => announced' = announced
      BY <2>2
    <3>2. i # 0 /\ announced' = [announced EXCEPT ![i] = P] => announced'[i] = P
      BY <2>4
    <3> QED
      BY <1>1, <1>2, <2>2, <3>1, <3>2 DEF AnnouncedDrawn, P
  <2>6. CASE UNCHANGED <<jpegs, late, unread, announced, cache>>
    BY <2>1, <2>2, <2>6
  <2>7. CASE /\ i # 0 /\ announced' = [announced EXCEPT ![i] = P] /\ cache' = [cache EXCEPT ![i] = P]
             /\ late' = late \ Settled(i, jpegs) /\ UNCHANGED <<jpegs, unread>>
    BY <2>1, <2>2, <2>7
  <2>8. CASE /\ jpegs' = jpegs \cup {new} /\ UNCHANGED <<cache, late, unread>>
             /\ i # 0 => announced' = [announced EXCEPT ![i] = P]
    BY <2>1, <2>2, <2>5, <2>8
  <2>9. CASE unread' = unread \cup {P} /\ UNCHANGED <<jpegs, cache, late>>
    BY <2>1, <2>2, <2>9
  <2> QED
    BY <2>3, <2>6, <2>7, <2>8, <2>9
<1>5. /\ late' \subseteq late
      /\ \A j \in late \ late' : /\ cache'[j] = announced'[j] /\ jpegs' = jpegs
                                /\ \A l \in jpegs : l.image # j
  <2>1. CASE late' = late
    BY <2>1
  <2>2. CASE /\ jpegs' = jpegs /\ i # 0 /\ late' = late \ Settled(i, jpegs)
             /\ announced' = [announced EXCEPT ![i] = P] /\ cache' = [cache EXCEPT ![i] = P]
    <3>1. announced'[i] = P /\ cache'[i] = P
      BY <1>1, <2>2 DEF DisplayTypeOK
    <3> QED
      BY <2>2, <3>1 DEF Settled
  <2> QED
    BY <1>4, <2>1, <2>2
<1>6. announced' \in [Images -> 0 .. MaxDraws] /\ cache' \in [Images -> 0 .. MaxDraws]
  BY <1>1, <1>2, <1>4 DEF DisplayTypeOK
<1>7. jpegs' \subseteq [picture : Draws', surface : Surfaces, image : Images \cup {0}]
  <2>1. jpegs \subseteq [picture : Draws', surface : Surfaces, image : Images \cup {0}]
    BY <1>1, <1>2 DEF DisplayTypeOK
  <2>2. new \in [picture : Draws', surface : Surfaces, image : Images \cup {0}]
    BY <1>2
  <2> QED
    BY <1>4, <2>1, <2>2
<1>8. painted' \subseteq Draws' \X (1 .. created)
  <2>1. painted \subseteq Draws' \X (1 .. created)
    BY <1>1, <1>2 DEF DisplayTypeOK
  <2> QED
    BY <1>2, <1>4, <2>1
<1>9. DisplayTypeOK'
  <2>1. late' \subseteq Images /\ unread' \subseteq Draws'
    BY <1>1, <1>2, <1>4, <1>5 DEF DisplayTypeOK
  <2> QED
    BY <1>1, <1>2, <1>3, <1>6, <1>7, <1>8, <2>1 DEF DisplayTypeOK
<1>10. SurfacesCreated'
  BY <1>1, <1>3 DEF SurfacesCreated
<1> HIDE DEF P
<1>11. new.picture = P /\ new.surface = s /\ new.image = i /\ P \notin Draws /\ P \in Draws' /\ P # 0
  BY <1>2 DEF P
<1>12. \A l \in jpegs : l.picture \in Draws /\ l.surface \in Surfaces /\ l.image \in Images \cup {0}
  BY <1>1 DEF DisplayTypeOK
<1> HIDE DEF new
<1>13. LoadsInPlace'
  BY <1>1, <1>2, <1>3, <1>4, <1>11, <1>12 DEF LoadsInPlace, P
<1>14. AnnouncedDrawn'
  BY <1>1, <1>2, <1>4, <1>11 DEF AnnouncedDrawn, DisplayTypeOK
<1>15. \A j \in Images : announced'[j] = announced[j] \/ (j = i /\ announced[i] = 0 /\ announced'[i] = P)
  BY <1>1, <1>4 DEF DisplayTypeOK
<1>16. LoadsAnnounced'
  <2> SUFFICES ASSUME NEW l \in jpegs', NEW j \in Images
               PROVE  /\ l.picture = announced'[j] => l.image = j
                      /\ l.image = j /\ j \notin late' => announced'[j] = l.picture
    BY DEF LoadsAnnounced
  <2>1. announced[j] \in Draws \cup {0} /\ 0 \notin Draws
    BY <1>1 DEF AnnouncedDrawn, DrawsNumbered
  <2>2. CASE l \in jpegs
    <3>1. l.image = j /\ j \notin late' => j \notin late
      BY <1>5, <2>2
    <3> QED
      BY <1>1, <1>11, <1>12, <1>15, <2>1, <2>2, <3>1 DEF LoadsAnnounced
  <2>3. CASE l \notin jpegs
    <3>1. l = new /\ (i = 0 \/ (announced[i] = 0 /\ announced' = [announced EXCEPT ![i] = P]))
      BY <1>4, <2>3
    <3>2. j = i => announced'[j] = P
      BY <1>1, <3>1, DisplayAssumption DEF DisplayTypeOK
    <3> QED
      BY <1>11, <1>15, <2>1, <3>1, <3>2
  <2> QED
    BY <2>2, <2>3
<1>17. PicturesInPlace'
  <2>1. ScreenShowsPrimary'
    BY <1>1, <1>3 DEF ScreenShowsPrimary
  <2>2. \A d \in painted : d[1] \in Draws
    BY <1>1 DEF DisplayTypeOK
  <2>3. PaintedInPlace'
    BY <1>1, <1>2, <1>3, <1>4, <2>2 DEF PaintedInPlace, P
  <2> QED
    BY <2>1, <2>3 DEF PicturesInPlace
<1>18. CacheAgrees'
  <2> SUFFICES ASSUME NEW j \in Images \ late
               PROVE  \/ cache'[j] = announced'[j]
                      \/ /\ cache'[j] = 0
                         /\ announced'[j] \in unread' \/ \E l \in jpegs' : l.picture = announced'[j]
    BY <1>3, <1>5 DEF CacheAgrees
  <2>1. \/ cache[j] = announced[j]
        \/ cache[j] = 0 /\ (announced[j] \in unread \/ \E l \in jpegs : l.picture = announced[j])
    BY <1>1 DEF CacheAgrees
  <2>2. 0 \notin Draws /\ jpegs \subseteq jpegs' /\ unread \subseteq unread' /\ unread \subseteq Draws
    BY <1>1, <1>4 DEF DrawsNumbered, DisplayTypeOK
  <2>3. CASE announced'[j] = announced[j] /\ cache'[j] = cache[j]
    BY <2>1, <2>2, <2>3
  <2>4. CASE announced'[j] = P /\ announced[j] = 0
    <3>1. cache[j] = 0
      BY <1>12, <2>1, <2>2, <2>4
    <3>2. announced' # announced /\ j = i
      BY <1>11, <1>15, <2>2, <2>4
    <3>3. CASE cache' = cache /\ jpegs' = jpegs \cup {new}
      BY <1>11, <2>4, <3>1, <3>3
    <3>4. CASE cache' = cache /\ P \in unread'
      BY <2>4, <3>1, <3>4
    <3>5. CASE cache' = [cache EXCEPT ![i] = P]
      BY <1>1, <2>4, <3>2, <3>5 DEF DisplayTypeOK
    <3> QED
      BY <1>4, <3>2, <3>3, <3>5, <3>4
  <2>5. cache'[j] = cache[j] \/ announced'[j] = P
    BY <1>1, <1>4 DEF DisplayTypeOK
  <2>6. announced'[j] = announced[j] => cache'[j] = cache[j]
    <3>1. announced[j] # P
      BY <1>1, <1>2, <1>11 DEF AnnouncedDrawn
    <3> QED
      BY <2>5, <3>1
  <2> QED
    BY <1>15, <2>3, <2>4, <2>6
<1> QED
  BY <1>2, <1>9, <1>10, <1>13, <1>14, <1>16, <1>17, <1>18 DEF DisplayInv

(* Which surfaces a deletion takes away: only the primary one is on the screen *)
(* and hooked, so nothing stays behind of it.                                  *)
LEMMA DeleteStep ==
  ASSUME DisplayInv, NEW ids \in SUBSET Surfaces, DeleteSurfaces(ids),
         channel' \in {channel, "stopped"},
         UNCHANGED <<created, reused, painted, jpegs, target, caching>>
  PROVE  DisplayInv'
<1>1. /\ DisplayTypeOK /\ DrawsNumbered /\ SurfacesCreated /\ LoadsInPlace
      /\ AnnouncedDrawn /\ LoadsAnnounced /\ ScreenShowsPrimary /\ PaintedInPlace /\ CacheAgrees
  BY DEF DisplayInv, PicturesInPlace
<1>2. /\ surfaces' = [s \in Surfaces |-> IF s \in ids THEN 0 ELSE surfaces[s]]
      /\ IF primary \in ids
         THEN /\ primary' = 0
              /\ screen' = screen \ {surfaces[primary]} /\ hooked' = hooked \ {surfaces[primary]}
         ELSE UNCHANGED <<primary, screen, hooked>>
      /\ UNCHANGED <<created, reused, painted, jpegs, target, cache, hasCache, announced, late, unread>>
  BY DEF DeleteSurfaces, caching
<1>3. \A s \in Surfaces : surfaces'[s] \in {0, surfaces[s]} /\ (s \notin ids => surfaces'[s] = surfaces[s])
  BY <1>2
<1>4. surfaces' \in [Surfaces -> 0 .. MaxSurfaces]
  BY <1>1, <1>2, DisplayAssumption DEF DisplayTypeOK
<1>5. Draws' = Draws
  BY <1>2 DEF Draws
<1>6. DisplayTypeOK'
  BY <1>1, <1>2, <1>4, <1>5 DEF DisplayTypeOK
<1>7. SurfacesCreated'
  BY <1>1, <1>2, <1>3, <1>6 DEF SurfacesCreated, DisplayTypeOK
<1>8. ScreenShowsPrimary'
  <2>1. primary \in Surfaces \cup {0} /\ 0 \notin Surfaces
    BY <1>1, DisplayAssumption DEF DisplayTypeOK
  <2>2. CASE primary \in ids
    BY <1>1, <1>2, <2>1, <2>2 DEF ScreenShowsPrimary
  <2>3. CASE primary \notin ids
    BY <1>1, <1>2, <1>3, <2>1, <2>3 DEF ScreenShowsPrimary
  <2> QED
    BY <2>2, <2>3
<1>9. LoadsInPlace'
  BY <1>1, <1>2, <1>3 DEF LoadsInPlace, DisplayTypeOK
<1>10. DrawsNumbered' /\ PaintedInPlace' /\ AnnouncedDrawn' /\ LoadsAnnounced'
  BY <1>1, <1>2, <1>5 DEF DrawsNumbered, PaintedInPlace, AnnouncedDrawn, LoadsAnnounced
<1>11. CacheAgrees'
  BY <1>1, <1>2 DEF CacheAgrees
<1> QED
  BY <1>6, <1>7, <1>8, <1>9, <1>10, <1>11 DEF DisplayInv, PicturesInPlace

LEMMA CreateStep ==
  ASSUME DisplayInv, NEW s \in Surfaces, NEW isPrimary \in BOOLEAN, SurfaceCreate(s, isPrimary)
  PROVE  DisplayInv'
<1>1. /\ DisplayTypeOK /\ DrawsNumbered /\ SurfacesCreated /\ LoadsInPlace
      /\ AnnouncedDrawn /\ LoadsAnnounced /\ ScreenShowsPrimary /\ PaintedInPlace /\ CacheAgrees
  BY DEF DisplayInv, PicturesInPlace
<1>2. /\ created < MaxSurfaces /\ surfaces[s] = 0 /\ (isPrimary => primary = 0)
      /\ created' = created + 1 /\ surfaces' = [surfaces EXCEPT ![s] = created']
      /\ IF isPrimary
         THEN primary' = s /\ screen' = screen \cup {created'} /\ hooked' = hooked \cup {created'}
         ELSE UNCHANGED <<primary, screen, hooked>>
      /\ reused' = reused \cup {l.picture : l \in {m \in jpegs : m.surface = s}}
      /\ UNCHANGED <<channel, painted, jpegs, target, cache, hasCache, announced, late, unread>>
  BY DEF SurfaceCreate, caching
<1>3. created \in 0 .. MaxSurfaces /\ created' \in 1 .. MaxSurfaces /\ 0 \notin Surfaces
  BY <1>1, <1>2, DisplayAssumption DEF SurfacesCreated
<1>4. surfaces'[s] = created' /\ \A r \in Surfaces \ {s} : surfaces'[r] = surfaces[r]
  BY <1>1, <1>2 DEF DisplayTypeOK
<1>5. surfaces' \in [Surfaces -> 0 .. MaxSurfaces]
  BY <1>1, <1>2, <1>3 DEF DisplayTypeOK
<1>6. Draws' = Draws
  BY <1>2 DEF Draws
<1>7. 1 .. created \subseteq 1 .. created' /\ created' \in 1 .. created'
  BY <1>2, <1>3
<1>8. \A l \in jpegs : l.picture \in Draws /\ l.surface \in Surfaces
  BY <1>1 DEF DisplayTypeOK
<1>9. DisplayTypeOK'
  <2>1. screen' \subseteq 1 .. created' /\ hooked' \subseteq 1 .. created' /\ primary' \in Surfaces \cup {0}
    BY <1>1, <1>2, <1>7 DEF DisplayTypeOK
  <2>2. reused' \subseteq Draws
    BY <1>1, <1>2, <1>8 DEF DisplayTypeOK
  <2>3. painted' \subseteq Draws \X (1 .. created') /\ target' \in [Draws -> 1 .. created']
    <3>1. painted \subseteq Draws \X (1 .. created) /\ target \in [Draws -> 1 .. created]
      BY <1>1 DEF DisplayTypeOK
    <3> QED
      BY <1>2, <1>7, <3>1
  <2> QED
    BY <1>1, <1>2, <1>5, <1>6, <2>1, <2>2, <2>3 DEF DisplayTypeOK
<1>10. SurfacesCreated'
  BY <1>1, <1>2, <1>3, <1>4 DEF SurfacesCreated, DisplayTypeOK
<1>11. ScreenShowsPrimary'
  <2>1. CASE isPrimary
    BY <1>1, <1>2, <1>3, <1>4, <2>1 DEF ScreenShowsPrimary
  <2>2. CASE ~isPrimary
    <3>1. primary # 0 => primary \in Surfaces \ {s}
      BY <1>1, <1>2 DEF SurfacesCreated, DisplayTypeOK
    <3> QED
      BY <1>1, <1>2, <1>4, <2>2, <3>1 DEF ScreenShowsPrimary
  <2> QED
    BY <2>1, <2>2
<1>12. LoadsInPlace'
  BY <1>1, <1>2, <1>4, <1>8 DEF LoadsInPlace
<1>13. DrawsNumbered' /\ PaintedInPlace' /\ AnnouncedDrawn' /\ LoadsAnnounced'
  BY <1>1, <1>2, <1>6 DEF DrawsNumbered, PaintedInPlace, AnnouncedDrawn, LoadsAnnounced
<1>14. CacheAgrees'
  BY <1>1, <1>2 DEF CacheAgrees
<1> QED
  BY <1>9, <1>10, <1>11, <1>12, <1>13, <1>14 DEF DisplayInv, PicturesInPlace

(* A JPEG is drawn, and cached, when it has loaded. *)
LEMMA LoadedStep ==
  ASSUME DisplayInv, NEW l \in jpegs, JpegLoaded(l)
  PROVE  DisplayInv'
<1>1. /\ DisplayTypeOK /\ DrawsNumbered /\ SurfacesCreated /\ LoadsInPlace
      /\ AnnouncedDrawn /\ LoadsAnnounced /\ ScreenShowsPrimary /\ PaintedInPlace /\ CacheAgrees
  BY DEF DisplayInv, PicturesInPlace
<1>2. /\ jpegs' = jpegs \ {l}
      /\ painted' = IF surfaces[l.surface] = 0 THEN painted
                    ELSE painted \cup {<<l.picture, surfaces[l.surface]>>}
      /\ \/ cache' = cache /\ (channel # "stopped" => l.image = 0)
         \/ l.image # 0 /\ cache' = [cache EXCEPT ![l.image] = l.picture]
      /\ UNCHANGED <<channel, surfaces, primary, screen, hooked, created, reused, target, announced, unread>>
      /\ late' = IF l.image # 0 /\ announced[l.image] = l.picture
                 THEN late \ Settled(l.image, jpegs \ {l}) ELSE late
      /\ hasCache' \in {hasCache, TRUE}
  BY DEF JpegLoaded, CacheImage, pictures
<1>3. /\ l.picture \in Draws /\ l.surface \in Surfaces /\ l.image \in Images \cup {0}
      /\ 0 \notin Images /\ Draws' = Draws /\ Draws \subseteq 1 .. MaxDraws
  BY <1>1, <1>2, DisplayAssumption DEF DisplayTypeOK, Draws, DrawsNumbered
<1>4. /\ late' \subseteq late
      /\ \A j \in late \ late' : /\ l.image = j /\ announced[j] = l.picture
                                /\ \A m \in jpegs' : m.image # j
  BY <1>2 DEF Settled
<1>5. DisplayTypeOK'
  <2>1. cache' \in [Images -> 0 .. MaxDraws]
    <3>1. cache \in [Images -> 0 .. MaxDraws] /\ l.picture \in 0 .. MaxDraws
      <4>1. cache \in [Images -> 0 .. MaxDraws]
        BY <1>1 DEF DisplayTypeOK
      <4>2. l.picture \in 1 .. MaxDraws
        BY <1>3
      <4> QED
        BY <4>1, <4>2, DisplayAssumption
    <3>2. l.image # 0 => [cache EXCEPT ![l.image] = l.picture] \in [Images -> 0 .. MaxDraws]
      BY <3>1
    <3> QED
      BY <1>2, <3>1, <3>2
  <2>2. surfaces[l.surface] # 0 => surfaces[l.surface] \in 1 .. created
    BY <1>1, <1>3 DEF SurfacesCreated
  <2>3. painted' \subseteq Draws \X (1 .. created)
    BY <1>1, <1>2, <1>3, <2>2 DEF DisplayTypeOK
  <2> QED
    BY <1>1, <1>2, <1>3, <1>4, <2>1, <2>3 DEF DisplayTypeOK
<1>6. /\ DrawsNumbered' /\ SurfacesCreated' /\ LoadsInPlace' /\ AnnouncedDrawn' /\ ScreenShowsPrimary'
  BY <1>1, <1>2, <1>3 DEF DrawsNumbered, SurfacesCreated, LoadsInPlace, AnnouncedDrawn, ScreenShowsPrimary
<1>7. LoadsAnnounced'
  <2>1. \A m \in jpegs', j \in Images : m.image = j /\ j \notin late' => j \notin late
    BY <1>4
  <2> QED
    BY <1>1, <1>2, <2>1 DEF LoadsAnnounced
<1>8. PaintedInPlace'
  <2>1. surfaces[l.surface] # 0 => surfaces[l.surface] = target[l.picture] \/ l.picture \in reused
    BY <1>1 DEF LoadsInPlace
  <2> QED
    BY <1>1, <1>2, <2>1 DEF PaintedInPlace
<1>9. CacheAgrees'
  <2> SUFFICES ASSUME channel # "stopped", NEW j \in Images \ late'
               PROVE  \/ cache'[j] = announced[j]
                      \/ /\ cache'[j] = 0
                         /\ announced[j] \in unread \/ \E m \in jpegs' : m.picture = announced[j]
    BY <1>2 DEF CacheAgrees
  <2>1. CASE l.image = j
    <3>1. announced[j] = l.picture
      BY <1>1, <1>4, <2>1 DEF LoadsAnnounced
    <3>2. cache'[j] = l.picture
      BY <1>1, <1>2, <1>3, <2>1 DEF DisplayTypeOK
    <3> QED
      BY <3>1, <3>2
  <2>2. CASE l.image # j
    <3>1. j \notin late
      BY <1>4, <2>2
    <3>2. l.picture # announced[j]
      BY <1>1, <2>2 DEF LoadsAnnounced
    <3>3. \/ cache[j] = announced[j]
          \/ cache[j] = 0 /\ (announced[j] \in unread \/ \E m \in jpegs : m.picture = announced[j])
      BY <1>1, <3>1 DEF CacheAgrees
    <3>4. cache'[j] = cache[j]
      BY <1>1, <1>2, <1>3, <2>2 DEF DisplayTypeOK
    <3> QED
      BY <1>2, <3>2, <3>3, <3>4
  <2> QED
    BY <2>1, <2>2
<1> QED
  BY <1>5, <1>6, <1>8, <1>9, <1>7 DEF DisplayInv, PicturesInPlace

LEMMA InvalStep ==
  ASSUME DisplayInv, NEW ids \in SUBSET Images, InvalList(ids)
  PROVE  DisplayInv'
<1>1. /\ DisplayTypeOK /\ DrawsNumbered /\ SurfacesCreated /\ LoadsInPlace
      /\ AnnouncedDrawn /\ LoadsAnnounced /\ ScreenShowsPrimary /\ PaintedInPlace /\ CacheAgrees
  BY DEF DisplayInv, PicturesInPlace
<1>2. /\ channel = "open" /\ channel' \in {"open", "broken"}
      /\ announced' = [i \in Images |-> IF i \in ids THEN 0 ELSE announced[i]]
      /\ cache' = [i \in Images |-> IF i \in ids THEN 0 ELSE cache[i]]
      /\ late' = (late \ ids) \cup {i \in ids : \E l \in jpegs : l.image = i}
      /\ UNCHANGED <<surfaces, primary, screen, hooked, created, reused, painted, jpegs, target,
                     hasCache, unread>>
  BY DEF InvalList, pictures
<1>3. Draws' = Draws /\ 0 \notin Draws /\ \A l \in jpegs : l.picture \in Draws
  BY <1>1, <1>2 DEF Draws, DrawsNumbered, DisplayTypeOK
<1>4. DisplayTypeOK'
  <2>1. announced' \in [Images -> 0 .. MaxDraws] /\ cache' \in [Images -> 0 .. MaxDraws]
    BY <1>1, <1>2, DisplayAssumption DEF DisplayTypeOK
  <2>2. late' \subseteq Images
    BY <1>1, <1>2 DEF DisplayTypeOK
  <2> QED
    BY <1>1, <1>2, <1>3, <2>1, <2>2 DEF DisplayTypeOK
<1>5. /\ DrawsNumbered' /\ SurfacesCreated' /\ LoadsInPlace' /\ ScreenShowsPrimary' /\ PaintedInPlace'
  BY <1>1, <1>2, <1>3 DEF DrawsNumbered, SurfacesCreated, LoadsInPlace, ScreenShowsPrimary, PaintedInPlace
<1>6. \A i \in Images : IF i \in ids THEN announced'[i] = 0 /\ cache'[i] = 0
                        ELSE announced'[i] = announced[i] /\ cache'[i] = cache[i]
  BY <1>2
<1>7. AnnouncedDrawn' /\ LoadsAnnounced' /\ CacheAgrees'
  BY <1>1, <1>2, <1>3, <1>6 DEF AnnouncedDrawn, LoadsAnnounced, CacheAgrees
<1> QED
  BY <1>4, <1>5, <1>7 DEF DisplayInv, PicturesInPlace

(* What the client does not drop with the server may be wrong from then on. *)
LEMMA InvalAllStep == DisplayInv /\ InvalAllPixmaps => DisplayInv'
<1> SUFFICES ASSUME DisplayInv, InvalAllPixmaps PROVE DisplayInv'
  OBVIOUS
<1>1. /\ DisplayTypeOK /\ DrawsNumbered /\ SurfacesCreated /\ LoadsInPlace
      /\ AnnouncedDrawn /\ LoadsAnnounced /\ ScreenShowsPrimary /\ PaintedInPlace /\ CacheAgrees
  BY DEF DisplayInv, PicturesInPlace
<1>2. /\ announced' = [i \in Images |-> 0]
      /\ late' = late \cup {i \in Images : announced[i] # 0}
      /\ UNCHANGED <<channel, surfaces, primary, screen, hooked, created, reused, painted, jpegs,
                     target, cache, hasCache, unread>>
  BY DEF InvalAllPixmaps, pictures
<1>3. Draws' = Draws /\ 0 \notin Draws /\ \A l \in jpegs : l.picture \in Draws
  BY <1>1, <1>2 DEF Draws, DrawsNumbered, DisplayTypeOK
<1>4. DisplayTypeOK'
  BY <1>1, <1>2, <1>3, DisplayAssumption DEF DisplayTypeOK
<1>5. /\ DrawsNumbered' /\ SurfacesCreated' /\ LoadsInPlace' /\ ScreenShowsPrimary' /\ PaintedInPlace'
  BY <1>1, <1>2, <1>3 DEF DrawsNumbered, SurfacesCreated, LoadsInPlace, ScreenShowsPrimary, PaintedInPlace
<1>6. \A i \in Images : announced'[i] = 0 /\ (i \notin late' => i \notin late /\ announced[i] = 0)
  BY <1>2
<1>7. AnnouncedDrawn' /\ LoadsAnnounced'
  BY <1>1, <1>2, <1>3, <1>6 DEF AnnouncedDrawn, LoadsAnnounced
<1>8. CacheAgrees'
  <2>1. unread \subseteq Draws
    BY <1>1 DEF DisplayTypeOK
  <2> QED
    BY <1>1, <1>2, <1>3, <1>6, <2>1 DEF CacheAgrees
<1> QED
  BY <1>4, <1>5, <1>7, <1>8 DEF DisplayInv, PicturesInPlace

LEMMA DisplayStep == DisplayInv /\ [DisplayNext]_displayVars => DisplayInv'
<1> SUFFICES ASSUME DisplayInv, [DisplayNext]_displayVars PROVE DisplayInv'
  OBVIOUS
<1>1. ASSUME NEW s \in Surfaces, NEW p \in BOOLEAN, SurfaceCreate(s, p) PROVE DisplayInv'
  BY <1>1, CreateStep
<1>2. ASSUME NEW s \in Surfaces, SurfaceDestroy(s) PROVE DisplayInv'
  BY <1>2, DeleteStep DEF SurfaceDestroy
<1>3. CASE DisplayStop
  <2>1. {s \in Surfaces : surfaces[s] # 0} \in SUBSET Surfaces
    OBVIOUS
  <2> QED
    BY <1>3, <2>1, DeleteStep DEF DisplayStop
<1>4. hasCache \in BOOLEAN
  BY DEF DisplayInv, DisplayTypeOK
<1>5. ASSUME NEW s \in Surfaces, NEW i \in Images \cup {0}, DrawNow(s, i) PROVE DisplayInv'
  <2>1. /\ Drawing(s) /\ painted' = painted \cup {<<Picture, surfaces[s]>>}
        /\ UNCHANGED <<channel, pictures, jpegs, unread>>
        /\ channel = "open" /\ late' = late \ Settled(i, jpegs)
    BY <1>5 DEF DrawNow, Paint, Drawing
  <2>2. CASE i = 0
    <3>1. late' = late
      BY <2>1, <2>2, DisplayAssumption DEF Settled, DisplayInv, DisplayTypeOK
    <3> QED
      BY <1>4, <1>5, <2>1, <2>2, <3>1, DrawStep DEF DrawNow, Announce, CacheImage
  <2>3. CASE i # 0
    BY <1>5, <2>1, <2>3, DrawStep DEF DrawNow, Announce, CacheImage
  <2> QED
    BY <2>2, <2>3
<1>6. ASSUME NEW s \in Surfaces, NEW i \in Images \cup {0}, DrawUnread(s, i) PROVE DisplayInv'
  <2>1. /\ Drawing(s) /\ channel = "open" /\ unread' = unread \cup {Picture}
        /\ UNCHANGED <<channel, pictures, painted, jpegs, cache, hasCache, late>>
        /\ \/ announced' = announced
           \/ i # 0 /\ announced[i] = 0 /\ announced' = [announced EXCEPT ![i] = Picture]
    BY <1>6 DEF DrawUnread, Drawing, Announce
  <2> QED
    BY <1>4, <2>1, DrawStep
<1>7. CASE InvalAllPixmaps
  BY <1>7, InvalAllStep
<1>8. ASSUME NEW s \in Surfaces, NEW i \in Images, DrawCached(s, i) PROVE DisplayInv'
  <2>1. /\ Drawing(s) /\ channel = "open" /\ UNCHANGED <<channel, pictures, jpegs, caching>>
        /\ painted' = painted \/ painted' = painted \cup {<<Picture, surfaces[s]>>}
    BY <1>8 DEF DrawCached, Drawing
  <2> QED
    BY <1>4, <2>1, DrawStep DEF caching
<1>9. ASSUME NEW s \in Surfaces, NEW i \in Images \cup {0}, DrawJpeg(s, i) PROVE DisplayInv'
  <2>1. /\ Drawing(s) /\ channel = "open" /\ UNCHANGED <<channel, pictures, painted, cache, hasCache, late, unread>>
        /\ jpegs' = jpegs \cup {[picture |-> Picture, surface |-> s, image |-> i]}
        /\ \/ i = 0 /\ announced' = announced
           \/ i # 0 /\ announced[i] = 0 /\ announced' = [announced EXCEPT ![i] = Picture]
    BY <1>9 DEF DrawJpeg, Drawing, Announce
  <2> QED
    BY <1>4, <2>1, DrawStep
<1>10. ASSUME NEW l \in jpegs, JpegLoaded(l) PROVE DisplayInv'
  BY <1>10, LoadedStep
<1>11. ASSUME NEW ids \in SUBSET Images, InvalList(ids) PROVE DisplayInv'
  BY <1>11, InvalStep
<1>12. CASE UNCHANGED displayVars
  <2>1. /\ UNCHANGED <<channel, surfaces, primary, screen, hooked, created, reused, painted, jpegs, target>>
        /\ UNCHANGED <<cache, hasCache, announced, late, unread>>
    BY <1>12 DEF displayVars, pictures, caching
  <2>2. Draws' = Draws
    BY <2>1 DEF Draws
  <2> QED
    BY <2>1, <2>2 DEF DisplayInv, DisplayTypeOK, DrawsNumbered, SurfacesCreated, LoadsInPlace,
      AnnouncedDrawn, LoadsAnnounced, PicturesInPlace, ScreenShowsPrimary, PaintedInPlace, CacheAgrees
<1> QED
  BY <1>1, <1>2, <1>3, <1>5, <1>8, <1>9, <1>10, <1>11, <1>12, <1>6, <1>7 DEF DisplayNext

LEMMA DisplayInductive == DisplaySpec => []DisplayInv
<1> QED
  BY DisplayStart, DisplayStep, PTL DEF DisplaySpec

(* Ids always name surfaces and pictures that were created. *)
THEOREM DisplayTyped == DisplaySpec => []DisplayTypeOK
<1>1. DisplayInv => DisplayTypeOK
  BY DEF DisplayInv
<1> QED
  BY <1>1, DisplayInductive, PTL

(* The page shows the primary surface alone, and every picture is painted on *)
(* the surface it was meant for, however late it has loaded, unless that     *)
(* surface's id was given away meanwhile.                                    *)
THEOREM PicturesArePlaced == DisplaySpec => []PicturesInPlace
<1>1. DisplayInv => PicturesInPlace
  BY DEF DisplayInv
<1> QED
  BY <1>1, DisplayInductive, PTL

(* The client's cache is what the server thinks it is, but for images that    *)
(* load or could not be read, which are missing, and those the server dropped *)
(* while they loaded or all at once, until the client caches them anew.       *)
THEOREM CacheStaysTrue == DisplaySpec => []CacheAgrees
<1>1. DisplayInv => CacheAgrees
  BY DEF DisplayInv
<1> QED
  BY <1>1, DisplayInductive, PTL

-----------------------------------------------------------------------------
(* Video *)

Parts == {VideoHeader} \cup ({"cluster", "block"} \X Nat)
Feeds == [appended : Seq(Parts), queue : Seq(Parts),
          okay : BOOLEAN, updating : BOOLEAN, current : BOOLEAN]
Pending(f) == IF f.current THEN 1 ELSE 0
Held == IF feed.current /\ (feed.updating \/ stuck) THEN 1 ELSE 0

VideoTypes ==
  /\ codec \in {"none", "mjpeg", "vp8"}
  /\ reporting \in BOOLEAN /\ opened \in BOOLEAN /\ stuck \in BOOLEAN
  /\ framesLoading \in Int /\ loading \in Nat /\ lost \in Nat /\ inherited \in Nat
  /\ report \in [frames : 0 .. MaxWindow, drops : Nat]
  /\ due \in Nat /\ told \in Nat
  /\ feed \in Feeds /\ produced \in Seq(Parts)
  /\ streams \in 0 .. MaxStreams /\ frames \in 0 .. MaxFrames

(* Nothing is counted that was not a frame, or one of a frame's two pieces.   *)
VideoBounded ==
  /\ loading + lost <= frames /\ inherited <= frames
  /\ -frames <= framesLoading /\ framesLoading <= frames
  /\ report.drops <= frames
  /\ Pending(feed) + Len(feed.queue) + loading + lost <= 2 * frames
  /\ due + Len(feed.queue) <= 2 * frames

(* What a stream of the codec does not use is as it was in the beginning.     *)
VideoIdle ==
  /\ codec = "none" => ~reporting
  /\ ~reporting => report = NoReport /\ due = 0 /\ told = 0
  /\ codec # "vp8" => ~opened /\ feed = Unfed /\ produced = <<>> /\ ~stuck

(* An append is under way, or was refused, or the next may be made at once.   *)
Buffering ==
  /\ feed.okay <=> opened /\ ~feed.updating /\ ~stuck
  /\ stuck => ~feed.updating
  /\ ~opened => ~feed.updating /\ ~feed.current /\ feed.appended = <<>> /\ ~stuck
  /\ opened => feed.appended # <<>> /\ Head(feed.appended) = VideoHeader
  /\ feed.okay => feed.queue = <<>>

Given(o, f) == (IF o THEN Tail(f.appended) ELSE <<>>) \o f.queue
PiecesFed ==
  /\ produced # <<>> => produced[1][1] = "cluster"
  /\ ~stuck => Given(opened, feed) = produced

VideoInv ==
  /\ VideoTypes /\ VideoBounded /\ VideoIdle
  /\ LoadingCounted /\ ReportsAddUp /\ Buffering /\ PiecesFed

LEMMA VideoInvImplies == VideoInv => VideoTypeOK /\ FramesAccounted /\ VideoFed
<1> SUFFICES ASSUME VideoInv PROVE VideoTypeOK /\ FramesAccounted /\ VideoFed
  OBVIOUS
<1>1. /\ VideoTypes /\ VideoBounded /\ VideoIdle
      /\ LoadingCounted /\ ReportsAddUp /\ Buffering /\ PiecesFed
  BY DEF VideoInv
<1>2. FramesAccounted
  BY <1>1 DEF FramesAccounted
<1>3. VideoFed
  <2>1. feed.okay \in BOOLEAN
    BY <1>1 DEF VideoTypes, Feeds
  <2>2. feed.okay = (opened /\ ~feed.updating /\ ~stuck)
    BY <1>1, <2>1 DEF Buffering
  <2> QED
    BY <1>1, <2>2 DEF VideoFed, Buffering, PiecesFed, Given
<1>4. VideoTypeOK
  <2>1. {reporting, opened, stuck} \subseteq BOOLEAN
    BY <1>1 DEF VideoTypes
  <2>2. DOMAIN feed = DOMAIN Unfed /\ {feed.okay, feed.updating, feed.current} \subseteq BOOLEAN
    BY <1>1 DEF VideoTypes, Feeds, Unfed
  <2>3. Len(feed.queue) \in Nat /\ Pending(feed) \in Nat
    BY <1>1, LenProperties DEF VideoTypes, Feeds, Pending
  <2>4. Unaccounted \in Nat
    BY <1>1 DEF VideoTypes, Unaccounted
  <2>5. due \in 0 .. 2 * MaxFrames /\ told \in 0 .. 2 * MaxFrames
    <3>1. due <= 2 * MaxFrames
      BY <1>1, <2>3, VideoAssumption DEF VideoTypes, VideoBounded
    <3>2. told <= due
      BY <1>1, <2>4 DEF VideoTypes, VideoIdle, ReportsAddUp
    <3> QED
      BY <1>1, <3>1, <3>2, VideoAssumption DEF VideoTypes
  <2>6. report \in [frames : 0 .. MaxWindow, drops : 0 .. MaxFrames]
    BY <1>1, VideoAssumption DEF VideoTypes, VideoBounded
  <2>7. framesLoading \in -MaxFrames .. MaxFrames /\ loading \in 0 .. MaxFrames
        /\ lost \in 0 .. MaxFrames /\ inherited \in 0 .. MaxFrames
    BY <1>1, VideoAssumption DEF VideoTypes, VideoBounded
  <2> QED
    BY <1>1, <2>1, <2>2, <2>5, <2>6, <2>7 DEF VideoTypeOK, VideoTypes
<1> QED
  BY <1>2, <1>3, <1>4

LEMMA VideoStart == VideoInit => VideoInv
<1> SUFFICES ASSUME VideoInit PROVE VideoInv
  OBVIOUS
<1>1. <<>> \in Seq(Parts) /\ Len(<<>>) = 0
  BY EmptySeq
<1>2. Unfed \in Feeds
  BY <1>1 DEF Unfed, Feeds
<1>3. VideoTypes
  <2>1. NoReport \in [frames : 0 .. MaxWindow, drops : Nat]
    BY VideoAssumption DEF NoReport
  <2>2. feed \in Feeds /\ produced \in Seq(Parts) /\ report \in [frames : 0 .. MaxWindow, drops : Nat]
    BY <1>1, <1>2, <2>1 DEF VideoInit
  <2>3. streams \in 0 .. MaxStreams /\ frames \in 0 .. MaxFrames
    BY VideoAssumption DEF VideoInit
  <2> QED
    <3>1. /\ codec = "none" /\ reporting = FALSE /\ opened = FALSE /\ stuck = FALSE
          /\ framesLoading = 0 /\ loading = 0 /\ lost = 0 /\ inherited = 0 /\ due = 0 /\ told = 0
      BY DEF VideoInit
    <3>2. reporting \in BOOLEAN /\ opened \in BOOLEAN /\ stuck \in BOOLEAN
      BY <3>1
    <3>3. /\ codec \in {"none", "mjpeg", "vp8"} /\ framesLoading \in Int /\ loading \in Nat
          /\ lost \in Nat /\ inherited \in Nat /\ due \in Nat /\ told \in Nat
      BY <3>1
    <3> QED
      BY <2>2, <2>3, <3>2, <3>3 DEF VideoTypes
<1>4. VideoBounded /\ VideoIdle /\ LoadingCounted /\ ReportsAddUp
  BY <1>1 DEF VideoInit, VideoBounded, VideoIdle, LoadingCounted, ReportsAddUp, NoReport, Unfed, Pending
<1>5. Buffering /\ PiecesFed
  <2>1. <<>> \o <<>> = <<>>
    BY <1>1, ConcatEmptySeq
  <2> QED
    BY <2>1 DEF VideoInit, Buffering, PiecesFed, Given, Unfed
<1> QED
  BY <1>3, <1>4, <1>5 DEF VideoInv

(* A frame that is reported is shown once, be it in the report that goes out   *)
(* or in the next one.                                                         *)
LEMMA ReportedOnce ==
  ASSUME VideoTypes, NEW overdue \in BOOLEAN, FrameReported(overdue)
  PROVE  /\ report' \in [frames : 0 .. MaxWindow, drops : Nat] /\ told' \in Nat
         /\ report'.drops \in {0, report.drops}
         /\ ~reporting => report' = report /\ told' = told
         /\ reporting => told' + report'.frames + report'.drops = told + report.frames + report.drops + 1
<1>1. /\ report \in [frames : 0 .. MaxWindow, drops : Nat] /\ told \in Nat /\ reporting \in BOOLEAN
      /\ MaxWindow \in Nat
  BY VideoAssumption DEF VideoTypes
<1>2. CASE ~reporting
  BY <1>1, <1>2 DEF FrameReported
<1>3. CASE reporting /\ report' = NoReport /\ told' = told + report.frames + 1 + report.drops
  BY <1>1, <1>3 DEF NoReport
<1>4. CASE reporting /\ report.frames + 1 <= MaxWindow
           /\ report' = [report EXCEPT !.frames = @ + 1] /\ told' = told
  BY <1>1, <1>4
<1> QED
  BY <1>1, <1>2, <1>3, <1>4 DEF FrameReported

(* What the buffer and the queue hold after an append, and after a piece that  *)
(* is appended when the buffer is free and queued when it is not.              *)
LEMMA Appended ==
  ASSUME NEW f \in Feeds, NEW x \in Parts, NEW refused \in BOOLEAN
  PROVE  LET g == AppendVideo(f, x, refused)
         IN  /\ g \in Feeds /\ ~g.okay /\ g.queue = f.queue /\ (g.current <=> f.current)
             /\ refused => (g.updating <=> f.updating) /\ g.appended = f.appended
             /\ ~refused => g.updating /\ g.appended = Append(f.appended, x)
<1>1. Append(f.appended, x) \in Seq(Parts)
  BY AppendProperties DEF Feeds
<1>2. CASE refused
  BY <1>2 DEF AppendVideo, Feeds
<1>3. CASE ~refused
  BY <1>1, <1>3 DEF AppendVideo, Feeds
<1> QED
  BY <1>2, <1>3

LEMMA Pushed ==
  ASSUME NEW f \in Feeds, NEW x \in Parts, NEW refused \in BOOLEAN
  PROVE  LET g == Push(f, x, refused)
         IN  /\ g \in Feeds /\ ~g.okay
             /\ f.okay => /\ g.queue = f.queue /\ g.current
                          /\ refused => (g.updating <=> f.updating) /\ g.appended = f.appended
                          /\ ~refused => g.updating /\ g.appended = Append(f.appended, x)
             /\ ~f.okay => /\ (g.current <=> f.current) /\ (g.updating <=> f.updating)
                           /\ g.appended = f.appended /\ g.queue = Append(f.queue, x)
<1>1. CASE f.okay
  <2> DEFINE h == [f EXCEPT !.current = TRUE]
  <2>1. h \in Feeds /\ h.current /\ h.queue = f.queue /\ (h.updating <=> f.updating)
        /\ h.appended = f.appended
    BY DEF Feeds
  <2>2. Push(f, x, refused) = AppendVideo(h, x, refused)
    BY <1>1 DEF Push
  <2> HIDE DEF h
  <2> DEFINE g == AppendVideo(h, x, refused)
  <2>3. /\ g \in Feeds /\ ~g.okay /\ g.queue = h.queue /\ (g.current <=> h.current)
        /\ refused => (g.updating <=> h.updating) /\ g.appended = h.appended
        /\ ~refused => g.updating /\ g.appended = Append(h.appended, x)
    <3>1. \A k \in Feeds :
            LET j == AppendVideo(k, x, refused)
            IN  /\ j \in Feeds /\ ~j.okay /\ j.queue = k.queue /\ (j.current <=> k.current)
                /\ refused => (j.updating <=> k.updating) /\ j.appended = k.appended
                /\ ~refused => j.updating /\ j.appended = Append(k.appended, x)
      BY Appended
    <3> QED
      BY <2>1, <3>1
  <2> HIDE DEF g
  <2> QED
    BY <1>1, <2>1, <2>2, <2>3 DEF g
<1>2. CASE ~f.okay
  <2>1. Append(f.queue, x) \in Seq(Parts)
    BY AppendProperties DEF Feeds
  <2> QED
    BY <1>2, <2>1 DEF Push, Feeds
<1> QED
  BY <1>1, <1>2

LEMMA GivenMore ==
  ASSUME NEW f \in Feeds, NEW x \in Parts, NEW o \in BOOLEAN,
         o => f.appended # <<>>, f.okay => o /\ f.queue = <<>>
  PROVE  /\ Given(o, Push(f, x, FALSE)) = Given(o, f) \o <<x>>
         /\ Given(o, f) \in Seq(Parts)
         /\ o => /\ Push(f, x, FALSE).appended # <<>>
                 /\ Head(Push(f, x, FALSE).appended) = Head(f.appended)
<1>1. /\ f.appended \in Seq(Parts) /\ f.queue \in Seq(Parts) /\ <<x>> \in Seq(Parts) /\ <<>> \in Seq(Parts)
      /\ f.okay \in BOOLEAN
  BY DEF Feeds
<1> DEFINE t == IF o THEN Tail(f.appended) ELSE <<>>
           g == Push(f, x, FALSE)
<1>2. t \in Seq(Parts)
  BY <1>1, HeadTailProperties
<1>3. t \o f.queue \in Seq(Parts) /\ Given(o, f) = t \o f.queue
  BY <1>1, <1>2, ConcatProperties DEF Given
<1>4. Given(o, g) = (IF o THEN Tail(g.appended) ELSE <<>>) \o g.queue
  BY DEF Given
<1> HIDE DEF t
<1>5. CASE f.okay
  <2>1. g.queue = <<>> /\ g.appended = Append(f.appended, x)
    BY <1>5, Pushed
  <2> HIDE DEF g
  <2>2. Head(g.appended) = Head(f.appended) /\ Tail(g.appended) = Append(Tail(f.appended), x)
        /\ g.appended # <<>>
    <3>1. f.appended # <<>>
      BY <1>5
    <3>2. /\ Head(Append(f.appended, x)) = Head(f.appended)
          /\ Tail(Append(f.appended, x)) = Append(Tail(f.appended), x)
      BY <1>1, <3>1, HeadTailAppend
    <3>3. Append(f.appended, x) # <<>>
      BY <1>1, AppendProperties
    <3> QED
      BY <2>1, <3>2, <3>3
  <2>3. Tail(g.appended) = t \o <<x>>
    BY <1>2, <1>5, <2>2, AppendIsConcat DEF t
  <2>4. t \o <<x>> \in Seq(Parts)
    BY <1>1, <1>2, ConcatProperties
  <2>5. Given(o, g) = t \o <<x>> /\ Given(o, f) = t
    BY <1>2, <1>3, <1>4, <1>5, <2>1, <2>3, <2>4, ConcatEmptySeq DEF t
  <2> QED
    BY <1>3, <2>2, <2>5 DEF g
<1>6. CASE ~f.okay
  <2>1. g.appended = f.appended /\ g.queue = Append(f.queue, x)
    BY <1>6, Pushed
  <2> HIDE DEF g
  <2>2. g.queue = f.queue \o <<x>>
    BY <1>1, <2>1, AppendIsConcat
  <2>3. Given(o, g) = t \o (f.queue \o <<x>>)
    BY <1>4, <2>1, <2>2 DEF t
  <2>4. t \o (f.queue \o <<x>>) = (t \o f.queue) \o <<x>>
    <3>1. \A a, b, c \in Seq(Parts) : (a \o b) \o c = a \o (b \o c)
      BY ConcatAssociative
    <3> QED
      BY <1>1, <1>2, <3>1
  <2> QED
    BY <1>3, <2>1, <2>3, <2>4 DEF g
<1> QED
  BY <1>1, <1>3, <1>5, <1>6

LEMMA FeedKept ==
  ASSUME VideoInv, UNCHANGED vp8
  PROVE  Buffering' /\ PiecesFed'
BY DEF VideoInv, vp8, Buffering, PiecesFed, Given

(* The bounds hold as long as no frame is counted that was not before.        *)
LEMMA BoundsStay ==
  ASSUME VideoTypes, VideoBounded, UNCHANGED <<frames, inherited>>,
         Pending(feed)' = Pending(feed), Len(feed.queue)' = Len(feed.queue),
         loading' \in Nat, lost' \in Nat, loading' + lost' <= loading + lost,
         framesLoading' \in Int, -frames <= framesLoading', framesLoading' <= frames,
         report'.drops <= frames,
         due' \in Nat, due' <= due \/ due' <= loading + lost + Pending(feed)
  PROVE  VideoBounded'
<1> DEFINE L == Len(feed.queue)
           p == Pending(feed)
<1>1. /\ L \in Nat /\ p \in Nat /\ loading \in Nat /\ lost \in Nat /\ due \in Nat /\ frames \in Nat
  BY LenProperties, VideoAssumption DEF VideoTypes, Feeds, Pending
<1>2. /\ loading + lost <= frames /\ inherited <= frames
      /\ p + L + loading + lost <= 2 * frames /\ due + L <= 2 * frames
  BY DEF VideoBounded
<1>3. PICK n \in Nat : n = loading'
  OBVIOUS
<1>4. PICK k \in Nat : k = lost'
  OBVIOUS
<1>5. PICK e \in Nat : e = due'
  OBVIOUS
<1>6. n + k <= loading + lost /\ (e <= due \/ e <= loading + lost + p)
  BY <1>3, <1>4, <1>5
<1>7. Pending(feed)' = p /\ Len(feed.queue)' = L
  OBVIOUS
<1> HIDE DEF L, p
<1>8. n + k <= frames /\ p + L + n + k <= 2 * frames /\ e + L <= 2 * frames
  BY <1>1, <1>2, <1>6
<1> QED
  BY <1>2, <1>3, <1>4, <1>5, <1>7, <1>8 DEF VideoBounded

(* Streams come and go; a report is asked for. *)
LEMMA StreamSteps ==
  ASSUME VideoInv,
         (\E c \in {"mjpeg", "vp8"} : StreamCreate(c)) \/ StreamDestroy \/ ActivateReport
  PROVE  VideoInv'
<1>1. /\ VideoTypes /\ VideoBounded /\ VideoIdle
      /\ LoadingCounted /\ ReportsAddUp /\ Buffering /\ PiecesFed
  BY DEF VideoInv
<1>2. Len(feed.queue) \in Nat
  BY <1>1, LenProperties DEF VideoTypes, Feeds
<1>3. NoReport \in [frames : 0 .. MaxWindow, drops : Nat] /\ NoReport.drops = 0 /\ NoReport.frames = 0
  BY VideoAssumption DEF NoReport
<1>4. ASSUME NEW c \in {"mjpeg", "vp8"}, StreamCreate(c) PROVE VideoInv'
  <2>1. /\ codec = "none" /\ codec' = c /\ streams' \in 0 .. MaxStreams
        /\ framesLoading' = 0 /\ lost' = 0 /\ inherited' = loading
        /\ UNCHANGED <<loading, vp8, opened, feed, produced, stuck, reporting, report, due, told, frames>>
    BY <1>1, <1>4, VideoAssumption DEF StreamCreate, VideoTypes, vp8, reports
  <2>2. VideoTypes'
    BY <1>1, <2>1 DEF VideoTypes
  <2>3. VideoBounded'
    <3>1. frames \in Nat /\ loading \in Nat /\ lost \in Nat
      BY <1>1, VideoAssumption DEF VideoTypes
    <3>2. Pending(feed) \in Nat /\ Pending(feed)' = Pending(feed) /\ Len(feed.queue)' = Len(feed.queue)
      BY <1>1, <2>1 DEF VideoTypes, Pending
    <3>3. /\ loading + lost <= frames /\ report.drops <= frames
          /\ Pending(feed) + Len(feed.queue) + loading + lost <= 2 * frames
          /\ due + Len(feed.queue) <= 2 * frames
      BY <1>1 DEF VideoBounded
    <3>4. /\ loading + 0 <= frames /\ -frames <= 0 /\ 0 <= frames
          /\ Pending(feed) + Len(feed.queue) + loading + 0 <= 2 * frames
      BY <1>2, <3>1, <3>2, <3>3
    <3> QED
      BY <2>1, <3>1, <3>2, <3>3, <3>4 DEF VideoBounded
  <2>4. VideoIdle' /\ LoadingCounted' /\ ReportsAddUp'
    BY <1>1, <2>1 DEF VideoTypes, VideoIdle, LoadingCounted, ReportsAddUp
  <2> QED
    BY <2>1, <2>2, <2>3, <2>4, FeedKept DEF VideoInv
<1>5. ASSUME StreamDestroy PROVE VideoInv'
  <2>1. /\ codec' = "none" /\ opened' = FALSE /\ feed' = Unfed /\ produced' = <<>> /\ stuck' = FALSE
        /\ reporting' = FALSE /\ report' = NoReport /\ due' = 0 /\ told' = 0
        /\ UNCHANGED <<framesLoading, loading, lost, inherited, streams, frames>>
    BY <1>5 DEF StreamDestroy, mjpeg
  <2>2. <<>> \in Seq(Parts) /\ Len(<<>>) = 0 /\ <<>> \o <<>> = <<>>
    BY EmptySeq, ConcatEmptySeq
  <2>3. Unfed \in Feeds
    BY <2>2 DEF Unfed, Feeds
  <2>4. VideoTypes'
    BY <1>1, <1>3, <2>1, <2>2, <2>3 DEF VideoTypes
  <2>5. VideoBounded' /\ VideoIdle' /\ LoadingCounted' /\ ReportsAddUp'
    <3>1. frames \in Nat /\ loading \in Nat /\ lost \in Nat
      BY <1>1, VideoAssumption DEF VideoTypes
    <3>2. Pending(feed)' = 0 /\ Len(feed'.queue) = 0
      BY <2>1, <2>2 DEF Pending, Unfed
    <3>3. VideoBounded'
      BY <1>1, <1>3, <2>1, <3>1, <3>2 DEF VideoBounded
    <3> QED
      BY <2>1, <3>3 DEF VideoIdle, LoadingCounted, ReportsAddUp
  <2>6. Buffering' /\ PiecesFed'
    BY <2>1, <2>2 DEF Buffering, PiecesFed, Given, Unfed
  <2> QED
    BY <2>4, <2>5, <2>6 DEF VideoInv
<1>6. ASSUME ActivateReport PROVE VideoInv'
  <2>1. /\ codec # "none" /\ reporting' = TRUE /\ report' = NoReport /\ due' = Unaccounted /\ told' = 0
        /\ UNCHANGED <<codec, framesLoading, loading, lost, inherited, opened, feed, produced, stuck>>
        /\ UNCHANGED <<vp8, streams, frames>>
    BY <1>6 DEF ActivateReport, mjpeg, vp8
  <2>2. /\ frames \in Nat /\ loading \in Nat /\ lost \in Nat
        /\ feed.current \in BOOLEAN /\ feed.updating \in BOOLEAN /\ stuck \in BOOLEAN
    BY <1>1, VideoAssumption DEF VideoTypes, Feeds
  <2>3. Unaccounted \in Nat /\ Unaccounted <= loading + lost + Pending(feed) /\ Unaccounted' = Unaccounted
    BY <2>1, <2>2 DEF Unaccounted, Pending
  <2>4. VideoTypes'
    BY <1>1, <1>3, <2>1, <2>3 DEF VideoTypes
  <2>5. VideoBounded'
    <3>1. Pending(feed) \in Nat /\ Pending(feed)' = Pending(feed) /\ Len(feed.queue)' = Len(feed.queue)
      BY <2>1 DEF Pending
    <3>2. -frames <= framesLoading /\ framesLoading <= frames /\ NoReport.drops <= frames
      BY <1>1, <1>3, <2>2 DEF VideoBounded
    <3>3. framesLoading \in Int /\ loading + lost <= loading + lost
      BY <1>1, <2>2 DEF VideoTypes
    <3> QED
      BY <1>1, <2>1, <2>2, <2>3, <3>1, <3>2, <3>3, BoundsStay
  <2>6. VideoIdle' /\ LoadingCounted' /\ ReportsAddUp'
    BY <1>1, <1>3, <2>1, <2>3 DEF VideoIdle, LoadingCounted, ReportsAddUp
  <2> QED
    BY <2>1, <2>4, <2>5, <2>6, FeedKept DEF VideoInv
<1> QED
  BY <1>4, <1>5, <1>6

(* MJPEG frames are sent, loaded, or never load. *)
LEMMA MjpegSteps ==
  ASSUME VideoInv,
         \/ \E tardy \in BOOLEAN : MjpegFrame(tardy)
         \/ \E overdue \in BOOLEAN : MjpegLoaded(overdue)
         \/ MjpegFails
  PROVE  VideoInv'
<1>1. /\ VideoTypes /\ VideoBounded /\ VideoIdle
      /\ LoadingCounted /\ ReportsAddUp /\ Buffering /\ PiecesFed
  BY DEF VideoInv
<1>2. Len(feed.queue) \in Nat /\ Pending(feed) \in Nat /\ Held \in Nat
  BY <1>1, LenProperties DEF VideoTypes, Feeds, Pending, Held
<1>3. /\ frames \in Nat /\ loading \in Nat /\ lost \in Nat /\ inherited \in Nat /\ framesLoading \in Int
      /\ report \in [frames : 0 .. MaxWindow, drops : Nat] /\ due \in Nat /\ told \in Nat
      /\ reporting \in BOOLEAN /\ MaxFrames \in Nat
  BY <1>1, VideoAssumption DEF VideoTypes
<1>4. ASSUME UNCHANGED vp8
      PROVE  /\ UNCHANGED <<opened, feed, produced, stuck>> /\ Buffering' /\ PiecesFed'
             /\ Pending(feed)' = Pending(feed) /\ Len(feed.queue)' = Len(feed.queue)
             /\ Unaccounted = loading + lost + Held /\ Unaccounted' = loading' + lost' + Held
  <2>1. UNCHANGED <<opened, feed, produced, stuck>>
    BY <1>4 DEF vp8
  <2>2. Buffering' /\ PiecesFed'
    BY <1>4, FeedKept
  <2>3. Unaccounted = loading + lost + Held
    BY DEF Unaccounted, Held
  <2>4. Unaccounted' = loading' + lost' + Held
    BY <2>1 DEF Unaccounted, Held
  <2> QED
    BY <2>1, <2>2, <2>3, <2>4 DEF Pending
<1>5. ASSUME NEW tardy \in BOOLEAN, MjpegFrame(tardy) PROVE VideoInv'
  <2>1. /\ codec = "mjpeg" /\ frames < MaxFrames /\ frames' = frames + 1
        /\ due' = IF reporting THEN due + 1 ELSE due
        /\ UNCHANGED <<codec, reporting, told, streams, lost, inherited>> /\ UNCHANGED vp8
        /\ \/ /\ report' = IF reporting THEN [report EXCEPT !.drops = @ + 1] ELSE report
              /\ UNCHANGED <<framesLoading, loading>>
           \/ /\ framesLoading' = framesLoading + 1 /\ loading' = loading + 1
              /\ report' = report
    BY <1>5 DEF MjpegFrame, Frame, Due, mjpeg
  <2>2. /\ UNCHANGED <<opened, feed, produced, stuck>> /\ Buffering' /\ PiecesFed'
        /\ Pending(feed)' = Pending(feed) /\ Len(feed.queue)' = Len(feed.queue)
        /\ Unaccounted = loading + lost + Held /\ Unaccounted' = loading' + lost' + Held
    BY <1>4, <2>1
  <2>3. PICK d \in 0 .. 1 : d \in 0 .. 1 /\ (reporting => d = 1) /\ (~reporting => d = 0)
    BY <1>3
  <2>4. PICK n \in 0 .. 1 : /\ n \in 0 .. 1 /\ framesLoading' = framesLoading + n /\ loading' = loading + n
                            /\ n = 1 => report' = report
                            /\ n = 0 /\ ~reporting => report' = report
                            /\ n = 0 /\ reporting => report' = [report EXCEPT !.drops = @ + 1]
    <3>1. CASE framesLoading' = framesLoading + 1 /\ loading' = loading + 1 /\ report' = report
      BY <3>1
    <3>2. CASE /\ report' = IF reporting THEN [report EXCEPT !.drops = @ + 1] ELSE report
               /\ UNCHANGED <<framesLoading, loading>>
      BY <1>3, <3>2
    <3> QED
      BY <2>1, <3>1, <3>2
  <2>5. /\ due' = due + d /\ frames' = frames + 1 /\ frames + 1 <= MaxFrames
        /\ codec' = codec /\ reporting' = reporting /\ told' = told /\ streams' = streams
        /\ lost' = lost /\ inherited' = inherited
    BY <1>3, <2>1, <2>3
  <2>6. /\ report' \in [frames : 0 .. MaxWindow, drops : Nat] /\ report'.frames = report.frames
        /\ report'.drops \in {report.drops, report.drops + 1}
        /\ reporting => report'.drops = report.drops + 1 - n
        /\ ~reporting => report' = report
    BY <1>3, <2>4
  <2>7. VideoTypes'
    <3>1. frames' \in 0 .. MaxFrames /\ loading' \in Nat /\ framesLoading' \in Int /\ due' \in Nat
      BY <1>3, <2>4, <2>5
    <3> QED
      BY <1>1, <2>2, <2>5, <2>6, <3>1 DEF VideoTypes
  <2>8. VideoBounded'
    <3>1. /\ loading + lost <= frames /\ inherited <= frames
          /\ -frames <= framesLoading /\ framesLoading <= frames /\ report.drops <= frames
          /\ Pending(feed) + Len(feed.queue) + loading + lost <= 2 * frames
          /\ due + Len(feed.queue) <= 2 * frames
      BY <1>1 DEF VideoBounded
    <3>2. report'.drops <= frames'
      BY <1>3, <2>5, <2>6, <3>1
    <3>3. /\ n \in {0, 1} /\ framesLoading' = framesLoading + n /\ loading' = loading + n
          /\ d \in {0, 1} /\ due' = due + d /\ frames' = frames + 1 /\ lost' = lost /\ inherited' = inherited
      BY <2>3, <2>4, <2>5
    <3>4. /\ frames \in Nat /\ loading \in Nat /\ lost \in Nat /\ inherited \in Nat
          /\ framesLoading \in Int /\ due \in Nat
      BY <1>3
    <3>5. /\ loading' + lost' <= frames' /\ inherited' <= frames'
          /\ -frames' <= framesLoading' /\ framesLoading' <= frames'
      BY <3>1, <3>3, <3>4
    <3> DEFINE L == Len(feed.queue)
                p == Pending(feed)
    <3>6. /\ L \in Nat /\ p \in Nat
          /\ p + L + loading + lost <= 2 * frames /\ due + L <= 2 * frames
      BY <1>2, <3>1
    <3>7. Pending(feed)' = p /\ Len(feed.queue)' = L
      BY <2>2
    <3> HIDE DEF L, p
    <3>8. p + L + loading' + lost' <= 2 * frames'
      BY <3>3, <3>4, <3>6
    <3>9. due' + L <= 2 * frames'
      BY <3>3, <3>4, <3>6
    <3> QED
      BY <3>2, <3>5, <3>7, <3>8, <3>9 DEF VideoBounded
  <2>9. VideoIdle'
    BY <1>1, <2>1, <2>5, <2>6, <2>2 DEF VideoIdle
  <2>10. LoadingCounted'
    BY <1>1, <1>3, <2>1, <2>4, <2>5 DEF LoadingCounted
  <2>11. ReportsAddUp'
    <3> SUFFICES ASSUME reporting PROVE due' = told' + report'.frames + report'.drops + Unaccounted'
      BY <2>5 DEF ReportsAddUp
    <3>1. due = told + report.frames + report.drops + Unaccounted
      BY <1>1 DEF ReportsAddUp
    <3>2. /\ n \in {0, 1} /\ loading' = loading + n /\ due' = due + 1 /\ lost' = lost /\ told' = told
          /\ report'.frames = report.frames /\ report'.drops = report.drops + 1 - n
      BY <2>3, <2>4, <2>5, <2>6
    <3>3. report.frames \in Nat /\ report.drops \in Nat /\ told \in Nat /\ loading \in Nat /\ lost \in Nat
      BY <1>3
    <3>4. due + 1 = told + report.frames + (report.drops + 1 - n) + ((loading + n) + lost + Held)
      <4>1. Held \in Nat /\ n \in Nat /\ due = told + report.frames + report.drops + (loading + lost + Held)
        BY <1>2, <2>2, <2>4, <3>1
      <4> HIDE DEF Held
      <4> QED
        BY <3>3, <4>1
    <3> QED
      BY <2>2, <3>2, <3>4
  <2> QED
    BY <2>2, <2>7, <2>8, <2>9, <2>10, <2>11 DEF VideoInv
<1>6. ASSUME NEW overdue \in BOOLEAN, MjpegLoaded(overdue) PROVE VideoInv'
  <2>1. /\ loading > 0 /\ loading' = loading - 1
        /\ framesLoading' = IF codec = "mjpeg" THEN framesLoading - 1 ELSE framesLoading
        /\ FrameReported(overdue)
        /\ UNCHANGED <<codec, lost, inherited, reporting, due, streams, frames>> /\ UNCHANGED vp8
    BY <1>6 DEF MjpegLoaded
  <2>2. /\ UNCHANGED <<opened, feed, produced, stuck>> /\ Buffering' /\ PiecesFed'
        /\ Pending(feed)' = Pending(feed) /\ Len(feed.queue)' = Len(feed.queue)
        /\ Unaccounted = loading + lost + Held /\ Unaccounted' = loading' + lost' + Held
    BY <1>4, <2>1
  <2>3. /\ report' \in [frames : 0 .. MaxWindow, drops : Nat] /\ told' \in Nat
        /\ report'.drops \in {0, report.drops}
        /\ ~reporting => report' = report /\ told' = told
        /\ reporting => told' + report'.frames + report'.drops = told + report.frames + report.drops + 1
    BY <1>1, <2>1, ReportedOnce
  <2>4. VideoTypes'
    BY <1>1, <1>3, <2>2, <2>1, <2>3 DEF VideoTypes
  <2>5. VideoBounded'
    <3>1. codec = "mjpeg" => -frames <= framesLoading - 1
      BY <1>1, <1>3, <2>1 DEF VideoBounded, LoadingCounted
    <3>2. report'.drops <= frames
      BY <1>1, <1>3, <2>3 DEF VideoBounded
    <3>3. -frames <= framesLoading /\ framesLoading <= frames /\ due <= due
      BY <1>1, <1>3 DEF VideoBounded
    <3>4. framesLoading' \in Int /\ -frames <= framesLoading' /\ framesLoading' <= frames
      BY <1>3, <2>1, <3>1, <3>3
    <3>5. loading' \in Nat /\ loading' + lost <= loading + lost
      BY <1>3, <2>1
    <3> QED
      BY <1>1, <1>3, <2>1, <2>2, <3>2, <3>3, <3>4, <3>5, BoundsStay
  <2>6. VideoIdle' /\ LoadingCounted'
    BY <1>1, <1>3, <2>2, <2>1, <2>3 DEF VideoIdle, LoadingCounted
  <2>7. ReportsAddUp'
    <3> SUFFICES ASSUME reporting PROVE due' = told' + report'.frames + report'.drops + Unaccounted'
      BY <2>1 DEF ReportsAddUp
    <3>1. due = told + report.frames + report.drops + Unaccounted
      BY <1>1 DEF ReportsAddUp
    <3>2. Unaccounted' = Unaccounted - 1 /\ Unaccounted \in Nat
      BY <1>2, <1>3, <2>1, <2>2
    <3>3. due' = due /\ report'.frames \in Nat /\ report'.drops \in Nat /\ report.frames \in Nat
          /\ report.drops \in Nat
      BY <1>3, <2>1, <2>3
    <3> QED
      BY <1>3, <2>3, <3>1, <3>2, <3>3
  <2> QED
    BY <2>2, <2>1, <2>4, <2>5, <2>6, <2>7 DEF VideoInv
<1>7. ASSUME MjpegFails PROVE VideoInv'
  <2>1. /\ loading > 0 /\ loading' = loading - 1 /\ lost' = lost + 1
        /\ UNCHANGED <<codec, framesLoading, inherited, reporting, report, due, told, streams, frames>>
        /\ UNCHANGED vp8
    BY <1>7 DEF MjpegFails, reports
  <2>2. /\ UNCHANGED <<opened, feed, produced, stuck>> /\ Buffering' /\ PiecesFed'
        /\ Pending(feed)' = Pending(feed) /\ Len(feed.queue)' = Len(feed.queue)
        /\ Unaccounted = loading + lost + Held /\ Unaccounted' = loading' + lost' + Held
    BY <1>4, <2>1
  <2>3. VideoTypes' /\ VideoBounded'
    <3>1. loading' \in Nat /\ lost' \in Nat /\ loading' + lost' <= loading + lost /\ due <= due
      BY <1>3, <2>1
    <3>2. VideoTypes'
      BY <1>1, <2>1, <2>2, <3>1 DEF VideoTypes
    <3>3. -frames <= framesLoading /\ framesLoading <= frames /\ report.drops <= frames
      BY <1>1 DEF VideoBounded
    <3> QED
      BY <1>1, <1>3, <2>1, <2>2, <3>1, <3>2, <3>3, BoundsStay
  <2>4. VideoIdle' /\ LoadingCounted' /\ ReportsAddUp'
    BY <1>1, <1>3, <2>2, <2>1 DEF VideoIdle, LoadingCounted, ReportsAddUp
  <2> QED
    BY <2>2, <2>1, <2>3, <2>4 DEF VideoInv
<1> QED
  BY <1>5, <1>6, <1>7

(* The media source opens, and the buffer gets the header. *)
LEMMA OpenStep ==
  ASSUME VideoInv, VideoSourceOpen
  PROVE  VideoInv'
<1>1. /\ VideoTypes /\ VideoBounded /\ VideoIdle
      /\ LoadingCounted /\ ReportsAddUp /\ Buffering /\ PiecesFed
  BY DEF VideoInv
<1>2. /\ codec = "vp8" /\ ~opened /\ opened' = TRUE
      /\ feed' = AppendVideo(feed, VideoHeader, FALSE)
      /\ UNCHANGED <<codec, framesLoading, loading, lost, inherited, produced, stuck>>
      /\ UNCHANGED <<reporting, report, due, told, streams, frames>>
  BY DEF VideoSourceOpen, mjpeg, reports
<1>3. feed \in Feeds /\ VideoHeader \in Parts
  BY <1>1 DEF VideoTypes, Parts
<1>4. /\ feed' \in Feeds /\ ~feed'.okay /\ feed'.queue = feed.queue /\ (feed'.current <=> feed.current)
      /\ feed'.updating /\ feed'.appended = Append(feed.appended, VideoHeader)
  BY <1>2, <1>3, Appended
<1>5. feed.appended = <<>> /\ ~feed.current /\ ~stuck
  BY <1>1, <1>2, <1>3 DEF Buffering, VideoTypes, Feeds
<1>6. <<>> \in Seq(Parts) /\ feed.queue \in Seq(Parts) /\ <<>> \o feed.queue = feed.queue
  BY <1>3, ConcatEmptySeq DEF Feeds
<1>7. feed'.appended # <<>> /\ Head(feed'.appended) = VideoHeader /\ Tail(feed'.appended) = <<>>
  BY <1>3, <1>4, <1>5, <1>6, AppendProperties, HeadTailAppend
<1>8. VideoTypes'
  BY <1>1, <1>2, <1>4 DEF VideoTypes
<1>9. VideoBounded' /\ VideoIdle' /\ LoadingCounted' /\ ReportsAddUp'
  <2>1. Pending(feed)' = Pending(feed) /\ Len(feed.queue)' = Len(feed.queue) /\ Unaccounted' = Unaccounted
    BY <1>2, <1>4, <1>5 DEF Pending, Unaccounted
  <2> QED
    BY <1>1, <1>2, <2>1 DEF VideoBounded, VideoIdle, LoadingCounted, ReportsAddUp
<1>10. Buffering'
  BY <1>2, <1>4, <1>5, <1>7 DEF Buffering
<1>11. PiecesFed'
  <2>1. Given(opened, feed)' = feed.queue /\ Given(opened, feed) = feed.queue
    BY <1>2, <1>4, <1>6, <1>7 DEF Given
  <2> QED
    BY <1>1, <1>2, <2>1 DEF PiecesFed
<1> QED
  BY <1>8, <1>9, <1>10, <1>11 DEF VideoInv

(* An append ends: the piece is reported, and the next one follows it. *)
LEMMA UpdateEndStep ==
  ASSUME VideoInv, NEW overdue \in BOOLEAN, NEW refused \in BOOLEAN, VideoUpdateEnd(overdue, refused)
  PROVE  VideoInv'
<1>1. /\ VideoTypes /\ VideoBounded /\ VideoIdle
      /\ LoadingCounted /\ ReportsAddUp /\ Buffering /\ PiecesFed
  BY DEF VideoInv
<1>2. /\ opened /\ feed.updating /\ (refused => feed.queue # <<>>)
      /\ IF feed.current THEN FrameReported(overdue) ELSE UNCHANGED <<report, told>>
      /\ stuck' = (stuck \/ refused)
      /\ UNCHANGED <<codec, framesLoading, loading, lost, inherited, opened, produced>>
      /\ UNCHANGED <<reporting, streams, frames>>
  BY DEF VideoUpdateEnd, mjpeg
<1>3. /\ feed \in Feeds /\ ~stuck /\ (stuck' <=> refused) /\ codec = "vp8" /\ opened'
      /\ feed.appended \in Seq(Parts) /\ feed.queue \in Seq(Parts) /\ feed.appended # <<>>
      /\ Head(feed.appended) = VideoHeader
  BY <1>1, <1>2 DEF VideoTypes, VideoIdle, Buffering, Feeds
<1>4. /\ frames \in Nat /\ loading \in Nat /\ lost \in Nat /\ due \in Nat /\ told \in Nat
      /\ report \in [frames : 0 .. MaxWindow, drops : Nat] /\ reporting \in BOOLEAN
      /\ Len(feed.queue) \in Nat
  BY <1>1, <1>3, LenProperties, VideoAssumption DEF VideoTypes
<1>5. /\ report' \in [frames : 0 .. MaxWindow, drops : Nat] /\ told' \in Nat
      /\ report'.drops \in {0, report.drops}
      /\ ~reporting => report' = report /\ told' = told
      /\ reporting => told' + report'.frames + report'.drops
                        = told + report.frames + report.drops + Pending(feed)
  <2>1. CASE feed.current
    BY <1>1, <1>2, <2>1, ReportedOnce DEF Pending
  <2>2. CASE ~feed.current
    BY <1>2, <1>4, <2>2 DEF Pending
  <2> QED
    BY <2>1, <2>2
<1>6. Unaccounted = loading + lost + Pending(feed)
  BY <1>2, <1>3 DEF Unaccounted, Pending
<1> DEFINE d == IF feed.queue = <<>> THEN 0 ELSE 1
<1>7. d \in {0, 1} /\ (feed.queue = <<>> <=> d = 0) /\ (feed.queue # <<>> <=> d = 1)
  OBVIOUS
<1> HIDE DEF d
<1>8. ASSUME d = 0
      PROVE  /\ due' = due /\ feed' \in Feeds /\ feed'.okay /\ ~feed'.updating
             /\ feed'.queue = feed.queue /\ (feed'.current <=> feed.current)
             /\ feed'.appended = feed.appended /\ ~refused
  <2>1. feed.queue = <<>>
    BY <1>7, <1>8
  <2>2. feed' = [feed EXCEPT !.updating = FALSE, !.okay = TRUE] /\ Due(0) /\ ~refused
    BY <1>2, <2>1 DEF VideoUpdateEnd
  <2>3. /\ feed' \in Feeds /\ feed'.okay /\ ~feed'.updating /\ feed'.queue = feed.queue
        /\ (feed'.current <=> feed.current) /\ feed'.appended = feed.appended
    BY <1>3, <2>2 DEF Feeds
  <2>4. due' = due
    BY <1>4, <2>2 DEF Due
  <2> QED
    BY <2>2, <2>3, <2>4
<1>9. ASSUME d = 1
      PROVE  /\ due' = IF reporting THEN due + 1 ELSE due
             /\ feed' \in Feeds /\ ~feed'.okay /\ feed'.queue = Tail(feed.queue)
             /\ feed'.current /\ feed.queue # <<>>
             /\ refused => ~feed'.updating /\ feed'.appended = feed.appended
             /\ ~refused => feed'.updating /\ feed'.appended = Append(feed.appended, Head(feed.queue))
  <2>1. feed.queue # <<>>
    BY <1>7, <1>9
  <2> DEFINE h == [feed EXCEPT !.updating = FALSE, !.queue = Tail(@), !.current = TRUE]
             x == Head(feed.queue)
             g == AppendVideo(h, x, refused)
  <2>2. x \in Parts /\ Tail(feed.queue) \in Seq(Parts)
    BY <1>3, <2>1, HeadTailProperties
  <2>3. /\ h \in Feeds /\ ~h.updating /\ h.queue = Tail(feed.queue) /\ h.current
        /\ h.appended = feed.appended
    BY <1>3, <2>2 DEF Feeds
  <2>4. feed' = g /\ Due(1)
    BY <2>1 DEF VideoUpdateEnd
  <2> HIDE DEF h, x
  <2>5. \A k \in Feeds, y \in Parts :
          LET n == AppendVideo(k, y, refused)
          IN  /\ n \in Feeds /\ ~n.okay /\ n.queue = k.queue /\ (n.current <=> k.current)
              /\ refused => (n.updating <=> k.updating) /\ n.appended = k.appended
              /\ ~refused => n.updating /\ n.appended = Append(k.appended, y)
    BY Appended
  <2>6. /\ g \in Feeds /\ ~g.okay /\ g.queue = h.queue /\ (g.current <=> h.current)
        /\ refused => (g.updating <=> h.updating) /\ g.appended = h.appended
        /\ ~refused => g.updating /\ g.appended = Append(h.appended, x)
    BY <2>2, <2>3, <2>5
  <2> HIDE DEF g
  <2>7. due' = IF reporting THEN due + 1 ELSE due
    BY <2>4 DEF Due
  <2> QED
    BY <2>1, <2>3, <2>4, <2>6, <2>7 DEF x
<1>10. /\ (reporting => due' = due + d) /\ (~reporting => due' = due)
       /\ feed' \in Feeds /\ (feed'.okay <=> d = 0) /\ (feed'.updating <=> d = 1 /\ ~refused)
       /\ (d = 0 => (feed'.current <=> feed.current)) /\ (d = 1 => feed'.current)
       /\ d = 0 => ~refused
  <2>1. CASE d = 0
    BY <1>4, <1>8, <2>1
  <2>2. CASE d = 1
    <3>1. refused \/ ~refused
      OBVIOUS
    <3> QED
      BY <1>4, <1>9, <2>2, <3>1
  <2> QED
    BY <1>7, <2>1, <2>2
<1>11. VideoTypes'
  <2>1. due' \in Nat
    BY <1>4, <1>10, <1>7
  <2>2. stuck' \in BOOLEAN
    BY <1>2
  <2> QED
    BY <1>1, <1>2, <1>5, <1>10, <2>1, <2>2 DEF VideoTypes
<1>12. /\ Len(feed.queue)' = Len(feed.queue) - d
       /\ Pending(feed)' \in {0, 1} /\ Pending(feed) \in {0, 1}
       /\ (d = 1 => Pending(feed)' = 1) /\ (d = 0 => Pending(feed)' = Pending(feed))
       /\ d = 1 => Len(feed.queue) > 0
  <2>1. d = 1 => Len(feed'.queue) = Len(feed.queue) - 1
    BY <1>3, <1>9, HeadTailProperties
  <2>2. d = 0 => Len(feed'.queue) = Len(feed.queue) - 0
    BY <1>4, <1>8
  <2>3. Len(feed.queue)' = Len(feed.queue) - d
    BY <1>7, <2>1, <2>2
  <2>4. /\ Pending(feed)' \in {0, 1} /\ Pending(feed) \in {0, 1}
        /\ (d = 1 => Pending(feed)' = 1) /\ (d = 0 => Pending(feed)' = Pending(feed))
    BY <1>10 DEF Pending
  <2>5. d = 1 => Len(feed.queue) > 0
    BY <1>3, <1>9, EmptySeq
  <2> QED
    BY <2>3, <2>4, <2>5
<1>13. VideoBounded'
  <2>1. /\ loading + lost <= frames /\ inherited <= frames
        /\ -frames <= framesLoading /\ framesLoading <= frames /\ report.drops <= frames
        /\ Pending(feed) + Len(feed.queue) + loading + lost <= 2 * frames
        /\ due + Len(feed.queue) <= 2 * frames
    BY <1>1 DEF VideoBounded
  <2>2. report'.drops <= frames
    <3>1. report'.drops = 0 \/ report'.drops = report.drops
      BY <1>5
    <3>2. 0 <= frames
      BY <1>4
    <3> QED
      BY <2>1, <3>1, <3>2
  <2> DEFINE L == Len(feed.queue)
             p == Pending(feed)
             L2 == Len(feed.queue)'
             p2 == Pending(feed)'
  <2>3. L \in Nat /\ p \in {0, 1} /\ L2 = L - d /\ p2 \in {0, 1} /\ (d = 0 => p2 = p) /\ d \in {0, 1}
    BY <1>4, <1>7, <1>12
  <2>4. p + L + loading + lost <= 2 * frames /\ due + L <= 2 * frames
    BY <2>1
  <2>5. (due' = due \/ due' = due + d) /\ loading \in Nat /\ lost \in Nat /\ due \in Nat /\ frames \in Nat
    BY <1>4, <1>10
  <2> HIDE DEF L, p, L2, p2
  <2>6. p2 + L2 + loading + lost <= 2 * frames
    BY <2>3, <2>4, <2>5
  <2>7. due' + L2 <= 2 * frames
    BY <2>3, <2>4, <2>5
  <2> QED
    BY <1>2, <2>1, <2>2, <2>6, <2>7 DEF VideoBounded, L2, p2
<1>14. VideoIdle' /\ LoadingCounted'
  <2>1. ~reporting => due' = due
    BY <1>10
  <2> QED
    BY <1>1, <1>2, <1>3, <1>5, <2>1 DEF VideoIdle, LoadingCounted
<1>15. ReportsAddUp'
  <2> SUFFICES ASSUME reporting PROVE due' = told' + report'.frames + report'.drops + Unaccounted'
    BY <1>2 DEF ReportsAddUp
  <2>1. due = told + report.frames + report.drops + loading + lost + Pending(feed)
    BY <1>1, <1>4, <1>6, <1>12 DEF ReportsAddUp
  <2>2. due' = due + d
    BY <1>10
  <2>3. Unaccounted' = loading + lost + d
    <3>1. feed'.updating \/ stuck' <=> d = 1
      BY <1>3, <1>10, <1>7
    <3>2. /\ d = 1 => feed'.current
          /\ (feed'.current /\ (feed'.updating \/ stuck')) <=> d = 1
      BY <1>10, <3>1
    <3> QED
      BY <1>2, <1>7, <3>2 DEF Unaccounted
  <2>4. told' + report'.frames + report'.drops = told + report.frames + report.drops + Pending(feed)
    BY <1>5
  <2>5. d \in {0, 1} /\ Pending(feed) \in {0, 1}
    BY <1>7, <1>12
  <2>6. report.frames \in Nat /\ report.drops \in Nat /\ report'.frames \in Nat /\ report'.drops \in Nat
    BY <1>4, <1>5
  <2>7. told \in Nat /\ told' \in Nat /\ loading \in Nat /\ lost \in Nat
    BY <1>4, <1>5
  <2> DEFINE p == Pending(feed)
  <2>8. due = told + report.frames + report.drops + loading + lost + p /\ p \in {0, 1}
        /\ told' + report'.frames + report'.drops = told + report.frames + report.drops + p
    BY <2>1, <2>4, <2>5
  <2> HIDE DEF p
  <2> QED
    BY <2>2, <2>3, <2>5, <2>6, <2>7, <2>8
<1>16. Buffering'
  <2>1. ~refused /\ d = 1 => /\ feed'.appended # <<>> /\ Head(feed'.appended) = Head(feed.appended)
    <3>1. d = 1 => Head(feed.queue) \in Parts
      BY <1>3, <1>9, HeadTailProperties
    <3>2. d = 1 => /\ Append(feed.appended, Head(feed.queue)) # <<>>
                   /\ Head(Append(feed.appended, Head(feed.queue))) = Head(feed.appended)
      BY <1>3, <3>1, AppendProperties, HeadTailAppend
    <3> QED
      BY <1>9, <3>2
  <2>2. feed'.appended # <<>> /\ Head(feed'.appended) = VideoHeader
    BY <1>3, <1>7, <1>8, <1>9, <2>1
  <2>3. d = 0 => feed'.queue = <<>>
    BY <1>7, <1>8
  <2> QED
    BY <1>3, <1>7, <1>10, <2>2, <2>3 DEF Buffering
<1>17. PiecesFed'
  <2> SUFFICES ASSUME ~refused PROVE Given(opened, feed)' = Given(opened, feed)
    BY <1>1, <1>2, <1>3 DEF PiecesFed
  <2>1. Given(opened, feed)' = Tail(feed'.appended) \o feed'.queue
        /\ Given(opened, feed) = Tail(feed.appended) \o feed.queue
    BY <1>2, <1>3 DEF Given
  <2>2. CASE d = 0
    BY <1>8, <2>1, <2>2
  <2>3. CASE d = 1
    <3> DEFINE a == Tail(feed.appended)
               x == Head(feed.queue)
               q == Tail(feed.queue)
    <3>1. /\ feed.queue # <<>> /\ a \in Seq(Parts) /\ x \in Parts /\ q \in Seq(Parts) /\ <<x>> \in Seq(Parts)
      BY <1>3, <1>9, <2>3, HeadTailProperties
    <3>2. Tail(feed'.appended) = Append(a, x) /\ feed'.queue = q
      <4>1. feed'.appended = Append(feed.appended, x) /\ feed'.queue = q
        BY <1>9, <2>3
      <4>2. Tail(Append(feed.appended, x)) = Append(a, x)
        BY <1>3, HeadTailAppend
      <4> QED
        BY <4>1, <4>2
    <3>3. feed.queue = <<x>> \o q
      BY <1>3, <3>1
    <3> HIDE DEF a, x, q
    <3>4. Append(a, x) = a \o <<x>>
      BY <3>1, AppendIsConcat
    <3>5. \A s1, s2, s3 \in Seq(Parts) : (s1 \o s2) \o s3 = s1 \o (s2 \o s3)
      BY ConcatAssociative
    <3>6. Tail(feed.appended) \o feed.queue = a \o (<<x>> \o q)
      BY <3>3 DEF a
    <3>7. Given(opened, feed)' = (a \o <<x>>) \o q
      BY <2>1, <3>2, <3>4
    <3>8. Given(opened, feed) = a \o (<<x>> \o q)
      BY <2>1, <3>6
    <3> QED
      BY <3>1, <3>5, <3>7, <3>8
  <2> QED
    BY <1>7, <2>2, <2>3
<1> QED
  BY <1>11, <1>13, <1>14, <1>15, <1>16, <1>17 DEF VideoInv

(* A VP8 frame, in one piece or two, is appended or queued. *)
LEMMA Vp8FrameStep ==
  ASSUME VideoInv, NEW gap \in BOOLEAN, NEW refused \in BOOLEAN, Vp8Frame(gap, refused)
  PROVE  VideoInv'
<1>1. /\ VideoTypes /\ VideoBounded /\ VideoIdle
      /\ LoadingCounted /\ ReportsAddUp /\ Buffering /\ PiecesFed
  BY DEF VideoInv
<1> DEFINE cluster == <<"cluster", frames'>>
           block == <<"block", frames'>>
           two == produced = <<>> \/ gap
           one == IF two THEN cluster ELSE block
           pieces == IF two THEN <<cluster, block>> ELSE <<block>>
           first == Push(feed, one, refused)
<1>2. /\ codec = "vp8" /\ frames < MaxFrames /\ frames' = frames + 1 /\ (refused => feed.okay)
      /\ produced' = produced \o pieces
      /\ feed' = IF two THEN Push(first, block, FALSE) ELSE first
      /\ due' = IF reporting THEN due + (IF feed.okay THEN 1 ELSE 0) ELSE due
      /\ stuck' = (stuck \/ refused)
      /\ UNCHANGED <<codec, framesLoading, loading, lost, inherited, opened>>
      /\ UNCHANGED <<reporting, report, told, streams>>
  <2>1. /\ Frame("vp8") /\ (refused => feed.okay) /\ stuck' = (stuck \/ refused)
        /\ UNCHANGED <<codec, mjpeg, opened, reporting, report, told, streams>>
        /\ produced' = produced \o pieces
        /\ Due(IF feed.okay THEN 1 ELSE 0)
    BY DEF Vp8Frame
  <2>2. feed' = IF Len(pieces) = 2 THEN Push(Push(feed, pieces[1], refused), pieces[2], FALSE)
                ELSE Push(feed, pieces[1], refused)
    BY DEF Vp8Frame
  <2>3. CASE two
    <3>1. Len(pieces) = 2 /\ pieces[1] = one /\ pieces[2] = block
      BY <2>3
    <3> QED
      BY <2>1, <2>2, <2>3, <3>1 DEF Frame, mjpeg, Due
  <2>4. CASE ~two
    <3>1. Len(pieces) = 1 /\ pieces[1] = one
      BY <2>4
    <3> QED
      BY <2>1, <2>2, <2>4, <3>1 DEF Frame, mjpeg, Due
  <2> QED
    BY <2>3, <2>4
<1>3. /\ feed \in Feeds /\ frames \in Nat /\ MaxFrames \in Nat /\ loading \in Nat /\ lost \in Nat
      /\ due \in Nat /\ told \in Nat /\ produced \in Seq(Parts) /\ stuck \in BOOLEAN /\ opened \in BOOLEAN
      /\ report \in [frames : 0 .. MaxWindow, drops : Nat] /\ reporting \in BOOLEAN
      /\ framesLoading \in Int /\ inherited \in Nat
  BY <1>1, VideoAssumption DEF VideoTypes
<1>4. cluster \in Parts /\ block \in Parts /\ one \in Parts
  BY <1>2, <1>3 DEF Parts
<1>5. <<cluster>> \in Seq(Parts) /\ <<block>> \in Seq(Parts) /\ pieces \in Seq(Parts)
      /\ <<cluster, block>> = <<cluster>> \o <<block>> /\ cluster[1] = "cluster"
  BY <1>4
<1> HIDE DEF cluster, block
<1>6. /\ feed.okay => opened /\ feed.queue = <<>> /\ ~feed.updating /\ ~stuck
      /\ opened => feed.appended # <<>> /\ Head(feed.appended) = VideoHeader
      /\ ~opened => ~feed.updating /\ ~feed.current /\ feed.appended = <<>> /\ ~stuck
      /\ stuck => ~feed.updating
      /\ opened /\ ~feed.updating /\ ~stuck => feed.okay
  BY <1>1 DEF Buffering
<1>7. /\ feed.okay \in BOOLEAN /\ feed.queue \in Seq(Parts) /\ feed.appended \in Seq(Parts)
      /\ Len(feed.queue) \in Nat
  BY <1>3, LenProperties DEF Feeds
(* The first piece ... *)
<1>8. /\ first \in Feeds /\ ~first.okay
      /\ feed.okay => /\ first.queue = feed.queue /\ first.current /\ (first.updating <=> ~refused)
                      /\ refused => first.appended = feed.appended
                      /\ ~refused => first.appended = Append(feed.appended, one)
      /\ ~feed.okay => /\ (first.current <=> feed.current) /\ (first.updating <=> feed.updating)
                       /\ first.appended = feed.appended /\ first.queue = Append(feed.queue, one)
  <2>1. \A f \in Feeds, x \in Parts :
          LET g == Push(f, x, refused)
          IN  /\ g \in Feeds /\ ~g.okay
              /\ f.okay => /\ g.queue = f.queue /\ g.current
                           /\ refused => (g.updating <=> f.updating) /\ g.appended = f.appended
                           /\ ~refused => g.updating /\ g.appended = Append(f.appended, x)
              /\ ~f.okay => /\ (g.current <=> f.current) /\ (g.updating <=> f.updating)
                            /\ g.appended = f.appended /\ g.queue = Append(f.queue, x)
    BY Pushed
  <2> HIDE DEF first, one
  <2>2. first = Push(feed, one, refused)
    BY DEF first
  <2> QED
    BY <1>3, <1>4, <1>6, <2>1, <2>2
<1>9. /\ ~refused => /\ Given(opened, first) = Given(opened, feed) \o <<one>>
                     /\ opened => first.appended # <<>> /\ Head(first.appended) = Head(feed.appended)
      /\ Given(opened, feed) \in Seq(Parts)
  <2>1. opened => feed.appended # <<>>
    BY <1>6
  <2>2. feed.okay => opened /\ feed.queue = <<>>
    BY <1>6
  <2>3. \A x \in Parts :
          /\ Given(opened, Push(feed, x, FALSE)) = Given(opened, feed) \o <<x>>
          /\ Given(opened, feed) \in Seq(Parts)
          /\ opened => /\ Push(feed, x, FALSE).appended # <<>>
                       /\ Head(Push(feed, x, FALSE).appended) = Head(feed.appended)
    BY <1>3, <2>1, <2>2, GivenMore
  <2>4. ~refused => first = Push(feed, one, FALSE)
    <3>1. ~refused => refused = FALSE
      OBVIOUS
    <3> QED
      BY <3>1
  <2> HIDE DEF first, one
  <2>5. /\ Given(opened, Push(feed, one, FALSE)) = Given(opened, feed) \o <<one>>
        /\ Given(opened, feed) \in Seq(Parts)
        /\ opened => /\ Push(feed, one, FALSE).appended # <<>>
                     /\ Head(Push(feed, one, FALSE).appended) = Head(feed.appended)
    BY <1>4, <2>3
  <2>6. CASE refused
    BY <2>5, <2>6
  <2>7. CASE ~refused
    <3>1. first = Push(feed, one, FALSE)
      BY <2>4, <2>7
    <3> QED
      BY <2>5, <3>1
  <2> QED
    BY <2>6, <2>7
<1> HIDE DEF first
<1>10. opened => first.appended # <<>> /\ Head(first.appended) = VideoHeader
  <2>1. opened => feed.appended # <<>> /\ Head(feed.appended) = VideoHeader
    BY <1>6
  <2>2. CASE refused
    BY <1>7, <1>8, <2>1, <2>2
  <2>3. CASE ~refused
    BY <1>9, <2>1, <2>3
  <2> QED
    BY <2>2, <2>3
(* ... and the second, if there is one *)
<1>11. /\ feed' \in Feeds /\ ~feed'.okay /\ feed'.appended = first.appended
       /\ (feed'.current <=> first.current) /\ (feed'.updating <=> first.updating)
       /\ two => feed'.queue = Append(first.queue, block)
       /\ ~two => feed'.queue = first.queue
  <2>1. CASE two
    <3>1. \A f \in Feeds, x \in Parts :
            LET g == Push(f, x, FALSE)
            IN  /\ g \in Feeds /\ ~g.okay
                /\ ~f.okay => /\ (g.current <=> f.current) /\ (g.updating <=> f.updating)
                              /\ g.appended = f.appended /\ g.queue = Append(f.queue, x)
      BY Pushed
    <3>2. feed' = Push(first, block, FALSE)
      BY <1>2, <2>1
    <3> QED
      BY <1>4, <1>8, <2>1, <3>1, <3>2
  <2>2. CASE ~two
    BY <1>2, <1>8, <2>2
  <2> QED
    BY <2>1, <2>2
<1>12. ~refused => Given(opened, feed') = Given(opened, feed) \o pieces
  <2> SUFFICES ASSUME ~refused PROVE Given(opened, feed') = Given(opened, feed) \o pieces
    OBVIOUS
  <2>1. CASE two
    <3>1. opened => first.appended # <<>>
      BY <1>10
    <3>2. Given(opened, Push(first, block, FALSE)) = Given(opened, first) \o <<block>>
      BY <1>3, <1>4, <1>8, <3>1, GivenMore
    <3>3. feed' = Push(first, block, FALSE) /\ Given(opened, first) = Given(opened, feed) \o <<cluster>>
      BY <1>2, <1>9, <2>1
    <3>4. \A s1, s2, s3 \in Seq(Parts) : (s1 \o s2) \o s3 = s1 \o (s2 \o s3)
      BY ConcatAssociative
    <3>5. (Given(opened, feed) \o <<cluster>>) \o <<block>> = Given(opened, feed) \o (<<cluster>> \o <<block>>)
      BY <1>5, <1>9, <3>4
    <3>6. pieces = <<cluster>> \o <<block>>
      BY <1>5, <2>1
    <3> HIDE DEF pieces
    <3> QED
      BY <3>2, <3>3, <3>5, <3>6
  <2>2. CASE ~two
    <3>1. pieces = <<one>> /\ feed' = first
      BY <1>2, <2>2
    <3> HIDE DEF pieces, one
    <3> QED
      BY <1>9, <3>1
  <2> QED
    BY <2>1, <2>2
<1>13. /\ Len(feed'.queue) = Len(first.queue) + (IF two THEN 1 ELSE 0)
       /\ Len(first.queue) = Len(feed.queue) + (IF feed.okay THEN 0 ELSE 1)
  <2>1. Len(Append(first.queue, block)) = Len(first.queue) + 1 /\ Len(first.queue) \in Nat
    BY <1>4, <1>8, AppendProperties, LenProperties DEF Feeds
  <2>2. Len(Append(feed.queue, one)) = Len(feed.queue) + 1
    BY <1>4, <1>7, AppendProperties
  <2> HIDE DEF two, one
  <2>3. Len(feed'.queue) = Len(first.queue) + (IF two THEN 1 ELSE 0)
    <3>1. CASE two
      BY <1>11, <2>1, <3>1
    <3>2. CASE ~two
      BY <1>11, <2>1, <3>2
    <3> QED
      BY <3>1, <3>2
  <2>4. Len(first.queue) = Len(feed.queue) + (IF feed.okay THEN 0 ELSE 1)
    <3>1. CASE feed.okay
      BY <1>7, <1>8, <3>1
    <3>2. CASE ~feed.okay
      BY <1>8, <2>2, <3>2
    <3> QED
      BY <3>1, <3>2
  <2> QED
    BY <2>3, <2>4
<1> HIDE DEF pieces, one, two
<1>14. VideoTypes'
  <2>1. frames' \in 0 .. MaxFrames
    BY <1>2, <1>3
  <2>2. produced' \in Seq(Parts)
    BY <1>2, <1>3, <1>5, ConcatProperties
  <2>3. due' \in Nat
    BY <1>2, <1>3, <1>7
  <2>4. stuck' \in BOOLEAN
    BY <1>2
  <2> QED
    BY <1>1, <1>2, <1>11, <2>1, <2>2, <2>3, <2>4 DEF VideoTypes
<1>15. VideoBounded'
  <2> DEFINE L == Len(feed.queue)
             L2 == Len(feed.queue)'
             p == Pending(feed)
             p2 == Pending(feed)'
             e == IF feed.okay THEN 1 ELSE 0
             w == IF two THEN 1 ELSE 0
  <2>1. /\ loading + lost <= frames /\ inherited <= frames
        /\ -frames <= framesLoading /\ framesLoading <= frames /\ report.drops <= frames
        /\ p + L + loading + lost <= 2 * frames
        /\ due + L <= 2 * frames
    BY <1>1 DEF VideoBounded
  <2>2. L \in Nat /\ L2 = L + (1 - e) + w /\ e \in {0, 1} /\ w \in {0, 1}
    <3>1. e \in {0, 1} /\ w \in {0, 1} /\ (IF feed.okay THEN 0 ELSE 1) = 1 - e
      OBVIOUS
    <3>2. L2 = Len(feed'.queue) /\ L \in Nat
      BY <1>7
    <3>3. L2 = Len(first.queue) + w /\ Len(first.queue) = L + (1 - e)
      BY <1>13, <3>1, <3>2
    <3> HIDE DEF L, L2, e, w
    <3> QED
      BY <3>1, <3>2, <3>3
  <2>3. p \in {0, 1} /\ p2 \in {0, 1} /\ (e = 0 => p2 = p)
    BY <1>7, <1>8, <1>11 DEF Pending
  <2>4. due' = due \/ due' = due + e
    BY <1>2, <1>3, <1>7
  <2>5. /\ frames' = frames + 1 /\ loading' = loading /\ lost' = lost
        /\ framesLoading' = framesLoading /\ inherited' = inherited
    BY <1>2
  <2>6. /\ frames \in Nat /\ loading \in Nat /\ lost \in Nat /\ due \in Nat
        /\ framesLoading \in Int /\ inherited \in Nat /\ report.drops \in Nat
    BY <1>3
  <2>7. report' = report
    BY <1>2
  <2> HIDE DEF L, L2, p, p2, e, w
  <2>8. p2 + L2 + loading' + lost' <= 2 * frames'
    BY <2>1, <2>2, <2>3, <2>5, <2>6
  <2>9. due' + L2 <= 2 * frames'
    BY <2>1, <2>2, <2>4, <2>5, <2>6
  <2>10. /\ loading' + lost' <= frames' /\ inherited' <= frames'
         /\ -frames' <= framesLoading' /\ framesLoading' <= frames' /\ report.drops <= frames'
    BY <2>1, <2>5, <2>6
  <2> QED
    BY <2>7, <2>8, <2>9, <2>10 DEF VideoBounded, L2, p2
<1>16. VideoIdle' /\ LoadingCounted'
  <2>1. ~reporting => due' = due
    BY <1>2
  <2> QED
    BY <1>1, <1>2, <2>1 DEF VideoIdle, LoadingCounted
<1>17. ReportsAddUp'
  <2>1. /\ feed.okay => Unaccounted' = loading + lost + 1 /\ Unaccounted = loading + lost
        /\ ~feed.okay => Unaccounted' = Unaccounted
    <3>1. CASE feed.okay
      <4>1. feed'.current /\ (feed'.updating \/ stuck')
        BY <1>2, <1>8, <1>11, <3>1
      <4>2. ~(feed.updating \/ stuck)
        BY <1>6, <3>1
      <4>3. Unaccounted' = loading' + lost' + 1
        BY <4>1 DEF Unaccounted
      <4>4. Unaccounted = loading + lost + 0
        BY <4>2 DEF Unaccounted
      <4> QED
        BY <1>2, <1>3, <3>1, <4>3, <4>4
    <3>2. CASE ~feed.okay
      <4>1. (feed'.current <=> feed.current) /\ (feed'.updating <=> feed.updating) /\ (stuck' <=> stuck)
        BY <1>2, <1>8, <1>11, <3>2
      <4> QED
        BY <1>2, <3>2, <4>1 DEF Unaccounted
    <3> QED
      BY <1>7, <3>1, <3>2
  <2> SUFFICES ASSUME reporting PROVE due' = told' + report'.frames + report'.drops + Unaccounted'
    BY <1>2 DEF ReportsAddUp
  <2>2. due = told + report.frames + report.drops + Unaccounted
    BY <1>1 DEF ReportsAddUp
  <2>3. due' = due + (IF feed.okay THEN 1 ELSE 0) /\ report' = report /\ told' = told
    BY <1>2
  <2>4. report.frames \in Nat /\ report.drops \in Nat
    BY <1>3
  <2>5. CASE feed.okay
    BY <1>3, <2>1, <2>2, <2>3, <2>4, <2>5
  <2>6. CASE ~feed.okay
    <3>1. due' = due
      BY <1>3, <2>3, <2>6
    <3> QED
      BY <2>1, <2>2, <2>3, <2>6, <3>1
  <2> QED
    BY <2>5, <2>6
<1>18. Buffering'
  <2>1. opened' = opened /\ (stuck' <=> stuck \/ refused)
    BY <1>2
  <2>2. /\ ~feed'.okay
        /\ opened /\ ~stuck /\ ~refused => feed'.updating
        /\ stuck \/ refused => ~feed'.updating
    BY <1>2, <1>6, <1>8, <1>11
  <2>3. ~opened => ~feed'.updating /\ ~feed'.current /\ feed'.appended = <<>> /\ ~stuck /\ ~refused
    BY <1>2, <1>6, <1>8, <1>11
  <2>4. opened => feed'.appended # <<>> /\ Head(feed'.appended) = VideoHeader
    BY <1>10, <1>11
  <2> QED
    BY <2>1, <2>2, <2>3, <2>4 DEF Buffering
<1>19. PiecesFed'
  <2>1. ~stuck' => Given(opened, feed)' = produced'
    BY <1>1, <1>2, <1>12 DEF PiecesFed
  <2>2. produced'[1][1] = "cluster"
    <3>1. CASE produced = <<>>
      <4>1. pieces = <<cluster>> \o <<block>>
        BY <1>5, <3>1 DEF pieces, two
      <4>2. produced' = <<cluster>> \o <<block>>
        <5>1. pieces \in Seq(Parts) /\ produced' = <<>> \o pieces
          BY <1>2, <1>5, <3>1
        <5>2. <<>> \o pieces = pieces
          BY <5>1, ConcatEmptySeq
        <5> QED
          BY <4>1, <5>1, <5>2
      <4>3. produced'[1] = cluster
        BY <1>5, <4>2
      <4> QED
        BY <1>5, <4>3
    <3>2. CASE produced # <<>>
      <4>1. produced'[1] = produced[1]
        <5>1. Len(produced) >= 1 /\ Len(pieces) \in Nat /\ Len(produced) \in Nat
          BY <1>3, <1>5, <3>2, EmptySeq, LenProperties
        <5>2. \A i \in 1 .. Len(produced) + Len(pieces) :
                (produced \o pieces)[i] = IF i <= Len(produced) THEN produced[i] ELSE pieces[i - Len(produced)]
          BY <1>3, <1>5, ConcatProperties
        <5> QED
          BY <1>2, <5>1, <5>2
      <4> QED
        BY <1>1, <3>2, <4>1 DEF PiecesFed
    <3> QED
      BY <3>1, <3>2
  <2> QED
    BY <2>1, <2>2 DEF PiecesFed
<1> QED
  BY <1>14, <1>15, <1>16, <1>17, <1>18, <1>19 DEF VideoInv

LEMMA VideoStep == VideoInv /\ [VideoNext]_videoVars => VideoInv'
<1> SUFFICES ASSUME VideoInv, [VideoNext]_videoVars PROVE VideoInv'
  OBVIOUS
<1>1. CASE UNCHANGED videoVars
  <2>1. /\ UNCHANGED <<codec, framesLoading, loading, lost, inherited, opened, feed, produced, stuck>>
        /\ UNCHANGED <<reporting, report, due, told, streams, frames>> /\ UNCHANGED vp8
    BY <1>1 DEF videoVars, mjpeg, vp8, reports
  <2>2. Buffering' /\ PiecesFed'
    BY <2>1, FeedKept
  <2>3. VideoTypes'
    BY <2>1 DEF VideoInv, VideoTypes
  <2>4. VideoBounded' /\ VideoIdle' /\ LoadingCounted' /\ ReportsAddUp'
    BY <2>1 DEF VideoInv, VideoBounded, VideoIdle, LoadingCounted, ReportsAddUp, Pending, Unaccounted
  <2> QED
    BY <2>2, <2>3, <2>4 DEF VideoInv
<1>2. CASE VideoNext
  BY <1>2, StreamSteps, MjpegSteps, OpenStep, UpdateEndStep, Vp8FrameStep DEF VideoNext
<1> QED
  BY <1>1, <1>2

LEMMA VideoInductive == VideoSpec => []VideoInv
<1> QED
  BY VideoStart, VideoStep, PTL DEF VideoSpec

(* The counters of a stream and its reports stay within the frames there were. *)
THEOREM VideoTyped == VideoSpec => []VideoTypeOK
<1> QED
  BY VideoInductive, VideoInvImplies, PTL

(* frames_loading is the number of frames that load, but for those of an earlier *)
(* stream with the id and those that never load; and every frame since the       *)
(* report was asked for is accounted for once, or on its way.                    *)
THEOREM FramesAddUp == VideoSpec => []FramesAccounted
<1> QED
  BY VideoInductive, VideoInvImplies, PTL

(* The buffer gets the header and then all that was made of the frames, in       *)
(* order; and a piece waits only while an event is to come that fetches it.      *)
THEOREM VideoIsFed == VideoSpec => []VideoFed
<1> QED
  BY VideoInductive, VideoInvImplies, PTL

-----------------------------------------------------------------------------
(* Sound *)

Items == [kind : {"header", "cluster", "block"}, code : Int, time : Int]
Sinks == [appended : Seq(Items), queue : Seq(Items), okay : BOOLEAN, updating : BOOLEAN]

PlaybackTypes ==
  /\ opening \in Nat /\ opening <= starts /\ buffer \in BOOLEAN /\ upset \in BOOLEAN
  /\ sink \in Sinks /\ made \in Seq(Items) /\ stale \in 0 .. MaxStarts
  /\ startTime \in Nat /\ clusterTime \in Nat /\ lastTime \in Nat
  /\ packets \in 0 .. MaxPackets /\ starts \in 0 .. MaxStarts

(* Without an upset nothing was made, or waits, before the buffer is there   *)
(* and the first packet has come.                                            *)
Started ==
  ~upset =>
    /\ opening <= 1 /\ (buffer => opening = 0)
    /\ (made # <<>>) <=> (startTime # 0)
    /\ made # <<>> => buffer
    /\ made = <<>> => sink.appended = <<>> /\ sink.queue = <<>> /\ ~sink.updating

Blocks(m) == {i \in DOMAIN m : m[i].kind = "block"}

(* A block has a cluster and follows the block before it.                     *)
Coded(m, b, c) ==
  /\ c \in 1 .. b /\ m[c].kind = "cluster" /\ \A d \in 1 .. b : m[d].kind = "cluster" => d <= c
  /\ m[b].time - m[c].time >= -(Wrap \div 2) => m[c].code + Signed(m[b].code) = m[b].time
Follows(m, b, a) ==
  /\ a \in 1 .. b - 1 /\ m[a].kind = "block" /\ \A i \in 1 .. b - 1 : m[i].kind = "block" => i <= a
  /\ LET away == m[b].time - (m[a].time + Step)
     IN  away = 0 \/ away >= MaxCluster \/ away <= -MaxCluster
Timed(m, b) ==
  /\ \E c \in 1 .. b : Coded(m, b, c)
  /\ (\A i \in 1 .. b - 1 : m[i].kind # "block") \/ \E a \in 1 .. b - 1 : Follows(m, b, a)

(* The last block and the last cluster are of the times that are kept.        *)
LastMade ==
  ~upset /\ made # <<>> =>
    /\ made[Len(made)].kind = "block" /\ made[Len(made)].time = lastTime - startTime
    /\ \E c \in 1 .. Len(made) :
         /\ made[c].kind = "cluster" /\ \A d \in 1 .. Len(made) : made[d].kind = "cluster" => d <= c
         /\ made[c].code = clusterTime - startTime /\ made[c].time = clusterTime - startTime
AllTimed == ~upset => \A b \in Blocks(made) : Timed(made, b)

PlaybackInv == PlaybackTypes /\ Started /\ NothingLost /\ LastMade /\ AllTimed

(* The greatest of a set of numbers is the one CHOOSE takes.                  *)
LEMMA Greatest ==
  ASSUME NEW S \in SUBSET Nat, NEW m \in S, \A d \in S : d <= m
  PROVE  (CHOOSE c \in S : \A d \in S : d <= c) = m
<1> DEFINE x == CHOOSE c \in S : \A d \in S : d <= c
<1>1. x \in S /\ \A d \in S : d <= x
  OBVIOUS
<1> HIDE DEF x
<1>2. x = m
  BY <1>1
<1> QED
  BY <1>2 DEF x

LEMMA PlaybackInvImplies == PlaybackInv => PlaybackTypeOK /\ SoundKept
<1> SUFFICES ASSUME PlaybackInv PROVE PlaybackTypeOK /\ SoundKept
  OBVIOUS
<1>1. PlaybackTypes /\ Started /\ NothingLost /\ LastMade /\ AllTimed
  BY DEF PlaybackInv
<1>2. PlaybackTypeOK
  <2>1. DOMAIN sink = DOMAIN Unused /\ {sink.okay, sink.updating, upset} \subseteq BOOLEAN
    BY <1>1 DEF PlaybackTypes, Sinks, Unused
  <2>2. opening \in 0 .. MaxStarts
    BY <1>1, PlaybackAssumption DEF PlaybackTypes
  <2> QED
    BY <1>1, <2>1, <2>2 DEF PlaybackTypes, PlaybackTypeOK
<1>3. TimesKept
  <2> SUFFICES ASSUME ~upset, NEW b \in Blocks(made)
               PROVE  LET clusters == {i \in 1 .. b : made[i].kind = "cluster"}
                          base == made[CHOOSE c \in clusters : \A d \in clusters : d <= c]
                          before == {i \in 1 .. b - 1 : made[i].kind = "block"}
                          last == made[CHOOSE i \in before : \A j \in before : j <= i].time
                          away == made[b].time - (last + Step)
                      IN  /\ made[b].time - base.time >= -(Wrap \div 2) =>
                               base.code + Signed(made[b].code) = made[b].time
                          /\ before # {} => away = 0 \/ away >= MaxCluster \/ away <= -MaxCluster
    BY DEF TimesKept, Blocks
  <2> DEFINE clusters == {i \in 1 .. b : made[i].kind = "cluster"}
             before == {i \in 1 .. b - 1 : made[i].kind = "block"}
             k == CHOOSE c \in clusters : \A d \in clusters : d <= c
             l == CHOOSE i \in before : \A j \in before : j <= i
  <2>1. b \in Nat /\ b \in 1 .. Len(made)
    BY <1>1, LenProperties DEF Blocks, PlaybackTypes
  <2>2. Timed(made, b)
    BY <1>1 DEF AllTimed
  <2>3. PICK c \in 1 .. b : Coded(made, b, c)
    BY <2>2 DEF Timed
  <2>4. clusters \in SUBSET Nat /\ c \in clusters /\ \A d \in clusters : d <= c
    BY <2>1, <2>3 DEF Coded
  <2>5. k = c
    <3> HIDE DEF clusters
    <3> QED
      BY <2>4, Greatest
  <2>6. CASE before = {}
    BY <2>3, <2>5, <2>6 DEF Coded
  <2>7. CASE before # {}
    <3>1. PICK a \in 1 .. b - 1 : Follows(made, b, a)
      BY <2>2, <2>7 DEF Timed
    <3>2. before \in SUBSET Nat /\ a \in before /\ \A d \in before : d <= a
      BY <2>1, <3>1 DEF Follows
    <3>3. l = a
      <4> HIDE DEF before
      <4> QED
        BY <3>2, Greatest
    <3> QED
      BY <2>3, <2>5, <3>1, <3>3 DEF Coded, Follows
  <2> QED
    BY <2>6, <2>7
<1> QED
  BY <1>1, <1>2, <1>3 DEF SoundKept

LEMMA PlaybackBegins == PlaybackInit => PlaybackInv
<1> SUFFICES ASSUME PlaybackInit PROVE PlaybackInv
  OBVIOUS
<1>1. <<>> \in Seq(Items) /\ Len(<<>>) = 0 /\ <<>> \o <<>> = <<>>
  BY EmptySeq, ConcatEmptySeq
<1>2. sink = Unused /\ Unused \in Sinks /\ Unused.appended = <<>> /\ Unused.queue = <<>> /\ ~Unused.updating
  BY <1>1 DEF PlaybackInit, Unused, Sinks
<1>3. PlaybackTypes
  <2>1. made \in Seq(Items) /\ sink \in Sinks
    BY <1>1, <1>2 DEF PlaybackInit
  <2>2. /\ opening \in Nat /\ opening <= starts /\ buffer \in BOOLEAN /\ upset \in BOOLEAN
        /\ stale \in 0 .. MaxStarts /\ packets \in 0 .. MaxPackets /\ starts \in 0 .. MaxStarts
    <3>1. opening = 0 /\ starts = 0 /\ stale = 0 /\ packets = 0 /\ buffer = FALSE /\ upset = FALSE
      BY DEF PlaybackInit
    <3>2. buffer \in BOOLEAN /\ upset \in BOOLEAN
      BY <3>1
    <3>3. 0 \in 0 .. MaxStarts /\ 0 \in 0 .. MaxPackets
      BY PlaybackAssumption
    <3> QED
      BY <3>1, <3>2, <3>3
  <2>3. startTime \in Nat /\ clusterTime \in Nat /\ lastTime \in Nat
    BY DEF PlaybackInit
  <2> QED
    BY <2>1, <2>2, <2>3 DEF PlaybackTypes
<1>4. Started /\ NothingLost /\ LastMade
  BY <1>1, <1>2 DEF PlaybackInit, Started, NothingLost, LastMade
<1>5. AllTimed
  BY <1>1 DEF PlaybackInit, AllTimed, Blocks
<1> QED
  BY <1>3, <1>4, <1>5 DEF PlaybackInv

-----------------------------------------------------------------------------
LEMMA Written ==
  ASSUME NEW s \in Sinks, NEW items \in Seq(Items)
  PROVE  LET g == AppendBuffer(s, items)
         IN  /\ g \in Sinks /\ g.queue = s.queue
             /\ buffer /\ ~s.updating => g.appended = s.appended \o items /\ g.updating /\ ~g.okay
             /\ ~(buffer /\ ~s.updating) => g = s
<1>1. s.appended \o items \in Seq(Items)
  BY ConcatProperties DEF Sinks
<1>2. CASE buffer /\ ~s.updating
  BY <1>1, <1>2 DEF AppendBuffer, Sinks
<1>3. CASE ~(buffer /\ ~s.updating)
  BY <1>3 DEF AppendBuffer
<1> QED
  BY <1>2, <1>3

(* A piece goes after all the others, to the buffer or to the queue.          *)
LEMMA PutLast ==
  ASSUME NEW s \in Sinks, NEW item \in Items
  PROVE  /\ Put(s, item) \in Sinks
         /\ buffer /\ (s.okay => ~s.updating /\ s.queue = <<>>) /\ (~s.okay => s.updating) =>
              /\ Put(s, item).appended \o Put(s, item).queue = (s.appended \o s.queue) \o <<item>>
              /\ Put(s, item).updating /\ ~Put(s, item).okay
<1>1. /\ s.appended \in Seq(Items) /\ s.queue \in Seq(Items) /\ s.okay \in BOOLEAN /\ s.updating \in BOOLEAN
      /\ <<item>> \in Seq(Items)
  BY DEF Sinks
<1> DEFINE g == Put(s, item)
<1>2. CASE s.okay
  <2>1. g = AppendBuffer(s, <<item>>)
    BY <1>2 DEF Put
  <2>2. /\ g \in Sinks /\ g.queue = s.queue
        /\ buffer /\ ~s.updating => g.appended = s.appended \o <<item>> /\ g.updating /\ ~g.okay
    <3>1. \A r \in Sinks, items \in Seq(Items) :
              LET n == AppendBuffer(r, items)
              IN  /\ n \in Sinks /\ n.queue = r.queue
                  /\ buffer /\ ~r.updating => n.appended = r.appended \o items /\ n.updating /\ ~n.okay
                  /\ ~(buffer /\ ~r.updating) => n = r
      BY Written
    <3> HIDE DEF g
    <3> QED
      BY <1>1, <2>1, <3>1
  <2>3. s.appended \o <<>> = s.appended /\ (s.appended \o <<item>>) \o <<>> = s.appended \o <<item>>
    BY <1>1, ConcatEmptySeq, ConcatProperties
  <2> HIDE DEF g
  <2> QED
    BY <1>2, <2>2, <2>3 DEF g
<1>3. CASE ~s.okay
  <2>1. /\ g \in Sinks /\ g.appended = s.appended /\ g.queue = Append(s.queue, item)
        /\ ~g.okay /\ (g.updating <=> s.updating)
    <3>1. Append(s.queue, item) \in Seq(Items)
      BY <1>1, AppendProperties
    <3> QED
      BY <1>3, <3>1 DEF Put, Sinks
  <2>2. Append(s.queue, item) = s.queue \o <<item>>
    BY <1>1, AppendIsConcat
  <2>3. \A s1, s2, s3 \in Seq(Items) : (s1 \o s2) \o s3 = s1 \o (s2 \o s3)
    BY ConcatAssociative
  <2>4. s.appended \o (s.queue \o <<item>>) = (s.appended \o s.queue) \o <<item>>
    BY <1>1, <2>3
  <2> HIDE DEF g
  <2> QED
    BY <1>3, <2>1, <2>2, <2>4 DEF g
<1> QED
  BY <1>1, <1>2, <1>3

(* When an append is done all that waits follows.                             *)
LEMMA DoneKeeps ==
  ASSUME NEW s \in Sinks, ~s.updating
  PROVE  /\ Done(s) \in Sinks
         /\ s.queue = <<>> =>
              /\ Done(s).okay /\ ~Done(s).updating /\ Done(s).appended = s.appended /\ Done(s).queue = <<>>
         /\ s.queue # <<>> /\ buffer =>
              /\ ~Done(s).okay /\ Done(s).updating /\ Done(s).queue = <<>>
              /\ Done(s).appended = s.appended \o s.queue
<1>1. CASE s.queue = <<>>
  BY <1>1 DEF Done, Sinks
<1>2. CASE s.queue # <<>>
  <2> DEFINE h == [s EXCEPT !.queue = <<>>]
  <2>1. h \in Sinks /\ h.queue = <<>> /\ h.appended = s.appended /\ ~h.updating /\ s.queue \in Seq(Items)
    <3>1. <<>> \in Seq(Items)
      BY EmptySeq
    <3> QED
      BY <3>1 DEF Sinks
  <2>2. Done(s) = AppendBuffer(h, s.queue)
    BY <1>2 DEF Done
  <2>3. \A r \in Sinks, items \in Seq(Items) :
          LET n == AppendBuffer(r, items)
          IN  /\ n \in Sinks /\ n.queue = r.queue
              /\ buffer /\ ~r.updating => n.appended = r.appended \o items /\ n.updating /\ ~n.okay
              /\ ~(buffer /\ ~r.updating) => n = r
    BY Written
  <2> DEFINE g == AppendBuffer(h, s.queue)
  <2> HIDE DEF h
  <2>4. /\ g \in Sinks /\ g.queue = h.queue
        /\ buffer => g.appended = h.appended \o s.queue /\ g.updating /\ ~g.okay
    BY <2>1, <2>3
  <2> HIDE DEF g
  <2> QED
    BY <1>2, <2>1, <2>2, <2>4 DEF g
<1> QED
  BY <1>1, <1>2

(* A signed time code says the distance it was made from.                     *)
LEMMA SignedBack ==
  ASSUME NEW x \in Int, x < MaxCluster, x >= -(Wrap \div 2)
  PROVE  Signed(x % Wrap) = x
<1>1. Wrap \in Nat /\ MaxCluster \in Nat /\ MaxCluster >= 1 /\ 2 * MaxCluster <= Wrap
  BY PlaybackAssumption
<1> DEFINE half == Wrap \div 2
<1>2. half \in Nat /\ 2 * half <= Wrap /\ Wrap <= 2 * half + 1 /\ MaxCluster <= half
  BY <1>1
<1> HIDE DEF half
<1>3. CASE x >= 0
  <2>1. x % Wrap = x
    BY <1>1, <1>2, <1>3
  <2> QED
    BY <1>1, <1>2, <1>3, <2>1 DEF Signed, half
<1>4. CASE x < 0
  <2>1. -half <= x
    BY DEF half
  <2>2. x % Wrap = x + Wrap
    BY <1>1, <1>2, <1>4, <2>1
  <2>3. ~(x + Wrap < half)
    BY <1>1, <1>2, <1>4, <2>1
  <2> QED
    BY <1>1, <2>2, <2>3 DEF Signed, half
<1> QED
  BY <1>3, <1>4

-----------------------------------------------------------------------------
(* What was made stays as it is while neither packets nor a stop come.        *)
LEMMA MadeKept ==
  ASSUME PlaybackInv, UNCHANGED <<startTime, clusterTime, lastTime, made>>, ~upset' => ~upset
  PROVE  LastMade' /\ AllTimed'
<1>1. /\ LastMade /\ AllTimed
  BY DEF PlaybackInv
<1>2. AllTimed'
  BY <1>1 DEF AllTimed, Blocks, Timed, Coded, Follows
<1>3. LastMade'
  BY <1>1 DEF LastMade
<1> QED
  BY <1>2, <1>3

LEMMA StartAndOpenSteps ==
  ASSUME PlaybackInv, PlaybackStart \/ SourceOpen
  PROVE  PlaybackInv'
<1>1. /\ PlaybackTypes /\ Started /\ NothingLost
  BY DEF PlaybackInv
<1>2. MaxStarts \in Nat
  BY PlaybackAssumption
<1>3. ASSUME PlaybackStart PROVE PlaybackInv'
  <2>1. /\ starts < MaxStarts /\ starts' = starts + 1
        /\ UNCHANGED <<buffer, sink, stale, startTime, clusterTime, lastTime, made, packets>>
        /\ \/ buffer /\ UNCHANGED <<opening, upset>>
           \/ ~buffer /\ opening' = opening + 1 /\ upset' = (upset \/ opening > 0)
    BY <1>3 DEF PlaybackStart, times
  <2>2. PlaybackTypes'
    <3>1. starts' \in 0 .. MaxStarts /\ opening' \in Nat /\ opening' <= starts'
      BY <1>1, <1>2, <2>1 DEF PlaybackTypes
    <3>2. upset' \in BOOLEAN
      BY <1>1, <2>1 DEF PlaybackTypes
    <3> QED
      BY <1>1, <2>1, <3>1, <3>2 DEF PlaybackTypes
  <2>3. ~upset' => ~upset /\ (~buffer => opening = 0)
    <3>1. CASE buffer
      BY <2>1, <3>1
    <3>2. CASE ~buffer
      <4>1. upset' = (upset \/ opening > 0)
        BY <2>1, <3>2
      <4>2. ~upset' => ~upset /\ ~(opening > 0)
        BY <4>1
      <4>3. opening \in Nat
        BY <1>1 DEF PlaybackTypes
      <4> QED
        BY <4>2, <4>3
    <3> QED
      BY <3>1, <3>2
  <2>4. Started' /\ NothingLost'
    <3> SUFFICES ASSUME ~upset, ~buffer => opening = 0 PROVE Started' /\ NothingLost'
      BY <2>3 DEF Started, NothingLost
    <3>1. /\ opening' <= 1 /\ (buffer => opening' = 0)
      BY <1>1, <2>1 DEF Started, PlaybackTypes
    <3>2. Started'
      BY <1>1, <2>1, <3>1 DEF Started
    <3>3. NothingLost'
      BY <1>1, <2>1 DEF NothingLost
    <3> QED
      BY <3>2, <3>3
  <2>5. LastMade' /\ AllTimed'
    BY <2>1, <2>3, MadeKept
  <2> QED
    BY <2>2, <2>4, <2>5 DEF PlaybackInv
<1>4. ASSUME SourceOpen PROVE PlaybackInv'
  <2>1. /\ opening > 0 /\ opening' = opening - 1 /\ buffer' = TRUE
        /\ sink' = IF buffer THEN sink ELSE [sink EXCEPT !.appended = <<>>, !.updating = FALSE]
        /\ UNCHANGED <<stale, startTime, clusterTime, lastTime, made, upset, packets, starts>>
    BY <1>4 DEF SourceOpen, times
  <2>2. sink' \in Sinks /\ sink'.queue = sink.queue
        /\ (~buffer => sink'.appended = <<>> /\ ~sink'.updating)
    <3>1. <<>> \in Seq(Items)
      BY EmptySeq
    <3> QED
      BY <1>1, <2>1, <3>1 DEF PlaybackTypes, Sinks
  <2>3. PlaybackTypes'
    <3>1. opening' \in Nat /\ opening' <= starts' /\ buffer' \in BOOLEAN
      BY <1>1, <2>1 DEF PlaybackTypes
    <3> QED
      BY <1>1, <2>1, <2>2, <3>1 DEF PlaybackTypes
  <2>4. Started' /\ NothingLost'
    <3> SUFFICES ASSUME ~upset PROVE Started' /\ NothingLost'
      BY <2>1 DEF Started, NothingLost
    <3>1. ~buffer /\ opening = 1
      BY <1>1, <2>1 DEF Started, PlaybackTypes
    <3>2. made = <<>> /\ sink.queue = <<>>
      BY <1>1, <3>1 DEF Started
    <3>3. sink'.appended = <<>> /\ sink'.queue = <<>> /\ ~sink'.updating /\ <<>> \o <<>> = <<>>
      BY <2>2, <3>1, <3>2, ConcatEmptySeq, EmptySeq
    <3> QED
      BY <1>1, <2>1, <3>1, <3>2, <3>3 DEF Started, NothingLost
  <2>5. LastMade' /\ AllTimed'
    BY <2>1, MadeKept
  <2> QED
    BY <2>3, <2>4, <2>5 DEF PlaybackInv
<1> QED
  BY <1>3, <1>4

LEMMA UpdateEndSteps ==
  ASSUME PlaybackInv, UpdateEnd \/ StaleUpdateEnd
  PROVE  PlaybackInv'
<1>1. /\ PlaybackTypes /\ Started /\ NothingLost
  BY DEF PlaybackInv
<1>2. ASSUME UpdateEnd PROVE PlaybackInv'
  <2> DEFINE h == [sink EXCEPT !.updating = FALSE]
  <2>1. /\ buffer /\ sink.updating /\ sink' = Done(h)
        /\ UNCHANGED <<opening, buffer, stale, startTime, clusterTime, lastTime, made, upset, packets, starts>>
    BY <1>2 DEF UpdateEnd, times
  <2>2. /\ h \in Sinks /\ ~h.updating /\ h.queue = sink.queue /\ h.appended = sink.appended
        /\ sink.queue \in Seq(Items) /\ sink.appended \in Seq(Items)
    BY <1>1 DEF PlaybackTypes, Sinks
  <2> HIDE DEF h
  <2>3. /\ sink' \in Sinks
        /\ sink.queue = <<>> => /\ sink'.okay /\ ~sink'.updating /\ sink'.appended = sink.appended
                                /\ sink'.queue = <<>>
        /\ sink.queue # <<>> => /\ ~sink'.okay /\ sink'.updating /\ sink'.queue = <<>>
                                /\ sink'.appended = sink.appended \o sink.queue
    BY <2>1, <2>2, DoneKeeps
  <2>4. PlaybackTypes'
    BY <1>1, <2>1, <2>3 DEF PlaybackTypes
  <2>5. Started' /\ NothingLost'
    <3> SUFFICES ASSUME ~upset PROVE Started' /\ NothingLost'
      BY <2>1 DEF Started, NothingLost
    <3>1. made # <<>>
      BY <1>1, <2>1 DEF Started
    <3>2. sink'.appended \o sink'.queue = sink.appended \o sink.queue
      <4>1. sink.appended \o sink.queue \in Seq(Items)
        BY <2>2, ConcatProperties
      <4>2. sink.queue # <<>> => (sink.appended \o sink.queue) \o <<>> = sink.appended \o sink.queue
        BY <4>1, ConcatEmptySeq
      <4> QED
        BY <2>3, <4>2
    <3>3. sink'.okay = ~sink'.updating
      <4>1. sink'.okay \in BOOLEAN /\ sink'.updating \in BOOLEAN
        BY <2>3 DEF Sinks
      <4> QED
        BY <2>3, <4>1
    <3>4. sink'.queue = <<>>
      BY <2>3
    <3> QED
      BY <1>1, <2>1, <3>1, <3>2, <3>3, <3>4 DEF Started, NothingLost
  <2>6. LastMade' /\ AllTimed'
    BY <2>1, MadeKept
  <2> QED
    BY <2>4, <2>5, <2>6 DEF PlaybackInv
<1>3. ASSUME StaleUpdateEnd PROVE PlaybackInv'
  <2>1. /\ stale > 0 /\ stale' = stale - 1 /\ sink' = Done(sink) /\ upset' = (upset \/ buffer)
        /\ UNCHANGED <<opening, buffer, startTime, clusterTime, lastTime, made, packets, starts>>
    BY <1>3 DEF StaleUpdateEnd, times
  <2>2. sink' \in Sinks
    <3>1. CASE sink.queue = <<>>
      BY <1>1, <2>1, <3>1 DEF Done, Sinks, PlaybackTypes
    <3>2. CASE sink.queue # <<>>
      <4> DEFINE h == [sink EXCEPT !.queue = <<>>]
      <4>1. h \in Sinks /\ sink.queue \in Seq(Items)
        <5>1. <<>> \in Seq(Items)
          BY EmptySeq
        <5> QED
          BY <1>1, <5>1 DEF PlaybackTypes, Sinks
      <4>2. sink' = AppendBuffer(h, sink.queue)
        BY <2>1, <3>2 DEF Done
      <4> HIDE DEF h
      <4>3. \A r \in Sinks, items \in Seq(Items) : AppendBuffer(r, items) \in Sinks
        BY Written
      <4> QED
        BY <4>1, <4>2, <4>3
    <3> QED
      BY <3>1, <3>2
  <2>3. PlaybackTypes'
    <3>1. stale' \in 0 .. MaxStarts /\ upset' \in BOOLEAN
      BY <1>1, <2>1, PlaybackAssumption DEF PlaybackTypes
    <3> QED
      BY <1>1, <2>1, <2>2, <3>1 DEF PlaybackTypes
  <2>4. Started' /\ NothingLost'
    <3> SUFFICES ASSUME ~upset /\ ~buffer PROVE Started' /\ NothingLost'
      BY <2>1 DEF Started, NothingLost
    <3>1. made = <<>> /\ sink.queue = <<>> /\ sink.appended = <<>> /\ ~sink.updating
      BY <1>1 DEF Started
    <3>2. sink' = [sink EXCEPT !.okay = TRUE]
      BY <2>1, <3>1 DEF Done
    <3>3. sink'.appended = <<>> /\ sink'.queue = <<>> /\ ~sink'.updating
      BY <1>1, <3>1, <3>2 DEF PlaybackTypes, Sinks
    <3>4. <<>> \o <<>> = <<>>
      BY ConcatEmptySeq, EmptySeq
    <3> QED
      BY <1>1, <2>1, <3>1, <3>3, <3>4 DEF Started, NothingLost
  <2>5. LastMade' /\ AllTimed'
    BY <2>1, MadeKept
  <2> QED
    BY <2>3, <2>4, <2>5 DEF PlaybackInv
<1> QED
  BY <1>2, <1>3

LEMMA ModeAndStopSteps ==
  ASSUME PlaybackInv, OtherMode \/ PlaybackStop
  PROVE  PlaybackInv'
<1>1. PlaybackTypes
  BY DEF PlaybackInv
<1>2. <<>> \in Seq(Items) /\ <<>> \o <<>> = <<>>
  BY EmptySeq, ConcatEmptySeq
<1>3. ASSUME OtherMode PROVE PlaybackInv'
  <2>1. /\ buffer' = FALSE /\ stale' \in {stale, stale + 1} /\ (stale' = stale \/ stale < MaxStarts)
        /\ sink' = [sink EXCEPT !.appended = <<>>, !.updating = FALSE] /\ upset' = TRUE
        /\ UNCHANGED <<opening, startTime, clusterTime, lastTime, made, packets, starts>>
    BY <1>3 DEF OtherMode, times
  <2>2. sink' \in Sinks
    BY <1>1, <1>2, <2>1 DEF PlaybackTypes, Sinks
  <2>3. stale' \in 0 .. MaxStarts
    <3>1. stale \in 0 .. MaxStarts /\ MaxStarts \in Nat
      BY <1>1, PlaybackAssumption DEF PlaybackTypes
    <3> QED
      BY <2>1, <3>1
  <2>4. PlaybackTypes'
    BY <1>1, <2>1, <2>2, <2>3 DEF PlaybackTypes
  <2> QED
    BY <2>1, <2>4 DEF PlaybackInv, Started, NothingLost, LastMade, AllTimed
<1>4. ASSUME PlaybackStop PROVE PlaybackInv'
  <2>1. /\ buffer' = FALSE /\ stale' \in {stale, stale + 1} /\ (stale' = stale \/ stale < MaxStarts)
        /\ sink' = Unused /\ startTime' = 0 /\ made' = <<>> /\ upset' = (opening > 0)
        /\ UNCHANGED <<opening, clusterTime, lastTime, packets, starts>>
    BY <1>4 DEF PlaybackStop
  <2>2. sink' \in Sinks /\ sink'.appended = <<>> /\ sink'.queue = <<>> /\ ~sink'.updating
    BY <1>2, <2>1 DEF Unused, Sinks
  <2>3. stale' \in 0 .. MaxStarts
    <3>1. stale \in 0 .. MaxStarts /\ MaxStarts \in Nat
      BY <1>1, PlaybackAssumption DEF PlaybackTypes
    <3> QED
      BY <2>1, <3>1
  <2>4. upset' \in BOOLEAN /\ (~upset' => opening = 0)
    <3>1. opening \in Nat
      BY <1>1 DEF PlaybackTypes
    <3>2. CASE opening = 0
      BY <2>1, <3>2
    <3>3. CASE opening # 0
      <4>1. opening > 0
        BY <3>1, <3>3
      <4>2. upset' = (opening > 0)
        BY <1>4 DEF PlaybackStop
      <4>3. upset' = TRUE
        BY <4>1, <4>2, Zenon
      <4> QED
        BY <4>3
    <3> QED
      BY <3>2, <3>3
  <2>5. PlaybackTypes'
    BY <1>1, <1>2, <2>1, <2>2, <2>3, <2>4 DEF PlaybackTypes
  <2>6. Started' /\ NothingLost'
    BY <1>1, <1>2, <2>1, <2>2, <2>4 DEF Started, NothingLost, PlaybackTypes
  <2>7. LastMade' /\ AllTimed'
    <3>1. DOMAIN made' = {}
      BY <2>1
    <3> QED
      BY <2>1, <3>1 DEF LastMade, AllTimed, Blocks
  <2> QED
    BY <2>5, <2>6, <2>7 DEF PlaybackInv
<1> QED
  BY <1>3, <1>4

LEMMA OneMore ==
  ASSUME NEW s \in Seq(Items), NEW x \in Items
  PROVE  /\ Len(s) \in Nat /\ Len(s \o <<x>>) = Len(s) + 1 /\ (s \o <<x>>)[Len(s) + 1] = x
         /\ \A i \in 1 .. Len(s) : (s \o <<x>>)[i] = s[i]
<1>1. Len(<<x>>) = 1 /\ <<x>>[1] = x /\ <<x>> \in Seq(Items) /\ Len(s) \in Nat
  BY LenProperties
<1>2. /\ Len(s \o <<x>>) = Len(s) + 1
      /\ \A i \in 1 .. Len(s) + 1 : (s \o <<x>>)[i] = IF i <= Len(s) THEN s[i] ELSE <<x>>[i - Len(s)]
  BY <1>1, ConcatProperties
<1> QED
  BY <1>1, <1>2

(* Whether a block is well timed depends on what was made before it.          *)
LEMMA TimedBefore ==
  ASSUME NEW m, NEW n, NEW b \in Nat, \A i \in 1 .. b : n[i] = m[i], Timed(m, b)
  PROVE  Timed(n, b)
<1>1. b # 0 => n[b] = m[b]
  OBVIOUS
<1>2. \A i \in 1 .. b - 1 : n[i] = m[i]
  OBVIOUS
<1>3. PICK c \in 1 .. b : Coded(m, b, c)
  BY DEF Timed
<1>4. Coded(n, b, c)
  BY <1>1, <1>3 DEF Coded
<1>5. CASE \A i \in 1 .. b - 1 : m[i].kind # "block"
  BY <1>2, <1>4, <1>5 DEF Timed
<1>6. CASE \E a \in 1 .. b - 1 : Follows(m, b, a)
  <2>1. PICK a \in 1 .. b - 1 : Follows(m, b, a)
    BY <1>6
  <2>2. Follows(n, b, a)
    BY <1>1, <1>2, <2>1 DEF Follows
  <2> QED
    BY <1>4, <2>2 DEF Timed
<1> QED
  BY <1>5, <1>6 DEF Timed

(* A packet becomes a block, after a header and a cluster where these are due. *)
LEMMA DataStep ==
  ASSUME PlaybackInv, NEW time \in Times, PlaybackData(time)
  PROVE  PlaybackInv'
<1>1. PlaybackTypes /\ Started /\ NothingLost /\ LastMade /\ AllTimed
  BY DEF PlaybackInv
<1>2. /\ Step \in Nat \ {0} /\ MaxCluster \in Nat \ {0} /\ Wrap \in Nat /\ 2 * MaxCluster <= Wrap
      /\ Times \subseteq Nat /\ MaxPackets \in Nat /\ time \in Nat
  BY PlaybackAssumption
<1>3. /\ startTime \in Nat /\ clusterTime \in Nat /\ lastTime \in Nat /\ sink \in Sinks /\ made \in Seq(Items)
      /\ packets < MaxPackets /\ packets' = packets + 1 /\ packets' \in 0 .. MaxPackets
      /\ UNCHANGED <<opening, buffer, stale, starts>>
  BY <1>1, <1>2 DEF PlaybackTypes, PlaybackData
<1>4. CASE ~buffer
  <2>1. UNCHANGED <<sink, startTime, clusterTime, lastTime, made, upset>>
    BY <1>4 DEF PlaybackData, times
  <2>2. PlaybackTypes'
    BY <1>1, <1>3, <2>1 DEF PlaybackTypes
  <2>3. Started' /\ NothingLost'
    BY <1>1, <1>3, <2>1 DEF Started, NothingLost
  <2>4. LastMade' /\ AllTimed'
    BY <2>1, MadeKept
  <2> QED
    BY <2>2, <2>3, <2>4 DEF PlaybackInv
<1>5. CASE buffer
  <2> DEFINE t == EvenTime(time)
             first == startTime = 0
             start == IF first THEN t ELSE startTime
             cuts == first \/ t - clusterTime >= MaxCluster
             cluster == IF cuts THEN t ELSE clusterTime
             headed == IF first THEN AppendBuffer(sink, <<Header>>) ELSE sink
             clustered == IF cuts THEN Put(headed, Cluster(t, start)) ELSE headed
             block == SimpleBlock(t, start, cluster)
             one == IF first THEN <<Header>> ELSE <<>>
             two == IF cuts THEN <<Cluster(t, start)>> ELSE <<>>
  <2>1. /\ lastTime' = t /\ startTime' = start /\ clusterTime' = cluster
        /\ sink' = Put(clustered, block)
        /\ made' = ((made \o one) \o two) \o <<block>>
        /\ upset' = (upset \/ (first /\ t = 0))
    BY <1>5 DEF PlaybackData
  <2>2. /\ t \in Nat
        /\ ~first => LET away == t - (lastTime + Step)
                     IN  away = 0 \/ away >= MaxCluster \/ away <= -MaxCluster
    BY <1>2, <1>3 DEF EvenTime
  <2>3. /\ first => start = t /\ cuts
        /\ ~first => start = startTime
        /\ cuts => cluster = t
        /\ ~cuts => cluster = clusterTime /\ t - clusterTime < MaxCluster
        /\ start \in Nat /\ cluster \in Nat
    BY <1>2, <1>3, <2>2
  <2> HIDE DEF t
  <2>4. /\ Header \in Items /\ Header.kind = "header"
        /\ Cluster(t, start) \in Items /\ Cluster(t, start).kind = "cluster"
        /\ Cluster(t, start).code = t - start /\ Cluster(t, start).time = t - start
        /\ block \in Items /\ block.kind = "block"
        /\ block.code = (t - cluster) % Wrap /\ block.time = t - start
    <3>1. t - start \in Int /\ t - cluster \in Int /\ (t - cluster) % Wrap \in Int
      BY <1>2, <2>2, <2>3
    <3> HIDE DEF start, cluster
    <3> QED
      BY <3>1 DEF Header, Cluster, SimpleBlock, Items
  <2> DEFINE c == Cluster(t, start)
             M == (made \o one) \o two
  <2> HIDE DEF block, c, start, cluster
  <2>5. /\ <<>> \in Seq(Items) /\ <<Header>> \in Seq(Items) /\ <<c>> \in Seq(Items) /\ <<block>> \in Seq(Items)
        /\ one \in Seq(Items) /\ two \in Seq(Items)
    BY <2>4, EmptySeq DEF c
  <2>6. made \o one \in Seq(Items) /\ M \in Seq(Items) /\ made' \in Seq(Items) /\ made' = M \o <<block>>
    BY <1>3, <2>1, <2>5, ConcatProperties DEF c
  <2>7. /\ ~first => made \o one = made
        /\ ~cuts => M = made \o one
    BY <1>3, <2>5, <2>6, ConcatEmptySeq
  <2>8. \A s \in Sinks, x \in Items :
          /\ Put(s, x) \in Sinks
          /\ buffer /\ (s.okay => ~s.updating /\ s.queue = <<>>) /\ (~s.okay => s.updating) =>
               /\ Put(s, x).appended \o Put(s, x).queue = (s.appended \o s.queue) \o <<x>>
               /\ Put(s, x).updating /\ ~Put(s, x).okay
    BY PutLast
  <2>9. \A s \in Sinks, items \in Seq(Items) :
          LET g == AppendBuffer(s, items)
          IN  /\ g \in Sinks /\ g.queue = s.queue
              /\ buffer /\ ~s.updating => g.appended = s.appended \o items /\ g.updating /\ ~g.okay
    BY Written
  <2>10. headed \in Sinks /\ clustered \in Sinks /\ sink' \in Sinks
    <3>1. headed \in Sinks
      BY <1>3, <2>5, <2>9
    <3> HIDE DEF headed
    <3>2. clustered \in Sinks
      BY <2>4, <2>8, <3>1
    <3> HIDE DEF clustered
    <3> QED
      BY <2>1, <2>4, <2>8, <3>1, <3>2
  <2>11. PlaybackTypes'
    <3>1. upset' \in BOOLEAN
      BY <2>1
    <3> QED
      BY <1>1, <1>3, <2>1, <2>2, <2>3, <2>6, <2>10, <3>1 DEF PlaybackTypes
  <2>12. CASE upset'
    BY <2>11, <2>12 DEF PlaybackInv, Started, NothingLost, LastMade, AllTimed
  <2>13. CASE ~upset'
    <3>1. ~upset /\ (first => t # 0)
      BY <2>1, <2>13
    <3>2. /\ first => made = <<>> /\ sink.appended = <<>> /\ sink.queue = <<>> /\ ~sink.updating
          /\ ~first => made # <<>>
      BY <1>1, <3>1 DEF Started
    <3>3. /\ headed.appended \o headed.queue = made \o one
          /\ (headed.okay => ~headed.updating /\ headed.queue = <<>>) /\ (~headed.okay => headed.updating)
      <4>1. CASE first
        <5>1. /\ headed.queue = <<>> /\ headed.appended = <<>> \o <<Header>>
              /\ headed.updating /\ ~headed.okay
          <6>1. headed = AppendBuffer(sink, <<Header>>)
            BY <4>1
          <6> HIDE DEF headed
          <6> QED
            BY <1>3, <1>5, <2>5, <2>9, <3>2, <4>1, <6>1
        <5>2. <<>> \o <<Header>> = <<Header>> /\ <<Header>> \o <<>> = <<Header>>
          BY <2>5, ConcatEmptySeq
        <5>3. made \o one = <<Header>>
          BY <3>2, <4>1, <5>2
        <5> HIDE DEF headed
        <5> QED
          BY <5>1, <5>2, <5>3
      <4>2. CASE ~first
        <5>1. headed = sink /\ made \o one = made
          BY <2>7, <4>2
        <5>2. /\ sink.appended \o sink.queue = made /\ sink.okay = ~sink.updating
              /\ sink.queue # <<>> => sink.updating
          BY <1>1, <3>1, <3>2, <4>2 DEF NothingLost
        <5>3. sink.okay \in BOOLEAN /\ sink.updating \in BOOLEAN
          BY <1>3 DEF Sinks
        <5> QED
          BY <5>1, <5>2, <5>3
      <4> QED
        BY <4>1, <4>2
    <3>4. /\ clustered.appended \o clustered.queue = M
          /\ (clustered.okay => ~clustered.updating /\ clustered.queue = <<>>)
          /\ (~clustered.okay => clustered.updating)
      <4>1. CASE cuts
        <5>1. clustered = Put(headed, c) /\ M = (made \o one) \o <<c>> /\ c \in Items
          BY <2>4, <4>1 DEF c
        <5> HIDE DEF headed, clustered, M
        <5>2. /\ Put(headed, c).appended \o Put(headed, c).queue = (headed.appended \o headed.queue) \o <<c>>
              /\ Put(headed, c).updating /\ ~Put(headed, c).okay
          BY <1>5, <2>8, <2>10, <3>3, <5>1
        <5> QED
          BY <3>3, <5>1, <5>2
      <4>2. CASE ~cuts
        <5>1. clustered = headed /\ M = made \o one
          BY <2>7, <4>2
        <5> QED
          BY <3>3, <5>1
      <4> QED
        BY <4>1, <4>2
    <3>5. sink'.appended \o sink'.queue = made' /\ sink'.updating /\ ~sink'.okay
      <4> HIDE DEF headed, clustered, M
      <4> QED
        BY <1>5, <2>1, <2>4, <2>6, <2>8, <2>10, <3>4
    <3>6. made' # <<>> /\ Len(made') = Len(M) + 1 /\ made'[Len(made')] = block /\ Len(M) \in Nat
          /\ \A i \in 1 .. Len(M) : made'[i] = M[i]
      <4> HIDE DEF M
      <4>1. Len(<<block>>) = 1 /\ <<block>>[1] = block /\ Len(M) \in Nat
        BY <2>6, LenProperties
      <4>2. /\ Len(made') = Len(M) + 1
            /\ \A i \in 1 .. Len(M) + 1 : made'[i] = IF i <= Len(M) THEN M[i] ELSE <<block>>[i - Len(M)]
        BY <2>5, <2>6, <4>1, ConcatProperties
      <4>3. Len(made') = Len(M) + 1 /\ made'[Len(M) + 1] = block /\ \A i \in 1 .. Len(M) : made'[i] = M[i]
        BY <4>1, <4>2
      <4>4. made' # <<>>
        BY <4>1, <4>3, EmptySeq
      <4> QED
        BY <4>1, <4>3, <4>4
    <3>7. Started'
      <4>1. startTime' # 0
        BY <2>1, <2>3, <3>1
      <4> QED
        BY <1>1, <1>3, <1>5, <3>1, <3>6, <4>1 DEF Started
    <3>8. NothingLost'
      <4>1. sink'.okay = ~sink'.updating
        <5>1. sink'.okay \in BOOLEAN /\ sink'.updating \in BOOLEAN
          BY <2>10 DEF Sinks
        <5> QED
          BY <3>5, <5>1
      <4> QED
        BY <3>5, <4>1 DEF NothingLost
    <3> DEFINE n == Len(M)
    (* what precedes the block *)
    <3>9. /\ n \in Nat /\ \E k \in 1 .. n :
               /\ M[k].kind = "cluster" /\ \A d \in 1 .. n : M[d].kind = "cluster" => d <= k
               /\ M[k].code = cluster - start /\ M[k].time = cluster - start
          /\ \/ \A i \in 1 .. n : M[i].kind # "block"
             \/ /\ ~first
                /\ \E a \in 1 .. n :
                     /\ M[a].kind = "block" /\ \A i \in 1 .. n : M[i].kind = "block" => i <= a
                     /\ M[a].time = lastTime - startTime
          /\ \A b \in 1 .. n : M[b].kind = "block" =>
               b \in Blocks(made) /\ \A i \in 1 .. b : M[i] = made[i]
      <4>1. CASE first
        <5>1. M = <<Header>> \o <<c>>
          <6>1. <<>> \o <<Header>> = <<Header>>
            BY <2>5, ConcatEmptySeq
          <6> QED
            BY <2>3, <3>2, <4>1, <6>1 DEF c
        <5>2. Len(<<Header>>) = 1 /\ <<Header>>[1] = Header /\ c \in Items
          BY <2>4 DEF c
        <5>3. n = 2 /\ M[1] = Header /\ M[2] = c
          <6> HIDE DEF M
          <6>1. /\ Len(<<Header>> \o <<c>>) = Len(<<Header>>) + 1
                /\ (<<Header>> \o <<c>>)[Len(<<Header>>) + 1] = c
                /\ \A i \in 1 .. Len(<<Header>>) : (<<Header>> \o <<c>>)[i] = <<Header>>[i]
            BY <2>5, <5>2, OneMore
          <6>2. Len(M) = 1 + 1 /\ M[1 + 1] = c /\ \A i \in 1 .. 1 : M[i] = <<Header>>[i]
            BY <5>1, <5>2, <6>1
          <6> QED
            BY <5>2, <6>2
        <5>4. n = 2 /\ M[1] = Header /\ M[2] = c
          BY <5>3
        <5>5. c.kind = "cluster" /\ c.code = cluster - start /\ c.time = cluster - start
          BY <2>3, <2>4, <4>1 DEF c
        <5> HIDE DEF n, M
        <5>6. \A i \in 1 .. n : (i = 1 /\ M[i].kind = "header") \/ (i = 2 /\ M[i].kind = "cluster")
          BY <2>4, <5>4, <5>5
        <5>7. \A i \in 1 .. n : M[i].kind # "block"
          BY <5>6
        <5>8. 2 \in 1 .. n /\ \A d \in 1 .. n : d <= 2
          BY <5>4
        <5> QED
          BY <5>4, <5>5, <5>7, <5>8
      <4>2. CASE ~first
        <5>1. /\ made # <<>> /\ start = startTime /\ made \o one = made /\ Len(made) \in Nat /\ Len(made) >= 1
          BY <1>3, <2>3, <2>7, <3>2, <4>2, LenProperties, EmptySeq
        <5>2. /\ made[Len(made)].kind = "block" /\ made[Len(made)].time = lastTime - startTime
              /\ \E k \in 1 .. Len(made) :
                   /\ made[k].kind = "cluster" /\ \A d \in 1 .. Len(made) : made[d].kind = "cluster" => d <= k
                   /\ made[k].code = clusterTime - startTime /\ made[k].time = clusterTime - startTime
          BY <1>1, <3>1, <5>1 DEF LastMade
        <5>3. DOMAIN made = 1 .. Len(made)
          BY <1>3, LenProperties
        <5>4. CASE ~cuts
          <6>1. M = made
            BY <2>7, <5>1, <5>4
          <6>2. cluster = clusterTime
            BY <2>3, <5>4
          <6> HIDE DEF M
          <6> QED
            BY <4>2, <5>1, <5>2, <5>3, <6>1, <6>2 DEF Blocks
        <5>5. CASE cuts
          <6>1. M = made \o <<c>>
            BY <5>1, <5>5 DEF c
          <6>2. c \in Items
            BY <2>4 DEF c
          <6>3. /\ Len(made \o <<c>>) = Len(made) + 1 /\ (made \o <<c>>)[Len(made) + 1] = c
                /\ \A i \in 1 .. Len(made) : (made \o <<c>>)[i] = made[i]
            BY <1>3, <6>2, OneMore
          <6>4. n = Len(made) + 1 /\ M[n] = c /\ \A i \in 1 .. n - 1 : M[i] = made[i]
            <7> HIDE DEF M
            <7>1. Len(M) = Len(made) + 1 /\ M[Len(made) + 1] = c /\ \A i \in 1 .. Len(made) : M[i] = made[i]
              BY <6>1, <6>3
            <7> QED
              BY <5>1, <7>1
          <6>5. c.kind = "cluster" /\ c.code = cluster - start /\ c.time = cluster - start
            BY <2>3, <2>4, <5>5 DEF c
          <6> HIDE DEF n, M
          <6>6. n \in 1 .. n /\ \A d \in 1 .. n : d <= n
            BY <5>1, <6>4
          <6>7. \A i \in 1 .. n : M[i].kind = "block" => i \in 1 .. n - 1
            BY <5>1, <6>4, <6>5
          <6>8. /\ Len(made) \in 1 .. n /\ M[Len(made)].kind = "block"
                /\ M[Len(made)].time = lastTime - startTime
                /\ \A i \in 1 .. n : M[i].kind = "block" => i <= Len(made)
            BY <5>1, <5>2, <6>4, <6>7
          <6>9. \A b \in 1 .. n : M[b].kind = "block" =>
                  b \in Blocks(made) /\ \A i \in 1 .. b : M[i] = made[i]
            BY <5>1, <5>3, <6>4, <6>7 DEF Blocks
          <6>10. M[n].kind = "cluster" /\ M[n].code = cluster - start /\ M[n].time = cluster - start
            BY <6>4, <6>5
          <6> QED
            BY <4>2, <5>1, <6>4, <6>6, <6>8, <6>9, <6>10
        <5> QED
          BY <5>4, <5>5
      <4> QED
        BY <4>1, <4>2
    <3>10. /\ Len(made') = n + 1 /\ made'[n + 1] = block /\ \A i \in 1 .. n : made'[i] = M[i]
           /\ DOMAIN made' = 1 .. n + 1
      BY <2>6, <3>6, LenProperties
    <3> HIDE DEF n, M
    <3>11. PICK k \in 1 .. n :
             /\ M[k].kind = "cluster" /\ \A d \in 1 .. n : M[d].kind = "cluster" => d <= k
             /\ M[k].code = cluster - start /\ M[k].time = cluster - start
      BY <3>9
    <3>12. /\ k \in 1 .. n + 1 /\ made'[k].kind = "cluster"
           /\ \A d \in 1 .. n + 1 : made'[d].kind = "cluster" => d <= k
           /\ made'[k].code = cluster - start /\ made'[k].time = cluster - start
      <4>1. \A d \in 1 .. n + 1 : made'[d].kind = "cluster" => d \in 1 .. n
        BY <2>4, <3>9, <3>10
      <4> QED
        BY <3>9, <3>10, <3>11, <4>1
    <3>13. LastMade'
      BY <2>1, <2>4, <3>10, <3>12 DEF LastMade
    <3>14. Timed(made', n + 1)
      <4>1. Coded(made', n + 1, k)
        <5>1. made'[n + 1].time - made'[k].time = t - cluster
          BY <2>2, <2>3, <2>4, <3>10, <3>12
        <5>2. t - cluster >= -(Wrap \div 2) => Signed((t - cluster) % Wrap) = t - cluster
          <6>1. t - cluster < MaxCluster /\ t - cluster \in Int
            BY <1>2, <2>2, <2>3
          <6> QED
            BY <6>1, SignedBack
        <5>3. (cluster - start) + (t - cluster) = t - start
          BY <2>2, <2>3
        <5> QED
          BY <2>4, <3>10, <3>12, <5>1, <5>2, <5>3 DEF Coded
      <4>2. CASE \A i \in 1 .. n : M[i].kind # "block"
        <5>1. \A i \in 1 .. (n + 1) - 1 : made'[i].kind # "block"
          BY <3>9, <3>10, <4>2
        <5> QED
          BY <3>12, <4>1, <5>1 DEF Timed
      <4>3. CASE ~first /\ \E a \in 1 .. n :
                   /\ M[a].kind = "block" /\ \A i \in 1 .. n : M[i].kind = "block" => i <= a
                   /\ M[a].time = lastTime - startTime
        <5>1. PICK a \in 1 .. n : /\ M[a].kind = "block" /\ \A i \in 1 .. n : M[i].kind = "block" => i <= a
                                  /\ M[a].time = lastTime - startTime
          BY <4>3
        <5>2. (t - start) - ((lastTime - startTime) + Step) = t - (lastTime + Step)
          BY <1>2, <1>3, <2>2, <2>3, <4>3
        <5>3. /\ a \in 1 .. (n + 1) - 1 /\ made'[a].kind = "block" /\ made'[a].time = lastTime - startTime
              /\ \A i \in 1 .. (n + 1) - 1 : made'[i].kind = "block" => i <= a
          BY <3>9, <3>10, <5>1
        <5>4. Follows(made', n + 1, a)
          BY <2>2, <2>4, <3>10, <4>3, <5>2, <5>3 DEF Follows
        <5> QED
          BY <3>12, <4>1, <5>3, <5>4 DEF Timed
      <4> QED
        BY <3>9, <4>2, <4>3
    <3>15. AllTimed'
      <4> SUFFICES ASSUME NEW b \in Blocks(made)' PROVE Timed(made', b)
        BY DEF AllTimed
      <4>1. b \in 1 .. n + 1 /\ made'[b].kind = "block"
        BY <3>10 DEF Blocks
      <4>2. CASE b = n + 1
        BY <3>14, <4>2
      <4>3. CASE b \in 1 .. n
        <5>1. b \in Blocks(made) /\ \A i \in 1 .. b : M[i] = made[i]
          BY <3>9, <3>10, <4>1, <4>3
        <5>2. Timed(made, b)
          BY <1>1, <3>1, <5>1 DEF AllTimed
        <5>3. b \in Nat /\ \A i \in 1 .. b : made'[i] = made[i]
          BY <3>9, <3>10, <4>3, <5>1
        <5> QED
          BY <5>2, <5>3, TimedBefore
      <4> QED
        BY <3>9, <4>1, <4>2, <4>3
    <3> QED
      BY <2>11, <3>7, <3>8, <3>13, <3>15 DEF PlaybackInv
  <2> QED
    BY <2>12, <2>13
<1> QED
  BY <1>4, <1>5

LEMMA PlaybackStep == PlaybackInv /\ [PlaybackNext]_playbackVars => PlaybackInv'
<1> SUFFICES ASSUME PlaybackInv, [PlaybackNext]_playbackVars PROVE PlaybackInv'
  OBVIOUS
<1>1. CASE UNCHANGED playbackVars
  <2>1. UNCHANGED <<opening, buffer, sink, stale, startTime, clusterTime, lastTime, made, upset, packets, starts>>
    BY <1>1 DEF playbackVars, times
  <2>2. PlaybackTypes' /\ Started' /\ NothingLost'
    BY <2>1 DEF PlaybackInv, PlaybackTypes, Started, NothingLost
  <2>3. LastMade' /\ AllTimed'
    BY <2>1, MadeKept
  <2> QED
    BY <2>2, <2>3 DEF PlaybackInv
<1>2. CASE PlaybackNext
  BY <1>2, StartAndOpenSteps, UpdateEndSteps, ModeAndStopSteps, DataStep DEF PlaybackNext
<1> QED
  BY <1>1, <1>2

LEMMA PlaybackInductive == PlaybackSpec => []PlaybackInv
<1> QED
  BY PlaybackBegins, PlaybackStep, PTL DEF PlaybackSpec

(* Times do not become negative, and the sink stays what it is.               *)
THEOREM PlaybackTyped == PlaybackSpec => []PlaybackTypeOK
<1> QED
  BY PlaybackInductive, PlaybackInvImplies, PTL

(* Unless the playback was upset, the buffer was given, or will be, all that  *)
(* was made of the packets, in order, and every block says its packet's time. *)
THEOREM SoundIsKept == PlaybackSpec => []SoundKept
<1> QED
  BY PlaybackInductive, PlaybackInvImplies, PTL
=============================================================================
