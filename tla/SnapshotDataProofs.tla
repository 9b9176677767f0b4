-------------------------- MODULE SnapshotDataProofs --------------------------
(***************************************************************************)
(* Proofs that SnapshotChain keeps the data of snapshots, for every set of *)
(* disks and number of images, as long as undoing a failed command works,  *)
(* the portal does not die between commands, and blockcommit stops at the  *)
(* base (Benign): commands may fail or take effect although they timed out.*)
(***************************************************************************)
EXTENDS SnapshotChainProofs

(* The snapshots whose data must last: the one offered for rollback, and the *)
(* available manual ones that no rollback has cut off.                       *)
CutOff(m) == \E s \in With("rolled_back"), d \in Disks : s \in ViewOf(m, d)
Frozen == With("active") \cup {m \in With("available") : ~CutOff(m)}

(* Rollback and clean-up move sources from an overlay down to its base.      *)
Movable == With("active") \cup With("expired")

(* What the domain should read: the sources it has, or those it had before a *)
(* define that timed out left it on the bases of a snapshot.                 *)
SourcesBelow(sources) == \A d \in Disks : sources[d] < next
SourcesComplete(sources) == \A d \in Disks : Complete(d, sources[d])

Used(sources, s, d) ==
  \/ s \in With("active")
  \/ s \in ChainOf(d, sources[d])
  \/ \E y \in Frozen : s \in ViewOf(y, d)

FrozenKept(sources) ==
  \A y \in Frozen :
    /\ y \notin spoiled /\ y \in xmls
    /\ \A d \in Disks : Complete(d, snaps[y].base[d]) /\ sources[d] \notin ViewOf(y, d)

(* While an overlay is of use, everything that depends on its base does so   *)
(* through the overlay; so a source never moves into frozen data.            *)
Funnelled(sources) ==
  \A d \in Disks, s \in Movable : Used(sources, s, d) =>
    /\ snaps[s].base[d] \in ChainOf(d, sources[d]) => s \in ChainOf(d, sources[d])
    /\ \A y \in Frozen \ {s} : snaps[s].base[d] \in ViewOf(y, d) => s \in ViewOf(y, d)

(* How the files lie on each other.                                          *)
Unmade == \A d \in Disks, n \in Serial : n >= next => image[d][n] = NoImage
Transitive ==
  \A d \in Disks, n \in Serial : \A g \in image[d][n].under : image[d][g].under \subseteq image[d][n].under
OnBase ==
  \A d \in Disks, n \in Serial : snaps[n].kind # "none" /\ image[d][n].where # "absent" =>
    /\ snaps[n].base[d] \in image[d][n].under
    /\ image[d][snaps[n].base[d]].where # "absent" => image[d][n].under = ChainOf(d, snaps[n].base[d])
Layout == Unmade /\ Transitive /\ OnBase

(* The snapshot offered for rollback is the newest of a resize, and nothing  *)
(* of a later resize lies on one that was rolled back.                       *)
ResizeOnly == \A s \in Movable : snaps[s].kind = "resize"
OneActive == \A s, t \in With("active") : s = t
Newest ==
  \A s \in With("active") \cup With("rolled_back"), n \in Serial, d \in Disks :
    snaps[n].kind = "resize" => s \notin image[d][n].under
Aside == \A d \in Disks, n \in Serial : image[d][n].where = "aside" <=> snaps[n].status = "rolled_back"
SpoiledOld == \A n \in spoiled : n < next
ActiveThere == \A s \in With("active"), d \in Disks : image[d][s].where = "live"

Health(sources) ==
  /\ Layout /\ ResizeOnly /\ OneActive /\ Newest /\ Aside /\ SpoiledOld /\ ActiveThere
  /\ SourcesBelow(sources) /\ SourcesComplete(sources) /\ FrozenKept(sources) /\ Funnelled(sources)

(* A define that timed out changes nothing but the domain, which is off, and *)
(* the next rollback or restore puts it right, unless it is used before.     *)
StraysOff == astray = "bases" => power = "shut off"
Sound ==
  \E sources \in [Disks -> Serial] : Health(sources) /\ (astray = "no" => sources = current)

(* The inductive invariant, on top of IInv. *)
Kept ==
  Benign /\ record = "completed" => Aside /\ StraysOff /\ (astray = "used" \/ Sound)

-----------------------------------------------------------------------------
(* What the invariant says of one chain, one frozen snapshot, one overlay. *)

LEMMA ChainFacts ==
  ASSUME IInv, NEW d \in Disks, NEW f \in Serial
  PROVE  /\ image[d][f] \in Image /\ image[d][f].under \subseteq Serial
         /\ ChainOf(d, f) \subseteq Serial /\ f \in ChainOf(d, f)
         /\ \A g \in ChainOf(d, f) : g = f \/ g < f
<1>1. image[d][f] \in Image
  BY Parts
<1>2. image[d][f].under \subseteq Serial
  BY <1>1, ImageParts
<1>3. \A g \in image[d][f].under : g < f
  BY Parts DEF FilesLayered
<1> QED
  BY <1>1, <1>2, <1>3 DEF ChainOf

LEMMA FrozenFacts ==
  ASSUME IInv, NEW src \in [Disks -> Serial], Health(src), NEW y \in Frozen
  PROVE  /\ y \in Serial /\ y < next /\ snaps[y].status \in {"active", "available"}
         /\ snaps[y].kind # "none" /\ snaps[y].base \in [Disks -> Serial]
         /\ y \notin spoiled /\ y \in xmls
         /\ \A d \in Disks :
              /\ snaps[y].base[d] < y /\ src[d] \notin ViewOf(y, d)
              /\ \A g \in ViewOf(y, d) : g \in Serial /\ g < y /\ image[d][g].where = "live"
<1>1. y \in Serial /\ snaps[y].status \in {"active", "available"}
  BY DEF Frozen, With
<1>2. /\ snaps[y].kind # "none" /\ y < next /\ snaps[y].base \in [Disks -> Serial]
      /\ \A d \in Disks : snaps[y].base[d] < y
  BY <1>1, Bases
<1>3. y \notin spoiled /\ y \in xmls
  BY DEF Health, FrozenKept
<1>4. ASSUME NEW d \in Disks
      PROVE  /\ src[d] \notin ViewOf(y, d)
             /\ \A g \in ViewOf(y, d) : g \in Serial /\ g < y /\ image[d][g].where = "live"
  <2> DEFINE b == snaps[y].base[d]
  <2>1. b \in Serial /\ b < y
    BY <1>2
  <2>2. Complete(d, b) /\ src[d] \notin ViewOf(y, d)
    BY DEF Health, FrozenKept
  <2> HIDE DEF b
  <2>3. ChainOf(d, b) \subseteq Serial /\ \A g \in ChainOf(d, b) : g = b \/ g < b
    BY <2>1, ChainFacts
  <2>4. \A g \in ChainOf(d, b) : g \in Serial /\ g < y
    BY <1>1, <2>1, <2>3, Parts
  <2>5. ViewOf(y, d) = ChainOf(d, b)
    BY DEF ViewOf, b
  <2> QED
    BY <2>2, <2>4, <2>5 DEF Complete
<1> QED
  BY <1>1, <1>2, <1>3, <1>4

LEMMA Overlaid ==
  ASSUME IInv, Layout, next \in Serial, next' = next + 1,
         NEW base \in [Disks -> Serial], \A d \in Disks : base[d] < next, PushOverlays(base)
  PROVE  /\ \A d \in Disks, n \in Serial : n # next => image'[d][n] = image[d][n]
         /\ \A d \in Disks : /\ image'[d][next].where = "live"
                             /\ image'[d][next].under = ChainOf(d, base[d])
         /\ \A d \in Disks, n \in Serial : n = next => ChainOf(d, n)' = {n} \cup ChainOf(d, base[d])
         /\ \A d \in Disks, f \in Serial : f < next =>
              ChainOf(d, f)' = ChainOf(d, f) /\ next \notin ChainOf(d, f)
         /\ Unmade' /\ Transitive'
<1> DEFINE overlay(d) == [where |-> "live", under |-> ChainOf(d, base[d])]
<1>0. next \in Nat /\ Serial \subseteq Nat /\ image \in [Disks -> [Serial -> Image]]
  BY Parts
<1>1. \A d \in Disks, n \in Serial :
        image'[d][n] = IF n = next THEN overlay(d) ELSE image[d][n]
  BY <1>0 DEF PushOverlays
<1>2. \A d \in Disks : image'[d][next].where = "live" /\ image'[d][next].under = ChainOf(d, base[d])
  <2> TAKE d \in Disks
  <2>1. ChainOf(d, base[d]) \in SUBSET Serial
    BY ChainFacts
  <2>2. overlay(d).where = "live" /\ overlay(d).under = ChainOf(d, base[d])
    BY <2>1, ImageParts
  <2> QED
    BY <1>1, <2>2
<1>3. \A d \in Disks, n \in Serial : n # next => image'[d][n] = image[d][n]
  BY <1>1
<1> HIDE DEF overlay
<1>4. ASSUME NEW d \in Disks, NEW f \in Serial, f < next
      PROVE  ChainOf(d, f)' = ChainOf(d, f) /\ next \notin ChainOf(d, f)
  <2>1. \A g \in ChainOf(d, f) : g = f \/ g < f
    BY ChainFacts
  <2>2. ChainOf(d, f) \subseteq Serial
    BY ChainFacts
  <2> QED
    BY <1>0, <1>3, <1>4, <2>1, <2>2 DEF ChainOf
<1>5. \A d \in Disks, n \in Serial : n = next => ChainOf(d, n)' = {n} \cup ChainOf(d, base[d])
  BY <1>2 DEF ChainOf
<1>6. Unmade'
  <2> SUFFICES ASSUME NEW d \in Disks, NEW n \in Serial, n >= next'
               PROVE  image'[d][n] = NoImage
    BY DEF Unmade
  <2>1. n # next /\ n >= next
    BY <1>0
  <2> QED
    BY <1>3, <2>1 DEF Layout, Unmade
<1>7. Transitive'
  <2> SUFFICES ASSUME NEW d \in Disks, NEW n \in Serial, NEW g \in image'[d][n].under
               PROVE  image'[d][g].under \subseteq image'[d][n].under
    BY DEF Transitive
  <2>1. CASE n = next
    <3>1. g \in ChainOf(d, base[d]) /\ g # next /\ g \in Serial
      BY <1>2, <1>4, <2>1, ChainFacts
    <3>2. image'[d][g] = image[d][g]
      BY <1>3, <3>1
    <3>3. image[d][g].under \subseteq ChainOf(d, base[d])
      BY <3>1 DEF ChainOf, Layout, Transitive
    <3> QED
      BY <1>2, <2>1, <3>2, <3>3
  <2>2. CASE n # next
    <3>1. image'[d][n] = image[d][n] /\ g \in image[d][n].under /\ g \in Serial
      BY <1>3, <2>2, ChainFacts
    <3>2. g # next
      <4>1. CASE n > next
        BY <3>1, <4>1, InitialTypes, <1>0 DEF Layout, Unmade
      <4>2. CASE n < next
        BY <3>1, <4>2, <1>4 DEF ChainOf
      <4> QED
        BY <1>0, <2>2, <4>1, <4>2
    <3> QED
      BY <1>3, <3>1, <3>2 DEF Layout, Transitive
  <2> QED
    BY <2>1, <2>2
<1> QED
  BY <1>2, <1>3, <1>4, <1>5, <1>6, <1>7

(* New overlays on complete chains, and sources that move to them or stay.   *)
LEMMA KeptPush ==
  ASSUME IInv, NEW src \in [Disks -> Serial], Health(src), NEW src2 \in [Disks -> Serial],
         next \in Serial, next' = next + 1,
         NEW base \in [Disks -> Serial],
         \A d \in Disks : base[d] < next /\ Complete(d, base[d]),
         PushOverlays(base),
         \/ src2 = src
         \/ /\ src2 = Overlays(next)
            /\ base = src \/ \E m \in Frozen : m \notin Movable /\ base = snaps[m].base,
         spoiled' = spoiled, xmls \subseteq xmls',
         \A n \in Serial : n # next =>
           /\ snaps'[n].kind = snaps[n].kind /\ snaps'[n].base = snaps[n].base
           /\ \/ snaps'[n].status = snaps[n].status
              \/ snaps[n].status = "active" /\ snaps'[n].status = "superseded",
         snaps'[next].base = base \/ snaps'[next].kind = "none",
         snaps'[next].status \in {"none", "active", "available"},
         snaps'[next].status # "none" =>
           snaps'[next].base = src /\ base = src /\ next \in xmls' /\ src2 = Overlays(next),
         snaps'[next].status = "active" =>
           snaps'[next].kind = "resize" /\ \A n \in Serial : n # next => snaps'[n].status # "active",
         snaps'[next].kind = "resize" => snaps'[next].status = "active"
  PROVE  Health(src2)'
<1> DEFINE chain(d) == {src2[d]} \cup image'[d][src2[d]].under
<1>0. /\ next \in Nat /\ Serial \subseteq Nat /\ next < next'
      /\ src \in [Disks -> Serial] /\ Layout
      /\ \A d \in Disks : src[d] < next /\ src[d] \in Serial
  BY Parts, NextSerial DEF SourcesBelow, Health
<1>1. /\ \A d \in Disks, n \in Serial : n # next => image'[d][n] = image[d][n]
      /\ \A d \in Disks : /\ image'[d][next].where = "live"
                          /\ image'[d][next].under = ChainOf(d, base[d])
      /\ \A d \in Disks, n \in Serial : n = next => ChainOf(d, n)' = {n} \cup ChainOf(d, base[d])
      /\ \A d \in Disks, f \in Serial : f < next =>
              ChainOf(d, f)' = ChainOf(d, f) /\ next \notin ChainOf(d, f)
      /\ Unmade' /\ Transitive'
  BY <1>0, Overlaid
<1>2. ASSUME NEW y \in Serial, snaps[y].kind # "none"
      PROVE  /\ y < next /\ y # next /\ snaps[y].base \in [Disks -> Serial]
             /\ \A d \in Disks : /\ snaps[y].base[d] < next /\ snaps[y].base[d] < y
                                 /\ ViewOf(y, d)' = ViewOf(y, d) /\ next \notin ViewOf(y, d)
  <2>1. y < next /\ y # next /\ \A d \in Disks : snaps[y].base[d] < y
    BY <1>0, <1>2, Parts DEF SnapsLayered
  <2>2. snaps[y].base \in [Disks -> Serial]
    BY Parts, SnapParts
  <2>3. ASSUME NEW d \in Disks PROVE snaps[y].base[d] < next /\ snaps[y].base[d] \in Serial
    <3>1. snaps[y].base[d] \in Serial /\ snaps[y].base[d] \in Nat /\ y \in Nat
      BY <1>0, <2>2
    <3> QED
      BY <1>0, <2>1, <3>1
  <2> QED
    BY <1>1, <2>1, <2>2, <2>3 DEF ViewOf
<1>3. \A n \in Serial : n = next /\ snaps'[n].status # "none" =>
        \A d \in Disks : ViewOf(n, d)' = ChainOf(d, src[d])
  <2> TAKE n \in Serial
  <2> HAVE n = next /\ snaps'[n].status # "none"
  <2> TAKE d \in Disks
  <2>1. ViewOf(n, d)' = {src[d]} \cup image'[d][src[d]].under
    BY DEF ViewOf, ChainOf
  <2>2. src[d] \in Serial /\ src[d] # next
    BY <1>0
  <2> QED
    BY <1>1, <2>1, <2>2 DEF ChainOf
<1>4. \A n \in Serial : snaps[n].status # "none" => snaps[n].kind # "none"
  BY Parts DEF SnapsLayered
<1>5. \A n \in Serial :
        /\ n \in With("rolled_back")' <=> n \in With("rolled_back")
        /\ n \in With("expired")' <=> n \in With("expired")
        /\ n \in With("active")' => n \in With("active") \/ n = next
        /\ n \in With("available")' => n \in With("available") \/ n = next
  <2>1. \A n \in Serial : n = next => snaps[n].status = "none"
    BY <1>2, <1>4
  <2> QED
    BY <2>1 DEF With
<1>6. \A y \in Frozen' : y \in Serial /\ (y \in Frozen \/ (y = next /\ snaps'[next].status # "none"))
  <2> SUFFICES ASSUME NEW y \in Serial, y \in Frozen', y # next
               PROVE  y \in Frozen
    BY DEF Frozen, With
  <2>1. CASE y \in With("active")'
    BY <1>5, <2>1 DEF Frozen
  <2>2. CASE y \in With("available")' /\ ~CutOff(y)'
    <3>1. y \in With("available") /\ snaps[y].kind # "none"
      BY <1>4, <1>5, <2>2 DEF With
    <3>2. ~CutOff(y)
      BY <1>2, <1>5, <2>2, <3>1 DEF CutOff, With
    <3> QED
      BY <3>1, <3>2 DEF Frozen
  <2> QED
    BY <2>1, <2>2 DEF Frozen
<1>7. \A d \in Disks :
        \/ src2[d] = src[d] /\ chain(d) = ChainOf(d, src[d])
        \/ /\ src2[d] = next /\ chain(d) = {next} \cup ChainOf(d, base[d])
           /\ base = src \/ \E m \in Frozen : m \notin Movable /\ base = snaps[m].base
  <2>1. CASE src2 = src
    <3>1. \A d \in Disks : src[d] \in Serial /\ src[d] # next
      BY <1>0
    <3>2. \A d \in Disks : {src[d]} \cup image'[d][src[d]].under = ChainOf(d, src[d])
      BY <1>1, <3>1 DEF ChainOf
    <3> QED
      BY <2>1, <3>2
  <2>2. CASE src2 = Overlays(next) /\ (base = src \/ \E m \in Frozen : m \notin Movable /\ base = snaps[m].base)
    BY <1>1, <2>2 DEF Overlays
  <2> QED
    BY <2>1, <2>2
<1> HIDE DEF chain
<1>8. \A d \in Disks : \A g \in ChainOf(d, base[d]) : g \in Serial /\ g # next /\ image'[d][g].where = "live"
                                                     /\ image[d][g].where = "live"
  BY <1>1, ChainFacts DEF Complete
<1>9. ASSUME NEW y \in Frozen
      PROVE  /\ y \in Serial /\ y # next
             /\ \A d \in Disks : /\ ViewOf(y, d)' = ViewOf(y, d) /\ next \notin ViewOf(y, d)
                                 /\ src[d] \notin ViewOf(y, d)
                                 /\ \A g \in ViewOf(y, d) : image'[d][g].where = "live"
  <2>1. y \in Serial /\ snaps[y].kind # "none"
    BY FrozenFacts
  <2>2. ASSUME NEW d \in Disks
        PROVE  /\ ViewOf(y, d)' = ViewOf(y, d) /\ next \notin ViewOf(y, d)
               /\ src[d] \notin ViewOf(y, d)
               /\ \A g \in ViewOf(y, d) : image'[d][g].where = "live"
    <3>1. src[d] \notin ViewOf(y, d) /\ \A g \in ViewOf(y, d) : g \in Serial /\ image[d][g].where = "live"
      BY FrozenFacts
    <3>2. ViewOf(y, d)' = ViewOf(y, d) /\ next \notin ViewOf(y, d)
      BY <1>2, <2>1
    <3> QED
      BY <1>1, <3>1, <3>2
  <2> QED
    BY <1>2, <2>1, <2>2
<1>10. Layout'
  <2> SUFFICES ASSUME NEW d \in Disks, NEW n \in Serial, snaps'[n].kind # "none",
                      image'[d][n].where # "absent"
               PROVE  /\ snaps'[n].base[d] \in image'[d][n].under
                      /\ image'[d][snaps'[n].base[d]].where # "absent" =>
                           image'[d][n].under = {snaps'[n].base[d]} \cup image'[d][snaps'[n].base[d]].under
    BY <1>1 DEF Layout, OnBase, ChainOf
  <2>1. CASE n = next
    <3>1. snaps'[n].base = base /\ base[d] \in Serial /\ base[d] < next
      BY <2>1
    <3>2. image'[d][base[d]] = image[d][base[d]]
      <4>1. base[d] \in Serial /\ base[d] # next
        BY <1>0, <3>1
      <4> QED
        BY <1>1, <4>1
    <3>3. image'[d][n].under = {base[d]} \cup image[d][base[d]].under
      BY <1>1, <2>1 DEF ChainOf
    <3> QED
      BY <3>1, <3>2, <3>3
  <2>2. CASE n # next
    <3>1. snaps[n].kind # "none" /\ snaps'[n].base = snaps[n].base
      BY <2>2
    <3>2. snaps[n].base[d] \in Serial /\ snaps[n].base[d] < next
      BY <1>2, <3>1
    <3> DEFINE b == snaps[n].base[d]
    <3>3. b \in Serial /\ b # next
      BY <1>0, <3>2
    <3>4. image'[d][n] = image[d][n] /\ image'[d][b] = image[d][b]
      BY <1>1, <2>2, <3>3
    <3>5. b \in image[d][n].under /\ (image[d][b].where # "absent" => image[d][n].under = {b} \cup image[d][b].under)
      <4>1. OnBase /\ snaps[n].kind # "none" /\ image[d][n].where # "absent"
        BY <1>0, <3>1, <3>4 DEF Layout
      <4> QED
        BY <4>1 DEF OnBase, ChainOf
    <3> QED
      BY <3>1, <3>4, <3>5
  <2> QED
    BY <2>1, <2>2
<1>11. ResizeOnly' /\ OneActive' /\ ActiveThere' /\ Aside' /\ SpoiledOld'
  <2>1. ResizeOnly'
    BY <1>5 DEF Health, ResizeOnly, Movable, With
  <2>2. OneActive'
    BY <1>5 DEF Health, OneActive, With
  <2>3. ActiveThere'
    BY <1>1, <1>5 DEF Health, ActiveThere, With
  <2>4. Aside'
    <3> SUFFICES ASSUME NEW d \in Disks, NEW n \in Serial
                 PROVE  image'[d][n].where = "aside" <=> snaps'[n].status = "rolled_back"
      BY DEF Aside
    <3> QED
      BY <1>1 DEF Health, Aside
  <2>5. SpoiledOld'
    <3>1. \A n \in spoiled : n \in Nat /\ n < next
      BY <1>0, Parts DEF Health, SpoiledOld
    <3> QED
      BY <1>0, <3>1 DEF SpoiledOld
  <2> QED
    BY <2>1, <2>2, <2>3, <2>4, <2>5
<1>12. Newest'
  <2> SUFFICES ASSUME NEW s \in Serial, NEW n \in Serial, NEW d \in Disks,
                      s \in With("active")' \/ s \in With("rolled_back")',
                      snaps'[n].kind = "resize", s \in image'[d][n].under
               PROVE  FALSE
    BY DEF Newest, With
  <2>1. CASE n = next
    <3>1. s \in ChainOf(d, base[d]) /\ snaps'[next].status = "active"
      BY <1>1, <2>1
    <3>2. s \notin With("active")'
      BY <1>8, <3>1 DEF With
    <3>3. s \in With("rolled_back")
      BY <1>5, <3>2
    <3> QED
      BY <1>8, <3>1, <3>3 DEF Health, Aside, With
  <2>2. CASE n # next
    <3>1. snaps[n].kind = "resize" /\ n < next /\ s \in image[d][n].under
      BY <1>1, <1>2, <2>2
    <3>2. s # next
      BY <1>1, <3>1 DEF ChainOf
    <3> QED
      BY <1>5, <3>1, <3>2 DEF Health, Newest
  <2> QED
    BY <2>1, <2>2
<1>13. SourcesComplete(src2)'
  <2> SUFFICES ASSUME NEW d \in Disks PROVE \A g \in chain(d) : image'[d][g].where = "live"
    BY DEF SourcesComplete, Complete, ChainOf, chain
  <2>1. \A g \in ChainOf(d, src[d]) : g \in Serial /\ g # next /\ image[d][g].where = "live"
    <3>1. src[d] \in Serial /\ src[d] < next
      BY <1>0
    <3>2. next \notin ChainOf(d, src[d]) /\ ChainOf(d, src[d]) \subseteq Serial
      BY <1>1, <3>1, ChainFacts
    <3> QED
      BY <3>2 DEF Health, SourcesComplete, Complete
  <2>2. \A g \in ChainOf(d, src[d]) : image'[d][g].where = "live"
    BY <1>1, <2>1
  <2>3. \A g \in ChainOf(d, base[d]) : image'[d][g].where = "live"
    BY <1>8
  <2>4. image'[d][next].where = "live"
    BY <1>1
  <2> QED
    BY <1>7, <2>2, <2>3, <2>4
<1>14. FrozenKept(src2)'
  <2> SUFFICES ASSUME NEW y \in Serial, y \in Frozen'
               PROVE  /\ y \notin spoiled' /\ y \in xmls'
                      /\ \A d \in Disks : /\ \A g \in ViewOf(y, d)' : image'[d][g].where = "live"
                                          /\ src2[d] \notin ViewOf(y, d)'
    BY DEF FrozenKept, Frozen, With, Complete, ViewOf
  <2>1. CASE y \in Frozen
    <3>1. y \notin spoiled' /\ y \in xmls'
      BY <2>1, FrozenFacts
    <3> QED
      BY <1>7, <1>9, <2>1, <3>1
  <2>2. CASE y = next /\ snaps'[next].status # "none"
    <3>1. y \notin spoiled' /\ y \in xmls' /\ base = src /\ src2 = Overlays(next)
      BY <1>0, <2>2 DEF Health, SpoiledOld
    <3>2. \A d \in Disks : ViewOf(y, d)' = ChainOf(d, base[d]) /\ src2[d] = next
      BY <1>3, <2>2, <3>1 DEF Overlays
    <3> QED
      BY <1>8, <3>1, <3>2
  <2> QED
    BY <1>6, <2>1, <2>2
<1>15. Funnelled(src2)'
  <2> SUFFICES ASSUME NEW d \in Disks, NEW s \in Serial, s \in Movable', Used(src2, s, d)'
               PROVE  /\ snaps'[s].base[d] \in chain(d) => s \in chain(d)
                      /\ \A y \in Frozen' \ {s} : snaps'[s].base[d] \in ViewOf(y, d)' => s \in ViewOf(y, d)'
    BY DEF Funnelled, Movable, With, ChainOf, chain
  <2>1. CASE s = next
    <3>1. snaps'[s].status = "active" /\ snaps'[s].base = src /\ src2 = Overlays(next)
      BY <1>2, <1>4, <1>5, <2>1 DEF Movable, With
    <3>2. s \in chain(d)
      BY <2>1, <3>1 DEF chain, Overlays
    <3>3. \A y \in Frozen' \ {s} : y \in Frozen /\ ViewOf(y, d)' = ViewOf(y, d) /\ src[d] \notin ViewOf(y, d)
      BY <1>6, <1>9, <2>1
    <3> QED
      BY <3>1, <3>2, <3>3
  <2>2. CASE s # next
    <3>1. s \in Movable /\ snaps'[s].base = snaps[s].base /\ snaps[s].base[d] \in Serial /\ snaps[s].base[d] < next
      BY <1>2, <1>4, <1>5, <2>2 DEF Movable, With
    <3>2. Used(src, s, d)
      <4>1. CASE s \in With("active")'
        BY <1>5, <2>2, <4>1 DEF Used
      <4>2. CASE s \in chain(d)
        <5>1. CASE s \in ChainOf(d, src[d])
          BY <5>1 DEF Used
        <5>2. ASSUME NEW m \in Frozen, base = snaps[m].base, s \in ChainOf(d, base[d])
              PROVE  Used(src, s, d)
          BY <5>2 DEF Used, ViewOf
        <5> QED
          BY <1>7, <2>2, <4>2, <5>1, <5>2
      <4>3. ASSUME NEW y \in Frozen', s \in ViewOf(y, d)'
            PROVE  Used(src, s, d)
        BY <1>3, <1>6, <1>9, <4>3 DEF Used
      <4> QED
        BY <2>2, <4>1, <4>2, <4>3 DEF Used, chain, ChainOf
    <3> DEFINE b == snaps[s].base[d]
    <3>3. /\ b \in ChainOf(d, src[d]) => s \in ChainOf(d, src[d])
          /\ \A y \in Frozen \ {s} : b \in ViewOf(y, d) => s \in ViewOf(y, d)
      BY <3>1, <3>2 DEF Health, Funnelled
    <3>4. b # next
      BY <1>0, <3>1
    <3> HIDE DEF b
    <3>5. b \in chain(d) => s \in chain(d)
      <4>1. ASSUME NEW m \in Frozen, m \notin Movable, base = snaps[m].base, b \in ChainOf(d, base[d])
            PROVE  s \in ChainOf(d, base[d])
        BY <3>1, <3>3, <4>1 DEF ViewOf
      <4> QED
        BY <1>7, <3>3, <3>4, <4>1
    <3>6. \A y \in Frozen' \ {s} : b \in ViewOf(y, d)' => s \in ViewOf(y, d)'
      BY <1>3, <1>6, <1>9, <3>3
    <3> QED
      BY <3>1, <3>5, <3>6 DEF b
  <2> QED
    BY <2>1, <2>2
<1>16. SourcesBelow(src2)'
  <2> SUFFICES ASSUME NEW d \in Disks PROVE src2[d] < next'
    BY DEF SourcesBelow
  <2>1. src[d] \in Nat /\ src[d] < next
    BY <1>0
  <2> QED
    BY <1>0, <1>7, <2>1
<1> QED
  BY <1>10, <1>11, <1>12, <1>13, <1>14, <1>15, <1>16 DEF Health

LEMMA Relabels ==
  ASSUME IInv, NEW changed \in SUBSET Serial, NEW status, NEW n \in Serial
  PROVE  LET new == Relabelled(changed, status)[n] IN
         /\ new.kind = snaps[n].kind /\ new.base = snaps[n].base
         /\ new.status = IF n \in changed THEN status ELSE snaps[n].status
<1>1. snaps[n] \in Snap
  BY Parts
<1>2. [snaps[n] EXCEPT !.status = status] =
        [kind |-> snaps[n].kind, status |-> status, base |-> snaps[n].base]
  BY <1>1, SnapParts
<1> QED
  BY <1>2 DEF Relabelled

LEMMA SourcesFacts ==
  ASSUME IInv, NEW src \in [Disks -> Serial], Health(src)
  PROVE  \A d \in Disks : src[d] < next /\ Complete(d, src[d])
BY DEF Health, SourcesBelow, SourcesComplete

(* What becomes of the earlier snapshots when one is made. *)
LEMMA Superseded ==
  ASSUME IInv, NEW kind \in {"resize", "manual"}
  PROVE  /\ Superseding(kind) \in [Serial -> Snap]
         /\ \A n \in Serial :
              /\ Superseding(kind)[n].kind = snaps[n].kind /\ Superseding(kind)[n].base = snaps[n].base
              /\ Superseding(kind)[n].status =
                   IF kind = "resize" /\ snaps[n].status = "active" THEN "superseded" ELSE snaps[n].status
<1> DEFINE changed == {n \in Serial : kind = "resize" /\ snaps[n].status = "active"}
<1>1. Superseding(kind) = Relabelled(changed, "superseded") /\ changed \in SUBSET Serial
  BY DEF Superseding, Relabelled
<1>2. "superseded" \in SnapStatus /\ \A n \in changed : snaps[n].kind # "none"
  BY Parts DEF SnapStatus, SnapsLayered
<1>3. \A n \in Serial : n \in changed <=> kind = "resize" /\ snaps[n].status = "active"
  OBVIOUS
<1> HIDE DEF changed
<1>4. Superseding(kind) \in [Serial -> Snap]
  BY <1>1, <1>2, Restating
<1>5. \A n \in Serial :
        /\ Superseding(kind)[n].kind = snaps[n].kind /\ Superseding(kind)[n].base = snaps[n].base
        /\ Superseding(kind)[n].status = IF n \in changed THEN "superseded" ELSE snaps[n].status
  BY <1>1, Relabels
<1> QED
  BY <1>3, <1>4, <1>5

LEMMA KeptCreate ==
  ASSUME IInv, NEW src \in [Disks -> Serial], Health(src), src = current,
         NEW src2 \in [Disks -> Serial], src2 = current', NEW kind \in {"resize", "manual"},
         CreateSnapshot(kind) \/ CreateUnrecorded(kind)
  PROVE  Health(src2)'
<1>1. /\ next \in Serial /\ next' = next + 1 /\ PushOverlays(src) /\ src2 = Overlays(next)
      /\ xmls' = xmls \cup {next} /\ spoiled' = spoiled
  BY DEF CreateSnapshot, CreateUnrecorded, MayCreate, SwitchTo
<1>2. \A n \in Serial : n = next => snaps[n].kind = "none" /\ snaps[n].status = "none"
  BY Parts DEF SnapsLayered
<1>3. CASE UNCHANGED snaps
  BY <1>1, <1>2, <1>3, SourcesFacts, KeptPush
<1>4. CASE CreateSnapshot(kind)
  <2> DEFINE new == [kind |-> kind, base |-> src, status |-> IF kind = "resize" THEN "active" ELSE "available"]
             old == Superseding(kind)
  <2>1. snaps' = [old EXCEPT ![next] = new]
    BY <1>4 DEF CreateSnapshot
  <2>2. new.kind = kind /\ new.base = src /\ new.status = IF kind = "resize" THEN "active" ELSE "available"
    OBVIOUS
  <2>3. /\ old \in [Serial -> Snap]
        /\ \A n \in Serial :
             /\ old[n].kind = snaps[n].kind /\ old[n].base = snaps[n].base
             /\ old[n].status =
                  IF kind = "resize" /\ snaps[n].status = "active" THEN "superseded" ELSE snaps[n].status
    BY Superseded
  <2> HIDE DEF new, old
  <2>4. snaps'[next] = new /\ \A n \in Serial : n # next => snaps'[n] = old[n]
    BY <1>1, <2>1, <2>3
  <2>5. \A n \in Serial : n # next =>
           /\ snaps'[n].kind = snaps[n].kind /\ snaps'[n].base = snaps[n].base
           /\ snaps'[n].status =
                IF kind = "resize" /\ snaps[n].status = "active" THEN "superseded" ELSE snaps[n].status
    BY <2>3, <2>4
  <2>6. /\ snaps'[next].kind = kind /\ snaps'[next].base = src
        /\ snaps'[next].status = IF kind = "resize" THEN "active" ELSE "available"
    BY <2>2, <2>4
  <2>7. snaps'[next].status = "active" => \A n \in Serial : n # next => snaps'[n].status # "active"
    BY <2>5, <2>6
  <2> QED
    BY <1>1, <2>5, <2>6, <2>7, SourcesFacts, KeptPush
<1> QED
  BY <1>3, <1>4 DEF CreateUnrecorded

LEMMA KeptRestore ==
  ASSUME IInv, NEW src \in [Disks -> Serial], Health(src), NEW src2 \in [Disks -> Serial], NEW m \in Serial,
         NEW kind \in {"restore", "recovery", "none"},
         \/ Restore(m) /\ kind = "restore" /\ src2 = current'
         \/ RestoreUndone(m, kind) /\ src2 = src
  PROVE  Health(src2)'
<1>1. /\ next \in Serial /\ next' = next + 1 /\ PushOverlays(snaps[m].base)
      /\ src2 = src \/ src2 = Overlays(next)
      /\ xmls \subseteq xmls' /\ spoiled' = spoiled /\ MayRestore(m)
      /\ \A d \in Disks : Complete(d, snaps[m].base[d])
  BY DEF Restore, RestoreUndone, MayRestore, SwitchTo, BasesComplete
<1>2. /\ snaps[m].status = "available" /\ snaps[m].base \in [Disks -> Serial]
      /\ \A d \in Disks : snaps[m].base[d] < next
  BY <1>1, Bases DEF MayRestore
<1>3. ~CutOff(m)
  <2> SUFFICES ASSUME NEW s \in With("rolled_back"), NEW d \in Disks, s \in ViewOf(m, d) PROVE FALSE
    BY DEF CutOff
  <2>1. s \in Serial /\ image[d][s].where = "aside"
    BY DEF Health, Aside, With
  <2>2. image[d][s].where = "live"
    BY <1>1 DEF Complete, ViewOf
  <2> QED
    BY <2>1, <2>2
<1>4. m \in Frozen /\ m \notin Movable
  BY <1>2, <1>3 DEF Frozen, Movable, With
<1>5. Branch(m, kind)
  BY DEF Restore, RestoreUndone
<1> DEFINE new == [kind |-> kind, status |-> "none", base |-> snaps[m].base]
<1>6. new.kind = kind /\ new.status = "none" /\ new.base = snaps[m].base
  OBVIOUS
<1> HIDE DEF new
<1>7. /\ snaps'[next] = IF kind = "none" THEN snaps[next] ELSE new
      /\ \A n \in Serial : n # next => snaps'[n] = snaps[n]
  BY <1>1, <1>5, Parts DEF Branch, new
<1>8. \A n \in Serial : n = next => snaps[n].kind = "none" /\ snaps[n].status = "none"
  BY Parts DEF SnapsLayered
<1>9. /\ snaps'[next].kind = kind /\ snaps'[next].status = "none"
      /\ snaps'[next].base = snaps[m].base \/ snaps'[next].kind = "none"
      /\ \A n \in Serial : n # next =>
           /\ snaps'[n].kind = snaps[n].kind /\ snaps'[n].base = snaps[n].base
           /\ snaps'[n].status = snaps[n].status
  BY <1>1, <1>6, <1>7, <1>8
<1>10. /\ next \in Serial /\ next' = next + 1 /\ spoiled' = spoiled /\ xmls \subseteq xmls'
       /\ \A d \in Disks : snaps[m].base[d] < next /\ Complete(d, snaps[m].base[d])
       /\ \/ src2 = src
          \/ src2 = Overlays(next) /\ \E k \in Frozen : k \notin Movable /\ snaps[m].base = snaps[k].base
  BY <1>1, <1>2, <1>4
<1> QED
  BY <1>1, <1>2, <1>9, <1>10, KeptPush

(* Steps that leave files, sources and records alone. *)
LEMMA KeptQuiet ==
  ASSUME IInv, NEW src \in [Disks -> Serial], Health(src), UNCHANGED <<image, snaps>>,
         next' \in Nat, next' >= next, xmls \subseteq xmls',
         \A n \in spoiled' : n \in spoiled \/ (n \in Serial /\ n < next /\ n \notin Frozen)
  PROVE  Health(src)'
<1>0. next \in Nat /\ Serial \subseteq Nat /\ spoiled \subseteq Serial
  BY Parts
<1>1. Layout'
  <2>1. Unmade'
    BY <1>0 DEF Health, Layout, Unmade
  <2> QED
    BY <2>1 DEF Health, Layout, Transitive, OnBase, ChainOf
<1>2. SpoiledOld'
  <2>1. \A n \in spoiled' : n \in Nat /\ n < next
    BY <1>0 DEF Health, SpoiledOld
  <2> QED
    BY <1>0, <2>1 DEF SpoiledOld
<1>3. Frozen' = Frozen
  BY DEF Frozen, CutOff, With, ViewOf, ChainOf
<1>4. FrozenKept(src)'
  <2>1. \A y \in Frozen : y \notin spoiled' /\ y \in xmls'
    BY DEF Health, FrozenKept
  <2> QED
    BY <1>3, <2>1 DEF Health, FrozenKept, Complete, ViewOf, ChainOf
<1>5. Funnelled(src)'
  <2>1. /\ Movable' = Movable /\ With("active")' = With("active")
        /\ \A d \in Disks, f \in Serial : ChainOf(d, f)' = ChainOf(d, f)
        /\ \A d \in Disks, y \in Serial : ViewOf(y, d)' = ViewOf(y, d)
    BY DEF Movable, With, ViewOf, ChainOf
  <2>2. \A s \in Movable, d \in Disks : Used(src, s, d)' <=> Used(src, s, d)
    BY <1>3 DEF Used, With, ViewOf, ChainOf
  <2> QED
    BY <1>3, <2>1, <2>2 DEF Health, Funnelled, ViewOf, ChainOf
<1>6. ResizeOnly' /\ OneActive' /\ Newest' /\ Aside' /\ SourcesComplete(src)' /\ ActiveThere'
  BY DEF Health, ResizeOnly, OneActive, Newest, Aside, SourcesComplete, ActiveThere,
         Movable, With, Complete, ChainOf
<1>7. SourcesBelow(src)'
  <2>1. \A d \in Disks : src[d] \in Nat /\ src[d] < next
    BY <1>0, SourcesFacts
  <2> QED
    BY <1>0, <2>1 DEF SourcesBelow
<1> QED
  BY <1>1, <1>2, <1>4, <1>5, <1>6, <1>7 DEF Health

(* Steps that only give snapshots another status: expiry, and the deletion   *)
(* of a manual snapshot.                                                     *)
LEMMA KeptRelabel ==
  ASSUME IInv, NEW src \in [Disks -> Serial], Health(src), UNCHANGED <<image, next, spoiled>>,
         \A n \in Serial :
           /\ snaps'[n].kind = snaps[n].kind /\ snaps'[n].base = snaps[n].base
           /\ \/ snaps'[n].status = snaps[n].status
              \/ snaps[n].status = "active" /\ snaps'[n].status = "expired"
              \/ snaps[n].status = "available" /\ snaps'[n].status = "deleted"
           /\ n \in xmls /\ n \notin xmls' => snaps'[n].status = "deleted"
  PROVE  Health(src)'
<1>0. xmls \subseteq Serial
  BY Parts
<1>1. \A d \in Disks, n \in Serial : ViewOf(n, d)' = ViewOf(n, d) /\ ChainOf(d, n)' = ChainOf(d, n)
  BY DEF ViewOf, ChainOf
<1>2. /\ With("rolled_back")' = With("rolled_back") /\ With("active")' \subseteq With("active")
      /\ With("available")' \subseteq With("available") /\ Movable' \subseteq Movable
      /\ With("active") \subseteq Serial /\ With("available") \subseteq Serial /\ Movable \subseteq Serial
  BY DEF With, Movable
<1>3. Frozen' \subseteq Frozen /\ Frozen \subseteq Serial
  BY <1>1, <1>2 DEF Frozen, CutOff
<1>4. Layout'
  BY DEF Health, Layout, Unmade, Transitive, OnBase, ChainOf
<1>5. FrozenKept(src)'
  <2> SUFFICES ASSUME NEW y \in Frozen'
               PROVE  /\ y \notin spoiled' /\ y \in xmls'
                      /\ \A d \in Disks : /\ \A g \in ViewOf(y, d)' : image'[d][g].where = "live"
                                          /\ src[d] \notin ViewOf(y, d)'
    BY DEF FrozenKept, Complete, ViewOf
  <2>1. y \in Frozen /\ y \in Serial /\ snaps'[y].status # "deleted"
    BY <1>3 DEF Frozen, With
  <2> QED
    BY <1>1, <2>1, FrozenFacts
<1>6. Funnelled(src)'
  <2> SUFFICES ASSUME NEW d \in Disks, NEW s \in Movable', Used(src, s, d)'
               PROVE  /\ snaps'[s].base[d] \in ChainOf(d, src[d]) => s \in ChainOf(d, src[d])
                      /\ \A y \in Frozen' \ {s} : snaps'[s].base[d] \in ViewOf(y, d)' => s \in ViewOf(y, d)'
    BY DEF Funnelled, ChainOf
  <2>1. s \in Movable /\ s \in Serial /\ snaps'[s].base = snaps[s].base
    BY <1>2
  <2>2. Used(src, s, d)
    BY <1>1, <1>2, <1>3 DEF Used, ChainOf
  <2> QED
    BY <1>1, <1>3, <2>1, <2>2 DEF Health, Funnelled
<1>7. ResizeOnly' /\ OneActive' /\ ActiveThere'
  BY <1>2 DEF Health, ResizeOnly, OneActive, ActiveThere
<1>8. Newest'
  BY <1>2 DEF Health, Newest
<1>9. Aside' /\ SourcesBelow(src)' /\ SourcesComplete(src)' /\ SpoiledOld'
  BY DEF Health, Aside, SourcesBelow, SourcesComplete, SpoiledOld, Complete, ChainOf
<1> QED
  BY <1>4, <1>5, <1>6, <1>7, <1>8, <1>9 DEF Health

(* Rollback: the overlays move aside and the sources back to their bases;    *)
(* manual snapshots on the overlays are cut off, the others do not use them. *)
LEMMA KeptRollback ==
  ASSUME IInv, NEW src \in [Disks -> Serial], Health(src), NEW src2 \in [Disks -> Serial], src2 = current',
         NEW s \in Serial, Rollback(s)
  PROVE  Health(src2)'
<1>0. /\ snaps[s].status = "active" /\ SetAside(s, Disks) /\ src2 = snaps[s].base
      /\ snaps' = [snaps EXCEPT ![s].status = "rolled_back"]
      /\ UNCHANGED <<next, xmls, spoiled>>
  BY DEF Rollback, MayRollback, SwitchTo
<1>1. s \in Frozen /\ s \in Movable /\ s \in With("active")
  BY <1>0 DEF Frozen, Movable, With
<1>2. \A d \in Disks, n \in Serial :
        /\ image'[d][n].under = image[d][n].under
        /\ image'[d][n].where = IF n = s THEN "aside" ELSE image[d][n].where
  <2> TAKE d \in Disks, n \in Serial
  <2>1. image[d] \in [Serial -> Image] /\ image[d][s] \in Image
    BY Parts
  <2>2. image'[d] = [image[d] EXCEPT ![s] = [image[d][s] EXCEPT !.where = "aside"]]
    BY <1>0, <2>1 DEF SetAside
  <2>3. image'[d][n] = IF n = s THEN [where |-> "aside", under |-> image[d][s].under] ELSE image[d][n]
    BY <2>1, <2>2, ImageParts
  <2> QED
    BY <2>1, <2>3, ImageParts
<1>3. \A n \in Serial :
        /\ snaps'[n].kind = snaps[n].kind /\ snaps'[n].base = snaps[n].base
        /\ snaps'[n].status = IF n = s THEN "rolled_back" ELSE snaps[n].status
  <2>1. snaps' = Relabelled({s}, "rolled_back")
    BY <1>0, OneRelabelled
  <2> QED
    BY <2>1, Relabels
<1>4. \A n \in Serial : snaps'[n].status # "active"
  BY <1>0, <1>1, <1>3 DEF Health, OneActive, With
<1>5. \A d \in Disks, n \in Serial : ChainOf(d, n)' = ChainOf(d, n)
  BY <1>2 DEF ChainOf
<1>6. \A d \in Disks, n \in Serial : snaps[n].base[d] \in Serial /\ ViewOf(n, d)' = ViewOf(n, d)
  <2> TAKE d \in Disks, n \in Serial
  <2>1. snaps[n].base \in [Disks -> Serial] /\ snaps'[n].base = snaps[n].base
    BY <1>3, Parts, SnapParts
  <2>2. snaps[n].base[d] \in Serial
    BY <2>1
  <2> QED
    BY <1>2, <2>1, <2>2 DEF ViewOf, ChainOf
<1>7. \A y \in Frozen' : y \in Frozen /\ y # s /\ y \in Serial /\ \A d \in Disks : s \notin ViewOf(y, d)
  <2> TAKE y \in Frozen'
  <2>1. y \in Serial /\ snaps'[y].status = "available" /\ ~CutOff(y)'
    BY <1>4 DEF Frozen, With
  <2>2. \A n \in Serial : n \in With("rolled_back") \/ n = s => n \in With("rolled_back")'
    BY <1>3 DEF With
  <2>3. \A n \in Serial, d \in Disks : n \in With("rolled_back") \/ n = s => n \notin ViewOf(y, d)
    BY <1>6, <2>1, <2>2 DEF CutOff
  <2>4. y \in With("available") /\ y # s /\ ~CutOff(y)
    BY <1>3, <2>1, <2>3 DEF CutOff, With
  <2> QED
    BY <2>1, <2>3, <2>4 DEF Frozen
<1>8. \A d \in Disks : \A g \in ViewOf(s, d) : g \in Serial /\ g # s /\ image[d][g].where = "live"
  <2> SUFFICES ASSUME NEW d \in Disks, NEW g \in ViewOf(s, d)
               PROVE  g \in Serial /\ g # s /\ image[d][g].where = "live"
    OBVIOUS
  <2>1. g \in Serial /\ g < s /\ image[d][g].where = "live"
    BY <1>1, FrozenFacts
  <2> QED
    BY <2>1, Parts
<1>9. Layout'
  <2>1. Unmade'
    <3> SUFFICES ASSUME NEW d \in Disks, NEW n \in Serial, n >= next PROVE image'[d][n] = NoImage
      BY <1>0 DEF Unmade
    <3>1. n # s
      BY <1>0, Bases, Parts
    <3>2. image'[d][n] = image[d][n]
      BY <1>0, <3>1, Parts DEF SetAside
    <3> QED
      BY <3>2 DEF Health, Layout, Unmade
  <2>2. Transitive'
    <3> SUFFICES ASSUME NEW d \in Disks, NEW n \in Serial, NEW g \in image'[d][n].under
                 PROVE  image'[d][g].under \subseteq image'[d][n].under
      BY DEF Transitive
    <3>1. g \in image[d][n].under /\ g \in Serial
      BY <1>2, ChainFacts
    <3> QED
      BY <1>2, <3>1 DEF Health, Layout, Transitive
  <2>3. OnBase'
    <3> SUFFICES ASSUME NEW d \in Disks, NEW n \in Serial,
                        snaps'[n].kind # "none", image'[d][n].where # "absent"
                 PROVE  /\ snaps'[n].base[d] \in image'[d][n].under
                        /\ image'[d][snaps'[n].base[d]].where # "absent" =>
                             image'[d][n].under = {snaps'[n].base[d]} \cup image'[d][snaps'[n].base[d]].under
      BY DEF OnBase, ChainOf
    <3> DEFINE b == snaps[n].base[d]
    <3>1. \A k \in Serial : image'[d][k].where # "absent" => image[d][k].where # "absent"
      BY <1>0, <1>2 DEF MayRollback, Health, ActiveThere, With
    <3>2. snaps[n].kind # "none" /\ snaps'[n].base[d] = b /\ b \in Serial
      BY <1>3, <1>6
    <3>3. b \in image[d][n].under /\ (image[d][b].where # "absent" => image[d][n].under = {b} \cup image[d][b].under)
      BY <3>1, <3>2 DEF Health, Layout, OnBase, ChainOf
    <3> HIDE DEF b
    <3> QED
      BY <1>2, <3>1, <3>2, <3>3
  <2> QED
    BY <2>1, <2>2, <2>3 DEF Layout
<1>10. ResizeOnly' /\ OneActive' /\ ActiveThere'
  BY <1>3, <1>4 DEF Health, ResizeOnly, OneActive, ActiveThere, Movable, With
<1>11. Newest'
  <2> SUFFICES ASSUME NEW t \in Serial, NEW n \in Serial, NEW d \in Disks,
                      snaps'[t].status = "rolled_back", snaps'[n].kind = "resize"
               PROVE  t \notin image'[d][n].under
    BY <1>4 DEF Newest, With
  <2>1. t \in With("active") \cup With("rolled_back") /\ snaps[n].kind = "resize"
    BY <1>1, <1>3 DEF With
  <2> QED
    BY <1>2, <2>1 DEF Health, Newest
<1>12. Aside'
  BY <1>2, <1>3 DEF Health, Aside
<1>13. SpoiledOld'
  BY <1>0 DEF Health, SpoiledOld
<1>14. SourcesComplete(src2)'
  <2> SUFFICES ASSUME NEW d \in Disks, NEW g \in ChainOf(d, snaps[s].base[d]) PROVE image'[d][g].where = "live"
    BY <1>0, <1>2, <1>6 DEF SourcesComplete, Complete, ChainOf
  <2> QED
    BY <1>2, <1>8 DEF ViewOf
<1>15. \A y \in Frozen', d \in Disks : snaps[s].base[d] \notin ViewOf(y, d)
  <2> SUFFICES ASSUME NEW y \in Frozen', NEW d \in Disks, snaps[s].base[d] \in ViewOf(y, d) PROVE FALSE
    OBVIOUS
  <2>1. Used(src, s, d) /\ y \in Frozen \ {s}
    BY <1>1, <1>7 DEF Used
  <2>2. s \in ViewOf(y, d)
    BY <1>1, <2>1 DEF Health, Funnelled
  <2> QED
    BY <1>7, <2>2
<1>16. FrozenKept(src2)'
  <2> SUFFICES ASSUME NEW y \in Frozen'
               PROVE  /\ y \notin spoiled' /\ y \in xmls'
                      /\ \A d \in Disks : /\ \A g \in ViewOf(y, d)' : image'[d][g].where = "live"
                                          /\ src2[d] \notin ViewOf(y, d)'
    BY DEF FrozenKept, Complete, ViewOf
  <2>1. y \in Frozen /\ y \in Serial
    BY <1>7
  <2>2. \A d \in Disks : \A g \in ViewOf(y, d) : image'[d][g].where = "live"
    BY <1>2, <1>7, <2>1, FrozenFacts
  <2> QED
    BY <1>0, <1>6, <1>15, <2>1, <2>2, FrozenFacts
<1>17. Funnelled(src2)'
  <2>0. \A d \in Disks : {src2[d]} \cup image'[d][src2[d]].under = ViewOf(s, d)
    BY <1>0, <1>2, <1>6 DEF ViewOf, ChainOf
  <2> SUFFICES ASSUME NEW d \in Disks, NEW t \in Movable', Used(src2, t, d)'
               PROVE  /\ snaps'[t].base[d] \in ViewOf(s, d) => t \in ViewOf(s, d)
                      /\ \A y \in Frozen' \ {t} : snaps'[t].base[d] \in ViewOf(y, d)' => t \in ViewOf(y, d)'
    BY <2>0 DEF Funnelled, ChainOf
  <2>1. t \in Serial /\ t \in Movable /\ t # s /\ snaps'[t].base = snaps[t].base
    BY <1>3 DEF Movable, With
  <2>2. t \in ViewOf(s, d) \/ \E y \in Frozen' : t \in ViewOf(y, d)'
    BY <1>4, <2>0 DEF Used, With, ChainOf
  <2>3. Used(src, t, d)
    BY <1>1, <1>6, <1>7, <2>2 DEF Used
  <2>4. \A y \in Frozen \ {t} : snaps[t].base[d] \in ViewOf(y, d) => t \in ViewOf(y, d)
    BY <2>1, <2>3 DEF Health, Funnelled
  <2> QED
    BY <1>1, <1>6, <1>7, <2>1, <2>4
<1>18. SourcesBelow(src2)'
  BY <1>0, Bases DEF SourcesBelow
<1> QED
  BY <1>18, <1>9, <1>10, <1>11, <1>12, <1>13, <1>14, <1>16, <1>17 DEF Health

(* Clean-up: some sources move to the base, then overlays may be removed that *)
(* no source and no frozen data uses any more.                               *)
LEMMA KeptPivot ==
  ASSUME IInv, NEW src \in [Disks -> Serial], Health(src), NEW s \in Serial, snaps[s].status = "expired",
         \A d \in Disks : src[d] \in {s, snaps[s].base[d]},
         next' = next, xmls \ {s} \subseteq xmls', NEW src2 \in [Disks -> Serial],
         \A d \in Disks : src2[d] \in {src[d], snaps[s].base[d]},
         NEW gone \in SUBSET Disks, Unlink(s, gone),
         gone # {} => \A d \in Disks : src2[d] = snaps[s].base[d],
         \A n \in spoiled' : n \in spoiled \/ \E d \in Disks : src[d] = s /\ n \in Spoils(d, snaps[s].base[d]),
         \A n \in Serial : /\ snaps'[n].kind = snaps[n].kind /\ snaps'[n].base = snaps[n].base
                           /\ snaps'[n].status = snaps[n].status \/ (n = s /\ snaps'[n].status = "cleaned")
  PROVE  Health(src2)'
<1> DEFINE chain(d) == {src2[d]} \cup image'[d][src2[d]].under
<1>0. /\ s \in Nat /\ s < next /\ snaps[s].kind = "resize" /\ s \in Movable /\ s \notin Frozen
      /\ \A d \in Disks : snaps[s].base[d] \in Serial /\ snaps[s].base[d] < s
  BY Bases, Parts DEF Health, ResizeOnly, Movable, With, Frozen
<1>1. \A d \in Disks, n \in Serial :
        /\ n = s /\ d \in gone => image'[d][n] = NoImage
        /\ n # s \/ d \notin gone => image'[d][n] = image[d][n]
  BY Parts DEF Unlink
<1>2. NoImage.where = "absent" /\ NoImage.under = {}
  BY InitialTypes
<1>3. ASSUME NEW d \in Disks
      PROVE  \A g \in ChainOf(d, src[d]) : g \in Serial /\ image[d][g].where = "live"
  BY SourcesFacts, ChainFacts DEF Complete
<1>4. ASSUME NEW d \in Disks, src[d] = s
      PROVE  ChainOf(d, s) = {s} \cup ChainOf(d, snaps[s].base[d])
  <2>1. snaps[s].base[d] \in image[d][s].under
    BY <1>0, <1>3, <1>4 DEF Health, Layout, OnBase, ChainOf
  <2>2. image[d][snaps[s].base[d]].where = "live" /\ image[d][s].where = "live"
    BY <1>3, <1>4, <2>1 DEF ChainOf
  <2> QED
    BY <1>0, <2>2 DEF Health, Layout, OnBase, ChainOf
<1>5. ASSUME NEW d \in Disks, NEW y \in Frozen PROVE s \notin ViewOf(y, d)
  <2>1. CASE src[d] = s
    BY <2>1, FrozenFacts
  <2>2. CASE src[d] = snaps[s].base[d]
    <3> SUFFICES ASSUME s \in ViewOf(y, d) PROVE src[d] \in ViewOf(y, d)
      BY FrozenFacts
    <3>1. image[d][s].where = "live" /\ y \in Serial /\ snaps[y].base \in [Disks -> Serial]
      BY FrozenFacts
    <3>2. src[d] \in image[d][s].under
      BY <1>0, <2>2, <3>1 DEF Health, Layout, OnBase
    <3> DEFINE b == snaps[y].base[d]
    <3>3. b \in Serial /\ (s = b \/ s \in image[d][b].under)
      BY <3>1 DEF ViewOf, ChainOf
    <3>4. src[d] \in image[d][b].under
      BY <3>2, <3>3 DEF Health, Layout, Transitive
    <3> QED
      BY <3>4 DEF ViewOf, ChainOf
  <2> QED
    BY <2>1, <2>2
<1>6. ASSUME NEW d \in Disks, NEW y \in Frozen PROVE snaps[s].base[d] \notin ViewOf(y, d)
  <2>1. CASE src[d] = s
    <3>1. Used(src, s, d)
      BY <2>1 DEF Used, ChainOf
    <3> QED
      BY <1>0, <1>5, <3>1 DEF Health, Funnelled
  <2>2. CASE src[d] = snaps[s].base[d]
    BY <2>2, FrozenFacts
  <2> QED
    BY <2>1, <2>2
<1>7. ASSUME NEW d \in Disks, NEW y \in Frozen
      PROVE  y \in Serial /\ y # s /\ ViewOf(y, d)' = ViewOf(y, d)
  <2>1. y \in Serial /\ y # s /\ snaps[y].base \in [Disks -> Serial] /\ snaps'[y].base = snaps[y].base
    BY <1>0, FrozenFacts
  <2>2. snaps[y].base[d] # s /\ snaps[y].base[d] \in Serial
    BY <1>5, <2>1 DEF ViewOf, ChainOf
  <2> QED
    BY <1>1, <2>1, <2>2 DEF ViewOf, ChainOf
<1>8. ASSUME NEW d \in Disks
      PROVE  /\ chain(d) = ChainOf(d, src2[d])
             /\ src2[d] = src[d] \/ (src[d] = s /\ chain(d) = ChainOf(d, s) \ {s} /\ src2[d] = snaps[s].base[d])
             /\ chain(d) \subseteq ChainOf(d, src[d])
             /\ d \in gone => s \notin chain(d)
  <2>1. src2[d] # s \/ d \notin gone
    BY <1>0
  <2>2. chain(d) = ChainOf(d, src2[d])
    BY <1>1, <2>1 DEF ChainOf
  <2>3. s \notin ChainOf(d, snaps[s].base[d])
    <3> DEFINE b == snaps[s].base[d]
    <3>1. b \in Serial /\ b \in Nat /\ b < s
      BY <1>0, Parts
    <3>2. \A g \in ChainOf(d, b) : g \in Nat /\ (g = b \/ g < b)
      BY <3>1, ChainFacts, Parts
    <3> QED
      BY <1>0, <3>1, <3>2
  <2>4. CASE src2[d] = src[d]
    BY <2>2, <2>3, <2>4
  <2>5. CASE src2[d] = snaps[s].base[d] /\ src[d] = s
    BY <1>4, <2>2, <2>3, <2>5
  <2> QED
    BY <2>2, <2>4, <2>5
<1> HIDE DEF chain
<1>9. /\ \A n \in Serial : /\ snaps'[n].status = "rolled_back" <=> snaps[n].status = "rolled_back"
                           /\ snaps'[n].status = "active" <=> snaps[n].status = "active"
                           /\ snaps'[n].status = "available" <=> snaps[n].status = "available"
                           /\ snaps'[n].status = "expired" => snaps[n].status = "expired"
      /\ Movable' \subseteq Movable /\ Movable \subseteq Serial
  BY DEF Movable, With
<1>10. ASSUME NEW y \in Frozen' PROVE y \in Frozen
  <2>1. y \in Serial /\ snaps'[y].status \in {"active", "available"}
    BY DEF Frozen, With
  <2>2. CASE snaps'[y].status = "active"
    BY <1>9, <2>1, <2>2 DEF Frozen, With
  <2>3. CASE snaps'[y].status = "available" /\ ~CutOff(y)'
    <3> SUFFICES ASSUME NEW t \in Serial, snaps[t].status = "rolled_back", NEW d \in Disks, t \in ViewOf(y, d)
                 PROVE  FALSE
      BY <1>9, <2>1, <2>3 DEF Frozen, With, CutOff
    <3> DEFINE b == snaps[y].base[d]
    <3>1. b \in Serial /\ snaps'[y].base = snaps[y].base
      BY <2>1, Parts, SnapParts
    <3>2. t \in With("rolled_back")' /\ t # s /\ t \in With("rolled_back")
      BY <1>9 DEF With
    <3>3. t \notin ViewOf(y, d)'
      BY <2>3, <3>2 DEF CutOff
    <3>4. b = s /\ d \in gone
      <4> SUFFICES ASSUME b # s \/ d \notin gone PROVE FALSE
        OBVIOUS
      <4>1. image'[d][b] = image[d][b]
        BY <1>1, <3>1
      <4> QED
        BY <3>1, <3>3, <4>1 DEF ViewOf, ChainOf
    <3>5. t \in image[d][s].under
      BY <3>2, <3>4 DEF ViewOf, ChainOf
    <3> QED
      BY <1>0, <3>2, <3>5 DEF Health, Newest
  <2> QED
    BY <2>1, <2>2, <2>3 DEF Frozen, With
<1>11. Layout'
  <2>1. Unmade'
    BY <1>0, <1>1 DEF Health, Layout, Unmade
  <2>2. Transitive'
    <3> SUFFICES ASSUME NEW d \in Disks, NEW n \in Serial, NEW g \in image'[d][n].under
                 PROVE  image'[d][g].under \subseteq image'[d][n].under
      BY DEF Transitive
    <3>1. image'[d][n] = image[d][n] /\ g \in Serial
      BY <1>1, <1>2, ChainFacts
    <3>2. image'[d][g].under \subseteq image[d][g].under
      BY <1>1, <1>2, <3>1
    <3> QED
      BY <3>1, <3>2 DEF Health, Layout, Transitive
  <2>3. OnBase'
    <3> SUFFICES ASSUME NEW d \in Disks, NEW n \in Serial, snaps[n].kind # "none", image'[d][n].where # "absent"
                 PROVE  /\ snaps[n].base[d] \in image'[d][n].under
                        /\ image'[d][snaps[n].base[d]].where # "absent" =>
                             image'[d][n].under = {snaps[n].base[d]} \cup image'[d][snaps[n].base[d]].under
      BY DEF OnBase, ChainOf
    <3> DEFINE b == snaps[n].base[d]
    <3>1. image'[d][n] = image[d][n] /\ b \in Serial
      BY <1>1, <1>2, Parts, SnapParts
    <3>2. image'[d][b].where # "absent" => image'[d][b] = image[d][b]
      BY <1>1, <1>2, <3>1
    <3> QED
      BY <3>1, <3>2 DEF Health, Layout, OnBase, ChainOf
  <2> QED
    BY <2>1, <2>2, <2>3 DEF Layout
<1>12. ResizeOnly' /\ OneActive' /\ ActiveThere'
  <2>1. ResizeOnly' /\ OneActive'
    BY <1>9 DEF Health, ResizeOnly, OneActive, With
  <2>2. ActiveThere'
    BY <1>1, <1>9 DEF Health, ActiveThere, With
  <2> QED
    BY <2>1, <2>2
<1>13. Newest'
  <2> SUFFICES ASSUME NEW t \in Serial, NEW n \in Serial, NEW d \in Disks,
                      t \in With("active") \cup With("rolled_back"), snaps[n].kind = "resize",
                      t \in image'[d][n].under
               PROVE  FALSE
    BY <1>9 DEF Newest, With
  <2>1. t \in image[d][n].under
    BY <1>1, <1>2
  <2> QED
    BY <2>1 DEF Health, Newest
<1>14. Aside'
  BY <1>1, <1>2, <1>9 DEF Health, Aside
<1>15. SpoiledOld'
  <2> SUFFICES ASSUME NEW n \in spoiled' PROVE n < next
    BY DEF SpoiledOld
  <2>1. CASE n \in spoiled
    BY <2>1 DEF Health, SpoiledOld
  <2>2. CASE n \in Serial /\ snaps[n].kind # "none"
    BY <2>2, Parts DEF SnapsLayered
  <2> QED
    BY <2>1, <2>2 DEF Spoils
<1>16. SourcesComplete(src2)'
  <2> SUFFICES ASSUME NEW d \in Disks, NEW g \in chain(d) PROVE image'[d][g].where = "live"
    BY DEF SourcesComplete, Complete, ChainOf, chain
  <2> QED
    BY <1>1, <1>3, <1>8
<1>17. FrozenKept(src2)'
  <2> SUFFICES ASSUME NEW y \in Frozen'
               PROVE  /\ y \notin spoiled' /\ y \in xmls'
                      /\ \A d \in Disks : /\ \A g \in ViewOf(y, d)' : image'[d][g].where = "live"
                                          /\ src2[d] \notin ViewOf(y, d)'
    BY DEF FrozenKept, Complete, ViewOf
  <2>1. y \in Frozen /\ y \in Serial
    BY <1>10, FrozenFacts
  <2>2. y \notin spoiled' /\ y \in xmls'
    BY <1>0, <1>6, <2>1, FrozenFacts DEF Spoils
  <2>3. \A d \in Disks : \A g \in ViewOf(y, d) : g \in Serial /\ image'[d][g].where = "live"
    BY <1>1, <1>5, <2>1, FrozenFacts
  <2>4. \A d \in Disks : src2[d] \notin ViewOf(y, d)
    BY <1>6, <2>1, FrozenFacts
  <2> QED
    BY <1>7, <2>1, <2>2, <2>3, <2>4
<1>18. Funnelled(src2)'
  <2> SUFFICES ASSUME NEW d \in Disks, NEW t \in Movable', Used(src2, t, d)'
               PROVE  /\ snaps'[t].base[d] \in chain(d) => t \in chain(d)
                      /\ \A y \in Frozen' \ {t} : snaps'[t].base[d] \in ViewOf(y, d)' => t \in ViewOf(y, d)'
    BY DEF Funnelled, ChainOf, chain
  <2>1. t \in Serial /\ t \in Movable /\ snaps'[t].base = snaps[t].base
    BY <1>9
  <2>2. t \in With("active") \/ t \in chain(d) \/ \E y \in Frozen : t \in ViewOf(y, d)
    BY <1>7, <1>9, <1>10 DEF Used, With, ChainOf, chain
  <2>3. Used(src, t, d)
    BY <1>8, <2>2 DEF Used
  <2>4. /\ snaps[t].base[d] \in ChainOf(d, src[d]) => t \in ChainOf(d, src[d])
        /\ \A y \in Frozen \ {t} : snaps[t].base[d] \in ViewOf(y, d) => t \in ViewOf(y, d)
    BY <2>1, <2>3 DEF Health, Funnelled
  <2>5. snaps[t].base[d] \in chain(d) => t \in chain(d)
    <3>1. CASE t = s
      <4>1. s \notin With("active")
        BY DEF With
      <4> QED
        BY <1>5, <2>2, <3>1, <4>1
    <3>2. CASE t # s
      BY <1>8, <2>4, <3>2
    <3> QED
      BY <3>1, <3>2
  <2> QED
    BY <1>7, <1>10, <2>1, <2>4, <2>5
<1>19. SourcesBelow(src2)'
  BY <1>0, SourcesFacts, Bases DEF SourcesBelow
<1> QED
  BY <1>19, <1>11, <1>12, <1>13, <1>14, <1>15, <1>16, <1>17, <1>18 DEF Health

LEMMA KeptCleanUp ==
  ASSUME IInv, Benign, NEW src \in [Disks -> Serial], Health(src), src = current,
         NEW src2 \in [Disks -> Serial], src2 = current', NEW s \in Serial, NEW target \in CommitTargets,
         NEW some \in SUBSET Disks,
         CleanUp(s, target) \/ CleanUpPartly(s, target, some) \/ CleanUpAborted(s, target, some)
  PROVE  Health(src2)'
<1>1. target = "base"
  BY DEF Benign, CommitTargets
<1>2. /\ snaps[s].status = "expired" /\ next' = next
      /\ \A d \in Disks : src[d] \in {s, snaps[s].base[d]}
  BY DEF CleanUp, CleanUpPartly, CleanUpAborted, MayCleanUp
<1>3. snaps[s].base \in [Disks -> Serial] /\ src \in [Disks -> Serial]
  BY <1>2, Bases, Parts
<1>4. PICK done \in SUBSET PendingCommit(s) :
        /\ spoiled' = spoiled \cup CommitSpoils(s, done, target)
        /\ \/ src2 = snaps[s].base
           \/ src2 = Pivoted(s, done, target) /\ UNCHANGED image
  BY DEF CleanUp, CleanUpPartly, CleanUpAborted, SwitchTo
<1>5. /\ src2 \in [Disks -> Serial]
      /\ \A d \in Disks : src2[d] \in {src[d], snaps[s].base[d]}
  BY <1>1, <1>3, <1>4 DEF Pivoted, CommittedInto
<1>6. \A n \in spoiled' : n \in spoiled \/ \E d \in Disks : src[d] = s /\ n \in Spoils(d, snaps[s].base[d])
  BY <1>1, <1>4 DEF CommitSpoils, CommittedInto, PendingCommit
<1>7. \E gone \in SUBSET Disks :
        Unlink(s, gone) /\ (gone # {} => \A d \in Disks : src2[d] = snaps[s].base[d])
  <2>1. CASE CleanUpAborted(s, target, some)
    <3>1. image' = [d \in Disks |-> IF d \in {} THEN [image[d] EXCEPT ![s] = NoImage] ELSE image[d]]
      BY <2>1, Parts DEF CleanUpAborted
    <3> QED
      BY <3>1 DEF Unlink
  <2>2. CASE CleanUp(s, target) \/ CleanUpPartly(s, target, some)
    BY <2>2 DEF CleanUp, CleanUpPartly, SwitchTo
  <2> QED
    BY <2>1, <2>2
<1>8. xmls \ {s} \subseteq xmls'
  BY <1>1 DEF CleanUp, CleanUpPartly, CleanUpAborted
<1>9. \A n \in Serial : /\ snaps'[n].kind = snaps[n].kind /\ snaps'[n].base = snaps[n].base
                        /\ snaps'[n].status = snaps[n].status \/ (n = s /\ snaps'[n].status = "cleaned")
  <2>1. CASE snaps' = [snaps EXCEPT ![s].status = "cleaned"]
    <3>1. snaps' = Relabelled({s}, "cleaned")
      BY <2>1, OneRelabelled
    <3> QED
      BY <3>1, Relabels
  <2> QED
    BY <2>1 DEF CleanUp, CleanUpPartly, CleanUpAborted
<1> QED
  BY <1>2, <1>5, <1>6, <1>7, <1>8, <1>9, KeptPivot

(* A guest that writes does so to the sources the domain should have.        *)
LEMMA KeptOther ==
  ASSUME IInv, NEW src \in [Disks -> Serial], Health(src),
         \/ \E kind \in {"resize", "manual"} : CreateFails(kind)
         \/ \E m \in Serial : RestoreStranded(m)
         \/ \E s \in Serial : RollbackFails(s, {}, TRUE)
         \/ \E s \in Serial : Age(s)
         \/ StartVM \/ StopVM
         \/ src = current /\ \E d \in Disks : GuestWrites(d)
         \/ UNCHANGED vars
  PROVE  Health(src)'
<1>1. /\ UNCHANGED <<image, snaps>> /\ xmls \subseteq xmls' /\ (next' = next \/ next' = next + 1)
  <2>1. ASSUME NEW s \in Serial, RollbackFails(s, {}, TRUE)
        PROVE  UNCHANGED <<image, snaps, xmls, next>>
    <3>1. image' = [d \in Disks |-> IF d \in {} THEN [image[d] EXCEPT ![s].where = "aside"] ELSE image[d]]
      BY <2>1 DEF RollbackFails, SetAside
    <3>2. image' = image
      BY <3>1, Parts
    <3> QED
      BY <2>1, <3>2 DEF RollbackFails
  <2> QED
    BY <2>1 DEF CreateFails, RestoreStranded, Age, StartVM, StopVM, GuestWrites, vars
<1>2. next' \in Nat /\ next' >= next
  BY <1>1, Parts
<1>3. \A n \in spoiled' : n \in spoiled \/ (n \in Serial /\ n < next /\ n \notin Frozen)
  <2>1. ASSUME src = current, NEW d \in Disks, GuestWrites(d), NEW n \in spoiled', n \notin spoiled
        PROVE  n \in Serial /\ n < next /\ n \notin Frozen
    <3>1. n \in Serial /\ snaps[n].kind # "none" /\ src[d] \in ViewOf(n, d)
      BY <2>1 DEF GuestWrites, Spoils
    <3> QED
      BY <3>1, FrozenFacts, Parts DEF SnapsLayered
  <2> QED
    BY <2>1 DEF CreateFails, RestoreStranded, RollbackFails, Age, StartVM, StopVM, vars
<1> QED
  BY <1>1, <1>2, <1>3, KeptQuiet

LEMMA KeptStatus ==
  ASSUME IInv, NEW src \in [Disks -> Serial], Health(src), Expire \/ \E m \in Serial : DeleteManual(m)
  PROVE  Health(src)'
<1>1. CASE Expire
  <2> DEFINE changed == {n \in Serial : snaps[n].status = "active" /\ n \in aged}
  <2>1. snaps' = Relabelled(changed, "expired") /\ changed \in SUBSET Serial
    BY <1>1 DEF Expire, Relabelled
  <2>2. \A n \in Serial : /\ snaps'[n].kind = snaps[n].kind /\ snaps'[n].base = snaps[n].base
                          /\ snaps'[n].status = IF n \in changed THEN "expired" ELSE snaps[n].status
    BY <2>1, Relabels
  <2>3. UNCHANGED <<image, next, spoiled, xmls>>
    BY <1>1 DEF Expire
  <2> QED
    BY <2>2, <2>3, KeptRelabel
<1>2. ASSUME NEW m \in Serial, DeleteManual(m) PROVE Health(src)'
  <2>1. snaps' = Relabelled({m}, "deleted") /\ snaps[m].status = "available"
    BY <1>2, OneRelabelled DEF DeleteManual
  <2>2. \A n \in Serial : /\ snaps'[n].kind = snaps[n].kind /\ snaps'[n].base = snaps[n].base
                          /\ snaps'[n].status = IF n = m THEN "deleted" ELSE snaps[n].status
    BY <2>1, Relabels
  <2>3. UNCHANGED <<image, next, spoiled>> /\ xmls' = xmls \ {m}
    BY <1>2 DEF DeleteManual
  <2> QED
    BY <2>1, <2>2, <2>3, KeptRelabel
<1> QED
  BY <1>1, <1>2

(* Files lie aside exactly where a rollback was recorded, whatever a define   *)
(* that timed out did to the domain.                                         *)
LEMMA AsideKept ==
  ASSUME IInv, Aside,
         \A n \in Serial :
           /\ snaps'[n].status = "rolled_back" <=> snaps[n].status = "rolled_back"
           /\ \A d \in Disks : \/ image'[d][n].where = image[d][n].where
                               \/ snaps[n].status # "rolled_back" /\ image'[d][n].where # "aside"
  PROVE  Aside'
BY DEF Aside

(* With benign faults no action of a crash or a failed undo is possible.     *)
LEMMA BenignOnly ==
  ASSUME Benign
  PROVE  /\ \A m \in Serial, kind \in {"recovery", "none"} : ~RestoreUnfinished(m, kind)
         /\ \A s \in Serial, moved \in SUBSET Disks, defined \in BOOLEAN :
              RollbackFails(s, moved, defined) => moved = {} /\ defined = TRUE
<1>1. "double" \notin faults /\ "crash" \notin faults
  BY DEF Benign
<1>2. ASSUME NEW m \in Serial, NEW kind \in {"recovery", "none"} PROVE ~RestoreUnfinished(m, kind)
  BY <1>1 DEF RestoreUnfinished
<1>3. ASSUME NEW s \in Serial, NEW moved \in SUBSET Disks, NEW defined \in BOOLEAN,
             RollbackFails(s, moved, defined)
      PROVE  moved = {} /\ defined = TRUE
  <2>1. moved = {}
    BY <1>1, <1>3 DEF RollbackFails
  <2> QED
    BY <1>3, <2>1 DEF RollbackFails
<1> QED
  BY <1>2, <1>3

LEMMA AsidePush ==
  ASSUME IInv, Aside, next \in Serial, NEW base \in [Disks -> Serial], \A d \in Disks : base[d] < next,
         PushOverlays(base),
         \A n \in Serial : snaps'[n].status = "rolled_back" => snaps[n].status = "rolled_back",
         \A n \in Serial : n # next /\ snaps[n].status = "rolled_back" => snaps'[n].status = "rolled_back"
  PROVE  Aside'
<1>1. snaps[next].status # "rolled_back"
  BY Bases, Parts
<1>2. ASSUME NEW d \in Disks, NEW n \in Serial
      PROVE  IF n = next THEN image'[d][n].where = "live" ELSE image'[d][n] = image[d][n]
  <2>1. image[d] \in [Serial -> Image] /\ ChainOf(d, base[d]) \in SUBSET Serial
    BY Parts, ChainFacts
  <2>2. image'[d] = [image[d] EXCEPT ![next] = [where |-> "live", under |-> ChainOf(d, base[d])]]
    BY DEF PushOverlays
  <2> QED
    BY <2>1, <2>2, ImageParts
<1> QED
  BY <1>1, <1>2, AsideKept

LEMMA AsideStep ==
  ASSUME IInv, Benign, Aside, [Next]_vars, record' = "completed"
  PROVE  Aside'
<1>1. ASSUME NEW kind \in {"resize", "manual"},
             CreateSnapshot(kind) \/ CreateFails(kind) \/ CreateUnrecorded(kind)
      PROVE  Aside'
  <2>1. CASE UNCHANGED <<image, snaps>>
    BY <2>1 DEF Aside
  <2>2. CASE next \in Serial /\ PushOverlays(current) /\ UNCHANGED snaps
    BY <2>2, AsidePush, Parts DEF SourcesOld
  <2>3. CASE CreateSnapshot(kind)
    <3> DEFINE old == Superseding(kind)
    <3>1. /\ old \in [Serial -> Snap]
          /\ \A n \in Serial : old[n].status = "rolled_back" <=> snaps[n].status = "rolled_back"
      BY Superseded
    <3>2. \A n \in Serial : n # next => snaps'[n] = old[n]
      BY <2>3, <3>1 DEF CreateSnapshot
    <3>3. snaps'[next].status \in {"active", "available"}
      BY <2>3, <3>1 DEF CreateSnapshot, MayCreate
    <3> HIDE DEF old
    <3>4. \A n \in Serial : snaps'[n].status = "rolled_back" => snaps[n].status = "rolled_back"
      BY <3>1, <3>2, <3>3
    <3>5. \A n \in Serial : n # next /\ snaps[n].status = "rolled_back" => snaps'[n].status = "rolled_back"
      BY <3>1, <3>2
    <3>6. next \in Serial /\ PushOverlays(current)
      BY <2>3 DEF CreateSnapshot, MayCreate
    <3> QED
      BY <3>4, <3>5, <3>6, AsidePush, Parts DEF SourcesOld
  <2> QED
    BY <1>1, <2>1, <2>2, <2>3 DEF CreateFails, CreateUnrecorded, MayCreate
<1>2. ASSUME NEW m \in Serial, NEW kind \in {"restore", "recovery", "none"},
             \/ Restore(m) /\ kind = "restore"
             \/ RestoreUndone(m, kind)
      PROVE  Aside'
  <2>1. /\ next \in Serial /\ PushOverlays(snaps[m].base) /\ Branch(m, kind)
        /\ snaps[m].status # "none"
    BY <1>2 DEF Restore, RestoreUndone, MayRestore
  <2>2. \A n \in Serial : n # next => snaps'[n] = snaps[n]
    BY <2>1, Parts DEF Branch
  <2>3. snaps'[next].status = "none" \/ UNCHANGED snaps
    BY <2>1, Parts DEF Branch
  <2> QED
    BY <2>1, <2>2, <2>3, AsidePush, Bases
<1>3. ASSUME NEW m \in Serial, RestoreStranded(m) \/ Age(m) \/ RollbackFails(m, {}, TRUE) \/ DeleteManual(m)
      PROVE  Aside'
  <2>1. CASE UNCHANGED <<image, snaps>>
    BY <2>1 DEF Aside
  <2>2. CASE RollbackFails(m, {}, TRUE)
    <3>1. image' = [d \in Disks |-> IF d \in {} THEN [image[d] EXCEPT ![m].where = "aside"] ELSE image[d]]
      BY <2>2 DEF RollbackFails, SetAside
    <3>2. image' = image
      BY <3>1, Parts
    <3> QED
      BY <2>2, <3>2 DEF RollbackFails, Aside
  <2>3. CASE DeleteManual(m)
    <3>1. snaps' = Relabelled({m}, "deleted") /\ snaps[m].status = "available" /\ UNCHANGED image
      BY <2>3, OneRelabelled DEF DeleteManual
    <3>2. \A n \in Serial : snaps'[n].status = IF n = m THEN "deleted" ELSE snaps[n].status
      BY <3>1, Relabels
    <3> QED
      BY <3>1, <3>2 DEF Aside
  <2> QED
    BY <1>3, <2>1, <2>2, <2>3 DEF RestoreStranded, Age
<1>4. ASSUME NEW s \in Serial, Rollback(s) PROVE Aside'
  <2>1. snaps' = Relabelled({s}, "rolled_back") /\ SetAside(s, Disks)
    BY <1>4, OneRelabelled DEF Rollback
  <2>2. \A n \in Serial : snaps'[n].status = IF n = s THEN "rolled_back" ELSE snaps[n].status
    BY <2>1, Relabels
  <2>3. ASSUME NEW d \in Disks, NEW n \in Serial
        PROVE  image'[d][n].where = IF n = s THEN "aside" ELSE image[d][n].where
    <3>1. image[d] \in [Serial -> Image] /\ image[d][s] \in Image
      BY Parts
    <3>2. image'[d] = [image[d] EXCEPT ![s] = [image[d][s] EXCEPT !.where = "aside"]]
      BY <2>1, <3>1 DEF SetAside
    <3>3. image'[d][n] = IF n = s THEN [where |-> "aside", under |-> image[d][s].under] ELSE image[d][n]
      BY <3>1, <3>2, ImageParts
    <3> QED
      BY <3>3
  <2> QED
    BY <2>2, <2>3 DEF Aside
<1>5. ASSUME NEW s \in Serial, NEW target \in CommitTargets, NEW some \in SUBSET Disks,
             CleanUp(s, target) \/ CleanUpPartly(s, target, some) \/ CleanUpAborted(s, target, some)
      PROVE  Aside'
  <2>1. CASE UNCHANGED <<image, snaps>>
    BY <2>1 DEF Aside
  <2>2. CASE CleanUp(s, target) \/ CleanUpPartly(s, target, some)
    <3>1. PICK gone \in SUBSET Disks : Unlink(s, gone)
      BY <2>2 DEF CleanUp, CleanUpPartly
    <3>2. \A d \in Disks, n \in Serial :
            image'[d][n] = image[d][n] \/ (n = s /\ image'[d][n].where = "absent")
      BY <3>1, Parts, InitialTypes DEF Unlink
    <3>3. snaps[s].status = "expired"
      BY <2>2 DEF CleanUp, CleanUpPartly, MayCleanUp
    <3>4. \A n \in Serial : snaps'[n].status = snaps[n].status \/ (n = s /\ snaps'[n].status = "cleaned")
      <4>1. CASE snaps' = [snaps EXCEPT ![s].status = "cleaned"]
        BY <4>1, OneRelabelled, Relabels
      <4> QED
        BY <2>2, <4>1 DEF CleanUp, CleanUpPartly
    <3> QED
      BY <3>2, <3>3, <3>4, AsideKept
  <2> QED
    BY <1>5, <2>1, <2>2 DEF CleanUpAborted
<1>6. CASE Expire
  <2> DEFINE changed == {n \in Serial : snaps[n].status = "active" /\ n \in aged}
  <2>1. snaps' = Relabelled(changed, "expired") /\ changed \in SUBSET Serial
    BY <1>6 DEF Expire, Relabelled
  <2>2. \A n \in Serial : snaps'[n].status = IF n \in changed THEN "expired" ELSE snaps[n].status
    BY <2>1, Relabels
  <2> QED
    BY <1>6, <2>2 DEF Expire, Aside
<1>7. CASE StartVM \/ StopVM \/ UNCHANGED vars \/ \E d \in Disks : GuestWrites(d)
  BY <1>7 DEF StartVM, StopVM, GuestWrites, vars, Aside
<1>8. ~DeleteVM
  BY DEF DeleteVM
<1> QED
  BY <1>1, <1>2, <1>3, <1>4, <1>5, <1>6, <1>7, <1>8, BenignOnly DEF Next

(* What a step makes of the sources the domain should have: they stay, or the *)
(* domain has them again.                                                    *)
LEMMA KeptStep ==
  ASSUME IInv, Benign, StraysOff, NEW src \in [Disks -> Serial], Health(src), astray = "no" => src = current,
         astray # "used", [Next]_vars, record' = "completed", astray' # "used"
  PROVE  Sound'
<1>1. ASSUME Health(src)', UNCHANGED <<astray, current>> \/ astray' # "no"
      PROVE  Sound'
  BY <1>1 DEF Sound
<1>2. PICK src2 \in [Disks -> Serial] : src2 = current'
  BY InvStep, Parts DEF IInv, TypeOK
<1>3. ASSUME Health(src2)' PROVE Sound'
  BY <1>2, <1>3 DEF Sound
<1>4. astray = "no" => src = current
  OBVIOUS
<1>5. ASSUME NEW kind \in {"resize", "manual"},
             CreateSnapshot(kind) \/ CreateFails(kind) \/ CreateUnrecorded(kind)
      PROVE  Sound'
  <2>1. CASE CreateFails(kind)
    BY <1>1, <2>1, KeptOther DEF CreateFails
  <2>2. CASE CreateSnapshot(kind) \/ CreateUnrecorded(kind)
    <3>1. src = current
      BY <2>2, Parts DEF CreateSnapshot, CreateUnrecorded, UsesSources
    <3> QED
      BY <1>2, <1>3, <2>2, <3>1, KeptCreate
  <2> QED
    BY <1>5, <2>1, <2>2
<1>6. ASSUME NEW m \in Serial,
             \/ Restore(m) \/ RestoreStranded(m) \/ DeleteManual(m)
             \/ \E kind \in {"recovery", "none"} : RestoreUndone(m, kind)
      PROVE  Sound'
  <2>1. CASE Restore(m)
    BY <1>2, <1>3, <2>1, KeptRestore
  <2>2. CASE RestoreStranded(m)
    BY <1>1, <2>2, KeptOther DEF RestoreStranded, Strays
  <2>3. CASE DeleteManual(m)
    BY <1>1, <2>3, KeptStatus DEF DeleteManual
  <2>4. ASSUME NEW kind \in {"recovery", "none"}, RestoreUndone(m, kind) PROVE Sound'
    BY <1>1, <2>4, KeptRestore DEF RestoreUndone
  <2> QED
    BY <1>6, <2>1, <2>2, <2>3, <2>4
<1>7. ASSUME NEW s \in Serial,
             \/ Rollback(s) \/ Age(s)
             \/ \E moved \in SUBSET Disks, defined \in BOOLEAN : RollbackFails(s, moved, defined)
      PROVE  Sound'
  <2>1. CASE Rollback(s)
    BY <1>2, <1>3, <2>1, KeptRollback
  <2>2. CASE Age(s)
    BY <1>1, <2>2, KeptOther DEF Age
  <2>3. CASE RollbackFails(s, {}, TRUE)
    BY <1>1, <2>3, KeptOther DEF RollbackFails, Strays
  <2> QED
    BY <1>7, <2>1, <2>2, <2>3, BenignOnly
<1>8. ASSUME NEW s \in Serial, NEW target \in CommitTargets, NEW some \in SUBSET Disks,
             CleanUp(s, target) \/ CleanUpPartly(s, target, some) \/ CleanUpAborted(s, target, some)
      PROVE  Sound'
  <2>1. src = current
    BY <1>4, <1>8, Parts DEF StraysOff, CleanUp, CleanUpPartly, CleanUpAborted, MayCleanUp
  <2> QED
    BY <1>2, <1>3, <1>8, <2>1, KeptCleanUp
<1>9. CASE Expire \/ StopVM \/ UNCHANGED vars
  BY <1>1, <1>9, KeptOther, KeptStatus DEF Expire, StopVM, vars
<1>10. CASE StartVM
  BY <1>1, <1>10, KeptOther, Parts DEF StartVM, UsesSources
<1>11. ASSUME NEW d \in Disks, GuestWrites(d) PROVE Sound'
  <2>1. src = current
    BY <1>4, <1>11, Parts DEF StraysOff, GuestWrites
  <2> QED
    BY <1>1, <1>11, <2>1, KeptOther DEF GuestWrites
<1>12. ~DeleteVM
  BY DEF DeleteVM
<1> QED
  BY <1>5, <1>6, <1>7, <1>8, <1>9, <1>10, <1>11, <1>12, BenignOnly DEF Next

LEMMA HealthInit == Init => Health(current)
<1> SUFFICES ASSUME Init PROVE Health(current)
  OBVIOUS
<1>1. IInv
  BY InvInit
<1>2. /\ \A n \in Serial : snaps[n] = NoSnap
      /\ next = 2 /\ spoiled = {} /\ \A d \in Disks : current[d] = Own
  BY DEF Init
<1>3. \A n \in Serial : snaps[n].kind = "none" /\ snaps[n].status = "none"
  BY <1>2, InitialTypes
<1>4. \A d \in Disks, n \in Serial :
        /\ n = Template => image[d][n] = [where |-> "live", under |-> {}]
        /\ n = Own => image[d][n] = [where |-> "live", under |-> {Template}]
        /\ n # Template /\ n # Own => image[d][n] = NoImage
  BY DEF Init, Template, Own
<1>5. {} \in SUBSET Serial /\ {Template} \in SUBSET Serial /\ Own \in Serial /\ Template \in Serial
  BY SerialFacts
<1>6. \A d \in Disks :
        /\ image[d][Template].where = "live" /\ image[d][Template].under = {}
        /\ image[d][Own].where = "live" /\ image[d][Own].under = {Template}
  BY <1>4, <1>5, ImageParts
<1>7. \A d \in Disks, n \in Serial : image[d][n].where # "aside"
  BY <1>4, <1>6, InitialTypes
<1>8. Layout
  <2>1. Unmade
    BY <1>2, <1>4, SerialFacts DEF Unmade, Template, Own
  <2>2. Transitive
    <3> SUFFICES ASSUME NEW d \in Disks, NEW n \in Serial, NEW g \in image[d][n].under
                 PROVE  image[d][g].under = {}
      BY DEF Transitive
    <3>1. g = Template
      BY <1>4, <1>6, InitialTypes
    <3> QED
      BY <1>6, <3>1
  <2>3. OnBase
    BY <1>3 DEF OnBase
  <2> QED
    BY <2>1, <2>2, <2>3 DEF Layout
<1>9. With("active") = {} /\ With("expired") = {} /\ With("rolled_back") = {} /\ With("available") = {}
  BY <1>3 DEF With
<1>10. SourcesComplete(current) /\ SourcesBelow(current)
  BY <1>2, <1>6 DEF SourcesComplete, SourcesBelow, Complete, ChainOf, Own
<1> QED
  BY <1>2, <1>3, <1>7, <1>8, <1>9, <1>10
     DEF Health, ResizeOnly, OneActive, Newest, Aside, SpoiledOld, ActiveThere, FrozenKept, Funnelled,
         Frozen, Movable

(* Only the deletion of the VM ends a request, and nothing follows it.        *)
LEMMA RequestLasts ==
  [Next]_vars =>
    /\ faults' = faults
    /\ \/ record = "completed" /\ record' = "completed"
       \/ record = "deleted" /\ UNCHANGED <<record, image, snaps, xmls>>
       \/ DeleteVM /\ record = "completed" /\ record' = "deleted"
       \/ record \notin {"completed", "deleted"}
<1> SUFFICES ASSUME [Next]_vars
             PROVE  /\ faults' = faults
                    /\ \/ record = "completed" /\ record' = "completed"
                       \/ record = "deleted" /\ UNCHANGED <<record, image, snaps, xmls>>
                       \/ DeleteVM /\ record = "completed" /\ record' = "deleted"
                       \/ record \notin {"completed", "deleted"}
  OBVIOUS
<1>1. CASE \E kind \in {"resize", "manual"} :
             CreateSnapshot(kind) \/ CreateFails(kind) \/ CreateUnrecorded(kind)
  BY <1>1 DEF CreateSnapshot, CreateFails, CreateUnrecorded, MayCreate
<1>2. CASE \E m \in Serial :
             \/ Restore(m) \/ RestoreStranded(m) \/ DeleteManual(m)
             \/ \E kind \in {"recovery", "none"} : RestoreUndone(m, kind) \/ RestoreUnfinished(m, kind)
  BY <1>2 DEF Restore, RestoreUndone, RestoreStranded, RestoreUnfinished, DeleteManual, MayRestore
<1>3. CASE \E s \in Serial :
             \/ Rollback(s) \/ Age(s)
             \/ \E moved \in SUBSET Disks, defined \in BOOLEAN : RollbackFails(s, moved, defined)
  BY <1>3 DEF Rollback, RollbackFails, Age, MayRollback
<1>4. CASE \E s \in Serial, target \in CommitTargets :
             \/ CleanUp(s, target)
             \/ \E some \in SUBSET Disks :
                  CleanUpPartly(s, target, some) \/ CleanUpAborted(s, target, some)
  BY <1>4 DEF CleanUp, CleanUpPartly, CleanUpAborted, MayCleanUp
<1>5. CASE Expire \/ StartVM \/ StopVM \/ \E d \in Disks : GuestWrites(d)
  BY <1>5 DEF Expire, StartVM, StopVM, GuestWrites
<1>6. CASE DeleteVM
  BY <1>6 DEF DeleteVM
<1>7. CASE UNCHANGED vars
  BY <1>7 DEF vars
<1> QED
  BY <1>1, <1>2, <1>3, <1>4, <1>5, <1>6, <1>7 DEF Next

LEMMA StraysStep ==
  ASSUME IInv, StraysOff, [Next]_vars
  PROVE  StraysOff' /\ (astray = "used" => astray' = "used")
<1>1. \/ UNCHANGED <<astray, power>>
      \/ power = "shut off" /\ power' = power /\ (Strays \/ Returns)
      \/ UsesSources
      \/ astray' = astray /\ power' = "shut off"
  <2>1. CASE \E kind \in {"resize", "manual"} :
               CreateSnapshot(kind) \/ CreateFails(kind) \/ CreateUnrecorded(kind)
    BY <2>1 DEF CreateSnapshot, CreateFails, CreateUnrecorded
  <2>2. CASE \E m \in Serial :
               \/ Restore(m) \/ RestoreStranded(m) \/ DeleteManual(m)
               \/ \E kind \in {"recovery", "none"} : RestoreUndone(m, kind) \/ RestoreUnfinished(m, kind)
    BY <2>2 DEF Restore, RestoreUndone, RestoreStranded, RestoreUnfinished, DeleteManual, MayRestore
  <2>3. CASE \E s \in Serial :
               \/ Rollback(s) \/ Age(s)
               \/ \E moved \in SUBSET Disks, defined \in BOOLEAN : RollbackFails(s, moved, defined)
    BY <2>3 DEF Rollback, RollbackFails, Age, MayRollback
  <2>4. ASSUME NEW s \in Serial, NEW target \in CommitTargets, NEW some \in SUBSET Disks,
               CleanUp(s, target) \/ CleanUpPartly(s, target, some) \/ CleanUpAborted(s, target, some)
        PROVE  UNCHANGED <<astray, power>>
    BY <2>4 DEF CleanUp, CleanUpPartly, CleanUpAborted
  <2>5. CASE Expire \/ StartVM \/ StopVM \/ DeleteVM \/ UNCHANGED vars \/ \E d \in Disks : GuestWrites(d)
    BY <2>5 DEF Expire, StartVM, StopVM, DeleteVM, GuestWrites, vars
  <2> QED
    BY <2>1, <2>2, <2>3, <2>4, <2>5 DEF Next
<1> QED
  BY <1>1 DEF StraysOff, Strays, Returns, UsesSources

LEMMA KeptStrong == Spec => []Kept
<1>1. Init => Kept
  <2>1. Init => Aside /\ StraysOff /\ current \in [Disks -> Serial] /\ Health(current)
    BY HealthInit, InvInit, Parts DEF Health, Init, StraysOff
  <2> QED
    BY <2>1 DEF Kept, Sound
<1>2. IInv /\ Kept /\ [Next]_vars => Kept'
  <2> SUFFICES ASSUME IInv, Kept, [Next]_vars, Benign', record' = "completed"
               PROVE  Aside' /\ StraysOff' /\ (astray' = "used" \/ Sound')
    BY DEF Kept
  <2>1. faults' = faults
    BY RequestLasts
  <2>2. record = "completed"
    <3>1. record \in {"completed", "deleted"}
      BY DEF IInv, TypeOK
    <3> QED
      BY <3>1, RequestLasts
  <2>3. Benign
    BY <2>1 DEF Benign
  <2>4. Aside /\ StraysOff /\ (astray = "used" \/ Sound)
    BY <2>2, <2>3 DEF Kept
  <2>5. StraysOff' /\ (astray = "used" => astray' = "used")
    BY <2>4, StraysStep
  <2>6. CASE astray # "used" /\ astray' # "used"
    <3>1. PICK src \in [Disks -> Serial] : Health(src) /\ (astray = "no" => src = current)
      BY <2>4, <2>6 DEF Sound
    <3> QED
      BY <2>3, <2>4, <2>5, <2>6, <3>1, AsideStep, KeptStep
  <2> QED
    BY <2>3, <2>4, <2>5, <2>6, AsideStep
<1> QED
  BY <1>1, <1>2, Inductive, PTL DEF Spec

(* The VM can be started whatever was created, restored, rolled back and      *)
(* cleaned up: no file of a disk's chain is ever missing, unless a define     *)
(* that timed out has left the domain on the files of a snapshot.             *)
THEOREM SourcesStayComplete == Spec => []VMChainComplete
<1>1. Kept => VMChainComplete
  BY DEF Kept, Sound, Health, SourcesComplete, VMChainComplete
<1> QED
  BY <1>1, KeptStrong, PTL

(* The data a manual snapshot froze stays as it was until the snapshot is     *)
(* deleted or the resize snapshot below it is rolled back; a define that      *)
(* timed out endangers it only once the domain is used where that left it.    *)
THEOREM ManualSafe == Spec => []ManualIntact
<1>1. Kept => ManualIntact
  BY DEF Kept, Sound, Health, FrozenKept, Frozen, CutOff, BasesComplete, ManualIntact
<1> QED
  BY <1>1, KeptStrong, PTL

(* What the portal offers as a rollback can be rolled back to, unmodified,    *)
(* also after a rollback or restore whose define timed out.                   *)
THEOREM RollbackReady == Spec => []ActiveCanRollBack
<1>1. Kept => ActiveCanRollBack
  BY DEF Kept, Sound, Health, FrozenKept, ActiveThere, Frozen, ActiveCanRollBack
<1> QED
  BY <1>1, KeptStrong, PTL

(* Deleting the VM removes every file and every saved XML a record knew of.   *)
THEOREM NothingLeft == Spec => []DeletionIsComplete
<1>1. Init => DeletionIsComplete
  BY DEF Init, DeletionIsComplete
<1>2. IInv /\ Kept /\ DeletionIsComplete /\ [Next]_vars => DeletionIsComplete'
  <2> SUFFICES ASSUME IInv, Kept, DeletionIsComplete, [Next]_vars, Benign', record' = "deleted"
               PROVE  /\ \A n \in xmls' : snaps'[n].kind = "none"
                      /\ \A d \in Disks, n \in Serial \ {Template} :
                           image'[d][n].where # "absent" => snaps'[n].kind = "none" /\ n # Own
    BY DEF DeletionIsComplete
  <2>1. \/ record = "deleted" /\ UNCHANGED <<image, snaps, xmls, faults>>
        \/ DeleteVM
    <3>1. record \in {"completed", "deleted"}
      BY DEF IInv, TypeOK
    <3> QED
      BY <3>1, RequestLasts
  <2>2. CASE record = "deleted" /\ UNCHANGED <<image, snaps, xmls, faults>>
    BY <2>2 DEF DeletionIsComplete, Benign
  <2>3. CASE DeleteVM
    <3>1. Aside /\ UNCHANGED snaps /\ xmls' = {n \in xmls : snaps[n].kind = "none"}
      BY <2>3 DEF DeleteVM, Kept, Benign
    <3>2. ASSUME NEW d \in Disks, NEW n \in Serial \ {Template}, image'[d][n].where # "absent"
          PROVE  snaps'[n].kind = "none" /\ n # Own
      <4>1. image'[d][n] = IF Listed(d, n) THEN NoImage ELSE image[d][n]
        BY <2>3 DEF DeleteVM
      <4>2. ~Listed(d, n) /\ image[d][n].where # "absent" /\ image[d][n].where \in {"live", "aside", "absent"}
        BY <3>2, <4>1, InitialTypes, ChainFacts, ImageParts
      <4>3. image[d][n].where = "live"
        BY <3>1, <4>2 DEF Listed, Aside
      <4> QED
        BY <3>1, <4>2, <4>3 DEF Listed, Recorded
    <3> QED
      BY <3>1, <3>2
  <2> QED
    BY <2>1, <2>2, <2>3
<1> QED
  BY <1>1, <1>2, Inductive, KeptStrong, PTL DEF Spec
=============================================================================
