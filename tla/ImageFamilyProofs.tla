--------------------------- MODULE ImageFamilyProofs ---------------------------
(***************************************************************************)
(* Proofs about ImageFamily: on every listing, for every selector and      *)
(* architecture, Resolve gives a right answer.                             *)
(*                                                                         *)
(* The library's induction theorems take an operator as a parameter, which *)
(* the provers cannot instantiate.  The induction here is on sets instead: *)
(* a set of naturals that is not empty has a least element, and the set of *)
(* the positions where the claim fails has none.                           *)
(***************************************************************************)
EXTENDS ImageFamily, WellFoundedInduction, TLAPS

\* A set of naturals has a least element.
LEMMA LeastNat ==
    ASSUME NEW T, T \subseteq Nat, T # {}
    PROVE  \E x \in T : \A y \in T : x <= y
<1> DEFINE R == OpToRel(<, Nat)
<1>1. IsWellFoundedOn(R, Nat)
  BY NatLessThanWellFounded, Zenon
<1> HIDE DEF R
<1>2. PICK x \in T : \A y \in T : <<y, x>> \notin R
  BY <1>1, WFMin
<1>3. ASSUME NEW y \in T PROVE x <= y
  <2>1. x \in Nat /\ y \in Nat
    OBVIOUS
  <2>2. y < x => <<y, x>> \in R
    BY <2>1 DEF R, OpToRel
  <2>3. ~(y < x)
    BY <1>2, <2>2
  <2> QED BY <2>1, <2>3
<1> QED BY <1>3

\* f runs the scan over the first n images.
Runs(f, n, images, hits) ==
    /\ f = [k \in 0 .. n |-> f[k]] /\ f[0] = NoImage
    /\ \A k \in 1 .. n :
          f[k] = IF k \in hits THEN Newer(f[k - 1], images[k]) ELSE f[k - 1]

\* However long the listing, the scan is defined on it.
LEMMA ScanExists ==
    ASSUME NEW images, NEW hits, NEW n \in Nat
    PROVE  \E f : Runs(f, n, images, hits)
<1> DEFINE Undone == {m \in Nat : ~ \E f : Runs(f, m, images, hits)}
<1>1. SUFFICES ASSUME Undone # {} PROVE FALSE
  OBVIOUS
<1>2. PICK m \in Undone : \A y \in Undone : m <= y
  <2>1. Undone \subseteq Nat
    OBVIOUS
  <2> HIDE DEF Undone
  <2> QED BY <1>1, <2>1, LeastNat
<1>3. m # 0
  <2>1. Runs([k \in 0 .. 0 |-> NoImage], 0, images, hits)
    BY DEF Runs
  <2> QED BY <2>1
<1>4. m - 1 \in Nat /\ m - 1 \notin Undone
  BY <1>2, <1>3
<1>5. PICK f : Runs(f, m - 1, images, hits)
  BY <1>4
<1> DEFINE g == [k \in 0 .. m |->
                    IF k < m THEN f[k]
                    ELSE IF m \in hits THEN Newer(f[m - 1], images[m]) ELSE f[m - 1]]
<1>6. g = [k \in 0 .. m |-> g[k]] /\ g[0] = NoImage
  BY <1>3, <1>4, <1>5 DEF Runs
<1>7. ASSUME NEW k \in 1 .. m
      PROVE  g[k] = IF k \in hits THEN Newer(g[k - 1], images[k]) ELSE g[k - 1]
  <2>1. k - 1 \in 0 .. m /\ k - 1 < m /\ g[k - 1] = f[k - 1]
    BY <1>4
  <2>2. CASE k < m
    <3>1. k \in 1 .. m - 1 /\ g[k] = f[k]
      BY <1>4, <2>2
    <3> QED BY <2>1, <3>1, <1>5 DEF Runs
  <2>3. CASE k = m
    BY <2>1, <2>3
  <2> QED BY <2>2, <2>3, <1>4
<1>8. Runs(g, m, images, hits)
  BY <1>6, <1>7 DEF Runs
<1> QED BY <1>2, <1>8

\* Scan is such a run.
LEMMA ScanRuns ==
    ASSUME NEW images, NEW hits, Len(images) \in Nat
    PROVE  Runs(Scan(images, hits), Len(images), images, hits)
<1> DEFINE Step(f) == [n \in 0 .. Len(images) |->
                          IF n = 0 THEN NoImage
                          ELSE IF n \in hits THEN Newer(f[n - 1], images[n]) ELSE f[n - 1]]
<1>1. PICK f : Runs(f, Len(images), images, hits)
  BY ScanExists
<1>2. f = Step(f)
  <2>1. \A n \in 0 .. Len(images) : n # 0 => n \in 1 .. Len(images)
    OBVIOUS
  <2>2. f = [n \in 0 .. Len(images) |-> f[n]]
    BY <1>1 DEF Runs
  <2>3. \A n \in 0 .. Len(images) : f[n] = Step(f)[n]
    BY <1>1, <2>1 DEF Runs
  <2> QED BY <2>2, <2>3
<1>3. Scan(images, hits) = Step(Scan(images, hits))
  BY <1>2 DEF Scan
<1> DEFINE g == Scan(images, hits)
<1> HIDE DEF g
<1>4. g = Step(g)
  BY <1>3 DEF g
<1>5. g = [n \in 0 .. Len(images) |-> g[n]] /\ g[0] = NoImage
  BY <1>4
<1>6. ASSUME NEW k \in 1 .. Len(images)
      PROVE  g[k] = IF k \in hits THEN Newer(g[k - 1], images[k]) ELSE g[k - 1]
  <2>1. k \in 0 .. Len(images) /\ k # 0
    OBVIOUS
  <2>2. g[k] = Step(g)[k]
    BY <1>4
  <2> QED BY <2>1, <2>2
<1>7. Runs(g, Len(images), images, hits)
  BY <1>5, <1>6 DEF Runs
<1> QED BY <1>7 DEF g

-----------------------------------------------------------------------------
(* What the two scans find.                                                *)

\* img is the newest of the hits among the first n images, NoImage if none.
BestOf(img, n, images, hits) ==
    IF hits \cap (1 .. n) = {} THEN img = NoImage
    ELSE \E i \in hits \cap (1 .. n) :
            /\ img = images[i]
            /\ \A k \in hits \cap (1 .. n) : images[k].created <= img.created

\* One step of the scan keeps the newest.
LEMMA NewerKeepsBest ==
    ASSUME NEW images, IsListing(images), NEW hits, hits \subseteq DOMAIN images,
           NEW n \in 1 .. Len(images), NEW img, BestOf(img, n - 1, images, hits)
    PROVE  BestOf(IF n \in hits THEN Newer(img, images[n]) ELSE img, n, images, hits)
<1> DEFINE before == hits \cap (1 .. n - 1)
           upto == hits \cap (1 .. n)
<1>1. /\ Len(images) \in Nat
      /\ \A i \in hits : i \in Nat /\ images[i] # NoImage /\ images[i].created \in Nat
  BY DEF IsListing
<1>2. IF before = {} THEN img = NoImage
      ELSE \E i \in before :
              /\ img = images[i]
              /\ \A k \in before : images[k].created <= img.created
  BY DEF BestOf
<1>3. CASE n \notin hits
  <2>1. upto = before
    BY <1>1, <1>3
  <2> HIDE DEF upto, before
  <2>2. IF upto = {} THEN img = NoImage
        ELSE \E i \in upto :
              /\ img = images[i]
              /\ \A k \in upto : images[k].created <= img.created
    BY <1>2, <2>1
  <2> QED BY <1>3, <2>2 DEF BestOf, upto
<1>4. CASE n \in hits
  <2>1. upto = before \cup {n} /\ n \in upto /\ before \subseteq hits
    BY <1>1, <1>4
  <2> DEFINE new == Newer(img, images[n])
  <2> HIDE DEF upto, before
  <2>2. \E i \in upto : new = images[i] /\ \A k \in upto : images[k].created <= new.created
    <3>1. CASE before = {}
      <4>1. new = images[n] /\ upto = {n}
        BY <1>2, <2>1, <3>1 DEF Newer
      <4> QED BY <1>1, <1>4, <4>1
    <3>2. CASE before # {}
      <4>1. PICK i \in before : /\ img = images[i]
                                /\ \A k \in before : images[k].created <= img.created
        BY <1>2, <3>2
      <4>2. img # NoImage /\ img.created \in Nat /\ images[n].created \in Nat
        BY <1>1, <1>4, <2>1, <4>1
      <4>3. CASE images[n].created > img.created
        <5>1. new = images[n]
          BY <4>3 DEF Newer
        <5>2. \A k \in before : images[k].created \in Nat
          BY <1>1, <2>1
        <5>3. \A k \in upto : images[k].created <= images[n].created
          BY <2>1, <4>1, <4>2, <4>3, <5>2
        <5> QED BY <2>1, <5>1, <5>3
      <4>4. CASE ~(images[n].created > img.created)
        <5>1. new = img
          BY <4>2, <4>4 DEF Newer
        <5>2. \A k \in upto : images[k].created <= img.created
          BY <2>1, <4>1, <4>2, <4>4
        <5> QED BY <2>1, <4>1, <5>1, <5>2
      <4> QED BY <4>3, <4>4
    <3> QED BY <3>1, <3>2
  <2>3. upto # {}
    BY <2>1
  <2> HIDE DEF new
  <2>4. BestOf(new, n, images, hits)
    BY <2>2, <2>3 DEF BestOf, upto
  <2> QED BY <1>4, <2>4 DEF new
<1> QED BY <1>3, <1>4

\* The scan ends with the newest hit of the whole listing.
LEMMA ScanFindsBest ==
    ASSUME NEW images, IsListing(images), NEW hits, hits \subseteq DOMAIN images
    PROVE  BestOf(Scan(images, hits)[Len(images)], Len(images), images, hits)
<1> DEFINE f == Scan(images, hits)
           Wrong == {m \in 0 .. Len(images) : ~BestOf(f[m], m, images, hits)}
<1>1. Len(images) \in Nat
  BY DEF IsListing
<1>2. Runs(f, Len(images), images, hits)
  BY <1>1, ScanRuns
<1> HIDE DEF f
<1>3. Wrong = {}
  <2>1. SUFFICES ASSUME Wrong # {} PROVE FALSE
    OBVIOUS
  <2>2. Wrong \subseteq Nat
    BY <1>1
  <2>3. PICK m \in Wrong : \A y \in Wrong : m <= y
    <3> HIDE DEF Wrong
    <3> QED BY <2>1, <2>2, LeastNat
  <2>4. CASE m = 0
    <3>1. f[0] = NoImage
      BY <1>2 DEF Runs
    <3>2. hits \cap (1 .. 0) = {}
      OBVIOUS
    <3> QED BY <2>3, <2>4, <3>1, <3>2 DEF BestOf
  <2>5. CASE m # 0
    <3>1. m \in 1 .. Len(images) /\ m - 1 \in 0 .. Len(images) /\ ~(m <= m - 1)
      BY <1>1, <2>5
    <3>2. BestOf(f[m - 1], m - 1, images, hits)
      BY <2>3, <3>1
    <3>3. f[m] = IF m \in hits THEN Newer(f[m - 1], images[m]) ELSE f[m - 1]
      BY <1>2, <3>1 DEF Runs
    <3>4. BestOf(f[m], m, images, hits)
      BY <3>1, <3>2, <3>3, NewerKeepsBest
    <3> QED BY <3>4
  <2> QED BY <2>4, <2>5
<1>4. Len(images) \in 0 .. Len(images)
  BY <1>1
<1> QED BY <1>3, <1>4 DEF f

\* Resolve gives a right answer: for Ubuntu the first image listed that the
\* selector asks for, for Talos the newest of them, and none only if the listing
\* has none or the family is not supported (Resolve, resolveUbuntu, resolveTalos).
THEOREM ResolveIsRight ==
    ASSUME NEW images, IsListing(images), NEW selector, NEW arch
    PROVE  RightAnswer(Resolve(images, selector, arch), images, selector, arch)
<1> DEFINE wanted == {i \in DOMAIN images : Answers(images[i], selector, arch)}
           r == Resolve(images, selector, arch)
           HitsOf(type) == Hits(images, type, selector.family, selector.version, arch, selector.labels)
<1>1. Len(images) \in Nat /\ DOMAIN images = 1 .. Len(images)
  BY DEF IsListing
<1>2. SUFFICES IF wanted = {} THEN r = NoImage
               ELSE \E i \in wanted :
                      /\ r = images[i]
                      /\ selector.family = "ubuntu" => \A k \in wanted : i <= k
                      /\ selector.family = "talos" => \A k \in wanted : images[k].created <= r.created
  BY DEF RightAnswer
<1>3. CASE selector.family = "ubuntu"
  <2>1. wanted = HitsOf("system")
    BY <1>3 DEF Hits, AllWithOpts, Describes, Answers, TypeOf
  <2>2. r = First(images, wanted)
    BY <1>3, <2>1 DEF Resolve, ResolveUbuntu
  <2>3. wanted \subseteq Nat
    BY <1>1
  <2> HIDE DEF wanted, r
  <2>4. CASE wanted = {}
    BY <2>2, <2>4 DEF First
  <2>5. CASE wanted # {}
    <3>1. \E i \in wanted : \A k \in wanted : i <= k
      BY <2>3, <2>5, LeastNat
    <3>2. PICK first : first = CHOOSE i \in wanted : \A k \in wanted : i <= k
      OBVIOUS
    <3>3. first \in wanted /\ \A k \in wanted : first <= k
      BY <3>1, <3>2
    <3>4. r = images[first]
      BY <2>2, <2>5, <3>2 DEF First
    <3> QED BY <1>3, <2>5, <3>3, <3>4
  <2> QED BY <2>4, <2>5
<1>4. CASE selector.family = "talos"
  <2>1. wanted = HitsOf("snapshot")
    BY <1>4 DEF Hits, AllWithOpts, Describes, Answers, TypeOf
  <2>2. r = Scan(images, wanted)[Len(images)]
    BY <1>4, <2>1 DEF Resolve, ResolveTalos
  <2>3. wanted \subseteq DOMAIN images /\ wanted \cap (1 .. Len(images)) = wanted
    BY <1>1
  <2> HIDE DEF wanted, r
  <2>4. BestOf(r, Len(images), images, wanted)
    BY <2>2, <2>3, ScanFindsBest
  <2> QED BY <1>4, <2>3, <2>4 DEF BestOf
<1>5. CASE selector.family \notin {"ubuntu", "talos"}
  <2>1. selector.family \notin DOMAIN TypeOf
    BY <1>5 DEF TypeOf
  <2>2. wanted = {}
    BY <2>1 DEF Answers
  <2>3. r = NoImage
    BY <1>5 DEF Resolve
  <2> QED BY <2>2, <2>3
<1> QED BY <1>3, <1>4, <1>5

=============================================================================
