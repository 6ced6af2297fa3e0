------------------------------ MODULE ImageFamily ------------------------------
(***************************************************************************)
(* Provider.Resolve of pkg/providers/imagefamily: the image of a selector   *)
(* and an architecture in hcloud's listing.                                *)
(*                                                                         *)
(* An image is [id, type, arch, mentions, labels, created]: mentions is    *)
(* the set of strings its lower-cased description contains, so that        *)
(* strings.Contains is membership; a description with "1.10" mentions      *)
(* "1.1" too.  A selector is [family, version, labels].                    *)
(*                                                                         *)
(* A definition marked "Fault:" is a plausible mistake in the operator that *)
(* follows it.  No specification uses one; putting it in the operator's    *)
(* place shows that a property can fail.                                   *)
(***************************************************************************)
EXTENDS Integers, Sequences

CONSTANTS
    NoImage,        \* no image
    NoVersion       \* a selector that asks for no version

\* What hcloud may list: images, each with the time it was created.
IsListing(images) ==
    /\ Len(images) \in Nat /\ DOMAIN images = 1 .. Len(images)
    /\ \A i \in DOMAIN images : images[i] # NoImage /\ images[i].created \in Nat

\* AllWithOpts: hcloud filters by type, architecture and label selector.  The
\* positions of the images it answers with, which stay in the listing's order.
AllWithOpts(images, type, arch, ls) ==
    {i \in DOMAIN images :
        images[i].type = type /\ images[i].arch = arch /\ ls \subseteq images[i].labels}

\* The description names the family, and the version if one is asked for.
Describes(img, family, version) ==
    family \in img.mentions /\ (version = NoVersion \/ version \in img.mentions)

\* The images of the answer that pass the loop's two tests.
Hits(images, type, family, version, arch, ls) ==
    {i \in AllWithOpts(images, type, arch, ls) : Describes(images[i], family, version)}

\* The first of the hits.
First(images, hits) ==
    IF hits = {} THEN NoImage ELSE images[CHOOSE i \in hits : \A k \in hits : i <= k]

\* resolveUbuntu: the first system image that matches.
ResolveUbuntu(images, version, arch, ls) ==
    First(images, Hits(images, "system", "ubuntu", version, arch, ls))

\* Fault: the scan keeps the oldest snapshot.
Older(best, img) == IF best = NoImage \/ img.created < best.created THEN img ELSE best

\* The scan's step: a strictly newer snapshot takes over.
Newer(best, img) == IF best = NoImage \/ img.created > best.created THEN img ELSE best

\* The scan: the best of the hits among the first n images.
Scan(images, hits) ==
    LET best[n \in 0 .. Len(images)] ==
            IF n = 0 THEN NoImage
            ELSE IF n \in hits THEN Newer(best[n - 1], images[n]) ELSE best[n - 1]
    IN  best

\* resolveTalos: the newest snapshot that matches.
ResolveTalos(images, version, arch, ls) ==
    Scan(images, Hits(images, "snapshot", "talos", version, arch, ls))[Len(images)]

\* Resolve on a listing that could be read: an image, or NoImage for a
\* PermanentError (nothing matches, or the family is not supported).
Resolve(images, selector, arch) ==
    CASE selector.family = "ubuntu" -> ResolveUbuntu(images, selector.version, arch, selector.labels)
      [] selector.family = "talos" -> ResolveTalos(images, selector.version, arch, selector.labels)
      [] OTHER -> NoImage

-----------------------------------------------------------------------------
(* What Resolve promises, without a scan.                                  *)

TypeOf == [ubuntu |-> "system", talos |-> "snapshot"]

\* The image is one the selector asks for.
Answers(img, selector, arch) ==
    /\ selector.family \in DOMAIN TypeOf /\ img.type = TypeOf[selector.family]
    /\ img.arch = arch
    /\ selector.labels \subseteq img.labels
    /\ selector.family \in img.mentions
    /\ selector.version # NoVersion => selector.version \in img.mentions

\* r is a right answer: an image asked for, of Ubuntu the first listed, of Talos
\* one that none is newer than, and none only if there is none.
RightAnswer(r, images, selector, arch) ==
    LET wanted == {i \in DOMAIN images : Answers(images[i], selector, arch)}
    IN  IF wanted = {} THEN r = NoImage
        ELSE \E i \in wanted :
                /\ r = images[i]
                /\ selector.family = "ubuntu" => \A k \in wanted : i <= k
                /\ selector.family = "talos" => \A k \in wanted : images[k].created <= r.created

=============================================================================
