---------------------------- MODULE Attestation ----------------------------
(***************************************************************************)
(* Release manifests (release_manifest.py) and the attestation of what is     *)
(* installed against one (artifact_attestation.py). Read-only and pure, but   *)
(* for the files it reads: a manifest expects of each constituent a version   *)
(* and the digest of a wheel; a host has, for each, what its distribution     *)
(* says of itself and the files on disk.                                   *)
(*                                                                         *)
(* A path is [dir, name, kind]: dir is the directory of site-packages it lies *)
(* in, Top for none and Above for a RECORD row that leaves site-packages; kind *)
(* is "script", "data" (a relocated payload), "pyc" or "plain". A wheel's file *)
(* name is [dist, version, tag]. What may be missing is a set of at most one.  *)
(***************************************************************************)
EXTENDS Naturals, Sequences

None == "none"
Top == ""
Above == ".."
NoFile == [dist |-> None, version |-> None, tag |-> None]

\* Strongest first; the last one is not weighed with the others.
Rungs == <<"wheel_hash_chain", "recorded_archive_hash", "install_record_only",
           "version_only", "no_provenance", "not_applicable">>

RungBinds(strength) == strength \in {"wheel_hash_chain", "recorded_archive_hash"}

-----------------------------------------------------------------------------
(* Building a manifest, and verifying wheels against it *)

\* `names` are the component's distribution names, in the order they are tried;
\* a py3-none-any wheel is preferred, else the one that sorts first.
Candidates(wheels, dist, version) ==
    {f \in DOMAIN wheels : f.dist = dist /\ f.version = version}
Matching(wheels, names, version) ==
    {i \in DOMAIN names : Candidates(wheels, names[i], version) # {}}
Preferred(found) ==
    IF \E f \in found : f.tag = "py3-none-any"
    THEN CHOOSE f \in found : f.tag = "py3-none-any" ELSE CHOOSE f \in found : TRUE

Collected(wheels, names, version) ==
    IF Matching(wheels, names, version) = {} THEN NoFile
    ELSE LET i == CHOOSE i \in Matching(wheels, names, version) :
                     \A j \in Matching(wheels, names, version) : i <= j
         IN  Preferred(Candidates(wheels, names[i], version))

Expectation(ident, version, names, wheels) ==
    LET file == Collected(wheels, names, version)
    IN  [ident |-> ident, version |-> version, filename |-> file,
         sha |-> IF file = NoFile THEN None ELSE wheels[file].sha]

\* None: the lock has no spine quad, or a pin without a full revision. The
\* umbrella is not pinned, but its wheel is part of the release.
BuildManifest(lock, umbrella, wheels) ==
    IF lock.quad /\ \A c \in DOMAIN lock.pins : lock.pins[c].revised
    THEN {{Expectation(c, lock.pins[c].version, lock.pins[c].names, wheels)
              : c \in DOMAIN lock.pins}
          \cup {Expectation(u.ident, u.version, u.names, wheels) : u \in umbrella}}
    ELSE {}

WheelFails(e, wheels) ==
    e.sha # None /\ (e.filename \notin DOMAIN wheels \/ wheels[e.filename].sha # e.sha)

WheelsVerify(manifest, wheels) == \A e \in manifest : ~WheelFails(e, wheels)

-----------------------------------------------------------------------------
(* What one component's installation shows *)

WheelFound(e, host) ==
    IF e.sha # None /\ e.filename # NoFile /\ host.given /\ e.filename \in DOMAIN host.wheels
    THEN {host.wheels[e.filename]} ELSE {}
ReleaseWheel(e, host) == {w \in WheelFound(e, host) : w.readable /\ w.sha = e.sha}

\* The distribution whose files are looked at: it says where it is, and its
\* RECORD can be read.
Tree(p) == {d \in p.dist : d.rooted /\ d.record # {}}

Install(d) == CHOOSE r \in d.record : TRUE

\* The rows that are verified and the digest each file should have: the wheel's,
\* and for what the wheel does not ship the one the installation recorded itself.
Shipped(wheel) == UNION {DOMAIN w.record : w \in wheel}
Own(wheel) == {w.recordName : w \in wheel}
Rows(d, wheel) ==
    [x \in (Shipped(wheel) \ Own(wheel))
            \cup ((DOMAIN Install(d) \ Shipped(wheel)) \ {d.recordName}) |->
        IF x \in Shipped(wheel) THEN (CHOOSE w \in wheel : TRUE).record[x] ELSE Install(d)[x]]

Relocated(rows) == {x \in DOMAIN rows : x.kind = "data"}
Blank(rows) == {x \in DOMAIN rows \ Relocated(rows) : rows[x] = None}
Hashed(rows) == DOMAIN rows \ (Relocated(rows) \cup Blank(rows))

\* d.disk are the files inside the environment and their digests, None for one
\* that cannot be read.
Holds(d, rows, x) == x \in DOMAIN d.disk /\ d.disk[x] = rows[x]

Scripts(d) == {x \in DOMAIN Install(d) : x.kind = "script"} \cap DOMAIN d.disk
Astray(d, wheel) ==
    \E w \in wheel, x \in Scripts(d) :
        w.declared # {} /\ d.imports[x] \notin w.declared \cup {None}

\* A directory that cannot be walked is passed over.
OwnedDirectories(d) == {x.dir : x \in DOMAIN Install(d)} \ {Top, Above}
Unrecorded(d) ==
    {x \in DOMAIN d.disk : /\ x.dir \in OwnedDirectories(d) \ d.unwalkable
                           /\ x \notin DOMAIN Install(d)}

TreeGaps(d, wheel) ==
    LET rows == Rows(d, wheel)
        extra == Unrecorded(d)
    IN  {k \in {"relocated_data", "bytecode_cache", "blank_digest", "unrecorded_file",
                "installer_generated", "site_customization"} :
            CASE k = "relocated_data" -> Relocated(rows) # {}
              [] k = "bytecode_cache" -> \E x \in Blank(rows) \cup extra : x.kind = "pyc"
              [] k = "blank_digest" -> \E x \in Blank(rows) : x.kind # "pyc"
              [] k = "unrecorded_file" -> \E x \in extra : x.kind # "pyc"
              [] k = "installer_generated" -> wheel # {} /\ Scripts(d) # {}
              [] k = "site_customization" -> ~(d.pth \subseteq d.accounted)}

Mismatched(e, p, host) ==
    \/ p.version # e.version
    \/ p.archive \notin {NoFile, e.filename} /\ e.filename # NoFile
    \/ \E d \in p.dist : d.record = {}
    \/ ReleaseWheel(e, host) # WheelFound(e, host)
    \/ \E d \in Tree(p) :
          LET rows == Rows(d, ReleaseWheel(e, host))
          IN  \/ \E x \in Hashed(rows) : ~Holds(d, rows, x)
              \/ Astray(d, ReleaseWheel(e, host))
    \/ e.sha # None /\ p.archiveSha \notin {None, e.sha}

Strength(e, p, host) ==
    IF Mismatched(e, p, host) THEN "version_only"
    ELSE IF Tree(p) # {} /\ ReleaseWheel(e, host) # {} THEN "wheel_hash_chain"
    ELSE IF e.sha # None /\ p.archiveSha = e.sha THEN "recorded_archive_hash"
    ELSE IF Tree(p) # {} THEN "install_record_only" ELSE "version_only"

Gaps(e, p, host) ==
    UNION {TreeGaps(d, ReleaseWheel(e, host)) : d \in Tree(p)}
    \cup {k \in {"wheel_unavailable"} :
             e.sha # None /\ WheelFound(e, host) = {} /\ ~RungBinds(Strength(e, p, host))}

Answer(e, strength, ok, gaps) ==
    [ident |-> e.ident, strength |-> strength, ok |-> ok, gaps |-> gaps]

AttestComponent(e, p, host) ==
    IF p.mode = "absent" THEN Answer(e, "not_applicable", TRUE, {})
    ELSE IF p.mode = "unknown" THEN Answer(e, "no_provenance", TRUE, {})
    ELSE IF p.source \in {"editable", "local", "vcs"}
         THEN Answer(e, "not_applicable", TRUE, {})
    ELSE Answer(e, Strength(e, p, host), ~Mismatched(e, p, host), Gaps(e, p, host))

Binds(a) == RungBinds(a.strength) /\ a.gaps = {}

-----------------------------------------------------------------------------
(* The host against the manifest *)

Attested(e, host) ==
    IF e.ident \in DOMAIN host.provenance
    THEN AttestComponent(e, host.provenance[e.ident], host)
    ELSE Answer(e, "no_provenance", TRUE, {})

NotHere(manifest, host) ==
    {e \in manifest : Attested(e, host).strength \in {"not_applicable", "no_provenance"}}
Considered(manifest, host) ==
    {e \in manifest : Attested(e, host).strength # "not_applicable"}
Unbound(manifest, host) == {e \in Considered(manifest, host) : ~Binds(Attested(e, host))}

\* The wheels of what is not installed here are verified as files.
InstalledOk(manifest, host, requireBinding) ==
    /\ \A e \in manifest : Attested(e, host).ok
    /\ host.given => \A e \in NotHere(manifest, host) : ~WheelFails(e, host.wheels)
    /\ requireBinding => /\ Considered(manifest, host) # {}
                         /\ Unbound(manifest, host) = {}

\* The rung the whole host is reported at.
Weakest(manifest, host) ==
    LET held == {i \in DOMAIN Rungs :
                    \E e \in Considered(manifest, host) : Attested(e, host).strength = Rungs[i]}
    IN  IF held = {} THEN "not_applicable"
        ELSE Rungs[CHOOSE i \in held : \A j \in held : j <= i]
=============================================================================
