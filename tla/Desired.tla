------------------------------ MODULE Desired -------------------------------
(***************************************************************************)
(* internal/network: which prefixes are enforced, given what the feeds     *)
(* list and what the configuration allows.  Addresses have Width bits; one *)
(* address family is modelled.  Feeds, contributors and counts are left    *)
(* out: they do not change which prefixes are desired.                     *)
(***************************************************************************)
EXTENDS Integers, FiniteSets

CONSTANTS
    Width,
    Special,                        \* safetyPrefixes
    MaxCandidates, MaxAllowed       \* bounds on the inputs

\* netip: a masked prefix, its addresses, Contains and Overlaps.
Size(bits) == 2 ^ (Width - bits)
Prefix ==
    {p \in [addr: 0..(Size(0) - 1), bits: 0..Width] : p.addr % Size(p.bits) = 0}
Addresses(p) == p.addr .. (p.addr + Size(p.bits) - 1)
Contains(p, addr) == addr \in Addresses(p)
Overlaps(p, q) == Addresses(p) \cap Addresses(q) # {}

ASSUME DesiredAssumption ==
    /\ Width \in Nat /\ Special \subseteq Prefix
    /\ MaxCandidates \in Nat /\ MaxAllowed \in Nat
    /\ Size(Width) = 1             \* 2^0, which the provers do not evaluate

Candidate == [prefix: Prefix, kind: {"ip", "range"}]

VARIABLES candidates, allowlist, desired
dvars == <<candidates, allowlist, desired>>

-----------------------------------------------------------------------------
(* BuildDesired.                                                           *)

\* The addresses IsGlobalUnicast excludes are among the special ones.
IsSafePrefix(p) == \A special \in Special : ~Overlaps(p, special)

ValidateKind(c) == c.kind = "ip" => c.prefix.bits = Width

\* Faulty: only a prefix inside an allowed one is held back.
overlapsAllowlistInside(p, allowed) ==
    \E a \in allowed : Addresses(p) \subseteq Addresses(a)

overlapsAllowlist(p, allowed) == \E a \in allowed : Overlaps(p, a)

Valid(cs) == {c \in cs : IsSafePrefix(c.prefix) /\ ValidateKind(c)}

\* One contributor of kind ip makes the object an address.
IsHost(p, cs) == \E c \in Valid(cs) : c.prefix = p /\ c.kind = "ip"

Objects(cs) == {c.prefix : c \in Valid(cs)}

NotAllowed(cs, allowed) == {p \in Objects(cs) : ~overlapsAllowlist(p, allowed)}

\* Faulty: a range that is itself held back still covers.
CoveringAny(p, cs, allowed) ==
    {q \in Objects(cs) : /\ q # p /\ ~IsHost(q, cs) /\ q.bits < Width
                         /\ Contains(q, p.addr)}

Covering(p, cs, allowed) ==
    {q \in NotAllowed(cs, allowed) :
        q # p /\ ~IsHost(q, cs) /\ q.bits < Width /\ Contains(q, p.addr)}

BuildDesired(cs, allowed) ==
    {p \in NotAllowed(cs, allowed) :
        ~(IsHost(p, cs) /\ Covering(p, cs, allowed) # {})}

-----------------------------------------------------------------------------
(* The inputs change from Run to Run; each Run computes the plan anew.     *)

DesiredInit == candidates = {} /\ allowlist = {} /\ desired = {}

Rebuild == desired' = BuildDesired(candidates', allowlist')

Listed ==
    /\ \E c \in Candidate \ candidates : candidates' = candidates \cup {c}
    /\ Cardinality(candidates) < MaxCandidates
    /\ UNCHANGED allowlist /\ Rebuild

Unlisted ==
    /\ \E c \in candidates : candidates' = candidates \ {c}
    /\ UNCHANGED allowlist /\ Rebuild

Allowed ==
    /\ \E a \in Prefix \ allowlist : allowlist' = allowlist \cup {a}
    /\ Cardinality(allowlist) < MaxAllowed
    /\ UNCHANGED candidates /\ Rebuild

Disallowed ==
    /\ \E a \in allowlist : allowlist' = allowlist \ {a}
    /\ UNCHANGED candidates /\ Rebuild

DesiredNext == Listed \/ Unlisted \/ Allowed \/ Disallowed

DesiredSpec == DesiredInit /\ [][DesiredNext]_dvars

-----------------------------------------------------------------------------
(* Properties.                                                             *)

\* No enforced prefix contains an allowed or a special address, also not as a
\* small part of a broad prefix.
NoCollateral ==
    \A p \in desired : \A q \in allowlist \cup Special :
        Addresses(p) \cap Addresses(q) = {}

\* Suppression loses nothing: every address of a valid candidate that touches no
\* allowed prefix is in an enforced one, although a covering range may itself
\* be held back by the allowlist.
Covered ==
    \A c \in candidates :
        IsSafePrefix(c.prefix) /\ ValidateKind(c)
        /\ ~overlapsAllowlist(c.prefix, allowlist) =>
            \A a \in Addresses(c.prefix) : \E p \in desired : a \in Addresses(p)
=============================================================================
