------------------------------- MODULE Networks -------------------------------
(***************************************************************************)
(* excludePrivateNetworks of src/fe/src/App/Pages/Device/Components/       *)
(* func.js: given the device's tunnel network and the AllowedIPs list of   *)
(* its WireGuard config, a list of one full-tunnel entry is replaced by    *)
(* the tunnel network and a table of CIDR blocks meant to cover the IPv4   *)
(* space except the private and reserved ranges.                          *)
(*                                                                         *)
(* An AllowedIPs entry is its address and the text between its first and  *)
(* second '/' (split('/')[1]), a sequence of one-character strings, or     *)
(* NoSlash.  The decision compares that text with numbers, so JavaScript   *)
(* converts it with ToNumber; NaN is a model value that compares false.    *)
(* A table entry <<a, b, p>> is the block a.b.0.0/p; every entry of the    *)
(* table has zero third and fourth octets and p <= 16, so addresses are    *)
(* counted in /16 blocks.                                                  *)
(***************************************************************************)
EXTENDS Integers, Sequences, SequencesExt, FiniteSetsExt

CONSTANTS
    Addrs,      \* entry addresses ("0.0.0.0", "::", ...)
    SizeTexts,  \* the texts after the '/' (sequences of characters)
    MaxNets,    \* bound on the length of the AllowedIPs list
    WgIpNet,    \* the device's tunnel network, wgipnet
    NoSlash,    \* an entry without '/'
    NaN,
    Undef

VARIABLES
    ipnets,     \* the list passed in
    out         \* what excludePrivateNetworks returned

nVars == <<ipnets, out>>

Entries == [addr : Addrs, suffix : SizeTexts \cup {NoSlash}]
Inputs == UNION {[1..n -> Entries] : n \in 0..MaxNets}

-----------------------------------------------------------------------------
(* ToNumber of a string, for the literals the inputs use: surrounding     *)
(* spaces are ignored, the empty string is 0, an optionally signed run of  *)
(* decimal digits is its value, anything else is NaN.                      *)

DigitChars == <<"0", "1", "2", "3", "4", "5", "6", "7", "8", "9">>
IsDigits(t) == Len(t) > 0 /\ \A i \in DOMAIN t : t[i] \in ToSet(DigitChars)
DigitValue(d) == CHOOSE v \in 0..9 : DigitChars[v + 1] = d
DecimalValue(t) == FoldLeft(LAMBDA acc, d : 10 * acc + DigitValue(d), 0, t)

Trim(s) ==
    LET kept == {i \in DOMAIN s : s[i] # " "} IN
    IF kept = {} THEN <<>> ELSE SubSeq(s, Min(kept), Max(kept))

ToNumber(s) ==
    LET t == Trim(s) IN
    CASE t = <<>>                                  -> 0
      [] IsDigits(t)                               -> DecimalValue(t)
      [] t[1] = "-" /\ IsDigits(Tail(t))            -> -DecimalValue(Tail(t))
      [] t[1] = "+" /\ IsDigits(Tail(t))            -> DecimalValue(Tail(t))
      [] OTHER                                     -> NaN

\* The relational operators of lines 66 and 68: false whenever NaN is
\* involved.
JsLess(x, y) == x # NaN /\ x < y
JsGreater(x, y) == x # NaN /\ x > y

\* Lines 64-65: the text after the first '/', or the number -1.
PrefixSize(e) == IF e.suffix = NoSlash THEN -1 ELSE ToNumber(e.suffix)

-----------------------------------------------------------------------------
\* Seeded fault: 192.169.0.0/16 mistyped as 192.168.0.0/16.
PublicNetsTypo ==
    << <<1, 0, 8>>, <<2, 0, 8>>, <<3, 0, 8>>, <<4, 0, 6>>, <<8, 0, 7>>,
       <<11, 0, 8>>, <<12, 0, 6>>, <<16, 0, 4>>, <<32, 0, 3>>, <<64, 0, 2>>,
       <<128, 0, 3>>, <<160, 0, 5>>, <<168, 0, 6>>, <<172, 0, 12>>,
       <<172, 32, 11>>, <<172, 64, 10>>, <<172, 128, 9>>, <<173, 0, 8>>,
       <<174, 0, 7>>, <<176, 0, 4>>, <<192, 0, 9>>, <<192, 128, 11>>,
       <<192, 160, 13>>, <<192, 168, 16>>, <<192, 170, 15>>, <<192, 172, 14>>,
       <<192, 176, 12>>, <<192, 192, 10>>, <<193, 0, 8>>, <<194, 0, 7>>,
       <<196, 0, 6>>, <<200, 0, 5>>, <<208, 0, 4>> >>

\* Lines 73-106: the table that follows wgipnet.
PublicNets ==
    << <<1, 0, 8>>, <<2, 0, 8>>, <<3, 0, 8>>, <<4, 0, 6>>, <<8, 0, 7>>,
       <<11, 0, 8>>, <<12, 0, 6>>, <<16, 0, 4>>, <<32, 0, 3>>, <<64, 0, 2>>,
       <<128, 0, 3>>, <<160, 0, 5>>, <<168, 0, 6>>, <<172, 0, 12>>,
       <<172, 32, 11>>, <<172, 64, 10>>, <<172, 128, 9>>, <<173, 0, 8>>,
       <<174, 0, 7>>, <<176, 0, 4>>, <<192, 0, 9>>, <<192, 128, 11>>,
       <<192, 160, 13>>, <<192, 169, 16>>, <<192, 170, 15>>, <<192, 172, 14>>,
       <<192, 176, 12>>, <<192, 192, 10>>, <<193, 0, 8>>, <<194, 0, 7>>,
       <<196, 0, 6>>, <<200, 0, 5>>, <<208, 0, 4>> >>

\* Lines 59-71 and 108: a list of other than one entry is returned as it
\* is; a single entry without a (non-negative) prefix becomes the tunnel
\* network alone, one with a positive prefix is kept, and one whose prefix
\* is neither becomes the tunnel network and the table.
excludePrivateNetworks(wgipnet, nets) ==
    IF Len(nets) # 1 THEN nets
    ELSE LET size == PrefixSize(nets[1]) IN
         CASE JsLess(size, 0)    -> <<wgipnet>>
           [] JsGreater(size, 0) -> nets
           [] OTHER              -> <<wgipnet>> \o PublicNets

\* The page calls the function on the list it holds.
Call ==
    /\ out = Undef
    /\ out' = excludePrivateNetworks(WgIpNet, ipnets)
    /\ UNCHANGED ipnets

Init ==
    /\ ipnets \in Inputs
    /\ out = Undef

Spec == Init /\ [][Call]_nVars

-----------------------------------------------------------------------------
(* The reference: the IPv4 ranges a full tunnel that excludes private     *)
(* networks leaves out, 0.0.0.0/8, the RFC 1918 ranges and 224.0.0.0/3    *)
(* (multicast and reserved).                                               *)

Excluded == << <<0, 0, 8>>, <<10, 0, 8>>, <<172, 16, 12>>, <<192, 168, 16>>,
               <<224, 0, 3>> >>

BlockCount(n) == 2 ^ (16 - n[3])
Lo(n) == n[1] * 256 + n[2]
Hi(n) == Lo(n) + BlockCount(n) - 1
Aligned(n) == n[3] \in 0..16 /\ Lo(n) % BlockCount(n) = 0 /\ Hi(n) < 2 ^ 16
Apart(n, m) == Hi(n) < Lo(m) \/ Hi(m) < Lo(n)
TotalBlocks(nets) == FoldLeft(LAMBDA acc, n : acc + BlockCount(n), 0, nets)

IsExpanded(o) == o # Undef /\ Len(o) > 1 /\ o[1] = WgIpNet

\* Whenever the single full-tunnel entry is expanded, the blocks after the
\* tunnel network route exactly the IPv4 addresses outside the excluded
\* ranges: each block is aligned to its prefix (WireGuard would otherwise
\* mask it to another block), no two overlap, none overlaps an excluded
\* range, and together with the excluded ranges they count 2^16 /16 blocks.
ExpandedRoutesExactlyPublic ==
    IsExpanded(out) =>
        LET nets == Tail(out) IN
        /\ \A i \in DOMAIN nets : Aligned(nets[i])
        /\ \A i, j \in DOMAIN nets : i # j => Apart(nets[i], nets[j])
        /\ \A i \in DOMAIN nets, k \in DOMAIN Excluded : Apart(nets[i], Excluded[k])
        /\ TotalBlocks(nets) + TotalBlocks(Excluded) = 2 ^ 16
==============================================================================
