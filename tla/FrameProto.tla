----------------------------- MODULE FrameProto -----------------------------
(***************************************************************************)
(* Decoding of a frame (FrameProto.Decode in pkg/libol/message.go) with    *)
(* the headers of pkg/libol/protocol.go, one step per header, and the      *)
(* layouts Encode writes and Decode reads.  A frame is what Decode looks   *)
(* at: its length, and the values that say which header comes next.        *)
(* Offsets and lengths are in bytes.                                       *)
(***************************************************************************)
EXTENDS Integers, FiniteSets

CONSTANT Lengths    \* lengths of frames

Headers == {"ether", "vlan", "arp", "ip4", "tcp", "udp"}

Frames == [len : Lengths, type : {"ip4", "arp", "vlan", "other"},
           ver : {4, 6}, ihl : {5, 6}, proto : {"tcp", "udp", "other"},
           hrdLen : {6, 8}]

VARIABLES
    frame,
    layer,      \* the header to decode next, "done" or "error"
    off,        \* where data starts in the frame
    at,         \* where each header was decoded, or -1
    reads       \* the parts of the frame that were read, <<from, to>>

fVars == <<frame, layer, off, at, reads>>

TypeOK ==
    /\ frame \in Frames /\ layer \in Headers \cup {"done", "error"}
    /\ off \in Nat /\ at \in [Headers -> Int]

-----------------------------------------------------------------------------
(* The headers: the length that Decode asks for, the one it moves on by,   *)
(* and the fields as <<name, first byte, bytes>>.                          *)

ShortIpv4(h) ==
    CASE h = "ether" -> 14 [] h = "vlan" -> 4 [] h = "arp" -> 28
      [] h = "ip4" -> 14 [] h = "tcp" -> 20 [] h = "udp" -> 8

MinLen(h) ==
    CASE h = "ether" -> 14 [] h = "vlan" -> 4 [] h = "arp" -> 28
      [] h = "ip4" -> 20 [] h = "tcp" -> 20 [] h = "udp" -> 8

LongEther(h) == IF h = "ether" THEN 18 ELSE MinLen(h)

\* The field Len of a header; an IPv4 header counts without its options.
HeaderLen(h) == MinLen(h)

DecodedEther == {<<"dst", 0, 6>>, <<"src", 6, 6>>, <<"type", 12, 2>>}
EncodedEther == {<<"dst", 0, 6>>, <<"src", 6, 6>>, <<"type", 12, 2>>}
DecodedVlan == {<<"tciVid", 0, 2>>, <<"pro", 2, 2>>}
EncodedVlan == {<<"tciVid", 0, 2>>, <<"pro", 2, 2>>}

ArpHead == {<<"hrdCode", 0, 2>>, <<"proCode", 2, 2>>, <<"hrdLen", 4, 1>>,
            <<"proLen", 5, 1>>, <<"opCode", 6, 2>>}
ArpAddrs(p, hrd, pro) ==
    {<<"sHwAddr", p, hrd>>, <<"sIpAddr", p + hrd, pro>>,
     <<"tHwAddr", p + hrd + pro, hrd>>, <<"tIpAddr", p + 2 * hrd + pro, pro>>}
DecodedArp == ArpHead \cup ArpAddrs(8, 6, 4)
SwappedArp == ArpHead \cup {<<"tHwAddr", 8, 6>>, <<"tIpAddr", 14, 4>>,
                            <<"sHwAddr", 18, 6>>, <<"sIpAddr", 24, 4>>}
EncodedArp == ArpHead \cup ArpAddrs(8, 6, 4)

DecodedIpv4 ==
    {<<"verHeaderLen", 0, 1>>, <<"tos", 1, 1>>, <<"totalLen", 2, 2>>, <<"id", 4, 2>>,
     <<"flagOffset", 6, 2>>, <<"tol", 8, 1>>, <<"protocol", 9, 1>>,
     <<"checksum", 10, 2>>, <<"source", 12, 4>>, <<"destination", 16, 4>>}
EncodedIpv4 ==
    {<<"verHeaderLen", 0, 1>>, <<"tos", 1, 1>>, <<"totalLen", 2, 2>>, <<"id", 4, 2>>,
     <<"flagOffset", 6, 2>>, <<"tol", 8, 1>>, <<"protocol", 9, 1>>,
     <<"checksum", 10, 2>>, <<"source", 12, 4>>, <<"destination", 16, 4>>}

DecodedTcp ==
    {<<"source", 0, 2>>, <<"destination", 2, 2>>, <<"sequence", 4, 4>>,
     <<"acknowledgment", 8, 4>>, <<"dataOffset", 12, 1>>, <<"controlBits", 13, 1>>,
     <<"window", 14, 2>>, <<"checksum", 16, 2>>, <<"urgentPointer", 18, 2>>}
EncodedTcp ==
    {<<"source", 0, 2>>, <<"destination", 2, 2>>, <<"sequence", 4, 4>>,
     <<"acknowledgment", 8, 4>>, <<"dataOffset", 12, 1>>, <<"controlBits", 13, 1>>,
     <<"window", 14, 2>>, <<"checksum", 16, 2>>, <<"urgentPointer", 18, 2>>}

DecodedUdp == {<<"source", 0, 2>>, <<"destination", 2, 2>>, <<"length", 4, 2>>, <<"checksum", 6, 2>>}
EncodedUdp == {<<"source", 0, 2>>, <<"destination", 2, 2>>, <<"length", 4, 2>>, <<"checksum", 6, 2>>}

Decoded(h) ==
    CASE h = "ether" -> DecodedEther [] h = "vlan" -> DecodedVlan [] h = "arp" -> DecodedArp
      [] h = "ip4" -> DecodedIpv4 [] h = "tcp" -> DecodedTcp [] h = "udp" -> DecodedUdp
Encoded(h) ==
    CASE h = "ether" -> EncodedEther [] h = "vlan" -> EncodedVlan [] h = "arp" -> EncodedArp
      [] h = "ip4" -> EncodedIpv4 [] h = "tcp" -> EncodedTcp [] h = "udp" -> EncodedUdp

-----------------------------------------------------------------------------
(* FrameProto.Decode.                                                      *)

Init ==
    /\ frame \in Frames /\ layer = "ether" /\ off = 0
    /\ at = [h \in Headers |-> -1] /\ reads = {}

Left == frame.len - off
Spans(fields) == {<<off + f[2], off + f[2] + f[3]>> : f \in fields}

\* A header that is too short, of the wrong version or address length.
Rejected(h) ==
    \/ Left < MinLen(h)
    \/ h = "ip4" /\ frame.ver # 4
    \/ h = "arp" /\ frame.hrdLen # 6

\* What follows a header: the type of the Ethernet header decides after a VLAN
\* header too, and it is VLAN then.
After(h) ==
    CASE h = "ether" /\ frame.type = "vlan" -> "vlan"
      [] h = "ether" /\ frame.type \in {"ip4", "arp"} -> frame.type
      [] h = "ip4" /\ frame.proto \in {"tcp", "udp"} -> frame.proto
      [] OTHER -> "done"

DecodeHeader ==
    /\ layer \in Headers
    /\ IF Rejected(layer)
       THEN /\ layer' = "error"
            /\ reads' = reads \cup (IF layer = "arp" /\ Left >= 8 THEN Spans(ArpHead) ELSE {})
            /\ UNCHANGED <<off, at>>
       ELSE /\ reads' = reads \cup Spans(Decoded(layer))
            /\ at' = [at EXCEPT ![layer] = off]
            /\ off' = off + HeaderLen(layer) /\ layer' = After(layer)
    /\ UNCHANGED frame

Next == DecodeHeader
Spec == Init /\ [][Next]_fVars

-----------------------------------------------------------------------------
(* Decode reads nothing beyond the end of the frame, and never moves on    *)
(* past it, for a frame cut at any byte.                                   *)
InFrame == off <= frame.len /\ \A s \in reads : s[2] <= frame.len

Disjoint(fields) ==
    \A f, g \in fields : f # g => f[2] + f[3] <= g[2] \/ g[2] + g[3] <= f[2]

(* Decode reads what Encode writes: the fields of each header it decodes   *)
(* have the same place in both and do not overlap.                         *)
ReadsWritten ==
    \A h \in Headers : at[h] >= 0 => Decoded(h) = Encoded(h) /\ Disjoint(Decoded(h))

(* A frame without a VLAN tag and without IP options that is long enough   *)
(* is decoded to its last header, each header where the one before it      *)
(* ends: so the lines of the traffic table have the right ports.  With IP  *)
(* options the ports are read from the options.                            *)
HeadersInPlace ==
    layer = "done" /\ frame.type = "ip4" /\ frame.ihl = 5 =>
      /\ at["ether"] = 0 /\ at["ip4"] = 14
      /\ frame.proto = "tcp" => at["tcp"] = 14 + 4 * frame.ihl
      /\ frame.proto = "udp" => at["udp"] = 14 + 4 * frame.ihl

(* message.go:352 with protocol.go: Decode stays in the frame, reads the   *)
(* layouts that Encode writes and finds each header in its place.          *)
FramesDecoded == InFrame /\ ReadsWritten /\ HeadersInPlace
=============================================================================
