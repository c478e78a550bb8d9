---------------------------- MODULE PeerAddress ----------------------------
(***************************************************************************)
(* The address of an external chaincode: injectPeerIdentifier and          *)
(* parseAddress (pkg/command/build.go), which put the peer's name into the *)
(* address of connection.json, so that every peer has a chaincode server   *)
(* of its own.  A string is a sequence of the separators ".", ":", "-",    *)
(* " " and of labels, which stand for the text between separators.         *)
(* Each peer of the network handles the same package once.                 *)
(***************************************************************************)
EXTENDS Naturals, SequencesExt

CONSTANTS
  Peers,      \* the peers that install the package
  Labels,     \* text without a separator
  Names,      \* what PEER_NAME may be: text and blanks
  MaxTokens   \* bound: tokens of the address in the package

ASSUME PeerAddressAssumption ==
  /\ MaxTokens \in Nat
  /\ \A s \in Names : s \in Seq(Labels \cup {" "})

VARIABLES
  inject,   \* injectIdentifier: "absent" (or no string), "hostname", "domain", "other"
  addr,     \* address: a string, or NoString
  name,     \* PEER_NAME of each peer
  conn      \* what each peer's build made of it: [status, address]

peerVars == <<inject, addr, name, conn>>

-----------------------------------------------------------------------------
Strings(n) == UNION {[1 .. k -> Labels \cup {".", ":"}] : k \in 0 .. n}
NoString == <<"not a string">>

Occurrences(s, c) == {i \in DOMAIN s : s[i] = c}

\* Where a string is not blank, and how many such places there are up to i.
Visible(s) == {i \in DOMAIN s : s[i] # " "}
Rank(s, i) == Cardinality({j \in Visible(s) : j =< i})

\* Fault: only the first word is taken.
PeerIDFirstWord(s) == IF s = <<>> \/ s[1] = " " THEN <<>> ELSE <<s[1]>>

\* getPeerID: what is left without the blanks, in its order.
PeerID(s) ==
  [k \in 1 .. Cardinality(Visible(s)) |-> s[CHOOSE i \in Visible(s) : Rank(s, i) = k]]

\* The part of s after the last c, all of s if there is none.
LastItem(s, c) ==
  LET at == Occurrences(s, c) IN
  IF at = {} THEN s ELSE SubSeq(s, 1 + Max(at), Len(s))

\* strings.TrimSuffix.
TrimSuffix(s, suffix) ==
  IF IsSuffix(suffix, s) THEN SubSeq(s, 1, Len(s) - Len(suffix)) ELSE s

\* Fault: the domain is everything after the first dot.
ParseFirstDot(s) ==
  LET colon   == Max(Occurrences(s, ":"))
      hostURL == SubSeq(s, 1, colon - 1)
      dots    == Occurrences(hostURL, ".")
      domain  == IF dots = {} THEN hostURL ELSE SubSeq(hostURL, 1 + Min(dots), Len(hostURL))
  IN [hostname |-> IF dots = {} THEN hostURL ELSE SubSeq(hostURL, 1, Min(dots) - 1),
      domain   |-> domain,
      port     |-> SubSeq(s, colon + 1, Len(s))]

\* parseAddress of a string with one colon.
Parse(s) ==
  LET colon   == Max(Occurrences(s, ":"))
      hostURL == SubSeq(s, 1, colon - 1)
      domain  == LastItem(hostURL, ".")
  IN [hostname |-> TrimSuffix(hostURL, <<".">> \o domain),
      domain   |-> domain,
      port     |-> SubSeq(s, colon + 1, Len(s))]

\* The errors of injectPeerIdentifier, in the order of its checks.
Rejected(id) ==
  \/ addr = NoString
  \/ id = <<>>
  \/ Cardinality(Occurrences(addr, ":")) # 1

NewAddress(id) ==
  LET a == Parse(addr) IN
  CASE inject = "hostname" -> id \o <<"-">> \o addr
    [] inject = "domain"   ->
         a.hostname \o <<".">> \o id \o <<"-">> \o a.domain \o <<":">> \o a.port
    [] OTHER               -> addr

-----------------------------------------------------------------------------
PeerInit ==
  /\ inject \in {"absent", "hostname", "domain", "other"}
  /\ addr \in Strings(MaxTokens) \cup {NoString}
  /\ name \in [Peers -> Names]
  /\ conn = [p \in Peers |-> [status |-> "none", address |-> <<>>]]

\* UpdateFile writes the bytes it is given, or returns the error.
Write(a) == [status |-> "written", address |-> a]
Fail     == [status |-> "error", address |-> <<>>]

\* injectPeerIdentifier.
InjectPeerIdentifier(p) ==
  /\ conn[p].status = "none"
  /\ conn' = [conn EXCEPT ![p] =
       IF inject = "absent" THEN Write(addr)
       ELSE LET id == PeerID(name[p]) IN
            IF Rejected(id) THEN Fail ELSE Write(NewAddress(id))]
  /\ UNCHANGED <<inject, addr, name>>

PeersFinished == (\A p \in Peers : conn[p].status # "none") /\ UNCHANGED peerVars

PeerNext == (\E p \in Peers : InjectPeerIdentifier(p)) \/ PeersFinished

PeerSpec == PeerInit /\ [][PeerNext]_peerVars

-----------------------------------------------------------------------------
Injected(p) == conn[p].status = "written" /\ inject \in {"hostname", "domain"}

\* The dots of the host, which the colon ends.
HostDots == {i \in Occurrences(addr, ".") : i < Max(Occurrences(addr, ":"))}

\* The new address is the old one with the peer's identifier and a dash in
\* front of one label, the first (hostname) or the one after the last dot of the
\* host (domain): taking it out gives back the address, with its port
\* (build.go 220-235).  A host without a dot has no domain; there the domain
\* mode doubles the host, and nothing is claimed.
OneLabelChanged ==
  \A p \in Peers : Injected(p) /\ (inject = "domain" => HostDots # {}) =>
    LET id  == PeerID(name[p]) \o <<"-">>
        head == IF inject = "hostname" THEN 0 ELSE Max(HostDots)
        new == conn[p].address
    IN /\ SubSeq(new, head + 1, head + Len(id)) = id
       /\ SubSeq(new, 1, head) \o SubSeq(new, head + Len(id) + 1, Len(new)) = addr

\* The names are the same but for blanks: what is visible of one can be matched
\* with what is visible of the other, in its order.
SameButBlanks(s, t) ==
  \E f \in Bijection(Visible(s), Visible(t)) :
    \A i, j \in Visible(s) : t[f[i]] = s[i] /\ (i < j => f[i] < f[j])

\* Two peers get the same address only if their names are the same but for
\* blanks, and no address with an injected identifier is the one of the package
\* (build.go 207-211, 220-235, 269-275).
PeersApart ==
  \A p, q \in Peers : Injected(p) /\ Injected(q) =>
    /\ conn[p] = conn[q] => SameButBlanks(name[p], name[q])
    /\ conn[p].address # addr
=============================================================================
