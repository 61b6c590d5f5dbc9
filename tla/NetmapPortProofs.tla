--------------------------- MODULE NetmapPortProofs ---------------------------
(***************************************************************************)
(* Theorems about NetmapPort, for every name, every interface with every   *)
(* order of its ring table, all flags and every index.                     *)
(***************************************************************************)
EXTENDS NetmapPort, TLAPS

\* The lookups of tx_ring and rx_ring, for an index below the number of the NIC's
\* rings or of the host's: they reach an entry of the table.
LEMMA TxEntry ==
  ASSUME NEW nif, IsNif(nif), NEW index \in Nat,
         index < nif.ni_tx_rings \/ index < nif.ni_host_tx_rings
  PROVE  /\ index \in Entries(nif)
         /\ NETMAP_TXRING(nif, index) = nif.ring_ofs[index]
         /\ NETMAP_TXRING(nif, index) \in Ring
<1>1. index \in Entries(nif)
  BY DEF IsNif, Entries
<1> QED
  BY <1>1 DEF IsNif, NETMAP_TXRING, RingAt

LEMMA RxEntry ==
  ASSUME NEW nif, IsNif(nif), NEW index \in Nat,
         index < nif.ni_rx_rings \/ index < nif.ni_host_rx_rings
  PROVE  /\ nif.ni_tx_rings + index \in Entries(nif)
         /\ NETMAP_RXRING(nif, index) = nif.ring_ofs[nif.ni_tx_rings + index]
         /\ NETMAP_RXRING(nif, index) \in Ring
<1>0. /\ nif.ni_tx_rings \in Nat /\ nif.ni_rx_rings \in Nat
      /\ nif.ni_host_tx_rings \in Nat /\ nif.ni_host_rx_rings \in Nat
  BY DEF IsNif
<1>1. nif.ni_tx_rings + index \in Entries(nif)
  BY <1>0 DEF Entries
<1> QED
  BY <1>1 DEF IsNif, NETMAP_RXRING, RingAt

LEMMA NoRingIsNone == NoRing \notin Ring
  BY DEF NoRing, Ring

\* The rings counted are the host's or the interface's, by is_host_if alone.
Counted ==
  port # NoPort =>
    /\ port.num_tx_rings =
         IF port.is_host_if THEN port.nif.ni_host_tx_rings ELSE port.nif.ni_tx_rings
    /\ port.num_rx_rings =
         IF port.is_host_if THEN port.nif.ni_host_rx_rings ELSE port.nif.ni_rx_rings

\* A handle is what the port's lookup gives for an index the port lets pass.
LookedUp(h) ==
  \/ /\ h.dir = "tx" /\ h.index < port.num_tx_rings
     /\ h.ring = NETMAP_TXRING(port.nif, h.index)
  \/ /\ h.dir = "rx" /\ h.index < port.num_rx_rings
     /\ h.ring = NETMAP_RXRING(port.nif, h.index)

\* Handles exist only beside an open port, and each was looked up there.
HandlesLookedUp == \A h \in borrowed : port \in Netmap /\ LookedUp(h)

\* An open port has an owner, which says of what kind its handles are and is
\* the rings only while there are some.
Owned ==
  /\ port = NoPort <=> owner = "none"
  /\ borrowed # {} => owner = "caller"
  /\ shared # {} => owner \in {"tokio", "rings"}
  /\ owner = "rings" => shared # {}

PortInv == PortTypeOK /\ CountsWhatItRegistered /\ Counted /\ HandlesLookedUp /\ Owned

LEMMA PortInit == Init => PortInv
  BY DEF Init, PortInv, PortTypeOK, CountsWhatItRegistered, Counted, HandlesLookedUp, Owned

LEMMA NotOpen == NoPort \notin Netmap
  BY DEF NoPort, Netmap

\* A step that closes the port and leaves no handle keeps the invariant.
LEMMA CloseStep ==
  ASSUME PortInv, Close, borrowed' = {}, shared' = {},
         builder' = builder,
         result' \in {"Ok", "BindFail", "InvalidRingIndex", "Io"}
  PROVE  PortInv'
  BY DEF Close, PortInv, PortTypeOK, CountsWhatItRegistered, Counted, HandlesLookedUp, Owned

\* A step that leaves the port and its handles alone keeps the invariant if it
\* keeps the types of the others.
LEMMA AsideStep ==
  ASSUME PortInv, UNCHANGED <<port, owner, handles>>,
         builder' = NoBuilder \/ builder' \in NetmapBuilder,
         result' \in {"Ok", "BindFail", "InvalidRingIndex", "Io"}
  PROVE  PortInv'
  BY DEF PortInv, PortTypeOK, CountsWhatItRegistered, Counted, HandlesLookedUp, LookedUp,
         Owned, handles

LEMMA NewBuilder ==
  ASSUME NEW n \in Names, New(n)
  PROVE  builder' \in NetmapBuilder
<1>1. n \in Name /\ n.kind \in Kinds /\ n.host \in BOOLEAN /\ n.prefix \in BOOLEAN
  BY PortConstants DEF Name
<1>2. [n EXCEPT !.prefix = @ \/ n.kind = "os"] \in Name
  BY <1>1, Zenon DEF Name
<1>3. 0 \in U16 /\ 1 \in U16 /\ {} \in Flags
  BY PortConstants DEF U16
<1>4. IsPipe(n) \in BOOLEAN
  BY <1>1 DEF IsPipe
<1> QED
  BY <1>1, <1>2, <1>3, <1>4 DEF New, NetmapBuilder

\* What build makes of a builder is a Netmap that counts what it registered.
LEMMA OpenedPort ==
  ASSUME NEW b \in NetmapBuilder, NEW nif \in Nifs
  PROVE  LET p  == Opened(b, nif)
             sw == "NR_REG_SW" \in p.req.nr_flags
         IN  /\ p \in Netmap
             /\ p.num_tx_rings = IF p.is_host_if THEN p.nif.ni_host_tx_rings
                                                 ELSE p.nif.ni_tx_rings
             /\ p.num_rx_rings = IF p.is_host_if THEN p.nif.ni_host_rx_rings
                                                 ELSE p.nif.ni_rx_rings
             /\ p.additional_flags \intersect Modes = {} => p.is_host_if = sw
<1> DEFINE host == b.wants_host_rings /\ ~b.is_pipe_if
<1>1. /\ nif.ni_tx_rings \in Nat /\ nif.ni_rx_rings \in Nat
      /\ nif.ni_host_tx_rings \in Nat /\ nif.ni_host_rx_rings \in Nat
  BY PortConstants DEF IsNif
<1>2. /\ b.additional_flags \in Flags
      /\ b.wants_host_rings \in BOOLEAN /\ b.is_pipe_if \in BOOLEAN
      /\ b.req_num_tx_rings \in U16 /\ b.req_num_rx_rings \in U16
  BY DEF NetmapBuilder
<1>3. BuildNmreq(b) \in Nmreq
  <2>1. BuildNmreq(b).nr_flags \subseteq (UNION Flags) \union Modes
    BY <1>2 DEF BuildNmreq, Modes
  <2>2. 0 \in U16
    BY PortConstants DEF U16
  <2> QED
    BY <1>2, <2>1, <2>2 DEF BuildNmreq, Nmreq
<1>4. b.additional_flags \intersect Modes = {} =>
        (("NR_REG_SW" \in BuildNmreq(b).nr_flags) <=> host)
  BY <1>2 DEF BuildNmreq, Modes
<1>5. host \in BOOLEAN /\ ("NR_REG_SW" \in BuildNmreq(b).nr_flags) \in BOOLEAN
  BY <1>2
<1> QED
  BY <1>1, <1>2, <1>3, <1>4, <1>5 DEF Opened, Netmap

\* tx_ring and rx_ring add a handle that the port's lookup gives.
LEMMA BorrowStep ==
  ASSUME PortInv, owner = "caller", NEW id \in Handles, NEW dir \in Directions,
         NEW index \in Nat, NEW ring \in Ring, Borrow(id, dir, index, ring),
         LookedUp([id |-> id, dir |-> dir, index |-> index, ring |-> ring])
  PROVE  PortInv'
<1> DEFINE new == [id |-> id, dir |-> dir, index |-> index, ring |-> ring]
<1>1. port \in Netmap /\ new \in NetmapRing
  BY DEF PortInv, PortTypeOK, Owned, NetmapRing
<1>2. /\ borrowed' = borrowed \union {new} /\ result' = "Ok"
      /\ UNCHANGED <<builder, port, owner, shared>>
  BY DEF Borrow
<1>3. LookedUp(new)
  OBVIOUS
<1> HIDE DEF new
<1>4. HandlesLookedUp'
  BY <1>1, <1>2, <1>3 DEF PortInv, HandlesLookedUp, LookedUp
<1> QED
  BY <1>1, <1>2, <1>4 DEF PortInv, PortTypeOK, CountsWhatItRegistered, Counted, Owned

\* So do those of TokioNetmap, without a lookup.
LEMMA ShareStep ==
  ASSUME PortInv, owner = "tokio", NEW id \in Handles, NEW dir \in Directions,
         NEW index \in Nat, Share(id, dir, index)
  PROVE  PortInv'
<1>1. /\ shared' \subseteq AsyncRing /\ result' = "Ok"
      /\ UNCHANGED <<builder, port, owner, borrowed>>
  BY DEF Share, PortInv, PortTypeOK, AsyncRing
<1> QED
  BY <1>1 DEF PortInv, PortTypeOK, CountsWhatItRegistered, Counted, HandlesLookedUp,
              LookedUp, Owned

LEMMA PortStep == PortInv /\ [Next]_vars => PortInv'
<1> SUFFICES ASSUME PortInv, [Next]_vars
             PROVE  PortInv'
  OBVIOUS
<1>0. /\ PortTypeOK /\ Owned
      /\ builder = NoBuilder \/ builder \in NetmapBuilder
      /\ result \in {"Ok", "BindFail", "InvalidRingIndex", "Io"}
  BY DEF PortInv, PortTypeOK
<1>1. ASSUME NEW n \in Names, New(n)
      PROVE  PortInv'
  BY <1>1, NewBuilder, AsideStep DEF New
<1>2. ASSUME NEW num \in Requests, NumTxRings(num) \/ NumRxRings(num)
      PROVE  PortInv'
  <2>1. num % RingModulus \in U16
    BY PortConstants DEF U16
  <2>2. builder' \in NetmapBuilder
    BY <1>0, <1>2, <2>1 DEF NumTxRings, NumRxRings, NetmapBuilder
  <2> QED
    BY <1>0, <1>2, <2>2, AsideStep DEF NumTxRings, NumRxRings
<1>3. ASSUME NEW flags \in Flags, SetFlags(flags)
      PROVE  PortInv'
  <2>1. builder' \in NetmapBuilder
    BY <1>0, <1>3 DEF SetFlags, NetmapBuilder
  <2> QED
    BY <1>0, <1>3, <2>1, AsideStep DEF SetFlags
<1>4. CASE Build
  <2>1. /\ UNCHANGED handles /\ builder' = NoBuilder /\ builder \in NetmapBuilder
        /\ port = NoPort
    BY <1>0, <1>4 DEF Build
  <2>2. CASE UNCHANGED <<port, owner>> /\ result' = "BindFail"
    BY <2>1, <2>2, AsideStep
  <2>3. ASSUME NEW nif \in Nifs, port' = Opened(builder, nif), owner' = "caller",
               result' = "Ok"
        PROVE  PortInv'
    <3>1. port' \in Netmap /\ CountsWhatItRegistered' /\ Counted'
      BY <2>1, <2>3, OpenedPort DEF CountsWhatItRegistered, Counted
    <3>2. borrowed = {} /\ shared = {} /\ port' # NoPort
      BY <1>0, <2>1, <3>1, NotOpen DEF Owned
    <3> QED
      BY <1>0, <2>1, <2>3, <3>1, <3>2
      DEF PortInv, PortTypeOK, HandlesLookedUp, Owned, handles
  <2> QED
    BY <1>4, <2>2, <2>3 DEF Build
<1>5. ASSUME NEW id \in Handles, NEW index \in Indices, TxRing(id, index)
      PROVE  PortInv'
  <2>1. port \in Netmap /\ port # NoPort /\ index \in Nat /\ owner = "caller"
    BY <1>0, <1>5, PortConstants DEF TxRing, PortTypeOK, Owned
  <2>2. CASE Refuse
    BY <1>0, <2>2, AsideStep DEF Refuse
  <2>3. CASE /\ index < port.num_tx_rings
             /\ Borrow(id, "tx", index, NETMAP_TXRING(port.nif, index))
    <3>1. IsNif(port.nif)
      BY <2>1, PortConstants DEF Netmap
    <3>2. NETMAP_TXRING(port.nif, index) \in Ring
      BY <2>1, <2>3, <3>1, TxEntry DEF PortInv, Counted
    <3> QED
      BY <2>1, <2>3, <3>2, BorrowStep DEF LookedUp, Directions
  <2> QED
    BY <1>5, <2>2, <2>3 DEF TxRing
<1>6. ASSUME NEW id \in Handles, NEW index \in Indices, RxRing(id, index)
      PROVE  PortInv'
  <2>1. port \in Netmap /\ port # NoPort /\ index \in Nat /\ owner = "caller"
    BY <1>0, <1>6, PortConstants DEF RxRing, PortTypeOK, Owned
  <2>2. CASE Refuse
    BY <1>0, <2>2, AsideStep DEF Refuse
  <2>3. CASE /\ index < port.num_rx_rings
             /\ Borrow(id, "rx", index, NETMAP_RXRING(port.nif, index))
    <3>1. IsNif(port.nif)
      BY <2>1, PortConstants DEF Netmap
    <3>2. NETMAP_RXRING(port.nif, index) \in Ring
      BY <2>1, <2>3, <3>1, RxEntry DEF PortInv, Counted
    <3> QED
      BY <2>1, <2>3, <3>2, BorrowStep DEF LookedUp, Directions
  <2> QED
    BY <1>6, <2>2, <2>3 DEF RxRing
<1>7. ASSUME NEW id \in Handles, NEW index \in Indices,
             TokioTxRing(id, index) \/ TokioRxRing(id, index)
      PROVE  PortInv'
  <2>1. index \in Nat /\ owner = "tokio"
    BY <1>7, PortConstants DEF TokioTxRing, TokioRxRing
  <2>2. CASE Refuse
    BY <1>0, <2>2, AsideStep DEF Refuse
  <2>3. ASSUME NEW dir \in Directions, Share(id, dir, index)
        PROVE  PortInv'
    BY <2>1, <2>3, ShareStep
  <2> QED
    BY <1>7, <2>2, <2>3 DEF TokioTxRing, TokioRxRing, Directions
<1>8. CASE DropRing
  <2>1. /\ borrowed' \subseteq borrowed /\ borrowed # {}
        /\ UNCHANGED <<builder, port, owner, shared, result>>
    BY <1>8 DEF DropRing
  <2> QED
    BY <2>1 DEF PortInv, PortTypeOK, CountsWhatItRegistered, Counted, HandlesLookedUp,
                LookedUp, Owned
<1>9. CASE DropNetmap
  <2>1. shared = {}
    BY <1>0, <1>9 DEF DropNetmap, Owned
  <2> QED
    BY <1>0, <1>9, <2>1, CloseStep DEF DropNetmap, handles
<1>10. CASE TokioNew
  <2>1. borrowed = {} /\ shared = {} /\ UNCHANGED <<builder, handles>>
    BY <1>0, <1>10 DEF TokioNew, Owned
  <2>2. CASE owner' = "tokio" /\ result' = "Ok" /\ UNCHANGED port
    BY <1>0, <1>10, <2>1, <2>2
    DEF TokioNew, PortInv, PortTypeOK, CountsWhatItRegistered, Counted, HandlesLookedUp,
        Owned, handles
  <2>3. CASE Close /\ result' = "Io"
    BY <2>1, <2>3, CloseStep DEF handles
  <2> QED
    BY <1>10, <2>2, <2>3 DEF TokioNew
<1>11. CASE DropTokioRing
  <2>1. /\ shared' \subseteq shared /\ shared # {} /\ borrowed = {}
        /\ UNCHANGED <<builder, borrowed, result>>
    BY <1>0, <1>11 DEF DropTokioRing, Owned
  <2>2. CASE owner = "rings" /\ shared' = {}
    BY <1>0, <1>11, <2>1, <2>2, CloseStep DEF DropTokioRing
  <2>3. CASE ~(owner = "rings" /\ shared' = {})
    <3>1. UNCHANGED <<port, owner>>
      BY <1>11, <2>3 DEF DropTokioRing
    <3> QED
      BY <2>1, <2>3, <3>1 DEF PortInv, PortTypeOK, CountsWhatItRegistered, Counted,
                              HandlesLookedUp, Owned
  <2> QED
    BY <2>2, <2>3
<1>12. CASE DropTokioNetmap
  <2>1. borrowed = {} /\ owner = "tokio" /\ UNCHANGED <<builder, handles, result>>
    BY <1>0, <1>12 DEF DropTokioNetmap, Owned
  <2>2. CASE shared = {}
    BY <1>0, <1>12, <2>1, <2>2, CloseStep DEF DropTokioNetmap, handles
  <2>3. CASE shared # {}
    <3>1. owner' = "rings" /\ UNCHANGED port
      BY <1>12, <2>3 DEF DropTokioNetmap
    <3> QED
      BY <2>1, <2>3, <3>1 DEF PortInv, PortTypeOK, CountsWhatItRegistered, Counted,
                              HandlesLookedUp, Owned, handles
  <2> QED
    BY <2>2, <2>3
<1>13. CASE UNCHANGED vars
  BY <1>0, <1>13, AsideStep DEF vars
<1> QED
  BY <1>1, <1>2, <1>3, <1>4, <1>5, <1>6, <1>7, <1>8, <1>9, <1>10, <1>11, <1>12, <1>13
  DEF Next

\* The entry of the table that a handle was looked up in, if its port is not the
\* host's: another one for every direction and index.
Entry(h) == IF h.dir = "tx" THEN h.index ELSE port.nif.ni_tx_rings + h.index

LEMMA HandlesInTable ==
  ASSUME PortInv, NEW h \in borrowed
  PROVE  /\ port # NoPort /\ IsNif(port.nif) /\ port.is_host_if \in BOOLEAN
         /\ h.index \in Nat /\ h.dir \in Directions /\ h.ring # NoRing
         /\ ~port.is_host_if =>
              /\ Entry(h) \in Entries(port.nif)
              /\ h.ring = port.nif.ring_ofs[Entry(h)]
              /\ h.dir = "tx" => h.index < port.nif.ni_tx_rings
<1>1. /\ port \in Netmap /\ port # NoPort /\ IsNif(port.nif)
      /\ h.index \in Nat /\ h.dir \in Directions /\ LookedUp(h)
  BY PortConstants, NotOpen DEF PortInv, PortTypeOK, HandlesLookedUp, Netmap, NetmapRing
<1>2. port.is_host_if \in BOOLEAN
  BY <1>1 DEF Netmap
<1>3. CASE h.dir = "tx"
  BY <1>1, <1>2, <1>3, TxEntry, NoRingIsNone DEF LookedUp, PortInv, Counted, Entry
<1>4. CASE h.dir = "rx"
  BY <1>1, <1>2, <1>4, RxEntry, NoRingIsNone DEF LookedUp, PortInv, Counted, Entry
<1> QED
  BY <1>1, <1>2, <1>3, <1>4 DEF Directions

LEMMA DoNotMeet == PortInv => HandlesDoNotMeet
<1> SUFFICES ASSUME PortInv, NEW g \in borrowed, NEW h \in borrowed,
                    ~port.is_host_if, g.ring = h.ring
             PROVE  g.dir = h.dir /\ g.index = h.index
  BY DEF HandlesDoNotMeet
<1>1. /\ IsNif(port.nif) /\ g.index \in Nat /\ g.dir \in Directions
      /\ Entry(g) \in Entries(port.nif) /\ g.ring = port.nif.ring_ofs[Entry(g)]
      /\ g.dir = "tx" => g.index < port.nif.ni_tx_rings
  BY HandlesInTable
<1>2. /\ h.index \in Nat /\ h.dir \in Directions
      /\ Entry(h) \in Entries(port.nif) /\ h.ring = port.nif.ring_ofs[Entry(h)]
      /\ h.dir = "tx" => h.index < port.nif.ni_tx_rings
  BY HandlesInTable
<1>3. Entry(g) = Entry(h)
  BY <1>1, <1>2 DEF IsNif, IsInjective
<1>4. port.nif.ni_tx_rings \in Nat
  BY <1>1 DEF IsNif
<1> QED
  BY <1>1, <1>2, <1>3, <1>4 DEF Entry, Directions

THEOREM PortInvariant == Spec => []PortInv
  BY PortInit, PortStep, PTL DEF Spec

\* The two chains of conditions in build_nmreq and build agree for every name,
\* every interface and all flags, unless there is a registration mode among the
\* flags: then the request has two, and the code decides by the name alone.
THEOREM CountsMatchRegistration == Spec => []CountsWhatItRegistered
<1>1. PortInv => CountsWhatItRegistered
  BY DEF PortInv
<1> QED
  BY <1>1, PortInvariant, PTL

\* No index that passes the bounds of tx_ring and rx_ring leads out of the
\* table, whatever numbers of rings the interface and the host have.
THEOREM HandlesStayInTable == Spec => []HandlesReachRings
<1>1. PortInv => HandlesReachRings
  BY HandlesInTable DEF HandlesReachRings
<1> QED
  BY <1>1, PortInvariant, PTL

\* Every variable of the builder and the port keeps its type; the numbers of
\* rings asked for stay in a u16.
THEOREM TypeCorrect == Spec => []PortTypeOK
<1>1. PortInv => PortTypeOK
  BY DEF PortInv
<1> QED
  BY <1>1, PortInvariant, PTL

\* Whatever the order in which a TokioNetmap and its rings are dropped, the
\* port is open while one of them is left and closed when none is.
THEOREM PortOpenWhileUsed == Spec => []OpenWhileUsed
<1>1. PortInv => OpenWhileUsed
  BY DEF PortInv, PortTypeOK, Owned, OpenWhileUsed
<1> QED
  BY <1>1, PortInvariant, PTL

\* On a port that is not the host's the lookups of tx_ring and rx_ring never
\* meet, for every number of rings and every order of the table.
THEOREM HandlesReachOwnRings == Spec => []HandlesDoNotMeet
  BY DoNotMeet, PortInvariant, PTL
===============================================================================
