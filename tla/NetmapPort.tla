------------------------------ MODULE NetmapPort ------------------------------
(***************************************************************************)
(* Opening a netmap port and getting at its rings: NetmapBuilder (new,     *)
(* num_tx_rings, num_rx_rings, flags, build) and Netmap (tx_ring, rx_ring, *)
(* drop) of src/netmap.rs, and TokioNetmap (new, tx_ring, rx_ring) of      *)
(* src/tokio_async.rs, which takes a Netmap over.  The rings of a Netmap   *)
(* borrow it; those of a TokioNetmap share it and keep it open.  A handle  *)
(* has an identity: two for one ring may be dropped at different times.    *)
(*                                                                         *)
(* A name is what the code looks for in it:                                *)
(*    prefix   it begins with "netmap:"                                    *)
(*    kind     the rest is an interface of the OS, a VALE port (with a ":" *)
(*             in it), or "pipe{..." with or without the closing brace     *)
(*    host     it ends with "^"                                            *)
(*    unfit    it is too long for nr_name, or has a NUL byte in it         *)
(*                                                                         *)
(* Definitions marked "Mutant" are used as in module TxRing.               *)
(***************************************************************************)
EXTENDS Integers, Functions

CONSTANTS
  Names,        \* the names asked for
  Nifs,         \* the netmap_if that nm_open may lead to
  Requests,     \* the arguments of num_tx_rings and num_rx_rings
  RingModulus,  \* 2^16 in the code: nr_tx_rings and nr_rx_rings are u16
  Flags,        \* the arguments of flags, as sets of the names of their bits
  Indices,      \* the arguments of tx_ring and rx_ring
  Handles       \* identities of the ring handles alive at once

Kinds == {"os", "vale", "pipe{x}", "pipe{x"}
Name  == [prefix : BOOLEAN, kind : Kinds, host : BOOLEAN, unfit : BOOLEAN]

NoRing == [of |-> "nothing"]
Ring   == [of : {"nic", "host"}, dir : {"tx", "rx"}, index : Nat]

(***************************************************************************)
(* The fields of struct netmap_if that count rings, and ring_ofs, which    *)
(* leads from an entry to a ring.  The kernel fills the table in: each of  *)
(* the counted rings has one entry.  In which order the four groups come   *)
(* is fixed by a header that is not in the repository, and nothing here    *)
(* depends on it.                                                          *)
(***************************************************************************)
Entries(nif) ==
  0 .. nif.ni_tx_rings + nif.ni_rx_rings
         + nif.ni_host_tx_rings + nif.ni_host_rx_rings - 1

IsNif(nif) ==
  /\ nif.ni_tx_rings \in Nat /\ nif.ni_rx_rings \in Nat
  /\ nif.ni_host_tx_rings \in Nat /\ nif.ni_host_rx_rings \in Nat
  /\ nif.ring_ofs \in [Entries(nif) -> Ring]
  /\ IsInjective(nif.ring_ofs)

\* The bits that build_nmreq adds; what flags is given may hold them as well.
Modes == {"NR_REG_SW", "NR_REG_ALL_NIC"}

ASSUME PortConstants ==
  /\ Names \subseteq Name
  /\ \A nif \in Nifs : IsNif(nif)
  /\ Requests \subseteq Nat
  /\ RingModulus \in Nat /\ RingModulus > 1
  /\ {} \in Flags
  /\ Indices \subseteq Nat

VARIABLES
  builder,    \* the NetmapBuilder, or NoBuilder
  port,       \* the Netmap with the flags and the nmreq it was opened with and
              \* the netmap_if that led to, or NoPort
  owner,      \* who has the Netmap: its caller, a TokioNetmap, or the rings
              \* that a TokioNetmap has left behind
  borrowed,   \* the rings got from the Netmap, which borrow it
  shared,     \* the rings got from the TokioNetmap, each with an Arc of it
  result      \* what the last call returned

handles == <<borrowed, shared>>
vars    == <<builder, port, owner, handles, result>>

NoBuilder == [name |-> "none"]
NoPort    == [nif |-> "none"]

U16    == 0 .. RingModulus - 1
Nmreq  == [nr_flags : SUBSET ((UNION Flags) \union Modes),
           nr_tx_rings : U16, nr_rx_rings : U16]

NetmapBuilder ==
  [name : Names, ifname_raw : Name, wants_host_rings : BOOLEAN,
   is_pipe_if : BOOLEAN, req_num_tx_rings : U16, req_num_rx_rings : U16,
   additional_flags : Flags]

Netmap ==
  [additional_flags : Flags, req : Nmreq, nif : Nifs,
   num_tx_rings : Nat, num_rx_rings : Nat, is_host_if : BOOLEAN]

Directions  == {"tx", "rx"}
NetmapRing  == [id : Handles, dir : Directions, index : Nat,
                ring : Ring \union {NoRing}]
AsyncRing   == [id : Handles, dir : Directions, index : Nat]

PortTypeOK ==
  /\ builder = NoBuilder \/ builder \in NetmapBuilder
  /\ port = NoPort \/ port \in Netmap
  /\ owner \in {"none", "caller", "tokio", "rings"}
  /\ borrowed \subseteq NetmapRing /\ shared \subseteq AsyncRing
  /\ result \in {"Ok", "BindFail", "InvalidRingIndex", "Io"}

-------------------------------------------------------------------------------
(* NETMAP_TXRING and NETMAP_RXRING of src/netmap.rs.                       *)

\* What the offset in an entry leads to.
RingAt(nif, entry) ==
  IF entry \in Entries(nif) THEN nif.ring_ofs[entry] ELSE NoRing

NETMAP_TXRING(nif, index) == RingAt(nif, index)
NETMAP_RXRING(nif, index) == RingAt(nif, nif.ni_tx_rings + index)

-------------------------------------------------------------------------------
(* NetmapBuilder.                                                          *)

Init ==
  /\ builder = NoBuilder
  /\ port = NoPort /\ owner = "none"
  /\ borrowed = {} /\ shared = {} /\ result = "Ok"

\* "pipe{" at the beginning and "}" at the end, which a "^" hides.
IsPipe(n) == n.kind = "pipe{x}" /\ ~n.host

\* NetmapBuilder::new.  A pipe has one ring of each direction unless the
\* caller says otherwise; for other names 0 asks for all.
New(n) ==
  LET default == IF IsPipe(n) THEN 1 ELSE 0
  IN  /\ builder' = [name |-> n,
                     ifname_raw |-> [n EXCEPT !.prefix = @ \/ n.kind = "os"],
                     wants_host_rings |-> n.host,
                     is_pipe_if |-> IsPipe(n),
                     req_num_tx_rings |-> default,
                     req_num_rx_rings |-> default,
                     additional_flags |-> {}]
      /\ result' = "Ok"
      /\ UNCHANGED <<port, owner, handles>>

\* Mutant: the number asked for is not reduced to a u16.
NumTxRingsUnreduced(num) ==
  /\ builder # NoBuilder
  /\ builder' = [builder EXCEPT !.req_num_tx_rings = num]
  /\ UNCHANGED <<port, owner, handles, result>>

NumTxRings(num) ==
  /\ builder # NoBuilder
  /\ builder' = [builder EXCEPT !.req_num_tx_rings = num % RingModulus]
  /\ UNCHANGED <<port, owner, handles, result>>

NumRxRings(num) ==
  /\ builder # NoBuilder
  /\ builder' = [builder EXCEPT !.req_num_rx_rings = num % RingModulus]
  /\ UNCHANGED <<port, owner, handles, result>>

SetFlags(flags) ==
  /\ builder # NoBuilder
  /\ builder' = [builder EXCEPT !.additional_flags = flags]
  /\ UNCHANGED <<port, owner, handles, result>>

\* NetmapBuilder::build_nmreq, for a name that fits.
BuildNmreq(b) ==
  LET host == b.wants_host_rings /\ ~b.is_pipe_if
      mode == IF b.is_pipe_if THEN {}
              ELSE {IF host THEN "NR_REG_SW" ELSE "NR_REG_ALL_NIC"}
  IN  [nr_flags    |-> b.additional_flags \union mode,
       nr_tx_rings |-> IF host THEN 0 ELSE b.req_num_tx_rings,
       nr_rx_rings |-> IF host THEN 0 ELSE b.req_num_rx_rings]

\* Mutant: the NIC's rings are counted whatever was registered.
OpenedCountingNic(b, nif) ==
  [additional_flags |-> b.additional_flags, req |-> BuildNmreq(b), nif |-> nif,
   num_tx_rings |-> nif.ni_tx_rings, num_rx_rings |-> nif.ni_rx_rings,
   is_host_if |-> b.wants_host_rings]

\* The Netmap that build makes when nm_open has led to nif.
Opened(b, nif) ==
  LET host == b.wants_host_rings /\ ~b.is_pipe_if
  IN  [additional_flags |-> b.additional_flags, req |-> BuildNmreq(b), nif |-> nif,
       num_tx_rings |-> IF host THEN nif.ni_host_tx_rings ELSE nif.ni_tx_rings,
       num_rx_rings |-> IF host THEN nif.ni_host_rx_rings ELSE nif.ni_rx_rings,
       is_host_if |-> host]

\* NetmapBuilder::build, which consumes the builder.  One port at a time.
Build ==
  /\ builder # NoBuilder /\ port = NoPort
  /\ builder' = NoBuilder
  /\ UNCHANGED handles
  /\ \/ /\ ~builder.name.unfit
        /\ \E nif \in Nifs : port' = Opened(builder, nif)
        /\ owner' = "caller"
        /\ result' = "Ok"
     \/ result' = "BindFail" /\ UNCHANGED <<port, owner>>   \* unfit, or no nm_open

-------------------------------------------------------------------------------
(* Netmap.                                                                 *)

NoneWith(id) == \A h \in borrowed \union shared : h.id # id

\* The calls take &self: any number of handles, to one ring or to several.
Borrow(id, dir, index, ring) ==
  /\ NoneWith(id)
  /\ borrowed' = borrowed \union
                   {[id |-> id, dir |-> dir, index |-> index, ring |-> ring]}
  /\ result' = "Ok"
  /\ UNCHANGED <<builder, port, owner, shared>>

Refuse == result' = "InvalidRingIndex" /\ UNCHANGED <<builder, port, owner, handles>>

TxRing(id, index) ==
  /\ owner = "caller"
  /\ \/ index >= port.num_tx_rings /\ Refuse
     \/ /\ index < port.num_tx_rings
        /\ Borrow(id, "tx", index, NETMAP_TXRING(port.nif, index))

\* Mutant: the index may be the number of rings.
RxRingOneTooMany(id, index) ==
  /\ owner = "caller"
  /\ \/ index > port.num_rx_rings /\ Refuse
     \/ /\ index <= port.num_rx_rings
        /\ Borrow(id, "rx", index, NETMAP_RXRING(port.nif, index))

\* Mutant: the TX rings in front of the RX rings are not skipped.
RxRingFromZero(id, index) ==
  /\ owner = "caller"
  /\ \/ index >= port.num_rx_rings /\ Refuse
     \/ /\ index < port.num_rx_rings
        /\ Borrow(id, "rx", index, NETMAP_TXRING(port.nif, index))

RxRing(id, index) ==
  /\ owner = "caller"
  /\ \/ index >= port.num_rx_rings /\ Refuse
     \/ /\ index < port.num_rx_rings
        /\ Borrow(id, "rx", index, NETMAP_RXRING(port.nif, index))

\* A ring of the Netmap goes out of scope.
DropRing ==
  /\ \E h \in borrowed : borrowed' = borrowed \ {h}
  /\ UNCHANGED <<builder, port, owner, shared, result>>

\* Netmap::drop.
Close == port' = NoPort /\ owner' = "none"

\* The Netmap, which no ring may borrow any more, goes out of scope.
DropNetmap ==
  /\ owner = "caller" /\ borrowed = {}
  /\ Close
  /\ UNCHANGED <<builder, handles, result>>

-------------------------------------------------------------------------------
(* TokioNetmap.  It looks its rings up with two functions of ffi, which    *)
(* are not those above: where they lead is not modelled.                   *)

\* TokioNetmap::new takes the Netmap, which no ring may borrow, and closes it
\* if the reactor does not take the descriptor.
TokioNew ==
  /\ owner = "caller" /\ borrowed = {}
  /\ \/ owner' = "tokio" /\ result' = "Ok" /\ UNCHANGED port
     \/ Close /\ result' = "Io"
  /\ UNCHANGED <<builder, handles>>

Share(id, dir, index) ==
  /\ NoneWith(id)
  /\ shared' = shared \union {[id |-> id, dir |-> dir, index |-> index]}
  /\ result' = "Ok"
  /\ UNCHANGED <<builder, port, owner, borrowed>>

TokioTxRing(id, index) ==
  /\ owner = "tokio"
  /\ \/ index >= port.num_tx_rings /\ Refuse
     \/ index < port.num_tx_rings /\ Share(id, "tx", index)

TokioRxRing(id, index) ==
  /\ owner = "tokio"
  /\ \/ index >= port.num_rx_rings /\ Refuse
     \/ index < port.num_rx_rings /\ Share(id, "rx", index)

\* A ring of the TokioNetmap goes out of scope and with it its Arc; the last
\* one left behind closes the port.
DropTokioRing ==
  /\ \E h \in shared : shared' = shared \ {h}
  /\ IF owner = "rings" /\ shared' = {} THEN Close ELSE UNCHANGED <<port, owner>>
  /\ UNCHANGED <<builder, borrowed, result>>

\* Mutant: the rings of a TokioNetmap do not keep its Netmap open.
DropTokioNetmapCloses ==
  /\ owner = "tokio"
  /\ Close
  /\ UNCHANGED <<builder, handles, result>>

\* The TokioNetmap goes out of scope and with it its own Arc.
DropTokioNetmap ==
  /\ owner = "tokio"
  /\ IF shared = {} THEN Close ELSE owner' = "rings" /\ UNCHANGED port
  /\ UNCHANGED <<builder, handles, result>>

Next ==
  \/ \E n \in Names : New(n)
  \/ \E num \in Requests : NumTxRings(num) \/ NumRxRings(num)
  \/ \E flags \in Flags : SetFlags(flags)
  \/ Build
  \/ \E id \in Handles, index \in Indices :
       \/ TxRing(id, index) \/ RxRing(id, index)
       \/ TokioTxRing(id, index) \/ TokioRxRing(id, index)
  \/ DropRing
  \/ DropNetmap
  \/ TokioNew
  \/ DropTokioRing
  \/ DropTokioNetmap

Spec == Init /\ [][Next]_vars

-------------------------------------------------------------------------------
(* Properties.                                                             *)

\* build_nmreq and build decide twice, by two chains of conditions, whether
\* the host's rings or the interface's are meant.  They agree: the rings that
\* are counted are the rings that were registered, provided that the caller's
\* flags hold no registration mode.  (flags takes any u32, and its comment,
\* netmap.rs:165-172, is about others; build_nmreq passes on what it gets and
\* build counts by the name.)
CountsWhatItRegistered ==
  port # NoPort /\ port.additional_flags \intersect Modes = {} =>
    LET sw == "NR_REG_SW" \in port.req.nr_flags
    IN  /\ port.is_host_if = sw
        /\ port.num_tx_rings =
             IF sw THEN port.nif.ni_host_tx_rings ELSE port.nif.ni_tx_rings
        /\ port.num_rx_rings =
             IF sw THEN port.nif.ni_host_rx_rings ELSE port.nif.ni_rx_rings

\* No index that tx_ring or rx_ring lets pass leads past the end of the table,
\* whatever the port is and however the table is laid out.
HandlesReachRings == \A h \in borrowed : h.ring # NoRing

\* The port is open as long as anybody can use it: a ring that outlives its
\* TokioNetmap keeps the memory of its slots mapped ("the lifetime of ring_ptr
\* is tied to Netmap within AsyncFd", tokio_async.rs:115), and the last one to
\* go closes it.  A ring that borrows the Netmap has it open beside it.
OpenWhileUsed ==
  /\ (port # NoPort) <=> (shared # {} \/ owner \in {"caller", "tokio"})
  /\ borrowed # {} => port # NoPort

\* Handles of a port that is not the host's reach one ring only if they were
\* asked for with one index in one direction: the lookups of tx_ring and rx_ring
\* do not meet, however the table is laid out.
HandlesDoNotMeet ==
  \A g, h \in borrowed :
    ~port.is_host_if /\ g.ring = h.ring => g.dir = h.dir /\ g.index = h.index

\* Of a host's port a handle is the host's ring of its index ("if `is_host_if()`
\* is `true`, `tx_ring(0)` returns the first host TX ring", netmap.rs:375-376,
\* and 395-396 for rx_ring).
HostHandlesAreTheHosts ==
  \A h \in borrowed :
    port.is_host_if => h.ring = [of |-> "host", dir |-> h.dir, index |-> h.index]
===============================================================================
