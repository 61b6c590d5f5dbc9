----------------------------- MODULE MCNetmapPort -----------------------------
\* Instances of NetmapPort for TLC.
EXTENDS NetmapPort, Sequences, TLC

\* The rings of one group, and a table that holds groups one after the other.
Group(of, dir, n) == [k \in 1 .. n |-> [of |-> of, dir |-> dir, index |-> k - 1]]
Table(groups)     == [entry \in 0 .. Len(groups) - 1 |-> groups[entry + 1]]

\* The groups by direction, the host's after the NIC's, and the NIC's first.
ByDirection(tx, rx, host_tx, host_rx) == tx \o host_tx \o rx \o host_rx
HostLast(tx, rx, host_tx, host_rx)    == tx \o rx \o host_tx \o host_rx

N(Layout(_, _, _, _), tx, rx, host_tx, host_rx) ==
  [ni_tx_rings |-> tx, ni_rx_rings |-> rx,
   ni_host_tx_rings |-> host_tx, ni_host_rx_rings |-> host_rx,
   ring_ofs |-> Table(Layout(Group("nic", "tx", tx), Group("nic", "rx", rx),
                             Group("host", "tx", host_tx), Group("host", "rx", host_rx)))]

\* An interface with more rings in one direction than in the other, a pipe
\* without host rings, and one with more host rings than rings of its own.
MCNifs ==
  {N(ByDirection, 2, 1, 1, 1), N(HostLast, 2, 1, 1, 1), N(HostLast, 1, 1, 0, 0),
   N(ByDirection, 1, 2, 2, 2), N(HostLast, 1, 2, 2, 2)}

\* The prefix tells the names apart only where the code adds it, and a name that
\* does not fit is refused whatever its kind.
MCNames == {n \in Name : n.prefix \/ n.unfit => n.kind = "os"}

\* None, one, and a request that the u16 turns into none.
MCRequests == {0, 1, RingModulus}

\* No flag, and a registration mode.
MCFlags == {{}, {"NR_REG_SW"}}

\* Handles are only ever compared.
HandleSymmetry == Permutations(Handles)
===============================================================================
