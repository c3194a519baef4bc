SPECIFICATION Spec
CONSTANTS
  alice = alice
  kalshi = kalshi
  t1 = t1
  t2 = t2
  t3 = t3
  c1 = c1
  c2 = c2
  bob = bob
  NoTunnel = NoTunnel
  Nobody = Nobody
  Users <- MCUsers
  Exchanges <- MCExchanges
  Tunnels <- MCTunnels
  Callers <- MCCallers
INVARIANTS OneTunnelPerPair
