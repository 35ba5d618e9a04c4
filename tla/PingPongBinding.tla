--------------------------- MODULE PingPongBinding ---------------------------
(***************************************************************************)
(* Plugs the ping-pong protocol (module PingPong) into the engine's        *)
(* Node and Message capabilities, and builds the root States the pingpong  *)
(* tests build.  Shared by the MC modules.                                 *)
(***************************************************************************)
EXTENDS Engine

\* A stand-in for FNV-64: a multiplicative digest of the printed fields,
\* cut to HashWidth bits.  Addresses, flags and prefixes are coded by small
\* integers; which field is which follows from the prefix.
AddrCode(a) == CASE a = "server" -> 1 [] a = "client" -> 2 [] a = "ghost" -> 3
FlagCode(b) == IF b THEN 1 ELSE 0
Digest(codes) == FoldLeft(LAMBDA h, x : (h * 5 + x) % (2^HashWidth), 0, codes)
MCFnv(prefix, body) ==
  CASE prefix = "ping"   -> Digest(<<4, AddrCode(body[1]), AddrCode(body[2]), body[3]>>)
    [] prefix = "pong"   -> Digest(<<5, AddrCode(body[1]), AddrCode(body[2]), body[3]>>)
    [] prefix = "client" -> Digest(<<6, AddrCode(body[1]), AddrCode(body[2]), body[3],
                                     body[4], FlagCode(body[5]), body[6]>>)
    [] prefix = "server" -> Digest(<<7, body[1], FlagCode(body[2]), FlagCode(body[3])>>)

PP == INSTANCE PingPong WITH Fnv <- MCFnv

MCMessageHandler(n, m) == PP!MessageHandler(n, m)
MCNextTimer(n)         == PP!NextTimer(n)
MCTriggerTimer(n)      == PP!TriggerTimer(n)
MCNodeHash(n)          == PP!NodeHash(n)
MCNodeEquals(n1, n2)   == PP!NodeEquals(n1, n2)
MCMsgHash(m)           == PP!MsgHash(m)
MCMsgEquals(m1, m2)    == PP!MsgEquals(m1, m2)
MCFrom(m)              == PP!From(m)
MCTo(m)                == PP!To(m)
MCStateHash(nh, wh)    == (nh + 3 * wh) % (2^HashWidth)

\* The root of a pingpong test: NewState(0, drop, dup); AddNode of a server
\* (optionally blocking the client) and of a client aiming at ack 5; then an
\* optional Client.SendCommand(PingCommand{To: firstPing, Id: 1}).
TestRoot(drop, dup, unstable, crazy, retry, blocked, firstPing) ==
  LET s0 == NewState(0, drop, dup)
      s1 == AddNode(s0, "server", PP!NewServer(unstable, crazy),
                    IF blocked THEN {"client"} ELSE {})
      client == PP!NewClient("client", "server", PP!FinalAck, retry)
      s2 == AddNode(s1, "client", client, {})
  IN IF firstPing = "none" THEN s2 ELSE Receive(s2, <<PP!PingCommand(client, firstPing, 1)>>)

=============================================================================
