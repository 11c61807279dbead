------------------------------ MODULE EtherLink ------------------------------
(***************************************************************************)
(* What the USB network interface promises lwIP and the host: two queues   *)
(* of whole Ethernet frames, one each way, that lose nothing, invent       *)
(* nothing and keep the order, until the host resets or deselects the      *)
(* interface, which empties them but for a frame already handed to lwIP's  *)
(* side.                                                                   *)
(***************************************************************************)
EXTENDS Naturals, Sequences

CONSTANTS Frames, None

VARIABLES
  toDevice, \* frames the host sent, oldest first, until lwIP has them
  toHost,   \* frames lwIP sent, oldest first, until the host has them
  received, \* frame lwIP had last, None when there was none
  taken,    \* frame the host had last
  session   \* changes when the interface starts anew

evars == <<toDevice, toHost, received, taken, session>>

Init ==
  /\ toDevice = <<>> /\ toHost = <<>>
  /\ received = None /\ taken = None
  /\ session \in BOOLEAN

HostSends(block) ==
  /\ toDevice' = toDevice \o block
  /\ UNCHANGED <<toHost, received, taken, session>>

Receive ==
  /\ toDevice # <<>>
  /\ received' = Head(toDevice)
  /\ toDevice' = Tail(toDevice)
  /\ UNCHANGED <<toHost, taken, session>>

Transmit(f) ==
  /\ toHost' = Append(toHost, f)
  /\ UNCHANGED <<toDevice, received, taken, session>>

HostTakes(n) ==
  /\ taken' = toHost[n]
  /\ toHost' = SubSeq(toHost, n + 1, Len(toHost))
  /\ UNCHANGED <<toDevice, received, session>>

Restart ==
  /\ session' = ~session
  /\ toHost' = <<>>
  /\ toDevice' = <<>> \/ toDevice' = SubSeq(toDevice, 1, 1)
  /\ received' = None /\ taken' = None

Next ==
  \/ \E f, g \in Frames : HostSends(<<f>>) \/ HostSends(<<f, g>>) \/ Transmit(f)
  \/ Receive
  \/ \E n \in 1 .. Len(toHost) : HostTakes(n)
  \/ Restart

Spec == Init /\ [][Next]_evars

\* Every frame of either side arrives, or the interface starts anew.
FairSpec == Spec /\ WF_evars(Receive)
                 /\ WF_evars(\E n \in 1 .. Len(toHost) : HostTakes(n))
=============================================================================
