------------------------------ MODULE Network ------------------------------
(***************************************************************************)
(* The network emulator (core/src/network.cpp): one queue and one byte     *)
(* budget for each directed link, a profile captured when a packet enters  *)
(* the queue, partitions that flush both directions of a link.             *)
(*                                                                         *)
(* A tick is: the scheduled events (SetProfile, SetLinkBlocked), then      *)
(* step(): each outgoing message (Send), then transmission and delivery    *)
(* (Carry).  Ticks are relative: a packet keeps due = delivery_tick less   *)
(* the current tick, so the clock needs no bound.  The keyed draws are     *)
(* free choices within the limits of the profile; message_order, which     *)
(* fixes what they are keyed with, is left out with it: messages of a tick *)
(* are sent in any order.  communication_messages is next - 1; delivered   *)
(* and dropped are the sequence numbers of those outcomes, and             *)
(* delivered_messages, dropped_messages their cardinalities.  A name that  *)
(* starts with Mut_ is a mistake someone could make in the definition      *)
(* after it; nothing uses it.                                              *)
(***************************************************************************)
EXTENDS Integers, Sequences, FiniteSets

CONSTANTS
  Agents,       (* vehicle ids                                             *)
  Traffic,      (* the <<sender, recipient>> pairs that exchange messages  *)
  Profiles,     (* the network profiles a scenario may set                 *)
  FirstProfile, (* the one it starts with                                  *)
  MaxSize,      (* bound: serialized bytes of a message                    *)
  MaxSent       (* bound: messages of a run                                *)

(* What validate_profile accepts.                                          *)
ASSUME ProfilesAssumption ==
  /\ FirstProfile \in Profiles
  /\ \A p \in Profiles :
        p \in [rate : Nat \ {0}, latency : Nat, jitter : Nat, lossy : BOOLEAN, window : Nat]
ASSUME TrafficAssumption == Traffic \subseteq {d \in Agents \X Agents : d[1] # d[2]}
ASSUME BoundsAssumption == MaxSize \in Nat \ {0} /\ MaxSent \in Nat

VARIABLES
  sending,   (* TRUE once step() has begun to accept messages              *)
  profile,   (* profile_                                                   *)
  blocked,   (* blocked_links_                                             *)
  queue,     (* links_: the queue of each directed link                    *)
  bytes,     (* remaining_bytes of each packet of the queues               *)
  inFlight,  (* in_flight_                                                 *)
  next,      (* next_sequence_                                             *)
  delivered, (* sequence numbers with the outcome DELIVERED                *)
  dropped    (* sequence numbers with an outcome DROPPED_...               *)

vars == <<sending, profile, blocked, queue, bytes, inFlight, next, delivered, dropped>>

(* link_pair: a link has no direction.                                     *)
Pair(d) == {d[1], d[2]}
Pairs == {Pair(d) : d \in Traffic}

Packet ==
  [seq : Nat \ {0}, link : Traffic, profile : Profiles, jitter : Int, delay : Nat,
   due : Int]

(* Where the packets are; how much of each is still to be sent is a matter *)
(* of TypeOK.                                                              *)
Shape ==
  /\ sending \in BOOLEAN
  /\ profile \in Profiles
  /\ blocked \subseteq Pairs
  /\ queue \in [Traffic -> Seq(Packet)]
  /\ inFlight \subseteq Packet
  /\ next \in Nat \ {0}
  /\ delivered \subseteq Nat
  /\ dropped \subseteq Nat

TypeOK ==
  /\ Shape
  /\ bytes \in [Traffic -> Seq(Nat \ {0})]
  /\ \A d \in Traffic : Len(bytes[d]) = Len(queue[d])

Queued(d) == {queue[d][i] : i \in 1..Len(queue[d])}
Seqs(packets) == {p.seq : p \in packets}
Waiting == UNION {Queued(d) : d \in Traffic}
Carried == Waiting \cup inFlight

Init ==
  /\ sending = FALSE
  /\ profile = FirstProfile
  /\ blocked = {}
  /\ queue = [d \in Traffic |-> <<>>]
  /\ bytes = [d \in Traffic |-> <<>>]
  /\ inFlight = {}
  /\ next = 1
  /\ delivered = {}
  /\ dropped = {}

-----------------------------------------------------------------------------
SetProfile(p) ==
  /\ ~sending
  /\ profile' = p
  /\ UNCHANGED <<sending, blocked, queue, bytes, inFlight, next, delivered, dropped>>

(* A cut drops what the link carries, in both directions, queued or        *)
(* already transmitted; a request that changes nothing does nothing.       *)
Lost(l) == {p \in Carried : Pair(p.link) = l}

Mut_Flushed(f, l) == [d \in Traffic |-> IF {d[1], d[2]} = l /\ d[1] < d[2] THEN <<>> ELSE f[d]]

Flushed(f, l) == [d \in Traffic |-> IF Pair(d) = l THEN <<>> ELSE f[d]]

Mut_Cut(l) ==
  /\ blocked' = blocked \cup {l}
  /\ queue' = Flushed(queue, l)
  /\ bytes' = Flushed(bytes, l)
  /\ inFlight' = inFlight \ Lost(l)
  /\ UNCHANGED dropped

Cut(l) ==
  /\ blocked' = blocked \cup {l}
  /\ queue' = Flushed(queue, l)
  /\ bytes' = Flushed(bytes, l)
  /\ inFlight' = inFlight \ Lost(l)
  /\ dropped' = dropped \cup Seqs(Lost(l))

Heal(l) ==
  /\ blocked' = blocked \ {l}
  /\ UNCHANGED <<queue, bytes, inFlight, dropped>>

SetLinkBlocked(l, value) ==
  /\ ~sending
  /\ value # (l \in blocked)
  /\ IF value THEN Cut(l) ELSE Heal(l)
  /\ UNCHANGED <<sending, profile, next, delivered>>

-----------------------------------------------------------------------------
(* packet(): the draws of one message under the profile it captures.       *)
NewPacket(d, jitter, delay) ==
  [seq |-> next, link |-> d, profile |-> profile, jitter |-> jitter, delay |-> delay,
   due |-> 0]

Mut_Enqueue(q, x) == <<x>> \o q

Enqueue(q, x) == Append(q, x)

(* The loop body of step(): the message gets its sequence number and is    *)
(* dropped at a blocked link, lost, or queued.                             *)
Send(d) ==
  /\ next <= MaxSent
  /\ sending' = TRUE
  /\ next' = next + 1
  /\ \/ /\ Pair(d) \in blocked \/ profile.lossy
        /\ dropped' = dropped \cup {next}
        /\ UNCHANGED <<queue, bytes>>
     \/ /\ Pair(d) \notin blocked
        /\ \E jitter \in -profile.jitter..profile.jitter, delay \in 0..profile.window :
              queue' = [queue EXCEPT ![d] = Enqueue(@, NewPacket(d, jitter, delay))]
        /\ \E size \in 1..MaxSize : bytes' = [bytes EXCEPT ![d] = Enqueue(@, size)]
        /\ UNCHANGED dropped
  /\ UNCHANGED <<profile, blocked, inFlight, delivered>>

-----------------------------------------------------------------------------
(* transmit(): the budget of a link is the rate its head packet captured,  *)
(* and goes, in order, to the packets that captured the same rate.         *)
Rate(d, i) == queue[d][i].profile.rate

SameRate(d, i) == \A j \in 1..i : Rate(d, j) = Rate(d, 1)

UpTo(b) ==
  LET upTo[i \in 0..Len(b)] == IF i = 0 THEN 0 ELSE upTo[i - 1] + b[i]
  IN  upTo

BytesUpTo(d) == UpTo(bytes[d])

Mut_Budget(d, i) == Rate(d, i) - BytesUpTo(d)[i - 1]

(* What is left of the budget when the i-th packet has its turn.           *)
Budget(d, i) == IF SameRate(d, i) THEN Rate(d, 1) - BytesUpTo(d)[i - 1] ELSE 0

Mut_Share(d, i) == IF Budget(d, i) < bytes[d][i] THEN 0 ELSE bytes[d][i]

Share(d, i) ==
  IF Budget(d, i) <= 0 THEN 0
  ELSE IF Budget(d, i) < bytes[d][i] THEN Budget(d, i)
  ELSE bytes[d][i]

(* How many packets of the queue leave it.                                 *)
Served(d) ==
  IF Pair(d) \in blocked THEN 0
  ELSE Cardinality({i \in 1..Len(queue[d]) : Share(d, i) = bytes[d][i]})

Unserved(d) == [i \in 1..Len(queue[d]) - Served(d) |-> queue[d][Served(d) + i]]

UnservedBytes(d) ==
  IF Pair(d) \in blocked THEN bytes[d]
  ELSE [i \in 1..Len(queue[d]) - Served(d) |->
          bytes[d][Served(d) + i] - Share(d, Served(d) + i)]

Delay(p) ==
  LET resolved == p.profile.latency + p.jitter
  IN  (IF resolved < 1 THEN 1 ELSE resolved) + p.delay

Launched(p) == [p EXCEPT !.due = Delay(p)]

Transmitted(d) == {Launched(queue[d][i]) : i \in 1..Served(d)}

Flying == inFlight \cup UNION {Transmitted(d) : d \in Traffic}

(* The rest of step(): what is due by the next tick is delivered, unless   *)
(* its link is blocked.                                                    *)
Due(p) == p.due <= 1

Carry ==
  LET due     == {p \in Flying : Due(p)}
      stopped == {p \in due : Pair(p.link) \in blocked}
  IN
  /\ sending' = FALSE
  /\ queue' = [d \in Traffic |-> Unserved(d)]
  /\ bytes' = [d \in Traffic |-> UnservedBytes(d)]
  /\ inFlight' = {[p EXCEPT !.due = @ - 1] : p \in Flying \ due}
  /\ delivered' = delivered \cup Seqs(due \ stopped)
  /\ dropped' = dropped \cup Seqs(stopped)
  /\ UNCHANGED <<profile, blocked, next>>

-----------------------------------------------------------------------------
Next ==
  \/ \E p \in Profiles : SetProfile(p)
  \/ \E l \in Pairs, value \in BOOLEAN : SetLinkBlocked(l, value)
  \/ \E d \in Traffic : Send(d)
  \/ Carry

Spec == Init /\ [][Next]_vars

(* The simulator calls step() in every tick, whatever the events do.       *)
FairSpec == Spec /\ WF_vars(Carry)

-----------------------------------------------------------------------------
Service == INSTANCE Datagrams
             WITH sent <- next - 1, carried <- Seqs(Carried)

(* Each message is delivered at most once or dropped, never both, and      *)
(* never comes back: packets move from a queue to the air to their outcome *)
(* without being copied, skipped or dropped silently.                      *)
ImplementsDatagrams == Service!Spec

(* A blocked link carries nothing, so what was sent before a cut cannot    *)
(* arrive after it was healed.                                             *)
QuietWhenCut == \A p \in Carried : Pair(p.link) \notin blocked

(* Every packet is in one place, and packets settle once.                  *)
OneFate ==
  /\ \A p, q \in Carried : p.seq = q.seq => p = q
  /\ Seqs(Carried) \cap (delivered \cup dropped) = {}
  /\ delivered \cap dropped = {}
  /\ 1..next - 1 = Seqs(Carried) \cup delivered \cup dropped

(* Without jitter and reordering a link is first in, first out: packets    *)
(* leave its queue in the order they were sent, and two with the same      *)
(* latency land in that order.                                             *)
Plain(p) == p.jitter = 0 /\ p.delay = 0

InOrder ==
  \A d \in Traffic :
    /\ \A i, j \in 1..Len(queue[d]) : i < j => queue[d][i].seq < queue[d][j].seq
    /\ \A p \in inFlight, q \in Queued(d) : p.link = d => p.seq < q.seq
    /\ \A p, q \in inFlight :
          /\ p.link = d /\ q.link = d /\ p.profile = q.profile /\ Plain(p) /\ Plain(q)
          /\ p.seq < q.seq
          => p.due <= q.due

(* No packet is late: what is in flight between ticks is due later, and    *)
(* within the delay its profile allows.                                    *)
OnTime ==
  \A p \in inFlight :
     p.due \in 1..p.profile.latency + p.profile.jitter + p.profile.window

(* In one tick a link carries at most the bytes its head packet captured,  *)
(* even where the profile changed between the packets it carries.          *)
Load(b) == UpTo(b)[Len(b)]

WithinBudget ==
  [][\A d \in Traffic :
        Carry /\ queue[d] # <<>> => Load(bytes[d]) - Load(bytes'[d]) <= Rate(d, 1)]_vars

(* Every message is settled: no packet is stuck behind one of another      *)
(* profile, on a partly used budget or behind a partition.                 *)
EverythingSettles ==
  \A n \in 1..MaxSent : (n < next) ~> (n \in delivered \cup dropped)

=============================================================================
