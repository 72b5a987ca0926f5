--------------------------- MODULE NetworkProofs ---------------------------
(***************************************************************************)
(* What the network emulator keeps about packets and bytes, for any        *)
(* agents, links, profiles, draws and order of events.  Most of the proofs *)
(* only use that the packets that leave a queue are a prefix of it; how    *)
(* many bytes of it one tick carries is a sum, and takes an induction.     *)
(***************************************************************************)
EXTENDS Network, Induction

LEMMA ServedRange ==
  ASSUME Shape, NEW d \in Traffic
  PROVE  Served(d) \in 0..Len(queue[d])
<1> DEFINE S == {i \in 1..Len(queue[d]) : Share(d, i) = bytes[d][i]}
<1>1. Len(queue[d]) \in Nat
  BY DEF Shape
<1>2. IsFiniteSet(1..Len(queue[d])) /\ Cardinality(1..Len(queue[d])) = Len(queue[d])
  BY <1>1, FS_Interval
<1>3. S \in SUBSET (1..Len(queue[d]))
  OBVIOUS
<1>4. IsFiniteSet(S) /\ Cardinality(S) <= Len(queue[d])
  <2> HIDE DEF S
  <2> QED
    BY <1>2, <1>3, FS_Subset
<1>5. Cardinality(S) \in Nat
  BY <1>4, FS_CardinalityType
<1> QED
  BY <1>1, <1>4, <1>5 DEF Served

(* A packet with its draws within the limits of its profile.               *)
LEMMA LaunchedFacts ==
  ASSUME NEW p \in Packet
  PROVE  /\ Launched(p) \in Packet
         /\ Launched(p).seq = p.seq /\ Launched(p).link = p.link
         /\ Launched(p).profile = p.profile
         /\ Launched(p).jitter = p.jitter /\ Launched(p).delay = p.delay
         /\ Launched(p).due = Delay(p) /\ Delay(p) \in Nat \ {0}
<1>1. p.profile.latency \in Nat /\ p.jitter \in Int /\ p.delay \in Nat
  BY ProfilesAssumption DEF Packet
<1>2. Delay(p) \in Nat \ {0}
  BY <1>1 DEF Delay
<1> QED
  BY <1>2 DEF Launched, Packet

LEMMA QueuedPacket ==
  ASSUME Shape, NEW d \in Traffic, NEW i \in 1..Len(queue[d])
  PROVE  queue[d][i] \in Packet
BY DEF Shape

(* What transmit() puts in flight.                                         *)
LEMMA FlyingFacts ==
  ASSUME Shape, NEW p \in Flying
  PROVE  /\ p \in Packet
         /\ \/ p \in inFlight
            \/ \E d \in Traffic : \E i \in 1..Len(queue[d]) :
                 i <= Served(d) /\ p = Launched(queue[d][i]) /\ Pair(d) \notin blocked
<1>1. CASE p \in inFlight
  BY <1>1 DEF Shape
<1>2. CASE p \notin inFlight
  <2>1. PICK d \in Traffic : p \in Transmitted(d)
    BY <1>2 DEF Flying
  <2>2. PICK i \in 1..Served(d) : p = Launched(queue[d][i])
    BY <2>1 DEF Transmitted
  <2>3. Served(d) \in 0..Len(queue[d]) /\ Len(queue[d]) \in Nat
    BY ServedRange DEF Shape
  <2>4. i \in 1..Len(queue[d]) /\ i <= Served(d)
    BY <2>2, <2>3
  <2>5. Pair(d) \notin blocked
    BY <2>2 DEF Served
  <2> QED
    BY <2>2, <2>4, <2>5, QueuedPacket, LaunchedFacts
<1> QED
  BY <1>1, <1>2

(* What Carry leaves of a queue, and in flight.                            *)
LEMMA CarryQueue ==
  ASSUME Shape, Carry, NEW d \in Traffic
  PROVE  /\ queue'[d] \in Seq(Packet)
         /\ Len(queue'[d]) = Len(queue[d]) - Served(d)
         /\ \A i \in 1..Len(queue'[d]) :
              /\ Served(d) + i \in 1..Len(queue[d]) /\ Served(d) + i > Served(d)
              /\ queue'[d][i] = queue[d][Served(d) + i]
<1>1. Served(d) \in 0..Len(queue[d]) /\ Len(queue[d]) \in Nat
  BY ServedRange DEF Shape
<1>2. queue'[d] = Unserved(d)
  BY DEF Carry
<1> DEFINE k == Served(d)
           n == Len(queue[d]) - k
<1> HIDE DEF k
<1>3. k \in Nat /\ n \in Nat /\ k <= Len(queue[d])
  BY <1>1 DEF k
<1>4. \A i \in 1..n : k + i \in 1..Len(queue[d]) /\ k + i > k
  BY <1>1, <1>3
<1>5. queue'[d] = [i \in 1..n |-> queue[d][k + i]]
  BY <1>2 DEF Unserved, k
<1>6. \A i \in 1..n : queue[d][k + i] \in Packet
  BY <1>4, QueuedPacket
<1>7. queue'[d] \in Seq(Packet) /\ Len(queue'[d]) = n
  BY <1>3, <1>5, <1>6
<1> QED
  BY <1>4, <1>5, <1>7 DEF k

LEMMA CarryInFlight ==
  ASSUME Shape, Carry, NEW p \in inFlight'
  PROVE  \E q \in Flying : q.due > 1 /\ p = [q EXCEPT !.due = @ - 1]
<1>1. PICK q \in Flying : ~Due(q) /\ p = [q EXCEPT !.due = @ - 1]
  BY DEF Carry
<1>2. q.due \in Int
  BY FlyingFacts DEF Packet
<1> QED
  BY <1>1, <1>2 DEF Due

-----------------------------------------------------------------------------
LEMMA ShapeStep == Shape /\ [Next]_vars => Shape'
<1> SUFFICES ASSUME Shape, [Next]_vars PROVE Shape'
  OBVIOUS
<1>1. ASSUME NEW p \in Profiles, SetProfile(p) PROVE Shape'
  BY <1>1 DEF SetProfile, Shape
<1>2. ASSUME NEW l \in Pairs, NEW value \in BOOLEAN, SetLinkBlocked(l, value) PROVE Shape'
  <2>1. CASE Cut(l)
    <3>1. queue' \in [Traffic -> Seq(Packet)]
      BY <2>1 DEF Cut, Flushed, Shape
    <3>2. Seqs(Lost(l)) \subseteq Nat
      <4>1. \A p \in Waiting : p \in Packet
        BY QueuedPacket DEF Waiting, Queued
      <4> QED
        BY <4>1 DEF Lost, Seqs, Carried, Shape, Packet
    <3> QED
      BY <1>2, <2>1, <3>1, <3>2 DEF SetLinkBlocked, Cut, Shape
  <2>2. CASE Heal(l)
    BY <1>2, <2>2 DEF SetLinkBlocked, Heal, Shape
  <2> QED
    BY <1>2, <2>1, <2>2 DEF SetLinkBlocked
<1>3. ASSUME NEW d \in Traffic, Send(d) PROVE Shape'
  <2>1. queue' \in [Traffic -> Seq(Packet)]
    <3>1. ASSUME NEW jitter \in -profile.jitter..profile.jitter,
                 NEW delay \in 0..profile.window
          PROVE  NewPacket(d, jitter, delay) \in Packet
      <4>1. /\ profile.jitter \in Nat /\ profile.window \in Nat
            /\ profile \in Profiles /\ next \in Nat \ {0}
        BY ProfilesAssumption DEF Shape
      <4>2. jitter \in Int /\ delay \in Nat
        BY <4>1
      <4> QED
        BY <4>1, <4>2 DEF NewPacket, Packet
    <3>2. CASE UNCHANGED queue
      BY <3>2 DEF Shape
    <3>3. CASE queue' # queue
      <4>1. PICK jitter \in -profile.jitter..profile.jitter, delay \in 0..profile.window :
              queue' = [queue EXCEPT ![d] = Append(@, NewPacket(d, jitter, delay))]
        BY <1>3, <3>3 DEF Send, Enqueue
      <4>2. queue[d] \in Seq(Packet) /\ NewPacket(d, jitter, delay) \in Packet
        BY <3>1 DEF Shape
      <4>3. Append(queue[d], NewPacket(d, jitter, delay)) \in Seq(Packet)
        BY <4>2
      <4> QED
        BY <4>1, <4>3 DEF Shape
    <3> QED
      BY <3>2, <3>3
  <2>2. next' = next + 1 /\ (dropped' = dropped \/ dropped' = dropped \cup {next})
    BY <1>3 DEF Send
  <2>3. next' \in Nat \ {0} /\ dropped' \subseteq Nat
    <3>1. next \in Nat /\ dropped \subseteq Nat
      BY DEF Shape
    <3>2. next + 1 \in Nat \ {0}
      BY <3>1
    <3>3. dropped \cup {next} \subseteq Nat
      BY <3>1
    <3> QED
      BY <2>2, <3>1, <3>2, <3>3
  <2> QED
    BY <1>3, <2>1, <2>3 DEF Send, Shape
<1>4. CASE Carry
  <2>1. queue' \in [Traffic -> Seq(Packet)]
    <3>1. queue' = [d \in Traffic |-> Unserved(d)]
      BY <1>4 DEF Carry
    <3>2. \A d \in Traffic : queue'[d] \in Seq(Packet)
      BY <1>4, CarryQueue
    <3> QED
      BY <3>1, <3>2
  <2>2. inFlight' \subseteq Packet
    <3> SUFFICES ASSUME NEW p \in inFlight' PROVE p \in Packet
      OBVIOUS
    <3>1. PICK q \in Flying : p = [q EXCEPT !.due = @ - 1]
      BY <1>4, CarryInFlight
    <3>2. q \in Packet
      BY FlyingFacts
    <3> QED
      BY <3>1, <3>2 DEF Packet
  <2>3. \A p \in Flying : p.seq \in Nat
    BY FlyingFacts DEF Packet
  <2>4. delivered' \subseteq Nat /\ dropped' \subseteq Nat
    BY <1>4, <2>3 DEF Carry, Seqs, Shape
  <2> QED
    BY <1>4, <2>1, <2>2, <2>4 DEF Carry, Shape
<1>5. CASE UNCHANGED vars
  BY <1>5 DEF vars, Shape
<1> QED
  BY <1>1, <1>2, <1>3, <1>4, <1>5 DEF Next

LEMMA ShapeInit == Init => Shape
<1> SUFFICES ASSUME Init PROVE Shape
  OBVIOUS
<1>1. queue \in [Traffic -> Seq(Packet)]
  <2>1. <<>> \in Seq(Packet)
    OBVIOUS
  <2> QED
    BY <2>1 DEF Init
<1>2. next = 1 /\ 1 \in Nat \ {0}
  BY DEF Init
<1>3. /\ sending \in BOOLEAN /\ blocked \subseteq Pairs /\ inFlight \subseteq Packet
      /\ delivered \subseteq Nat /\ dropped \subseteq Nat
  BY DEF Init
<1>4. profile \in Profiles
  BY ProfilesAssumption, Zenon DEF Init
<1> QED
  BY <1>1, <1>2, <1>3, <1>4 DEF Shape

(* Packets, queues and outcomes keep their types.                          *)
THEOREM ShapeCorrect == Spec => []Shape
BY ShapeInit, ShapeStep, PTL DEF Spec

-----------------------------------------------------------------------------
(* No packet is in two places, and none bears a number not yet given out.  *)
Homed ==
  \A d \in Traffic : \A i \in 1..Len(queue[d]) :
     queue[d][i].link = d /\ queue[d][i].seq < next

QueuesApart ==
  \A d, e \in Traffic : \A i \in 1..Len(queue[d]), j \in 1..Len(queue[e]) :
     queue[d][i].seq = queue[e][j].seq => d = e /\ i = j

FlightApart ==
  /\ \A p \in inFlight :
        /\ p.seq < next
        /\ \A d \in Traffic : \A i \in 1..Len(queue[d]) : queue[d][i].seq # p.seq
  /\ \A p, q \in inFlight : p.seq = q.seq => p = q

Placed == Homed /\ QueuesApart /\ FlightApart

LEMMA PlacedLink ==
  ASSUME Shape, Placed, NEW l \in Pairs, NEW value \in BOOLEAN, SetLinkBlocked(l, value)
  PROVE  Placed'
<1>1. CASE Cut(l)
  <2>1. \A d \in Traffic : queue'[d] = <<>> \/ queue'[d] = queue[d]
    BY <1>1 DEF Cut, Flushed
  <2>2. \A d \in Traffic : \A i \in 1..Len(queue'[d]) :
          queue'[d] = queue[d] /\ i \in 1..Len(queue[d])
    BY <2>1
  <2>3. inFlight' \subseteq inFlight /\ next' = next
    BY <1>1 DEF SetLinkBlocked, Cut
  <2>4. Homed'
    BY <2>2, <2>3 DEF Placed, Homed
  <2>5. QueuesApart'
    BY <2>2 DEF Placed, QueuesApart
  <2>6. FlightApart'
    BY <2>2, <2>3 DEF Placed, FlightApart
  <2> QED
    BY <2>4, <2>5, <2>6 DEF Placed
<1>2. CASE Heal(l)
  BY <1>2 DEF SetLinkBlocked, Heal, Placed, Homed, QueuesApart, FlightApart
<1> QED
  BY <1>1, <1>2 DEF SetLinkBlocked

(* A message that was not dropped is the last packet of its queue.         *)
LEMMA SendQueue ==
  ASSUME Shape, NEW d \in Traffic, Send(d)
  PROVE  \/ /\ UNCHANGED queue /\ dropped' = dropped \cup {next}
         \/ /\ UNCHANGED dropped
            /\ Pair(d) \notin blocked
            /\ Len(queue'[d]) = Len(queue[d]) + 1
            /\ \A i \in 1..Len(queue[d]) : queue'[d][i] = queue[d][i]
            /\ \A e \in Traffic \ {d} : queue'[e] = queue[e]
            /\ LET new == queue'[d][Len(queue[d]) + 1]
               IN  /\ new.seq = next /\ new.link = d /\ new.profile = profile
                   /\ new.jitter \in -profile.jitter..profile.jitter
                   /\ new.delay \in 0..profile.window
<1>1. CASE UNCHANGED queue /\ dropped' = dropped \cup {next}
  BY <1>1
<1>2. CASE ~(UNCHANGED queue /\ dropped' = dropped \cup {next})
  <2>1. PICK jitter \in -profile.jitter..profile.jitter, delay \in 0..profile.window :
          queue' = [queue EXCEPT ![d] = Append(@, NewPacket(d, jitter, delay))]
    BY <1>2 DEF Send, Enqueue
  <2>2. UNCHANGED dropped /\ Pair(d) \notin blocked
    BY <1>2 DEF Send
  <2> DEFINE new == NewPacket(d, jitter, delay)
  <2>3. /\ new.seq = next /\ new.link = d /\ new.profile = profile
        /\ new.jitter = jitter /\ new.delay = delay
    BY DEF NewPacket
  <2> HIDE DEF new
  <2>4. queue[d] \in Seq(Packet)
    BY DEF Shape
  <2>5. queue'[d] = Append(queue[d], new) /\ \A e \in Traffic \ {d} : queue'[e] = queue[e]
    BY <2>1 DEF new, Shape
  <2>6. /\ Len(queue'[d]) = Len(queue[d]) + 1
        /\ \A i \in 1..Len(queue[d]) : queue'[d][i] = queue[d][i]
        /\ queue'[d][Len(queue[d]) + 1] = new
    BY <2>4, <2>5
  <2> QED
    BY <2>2, <2>3, <2>5, <2>6
<1> QED
  BY <1>1, <1>2

LEMMA PlacedSend ==
  ASSUME Shape, Placed, NEW d \in Traffic, Send(d)
  PROVE  Placed'
<1>1. next' = next + 1 /\ inFlight' = inFlight /\ next \in Nat
  BY DEF Send, Shape
<1>2. \A e \in Traffic : \A i \in 1..Len(queue[e]) : queue[e][i].seq \in Nat
  BY QueuedPacket DEF Packet
<1>3. \A p \in inFlight : p.seq \in Nat
  BY DEF Shape, Packet
<1>4. CASE UNCHANGED queue
  BY <1>1, <1>2, <1>3, <1>4 DEF Placed, Homed, QueuesApart, FlightApart
<1>5. CASE queue' # queue
  <2>1. /\ Len(queue'[d]) = Len(queue[d]) + 1
        /\ \A i \in 1..Len(queue[d]) : queue'[d][i] = queue[d][i]
        /\ \A e \in Traffic \ {d} : queue'[e] = queue[e]
        /\ queue'[d][Len(queue[d]) + 1].seq = next
        /\ queue'[d][Len(queue[d]) + 1].link = d
    BY <1>5, SendQueue
  <2>2. Len(queue[d]) \in Nat
    BY DEF Shape
  <2>3. \A e \in Traffic : \A i \in 1..Len(queue'[e]) :
          \/ i \in 1..Len(queue[e]) /\ queue'[e][i] = queue[e][i]
          \/ /\ e = d /\ i = Len(queue[d]) + 1
             /\ queue'[e][i].seq = next /\ queue'[e][i].link = e
    BY <2>1, <2>2, SMTT(30)
  <2>4. Homed'
    BY <1>1, <1>2, <2>3, SMTT(30) DEF Placed, Homed
  <2>5. QueuesApart'
    <3> SUFFICES ASSUME NEW e \in Traffic, NEW f \in Traffic,
                        NEW i \in 1..Len(queue'[e]), NEW j \in 1..Len(queue'[f]),
                        queue'[e][i].seq = queue'[f][j].seq
                 PROVE  e = f /\ i = j
      BY DEF QueuesApart
    <3>1. CASE /\ i \in 1..Len(queue[e]) /\ queue'[e][i] = queue[e][i]
               /\ j \in 1..Len(queue[f]) /\ queue'[f][j] = queue[f][j]
      BY <3>1 DEF Placed, QueuesApart
    <3>2. \A g \in Traffic : \A k \in 1..Len(queue[g]) : queue[g][k].seq # next
      BY <1>1, <1>2 DEF Placed, Homed
    <3>3. CASE /\ e = d /\ i = Len(queue[d]) + 1 /\ queue'[e][i].seq = next
               /\ f = d /\ j = Len(queue[d]) + 1
      BY <3>3
    <3>4. CASE /\ queue'[e][i].seq = next
               /\ j \in 1..Len(queue[f]) /\ queue'[f][j] = queue[f][j]
      BY <3>2, <3>4
    <3>5. CASE /\ queue'[f][j].seq = next
               /\ i \in 1..Len(queue[e]) /\ queue'[e][i] = queue[e][i]
      BY <3>2, <3>5
    <3> QED
      BY <2>3, <3>1, <3>3, <3>4, <3>5
  <2>6. FlightApart'
    <3>1. ASSUME NEW p \in inFlight PROVE p.seq < next' /\ p.seq # next
      <4>1. p.seq \in Nat
        BY <1>3
      <4>2. p.seq < next
        BY DEF Placed, FlightApart
      <4> QED
        BY <1>1, <4>1, <4>2
    <3>2. ASSUME NEW p \in inFlight, NEW e \in Traffic, NEW i \in 1..Len(queue'[e])
          PROVE  queue'[e][i].seq # p.seq
      <4>1. CASE i \in 1..Len(queue[e]) /\ queue'[e][i] = queue[e][i]
        BY <4>1 DEF Placed, FlightApart
      <4>2. CASE queue'[e][i].seq = next
        BY <3>1, <4>2
      <4> QED
        BY <2>3, <4>1, <4>2
    <3>3. \A p, q \in inFlight : p.seq = q.seq => p = q
      BY DEF Placed, FlightApart
    <3> QED
      BY <1>1, <3>1, <3>2, <3>3 DEF FlightApart
  <2> QED
    BY <2>4, <2>5, <2>6 DEF Placed
<1> QED
  BY <1>4, <1>5

(* Nothing in flight or taking off has the number of anything else that    *)
(* flies or of a packet that stays in its queue.                           *)
LEMMA FlyingApart ==
  ASSUME Shape, Placed
  PROVE  /\ \A p, q \in Flying : p.seq = q.seq => p = q
         /\ \A p \in Flying : /\ p.seq < next
                              /\ \A d \in Traffic : \A i \in 1..Len(queue[d]) :
                                   i > Served(d) => queue[d][i].seq # p.seq
<1>1. ASSUME NEW p \in Flying
      PROVE  \/ p \in inFlight
             \/ \E d \in Traffic : \E i \in 1..Len(queue[d]) :
                  /\ i <= Served(d) /\ p = Launched(queue[d][i])
                  /\ p.seq = queue[d][i].seq
  BY FlyingFacts, QueuedPacket, LaunchedFacts
<1>2. \A d \in Traffic : Served(d) \in Int
  BY ServedRange DEF Shape
<1>3. ASSUME NEW p \in Flying, NEW q \in Flying, p.seq = q.seq PROVE p = q
  BY <1>1, <1>3 DEF Placed, FlightApart, QueuesApart
<1>4. ASSUME NEW p \in Flying
      PROVE  /\ p.seq < next
             /\ \A d \in Traffic : \A i \in 1..Len(queue[d]) :
                  i > Served(d) => queue[d][i].seq # p.seq
  <2>1. CASE p \in inFlight
    BY <2>1 DEF Placed, FlightApart
  <2>2. CASE p \notin inFlight
    <3>1. PICK d \in Traffic : \E i \in 1..Len(queue[d]) :
                 i <= Served(d) /\ p.seq = queue[d][i].seq
      BY <1>1, <2>2
    <3>2. PICK i \in 1..Len(queue[d]) : i <= Served(d) /\ p.seq = queue[d][i].seq
      BY <3>1
    <3>3. p.seq < next
      BY <3>2 DEF Placed, Homed
    <3>4. ASSUME NEW e \in Traffic, NEW j \in 1..Len(queue[e]), j > Served(e),
                 queue[e][j].seq = p.seq
          PROVE  FALSE
      <4>1. e = d /\ i = j
        BY <3>2, <3>4 DEF Placed, QueuesApart
      <4> QED
        BY <1>2, <3>2, <3>4, <4>1
    <3> QED
      BY <3>3, <3>4
  <2> QED
    BY <2>1, <2>2
<1> QED
  BY <1>3, <1>4

LEMMA PlacedCarry ==
  ASSUME Shape, Placed, Carry
  PROVE  Placed'
<1>1. next' = next
  BY DEF Carry
<1>2. \A d \in Traffic : Served(d) \in Nat /\ Len(queue[d]) \in Nat
  BY ServedRange DEF Shape
<1>3. \A d \in Traffic : \A i \in 1..Len(queue'[d]) :
         /\ Served(d) + i \in 1..Len(queue[d]) /\ Served(d) + i > Served(d)
         /\ queue'[d][i] = queue[d][Served(d) + i]
  BY CarryQueue
<1>4. ASSUME NEW p \in inFlight'
      PROVE  \E q \in Flying : p = [q EXCEPT !.due = @ - 1] /\ p.seq = q.seq
  <2>1. PICK q \in Flying : p = [q EXCEPT !.due = @ - 1]
    BY CarryInFlight
  <2>2. q \in Packet
    BY FlyingFacts
  <2> QED
    BY <2>1, <2>2 DEF Packet
<1>5. Homed'
  BY <1>1, <1>3 DEF Placed, Homed
<1>6. QueuesApart'
  <2> SUFFICES ASSUME NEW d \in Traffic, NEW e \in Traffic,
                      NEW i \in 1..Len(queue'[d]), NEW j \in 1..Len(queue'[e]),
                      queue'[d][i].seq = queue'[e][j].seq
               PROVE  d = e /\ i = j
    BY DEF QueuesApart
  <2> DEFINE a == Served(d) + i
             b == Served(e) + j
  <2>1. /\ a \in 1..Len(queue[d]) /\ queue'[d][i] = queue[d][a]
        /\ b \in 1..Len(queue[e]) /\ queue'[e][j] = queue[e][b]
    BY <1>3
  <2>2. d = e /\ a = b
    <3> HIDE DEF a, b
    <3> QED
      BY <2>1 DEF Placed, QueuesApart
  <2>3. i \in Int /\ j \in Int
    BY <1>3
  <2> QED
    BY <1>2, <2>2, <2>3
<1>7. FlightApart'
  <2>1. ASSUME NEW p \in inFlight'
        PROVE  /\ p.seq < next
               /\ \A d \in Traffic : \A i \in 1..Len(queue'[d]) : queue'[d][i].seq # p.seq
    <3>1. PICK r \in Flying : p.seq = r.seq
      BY <1>4
    <3> QED
      BY <1>3, <3>1, FlyingApart
  <2>2. ASSUME NEW p \in inFlight', NEW q \in inFlight', p.seq = q.seq
        PROVE  p = q
    <3>1. PICK r \in Flying : p = [r EXCEPT !.due = @ - 1] /\ p.seq = r.seq
      BY <1>4
    <3>2. PICK t \in Flying : q = [t EXCEPT !.due = @ - 1] /\ q.seq = t.seq
      BY <1>4
    <3>3. r = t
      BY <2>2, <3>1, <3>2, FlyingApart
    <3> QED
      BY <3>1, <3>2, <3>3
  <2> QED
    BY <1>1, <2>1, <2>2 DEF FlightApart
<1> QED
  BY <1>5, <1>6, <1>7 DEF Placed

LEMMA PlacedStep == Shape /\ Placed /\ [Next]_vars => Placed'
<1> SUFFICES ASSUME Shape, Placed, [Next]_vars PROVE Placed'
  OBVIOUS
<1>1. CASE UNCHANGED <<queue, inFlight, next>>
  BY <1>1 DEF Placed, Homed, QueuesApart, FlightApart
<1> QED
  BY <1>1, PlacedLink, PlacedSend, PlacedCarry DEF Next, vars, SetProfile

-----------------------------------------------------------------------------
(* The numbers of the packets the network carries, and what the steps do   *)
(* to them.                                                                *)
InQueue(n) == \E d \in Traffic : \E i \in 1..Len(queue[d]) : queue[d][i].seq = n

Aloft(n) == \E p \in inFlight : p.seq = n

LEMMA CarriedNumbers ==
  /\ \A n : n \in Seqs(Carried) <=> InQueue(n) \/ Aloft(n)
  /\ \A n : n \in Seqs(Carried)' <=> InQueue(n)' \/ Aloft(n)'
BY DEF Seqs, Carried, Waiting, Queued, InQueue, Aloft

LEMMA CutNumbers ==
  ASSUME Shape, Placed, NEW l \in Pairs, Cut(l)
  PROVE  Seqs(Carried)' = Seqs(Carried) \ Seqs(Lost(l))
<1>1. \A d \in Traffic : queue'[d] = IF Pair(d) = l THEN <<>> ELSE queue[d]
  BY DEF Cut, Flushed
<1>2. inFlight' = inFlight \ Lost(l)
  BY DEF Cut
<1>3. ASSUME NEW n
      PROVE  n \in Seqs(Lost(l)) <=>
               \/ \E d \in Traffic : \E i \in 1..Len(queue[d]) :
                    queue[d][i].seq = n /\ Pair(d) = l
               \/ \E p \in inFlight : p.seq = n /\ Pair(p.link) = l
  BY DEF Seqs, Lost, Carried, Waiting, Queued, Placed, Homed
<1>4. ASSUME NEW n
      PROVE  InQueue(n)' <=> InQueue(n) /\ n \notin Seqs(Lost(l))
  <2>1. InQueue(n)' <=> \E d \in Traffic : \E i \in 1..Len(queue[d]) :
                          queue[d][i].seq = n /\ Pair(d) # l
    BY <1>1 DEF InQueue
  <2> QED
    BY <1>3, <2>1, SMTT(30) DEF InQueue, Placed, QueuesApart, FlightApart
<1>5. ASSUME NEW n
      PROVE  Aloft(n)' <=> Aloft(n) /\ n \notin Seqs(Lost(l))
  <2>1. \A p \in inFlight : p \in Lost(l) <=> Pair(p.link) = l
    BY DEF Lost, Carried
  <2>2. Aloft(n)' <=> \E p \in inFlight : p.seq = n /\ Pair(p.link) # l
    BY <1>2, <2>1 DEF Aloft
  <2> QED
    BY <1>3, <2>2 DEF Aloft, Placed, FlightApart
<1> QED
  BY <1>4, <1>5, CarriedNumbers

LEMMA SendNumbers ==
  ASSUME Shape, Placed, NEW d \in Traffic, Send(d)
  PROVE  \/ Seqs(Carried)' = Seqs(Carried) /\ dropped' = dropped \cup {next}
         \/ Seqs(Carried)' = Seqs(Carried) \cup {next} /\ UNCHANGED dropped
<1>1. inFlight' = inFlight
  BY DEF Send
<1>2. \A n : Aloft(n)' <=> Aloft(n)
  BY <1>1 DEF Aloft
<1>3. CASE UNCHANGED queue /\ dropped' = dropped \cup {next}
  <2>1. \A n : InQueue(n)' <=> InQueue(n)
    BY <1>3 DEF InQueue
  <2> QED
    BY <1>2, <1>3, <2>1, CarriedNumbers
<1>4. CASE ~(UNCHANGED queue /\ dropped' = dropped \cup {next})
  <2>1. /\ Len(queue'[d]) = Len(queue[d]) + 1
        /\ \A i \in 1..Len(queue[d]) : queue'[d][i] = queue[d][i]
        /\ \A e \in Traffic \ {d} : queue'[e] = queue[e]
        /\ queue'[d][Len(queue[d]) + 1].seq = next
        /\ UNCHANGED dropped
    BY <1>4, SendQueue
  <2>2. Len(queue[d]) \in Nat
    BY DEF Shape
  <2>3. ASSUME NEW n PROVE InQueue(n)' <=> InQueue(n) \/ n = next
    <3>1. ASSUME InQueue(n)' PROVE InQueue(n) \/ n = next
      <4>1. PICK e \in Traffic : \E i \in 1..Len(queue'[e]) : queue'[e][i].seq = n
        BY <3>1 DEF InQueue
      <4>2. PICK i \in 1..Len(queue'[e]) : queue'[e][i].seq = n
        BY <4>1
      <4>3. i \in 1..Len(queue[e]) \/ (e = d /\ i = Len(queue[d]) + 1)
        BY <2>1, <2>2
      <4> QED
        BY <2>1, <4>2, <4>3 DEF InQueue
    <3>2. ASSUME InQueue(n) PROVE InQueue(n)'
      <4>1. PICK e \in Traffic : \E i \in 1..Len(queue[e]) : queue[e][i].seq = n
        BY <3>2 DEF InQueue
      <4>2. PICK i \in 1..Len(queue[e]) : queue[e][i].seq = n
        BY <4>1
      <4>3. i \in 1..Len(queue'[e]) /\ queue'[e][i] = queue[e][i]
        BY <2>1, <2>2
      <4> QED
        BY <4>2, <4>3 DEF InQueue
    <3>3. ASSUME n = next PROVE InQueue(n)'
      <4>1. Len(queue[d]) + 1 \in 1..Len(queue'[d])
        BY <2>1, <2>2
      <4> QED
        BY <2>1, <3>3, <4>1 DEF InQueue
    <3> QED
      BY <3>1, <3>2, <3>3
  <2> QED
    BY <1>2, <2>1, <2>3, CarriedNumbers
<1> QED
  BY <1>3, <1>4

LEMMA CarryNumbers ==
  ASSUME Shape, Placed, Carry
  PROVE  LET due == {p \in Flying : Due(p)}
         IN  /\ Seqs(Carried)' = Seqs(Carried) \ Seqs(due)
             /\ Seqs(due) \subseteq Seqs(Carried)
<1> DEFINE due == {p \in Flying : Due(p)}
<1>1. \A d \in Traffic : /\ Served(d) \in Nat /\ Len(queue[d]) \in Nat
                         /\ Served(d) <= Len(queue[d])
  BY ServedRange DEF Shape
<1>2. \A p \in Flying : InQueue(p.seq) \/ Aloft(p.seq)
  BY FlyingFacts, QueuedPacket, LaunchedFacts DEF InQueue, Aloft
<1>3. ASSUME NEW n PROVE Aloft(n)' <=> \E p \in Flying : ~Due(p) /\ p.seq = n
  <2>1. inFlight' = {[p EXCEPT !.due = @ - 1] : p \in Flying \ due}
    BY DEF Carry
  <2>2. \A p \in Flying : [p EXCEPT !.due = @ - 1].seq = p.seq
    BY FlyingFacts DEF Packet
  <2>3. ASSUME Aloft(n)' PROVE \E p \in Flying : ~Due(p) /\ p.seq = n
    <3>1. PICK q \in inFlight' : q.seq = n
      BY <2>3 DEF Aloft
    <3>2. PICK p \in Flying \ due : q = [p EXCEPT !.due = @ - 1]
      BY <2>1, <3>1
    <3> QED
      BY <2>2, <3>1, <3>2
  <2>4. ASSUME NEW p \in Flying, ~Due(p), p.seq = n PROVE Aloft(n)'
    <3> DEFINE q == [p EXCEPT !.due = @ - 1]
    <3>1. q \in inFlight'
      BY <2>1, <2>4
    <3>2. q.seq = n
      BY <2>2, <2>4
    <3> QED
      BY <3>1, <3>2 DEF Aloft
  <2> QED
    BY <2>3, <2>4
<1>4. ASSUME NEW n
      PROVE  InQueue(n)' <=> \E d \in Traffic : \E i \in 1..Len(queue[d]) :
                               i > Served(d) /\ queue[d][i].seq = n
  <2>1. ASSUME NEW d \in Traffic, NEW i \in 1..Len(queue[d]), i > Served(d)
        PROVE  \E j \in 1..Len(queue'[d]) : queue'[d][j] = queue[d][i]
    <3>1. /\ Len(queue'[d]) = Len(queue[d]) - Served(d)
          /\ \A j \in 1..Len(queue'[d]) : queue'[d][j] = queue[d][Served(d) + j]
      BY CarryQueue
    <3>2. i - Served(d) \in 1..Len(queue'[d]) /\ Served(d) + (i - Served(d)) = i
      BY <1>1, <2>1, <3>1
    <3> QED
      BY <3>1, <3>2
  <2>2. ASSUME NEW d \in Traffic, NEW j \in 1..Len(queue'[d])
        PROVE  \E i \in 1..Len(queue[d]) : i > Served(d) /\ queue'[d][j] = queue[d][i]
    BY CarryQueue
  <2>3. ASSUME InQueue(n)'
        PROVE  \E d \in Traffic : \E i \in 1..Len(queue[d]) :
                 i > Served(d) /\ queue[d][i].seq = n
    <3>1. PICK d \in Traffic : \E j \in 1..Len(queue'[d]) : queue'[d][j].seq = n
      BY <2>3 DEF InQueue
    <3>2. PICK j \in 1..Len(queue'[d]) : queue'[d][j].seq = n
      BY <3>1
    <3> QED
      BY <2>2, <3>2
  <2>4. ASSUME NEW d \in Traffic, NEW i \in 1..Len(queue[d]), i > Served(d),
               queue[d][i].seq = n
        PROVE  InQueue(n)'
    <3>1. PICK j \in 1..Len(queue'[d]) : queue'[d][j] = queue[d][i]
      BY <2>1, <2>4
    <3> QED
      BY <2>4, <3>1 DEF InQueue
  <2> QED
    BY <2>3, <2>4
<1>5. ASSUME NEW n, InQueue(n)
      PROVE  InQueue(n)' \/ \E p \in Flying : p.seq = n
  <2>1. PICK d \in Traffic : \E i \in 1..Len(queue[d]) : queue[d][i].seq = n
    BY <1>5 DEF InQueue
  <2>2. PICK i \in 1..Len(queue[d]) : queue[d][i].seq = n
    BY <2>1
  <2>3. CASE i > Served(d)
    BY <1>4, <2>2, <2>3
  <2>4. CASE i <= Served(d)
    <3>1. i \in 1..Served(d)
      BY <1>1, <2>4
    <3>2. Launched(queue[d][i]) \in Flying
      BY <3>1 DEF Flying, Transmitted
    <3> QED
      BY <2>2, <3>2, QueuedPacket, LaunchedFacts
  <2> QED
    BY <1>1, <2>3, <2>4
<1>6. ASSUME NEW n PROVE Aloft(n) => \E p \in Flying : p.seq = n
  BY DEF Aloft, Flying
<1>7. ASSUME NEW n PROVE InQueue(n)' => InQueue(n) /\ \A p \in Flying : p.seq # n
  BY <1>4, FlyingApart DEF InQueue
<1>8. ASSUME NEW n PROVE n \in Seqs(due) <=> \E p \in Flying : Due(p) /\ p.seq = n
  BY DEF Seqs
<1>9. ASSUME NEW n
      PROVE  n \in Seqs(Carried)' <=> n \in Seqs(Carried) /\ n \notin Seqs(due)
  <2>1. ASSUME n \in Seqs(Carried)' PROVE n \in Seqs(Carried) /\ n \notin Seqs(due)
    <3>1. CASE InQueue(n)'
      BY <1>7, <1>8, <3>1, CarriedNumbers
    <3>2. CASE Aloft(n)'
      <4>1. PICK p \in Flying : ~Due(p) /\ p.seq = n
        BY <1>3, <3>2
      <4> QED
        BY <1>2, <1>8, <4>1, FlyingApart, CarriedNumbers
    <3> QED
      BY <2>1, <3>1, <3>2, CarriedNumbers
  <2>2. ASSUME n \in Seqs(Carried), n \notin Seqs(due) PROVE n \in Seqs(Carried)'
    <3>1. InQueue(n)' \/ \E p \in Flying : p.seq = n
      BY <1>5, <1>6, <2>2, CarriedNumbers
    <3>2. CASE \E p \in Flying : p.seq = n
      <4>1. \E p \in Flying : ~Due(p) /\ p.seq = n
        BY <1>8, <2>2, <3>2
      <4>2. Aloft(n)'
        BY <1>3, <4>1
      <4> QED
        BY <4>2, CarriedNumbers
    <3> QED
      BY <3>1, <3>2, CarriedNumbers
  <2> QED
    BY <2>1, <2>2
<1>10. Seqs(due) \subseteq Seqs(Carried)
  BY <1>2, <1>8, CarriedNumbers
<1> HIDE DEF due
<1> QED
  BY <1>9, <1>10 DEF due

-----------------------------------------------------------------------------
(* A blocked link carries nothing, stated by place.                        *)
Quiet == /\ \A d \in Traffic : Pair(d) \in blocked => queue[d] = <<>>
         /\ \A p \in inFlight : Pair(p.link) \notin blocked

LEMMA QuietByPlace ==
  ASSUME Shape, Placed
  PROVE  QuietWhenCut <=> Quiet
<1>1. ASSUME QuietWhenCut PROVE Quiet
  <2>1. ASSUME NEW d \in Traffic, Pair(d) \in blocked, queue[d] # <<>> PROVE FALSE
    <3>1. 1 \in 1..Len(queue[d])
      BY <2>1 DEF Shape
    <3>2. queue[d][1] \in Carried /\ queue[d][1].link = d
      BY <3>1 DEF Carried, Waiting, Queued, Placed, Homed
    <3> QED
      BY <1>1, <2>1, <3>2 DEF QuietWhenCut
  <2> QED
    BY <1>1, <2>1 DEF QuietWhenCut, Carried, Quiet
<1>2. ASSUME Quiet PROVE QuietWhenCut
  <2>1. \A d \in Traffic : \A i \in 1..Len(queue[d]) : Pair(queue[d][i].link) \notin blocked
    BY <1>2 DEF Quiet, Placed, Homed
  <2> QED
    BY <1>2, <2>1 DEF Quiet, QuietWhenCut, Carried, Waiting, Queued
<1> QED
  BY <1>1, <1>2

LEMMA QuietStep == Shape /\ Placed /\ Quiet /\ [Next]_vars => Quiet'
<1> SUFFICES ASSUME Shape, Placed, Quiet, [Next]_vars PROVE Quiet'
  OBVIOUS
<1> USE DEF Quiet
<1>5. ASSUME NEW l \in Pairs, NEW value \in BOOLEAN, SetLinkBlocked(l, value) PROVE Quiet'
  <2>1. CASE Cut(l)
    <3>1. \A p \in inFlight' : p \in inFlight /\ Pair(p.link) # l
      BY <2>1 DEF Cut, Lost, Carried
    <3> QED
      BY <2>1, <3>1 DEF Cut, Flushed
  <2>2. CASE Heal(l)
    BY <2>2 DEF Heal
  <2> QED
    BY <1>5, <2>1, <2>2 DEF SetLinkBlocked
<1>6. ASSUME NEW d \in Traffic, Send(d) PROVE Quiet'
  <2>1. inFlight' = inFlight /\ blocked' = blocked
    BY <1>6 DEF Send
  <2>2. \A e \in Traffic : queue'[e] = queue[e] \/ (e = d /\ Pair(d) \notin blocked)
    BY <1>6, SendQueue
  <2> QED
    BY <2>1, <2>2
<1>7. CASE Carry
  <2>1. blocked' = blocked
    BY <1>7 DEF Carry
  <2>2. ASSUME NEW d \in Traffic, Pair(d) \in blocked PROVE queue'[d] = <<>>
    <3>1. Served(d) = 0 /\ queue[d] = <<>>
      BY <2>2 DEF Served
    <3>2. queue'[d] = Unserved(d)
      BY <1>7 DEF Carry
    <3> QED
      BY <3>1, <3>2 DEF Unserved
  <2>3. ASSUME NEW p \in inFlight' PROVE Pair(p.link) \notin blocked
    <3>1. PICK q \in Flying : p = [q EXCEPT !.due = @ - 1]
      BY <1>7, CarryInFlight
    <3>2. q \in Packet /\ p.link = q.link
      BY <3>1, FlyingFacts DEF Packet
    <3>3. CASE q \in inFlight
      BY <3>2, <3>3
    <3>4. CASE \E d \in Traffic : \E i \in 1..Len(queue[d]) :
                 q = Launched(queue[d][i]) /\ Pair(d) \notin blocked
      <4>1. \E d \in Traffic : q.link = d /\ Pair(d) \notin blocked
        BY <3>4, QueuedPacket, LaunchedFacts DEF Placed, Homed
      <4> QED
        BY <3>2, <4>1
    <3> QED
      BY <3>3, <3>4, FlyingFacts
  <2> QED
    BY <2>1, <2>2, <2>3
<1>8. CASE UNCHANGED <<queue, inFlight, blocked>>
  BY <1>8
<1> HIDE DEF Quiet
<1> QED
  BY <1>5, <1>6, <1>7, <1>8 DEF Next, SetProfile, vars

LEMMA PlacedInit == Init => Shape /\ Placed /\ Quiet
<1> SUFFICES ASSUME Init PROVE Shape /\ Placed /\ Quiet
  OBVIOUS
<1>1. \A d \in Traffic : queue[d] = <<>> /\ 1..Len(queue[d]) = {}
  BY DEF Init
<1>2. inFlight = {}
  BY DEF Init
<1>3. Shape
  BY ShapeInit
<1> QED
  BY <1>1, <1>2, <1>3 DEF Placed, Homed, QueuesApart, FlightApart, Quiet

(* What was sent before a cut cannot arrive after the link was healed: for *)
(* any traffic, a blocked link carries nothing.                            *)
THEOREM CutsAreQuiet == Spec => []QuietWhenCut
<1>1. Shape /\ Placed /\ Quiet => QuietWhenCut
  BY QuietByPlace
<1> QED
  BY <1>1, PlacedInit, ShapeStep, PlacedStep, QuietStep, PTL DEF Spec

-----------------------------------------------------------------------------
(* With quiet links, all that is due is delivered.                         *)
LEMMA CarryDelivers ==
  ASSUME Shape, Placed, Quiet, Carry
  PROVE  LET due == {p \in Flying : Due(p)}
         IN  delivered' = delivered \cup Seqs(due) /\ dropped' = dropped
<1> DEFINE due == {p \in Flying : Due(p)}
           stopped == {p \in due : Pair(p.link) \in blocked}
<1>1. ASSUME NEW p \in Flying PROVE Pair(p.link) \notin blocked
  <2>1. CASE p \in inFlight
    BY <2>1 DEF Quiet
  <2>2. CASE \E d \in Traffic : \E i \in 1..Len(queue[d]) :
               p = Launched(queue[d][i]) /\ Pair(d) \notin blocked
    BY <2>2, QueuedPacket, LaunchedFacts DEF Placed, Homed
  <2> QED
    BY <2>1, <2>2, FlyingFacts
<1>2. stopped = {}
  BY <1>1
<1>3. delivered' = delivered \cup Seqs(due \ stopped) /\ dropped' = dropped \cup Seqs(stopped)
  BY DEF Carry
<1>4. Seqs({}) = {}
  BY DEF Seqs
<1> HIDE DEF due, stopped
<1>5. due \ stopped = due
  BY <1>2
<1> QED
  BY <1>2, <1>3, <1>4, <1>5 DEF due

(* Each number given out is carried, delivered or dropped, and only one of *)
(* these.                                                                  *)
Settled ==
  /\ Seqs(Carried) \cap (delivered \cup dropped) = {}
  /\ delivered \cap dropped = {}
  /\ 1..next - 1 = Seqs(Carried) \cup delivered \cup dropped

LEMMA SettledStep == Shape /\ Placed /\ Quiet /\ Settled /\ [Next]_vars => Settled'
<1> SUFFICES ASSUME Shape, Placed, Quiet, Settled, [Next]_vars PROVE Settled'
  OBVIOUS
<1>1. ASSUME NEW l \in Pairs, NEW value \in BOOLEAN, SetLinkBlocked(l, value) PROVE Settled'
  <2>1. CASE Cut(l)
    <3>1. Seqs(Carried)' = Seqs(Carried) \ Seqs(Lost(l))
      BY <2>1, CutNumbers
    <3>2. Seqs(Lost(l)) \subseteq Seqs(Carried)
      BY DEF Seqs, Lost
    <3>3. /\ dropped' = dropped \cup Seqs(Lost(l))
          /\ UNCHANGED <<delivered, next>>
      BY <1>1, <2>1 DEF Cut, SetLinkBlocked
    <3> QED
      BY <3>1, <3>2, <3>3 DEF Settled
  <2>2. CASE Heal(l)
    BY <1>1, <2>2
    DEF Heal, SetLinkBlocked, Settled, Seqs, Carried, Waiting, Queued
  <2> QED
    BY <1>1, <2>1, <2>2 DEF SetLinkBlocked
<1>2. ASSUME NEW d \in Traffic, Send(d) PROVE Settled'
  <2>1. delivered' = delivered /\ next' = next + 1 /\ next \in Nat \ {0}
    BY <1>2 DEF Send, Shape
  <2>2. next \notin 1..next - 1 /\ 1..next' - 1 = (1..next - 1) \cup {next}
    BY <2>1
  <2> QED
    BY <1>2, <2>1, <2>2, SendNumbers DEF Settled
<1>3. CASE Carry
  <2> DEFINE due == {p \in Flying : Due(p)}
  <2>1. next' = next
    BY <1>3 DEF Carry
  <2>2. /\ Seqs(Carried)' = Seqs(Carried) \ Seqs(due) /\ Seqs(due) \subseteq Seqs(Carried)
        /\ delivered' = delivered \cup Seqs(due) /\ dropped' = dropped
    BY <1>3, CarryNumbers, CarryDelivers
  <2> HIDE DEF due
  <2> QED
    BY <2>1, <2>2 DEF Settled
<1>4. CASE UNCHANGED <<queue, inFlight, next, delivered, dropped>>
  BY <1>4 DEF Settled, Seqs, Carried, Waiting, Queued
<1> QED
  BY <1>1, <1>2, <1>3, <1>4 DEF Next, SetProfile, vars

LEMMA SettledInit == Init => Settled
<1> SUFFICES ASSUME Init PROVE Settled
  OBVIOUS
<1>1. Seqs(Carried) = {}
  <2>1. \A d \in Traffic : 1..Len(queue[d]) = {}
    BY DEF Init
  <2> QED
    BY <2>1 DEF Init, Seqs, Carried, Waiting, Queued
<1>2. delivered = {} /\ dropped = {} /\ 1..next - 1 = {}
  BY DEF Init
<1> QED
  BY <1>1, <1>2 DEF Settled

(* Each message has one fate, whatever the events and the draws.           *)
THEOREM FatesAreSingle == Spec => []OneFate
<1>1. Placed /\ Settled => OneFate
  <2> SUFFICES ASSUME Placed, Settled PROVE OneFate
    OBVIOUS
  <2>1. \A p, q \in Carried : p.seq = q.seq => p = q
    BY DEF Placed, QueuesApart, FlightApart, Carried, Waiting, Queued
  <2> QED
    BY <2>1 DEF OneFate, Settled
<1> QED
  BY <1>1, PlacedInit, SettledInit, ShapeStep, PlacedStep, QuietStep, SettledStep, PTL DEF Spec

-----------------------------------------------------------------------------
LEMMA ServiceStep ==
  Shape /\ Placed /\ Quiet /\ Settled /\ [Next]_vars => [Service!Next]_(Service!datagrams)
<1> SUFFICES ASSUME Shape, Placed, Quiet, Settled, [Next]_vars
             PROVE  Service!Next \/ UNCHANGED Service!datagrams
  OBVIOUS
<1>1. ASSUME NEW l \in Pairs, NEW value \in BOOLEAN, SetLinkBlocked(l, value)
      PROVE  Service!Next \/ UNCHANGED Service!datagrams
  <2>1. CASE Cut(l)
    <3>1. Seqs(Carried)' = Seqs(Carried) \ Seqs(Lost(l))
      BY <2>1, CutNumbers
    <3>2. Seqs(Lost(l)) \subseteq Seqs(Carried)
      BY DEF Seqs, Lost
    <3>3. /\ dropped' = dropped \cup Seqs(Lost(l))
          /\ UNCHANGED <<delivered, next>>
      BY <1>1, <2>1 DEF Cut, SetLinkBlocked
    <3>4. Service!Drop
      BY <3>1, <3>2, <3>3 DEF Service!Drop
    <3> QED
      BY <3>4 DEF Service!Next
  <2>2. CASE Heal(l)
    BY <1>1, <2>2
    DEF Heal, SetLinkBlocked, Service!datagrams, Seqs, Carried, Waiting, Queued
  <2> QED
    BY <1>1, <2>1, <2>2 DEF SetLinkBlocked
<1>2. ASSUME NEW d \in Traffic, Send(d) PROVE Service!Send
  <2>1. delivered' = delivered /\ next' = next + 1 /\ next \in Nat \ {0}
    BY <1>2 DEF Send, Shape
  <2>2. next' - 1 = (next - 1) + 1 /\ next' - 1 = next
    BY <2>1
  <2> QED
    BY <1>2, <2>1, <2>2, SendNumbers DEF Service!Send
<1>3. CASE Carry
  <2> DEFINE due == {p \in Flying : Due(p)}
  <2>1. next' = next
    BY <1>3 DEF Carry
  <2>2. /\ Seqs(Carried)' = Seqs(Carried) \ Seqs(due) /\ Seqs(due) \subseteq Seqs(Carried)
        /\ delivered' = delivered \cup Seqs(due) /\ dropped' = dropped
    BY <1>3, CarryNumbers, CarryDelivers
  <2> HIDE DEF due
  <2> QED
    BY <2>1, <2>2 DEF Service!Next, Service!Deliver
<1>4. CASE UNCHANGED <<queue, inFlight, next, delivered, dropped>>
  BY <1>4 DEF Service!datagrams, Seqs, Carried, Waiting, Queued
<1> QED
  BY <1>1, <1>2, <1>3, <1>4 DEF Next, SetProfile, vars, Service!Next

(* The emulator is a datagram service: each message is delivered once or   *)
(* dropped, and what was settled never comes back.                         *)
THEOREM NetworkImplementsDatagrams == Spec => ImplementsDatagrams
<1>1. Init => Service!Init
  <2> SUFFICES ASSUME Init PROVE Service!Init
    OBVIOUS
  <2>1. Seqs(Carried) = {}
    <3>1. \A d \in Traffic : 1..Len(queue[d]) = {}
      BY DEF Init
    <3> QED
      BY <3>1 DEF Init, Seqs, Carried, Waiting, Queued
  <2> QED
    BY <2>1 DEF Init, Service!Init
<1> QED
  BY <1>1, PlacedInit, SettledInit, ShapeStep, PlacedStep, QuietStep, SettledStep,
     ServiceStep, PTL
  DEF Spec, ImplementsDatagrams, Service!Spec

-----------------------------------------------------------------------------
(* The draws of a packet stay within the profile it captured.              *)
Drawn(p) == p.jitter <= p.profile.jitter /\ p.delay <= p.profile.window

DrawnInv == /\ \A d \in Traffic : \A i \in 1..Len(queue[d]) : Drawn(queue[d][i])
            /\ \A p \in inFlight : Drawn(p)

LEMMA PacketNumbers ==
  ASSUME NEW p \in Packet
  PROVE  /\ p.profile.latency \in Nat /\ p.profile.jitter \in Nat
         /\ p.profile.window \in Nat /\ p.jitter \in Int /\ p.delay \in Nat
BY ProfilesAssumption DEF Packet

LEMMA FlyingDrawn ==
  ASSUME Shape, DrawnInv, NEW p \in Flying
  PROVE  Drawn(p)
<1>1. CASE p \in inFlight
  BY <1>1 DEF DrawnInv
<1>2. CASE \E d \in Traffic : \E i \in 1..Len(queue[d]) : p = Launched(queue[d][i])
  BY <1>2, QueuedPacket, LaunchedFacts DEF DrawnInv, Drawn
<1> QED
  BY <1>1, <1>2, FlyingFacts

LEMMA DrawnStep == Shape /\ DrawnInv /\ OnTime /\ [Next]_vars => (DrawnInv /\ OnTime)'
<1> SUFFICES ASSUME Shape, DrawnInv, OnTime, [Next]_vars PROVE (DrawnInv /\ OnTime)'
  OBVIOUS
<1>1. ASSUME NEW l \in Pairs, NEW value \in BOOLEAN, SetLinkBlocked(l, value)
      PROVE  (DrawnInv /\ OnTime)'
  <2>1. \A d \in Traffic : queue'[d] = <<>> \/ queue'[d] = queue[d]
    BY <1>1 DEF SetLinkBlocked, Cut, Flushed, Heal
  <2>2. inFlight' \subseteq inFlight
    BY <1>1 DEF SetLinkBlocked, Cut, Heal
  <2> QED
    BY <2>1, <2>2 DEF DrawnInv, OnTime
<1>2. ASSUME NEW d \in Traffic, Send(d) PROVE (DrawnInv /\ OnTime)'
  <2>1. inFlight' = inFlight
    BY <1>2 DEF Send
  <2>2. \A e \in Traffic : \A i \in 1..Len(queue'[e]) :
          (i \in 1..Len(queue[e]) /\ queue'[e][i] = queue[e][i]) \/ Drawn(queue'[e][i])
    <3>1. CASE UNCHANGED queue
      BY <3>1
    <3>2. CASE queue' # queue
      <4> DEFINE new == queue'[d][Len(queue[d]) + 1]
      <4>1. /\ Len(queue'[d]) = Len(queue[d]) + 1
            /\ \A i \in 1..Len(queue[d]) : queue'[d][i] = queue[d][i]
            /\ \A e \in Traffic \ {d} : queue'[e] = queue[e]
            /\ new.profile = profile
            /\ new.jitter \in -profile.jitter..profile.jitter
            /\ new.delay \in 0..profile.window
        BY <1>2, <3>2, SendQueue
      <4>2. profile.jitter \in Nat /\ profile.window \in Nat
        BY ProfilesAssumption DEF Shape
      <4>3. Drawn(new)
        BY <4>1, <4>2 DEF Drawn
      <4>4. Len(queue[d]) \in Nat
        BY DEF Shape
      <4> QED
        BY <4>1, <4>3, <4>4, SMTT(30)
    <3> QED
      BY <3>1, <3>2
  <2> QED
    BY <2>1, <2>2 DEF DrawnInv, OnTime
<1>3. CASE Carry
  <2>1. \A d \in Traffic : \A i \in 1..Len(queue'[d]) : Drawn(queue'[d][i])
    BY <1>3, CarryQueue DEF DrawnInv
  <2>2. ASSUME NEW p \in inFlight'
        PROVE  /\ Drawn(p)
               /\ p.due \in 1..p.profile.latency + p.profile.jitter + p.profile.window
    <3>1. PICK q \in Flying : q.due > 1 /\ p = [q EXCEPT !.due = @ - 1]
      BY <1>3, CarryInFlight
    <3>2. q \in Packet /\ Drawn(q)
      BY FlyingFacts, FlyingDrawn
    <3>3. /\ p.profile = q.profile /\ p.jitter = q.jitter /\ p.delay = q.delay
          /\ p.due = q.due - 1 /\ q.due \in Int
      BY <3>1, <3>2 DEF Packet
    <3>4. q.due <= q.profile.latency + q.profile.jitter + q.profile.window + 1
      <4>1. CASE q \in inFlight
        BY <3>2, <4>1, PacketNumbers DEF OnTime
      <4>2. CASE q \notin inFlight
        <5>1. q.due = Delay(q)
          <6>1. PICK d \in Traffic : \E i \in 1..Len(queue[d]) : q = Launched(queue[d][i])
            BY <4>2, FlyingFacts
          <6>2. PICK i \in 1..Len(queue[d]) : q = Launched(queue[d][i])
            BY <6>1
          <6> QED
            BY <6>2, QueuedPacket, LaunchedFacts DEF Delay
        <5> QED
          BY <3>2, <5>1, PacketNumbers DEF Delay, Drawn
      <4> QED
        BY <4>1, <4>2
    <3>5. Drawn(p)
      BY <3>2, <3>3 DEF Drawn
    <3>6. p.due \in 1..p.profile.latency + p.profile.jitter + p.profile.window
      BY <3>1, <3>2, <3>3, <3>4, PacketNumbers
    <3> QED
      BY <3>5, <3>6
  <2> QED
    BY <2>1, <2>2 DEF DrawnInv, OnTime
<1>4. CASE UNCHANGED <<queue, inFlight>>
  BY <1>4 DEF DrawnInv, OnTime
<1> QED
  BY <1>1, <1>2, <1>3, <1>4 DEF Next, SetProfile, vars

(* No packet in flight is overdue, or further away than its profile allows.*)
THEOREM FlightsAreOnTime == Spec => []OnTime
<1>1. Init => DrawnInv /\ OnTime
  <2> SUFFICES ASSUME Init PROVE DrawnInv /\ OnTime
    OBVIOUS
  <2>1. \A d \in Traffic : 1..Len(queue[d]) = {}
    BY DEF Init
  <2> QED
    BY <2>1 DEF Init, DrawnInv, OnTime
<1> QED
  BY <1>1, ShapeCorrect, DrawnStep, PTL DEF Spec

-----------------------------------------------------------------------------
(* First in, first out.  Queues are sorted by number; a packet in flight   *)
(* is older than all its queue holds; and it is nearer than one of the     *)
(* same delay that takes off now.                                          *)
Sorted ==
  \A d \in Traffic : \A i, j \in 1..Len(queue[d]) : i < j => queue[d][i].seq < queue[d][j].seq

Ahead ==
  \A p \in inFlight : \A i \in 1..Len(queue[p.link]) : p.seq < queue[p.link][i].seq

Nearing == \A p \in inFlight : p.due < Delay(p)

(* What is known of two packets in flight on one link, the older one p.    *)
Follows(p, q) ==
  /\ p.link = q.link /\ p.profile = q.profile /\ Plain(p) /\ Plain(q) /\ p.seq < q.seq

Landing == \A p, q \in inFlight : Follows(p, q) => p.due <= q.due

OrderInv == Sorted /\ Ahead /\ Nearing /\ Landing

LEMMA FollowersAlike ==
  ASSUME NEW p \in Packet, NEW q \in Packet, Follows(p, q)
  PROVE  Delay(p) = Delay(q)
BY DEF Follows, Plain, Delay

(* A packet that takes off was queued up to the last one served.           *)
LEMMA TakingOff ==
  ASSUME Shape, Placed, NEW p \in Flying, p \notin inFlight
  PROVE  /\ p.link \in Traffic /\ p.due = Delay(p)
         /\ \E i \in 1..Len(queue[p.link]) :
              i <= Served(p.link) /\ p.seq = queue[p.link][i].seq
<1>1. PICK d \in Traffic : \E i \in 1..Len(queue[d]) :
             i <= Served(d) /\ p = Launched(queue[d][i])
  BY FlyingFacts
<1>2. PICK i \in 1..Len(queue[d]) : i <= Served(d) /\ p = Launched(queue[d][i])
  BY <1>1
<1>3. queue[d][i] \in Packet /\ queue[d][i].link = d
  BY QueuedPacket DEF Placed, Homed
<1>4. p.link = d /\ p.seq = queue[d][i].seq /\ p.due = Delay(queue[d][i])
  BY <1>2, <1>3, LaunchedFacts
<1>5. Delay(p) = Delay(queue[d][i])
  BY <1>2, <1>3, LaunchedFacts DEF Delay
<1> QED
  BY <1>2, <1>4, <1>5

LEMMA FlyingAhead ==
  ASSUME Shape, Placed, OrderInv, NEW p \in Flying, NEW i \in 1..Len(queue[p.link]),
         i > Served(p.link)
  PROVE  p.seq < queue[p.link][i].seq
<1>1. CASE p \in inFlight
  BY <1>1 DEF OrderInv, Ahead
<1>2. CASE p \notin inFlight
  <2>1. PICK j \in 1..Len(queue[p.link]) :
               j <= Served(p.link) /\ p.seq = queue[p.link][j].seq
    BY <1>2, TakingOff
  <2>2. p.link \in Traffic /\ Served(p.link) \in Int
    BY <1>2, TakingOff, ServedRange DEF Shape
  <2>3. j < i
    BY <2>1, <2>2
  <2> QED
    BY <2>1, <2>2, <2>3 DEF OrderInv, Sorted
<1> QED
  BY <1>1, <1>2

LEMMA FlyingLands ==
  ASSUME Shape, Placed, OrderInv, NEW p \in Flying, NEW q \in Flying, Follows(p, q)
  PROVE  p.due <= q.due
<1>1. p \in Packet /\ q \in Packet /\ Delay(p) = Delay(q) /\ Delay(p) \in Int
  BY FlyingFacts, FollowersAlike, LaunchedFacts
<1>2. p.due \in Int /\ q.due \in Int /\ p.seq \in Int /\ q.seq \in Int
  BY <1>1 DEF Packet
<1>3. CASE q \notin inFlight
  <2>1. q.due = Delay(q)
    BY <1>3, TakingOff
  <2>2. p.due <= Delay(p)
    BY <1>1, <1>2, TakingOff DEF OrderInv, Nearing
  <2> QED
    BY <1>1, <1>2, <2>1, <2>2
<1>4. CASE q \in inFlight /\ p \in inFlight
  BY <1>4 DEF OrderInv, Landing
<1>5. CASE q \in inFlight /\ p \notin inFlight
  <2>1. PICK i \in 1..Len(queue[p.link]) : p.seq = queue[p.link][i].seq
    BY <1>5, TakingOff
  <2>2. q.seq < p.seq
    BY <1>5, <2>1 DEF OrderInv, Ahead, Follows
  <2> QED
    BY <1>2, <2>2 DEF Follows
<1> QED
  BY <1>3, <1>4, <1>5

LEMMA OrderCarry ==
  ASSUME Shape, Placed, OrderInv, Carry
  PROVE  OrderInv'
<1>1. \A d \in Traffic : Served(d) \in Nat /\ Len(queue[d]) \in Nat
  BY ServedRange DEF Shape
<1>2. \A d \in Traffic : \A i \in 1..Len(queue'[d]) :
         /\ i \in Int
         /\ Served(d) + i \in 1..Len(queue[d]) /\ Served(d) + i > Served(d)
         /\ queue'[d][i] = queue[d][Served(d) + i]
  BY CarryQueue
<1>3. ASSUME NEW p \in inFlight'
      PROVE  \E q \in Flying : /\ p = [q EXCEPT !.due = @ - 1]
                               /\ p.seq = q.seq /\ p.link = q.link /\ p.profile = q.profile
                               /\ p.jitter = q.jitter /\ p.delay = q.delay
                               /\ p.due = q.due - 1 /\ q \in Packet
  BY CarryInFlight, FlyingFacts, SMTT(30) DEF Packet
<1>4. Sorted'
  <2> SUFFICES ASSUME NEW d \in Traffic, NEW i \in 1..Len(queue'[d]),
                      NEW j \in 1..Len(queue'[d]), i < j
               PROVE  queue'[d][i].seq < queue'[d][j].seq
    BY DEF Sorted
  <2> DEFINE a == Served(d) + i
             b == Served(d) + j
  <2>1. a < b
    BY <1>1, <1>2
  <2>2. /\ a \in 1..Len(queue[d]) /\ queue'[d][i] = queue[d][a]
        /\ b \in 1..Len(queue[d]) /\ queue'[d][j] = queue[d][b]
    BY <1>2
  <2> HIDE DEF a, b
  <2> QED
    BY <2>1, <2>2 DEF OrderInv, Sorted
<1>5. Ahead'
  <2> SUFFICES ASSUME NEW p \in inFlight', NEW i \in 1..Len(queue'[p.link])
               PROVE  p.seq < queue'[p.link][i].seq
    BY DEF Ahead
  <2>1. PICK q \in Flying : p.seq = q.seq /\ p.link = q.link /\ q \in Packet
    BY <1>3
  <2>2. p.link \in Traffic
    BY <2>1 DEF Packet
  <2> DEFINE a == Served(p.link) + i
  <2>3. a \in 1..Len(queue[q.link]) /\ a > Served(q.link) /\ queue'[p.link][i] = queue[q.link][a]
    BY <1>2, <2>1, <2>2
  <2> HIDE DEF a
  <2> QED
    BY <2>1, <2>3, FlyingAhead
<1>6. Nearing'
  <2> SUFFICES ASSUME NEW p \in inFlight' PROVE p.due < Delay(p)
    BY DEF Nearing
  <2>1. PICK q \in Flying : /\ p.profile = q.profile /\ p.jitter = q.jitter
                            /\ p.delay = q.delay /\ p.due = q.due - 1 /\ q \in Packet
    BY <1>3
  <2>2. Delay(p) = Delay(q) /\ Delay(q) \in Int /\ q.due \in Int
    BY <2>1, LaunchedFacts DEF Delay, Packet
  <2>3. q.due <= Delay(q)
    BY <2>2, TakingOff DEF OrderInv, Nearing
  <2> QED
    BY <2>1, <2>2, <2>3
<1>7. Landing'
  <2> SUFFICES ASSUME NEW p \in inFlight', NEW q \in inFlight', Follows(p, q)
               PROVE  p.due <= q.due
    BY DEF Landing, Follows, Plain
  <2>1. PICK r \in Flying : /\ p.seq = r.seq /\ p.link = r.link /\ p.profile = r.profile
                            /\ p.jitter = r.jitter /\ p.delay = r.delay
                            /\ p.due = r.due - 1 /\ r \in Packet
    BY <1>3
  <2>2. PICK s \in Flying : /\ q.seq = s.seq /\ q.link = s.link /\ q.profile = s.profile
                            /\ q.jitter = s.jitter /\ q.delay = s.delay
                            /\ q.due = s.due - 1 /\ s \in Packet
    BY <1>3
  <2>3. Follows(r, s)
    BY <2>1, <2>2 DEF Follows, Plain
  <2>4. r.due <= s.due /\ r.due \in Int /\ s.due \in Int
    BY <2>1, <2>2, <2>3, FlyingLands DEF Packet
  <2> QED
    BY <2>1, <2>2, <2>4
<1> QED
  BY <1>4, <1>5, <1>6, <1>7 DEF OrderInv

LEMMA OrderSend ==
  ASSUME Shape, Placed, OrderInv, NEW d \in Traffic, Send(d)
  PROVE  OrderInv'
<1>1. inFlight' = inFlight
  BY DEF Send
<1>2. CASE UNCHANGED queue
  BY <1>1, <1>2 DEF OrderInv, Sorted, Ahead, Nearing, Landing
<1>3. CASE queue' # queue
  <2>1. /\ Len(queue'[d]) = Len(queue[d]) + 1
        /\ \A i \in 1..Len(queue[d]) : queue'[d][i] = queue[d][i]
        /\ \A e \in Traffic \ {d} : queue'[e] = queue[e]
        /\ queue'[d][Len(queue[d]) + 1].seq = next
    BY <1>3, SendQueue
  <2>2. Len(queue[d]) \in Nat /\ next \in Int
    BY DEF Shape
  <2>3. \A i \in 1..Len(queue[d]) : queue[d][i].seq < next
    BY DEF Placed, Homed
  <2>4. \A p \in inFlight : p.seq < next /\ p.link \in Traffic
    BY DEF Placed, FlightApart, Shape, Packet
  <2>5. Sorted'
    <3> SUFFICES ASSUME NEW e \in Traffic, NEW i \in 1..Len(queue'[e]),
                        NEW j \in 1..Len(queue'[e]), i < j
                 PROVE  queue'[e][i].seq < queue'[e][j].seq
      BY DEF Sorted
    <3>1. CASE e # d
      BY <2>1, <3>1 DEF OrderInv, Sorted
    <3>2. CASE e = d /\ j = Len(queue[d]) + 1
      BY <2>1, <2>2, <2>3, <3>2, SMTT(30)
    <3>3. CASE e = d /\ j # Len(queue[d]) + 1
      <4>1. i \in 1..Len(queue[d]) /\ j \in 1..Len(queue[d])
        BY <2>1, <2>2, <3>3
      <4> QED
        BY <2>1, <3>3, <4>1 DEF OrderInv, Sorted
    <3> QED
      BY <3>1, <3>2, <3>3
  <2>6. Ahead'
    <3> SUFFICES ASSUME NEW p \in inFlight, NEW i \in 1..Len(queue'[p.link])
                 PROVE  p.seq < queue'[p.link][i].seq
      BY <1>1 DEF Ahead
    <3>1. CASE p.link # d
      BY <2>1, <2>4, <3>1 DEF OrderInv, Ahead
    <3>2. CASE p.link = d /\ i = Len(queue[d]) + 1
      BY <2>1, <2>4, <3>2
    <3>3. CASE p.link = d /\ i # Len(queue[d]) + 1
      <4>1. i \in 1..Len(queue[d])
        BY <2>1, <2>2, <3>3
      <4> QED
        BY <2>1, <3>3, <4>1 DEF OrderInv, Ahead
    <3> QED
      BY <3>1, <3>2, <3>3
  <2> QED
    BY <1>1, <2>5, <2>6 DEF OrderInv, Nearing, Landing
<1> QED
  BY <1>2, <1>3

LEMMA OrderLink ==
  ASSUME Shape, OrderInv, NEW l \in Pairs, NEW value \in BOOLEAN, SetLinkBlocked(l, value)
  PROVE  OrderInv'
<1>1. \A d \in Traffic : queue'[d] = <<>> \/ queue'[d] = queue[d]
  BY DEF SetLinkBlocked, Cut, Flushed, Heal
<1>2. \A d \in Traffic : \A i \in 1..Len(queue'[d]) :
        queue'[d] = queue[d] /\ i \in 1..Len(queue[d])
  BY <1>1
<1>3. inFlight' \subseteq inFlight /\ \A p \in inFlight : p.link \in Traffic
  BY DEF SetLinkBlocked, Cut, Heal, Shape, Packet
<1>4. Sorted'
  BY <1>2 DEF OrderInv, Sorted
<1>5. Ahead'
  BY <1>2, <1>3 DEF OrderInv, Ahead
<1>6. Nearing' /\ Landing'
  BY <1>3 DEF OrderInv, Nearing, Landing
<1> QED
  BY <1>4, <1>5, <1>6 DEF OrderInv

LEMMA OrderStep == Shape /\ Placed /\ OrderInv /\ [Next]_vars => OrderInv'
<1> SUFFICES ASSUME Shape, Placed, OrderInv, [Next]_vars PROVE OrderInv'
  OBVIOUS
<1>1. CASE UNCHANGED <<queue, inFlight>>
  BY <1>1 DEF OrderInv, Sorted, Ahead, Nearing, Landing
<1> QED
  BY <1>1, OrderLink, OrderSend, OrderCarry DEF Next, vars, SetProfile

LEMMA OrderInit == Init => OrderInv
<1> SUFFICES ASSUME Init PROVE OrderInv
  OBVIOUS
<1>1. inFlight = {} /\ \A d \in Traffic : 1..Len(queue[d]) = {}
  BY DEF Init
<1> QED
  BY <1>1 DEF OrderInv, Sorted, Ahead, Nearing, Landing

(* Packets leave a queue in the order they were sent, and those that meet  *)
(* the same latency land in that order.                                    *)
THEOREM LinksAreInOrder == Spec => []InOrder
<1>1. Shape /\ Placed /\ OrderInv => InOrder
  <2> SUFFICES ASSUME Shape, Placed, OrderInv, NEW d \in Traffic
               PROVE  /\ \A i, j \in 1..Len(queue[d]) :
                           i < j => queue[d][i].seq < queue[d][j].seq
                      /\ \A p \in inFlight, q \in Queued(d) : p.link = d => p.seq < q.seq
                      /\ \A p, q \in inFlight :
                           p.link = d /\ q.link = d /\ p.profile = q.profile
                           /\ Plain(p) /\ Plain(q) /\ p.seq < q.seq
                           => p.due <= q.due
    BY DEF InOrder
  <2>1. \A i, j \in 1..Len(queue[d]) : i < j => queue[d][i].seq < queue[d][j].seq
    BY DEF OrderInv, Sorted
  <2>2. \A p \in inFlight, q \in Queued(d) : p.link = d => p.seq < q.seq
    BY DEF OrderInv, Ahead, Queued
  <2>3. \A p, q \in inFlight : p.link = d /\ q.link = d /\ p.profile = q.profile
          /\ Plain(p) /\ Plain(q) /\ p.seq < q.seq => p.due <= q.due
    BY DEF OrderInv, Landing, Follows
  <2> QED
    BY <2>1, <2>2, <2>3
<1> QED
  BY <1>1, PlacedInit, OrderInit, ShapeStep, PlacedStep, OrderStep, PTL DEF Spec

-----------------------------------------------------------------------------
(* Sums.  UpTo is a recursive function: there is one that satisfies its    *)
(* equation, and it can be extended by one argument at a time.             *)
LEMMA SumsExist ==
  ASSUME NEW b, NEW n \in Nat
  PROVE  \E f : f = [i \in 0..n |-> IF i = 0 THEN 0 ELSE f[i - 1] + b[i]]
<1> DEFINE S == {k \in Nat : \E f : f = [i \in 0..k |-> IF i = 0 THEN 0 ELSE f[i - 1] + b[i]]}
<1>1. 0 \in S
  <2> DEFINE f == [i \in 0..0 |-> 0]
  <2>1. f = [i \in 0..0 |-> IF i = 0 THEN 0 ELSE f[i - 1] + b[i]]
    OBVIOUS
  <2> QED
    BY <2>1
<1>2. ASSUME NEW k \in Nat, k \in S PROVE k + 1 \in S
  <2>1. PICK f : f = [i \in 0..k |-> IF i = 0 THEN 0 ELSE f[i - 1] + b[i]]
    BY <1>2
  <2> DEFINE g == [i \in 0..(k + 1) |-> IF i = k + 1 THEN f[k] + b[k + 1] ELSE f[i]]
  <2>2. \A i \in 0..(k + 1) : g[i] = IF i = 0 THEN 0 ELSE g[i - 1] + b[i]
    <3> TAKE i \in 0..(k + 1)
    <3>1. CASE i = k + 1
      <4>1. k + 1 # 0 /\ k \in 0..(k + 1) /\ k # k + 1 /\ i - 1 = k
        BY <3>1
      <4> QED
        BY <3>1, <4>1
    <3>2. CASE i # k + 1
      <4>1. i \in 0..k /\ (i # 0 => i - 1 \in 0..(k + 1) /\ i - 1 # k + 1)
        BY <3>2
      <4>2. g[i] = f[i] /\ (i # 0 => g[i - 1] = f[i - 1])
        BY <3>2, <4>1
      <4>3. f[i] = IF i = 0 THEN 0 ELSE f[i - 1] + b[i]
        BY <2>1, <4>1
      <4> QED
        BY <4>2, <4>3
    <3> QED
      BY <3>1, <3>2
  <2>3. g = [i \in 0..(k + 1) |-> IF i = 0 THEN 0 ELSE g[i - 1] + b[i]]
    <3>1. g = [i \in 0..(k + 1) |-> g[i]]
      OBVIOUS
    <3> HIDE DEF g
    <3> QED
      BY <2>2, <3>1, Zenon
  <2>4. \E h : h = [i \in 0..(k + 1) |-> IF i = 0 THEN 0 ELSE h[i - 1] + b[i]]
    <3> HIDE DEF g
    <3> QED
      BY <2>3, Zenon
  <2> QED
    BY <2>4
<1>3. Nat \subseteq S
  <2> HIDE DEF S
  <2> QED
    BY <1>1, <1>2, InductionOnNat
<1> QED
  BY <1>3

LEMMA UpToDefined ==
  ASSUME NEW b, Len(b) \in Nat
  PROVE  UpTo(b) = [i \in 0..Len(b) |-> IF i = 0 THEN 0 ELSE UpTo(b)[i - 1] + b[i]]
<1> DEFINE Equation(f) == f = [i \in 0..Len(b) |-> IF i = 0 THEN 0 ELSE f[i - 1] + b[i]]
<1>1. \E f : Equation(f)
  BY SumsExist
<1>2. UpTo(b) = CHOOSE f : Equation(f)
  BY Zenon DEF UpTo
<1>3. Equation(CHOOSE f : Equation(f))
  <2> HIDE DEF Equation
  <2> QED
    BY <1>1, Zenon
<1> QED
  BY <1>2, <1>3

(* Sums of positive numbers grow.                                          *)
LEMMA UpToFacts ==
  ASSUME NEW b \in Seq(Nat \ {0})
  PROVE  /\ UpTo(b)[0] = 0
         /\ \A i \in 1..Len(b) : UpTo(b)[i] = UpTo(b)[i - 1] + b[i]
         /\ \A i \in 0..Len(b) : UpTo(b)[i] \in Nat
<1> DEFINE n == Len(b)
           u == UpTo(b)
<1>1. n \in Nat /\ \A i \in 1..n : b[i] \in Nat \ {0}
  OBVIOUS
<1>2. u = [i \in 0..n |-> IF i = 0 THEN 0 ELSE u[i - 1] + b[i]]
  BY <1>1, UpToDefined
<1> HIDE DEF n, u
<1>3. u[0] = 0 /\ \A i \in 1..n : u[i] = u[i - 1] + b[i]
  <2>1. 0 \in 0..n /\ \A i \in 1..n : i \in 0..n /\ i # 0
    BY <1>1
  <2> QED
    BY <1>2, <2>1
<1> DEFINE S == {i \in Nat : u[i] \in Nat}
<1>4. 0..n \subseteq S
  <2>1. 0 \in S
    BY <1>3
  <2>2. \A i \in 0..(n - 1) : i \in S => i + 1 \in S
    <3> SUFFICES ASSUME NEW i \in 0..(n - 1), i \in S PROVE i + 1 \in S
      OBVIOUS
    <3>1. i + 1 \in 1..n /\ i + 1 \in Nat /\ (i + 1) - 1 = i
      BY <1>1
    <3>2. u[i + 1] = u[i] + b[i + 1] /\ b[i + 1] \in Nat /\ u[i] \in Nat
      BY <1>1, <1>3, <3>1
    <3> QED
      BY <3>1, <3>2
  <2> HIDE DEF S
  <2> QED
    BY <1>1, <2>1, <2>2, InductionUpTo
<1> QED
  BY <1>3, <1>4 DEF n, u

LEMMA UpToGrows ==
  ASSUME NEW b \in Seq(Nat \ {0}), NEW i \in 0..Len(b), NEW j \in i..Len(b)
  PROVE  UpTo(b)[i] <= UpTo(b)[j]
<1> DEFINE n == Len(b)
           u == UpTo(b)
<1>1. n \in Nat /\ \A k \in 1..n : b[k] \in Nat \ {0}
  OBVIOUS
<1>2. (\A k \in 1..n : u[k] = u[k - 1] + b[k]) /\ (\A k \in 0..n : u[k] \in Nat)
  BY UpToFacts
<1> HIDE DEF n, u
<1> DEFINE S == {k \in Nat : u[i] <= u[k]}
<1>3. i \in Nat /\ j \in Nat /\ i <= j /\ i \in 0..n /\ j \in i..n
  BY <1>1 DEF n
<1>4. i \in S
  BY <1>2, <1>3
<1>5. \A k \in i..(n - 1) : k \in S => k + 1 \in S
  <2> SUFFICES ASSUME NEW k \in i..(n - 1), k \in S PROVE k + 1 \in S
    OBVIOUS
  <2>1. k + 1 \in 1..n /\ k \in 0..n /\ (k + 1) - 1 = k /\ k + 1 \in Nat
    BY <1>1, <1>3
  <2>2. u[k + 1] = u[k] + b[k + 1] /\ b[k + 1] \in Nat /\ u[k] \in Nat /\ u[i] \in Nat
    BY <1>1, <1>2, <1>3, <2>1
  <2> QED
    BY <2>1, <2>2, SMTT(30)
<1>6. i..n \subseteq S
  <2> HIDE DEF S
  <2> QED
    BY <1>1, <1>3, <1>4, <1>5, InductionUpTo
<1> QED
  BY <1>3, <1>6 DEF u

-----------------------------------------------------------------------------
(* What a packet gets in a tick: all it needs, if the packets up to it ask *)
(* for one rate and no more than that; and nothing after one that did not. *)
LEMMA SizedFacts ==
  ASSUME TypeOK, NEW d \in Traffic
  PROVE  /\ Shape /\ bytes[d] \in Seq(Nat \ {0})
         /\ Len(bytes[d]) = Len(queue[d]) /\ Len(queue[d]) \in Nat
         /\ \A i \in 1..Len(queue[d]) : bytes[d][i] \in Nat \ {0} /\ Rate(d, i) \in Nat \ {0}
<1>1. Shape /\ bytes[d] \in Seq(Nat \ {0}) /\ Len(bytes[d]) = Len(queue[d])
  BY DEF TypeOK
<1>2. Len(queue[d]) \in Nat
  BY <1>1 DEF Shape
<1>3. \A i \in 1..Len(queue[d]) : bytes[d][i] \in Nat \ {0}
  BY <1>1
<1>4. \A i \in 1..Len(queue[d]) : Rate(d, i) \in Nat \ {0}
  BY <1>1, QueuedPacket, ProfilesAssumption, SMTT(30) DEF Packet, Rate
<1> QED
  BY <1>1, <1>2, <1>3, <1>4

LEMMA CutToBudget ==
  ASSUME NEW size \in Nat \ {0}, NEW left \in Int, NEW s,
         s = IF left <= 0 THEN 0 ELSE IF left < size THEN left ELSE size
  PROVE  /\ s \in 0..size /\ s \in Nat
         /\ s = size <=> size <= left
         /\ s # 0 => s <= left
<1>1. CASE left <= 0
  BY <1>1
<1>2. CASE left > 0 /\ left < size
  BY <1>2
<1>3. CASE left > 0 /\ left >= size
  BY <1>3
<1> QED
  BY <1>1, <1>2, <1>3

LEMMA ShareFacts ==
  ASSUME TypeOK, NEW d \in Traffic, NEW i \in 1..Len(queue[d])
  PROVE  /\ Share(d, i) \in 0..bytes[d][i] /\ Share(d, i) \in Nat
         /\ Share(d, i) = bytes[d][i] <=> SameRate(d, i) /\ UpTo(bytes[d])[i] <= Rate(d, 1)
         /\ Share(d, i) # 0 =>
              SameRate(d, i) /\ UpTo(bytes[d])[i - 1] + Share(d, i) <= Rate(d, 1)
<1> DEFINE u == UpTo(bytes[d])
           s == Share(d, i)
<1>1. /\ bytes[d] \in Seq(Nat \ {0}) /\ Len(bytes[d]) = Len(queue[d])
      /\ Len(queue[d]) \in Nat /\ bytes[d][i] \in Nat \ {0}
  BY SizedFacts
<1>2. 1 \in 1..Len(queue[d]) /\ i - 1 \in 0..Len(queue[d]) /\ i \in 0..Len(queue[d])
  BY <1>1
<1>3. Rate(d, 1) \in Nat \ {0}
  BY <1>2, SizedFacts
<1>4. u[i] = u[i - 1] + bytes[d][i] /\ u[i - 1] \in Nat /\ u[i] \in Nat
  BY <1>1, <1>2, UpToFacts
<1>5. Budget(d, i) = IF SameRate(d, i) THEN Rate(d, 1) - u[i - 1] ELSE 0
  BY DEF Budget, BytesUpTo
<1>6. s = IF Budget(d, i) <= 0 THEN 0
          ELSE IF Budget(d, i) < bytes[d][i] THEN Budget(d, i) ELSE bytes[d][i]
  BY DEF Share
<1> DEFINE r == Rate(d, 1)  left == Budget(d, i)  size == bytes[d][i]
           low == u[i - 1]  high == u[i]
<1>7. /\ r \in Nat /\ size \in Nat \ {0} /\ low \in Nat /\ high = low + size
      /\ left = IF SameRate(d, i) THEN r - low ELSE 0
      /\ s = IF left <= 0 THEN 0 ELSE IF left < size THEN left ELSE size
  BY <1>1, <1>3, <1>4, <1>5, <1>6
<1> HIDE DEF s, r, left, size, low, high
<1>8. left \in Int
  BY <1>7
<1>9. /\ s \in 0..size /\ s \in Nat
      /\ s = size <=> size <= left
      /\ s # 0 => s <= left
  BY <1>7, <1>8, CutToBudget
<1>10. s = size <=> SameRate(d, i) /\ high <= r
  BY <1>7, <1>9
<1>11. s # 0 => SameRate(d, i) /\ low + s <= r
  BY <1>7, <1>9
<1> QED
  BY <1>9, <1>10, <1>11, Zenon DEF s, r, size, low, high, u

LEMMA NothingAfter ==
  ASSUME TypeOK, NEW d \in Traffic, NEW i \in 1..Len(queue[d]), NEW j \in 1..Len(queue[d]),
         i < j, Share(d, i) # bytes[d][i]
  PROVE  Share(d, j) = 0
<1> DEFINE u == UpTo(bytes[d])
<1>1. /\ bytes[d] \in Seq(Nat \ {0}) /\ Len(bytes[d]) = Len(queue[d])
      /\ Len(queue[d]) \in Nat
  BY SizedFacts
<1>2. 1 \in 1..Len(queue[d]) /\ i \in 0..Len(queue[d]) /\ j - 1 \in i..Len(queue[d])
  BY <1>1
<1>3. Rate(d, 1) \in Nat \ {0}
  BY <1>2, SizedFacts
<1>4. u[i] <= u[j - 1] /\ u[i] \in Nat
  BY <1>1, <1>2, UpToFacts, UpToGrows
<1>5. u[j - 1] \in Nat
  <2>1. j - 1 \in 0..Len(bytes[d])
    BY <1>1, <1>2
  <2> QED
    BY <1>1, <2>1, UpToFacts
<1>6. SameRate(d, j) => SameRate(d, i)
  <2>1. \A k \in 1..i : k \in 1..j
    BY <1>1
  <2> QED
    BY <2>1 DEF SameRate
<1>7. Share(d, j) # 0 => SameRate(d, j) /\ u[j - 1] + Share(d, j) <= Rate(d, 1) /\ Share(d, j) \in Nat
  BY ShareFacts
<1>8. SameRate(d, i) => ~(u[i] <= Rate(d, 1))
  BY ShareFacts
<1> HIDE DEF u
<1> QED
  BY <1>3, <1>4, <1>5, <1>6, <1>7, <1>8

LEMMA ServedSegment ==
  ASSUME TypeOK, NEW d \in Traffic, Pair(d) \notin blocked
  PROVE  /\ Served(d) \in 0..Len(queue[d])
         /\ \A i \in 1..Len(queue[d]) : i <= Served(d) <=> Share(d, i) = bytes[d][i]
<1> DEFINE n == Len(queue[d])
           S == {i \in 1..n : Share(d, i) = bytes[d][i]}
<1>1. n \in Nat /\ S \in SUBSET (1..n) /\ Served(d) = Cardinality(S)
  BY SizedFacts DEF Served
<1>2. \A i \in S : \A j \in 1..n : j < i => j \in S
  <2> SUFFICES ASSUME NEW i \in S, NEW j \in 1..n, j < i, j \notin S PROVE FALSE
    OBVIOUS
  <2>1. Share(d, i) = 0
    BY NothingAfter
  <2> QED
    BY <2>1, SizedFacts
<1>3. Cardinality(S) \in 0..n /\ S = 1..Cardinality(S)
  <2> HIDE DEF S, n
  <2> QED
    BY <1>1, <1>2, InitialSegment
<1>4. \A i \in 1..n : i <= Cardinality(S) <=> i \in S
  <2> HIDE DEF S
  <2> QED
    BY <1>1, <1>3
<1> QED
  BY <1>1, <1>3, <1>4

(* What Carry leaves of the sizes: only the first packet that stays has    *)
(* shrunk.                                                                 *)
LEMMA CarrySizes ==
  ASSUME TypeOK, Carry, NEW d \in Traffic
  PROVE  /\ bytes'[d] \in Seq(Nat \ {0}) /\ Len(bytes'[d]) = Len(queue'[d])
         /\ Pair(d) \in blocked => bytes'[d] = bytes[d]
         /\ Pair(d) \notin blocked =>
              \A i \in 1..Len(bytes'[d]) :
                 bytes'[d][i] = bytes[d][Served(d) + i]
                                - (IF i = 1 THEN Share(d, Served(d) + 1) ELSE 0)
<1>1. /\ Shape /\ bytes[d] \in Seq(Nat \ {0}) /\ Len(bytes[d]) = Len(queue[d])
      /\ Len(queue[d]) \in Nat
  BY SizedFacts
<1>2. Len(queue'[d]) = Len(queue[d]) - Served(d)
  BY <1>1, CarryQueue
<1>3. bytes'[d] = UnservedBytes(d)
  BY DEF Carry
<1>4. CASE Pair(d) \in blocked
  <2>1. Served(d) = 0 /\ bytes'[d] = bytes[d]
    BY <1>3, <1>4 DEF Served, UnservedBytes
  <2> QED
    BY <1>1, <1>2, <1>4, <2>1
<1>5. CASE Pair(d) \notin blocked
  <2> DEFINE k == Served(d)
             n == Len(queue[d]) - k
  <2>1. k \in Nat /\ n \in Nat /\ k <= Len(queue[d])
    BY <1>1, <1>5, ServedSegment
  <2>2. bytes'[d] = [i \in 1..n |-> bytes[d][k + i] - Share(d, k + i)]
    BY <1>3, <1>5 DEF UnservedBytes
  <2>3. \A i \in 1..Len(queue[d]) : i <= k <=> Share(d, i) = bytes[d][i]
    BY <1>5, ServedSegment
  <2> HIDE DEF k, n
  <2>4. ASSUME NEW i \in 1..n
        PROVE  /\ bytes[d][k + i] - Share(d, k + i) \in Nat \ {0}
               /\ Share(d, k + i) = IF i = 1 THEN Share(d, k + 1) ELSE 0
    <3>1. k + i \in 1..Len(queue[d]) /\ ~(k + i <= k)
      BY <2>1 DEF n
    <3>2. /\ Share(d, k + i) \in 0..bytes[d][k + i] /\ bytes[d][k + i] \in Nat \ {0}
          /\ Share(d, k + i) # bytes[d][k + i]
      BY <2>3, <3>1, ShareFacts, SizedFacts
    <3>3. i # 1 => Share(d, k + i) = 0
      <4> SUFFICES ASSUME i # 1 PROVE Share(d, k + i) = 0
        OBVIOUS
      <4>1. k + 1 \in 1..Len(queue[d]) /\ k + 1 < k + i /\ ~(k + 1 <= k)
        BY <2>1, <3>1
      <4> QED
        BY <2>3, <3>1, <4>1, NothingAfter
    <3> QED
      BY <3>2, <3>3
  <2>5. bytes'[d] \in Seq(Nat \ {0}) /\ Len(bytes'[d]) = n
    <3>1. \A i \in 1..n : bytes[d][k + i] - Share(d, k + i) \in Nat \ {0}
      BY <2>4
    <3>2. bytes'[d] \in [1..n -> Nat \ {0}]
      BY <2>2, <3>1, Zenon
    <3> QED
      BY <2>1, <3>2
  <2>6. \A i \in 1..n : bytes'[d][i] = bytes[d][k + i] - (IF i = 1 THEN Share(d, k + 1) ELSE 0)
    BY <2>2, <2>4
  <2> QED
    BY <1>2, <1>5, <2>5, <2>6 DEF k, n
<1> QED
  BY <1>4, <1>5

LEMMA SizedStep == TypeOK /\ [Next]_vars => TypeOK'
<1> SUFFICES ASSUME TypeOK, [Next]_vars PROVE TypeOK'
  OBVIOUS
<1>1. Shape'
  BY ShapeStep DEF TypeOK
<1>2. ASSUME NEW l \in Pairs, NEW value \in BOOLEAN, SetLinkBlocked(l, value) PROVE TypeOK'
  <2>1. CASE Cut(l)
    <3>1. bytes' = Flushed(bytes, l) /\ queue' = Flushed(queue, l)
      BY <2>1 DEF Cut
    <3>2. <<>> \in Seq(Nat \ {0})
      OBVIOUS
    <3> QED
      BY <1>1, <3>1, <3>2 DEF Flushed, TypeOK
  <2>2. CASE Heal(l)
    BY <1>1, <2>2 DEF Heal, TypeOK
  <2> QED
    BY <1>2, <2>1, <2>2 DEF SetLinkBlocked
<1>3. ASSUME NEW d \in Traffic, Send(d) PROVE TypeOK'
  <2>1. CASE UNCHANGED <<queue, bytes>>
    BY <1>1, <2>1 DEF TypeOK
  <2>2. CASE ~(UNCHANGED <<queue, bytes>>)
    <3>1. PICK jitter \in -profile.jitter..profile.jitter, delay \in 0..profile.window,
               size \in 1..MaxSize :
            /\ queue' = [queue EXCEPT ![d] = Append(@, NewPacket(d, jitter, delay))]
            /\ bytes' = [bytes EXCEPT ![d] = Append(@, size)]
      BY <1>3, <2>2 DEF Send, Enqueue
    <3>2. size \in Nat \ {0}
      BY BoundsAssumption
    <3>3. queue[d] \in Seq(Packet) /\ bytes[d] \in Seq(Nat \ {0}) /\ Len(bytes[d]) = Len(queue[d])
      BY DEF TypeOK, Shape
    <3>4. /\ Append(bytes[d], size) \in Seq(Nat \ {0})
          /\ Len(Append(bytes[d], size)) = Len(bytes[d]) + 1
      <4> DEFINE b == bytes[d]
      <4>1. b \in Seq(Nat \ {0})
        BY <3>3
      <4> HIDE DEF b
      <4>2. Append(b, size) \in Seq(Nat \ {0}) /\ Len(Append(b, size)) = Len(b) + 1
        BY <3>2, <4>1
      <4> QED
        BY <4>2 DEF b
    <3>5. Len(Append(queue[d], NewPacket(d, jitter, delay))) = Len(queue[d]) + 1
      BY <3>3
    <3>6. bytes' \in [Traffic -> Seq(Nat \ {0})]
      BY <3>1, <3>4 DEF TypeOK
    <3>7. \A e \in Traffic : Len(bytes'[e]) = Len(queue'[e])
      BY <3>1, <3>3, <3>4, <3>5 DEF TypeOK, Shape
    <3> QED
      BY <1>1, <3>6, <3>7 DEF TypeOK
  <2> QED
    BY <2>1, <2>2
<1>4. CASE Carry
  <2>1. bytes' = [d \in Traffic |-> UnservedBytes(d)]
    BY <1>4 DEF Carry
  <2>2. \A d \in Traffic : bytes'[d] \in Seq(Nat \ {0}) /\ Len(bytes'[d]) = Len(queue'[d])
    BY <1>4, CarrySizes
  <2>3. bytes' \in [Traffic -> Seq(Nat \ {0})]
    BY <2>1, <2>2
  <2> QED
    BY <1>1, <2>2, <2>3 DEF TypeOK
<1>5. CASE UNCHANGED <<queue, bytes>>
  BY <1>1, <1>5 DEF TypeOK
<1> QED
  BY <1>2, <1>3, <1>4, <1>5 DEF Next, vars, SetProfile

(* The types of all variables: a packet that waits has bytes to be sent,   *)
(* however the budgets of the ticks were shared.                           *)
THEOREM TypeCorrect == Spec => []TypeOK
<1>1. Init => TypeOK
  <2> SUFFICES ASSUME Init PROVE TypeOK
    OBVIOUS
  <2>1. <<>> \in Seq(Nat \ {0})
    OBVIOUS
  <2>2. bytes \in [Traffic -> Seq(Nat \ {0})] /\ \A d \in Traffic : Len(bytes[d]) = Len(queue[d])
    BY <2>1 DEF Init
  <2> QED
    BY <2>2, ShapeInit DEF TypeOK
<1> QED
  BY <1>1, SizedStep, PTL DEF Spec

(* The sum of a suffix, all of it or without a part of its first number.   *)
LEMMA SuffixSum ==
  ASSUME NEW b \in Seq(Nat \ {0}), NEW c \in Seq(Nat \ {0}), NEW k \in Nat, NEW part \in Nat,
         k + Len(c) = Len(b), Len(c) # 0,
         \A i \in 1..Len(c) : c[i] = b[k + i] - (IF i = 1 THEN part ELSE 0)
  PROVE  Load(b) = UpTo(b)[k] + part + Load(c)
<1> DEFINE n == Len(c)
           u == UpTo(b)
           v == UpTo(c)
<1>1. n \in Nat /\ n # 0 /\ \A i \in 1..n : i \in Nat /\ k + i \in 1..Len(b) /\ k + i \in Nat
  OBVIOUS
<1>2. \A i \in 1..n : b[k + i] \in Nat \ {0} /\ c[i] \in Nat \ {0}
  BY <1>1, SMTT(30)
<1>3. /\ v[0] = 0 /\ \A i \in 1..n : v[i] = v[i - 1] + c[i] /\ v[i] \in Nat
      /\ \A i \in 1..Len(b) : u[i] = u[i - 1] + b[i] /\ u[i] \in Nat
  <2>1. (\A i \in 1..n : i \in 0..n) /\ (\A i \in 1..Len(b) : i \in 0..Len(b))
    OBVIOUS
  <2> QED
    BY <2>1, UpToFacts
<1>4. u[k] \in Nat
  BY <1>1, UpToFacts
<1> DEFINE S == {i \in Nat : u[k + i] = u[k] + part + v[i]}
<1> HIDE DEF n, u, v
<1>5. 1 \in S
  <2>1. 1 \in 1..n /\ k + 1 \in 1..Len(b) /\ (k + 1) - 1 = k
    BY <1>1
  <2>2. u[k + 1] = u[k] + b[k + 1] /\ v[1] = c[1] /\ c[1] = b[k + 1] - part
    BY <1>2, <1>3, <2>1, SMTT(30) DEF n
  <2> QED
    BY <1>2, <1>4, <2>1, <2>2, SMTT(30)
<1>6. \A i \in 1..(n - 1) : i \in S => i + 1 \in S
  <2> SUFFICES ASSUME NEW i \in 1..(n - 1), i \in S PROVE i + 1 \in S
    OBVIOUS
  <2>1. /\ i \in 1..n /\ i + 1 \in 1..n /\ (i + 1) - 1 = i /\ i + 1 # 1 /\ i + 1 \in Nat
        /\ (k + (i + 1)) - 1 = k + i
    <3>1. n \in Nat
      BY <1>1
    <3> QED
      BY <3>1
  <2>2. u[k + (i + 1)] = u[k + i] + b[k + (i + 1)]
    <3>1. k + (i + 1) \in 1..Len(b)
      BY <1>1, <2>1
    <3> QED
      BY <1>3, <2>1, <3>1
  <2>3. v[i + 1] = v[i] + c[i + 1] /\ c[i + 1] = b[k + (i + 1)] - 0
    BY <1>3, <2>1 DEF n
  <2>4. u[k + i] = u[k] + part + v[i] /\ v[i] \in Nat /\ b[k + (i + 1)] \in Nat
    BY <1>2, <1>3, <2>1
  <2>5. u[k + (i + 1)] = u[k] + part + v[i + 1]
    <3> DEFINE x == b[k + (i + 1)]
    <3>1. x \in Nat /\ v[i + 1] = v[i] + x
      BY <2>3, <2>4, SMTT(30)
    <3>2. u[k + (i + 1)] = (u[k] + part + v[i]) + x
      BY <2>2, <2>4
    <3>3. u[k] \in Nat /\ v[i] \in Nat
      BY <1>4, <2>4
    <3> DEFINE y == u[k + (i + 1)]
               z == v[i + 1]
               p == u[k]
               q == v[i]
    <3>4. x \in Nat /\ z = q + x /\ y = (p + part + q) + x /\ p \in Nat /\ q \in Nat
      BY <3>1, <3>2, <3>3
    <3> HIDE DEF x, y, z, p, q
    <3>5. y = p + part + z
      BY <3>4
    <3> QED
      BY <3>5 DEF y, z, p
  <2> QED
    BY <2>1, <2>5
<1>7. 1..n \subseteq S
  <2> HIDE DEF S
  <2> QED
    BY <1>1, <1>5, <1>6, InductionUpTo
<1>8. n \in 1..n
  BY <1>1
<1>9. u[k + n] = u[k] + part + v[n]
  BY <1>7, <1>8
<1> QED
  BY <1>9 DEF Load, n, u, v

LEMMA CarryWithinBudget ==
  ASSUME TypeOK, Carry, NEW d \in Traffic, queue[d] # <<>>
  PROVE  Load(bytes[d]) - Load(bytes'[d]) <= Rate(d, 1)
<1> DEFINE b == bytes[d]
           c == bytes'[d]
           n == Len(queue[d])
<1>1. /\ Shape /\ b \in Seq(Nat \ {0}) /\ Len(b) = n /\ n \in Nat
      /\ \A i \in 1..n : b[i] \in Nat \ {0} /\ Rate(d, i) \in Nat \ {0}
  BY SizedFacts
<1>2. n # 0 /\ 1 \in 1..n
  <2>1. queue[d] \in Seq(Packet)
    BY <1>1 DEF Shape
  <2> QED
    BY <2>1
<1>3. Rate(d, 1) \in Nat \ {0}
  BY <1>1, <1>2
<1>4. Load(b) \in Nat
  <2>1. n \in 0..n
    BY <1>1
  <2> QED
    BY <1>1, <2>1, UpToFacts DEF Load
<1>5. CASE Pair(d) \in blocked
  <2>1. c = b
    BY <1>5, CarrySizes
  <2> HIDE DEF b, c
  <2> QED
    BY <1>3, <1>4, <2>1 DEF b, c
<1>6. CASE Pair(d) \notin blocked
  <2> DEFINE k == Served(d)
  <2>1. k \in 0..n /\ \A i \in 1..n : i <= k <=> Share(d, i) = b[i]
    BY <1>6, ServedSegment
  <2>2. c \in Seq(Nat \ {0}) /\ Len(c) = n - k
    BY <1>1, CarrySizes, CarryQueue
  <2>3. UpTo(b)[k] \in Nat /\ UpTo(b)[k] <= Rate(d, 1)
    <3>1. UpTo(b)[k] \in Nat
      BY <1>1, <2>1, UpToFacts
    <3>2. CASE k = 0
      BY <1>1, <1>3, <3>2, UpToFacts
    <3>3. CASE k # 0
      <4>1. k \in 1..n /\ k <= k
        BY <1>1, <2>1, <3>3
      <4>2. Share(d, k) = b[k]
        BY <2>1, <4>1
      <4> QED
        BY <3>1, <4>1, <4>2, ShareFacts
    <3> QED
      BY <3>1, <3>2, <3>3
  <2>4. CASE k = n
    <3>1. Load(c) = 0
      BY <2>2, <2>4, <1>1, UpToFacts DEF Load
    <3>2. Load(b) = UpTo(b)[k]
      BY <1>1, <2>4 DEF Load
    <3> HIDE DEF b, c
    <3> QED
      BY <1>3, <2>3, <3>1, <3>2 DEF b, c
  <2>5. CASE k # n
    <3> DEFINE part == Share(d, k + 1)
    <3>1. k + 1 \in 1..n /\ k \in Nat /\ (k + 1) - 1 = k
      BY <1>1, <2>1, <2>5
    <3>2. part \in Nat
      BY <3>1, ShareFacts
    <3>3. UpTo(b)[k] + part <= Rate(d, 1)
      <4>1. part # 0 => UpTo(b)[k] + part <= Rate(d, 1)
        BY <3>1, ShareFacts
      <4> HIDE DEF part, b
      <4> QED
        BY <1>3, <2>3, <4>1
    <3>4. \A i \in 1..Len(c) : c[i] = b[k + i] - (IF i = 1 THEN part ELSE 0)
      BY <1>6, CarrySizes
    <3>5. k + Len(c) = Len(b) /\ Len(c) # 0
      BY <1>1, <2>1, <2>2, <2>5
    <3>6. Load(c) \in Nat
      <4>1. Len(c) \in 0..Len(c)
        BY <2>2
      <4> QED
        BY <2>2, <4>1, UpToFacts DEF Load
    <3> HIDE DEF b, c, part, k
    <3>7. Load(b) = UpTo(b)[k] + part + Load(c)
      <4>1. b \in Seq(Nat \ {0}) /\ c \in Seq(Nat \ {0}) /\ k \in Nat
        BY <1>1, <2>2, <3>1
      <4> QED
        BY <3>2, <3>4, <3>5, <4>1, SuffixSum
    <3>8. Load(b) - Load(c) <= Rate(d, 1)
      BY <1>3, <2>3, <3>2, <3>3, <3>6, <3>7
    <3> QED
      BY <3>8 DEF b, c
  <2> QED
    BY <2>4, <2>5
<1> QED
  BY <1>5, <1>6

(* In one tick a link carries at most the bytes its head packet captured.  *)
THEOREM LinksKeepBudgets == Spec => WithinBudget
<1>1. TypeOK /\ [Next]_vars =>
        [\A d \in Traffic :
           Carry /\ queue[d] # <<>> => Load(bytes[d]) - Load(bytes'[d]) <= Rate(d, 1)]_vars
  BY CarryWithinBudget
<1> QED
  BY <1>1, TypeCorrect, PTL DEF Spec, WithinBudget
=============================================================================
