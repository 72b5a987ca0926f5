-------------------------- MODULE ConsensusProofs --------------------------
(***************************************************************************)
(* Proofs about Consensus, for any vehicles, tasks, routes and bounds.  In *)
(* this order:                                                             *)
(*                                                                         *)
(*   - VersionInv: copies of a state with one version are one state;       *)
(*   - OwnerInv: what an agent believes to own is what it does own, and    *)
(*     keeps;                                                              *)
(*   - NearestInv, for the policy "nearest", where a bid stays as it is:   *)
(*     one agent commits a task, and it is the nearest;                    *)
(*   - TypeInv, for both policies: what agents build, conclude, say and    *)
(*     hear is well formed.  It needs what the operators on sets and       *)
(*     sequences return, and that a recursive function exists;             *)
(*   - the ledger of tasks: every handler moves tasks as TaskLedger says;  *)
(*   - NoOverbidding, for the policy "cbba": a bundle that grows can be    *)
(*     done behind the tasks its agent owns.                               *)
(***************************************************************************)
EXTENDS Consensus, Induction, SequenceTheorems

-----------------------------------------------------------------------------
(* What a step adds to the copies of states: at most the new state of the  *)
(* agent that acts.                                                        *)
LEMMA PeersAreHeard ==
  ASSUME NEW a \in Agents, NEW got, NEW b \in DOMAIN Peers(a, got)
  PROVE  /\ b \in Reachable(a) /\ b \in Members(a)
         /\ \/ Peers(a, got)[b] \in got[b]
            \/ b \in DOMAIN heard[a] /\ Peers(a, got)[b] = heard[a][b]
         /\ ValidState(a, Peers(a, got)[b])
<1> DEFINE old(c) == IF c \in DOMAIN Recalled(a) THEN {Recalled(a)[c]} ELSE {}
           all    == [c \in Reachable(a) |-> Accepted(a, got[c], old(c))]
<1>1. Peers(a, got) = [c \in {d \in Reachable(a) : all[d] # {}} |-> CHOOSE s \in all[c] : TRUE]
  BY DEF Peers
<1>2. b \in Reachable(a) /\ all[b] # {} /\ Peers(a, got)[b] = CHOOSE s \in all[b] : TRUE
  BY <1>1
<1>3. Peers(a, got)[b] \in Accepted(a, got[b], old(b))
  BY <1>2
<1>4. Peers(a, got)[b] \in Valid(a, got[b]) \/ Peers(a, got)[b] \in Valid(a, old(b))
  BY <1>3 DEF Accepted, Newest
<1>5. ValidState(a, Peers(a, got)[b]) /\ (Peers(a, got)[b] \in got[b] \/ Peers(a, got)[b] \in old(b))
  BY <1>4 DEF Valid
<1>6. Peers(a, got)[b] \in old(b) => b \in DOMAIN heard[a] /\ Peers(a, got)[b] = heard[a][b]
  BY DEF Recalled, Empty
<1>7. b \in Members(a)
  BY <1>2 DEF Reachable
<1> QED BY <1>2, <1>5, <1>6, <1>7

(* The copies of states, one kind after the other.                         *)
LEMMA CopyKinds ==
  /\ \A a \in Agents : state[a] \in Copies
  /\ \A p \in Pairs : air[p] \subseteq Copies
  /\ \A a \in Agents : \A b \in DOMAIN heard[a] : heard[a][b] \in Copies
  /\ \A c \in Copies : \/ \E a \in Agents : c = state[a]
                       \/ \E p \in Pairs : c \in air[p]
                       \/ \E a \in Agents : \E b \in DOMAIN heard[a] : c = heard[a][b]
<1>1. \A a \in Agents : state[a] \in Copies
  BY DEF Copies
<1>2. \A p \in Pairs : air[p] \subseteq Copies
  BY DEF Copies
<1>3. ASSUME NEW a \in Agents, NEW b \in DOMAIN heard[a] PROVE heard[a][b] \in Copies
  <2>1. heard[a][b] \in Range(heard[a])
    BY DEF Range
  <2>2. Range(heard[a]) \in {Range(heard[c]) : c \in Agents}
    OBVIOUS
  <2> QED BY <2>1, <2>2, Zenon DEF Copies
<1>4. ASSUME NEW c \in Copies
      PROVE  \/ \E a \in Agents : c = state[a]
             \/ \E p \in Pairs : c \in air[p]
             \/ \E a \in Agents : \E b \in DOMAIN heard[a] : c = heard[a][b]
  <2>1. \/ c \in {state[a] : a \in Agents}
        \/ c \in UNION {air[p] : p \in Pairs}
        \/ c \in UNION {Range(heard[a]) : a \in Agents}
    BY Zenon DEF Copies
  <2>2. CASE c \in UNION {Range(heard[a]) : a \in Agents}
    <3>1. PICK a \in Agents : c \in Range(heard[a])
      BY <2>2, Zenon
    <3> QED BY <3>1 DEF Range
  <2> QED BY <2>1, <2>2
<1> QED BY <1>1, <1>2, <1>3, <1>4

LEMMA CopyKindsNext ==
  \A c \in Copies' : \/ \E a \in Agents : c = state'[a]
                     \/ \E p \in Pairs : c \in air'[p]
                     \/ \E a \in Agents : \E b \in DOMAIN heard'[a] : c = heard'[a][b]
<1>1. (\A c \in Copies : \/ \E a \in Agents : c = state[a]
                         \/ \E p \in Pairs : c \in air[p]
                         \/ \E a \in Agents : \E b \in DOMAIN heard[a] : c = heard[a][b])'
  BY CopyKinds, PTL
<1> QED BY <1>1

-----------------------------------------------------------------------------
(* Versions.  A copy of an agent's state is older than its state, by its   *)
(* epoch or its version, or it is that state.                              *)
Older(c, s) ==
  \/ c.epoch < s.epoch
  \/ c.epoch = s.epoch /\ (c.version < s.version \/ c = s)

Numbered(c) == c.sender \in Agents /\ c.epoch \in Nat /\ c.version \in Nat

Shapes ==
  /\ epoch \in Nat \ {0}
  /\ state = [a \in Agents |-> state[a]]
  /\ heard = [a \in Agents |-> heard[a]]
  /\ air = [p \in Pairs |-> air[p]]

VersionInv ==
  /\ Shapes
  /\ \A c \in Copies : Numbered(c) /\ Older(c, state[c.sender])
  /\ \A a \in Agents : state[a].sender = a /\ state[a].epoch <= epoch
  /\ OneStatePerVersion

(* The next state of an agent is of this epoch, and is the last one or has *)
(* another epoch or a greater version.                                     *)
LEMMA NextStateFacts ==
  ASSUME NEW a \in Agents, NEW peers, epoch \in Nat \ {0}, Numbered(state[a]),
         state[a].sender = a, state[a].epoch <= epoch
  PROVE  LET n == NextState(a, peers)
         IN n.sender = a /\ n.epoch = epoch /\ n.version \in Nat /\ Older(state[a], n)
<1> DEFINE n == NextState(a, peers)
<1>1. PICK bids, winners, bundle, owners :
        n = Revised(a, [sender |-> a, epoch |-> epoch, version |-> 0, bids |-> bids,
                        winners |-> winners, bundle |-> bundle, owners |-> owners])
  BY DEF NextState, Concluded
<1> DEFINE r == [sender |-> a, epoch |-> epoch, version |-> 0, bids |-> bids,
                 winners |-> winners, bundle |-> bundle, owners |-> owners]
           m == Mind(a)
           v == IF m = [r EXCEPT !.version = m.version] THEN m.version ELSE m.version + 1
<1>2. n = [r EXCEPT !.version = v]
  BY <1>1 DEF Revised
<1>3. n.sender = a /\ n.epoch = epoch /\ n.version = v
  BY <1>2
<1>4. CASE state[a].epoch = epoch
  <2>1. m = state[a]
    BY <1>4 DEF Mind
  <2>2. m.version \in Nat /\ m.epoch = n.epoch
    BY <2>1, <1>3, <1>4 DEF Numbered
  <2>3. CASE m = [r EXCEPT !.version = m.version]
    <3>1. n = m
      BY <2>3, <1>2
    <3> QED BY <3>1, <2>1, <2>2, <1>3 DEF Older
  <2>4. CASE m # [r EXCEPT !.version = m.version]
    <3>1. n.version = m.version + 1
      BY <2>4, <1>3
    <3> QED BY <3>1, <2>1, <2>2, <1>3 DEF Older
  <2> QED BY <2>3, <2>4
<1>5. CASE state[a].epoch # epoch
  <2>1. m = Blank(a) /\ m.version = 0
    BY <1>5 DEF Mind, Blank
  <2>2. v \in Nat
    BY <2>1
  <2>3. state[a].epoch < n.epoch
    BY <1>5, <1>3 DEF Numbered
  <2> QED BY <2>2, <2>3, <1>3 DEF Older
<1> QED BY <1>4, <1>5

(* A step after which nothing is copied that was not, and no epoch ends.   *)
LEMMA VersionsFrame ==
  ASSUME VersionInv, state' = state, Copies' \subseteq Copies, Shapes', epoch <= epoch'
  PROVE  VersionInv'
<1>1. \A c \in Copies' : Numbered(c)' /\ Older(c, state[c.sender])'
  BY DEF VersionInv, Numbered, Older
<1>2. \A a \in Agents : (state[a].sender = a /\ state[a].epoch <= epoch)'
  <2> SUFFICES ASSUME NEW a \in Agents PROVE state'[a].sender = a /\ state'[a].epoch <= epoch'
    OBVIOUS
  <2>1. state[a] \in Copies
    BY CopyKinds
  <2>2. state[a].epoch \in Nat /\ state[a].epoch <= epoch /\ state[a].sender = a
    BY <2>1 DEF VersionInv, Numbered
  <2> QED BY <2>2 DEF VersionInv, Shapes
<1>3. OneStatePerVersion'
  BY DEF VersionInv, OneStatePerVersion
<1> QED BY <1>1, <1>2, <1>3 DEF VersionInv

(* A step that gives agent a the state n, which may be copied at once.     *)
LEMMA VersionsGrow ==
  ASSUME VersionInv, NEW a \in Agents, NEW n, Shapes', epoch' = epoch,
         n.sender = a, n.epoch = epoch, n.version \in Nat, Older(state[a], n),
         state' = [state EXCEPT ![a] = n], Copies' \subseteq Copies \cup {n}
  PROVE  VersionInv'
<1>0. /\ epoch \in Nat /\ Numbered(n)
      /\ state'[a] = n /\ \A b \in Agents \ {a} : state'[b] = state[b]
      /\ state[a] \in Copies /\ Numbered(state[a])
  BY CopyKinds DEF VersionInv, Shapes, Numbered
<1>1. ASSUME NEW c \in Copies, c.sender = a
      PROVE  Older(c, n)
  <2>1. Numbered(c) /\ Older(c, state[a])
    BY <1>1 DEF VersionInv
  <2> QED BY <2>1, <1>0 DEF Older, Numbered
<1>2. Older(n, n)
  BY <1>0 DEF Older, Numbered
<1>3. \A c \in Copies' : Numbered(c)' /\ Older(c, state[c.sender])'
  <2> SUFFICES ASSUME NEW c \in Copies' PROVE Numbered(c) /\ Older(c, state'[c.sender])
    BY DEF Numbered, Older
  <2>1. CASE c = n
    BY <2>1, <1>0, <1>2
  <2>2. CASE c # n /\ c.sender = a
    BY <2>2, <1>0, <1>1 DEF VersionInv
  <2>3. CASE c # n /\ c.sender # a
    BY <2>3, <1>0 DEF VersionInv, Numbered
  <2> QED BY <2>1, <2>2, <2>3
<1>4. \A b \in Agents : (state[b].sender = b /\ state[b].epoch <= epoch)'
  BY <1>0 DEF VersionInv
<1>5. OneStatePerVersion'
  <2> SUFFICES ASSUME NEW x \in Copies', NEW y \in Copies',
                      x.sender = y.sender, x.epoch = y.epoch, x.version = y.version
               PROVE  x = y
    BY DEF OneStatePerVersion
  <2>1. CASE x \in Copies /\ y \in Copies
    BY <2>1 DEF VersionInv, OneStatePerVersion
  <2>2. CASE x = n /\ y \in Copies
    <3>1. Older(y, n) /\ Numbered(y)
      BY <2>2, <1>1 DEF VersionInv
    <3> QED BY <3>1, <2>2, <1>0 DEF Older, Numbered
  <2>3. CASE y = n /\ x \in Copies
    <3>1. Older(x, n) /\ Numbered(x)
      BY <2>3, <1>1 DEF VersionInv
    <3> QED BY <3>1, <2>3, <1>0 DEF Older, Numbered
  <2> QED BY <2>1, <2>2, <2>3
<1> QED BY <1>3, <1>4, <1>5 DEF VersionInv

(* What the update of agent a does to the states, in the words of the      *)
(* lemmas above.                                                           *)
LEMMA UpdateFacts ==
  ASSUME Shapes, NEW a \in Agents, Update(a)
  PROVE  \E got, peers :
           /\ peers = Peers(a, got)
           /\ \A b \in Members(a) : got[b] \subseteq air[<<b, a>>]
           /\ state' = [state EXCEPT ![a] = NextState(a, peers)]
           /\ heard' = [heard EXCEPT ![a] = peers]
           /\ air' = [p \in Pairs |-> air'[p]]
           /\ \A p \in Pairs : air'[p] \subseteq air[p]
<1>1. PICK xs \in [Incoming(a) -> UNION {Transfers(p) : p \in Incoming(a)}] :
        LET got == [b \in Members(a) |-> xs[<<b, a>>].got]
        IN /\ \A p \in Incoming(a) : xs[p] \in Transfers(p)
           /\ heard' = [heard EXCEPT ![a] = Peers(a, got)]
           /\ state' = [state EXCEPT ![a] = NextState(a, Peers(a, got))]
           /\ air' = [p \in Pairs |-> IF p[2] = a THEN xs[p].left ELSE air[p]]
  BY DEF Update, Answer
<1> DEFINE got == [b \in Members(a) |-> xs[<<b, a>>].got]
<1>2. \A p \in Incoming(a) : xs[p].got \subseteq air[p] /\ xs[p].left \subseteq air[p]
  BY <1>1 DEF Transfers
<1>3. \A b \in Members(a) : got[b] \subseteq air[<<b, a>>]
  <2> SUFFICES ASSUME NEW b \in Members(a) PROVE got[b] \subseteq air[<<b, a>>]
    OBVIOUS
  <2>1. <<b, a>> \in Incoming(a)
    BY DEF Members, Incoming, Pairs
  <2> QED BY <2>1, <1>2
<1>4. \A p \in Pairs : air'[p] \subseteq air[p]
  BY <1>1, <1>2 DEF Incoming
<1>5. air' = [p \in Pairs |-> air'[p]]
  BY <1>1
<1> QED BY <1>1, <1>3, <1>4, <1>5

LEMMA UpdateVersions ==
  ASSUME VersionInv, NEW a \in Agents, Update(a)
  PROVE  VersionInv'
<1>1. PICK got, peers :
        /\ peers = Peers(a, got)
        /\ \A b \in Members(a) : got[b] \subseteq air[<<b, a>>]
        /\ state' = [state EXCEPT ![a] = NextState(a, peers)]
        /\ heard' = [heard EXCEPT ![a] = peers]
        /\ air' = [p \in Pairs |-> air'[p]]
        /\ \A p \in Pairs : air'[p] \subseteq air[p]
  BY UpdateFacts DEF VersionInv
<1> DEFINE n == NextState(a, peers)
<1>2. epoch' = epoch
  BY DEF Update, tasks
<1>3. Shapes'
  BY <1>1, <1>2 DEF VersionInv, Shapes
<1>4. n.sender = a /\ n.epoch = epoch /\ n.version \in Nat /\ Older(state[a], n)
  <2>1. state[a] \in Copies
    BY CopyKinds
  <2> QED BY <2>1, NextStateFacts DEF VersionInv, Shapes
<1>5. \A b \in DOMAIN peers : peers[b] \in Copies
  <2> SUFFICES ASSUME NEW b \in DOMAIN peers PROVE peers[b] \in Copies
    OBVIOUS
  <2>1. b \in Members(a) /\ (peers[b] \in got[b] \/ (b \in DOMAIN heard[a] /\ peers[b] = heard[a][b]))
    BY <1>1, PeersAreHeard
  <2>2. <<b, a>> \in Pairs
    BY <2>1 DEF Members, Pairs
  <2> QED BY <1>1, <2>1, <2>2, CopyKinds
<1>6. Copies' \subseteq Copies \cup {n}
  <2> SUFFICES ASSUME NEW c \in Copies' PROVE c \in Copies \cup {n}
    OBVIOUS
  <2>1. \/ \E b \in Agents : c = state'[b]
        \/ \E p \in Pairs : c \in air'[p]
        \/ \E b \in Agents : \E d \in DOMAIN heard'[b] : c = heard'[b][d]
    BY CopyKindsNext
  <2>2. ASSUME NEW b \in Agents, c = state'[b] PROVE c \in Copies \cup {n}
    BY <2>2, <1>1, CopyKinds DEF VersionInv, Shapes
  <2>3. ASSUME NEW p \in Pairs, c \in air'[p] PROVE c \in Copies
    BY <2>3, <1>1, CopyKinds
  <2>4. ASSUME NEW b \in Agents, NEW d \in DOMAIN heard'[b], c = heard'[b][d] PROVE c \in Copies
    <3>1. CASE b = a
      BY <3>1, <2>4, <1>1, <1>5 DEF VersionInv, Shapes
    <3>2. CASE b # a
      BY <3>2, <2>4, <1>1, CopyKinds DEF VersionInv, Shapes
    <3> QED BY <3>1, <3>2
  <2> QED BY <2>1, <2>2, <2>3, <2>4
<1> QED BY <1>1, <1>2, <1>3, <1>4, <1>6, VersionsGrow

LEMMA VersionsInit == Init => VersionInv
<1> SUFFICES ASSUME Init PROVE VersionInv
  OBVIOUS
<1>1. Shapes
  BY DEF Init, Shapes
<1>2. \A c \in Copies : \E a \in Agents : c = Blank(a) /\ c = state[a]
  <2> SUFFICES ASSUME NEW c \in Copies PROVE \E a \in Agents : c = Blank(a) /\ c = state[a]
    OBVIOUS
  <2>1. \A p \in Pairs : air[p] = {}
    BY DEF Init
  <2>2. \A a \in Agents : DOMAIN heard[a] = {}
    BY DEF Init, Empty
  <2>3. \A a \in Agents : state[a] = Blank(a)
    BY DEF Init
  <2> QED BY <2>1, <2>2, <2>3, CopyKinds
<1>3. \A a \in Agents : state[a] = Blank(a) /\ Blank(a).sender = a /\ Blank(a).epoch = 0
                        /\ Blank(a).version = 0
  BY DEF Init, Blank
<1>4. \A c \in Copies : Numbered(c) /\ Older(c, state[c.sender])
  BY <1>2, <1>3 DEF Numbered, Older
<1>5. \A a \in Agents : state[a].sender = a /\ state[a].epoch <= epoch
  BY <1>3 DEF Init
<1>6. OneStatePerVersion
  BY <1>2, <1>3 DEF OneStatePerVersion
<1> QED BY <1>1, <1>4, <1>5, <1>6 DEF VersionInv

(* Nothing the simulator does makes a copy of anything but of the state an *)
(* agent has.                                                              *)
LEMMA SimulatorCopies ==
  ASSUME Shapes, state' = state, heard' = heard, air' = [p \in Pairs |-> air'[p]],
         \A p \in Pairs : air'[p] \subseteq air[p] \cup {state[p[1]]}
  PROVE  Copies' \subseteq Copies
<1> SUFFICES ASSUME NEW c \in Copies' PROVE c \in Copies
  OBVIOUS
<1>1. \/ \E b \in Agents : c = state'[b]
      \/ \E p \in Pairs : c \in air'[p]
      \/ \E b \in Agents : \E d \in DOMAIN heard'[b] : c = heard'[b][d]
  BY CopyKindsNext
<1>2. \A p \in Pairs : p[1] \in Agents
  BY DEF Pairs
<1> QED BY <1>1, <1>2, CopyKinds

LEMMA VersionsStep == VersionInv /\ [Next]_vars => VersionInv'
<1> SUFFICES ASSUME VersionInv, [Next]_vars PROVE VersionInv'
  OBVIOUS
<1>1. Shapes /\ epoch \in Nat
  BY DEF VersionInv, Shapes
<1>2. ASSUME NEW a \in Agents, Update(a) PROVE VersionInv'
  BY <1>2, UpdateVersions
<1>3. ASSUME state' = state, heard' = heard, air' = air, epoch' = epoch \/ epoch' = epoch + 1
      PROVE  VersionInv'
  <2>1. Shapes' /\ epoch <= epoch'
    BY <1>1, <1>3 DEF Shapes
  <2>2. Copies' \subseteq Copies
    BY <1>1, <1>3, SimulatorCopies DEF Shapes
  <2> QED BY <2>1, <2>2, <1>3, VersionsFrame
<1>4. ASSUME state' = state, heard' = heard, epoch' = epoch, air' = [p \in Pairs |-> air'[p]],
             \A p \in Pairs : air'[p] \subseteq air[p] \cup {state[p[1]]}
      PROVE  VersionInv'
  <2>1. Shapes' /\ epoch <= epoch'
    BY <1>1, <1>4 DEF Shapes
  <2>2. Copies' \subseteq Copies
    BY <1>1, <1>4, SimulatorCopies
  <2> QED BY <2>1, <2>2, <1>4, VersionsFrame
<1>5. ASSUME NEW l \in Links, NEW value \in BOOLEAN, SetLinkBlocked(l, value) PROVE VersionInv'
  <2>1. \A p \in Pairs : air'[p] \subseteq air[p]
    BY <1>5 DEF SetLinkBlocked
  <2>2. state' = state /\ heard' = heard /\ epoch' = epoch /\ air' = [p \in Pairs |-> air'[p]]
    BY <1>5 DEF SetLinkBlocked, minds, tasks
  <2> QED BY <2>1, <2>2, <1>4
<1>6. ASSUME ApplyCommits PROVE VersionInv'
  <2>1. \A p \in Pairs : Queued(air[p], state[p[1]]) \subseteq air[p] \cup {state[p[1]]}
    BY DEF Queued
  <2>2. \A p \in Pairs : air'[p] \subseteq air[p] \cup {state[p[1]]}
    BY <1>6, <2>1 DEF ApplyCommits
  <2>3. state' = state /\ heard' = heard /\ epoch' = epoch /\ air' = [p \in Pairs |-> air'[p]]
    BY <1>6 DEF ApplyCommits, minds
  <2> QED BY <2>2, <2>3, <1>4
<1>7. ASSUME NEW t \in Tasks, ReleaseTask(t) PROVE VersionInv'
  BY <1>7, <1>3 DEF ReleaseTask, minds
<1>8. ASSUME NEW t \in Tasks, Reject(t) PROVE VersionInv'
  BY <1>8, <1>3 DEF Reject, minds
<1>9. ASSUME NEW t \in Tasks, Close(t) PROVE VersionInv'
  BY <1>9, <1>3 DEF Close, minds
<1>10. ASSUME NEW v \in Agents, DisableVehicle(v) PROVE VersionInv'
  BY <1>10, <1>3 DEF DisableVehicle, minds, tasks
<1>11. ASSUME ApplyFailureDetections PROVE VersionInv'
  BY <1>11, <1>3 DEF ApplyFailureDetections, minds
<1>12. ASSUME Detection PROVE VersionInv'
  BY <1>12, <1>3 DEF Detection, Detect, minds, tasks
<1>13. ASSUME EndTick PROVE VersionInv'
  BY <1>13, <1>3 DEF EndTick, tasks
<1>14. CASE UNCHANGED vars
  BY <1>14, <1>3 DEF vars, minds, tasks
<1> QED BY <1>2, <1>5, <1>6, <1>7, <1>8, <1>9, <1>10, <1>11, <1>12, <1>13, <1>14 DEF Next

(* However messages are lost, delayed or relayed and whatever fails, two   *)
(* copies of an agent's state with one epoch and one version are the same: *)
(* what revise_state promises to the peers, which compare versions only.   *)
THEOREM OneStatePerVersionHolds == Spec => []OneStatePerVersion
<1>1. VersionInv => OneStatePerVersion
  BY DEF VersionInv
<1> QED BY VersionsInit, VersionsStep, <1>1, PTL DEF Spec

-----------------------------------------------------------------------------
(* Owners.  The agents that have acted on what they were shown, until the  *)
(* simulator changes who owns what.                                        *)
Acted(a) == phase = "events" \/ (phase = "agents" /\ a < turn)

Believes(a, t) == t \in DOMAIN state[a].owners /\ state[a].owners[t].agent = a

(* Senders: every copy an agent has of a state is of the agent it came     *)
(* from.                                                                   *)
SendersInv ==
  /\ \A p \in Pairs : \A s \in air[p] : s.sender = p[1]
  /\ \A a \in Agents : \A b \in DOMAIN heard[a] : heard[a][b].sender = b

(* The world: only active agents act, none of them is detected as failed,  *)
(* and what is not released has no owner.                                  *)
WorldInv ==
  /\ phase = "agents" => turn \in alive
  /\ alive \subseteq Agents
  /\ detected = [a \in Agents |-> detected[a]]
  /\ \A a \in Agents : detected[a] \cap alive = {}
  /\ open \subseteq Tasks /\ coming \subseteq Tasks /\ open \cap coming = {}
  /\ owner = [t \in Tasks |-> owner[t]]
  /\ \A t \in coming : owner[t] = Nobody /\ \A a \in Agents : t \notin DOMAIN state[a].owners

(* A state of this epoch does not claim a task for its sender that its     *)
(* sender does not own: an owner that loses a task loses it with the       *)
(* epoch.  And an agent that has acted knows what it owns.                 *)
ClaimsInv ==
  \A c \in Copies : c.epoch = epoch =>
    \A t \in open \cap DOMAIN c.owners : c.owners[t].agent = c.sender => owner[t].agent = c.sender

KnowsInv ==
  \A a \in alive : Acted(a) => \A t \in open : owner[t].agent = a <=> Believes(a, t)

OwnerInv == VersionInv /\ SendersInv /\ WorldInv /\ ClaimsInv /\ KnowsInv

(* What an agent hears of others does not change what it believes to own.  *)
LEMMA SelectedIsOwner ==
  ASSUME NEW a \in alive, alive \subseteq Agents, detected[a] \cap alive = {},
         NEW t \in open, NEW peers,
         \A b \in DOMAIN peers :
           /\ b \in Members(a)
           /\ t \in DOMAIN peers[b].owners /\ peers[b].owners[t].agent = b => owner[t].agent = b
  PROVE  Selected(a, t, peers).agent = a <=> owner[t].agent = a
<1> DEFINE all  == {c \in OwnerClaims(a, t, peers) : c.by.agent \notin Denied(a, t, peers)}
           best == {x \in all : \A y \in all : x.by = y.by \/ Outranks(x, y)}
           own  == [by |-> owner[t], direct |-> TRUE]
<1>1. Selected(a, t, peers) = IF best = {} THEN Nobody ELSE (CHOOSE x \in best : TRUE).by
  BY DEF Selected
<1>2. a \in Agents /\ a # 0 /\ Nobody.agent = 0
  BY IdsAssumption DEF Nobody
<1>3. CASE owner[t].agent # a
  <2>1. Shown(a, t).agent # a
    BY <1>2, <1>3 DEF Shown
  <2>2. a \in Denied(a, t, peers)
    BY <2>1 DEF Denied
  <2>3. \A x \in best : x.by.agent # a
    BY <2>2
  <2>4. Selected(a, t, peers).agent # a
    <3>1. CASE best = {}
      BY <3>1, <1>1, <1>2
    <3>2. CASE best # {}
      <4>1. (CHOOSE x \in best : TRUE) \in best
        BY <3>2
      <4> QED BY <4>1, <3>2, <1>1, <2>3
    <3> QED BY <3>1, <3>2
  <2> QED BY <2>4, <1>3
<1>4. CASE owner[t].agent = a
  <2>1. Shown(a, t) = owner[t] /\ owner[t] # Nobody
    BY <1>2, <1>4 DEF Shown
  <2>2. a \notin Denied(a, t, peers)
    <3>1. a \notin detected[a]
      OBVIOUS
    <3>2. a \notin DOMAIN peers
      BY DEF Members
    <3> QED BY <3>1, <3>2, <2>1, <1>4 DEF Denied
  <2>3. own \in OwnerClaims(a, t, peers)
    <3>1. [by |-> owner[t], direct |-> owner[t].agent = a] \in OwnerClaims(a, t, peers)
      BY <2>1 DEF OwnerClaims
    <3>2. [by |-> owner[t], direct |-> owner[t].agent = a] = own
      BY <1>4
    <3> QED BY <3>1, <3>2
  <2>4. own \in all
    <3>1. own.by.agent = a
      BY <1>4
    <3> QED BY <2>2, <2>3, <3>1
  <2>5. ASSUME NEW y \in all PROVE y = own \/ ~y.direct
    <3>1. y \in OwnerClaims(a, t, peers)
      OBVIOUS
    <3>2. \/ y = [by |-> owner[t], direct |-> owner[t].agent = a]
          \/ \E b \in DOMAIN peers : /\ t \in DOMAIN peers[b].owners
                                     /\ y = [by |-> peers[b].owners[t],
                                             direct |-> peers[b].owners[t].agent = b]
      BY <3>1, <2>1 DEF OwnerClaims
    <3>3. ASSUME NEW b \in DOMAIN peers, t \in DOMAIN peers[b].owners,
                 y = [by |-> peers[b].owners[t], direct |-> peers[b].owners[t].agent = b]
          PROVE  ~y.direct
      <4>1. b # a
        BY DEF Members
      <4>2. peers[b].owners[t].agent # b
        BY <3>3, <4>1, <1>4
      <4> QED BY <4>2, <3>3
    <3>4. y = [by |-> owner[t], direct |-> owner[t].agent = a] => y = own
      BY <1>4
    <3> QED BY <3>2, <3>3, <3>4
  <2>6. own \in best
    <3>1. ASSUME NEW y \in all PROVE own.by = y.by \/ Outranks(own, y)
      <4>1. CASE y = own
        BY <4>1
      <4>2. CASE ~y.direct
        <5>1. own.direct
          OBVIOUS
        <5> QED BY <4>2, <5>1 DEF Outranks
      <4> QED BY <4>1, <4>2, <2>5
    <3> QED BY <3>1, <2>4
  <2>7. ASSUME NEW x \in best PROVE x.by = owner[t]
    <3>1. x \in all /\ (x.by = own.by \/ Outranks(x, own))
      BY <2>4
    <3>2. own.by = owner[t] /\ own.direct
      OBVIOUS
    <3>3. CASE Outranks(x, own)
      <4>1. x.direct
        <5>1. x.direct = own.direct \/ (x.direct /\ ~own.direct)
          BY <3>3 DEF Outranks
        <5> QED BY <5>1, <3>2
      <4>2. x = own
        BY <4>1, <3>1, <2>5
      <4> QED BY <4>2
    <3> QED BY <3>1, <3>2, <3>3
  <2>8. (CHOOSE x \in best : TRUE) \in best
    BY <2>6
  <2> QED BY <2>6, <2>7, <2>8, <1>1, <1>4
<1> QED BY <1>3, <1>4

LEMMA NextStateOwners ==
  ASSUME NEW a \in Agents, NEW peers
  PROVE  LET n == NextState(a, peers)
         IN /\ DOMAIN n.owners \subseteq open
            /\ \A t \in open : t \in DOMAIN n.owners <=> Selected(a, t, peers) # Nobody
            /\ \A t \in DOMAIN n.owners : n.owners[t] = Selected(a, t, peers)
<1> DEFINE n == NextState(a, peers)
<1>1. PICK bids, winners, bundle :
        n = Revised(a, [sender |-> a, epoch |-> epoch, version |-> 0, bids |-> bids,
                        winners |-> winners, bundle |-> bundle, owners |-> Owners(a, peers)])
  BY DEF NextState, Concluded
<1>2. n.owners = Owners(a, peers)
  BY <1>1 DEF Revised
<1> DEFINE all == [t \in open |-> Selected(a, t, peers)]
           S   == {t \in open : all[t] # Nobody}
<1>3. Owners(a, peers) = [t \in S |-> all[t]]
  BY DEF Owners, Restrict
<1> QED BY <1>2, <1>3

(* The update of a, as far as owners are concerned.                        *)
LEMMA UpdateOwners ==
  ASSUME OwnerInv, NEW a \in Agents, Update(a)
  PROVE  SendersInv' /\ WorldInv' /\ ClaimsInv' /\ KnowsInv'
<1>1. PICK got, peers :
        /\ peers = Peers(a, got)
        /\ \A b \in Members(a) : got[b] \subseteq air[<<b, a>>]
        /\ state' = [state EXCEPT ![a] = NextState(a, peers)]
        /\ heard' = [heard EXCEPT ![a] = peers]
        /\ air' = [p \in Pairs |-> air'[p]]
        /\ \A p \in Pairs : air'[p] \subseteq air[p]
  BY UpdateFacts DEF OwnerInv, VersionInv
<1> DEFINE n == NextState(a, peers)
<1>2. /\ phase = "agents" /\ turn = a /\ Pass(a)
      /\ UNCHANGED <<epoch, open, coming, owner, alive, detected>>
  BY DEF Update, tasks, vehicles
<1>3. a \in alive /\ alive \subseteq Agents /\ detected[a] \cap alive = {}
  BY <1>2 DEF OwnerInv, WorldInv
<1>4. /\ state'[a] = n /\ heard'[a] = peers
      /\ \A b \in Agents \ {a} : state'[b] = state[b] /\ heard'[b] = heard[b]
  BY <1>1 DEF OwnerInv, VersionInv, Shapes
<1>5. ASSUME NEW b \in DOMAIN peers
      PROVE  /\ b \in Members(a) /\ peers[b].sender = b /\ peers[b].epoch = epoch
             /\ peers[b] \in Copies
  <2>1. /\ b \in Members(a) /\ ValidState(a, peers[b])
        /\ peers[b] \in got[b] \/ (b \in DOMAIN heard[a] /\ peers[b] = heard[a][b])
    BY <1>1, PeersAreHeard
  <2>2. <<b, a>> \in Pairs
    BY <2>1 DEF Members, Pairs
  <2>3. peers[b].sender = b
    BY <2>1, <2>2, <1>1 DEF OwnerInv, SendersInv
  <2>4. peers[b] \in Copies
    BY <2>1, <2>2, <1>1, CopyKinds
  <2> QED BY <2>1, <2>3, <2>4 DEF ValidState
<1>6. ASSUME NEW t \in open PROVE Selected(a, t, peers).agent = a <=> owner[t].agent = a
  <2>1. ASSUME NEW b \in DOMAIN peers
        PROVE  t \in DOMAIN peers[b].owners /\ peers[b].owners[t].agent = b => owner[t].agent = b
    BY <1>5 DEF OwnerInv, ClaimsInv
  <2> QED BY <1>3, <1>5, <2>1, SelectedIsOwner
<1>7. /\ DOMAIN n.owners \subseteq open
      /\ \A t \in open : t \in DOMAIN n.owners <=> Selected(a, t, peers) # Nobody
      /\ \A t \in DOMAIN n.owners : n.owners[t] = Selected(a, t, peers)
  BY NextStateOwners
<1>8. \A t \in open : owner[t].agent = a <=> t \in DOMAIN n.owners /\ n.owners[t].agent = a
  <2>1. a # Nobody.agent
    BY IdsAssumption DEF Nobody
  <2> QED BY <2>1, <1>6, <1>7
<1>9. SendersInv'
  <2>1. \A p \in Pairs : \A s \in air'[p] : s.sender = p[1]
    BY <1>1 DEF OwnerInv, SendersInv
  <2>2. \A b \in Agents : \A c \in DOMAIN heard'[b] : heard'[b][c].sender = c
    BY <1>4, <1>5 DEF OwnerInv, SendersInv
  <2> QED BY <2>1, <2>2 DEF SendersInv
<1>10. phase' = "agents" => turn' \in alive'
  BY <1>2 DEF Pass, First
<1>11. WorldInv'
  <2>1. \A t \in coming : owner[t] = Nobody /\ \A b \in Agents : t \notin DOMAIN state'[b].owners
    BY <1>4, <1>7 DEF OwnerInv, WorldInv
  <2> QED BY <1>2, <1>10, <2>1 DEF OwnerInv, WorldInv
<1>12. Copies' \subseteq Copies \cup {n}
  <2> SUFFICES ASSUME NEW c \in Copies' PROVE c \in Copies \cup {n}
    OBVIOUS
  <2>1. \/ \E b \in Agents : c = state'[b]
        \/ \E p \in Pairs : c \in air'[p]
        \/ \E b \in Agents : \E d \in DOMAIN heard'[b] : c = heard'[b][d]
    BY CopyKindsNext
  <2> QED BY <2>1, <1>1, <1>4, <1>5, CopyKinds
<1>13. n.sender = a
  <2>1. state[a] \in Copies
    BY CopyKinds
  <2> QED BY <2>1, NextStateFacts DEF OwnerInv, VersionInv, Shapes
<1>14. ClaimsInv'
  BY <1>2, <1>8, <1>12, <1>13 DEF OwnerInv, ClaimsInv
<1>15. KnowsInv'
  <2> SUFFICES ASSUME NEW b \in alive, Acted(b)', NEW t \in open
               PROVE  owner[t].agent = b <=> Believes(b, t)'
    BY <1>2 DEF KnowsInv
  <2>1. CASE b = a
    BY <2>1, <1>4, <1>8 DEF Believes
  <2>2. CASE b # a
    <3>1. b <= a
      <4>1. a \in Nat /\ b \in Nat
        BY <1>3, IdsAssumption
      <4>2. CASE phase' = "events" /\ {c \in alive : c > a} = {}
        BY <4>1, <4>2
      <4>3. CASE phase' = "agents" /\ turn' \in First({c \in alive : c > a})
        <5>1. turn' \in Nat /\ b < turn'
          BY <4>3, <1>3, IdsAssumption DEF First, Acted
        <5> QED BY <4>1, <4>3, <5>1 DEF First
      <4> QED BY <4>2, <4>3, <1>2 DEF Pass
    <3>2. Acted(b)
      BY <3>1, <2>2, <1>2, <1>3, IdsAssumption DEF Acted
    <3>3. b \in Agents /\ state'[b] = state[b]
      BY <1>3, <1>4, <2>2
    <3> QED BY <3>2, <3>3 DEF OwnerInv, KnowsInv, Believes
  <2> QED BY <2>1, <2>2
<1> QED BY <1>9, <1>11, <1>14, <1>15

LEMMA OwnersInit == Init => OwnerInv
<1> SUFFICES ASSUME Init PROVE OwnerInv
  OBVIOUS
<1>1. VersionInv
  BY VersionsInit
<1>2. \A a \in Agents : state[a] = Blank(a) /\ DOMAIN Blank(a).owners = {} /\ DOMAIN heard[a] = {}
  BY DEF Init, Blank, Empty
<1>3. \A p \in Pairs : air[p] = {}
  BY DEF Init
<1>4. SendersInv
  BY <1>2, <1>3 DEF SendersInv
<1>5. WorldInv
  BY <1>2, MissionAssumption DEF WorldInv, Init, First
<1>6. ClaimsInv
  BY <1>2, <1>3, CopyKinds DEF ClaimsInv
<1>7. KnowsInv
  BY IdsAssumption DEF KnowsInv, Acted, Init, First
<1> QED BY <1>1, <1>4, <1>5, <1>6, <1>7 DEF OwnerInv

(* A step of the simulator copies nothing but states.                      *)
Quiet ==
  /\ state' = state /\ heard' = heard
  /\ air' = [p \in Pairs |-> air'[p]]
  /\ \A p \in Pairs : air'[p] \subseteq air[p] \cup {state[p[1]]}

LEMMA QuietCopies ==
  ASSUME OwnerInv, Quiet
  PROVE  SendersInv' /\ Copies' \subseteq Copies
<1>1. Copies' \subseteq Copies
  BY SimulatorCopies DEF OwnerInv, VersionInv, Quiet
<1>2. \A p \in Pairs : p[1] \in Agents
  BY DEF Pairs
<1>3. SendersInv'
  BY <1>2 DEF OwnerInv, VersionInv, SendersInv, Quiet
<1> QED BY <1>1, <1>3

(* No copy is of an epoch to come.                                         *)
LEMMA NoCopyOfTheFuture ==
  ASSUME OwnerInv, NEW c \in Copies
  PROVE  c.epoch # epoch + 1
<1>1. c.sender \in Agents /\ state[c.sender] \in Copies
  BY CopyKinds DEF OwnerInv, VersionInv, Numbered
<1> QED BY <1>1 DEF OwnerInv, VersionInv, Numbered, Older, Shapes

LEMMA ClaimsFrame ==
  ASSUME OwnerInv, Quiet, open' \subseteq open,
         \/ epoch' = epoch + 1
         \/ epoch' = epoch /\ \A t \in open : owner'[t] = owner[t] \/ owner[t] = Nobody
  PROVE  ClaimsInv'
<1> SUFFICES ASSUME NEW c \in Copies', c.epoch = epoch', NEW t \in open' \cap DOMAIN c.owners,
                    c.owners[t].agent = c.sender
             PROVE  owner'[t].agent = c.sender
  BY DEF ClaimsInv
<1>1. c \in Copies
  BY QuietCopies
<1>2. epoch' = epoch /\ (owner'[t] = owner[t] \/ owner[t] = Nobody)
  BY <1>1, NoCopyOfTheFuture
<1>3. owner[t].agent = c.sender
  BY <1>1, <1>2 DEF OwnerInv, ClaimsInv
<1>4. c.sender # Nobody.agent
  BY <1>1, IdsAssumption DEF OwnerInv, VersionInv, Numbered, Nobody
<1> QED BY <1>2, <1>3, <1>4

LEMMA OwnersStep == OwnerInv /\ [Next]_vars => OwnerInv'
<1> SUFFICES ASSUME OwnerInv, [Next]_vars PROVE OwnerInv'
  OBVIOUS
<1> DEFINE Rest == SendersInv' /\ WorldInv' /\ ClaimsInv' /\ KnowsInv'
<1>0. VersionInv'
  BY VersionsStep DEF OwnerInv
<1>1. ASSUME NEW a \in Agents, Update(a) PROVE Rest
  BY <1>1, UpdateOwners
<1>2. ASSUME NEW t \in Tasks, ReleaseTask(t) PROVE Rest
  <2>1. /\ Quiet /\ epoch' = epoch + 1 /\ owner' = owner /\ alive' = alive /\ detected' = detected
        /\ phase = "events" /\ phase' = phase /\ turn' = turn /\ state' = state
        /\ t \in coming /\ coming' = coming \ {t} /\ open' = open \cup {t}
    BY <1>2 DEF ReleaseTask, Event, minds, vehicles, Quiet, OwnerInv, VersionInv, Shapes
  <2>2. SendersInv'
    BY <2>1, QuietCopies
  <2>3. WorldInv'
    BY <2>1 DEF OwnerInv, WorldInv
  <2>4. ClaimsInv'
    BY <2>1, QuietCopies, NoCopyOfTheFuture DEF ClaimsInv
  <2>5. KnowsInv'
    <3> SUFFICES ASSUME NEW a \in alive, NEW u \in open \cup {t}
                 PROVE  owner[u].agent = a <=> Believes(a, u)
      BY <2>1 DEF KnowsInv, Believes
    <3>1. CASE u \in open
      BY <3>1, <2>1 DEF OwnerInv, KnowsInv, Acted
    <3>2. CASE u = t
      <4>1. a \in Agents /\ owner[t].agent = 0 /\ a # 0 /\ t \notin DOMAIN state[a].owners
        BY <2>1, IdsAssumption DEF OwnerInv, WorldInv, Nobody
      <4> QED BY <3>2, <4>1 DEF Believes
    <3> QED BY <3>1, <3>2
  <2> QED BY <2>2, <2>3, <2>4, <2>5
<1>3. ASSUME NEW t \in Tasks, Reject(t) PROVE Rest
  <2>1. /\ Quiet /\ epoch' = epoch + 1 /\ alive' = alive /\ detected' = detected /\ state' = state
        /\ phase' = "tasks" /\ open' = open /\ coming' = coming /\ t \in open
        /\ owner' = [owner EXCEPT ![t] = Nobody]
    BY <1>3 DEF Reject, Late, minds, vehicles, Quiet, OwnerInv, VersionInv, Shapes
  <2>2. WorldInv'
    BY <2>1 DEF OwnerInv, WorldInv
  <2>3. KnowsInv'
    BY <2>1 DEF KnowsInv, Acted
  <2> QED BY <2>1, <2>2, <2>3, QuietCopies, ClaimsFrame
<1>4. ASSUME NEW t \in Tasks, Close(t) PROVE Rest
  <2>1. /\ Quiet /\ epoch' = epoch /\ alive' = alive /\ detected' = detected /\ state' = state
        /\ phase' = "tasks" /\ open' = open \ {t} /\ coming' = coming /\ owner' = owner
    BY <1>4 DEF Close, Late, minds, vehicles, Quiet, OwnerInv, VersionInv, Shapes
  <2>2. WorldInv'
    BY <2>1 DEF OwnerInv, WorldInv
  <2>3. KnowsInv'
    BY <2>1 DEF KnowsInv, Acted
  <2> QED BY <2>1, <2>2, <2>3, QuietCopies, ClaimsFrame
<1>5. ASSUME NEW l \in Links, NEW value \in BOOLEAN, SetLinkBlocked(l, value) PROVE Rest
  <2>1. /\ Quiet /\ UNCHANGED <<epoch, alive, detected, state, phase, turn, open, coming, owner>>
    BY <1>5 DEF SetLinkBlocked, Event, minds, tasks, Quiet
  <2>2. WorldInv'
    BY <2>1 DEF OwnerInv, WorldInv
  <2>3. KnowsInv'
    BY <2>1 DEF OwnerInv, KnowsInv, Acted, Believes
  <2> QED BY <2>1, <2>2, <2>3, QuietCopies, ClaimsFrame
<1>6. ASSUME NEW v \in Agents, DisableVehicle(v) PROVE Rest
  <2>1. /\ Quiet /\ UNCHANGED <<epoch, detected, state, phase, turn, open, coming, owner>>
        /\ alive' \subseteq alive /\ phase = "events"
    BY <1>6 DEF DisableVehicle, Event, minds, tasks, Quiet, OwnerInv, VersionInv, Shapes
  <2>2. WorldInv'
    BY <2>1 DEF OwnerInv, WorldInv
  <2>3. KnowsInv'
    BY <2>1 DEF OwnerInv, KnowsInv, Acted, Believes
  <2> QED BY <2>1, <2>2, <2>3, QuietCopies, ClaimsFrame
<1>7. ASSUME ApplyFailureDetections PROVE Rest
  <2>1. /\ Quiet /\ UNCHANGED <<alive, detected, state, open, coming>>
        /\ phase' = "commits"
        /\ owner' = [t \in Tasks |-> IF t \in Orphans THEN Nobody ELSE owner[t]]
        /\ epoch' = IF Orphans = {} THEN epoch ELSE epoch + 1
    BY <1>7 DEF ApplyFailureDetections, minds, Quiet, OwnerInv, VersionInv, Shapes
  <2>2. Orphans \subseteq open
    BY DEF Orphans
  <2>3. WorldInv'
    BY <2>1, <2>2 DEF OwnerInv, WorldInv
  <2>4. KnowsInv'
    BY <2>1 DEF KnowsInv, Acted
  <2>5. ClaimsInv'
    <3>1. \A t \in open : Orphans = {} => owner'[t] = owner[t]
      BY <2>1 DEF OwnerInv, WorldInv
    <3> QED BY <2>1, <3>1, ClaimsFrame
  <2> QED BY <2>1, <2>3, <2>4, <2>5, QuietCopies
<1>8. ASSUME ApplyCommits PROVE Rest
  <2>0. \A p \in Pairs : Queued(air[p], state[p[1]]) \subseteq air[p] \cup {state[p[1]]}
    BY DEF Queued
  <2>1. Quiet
    <3>1. \A p \in Pairs : air'[p] \subseteq air[p] \cup {state[p[1]]}
      BY <1>8, <2>0 DEF ApplyCommits
    <3> QED BY <1>8, <3>1 DEF ApplyCommits, minds, Quiet
  <2>2. /\ UNCHANGED <<epoch, alive, detected, state, open, coming>> /\ phase' = "tasks"
        /\ owner' = [t \in Tasks |-> owner'[t]]
        /\ \A t \in Tasks : Winning(t) = {} => owner'[t] = owner[t]
    BY <1>8 DEF ApplyCommits, minds, vehicles
  <2>3. \A t \in Tasks : Winning(t) # {} => t \in open /\ owner[t] = Nobody
    BY DEF Winning, ValidCommit
  <2>4. \A t \in open : owner'[t] = owner[t] \/ owner[t] = Nobody
    BY <2>2, <2>3 DEF OwnerInv, WorldInv
  <2>5. WorldInv'
    BY <2>2, <2>3 DEF OwnerInv, WorldInv
  <2>6. KnowsInv'
    BY <2>2 DEF KnowsInv, Acted
  <2> QED BY <2>1, <2>2, <2>4, <2>5, <2>6, QuietCopies, ClaimsFrame
<1>9. ASSUME NEW a \in Agents, NEW v \in Agents, Detect(a, v) PROVE Rest
  <2>1. /\ Quiet /\ UNCHANGED <<epoch, alive, state, phase, turn, open, coming, owner>>
        /\ detected' = [detected EXCEPT ![a] = @ \cup {v}] /\ v \notin alive /\ phase = "tasks"
    BY <1>9 DEF Detect, clock, tasks, minds, Quiet, OwnerInv, VersionInv, Shapes
  <2>2. WorldInv'
    BY <2>1, ZenonT(30) DEF OwnerInv, WorldInv
  <2>3. KnowsInv'
    BY <2>1 DEF KnowsInv, Acted
  <2> QED BY <2>1, <2>2, <2>3, QuietCopies, ClaimsFrame
<1>10. ASSUME EndTick PROVE Rest
  <2>1. /\ Quiet /\ UNCHANGED <<epoch, alive, detected, state, open, coming, owner>>
        /\ phase' = "agents" /\ turn' \in First(alive)
    BY <1>10 DEF EndTick, tasks, vehicles, Quiet, OwnerInv, VersionInv, Shapes
  <2>2. WorldInv'
    BY <2>1 DEF OwnerInv, WorldInv, First
  <2>3. KnowsInv'
    <3>1. \A a \in alive : ~(a < turn')
      BY <2>1, IdsAssumption DEF First, OwnerInv, WorldInv
    <3> QED BY <2>1, <3>1 DEF KnowsInv, Acted
  <2> QED BY <2>1, <2>2, <2>3, QuietCopies, ClaimsFrame
<1>11. ASSUME UNCHANGED vars PROVE Rest
  <2>1. Quiet /\ UNCHANGED <<epoch, alive, detected, state, phase, turn, open, coming, owner>>
    BY <1>11 DEF vars, clock, tasks, vehicles, minds, Quiet, OwnerInv, VersionInv, Shapes
  <2>2. WorldInv'
    BY <2>1 DEF OwnerInv, WorldInv
  <2>3. KnowsInv'
    BY <2>1 DEF OwnerInv, KnowsInv, Acted, Believes
  <2> QED BY <2>1, <2>2, <2>3, QuietCopies, ClaimsFrame
<1>12. Rest
  BY <1>1, <1>2, <1>3, <1>4, <1>5, <1>6, <1>7, <1>8, <1>9, <1>10, <1>11 DEF Next, Detection
<1> QED BY <1>0, <1>12 DEF OwnerInv

(* Whatever an agent hears, it believes to own a task if and only if the   *)
(* simulator has it own that task: hearsay neither takes work from an      *)
(* agent nor gives it any (merge_owners).                                  *)
THEOREM OwnersKnowHolds == Spec => []OwnersKnow
<1>1. OwnerInv => OwnersKnow
  BY DEF OwnerInv, KnowsInv, Acted, Believes, OwnersKnow
<1> QED BY OwnersInit, OwnersStep, <1>1, PTL DEF Spec

(* An owner is not replaced by a commit that was on its way when it got    *)
(* the task: only a release makes room for another.                        *)
THEOREM OwnerStaysHolds == Spec => OwnerStays
<1> DEFINE Stays == \A t \in open : owner[t] # Nobody /\ owner'[t] # Nobody => owner'[t] = owner[t]
<1>1. ASSUME OwnerInv, Next PROVE Stays
  <2>1. ASSUME ApplyCommits PROVE Stays
    <3>1. \A t \in Tasks : Winning(t) # {} => owner[t] = Nobody
      BY DEF Winning, ValidCommit
    <3>2. \A t \in Tasks : Winning(t) = {} => owner'[t] = owner[t]
      BY <2>1 DEF ApplyCommits
    <3> QED BY <1>1, <3>1, <3>2 DEF OwnerInv, WorldInv
  <2>2. ASSUME ApplyFailureDetections PROVE Stays
    BY <1>1, <2>2 DEF ApplyFailureDetections, OwnerInv, WorldInv
  <2>3. ASSUME NEW t \in Tasks, Reject(t) PROVE Stays
    BY <1>1, <2>3 DEF Reject, OwnerInv, WorldInv
  <2>4. owner' = owner \/ ApplyCommits \/ ApplyFailureDetections \/ \E t \in Tasks : Reject(t)
    BY <1>1 DEF Next, Update, ReleaseTask, Close, SetLinkBlocked, DisableVehicle, Detection, Detect,
                EndTick, tasks
  <2> QED BY <2>1, <2>2, <2>3, <2>4
<1>2. OwnerInv /\ [Next]_vars => [Stays]_vars
  BY <1>1
<1> QED BY OwnersInit, OwnersStep, <1>2, PTL DEF Spec, OwnerStays

-----------------------------------------------------------------------------
(* Tours, and what a task by itself costs a vehicle.                       *)
(* A tour is what its definition says: such a function exists.             *)
LEMMA TourFacts ==
  ASSUME NEW a, NEW ts, Len(ts) \in Nat
  PROVE  /\ Tour(a, ts)[0] = Departure(a)
         /\ \A k \in 1..Len(ts) : Tour(a, ts)[k] = Serve(a, Tour(a, ts)[k - 1], ts[k])
<1> DEFINE D == Departure(a)
           U(s, t) == Serve(a, s, t)
           IsTour(f, n) == f = [k \in 0..n |-> IF k = 0 THEN D ELSE U(f[k - 1], ts[k])]
           S == {n \in Nat : \E f : IsTour(f, n)}
<1>1. Tour(a, ts) = CHOOSE f : IsTour(f, Len(ts))
  BY DEF Tour
<1> HIDE DEF D, U
<1>2. 0 \in S
  <2>1. IsTour([k \in 0..0 |-> D], 0)
    OBVIOUS
  <2> QED
    BY <2>1
<1>3. ASSUME NEW n \in Nat, n \in S
      PROVE  n + 1 \in S
  <2>1. PICK f : IsTour(f, n)
    BY <1>3
  <2> DEFINE g == [k \in 0..(n + 1) |-> IF k = n + 1 THEN U(f[n], ts[n + 1]) ELSE f[k]]
  <2>2. ASSUME NEW k \in 0..(n + 1)
        PROVE  g[k] = IF k = 0 THEN D ELSE U(g[k - 1], ts[k])
    <3>1. CASE k = 0
      <4>1. 0 \in 0..n /\ 0 # n + 1 /\ 0 \in 0..(n + 1)
        BY <1>3
      <4>2. g[0] = f[0] /\ f[0] = D
        BY <2>1, <4>1
      <4> QED
        BY <3>1, <4>2
    <3>2. CASE k = n + 1
      BY <3>2
    <3>3. CASE k \in 1..n
      <4>1. k - 1 \in 0..n /\ k - 1 # n + 1 /\ k # n + 1 /\ k \in 0..n /\ k # 0
        BY <3>3
      <4>2. g[k] = f[k] /\ g[k - 1] = f[k - 1]
        BY <4>1
      <4>3. f[k] = U(f[k - 1], ts[k])
        BY <2>1, <4>1
      <4> QED
        BY <4>1, <4>2, <4>3
    <3> QED
      BY <3>1, <3>2, <3>3
  <2>3. IsTour(g, n + 1)
    BY <2>2
  <2>4. n + 1 \in Nat
    OBVIOUS
  <2> HIDE DEF g
  <2>5. \E h : IsTour(h, n + 1)
    BY <2>3, Zenon
  <2> HIDE DEF IsTour
  <2> QED
    BY <2>4, <2>5
<1>4. Len(ts) \in S
  <2> HIDE DEF S
  <2>1. Nat \subseteq S
    BY <1>2, <1>3, InductionOnNat
  <2> QED
    BY <2>1
<1>5. IsTour(Tour(a, ts), Len(ts))
  BY <1>1, <1>4
<1> DEFINE f == Tour(a, ts)
<1> HIDE DEF f
<1>6. /\ f[0] = D
      /\ \A k \in 1..Len(ts) : f[k] = U(f[k - 1], ts[k])
  <2>1. f = [k \in 0..Len(ts) |-> IF k = 0 THEN D ELSE U(f[k - 1], ts[k])]
    BY <1>5 DEF f
  <2>2. 0 \in 0..Len(ts) /\ \A k \in 1..Len(ts) : k \in 0..Len(ts) /\ k # 0
    OBVIOUS
  <2> QED
    BY <2>1, <2>2
<1> QED
  BY <1>6 DEF f, D, U

(* So it counts ticks, ways and energy from nothing upwards.               *)
Travelled(s) == s.tick \in Nat /\ s.distance \in Nat /\ s.energy \in Nat /\ s.at \in Places

LEMMA TourTravels ==
  ASSUME NEW a \in Agents, NEW ts \in Seq(Tasks)
  PROVE  \A k \in 0..Len(ts) : Travelled(Tour(a, ts)[k])
<1> DEFINE f == Tour(a, ts)
           S == {k \in 0..Len(ts) : Travelled(f[k])}
<1>1. Len(ts) \in Nat /\ \A k \in 1..Len(ts) : ts[k] \in Tasks
  OBVIOUS
<1>2. f[0] = Departure(a) /\ \A k \in 1..Len(ts) : f[k] = Serve(a, f[k - 1], ts[k])
  BY <1>1, TourFacts
<1> HIDE DEF f
<1>3. 0 \in S
  BY <1>1, <1>2, RoutesAssumption DEF Travelled, Departure
<1>4. ASSUME NEW s, Travelled(s), NEW t \in Tasks
      PROVE  Travelled(Serve(a, s, t))
  <2> DEFINE hop == Hop[a][<<s.at, Site[t]>>]
  <2>1. hop \in [ticks : Nat, distance : Nat, energy : Nat] \/ hop = NoHop
    BY <1>4, RoutesAssumption DEF Travelled
  <2>2. Service[t] \in Nat /\ ServiceEnergy[t] \in Nat /\ Site[t] \in Places
    BY WorkAssumption, RoutesAssumption
  <2>3. Travelled(Refused(s))
    BY <1>4 DEF Refused, Travelled
  <2>4. ASSUME hop \in [ticks : Nat, distance : Nat, energy : Nat]
        PROVE  Travelled(Arrival(a, s, t, hop))
    <3> DEFINE i == s.tick  j == s.distance  n == s.energy  p == hop.ticks
               q == hop.distance  r == hop.energy  u == Service[t]  v == ServiceEnergy[t]
    <3>1. i \in Nat /\ j \in Nat /\ n \in Nat /\ p \in Nat /\ q \in Nat /\ r \in Nat
          /\ u \in Nat /\ v \in Nat
      BY <1>4, <2>2, <2>4 DEF Travelled
    <3>2. i + p + u \in Nat /\ j + q \in Nat /\ n + r + v \in Nat
      <4> HIDE DEF i, j, n, p, q, r, u, v
      <4> QED
        BY <3>1
    <3> HIDE DEF hop
    <3> DEFINE next == [at       |-> Site[t],
                        tick     |-> s.tick + hop.ticks + Service[t],
                        distance |-> s.distance + hop.distance,
                        energy   |-> s.energy + hop.energy + ServiceEnergy[t],
                        load     |-> IF t \in Deliveries THEN s.load - Payload[t] ELSE s.load,
                        ok       |-> TRUE]
    <3>3. Travelled(next)
      BY <2>2, <3>2 DEF Travelled
    <3>4. Arrival(a, s, t, hop) = Refused(s) \/ Arrival(a, s, t, hop) = next
      BY DEF Arrival
    <3> HIDE DEF next
    <3> QED
      BY <2>3, <3>3, <3>4
  <2>5. Serve(a, s, t) = Refused(s) \/ (hop # NoHop /\ Serve(a, s, t) = Arrival(a, s, t, hop))
    BY Zenon DEF Serve
  <2> QED
    BY <2>1, <2>3, <2>4, <2>5
<1>5. ASSUME NEW k \in 0..(Len(ts) - 1), k \in S
      PROVE  k + 1 \in S
  <2>1. k + 1 \in 1..Len(ts) /\ k + 1 - 1 = k
    BY <1>1
  <2>2. f[k + 1] = Serve(a, f[k], ts[k + 1])
    BY <1>2, <2>1
  <2>3. Travelled(f[k]) /\ ts[k + 1] \in Tasks
    BY <1>1, <1>5, <2>1
  <2>4. Travelled(f[k + 1])
    BY <1>4, <2>2, <2>3
  <2> QED
    BY <2>1, <2>4
<1>6. 0..Len(ts) \subseteq S
  <2> HIDE DEF S
  <2> QED
    BY <1>1, <1>3, <1>5, InductionUpTo
<1> QED
  BY <1>6 DEF f

LEMMA AloneFacts ==
  ASSUME NEW a \in Agents, NEW t \in Tasks
  PROVE  Alone(a, t).distance \in Nat
<1> DEFINE ts == <<t>>
<1>1. ts \in Seq(Tasks) /\ Len(ts) \in 0..Len(ts)
  OBVIOUS
<1>2. Travelled(Outcome(a, ts))
  <2> HIDE DEF ts
  <2>1. Travelled(Tour(a, ts)[Len(ts)])
    BY <1>1, TourTravels
  <2> QED
    BY <2>1 DEF Outcome
<1> QED
  BY <1>2 DEF Alone, Travelled

-----------------------------------------------------------------------------
(* The policy "nearest".  The bid of an agent for a task is the same       *)
(* whenever it makes it, whatever it knows of others.  So it is enough that*)
(* every claim that goes round says the truth about its bidder, and that a *)
(* state names no winner that its sender, if it can do the task, is        *)
(* preferable to.                                                          *)
NearestBid(a, t) == Bid(a, Alone(a, t), 0)

Honest(x, t) == x.bidder \in Agents /\ x.distance = Alone(x.bidder, t).distance

Prevails(x, a, t) == Feasible(a, <<t>>) => x.bidder = a \/ Better(x, NearestBid(a, t))

BidsInv ==
  \A c \in Copies :
    /\ \A t \in DOMAIN c.bids : Honest(c.bids[t], t)
    /\ \A t \in DOMAIN c.winners : /\ Honest(c.winners[t].bid, t)
                                   /\ Prevails(c.winners[t].bid, c.sender, t)

(* A commit is of an active agent, as far as anyone knows, and of one that *)
(* prevails over all it can reach, as long as nothing fences it.           *)
CommitsInv ==
  \A c \in commits :
    /\ c.agent \in Agents /\ c.task \in Tasks /\ Feasible(c.agent, <<c.task>>)
    /\ phase \in {"agents", "events"} => \A a \in Agents : c.agent \notin detected[a]
    /\ ~fence => \A b \in Reachable(c.agent) : Prevails(NearestBid(c.agent, c.task), b, c.task)

NearestInv == OwnerInv /\ BidsInv /\ CommitsInv

(* Of two claims at most one is better.                                    *)
LEMMA NearestOrder ==
  ASSUME Policy = "nearest", NEW t \in Tasks, NEW x, NEW y, Honest(x, t), Honest(y, t)
  PROVE  ~(Better(x, y) /\ Better(y, x))
<1>1. /\ x.bidder \in Nat /\ y.bidder \in Nat /\ x.distance \in Nat /\ y.distance \in Nat
  BY AloneFacts, IdsAssumption DEF Honest
<1> QED
  BY <1>1 DEF Better

LEMMA NearestBidFacts ==
  ASSUME NEW a, NEW t
  PROVE  NearestBid(a, t).bidder = a /\ NearestBid(a, t).distance = Alone(a, t).distance
BY DEF NearestBid, Bid

(* Honest claims of one bidder compare alike.                              *)
LEMMA PrevailsAlike ==
  ASSUME Policy = "nearest", NEW t, NEW b, NEW x, Honest(x, t), Prevails(x, b, t)
  PROVE  Prevails(NearestBid(x.bidder, t), b, t)
<1>1. /\ NearestBid(x.bidder, t).bidder = x.bidder
      /\ NearestBid(x.bidder, t).distance = x.distance
  BY NearestBidFacts DEF Honest
<1> QED
  BY <1>1 DEF Prevails, Better

(* The claims an agent compares are honest, if those it heard are.         *)
LEMMA ClaimsAreHonest ==
  ASSUME NEW a \in Agents, NEW t, NEW own, NEW peers,
         t \in DOMAIN own => Honest(own[t], t),
         \A b \in DOMAIN peers :
           /\ t \in DOMAIN peers[b].bids => Honest(peers[b].bids[t], t)
           /\ t \in DOMAIN peers[b].winners => Honest(peers[b].winners[t].bid, t)
  PROVE  \A x \in Claims(a, t, own, peers) : Honest(x, t)
<1> SUFFICES ASSUME NEW b \in Agents, NEW x \in Claim(a, t, b, own, peers)
             PROVE  Honest(x, t)
  BY DEF Claims
<1>1. CASE b = a
  BY <1>1 DEF Claim
<1>2. CASE b # a
  <2>1. x \in Relays(a, t, b, peers) \/ x \in Origin(t, b, peers)
    BY <1>2 DEF Claim, Newest, Fresh
  <2>2. CASE x \in Relays(a, t, b, peers)
    BY <2>2 DEF Relays
  <2>3. CASE x \in Origin(t, b, peers)
    BY <2>3 DEF Origin
  <2> QED
    BY <2>1, <2>2, <2>3
<1> QED
  BY <1>1, <1>2

(* The bids and winners of an agent's next state.                          *)
LEMMA NextStateBids ==
  ASSUME Policy = "nearest", NEW a \in Agents, NEW peers
  PROVE  LET n    == NextState(a, peers)
             free == open \ DOMAIN Owners(a, peers)
         IN /\ DOMAIN n.bids = {t \in free : Feasible(a, <<t>>)}
            /\ \A t \in DOMAIN n.bids : /\ n.bids[t].bidder = a
                                        /\ n.bids[t].distance = Alone(a, t).distance
            /\ \A t \in DOMAIN n.winners :
                 t \in free /\ n.winners[t].bid \in WinnerFor(a, t, n.bids, peers)
<1> DEFINE n     == NextState(a, peers)
           owned == Owners(a, peers)
           free  == open \ DOMAIN owned
           bids  == Versioned(a, NearestBids(a, free))
<1>1. NextState(a, peers) = Concluded(a, peers, owned, bids, <<>>)
  BY Zenon DEF NextState, Built
<1> DEFINE won == [t \in {u \in free : WinnerFor(a, u, bids, peers) # {}} |->
                     CHOOSE w \in WinnerFor(a, t, bids, peers) : TRUE]
           winners == [t \in DOMAIN won |->
                         [bid |-> won[t], path |-> WinnerPath(a, t, won[t], peers)]]
           r == [sender |-> a, epoch |-> epoch, version |-> 0, bids |-> bids,
                 winners |-> winners, bundle |-> <<>>, owners |-> owned]
<1>2. n = Revised(a, r)
  BY <1>1, Zenon DEF Concluded
<1>3. n.bids = bids /\ n.winners = winners
  <2> HIDE DEF bids, winners, owned
  <2> QED
    BY <1>2 DEF Revised
<1>4. /\ DOMAIN bids = {t \in free : Feasible(a, <<t>>)}
      /\ \A t \in DOMAIN bids : bids[t].bidder = a /\ bids[t].distance = Alone(a, t).distance
  <2> HIDE DEF free
  <2>1. /\ DOMAIN NearestBids(a, free) = {t \in free : Feasible(a, <<t>>)}
        /\ \A t \in DOMAIN NearestBids(a, free) : NearestBids(a, free)[t] = NearestBid(a, t)
    BY DEF NearestBids, NearestBid
  <2>2. /\ DOMAIN bids = DOMAIN NearestBids(a, free)
        /\ \A t \in DOMAIN bids : \E v : bids[t] = [NearestBids(a, free)[t] EXCEPT !.version = v]
    BY Zenon DEF Versioned
  <2>3. \A t, v : /\ [NearestBid(a, t) EXCEPT !.version = v].bidder = a
                  /\ [NearestBid(a, t) EXCEPT !.version = v].distance = Alone(a, t).distance
    BY DEF NearestBid, Bid
  <2> HIDE DEF bids
  <2>4. ASSUME NEW t \in DOMAIN bids
        PROVE  bids[t].bidder = a /\ bids[t].distance = Alone(a, t).distance
    <3>1. PICK v : bids[t] = [NearestBids(a, free)[t] EXCEPT !.version = v]
      BY <2>2
    <3>2. bids[t] = [NearestBid(a, t) EXCEPT !.version = v]
      BY <2>1, <2>2, <3>1
    <3> QED
      BY <2>3, <3>2, Zenon
  <2> QED
    BY <2>1, <2>2, <2>4
<1>5. \A t \in DOMAIN winners : t \in free /\ winners[t].bid \in WinnerFor(a, t, bids, peers)
  <2> HIDE DEF bids, free
  <2>1. ASSUME NEW t \in DOMAIN winners
        PROVE  t \in free /\ winners[t].bid \in WinnerFor(a, t, bids, peers)
    <3>1. t \in free /\ WinnerFor(a, t, bids, peers) # {}
      OBVIOUS
    <3>2. winners[t].bid = CHOOSE w \in WinnerFor(a, t, bids, peers) : TRUE
      OBVIOUS
    <3> QED
      BY <3>1, <3>2
  <2> QED
    BY <2>1
<1> QED
  <2> HIDE DEF n, bids, winners, owned
  <2> QED
    BY <1>3, <1>4, <1>5, Zenon DEF n, owned

(* What an agent acts on: states of its peers, of this epoch, that were    *)
(* there before.                                                           *)
LEMMA UpdatePeers ==
  ASSUME OwnerInv, NEW a \in Agents, Update(a)
  PROVE  \E peers :
           /\ state'[a] = NextState(a, peers) /\ NextState(a, peers).version <= MaxVersion
           /\ heard'[a] = peers
           /\ commits' = commits \cup Commits(a, NextState(a, peers), peers)
           /\ Copies' \subseteq Copies \cup {NextState(a, peers)}
           /\ \A b \in DOMAIN peers : /\ b \in Members(a) /\ peers[b].sender = b
                                      /\ peers[b] \in Copies
<1>1. PICK xs \in [Incoming(a) -> UNION {Transfers(p) : p \in Incoming(a)}] :
        LET got == [b \in Members(a) |-> xs[<<b, a>>].got]
        IN /\ \A p \in Incoming(a) : xs[p] \in Transfers(p)
           /\ heard' = [heard EXCEPT ![a] = Peers(a, got)]
           /\ NextState(a, Peers(a, got)).version <= MaxVersion
           /\ state' = [state EXCEPT ![a] = NextState(a, Peers(a, got))]
           /\ commits' = commits \cup Commits(a, NextState(a, Peers(a, got)), Peers(a, got))
           /\ air' = [p \in Pairs |-> IF p[2] = a THEN xs[p].left ELSE air[p]]
  BY DEF Update, Answer
<1> DEFINE got   == [b \in Members(a) |-> xs[<<b, a>>].got]
           peers == Peers(a, got)
           n     == NextState(a, peers)
<1>2. \A p \in Incoming(a) : xs[p].got \subseteq air[p] /\ xs[p].left \subseteq air[p]
  BY <1>1 DEF Transfers
<1>3. \A b \in Members(a) : <<b, a>> \in Incoming(a) /\ <<b, a>> \in Pairs
  BY DEF Members, Incoming, Pairs
<1>4. \A b \in Members(a) : got[b] \subseteq air[<<b, a>>]
  BY <1>2, <1>3
<1>5. \A p \in Pairs : air'[p] \subseteq air[p]
  BY <1>1, <1>2 DEF Incoming
<1>6. /\ heard' = [heard EXCEPT ![a] = peers] /\ state' = [state EXCEPT ![a] = n]
      /\ commits' = commits \cup Commits(a, n, peers) /\ n.version <= MaxVersion
  BY <1>1, Zenon
<1>7. ASSUME NEW b \in DOMAIN peers
      PROVE  b \in Members(a) /\ peers[b].sender = b /\ peers[b] \in Copies
  <2>1. /\ b \in Members(a)
        /\ peers[b] \in got[b] \/ (b \in DOMAIN heard[a] /\ peers[b] = heard[a][b])
    BY <1>7, PeersAreHeard
  <2> HIDE DEF got, peers
  <2>2. peers[b].sender = b
    <3>1. /\ \A p \in Pairs : \A s \in air[p] : s.sender = p[1]
          /\ \A m \in DOMAIN heard[a] : heard[a][m].sender = m
      BY DEF OwnerInv, SendersInv
    <3>2. \A s \in air[<<b, a>>] : s.sender = b
      BY <1>3, <2>1, <3>1
    <3> QED
      BY <1>4, <2>1, <3>1, <3>2
  <2>3. peers[b] \in Copies
    BY <1>3, <1>4, <2>1, CopyKinds
  <2> QED BY <2>1, <2>2, <2>3
<1> HIDE DEF got, peers, n
<1>8. /\ state'[a] = n /\ heard'[a] = peers
      /\ \A b \in Agents \ {a} : state'[b] = state[b] /\ heard'[b] = heard[b]
  BY <1>6 DEF OwnerInv, VersionInv, Shapes
<1>9. Copies' \subseteq Copies \cup {n}
  <2> SUFFICES ASSUME NEW c \in Copies' PROVE c \in Copies \cup {n}
    OBVIOUS
  <2>1. \/ \E b \in Agents : c = state'[b]
        \/ \E p \in Pairs : c \in air'[p]
        \/ \E b \in Agents : \E d \in DOMAIN heard'[b] : c = heard'[b][d]
    BY CopyKindsNext
  <2> QED BY <2>1, <1>5, <1>7, <1>8, CopyKinds
<1> QED
  BY <1>6, <1>7, <1>8, <1>9, Zenon DEF n

(* The update of an agent: its state is honest, and what it commits        *)
(* prevails over every agent it can reach, all of which agreed.            *)
LEMMA UpdateNearest ==
  ASSUME Policy = "nearest", NearestInv, NEW a \in Agents, Update(a)
  PROVE  BidsInv' /\ CommitsInv'
<1>1. PICK peers :
        /\ state'[a] = NextState(a, peers)
        /\ commits' = commits \cup Commits(a, NextState(a, peers), peers)
        /\ Copies' \subseteq Copies \cup {NextState(a, peers)}
        /\ \A b \in DOMAIN peers : /\ b \in Members(a) /\ peers[b].sender = b
                                   /\ peers[b] \in Copies
  BY UpdatePeers DEF NearestInv
<1> DEFINE n == NextState(a, peers)
<1>2. /\ phase = "agents" /\ turn = a /\ UNCHANGED <<vehicles, fence, open, owner>>
      /\ detected' = detected /\ blocked' = blocked /\ fence' = fence
  BY DEF Update, tasks, vehicles
<1>3. a \in alive /\ \A b \in Agents : a \notin detected[b]
  BY <1>2 DEF NearestInv, OwnerInv, WorldInv
<1>4. /\ \A t \in DOMAIN n.bids : /\ t \in open /\ Feasible(a, <<t>>) /\ n.bids[t].bidder = a
                                  /\ n.bids[t].distance = Alone(a, t).distance
      /\ \A t \in DOMAIN n.winners :
           /\ t \in open /\ n.winners[t].bid \in WinnerFor(a, t, n.bids, peers)
           /\ Feasible(a, <<t>>) => t \in DOMAIN n.bids
  BY NextStateBids
<1>5. n.sender = a
  <2>1. state[a] \in Copies
    BY CopyKinds
  <2> QED BY <2>1, NextStateFacts DEF NearestInv, OwnerInv, VersionInv, Shapes
<1> HIDE DEF n
<1>6. \A t \in DOMAIN n.bids : Honest(n.bids[t], t)
  BY <1>4 DEF Honest
<1>7. ASSUME NEW t \in DOMAIN n.winners
      PROVE  Honest(n.winners[t].bid, t) /\ Prevails(n.winners[t].bid, a, t)
  <2> DEFINE w == n.winners[t].bid
  <2>1. /\ w \in Claims(a, t, n.bids, peers)
        /\ \A y \in Claims(a, t, n.bids, peers) : w = y \/ Better(w, y)
    BY <1>4, <1>7 DEF WinnerFor
  <2>2. Honest(w, t)
    <3>1. \A b \in DOMAIN peers :
            /\ t \in DOMAIN peers[b].bids => Honest(peers[b].bids[t], t)
            /\ t \in DOMAIN peers[b].winners => Honest(peers[b].winners[t].bid, t)
      BY <1>1 DEF NearestInv, BidsInv
    <3> HIDE DEF w
    <3> QED
      BY <1>6, <2>1, <3>1, ClaimsAreHonest
  <2>3. ASSUME Feasible(a, <<t>>) PROVE w.bidder = a \/ Better(w, NearestBid(a, t))
    <3>1. t \in DOMAIN n.bids
      BY <1>4, <2>3
    <3>2. n.bids[t] \in Claims(a, t, n.bids, peers)
      BY <3>1 DEF Claims, Claim
    <3>3. w = n.bids[t] \/ Better(w, n.bids[t])
      BY <2>1, <3>2
    <3>4. /\ n.bids[t].bidder = a /\ n.bids[t].distance = Alone(a, t).distance
          /\ NearestBid(a, t).bidder = a /\ NearestBid(a, t).distance = Alone(a, t).distance
      BY <1>4, <3>1, NearestBidFacts
    <3> HIDE DEF w
    <3> QED
      BY <3>3, <3>4 DEF Better
  <2> QED
    BY <2>2, <2>3 DEF Prevails
<1>8. BidsInv'
  <2>1. \A c \in Copies' :
          /\ \A t \in DOMAIN c.bids : Honest(c.bids[t], t)
          /\ \A t \in DOMAIN c.winners : /\ Honest(c.winners[t].bid, t)
                                         /\ Prevails(c.winners[t].bid, c.sender, t)
    BY <1>1, <1>5, <1>6, <1>7 DEF n, NearestInv, BidsInv
  <2> QED
    BY <2>1 DEF BidsInv
<1>9. ASSUME NEW c \in commits'
      PROVE  /\ c.agent \in Agents /\ c.task \in Tasks /\ Feasible(c.agent, <<c.task>>)
             /\ \A b \in Agents : c.agent \notin detected[b]
             /\ ~fence => \A b \in Reachable(c.agent) :
                            Prevails(NearestBid(c.agent, c.task), b, c.task)
  <2>1. CASE c \in commits
    BY <1>2, <2>1 DEF NearestInv, CommitsInv
  <2>2. CASE c \in Commits(a, n, peers)
    <3>1. PICK t \in DOMAIN n.winners :
            /\ c = [agent |-> a, task |-> t, bid |-> n.winners[t].bid]
            /\ n.winners[t].bid.bidder = a
            /\ Agreed(a, t, n.winners[t].bid, peers)
            /\ Feasible(a, <<t>>)
      BY <2>2 DEF Commits
    <3>2. t \in Tasks
      BY <1>4 DEF NearestInv, OwnerInv, WorldInv
    <3>3. ASSUME NEW b \in Reachable(a)
          PROVE  Prevails(NearestBid(a, t), b, t)
      <4>1. b \in DOMAIN peers /\ t \in DOMAIN peers[b].winners
            /\ peers[b].winners[t].bid = n.winners[t].bid
        BY <3>1, <3>3 DEF Agreed
      <4>2. peers[b] \in Copies /\ peers[b].sender = b
        BY <1>1, <4>1
      <4>3. Honest(n.winners[t].bid, t) /\ Prevails(n.winners[t].bid, b, t)
        BY <4>1, <4>2 DEF NearestInv, BidsInv
      <4> QED
        BY <3>1, <4>3, PrevailsAlike
    <3> QED
      BY <1>3, <3>1, <3>2, <3>3
  <2> QED
    BY <1>1, <2>1, <2>2 DEF n
<1>10. CommitsInv'
  <2>1. \A b \in Agents : Reachable(b)' = Reachable(b)
    <3>1. ASSUME NEW b \in Agents PROVE Reachable(b)' = Reachable(b)
      BY <1>2 DEF Reachable, Members
    <3> QED BY <3>1
  <2> SUFFICES ASSUME NEW c \in commits'
               PROVE  /\ c.agent \in Agents /\ c.task \in Tasks /\ Feasible(c.agent, <<c.task>>)
                      /\ phase' \in {"agents", "events"} =>
                           \A b \in Agents : c.agent \notin detected'[b]
                      /\ ~fence' => \A b \in Reachable(c.agent)' :
                                     Prevails(NearestBid(c.agent, c.task), b, c.task)
    BY Zenon DEF CommitsInv
  <2> QED
    BY <1>2, <1>9, <2>1
<1> QED
  BY <1>8, <1>10

LEMMA NearestInit == Init => BidsInv /\ CommitsInv
<1> SUFFICES ASSUME Init PROVE BidsInv /\ CommitsInv
  OBVIOUS
<1>1. \A c \in Copies : DOMAIN c.bids = {} /\ DOMAIN c.winners = {}
  <2>1. \A a \in Agents : /\ state[a] = Blank(a) /\ DOMAIN heard[a] = {}
                          /\ DOMAIN Blank(a).bids = {} /\ DOMAIN Blank(a).winners = {}
    BY DEF Init, Blank, Empty
  <2>2. \A p \in Pairs : air[p] = {}
    BY DEF Init
  <2> QED
    BY <2>1, <2>2, CopyKinds
<1>2. BidsInv
  BY <1>1 DEF BidsInv
<1>3. CommitsInv
  BY Zenon DEF Init, CommitsInv
<1> QED
  BY <1>2, <1>3

(* A step of the simulator tells nothing new; it shows an agent fewer      *)
(* others, or fences the commits.                                          *)
LEMMA NearestFrame ==
  ASSUME NearestInv, Quiet, commits' \subseteq commits,
         \/ fence' = TRUE
         \/ commits' = {}
         \/ fence' = fence /\ \A b \in Agents : Reachable(b)' \subseteq Reachable(b),
         \/ phase' \notin {"agents", "events"}
         \/ commits' = {}
         \/ phase \in {"agents", "events"} /\ detected' = detected
  PROVE  BidsInv' /\ CommitsInv'
<1>1. BidsInv'
  <2>1. Copies' \subseteq Copies
    BY QuietCopies DEF NearestInv
  <2> QED
    BY <2>1 DEF NearestInv, BidsInv
<1>2. CommitsInv'
  <2> SUFFICES ASSUME NEW c \in commits'
               PROVE  /\ c.agent \in Agents /\ c.task \in Tasks /\ Feasible(c.agent, <<c.task>>)
                      /\ phase' \in {"agents", "events"} =>
                           \A b \in Agents : c.agent \notin detected'[b]
                      /\ ~fence' => \A b \in Reachable(c.agent)' :
                                     Prevails(NearestBid(c.agent, c.task), b, c.task)
    BY Zenon DEF CommitsInv
  <2>1. /\ c.agent \in Agents /\ c.task \in Tasks /\ Feasible(c.agent, <<c.task>>)
        /\ phase \in {"agents", "events"} => \A b \in Agents : c.agent \notin detected[b]
        /\ ~fence => \A b \in Reachable(c.agent) :
                       Prevails(NearestBid(c.agent, c.task), b, c.task)
    BY DEF NearestInv, CommitsInv
  <2> QED
    BY <2>1
<1> QED
  BY <1>1, <1>2

LEMMA NearestStep ==
  ASSUME Policy = "nearest", NearestInv, [Next]_vars
  PROVE  BidsInv' /\ CommitsInv'
<1>0. OwnerInv /\ Shapes
  BY DEF NearestInv, OwnerInv, VersionInv
<1>1. ASSUME NEW a \in Agents, Update(a) PROVE BidsInv' /\ CommitsInv'
  BY <1>1, UpdateNearest
<1>2. ASSUME UNCHANGED <<blocked, detected, fence, state, heard, air, commits>>,
             \/ phase' = phase
             \/ phase' \notin {"agents", "events"}
      PROVE  BidsInv' /\ CommitsInv'
  <2>1. Quiet
    BY <1>0, <1>2 DEF Quiet, Shapes
  <2>2. \A b \in Agents : Reachable(b)' \subseteq Reachable(b)
    BY <1>2 DEF Reachable, Members
  <2> QED
    BY <1>2, <2>1, <2>2, NearestFrame
<1>3. ASSUME NEW t \in Tasks, ReleaseTask(t) PROVE BidsInv' /\ CommitsInv'
  BY <1>2, <1>3 DEF ReleaseTask, Event, minds, vehicles
<1>4. ASSUME NEW t \in Tasks, Reject(t) PROVE BidsInv' /\ CommitsInv'
  BY <1>2, <1>4 DEF Reject, Late, minds, vehicles
<1>5. ASSUME NEW t \in Tasks, Close(t) PROVE BidsInv' /\ CommitsInv'
  BY <1>2, <1>5 DEF Close, Late, minds, vehicles
<1>6. ASSUME NEW v \in Agents, DisableVehicle(v) PROVE BidsInv' /\ CommitsInv'
  BY <1>2, <1>6 DEF DisableVehicle, Event, minds
<1>7. ASSUME ApplyFailureDetections PROVE BidsInv' /\ CommitsInv'
  BY <1>2, <1>7 DEF ApplyFailureDetections, minds
<1>8. ASSUME NEW l \in Links, NEW value \in BOOLEAN, SetLinkBlocked(l, value)
      PROVE  BidsInv' /\ CommitsInv'
  <2>1. /\ Quiet /\ commits' = commits /\ fence' = TRUE
        /\ phase = "events" /\ phase' = phase /\ detected' = detected
    BY <1>8 DEF SetLinkBlocked, Event, minds, Quiet
  <2> QED
    BY <2>1, NearestFrame
<1>9. ASSUME ApplyCommits PROVE BidsInv' /\ CommitsInv'
  <2>1. \A p \in Pairs : Queued(air[p], state[p[1]]) \subseteq air[p] \cup {state[p[1]]}
    BY DEF Queued
  <2>2. \A p \in Pairs : air'[p] \subseteq air[p] \cup {state[p[1]]}
    BY <1>9, <2>1 DEF ApplyCommits
  <2>3. Quiet /\ commits' = commits /\ fence' = fence /\ phase' = "tasks"
    BY <1>9, <2>2 DEF ApplyCommits, minds, Quiet
  <2>4. \A b \in Agents : Reachable(b)' \subseteq Reachable(b)
    BY <1>9 DEF ApplyCommits, vehicles, Reachable, Members
  <2> QED
    BY <2>3, <2>4, NearestFrame
<1>10. ASSUME NEW a \in Agents, NEW v \in Agents, Detect(a, v) PROVE BidsInv' /\ CommitsInv'
  <2>1. /\ Quiet /\ commits' = commits /\ fence' = fence /\ phase' = "tasks"
    BY <1>0, <1>10 DEF Detect, clock, minds, Quiet, Shapes
  <2>2. \A b \in Agents : Reachable(b)' \subseteq Reachable(b)
    <3>1. blocked' = blocked /\ detected' = [detected EXCEPT ![a] = @ \cup {v}]
      BY <1>10 DEF Detect
    <3>2. \A b \in Agents : detected[b] \subseteq detected'[b]
      BY <1>0, <3>1 DEF OwnerInv, WorldInv
    <3> QED
      BY <3>1, <3>2 DEF Reachable, Members
  <2> QED
    BY <2>1, <2>2, NearestFrame
<1>11. ASSUME EndTick PROVE BidsInv' /\ CommitsInv'
  <2>1. Quiet /\ commits' = {}
    BY <1>0, <1>11 DEF EndTick, Quiet, Shapes
  <2> QED
    BY <2>1, NearestFrame
<1>12. ASSUME UNCHANGED vars PROVE BidsInv' /\ CommitsInv'
  BY <1>2, <1>12 DEF vars, clock, vehicles, minds
<1> QED
  BY <1>1, <1>3, <1>4, <1>5, <1>6, <1>7, <1>8, <1>9, <1>10, <1>11, <1>12 DEF Next, Detection

LEMMA NearestInvariant == Policy = "nearest" => (Spec => []NearestInv)
<1> SUFFICES ASSUME Policy = "nearest" PROVE Spec => []NearestInv
  OBVIOUS
<1>1. Init => NearestInv
  BY OwnersInit, NearestInit DEF NearestInv
<1>2. NearestInv /\ [Next]_vars => NearestInv'
  BY OwnersStep, NearestStep DEF NearestInv
<1> QED
  BY <1>1, <1>2, PTL DEF Spec

(* Under the policy "nearest", agents that can reach each other never both *)
(* commit a task in one tick, whatever each of them last heard: each would *)
(* have had to prevail over the other (peers_agree).                       *)
THEOREM OneCommitterHolds == Policy = "nearest" => (Spec => []OneCommitter)
<1> SUFFICES ASSUME Policy = "nearest" PROVE Spec => []OneCommitter
  OBVIOUS
<1>1. ASSUME NearestInv, phase = "events", ~fence, NEW c \in commits, NEW d \in commits,
             c.task = d.task, c.agent # d.agent
      PROVE  c.agent \notin Reachable(d.agent)
  <2> SUFFICES ASSUME c.agent \in Reachable(d.agent) PROVE FALSE
    OBVIOUS
  <2> DEFINE t == c.task
             x == NearestBid(c.agent, t)
             y == NearestBid(d.agent, t)
  <2>1. /\ c.agent \in Agents /\ d.agent \in Agents /\ t \in Tasks
        /\ Feasible(c.agent, <<t>>) /\ Feasible(d.agent, <<t>>)
        /\ d.agent \notin detected[c.agent]
        /\ \A b \in Reachable(c.agent) : Prevails(x, b, t)
        /\ \A b \in Reachable(d.agent) : Prevails(y, b, t)
    BY <1>1 DEF NearestInv, CommitsInv
  <2>2. d.agent \in Reachable(c.agent)
    BY <1>1, <2>1 DEF Reachable, Members, Link
  <2>3. x.bidder = c.agent /\ y.bidder = d.agent /\ Honest(x, t) /\ Honest(y, t)
    BY <2>1, NearestBidFacts DEF Honest
  <2>4. Better(x, y) /\ Better(y, x)
    BY <1>1, <2>1, <2>2, <2>3 DEF Prevails
  <2> QED
    BY <2>1, <2>3, <2>4, NearestOrder
<1>2. NearestInv => OneCommitter
  BY <1>1 DEF OneCommitter
<1> QED
  BY <1>2, NearestInvariant, PTL

(* Under the policy "nearest", the agent that gets a task is preferable to *)
(* every agent it can reach that could do the task, heard of or not.       *)
THEOREM NearestWinsHolds == Policy = "nearest" => (Spec => NearestWins)
<1> SUFFICES ASSUME Policy = "nearest" PROVE Spec => NearestWins
  OBVIOUS
<1> DEFINE Wins(t) ==
      LET a == owner'[t].agent
      IN \A b \in Reachable(a) : Feasible(b, <<t>>) => ~Better(NearestBid(b, t), NearestBid(a, t))
<1>1. ASSUME NearestInv, [Next]_vars, NEW t \in Tasks, owner[t] = Nobody, owner'[t] # Nobody
      PROVE  Wins(t)
  <2>1. ApplyCommits
    <3>1. ASSUME NEW u \in Tasks, Reject(u) PROVE FALSE
      BY <1>1, <3>1 DEF Reject, NearestInv, OwnerInv, WorldInv
    <3>2. ASSUME ApplyFailureDetections PROVE FALSE
      BY <1>1, <3>2 DEF ApplyFailureDetections
    <3>3. \/ owner' = owner \/ ApplyCommits \/ ApplyFailureDetections
          \/ \E u \in Tasks : Reject(u)
      BY <1>1 DEF Next, Update, ReleaseTask, Close, SetLinkBlocked, DisableVehicle, Detection,
                  Detect, EndTick, tasks, vars
    <3> QED
      BY <1>1, <3>1, <3>2, <3>3
  <2>2. Winning(t) # {} /\ owner'[t].agent = (CHOOSE c \in Winning(t) : TRUE).agent
    <3>1. owner'[t] = IF Winning(t) = {} THEN owner[t]
                      ELSE LET c == CHOOSE x \in Winning(t) : TRUE
                           IN [agent |-> c.agent, epoch |-> epoch, version |-> c.bid.version,
                               score |-> c.bid.score, pos |-> c.bid.pos]
      BY <2>1, Zenon DEF ApplyCommits
    <3> QED
      BY <1>1, <3>1
  <2>3. PICK c \in Winning(t) : owner'[t].agent = c.agent
    BY <2>2
  <2>4. c \in commits /\ c.task = t /\ ~fence
    BY <2>3 DEF Winning
  <2>5. /\ c.agent \in Agents
        /\ \A b \in Reachable(c.agent) : Prevails(NearestBid(c.agent, t), b, t)
    BY <1>1, <2>4 DEF NearestInv, CommitsInv
  <2> SUFFICES ASSUME NEW b \in Reachable(c.agent), Feasible(b, <<t>>)
               PROVE  ~Better(NearestBid(b, t), NearestBid(c.agent, t))
    BY <2>3
  <2>6. b \in Agents /\ b # c.agent
    BY DEF Reachable, Members
  <2>7. Honest(NearestBid(b, t), t) /\ Honest(NearestBid(c.agent, t), t)
        /\ NearestBid(c.agent, t).bidder = c.agent
    BY <2>5, <2>6, NearestBidFacts DEF Honest
  <2>8. Better(NearestBid(c.agent, t), NearestBid(b, t))
    BY <2>5, <2>6, <2>7 DEF Prevails
  <2> QED
    BY <2>7, <2>8, NearestOrder
<1>2. NearestInv /\ [Next]_vars =>
        [\A t \in Tasks : owner[t] = Nobody /\ owner'[t] # Nobody =>
           LET a == owner'[t].agent
           IN \A b \in Reachable(a) : Feasible(b, <<t>>) =>
                ~Better(Bid(b, Alone(b, t), 0), Bid(a, Alone(a, t), 0))]_vars
  BY <1>1 DEF NearestBid
<1> QED
  BY <1>2, NearestInvariant, PTL DEF Spec, NearestWins

-----------------------------------------------------------------------------
(* Types.  Of the paths by which an agent can know of a winner there is a  *)
(* first one: of the shortest, one that is least in ever more places.      *)
LEMMA FirstPath ==
  ASSUME NEW S \in SUBSET Seq(Nat), S # {}
  PROVE  \E p \in S : \A q \in S : p = q \/ Before(p, q)
<1>1. PICK n \in {Len(p) : p \in S} : \A m \in {Len(p) : p \in S} : n <= m
  <2>1. {Len(p) : p \in S} \subseteq Nat /\ {Len(p) : p \in S} # {}
    <3>1. \A p \in S : Len(p) \in Nat
      OBVIOUS
    <3> QED
      BY <3>1
  <2> QED
    BY <2>1, LeastNumber
<1> DEFINE short == {p \in S : Len(p) = n}
           Leads(p, q, k) == \/ \A j \in 1..k : p[j] = q[j]
                             \/ \E i \in 1..k : p[i] < q[i] /\ \A j \in 1..(i - 1) : p[j] = q[j]
           K == {k \in Nat : \E p \in short : \A q \in short : Leads(p, q, k)}
<1>2. n \in Nat /\ short # {} /\ \A p \in short : \A i \in 1..n : p[i] \in Nat
  BY <1>1
<1> HIDE DEF short
<1>3. 0 \in K
  BY <1>2
<1>4. ASSUME NEW k \in 0..(n - 1), k \in K
      PROVE  k + 1 \in K
  <2>1. PICK p \in short : \A q \in short : Leads(p, q, k)
    BY <1>4
  <2> DEFINE same == {q \in short : \A j \in 1..k : q[j] = p[j]}
             N == {q[k + 1] : q \in same}
  <2>2. N \subseteq Nat /\ N # {}
    <3>1. k + 1 \in 1..n /\ p \in same
      BY <1>2
    <3> QED
      BY <1>2, <3>1
  <2>3. PICK q \in same : \A r \in same : q[k + 1] <= r[k + 1]
    <3> HIDE DEF N
    <3>1. PICK m \in N : \A x \in N : m <= x
      BY <2>2, LeastNumber
    <3> QED
      BY <3>1 DEF N
  <2>4. ASSUME NEW r \in short
        PROVE  Leads(q, r, k + 1)
    <3>0. k \in Nat /\ q \in short /\ \A j \in 1..k : q[j] = p[j]
      BY <2>3
    <3>1. CASE \A j \in 1..k : p[j] = r[j]
      <4>1. r \in same /\ q[k + 1] <= r[k + 1] /\ q[k + 1] \in Nat /\ r[k + 1] \in Nat
        BY <1>2, <2>3, <3>0, <3>1
      <4>2. \A j \in 1..k : q[j] = r[j]
        BY <3>0, <3>1
      <4>3. CASE q[k + 1] = r[k + 1]
        <5>1. \A j \in 1..(k + 1) : j \in 1..k \/ j = k + 1
          BY <3>0
        <5>2. \A j \in 1..(k + 1) : q[j] = r[j]
          BY <4>2, <4>3, <5>1
        <5> QED
          BY <5>2
      <4>4. CASE q[k + 1] < r[k + 1]
        <5>1. k + 1 \in 1..(k + 1) /\ 1..(k + 1 - 1) = 1..k
          BY <3>0
        <5> QED
          BY <4>2, <4>4, <5>1
      <4> QED
        BY <4>1, <4>3, <4>4
    <3>2. CASE \E i \in 1..k : p[i] < r[i] /\ \A j \in 1..(i - 1) : p[j] = r[j]
      <4>1. PICK i \in 1..k : p[i] < r[i] /\ \A j \in 1..(i - 1) : p[j] = r[j]
        BY <3>2
      <4>2. i \in 1..(k + 1) /\ q[i] = p[i] /\ \A j \in 1..(i - 1) : q[j] = p[j]
        BY <3>0
      <4>3. q[i] < r[i] /\ \A j \in 1..(i - 1) : q[j] = r[j]
        BY <4>1, <4>2
      <4> QED
        BY <4>2, <4>3
    <3> QED
      BY <2>1, <3>1, <3>2
  <2>5. q \in short /\ k + 1 \in Nat
    BY <2>3
  <2> QED
    BY <2>4, <2>5
<1>5. n \in K
  <2> HIDE DEF K
  <2>1. 0..n \subseteq K
    BY <1>2, <1>3, <1>4, InductionUpTo
  <2> QED
    BY <1>2, <2>1
<1>6. PICK p \in short : \A q \in short : Leads(p, q, n)
  BY <1>5
<1>7. ASSUME NEW q \in S
      PROVE  p = q \/ Before(p, q)
  <2>1. p \in S /\ Len(p) = n /\ n <= Len(q) /\ Len(q) \in Nat
    BY <1>1 DEF short
  <2>2. CASE n < Len(q)
    BY <2>1, <2>2 DEF Before
  <2>3. CASE Len(q) = n
    <3>1. Leads(p, q, n)
      BY <1>6, <2>3 DEF short
    <3>2. (\A j \in 1..n : p[j] = q[j]) => p = q
      BY <2>1, <2>3
    <3> QED
      BY <2>1, <2>3, <3>1, <3>2 DEF Before
  <2> QED
    BY <1>2, <2>1, <2>2, <2>3
<1>8. p \in S
  BY DEF short
<1> QED
  BY <1>7, <1>8

BidType(n) == [bidder : Agents, version : 0..n, score : Int, distance : Int, energy : Int,
               completion : Int, pos : Nat]

(* What a bundle builder returns: bids of a for some of the free tasks.    *)
Buildable(a, free, b) ==
  /\ DOMAIN b.bids \subseteq free
  /\ \A t \in DOMAIN b.bids : b.bids[t] \in BidType(MaxVersion) /\ b.bids[t].bidder = a
  /\ Policy = "cbba" => b.order \in Seq(Tasks) /\ ToSet(b.order) = DOMAIN b.bids

WinnerTyped(w) ==
  /\ w.bid \in BidType(MaxVersion)
  /\ w.path \in Seq(Agents) \ {<<>>}
  /\ Head(w.path) = w.bid.bidder

(* A state with the bids of its sender, made in this version or before, of *)
(* which no one has the task; the winners as its sender knows of them; and *)
(* the owners.                                                             *)
BidsTyped(c) ==
  /\ DOMAIN c.bids \subseteq Tasks
  /\ \A t \in DOMAIN c.bids : c.bids[t] \in BidType(c.version) /\ c.bids[t].bidder = c.sender
  /\ Policy = "cbba" => c.bundle \in Seq(Tasks) /\ ToSet(c.bundle) = DOMAIN c.bids

WinnersTyped(c) ==
  /\ DOMAIN c.winners \subseteq Tasks
  /\ \A t \in DOMAIN c.winners : WinnerTyped(c.winners[t]) /\ Last(c.winners[t].path) = c.sender

OwnersTyped(c) ==
  /\ DOMAIN c.owners \subseteq Tasks
  /\ \A t \in DOMAIN c.owners : c.owners[t] \in Holding

CopyTyped(c) ==
  /\ c.sender \in Agents /\ c.version \in 0..MaxVersion
  /\ BidsTyped(c) /\ WinnersTyped(c) /\ OwnersTyped(c)
  /\ DOMAIN c.bids \cap DOMAIN c.owners = {} /\ DOMAIN c.winners \cap DOMAIN c.owners = {}

CommitTyped(c) == c.agent \in Agents /\ c.task \in Tasks /\ c.bid \in BidType(MaxVersion)

ClockTyped ==
  /\ phase \in {"agents", "events", "commits", "tasks"}
  /\ turn \in (IF phase = "agents" THEN alive ELSE {0})
  /\ beat \in 0..(Interval - 1) /\ lapses \in 0..MaxLapses /\ events \in 0..MaxEvents

FleetTyped ==
  /\ owner \in [Tasks -> Holding]
  /\ alive \in (SUBSET Agents) \ {{}} /\ announced \subseteq Agents \ alive
  /\ detected \in [Agents -> SUBSET (Agents \ alive)]
  /\ blocked \subseteq Links /\ fence \in BOOLEAN /\ senders \subseteq Agents
  /\ \A a \in Agents : DOMAIN heard[a] \subseteq Members(a)

TypeInv ==
  /\ OwnerInv /\ ClockTyped /\ FleetTyped
  /\ \A c \in Copies : CopyTyped(c)
  /\ \A c \in commits : CommitTyped(c)

(* The winner an agent names is a claim it has, by a path on which it      *)
(* stands last: winner_path always finds one.                              *)
LEMMA ClaimsAreTyped ==
  ASSUME NEW a \in Agents, NEW t, NEW own, NEW peers,
         t \in DOMAIN own => own[t] \in BidType(MaxVersion),
         \A b \in DOMAIN peers :
           /\ t \in DOMAIN peers[b].bids => peers[b].bids[t] \in BidType(MaxVersion)
           /\ t \in DOMAIN peers[b].winners => WinnerTyped(peers[b].winners[t])
  PROVE  \A x \in Claims(a, t, own, peers) : x \in BidType(MaxVersion)
<1> SUFFICES ASSUME NEW b \in Agents, NEW x \in Claim(a, t, b, own, peers)
             PROVE  x \in BidType(MaxVersion)
  BY DEF Claims
<1>1. CASE b = a
  BY <1>1 DEF Claim
<1>2. CASE b # a
  <2>1. x \in Relays(a, t, b, peers) \/ x \in Origin(t, b, peers)
    BY <1>2 DEF Claim, Newest, Fresh
  <2>2. CASE x \in Relays(a, t, b, peers)
    BY <2>2 DEF Relays, WinnerTyped
  <2>3. CASE x \in Origin(t, b, peers)
    BY <2>3 DEF Origin
  <2> QED
    BY <2>1, <2>2, <2>3
<1> QED
  BY <1>1, <1>2

LEMMA PathsAreTyped ==
  ASSUME NEW a \in Agents, NEW t, NEW own, NEW peers, NEW w,
         t \in DOMAIN own => own[t].bidder = a,
         \A b \in DOMAIN peers :
           /\ t \in DOMAIN peers[b].bids => peers[b].bids[t].bidder = b
           /\ t \in DOMAIN peers[b].winners => WinnerTyped(peers[b].winners[t]),
         w \in Claims(a, t, own, peers), w.bidder \in Agents
  PROVE  LET p == WinnerPath(a, t, w, peers)
         IN p \in Seq(Agents) \ {<<>>} /\ Head(p) = w.bidder /\ Last(p) = a
<1> DEFINE all == IF w.bidder = a THEN {<<a>>} ELSE Paths(a, t, w, peers)
           Fit(p) == p \in Seq(Agents) \ {<<>>} /\ Head(p) = w.bidder /\ Last(p) = a
<1>1. \A p \in all : Fit(p)
  <2>1. CASE w.bidder = a
    <3>1. Len(<<a>>) = 1 /\ <<a>>[1] = a /\ <<a>> \in Seq(Agents) /\ <<a>> # <<>>
          /\ Head(<<a>>) = a
      OBVIOUS
    <3>2. Last(<<a>>) = a
      BY <3>1 DEF Last
    <3> QED
      BY <2>1, <3>1, <3>2
  <2>2. CASE w.bidder # a /\ w \in Origin(t, w.bidder, peers)
    <3> DEFINE p == <<w.bidder, a>>
    <3>1. all = {p}
      BY <2>2 DEF Paths
    <3>2. Len(p) = 2 /\ p[2] = a /\ p \in Seq(Agents) /\ p # <<>> /\ Head(p) = w.bidder
      OBVIOUS
    <3>3. Last(p) = a
      BY <3>2 DEF Last
    <3>4. Fit(p)
      BY <3>2, <3>3
    <3> HIDE DEF p, all, Fit
    <3> QED
      BY <3>1, <3>4
  <2>3. CASE w.bidder # a /\ w \notin Origin(t, w.bidder, peers)
    <3> SUFFICES ASSUME NEW p \in Paths(a, t, w, peers) PROVE Fit(p)
      BY <2>3
    <3>1. PICK q \in DOMAIN peers : /\ t \in DOMAIN peers[q].winners
                                    /\ peers[q].winners[t].bid = w
                                    /\ p = Append(peers[q].winners[t].path, a)
      BY <2>3 DEF Paths
    <3> DEFINE r == peers[q].winners[t].path
    <3>2. r \in Seq(Agents) /\ r # <<>> /\ Head(r) = w.bidder
      BY <3>1 DEF WinnerTyped
    <3> HIDE DEF r
    <3>3. p = Append(r, a)
      BY <3>1 DEF r
    <3> QED
      BY <3>2, <3>3 DEF Last
  <2> QED
    BY <2>1, <2>2, <2>3
<1>2. all # {}
  <2>1. CASE w.bidder = a
    BY <2>1
  <2>2. CASE w.bidder # a
    <3>1. PICK b \in Agents : w \in Claim(a, t, b, own, peers)
      BY DEF Claims
    <3>2. b # a
      BY <2>2, <3>1 DEF Claim
    <3>3. w \in Relays(a, t, b, peers) \/ w \in Origin(t, b, peers)
      BY <3>1, <3>2 DEF Claim, Newest, Fresh
    <3>4. CASE w \in Origin(t, b, peers)
      <4>1. w.bidder = b
        BY <3>4 DEF Origin
      <4> QED
        BY <2>2, <3>4, <4>1 DEF Paths
    <3>5. CASE w \in Relays(a, t, b, peers)
      <4>1. PICK q \in DOMAIN peers : /\ t \in DOMAIN peers[q].winners
                                      /\ peers[q].winners[t].bid = w
                                      /\ a \notin ToSet(peers[q].winners[t].path)
        BY <3>5 DEF Relays
      <4> QED
        BY <2>2, <4>1 DEF Paths
    <3> QED
      BY <3>3, <3>4, <3>5
  <2> QED
    BY <2>1, <2>2
<1>3. \E p \in all : \A q \in all : p = q \/ Before(p, q)
  <2> HIDE DEF all
  <2>1. all \in SUBSET Seq(Nat)
    <3>1. ASSUME NEW s \in Seq(Agents) PROVE s \in Seq(Nat)
      <4>1. \A x \in Agents : x \in Nat
        BY IdsAssumption
      <4>2. Len(s) \in Nat /\ s = [i \in 1..Len(s) |-> s[i]] /\ \A i \in 1..Len(s) : s[i] \in Agents
        OBVIOUS
      <4>3. \A i \in 1..Len(s) : s[i] \in Nat
        BY <4>1, <4>2
      <4> QED
        BY <4>2, <4>3
    <3> QED
      BY <1>1, <3>1
  <2> QED
    BY <1>2, <2>1, FirstPath
<1>4. WinnerPath(a, t, w, peers) = CHOOSE p \in all : \A q \in all : p = q \/ Before(p, q)
  BY <1>2 DEF WinnerPath
<1> HIDE DEF all
<1>5. WinnerPath(a, t, w, peers) \in all
  BY <1>3, <1>4
<1> QED
  BY <1>1, <1>5

(* Whoever an agent believes to own a task, someone said so.               *)
LEMMA SelectedIsTyped ==
  ASSUME NEW a \in Agents, NEW t \in Tasks, NEW peers,
         owner[t] \in Holding, Nobody \in Holding, OwnersTyped(state[a]),
         \A b \in DOMAIN peers : OwnersTyped(peers[b])
  PROVE  Selected(a, t, peers) \in Holding
<1>1. Shown(a, t) \in Holding
  BY DEF Shown, OwnersTyped
<1>2. \A c \in OwnerClaims(a, t, peers) : c.by \in Holding
  <2> SUFFICES ASSUME NEW c \in OwnerClaims(a, t, peers) PROVE c.by \in Holding
    OBVIOUS
  <2>1. \/ c = [by |-> Shown(a, t), direct |-> Shown(a, t).agent = a]
        \/ \E b \in DOMAIN peers : /\ t \in DOMAIN peers[b].owners
                                   /\ c = [by |-> peers[b].owners[t],
                                           direct |-> peers[b].owners[t].agent = b]
    BY DEF OwnerClaims
  <2> QED
    BY <1>1, <2>1 DEF OwnersTyped
<1> DEFINE all  == {c \in OwnerClaims(a, t, peers) : c.by.agent \notin Denied(a, t, peers)}
           best == {x \in all : \A y \in all : x.by = y.by \/ Outranks(x, y)}
<1>3. Selected(a, t, peers) = IF best = {} THEN Nobody ELSE (CHOOSE x \in best : TRUE).by
  BY DEF Selected
<1>4. \A x \in best : x.by \in Holding
  BY <1>2
<1> HIDE DEF best
<1> QED
  BY <1>3, <1>4

(* What an agent makes of typed states is a typed state, if what it builds *)
(* is.                                                                     *)
LEMMA NextStateTyped ==
  ASSUME NEW a \in Agents, NEW peers, MaxVersion \in Nat,
         CopyTyped(Mind(a)), Mind(a).sender = a, open \subseteq Tasks,
         \A t \in open : Selected(a, t, peers) \in Holding,
         \A b \in DOMAIN peers : CopyTyped(peers[b]) /\ peers[b].sender = b,
         Buildable(a, open \ DOMAIN Owners(a, peers), Built(a, peers, Owners(a, peers))),
         NextState(a, peers).version <= MaxVersion
  PROVE  CopyTyped(NextState(a, peers))
<1> DEFINE n      == NextState(a, peers)
           owned  == Owners(a, peers)
           free   == open \ DOMAIN owned
           built  == Built(a, peers, owned)
           bids   == Versioned(a, built.bids)
           won    == [t \in {u \in free : WinnerFor(a, u, bids, peers) # {}} |->
                        CHOOSE w \in WinnerFor(a, t, bids, peers) : TRUE]
           winners == [t \in DOMAIN won |->
                         [bid |-> won[t], path |-> WinnerPath(a, t, won[t], peers)]]
           m      == Mind(a)
           r(v)   == [sender |-> a, epoch |-> epoch, version |-> v, bids |-> bids,
                      winners |-> winners, bundle |-> built.order, owners |-> owned]
<1>1. n = Revised(a, r(0))
  BY Zenon DEF NextState, Concluded
<1>2. \/ m = r(m.version) /\ n = r(m.version)
      \/ n = r(m.version + 1)
  <2> HIDE DEF bids, winners, built, owned, m
  <2>1. \A v : [r(0) EXCEPT !.version = v] = r(v)
    OBVIOUS
  <2> HIDE DEF r
  <2>2. n = [r(0) EXCEPT !.version = IF m = [r(0) EXCEPT !.version = m.version]
                                     THEN m.version ELSE m.version + 1]
    BY <1>1 DEF Revised, m
  <2> QED
    BY <2>1, <2>2
<1>3. /\ n.sender = a /\ n.bids = bids /\ n.winners = winners /\ n.bundle = built.order
      /\ n.owners = owned /\ n.version \in {m.version, m.version + 1}
      /\ n.version = m.version => m.bids = bids
  <2>1. m.version \in 0..MaxVersion
    BY DEF CopyTyped
  <2> HIDE DEF bids, winners, built, owned, m
  <2> QED
    BY <1>2, <2>1
<1>4. m.version \in 0..MaxVersion /\ n.version \in 0..MaxVersion
  BY <1>3 DEF CopyTyped
<1>5. DOMAIN owned \subseteq open /\ \A t \in DOMAIN owned : owned[t] \in Holding
  <2> DEFINE all == [t \in open |-> Selected(a, t, peers)]
             S   == {t \in open : all[t] # Nobody}
  <2>1. owned = [t \in S |-> all[t]]
    BY DEF Owners, Restrict
  <2> QED
    BY <2>1
<1>6. OwnersTyped(n)
  <2> HIDE DEF n, owned
  <2> QED
    BY <1>3, <1>5 DEF OwnersTyped
<1>7. /\ DOMAIN bids = DOMAIN built.bids
      /\ \A t \in DOMAIN bids : \E v : /\ bids[t] = [built.bids[t] EXCEPT !.version = v]
                                       /\ \/ v = m.version + 1
                                          \/ t \in DOMAIN m.bids /\ v = m.bids[t].version
                                             /\ bids[t] = m.bids[t]
  <2> HIDE DEF built
  <2> DEFINE old(t) == IF t \in DOMAIN m.bids THEN m.bids[t].version ELSE 0
             new(t) == IF old(t) # 0 /\ [built.bids[t] EXCEPT !.version = old(t)] = m.bids[t]
                       THEN old(t) ELSE m.version + 1
  <2>1. bids = [t \in DOMAIN built.bids |-> [built.bids[t] EXCEPT !.version = new(t)]]
    BY Zenon DEF Versioned
  <2> HIDE DEF m, bids
  <2>2. ASSUME NEW t \in DOMAIN bids
        PROVE  \/ new(t) = m.version + 1
               \/ t \in DOMAIN m.bids /\ new(t) = m.bids[t].version
                  /\ [built.bids[t] EXCEPT !.version = new(t)] = m.bids[t]
    OBVIOUS
  <2> HIDE DEF new
  <2> QED
    BY <2>1, <2>2
<1>8. DOMAIN built.bids \subseteq free
      /\ \A t \in DOMAIN built.bids : built.bids[t] \in BidType(MaxVersion)
                                      /\ built.bids[t].bidder = a
  BY DEF Buildable
<1>9. ASSUME NEW t \in DOMAIN bids
      PROVE  bids[t] \in BidType(n.version) /\ bids[t].bidder = a
  <2>1. PICK v : /\ bids[t] = [built.bids[t] EXCEPT !.version = v]
                 /\ \/ v = m.version + 1
                    \/ t \in DOMAIN m.bids /\ v = m.bids[t].version /\ bids[t] = m.bids[t]
    BY <1>7, <1>9
  <2>2. built.bids[t] \in BidType(MaxVersion) /\ built.bids[t].bidder = a
    BY <1>7, <1>8, <1>9
  <2>3. \A s \in DOMAIN m.bids : m.bids[s].version \in 0..m.version
    BY DEF CopyTyped, BidsTyped, BidType
  <2> HIDE DEF bids, built, m, n
  <2>4. bids[t].version = v
    BY <2>1, <2>2 DEF BidType
  <2>5. v \in 0..n.version
    <3>1. CASE n.version = m.version
      BY <1>3, <1>4, <1>9, <2>3, <2>4, <3>1
    <3>2. CASE n.version = m.version + 1
      BY <1>4, <2>1, <2>3, <3>2
    <3> QED
      BY <1>3, <3>1, <3>2
  <2> QED
    BY <2>1, <2>2, <2>5 DEF BidType
<1>10. BidsTyped(n)
  <2>1. DOMAIN bids \subseteq Tasks
    BY <1>7, <1>8
  <2>2. Policy = "cbba" => built.order \in Seq(Tasks) /\ ToSet(built.order) = DOMAIN bids
    BY <1>7 DEF Buildable
  <2> HIDE DEF bids, built, m, n
  <2> QED
    BY <1>3, <1>9, <2>1, <2>2 DEF BidsTyped
<1>11. ASSUME NEW t \in DOMAIN winners
       PROVE  t \in free /\ WinnerTyped(winners[t]) /\ Last(winners[t].path) = a
  <2> DEFINE w == won[t]
  <2>1. t \in free /\ w \in WinnerFor(a, t, bids, peers)
    <3> HIDE DEF bids
    <3> QED
      BY <1>11
  <2>2. w \in Claims(a, t, bids, peers)
    BY <2>1 DEF WinnerFor
  <2>3. t \in DOMAIN bids => bids[t] \in BidType(MaxVersion) /\ bids[t].bidder = a
    <3> HIDE DEF bids, n
    <3> QED
      BY <1>4, <1>9 DEF BidType
  <2>4. \A b \in DOMAIN peers :
           /\ t \in DOMAIN peers[b].bids => /\ peers[b].bids[t] \in BidType(MaxVersion)
                                            /\ peers[b].bids[t].bidder = b
           /\ t \in DOMAIN peers[b].winners => WinnerTyped(peers[b].winners[t])
    <3> SUFFICES ASSUME NEW b \in DOMAIN peers
                 PROVE  /\ t \in DOMAIN peers[b].bids =>
                             /\ peers[b].bids[t] \in BidType(MaxVersion)
                             /\ peers[b].bids[t].bidder = b
                        /\ t \in DOMAIN peers[b].winners => WinnerTyped(peers[b].winners[t])
      OBVIOUS
    <3> DEFINE c == peers[b]
    <3>1. CopyTyped(c) /\ c.sender = b
      OBVIOUS
    <3> HIDE DEF c
    <3>2. c.version \in 0..MaxVersion /\ BidsTyped(c) /\ WinnersTyped(c)
      BY <3>1 DEF CopyTyped
    <3>3. t \in DOMAIN c.bids => c.bids[t] \in BidType(MaxVersion) /\ c.bids[t].bidder = b
      BY <3>1, <3>2 DEF BidsTyped, BidType
    <3>4. t \in DOMAIN c.winners => WinnerTyped(c.winners[t])
      BY <3>2 DEF WinnersTyped
    <3> QED
      BY <3>3, <3>4 DEF c
  <2> HIDE DEF w, bids, won
  <2>5. w \in BidType(MaxVersion)
    BY <2>2, <2>3, <2>4, ClaimsAreTyped
  <2>6. w.bidder \in Agents
    BY <2>5 DEF BidType
  <2>7. /\ WinnerPath(a, t, w, peers) \in Seq(Agents) \ {<<>>}
        /\ Head(WinnerPath(a, t, w, peers)) = w.bidder
        /\ Last(WinnerPath(a, t, w, peers)) = a
    BY <2>2, <2>3, <2>4, <2>6, PathsAreTyped
  <2>8. winners[t] = [bid |-> w, path |-> WinnerPath(a, t, w, peers)]
    BY <1>11 DEF w
  <2>9. winners[t].bid = w /\ winners[t].path = WinnerPath(a, t, w, peers)
    BY <2>8
  <2> HIDE DEF winners
  <2> QED
    BY <2>1, <2>5, <2>7, <2>9 DEF WinnerTyped
<1>12. WinnersTyped(n)
  <2> HIDE DEF winners, n
  <2> QED
    BY <1>3, <1>11 DEF WinnersTyped
<1>13. DOMAIN n.bids \cap DOMAIN n.owners = {} /\ DOMAIN n.winners \cap DOMAIN n.owners = {}
  <2>1. DOMAIN bids \cap DOMAIN owned = {} /\ DOMAIN winners \cap DOMAIN owned = {}
    <3>1. DOMAIN bids \subseteq free /\ DOMAIN winners \subseteq free
      BY <1>7, <1>8
    <3> HIDE DEF bids, winners, owned
    <3> QED
      BY <3>1
  <2> HIDE DEF bids, winners, owned, n
  <2> QED
    BY <1>3, <2>1
<1>14. n.sender = a
  BY <1>3
<1> HIDE DEF n
<1>15. CopyTyped(n)
  BY <1>4, <1>6, <1>10, <1>12, <1>13, <1>14 DEF CopyTyped
<1> QED
  BY <1>15 DEF n

LEMMA TypeInvTypes == TypeInv => TypeOK
<1> SUFFICES ASSUME TypeInv PROVE TypeOK
  OBVIOUS
<1>1. \A c \in Copies : c.epoch \in 0..epoch
  <2> SUFFICES ASSUME NEW c \in Copies PROVE c.epoch \in 0..epoch
    OBVIOUS
  <2>1. /\ c.sender \in Agents /\ c.epoch \in Nat /\ epoch \in Nat
        /\ c.epoch <= state[c.sender].epoch /\ state[c.sender].epoch <= epoch
        /\ state[c.sender] \in Copies
    <3>1. Numbered(c) /\ Older(c, state[c.sender]) /\ epoch \in Nat
      BY DEF TypeInv, OwnerInv, VersionInv, Shapes
    <3>2. state[c.sender] \in Copies /\ state[c.sender].epoch <= epoch
      BY <3>1, CopyKinds DEF TypeInv, OwnerInv, VersionInv, Numbered
    <3>3. Numbered(state[c.sender])
      BY <3>2 DEF TypeInv, OwnerInv, VersionInv
    <3> QED
      BY <3>1, <3>2, <3>3 DEF Numbered, Older
  <2>2. state[c.sender].epoch \in Nat
    BY <2>1 DEF TypeInv, OwnerInv, VersionInv, Numbered
  <2> QED
    BY <2>1, <2>2
<1>2. \A c \in Copies : /\ c.version \in 0..MaxVersion
                        /\ DOMAIN c.bids \cap DOMAIN c.owners = {}
                        /\ DOMAIN c.winners \cap DOMAIN c.owners = {}
  BY DEF TypeInv, CopyTyped
<1>3. ASSUME NEW a \in Agents, NEW t \in DOMAIN state[a].winners
      PROVE  LET path == state[a].winners[t].path
             IN path # <<>> /\ Last(path) = a /\ Head(path) = state[a].winners[t].bid.bidder
  <2>1. CopyTyped(state[a]) /\ state[a].sender = a
    BY CopyKinds DEF TypeInv, OwnerInv, VersionInv
  <2> QED
    BY <2>1 DEF CopyTyped, WinnersTyped, WinnerTyped
<1>4. \A c \in commits : c.agent \in Agents /\ c.task \in Tasks
  BY DEF TypeInv, CommitTyped
<1>5. /\ epoch \in Nat \ {0}
      /\ coming \subseteq Tasks /\ open \subseteq Tasks \ coming
      /\ \A p \in Pairs : \A s \in air[p] : s.sender = p[1]
      /\ \A a \in Agents : state[a].sender = a
  BY DEF TypeInv, OwnerInv, VersionInv, Shapes, WorldInv, SendersInv
<1>6. ClockTyped /\ FleetTyped
  BY DEF TypeInv
<1> QED
  BY <1>1, <1>2, <1>3, <1>4, <1>5, <1>6, Zenon DEF TypeOK, ClockTyped, FleetTyped

(* An agent that has said nothing yet, or nothing in this epoch.           *)
LEMMA BlankTyped == \A a \in Agents : CopyTyped(Blank(a)) /\ Blank(a).sender = a
<1> SUFFICES ASSUME NEW a \in Agents PROVE CopyTyped(Blank(a)) /\ Blank(a).sender = a
  OBVIOUS
<1>1. /\ Blank(a).sender = a /\ Blank(a).version = 0 /\ Blank(a).bundle = <<>>
      /\ Blank(a).bids = Empty /\ Blank(a).winners = Empty /\ Blank(a).owners = Empty
  BY DEF Blank
<1>2. DOMAIN Empty = {} /\ <<>> \in Seq(Tasks) /\ ToSet(<<>>) = {}
  BY DEF Empty, ToSet
<1>3. 0 \in 0..MaxVersion
  BY BoundsAssumption
<1>4. BidsTyped(Blank(a)) /\ WinnersTyped(Blank(a)) /\ OwnersTyped(Blank(a))
  BY <1>1, <1>2 DEF BidsTyped, WinnersTyped, OwnersTyped
<1> QED
  BY <1>1, <1>2, <1>3, <1>4 DEF CopyTyped

LEMMA NobodyTyped == Nobody \in Holding
BY BoundsAssumption DEF Nobody, Holding

LEMMA TypesInit == Init => TypeInv
<1> SUFFICES ASSUME Init PROVE TypeInv
  OBVIOUS
<1>1. OwnerInv
  BY OwnersInit
<1>2. ClockTyped
  BY BoundsAssumption DEF Init, ClockTyped, First
<1>3. FleetTyped
  <2>1. Agents # {}
    BY DEF Init, First
  <2>2. \A a \in Agents : DOMAIN heard[a] = {}
    BY DEF Init, Empty
  <2>3. owner \in [Tasks -> Holding]
    BY NobodyTyped DEF Init
  <2>4. /\ alive = Agents /\ announced = {} /\ detected = [a \in Agents |-> {}]
        /\ blocked = {} /\ fence = FALSE /\ senders = {}
    BY DEF Init
  <2>5. detected \in [Agents -> SUBSET (Agents \ alive)]
    BY <2>4
  <2>6. announced \subseteq Agents \ alive /\ blocked \subseteq Links /\ senders \subseteq Agents
        /\ fence \in BOOLEAN
    BY <2>4
  <2>8. alive \in (SUBSET Agents) \ {{}}
    <3>1. Agents \in (SUBSET Agents) \ {{}}
      BY <2>1
    <3> QED
      BY <2>4, <3>1
  <2>7. \A a \in Agents : DOMAIN heard[a] \subseteq Members(a)
    BY <2>2
  <2> QED
    BY <2>3, <2>5, <2>6, <2>7, <2>8, Zenon DEF FleetTyped
<1>4. \A c \in Copies : CopyTyped(c)
  <2>1. \A a \in Agents : DOMAIN heard[a] = {} /\ state[a] = Blank(a)
    BY DEF Init, Empty
  <2>2. \A p \in Pairs : air[p] = {}
    BY DEF Init
  <2> QED
    BY <2>1, <2>2, CopyKinds, BlankTyped
<1>5. commits = {}
  BY DEF Init
<1> QED
  BY <1>1, <1>2, <1>3, <1>4, <1>5 DEF TypeInv

-----------------------------------------------------------------------------
(* Sequences made of sets, and of sequences.  A set arranged by a strict   *)
(* total order: the place of a member is the number of those before it.    *)
LEMMA ArrangedFacts ==
  ASSUME NEW S, IsFiniteSet(S), NEW R,
         \A x \in S : <<x, x>> \notin R,
         \A x, y \in S : x = y \/ <<x, y>> \in R \/ <<y, x>> \in R,
         \A x, y, z \in S : <<x, y>> \in R /\ <<y, z>> \in R => <<x, z>> \in R
  PROVE  /\ Arranged(S, R) \in Seq(S) /\ ToSet(Arranged(S, R)) = S
         /\ IsInjective(Arranged(S, R))
<1> DEFINE n == Cardinality(S)
           Ahead(x) == {y \in S : <<y, x>> \in R}
           rank == [x \in S |-> Cardinality(Ahead(x))]
           s == Arranged(S, R)
<1>1. n \in Nat /\ \A x \in S : Ahead(x) \in SUBSET S /\ x \notin Ahead(x)
  BY FS_CardinalityType
<1>2. \A x \in S : IsFiniteSet(Ahead(x)) /\ Cardinality(Ahead(x)) \in 0..(n - 1)
  <2> SUFFICES ASSUME NEW x \in S
               PROVE  IsFiniteSet(Ahead(x)) /\ Cardinality(Ahead(x)) \in 0..(n - 1)
    OBVIOUS
  <2> HIDE DEF Ahead
  <2>1. IsFiniteSet(Ahead(x)) /\ Cardinality(Ahead(x)) <= n /\ Cardinality(Ahead(x)) # n
    BY <1>1, FS_Subset
  <2>2. Cardinality(Ahead(x)) \in Nat
    BY <2>1, FS_CardinalityType
  <2> HIDE DEF n
  <2> QED
    BY <1>1, <2>1, <2>2
<1>3. ASSUME NEW x \in S, NEW y \in S, <<x, y>> \in R
      PROVE  Cardinality(Ahead(x)) < Cardinality(Ahead(y))
  <2>1. Ahead(x) \in SUBSET Ahead(y) /\ x \in Ahead(y)
    BY <1>3
  <2>2. Ahead(x) # Ahead(y)
    BY <1>1, <2>1
  <2> HIDE DEF Ahead, n
  <2>3. Cardinality(Ahead(x)) <= Cardinality(Ahead(y)) /\ Cardinality(Ahead(x)) # Cardinality(Ahead(y))
    BY <1>2, <2>1, <2>2, FS_Subset
  <2>4. Cardinality(Ahead(x)) \in Int /\ Cardinality(Ahead(y)) \in Int
    BY <1>2
  <2> QED
    BY <2>3, <2>4
<1>4. rank \in Injection(S, 0..(n - 1))
  <2>1. rank \in [S -> 0..(n - 1)]
    BY <1>2
  <2> HIDE DEF Ahead
  <2>2. \A x \in S : rank[x] = Cardinality(Ahead(x)) /\ rank[x] \in Int
    <3>1. \A x \in S : rank[x] = Cardinality(Ahead(x))
      OBVIOUS
    <3> HIDE DEF rank, n
    <3> QED
      BY <1>1, <1>2, <3>1
  <2> HIDE DEF rank, n
  <2>3. ASSUME NEW x \in S, NEW y \in S, rank[x] = rank[y] PROVE x = y
    <3>1. ASSUME NEW u \in S, NEW v \in S, <<u, v>> \in R PROVE rank[u] < rank[v]
      BY <1>3, <2>2, <3>1
    <3>2. <<x, y>> \notin R /\ <<y, x>> \notin R
      BY <2>2, <2>3, <3>1
    <3> QED
      BY <3>2
  <2> QED
    BY <2>1, <2>3 DEF Injection, IsInjective
<1>5. rank \in Surjection(S, 0..(n - 1))
  <2>1. IsFiniteSet(0..(n - 1)) /\ Cardinality(0..(n - 1)) = n
    <3> HIDE DEF n
    <3> QED
      BY <1>1, FS_Interval
  <2> HIDE DEF rank
  <2> QED
    BY <1>4, <2>1, FS_Injection
<1>6. ASSUME NEW i \in 1..n
      PROVE  s[i] \in S /\ Cardinality(Ahead(s[i])) = i - 1
  <2>1. s[i] = CHOOSE x \in S : Cardinality(Ahead(x)) = i - 1
    BY DEF Arranged
  <2>2. \E x \in S : rank[x] = i - 1
    <3>1. i - 1 \in 0..(n - 1)
      <4> HIDE DEF n
      <4> QED
        BY <1>1
    <3> HIDE DEF rank, n
    <3> QED
      BY <1>5, <3>1 DEF Surjection
  <2>3. \E x \in S : Cardinality(Ahead(x)) = i - 1
    <3> HIDE DEF Ahead
    <3> QED
      BY <2>2
  <2> HIDE DEF Ahead, s
  <2> QED
    BY <2>1, <2>3
<1>7. s \in Seq(S)
  <2> DEFINE f(i) == CHOOSE x \in S : Cardinality({y \in S : <<y, x>> \in R}) = i - 1
  <2>1. s = [i \in 1..n |-> f(i)]
    BY DEF Arranged
  <2> HIDE DEF f
  <2>2. DOMAIN s = 1..n /\ s = [i \in 1..n |-> s[i]]
    <3> HIDE DEF s, n
    <3> QED
      BY <2>1
  <2>3. \A i \in 1..n : s[i] \in S
    <3> HIDE DEF s, n, Ahead
    <3> QED
      BY <1>6
  <2> HIDE DEF s, n
  <2> QED
    BY <1>1, <2>2, <2>3
<1>8. ASSUME NEW x \in S PROVE x \in ToSet(s)
  <2> DEFINE i == rank[x] + 1
  <2> HIDE DEF Ahead
  <2>6. rank[x] = Cardinality(Ahead(x))
    OBVIOUS
  <2> HIDE DEF rank, n
  <2>3. Cardinality(Ahead(x)) \in Int
    BY <1>2
  <2>1. i \in 1..n /\ Cardinality(Ahead(x)) = i - 1
    BY <1>1, <1>2, <2>6
  <2> HIDE DEF i, s
  <2>2. s[i] \in S /\ Cardinality(Ahead(s[i])) = Cardinality(Ahead(x))
    BY <1>6, <2>1, <2>3
  <2>4. s[i] = x
    <3> DEFINE z == s[i]
    <3>1. z \in S /\ Cardinality(Ahead(z)) = Cardinality(Ahead(x))
      BY <2>2
    <3> HIDE DEF z
    <3>2. ASSUME <<z, x>> \in R PROVE FALSE
      <4>1. Cardinality(Ahead(z)) < Cardinality(Ahead(x))
        BY <1>3, <3>1, <3>2
      <4> QED
        BY <2>3, <3>1, <4>1
    <3>3. ASSUME <<x, z>> \in R PROVE FALSE
      <4>1. Cardinality(Ahead(x)) < Cardinality(Ahead(z))
        BY <1>3, <3>1, <3>3
      <4> QED
        BY <2>3, <3>1, <4>1
    <3>4. z = x
      BY <3>1, <3>2, <3>3
    <3> QED
      BY <3>4 DEF z
  <2>5. i \in DOMAIN s
    <3>1. DOMAIN s = 1..n
      BY <1>7 DEF s, n, Arranged
    <3> QED
      BY <2>1, <3>1
  <2> QED
    BY <2>4, <2>5 DEF ToSet
<1>9. ToSet(s) \subseteq S
  BY <1>7 DEF ToSet
<1>10. IsInjective(s)
  <2>1. DOMAIN s = 1..n
    BY <1>7 DEF s, n, Arranged
  <2> HIDE DEF s, n, Ahead
  <2>2. ASSUME NEW i \in 1..n, NEW j \in 1..n, s[i] = s[j] PROVE i = j
    <3>1. i - 1 = j - 1
      BY <1>6, <2>2
    <3> QED
      BY <1>1, <3>1
  <2> QED
    BY <2>1, <2>2 DEF IsInjective
<1> QED
  BY <1>7, <1>8, <1>9, <1>10

(* The first part of a sequence, as long as some set of numbers allows.    *)
LEMMA FirstPart ==
  ASSUME NEW T, NEW s \in Seq(T), NEW S \in SUBSET (0..Len(s)), 0 \in S
  PROVE  /\ Max(S) \in S
         /\ SubSeq(s, 1, Max(S)) \in Seq(T)
         /\ ToSet(SubSeq(s, 1, Max(S))) = {s[i] : i \in 1..Max(S)}
         /\ ToSet(SubSeq(s, 1, Max(S))) \subseteq ToSet(s)
<1> DEFINE n == Max(S)
           p == SubSeq(s, 1, n)
<1>1. n \in S
  <2>1. Len(s) \in Nat /\ S # {}
    OBVIOUS
  <2>2. \E x \in S : \A y \in S : x >= y
    BY <2>1, GreatestNumber
  <2> QED
    BY <2>2 DEF Max
<1> HIDE DEF n
<1>2. n \in 0..Len(s) /\ Len(s) \in Nat
  BY <1>1
<1>3. p \in Seq(T) /\ Len(p) = n /\ \A i \in 1..n : p[i] = s[i]
  BY <1>2
<1>4. DOMAIN p = 1..n /\ 1..n \subseteq DOMAIN s
  BY <1>2, <1>3
<1> HIDE DEF p
<1>5. ToSet(p) = {s[i] : i \in 1..n} /\ ToSet(p) \subseteq ToSet(s)
  BY <1>3, <1>4 DEF ToSet
<1> QED
  BY <1>1, <1>3, <1>5 DEF n, p

(* One more member, somewhere.                                             *)
LEMMA InsertElements ==
  ASSUME NEW T, NEW s \in Seq(T), NEW e \in T, NEW i \in 1..(Len(s) + 1)
  PROVE  /\ InsertAt(s, i, e) \in Seq(T)
         /\ Len(InsertAt(s, i, e)) = Len(s) + 1
         /\ \A j \in 1..(Len(s) + 1) :
              InsertAt(s, i, e)[j] = IF j < i THEN s[j] ELSE IF j = i THEN e ELSE s[j - 1]
<1> DEFINE u == SubSeq(s, 1, i - 1)
           v == SubSeq(s, i, Len(s))
           w == InsertAt(s, i, e)
<1>1. /\ Len(s) \in Nat /\ i - 1 \in 0..Len(s)
      /\ u \in Seq(T) /\ Len(u) = i - 1 /\ \A j \in 1..(i - 1) : u[j] = s[j]
  OBVIOUS
<1>2. v \in Seq(T) /\ Len(v) = Len(s) - i + 1
  BY <1>1
<1>3. \A j \in 1..(Len(s) - i + 1) : v[j] = s[i + j - 1]
  <2>1. i \in Nat /\ Len(s) \in Nat /\ v = SubSeq(s, i, Len(s))
    OBVIOUS
  <2> QED
    BY <2>1, SubSeqProperties
<1>4. w = (u \o <<e>>) \o v /\ <<e>> \in Seq(T) /\ Len(<<e>>) = 1
  BY DEF InsertAt
<1> HIDE DEF u, v, w
<1> DEFINE x == u \o <<e>>
<1>5. /\ x \in Seq(T) /\ Len(x) = i /\ \A j \in 1..(i - 1) : x[j] = u[j]
      /\ x[i] = e
  BY <1>1, <1>4
<1> HIDE DEF x
<1>6. /\ w \in Seq(T) /\ Len(w) = Len(s) + 1
      /\ \A j \in 1..i : w[j] = x[j]
      /\ \A j \in 1..(Len(s) - i + 1) : w[i + j] = v[j]
  <2>1. w = x \o v
    BY <1>4 DEF x
  <2> QED
    BY <1>1, <1>2, <1>5, <2>1, SMTT(30)
<1>7. ASSUME NEW j \in 1..(Len(s) + 1)
      PROVE  w[j] = IF j < i THEN s[j] ELSE IF j = i THEN e ELSE s[j - 1]
  <2>1. CASE j <= i
    <3>1. j \in 1..i
      BY <1>1, <2>1
    <3> QED
      BY <1>1, <1>5, <1>6, <3>1
  <2>2. CASE j > i
    <3>1. j - i \in 1..(Len(s) - i + 1) /\ i + (j - i) = j /\ i + (j - i) - 1 = j - 1
      BY <1>1, <2>2
    <3>2. w[j] = v[j - i] /\ v[j - i] = s[j - 1]
      BY <1>3, <1>6, <3>1
    <3> QED
      BY <2>2, <3>2
  <2> QED
    BY <2>1, <2>2
<1> QED
  BY <1>6, <1>7 DEF w

LEMMA InsertFacts ==
  ASSUME NEW T, NEW s \in Seq(T), NEW e \in T, NEW i \in 1..(Len(s) + 1)
  PROVE  /\ InsertAt(s, i, e) \in Seq(T)
         /\ Len(InsertAt(s, i, e)) = Len(s) + 1
         /\ ToSet(InsertAt(s, i, e)) = ToSet(s) \cup {e}
         /\ (e \notin ToSet(s) /\ IsInjective(s)) => IsInjective(InsertAt(s, i, e))
<1> DEFINE w == InsertAt(s, i, e)
<1>1. /\ w \in Seq(T) /\ Len(w) = Len(s) + 1 /\ Len(s) \in Nat
      /\ \A j \in 1..(Len(s) + 1) : w[j] = IF j < i THEN s[j] ELSE IF j = i THEN e ELSE s[j - 1]
  BY InsertElements
<1> HIDE DEF w
<1>2. DOMAIN w = 1..(Len(s) + 1) /\ DOMAIN s = 1..Len(s)
  BY <1>1
<1>3. ASSUME NEW j \in 1..Len(s) PROVE s[j] \in ToSet(w)
  <2>1. j < i => w[j] = s[j] /\ j \in DOMAIN w
    BY <1>1, <1>2
  <2>2. ~(j < i) => w[j + 1] = s[j] /\ j + 1 \in DOMAIN w
    BY <1>1, <1>2
  <2> QED
    BY <2>1, <2>2 DEF ToSet
<1>4. e \in ToSet(w)
  BY <1>1, <1>2 DEF ToSet
<1>5. ASSUME NEW j \in 1..(Len(s) + 1) PROVE w[j] \in ToSet(s) \cup {e}
  <2>1. j < i => j \in DOMAIN s /\ w[j] = s[j]
    BY <1>1, <1>2
  <2>2. j > i => j - 1 \in DOMAIN s /\ w[j] = s[j - 1]
    BY <1>1, <1>2
  <2>3. j = i => w[j] = e
    BY <1>1
  <2>4. j \in Int /\ i \in Int
    BY <1>1
  <2> QED
    BY <2>1, <2>2, <2>3, <2>4 DEF ToSet
<1>6. ToSet(w) = ToSet(s) \cup {e}
  <2>1. ToSet(s) \cup {e} \subseteq ToSet(w)
    BY <1>2, <1>3, <1>4 DEF ToSet
  <2>2. ToSet(w) \subseteq ToSet(s) \cup {e}
    BY <1>2, <1>5 DEF ToSet
  <2> QED
    BY <2>1, <2>2
<1>7. ASSUME e \notin ToSet(s), IsInjective(s) PROVE IsInjective(w)
  <2> DEFINE from(j) == IF j < i THEN j ELSE j - 1
  <2>1. ASSUME NEW j \in 1..(Len(s) + 1), j # i
        PROVE  from(j) \in DOMAIN s /\ w[j] = s[from(j)] /\ w[j] # e
    <3>1. from(j) \in DOMAIN s /\ w[j] = s[from(j)]
      BY <1>1, <1>2, <2>1
    <3> HIDE DEF from
    <3> QED
      BY <1>7, <3>1 DEF ToSet
  <2>2. w[i] = e
    BY <1>1
  <2>3. ASSUME NEW j \in 1..(Len(s) + 1), NEW k \in 1..(Len(s) + 1), w[j] = w[k]
        PROVE  j = k
    <3>1. CASE j = i \/ k = i
      BY <2>1, <2>2, <2>3, <3>1
    <3>2. CASE j # i /\ k # i
      <4>1. from(j) = from(k)
        <5> HIDE DEF from
        <5> QED
          BY <1>7, <2>1, <2>3, <3>2 DEF IsInjective
      <4> QED
        BY <1>1, <3>2, <4>1
    <3> QED
      BY <3>1, <3>2
  <2> QED
    BY <1>2, <2>3 DEF IsInjective
<1> QED
  BY <1>1, <1>6, <1>7 DEF w

-----------------------------------------------------------------------------
(* The bundles of the policy "cbba": a sequence of free tasks, with a bid  *)
(* of the agent for each.                                                  *)
Builds(a, free) ==
  {b \in [order : Seq(Tasks), bids : UNION {[S -> BidType(MaxVersion)] : S \in SUBSET free}] :
     ToSet(b.order) = DOMAIN b.bids /\ \A t \in DOMAIN b.bids : b.bids[t].bidder = a}

LEMMA BuildsFacts ==
  ASSUME NEW a, NEW free, NEW b \in Builds(a, free)
  PROVE  /\ Buildable(a, free, b)
         /\ b.order \in Seq(Tasks) /\ ToSet(b.order) = DOMAIN b.bids
         /\ b.bids \in [DOMAIN b.bids -> BidType(MaxVersion)]
<1>1. b.order \in Seq(Tasks) /\ b.bids \in UNION {[S -> BidType(MaxVersion)] : S \in SUBSET free}
      /\ ToSet(b.order) = DOMAIN b.bids /\ \A t \in DOMAIN b.bids : b.bids[t].bidder = a
  BY DEF Builds
<1>2. PICK S \in SUBSET free : b.bids \in [S -> BidType(MaxVersion)]
  BY <1>1
<1> DEFINE f == b.bids
<1>3. DOMAIN f = S /\ \A t \in S : f[t] \in BidType(MaxVersion)
  <2>1. f \in [S -> BidType(MaxVersion)]
    BY <1>2
  <2> HIDE DEF f
  <2> QED
    BY <2>1
<1> QED
  BY <1>1, <1>2, <1>3 DEF Buildable

LEMMA BuildsIntro ==
  ASSUME NEW a, NEW free, NEW o \in Seq(Tasks), NEW S \in SUBSET free,
         NEW f \in [S -> BidType(MaxVersion)], ToSet(o) = S, \A t \in S : f[t].bidder = a
  PROVE  [order |-> o, bids |-> f] \in Builds(a, free)
<1>1. DOMAIN f = S /\ f \in UNION {[U -> BidType(MaxVersion)] : U \in SUBSET free}
  OBVIOUS
<1> QED
  BY <1>1 DEF Builds

(* The order in which the tasks of a bundle are to be done.                *)
LEMMA PathFacts ==
  ASSUME NEW b, b.order \in Seq(Tasks), \A t \in ToSet(b.order) : b.bids[t].pos \in Nat
  PROVE  /\ Path(b) \in Seq(Tasks) /\ ToSet(Path(b)) = ToSet(b.order)
         /\ IsInjective(Path(b))
<1> DEFINE S == ToSet(b.order)
           R == {p \in S \X S : Earlier(p[1], p[2], b.bids)}
<1>1. S \subseteq Tasks
  BY DEF ToSet
<1>2. IsFiniteSet(S) /\ S \subseteq Nat
  BY <1>1, FleetAssumption, IdsAssumption, FS_Subset
<1>3. \A x \in S : x \in Nat /\ b.bids[x].pos \in Nat
  BY <1>2
<1>4. \A x, y \in S : <<x, y>> \in R <=> Earlier(x, y, b.bids)
  <2> HIDE DEF S
  <2> QED
    OBVIOUS
<1> HIDE DEF S, R
<1>5. \A x \in S : <<x, x>> \notin R
  BY <1>3, <1>4 DEF Earlier
<1>6. \A x, y \in S : x = y \/ <<x, y>> \in R \/ <<y, x>> \in R
  <2> SUFFICES ASSUME NEW x \in S, NEW y \in S
               PROVE  x = y \/ Earlier(x, y, b.bids) \/ Earlier(y, x, b.bids)
    BY <1>4, Zenon
  <2> DEFINE j == b.bids[x].pos  k == b.bids[y].pos
  <2>1. j \in Nat /\ k \in Nat /\ x \in Nat /\ y \in Nat
    BY <1>3
  <2>2. /\ Earlier(x, y, b.bids) <=> j < k \/ (j = k /\ x < y)
        /\ Earlier(y, x, b.bids) <=> k < j \/ (k = j /\ y < x)
    BY Zenon DEF Earlier
  <2> HIDE DEF j, k
  <2> QED
    BY <2>1, <2>2
<1>7. \A x, y, z \in S : <<x, y>> \in R /\ <<y, z>> \in R => <<x, z>> \in R
  <2> SUFFICES ASSUME NEW x \in S, NEW y \in S, NEW z \in S,
                      Earlier(x, y, b.bids), Earlier(y, z, b.bids)
               PROVE  Earlier(x, z, b.bids)
    BY <1>4, Zenon
  <2> DEFINE i == b.bids[x].pos  j == b.bids[y].pos  k == b.bids[z].pos
  <2>1. /\ i \in Nat /\ j \in Nat /\ k \in Nat
        /\ x \in Nat /\ y \in Nat /\ z \in Nat
    BY <1>3
  <2>2. /\ i < j \/ (i = j /\ x < y)
        /\ j < k \/ (j = k /\ y < z)
        /\ Earlier(x, z, b.bids) <=> i < k \/ (i = k /\ x < z)
    BY Zenon DEF Earlier
  <2> HIDE DEF i, j, k
  <2> QED
    BY <2>1, <2>2
<1>8. /\ Arranged(S, R) \in Seq(S) /\ ToSet(Arranged(S, R)) = S
      /\ IsInjective(Arranged(S, R))
  BY <1>2, <1>5, <1>6, <1>7, ArrangedFacts
<1>9. Path(b) = Arranged(S, R)
  BY DEF Path, S, R
<1>10. \A s \in Seq(S) : s \in Seq(Tasks)
  BY <1>1 DEF S
<1> QED
  BY <1>8, <1>9, <1>10 DEF S

(* Bids with the positions of their tasks on a path.                       *)
LEMMA PlacedFacts ==
  ASSUME NEW S, NEW n, NEW bids \in [S -> BidType(n)], NEW path \in Seq(Tasks),
         S \subseteq ToSet(path)
  PROVE  /\ Placed(bids, path) \in [S -> BidType(n)]
         /\ \A t \in S : Placed(bids, path)[t].bidder = bids[t].bidder
<1> DEFINE at(t) == CHOOSE i \in 1..Len(path) : path[i] = t
<1>1. ASSUME NEW t \in S PROVE at(t) - 1 \in Nat
  <2>1. \E i \in 1..Len(path) : path[i] = t
    BY DEF ToSet
  <2>2. at(t) \in 1..Len(path)
    BY <2>1
  <2> HIDE DEF at
  <2> QED
    BY <2>2
<1>2. Placed(bids, path) = [t \in S |-> [bids[t] EXCEPT !.pos = at(t) - 1]]
  BY DEF Placed
<1> HIDE DEF at
<1>3. ASSUME NEW t \in S
      PROVE  /\ [bids[t] EXCEPT !.pos = at(t) - 1] \in BidType(n)
             /\ [bids[t] EXCEPT !.pos = at(t) - 1].bidder = bids[t].bidder
  <2> DEFINE x == bids[t]  k == at(t) - 1
  <2>1. x \in BidType(n) /\ k \in Nat
    BY <1>1
  <2> HIDE DEF x, k
  <2>2. [x EXCEPT !.pos = k] \in BidType(n) /\ [x EXCEPT !.pos = k].bidder = x.bidder
    BY <2>1 DEF BidType
  <2> QED
    BY <2>2 DEF x, k
<1> QED
  BY <1>2, <1>3

(* The tasks that an agent has, in the order it will do them.              *)
LEMMA CommittedFacts ==
  ASSUME NEW a, NEW owners, DOMAIN owners \subseteq Tasks,
         \A t \in DOMAIN owners : owners[t] \in Holding
  PROVE  Committed(a, owners) \in Seq(Tasks)
<1> DEFINE S == {t \in DOMAIN owners : owners[t].agent = a}
           R == {p \in S \X S : Sooner(p[1], p[2], owners)}
<1>1. IsFiniteSet(S) /\ S \subseteq Tasks
  BY FleetAssumption, FS_Subset
<1>2. \A x \in S : /\ x \in Nat /\ Deadline[x] \in Nat
                   /\ owners[x].epoch \in Nat /\ owners[x].pos \in Nat
  BY <1>1, IdsAssumption, WorkAssumption DEF Holding
<1>3. \A x, y \in S : <<x, y>> \in R <=> Sooner(x, y, owners)
  <2> HIDE DEF S
  <2> QED
    OBVIOUS
<1>4. Committed(a, owners) = Arranged(S, R)
  BY DEF Committed
<1> HIDE DEF S, R
<1> DEFINE e(x) == owners[x].epoch  p(x) == owners[x].pos  d(x) == Deadline[x]
<1>5. \A x, y : Sooner(x, y, owners) <=>
        \/ e(x) < e(y)
        \/ e(x) = e(y) /\ (p(x) < p(y) \/ (p(x) = p(y) /\ (d(x) < d(y) \/ (d(x) = d(y) /\ x < y))))
  BY Zenon DEF Sooner
<1>6. \A x \in S : x \in Nat /\ d(x) \in Nat /\ e(x) \in Nat /\ p(x) \in Nat
  BY <1>2
<1> HIDE DEF e, p, d
<1>7. \A x \in S : <<x, x>> \notin R
  BY <1>3, <1>5, <1>6
<1>8. \A x, y \in S : x = y \/ <<x, y>> \in R \/ <<y, x>> \in R
  <2> SUFFICES ASSUME NEW x \in S, NEW y \in S
               PROVE  x = y \/ Sooner(x, y, owners) \/ Sooner(y, x, owners)
    BY <1>3, Zenon
  <2> QED
    BY <1>5, <1>6
<1>9. \A x, y, z \in S : <<x, y>> \in R /\ <<y, z>> \in R => <<x, z>> \in R
  <2> SUFFICES ASSUME NEW x \in S, NEW y \in S, NEW z \in S,
                      Sooner(x, y, owners), Sooner(y, z, owners)
               PROVE  Sooner(x, z, owners)
    BY <1>3, Zenon
  <2> QED
    BY <1>5, <1>6
<1>10. Arranged(S, R) \in Seq(S)
  BY <1>1, <1>7, <1>8, <1>9, ArrangedFacts
<1>11. \A s \in Seq(S) : s \in Seq(Tasks)
  BY <1>1
<1> QED
  BY <1>4, <1>10, <1>11

(* What is left of the bundle of an agent.                                 *)
LEMMA RetainedTyped ==
  ASSUME Policy = "cbba", NEW a, NEW free, NEW peers, CopyTyped(Mind(a)), Mind(a).sender = a
  PROVE  /\ Retained(a, free, peers) \in Builds(a, free)
         /\ DOMAIN Retained(a, free, peers).bids \subseteq DOMAIN Mind(a).bids
<1> DEFINE s     == Mind(a)
           K     == {n \in 0..Len(s.bundle) : \A i \in 1..n : s.bundle[i] \in free}
           known == SubSeq(s.bundle, 1, Max(K))
           bids  == Restrict(s.bids, ToSet(known))
           H     == {n \in 0..Len(known) :
                       \A i \in 1..n : \E w \in WinnerFor(a, known[i], bids, peers) : w.bidder = a}
           kept  == SubSeq(known, 1, Max(H))
           left  == [order |-> kept, bids |-> Restrict(bids, ToSet(kept))]
<1>1. Retained(a, free, peers) = [left EXCEPT !.bids = Placed(@, Path(left))]
  BY Zenon DEF Retained, Longest
<1>2. /\ s.bundle \in Seq(Tasks) /\ ToSet(s.bundle) = DOMAIN s.bids
      /\ \A t \in DOMAIN s.bids : s.bids[t] \in BidType(s.version) /\ s.bids[t].bidder = a
      /\ s.version \in 0..MaxVersion
  BY DEF CopyTyped, BidsTyped
<1> HIDE DEF s
<1>3. /\ Max(K) \in K /\ known \in Seq(Tasks) /\ ToSet(known) = {s.bundle[i] : i \in 1..Max(K)}
      /\ ToSet(known) \subseteq DOMAIN s.bids
  <2>1. K \in SUBSET (0..Len(s.bundle)) /\ 0 \in K
    BY <1>2
  <2> HIDE DEF K
  <2> QED
    BY <1>2, <2>1, FirstPart
<1>4. ToSet(known) \subseteq free
  BY <1>3
<1> HIDE DEF K, known
<1>5. kept \in Seq(Tasks) /\ ToSet(kept) \subseteq ToSet(known)
  <2>1. H \in SUBSET (0..Len(known)) /\ 0 \in H
    BY <1>3
  <2> HIDE DEF H
  <2> QED
    BY <1>3, <2>1, FirstPart
<1> HIDE DEF H, kept
<1> DEFINE S == ToSet(kept)
           f == [t \in S |-> s.bids[t]]
<1>6. left = [order |-> kept, bids |-> f]
  <2>1. Restrict(bids, ToSet(kept)) = f
    BY <1>5 DEF Restrict
  <2> HIDE DEF f, bids, S
  <2> QED
    BY <2>1
<1>7. /\ S \in SUBSET free /\ f \in [S -> BidType(MaxVersion)] /\ \A t \in S : f[t].bidder = a
      /\ S \subseteq DOMAIN s.bids
  <2>1. S \subseteq DOMAIN s.bids /\ S \subseteq free
    BY <1>3, <1>4, <1>5
  <2>2. \A t \in S : s.bids[t] \in BidType(MaxVersion) /\ s.bids[t].bidder = a
    <3> SUFFICES ASSUME NEW t \in S
                 PROVE  s.bids[t] \in BidType(MaxVersion) /\ s.bids[t].bidder = a
      OBVIOUS
    <3> HIDE DEF S
    <3>1. t \in DOMAIN s.bids /\ \A k \in 0..s.version : k \in 0..MaxVersion
      BY <1>2, <2>1, BoundsAssumption
    <3>2. s.bids[t] \in BidType(s.version) /\ s.bids[t].bidder = a
      BY <1>2, <3>1
    <3> QED
      BY <3>1, <3>2 DEF BidType
  <2> HIDE DEF S
  <2> QED
    BY <2>1, <2>2
<1>8. \A t \in S : f[t].pos \in Nat
  BY <1>7 DEF BidType
<1> HIDE DEF f, left
<1>9. left.order = kept /\ left.bids = f
  BY <1>6
<1>10. Path(left) \in Seq(Tasks) /\ ToSet(Path(left)) = S
  BY <1>5, <1>8, <1>9, PathFacts
<1>11. /\ Placed(f, Path(left)) \in [S -> BidType(MaxVersion)]
       /\ \A t \in S : Placed(f, Path(left))[t].bidder = a
  BY <1>7, <1>10, PlacedFacts
<1>12. Retained(a, free, peers) = [order |-> kept, bids |-> Placed(f, Path(left))]
  <2> DEFINE g == Placed(f, Path(left))
  <2>1. Retained(a, free, peers) = [left EXCEPT !.bids = g]
    BY <1>1, <1>9
  <2> HIDE DEF g
  <2>2. Retained(a, free, peers) = [order |-> kept, bids |-> g]
    BY <1>6, <2>1
  <2> QED
    BY <2>2 DEF g
<1> HIDE DEF S
<1>13. ToSet(kept) = S
  BY DEF S
<1> DEFINE g == Placed(f, Path(left))
<1>14. g \in [S -> BidType(MaxVersion)] /\ \A t \in S : g[t].bidder = a
  BY <1>11
<1>15. Retained(a, free, peers) = [order |-> kept, bids |-> g]
  BY <1>12
<1> HIDE DEF g
<1>16. [order |-> kept, bids |-> g] \in Builds(a, free)
  BY <1>5, <1>7, <1>13, <1>14, BuildsIntro
<1>17. DOMAIN Retained(a, free, peers).bids = S
  BY <1>14, <1>15
<1> QED
  BY <1>7, <1>15, <1>16, <1>17 DEF s

-----------------------------------------------------------------------------
(* What one more task costs: numbers, and a place on the way.              *)
LEMMA DelayTyped ==
  ASSUME NEW old, NEW new, NEW n \in Nat, NEW i \in Nat,
         \A k \in 0..n : old[k].tick \in Int /\ new[k + 1].tick \in Int
  PROVE  Delay(old, new, i, n) \in Int
<1> DEFINE late(k) == Max({0, new[k + 1].tick - old[k].tick})
           IsDelay(f) == f = [k \in 0..n |-> IF k <= i THEN 0 ELSE f[k - 1] + late(k)]
           d == CHOOSE f : IsDelay(f)
<1>1. Delay(old, new, i, n) = d[n]
  BY Zenon DEF Delay
<1>2. ASSUME NEW k \in 0..n PROVE late(k) \in Int
  <2> DEFINE x == new[k + 1].tick - old[k].tick
  <2>1. x \in Int
    OBVIOUS
  <2> HIDE DEF x
  <2>2. \E m \in {0, x} : \A y \in {0, x} : m >= y
    BY <2>1
  <2>3. Max({0, x}) \in {0, x}
    BY <2>2 DEF Max
  <2> QED
    BY <2>1, <2>3 DEF x
<1> HIDE DEF late
<1>3. \E f : IsDelay(f)
  <2> DEFINE V == Int
             more(k, v) == IF k <= i THEN 0 ELSE v + late(k)
             g == [p \in (1..n) \X V |-> more(p[1], p[2])]
  <2>1. ASSUME NEW k \in 1..n, NEW v \in V PROVE more(k, v) \in V
    <3>1. late(k) \in Int
      BY <1>2
    <3> QED
      BY <3>1
  <2>2. 0 \in V
    OBVIOUS
  <2> HIDE DEF V, more
  <2>7. \A k \in 1..n : \A v \in V : g[<<k, v>>] = more(k, v)
    OBVIOUS
  <2> HIDE DEF g
  <2>8. \A k \in 1..n : \A v \in V : g[<<k, v>>] \in V
    BY <2>1, <2>7, Zenon
  <2>9. PICK f \in [0..n -> V] : Recurs(f, n, 0, g)
    BY <2>2, <2>8, Recursion
  <2>3. f[0] = 0 /\ \A k \in 1..n : f[k] = g[<<k, f[k - 1]>>]
    BY <2>9 DEF Recurs
  <2>4. ASSUME NEW k \in 0..n PROVE f[k] = IF k <= i THEN 0 ELSE f[k - 1] + late(k)
    <3>1. CASE k = 0
      BY <2>3, <3>1
    <3>2. CASE k \in 1..n
      <4>1. k - 1 \in 0..n /\ f[k - 1] \in V
        BY <3>2
      <4>2. f[k] = more(k, f[k - 1])
        BY <2>3, <2>7, <3>2, <4>1
      <4> QED
        BY <4>2 DEF more
    <3> QED
      BY <3>1, <3>2
  <2>5. f = [k \in 0..n |-> f[k]]
    OBVIOUS
  <2>6. IsDelay(f)
    BY <2>4, <2>5
  <2> QED
    BY <2>6
<1>4. IsDelay(d)
  BY <1>3
<1> HIDE DEF d
<1> DEFINE S == {k \in 0..n : d[k] \in Int}
<1>5. \A k \in 0..n : d[k] = IF k <= i THEN 0 ELSE d[k - 1] + late(k)
  BY <1>4
<1> HIDE DEF IsDelay
<1>6. 0 \in S
  BY <1>5
<1>7. ASSUME NEW k \in 0..(n - 1), k \in S PROVE k + 1 \in S
  <2>1. k + 1 \in 0..n /\ (k + 1) - 1 = k /\ d[k] \in Int
    BY <1>7
  <2>2. d[k + 1] = IF k + 1 <= i THEN 0 ELSE d[(k + 1) - 1] + late(k + 1)
    BY <1>5, <2>1
  <2>3. late(k + 1) \in Int
    BY <1>2, <2>1
  <2> QED
    BY <2>1, <2>2, <2>3
<1>8. n \in S
  <2> HIDE DEF S
  <2>1. 0..n \subseteq S
    BY <1>6, <1>7, InductionUpTo
  <2> QED
    BY <2>1
<1> QED
  BY <1>1, <1>8

(* An insertion, as a bid counts it.                                       *)
Counted(x) == x.score \in Int /\ x.distance \in Int /\ x.energy \in Int /\ x.completion \in Int

LEMMA InsertionTyped ==
  ASSUME NEW a \in Agents, NEW ts \in Seq(Tasks), NEW t \in Tasks, NEW i \in 0..Len(ts)
  PROVE  Insertion(a, ts, t, i).index = i /\ Counted(Insertion(a, ts, t, i))
<1> DEFINE longer == InsertAt(ts, i + 1, t)
           old == Tour(a, ts)
           new == Tour(a, longer)
           n   == Len(ts)
           p == Priority[t]  l == Deadline[t]  w == PriorityWeight  v == TickWeight
           dist == new[n + 1].distance - old[n].distance
           ener == new[n + 1].energy - old[n].energy
           done == new[i + 1].tick
           late == Delay(old, new, i, n)
<1>1. n \in Nat /\ i + 1 \in 1..(n + 1) /\ i \in Nat
  OBVIOUS
<1>2. longer \in Seq(Tasks) /\ Len(longer) = n + 1
  BY <1>1, InsertFacts
<1>3. /\ \A k \in 0..n : Travelled(old[k])
      /\ \A k \in 0..(n + 1) : Travelled(new[k])
  BY <1>2, TourTravels
<1> HIDE DEF longer, old, new, n
<1>4. late \in Int
  <2>1. \A k \in 0..n : old[k].tick \in Int /\ new[k + 1].tick \in Int
    BY <1>1, <1>3 DEF Travelled
  <2> QED
    BY <1>1, <2>1, DelayTyped
<1>5. dist \in Int /\ ener \in Int /\ done \in Int
  <2>1. Travelled(old[n]) /\ Travelled(new[n + 1]) /\ Travelled(new[i + 1])
    BY <1>1, <1>3
  <2>2. /\ old[n].distance \in Nat /\ old[n].energy \in Nat
        /\ new[n + 1].distance \in Nat /\ new[n + 1].energy \in Nat
        /\ new[i + 1].tick \in Nat
    BY <2>1, Zenon DEF Travelled
  <2>3. \A x, y \in Nat : x \in Int /\ x - y \in Int
    OBVIOUS
  <2> QED
    BY <2>2, <2>3, Zenon
<1>6. p \in Int /\ l \in Int /\ w \in Int /\ v \in Int
  BY WorkAssumption
<1>7. Insertion(a, ts, t, i) =
        [index |-> i, distance |-> dist, energy |-> ener, completion |-> done,
         score |-> p * w + (l - done - late) * v - dist - ener]
  BY DEF Insertion, longer, old, new, n
<1> HIDE DEF p, l, w, v, dist, ener, done, late
<1>8. p * w + (l - done - late) * v - dist - ener \in Int
  <2>1. p * w \in Int /\ (l - done - late) * v \in Int
    BY <1>4, <1>5, <1>6
  <2> QED
    BY <1>5, <2>1
<1> QED
  BY <1>5, <1>7, <1>8 DEF Counted

LEMMA BestInsertionTyped ==
  ASSUME NEW a \in Agents, NEW ts \in Seq(Tasks), NEW t \in Tasks, NEW least \in Nat,
         NEW x \in BestInsertion(a, ts, t, least)
  PROVE  x.index \in least..Len(ts) /\ Counted(x)
<1>1. PICK i \in Slots(a, ts, t, least) : x = Insertion(a, ts, t, i)
  BY DEF BestInsertion
<1>2. i \in least..Len(ts) /\ i \in 0..Len(ts)
  BY <1>1 DEF Slots
<1> QED
  BY <1>1, <1>2, InsertionTyped

(* There is at most one best insertion of a task.                          *)
LEMMA BestInsertionIsOne ==
  ASSUME NEW a \in Agents, NEW ts \in Seq(Tasks), NEW t \in Tasks, NEW least \in Nat,
         NEW x \in BestInsertion(a, ts, t, least), NEW y \in BestInsertion(a, ts, t, least)
  PROVE  x = y
<1>1. Preferred(x, y) /\ Preferred(y, x)
  BY DEF BestInsertion
<1>2. Counted(x) /\ Counted(y) /\ x.index \in Int /\ y.index \in Int
  BY BestInsertionTyped
<1>3. x.index = y.index
  <2> DEFINE s == x.score  d == x.distance  e == x.energy  c == x.completion  i == x.index
             u == y.score  v == y.distance  w == y.energy  z == y.completion  j == y.index
  <2>1. /\ s > u \/ (s = u /\ (d < v \/ (d = v /\ (e < w \/ (e = w /\ (c < z \/ (c = z /\ i <= j)))))))
        /\ u > s \/ (u = s /\ (v < d \/ (v = d /\ (w < e \/ (w = e /\ (z < c \/ (z = c /\ j <= i)))))))
    BY <1>1, Zenon DEF Preferred
  <2>2. /\ s \in Int /\ d \in Int /\ e \in Int /\ c \in Int /\ i \in Int
        /\ u \in Int /\ v \in Int /\ w \in Int /\ z \in Int /\ j \in Int
    BY <1>2 DEF Counted
  <2> HIDE DEF s, d, e, c, i, u, v, w, z, j
  <2>3. i = j
    BY <2>1, <2>2
  <2> QED
    BY <2>3 DEF i, j
<1>4. ASSUME NEW z \in BestInsertion(a, ts, t, least)
      PROVE  z = Insertion(a, ts, t, z.index)
  <2>1. PICK i \in Slots(a, ts, t, least) : z = Insertion(a, ts, t, i)
    BY <1>4 DEF BestInsertion
  <2>2. i \in 0..Len(ts)
    BY <2>1 DEF Slots
  <2> QED
    BY <2>1, <2>2, InsertionTyped
<1> QED
  BY <1>3, <1>4

(* What can be added to a bundle.                                          *)
Addition(a, ts, least, free, c) ==
  /\ c.task \in free /\ c = [task |-> c.task, at |-> c.at]
  /\ c.at \in BestInsertion(a, ts, c.task, least)

LEMMA AddableFacts ==
  ASSUME NEW a \in Agents, NEW free \in SUBSET Tasks, NEW peers, NEW mine \in Seq(Tasks), NEW b,
         NEW c \in Addable(a, free, peers, mine, b)
  PROVE  Addition(a, mine \o Path(b), Len(mine), free, c) /\ c.task \notin DOMAIN b.bids
<1>1. PICK t \in free \ DOMAIN b.bids :
        \E x \in BestInsertion(a, mine \o Path(b), t, Len(mine)) : c = [task |-> t, at |-> x]
  BY DEF Addable
<1> QED
  BY <1>1 DEF Addition

LEMMA ChosenFacts ==
  ASSUME NEW a \in Agents, NEW ts \in Seq(Tasks), NEW least \in Nat, NEW free \in SUBSET Tasks,
         NEW C, C # {}, \A c \in C : Addition(a, ts, least, free, c)
  PROVE  \E c \in C : \A d \in C : Chosen(c, d)
<1> DEFINE R == {p \in C \X C : Chosen(p[1], p[2])}
           I == Tasks \X (0..Len(ts))
           h == [p \in I |-> [task |-> p[1], at |-> Insertion(a, ts, p[1], p[2])]]
           T == {h[p] : p \in I}
<1>1. IsFiniteSet(T)
  <2>1. IsFiniteSet(I)
    <3>1. Len(ts) \in Nat
      OBVIOUS
    <3>2. IsFiniteSet(0..Len(ts))
      BY <3>1, FS_Interval
    <3> QED
      BY <3>2, FleetAssumption, FS_Product
  <2>2. DOMAIN h = I
    OBVIOUS
  <2> HIDE DEF I
  <2>3. h \in Surjection(I, T)
    <3>1. h \in [I -> T]
      OBVIOUS
    <3> HIDE DEF h
    <3> QED
      BY <3>1 DEF Surjection
  <2> QED
    BY <2>1, <2>3, FS_Surjection
<1>2. C \subseteq T
  <2> SUFFICES ASSUME NEW c \in C PROVE c \in T
    OBVIOUS
  <2>1. c.task \in Tasks /\ c = [task |-> c.task, at |-> c.at]
        /\ c.at \in BestInsertion(a, ts, c.task, least)
    BY DEF Addition
  <2>2. PICK i \in Slots(a, ts, c.task, least) : c.at = Insertion(a, ts, c.task, i)
    BY <2>1 DEF BestInsertion
  <2>3. i \in 0..Len(ts)
    BY <2>2 DEF Slots
  <2>4. <<c.task, i>> \in I /\ h[<<c.task, i>>] = [task |-> c.task, at |-> c.at]
    BY <2>1, <2>2, <2>3
  <2> HIDE DEF I, h
  <2>5. h[<<c.task, i>>] = c
    BY <2>1, <2>4
  <2> QED
    BY <2>4, <2>5
<1>3. IsFiniteSet(C)
  <2> HIDE DEF T
  <2> QED
    BY <1>1, <1>2, FS_Subset
<1>4. \A c \in C : c.task \in Nat /\ Counted(c.at)
  BY BestInsertionTyped, IdsAssumption DEF Addition
<1>5. \A c, d \in C : c.task = d.task => c = d
  BY BestInsertionIsOne DEF Addition
<1>6. \A c, d \in C : <<c, d>> \in R <=> Chosen(c, d)
  OBVIOUS
<1> DEFINE s(c) == c.at.score  w(c) == c.at.distance  e(c) == c.at.energy
           f(c) == c.at.completion  i(c) == c.task
           Ahead(c, d) ==
             \/ s(c) > s(d)
             \/ s(c) = s(d) /\ (w(c) < w(d) \/ (w(c) = w(d) /\ (e(c) < e(d) \/ (e(c) = e(d) /\
                  (f(c) < f(d) \/ (f(c) = f(d) /\ i(c) < i(d)))))))
<1>7. \A c, d : Chosen(c, d) <=> c.task = d.task \/ Ahead(c, d)
  BY Zenon DEF Chosen
<1>8. \A c, d \in C : Chosen(c, d) <=> c = d \/ Ahead(c, d)
  <2> HIDE DEF Ahead
  <2> QED
    BY <1>5, <1>7
<1>9. \A c \in C : s(c) \in Int /\ w(c) \in Int /\ e(c) \in Int /\ f(c) \in Int /\ i(c) \in Int
  BY <1>4 DEF Counted
<1>10. \A c, d \in C : i(c) = i(d) => c = d
  BY <1>5
<1> HIDE DEF s, w, e, f, i, R
<1>11. \A c, d \in C : Ahead(c, d) \/ Ahead(d, c) \/ c = d
  <2> SUFFICES ASSUME NEW c \in C, NEW d \in C PROVE Ahead(c, d) \/ Ahead(d, c) \/ c = d
    OBVIOUS
  <2> DEFINE s1 == s(c)  w1 == w(c)  e1 == e(c)  f1 == f(c)  i1 == i(c)
             s2 == s(d)  w2 == w(d)  e2 == e(d)  f2 == f(d)  i2 == i(d)
  <2>1. /\ s1 \in Int /\ w1 \in Int /\ e1 \in Int /\ f1 \in Int /\ i1 \in Int
        /\ s2 \in Int /\ w2 \in Int /\ e2 \in Int /\ f2 \in Int /\ i2 \in Int
    BY <1>9
  <2>2. i1 = i2 => c = d
    BY <1>10
  <2>3. Ahead(c, d) <=> \/ s1 > s2
                        \/ s1 = s2 /\ (w1 < w2 \/ (w1 = w2 /\ (e1 < e2 \/ (e1 = e2 /\
                             (f1 < f2 \/ (f1 = f2 /\ i1 < i2))))))
    OBVIOUS
  <2>4. Ahead(d, c) <=> \/ s2 > s1
                        \/ s2 = s1 /\ (w2 < w1 \/ (w2 = w1 /\ (e2 < e1 \/ (e2 = e1 /\
                             (f2 < f1 \/ (f2 = f1 /\ i2 < i1))))))
    OBVIOUS
  <2> HIDE DEF s1, w1, e1, f1, i1, s2, w2, e2, f2, i2, Ahead
  <2> QED
    BY <2>1, <2>2, <2>3, <2>4
<1>12. ASSUME NEW c \in C, NEW d \in C, NEW u \in C, Ahead(c, d), Ahead(d, u)
       PROVE  Ahead(c, u)
  <2> DEFINE s1 == s(c)  w1 == w(c)  e1 == e(c)  f1 == f(c)  i1 == i(c)
             s2 == s(d)  w2 == w(d)  e2 == e(d)  f2 == f(d)  i2 == i(d)
             s3 == s(u)  w3 == w(u)  e3 == e(u)  f3 == f(u)  i3 == i(u)
  <2>1. /\ s1 \in Int /\ w1 \in Int /\ e1 \in Int /\ f1 \in Int /\ i1 \in Int
        /\ s2 \in Int /\ w2 \in Int /\ e2 \in Int /\ f2 \in Int /\ i2 \in Int
        /\ s3 \in Int /\ w3 \in Int /\ e3 \in Int /\ f3 \in Int /\ i3 \in Int
    BY <1>9
  <2>2. /\ \/ s1 > s2
           \/ s1 = s2 /\ (w1 < w2 \/ (w1 = w2 /\ (e1 < e2 \/ (e1 = e2 /\
                (f1 < f2 \/ (f1 = f2 /\ i1 < i2))))))
        /\ \/ s2 > s3
           \/ s2 = s3 /\ (w2 < w3 \/ (w2 = w3 /\ (e2 < e3 \/ (e2 = e3 /\
                (f2 < f3 \/ (f2 = f3 /\ i2 < i3))))))
    BY <1>12, Zenon
  <2> HIDE DEF s1, w1, e1, f1, i1, s2, w2, e2, f2, i2, s3, w3, e3, f3, i3
  <2>3. \/ s1 > s3
        \/ s1 = s3 /\ (w1 < w3 \/ (w1 = w3 /\ (e1 < e3 \/ (e1 = e3 /\
             (f1 < f3 \/ (f1 = f3 /\ i1 < i3))))))
    BY <2>1, <2>2
  <2> QED
    BY <2>3, Zenon DEF s1, w1, e1, f1, i1, s3, w3, e3, f3, i3
<1> HIDE DEF Ahead
<1>13. \A c, d \in C : <<c, d>> \in R \/ <<d, c>> \in R
  BY <1>6, <1>8, <1>11, Zenon
<1>14. \A c, d, u \in C : <<c, d>> \in R /\ <<d, u>> \in R => <<c, u>> \in R
  BY <1>6, <1>8, <1>12
<1>15. \E c \in C : \A d \in C : <<c, d>> \in R
  BY <1>3, <1>13, <1>14, FirstInOrder
<1> QED
  BY <1>6, <1>15, Zenon

(* A bundle with one more task.                                            *)
LEMMA ExtendedTyped ==
  ASSUME NEW a \in Agents, NEW free \in SUBSET Tasks, NEW mine \in Seq(Tasks),
         NEW b \in Builds(a, free), NEW c, Addition(a, mine \o Path(b), Len(mine), free, c),
         Path(b) \in Seq(Tasks), ToSet(Path(b)) = ToSet(b.order)
  PROVE  Extended(a, mine, b, c) \in Builds(a, free)
<1> DEFINE p     == Path(b)
           ts    == mine \o p
           index == c.at.index - Len(mine)
           path  == InsertAt(p, index + 1, c.task)
           S     == DOMAIN b.bids \cup {c.task}
           bids  == [t \in S |-> IF t = c.task THEN Bid(a, c.at, index) ELSE b.bids[t]]
           order == Append(b.order, c.task)
<1>1. Extended(a, mine, b, c) = [order |-> order, bids |-> Placed(bids, path)]
  BY Zenon DEF Extended
<1>2. c.task \in free /\ c.task \in Tasks /\ c.at \in BestInsertion(a, ts, c.task, Len(mine))
  BY DEF Addition
<1>3. /\ b.order \in Seq(Tasks) /\ ToSet(b.order) = DOMAIN b.bids
      /\ b.bids \in [DOMAIN b.bids -> BidType(MaxVersion)] /\ DOMAIN b.bids \subseteq free
      /\ \A t \in DOMAIN b.bids : b.bids[t].bidder = a
  BY BuildsFacts DEF Buildable
<1>4. /\ p \in Seq(Tasks) /\ ToSet(p) = ToSet(b.order) /\ Len(p) \in Nat /\ Len(mine) \in Nat
      /\ ts \in Seq(Tasks) /\ Len(ts) = Len(mine) + Len(p)
  OBVIOUS
<1> HIDE DEF p
<1>5. index \in 0..Len(p) /\ Counted(c.at)
  <2>1. c.at.index \in Len(mine)..Len(ts) /\ Counted(c.at)
    BY <1>2, <1>4, BestInsertionTyped
  <2> DEFINE i == c.at.index
  <2>2. i \in Len(mine)..Len(ts)
    BY <2>1
  <2> HIDE DEF ts, i
  <2>3. i - Len(mine) \in 0..Len(p)
    BY <1>4, <2>2
  <2> QED
    BY <2>1, <2>3 DEF i
<1> HIDE DEF ts, index
<1>6. path \in Seq(Tasks) /\ c.task \in ToSet(path) /\ ToSet(p) \subseteq ToSet(path)
  <2>1. index + 1 \in 1..(Len(p) + 1)
    BY <1>4, <1>5
  <2> QED
    BY <1>2, <1>4, <2>1, InsertFacts
<1> HIDE DEF path
<1>7. S \subseteq ToSet(path) /\ S \in SUBSET free
  BY <1>2, <1>3, <1>4, <1>6
<1>8. Bid(a, c.at, index) \in BidType(MaxVersion) /\ Bid(a, c.at, index).bidder = a
  <2>1. 0 \in 0..MaxVersion /\ index \in Nat
    BY <1>5, BoundsAssumption
  <2> QED
    BY <1>5, <2>1 DEF Bid, BidType, Counted
<1>9. bids \in [S -> BidType(MaxVersion)] /\ \A t \in S : bids[t].bidder = a
  <2> DEFINE y == Bid(a, c.at, index)
  <2> HIDE DEF y
  <2>1. y \in BidType(MaxVersion) /\ y.bidder = a
    BY <1>8 DEF y
  <2>2. bids = [t \in S |-> IF t = c.task THEN y ELSE b.bids[t]]
    BY DEF y
  <2>3. \A t \in S : (IF t = c.task THEN y ELSE b.bids[t]) \in BidType(MaxVersion)
    BY <1>3, <2>1
  <2>4. \A t \in S : (IF t = c.task THEN y ELSE b.bids[t]).bidder = a
    BY <1>3, <2>1
  <2> HIDE DEF bids
  <2> QED
    BY <2>2, <2>3, <2>4
<1> HIDE DEF bids
<1>10. order \in Seq(Tasks) /\ ToSet(order) = S
  <2> DEFINE o == b.order  n == Len(o)  e == c.task
  <2>1. o \in Seq(Tasks) /\ e \in Tasks /\ ToSet(o) = DOMAIN b.bids /\ n \in Nat
    BY <1>2, <1>3
  <2> HIDE DEF o, e
  <2>2. /\ Append(o, e) \in Seq(Tasks) /\ Len(Append(o, e)) = n + 1
        /\ \A k \in 1..n : Append(o, e)[k] = o[k]
        /\ Append(o, e)[n + 1] = e
    BY <2>1
  <2> DEFINE u == Append(o, e)
  <2>3. DOMAIN u = 1..(n + 1) /\ DOMAIN o = 1..n
    BY <2>1, <2>2
  <2> HIDE DEF u, n
  <2>4. ToSet(u) = ToSet(o) \cup {e}
    BY <2>1, <2>2, <2>3 DEF ToSet, u
  <2> QED
    BY <2>1, <2>2, <2>4 DEF u, o, e
<1> HIDE DEF S, order
<1> DEFINE f == Placed(bids, path)
<1>11. f \in [S -> BidType(MaxVersion)] /\ \A t \in S : f[t].bidder = bids[t].bidder
  <2>1. S \subseteq ToSet(path)
    BY <1>6, <1>7
  <2>2. path \in Seq(Tasks)
    BY <1>6, <1>7
  <2>3. bids \in [S -> BidType(MaxVersion)]
    BY <1>9
  <2> HIDE DEF path
  <2> QED
    BY <2>1, <2>2, <2>3, PlacedFacts, SMTT(30)
<1> HIDE DEF f
<1>13. \A t \in S : f[t].bidder = a
  BY <1>9, <1>11
<1>12. [order |-> order, bids |-> f] \in Builds(a, free)
  BY <1>7, <1>10, <1>11, <1>13, BuildsIntro
<1> QED
  BY <1>1, <1>12 DEF f

(* A bundle after one step: with the best addition, if there is any.       *)
Grown(a, free, peers, mine, b) ==
  LET more == Addable(a, free, peers, mine, b)
  IN IF more = {} THEN b
     ELSE Extended(a, mine, b, CHOOSE c \in more : \A d \in more : Chosen(c, d))

LEMMA GrownFacts ==
  ASSUME NEW a \in Agents, NEW free \in SUBSET Tasks, NEW peers, NEW mine \in Seq(Tasks),
         NEW b \in Builds(a, free)
  PROVE  /\ Path(b) \in Seq(Tasks) /\ ToSet(Path(b)) = ToSet(b.order) /\ IsInjective(Path(b))
         /\ \/ Grown(a, free, peers, mine, b) = b
            \/ \E c : /\ Addition(a, mine \o Path(b), Len(mine), free, c)
                      /\ c.task \notin DOMAIN b.bids
                      /\ Grown(a, free, peers, mine, b) = Extended(a, mine, b, c)
<1> DEFINE more == Addable(a, free, peers, mine, b)
           c    == CHOOSE x \in more : \A y \in more : Chosen(x, y)
           ts   == mine \o Path(b)
<1>1. /\ b.order \in Seq(Tasks) /\ ToSet(b.order) = DOMAIN b.bids
      /\ \A t \in DOMAIN b.bids : b.bids[t].pos \in Nat
  BY BuildsFacts DEF Buildable, BidType
<1>2. Path(b) \in Seq(Tasks) /\ ToSet(Path(b)) = ToSet(b.order) /\ IsInjective(Path(b))
  BY <1>1, PathFacts
<1>3. ts \in Seq(Tasks) /\ Len(mine) \in Nat
  BY <1>2
<1>4. \A x \in more : Addition(a, ts, Len(mine), free, x) /\ x.task \notin DOMAIN b.bids
  BY AddableFacts
<1>5. Grown(a, free, peers, mine, b) = IF more = {} THEN b ELSE Extended(a, mine, b, c)
  BY DEF Grown
<1> HIDE DEF more, ts
<1>6. ASSUME more # {} PROVE c \in more
  <2>1. \E x \in more : \A y \in more : Chosen(x, y)
    BY <1>3, <1>4, <1>6, ChosenFacts
  <2> QED
    BY <2>1
<1> HIDE DEF c
<1> QED
  BY <1>2, <1>4, <1>5, <1>6 DEF ts

(* What holds of the bundle an agent starts from, and of a bundle after    *)
(* one more step, holds of the bundle it builds.                           *)
LEMMA BundleInduction ==
  ASSUME NEW a, NEW free \in SUBSET Tasks, NEW peers, NEW mine, NEW V,
         Retained(a, free, peers) \in V,
         \A b \in V : Grown(a, free, peers, mine, b) \in V
  PROVE  Bundle(a, free, peers, mine) \in V
<1> DEFINE n == Cardinality(free)
           step(b) == Grown(a, free, peers, mine, b)
           start == Retained(a, free, peers)
           IsGrown(f) == f = [k \in 0..n |-> IF k = 0 THEN start ELSE step(f[k - 1])]
           grown == CHOOSE f : IsGrown(f)
<1>1. Bundle(a, free, peers, mine) = grown[n]
  BY Zenon DEF Bundle, Grown
<1>2. n \in Nat
  BY FleetAssumption, FS_Subset, FS_CardinalityType
<1>3. start \in V
  OBVIOUS
<1>4. \A b \in V : step(b) \in V
  OBVIOUS
<1> HIDE DEF n, step, start
<1>5. \E f : IsGrown(f)
  <2> DEFINE g == [p \in (1..n) \X V |-> step(p[2])]
  <2>1. \A k \in 1..n : \A v \in V : g[<<k, v>>] = step(v)
    OBVIOUS
  <2> HIDE DEF g
  <2>2. \A k \in 1..n : \A v \in V : g[<<k, v>>] \in V
    BY <1>4, <2>1, Zenon
  <2>3. PICK f \in [0..n -> V] : Recurs(f, n, start, g)
    BY <1>2, <1>3, <2>2, Recursion
  <2>4. f[0] = start /\ \A k \in 1..n : f[k] = g[<<k, f[k - 1]>>]
    BY <2>3 DEF Recurs
  <2>5. ASSUME NEW k \in 0..n PROVE f[k] = IF k = 0 THEN start ELSE step(f[k - 1])
    <3>1. CASE k = 0
      BY <2>4, <3>1
    <3>2. CASE k \in 1..n
      <4>1. k - 1 \in 0..n /\ f[k - 1] \in V /\ k # 0
        BY <1>2, <3>2
      <4> QED
        BY <2>1, <2>4, <3>2, <4>1
    <3> QED
      BY <1>2, <3>1, <3>2
  <2>6. f = [k \in 0..n |-> f[k]]
    OBVIOUS
  <2>7. IsGrown(f)
    BY <2>5, <2>6
  <2> QED
    BY <2>7
<1>6. IsGrown(grown)
  BY <1>5
<1> HIDE DEF grown
<1>7. \A k \in 0..n : grown[k] = IF k = 0 THEN start ELSE step(grown[k - 1])
  BY <1>6
<1> HIDE DEF IsGrown
<1> DEFINE S == {k \in 0..n : grown[k] \in V}
<1>8. 0 \in S
  BY <1>2, <1>3, <1>7
<1>9. ASSUME NEW k \in 0..(n - 1), k \in S PROVE k + 1 \in S
  <2>1. k + 1 \in 0..n /\ (k + 1) - 1 = k /\ k + 1 # 0 /\ grown[k] \in V
    BY <1>2, <1>9
  <2>2. grown[k + 1] = step(grown[k])
    BY <1>7, <2>1
  <2> QED
    BY <1>4, <2>1, <2>2
<1>10. n \in S
  <2> HIDE DEF S
  <2>1. 0..n \subseteq S
    BY <1>2, <1>8, <1>9, InductionUpTo
  <2> QED
    BY <1>2, <2>1
<1> QED
  BY <1>1, <1>10

LEMMA BundleTyped ==
  ASSUME Policy = "cbba", NEW a \in Agents, NEW free \in SUBSET Tasks, NEW peers,
         NEW mine \in Seq(Tasks), CopyTyped(Mind(a)), Mind(a).sender = a
  PROVE  Bundle(a, free, peers, mine) \in Builds(a, free)
<1>1. Retained(a, free, peers) \in Builds(a, free)
  BY RetainedTyped
<1>2. ASSUME NEW b \in Builds(a, free)
      PROVE  Grown(a, free, peers, mine, b) \in Builds(a, free)
  BY GrownFacts, ExtendedTyped
<1> QED
  BY <1>1, <1>2, BundleInduction

(* What an agent builds on typed states.                                   *)
LEMMA BuiltTyped ==
  ASSUME TypeInv, NEW a \in Agents, NEW peers,
         \A b \in DOMAIN peers : CopyTyped(peers[b]) /\ peers[b].sender = b
  PROVE  /\ CopyTyped(Mind(a)) /\ Mind(a).sender = a
         /\ open \subseteq Tasks
         /\ \A t \in open : Selected(a, t, peers) \in Holding
         /\ Buildable(a, open \ DOMAIN Owners(a, peers), Built(a, peers, Owners(a, peers)))
<1> DEFINE owned == Owners(a, peers)
           free  == open \ DOMAIN owned
           built == Built(a, peers, owned)
<1>1. CopyTyped(state[a]) /\ state[a].sender = a
  BY CopyKinds DEF TypeInv, OwnerInv, VersionInv
<1>2. CopyTyped(Mind(a)) /\ Mind(a).sender = a
  BY <1>1, BlankTyped DEF Mind
<1>3. open \subseteq Tasks
  BY DEF TypeInv, OwnerInv, WorldInv
<1>4. ASSUME NEW t \in open PROVE Selected(a, t, peers) \in Holding
  <2>1. t \in Tasks /\ owner[t] \in Holding
    BY <1>3 DEF TypeInv, FleetTyped
  <2>2. OwnersTyped(state[a]) /\ \A b \in DOMAIN peers : OwnersTyped(peers[b])
    BY <1>1 DEF CopyTyped
  <2> QED
    BY <2>1, <2>2, NobodyTyped, SelectedIsTyped
<1>5. free \in SUBSET Tasks
  BY <1>3
<1>6. CASE Policy = "nearest"
  <2> DEFINE S == {u \in free : Feasible(a, <<u>>)}
  <2>1. built = [order |-> <<>>, bids |-> [t \in S |-> Bid(a, Alone(a, t), 0)]]
    BY <1>6 DEF Built, NearestBids
  <2>2. ASSUME NEW t \in S
        PROVE  Bid(a, Alone(a, t), 0) \in BidType(MaxVersion) /\ Bid(a, Alone(a, t), 0).bidder = a
    <3> DEFINE ts == <<t>>
    <3>1. ts \in Seq(Tasks) /\ Len(ts) \in 0..Len(ts)
      BY <1>5
    <3>2. Travelled(Outcome(a, ts))
      <4> HIDE DEF ts
      <4>1. Travelled(Tour(a, ts)[Len(ts)])
        BY <3>1, TourTravels
      <4> QED
        BY <4>1 DEF Outcome
    <3>3. Counted(Alone(a, t))
      BY <3>2 DEF Travelled, Alone, Counted
    <3>4. 0 \in 0..MaxVersion /\ 0 \in Nat
      BY BoundsAssumption
    <3> QED
      BY <3>3, <3>4 DEF Bid, BidType, Counted
  <2> HIDE DEF built
  <2>3. DOMAIN built.bids = S /\ \A t \in S : built.bids[t] = Bid(a, Alone(a, t), 0)
    BY <2>1
  <2>4. S \subseteq free
    OBVIOUS
  <2> HIDE DEF S
  <2>5. Buildable(a, free, built)
    BY <1>6, <2>2, <2>3, <2>4 DEF Buildable
  <2> QED
    BY <1>2, <1>3, <1>4, <2>5 DEF built
<1>7. CASE Policy = "cbba"
  <2>1. DOMAIN owned \subseteq open /\ \A t \in DOMAIN owned : owned[t] \in Holding
    <3> DEFINE all == [t \in open |-> Selected(a, t, peers)]
               S   == {t \in open : all[t] # Nobody}
    <3>1. owned = [t \in S |-> all[t]]
      BY DEF Owners, Restrict
    <3> QED
      BY <1>4, <3>1
  <2>2. Committed(a, owned) \in Seq(Tasks)
    <3> HIDE DEF owned
    <3> QED
      BY <1>3, <2>1, CommittedFacts
  <2>3. built = Bundle(a, free, peers, Committed(a, owned))
    BY <1>7 DEF Built
  <2> HIDE DEF free, owned, built
  <2>4. Bundle(a, free, peers, Committed(a, owned)) \in Builds(a, free)
    BY <1>2, <1>5, <1>7, <2>2, BundleTyped
  <2>5. Buildable(a, free, built)
    BY <2>3, <2>4, BuildsFacts
  <2> QED
    BY <1>2, <1>3, <1>4, <2>5 DEF built, free, owned
<1> QED
  BY <1>6, <1>7, PolicyAssumption

(* The update of an agent.                                                 *)
LEMMA UpdateTyped ==
  ASSUME TypeInv, NEW a \in Agents, Update(a)
  PROVE  ClockTyped' /\ FleetTyped' /\ (\A c \in Copies' : CopyTyped(c))
         /\ (\A c \in commits' : CommitTyped(c))
<1>1. PICK peers :
        /\ state'[a] = NextState(a, peers) /\ NextState(a, peers).version <= MaxVersion
        /\ heard'[a] = peers
        /\ commits' = commits \cup Commits(a, NextState(a, peers), peers)
        /\ Copies' \subseteq Copies \cup {NextState(a, peers)}
        /\ \A b \in DOMAIN peers : /\ b \in Members(a) /\ peers[b].sender = b
                                   /\ peers[b] \in Copies
  BY UpdatePeers DEF TypeInv
<1> DEFINE n == NextState(a, peers)
<1>2. /\ phase = "agents" /\ Pass(a)
      /\ UNCHANGED <<beat, events, open, owner, alive, announced, detected, blocked, fence>>
  BY DEF Update, tasks, vehicles
<1>3. ClockTyped'
  <2>1. turn' \in (IF phase' = "agents" THEN alive' ELSE {0})
        /\ phase' \in {"agents", "events", "commits", "tasks"}
    BY <1>2 DEF Pass, First
  <2>2. lapses' \in 0..MaxLapses
    <3>1. PICK xs : lapses' = lapses + Cardinality(Lapsed(a, xs)) /\ lapses' <= MaxLapses
      BY DEF Update
    <3>2. Cardinality(Lapsed(a, xs)) \in Nat
      <4>1. IsFiniteSet(Agents \X Agents)
        BY FleetAssumption, FS_Product
      <4>2. Lapsed(a, xs) \subseteq Agents \X Agents
        BY DEF Lapsed, Incoming, Pairs
      <4> QED
        BY <4>1, <4>2, FS_Subset, FS_CardinalityType
    <3> HIDE DEF Lapsed
    <3> QED
      BY <3>1, <3>2, BoundsAssumption DEF TypeInv, ClockTyped
  <2> QED
    BY <1>2, <2>1, <2>2 DEF TypeInv, ClockTyped
<1>4. FleetTyped'
  <2>1. senders' \subseteq Agents
    BY DEF Update, Answer, TypeInv, FleetTyped
  <2>2. \A b \in Agents : DOMAIN heard'[b] \subseteq Members(b)
    <3>1. \A b \in Agents \ {a} : heard'[b] = heard[b]
      BY DEF Update, Answer, TypeInv, OwnerInv, VersionInv, Shapes
    <3> QED
      BY <1>1, <3>1 DEF TypeInv, FleetTyped
  <2> QED
    BY <1>2, <2>1, <2>2 DEF TypeInv, FleetTyped
<1>5. CopyTyped(n)
  <2>1. \A b \in DOMAIN peers : CopyTyped(peers[b]) /\ peers[b].sender = b
    BY <1>1 DEF TypeInv
  <2>2. MaxVersion \in Nat
    BY BoundsAssumption
  <2> QED
    <3>1. /\ CopyTyped(Mind(a)) /\ Mind(a).sender = a
          /\ open \subseteq Tasks
          /\ \A t \in open : Selected(a, t, peers) \in Holding
          /\ Buildable(a, open \ DOMAIN Owners(a, peers), Built(a, peers, Owners(a, peers)))
      BY <2>1, BuiltTyped
    <3>2. NextState(a, peers).version <= MaxVersion
      BY <1>1
    <3>3. CopyTyped(NextState(a, peers))
      BY <2>1, <2>2, <3>1, <3>2, NextStateTyped
    <3> QED
      BY <1>1, <3>3
<1>6. \A c \in Copies' : CopyTyped(c)
  BY <1>1, <1>5 DEF TypeInv
<1>7. \A c \in commits' : CommitTyped(c)
  <2> SUFFICES ASSUME NEW c \in Commits(a, n, peers) PROVE CommitTyped(c)
    BY <1>1 DEF TypeInv
  <2> HIDE DEF n
  <2>1. PICK t \in DOMAIN n.winners : c = [agent |-> a, task |-> t, bid |-> n.winners[t].bid]
    BY DEF Commits
  <2>2. t \in Tasks /\ n.winners[t].bid \in BidType(MaxVersion)
    BY <1>5, <2>1 DEF CopyTyped, WinnersTyped, WinnerTyped
  <2> QED
    BY <2>1, <2>2 DEF CommitTyped
<1> QED
  BY <1>3, <1>4, <1>6, <1>7

LEMMA TypesStep ==
  ASSUME TypeInv, [Next]_vars
  PROVE  TypeInv'
<1> DEFINE Goal == /\ ClockTyped' /\ FleetTyped'
                   /\ \A c \in Copies' : CopyTyped(c)
                   /\ \A c \in commits' : CommitTyped(c)
<1>0. OwnerInv /\ Shapes /\ ClockTyped /\ FleetTyped /\ WorldInv
  BY DEF TypeInv, OwnerInv, VersionInv
<1>1. ASSUME NEW a \in Agents, Update(a) PROVE Goal
  BY <1>1, UpdateTyped
<1>2. ASSUME Quiet, commits' \subseteq commits, ClockTyped', FleetTyped' PROVE Goal
  <2>1. Copies' \subseteq Copies
    BY <1>0, <1>2, QuietCopies
  <2> QED
    BY <1>2, <2>1 DEF TypeInv
<1>3. ASSUME UNCHANGED <<state, heard, air>> PROVE Quiet
  BY <1>0, <1>3 DEF Quiet, Shapes
<1>4. ASSUME NEW t \in Tasks, ReleaseTask(t) PROVE Goal
  <2>1. UNCHANGED <<state, heard, air, commits>>
    BY <1>4 DEF ReleaseTask, minds
  <2>2. ClockTyped'
    BY <1>0, <1>4, BoundsAssumption DEF ReleaseTask, Event, ClockTyped, vehicles
  <2>3. FleetTyped'
    BY <1>0, <1>4 DEF ReleaseTask, FleetTyped, vehicles, minds
  <2> QED
    BY <1>2, <1>3, <2>1, <2>2, <2>3
<1>5. ASSUME NEW t \in Tasks, Reject(t) PROVE Goal
  <2>1. UNCHANGED <<state, heard, air, commits>>
    BY <1>5 DEF Reject, minds
  <2>2. ClockTyped'
    BY <1>0, <1>5, BoundsAssumption DEF Reject, Late, ClockTyped, vehicles
  <2>3. FleetTyped'
    BY <1>0, <1>5, NobodyTyped DEF Reject, FleetTyped, vehicles, minds
  <2> QED
    BY <1>2, <1>3, <2>1, <2>2, <2>3
<1>6. ASSUME NEW t \in Tasks, Close(t) PROVE Goal
  <2>1. UNCHANGED <<state, heard, air, commits>>
    BY <1>6 DEF Close, minds
  <2>2. ClockTyped'
    BY <1>0, <1>6, BoundsAssumption DEF Close, Late, ClockTyped, vehicles
  <2>3. FleetTyped'
    BY <1>0, <1>6 DEF Close, FleetTyped, vehicles, minds
  <2> QED
    BY <1>2, <1>3, <2>1, <2>2, <2>3
<1>7. ASSUME NEW l \in Links, NEW value \in BOOLEAN, SetLinkBlocked(l, value) PROVE Goal
  <2>1. Quiet /\ commits' = commits
    BY <1>7 DEF SetLinkBlocked, minds, Quiet
  <2>2. ClockTyped'
    BY <1>0, <1>7, BoundsAssumption DEF SetLinkBlocked, Event, ClockTyped
  <2>3. FleetTyped'
    BY <1>0, <1>7 DEF SetLinkBlocked, FleetTyped, tasks, minds
  <2> QED
    BY <1>2, <2>1, <2>2, <2>3
<1>8. ASSUME NEW v \in Agents, DisableVehicle(v) PROVE Goal
  <2>1. UNCHANGED <<state, heard, air, commits>>
    BY <1>8 DEF DisableVehicle, minds
  <2>2. ClockTyped'
    BY <1>0, <1>8, BoundsAssumption DEF DisableVehicle, Event, ClockTyped
  <2>3. FleetTyped'
    BY <1>0, <1>8 DEF DisableVehicle, FleetTyped, tasks, minds
  <2> QED
    BY <1>2, <1>3, <2>1, <2>2, <2>3
<1>9. ASSUME ApplyFailureDetections PROVE Goal
  <2>1. UNCHANGED <<state, heard, air, commits>>
    BY <1>9 DEF ApplyFailureDetections, minds
  <2>2. ClockTyped'
    BY <1>0, <1>9 DEF ApplyFailureDetections, ClockTyped
  <2>3. Found \subseteq Agents \ alive
    BY <1>0 DEF Found, FleetTyped
  <2>4. owner' \in [Tasks -> Holding]
    BY <1>0, <1>9, NobodyTyped DEF ApplyFailureDetections, FleetTyped
  <2>5. FleetTyped'
    BY <1>0, <1>9, <2>3, <2>4 DEF ApplyFailureDetections, FleetTyped, minds
  <2> QED
    BY <1>2, <1>3, <2>1, <2>2, <2>5
<1>10. ASSUME ApplyCommits PROVE Goal
  <2>1. \A p \in Pairs : Queued(air[p], state[p[1]]) \subseteq air[p] \cup {state[p[1]]}
    BY DEF Queued
  <2>2. \A p \in Pairs : air'[p] \subseteq air[p] \cup {state[p[1]]}
    BY <1>10, <2>1 DEF ApplyCommits
  <2>3. Quiet /\ commits' = commits
    BY <1>10, <2>2 DEF ApplyCommits, minds, Quiet
  <2>4. ClockTyped'
    BY <1>0, <1>10 DEF ApplyCommits, ClockTyped, vehicles
  <2>5. owner' \in [Tasks -> Holding]
    <3>1. ASSUME NEW t \in Tasks, Winning(t) # {}
          PROVE  LET c == CHOOSE x \in Winning(t) : TRUE
                 IN [agent |-> c.agent, epoch |-> epoch, version |-> c.bid.version,
                     score |-> c.bid.score, pos |-> c.bid.pos] \in Holding
      <4> DEFINE c == CHOOSE x \in Winning(t) : TRUE
      <4>1. c \in Winning(t)
        BY <3>1
      <4>2. CommitTyped(c)
        BY <4>1 DEF TypeInv, Winning
      <4> HIDE DEF c
      <4>3. epoch \in Nat
        BY <1>0 DEF Shapes
      <4>4. [agent |-> c.agent, epoch |-> epoch, version |-> c.bid.version,
             score |-> c.bid.score, pos |-> c.bid.pos] \in Holding
        BY <4>2, <4>3 DEF CommitTyped, BidType, Holding
      <4> QED
        BY <4>4 DEF c
    <3>2. \A t \in Tasks : owner[t] \in Holding
      BY <1>0 DEF FleetTyped
    <3>3. owner' = [t \in Tasks |->
             IF Winning(t) = {} THEN owner[t]
             ELSE LET c == CHOOSE x \in Winning(t) : TRUE
                  IN [agent |-> c.agent, epoch |-> epoch, version |-> c.bid.version,
                      score |-> c.bid.score, pos |-> c.bid.pos]]
      BY <1>10, Zenon DEF ApplyCommits
    <3> QED
      BY <3>1, <3>2, <3>3
  <2>6. FleetTyped'
    BY <1>0, <1>10, <2>5 DEF ApplyCommits, FleetTyped, vehicles, minds
  <2> QED
    BY <1>2, <2>3, <2>4, <2>6
<1>11. ASSUME NEW a \in Agents, NEW v \in Agents, Detect(a, v) PROVE Goal
  <2>1. UNCHANGED <<state, heard, air, commits>>
    BY <1>11 DEF Detect, minds
  <2>2. ClockTyped'
    BY <1>0, <1>11 DEF Detect, clock, ClockTyped
  <2>3. detected' \in [Agents -> SUBSET (Agents \ alive)]
    BY <1>0, <1>11 DEF Detect, FleetTyped
  <2>4. FleetTyped'
    BY <1>0, <1>11, <2>3 DEF Detect, FleetTyped, tasks, minds
  <2> QED
    BY <1>2, <1>3, <2>1, <2>2, <2>4
<1>12. ASSUME EndTick PROVE Goal
  <2>1. UNCHANGED <<state, heard, air>> /\ commits' = {}
    BY <1>12 DEF EndTick
  <2>2. beat' \in 0..(Interval - 1)
    BY <1>0, <1>12, BoundsAssumption DEF EndTick, ClockTyped
  <2>3. ClockTyped'
    BY <1>0, <1>12, <2>2 DEF EndTick, First, ClockTyped, vehicles
  <2>4. FleetTyped'
    BY <1>0, <1>12 DEF EndTick, FleetTyped, vehicles, tasks
  <2> QED
    BY <1>2, <1>3, <2>1, <2>3, <2>4
<1>13. ASSUME UNCHANGED vars PROVE Goal
  <2>1. UNCHANGED <<state, heard, air, commits>>
    BY <1>13 DEF vars, minds
  <2>2. ClockTyped'
    BY <1>0, <1>13 DEF vars, clock, vehicles, ClockTyped
  <2>3. FleetTyped'
    BY <1>0, <1>13 DEF vars, vehicles, tasks, minds, FleetTyped
  <2> QED
    BY <1>2, <1>3, <2>1, <2>2, <2>3
<1>14. Goal
  BY <1>1, <1>4, <1>5, <1>6, <1>7, <1>8, <1>9, <1>10, <1>11, <1>12, <1>13 DEF Next, Detection
<1>15. OwnerInv'
  BY <1>0, OwnersStep
<1> QED
  BY <1>14, <1>15 DEF TypeInv

(* The variables have their types at all times: no copy of a state is of   *)
(* an epoch to come, none of its tasks is both bid for and owned, and every*)
(* winner it names came by a path of agents from its bidder.               *)
THEOREM TypeCorrect == Spec => []TypeOK
<1>1. TypeInv /\ [Next]_vars => TypeInv'
  BY TypesStep
<1> QED
  BY TypesInit, <1>1, TypeInvTypes, PTL DEF Spec

-----------------------------------------------------------------------------
(* The ledger.  A vehicle that can do a task is one of those that may.     *)
LEMMA FeasibleIsAble ==
  ASSUME NEW a, NEW t, Feasible(a, <<t>>)
  PROVE  a \in Able[t]
<1> DEFINE ts == <<t>>  s == Departure(a)
<1>1. Len(ts) = 1 /\ Len(ts) \in Nat /\ ts[1] = t /\ 1 \in 1..Len(ts) /\ 1 - 1 = 0
  OBVIOUS
<1> HIDE DEF ts, s
<1>2. Tour(a, ts)[1] = Serve(a, s, t)
  BY <1>1, TourFacts DEF s
<1>3. Serve(a, s, t).ok
  BY <1>1, <1>2 DEF Feasible, Outcome, ts
<1>4. a \notin Able[t] => Serve(a, s, t) = Refused(s)
  BY Zenon DEF Serve
<1>5. ~Refused(s).ok
  BY DEF Refused, s, Departure
<1> QED
  BY <1>3, <1>4, <1>5

LEMMA CommitTakes ==
  ASSUME TypeInv, ApplyCommits, NEW t \in Tasks, Winning(t) # {}
  PROVE  /\ t \in open /\ owner[t].agent = 0
         /\ owner'[t].agent \in Able[t] /\ owner'[t].agent \in alive
<1> DEFINE c == CHOOSE x \in Winning(t) : TRUE
<1>1. c \in Winning(t)
  OBVIOUS
<1>2. owner'[t] = [agent |-> c.agent, epoch |-> epoch, version |-> c.bid.version,
                   score |-> c.bid.score, pos |-> c.bid.pos]
  BY DEF ApplyCommits
<1> HIDE DEF c
<1>3. c.task = t /\ ValidCommit(c)
  BY <1>1 DEF Winning
<1>4. t \in open /\ owner[t] = Nobody /\ c.agent \in alive /\ Feasible(c.agent, <<t>>)
  BY <1>3 DEF ValidCommit
<1>5. c.agent \in Able[t]
  BY <1>4, FeasibleIsAble
<1> QED
  BY <1>2, <1>4, <1>5 DEF Nobody

LEMMA LedgerMoves ==
  ASSUME TypeInv', alive' = alive,
         \A t \in Tasks : \/ Ledger!Keep(t) \/ Ledger!Take(t) \/ Ledger!GiveBack(t)
                          \/ Ledger!Complete(t) \/ Ledger!Miss(t)
  PROVE  Ledger!Next
<1>1. Holder' \in [Tasks -> Agents \cup {0}]
  BY DEF TypeInv, FleetTyped, Holding, Holder
<1>2. Status' \in [Tasks -> {"pending", "completed", "missed"}]
  BY DEF Status
<1>3. Active' = Active
  BY DEF Active
<1> QED
  BY <1>1, <1>2, <1>3 DEF Ledger!Next, Ledger!MoveTasks

LEMMA LedgerStep ==
  ASSUME TypeInv, TypeInv', [Next]_vars
  PROVE  Ledger!Next \/ UNCHANGED Ledger!ledgerVars
<1>0. /\ \A t \in Tasks : /\ Holder[t] = owner[t].agent /\ Holder'[t] = owner'[t].agent
                          /\ Status[t] = "pending" <=> t \in open \cup coming
                          /\ Status[t] # "pending" => Status[t] = "missed"
                          /\ Status'[t] = "pending" <=> t \in open' \cup coming'
                          /\ Status'[t] # "pending" => Status'[t] = "missed"
      /\ \A a \in Agents : Active[a] <=> a \in alive
  BY DEF Holder, Status, Active
<1>1. alive \subseteq Agents /\ open \cap coming = {} /\ 0 \notin Agents
  BY IdsAssumption DEF TypeInv, OwnerInv, WorldInv
<1>2. ASSUME UNCHANGED <<alive, owner>>, open' \cup coming' = open \cup coming
      PROVE  UNCHANGED Ledger!ledgerVars
  BY <1>2 DEF Ledger!ledgerVars, Active, Holder, Status
<1>3. ASSUME UNCHANGED <<open, coming>>
      PROVE  \A t \in Tasks : Status'[t] = Status[t]
  BY <1>3 DEF Status
<1>4. ASSUME NEW v \in Agents, DisableVehicle(v) PROVE Ledger!Next
  <2>1. v \in alive /\ alive' = alive \ {v} /\ UNCHANGED <<owner, open, coming>>
    BY <1>4 DEF DisableVehicle, tasks
  <2>2. Active[v] /\ Active' = [Active EXCEPT ![v] = FALSE] /\ UNCHANGED <<Holder, Status>>
    <3>1. Active[v]
      BY <2>1 DEF Active
    <3>2. Active' = [a \in Agents |-> a \in alive']
      BY DEF Active
    <3>3. [Active EXCEPT ![v] = FALSE] = [a \in Agents |-> IF a = v THEN FALSE ELSE a \in alive]
      BY Zenon DEF Active
    <3>4. ASSUME NEW a \in Agents
          PROVE  (a \in alive') = (IF a = v THEN FALSE ELSE a \in alive)
      <4>1. a = v => (a \in alive') = FALSE
        BY <2>1
      <4>2. a # v => (a \in alive') = (a \in alive)
        BY <2>1
      <4> QED
        BY <4>1, <4>2, Zenon
    <3>5. Active' = [Active EXCEPT ![v] = FALSE]
      BY <3>2, <3>3, <3>4, Zenon
    <3> QED
      BY <2>1, <3>1, <3>5 DEF Holder, Status
  <2> QED
    BY <2>2 DEF Ledger!Next, Ledger!Fail
<1>5. CASE ApplyFailureDetections
  <2>1. UNCHANGED <<alive, open, coming>>
    BY <1>5 DEF ApplyFailureDetections
  <2>2. \A t \in Tasks : Ledger!Keep(t) \/ Ledger!GiveBack(t)
    <3> SUFFICES ASSUME NEW t \in Tasks PROVE Ledger!Keep(t) \/ Ledger!GiveBack(t)
      OBVIOUS
    <3>1. CASE t \in Orphans
      <4>1. t \in open /\ owner[t].agent # 0 /\ owner'[t] = Nobody
        BY <1>1, <1>5, <3>1 DEF Orphans, Found, ApplyFailureDetections
      <4> QED
        BY <1>0, <2>1, <4>1 DEF Ledger!GiveBack, Nobody
    <3>2. CASE t \notin Orphans
      <4>1. owner'[t] = owner[t]
        BY <1>5, <3>2 DEF ApplyFailureDetections
      <4> QED
        BY <1>0, <1>3, <2>1, <4>1 DEF Ledger!Keep
    <3> QED
      BY <3>1, <3>2
  <2> QED
    BY <2>1, <2>2, LedgerMoves
<1>6. CASE ApplyCommits
  <2>1. UNCHANGED <<alive, open, coming>>
    BY <1>6 DEF ApplyCommits, vehicles
  <2>2. \A t \in Tasks : Ledger!Keep(t) \/ Ledger!Take(t)
    <3> SUFFICES ASSUME NEW t \in Tasks PROVE Ledger!Keep(t) \/ Ledger!Take(t)
      OBVIOUS
    <3>1. CASE Winning(t) # {}
      <4>1. /\ t \in open /\ owner[t].agent = 0
            /\ owner'[t].agent \in Able[t] /\ owner'[t].agent \in alive
        BY <1>6, <3>1, CommitTakes
      <4> QED
        BY <1>0, <1>1, <2>1, <4>1 DEF Ledger!Take
    <3>2. CASE Winning(t) = {}
      <4>1. owner'[t] = owner[t]
        BY <1>6, <3>2 DEF ApplyCommits
      <4> QED
        BY <1>0, <1>3, <2>1, <4>1 DEF Ledger!Keep
    <3> QED
      BY <3>1, <3>2
  <2> QED
    BY <2>1, <2>2, LedgerMoves
<1>7. ASSUME NEW u \in Tasks, Reject(u) PROVE Ledger!Next
  <2>1. /\ u \in open /\ owner[u].agent \in alive
        /\ owner' = [owner EXCEPT ![u] = Nobody] /\ UNCHANGED <<alive, open, coming>>
    BY <1>7 DEF Reject, vehicles
  <2>2. ASSUME NEW t \in Tasks PROVE Ledger!Keep(t) \/ Ledger!GiveBack(t)
    <3>1. CASE t = u
      <4>1. owner'[t] = Nobody
        BY <2>1, <3>1 DEF TypeInv, FleetTyped
      <4> QED
        BY <1>0, <1>1, <2>1, <3>1, <4>1 DEF Ledger!GiveBack, Nobody
    <3>2. CASE t # u
      <4>1. owner'[t] = owner[t]
        BY <2>1, <3>2 DEF TypeInv, FleetTyped
      <4> QED
        BY <1>0, <1>3, <2>1, <4>1 DEF Ledger!Keep
    <3> QED
      BY <3>1, <3>2
  <2> QED
    BY <2>1, <2>2, LedgerMoves
<1>8. ASSUME NEW u \in Tasks, Close(u) PROVE Ledger!Next
  <2>1. u \in open /\ open' = open \ {u} /\ UNCHANGED <<alive, owner, coming>>
    BY <1>8 DEF Close, vehicles
  <2>2. ASSUME NEW t \in Tasks PROVE Ledger!Keep(t) \/ Ledger!Miss(t)
    <3>1. CASE t = u
      BY <1>0, <1>1, <2>1, <3>1 DEF Ledger!Miss
    <3>2. CASE t # u
      <4>1. Status'[t] = Status[t]
        BY <2>1, <3>2 DEF Status
      <4> QED
        BY <1>0, <2>1, <4>1 DEF Ledger!Keep
    <3> QED
      BY <3>1, <3>2
  <2> QED
    BY <2>1, <2>2, LedgerMoves
<1>9. ASSUME NEW t \in Tasks, ReleaseTask(t) PROVE UNCHANGED Ledger!ledgerVars
  <2>1. /\ t \in coming /\ coming' = coming \ {t} /\ open' = open \cup {t}
        /\ UNCHANGED <<alive, owner>>
    BY <1>9 DEF ReleaseTask, vehicles
  <2>2. open' \cup coming' = open \cup coming
    BY <2>1
  <2> QED
    BY <1>2, <2>1, <2>2
<1>10. CASE UNCHANGED <<alive, owner, open, coming>>
  BY <1>2, <1>10
<1>11. ASSUME NEW a \in Agents, Update(a) PROVE UNCHANGED <<alive, owner, open, coming>>
  BY <1>11 DEF Update, tasks, vehicles
<1>12. ASSUME NEW l \in Links, NEW value \in BOOLEAN, SetLinkBlocked(l, value)
       PROVE  UNCHANGED <<alive, owner, open, coming>>
  BY <1>12 DEF SetLinkBlocked, tasks
<1>13. ASSUME Detection PROVE UNCHANGED <<alive, owner, open, coming>>
  BY <1>13 DEF Detection, Detect, tasks
<1>14. ASSUME EndTick PROVE UNCHANGED <<alive, owner, open, coming>>
  BY <1>14 DEF EndTick, tasks, vehicles
<1>15. ASSUME UNCHANGED vars PROVE UNCHANGED <<alive, owner, open, coming>>
  BY <1>15 DEF vars, tasks, vehicles
<1> QED
  BY <1>4, <1>5, <1>6, <1>7, <1>8, <1>9, <1>10, <1>11, <1>12, <1>13, <1>14, <1>15 DEF Next

(* Agents that agree by messages on who takes what make the simulator keep *)
(* its promises about tasks: none passes from one vehicle to another, only *)
(* an active vehicle that can do it takes one, and what has ended stays so.*)
THEOREM ConsensusImplementsLedger == Spec => ImplementsLedger
<1>1. Init => Ledger!Init
  <2> SUFFICES ASSUME Init PROVE Ledger!Init
    OBVIOUS
  <2>1. Active = [a \in Agents |-> TRUE]
    BY DEF Init, Active
  <2>2. Holder = [t \in Tasks |-> 0]
    BY DEF Init, Holder, Nobody
  <2>3. Status = [t \in Tasks |-> "pending"]
    BY MissionAssumption DEF Init, Status
  <2> QED
    BY <2>1, <2>2, <2>3 DEF Ledger!Init
<1>2. TypeInv /\ [Next]_vars => TypeInv'
  BY TypesStep
<1>3. TypeInv /\ TypeInv' /\ [Next]_vars => [Ledger!Next]_(Ledger!ledgerVars)
  BY LedgerStep
<1> QED
  BY TypesInit, <1>1, <1>2, <1>3, PTL DEF Spec, ImplementsLedger, Ledger!Spec

-----------------------------------------------------------------------------
(* No agent bids for what it cannot do with the rest.  There are as many   *)
(* values of an injective sequence as it is long; the only sequence that   *)
(* has the members of a set in the order R is the set arranged by R.       *)
LEMMA InjectiveCount ==
  ASSUME NEW p, NEW n \in Nat, \A i, j \in 1..n : p[i] = p[j] => i = j,
         NEW T, \A x : x \in T <=> \E j \in 1..n : x = p[j]
  PROVE  IsFiniteSet(T) /\ Cardinality(T) = n
<1> DEFINE f == [j \in 1..n |-> p[j]]
<1>1. f \in [1..n -> T] /\ DOMAIN f = 1..n /\ \A j \in 1..n : f[j] = p[j]
  OBVIOUS
<1>2. \A x \in T : \E j \in 1..n : f[j] = x
  BY <1>1
<1> HIDE DEF f
<1>3. IsInjective(f)
  BY <1>1 DEF IsInjective
<1>4. f \in Bijection(1..n, T)
  BY <1>1, <1>2, <1>3 DEF Bijection, Injection, Surjection
<1>5. ExistsBijection(1..n, T)
  BY <1>4 DEF ExistsBijection
<1>6. IsFiniteSet(1..n) /\ Cardinality(1..n) = n
  BY FS_Interval
<1> QED
  BY <1>5, <1>6, FS_Bijection

LEMMA ArrangedIsThatOrder ==
  ASSUME NEW S, NEW p \in Seq(S), ToSet(p) = S, IsInjective(p), NEW R,
         \A i, j \in 1..Len(p) : <<p[i], p[j]>> \in R <=> i < j
  PROVE  Arranged(S, R) = p
<1> DEFINE n == Len(p)
           Ahead(x) == {y \in S : <<y, x>> \in R}
<1>1. n \in Nat /\ DOMAIN p = 1..n /\ S = {p[j] : j \in 1..n}
  BY DEF ToSet
<1>2. \A i, j \in 1..n : p[i] = p[j] => i = j
  BY <1>1 DEF IsInjective
<1> HIDE DEF n
<1>3. Cardinality(S) = n
  <2>1. \A x : x \in S <=> \E j \in 1..n : x = p[j]
    BY <1>1
  <2> QED
    BY <1>1, <1>2, <2>1, InjectiveCount
<1>4. ASSUME NEW i \in 1..n PROVE Cardinality(Ahead(p[i])) = i - 1
  <2>1. i - 1 \in Nat /\ 1..(i - 1) \subseteq 1..n /\ \A j \in 1..n : j < i <=> j \in 1..(i - 1)
    BY <1>1
  <2>2. \A j \in 1..n : <<p[j], p[i]>> \in R <=> j \in 1..(i - 1)
    BY <2>1 DEF n
  <2>3. \A x : x \in Ahead(p[i]) <=> \E j \in 1..(i - 1) : x = p[j]
    BY <1>1, <2>1, <2>2
  <2>4. \A j, k \in 1..(i - 1) : p[j] = p[k] => j = k
    BY <1>2, <2>1
  <2> HIDE DEF Ahead
  <2> QED
    BY <2>1, <2>3, <2>4, InjectiveCount
<1>5. ASSUME NEW i \in 1..n
      PROVE  (CHOOSE x \in S : Cardinality(Ahead(x)) = i - 1) = p[i]
  <2>1. p[i] \in S /\ Cardinality(Ahead(p[i])) = i - 1
    BY <1>1, <1>4
  <2>2. ASSUME NEW x \in S, Cardinality(Ahead(x)) = i - 1 PROVE x = p[i]
    <3>1. PICK j \in 1..n : x = p[j]
      BY <1>1
    <3>2. Cardinality(Ahead(x)) = j - 1
      BY <1>4, <3>1
    <3>3. j = i
      BY <1>1, <2>2, <3>2
    <3> QED
      BY <3>1, <3>3
  <2> HIDE DEF Ahead
  <2> QED
    BY <2>1, <2>2
<1>6. Arranged(S, R) = [i \in 1..n |-> CHOOSE x \in S : Cardinality(Ahead(x)) = i - 1]
  BY <1>3 DEF Arranged
<1> HIDE DEF Ahead
<1>7. Arranged(S, R) = [i \in 1..n |-> p[i]]
  BY <1>5, <1>6
<1>8. p = [i \in 1..n |-> p[i]]
  BY <1>1
<1> QED
  BY <1>7, <1>8

(* A member that is put into a sequence is put behind what goes before it. *)
Behind(s, p, i, e, k) == s \o InsertAt(p, i, e) = InsertAt(s \o p, k, e)

LEMMA InsertBehind ==
  ASSUME NEW s \in Seq(Tasks), NEW p \in Seq(Tasks), NEW e \in Tasks, NEW i \in 1..(Len(p) + 1),
         NEW k, k = Len(s) + i
  PROVE  Behind(s, p, i, e, k)
<1> DEFINE m == Len(s)
           n == Len(p)
           q == InsertAt(p, i, e)
           u == s \o p
           w == InsertAt(u, k, e)
<1>1. /\ m \in Nat /\ n \in Nat /\ i \in Int /\ 1 <= i /\ i <= n + 1
      /\ u \in Seq(Tasks) /\ Len(u) = m + n
      /\ \A j \in 1..m : u[j] = s[j]
      /\ \A j \in (m + 1)..(m + n) : u[j] = p[j - m]
  OBVIOUS
<1>2. /\ q \in Seq(Tasks) /\ Len(q) = n + 1
      /\ \A j \in 1..(n + 1) : q[j] = IF j < i THEN p[j] ELSE IF j = i THEN e ELSE p[j - 1]
  BY InsertElements
<1> HIDE DEF u, q
<1>3. k = m + i /\ k \in 1..(Len(u) + 1)
  <2>1. k = m + i
    OBVIOUS
  <2> HIDE DEF m, n
  <2>2. m \in Nat /\ n \in Nat /\ i \in Int /\ 1 <= i /\ i <= n + 1 /\ Len(u) = m + n
    BY <1>1
  <2> QED
    BY <2>1, <2>2
<1>4. /\ w \in Seq(Tasks) /\ Len(w) = m + n + 1
      /\ \A j \in 1..(m + n + 1) :
           w[j] = IF j < k THEN u[j] ELSE IF j = k THEN e ELSE u[j - 1]
  <2>1. /\ w \in Seq(Tasks) /\ Len(w) = Len(u) + 1
        /\ \A j \in 1..(Len(u) + 1) :
             w[j] = IF j < k THEN u[j] ELSE IF j = k THEN e ELSE u[j - 1]
    <3> HIDE DEF m
    <3> QED
      <4>1. u \in Seq(Tasks) /\ e \in Tasks
        BY <1>1
      <4> QED
        BY <1>3, <4>1, InsertElements, SMTT(30)
  <2> HIDE DEF w, m, n
  <2> QED
    BY <1>1, <2>1
<1> DEFINE v == s \o q
<1>5. /\ v \in Seq(Tasks) /\ Len(v) = m + n + 1
      /\ \A j \in 1..m : v[j] = s[j]
      /\ \A j \in (m + 1)..(m + n + 1) : v[j] = q[j - m]
  <2>1. s \in Seq(Tasks) /\ q \in Seq(Tasks) /\ Len(s) = m /\ Len(q) = n + 1 /\ n + 1 \in Nat
    BY <1>1, <1>2
  <2>2. /\ v \in Seq(Tasks) /\ Len(v) = Len(s) + Len(q)
        /\ \A j \in 1..(Len(s) + Len(q)) : v[j] = IF j <= Len(s) THEN s[j] ELSE q[j - Len(s)]
    BY <2>1, ConcatProperties, Zenon
  <2> HIDE DEF v, m, n
  <2>3. m \in Nat /\ n \in Nat /\ Len(s) + Len(q) = m + n + 1
    BY <1>1, <2>1
  <2>4. \A j \in 1..(m + n + 1) : v[j] = IF j <= m THEN s[j] ELSE q[j - m]
    BY <2>1, <2>2, <2>3
  <2>5. v \in Seq(Tasks) /\ Len(v) = m + n + 1
    BY <2>2, <2>3
  <2>6. ASSUME NEW j \in 1..m PROVE v[j] = s[j]
    <3>1. j \in 1..(m + n + 1) /\ j <= m
      BY <2>3
    <3> QED
      BY <2>4, <3>1
  <2>7. ASSUME NEW j \in (m + 1)..(m + n + 1) PROVE v[j] = q[j - m]
    <3>1. j \in 1..(m + n + 1) /\ ~(j <= m)
      BY <2>3
    <3> QED
      BY <2>4, <3>1
  <2> QED
    BY <2>5, <2>6, <2>7
<1> HIDE DEF v, w, m, n
<1>9. m \in Nat /\ n \in Nat /\ i \in Int /\ k = m + i /\ 1 <= i /\ i <= n + 1
  BY <1>1, <1>3
<1>6. ASSUME NEW j \in 1..(m + n + 1) PROVE v[j] = w[j]
  <2>1. CASE j <= m
    <3>1. j \in 1..m /\ j < k
      BY <1>9, <2>1
    <3> QED
      BY <1>1, <1>4, <1>5, <3>1
  <2>2. CASE j > m
    <3>1. /\ j \in (m + 1)..(m + n + 1) /\ j - m \in 1..(n + 1)
          /\ (j - m < i <=> j < k) /\ (j - m = i <=> j = k)
      BY <1>9, <2>2
    <3>2. v[j] = IF j < k THEN p[j - m] ELSE IF j = k THEN e ELSE p[j - m - 1]
      BY <1>2, <1>5, <3>1
    <3>3. j < k => u[j] = p[j - m]
      <4>1. j < k => j \in (m + 1)..(m + n)
        BY <1>9, <3>1
      <4> QED
        BY <1>1, <4>1
    <3>4. j > k => u[j - 1] = p[j - m - 1]
      <4>1. j > k => j - 1 \in (m + 1)..(m + n) /\ (j - 1) - m = j - m - 1
        BY <1>9, <3>1
      <4> QED
        BY <1>1, <4>1
    <3>5. w[j] = IF j < k THEN u[j] ELSE IF j = k THEN e ELSE u[j - 1]
      BY <1>4
    <3>6. j \in Int /\ k \in Int
      BY <1>9
    <3> QED
      BY <3>2, <3>3, <3>4, <3>5, <3>6
  <2> QED
    BY <1>1, <2>1, <2>2
<1>7. DOMAIN v = 1..(m + n + 1) /\ DOMAIN w = 1..(m + n + 1)
  BY <1>4, <1>5
<1>8. v = w
  BY <1>4, <1>5, <1>6, <1>7
<1> QED
  BY <1>8 DEF v, w, q, u, m, Behind

(* The path of a bundle depends on the positions of its bids only, and is  *)
(* the sequence they are positions on.                                     *)
LEMMA PathOfPositions ==
  ASSUME NEW b, NEW p \in Seq(Tasks), ToSet(p) = ToSet(b.order), IsInjective(p),
         \A i \in 1..Len(p) : b.bids[p[i]].pos = i - 1
  PROVE  Path(b) = p
<1> DEFINE S == ToSet(b.order)
           R == {x \in S \X S : Earlier(x[1], x[2], b.bids)}
           n == Len(p)
<1>1. n \in Nat /\ \A i \in 1..n : p[i] \in S /\ p[i] \in Tasks
  <2>1. n \in Nat /\ DOMAIN p = 1..n /\ \A i \in 1..n : p[i] \in Tasks
    OBVIOUS
  <2> QED
    BY <2>1 DEF ToSet
<1>2. p \in Seq(S)
  BY <1>1
<1>3. ASSUME NEW i \in 1..n, NEW j \in 1..n PROVE <<p[i], p[j]>> \in R <=> i < j
  <2>1. p[i] \in S /\ p[j] \in S /\ b.bids[p[i]].pos = i - 1 /\ b.bids[p[j]].pos = j - 1
    BY <1>1
  <2>2. <<p[i], p[j]>> \in R <=> Earlier(p[i], p[j], b.bids)
    <3> HIDE DEF S
    <3> QED
      BY <2>1
  <2>3. i = j => p[i] = p[j]
    OBVIOUS
  <2>4. p[i] \in Nat /\ p[j] \in Nat
    BY <1>1, IdsAssumption
  <2>5. i \in Int /\ j \in Int
    BY <1>1
  <2> DEFINE x == p[i]  y == p[j]
  <2>6. Earlier(x, y, b.bids) <=> i - 1 < j - 1 \/ (i - 1 = j - 1 /\ x < y)
    BY <2>1, Zenon DEF Earlier
  <2> HIDE DEF x, y, R, n
  <2>7. x \in Nat /\ y \in Nat /\ (i = j => x = y)
    BY <2>3, <2>4 DEF x, y
  <2>8. Earlier(x, y, b.bids) <=> i < j
    BY <2>5, <2>6, <2>7
  <2> QED
    BY <2>2, <2>8 DEF x, y
<1> HIDE DEF R
<1>4. Arranged(S, R) = p
  BY <1>2, <1>3, ArrangedIsThatOrder
<1> QED
  BY <1>4 DEF Path, R

(* The path of a bundle with one more task is the old path with that task  *)
(* where it fits best; and the agent can do that, behind what it has.      *)
LEMMA ExtendedPath ==
  ASSUME NEW a \in Agents, NEW free \in SUBSET Tasks, NEW mine \in Seq(Tasks),
         NEW b \in Builds(a, free), NEW p \in Seq(Tasks), p = Path(b),
         ToSet(p) = ToSet(b.order), IsInjective(p),
         NEW c, Addition(a, mine \o p, Len(mine), free, c), c.task \notin DOMAIN b.bids
  PROVE  Feasible(a, mine \o Path(Extended(a, mine, b, c)))
<1> DEFINE ts    == mine \o p
           i     == c.at.index
           index == i - Len(mine)
           e     == c.task
           path  == InsertAt(p, index + 1, e)
           S     == DOMAIN b.bids \cup {e}
           bids  == [t \in S |-> IF t = e THEN Bid(a, c.at, index) ELSE b.bids[t]]
           next  == Extended(a, mine, b, c)
<1>1. next = [order |-> Append(b.order, e), bids |-> Placed(bids, path)]
  BY Zenon DEF Extended
<1>2. e \in Tasks /\ c.at \in BestInsertion(a, ts, e, Len(mine))
  BY DEF Addition
<1>3. /\ b.order \in Seq(Tasks) /\ ToSet(b.order) = DOMAIN b.bids
  BY BuildsFacts
<1>4. /\ p \in Seq(Tasks) /\ ToSet(p) = ToSet(b.order) /\ IsInjective(p)
      /\ Len(p) \in Nat /\ Len(mine) \in Nat
      /\ ts \in Seq(Tasks) /\ Len(ts) = Len(mine) + Len(p)
  OBVIOUS
<1>5. i \in Len(mine)..Len(ts) /\ Feasible(a, InsertAt(ts, i + 1, e))
  <2>1. PICK k \in Slots(a, ts, e, Len(mine)) : c.at = Insertion(a, ts, e, k)
    BY <1>2 DEF BestInsertion
  <2>2. k \in Len(mine)..Len(ts) /\ Feasible(a, InsertAt(ts, k + 1, e))
    BY <2>1 DEF Slots
  <2>3. k \in 0..Len(ts)
    BY <1>4, <2>2
  <2>4. i = k
    <3>1. ts \in Seq(Tasks)
      BY <1>4
    <3> HIDE DEF ts, e
    <3> QED
      BY <1>2, <2>1, <2>3, <3>1, InsertionTyped
  <2> QED
    BY <2>2, <2>4
<1> HIDE DEF ts, i
<1>6. index + 1 \in 1..(Len(p) + 1) /\ Len(mine) + (index + 1) = i + 1
  BY <1>4, <1>5
<1> HIDE DEF index
<1>7. /\ path \in Seq(Tasks) /\ ToSet(path) = S /\ IsInjective(path)
  <2>1. e \notin ToSet(p)
    BY <1>3, <1>4
  <2> QED
    BY <1>2, <1>3, <1>4, <1>6, <2>1, InsertFacts
<1>8. mine \o path = InsertAt(ts, i + 1, e)
  <2> DEFINE j == index + 1  k == i + 1
  <2>1. /\ p \in Seq(Tasks) /\ mine \in Seq(Tasks) /\ e \in Tasks /\ j \in 1..(Len(p) + 1)
        /\ k = Len(mine) + j
    BY <1>2, <1>4, <1>6
  <2> HIDE DEF j, k, e
  <2>2. Behind(mine, p, j, e, k)
    BY <2>1, InsertBehind, Zenon
  <2>3. mine \o InsertAt(p, j, e) = InsertAt(mine \o p, k, e)
    BY <2>2 DEF Behind
  <2> QED
    BY <2>3 DEF ts, j, k
<1> HIDE DEF path, S
<1>9. DOMAIN bids = S
  OBVIOUS
<1>10. ToSet(next.order) = S
  <2> DEFINE o == b.order  n == Len(o)  u == Append(o, e)
  <2>1. /\ n \in Nat /\ u \in Seq(Tasks) /\ Len(u) = n + 1
        /\ \A k \in 1..n : u[k] = o[k]
        /\ u[n + 1] = e
    BY <1>2, <1>3
  <2>2. DOMAIN u = 1..(n + 1) /\ DOMAIN o = 1..n
    BY <1>3, <2>1
  <2>3. next.order = u
    BY <1>1
  <2> HIDE DEF u, o, n, next
  <2>4. ToSet(u) = ToSet(o) \cup {e}
    BY <2>1, <2>2, SMTT(30) DEF ToSet
  <2> QED
    BY <1>3, <2>3, <2>4 DEF S, o
<1>11. ASSUME NEW k \in 1..Len(path) PROVE next.bids[path[k]].pos = k - 1
  <2> DEFINE t == path[k]
             at == CHOOSE j \in 1..Len(path) : path[j] = t
             old == bids[t]
  <2>1. t \in S
    BY <1>7 DEF ToSet
  <2>2. at = k
    BY <1>7 DEF IsInjective
  <2>3. next.bids = Placed(bids, path)
    BY <1>1
  <2> HIDE DEF next, bids
  <2>4. next.bids[t] = [old EXCEPT !.pos = at - 1]
    BY <1>9, <2>1, <2>3 DEF Placed
  <2>5. "pos" \in DOMAIN old
    <3>1. t = e => "pos" \in DOMAIN old
      BY <2>1 DEF bids, Bid
    <3>2. t # e => old \in BidType(MaxVersion)
      BY <2>1, BuildsFacts DEF bids, S, Buildable
    <3> QED
      BY <3>1, <3>2 DEF BidType
  <2> HIDE DEF old, at
  <2> QED
    BY <2>2, <2>4, <2>5
<1> HIDE DEF next, bids
<1>12. Path(next) = path
  BY <1>7, <1>10, <1>11, PathOfPositions
<1>13. Feasible(a, mine \o Path(next))
  BY <1>5, <1>8, <1>12
<1> QED
  BY <1>13 DEF next

(* So it bids only for what it bid for, or for what it can do.             *)
LEMMA BundleDoable ==
  ASSUME Policy = "cbba", NEW a \in Agents, NEW free \in SUBSET Tasks, NEW peers,
         NEW mine \in Seq(Tasks), CopyTyped(Mind(a)), Mind(a).sender = a
  PROVE  LET b == Bundle(a, free, peers, mine)
         IN \/ DOMAIN b.bids \subseteq DOMAIN Mind(a).bids
            \/ Feasible(a, mine \o Path(b))
<1> DEFINE V == {b \in Builds(a, free) : \/ DOMAIN b.bids \subseteq DOMAIN Mind(a).bids
                                         \/ Feasible(a, mine \o Path(b))}
<1>1. Retained(a, free, peers) \in V
  BY RetainedTyped
<1>2. ASSUME NEW b \in V PROVE Grown(a, free, peers, mine, b) \in V
  <2>1. b \in Builds(a, free)
    OBVIOUS
  <2>2. CASE Grown(a, free, peers, mine, b) = b
    BY <2>2
  <2>3. CASE \E c : /\ Addition(a, mine \o Path(b), Len(mine), free, c)
                    /\ c.task \notin DOMAIN b.bids
                    /\ Grown(a, free, peers, mine, b) = Extended(a, mine, b, c)
    <3>1. PICK c : /\ Addition(a, mine \o Path(b), Len(mine), free, c)
                   /\ c.task \notin DOMAIN b.bids
                   /\ Grown(a, free, peers, mine, b) = Extended(a, mine, b, c)
      BY <2>3
    <3>2. Path(b) \in Seq(Tasks) /\ ToSet(Path(b)) = ToSet(b.order) /\ IsInjective(Path(b))
      BY <2>1, GrownFacts
    <3>3. Extended(a, mine, b, c) \in Builds(a, free)
      BY <2>1, <3>1, <3>2, ExtendedTyped
    <3>4. Feasible(a, mine \o Path(Extended(a, mine, b, c)))
      BY <2>1, <3>1, <3>2, ExtendedPath
    <3> QED
      BY <3>1, <3>3, <3>4
  <2> QED
    BY <2>1, <2>2, <2>3, GrownFacts
<1> HIDE DEF V
<1>3. Bundle(a, free, peers, mine) \in V
  BY <1>1, <1>2, BundleInduction
<1> QED
  BY <1>3 DEF V

(* What the next state of an agent says of its bids.                       *)
LEMMA NextStateBundle ==
  ASSUME NEW a, NEW peers,
         \A t \in DOMAIN Built(a, peers, Owners(a, peers)).bids :
           Built(a, peers, Owners(a, peers)).bids[t] \in BidType(MaxVersion)
  PROVE  LET n == NextState(a, peers)
             b == Built(a, peers, Owners(a, peers))
         IN /\ n.sender = a /\ n.owners = Owners(a, peers) /\ n.bundle = b.order
            /\ DOMAIN n.bids = DOMAIN b.bids
            /\ \A t \in DOMAIN b.bids : n.bids[t].pos = b.bids[t].pos
<1> DEFINE n == NextState(a, peers)
           owned == Owners(a, peers)
           b == Built(a, peers, owned)
           bids == Versioned(a, b.bids)
<1>1. PICK winners :
        n = Revised(a, [sender |-> a, epoch |-> epoch, version |-> 0, bids |-> bids,
                        winners |-> winners, bundle |-> b.order, owners |-> owned])
  BY Zenon DEF NextState, Concluded
<1>2. n.sender = a /\ n.owners = owned /\ n.bundle = b.order /\ n.bids = bids
  <2> HIDE DEF bids, b, owned
  <2> QED
    BY <1>1 DEF Revised
<1>3. DOMAIN bids = DOMAIN b.bids /\ \A t \in DOMAIN b.bids : bids[t].pos = b.bids[t].pos
  <2> DEFINE old(t) == IF t \in DOMAIN Mind(a).bids THEN Mind(a).bids[t].version ELSE 0
             new(t) == IF old(t) # 0 /\ [b.bids[t] EXCEPT !.version = old(t)] = Mind(a).bids[t]
                       THEN old(t) ELSE Mind(a).version + 1
  <2> HIDE DEF b
  <2>1. bids = [t \in DOMAIN b.bids |-> [b.bids[t] EXCEPT !.version = new(t)]]
    BY Zenon DEF Versioned
  <2> HIDE DEF new, bids
  <2>2. ASSUME NEW t \in DOMAIN b.bids PROVE bids[t].pos = b.bids[t].pos
    <3> DEFINE x == b.bids[t]
    <3>1. x \in BidType(MaxVersion) /\ bids[t] = [x EXCEPT !.version = new(t)]
      BY <2>1 DEF b, owned
    <3> HIDE DEF x
    <3>2. bids[t].pos = x.pos
      BY <3>1 DEF BidType
    <3> QED
      BY <3>2 DEF x
  <2> QED
    BY <2>1, <2>2
<1> QED
  BY <1>2, <1>3

LEMMA SamePath ==
  ASSUME NEW b, NEW c, b.order = c.order,
         \A t \in ToSet(b.order) : b.bids[t].pos = c.bids[t].pos
  PROVE  Path(b) = Path(c)
<1> DEFINE S == ToSet(b.order)
<1>1. \A x, y \in S : Earlier(x, y, b.bids) <=> Earlier(x, y, c.bids)
  BY DEF Earlier
<1> HIDE DEF S
<1>2. {p \in S \X S : Earlier(p[1], p[2], b.bids)} = {p \in S \X S : Earlier(p[1], p[2], c.bids)}
  BY <1>1
<1> QED
  BY <1>2, Zenon DEF Path, S

LEMMA UpdateDoable ==
  ASSUME TypeInv, Policy = "cbba", NEW a \in Agents, Update(a)
  PROVE  \/ DOMAIN state'[a].bids \subseteq DOMAIN Mind(a).bids
         \/ Feasible(a, Promised(state'[a]))
<1>1. PICK peers :
        /\ state'[a] = NextState(a, peers)
        /\ \A b \in DOMAIN peers : peers[b].sender = b /\ peers[b] \in Copies
  BY UpdatePeers DEF TypeInv
<1> DEFINE n     == NextState(a, peers)
           owned == Owners(a, peers)
           free  == open \ DOMAIN owned
           b     == Built(a, peers, owned)
           mine  == Committed(a, owned)
<1>2. \A c \in DOMAIN peers : CopyTyped(peers[c]) /\ peers[c].sender = c
  BY <1>1 DEF TypeInv
<1>3. /\ CopyTyped(Mind(a)) /\ Mind(a).sender = a /\ open \subseteq Tasks
      /\ \A t \in open : Selected(a, t, peers) \in Holding
      /\ Buildable(a, free, b)
  BY <1>2, BuiltTyped
<1>4. b = Bundle(a, free, peers, mine)
  BY DEF Built
<1>5. mine \in Seq(Tasks)
  <2>1. DOMAIN owned \subseteq Tasks /\ \A t \in DOMAIN owned : owned[t] \in Holding
    <3> DEFINE all == [t \in open |-> Selected(a, t, peers)]
               S   == {t \in open : all[t] # Nobody}
    <3>1. owned = [t \in S |-> all[t]]
      BY DEF Owners, Restrict
    <3> QED
      BY <1>3, <3>1
  <2> HIDE DEF owned
  <2> QED
    BY <2>1, CommittedFacts
<1>6. \/ DOMAIN b.bids \subseteq DOMAIN Mind(a).bids
      \/ Feasible(a, mine \o Path(b))
  <2>1. free \in SUBSET Tasks
    BY <1>3
  <2> HIDE DEF free, mine, b
  <2> QED
    BY <1>3, <1>4, <1>5, <2>1, BundleDoable
<1>7. /\ n.sender = a /\ n.owners = owned /\ n.bundle = b.order
      /\ DOMAIN n.bids = DOMAIN b.bids
      /\ \A t \in DOMAIN b.bids : n.bids[t].pos = b.bids[t].pos
  <2>1. \A t \in DOMAIN b.bids : b.bids[t] \in BidType(MaxVersion)
    BY <1>3 DEF Buildable
  <2> QED
    BY <2>1, NextStateBundle
<1>8. ToSet(b.order) = DOMAIN b.bids
  BY <1>3 DEF Buildable
<1> HIDE DEF n, b, owned, mine, free
<1>9. Path([order |-> n.bundle, bids |-> n.bids]) = Path(b)
  <2> DEFINE d == [order |-> n.bundle, bids |-> n.bids]
  <2>1. d.order = b.order /\ d.bids = n.bids
    BY <1>7
  <2> HIDE DEF d
  <2>2. Path(d) = Path(b)
    BY <1>7, <1>8, <2>1, SamePath
  <2> QED
    BY <2>2 DEF d
<1>10. Promised(n) = mine \o Path(b)
  BY <1>7, <1>9 DEF Promised, mine
<1> QED
  BY <1>1, <1>6, <1>7, <1>10 DEF n

(* An agent that plans ahead bids for one more task only if it can do that *)
(* together with all it owns and bids for.                                 *)
THEOREM NoOverbiddingHolds == Spec => NoOverbidding
<1> DEFINE Sound == Policy = "cbba" =>
             \A a \in Agents : state'[a] # state[a] =>
               \/ DOMAIN state'[a].bids \subseteq DOMAIN Mind(a).bids
               \/ Feasible(a, Promised(state'[a]))
<1>1. TypeInv /\ [Next]_vars => TypeInv'
  BY TypesStep
<1>2. ASSUME TypeInv, [Next]_vars PROVE Sound
  <2> SUFFICES ASSUME Policy = "cbba", NEW a \in Agents, state'[a] # state[a]
               PROVE  \/ DOMAIN state'[a].bids \subseteq DOMAIN Mind(a).bids
                      \/ Feasible(a, Promised(state'[a]))
    OBVIOUS
  <2>1. CASE \E b \in Agents : Update(b)
    <3>1. PICK b \in Agents : Update(b)
      BY <2>1
    <3>2. \A c \in Agents \ {b} : state'[c] = state[c]
      BY <3>1 DEF Update, Answer, TypeInv, OwnerInv, VersionInv, Shapes
    <3>3. a = b
      BY <3>2
    <3> QED
      BY <1>2, <3>1, <3>3, UpdateDoable
  <2>2. CASE UNCHANGED state
    BY <2>2
  <2>3. ASSUME \A b \in Agents : ~Update(b) PROVE UNCHANGED state
    BY <1>2, <2>3
    DEF Next, vars, minds, Event, ReleaseTask, Late, Reject, Close, SetLinkBlocked,
        DisableVehicle, ApplyFailureDetections, ApplyCommits, Detection, Detect, EndTick
  <2> QED
    BY <2>1, <2>2, <2>3
<1>3. TypeInv /\ [Next]_vars => [Sound]_vars
  BY <1>2
<1> QED
  BY TypesInit, <1>1, <1>3, PTL DEF Spec, NoOverbidding
=============================================================================
