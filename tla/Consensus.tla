----------------------------- MODULE Consensus -----------------------------
(***************************************************************************)
(* How agents agree on who takes which task: the allocator of each agent   *)
(* (agent/src/allocation.cpp), the states they send each other, and what   *)
(* the simulator makes of their commits (core/src/simulator.cpp).          *)
(*                                                                         *)
(* One tick: the agents act in the order of their ids, each on what it is  *)
(* shown and on the packets that reached it; then the simulator applies    *)
(* events, failure detections, commits and what becomes of the tasks.      *)
(* Agents read only what the simulator showed them at the end of the last  *)
(* tick.                                                                   *)
(*                                                                         *)
(* A packet is a whole state of its sender.  Of the states on a link, any  *)
(* may be delivered, lost or kept back; a tick in which a link does not    *)
(* deliver all it holds is a lapse.  MaxLapses bounds them, MaxEvents      *)
(* bounds events, and MaxUpsets both together.  Vehicles stand still and   *)
(* no work is done: the model is about agreement, not the mission.  The    *)
(* map and the policy do not change.                                       *)
(*                                                                         *)
(* A name that starts with Mut_ is a mistake someone could make in the     *)
(* definition after it; PROJECT.json says which property it breaks.        *)
(***************************************************************************)
EXTENDS Bundles, Functions

CONSTANTS
  Policy,      (* "nearest" or "cbba": allocation_policy                   *)
  Interval,    (* ticks between the periodic broadcasts                    *)
  Released,    (* the tasks released from the start                        *)
  Stable,      (* ticks of agreement that make a convergence sample        *)
  Backlog,     (* bound: states held by a link                             *)
  MaxLapses,   (* bound: ticks in which some link is not perfect           *)
  MaxEvents,   (* bound: failures, cuts, rejections and completions        *)
  MaxUpsets,   (* bound: lapses and events together                        *)
  MaxVersion   (* bound: versions of a state within an epoch               *)

ASSUME PolicyAssumption == Policy \in {"nearest", "cbba"}
ASSUME MissionAssumption == Released \subseteq Tasks /\ Stable \in Nat \ {0}
ASSUME BoundsAssumption ==
  /\ Interval \in Nat \ {0} /\ Backlog \in Nat \ {0}
  /\ MaxLapses \in Nat /\ MaxEvents \in Nat /\ MaxUpsets \in Nat /\ MaxVersion \in Nat \ {0}

VARIABLES
  phase,     (* "agents", then the simulator's "events", "commits", "tasks"*)
  turn,      (* the agent to act, in the phase "agents"                    *)
  beat,      (* tick modulo Interval                                       *)
  lapses,    (* how many lapses there were                                 *)
  events,    (* how many events there were                                 *)
  epoch,     (* allocation_epoch_                                          *)
  open,      (* released and pending tasks                                 *)
  coming,    (* tasks not released yet                                     *)
  owner,     (* owner and allocation of each task, or nobody               *)
  alive,     (* active vehicles                                            *)
  announced, (* Vehicle::failure_announced                                 *)
  detected,  (* the failures each agent has detected                       *)
  blocked,   (* blocked links                                              *)
  fence,     (* coordination_fence                                         *)
  state,     (* state_ of each agent: what it last sent the simulator      *)
  heard,     (* peer_states_ of each agent                                 *)
  senders,   (* the agents that broadcast in this tick                     *)
  air,       (* the states on each directed link                           *)
  commits,   (* the commits of this tick                                   *)
  sample     (* convergence_*: is one open, ticks of agreement, on what    *)

clock    == <<phase, turn, beat, lapses, events>>
tasks    == <<open, coming, owner, epoch>>
vehicles == <<alive, announced, detected, blocked>>
minds    == <<state, heard, senders, commits>>
vars     == <<clock, tasks, vehicles, fence, minds, air, sample>>

Pairs == {p \in Agents \X Agents : p[1] # p[2]}
Link(a, b) == {a, b}
Links == {Link(p[1], p[2]) : p \in Pairs}

(* The first of a set of agents to act.                                    *)
First(S) == {a \in S : \A b \in S : a <= b}

(* No one owns the task.                                                   *)
Nobody == [agent |-> 0, epoch |-> 0, version |-> 0, score |-> 0, pos |-> 0]

Empty == <<>>    (* the function without arguments                         *)

(* state_ after Clear().                                                   *)
Blank(a) == [sender |-> a, epoch |-> 0, version |-> 0, bids |-> Empty, winners |-> Empty,
             bundle |-> <<>>, owners |-> Empty]

(* begin_convergence.                                                      *)
Begun == [open |-> TRUE, stable |-> 0, seen |-> Empty]

Init ==
  /\ phase = "agents"
  /\ turn \in First(Agents)
  /\ beat = 0
  /\ lapses = 0
  /\ events = 0
  /\ epoch = 1
  /\ open = Released
  /\ coming = Tasks \ Released
  /\ owner = [t \in Tasks |-> Nobody]
  /\ alive = Agents
  /\ announced = {}
  /\ detected = [a \in Agents |-> {}]
  /\ blocked = {}
  /\ fence = FALSE
  /\ state = [a \in Agents |-> Blank(a)]
  /\ heard = [a \in Agents |-> Empty]
  /\ senders = {}
  /\ air = [p \in Pairs |-> {}]
  /\ commits = {}
  /\ sample = Begun

-----------------------------------------------------------------------------
(* What the simulator shows an agent.                                      *)
Members(a) == Agents \ {a}

Reachable(a) == {b \in Members(a) : Link(a, b) \notin blocked /\ b \notin detected[a]}

Bidders(a) == Agents \ detected[a]

(* The owner of its own task; of others, who its own last state named.     *)
Shown(a, t) ==
  LET said == state[a].owners
  IN IF owner[t].agent = a THEN owner[t]
     ELSE IF t \in DOMAIN said /\ said[t].agent \notin detected[a] \cup {a} THEN said[t]
     ELSE Nobody

-----------------------------------------------------------------------------
(* synchronize: a new epoch leaves nothing of what was said in the last.   *)
Mind(a) == IF state[a].epoch = epoch THEN state[a] ELSE Blank(a)

Recalled(a) == IF state[a].epoch = epoch THEN heard[a] ELSE Empty

(* better: the greater score, or the smaller distance, then the lower id.  *)
Better(x, y) ==
  IF Policy = "cbba" THEN x.score > y.score \/ (x.score = y.score /\ x.bidder < y.bidder)
  ELSE x.distance < y.distance \/ (x.distance = y.distance /\ x.bidder < y.bidder)

(* The claims on t made by b that reach a through peers, by paths without  *)
(* a, newer than what b itself told a.                                     *)
Relays(a, t, b, peers) ==
  {peers[p].winners[t].bid : p \in {q \in DOMAIN peers :
      /\ t \in DOMAIN peers[q].winners
      /\ peers[q].winners[t].bid.bidder = b
      /\ a \notin ToSet(peers[q].winners[t].path)}}

Fresh(a, t, b, peers) ==
  {r \in Relays(a, t, b, peers) : b \notin DOMAIN peers \/ r.version > peers[b].version}

Newest(R) == {r \in R : \A q \in R : q.version <= r.version}

Origin(t, b, peers) ==
  IF b \in DOMAIN peers /\ t \in DOMAIN peers[b].bids THEN {peers[b].bids[t]} ELSE {}

(* The claim of b that counts: its own, or the newest relayed one unless   *)
(* two of that version differ.                                             *)
Claim(a, t, b, own, peers) ==
  IF b = a THEN IF t \in DOMAIN own THEN {own[t]} ELSE {}
  ELSE LET fresh == Newest(Fresh(a, t, b, peers))
       IN IF fresh = {} THEN Origin(t, b, peers)
          ELSE IF Cardinality(fresh) = 1 THEN fresh ELSE {}

Claims(a, t, own, peers) == UNION {Claim(a, t, b, own, peers) : b \in Agents}

(* winner_for, as the set of the winner; own are the bids of a itself.     *)
WinnerFor(a, t, own, peers) ==
  LET all == Claims(a, t, own, peers)
  IN {x \in all : \A y \in all : x = y \/ Better(x, y)}

(* The paths by which a knows of bid w for t, w being of another agent.    *)
Paths(a, t, w, peers) ==
  IF w \in Origin(t, w.bidder, peers) THEN {<<w.bidder, a>>}
  ELSE {Append(peers[p].winners[t].path, a) : p \in {q \in DOMAIN peers :
          /\ t \in DOMAIN peers[q].winners
          /\ peers[q].winners[t].bid = w
          /\ a \notin ToSet(peers[q].winners[t].path)}}

Before(p, q) ==
  \/ Len(p) < Len(q)
  \/ /\ Len(p) = Len(q)
     /\ \E i \in 1..Len(p) : p[i] < q[i] /\ \A j \in 1..(i - 1) : p[j] = q[j]

(* winner_path: the shortest, then the least; <<>> is the logic_error      *)
(* "winner path missing".                                                  *)
WinnerPath(a, t, w, peers) ==
  LET all == IF w.bidder = a THEN {<<a>>} ELSE Paths(a, t, w, peers)
  IN IF all = {} THEN <<>> ELSE CHOOSE p \in all : \A q \in all : p = q \/ Before(p, q)

-----------------------------------------------------------------------------
(* validate_state: what a believes of a state s of a peer.                 *)
ValidBid(a, t, x, n) == t \in open /\ x.bidder \in Bidders(a) /\ x.version # 0 /\ x.pos < n

ValidBids(a, s) ==
  \A t \in DOMAIN s.bids :
    /\ ValidBid(a, t, s.bids[t], Cardinality(open))
    /\ s.bids[t].bidder = s.sender
    /\ s.bids[t].version <= s.version

ValidWinners(a, s) ==
  \A t \in DOMAIN s.winners :
    LET w == s.winners[t]
    IN /\ ValidBid(a, t, w.bid, Cardinality(open))
       /\ w.path # <<>> /\ Head(w.path) = w.bid.bidder /\ Last(w.path) = s.sender
       /\ ToSet(w.path) \subseteq Bidders(a)
       /\ IsInjective(w.path)
       /\ w.bid.bidder = s.sender =>
            t \in DOMAIN s.bids /\ s.bids[t] = w.bid /\ Len(w.path) = 1

ValidOwners(s) ==
  \A t \in DOMAIN s.owners :
    t \in open /\ s.owners[t].epoch \in 1..epoch /\ s.owners[t].version # 0

ValidBundle(s) ==
  IF Policy = "nearest" THEN s.bundle = <<>>
  ELSE /\ IsInjective(s.bundle) /\ ToSet(s.bundle) = DOMAIN s.bids
       /\ {s.bids[t].pos : t \in DOMAIN s.bids} = 0..(Len(s.bundle) - 1)

ValidState(a, s) ==
  /\ s.epoch = epoch /\ s.version # 0
  /\ s.sender \in Reachable(a) \cap Bidders(a)
  /\ ValidBids(a, s) /\ ValidWinners(a, s) /\ ValidOwners(s) /\ ValidBundle(s)

(* accept_messages and the sweep after it: got are the states of a peer    *)
(* that reached a and old the one it has, if any.  The newest replaces an  *)
(* older one, unless two of that version differ; what is no longer valid   *)
(* is dropped.                                                             *)
Valid(a, S) == {s \in S : ValidState(a, s)}

Accepted(a, got, old) ==
  LET new == Newest(Valid(a, got))
  IN IF Cardinality(new) = 1 /\ (\A s \in new, o \in old : s.version > o.version)
     THEN new ELSE Valid(a, old)

Peers(a, got) ==
  LET old(b) == IF b \in DOMAIN Recalled(a) THEN {Recalled(a)[b]} ELSE {}
      all    == [b \in Reachable(a) |-> Accepted(a, got[b], old(b))]
  IN [b \in {c \in Reachable(a) : all[c] # {}} |-> CHOOSE s \in all[b] : TRUE]

-----------------------------------------------------------------------------
(* merge_owners: who a believes owns t.  A claim to own it oneself counts  *)
(* before hearsay, then the newer one.  An agent known to be dead, or that *)
(* does not claim the task in its own state, does not own it.              *)
OwnerClaims(a, t, peers) ==
  {[by |-> o, direct |-> o.agent = a] : o \in {Shown(a, t)} \ {Nobody}}
  \cup {[by |-> peers[b].owners[t], direct |-> peers[b].owners[t].agent = b] :
          b \in {c \in DOMAIN peers : t \in DOMAIN peers[c].owners}}

Mut_Denied(a, t, peers) ==
  detected[a] \cup (IF Shown(a, t).agent = a THEN {} ELSE {a})

Mut_DeniedSelf(a, t, peers) ==
  detected[a]
  \cup {b \in DOMAIN peers : ~(t \in DOMAIN peers[b].owners /\ peers[b].owners[t].agent = b)}

Denied(a, t, peers) ==
  detected[a]
  \cup (IF Shown(a, t).agent = a THEN {} ELSE {a})
  \cup {b \in DOMAIN peers : ~(t \in DOMAIN peers[b].owners /\ peers[b].owners[t].agent = b)}

Outranks(x, y) ==
  \/ x.direct /\ ~y.direct
  \/ /\ x.direct = y.direct
     /\ LET p == x.by  q == y.by
        IN \/ p.epoch > q.epoch
           \/ /\ p.epoch = q.epoch
              /\ \/ p.version > q.version
                 \/ /\ p.version = q.version
                    /\ \/ p.score > q.score
                       \/ /\ p.score = q.score
                          /\ \/ p.agent < q.agent
                             \/ p.agent = q.agent /\ p.pos < q.pos

Selected(a, t, peers) ==
  LET all  == {c \in OwnerClaims(a, t, peers) : c.by.agent \notin Denied(a, t, peers)}
      best == {x \in all : \A y \in all : x.by = y.by \/ Outranks(x, y)}
  IN IF best = {} THEN Nobody ELSE (CHOOSE x \in best : TRUE).by

Owners(a, peers) ==
  LET all == [t \in open |-> Selected(a, t, peers)]
  IN Restrict(all, {t \in open : all[t] # Nobody})

(* A set as a sequence: each comes behind those that precede it, as the    *)
(* relation says (sort).                                                   *)
Arranged(S, precedes) ==
  [i \in 1..Cardinality(S) |->
     CHOOSE x \in S : Cardinality({y \in S : <<y, x>> \in precedes}) = i - 1]

(* committed_tasks: the tasks of a, in the order it will do them.          *)
Sooner(t, u, owners) ==
  LET x == owners[t]  y == owners[u]
  IN \/ x.epoch < y.epoch
     \/ /\ x.epoch = y.epoch
        /\ \/ x.pos < y.pos
           \/ x.pos = y.pos /\ (Deadline[t] < Deadline[u] \/ (Deadline[t] = Deadline[u] /\ t < u))

Committed(a, owners) ==
  LET mine == {t \in DOMAIN owners : owners[t].agent = a}
  IN Arranged(mine, {p \in mine \X mine : Sooner(p[1], p[2], owners)})

-----------------------------------------------------------------------------
(* nearest_bids: every task the agent could do by itself.                  *)
Bid(a, x, pos) ==
  [bidder |-> a, version |-> 0, score |-> x.score, distance |-> x.distance,
   energy |-> x.energy, completion |-> x.completion, pos |-> pos]

Alone(a, t) ==
  LET end == Outcome(a, <<t>>)
  IN [score |-> 0, distance |-> end.distance, energy |-> end.energy, completion |-> end.tick]

NearestBids(a, free) == [t \in {u \in free : Feasible(a, <<u>>)} |-> Bid(a, Alone(a, t), 0)]

-----------------------------------------------------------------------------
(* cbba_bids.  A bundle is the order it was built in and the bids for it,  *)
(* whose positions say in which order the tasks are to be done.            *)
Earlier(t, u, bids) == bids[t].pos < bids[u].pos \/ (bids[t].pos = bids[u].pos /\ t < u)

Path(b) ==
  LET all == ToSet(b.order)
  IN Arranged(all, {p \in all \X all : Earlier(p[1], p[2], b.bids)})

Placed(bids, path) ==
  [t \in DOMAIN bids |-> [bids[t] EXCEPT !.pos = (CHOOSE i \in 1..Len(path) : path[i] = t) - 1]]

Longest(seq, Holds(_)) ==
  SubSeq(seq, 1, Max({n \in 0..Len(seq) : \A i \in 1..n : Holds(seq[i])}))

(* What is left of the bundle: up to the first task that is no longer      *)
(* open, and then up to the first one lost to a peer.                      *)
Mut_Retained(a, free, peers) ==
  LET s     == Mind(a)
      known == Longest(s.bundle, LAMBDA t : t \in free)
      bids  == Restrict(s.bids, ToSet(known))
      kept  == SelectSeq(known, LAMBDA t : \E w \in WinnerFor(a, t, bids, peers) : w.bidder = a)
      left  == [order |-> kept, bids |-> Restrict(bids, ToSet(kept))]
  IN [left EXCEPT !.bids = Placed(@, Path(left))]

Retained(a, free, peers) ==
  LET s     == Mind(a)
      known == Longest(s.bundle, LAMBDA t : t \in free)
      bids  == Restrict(s.bids, ToSet(known))
      kept  == Longest(known, LAMBDA t : \E w \in WinnerFor(a, t, bids, peers) : w.bidder = a)
      left  == [order |-> kept, bids |-> Restrict(bids, ToSet(kept))]
  IN [left EXCEPT !.bids = Placed(@, Path(left))]

(* The tasks a can add to bundle b and would win, each with its insertion. *)
Addable(a, free, peers, mine, b) ==
  UNION {{[task |-> t, at |-> x] : x \in
            {y \in BestInsertion(a, mine \o Path(b), t, Len(mine)) :
               \A r \in WinnerFor(a, t, Empty, peers) : Better(Bid(a, y, 0), r)}} :
           t \in free \ DOMAIN b.bids}

(* The next task of the bundle: the greatest score, then less distance,    *)
(* energy and time, then the task id.                                      *)
Chosen(c, d) ==
  \/ c.task = d.task
  \/ c.at.score > d.at.score
  \/ /\ c.at.score = d.at.score
     /\ \/ c.at.distance < d.at.distance
        \/ /\ c.at.distance = d.at.distance
           /\ \/ c.at.energy < d.at.energy
              \/ /\ c.at.energy = d.at.energy
                 /\ \/ c.at.completion < d.at.completion
                    \/ c.at.completion = d.at.completion /\ c.task < d.task

Mut_Extended(a, mine, b, c) ==
  LET path == Append(Path(b), c.task)
      bids == [t \in DOMAIN b.bids \cup {c.task} |->
                 IF t = c.task THEN Bid(a, c.at, c.at.index - Len(mine)) ELSE b.bids[t]]
  IN [order |-> Append(b.order, c.task), bids |-> Placed(bids, path)]

Extended(a, mine, b, c) ==
  LET index == c.at.index - Len(mine)
      path  == InsertAt(Path(b), index + 1, c.task)
      bids  == [t \in DOMAIN b.bids \cup {c.task} |->
                  IF t = c.task THEN Bid(a, c.at, index) ELSE b.bids[t]]
  IN [order |-> Append(b.order, c.task), bids |-> Placed(bids, path)]

Bundle(a, free, peers, mine) ==
  LET grown[k \in 0..Cardinality(free)] ==
        IF k = 0 THEN Retained(a, free, peers)
        ELSE LET b    == grown[k - 1]
                 more == Addable(a, free, peers, mine, b)
             IN IF more = {} THEN b
                ELSE Extended(a, mine, b, CHOOSE c \in more : \A d \in more : Chosen(c, d))
  IN grown[Cardinality(free)]

-----------------------------------------------------------------------------
(* A bid that says what the last one said keeps its version.               *)
Mut_Versioned(a, bids) ==
  [t \in DOMAIN bids |-> [bids[t] EXCEPT !.version = Mind(a).version + 1]]

Versioned(a, bids) ==
  [t \in DOMAIN bids |->
     LET old == IF t \in DOMAIN Mind(a).bids THEN Mind(a).bids[t].version ELSE 0
     IN [bids[t] EXCEPT !.version =
           IF old # 0 /\ [bids[t] EXCEPT !.version = old] = Mind(a).bids[t]
           THEN old ELSE Mind(a).version + 1]]

(* revise_state: a new version whenever anything in it is new.             *)
Mut_Revised(a, next) ==
  [next EXCEPT !.version = IF /\ Mind(a).bids = next.bids /\ Mind(a).winners = next.winners
                              /\ Mind(a).version # 0
                           THEN Mind(a).version ELSE Mind(a).version + 1]

Revised(a, next) ==
  [next EXCEPT !.version = IF Mind(a) = [next EXCEPT !.version = Mind(a).version]
                           THEN Mind(a).version ELSE Mind(a).version + 1]

(* The bids an agent makes for the tasks that no one owns.                 *)
Built(a, peers, owners) ==
  IF Policy = "nearest"
  THEN [order |-> <<>>, bids |-> NearestBids(a, open \ DOMAIN owners)]
  ELSE Bundle(a, open \ DOMAIN owners, peers, Committed(a, owners))

(* The winners that follow from its bids and those of its peers.           *)
Concluded(a, peers, owners, bids, order) ==
  LET free == open \ DOMAIN owners
      won  == [t \in {u \in free : WinnerFor(a, u, bids, peers) # {}} |->
                 CHOOSE w \in WinnerFor(a, t, bids, peers) : TRUE]
  IN Revised(a, [sender |-> a, epoch |-> epoch, version |-> 0, bids |-> bids,
                 winners |-> [t \in DOMAIN won |->
                                [bid |-> won[t], path |-> WinnerPath(a, t, won[t], peers)]],
                 bundle |-> order, owners |-> owners])

(* The state of a that follows from what it believes of its peers.         *)
NextState(a, peers) ==
  LET owners == Owners(a, peers)
      built  == Built(a, peers, owners)
  IN Concluded(a, peers, owners, Versioned(a, built.bids), built.order)

(* peers_agree: every reachable peer names the same bid.                   *)
Mut_Agreed(a, t, w, peers) ==
  \A b \in DOMAIN peers : t \in DOMAIN peers[b].winners /\ peers[b].winners[t].bid = w

Mut_Waits(a, t, w, peers) ==
  \A b \in Members(a) :
    b \in DOMAIN peers /\ t \in DOMAIN peers[b].winners /\ peers[b].winners[t].bid = w

Agreed(a, t, w, peers) ==
  \A b \in Reachable(a) :
    b \in DOMAIN peers /\ t \in DOMAIN peers[b].winners /\ peers[b].winners[t].bid = w

(* The commits of an update: agreed winners that are its own bids, if the  *)
(* vehicle can still do the task (make_claim).                             *)
Commits(a, s, peers) ==
  {[agent |-> a, task |-> t, bid |-> s.winners[t].bid] :
     t \in {u \in DOMAIN s.winners :
              /\ s.winners[u].bid.bidder = a
              /\ Agreed(a, u, s.winners[u].bid, peers)
              /\ Feasible(a, <<u>>)}}

-----------------------------------------------------------------------------
(* What a link does with the states on it in a tick: it delivers some and  *)
(* keeps some; the others are lost.  Perfect links deliver them all.       *)
Transfers(p) == {x \in [got : SUBSET air[p], left : SUBSET air[p]] : x.got \cap x.left = {}}

Incoming(a) == {p \in Pairs : p[2] = a}

(* The links that did not.                                                 *)
Lapsed(a, xs) == {p \in Incoming(a) : xs[p].got # air[p]}

(* The allocator sends its state to all when it is new, and periodically.  *)
Mut_Broadcasts(a, s) == s # Mind(a)

Broadcasts(a, s) == s # Mind(a) \/ beat = 0

Mut_Pass(a) ==
  LET later == {b \in Agents : b > a}
  IN \/ later = {} /\ phase' = "events" /\ turn' = 0
     \/ phase' = phase /\ turn' \in First(later)

Pass(a) ==
  LET later == {b \in alive : b > a}
  IN \/ later = {} /\ phase' = "events" /\ turn' = 0
     \/ phase' = phase /\ turn' \in First(later)

(* What an agent makes of its peers' states, remembers and sends.          *)
Answer(a, peers, next) ==
  /\ next.version <= MaxVersion
  /\ heard' = [heard EXCEPT ![a] = peers]
  /\ state' = [state EXCEPT ![a] = next]
  /\ senders' = IF Broadcasts(a, next) THEN senders \cup {a} ELSE senders
  /\ commits' = commits \cup Commits(a, next, peers)

(* update(): one agent, with what the network brought it.                  *)
Update(a) ==
  /\ phase = "agents" /\ turn = a
  /\ Pass(a)
  /\ \E xs \in [Incoming(a) -> UNION {Transfers(p) : p \in Incoming(a)}] :
       LET peers == Peers(a, [b \in Members(a) |-> xs[<<b, a>>].got])
       IN /\ \A p \in Incoming(a) : xs[p] \in Transfers(p)
          /\ lapses' = lapses + Cardinality(Lapsed(a, xs))
          /\ lapses' <= MaxLapses /\ lapses' + events <= MaxUpsets
          /\ Answer(a, peers, NextState(a, peers))
          /\ air' = [p \in Pairs |-> IF p[2] = a THEN xs[p].left ELSE air[p]]
  /\ UNCHANGED <<beat, events, tasks, vehicles, fence, sample>>

-----------------------------------------------------------------------------
(* The simulator: scheduled events first.                                  *)
Event ==
  /\ phase = "events"
  /\ events < MaxEvents /\ lapses + events < MaxUpsets
  /\ events' = events + 1
  /\ UNCHANGED <<phase, turn, beat, lapses>>

(* A task is released, under a new epoch.                                  *)
ReleaseTask(t) ==
  /\ Event
  /\ t \in coming
  /\ coming' = coming \ {t}
  /\ open' = open \cup {t}
  /\ epoch' = epoch + 1
  /\ sample' = Begun
  /\ UNCHANGED <<owner, vehicles, fence, minds, air>>

(* A link is cut, and loses what is on it, or healed: the commits of the   *)
(* tick are fenced.                                                        *)
SetLinkBlocked(l, value) ==
  /\ Event
  /\ value # (l \in blocked)
  /\ blocked' = IF value THEN blocked \cup {l} ELSE blocked \ {l}
  /\ air' = [p \in Pairs |-> IF value /\ Link(p[1], p[2]) = l THEN {} ELSE air[p]]
  /\ fence' = TRUE
  /\ sample' = Begun
  /\ UNCHANGED <<tasks, alive, announced, detected, minds>>

DisableVehicle(v) ==
  /\ Event
  /\ v \in alive /\ alive # {v}
  /\ alive' = alive \ {v}
  /\ UNCHANGED <<tasks, announced, detected, blocked, fence, minds, air, sample>>

(* apply_failure_detections: what any agent has detected is announced, and *)
(* the tasks of the failed vehicle go back under a new epoch.              *)
Found == {v \in Agents \ announced : \E a \in alive : v \in detected[a]}

Orphans == {t \in open : owner[t].agent \in Found}

ApplyFailureDetections ==
  /\ phase = "events"
  /\ phase' = "commits"
  /\ announced' = announced \cup Found
  /\ owner' = [t \in Tasks |-> IF t \in Orphans THEN Nobody ELSE owner[t]]
  /\ epoch' = IF Orphans = {} THEN epoch ELSE epoch + 1
  /\ sample' = IF Orphans = {} THEN sample ELSE Begun
  /\ UNCHANGED <<turn, beat, lapses, events, open, coming, alive, detected, blocked, fence, minds,
                 air>>

(* valid_commit: a commit is for a free task, made under this epoch.       *)
Mut_ValidCommit(c) ==
  c.task \in open /\ c.agent \in alive /\ state[c.agent].epoch = epoch

ValidCommit(c) ==
  /\ c.task \in open /\ owner[c.task] = Nobody
  /\ c.agent \in alive /\ state[c.agent].epoch = epoch
  /\ Feasible(c.agent, <<c.task>>)

(* apply_commits: the best valid commit of each task, none behind a fence. *)
Winning(t) ==
  LET all == {c \in commits : c.task = t /\ ValidCommit(c)}
  IN {c \in all : ~fence /\ \A d \in all : c = d \/ Better(c.bid, d.bid)}

(* The network takes what the vehicles sent that are still active, but     *)
(* nothing for a blocked link.  A link that is full loses the oldest.      *)
Queued(q, s) ==
  LET all == q \cup {s}
      old == CHOOSE x \in all : \A y \in all :
               x.epoch < y.epoch \/ (x.epoch = y.epoch /\ x.version <= y.version)
  IN IF Cardinality(all) > Backlog THEN all \ {old} ELSE all

ApplyCommits ==
  /\ phase = "commits"
  /\ phase' = "tasks"
  /\ owner' = [t \in Tasks |->
       IF Winning(t) = {} THEN owner[t]
       ELSE LET c == CHOOSE x \in Winning(t) : TRUE
            IN [agent |-> c.agent, epoch |-> epoch, version |-> c.bid.version,
                score |-> c.bid.score, pos |-> c.bid.pos]]
  /\ air' = [p \in Pairs |->
       IF p[1] \in senders \cap alive /\ Link(p[1], p[2]) \notin blocked
       THEN Queued(air[p], state[p[1]]) ELSE air[p]]
  /\ UNCHANGED <<turn, beat, lapses, events, epoch, open, coming, vehicles, fence, minds,
                 sample>>

(* apply_rejections: an owner gives a task back; a new epoch.  It rejects  *)
(* what it was shown to own.                                               *)
Late ==
  /\ phase = "tasks"
  /\ events < MaxEvents /\ lapses + events < MaxUpsets
  /\ events' = events + 1
  /\ UNCHANGED <<phase, turn, beat, lapses>>

Reject(t) ==
  /\ Late
  /\ t \in open /\ owner[t].agent \in alive
  /\ \A c \in commits : c.task # t
  /\ owner' = [owner EXCEPT ![t] = Nobody]
  /\ epoch' = epoch + 1
  /\ sample' = Begun
  /\ UNCHANGED <<open, coming, vehicles, fence, minds, air>>

(* update_tasks: a task is completed, or its deadline passes.              *)
Close(t) ==
  /\ Late
  /\ t \in open
  /\ open' = open \ {t}
  /\ sample' = Begun
  /\ UNCHANGED <<coming, epoch, owner, vehicles, fence, minds, air>>

(* update_failure_monitors: an agent that could hear a failed vehicle, but *)
(* does not, detects the failure.                                          *)
Detect(a, v) ==
  /\ phase = "tasks"
  /\ a \in alive /\ v \notin alive
  /\ v \notin detected[a] /\ Link(a, v) \notin blocked
  /\ detected' = [detected EXCEPT ![a] = @ \cup {v}]
  /\ UNCHANGED <<clock, tasks, alive, announced, blocked, fence, minds, air, sample>>

(* allocation_agrees: the states of the active vehicles cover the pending  *)
(* tasks, and those of linked vehicles name the same bids and owners.      *)
Mut_Covered(a) ==
  state[a].epoch = epoch /\ DOMAIN state[a].winners \cap DOMAIN state[a].owners = {}

Covered(a) ==
  LET s == state[a]
  IN /\ s.epoch = epoch
     /\ DOMAIN s.winners \cup DOMAIN s.owners = open
     /\ DOMAIN s.winners \cap DOMAIN s.owners = {}

Named(a) == [t \in DOMAIN state[a].winners |-> state[a].winners[t].bid]

AllocationAgrees ==
  /\ \A a \in alive : Covered(a)
  /\ \A a, b \in alive : Link(a, b) \notin blocked =>
       Named(a) = Named(b) /\ state[a].owners = state[b].owners

(* update_convergence: a sample is complete after Stable ticks of the same *)
(* states.                                                                 *)
Converging ==
  LET seen == [a \in alive |-> state[a]]
  IN IF ~sample.open \/ ~AllocationAgrees THEN [sample EXCEPT !.stable = 0, !.seen = Empty]
     ELSE IF seen # sample.seen THEN [sample EXCEPT !.stable = 1, !.seen = seen]
     ELSE IF sample.stable + 1 < Stable THEN [sample EXCEPT !.stable = @ + 1]
     ELSE [open |-> FALSE, stable |-> 0, seen |-> Empty]

EndTick ==
  /\ phase = "tasks"
  /\ phase' = "agents" /\ turn' \in First(alive)
  /\ beat' = (beat + 1) % Interval
  /\ sample' = Converging
  /\ fence' = FALSE
  /\ commits' = {}
  /\ senders' = {}
  /\ UNCHANGED <<lapses, events, tasks, vehicles, state, heard, air>>

Detection == \E a, v \in Agents : Detect(a, v)

Next ==
  \/ \E a \in Agents : Update(a)
  \/ \E t \in Tasks : ReleaseTask(t) \/ Reject(t) \/ Close(t)
  \/ \E l \in Links, value \in BOOLEAN : SetLinkBlocked(l, value)
  \/ \E v \in Agents : DisableVehicle(v)
  \/ ApplyFailureDetections
  \/ ApplyCommits
  \/ Detection
  \/ EndTick

Spec == Init /\ [][Next]_vars

(* The mission goes on: it is always someone's turn, and each turn ends.   *)
Turns == phase' \in {"agents", "events", "commits", "tasks"} /\ turn' \in Agents \cup {0}

(* And a failure that could be heard is noticed.                           *)
FairSpec ==
  /\ Spec
  /\ WF_<<phase, turn>>(Turns)
  /\ SF_vars(Detection)

-----------------------------------------------------------------------------
(* Properties.                                                             *)
Holding == [agent : Agents \cup {0}, epoch : Nat, version : 0..MaxVersion, score : Int, pos : Nat]

Copies == {state[a] : a \in Agents} \cup (UNION {air[p] : p \in Pairs})
          \cup (UNION {Range(heard[a]) : a \in Agents})

(* The type of the variables; a copy of a state is of its sender, of an    *)
(* epoch that has begun, its tasks are each bid for or owned, and a winner *)
(* it names has come along a path of agents from the bidder.               *)
TypeOK ==
  /\ phase \in {"agents", "events", "commits", "tasks"}
  /\ turn \in (IF phase = "agents" THEN alive ELSE {0})
  /\ beat \in 0..(Interval - 1) /\ lapses \in 0..MaxLapses /\ events \in 0..MaxEvents
  /\ epoch \in Nat \ {0}
  /\ coming \subseteq Tasks /\ open \subseteq Tasks \ coming
  /\ owner \in [Tasks -> Holding]
  /\ alive \in (SUBSET Agents) \ {{}} /\ announced \subseteq Agents \ alive
  /\ detected \in [Agents -> SUBSET (Agents \ alive)]
  /\ blocked \subseteq Links /\ fence \in BOOLEAN /\ senders \subseteq Agents
  /\ \A p \in Pairs : \A s \in air[p] : s.sender = p[1]
  /\ \A a \in Agents : state[a].sender = a /\ DOMAIN heard[a] \subseteq Members(a)
  /\ \A s \in Copies : /\ s.epoch \in 0..epoch /\ s.version \in 0..MaxVersion
                       /\ DOMAIN s.bids \cap DOMAIN s.owners = {}
                       /\ DOMAIN s.winners \cap DOMAIN s.owners = {}
  /\ \A a \in Agents : \A t \in DOMAIN state[a].winners :
       LET path == state[a].winners[t].path
       IN path # <<>> /\ Last(path) = a /\ Head(path) = state[a].winners[t].bid.bidder
  /\ \A c \in commits : c.agent \in Agents /\ c.task \in Tasks

(* Agents compare versions, not contents: the copies of an agent's state   *)
(* that are kept, in flight or its own, and have the same epoch and        *)
(* version, are the same (revise_state).  So no agent ever sees two        *)
(* different states of one version, which it would refuse.                 *)
OneStatePerVersion ==
  \A x, y \in Copies :
    x.sender = y.sender /\ x.epoch = y.epoch /\ x.version = y.version => x = y

(* Whatever an agent hears, it believes to own a task if and only if the   *)
(* simulator has it own that task: hearsay neither takes work from an      *)
(* agent nor gives it any (merge_owners).                                  *)
OwnersKnow ==
  phase = "events" => \A a \in alive, t \in open :
    owner[t].agent = a <=> t \in DOMAIN state[a].owners /\ state[a].owners[t].agent = a

(* Agents that can reach each other never both commit a task in one tick,  *)
(* though each decides by itself on what it last heard; unless a link was  *)
(* cut or healed since, and the commits are fenced.                        *)
OneCommitter ==
  phase = "events" /\ ~fence => \A c, d \in commits :
    c.task = d.task /\ c.agent # d.agent => c.agent \notin Reachable(d.agent)

(* The agent that gets a task is the nearest of those it can reach that    *)
(* could do it, heard of or not: no one commits before all have spoken     *)
(* (peers_agree), and none is overtaken by an agent further away.          *)
NearestWins ==
  [][\A t \in Tasks : owner[t] = Nobody /\ owner'[t] # Nobody =>
       LET a == owner'[t].agent
       IN \A b \in Reachable(a) : Feasible(b, <<t>>) =>
            ~Better(Bid(b, Alone(b, t), 0), Bid(a, Alone(a, t), 0))]_vars

(* An owner is not replaced by a commit that was on its way when it got    *)
(* the task: only a release (failure, rejection) makes room for another.   *)
OwnerStays ==
  [][\A t \in open : owner[t] # Nobody /\ owner'[t] # Nobody => owner'[t] = owner[t]]_vars

(* The agreement of the agents keeps what the simulator promises about     *)
(* tasks (TaskLedger): a task passes to an active vehicle that can do it,  *)
(* from nobody and never from another, and one that has ended stays as it  *)
(* was.  Here the ledger does not ask whether a task was done or missed.   *)
Active == [a \in Agents |-> a \in alive]
Holder == [t \in Tasks |-> owner[t].agent]
Status == [t \in Tasks |-> IF t \in open \cup coming THEN "pending" ELSE "missed"]

Ledger == INSTANCE TaskLedger WITH
  Vehicles <- Agents, None <- 0, Capable <- Able, Preassigned <- [t \in Tasks |-> 0],
  alive <- Active, owner <- Holder, status <- Status

ImplementsLedger == Ledger!Spec

(* The tasks an agent owns can be done in the order it will do them        *)
(* (committed_tasks), although they may have been committed in another one *)
(* and over several epochs.                                                *)
Held(a) == Committed(a, Restrict(owner, {t \in open : owner[t] # Nobody}))

WorkCanBeDone == \A a \in alive : Feasible(a, Held(a))

(* All that an agent owns or bids for, in the order it will do it.         *)
Promised(s) == Committed(s.sender, s.owners) \o Path([order |-> s.bundle, bids |-> s.bids])

(* An agent that plans ahead bids for one more task only if it can do that *)
(* together with all it owns and bids for: it may be left with bids it     *)
(* cannot keep (what was committed first may be in the way), but then it   *)
(* adds none (cbba_bids).                                                  *)
NoOverbidding ==
  [][Policy = "cbba" =>
       \A a \in Agents : state'[a] # state[a] =>
         \/ DOMAIN state'[a].bids \subseteq DOMAIN Mind(a).bids
         \/ Feasible(a, Promised(state'[a]))]_vars

(* A complete convergence sample means what it says: if no vehicle failed  *)
(* and no link is cut, every agent knows the owner of every task.  The     *)
(* ticks it waits for are enough for what was lost to be sent again.       *)
SampleIsFinal ==
  [][sample.open /\ ~sample'.open /\ alive = Agents /\ blocked = {} =>
       \A a \in alive : state[a].owners = [t \in open |-> owner[t]]]_vars

(* Competing claims are resolved: each new version of a state settles at   *)
(* least one claim of one agent on one task, for good, as long as nothing  *)
(* is lost and nothing happens.                                            *)
ClaimsSettle ==
  lapses = 0 /\ events = 0 =>
    \A a \in Agents : state[a].version <= 1 + Cardinality(Tasks) * Cardinality(Agents)

(* A task that some active vehicle could do, after what it has to do       *)
(* already if it plans ahead, gets an owner in the end, whatever was lost, *)
(* cut, rejected or disabled meanwhile.                                    *)
Doable(t) ==
  t \in open /\ \E a \in alive :
    Feasible(a, IF Policy = "cbba" THEN Append(Held(a), t) ELSE <<t>>)

EventuallyOwned == \A t \in Tasks : []<>(Doable(t) => owner[t] # Nobody)

(* The same once all links are back and all failures have been noticed.    *)
Whole == blocked = {} /\ \A a \in alive : detected[a] = Agents \ alive

OwnedWhenWhole == \A t \in Tasks : []<>(Whole /\ Doable(t) => owner[t] # Nobody)

(* What an agent believes about owners becomes true, in the end, if it can *)
(* reach all the others.                                                   *)
BeliefsComeTrue ==
  <>[](Whole => \A a \in alive : \A t \in DOMAIN state[a].owners \cap open :
                  state[a].owners[t] = owner[t])
=============================================================================
