-------------------------- MODULE SupervisionProofs --------------------------
(***************************************************************************)
(* Proofs about Supervision and its log, for any agents, ticks and faults. *)
(* The invariant says, phase by phase, who has been started and what is in *)
(* which pipe (Staff, AgentFlow, SimFlow, Phases), and what the log holds  *)
(* while its writer lives (LogSound).                                      *)
(***************************************************************************)
EXTENDS Supervision, SequenceTheorems, TLAPS

(***************************************************************************)
(* Parts of the inductive invariant.                                       *)

(* The simulator's place in the mission.                                   *)
SimTick ==
  /\ sim = "open" => tick = 0
  /\ sim \in {"open", "step"} => tick < Ticks
  /\ sim \in {"footer", "summary"} => tick = Ticks

Ended(w) == proc[w] \in {"zombie", "gone"}

(* What the log holds while its writer lives, and when it ended well.      *)
LogSound ==
  /\ sim \in {"step", "footer"} /\ ~Ended(Sim) =>
       /\ disk = <<>> /\ Len(buffer) = tick + 1
       /\ \A i \in 1..(tick + 1) : buffer[i] = Whole[i]
  /\ sim = "summary" /\ ~Ended(Sim) => disk = Whole
  /\ Ended(Sim) /\ code[Sim] = 0 => disk = Whole

(* The exporter works on a log that is finished and whole.                 *)
ExportSound ==
  /\ IF exporter = "idle" THEN trace = "old" ELSE proc[Sim] = "gone"
  /\ exporter \in {"write", "rename"} => disk = Whole
  /\ exporter = "rename" => tmp = "whole"
  /\ TraceIsWhole

(* Who has been started, and who is still to be served.                    *)
Exchange == {"start", "observe", "tell", "ask", "act"}

Started(w) == proc[w] # "none"

Staff ==
  /\ pc \in Exchange => \A w \in Workers : proc[w] # "gone"
  /\ pc = "start" =>
       \/ rest = {Sim} /\ \A w \in Workers : ~Started(w)
       \/ rest \subseteq Agents /\ rest # {} /\ \A w \in Workers : Started(w) <=> w \notin rest
  /\ pc = "observe" =>
       /\ Started(Sim)
       /\ (\A a \in Agents : Started(a)) \/ (\A a \in Agents : ~Started(a))
  /\ pc \in {"tell", "ask", "act", "finish"} => \A w \in Workers : Started(w)
  /\ request[Sim] # <<>> \/ tick > 0 => \A w \in Workers : Started(w)
  /\ pc \in {"finish", "unwind"} => rest = Mine
  /\ pc = "finish" => \A w \in Workers : proc[w] = "gone" => code[w] = 0
  /\ pc = "report" => \A w \in Workers : proc[w] = "gone" /\ code[w] = 0
  /\ pc = "done" => Mine = {}
  /\ status = 0 => pc = "done" /\ \A w \in Workers : proc[w] = "gone" /\ code[w] = 0

(* Frames that can be in the pipes of an agent.                            *)
Of(t)   == {f \in Frames : f.tick = t}
Upto(t) == {f \in Frames : f.ok => f.tick <= t}

(* An agent that has not been asked in this tick, as far as it is alive.   *)
Fresh(a) == request[a] = <<>> /\ answer[a] \in Seq(Upto(tick - 1))

AgentFlow(a) ==
  /\ request[a] \in Seq(Of(tick)) /\ Len(request[a]) <= 1
  /\ answer[a] \in Seq(Upto(tick))
  /\ request[a] = <<>> \/ answer[a] \in Seq(Upto(tick - 1))

(* One frame at a time between supervisor and simulator.                   *)
SimFlow ==
  /\ Len(request[Sim]) + Len(answer[Sim]) <= 1
  /\ request[Sim] # <<>> =>
       Canonical(Head(request[Sim])) /\ \A a \in Agents : request[a] = <<>>
  /\ answer[Sim] # <<>> =>
       /\ \A a \in Agents : Fresh(a)
       /\ Head(answer[Sim]).ok =>
            /\ Head(answer[Sim]).tick = tick
            /\ IF Head(answer[Sim]).last THEN tick > 0 ELSE sim = "step"
  /\ sim = "open" => \A w \in Workers : request[w] = <<>> /\ answer[w] = <<>>

Batch(those) == {[agent |-> a, tick |-> tick] : a \in those}

Phases ==
  /\ pc = "start" => \A a \in Agents : Fresh(a)
  /\ pc = "start" /\ rest = {Sim} => sim = "open"
  /\ pc \in {"tell", "ask", "act"} \/ (pc = "start" /\ rest # {Sim}) =>
       request[Sim] = <<>> /\ answer[Sim] = <<>> /\ now = tick /\ sim = "step"
  /\ pc \in {"tell", "ask"} => rest \subseteq Agents
  /\ pc = "tell" => \A a \in rest : Fresh(a)
  /\ pc = "ask" =>
       batch = Batch(Agents \ rest) /\ \A a \in Agents \ rest : request[a] = <<>>
  /\ pc = "act" => batch = Batch(Agents) /\ \A a \in Agents : request[a] = <<>>

-----------------------------------------------------------------------------
(* Sequences of frames and of entries.                                     *)
LEMMA SimWorks == Sim \in Workers /\ Sim \notin Agents /\ Agents \subseteq Workers
  BY AgentsAssumption DEF Sim, Workers

LEMMA FrameType ==
  ASSUME NEW n \in 0..Ticks, NEW ok \in BOOLEAN, NEW last \in BOOLEAN,
         NEW acts \in SUBSET [agent : Agents, tick : 0..Ticks]
  PROVE  Frame(n, ok, last, acts) \in Frames
  BY DEF Frame, Frames

LEMMA TailOf ==
  ASSUME NEW S, NEW s \in Seq(S), s # <<>>
  PROVE  /\ Head(s) \in S /\ Tail(s) \in Seq(S)
         /\ Len(s) \in Nat \ {0} /\ Len(Tail(s)) = Len(s) - 1
  BY HeadTailProperties, LenProperties, EmptySeq

LEMMA Pushed ==
  ASSUME NEW S, NEW s \in Seq(S), NEW e \in S
  PROVE  /\ Append(s, e) \in Seq(S) /\ Len(Append(s, e)) = Len(s) + 1
         /\ s \o <<e>> = Append(s, e)
         /\ s \o <<e, e>> \in Seq(S)
<1>1. <<e, e>> \in Seq(S)
  OBVIOUS
<1> QED
  BY <1>1, AppendProperties, AppendIsConcat, ConcatProperties

LEMMA EntryTypes ==
  /\ Header \in Entries /\ Footer \in Entries /\ Torn \in Entries
  /\ \A n \in 1..Ticks : Record(n) \in Entries
  BY DEF Entries

LEMMA SpilledType ==
  ASSUME LogTypeOK, NEW file \in Spilled
  PROVE  file \in Seq(Entries)
<1>1. ASSUME NEW k \in 0..Len(buffer)
      PROVE  disk \o SubSeq(buffer, 1, k) \in Seq(Entries)
  <2>1. \A i \in 1..k : buffer[i] \in Entries
    BY <1>1, ElementOfSeq, LenProperties DEF LogTypeOK
  <2>2. SubSeq(buffer, 1, k) \in Seq(Entries)
    BY <1>1, <2>1, SubSeqProperties, LenProperties DEF LogTypeOK
  <2> QED
    BY <2>2, ConcatProperties DEF LogTypeOK
<1>2. CASE \E k \in 0..Len(buffer) : file = disk \o SubSeq(buffer, 1, k)
  BY <1>1, <1>2
<1>3. CASE \E k \in 0..(Len(buffer) - 1) : file = Append(disk \o SubSeq(buffer, 1, k), Torn)
  <2>1. PICK k \in 0..(Len(buffer) - 1) : file = Append(disk \o SubSeq(buffer, 1, k), Torn)
    BY <1>3
  <2>2. k \in 0..Len(buffer)
    BY LenProperties DEF LogTypeOK
  <2>3. disk \o SubSeq(buffer, 1, k) \in Seq(Entries)
    BY <1>1, <2>2
  <2> QED
    BY <2>1, <2>3, AppendProperties, EntryTypes
<1> QED
  BY <1>2, <1>3 DEF Spilled

-----------------------------------------------------------------------------
(* Types.                                                                  *)
ParentOK ==
  /\ pc \in {"start", "observe", "tell", "ask", "act", "finish", "unwind", "report", "done", "dead"}
  /\ rest \subseteq Workers /\ grip \in {"open", "eof", "term"}
  /\ now \in 0..Ticks /\ batch \subseteq [agent : Agents, tick : 0..Ticks]
  /\ stop \in BOOLEAN /\ status \in {0, 1}

ChildrenOK ==
  /\ proc \in [Workers -> {"none", "forked", "bound", "running", "zombie", "gone"}]
  /\ code \in [Workers -> {0, 1, 127, 137, 143}]
  /\ term \subseteq Workers /\ hung \subseteq Workers

PipesOK ==
  /\ closed \subseteq Workers
  /\ request \in [Workers -> Seq(Frames)] /\ answer \in [Workers -> Seq(Frames)]

SimOK ==
  /\ sim \in {"open", "step", "footer", "summary"} /\ tick \in 0..Ticks
  /\ SimTick

FaultsOK == faults \in 0..MaxFaults

LogOK == buffer \in Seq(Entries) /\ disk \in Seq(Entries) /\ summary \in {"none", "part", "whole"}

ExportOK ==
  /\ exporter \in {"idle", "write", "rename", "remove", "ended"}
  /\ tmp \in {"none", "part", "whole"} /\ trace \in {"old", "part", "new"}

Typed ==
  ParentOK /\ ChildrenOK /\ PipesOK /\ SimOK /\ FaultsOK /\ LogOK /\ ExportOK

LEMMA TypedParts == Typed <=> TypeOK /\ SimTick
  BY Zenon DEF Typed, TypeOK, LogTypeOK, ParentOK, ChildrenOK, PipesOK, SimOK, FaultsOK, LogOK, ExportOK

(* Each part rests on its own variables.                                   *)
LEMMA TypedFrame ==
  ASSUME Typed
  PROVE  /\ UNCHANGED parent => ParentOK'
         /\ UNCHANGED children => ChildrenOK'
         /\ UNCHANGED pipes => PipesOK'
         /\ UNCHANGED <<sim, tick>> => SimOK'
         /\ UNCHANGED faults => FaultsOK'
         /\ UNCHANGED log => LogOK'
         /\ UNCHANGED export => ExportOK'
<1>1. UNCHANGED parent => ParentOK'
  BY DEF Typed, parent, ParentOK
<1>2. UNCHANGED children => ChildrenOK'
  BY DEF Typed, children, ChildrenOK
<1>3. UNCHANGED pipes => PipesOK'
  BY DEF Typed, pipes, PipesOK
<1>4. UNCHANGED <<sim, tick>> => SimOK'
  BY DEF Typed, SimOK, SimTick
<1>5. UNCHANGED faults => FaultsOK'
  BY DEF Typed, FaultsOK
<1>6. UNCHANGED log => LogOK'
  BY DEF Typed, log, LogOK
<1>7. UNCHANGED export => ExportOK'
  BY DEF Typed, export, ExportOK
<1> QED
  BY <1>1, <1>2, <1>3, <1>4, <1>5, <1>6, <1>7

LEMMA LostType ==
  ASSUME Typed, Lost
  PROVE  LogOK'
  BY SpilledType, TypedParts, EmptySeq DEF Lost, LogOK, Typed, TypeOK

LEMMA LogOfType ==
  ASSUME Typed, NEW w \in Workers, LogOf(w)
  PROVE  LogOK'
  BY LostType, TypedFrame DEF LogOf

LEMMA EndsType ==
  ASSUME Typed, NEW w \in Workers, NEW value \in {0, 1, 127, 137, 143}, Ends(w, value),
         UNCHANGED hung, term' \subseteq Workers
  PROVE  ChildrenOK'
  BY DEF Typed, Ends, ChildrenOK

(* The supervisor.                                                         *)
LEMMA SuperviseTyped ==
  ASSUME Typed, Supervise
  PROVE  Typed'
<1>1. UNCHANGED <<sim, tick, faults, export>>
  BY DEF Supervise
<1>2. SimOK' /\ FaultsOK' /\ ExportOK'
  BY <1>1, TypedFrame
<1>3. ASSUME NEW w \in Workers, Expire(w)
      PROVE  ParentOK' /\ ChildrenOK' /\ PipesOK' /\ LogOK'
  <2>1. PipesOK'
    BY <1>3, TypedFrame DEF Expire
  <2>2. ParentOK'
    BY <1>3 DEF Expire, Typed, ParentOK
  <2>3. LogOK'
    BY <1>3, TypedFrame, LogOfType DEF Expire
  <2>4. ChildrenOK'
    BY <1>3 DEF Expire, Typed, ChildrenOK, Ends
  <2> QED
    BY <2>1, <2>2, <2>3, <2>4
<1>4. ASSUME NEW w \in Workers, Start(w)
      PROVE  ParentOK' /\ ChildrenOK' /\ PipesOK'
  <2>1. PipesOK'
    BY <1>4, TypedFrame DEF Start
  <2>2. ParentOK'
    BY <1>4, SimWorks DEF Start, Onward, Typed, ParentOK
  <2>3. ChildrenOK'
    BY <1>4 DEF Start, Typed, ChildrenOK
  <2> QED
    BY <2>1, <2>2, <2>3
<1>5. ASSUME NEW w \in Workers, CloseInput(w)
      PROVE  ParentOK' /\ ChildrenOK' /\ PipesOK'
  <2>1. ParentOK'
    BY <1>5 DEF CloseInput, Typed, ParentOK
  <2>2. ChildrenOK'
    BY <1>5 DEF CloseInput, Typed, ChildrenOK
  <2>3. PipesOK'
    BY <1>5 DEF CloseInput, Typed, PipesOK
  <2> QED
    BY <2>1, <2>2, <2>3
<1>6. ASSUME NEW w \in Workers, Reap(w)
      PROVE  ParentOK' /\ ChildrenOK' /\ PipesOK'
  <2>1. PipesOK'
    BY <1>6, TypedFrame DEF Reap
  <2>2. ParentOK'
    <3>1. CASE Unwind(Mine \ {w})
      BY <3>1 DEF Unwind, Mine, Typed, ParentOK
    <3>2. CASE ~Unwind(Mine \ {w})
      BY <1>6, <3>2 DEF Reap, Onward, Typed, ParentOK
    <3> QED
      BY <3>1, <3>2
  <2>3. ChildrenOK'
    BY <1>6 DEF Reap, Typed, ChildrenOK
  <2> QED
    BY <2>1, <2>2, <2>3
<1>7. ASSUME NEW a \in Agents, Tell(a)
      PROVE  ParentOK' /\ ChildrenOK' /\ PipesOK'
  <2>1. ChildrenOK'
    BY <1>7, TypedFrame DEF Tell
  <2>2. ParentOK'
    BY <1>7, SimWorks DEF Tell, Onward, Typed, ParentOK
  <2>3. Frame(now, TRUE, FALSE, {}) \in Frames
    BY FrameType DEF Typed, ParentOK
  <2>4. PipesOK'
    BY <1>7, <2>3, SimWorks, Pushed DEF Tell, Typed, PipesOK
  <2> QED
    BY <2>1, <2>2, <2>4
<1>8. ASSUME NEW a \in Agents, Ask(a)
      PROVE  ParentOK' /\ ChildrenOK' /\ PipesOK'
  <2>1. ChildrenOK'
    BY <1>8, TypedFrame DEF Ask
  <2>2. Head(answer[a]) \in Frames /\ Tail(answer[a]) \in Seq(Frames)
    BY <1>8, SimWorks, TailOf DEF Ask, Typed, PipesOK
  <2>3. PipesOK'
    BY <1>8, <2>2, SimWorks DEF Ask, Typed, PipesOK
  <2>4. ParentOK'
    <3>1. CASE Unwind(Mine)
      BY <3>1 DEF Unwind, Mine, Typed, ParentOK
    <3>2. CASE ~Unwind(Mine)
      <4>1. [agent |-> a, tick |-> Head(answer[a]).tick] \in [agent : Agents, tick : 0..Ticks]
        BY <2>2 DEF Frames
      <4> QED
        BY <1>8, <3>2, <4>1, SimWorks DEF Ask, Onward, Typed, ParentOK
    <3> QED
      BY <3>1, <3>2
  <2> QED
    BY <2>1, <2>3, <2>4
<1>9. ASSUME Observe
      PROVE  ParentOK' /\ ChildrenOK' /\ PipesOK'
  <2>1. ChildrenOK'
    BY <1>9, TypedFrame DEF Observe
  <2>2. Head(answer[Sim]) \in Frames /\ Tail(answer[Sim]) \in Seq(Frames)
    BY <1>9, SimWorks, TailOf DEF Observe, Typed, PipesOK
  <2>3. PipesOK'
    BY <1>9, <2>2, SimWorks DEF Observe, Typed, PipesOK
  <2>4. ParentOK'
    <3>1. CASE Unwind(Mine)
      BY <3>1 DEF Unwind, Mine, Typed, ParentOK
    <3>2. CASE ~Unwind(Mine)
      BY <1>9, <2>2, <3>2, SimWorks DEF Observe, Mine, Frames, Typed, ParentOK
    <3> QED
      BY <3>1, <3>2
  <2> QED
    BY <2>1, <2>3, <2>4
<1>10. ASSUME Act
       PROVE  ParentOK' /\ ChildrenOK' /\ PipesOK'
  <2>1. ChildrenOK'
    BY <1>10, TypedFrame DEF Act
  <2>2. ParentOK'
    BY <1>10 DEF Act, Typed, ParentOK
  <2>3. Frame(now, TRUE, FALSE, batch) \in Frames
    BY FrameType DEF Typed, ParentOK
  <2>4. PipesOK'
    BY <1>10, <2>3, SimWorks, Pushed DEF Act, Typed, PipesOK
  <2> QED
    BY <2>1, <2>2, <2>4
<1>11. ASSUME Fail \/ Report
       PROVE  ParentOK' /\ ChildrenOK' /\ PipesOK'
  <2>1. ChildrenOK' /\ PipesOK'
    BY <1>11, TypedFrame DEF Fail, Report
  <2>2. ParentOK'
    BY <1>11 DEF Fail, Report, Unwind, Mine, Typed, ParentOK
  <2> QED
    BY <2>1, <2>2
<1>12. UNCHANGED log => LogOK'
  BY TypedFrame
<1>13. ParentOK' /\ ChildrenOK' /\ PipesOK' /\ LogOK'
  BY <1>3, <1>4, <1>5, <1>6, <1>7, <1>8, <1>9, <1>10, <1>11, <1>12 DEF Supervise
<1> QED
  BY <1>2, <1>13 DEF Typed

(* Workers.                                                                *)
LEMMA SaidType ==
  ASSUME Typed, NEW w \in Workers, NEW f \in Frames,
         Say(w, <<f>>) \/ Say(w, <<f, f>>)
  PROVE  answer' \in [Workers -> Seq(Frames)]
<1>1. answer[w] \o <<f>> \in Seq(Frames) /\ answer[w] \o <<f, f>> \in Seq(Frames)
  BY Pushed DEF Typed, PipesOK
<1> QED
  BY <1>1 DEF Say, Typed, PipesOK

LEMMA TakenType ==
  ASSUME Typed, NEW w \in Workers, request[w] # <<>>,
         request' = [request EXCEPT ![w] = Tail(@)]
  PROVE  request' \in [Workers -> Seq(Frames)] /\ Head(request[w]) \in Frames
<1>1. Tail(request[w]) \in Seq(Frames) /\ Head(request[w]) \in Frames
  BY TailOf DEF Typed, PipesOK
<1> QED
  BY <1>1 DEF Typed, PipesOK

LEMMA AgentTyped ==
  ASSUME Typed, NEW a \in Agents, AgentActs(a) \/ AgentReturns(a), UNCHANGED export
  PROVE  Typed'
<1>1. ParentOK' /\ SimOK' /\ LogOK' /\ ExportOK'
  BY TypedFrame DEF AgentActs, AgentReturns, program
<1>2. ChildrenOK'
  BY SimWorks, EndsType, TypedFrame DEF AgentActs, AgentReturns, children, Typed, ChildrenOK
<1>3. ASSUME AgentActs(a)
      PROVE  PipesOK' /\ FaultsOK'
  <2>1. request' \in [Workers -> Seq(Frames)] /\ Head(request[a]) \in Frames
    BY <1>3, TakenType, SimWorks DEF AgentActs
  <2>2. /\ Frame(Head(request[a]).tick, TRUE, FALSE, {}) \in Frames
        /\ Frame(0, FALSE, FALSE, {}) \in Frames
    <3>1. Head(request[a]).tick \in 0..Ticks /\ 0 \in 0..Ticks
      BY <2>1, TicksAssumption DEF Frames
    <3> QED
      BY <3>1, FrameType, Zenon
  <2>3. answer' \in [Workers -> Seq(Frames)]
    BY <1>3, <2>2, SaidType, SimWorks DEF AgentActs, Typed, PipesOK
  <2>4. FaultsOK'
    BY <1>3, FaultsAssumption DEF AgentActs, Typed, FaultsOK
  <2>5. closed' \subseteq Workers
    BY <1>3 DEF AgentActs, Typed, PipesOK
  <2> QED
    BY <2>1, <2>3, <2>4, <2>5 DEF PipesOK
<1>4. AgentReturns(a) => PipesOK' /\ FaultsOK'
  BY TypedFrame DEF AgentReturns
<1> QED
  BY <1>1, <1>2, <1>3, <1>4 DEF Typed

LEMMA SimTyped ==
  ASSUME Typed, UNCHANGED export,
         SimOpens \/ SimSteps \/ SimStarves \/ SimFinishes \/ SimReturns
  PROVE  Typed'
<1>1. ParentOK' /\ ExportOK'
  BY TypedFrame DEF SimOpens, SimSteps, SimStarves, SimFinishes, SimReturns
<1>2. ChildrenOK'
  <2>1. term' \subseteq Workers /\ UNCHANGED hung
    BY DEF SimOpens, SimSteps, SimStarves, SimFinishes, SimReturns, Typed, ChildrenOK
  <2>2. Ends(Sim, 0) \/ Ends(Sim, 1) => ChildrenOK'
    BY <2>1, EndsType, SimWorks
  <2>3. UNCHANGED <<proc, code>> => ChildrenOK'
    BY <2>1 DEF Typed, ChildrenOK
  <2> QED
    BY <2>2, <2>3 DEF SimOpens, SimSteps, SimStarves, SimFinishes, SimReturns
<1>3. FaultsOK'
  BY FaultsAssumption DEF SimOpens, SimSteps, SimStarves, SimFinishes, SimReturns, Typed, FaultsOK
<1>4. ASSUME SimOpens
      PROVE  PipesOK' /\ SimOK' /\ LogOK'
  <2>1. Frame(0, TRUE, FALSE, {}) \in Frames
    <3>1. 0 \in 0..Ticks
      BY TicksAssumption
    <3> QED
      BY <3>1, FrameType, Zenon
  <2>2. answer' \in [Workers -> Seq(Frames)]
    BY <1>4, <2>1, SaidType, SimWorks DEF SimOpens, Typed, PipesOK
  <2>3. PipesOK'
    BY <1>4, <2>2 DEF SimOpens, Typed, PipesOK
  <2>4. SimOK'
    BY <1>4 DEF SimOpens, Typed, SimOK, SimTick
  <2>5. <<Header>> \in Seq(Entries) /\ <<>> \in Seq(Entries)
    BY EntryTypes
  <2>6. LogOK'
    BY <1>4, <2>5 DEF SimOpens, Open, Typed, LogOK
  <2> QED
    BY <2>3, <2>4, <2>6
<1>5. ASSUME SimSteps
      PROVE  PipesOK' /\ SimOK' /\ LogOK'
  <2>1. tick + 1 \in 1..Ticks
    BY <1>5, TicksAssumption DEF SimSteps, Typed, SimOK, SimTick
  <2>2. \A ok, last \in BOOLEAN : Frame(tick + 1, ok, last, {}) \in Frames
    BY <2>1, FrameType
  <2>3. Over(tick + 1) \in BOOLEAN
    BY DEF Over
  <2>4. answer' \in [Workers -> Seq(Frames)]
    BY <1>5, <2>2, <2>3, SaidType, SimWorks DEF SimSteps, Typed, PipesOK
  <2>5. request' \in [Workers -> Seq(Frames)]
    BY <1>5, TakenType, SimWorks DEF SimSteps
  <2>6. PipesOK'
    BY <1>5, <2>4, <2>5 DEF SimSteps, Typed, PipesOK
  <2>7. SimOK'
    BY <1>5, <2>1, TicksAssumption DEF SimSteps, Over, Typed, SimOK, SimTick
  <2>8. Write(Record(tick + 1)) => LogOK'
    BY <2>1, EntryTypes, AppendProperties DEF Write, Typed, LogOK
  <2>9. Lost => LogOK'
    BY LostType
  <2> QED
    BY <1>5, <2>6, <2>7, <2>8, <2>9 DEF SimSteps
<1>6. ASSUME SimStarves
      PROVE  PipesOK' /\ SimOK' /\ LogOK'
  BY <1>6, LostType, TypedFrame DEF SimStarves
<1>7. ASSUME SimFinishes
      PROVE  PipesOK' /\ SimOK' /\ LogOK'
  <2>1. PipesOK'
    BY <1>7, TypedFrame DEF SimFinishes
  <2>2. SimOK'
    BY <1>7 DEF SimFinishes, Typed, SimOK, SimTick
  <2>3. disk \o Append(buffer, Footer) \in Seq(Entries)
    BY EntryTypes, AppendProperties, ConcatProperties DEF Typed, LogOK
  <2>4. Finish => LogOK'
    BY <2>3, EmptySeq DEF Finish, Typed, LogOK
  <2>5. Lost => LogOK'
    BY LostType
  <2> QED
    BY <1>7, <2>1, <2>2, <2>4, <2>5 DEF SimFinishes
<1>8. ASSUME SimReturns
      PROVE  PipesOK' /\ SimOK' /\ LogOK'
  <2>1. PipesOK' /\ SimOK'
    BY <1>8, TypedFrame DEF SimReturns
  <2>2. LogOK'
    BY <1>8 DEF SimReturns, WriteSummary, Typed, LogOK
  <2> QED
    BY <2>1, <2>2
<1>9. PipesOK' /\ SimOK' /\ LogOK'
  BY <1>4, <1>5, <1>6, <1>7, <1>8
<1> QED
  BY <1>1, <1>2, <1>3, <1>9 DEF Typed

LEMMA OtherTyped ==
  ASSUME Typed, UNCHANGED export, NEW w \in Workers,
         Bind(w) \/ Exec(w) \/ TakeSignal(w) \/ Crash(w) \/ Hang(w) \/ Adopt(w)
  PROVE  Typed'
<1>1. ParentOK' /\ SimOK' /\ ExportOK'
  BY TypedFrame DEF Bind, Exec, TakeSignal, Crash, Hang, Adopt, program
<1>2. PipesOK'
  BY TypedFrame DEF Bind, Exec, TakeSignal, Crash, Hang, Adopt
<1>3. FaultsOK'
  BY TypedFrame, FaultsAssumption DEF Bind, Exec, TakeSignal, Crash, Hang, Adopt, Fault, Typed, FaultsOK
<1>4. LogOK'
  BY LogOfType, TypedFrame DEF Bind, Exec, TakeSignal, Crash, Hang, Adopt, program
<1>5. Bind(w) \/ Exec(w) \/ Hang(w) \/ Adopt(w) => ChildrenOK'
  BY DEF Bind, Exec, Hang, Adopt, Ends, Typed, ChildrenOK
<1>6. TakeSignal(w) => ChildrenOK'
  BY DEF TakeSignal, Ends, Typed, ChildrenOK
<1>7. Crash(w) => ChildrenOK'
  BY DEF Crash, Ends, Typed, ChildrenOK
<1> QED
  BY <1>1, <1>2, <1>3, <1>4, <1>5, <1>6, <1>7 DEF Typed

LEMMA SignalTyped ==
  ASSUME Typed, UNCHANGED export, RequestStop \/ Killed
  PROVE  Typed'
<1>1. SimOK' /\ LogOK' /\ ExportOK'
  BY TypedFrame DEF RequestStop, Killed, program
<1>2. FaultsOK'
  BY FaultsAssumption DEF RequestStop, Killed, Fault, Typed, FaultsOK
<1>3. ParentOK'
  BY DEF RequestStop, Killed, Typed, ParentOK
<1>4. ChildrenOK' /\ PipesOK'
  BY DEF RequestStop, Killed, children, pipes, Typed, ChildrenOK, PipesOK
<1> QED
  BY <1>1, <1>2, <1>3, <1>4 DEF Typed

LEMMA ExportTyped ==
  ASSUME Typed, ExportTrace
  PROVE  Typed'
<1>1. ParentOK' /\ ChildrenOK' /\ PipesOK' /\ SimOK' /\ LogOK' /\ FaultsOK'
  BY TypedFrame DEF ExportTrace, program
<1>2. ExportOK'
  <2>1. Replay \/ WriteTrace \/ RemoveTmp => ExportOK'
    BY DEF Replay, WriteTrace, RemoveTmp, Typed, ExportOK
  <2>2. Rename => ExportOK'
    BY DEF Rename, Typed, ExportOK
  <2>3. ExportDies => ExportOK'
    BY DEF ExportDies, Typed, ExportOK
  <2> QED
    BY <2>1, <2>2, <2>3 DEF ExportTrace, Export
<1> QED
  BY <1>1, <1>2 DEF Typed

LEMMA TypedStep == Typed /\ [Next]_vars => Typed'
<1> SUFFICES ASSUME Typed, [Next]_vars PROVE Typed'
  OBVIOUS
<1>1. CASE UNCHANGED vars
  BY <1>1, TypedFrame DEF vars, program, Typed
<1>2. CASE Supervise
  BY <1>2, SuperviseTyped
<1>3. ASSUME NEW w \in Workers, UNCHANGED export,
             Work(w) \/ TakeSignal(w) \/ Crash(w) \/ Hang(w) \/ Adopt(w)
      PROVE  Typed'
  BY <1>3, AgentTyped, SimTyped, OtherTyped DEF Work
<1>4. CASE (RequestStop \/ Killed) /\ UNCHANGED export
  BY <1>4, SignalTyped
<1>5. CASE ExportTrace
  BY <1>5, ExportTyped
<1> QED
  BY <1>1, <1>2, <1>3, <1>4, <1>5 DEF Next

LEMMA TypedInit == Init => Typed
<1> SUFFICES ASSUME Init PROVE Typed
  OBVIOUS
<1>1. ParentOK
  <2>1. 0 \in 0..Ticks
    BY TicksAssumption
  <2> QED
    BY <2>1, SimWorks DEF Init, ParentOK
<1>5. ChildrenOK /\ FaultsOK
  BY FaultsAssumption DEF Init, ChildrenOK, FaultsOK
<1>2. PipesOK
  BY EmptySeq DEF Init, PipesOK
<1>3. SimOK
  BY TicksAssumption DEF Init, SimOK, SimTick
<1>4. LogOK /\ ExportOK
  BY EmptySeq DEF Init, LogInit, ExportInit, LogOK, ExportOK
<1> QED
  BY <1>1, <1>2, <1>3, <1>4, <1>5 DEF Typed

(* Every variable keeps its type.  A tick is never past the last one,      *)
(* because the simulator steps only while the mission lasts.               *)
THEOREM TypeCorrect == Spec => []TypeOK
<1>1. Typed => TypeOK
  BY TypedParts
<1> QED
  BY <1>1, TypedInit, TypedStep, PTL DEF Spec

-----------------------------------------------------------------------------
(* Who is there.                                                           *)

(* A step that neither starts nor reaps anyone, and leaves the supervisor  *)
(* where it is.                                                            *)
Still ==
  \A w \in Workers :
     /\ Started(w)' <=> Started(w)
     /\ (proc[w] = "gone")' <=> proc[w] = "gone"
     /\ proc[w] = "gone" => code'[w] = code[w]

LEMMA StillMine == Still => Mine' = Mine
  BY DEF Still, Started, Mine

LEMMA StaffStill ==
  ASSUME Staff, Still, UNCHANGED <<pc, rest, status>>,
         request'[Sim] # <<>> \/ tick' > 0 => request[Sim] # <<>> \/ tick > 0
  PROVE  Staff'
  BY StillMine, SimWorks DEF Staff, Still, Started, Exchange

(* One worker changes, but neither from "none" nor to or from "gone".      *)
LEMMA StillWhen ==
  ASSUME ChildrenOK, NEW w \in Workers, NEW to \in {"bound", "running", "zombie"},
         proc[w] \notin {"none", "gone"}, proc' = [proc EXCEPT ![w] = to],
         UNCHANGED code \/ \E value : code' = [code EXCEPT ![w] = value]
  PROVE  Still
  BY DEF ChildrenOK, Still, Started

LEMMA StillSame == UNCHANGED <<proc, code>> => Still
  BY DEF Still, Started

LEMMA StillEnds ==
  ASSUME ChildrenOK, NEW w \in Workers, NEW value, proc[w] \notin {"none", "gone"}, Ends(w, value)
  PROVE  Still
  BY StillWhen DEF Ends

LEMMA StaffOfWorkers ==
  ASSUME Typed, Staff, NEW w \in Workers,
         Work(w) \/ TakeSignal(w) \/ Crash(w) \/ Hang(w)
  PROVE  Staff'
<1> USE DEF Typed
<1>1. ASSUME Bind(w) \/ Exec(w) PROVE Still
  BY <1>1, StillWhen, StillEnds DEF Bind, Exec
<1>2. ASSUME TakeSignal(w) PROVE Still
  <2>1. proc[w] = "running" \/ UNCHANGED <<proc, code>>
    BY <1>2 DEF TakeSignal
  <2>2. proc[w] = "running" => Still
    BY <1>2, StillEnds DEF TakeSignal
  <2> QED
    BY <2>1, <2>2, StillSame
<1>3. ASSUME Crash(w) \/ Hang(w) PROVE Still
  BY <1>3, StillEnds, StillSame DEF Crash, Hang
<1>4. ASSUME w \in Agents, AgentActs(w) \/ AgentReturns(w) PROVE Still
  BY <1>4, StillEnds, StillSame DEF AgentActs, AgentReturns, Works
<1>5. ASSUME w = Sim, SimOpens \/ SimSteps \/ SimStarves \/ SimFinishes \/ SimReturns PROVE Still
  BY <1>5, StillEnds, StillSame DEF SimOpens, SimSteps, SimStarves, SimFinishes, SimReturns, Works
<1>6. Still
  BY <1>1, <1>2, <1>3, <1>4, <1>5 DEF Work
<1>7. UNCHANGED parent
  BY DEF Work, Bind, Exec, TakeSignal, Crash, Hang, AgentActs, AgentReturns,
         SimOpens, SimSteps, SimStarves, SimFinishes, SimReturns
<1>8. request'[Sim] # <<>> \/ tick' > 0 => request[Sim] # <<>> \/ tick > 0
  <2>1. ASSUME w \in Agents, AgentActs(w) PROVE request'[Sim] = request[Sim] /\ tick' = tick
    BY <2>1, SimWorks DEF AgentActs, program, PipesOK
  <2>2. ASSUME SimSteps PROVE request[Sim] # <<>>
    BY <2>2 DEF SimSteps
  <2>3. ASSUME \/ Bind(w) \/ Exec(w) \/ TakeSignal(w) \/ Crash(w) \/ Hang(w)
               \/ AgentReturns(w) \/ SimOpens \/ SimStarves \/ SimFinishes \/ SimReturns
        PROVE  request' = request /\ tick' = tick
    BY <2>3 DEF Bind, Exec, TakeSignal, Crash, Hang, AgentReturns,
                SimOpens, SimStarves, SimFinishes, SimReturns, pipes, program
  <2> QED
    BY <2>1, <2>2, <2>3 DEF Work
<1> QED
  BY <1>6, <1>7, <1>8, StaffStill DEF parent

(* The supervisor leaves the exchange for good.                            *)
LEMMA StaffUnwinds ==
  ASSUME Typed, Staff, Unwind(Mine), UNCHANGED children,
         request'[Sim] = request[Sim], UNCHANGED tick, pc \in Exchange
  PROVE  Staff'
<1>1. Mine' = Mine /\ rest' = Mine /\ (pc' = "done" <=> Mine = {}) /\ pc' \in {"done", "unwind"}
  BY DEF Unwind, Mine, children
<1>2. status' # 0
  BY DEF Unwind, Staff, Exchange
<1>3. request'[Sim] # <<>> \/ tick' > 0 => \A w \in Workers : Started(w)'
  BY DEF Staff, Started, children
<1> QED
  BY <1>1, <1>2, <1>3 DEF Staff, Exchange

LEMMA StaffOfExchange ==
  ASSUME Typed, Staff, SimFlow, Phases, UNCHANGED tick,
         \/ \E w \in Workers : Start(w)
         \/ \E a \in Agents : Tell(a) \/ Ask(a)
         \/ Observe \/ Act \/ Fail
  PROVE  Staff'
<1> USE DEF Typed
<1>1. ASSUME NEW w \in Workers, Start(w)
      PROVE  Staff'
  <2>1. \A v \in Workers : proc[v] # "gone"
    BY <1>1 DEF Start, Staff, Exchange
  <2>2. \A v \in Workers : proc'[v] # "gone" /\ (Started(v)' <=> Started(v) \/ v = w)
    BY <1>1, <2>1 DEF Start, ChildrenOK, Started
  <2>3. pc' \in Exchange /\ status' # 0 /\ request' = request
    BY <1>1 DEF Start, Onward, Exchange, Staff, pipes
  <2>4. ASSUME w = Sim
        PROVE  /\ pc' = "observe"
               /\ Started(Sim)' /\ \A a \in Agents : ~Started(a)'
    BY <1>1, <2>2, <2>4, SimWorks DEF Start, Turn, Onward, Staff
  <2>5. ASSUME w # Sim
        PROVE  /\ pc' = IF rest = {w} THEN "tell" ELSE "start"
               /\ rest' = IF rest = {w} THEN Agents ELSE rest \ {w}
               /\ rest \subseteq Agents
               /\ \A v \in Workers : Started(v) <=> v \notin rest
    BY <1>1, <2>5, SimWorks DEF Start, Turn, Onward, Staff
  <2>6. pc' = "start" => rest' # {} /\ rest' \subseteq Agents /\ \A v \in Workers : Started(v)' <=> v \notin rest'
    BY <1>1, <2>2, <2>4, <2>5 DEF Start, Turn
  <2>7. pc' = "tell" => \A v \in Workers : Started(v)'
    BY <2>2, <2>4, <2>5
  <2>8. request'[Sim] # <<>> \/ tick' > 0 => \A v \in Workers : Started(v)'
    BY <2>2, <2>3 DEF Staff
  <2>9. pc' \in {"start", "tell", "observe"}
    BY <2>4, <2>5
  <2>10. pc' = "observe" => Started(Sim)' /\ \A a \in Agents : ~Started(a)'
    BY <2>4, <2>5
  <2>11. \A v \in Workers : proc'[v] # "gone"
    BY <2>2
  <2> QED
    BY <2>3, <2>6, <2>7, <2>8, <2>9, <2>10, <2>11 DEF Staff
<1>2. ASSUME NEW a \in Agents, Tell(a) \/ Ask(a)
      PROVE  Staff'
  <2>1. UNCHANGED children /\ request'[Sim] = request[Sim] /\ pc \in {"tell", "ask"} /\ status' = status
    BY <1>2, SimWorks DEF Tell, Ask, Unwind, PipesOK
  <2>2. CASE Unwind(Mine)
    BY <1>2, <2>1, <2>2, StaffUnwinds DEF Ask, Tell, Exchange, Unwind
  <2>3. CASE ~Unwind(Mine)
    <3>1. pc' \in {"tell", "ask", "act"}
      BY <1>2, <2>3 DEF Tell, Ask, Onward
    <3>2. \A w \in Workers : Started(w)' /\ proc'[w] # "gone"
      BY <2>1 DEF Staff, Started, children, Exchange
    <3>3. status' # 0
      BY <2>1 DEF Staff
    <3> QED
      BY <3>1, <3>2, <3>3 DEF Staff
  <2> QED
    BY <2>2, <2>3
<1>3. ASSUME Observe
      PROVE  Staff'
  <2>1. UNCHANGED <<children, request>> /\ pc = "observe" /\ status' = status
    BY <1>3 DEF Observe, Unwind
  <2>2. CASE Unwind(Mine)
    BY <2>1, <2>2, StaffUnwinds DEF Exchange
  <2>3. CASE ~Unwind(Mine)
    <3>1. \A w \in Workers : proc'[w] # "gone" /\ (Started(w)' <=> Started(w))
      BY <2>1 DEF Staff, Started, children, Exchange
    <3>2. status' # 0
      BY <2>1 DEF Staff
    <3>3. request'[Sim] # <<>> \/ tick' > 0 => \A v \in Workers : Started(v)'
      BY <2>1, <3>1 DEF Staff
    <3>4. Mine' = Mine
      BY <2>1 DEF Mine, children
    <3>5. /\ pc' \in {"finish", "start", "tell"}
          /\ pc' = "finish" => rest' = Mine /\ Head(answer[Sim]).ok /\ Head(answer[Sim]).last
          /\ pc' = "start" => rest' = Agents /\ Mine = {Sim}
          /\ pc' = "tell" => Mine # {Sim}
      BY <1>3, <2>3 DEF Observe
    <3>6. pc' = "finish" => \A v \in Workers : Started(v)'
      <4>1. pc' = "finish" => tick > 0
        BY <1>3, <3>5 DEF Observe, SimFlow
      <4> QED
        BY <3>1, <4>1 DEF Staff
    <3>7. Started(Sim)
      BY <2>1 DEF Staff
    <3>8. \A v \in Workers : v \in Mine <=> Started(v)
      BY <2>1 DEF Mine, Started, Staff, Exchange
    <3>9. pc' = "start" => \A a \in Agents : ~Started(a)
      BY <3>5, <3>8, SimWorks
    <3>10. pc' = "tell" => \A v \in Workers : Started(v)
      <4>1. Mine # {Sim} => \E a \in Agents : Started(a)
        BY <3>7, <3>8 DEF Mine, Workers
      <4> QED
        BY <2>1, <3>5, <3>7, <4>1 DEF Staff, Workers
    <3>11. pc' = "start" => rest' \subseteq Agents /\ rest' # {} /\ \A w \in Workers : Started(w)' <=> w \notin rest'
      BY <3>1, <3>5, <3>7, <3>9, AgentsAssumption, SimWorks DEF Workers
    <3> QED
      BY <3>1, <3>2, <3>3, <3>4, <3>5, <3>6, <3>10, <3>11 DEF Staff
  <2> QED
    BY <2>2, <2>3
<1>4. ASSUME Act
      PROVE  Staff'
  <2>1. \A w \in Workers : Started(w)' /\ proc'[w] # "gone"
    BY <1>4 DEF Act, Staff, Started, children, Exchange
  <2>2. pc' = "observe" /\ status' # 0
    BY <1>4 DEF Act, Staff
  <2> QED
    BY <2>1, <2>2, SimWorks DEF Staff
<1>5. ASSUME Fail
      PROVE  Staff'
  BY <1>5, StaffUnwinds DEF Fail, pipes, Exchange
<1> QED
  BY <1>1, <1>2, <1>3, <1>4, <1>5

LEMMA StaffOfEnding ==
  ASSUME Typed, Staff, UNCHANGED <<request, tick>>,
         \E w \in Workers : CloseInput(w) \/ Expire(w) \/ Reap(w)
  PROVE  Staff'
<1> USE DEF Typed
<1>1. ASSUME NEW w \in Workers, CloseInput(w)
      PROVE  Staff'
  BY <1>1, StaffStill, StillSame DEF CloseInput
<1>2. ASSUME NEW w \in Workers, Expire(w)
      PROVE  Staff'
  <2>1. UNCHANGED <<pc, rest, status>>
    BY <1>2 DEF Expire
  <2>2. w \in Mine
    BY <1>2 DEF Expire, Turn, Staff
  <2>3. Still
    BY <1>2, <2>2, StillEnds, StillSame DEF Expire, Mine
  <2> QED
    BY <2>1, <2>3, StaffStill
<1>3. ASSUME NEW w \in Workers, Reap(w)
      PROVE  Staff'
  <2>1. /\ rest = Mine /\ w \in rest /\ pc \in {"finish", "unwind"}
        /\ UNCHANGED code
    BY <1>3 DEF Reap, Turn, Staff
  <2>2. proc' = [proc EXCEPT ![w] = "gone"]
    BY <1>3 DEF Reap
  <2>3. Mine' = Mine \ {w}
    BY <2>2 DEF Mine, ChildrenOK
  <2>4. \A v \in Workers : Started(v) => Started(v)'
    BY <2>2 DEF Started, ChildrenOK
  <2>5. \A v \in Workers : proc'[v] = "gone" <=> proc[v] = "gone" \/ v = w
    BY <2>2 DEF ChildrenOK
  <2>6. status' # 0
    BY <1>3, <2>1 DEF Reap, Unwind, Staff
  <2>7. request'[Sim] # <<>> \/ tick' > 0 => \A v \in Workers : Started(v)'
    BY <2>4 DEF Staff
  <2>8. CASE pc = "finish" /\ code[w] # 0
    <3>1. Unwind(Mine \ {w})
      BY <1>3, <2>8 DEF Reap
    <3> QED
      BY <2>3, <2>6, <2>7, <3>1 DEF Unwind, Staff, Exchange
  <2>9. CASE pc = "unwind" \/ code[w] = 0
    <3>1. /\ pc' = IF rest = {w} THEN IF pc = "finish" THEN "report" ELSE "done" ELSE pc
          /\ rest' = rest \ {w}
      BY <1>3, <2>1, <2>9 DEF Reap, Onward, Unwind
    <3>2. rest' = Mine'
      BY <2>1, <2>3, <3>1
    <3>3. pc' \in {"report", "done"} => Mine' = {}
      BY <2>1, <2>3, <3>1
    <3>4. pc' \in {"finish", "report"} => pc = "finish" /\ code[w] = 0
      BY <2>1, <2>9, <3>1
    <3>5. pc = "finish" => \A v \in Workers : Started(v)' /\ (proc[v] = "gone" => code[v] = 0)
      BY <2>4 DEF Staff
    <3>6. Mine' = {} => \A v \in Workers : Started(v)' => proc'[v] = "gone"
      BY DEF Mine, Started
    <3>7. pc' = "report" => \A v \in Workers : proc'[v] = "gone" /\ code'[v] = 0
      BY <2>1, <2>5, <3>3, <3>4, <3>5, <3>6
    <3>8. pc' = "finish" => \A v \in Workers : Started(v)' /\ (proc'[v] = "gone" => code'[v] = 0)
      BY <2>1, <2>5, <3>4, <3>5
    <3>9. pc' \in {"finish", "unwind", "report", "done"}
      BY <2>1, <3>1
    <3> QED
      BY <2>6, <2>7, <3>2, <3>3, <3>7, <3>8, <3>9 DEF Staff, Exchange
  <2> QED
    BY <2>1, <2>8, <2>9
<1> QED
  BY <1>1, <1>2, <1>3

LEMMA StaffOfOthers ==
  ASSUME Typed, Staff, UNCHANGED <<request, tick>>,
         Report \/ RequestStop \/ Killed \/ ExportTrace \/ UNCHANGED vars \/ \E w \in Workers : Adopt(w)
  PROVE  Staff'
<1> USE DEF Typed
<1>1. ASSUME Report PROVE Staff'
  <2>1. \A w \in Workers : proc'[w] = "gone" /\ code'[w] = 0
    BY <1>1 DEF Report, Staff, children
  <2>2. Mine' = {}
    BY <2>1 DEF Mine
  <2>3. pc' = "done" /\ \A w \in Workers : Started(w)'
    BY <1>1, <2>1 DEF Report, Started
  <2> QED
    BY <2>1, <2>2, <2>3 DEF Staff, Exchange
<1>2. ASSUME RequestStop \/ ExportTrace \/ UNCHANGED vars PROVE Staff'
  <2>1. UNCHANGED <<pc, rest, status, proc, code>>
    BY <1>2 DEF RequestStop, ExportTrace, vars, parent, children
  <2> QED
    BY <2>1, StillSame, StaffStill
<1>3. ASSUME Killed PROVE Staff'
  <2>1. pc' = "dead" /\ status' # 0 /\ UNCHANGED proc
    BY <1>3 DEF Killed, Staff
  <2> QED
    BY <2>1 DEF Staff, Exchange, Started
<1>4. ASSUME NEW w \in Workers, Adopt(w) PROVE Staff'
  <2>1. pc = "dead" /\ pc' = "dead" /\ status' # 0
    BY <1>4 DEF Adopt, Staff, parent
  <2>2. \A v \in Workers : Started(v) => Started(v)'
    BY <1>4 DEF Adopt, Started, ChildrenOK
  <2> QED
    BY <2>1, <2>2 DEF Staff, Exchange
<1> QED
  BY <1>1, <1>2, <1>3, <1>4

(* The log.                                                                *)
LEMMA LogStill ==
  ASSUME LogSound, UNCHANGED <<buffer, disk, sim, tick>>,
         Ended(Sim)' <=> Ended(Sim), Ended(Sim) => code'[Sim] = code[Sim]
  PROVE  LogSound'
  BY DEF LogSound

LEMMA LogOfFailure ==
  ASSUME ChildrenOK, NEW value \in {1, 127, 137, 143}, Ends(Sim, value)
  PROVE  LogSound'
<1>1. Ended(Sim)' /\ code'[Sim] # 0
  BY SimWorks DEF ChildrenOK, Ends, Ended
<1> QED
  BY <1>1 DEF LogSound

(* One worker other than the simulator changes, or it changes otherwise.   *)
LEMMA LogAside ==
  ASSUME ChildrenOK, LogSound, UNCHANGED <<log, sim, tick>>, NEW w \in Workers,
         NEW to, proc' = [proc EXCEPT ![w] = to],
         w # Sim \/ (UNCHANGED code /\ (Ended(Sim) <=> to \in {"zombie", "gone"})),
         UNCHANGED code \/ \E value : code' = [code EXCEPT ![w] = value]
  PROVE  LogSound'
<1>1. UNCHANGED <<buffer, disk, sim, tick>>
  BY DEF log
<1>2. Ended(Sim)' <=> Ended(Sim)
  BY SimWorks DEF ChildrenOK, Ended
<1>3. Ended(Sim) => code'[Sim] = code[Sim]
  BY SimWorks DEF ChildrenOK
<1> QED
  BY <1>1, <1>2, <1>3, LogStill

LEMMA LogSame ==
  ASSUME LogSound, UNCHANGED <<log, sim, tick, proc, code>>
  PROVE  LogSound'
  BY LogStill DEF log, Ended

LEMMA LogEnds ==
  ASSUME ChildrenOK, LogSound, NEW w \in Workers, NEW value \in {1, 127, 137, 143},
         Ends(w, value), LogOf(w), UNCHANGED <<sim, tick>>
  PROVE  LogSound'
<1>1. CASE w = Sim
  BY <1>1, LogOfFailure
<1>2. CASE w # Sim
  BY <1>2, LogAside DEF Ends, LogOf
<1> QED
  BY <1>1, <1>2

LEMMA LogOfSupervisor ==
  ASSUME Typed, LogSound, Staff, Supervise
  PROVE  LogSound'
<1> USE DEF Typed
<1>1. UNCHANGED <<sim, tick>>
  BY DEF Supervise
<1>2. ASSUME NEW w \in Workers, Expire(w) PROVE LogSound'
  BY <1>1, <1>2, LogEnds, LogSame DEF Expire
<1>3. ASSUME NEW w \in Workers, Start(w), UNCHANGED log PROVE LogSound'
  <2>1. ~Started(w)
    BY <1>3 DEF Start, Turn, Staff
  <2>2. w = Sim => ~Ended(Sim)
    BY <2>1 DEF Started, Ended
  <2> QED
    BY <1>1, <1>3, <2>2, LogAside DEF Start
<1>4. ASSUME NEW w \in Workers, Reap(w), UNCHANGED log PROVE LogSound'
  <2>1. proc[w] = "zombie" /\ proc' = [proc EXCEPT ![w] = "gone"] /\ UNCHANGED code
    BY <1>4 DEF Reap
  <2> QED
    BY <1>1, <1>4, <2>1, LogAside DEF Ended
<1>5. ASSUME NEW w \in Workers, CloseInput(w), UNCHANGED log PROVE LogSound'
  BY <1>1, <1>5, LogSame DEF CloseInput
<1>6. ASSUME NEW a \in Agents, Tell(a) \/ Ask(a), UNCHANGED log PROVE LogSound'
  BY <1>1, <1>6, LogSame DEF Tell, Ask, children
<1>7. ASSUME Observe \/ Act \/ Fail \/ Report, UNCHANGED log PROVE LogSound'
  BY <1>1, <1>7, LogSame DEF Observe, Act, Fail, Report, children
<1> QED
  BY <1>2, <1>3, <1>4, <1>5, <1>6, <1>7 DEF Supervise

LEMMA WholeLog ==
  /\ Whole \in Seq(Entries) /\ Len(Whole) = Ticks + 2
  /\ Whole[1] = Header /\ Whole[Ticks + 2] = Footer
  /\ \A n \in 1..Ticks : Whole[n + 1] = Record(n)
<1>1. \A i \in 2..(Ticks + 1) : i - 1 \in 1..Ticks
  BY TicksAssumption
<1>2. \A i \in 1..(Ticks + 2) : i = 1 \/ i = Ticks + 2 \/ i \in 2..(Ticks + 1)
  BY TicksAssumption
<1>3. Whole \in [1..(Ticks + 2) -> Entries]
  BY <1>1, <1>2, EntryTypes DEF Whole
<1>4. Ticks + 2 \in Nat
  BY TicksAssumption
<1>5. Whole \in Seq(Entries)
  BY <1>3, <1>4, SeqDef
<1>6. DOMAIN Whole = 1..(Ticks + 2) /\ DOMAIN Whole = 1..Len(Whole) /\ Len(Whole) \in Nat
  BY <1>3, <1>5, LenProperties
<1>7. Len(Whole) = Ticks + 2
  BY <1>4, <1>6
<1>8. Whole[1] = Header /\ Whole[Ticks + 2] = Footer
  BY TicksAssumption DEF Whole
<1>9. \A n \in 1..Ticks : Whole[n + 1] = Record(n)
  BY TicksAssumption DEF Whole
<1> QED
  BY <1>5, <1>7, <1>8, <1>9

LEMMA LogOfSim ==
  ASSUME Typed, LogSound, SimOpens \/ SimSteps \/ SimStarves \/ SimFinishes \/ SimReturns
  PROVE  LogSound'
<1> USE DEF Typed
<1>1. Works(Sim) /\ ~Ended(Sim)
  BY DEF SimOpens, SimSteps, SimStarves, SimFinishes, SimReturns, Works, Ended
<1>2. Ends(Sim, 1) => LogSound'
  BY LogOfFailure
<1>3. UNCHANGED <<proc, code>> => ~Ended(Sim)'
  BY <1>1 DEF Ended
<1>4. ASSUME SimOpens, UNCHANGED <<proc, code>> PROVE LogSound'
  <2>1. ~Ended(Sim)' /\ buffer' = <<Header>> /\ disk' = <<>>
    BY <1>3, <1>4 DEF SimOpens, Open
  <2>2. sim' = "step" /\ tick' = 0
    <3>1. ~Ends(Sim, 1)
      BY <1>1, <1>4, SimWorks DEF Ends, ChildrenOK, Ended
    <3> QED
      BY <1>4, <3>1 DEF SimOpens, SimOK, SimTick
  <2>3. Len(<<Header>>) = 1 /\ \A i \in 1..1 : <<Header>>[i] = Whole[i]
    BY WholeLog
  <2> QED
    BY <2>1, <2>2, <2>3 DEF LogSound
<1>5. ASSUME SimSteps, UNCHANGED <<proc, code>> PROVE LogSound'
  <2>1. ~Ends(Sim, 1)
    BY <1>1, <1>5, SimWorks DEF Ends, ChildrenOK, Ended
  <2>2. /\ ~Ended(Sim)' /\ tick' = tick + 1 /\ sim' \in {"step", "footer"} /\ sim = "step"
        /\ buffer' = Append(buffer, Record(tick + 1)) /\ disk' = disk
    BY <1>3, <1>5, <2>1 DEF SimSteps, Write
  <2>3. /\ disk = <<>> /\ Len(buffer) = tick + 1
        /\ \A i \in 1..(tick + 1) : buffer[i] = Whole[i]
    BY <1>1, <2>2 DEF LogSound
  <2>4. tick \in Nat /\ tick + 1 \in 1..Ticks
    BY <2>2, TicksAssumption DEF SimOK, SimTick
  <2>5. /\ Len(buffer') = tick + 2
        /\ \A i \in 1..(tick + 1) : buffer'[i] = buffer[i]
        /\ buffer'[tick + 2] = Record(tick + 1)
    BY <2>2, <2>3, <2>4, EntryTypes, AppendProperties DEF LogOK
  <2>6. Whole[tick + 2] = Record(tick + 1)
    BY <2>4, WholeLog
  <2>7. \A i \in 1..(tick' + 1) : i \in 1..(tick + 1) \/ i = tick + 2
    BY <2>2, <2>4
  <2>8. \A i \in 1..(tick' + 1) : buffer'[i] = Whole[i]
    BY <2>3, <2>5, <2>6, <2>7
  <2>9. Len(buffer') = tick' + 1
    BY <2>2, <2>4, <2>5
  <2> QED
    BY <2>2, <2>3, <2>8, <2>9 DEF LogSound
<1>6. ASSUME SimFinishes, UNCHANGED <<proc, code>> PROVE LogSound'
  <2>1. ~Ends(Sim, 1)
    BY <1>1, <1>6, SimWorks DEF Ends, ChildrenOK, Ended
  <2>2. /\ ~Ended(Sim)' /\ sim = "footer" /\ sim' = "summary"
        /\ disk' = disk \o Append(buffer, Footer)
    BY <1>3, <1>6, <2>1 DEF SimFinishes, Finish
  <2>3. /\ disk = <<>> /\ Len(buffer) = Ticks + 1
        /\ \A i \in 1..(Ticks + 1) : buffer[i] = Whole[i]
    BY <1>1, <2>2 DEF LogSound, SimOK, SimTick
  <2>4. /\ Append(buffer, Footer) \in Seq(Entries)
        /\ Len(Append(buffer, Footer)) = Len(buffer) + 1
        /\ \A i \in 1..Len(buffer) : Append(buffer, Footer)[i] = buffer[i]
        /\ Append(buffer, Footer)[Len(buffer) + 1] = Footer
    BY EntryTypes, AppendProperties DEF LogOK
  <2>5. Ticks + 1 + 1 = Ticks + 2 /\ \A i \in 1..(Ticks + 2) : i \in 1..(Ticks + 1) \/ i = Ticks + 2
    BY TicksAssumption
  <2>6. \A i \in 1..(Ticks + 2) : Append(buffer, Footer)[i] = Whole[i]
    BY <2>3, <2>4, <2>5, WholeLog
  <2>7. Len(Append(buffer, Footer)) = Ticks + 2
    BY <2>3, <2>4, <2>5
  <2>8. Append(buffer, Footer) = Whole
    BY <2>4, <2>6, <2>7, WholeLog, SeqEqual
  <2>9. disk' = Whole
    BY <2>2, <2>3, <2>4, <2>8, ConcatEmptySeq
  <2> QED
    BY <2>2, <2>9 DEF LogSound
<1>7. ASSUME SimReturns PROVE LogSound'
  <2>1. disk' = Whole
    BY <1>1, <1>7 DEF SimReturns, WriteSummary, LogSound
  <2>2. sim' = "summary"
    BY <1>7 DEF SimReturns
  <2> QED
    BY <2>1, <2>2 DEF LogSound
<1>8. SimStarves => Ends(Sim, 1)
  BY DEF SimStarves
<1>9. SimOpens \/ SimSteps \/ SimFinishes => Ends(Sim, 1) \/ UNCHANGED <<proc, code>>
  BY DEF SimOpens, SimSteps, SimFinishes
<1> QED
  BY <1>2, <1>4, <1>5, <1>6, <1>7, <1>8, <1>9

LEMMA LogOfOthers ==
  ASSUME Typed, LogSound,
         \/ \E w \in Workers : Bind(w) \/ Exec(w) \/ TakeSignal(w) \/ Crash(w) \/ Hang(w) \/ Adopt(w)
         \/ \E a \in Agents : AgentActs(a) \/ AgentReturns(a)
         \/ RequestStop \/ Killed \/ ExportTrace \/ UNCHANGED vars
  PROVE  LogSound'
<1> USE DEF Typed
<1>1. ASSUME NEW w \in Workers, Bind(w) PROVE LogSound'
  <2>1. CASE pc = "dead"
    <3>1. Ends(w, 127) /\ UNCHANGED program
      BY <1>1, <2>1 DEF Bind
    <3> QED
      BY <3>1, LogOfFailure, LogAside DEF program, Ends
  <2>2. CASE pc # "dead"
    BY <1>1, <2>2, LogAside DEF Bind, program, Ended
  <2> QED
    BY <2>1, <2>2
<1>2. ASSUME NEW w \in Workers, Exec(w) \/ Adopt(w) PROVE LogSound'
  <2>1. CASE Exec(w)
    BY <2>1, LogAside DEF Exec, program, Ended
  <2>2. CASE Adopt(w)
    BY <2>2, LogAside DEF Adopt, program, Ended
  <2> QED
    BY <1>2, <2>1, <2>2
<1>3. ASSUME NEW w \in Workers, TakeSignal(w) \/ Crash(w) PROVE LogSound'
  BY <1>3, LogEnds, LogSame DEF TakeSignal, Crash
<1>4. ASSUME NEW a \in Agents, AgentActs(a) \/ AgentReturns(a) PROVE LogSound'
  <2>1. UNCHANGED <<log, sim, tick>> /\ a # Sim /\ a \in Workers
    BY <1>4, SimWorks DEF AgentActs, AgentReturns, program
  <2>2. UNCHANGED <<proc, code>> \/ Ends(a, 0) \/ Ends(a, 1)
    BY <1>4 DEF AgentActs, AgentReturns
  <2> QED
    BY <2>1, <2>2, LogSame, LogAside DEF Ends
<1>5. ASSUME \/ \E w \in Workers : Hang(w)
             \/ RequestStop \/ Killed \/ ExportTrace \/ UNCHANGED vars
      PROVE  LogSound'
  BY <1>5, LogSame DEF Hang, RequestStop, Killed, ExportTrace, vars, program, children
<1> QED
  BY <1>1, <1>2, <1>3, <1>4, <1>5

-----------------------------------------------------------------------------
(* Replay and export.                                                      *)

(* The only log that replays is the log of the whole mission, whatever the *)
(* entries of the file and however many.                                   *)
THEOREM OnlyWholeReplays ==
  ASSUME NEW file \in Seq(Entries), Replays(file)
  PROVE  file = Whole
<1>1. Len(file) \in Nat \ {0} /\ file[1] = Header
  BY EmptySeq DEF Replays
<1>2. PICK e \in 2..Len(file) : file[e] = Footer
  BY DEF Replays
<1>3. e = Len(file)
  <2>1. Len(file) <= e
    BY <1>1, <1>2 DEF Replays
  <2> QED
    BY <1>1, <1>2, <2>1
<1>4. ASSUME NEW i \in 2..Len(file), file[i] = Footer PROVE i = Len(file)
  <2>1. Len(file) <= i
    BY <1>1, <1>4 DEF Replays
  <2> QED
    BY <1>1, <1>4, <2>1
<1>5. ASSUME NEW i \in 2..Len(file), i # Len(file)
      PROVE  file[i] = Record(i - 1) /\ i - 1 <= Ticks
  BY <1>4, <1>5 DEF Replays
<1>6. PICK r \in 2..Len(file) : file[r] = Record(Ticks)
  BY DEF Replays
<1>7. r # Len(file)
  BY <1>2, <1>3, <1>6 DEF Record, Footer
<1>8. r - 1 = Ticks
  <2>1. Record(r - 1) = Record(Ticks)
    BY <1>5, <1>6, <1>7
  <2>2. Record(r - 1).tick = r - 1 /\ Record(Ticks).tick = Ticks
    BY DEF Record
  <2> QED
    BY <2>1, <2>2
<1>9. Len(file) = Ticks + 2
  <2>1. Ticks + 2 <= Len(file)
    BY <1>1, <1>7, <1>8, TicksAssumption
  <2>2. Len(file) - 1 \in 2..Len(file) /\ Len(file) - 1 # Len(file)
    BY <1>1, <2>1, TicksAssumption
  <2>3. Len(file) - 1 - 1 <= Ticks
    BY <1>5, <2>2
  <2> QED
    BY <1>1, <2>1, <2>3, TicksAssumption
<1>10. ASSUME NEW i \in 1..Len(file) PROVE file[i] = Whole[i]
  <2>1. CASE i = 1
    BY <1>1, <2>1, WholeLog
  <2>2. CASE i = Len(file)
    BY <1>2, <1>3, <1>9, <2>2, WholeLog
  <2>3. CASE i # 1 /\ i # Len(file)
    <3>1. i \in 2..Len(file) /\ i - 1 \in 1..Ticks /\ i - 1 + 1 = i
      BY <1>9, <1>10, <2>3, TicksAssumption
    <3> QED
      BY <1>5, <2>3, <3>1, WholeLog
  <2> QED
    BY <2>1, <2>2, <2>3
<1> QED
  BY <1>9, <1>10, WholeLog, SeqEqual

(* Once the simulator is reaped its log does not change.                   *)
LEMMA GoneStays ==
  ASSUME Typed, Staff, Next, proc[Sim] = "gone"
  PROVE  proc'[Sim] = "gone" /\ disk' = disk
<1> USE DEF Typed
<1>1. ASSUME Supervise PROVE proc'[Sim] = "gone" /\ disk' = disk
  <2>1. ASSUME NEW w \in Workers, Expire(w) PROVE proc'[Sim] = "gone" /\ disk' = disk
    <3>1. w # Sim
      BY <2>1 DEF Expire, Turn, Staff, Mine
    <3>2. UNCHANGED log
      BY <2>1, <3>1 DEF Expire, LogOf
    <3>3. proc'[Sim] = proc[Sim]
      BY <2>1, <3>1, SimWorks DEF Expire, Ends, ChildrenOK
    <3> QED
      BY <3>2, <3>3 DEF log
  <2>2. ASSUME NEW w \in Workers, Start(w) PROVE proc'[Sim] = "gone"
    BY <2>2, SimWorks DEF Start, ChildrenOK, Staff, Exchange
  <2>3. ASSUME NEW w \in Workers, CloseInput(w) \/ Reap(w) PROVE proc'[Sim] = "gone"
    BY <2>3, SimWorks DEF CloseInput, Reap, ChildrenOK
  <2>4. ASSUME NEW a \in Agents, Tell(a) \/ Ask(a) PROVE proc'[Sim] = "gone"
    BY <2>4 DEF Tell, Ask, children
  <2>5. ASSUME Observe \/ Act \/ Fail \/ Report PROVE proc'[Sim] = "gone"
    BY <2>5 DEF Observe, Act, Fail, Report, children
  <2> QED
    BY <1>1, <2>1, <2>2, <2>3, <2>4, <2>5 DEF Supervise, log
<1>2. ASSUME NEW w \in Workers,
             Bind(w) \/ Exec(w) \/ TakeSignal(w) \/ Crash(w) \/ Hang(w) \/ Adopt(w)
      PROVE  proc'[Sim] = "gone" /\ disk' = disk
  <2>1. CASE w = Sim
    BY <1>2, <2>1 DEF Bind, Exec, TakeSignal, Crash, Hang, Adopt, program, log
  <2>2. CASE w # Sim
    <3>1. proc'[Sim] = proc[Sim]
      BY <1>2, <2>2, SimWorks DEF Bind, Exec, TakeSignal, Crash, Hang, Adopt, Ends, ChildrenOK
    <3>2. UNCHANGED log
      BY <1>2, <2>2 DEF Bind, Exec, TakeSignal, Crash, Hang, Adopt, LogOf, program
    <3> QED
      BY <3>1, <3>2 DEF log
  <2> QED
    BY <2>1, <2>2
<1>3. ASSUME NEW a \in Agents, AgentActs(a) \/ AgentReturns(a)
      PROVE  proc'[Sim] = "gone" /\ disk' = disk
  <2>1. proc'[Sim] = proc[Sim]
    BY <1>3, SimWorks DEF AgentActs, AgentReturns, Ends, ChildrenOK
  <2> QED
    BY <1>3, <2>1 DEF AgentActs, AgentReturns, program, log
<1>4. ~(SimOpens \/ SimSteps \/ SimStarves \/ SimFinishes \/ SimReturns)
  BY DEF SimOpens, SimSteps, SimStarves, SimFinishes, SimReturns, Works
<1>5. RequestStop \/ Killed \/ ExportTrace => proc'[Sim] = "gone" /\ disk' = disk
  BY DEF RequestStop, Killed, ExportTrace, children, program, log
<1> QED
  BY <1>1, <1>2, <1>3, <1>4, <1>5 DEF Next, Work

LEMMA ExportSoundStep ==
  ASSUME Typed, Staff, ExportSound, [Next]_vars
  PROVE  ExportSound'
<1>1. CASE UNCHANGED vars
  BY <1>1 DEF vars, children, program, log, export, ExportSound, TraceIsWhole, Whole
<1>2. CASE Next /\ UNCHANGED export
  <2>1. CASE exporter = "idle"
    BY <1>2, <2>1 DEF export, ExportSound, TraceIsWhole
  <2>2. CASE exporter # "idle"
    BY <1>2, <2>2, GoneStays DEF export, ExportSound, TraceIsWhole
  <2> QED
    BY <2>1, <2>2
<1>3. CASE ExportTrace
  <2>1. UNCHANGED <<proc, disk>> /\ proc[Sim] = "gone"
    BY <1>3 DEF ExportTrace, children, program, log
  <2>2. Replays(disk) => disk = Whole
    BY OnlyWholeReplays DEF Typed, LogOK
  <2>3. ASSUME Replay PROVE ExportSound'
    BY <2>1, <2>2, <2>3 DEF Replay, ExportSound, TraceIsWhole
  <2>4. ASSUME WriteTrace \/ Rename PROVE ExportSound'
    BY <2>1, <2>4 DEF WriteTrace, Rename, ExportSound, TraceIsWhole
  <2>5. ASSUME RemoveTmp \/ ExportDies PROVE ExportSound'
    BY <2>1, <2>5 DEF RemoveTmp, ExportDies, ExportSound, TraceIsWhole
  <2> QED
    BY <1>3, <2>3, <2>4, <2>5 DEF ExportTrace, Export
<1> QED
  BY <1>1, <1>2, <1>3 DEF Next, Supervise

-----------------------------------------------------------------------------
(* What is in the pipes.                                                   *)
Flow == SimFlow /\ Phases /\ \A a \in Agents : AgentFlow(a)

LEMMA Single ==
  ASSUME NEW S, NEW e \in S
  PROVE  /\ Append(<<>>, e) = <<e>> /\ <<e>> \in Seq(S) /\ <<>> \in Seq(S)
         /\ Len(<<e>>) = 1 /\ Len(<<>>) = 0 /\ Head(<<e>>) = e /\ Tail(<<e>>) = <<>>
  OBVIOUS

LEMMA AtMostOne ==
  ASSUME NEW x \in Nat, NEW y \in Nat \ {0}, x + y <= 1
  PROVE  x = 0 /\ y = 1
  OBVIOUS

LEMMA OneOf ==
  ASSUME NEW S, NEW s \in Seq(S), s # <<>>, Len(s) <= 1
  PROVE  Len(s) = 1 /\ Tail(s) = <<>>
<1>1. Len(s) \in Nat \ {0} /\ Tail(s) \in Seq(S) /\ Len(Tail(s)) = Len(s) - 1
  BY TailOf
<1>2. Len(s) = 1
  <2>1. 0 + Len(s) <= 1
    BY <1>1
  <2> QED
    BY <1>1, <2>1, AtMostOne
<1>3. Len(Tail(s)) = 0
  BY <1>1, <1>2
<1> QED
  BY <1>1, <1>2, <1>3, EmptySeq

LEMMA OlderFrames ==
  ASSUME NEW t \in Nat, NEW s \in Seq(Upto(t - 1))
  PROVE  s \in Seq(Upto(t))
<1>1. Upto(t - 1) \subseteq Upto(t)
  BY DEF Upto, Frames
<1> QED
  BY <1>1, SeqMonotonic

(* A step that sends nothing.                                              *)
LEMMA FlowStill ==
  ASSUME Flow, UNCHANGED <<request, answer, tick>>,
         sim' = sim \/ (sim = "footer" /\ sim' = "summary"),
         UNCHANGED <<pc, rest, now, batch>> \/ pc' \notin Exchange
  PROVE  Flow'
<1>1. \A a \in Agents : Fresh(a)' <=> Fresh(a)
  BY DEF Fresh, Upto
<1>2. \A a \in Agents : AgentFlow(a)'
  BY DEF Flow, AgentFlow, Upto, Of
<1>3. SimFlow'
  BY <1>1 DEF Flow, SimFlow, Canonical
<1>4. CASE UNCHANGED <<pc, rest, now, batch>>
  BY <1>1, <1>2, <1>3, <1>4 DEF Flow, Phases, Batch
<1>5. CASE pc' \notin Exchange
  BY <1>2, <1>3, <1>5 DEF Flow, Phases, Exchange
<1> QED
  BY <1>4, <1>5

(* A frame of the simulator is read.                                       *)
LEMMA FlowTaken ==
  ASSUME Typed, Flow, answer[Sim] # <<>>, answer' = [answer EXCEPT ![Sim] = Tail(@)],
         UNCHANGED <<request, sim, tick>>
  PROVE  /\ SimFlow' /\ \A a \in Agents : AgentFlow(a)' /\ Fresh(a)'
         /\ request'[Sim] = <<>> /\ answer'[Sim] = <<>>
<1> USE DEF Typed
<1>1. request[Sim] = <<>> /\ Len(answer[Sim]) = 1
  <2>1. request[Sim] \in Seq(Frames) /\ answer[Sim] \in Seq(Frames)
    BY SimWorks DEF PipesOK
  <2>2. Len(request[Sim]) \in Nat /\ Len(answer[Sim]) \in Nat \ {0}
    BY <2>1, TailOf, LenProperties
  <2>3. Len(request[Sim]) + Len(answer[Sim]) <= 1
    BY DEF Flow, SimFlow
  <2>4. Len(request[Sim]) = 0 /\ Len(answer[Sim]) = 1
    BY <2>2, <2>3, AtMostOne
  <2> QED
    BY <2>1, <2>4, EmptySeq
<1>2. answer'[Sim] = <<>>
  <2>1. answer'[Sim] = Tail(answer[Sim])
    BY SimWorks DEF PipesOK
  <2>2. Tail(answer[Sim]) \in Seq(Frames) /\ Len(Tail(answer[Sim])) = 0
    BY <1>1, SimWorks, TailOf DEF PipesOK
  <2> QED
    BY <2>1, <2>2, EmptySeq
<1>3. \A a \in Agents : answer'[a] = answer[a] /\ request'[a] = request[a]
  BY SimWorks DEF PipesOK
<1>4. \A a \in Agents : Fresh(a)' /\ AgentFlow(a)'
  BY <1>3 DEF Flow, SimFlow, AgentFlow, Fresh, Upto, Of
<1>5. sim # "open"
  BY SimWorks DEF Flow, SimFlow
<1>6. request'[Sim] = <<>> /\ Len(request'[Sim]) + Len(answer'[Sim]) = 0
  <2>1. Len(<<>>) = 0
    OBVIOUS
  <2>2. request' = request
    OBVIOUS
  <2> QED
    BY <1>1, <1>2, <2>1, <2>2
<1>7. SimFlow'
  <2>1. sim' # "open"
    BY <1>5
  <2>2. Len(request'[Sim]) + Len(answer'[Sim]) <= 1
    BY <1>6
  <2> QED
    BY <1>2, <1>6, <2>1, <2>2 DEF SimFlow
<1> QED
  BY <1>1, <1>2, <1>4, <1>7

LEMMA FlowOfObserve ==
  ASSUME Typed, Flow, Staff, Observe, UNCHANGED <<sim, tick>>
  PROVE  Flow'
<1>1. SimFlow' /\ (\A a \in Agents : AgentFlow(a)' /\ Fresh(a)')
      /\ request'[Sim] = <<>> /\ answer'[Sim] = <<>>
  BY FlowTaken DEF Observe
<1>2. CASE pc' \notin Exchange
  BY <1>1, <1>2 DEF Flow, Phases, Exchange
<1>3. CASE pc' \in Exchange
  <2>1. /\ Head(answer[Sim]).ok /\ ~Head(answer[Sim]).last
        /\ pc' \in {"start", "tell"} /\ rest' = Agents /\ now' = Head(answer[Sim]).tick
    BY <1>3 DEF Observe, Unwind, Exchange
  <2>2. now' = tick' /\ sim' = "step"
    BY <2>1 DEF Observe, Flow, SimFlow
  <2>3. rest' # {Sim} /\ rest' \subseteq Agents
    BY <2>1, SimWorks
  <2> QED
    BY <1>1, <2>1, <2>2, <2>3 DEF Flow, Phases
<1> QED
  BY <1>2, <1>3

(* An agent is asked.                                                      *)
LEMMA FlowOfTell ==
  ASSUME Typed, Flow, NEW a \in Agents, Tell(a), UNCHANGED <<sim, tick>>
  PROVE  Flow'
<1> USE DEF Typed
<1>1. /\ a \in rest /\ Fresh(a) /\ rest \subseteq Agents /\ pc = "tell"
      /\ request[Sim] = <<>> /\ answer[Sim] = <<>> /\ now = tick /\ sim = "step"
  BY DEF Tell, Turn, Flow, Phases
<1>2. answer' = answer /\ \A v \in Workers \ {a} : request'[v] = request[v]
  BY SimWorks DEF Tell, PipesOK
<1>3. request'[a] = <<Frame(tick, TRUE, FALSE, {})>>
  <2>1. request'[a] = Append(request[a], Frame(now, TRUE, FALSE, {}))
    BY SimWorks DEF Tell, PipesOK
  <2>2. request[a] = <<>>
    BY <1>1 DEF Fresh
  <2>3. request'[a] = Append(<<>>, Frame(tick, TRUE, FALSE, {}))
    BY <1>1, <2>1, <2>2, Zenon
  <2> QED
    BY <2>3, Single
<1>4. Frame(tick, TRUE, FALSE, {}) \in Of(tick)
  <2>1. Frame(tick, TRUE, FALSE, {}) \in Frames
    <3>1. tick \in 0..Ticks
      BY DEF SimOK
    <3> QED
      BY <3>1, FrameType, Zenon
  <2> QED
    BY <2>1 DEF Of, Frame
<1>5. request'[a] \in Seq(Of(tick)) /\ Len(request'[a]) = 1
  <2>1. <<Frame(tick, TRUE, FALSE, {})>> \in Seq(Of(tick)) /\ Len(<<Frame(tick, TRUE, FALSE, {})>>) = 1
    BY <1>4, Single
  <2> QED
    BY <1>3, <2>1, Zenon
<1>6. ASSUME NEW b \in Agents PROVE AgentFlow(b)'
  <2>1. CASE b = a
    <3>1. Of(tick)' = Of(tick) /\ Upto(tick)' = Upto(tick) /\ Upto(tick - 1)' = Upto(tick - 1)
      BY DEF Of, Upto
    <3>2. request'[a] \in Seq(Of(tick)') /\ Len(request'[a]) <= 1
      BY <1>5, <3>1
    <3>3. answer[a] \in Seq(Upto(tick - 1))
      BY <1>1 DEF Fresh
    <3>4. answer[a] \in Seq(Upto(tick))
      BY DEF Flow, AgentFlow
    <3> QED
      BY <1>2, <2>1, <3>1, <3>2, <3>3, <3>4 DEF AgentFlow
  <2>2. CASE b # a
    BY <1>2, <2>2, SimWorks DEF Flow, AgentFlow, Upto, Of
  <2> QED
    BY <2>1, <2>2
<1>7. SimFlow'
  <2>1. request'[Sim] = <<>> /\ answer'[Sim] = <<>>
    BY <1>1, <1>2, SimWorks
  <2> QED
    BY <1>1, <2>1 DEF SimFlow
<1>8. \A b \in Agents \ {a} : Fresh(b)' <=> Fresh(b)
  BY <1>2, SimWorks DEF Fresh, Upto
<1>9. IF rest = {a} THEN pc' = "ask" /\ rest' = Agents ELSE pc' = "tell" /\ rest' = rest \ {a}
  BY <1>1 DEF Tell, Onward
<1>10. now' = now /\ batch' = {}
  BY DEF Tell
<1>11. request'[Sim] = <<>> /\ answer'[Sim] = <<>>
  BY <1>1, <1>2, SimWorks
<1>12. Phases'
  <2>1. CASE rest = {a}
    <3>1. batch' = Batch(Agents \ rest)'
      BY <1>9, <1>10, <2>1 DEF Batch
    <3> QED
      BY <1>1, <1>9, <1>10, <1>11, <2>1, <3>1 DEF Phases
  <2>2. CASE rest # {a}
    <3>1. \A b \in rest \ {a} : Fresh(b)'
      BY <1>1, <1>8 DEF Flow, Phases
    <3> QED
      BY <1>1, <1>9, <1>10, <1>11, <2>2, <3>1 DEF Phases
  <2> QED
    BY <2>1, <2>2
<1> QED
  BY <1>6, <1>7, <1>12 DEF Flow

(* Its answer is read: it is about the present only if the agent has taken *)
(* the question of this tick.                                              *)
LEMMA FlowOfAsk ==
  ASSUME Typed, Flow, NEW a \in Agents, Ask(a), UNCHANGED <<sim, tick>>
  PROVE  Flow'
<1> USE DEF Typed
<1>1. /\ a \in rest /\ rest \subseteq Agents /\ pc = "ask" /\ answer[a] # <<>>
      /\ request[Sim] = <<>> /\ answer[Sim] = <<>> /\ now = tick /\ sim = "step"
  BY DEF Ask, Turn, Flow, Phases
<1>2. request' = request /\ \A v \in Workers \ {a} : answer'[v] = answer[v]
  BY SimWorks DEF Ask, PipesOK
<1>3. answer'[a] = Tail(answer[a])
  BY SimWorks DEF Ask, PipesOK
<1>4. ASSUME NEW b \in Agents PROVE AgentFlow(b)'
  <2>1. CASE b = a
    <3>1. Tail(answer[a]) \in Seq(Upto(tick))
      BY <1>1, TailOf DEF Flow, AgentFlow
    <3>2. answer[a] \in Seq(Upto(tick - 1)) => Tail(answer[a]) \in Seq(Upto(tick - 1))
      BY <1>1, TailOf
    <3> QED
      BY <1>2, <1>3, <2>1, <3>1, <3>2 DEF Flow, AgentFlow, Upto, Of
  <2>2. CASE b # a
    BY <1>2, <2>2, SimWorks DEF Flow, AgentFlow, Upto, Of
  <2> QED
    BY <2>1, <2>2
<1>5. request'[Sim] = <<>> /\ answer'[Sim] = <<>>
  BY <1>1, <1>2, SimWorks
<1>6. SimFlow'
  BY <1>1, <1>5 DEF SimFlow
<1>7. CASE Unwind(Mine)
  BY <1>4, <1>6, <1>7 DEF Flow, Phases, Unwind
<1>8. CASE ~Unwind(Mine)
  <2>1. /\ Answers(Head(answer[a])) /\ now' = now
        /\ batch' = batch \cup {[agent |-> a, tick |-> Head(answer[a]).tick]}
        /\ IF rest = {a} THEN pc' = "act" /\ rest' = {Sim} ELSE pc' = "ask" /\ rest' = rest \ {a}
    BY <1>1, <1>8 DEF Ask, Onward
  <2>2. Head(answer[a]).ok /\ Head(answer[a]).tick = tick
    BY <1>1, <2>1 DEF Answers
  <2>3. request[a] = <<>>
    <3>1. tick \in Nat
      BY DEF SimOK
    <3>2. Head(answer[a]) \notin Upto(tick - 1)
      BY <2>2, <3>1 DEF Upto
    <3>3. answer[a] \notin Seq(Upto(tick - 1))
      BY <1>1, <3>2, TailOf
    <3> QED
      BY <3>3 DEF Flow, AgentFlow
  <2>4. /\ batch = Batch(Agents \ rest)
        /\ \A b \in Agents \ rest : request[b] = <<>>
    BY <1>1 DEF Flow, Phases
  <2>5. batch' = Batch(Agents \ (rest \ {a})) /\ \A b \in Agents \ (rest \ {a}) : request'[b] = <<>>
    BY <1>1, <1>2, <2>1, <2>2, <2>3, <2>4 DEF Batch
  <2>6. \A S : Batch(S)' = Batch(S)
    BY DEF Batch
  <2>7. CASE rest = {a}
    <3>1. Agents \ (rest \ {a}) = Agents
      BY <2>7
    <3> QED
      BY <1>1, <1>4, <1>5, <1>6, <2>1, <2>5, <2>6, <2>7, <3>1 DEF Flow, Phases
  <2>8. CASE rest # {a}
    BY <1>1, <1>4, <1>5, <1>6, <2>1, <2>5, <2>6, <2>8 DEF Flow, Phases
  <2> QED
    BY <2>7, <2>8
<1> QED
  BY <1>7, <1>8

(* The batch goes out.                                                     *)
LEMMA FlowOfAct ==
  ASSUME Typed, Flow, Act, UNCHANGED <<sim, tick>>
  PROVE  Flow'
<1> USE DEF Typed
<1>1. /\ pc = "act" /\ batch = Batch(Agents) /\ \A a \in Agents : request[a] = <<>>
      /\ request[Sim] = <<>> /\ answer[Sim] = <<>> /\ now = tick /\ sim = "step"
  BY DEF Act, Flow, Phases
<1>2. answer' = answer /\ \A a \in Agents : request'[a] = request[a]
  BY SimWorks DEF Act, PipesOK
<1> DEFINE frame == Frame(tick, TRUE, FALSE, batch)
<1>3. request'[Sim] = <<frame>>
  <2>1. request'[Sim] = Append(request[Sim], Frame(now, TRUE, FALSE, batch))
    BY SimWorks DEF Act, PipesOK
  <2>2. request'[Sim] = Append(<<>>, frame)
    BY <1>1, <2>1, Zenon
  <2> QED
    BY <2>2, Single
<1>4. Len(request'[Sim]) = 1 /\ Head(request'[Sim]) = frame /\ request'[Sim] # <<>>
  <2> HIDE DEF frame
  <2> QED
    BY <1>3, Single
<1>5. \A a \in Agents : AgentFlow(a)'
  BY <1>2 DEF Flow, AgentFlow, Upto, Of
<1>6. frame.tick = tick /\ frame.acts = Batch(Agents)
  BY <1>1 DEF Frame
<1>7. Canonical(Head(request[Sim]))'
  <2> HIDE DEF frame
  <2>1. Head(request'[Sim]).tick = tick' /\ Head(request'[Sim]).acts = Batch(Agents)
    BY <1>4, <1>6
  <2>2. Batch(Agents) = {[agent |-> a, tick |-> tick'] : a \in Agents}
    BY DEF Batch
  <2> QED
    BY <2>1, <2>2 DEF Canonical
<1>8. answer'[Sim] = <<>> /\ Len(answer'[Sim]) = 0
  <2>1. Len(<<>>) = 0
    OBVIOUS
  <2> QED
    BY <1>1, <1>2, <2>1
<1>9. Len(request'[Sim]) + Len(answer'[Sim]) <= 1
  BY <1>4, <1>8
<1>10. \A a \in Agents : request'[a] = <<>>
  BY <1>1, <1>2
<1>11. SimFlow'
  <2> HIDE DEF frame
  <2>1. sim' # "open"
    BY <1>1
  <2> QED
    BY <1>7, <1>8, <1>9, <1>10, <2>1 DEF SimFlow
<1>12. pc' = "observe"
  BY DEF Act
<1> QED
  BY <1>5, <1>11, <1>12 DEF Flow, Phases

LEMMA FlowOfStart ==
  ASSUME Typed, Flow, Staff, NEW w \in Workers, Start(w), UNCHANGED <<sim, tick>>
  PROVE  Flow'
<1>1. pc = "start" /\ UNCHANGED <<request, answer, now, batch>>
  BY DEF Start, pipes
<1>2. \A a \in Agents : Fresh(a)' <=> Fresh(a)
  BY <1>1 DEF Fresh, Upto
<1>3. \A a \in Agents : AgentFlow(a)' /\ Fresh(a)'
  BY <1>1, <1>2 DEF Flow, Phases, AgentFlow, Upto, Of
<1>4. SimFlow'
  BY <1>1, <1>2 DEF Flow, SimFlow, Canonical
<1>5. CASE w = Sim
  <2>1. pc' = "observe"
    BY <1>1, <1>5, SimWorks DEF Start, Turn, Onward, Staff
  <2> QED
    BY <1>3, <1>4, <2>1 DEF Flow, Phases
<1>6. CASE w # Sim
  <2>1. rest # {Sim} /\ rest \subseteq Agents
    BY <1>1, <1>6 DEF Start, Turn, Staff
  <2>2. /\ pc' \in {"start", "tell"} /\ rest' \subseteq Agents
    BY <1>1, <1>6, <2>1 DEF Start, Onward
  <2>3. rest' # {Sim}
    BY <2>2, SimWorks
  <2>4. request[Sim] = <<>> /\ answer[Sim] = <<>> /\ now = tick /\ sim = "step"
    BY <1>1, <2>1 DEF Flow, Phases
  <2> QED
    BY <1>1, <1>3, <1>4, <2>2, <2>3, <2>4 DEF Flow, Phases
<1> QED
  BY <1>5, <1>6


(* An agent takes its question: it has the only one, and nothing else is   *)
(* under way.                                                              *)
LEMMA Said ==
  ASSUME NEW S, NEW s \in Seq(S), NEW w \in Workers, NEW f \in S, answer[w] = s,
         answer \in [Workers -> Seq(Frames)], Say(w, <<f>>) \/ Say(w, <<f, f>>)
  PROVE  answer'[w] \in Seq(S) /\ \A v \in Workers \ {w} : answer'[v] = answer[v]
<1>1. s \o <<f>> \in Seq(S) /\ s \o <<f, f>> \in Seq(S)
  BY Pushed
<1>2. answer'[w] = s \o <<f>> \/ answer'[w] = s \o <<f, f>>
  BY DEF Say
<1> QED
  BY <1>1, <1>2 DEF Say

LEMMA FlowOfAgent ==
  ASSUME Typed, Flow, NEW a \in Agents, AgentActs(a)
  PROVE  Flow'
<1> USE DEF Typed
<1>1. UNCHANGED <<pc, rest, now, batch, sim, tick>>
  BY DEF AgentActs, parent, program
<1>2. /\ request[a] # <<>> /\ request[a] \in Seq(Of(tick)) /\ Len(request[a]) <= 1
      /\ answer[a] \in Seq(Upto(tick - 1)) /\ answer[a] \in Seq(Upto(tick))
  BY DEF AgentActs, Flow, AgentFlow
<1>3. Head(request[a]) \in Of(tick) /\ Tail(request[a]) = <<>>
  BY <1>2, TailOf, OneOf
<1>4. request'[a] = <<>> /\ \A v \in Workers \ {a} : request'[v] = request[v]
  BY <1>3, SimWorks DEF AgentActs, PipesOK
<1>5. answer'[a] \in Seq(Upto(tick)) /\ \A v \in Workers \ {a} : answer'[v] = answer[v]
  <2>1. Head(request[a]).tick = tick /\ tick \in 0..Ticks /\ 0 \in 0..Ticks
    BY <1>3, TicksAssumption DEF Of, SimOK
  <2>2. Frame(tick, TRUE, FALSE, {}) \in Frames /\ Frame(0, FALSE, FALSE, {}) \in Frames
    BY <2>1, FrameType, Zenon
  <2>3. Frame(tick, TRUE, FALSE, {}) \in Upto(tick) /\ Frame(0, FALSE, FALSE, {}) \in Upto(tick)
    <3>1. tick <= tick
      BY <2>1
    <3> QED
      BY <2>2, <3>1 DEF Upto, Frame
  <2>4. \/ answer' = answer
        \/ \E f \in {Frame(tick, TRUE, FALSE, {}), Frame(0, FALSE, FALSE, {})} :
             Say(a, <<f>>) \/ Say(a, <<f, f>>)
    BY <2>1 DEF AgentActs
  <2>5. CASE answer' = answer
    BY <1>2, <2>5
  <2>6. CASE answer' # answer
    <3>1. PICK f \in Upto(tick) : Say(a, <<f>>) \/ Say(a, <<f, f>>)
      BY <2>3, <2>4, <2>6
    <3> QED
      BY <1>2, <3>1, Said, SimWorks DEF PipesOK
  <2> QED
    BY <2>5, <2>6
<1>6. ASSUME NEW b \in Agents PROVE AgentFlow(b)'
  <2>1. Of(tick)' = Of(tick) /\ Upto(tick)' = Upto(tick) /\ Upto(tick - 1)' = Upto(tick - 1)
    BY <1>1 DEF Of, Upto
  <2>2. CASE b = a
    <3>1. <<>> \in Seq(Of(tick)') /\ Len(<<>>) <= 1
      OBVIOUS
    <3> QED
      BY <1>4, <1>5, <2>1, <2>2, <3>1 DEF AgentFlow
  <2>3. CASE b # a
    BY <1>4, <1>5, <2>1, <2>3, SimWorks DEF Flow, AgentFlow
  <2> QED
    BY <2>2, <2>3
<1>7. ~Fresh(a)
  BY <1>2 DEF Fresh
<1>8. answer[Sim] = <<>> /\ request[Sim] = <<>> /\ sim # "open"
  BY <1>2, <1>7, SimWorks DEF Flow, SimFlow
<1>9. answer'[Sim] = <<>> /\ request'[Sim] = <<>>
  BY <1>4, <1>5, <1>8, SimWorks
<1>10. SimFlow'
  <2>1. Len(<<>>) = 0 /\ 0 + 0 <= 1
    OBVIOUS
  <2>2. Len(request'[Sim]) + Len(answer'[Sim]) <= 1
    BY <1>9, <2>1
  <2> QED
    BY <1>1, <1>8, <1>9, <2>2 DEF SimFlow
<1>11. \A b \in Agents \ {a} : Fresh(b)' <=> Fresh(b)
  BY <1>1, <1>4, <1>5, SimWorks DEF Fresh, Upto
<1>12. Phases'
  <2>1. pc # "start" /\ pc # "act"
    BY <1>2, <1>7 DEF Flow, Phases
  <2>2. pc = "tell" => \A b \in rest : Fresh(b)'
    BY <1>7, <1>11 DEF Flow, Phases
  <2>3. pc = "ask" =>
          batch = Batch(Agents \ rest) /\ \A b \in Agents \ rest : request'[b] = <<>>
    BY <1>2, <1>4, SimWorks DEF Flow, Phases
  <2>4. \A S : Batch(S)' = Batch(S)
    BY <1>1 DEF Batch
  <2> QED
    BY <1>1, <1>9, <2>1, <2>2, <2>3, <2>4 DEF Flow, Phases
<1> QED
  BY <1>6, <1>10, <1>12 DEF Flow

(* The simulator sends its first observations.                             *)
LEMMA FlowOfOpening ==
  ASSUME Typed, Flow, Staff, SimOpens
  PROVE  Flow'
<1> USE DEF Typed
<1>1. UNCHANGED <<pc, rest, now, batch, request, tick>> /\ sim = "open" /\ Started(Sim)
  BY DEF SimOpens, parent, Works, Started
<1>2. tick = 0 /\ \A w \in Workers : request[w] = <<>> /\ answer[w] = <<>>
  BY <1>1 DEF Flow, SimFlow, SimTick, SimOK
<1>3. CASE UNCHANGED <<answer, sim>>
  BY <1>1, <1>3, FlowStill
<1>4. CASE Say(Sim, <<Frame(0, TRUE, FALSE, {})>>) /\ sim' = "step"
  <2> DEFINE frame == Frame(0, TRUE, FALSE, {})
  <2>1. frame.ok /\ frame.tick = 0 /\ ~frame.last
    BY DEF Frame
  <2> HIDE DEF frame
  <2>2. answer'[Sim] = <<frame>> /\ \A a \in Agents : answer'[a] = <<>> /\ request'[a] = <<>>
    <3>1. answer'[Sim] = answer[Sim] \o <<frame>>
      BY <1>4, SimWorks DEF Say, PipesOK, frame
    <3>2. <<>> \o <<frame>> = <<frame>>
      OBVIOUS
    <3> QED
      BY <1>1, <1>2, <1>4, <3>1, <3>2, SimWorks DEF Say, PipesOK
  <2>3. \A S : <<>> \in Seq(S) /\ Len(<<>>) = 0
    OBVIOUS
  <2>4. Len(answer'[Sim]) = 1 /\ Head(answer'[Sim]) = frame /\ request'[Sim] = <<>>
    BY <1>1, <1>2, <2>2, Single, SimWorks
  <2>5. Len(request'[Sim]) + Len(answer'[Sim]) <= 1
    BY <2>3, <2>4
  <2>6. \A a \in Agents : Fresh(a)' /\ AgentFlow(a)'
    <3>1. Len(<<>>) <= 1
      BY <2>3
    <3> QED
      BY <2>2, <2>3, <3>1 DEF Fresh, AgentFlow
  <2>7. SimFlow'
    BY <1>1, <1>2, <1>4, <2>1, <2>4, <2>5, <2>6 DEF SimFlow
  <2>8. pc \notin {"start", "tell", "ask", "act"}
    <3>1. pc \in {"tell", "ask", "act"} \/ (pc = "start" /\ rest # {Sim}) => FALSE
      BY <1>1 DEF Flow, Phases
    <3>2. pc = "start" /\ rest = {Sim} => FALSE
      BY <1>1, SimWorks DEF Staff
    <3> QED
      BY <3>1, <3>2
  <2> QED
    BY <1>1, <2>6, <2>7, <2>8 DEF Flow, Phases
<1> QED
  BY <1>3, <1>4 DEF SimOpens

(* It steps: no question of the tick that ends is left.                    *)
LEMMA FlowOfStep ==
  ASSUME Typed, Typed', Flow, SimSteps
  PROVE  Flow'
<1> USE DEF Typed
<1>1. UNCHANGED <<pc, rest, now, batch>> /\ sim = "step" /\ request[Sim] # <<>>
  BY DEF SimSteps, parent
<1>2. \A a \in Agents : request[a] = <<>>
  BY <1>1 DEF Flow, SimFlow
<1>3. request[Sim] \in Seq(Frames) /\ answer[Sim] \in Seq(Frames)
  BY SimWorks DEF PipesOK
<1>4. Len(answer[Sim]) = 0 /\ Len(request[Sim]) = 1
  <2>1. Len(answer[Sim]) \in Nat /\ Len(request[Sim]) \in Nat \ {0}
    BY <1>1, <1>3, TailOf, LenProperties
  <2>2. Len(request[Sim]) + Len(answer[Sim]) <= 1
    BY DEF Flow, SimFlow
  <2>3. \A x, y \in Nat : x + y <= 1 => y + x <= 1
    OBVIOUS
  <2> QED
    BY <2>1, <2>2, <2>3, AtMostOne
<1>5. answer[Sim] = <<>> /\ Tail(request[Sim]) = <<>>
  <2>1. Len(request[Sim]) <= 1
    BY <1>4
  <2> QED
    BY <1>1, <1>3, <1>4, <2>1, EmptySeq, OneOf
<1>6. request'[Sim] = <<>> /\ \A a \in Agents : request'[a] = <<>>
  BY <1>2, <1>5, SimWorks DEF SimSteps, PipesOK
<1>7. \A S : <<>> \in Seq(S) /\ Len(<<>>) = 0
  OBVIOUS
<1>8. pc \notin {"start", "tell", "ask", "act"}
  BY <1>1 DEF Flow, Phases
<1>9. Phases'
  BY <1>1, <1>8 DEF Phases
<1>10. CASE UNCHANGED <<answer, sim, tick>>
  <2>1. \A a \in Agents : AgentFlow(a)'
    <3>1. Upto(tick)' = Upto(tick)
      BY <1>10 DEF Upto
    <3>2. \A a \in Agents : answer'[a] \in Seq(Upto(tick)')
      BY <1>10, <3>1 DEF Flow, AgentFlow
    <3>3. Len(<<>>) <= 1
      BY <1>7
    <3> QED
      BY <1>6, <1>7, <3>2, <3>3 DEF AgentFlow
  <2>2. Len(request'[Sim]) + Len(answer'[Sim]) <= 1
    BY <1>5, <1>6, <1>7, <1>10
  <2>3. SimFlow'
    BY <1>1, <1>5, <1>6, <1>10, <2>2 DEF SimFlow
  <2> QED
    BY <1>9, <2>1, <2>3 DEF Flow
<1>11. ASSUME NEW ok \in BOOLEAN, NEW last \in BOOLEAN, tick' = tick + 1,
              Say(Sim, <<Frame(tick + 1, ok, last, {})>>),
              sim' \in {"step", "footer"}, ok /\ ~last => sim' = "step"
       PROVE  Flow'
  <2> DEFINE frame == Frame(tick + 1, ok, last, {})
  <2>1. frame.ok = ok /\ frame.tick = tick + 1 /\ frame.last = last
    BY DEF Frame
  <2> HIDE DEF frame
  <2>2. answer'[Sim] = <<frame>> /\ \A a \in Agents : answer'[a] = answer[a]
    <3>1. answer'[Sim] = answer[Sim] \o <<frame>>
      BY <1>11, SimWorks DEF Say, PipesOK, frame
    <3>2. <<>> \o <<frame>> = <<frame>>
      OBVIOUS
    <3> QED
      BY <1>5, <1>11, <3>1, <3>2, SimWorks DEF Say, PipesOK
  <2>3. Len(answer'[Sim]) = 1 /\ Head(answer'[Sim]) = frame
    BY <2>2, Single
  <2>4. Len(request'[Sim]) + Len(answer'[Sim]) <= 1
    BY <1>6, <1>7, <2>3
  <2>5. tick \in Nat /\ tick' \in Nat /\ tick' - 1 = tick /\ tick' > 0
    BY <1>11 DEF SimOK
  <2>6. ASSUME NEW a \in Agents PROVE Fresh(a)' /\ AgentFlow(a)'
    <3>1. answer[a] \in Seq(Upto(tick))
      BY DEF Flow, AgentFlow
    <3>2. answer[a] \in Seq(Upto(tick' - 1))
      BY <2>5, <3>1
    <3>3. answer[a] \in Seq(Upto(tick'))
      BY <2>5, <3>2, OlderFrames
    <3>4. Upto(tick)' = Upto(tick') /\ Upto(tick - 1)' = Upto(tick' - 1)
      BY DEF Upto
    <3>5. answer'[a] = answer[a] /\ request'[a] = <<>>
      BY <1>6, <2>2
    <3>6. Len(<<>>) <= 1
      BY <1>7
    <3> QED
      BY <1>7, <3>2, <3>3, <3>4, <3>5, <3>6 DEF Fresh, AgentFlow
  <2>7. SimFlow'
    BY <1>6, <1>11, <2>1, <2>3, <2>4, <2>5, <2>6 DEF SimFlow
  <2> QED
    BY <1>9, <2>6, <2>7 DEF Flow
<1>12. CASE ~UNCHANGED <<answer, sim, tick>>
  <2>1. /\ tick' = tick + 1 /\ sim' = IF Over(tick + 1) THEN "footer" ELSE "step"
        /\ \/ Say(Sim, <<Frame(tick + 1, TRUE, Over(tick + 1), {})>>)
           \/ Say(Sim, <<Frame(tick + 1, FALSE, FALSE, {})>>)
    BY <1>12 DEF SimSteps
  <2>2. Over(tick + 1) \in BOOLEAN
    BY DEF Over
  <2>3. sim' \in {"step", "footer"} /\ (~Over(tick + 1) => sim' = "step")
    BY <2>1
  <2> QED
    BY <1>11, <2>1, <2>2, <2>3
<1> QED
  BY <1>10, <1>12

(* No other step sends or reads anything.                                  *)
LEMMA FlowOfOthers ==
  ASSUME Flow,
         \/ SimStarves \/ SimFinishes \/ SimReturns
         \/ (Report \/ Fail) /\ UNCHANGED <<sim, tick>>
         \/ RequestStop \/ Killed \/ ExportTrace \/ UNCHANGED vars
         \/ \E w \in Workers :
              \/ Bind(w) \/ Exec(w) \/ TakeSignal(w) \/ Crash(w) \/ Hang(w) \/ Adopt(w)
              \/ AgentReturns(w)
              \/ (CloseInput(w) \/ Expire(w) \/ Reap(w)) /\ UNCHANGED <<sim, tick>>
  PROVE  Flow'
<1> USE DEF parent, children, pipes, program, log, Exchange
<1>1. SimStarves \/ SimFinishes \/ SimReturns => Flow'
  BY FlowStill DEF SimStarves, SimFinishes, SimReturns
<1>2. (Report \/ Fail) /\ UNCHANGED <<sim, tick>> => Flow'
  BY FlowStill DEF Report, Fail, Unwind
<1>3. RequestStop \/ Killed => Flow'
  BY FlowStill DEF RequestStop, Killed
<1>4. ExportTrace \/ UNCHANGED vars => Flow'
  BY FlowStill DEF ExportTrace, vars
<1>5. ASSUME NEW w \in Workers, Bind(w) \/ Exec(w) \/ Adopt(w) \/ AgentReturns(w)
      PROVE  Flow'
  BY <1>5, FlowStill DEF Bind, Exec, Adopt, AgentReturns
<1>6. ASSUME NEW w \in Workers, TakeSignal(w) \/ Crash(w) \/ Hang(w)
      PROVE  Flow'
  BY <1>6, FlowStill DEF TakeSignal, Crash, Hang
<1>7. ASSUME NEW w \in Workers, CloseInput(w) \/ Expire(w) \/ Reap(w), UNCHANGED <<sim, tick>>
      PROVE  Flow'
  <2>1. UNCHANGED <<request, answer>>
    BY <1>7 DEF CloseInput, Expire, Reap
  <2>2. CloseInput(w) \/ Expire(w) => Flow'
    BY <1>7, <2>1, FlowStill DEF CloseInput, Expire
  <2>3. Reap(w) => pc' \notin Exchange
    BY DEF Reap, Unwind, Onward
  <2> QED
    BY <1>7, <2>1, <2>2, <2>3, FlowStill
<1> QED
  BY <1>1, <1>2, <1>3, <1>4, <1>5, <1>6, <1>7

-----------------------------------------------------------------------------
(* The invariant.                                                          *)
IInv == Typed /\ Staff /\ Flow /\ LogSound /\ ExportSound

LEMMA IInvInit == Init => IInv
<1> SUFFICES ASSUME Init PROVE IInv
  OBVIOUS
<1>1. Typed
  BY TypedInit
<1>2. /\ pc = "start" /\ rest = {Sim} /\ tick = 0 /\ sim = "open" /\ status = 1
      /\ \A w \in Workers : proc[w] = "none" /\ request[w] = <<>> /\ answer[w] = <<>>
  BY DEF Init
<1>3. \A S : <<>> \in Seq(S) /\ Len(<<>>) = 0
  OBVIOUS
<1>4. Staff
  BY <1>2, SimWorks DEF Staff, Started, Exchange
<1>5. \A a \in Agents : Fresh(a) /\ AgentFlow(a)
  <2>1. Len(<<>>) <= 1
    BY <1>3
  <2> QED
    BY <1>2, <1>3, <2>1, SimWorks DEF Fresh, AgentFlow
<1>6. SimFlow
  <2>1. request[Sim] = <<>> /\ answer[Sim] = <<>>
    BY <1>2, SimWorks
  <2>2. Len(request[Sim]) + Len(answer[Sim]) <= 1
    BY <1>3, <2>1
  <2> QED
    BY <1>2, <2>1, <2>2 DEF SimFlow
<1>7. Phases
  BY <1>2, <1>5 DEF Phases
<1>8. LogSound
  BY <1>2, SimWorks DEF LogSound, Ended
<1>9. ExportSound
  BY DEF Init, ExportInit, ExportSound, TraceIsWhole
<1> QED
  BY <1>1, <1>4, <1>5, <1>6, <1>7, <1>8, <1>9 DEF IInv, Flow

LEMMA IInvStep == IInv /\ [Next]_vars => IInv'
<1> SUFFICES ASSUME IInv, [Next]_vars PROVE IInv'
  OBVIOUS
<1>1. Typed /\ Staff /\ Flow /\ LogSound /\ ExportSound /\ SimFlow /\ Phases
  BY DEF IInv, Flow
<1>2. Typed' /\ ExportSound'
  BY <1>1, TypedStep, ExportSoundStep
<1> SUFFICES Staff' /\ Flow' /\ LogSound'
  BY <1>2 DEF IInv
<1>3. ASSUME Supervise PROVE Staff' /\ Flow' /\ LogSound'
  <2>1. UNCHANGED <<sim, tick>> /\ LogSound'
    BY <1>1, <1>3, LogOfSupervisor DEF Supervise
  <2>2. ASSUME NEW w \in Workers, Start(w) PROVE Staff' /\ Flow'
    BY <1>1, <2>1, <2>2, StaffOfExchange, FlowOfStart
  <2>3. ASSUME NEW a \in Agents, Tell(a) PROVE Staff' /\ Flow'
    BY <1>1, <2>1, <2>3, StaffOfExchange, FlowOfTell
  <2>4. ASSUME NEW a \in Agents, Ask(a) PROVE Staff' /\ Flow'
    BY <1>1, <2>1, <2>4, StaffOfExchange, FlowOfAsk
  <2>5. ASSUME Observe PROVE Staff' /\ Flow'
    BY <1>1, <2>1, <2>5, StaffOfExchange, FlowOfObserve
  <2>6. ASSUME Act PROVE Staff' /\ Flow'
    BY <1>1, <2>1, <2>6, StaffOfExchange, FlowOfAct
  <2>7. ASSUME Fail PROVE Staff' /\ Flow'
    BY <1>1, <2>1, <2>7, StaffOfExchange, FlowOfOthers
  <2>8. ASSUME Report PROVE Staff' /\ Flow'
    <3>1. UNCHANGED request
      BY <2>8 DEF Report, pipes
    <3> QED
      BY <1>1, <2>1, <2>8, <3>1, StaffOfOthers, FlowOfOthers
  <2>9. ASSUME NEW w \in Workers, CloseInput(w) \/ Expire(w) \/ Reap(w) PROVE Staff' /\ Flow'
    <3>1. UNCHANGED request
      BY <2>9 DEF CloseInput, Expire, Reap, pipes
    <3> QED
      BY <1>1, <2>1, <2>9, <3>1, StaffOfEnding, FlowOfOthers
  <2> QED
    BY <1>3, <2>1, <2>2, <2>3, <2>4, <2>5, <2>6, <2>7, <2>8, <2>9 DEF Supervise
<1>4. ASSUME NEW w \in Workers, Work(w) \/ TakeSignal(w) \/ Crash(w) \/ Hang(w)
      PROVE  Staff' /\ Flow' /\ LogSound'
  <2>1. Staff'
    BY <1>1, <1>4, StaffOfWorkers
  <2>2. ASSUME Bind(w) \/ Exec(w) \/ TakeSignal(w) \/ Crash(w) \/ Hang(w)
        PROVE  Flow' /\ LogSound'
    <3>1. Flow'
      BY <1>1, <2>2, FlowOfOthers
    <3> QED
      BY <1>1, <2>2, <3>1, LogOfOthers
  <2>3. ASSUME w \in Agents, AgentActs(w) PROVE Flow' /\ LogSound'
    BY <1>1, <2>3, FlowOfAgent, LogOfOthers
  <2>4. ASSUME w \in Agents, AgentReturns(w) PROVE Flow' /\ LogSound'
    BY <1>1, <2>4, FlowOfOthers, LogOfOthers
  <2>5. ASSUME SimOpens PROVE Flow' /\ LogSound'
    BY <1>1, <2>5, FlowOfOpening, LogOfSim
  <2>6. ASSUME SimSteps PROVE Flow' /\ LogSound'
    BY <1>1, <1>2, <2>6, FlowOfStep, LogOfSim
  <2>7. ASSUME SimStarves \/ SimFinishes \/ SimReturns PROVE Flow' /\ LogSound'
    BY <1>1, <2>7, FlowOfOthers, LogOfSim
  <2> QED
    BY <1>4, <2>1, <2>2, <2>3, <2>4, <2>5, <2>6, <2>7 DEF Work
<1>5. ASSUME NEW w \in Workers, Adopt(w) PROVE Staff' /\ Flow' /\ LogSound'
  <2>1. UNCHANGED <<request, tick>>
    BY <1>5 DEF Adopt, pipes, program
  <2> QED
    BY <1>1, <1>5, <2>1, StaffOfOthers, FlowOfOthers, LogOfOthers
<1>6. ASSUME RequestStop \/ Killed \/ ExportTrace \/ UNCHANGED vars
      PROVE  Staff' /\ Flow' /\ LogSound'
  <2>1. UNCHANGED <<request, tick>>
    BY <1>6 DEF RequestStop, Killed, ExportTrace, vars, pipes, program
  <2> QED
    BY <1>1, <1>6, <2>1, StaffOfOthers, FlowOfOthers, LogOfOthers
<1> QED
  BY <1>3, <1>4, <1>5, <1>6 DEF Next

(* The inductive invariant holds in every reachable state.                 *)
THEOREM Invariant == Spec => []IInv
<1>1. Init => IInv
  BY IInvInit
<1>2. IInv /\ [Next]_vars => IInv'
  BY IInvStep
<1> QED
  BY <1>1, <1>2, PTL DEF Spec

-----------------------------------------------------------------------------
(* A supervisor that returns leaves no worker, and one that returns 0 has  *)
(* seen every worker end well and leaves the log of the whole mission:     *)
(* run() and Process::finish (runner/src/main.cpp), EventLogWriter.        *)
THEOREM ExitStatusHonest == Spec => []ExitIsHonest
<1>1. IInv => ExitIsHonest
  <2> SUFFICES ASSUME IInv, pc = "done"
               PROVE  /\ Mine = {}
                      /\ status = 0 => disk = Whole /\ \A w \in Workers : proc[w] = "gone" /\ code[w] = 0
    BY DEF ExitIsHonest
  <2>1. Mine = {}
    BY DEF IInv, Staff
  <2>2. status = 0 => \A w \in Workers : proc[w] = "gone" /\ code[w] = 0
    BY DEF IInv, Staff
  <2>3. status = 0 => disk = Whole
    BY <2>2, SimWorks DEF IInv, LogSound, Ended
  <2> QED
    BY <2>1, <2>2, <2>3
<1> QED
  BY <1>1, Invariant, PTL

(* The simulator and the agents are never more than a step apart: what is  *)
(* in a pipe is about the simulator's tick, and a batch is complete.       *)
THEOREM AgentsInStep == Spec => []InStep
<1>1. IInv => InStep
  <2> SUFFICES ASSUME IInv PROVE InStep
    OBVIOUS
  <2>1. Typed /\ SimFlow /\ \A a \in Agents : request[a] \in Seq(Of(tick))
    BY DEF IInv, Flow, AgentFlow
  <2>2. ASSUME NEW i \in DOMAIN request[Sim] PROVE Canonical(request[Sim][i])
    <3>1. request[Sim] \in Seq(Frames)
      BY <2>1, SimWorks DEF Typed, PipesOK
    <3>2. request[Sim] # <<>> /\ i \in 1..Len(request[Sim])
      BY <2>2, <3>1, LenProperties
    <3>3. Len(request[Sim]) <= 1
      <4>1. answer[Sim] \in Seq(Frames)
        BY <2>1, SimWorks DEF Typed, PipesOK
      <4>2. Len(answer[Sim]) \in Nat /\ Len(request[Sim]) \in Nat
        BY <3>1, <4>1, LenProperties
      <4>3. Len(request[Sim]) + Len(answer[Sim]) <= 1
        BY <2>1 DEF SimFlow
      <4>4. \A x, y \in Nat : x + y <= 1 => x <= 1
        OBVIOUS
      <4> QED
        BY <4>2, <4>3, <4>4
    <3>4. i = 1
      <4>1. Len(request[Sim]) = 1
        BY <3>1, <3>2, <3>3, OneOf
      <4> QED
        BY <3>2, <4>1
    <3>5. Head(request[Sim]) = request[Sim][1]
      BY <3>1, <3>2, HeadTailProperties
    <3> QED
      BY <2>1, <3>2, <3>4, <3>5 DEF SimFlow
  <2>3. ASSUME NEW a \in Agents, NEW i \in DOMAIN request[a] PROVE request[a][i].tick = tick
    <3>1. request[a] \in Seq(Of(tick))
      BY <2>1
    <3>2. request[a][i] \in Of(tick)
      BY <2>3, <3>1, ElementOfSeq, LenProperties
    <3> QED
      BY <3>2 DEF Of
  <2> QED
    BY <2>2, <2>3 DEF InStep
<1> QED
  BY <1>1, Invariant, PTL

(* The presentation trace is the old one, or the complete one of a whole   *)
(* mission, wherever mission, replay or export failed.                     *)
THEOREM TracesWhole == Spec => []TraceIsWhole
<1>1. IInv => TraceIsWhole
  BY DEF IInv, ExportSound
<1> QED
  BY <1>1, Invariant, PTL
=============================================================================
