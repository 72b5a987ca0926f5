---------------------------- MODULE Supervision ----------------------------
(***************************************************************************)
(* A mission as a set of processes: the supervisor (runner/src/main.cpp),  *)
(* the simulator it starts first (sim/src/main.cpp) and an agent for each  *)
(* vehicle (agent/src/main.cpp), joined by pipes that carry frames         *)
(* (proto/src/framing.cpp).  In every tick the supervisor passes the       *)
(* observations of the simulator to the agents and their actions back.     *)
(*                                                                         *)
(* Workers crash, hang, answer badly or twice; the supervisor is told to   *)
(* stop or killed; deadlines expire whenever what is awaited is not there. *)
(* MaxFaults bounds all of these but deadlines.  A frame is read and       *)
(* written as a whole: a process that fails in the middle of one fails,    *)
(* for its reader, before it.                                              *)
(***************************************************************************)
EXTENDS EventLog, FiniteSets

CONSTANTS
  Agents,     (* the vehicles, positive numbers in the order of their ids  *)
  MaxFaults   (* bound: faults of workers and signals to the supervisor    *)

ASSUME AgentsAssumption == Agents \subseteq Nat \ {0} /\ Agents # {}
ASSUME FaultsAssumption == MaxFaults \in Nat

Sim     == 0
Workers == Agents \cup {Sim}

VARIABLES
  pc,      (* the supervisor: "start", "observe", "tell", "ask", "act",    *)
           (* "finish", "unwind", "report", then "done", or "dead"         *)
  rest,    (* workers still to be served in this phase                     *)
  grip,    (* finish() of one worker: "open", "eof" or "term"              *)
  now,     (* tick of the observations in hand                             *)
  batch,   (* actions read so far                                          *)
  stop,    (* stop_requested                                               *)
  status,  (* exit status of the supervisor, 1 until it reports            *)
  proc,    (* each worker: "none", "forked", "bound" (to the supervisor's  *)
           (* death), "running", "zombie", "gone"                          *)
  code,    (* exit status of each worker                                   *)
  term,    (* workers with SIGTERM pending                                 *)
  hung,    (* workers that have stopped working                            *)
  closed,  (* workers whose input the supervisor has closed                *)
  request, (* frames in the pipe to each worker                            *)
  answer,  (* frames in the pipe from each worker                          *)
  sim,     (* the simulator: "open", "step", "footer", "summary"           *)
  tick,    (* its tick                                                     *)
  faults   (* how many faults there were                                   *)

parent   == <<pc, rest, grip, now, batch, stop, status>>
children == <<proc, code, term, hung>>
pipes    == <<closed, request, answer>>
program  == <<sim, tick, log>>
vars     == <<parent, children, pipes, program, faults, export>>

(* Frames.  An action in a batch says whose it is.                         *)
Frame(n, ok, last, acts) == [tick |-> n, ok |-> ok, last |-> last, acts |-> acts]

Init ==
  /\ pc = "start" /\ rest = {Sim} /\ grip = "open"
  /\ now = 0 /\ batch = {} /\ stop = FALSE /\ status = 1
  /\ proc = [w \in Workers |-> "none"] /\ code = [w \in Workers |-> 0]
  /\ term = {} /\ hung = {} /\ closed = {}
  /\ request = [w \in Workers |-> <<>>] /\ answer = [w \in Workers |-> <<>>]
  /\ sim = "open" /\ tick = 0
  /\ faults = 0
  /\ LogInit /\ ExportInit

Mine == {w \in Workers : proc[w] \notin {"none", "gone"}}   (* pid_ > 0   *)

(* Agents are served in the order of their ids, and the simulator last:    *)
(* it is the first of the objects to be built, and so destroyed last.      *)
Turn(w) ==
  /\ w \in rest
  /\ \A v \in rest \ {w} : v = Sim \/ (w # Sim /\ w < v)

(* An exception leaves run(): every Process that was built is destroyed.   *)
Unwind(kept) ==
  /\ pc' = IF kept = {} THEN "done" ELSE "unwind"
  /\ rest' = kept
  /\ grip' = "open"
  /\ UNCHANGED <<now, batch, stop, status>>

(* The phase goes on with the next worker, or the next phase begins.       *)
Onward(w, phase, those) ==
  /\ pc' = IF rest = {w} THEN phase ELSE pc
  /\ rest' = IF rest = {w} THEN those ELSE rest \ {w}

(* A worker ends.                                                          *)
Ends(w, value) ==
  /\ proc' = [proc EXCEPT ![w] = "zombie"]
  /\ code' = [code EXCEPT ![w] = value]

(* What the end of a process means for the log.                            *)
LogOf(w) == IF w = Sim THEN Lost ELSE UNCHANGED log

-----------------------------------------------------------------------------
(* The supervisor.                                                         *)

(* Process: two pipes and a fork.                                          *)
Start(w) ==
  /\ pc = "start" /\ Turn(w)
  /\ proc' = [proc EXCEPT ![w] = "forked"]
  /\ IF w = Sim THEN Onward(w, "observe", {}) ELSE Onward(w, "tell", Agents)
  /\ UNCHANGED <<grip, now, batch, stop, status, code, term, hung, pipes>>

(* The simulator's frame: the observations of a tick, or the last ones.    *)
Observe ==
  /\ pc = "observe" /\ ~stop
  /\ answer[Sim] # <<>>
  /\ answer' = [answer EXCEPT ![Sim] = Tail(@)]
  /\ LET frame == Head(answer[Sim])
     IN \/ /\ ~frame.ok
           /\ Unwind(Mine)
        \/ /\ frame.ok /\ frame.last
           /\ pc' = "finish" /\ rest' = Mine
           /\ UNCHANGED <<grip, now, batch, stop, status>>
        \/ /\ frame.ok /\ ~frame.last
           /\ pc' = IF Mine = {Sim} THEN "start" ELSE "tell"
           /\ rest' = Agents
           /\ now' = frame.tick
           /\ UNCHANGED <<grip, batch, stop, status>>
  /\ UNCHANGED <<children, closed, request>>

(* write_frame to an agent that reads.                                     *)
Tell(a) ==
  /\ pc = "tell" /\ ~stop /\ Turn(a)
  /\ proc[a] # "zombie"
  /\ request' = [request EXCEPT ![a] = Append(@, Frame(now, TRUE, FALSE, {}))]
  /\ Onward(a, "ask", Agents)
  /\ batch' = {}
  /\ UNCHANGED <<grip, now, stop, status, children, closed, answer>>

(* read_frame from an agent, and validate_action.                          *)
Mut_Answers(frame) == frame.ok

Answers(frame) == frame.ok /\ frame.tick = now

Ask(a) ==
  /\ pc = "ask" /\ ~stop /\ Turn(a)
  /\ answer[a] # <<>>
  /\ answer' = [answer EXCEPT ![a] = Tail(@)]
  /\ LET frame == Head(answer[a])
     IN \/ /\ Answers(frame)
           /\ batch' = batch \cup {[agent |-> a, tick |-> frame.tick]}
           /\ Onward(a, "act", {Sim})
           /\ UNCHANGED <<grip, now, stop, status>>
        \/ /\ ~Answers(frame)
           /\ Unwind(Mine)
  /\ UNCHANGED <<children, closed, request>>

(* The batch goes to the simulator.                                        *)
Act ==
  /\ pc = "act" /\ ~stop
  /\ proc[Sim] # "zombie"
  /\ request' = [request EXCEPT ![Sim] = Append(@, Frame(now, TRUE, FALSE, batch))]
  /\ pc' = "observe" /\ rest' = {}
  /\ UNCHANGED <<grip, now, batch, stop, status, children, closed, answer>>

(* await() or a system call fails: a deadline, the end of a stream, a      *)
(* process that reads no more, a pipe or a fork that cannot be had, or     *)
(* check_stop.                                                             *)
Awaits == CASE pc = "observe" -> answer[Sim] # <<>>
            [] pc = "ask"     -> \A a \in rest : Turn(a) => answer[a] # <<>>
            [] OTHER          -> FALSE

Fail ==
  /\ pc \in {"start", "observe", "tell", "ask", "act"}
  /\ stop \/ ~Awaits
  /\ Unwind(Mine)
  /\ UNCHANGED <<children, pipes>>

(* Process::finish.  The input is closed; a destructor sends SIGTERM too.  *)
CloseInput(w) ==
  /\ pc \in {"finish", "unwind"} /\ grip = "open" /\ Turn(w)
  /\ closed' = closed \cup {w}
  /\ grip' = IF pc = "unwind" THEN "term" ELSE "eof"
  /\ term' = IF pc = "unwind" THEN term \cup {w} ELSE term
  /\ UNCHANGED <<pc, rest, now, batch, stop, status, proc, code, hung, request, answer>>

(* wait() times out: SIGTERM, and the next time SIGKILL.                   *)
Mut_Expire(w) ==
  /\ pc \in {"finish", "unwind"} /\ grip \in {"eof", "term"} /\ Turn(w)
  /\ proc[w] # "zombie"
  /\ grip' = "term"
  /\ term' = term \cup {w}
  /\ UNCHANGED <<proc, code, pc, rest, now, batch, stop, status, hung, pipes, log>>

Expire(w) ==
  /\ pc \in {"finish", "unwind"} /\ grip \in {"eof", "term"} /\ Turn(w)
  /\ proc[w] # "zombie"
  /\ \/ /\ grip = "eof"
        /\ grip' = "term"
        /\ term' = term \cup {w}
        /\ UNCHANGED <<proc, code, log>>
     \/ /\ grip = "term"
        /\ Ends(w, 137) /\ LogOf(w)
        /\ UNCHANGED <<grip, term>>
  /\ UNCHANGED <<pc, rest, now, batch, stop, status, hung, pipes>>

(* waitpid: the worker is gone.  In a mission that succeeded so far, its   *)
(* exit status must be 0.                                                  *)
Reap(w) ==
  /\ pc \in {"finish", "unwind"} /\ grip \in {"eof", "term"} /\ Turn(w)
  /\ proc[w] = "zombie"
  /\ proc' = [proc EXCEPT ![w] = "gone"]
  /\ \/ /\ pc = "finish" /\ code[w] # 0
        /\ Unwind(Mine \ {w})
     \/ /\ pc = "unwind" \/ code[w] = 0
        /\ grip' = "open"
        /\ Onward(w, IF pc = "finish" THEN "report" ELSE "done", {})
        /\ UNCHANGED <<now, batch, stop, status>>
  /\ UNCHANGED <<code, term, hung, pipes>>

(* check_stop, and the terminal frame on standard output.                  *)
Report ==
  /\ pc = "report"
  /\ pc' = "done"
  /\ status' \in IF stop THEN {1} ELSE {0, 1}
  /\ UNCHANGED <<rest, grip, now, batch, stop, children, pipes>>

Supervise ==
  /\ \/ \E w \in Workers : Expire(w)
     \/ /\ \/ \E w \in Workers : Start(w) \/ CloseInput(w) \/ Reap(w)
           \/ \E a \in Agents : Tell(a) \/ Ask(a)
           \/ Observe \/ Act \/ Fail \/ Report
        /\ UNCHANGED log
  /\ UNCHANGED <<sim, tick, faults, export>>

-----------------------------------------------------------------------------
(* Workers.                                                                *)
(* The child asks for a signal at its parent's death, then looks whether   *)
(* it still has the parent that forked it.                                 *)
Bind(w) ==
  /\ proc[w] = "forked"
  /\ IF pc = "dead" THEN Ends(w, 127)
     ELSE proc' = [proc EXCEPT ![w] = "bound"] /\ UNCHANGED code
  /\ UNCHANGED <<parent, term, hung, pipes, program, faults>>

Exec(w) ==
  /\ proc[w] = "bound"
  /\ proc' = [proc EXCEPT ![w] = "running"]
  /\ UNCHANGED <<parent, code, term, hung, pipes, program, faults>>

(* SIGTERM ends a running worker.  Before exec the handler inherited from  *)
(* the supervisor catches it, and only notes it in the child's copy of     *)
(* stop_requested.                                                         *)
TakeSignal(w) ==
  /\ w \in term /\ proc[w] \in {"forked", "bound", "running"}
  /\ term' = term \ {w}
  /\ IF proc[w] = "running" THEN Ends(w, 143) /\ LogOf(w)
     ELSE UNCHANGED <<proc, code, log>>
  /\ UNCHANGED <<parent, hung, pipes, sim, tick, faults>>

(* A worker sees the end of its input when no copy of the other end is     *)
(* left: a child has its own, and those of workers started before it,      *)
(* until exec closes them.                                                 *)
AtEnd(w) ==
  /\ w \in closed /\ request[w] = <<>>
  /\ \A c \in Workers : w <= c => proc[c] \notin {"forked", "bound"}

Works(w) == proc[w] = "running" /\ w \notin hung

Deaf == pc = "dead"   (* nobody reads answers: SIGPIPE is ignored, writing fails *)

Say(w, frames) == answer' = [answer EXCEPT ![w] = @ \o frames]

(* An agent acts on an observation ...                                     *)
AgentActs(a) ==
  /\ Works(a) /\ request[a] # <<>>
  /\ request' = [request EXCEPT ![a] = Tail(@)]
  /\ \/ /\ ~Deaf
        /\ \/ /\ Say(a, <<Frame(Head(request[a]).tick, TRUE, FALSE, {})>>)
              /\ UNCHANGED faults
           \/ /\ faults < MaxFaults /\ faults' = faults + 1
              /\ \/ Say(a, <<Frame(0, FALSE, FALSE, {})>>)
                 \/ LET frame == Frame(Head(request[a]).tick, TRUE, FALSE, {})
                    IN Say(a, <<frame, frame>>)
        /\ UNCHANGED <<proc, code>>
     \/ /\ Deaf /\ Ends(a, 1) /\ UNCHANGED <<answer, faults>>
  /\ UNCHANGED <<parent, term, hung, closed, program>>

(* ... and returns at the end of its input.                                *)
AgentReturns(a) ==
  /\ Works(a) /\ AtEnd(a)
  /\ Ends(a, 0)
  /\ UNCHANGED <<parent, term, hung, pipes, program, faults>>

(* The simulator opens the log and sends the first observations.           *)
SimOpens ==
  /\ Works(Sim) /\ sim = "open"
  /\ Open
  /\ \/ /\ ~Deaf /\ Say(Sim, <<Frame(0, TRUE, FALSE, {})>>)
        /\ sim' = "step"
        /\ UNCHANGED <<proc, code>>
     \/ /\ Deaf /\ Ends(Sim, 1) /\ UNCHANGED <<answer, sim>>
  /\ UNCHANGED <<parent, term, hung, closed, request, tick, faults>>

(* canonicalize_actions: one action of each vehicle, all of this tick.     *)
Canonical(frame) ==
  frame.tick = tick /\ frame.acts = {[agent |-> a, tick |-> tick] : a \in Agents}

(* finished().                                                             *)
Over(n) == n >= Ticks

(* It steps, records the tick and sends the observations.                  *)
SimSteps ==
  /\ Works(Sim) /\ sim = "step" /\ request[Sim] # <<>>
  /\ request' = [request EXCEPT ![Sim] = Tail(@)]
  /\ \/ /\ Canonical(Head(request[Sim])) /\ ~Deaf
        /\ tick' = tick + 1
        /\ Write(Record(tick + 1))
        /\ \/ /\ Say(Sim, <<Frame(tick + 1, TRUE, Over(tick + 1), {})>>)
              /\ UNCHANGED faults
           \/ /\ faults < MaxFaults /\ faults' = faults + 1
              /\ Say(Sim, <<Frame(tick + 1, FALSE, FALSE, {})>>)
        /\ sim' = IF Over(tick + 1) THEN "footer" ELSE "step"
        /\ UNCHANGED <<proc, code>>
     \/ /\ ~Canonical(Head(request[Sim])) \/ Deaf
        /\ Ends(Sim, 1) /\ Lost
        /\ UNCHANGED <<answer, sim, tick, faults>>
  /\ UNCHANGED <<parent, term, hung, closed>>

(* The action stream ends before the mission.                              *)
SimStarves ==
  /\ Works(Sim) /\ sim = "step" /\ AtEnd(Sim)
  /\ Ends(Sim, 1) /\ Lost
  /\ UNCHANGED <<parent, term, hung, pipes, sim, tick, faults>>

(* The mission is over: footer ...                                         *)
SimFinishes ==
  /\ Works(Sim) /\ sim = "footer"
  /\ \/ /\ Finish /\ sim' = "summary" /\ UNCHANGED <<proc, code, faults>>
     \/ /\ faults < MaxFaults /\ faults' = faults + 1   (* the disk is full *)
        /\ Lost /\ Ends(Sim, 1) /\ UNCHANGED sim
  /\ UNCHANGED <<parent, term, hung, pipes, tick>>

(* ... and summary.  write_summary_json looks at the stream before the end *)
(* of the file is flushed: what fails then goes unnoticed.                 *)
SimReturns ==
  /\ Works(Sim) /\ sim = "summary"
  /\ \/ WriteSummary("whole") /\ Ends(Sim, 0) /\ UNCHANGED faults
     \/ /\ faults < MaxFaults /\ faults' = faults + 1
        /\ WriteSummary("part")
        /\ Ends(Sim, 0) \/ Ends(Sim, 1)
  /\ UNCHANGED <<parent, term, hung, pipes, sim, tick>>

Work(w) ==
  \/ Bind(w) \/ Exec(w)
  \/ w \in Agents /\ (AgentActs(w) \/ AgentReturns(w))
  \/ w = Sim /\ (SimOpens \/ SimSteps \/ SimStarves \/ SimFinishes \/ SimReturns)

-----------------------------------------------------------------------------
(* Faults.                                                                 *)
Fault == faults < MaxFaults /\ faults' = faults + 1

(* A worker crashes, fails to start, or throws.                            *)
Crash(w) ==
  /\ Fault
  /\ proc[w] \in {"bound", "running"}
  /\ Ends(w, 1) /\ LogOf(w)
  /\ UNCHANGED <<parent, term, hung, pipes, sim, tick>>

Hang(w) ==
  /\ Fault
  /\ proc[w] = "running" /\ w \notin hung
  /\ hung' = hung \cup {w}
  /\ UNCHANGED <<parent, proc, code, term, pipes, program>>

(* SIGINT or SIGTERM to the supervisor.                                    *)
RequestStop ==
  /\ Fault
  /\ pc \notin {"done", "dead"} /\ ~stop
  /\ stop' = TRUE
  /\ UNCHANGED <<pc, rest, grip, now, batch, status, children, pipes, program>>

(* The supervisor is killed: its descriptors are closed, and the kernel    *)
(* sends SIGTERM to the children that have asked for it.                   *)
Killed ==
  /\ Fault
  /\ pc \notin {"done", "dead"}
  /\ pc' = "dead"
  /\ closed' = Workers
  /\ term' = term \cup {w \in Workers : proc[w] \in {"bound", "running"}}
  /\ UNCHANGED <<rest, grip, now, batch, stop, status, proc, code, hung, request, answer, program>>

(* Someone else reaps what a dead supervisor leaves.                       *)
Adopt(w) ==
  /\ pc = "dead" /\ proc[w] = "zombie"
  /\ proc' = [proc EXCEPT ![w] = "gone"]
  /\ UNCHANGED <<parent, code, term, hung, pipes, program, faults>>

(* sim export is run on the log once the mission is over.                  *)
ExportTrace ==
  /\ pc \in {"done", "dead"} /\ proc[Sim] = "gone"
  /\ Export
  /\ UNCHANGED <<parent, children, pipes, program, faults>>

Next ==
  \/ Supervise
  \/ \E w \in Workers :
       \/ (Work(w) \/ TakeSignal(w) \/ Crash(w) \/ Hang(w)) /\ UNCHANGED export
       \/ Adopt(w) /\ UNCHANGED export
  \/ (RequestStop \/ Killed) /\ UNCHANGED export
  \/ ExportTrace

Spec == Init /\ [][Next]_vars

(* The kernel runs every process, delivers signals and lets deadlines      *)
(* expire; nothing is expected of a worker that hangs.                     *)
FairSpec ==
  /\ Spec
  /\ WF_vars(Supervise)
  /\ \A w \in Workers : WF_vars((Work(w) \/ TakeSignal(w) \/ Adopt(w)) /\ UNCHANGED export)

-----------------------------------------------------------------------------
(* Properties.                                                             *)
Frames == [tick : 0..Ticks, ok : BOOLEAN, last : BOOLEAN,
           acts : SUBSET [agent : Agents, tick : 0..Ticks]]

TypeOK ==
  /\ pc \in {"start", "observe", "tell", "ask", "act", "finish", "unwind", "report", "done", "dead"}
  /\ rest \subseteq Workers /\ grip \in {"open", "eof", "term"}
  /\ now \in 0..Ticks /\ batch \subseteq [agent : Agents, tick : 0..Ticks]
  /\ stop \in BOOLEAN /\ status \in {0, 1}
  /\ proc \in [Workers -> {"none", "forked", "bound", "running", "zombie", "gone"}]
  /\ code \in [Workers -> {0, 1, 127, 137, 143}]
  /\ term \subseteq Workers /\ hung \subseteq Workers /\ closed \subseteq Workers
  /\ request \in [Workers -> Seq(Frames)] /\ answer \in [Workers -> Seq(Frames)]
  /\ sim \in {"open", "step", "footer", "summary"} /\ tick \in 0..Ticks
  /\ faults \in 0..MaxFaults
  /\ LogTypeOK

(* Exit status 0 means that the log of the whole mission is on the disk    *)
(* and every worker ended well, although the frame that ends the mission   *)
(* is sent before the footer is written.  No worker outlives a supervisor  *)
(* that returns, whatever happened.                                        *)
ExitIsHonest ==
  pc = "done" =>
    /\ Mine = {}
    /\ status = 0 => disk = Whole /\ \A w \in Workers : proc[w] = "gone" /\ code[w] = 0

(* Agents and simulator are never more than a step apart: what an agent is *)
(* asked is about the simulator's present, and a batch that is on its way  *)
(* has an action of each agent for it, even if one answers twice.          *)
InStep ==
  /\ \A i \in DOMAIN request[Sim] : Canonical(request[Sim][i])
  /\ \A a \in Agents : \A i \in DOMAIN request[a] : request[a][i].tick = tick

(* In the end the supervisor has returned, or is dead, and so are the      *)
(* workers, hung or not.  Only a dead supervisor may leave one, that       *)
(* hangs: if it took the signal of its parent's death before exec.         *)
Left(w) == proc[w] \notin {"none", "gone"}

AllEnd ==
  <>[](/\ pc \in {"done", "dead"}
       /\ \A w \in Workers : Left(w) => pc = "dead" /\ w \in hung)
=============================================================================
