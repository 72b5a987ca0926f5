------------------------------ MODULE EventLog ------------------------------
(***************************************************************************)
(* The event log of a mission, its replay, and the presentation trace that *)
(* is exported from a replay (core/src/event_log.cpp).                     *)
(*                                                                         *)
(* A log is a header, a record for every tick and a footer.  The writer    *)
(* flushes only the footer: until then any part of what it wrote may be on *)
(* the disk, and that is what a reader finds after a crash.  The content   *)
(* of an entry is its place in the mission: a record says which tick it is *)
(* of, and replaying it has the recorded outcome if it is the next tick.   *)
(***************************************************************************)
EXTENDS Integers, Sequences

CONSTANT Ticks   (* the ticks of the mission                               *)

ASSUME TicksAssumption == Ticks \in Nat \ {0}

VARIABLES
  buffer,   (* entries written to the stream and not flushed               *)
  disk,     (* the log file                                                *)
  summary,  (* the summary file: "none", "part" or "whole"                 *)
  exporter, (* sim export: "idle", "write", "rename", "remove", "ended"    *)
  tmp,      (* trace_path.tmp: "none", "part" or "whole"                   *)
  trace     (* trace_path: "old" (or none), "part" or "new"                *)

log    == <<buffer, disk, summary>>
export == <<exporter, tmp, trace>>

Header    == [kind |-> "header", tick |-> 0]
Record(n) == [kind |-> "record", tick |-> n]
Footer    == [kind |-> "footer", tick |-> 0]
Torn      == [kind |-> "torn", tick |-> 0]   (* a frame cut short          *)

Entries == {Header, Footer, Torn} \cup {Record(n) : n \in 1..Ticks}

(* The log of the whole mission.                                           *)
Whole == [i \in 1..(Ticks + 2) |->
            IF i = 1 THEN Header ELSE IF i = Ticks + 2 THEN Footer ELSE Record(i - 1)]

LogInit == buffer = <<>> /\ disk = <<>> /\ summary = "none"

ExportInit == exporter = "idle" /\ tmp = "none" /\ trace = "old"

-----------------------------------------------------------------------------
(* The writer.  Opening it truncates the file.                             *)
Open == buffer' = <<Header>> /\ disk' = <<>> /\ UNCHANGED summary

Write(entry) == buffer' = Append(buffer, entry) /\ UNCHANGED <<disk, summary>>

(* What may be on the disk if the process ends now: some of what it wrote, *)
(* and perhaps a piece of the next entry.                                  *)
Spilled ==
  {disk \o SubSeq(buffer, 1, k) : k \in 0..Len(buffer)}
  \cup {Append(disk \o SubSeq(buffer, 1, k), Torn) : k \in 0..(Len(buffer) - 1)}

Lost == buffer' = <<>> /\ disk' \in Spilled /\ UNCHANGED summary

(* The footer is flushed, and what was written before it.                  *)
Mut_Finish == buffer' = <<>> /\ disk' \in {Append(s, Footer) : s \in Spilled} /\ UNCHANGED summary

Finish == buffer' = <<>> /\ disk' = disk \o Append(buffer, Footer) /\ UNCHANGED summary

(* write_summary_json.                                                     *)
WriteSummary(outcome) == summary' = outcome /\ UNCHANGED <<buffer, disk>>

-----------------------------------------------------------------------------
(* replay_event_log.  Records are counted; a footer is the end.  Stepping  *)
(* a mission that has finished throws.                                     *)
Replays(file) ==
  /\ file # <<>> /\ file[1] = Header
  /\ \A i \in 2..Len(file) :
        \/ file[i] = Footer
        \/ file[i] = Record(i - 1) /\ i - 1 <= Ticks
  /\ \A i, j \in 2..Len(file) : file[i] = Footer => j <= i
  /\ \E i \in 2..Len(file) : file[i] = Footer
  /\ \E i \in 2..Len(file) : file[i] = Record(Ticks)

-----------------------------------------------------------------------------
(* export_replay_trace: replay, write a temporary file, close and rename.  *)
(* If anything throws the temporary file is removed.                       *)
Replay ==
  /\ exporter = "idle"
  /\ exporter' = IF Replays(disk) THEN "write" ELSE "ended"
  /\ UNCHANGED <<tmp, trace>>

(* The stream is closed and asked whether all that was written got there.  *)
Mut_WriteTrace ==
  /\ exporter = "write"
  /\ tmp' \in {"part", "whole"}
  /\ exporter' = "rename"
  /\ UNCHANGED trace

WriteTrace ==
  /\ exporter = "write"
  /\ \/ tmp' = "part" /\ exporter' = "remove"
     \/ tmp' = "whole" /\ exporter' = "rename"
  /\ UNCHANGED trace

Rename ==
  /\ exporter = "rename"
  /\ \/ /\ trace' = IF tmp = "whole" THEN "new" ELSE "part"
        /\ tmp' = "none"
        /\ exporter' = "ended"
     \/ /\ exporter' = "remove"
        /\ UNCHANGED <<tmp, trace>>

RemoveTmp ==
  /\ exporter = "remove"
  /\ tmp' = "none"
  /\ exporter' = "ended"
  /\ UNCHANGED trace

(* The exporter dies; what it was writing stays.                           *)
ExportDies ==
  /\ exporter \in {"write", "rename", "remove"}
  /\ exporter' = "ended"
  /\ tmp' \in IF exporter = "write" THEN {"none", "part", "whole"} ELSE {tmp}
  /\ UNCHANGED trace

Export == Replay \/ WriteTrace \/ Rename \/ RemoveTmp \/ ExportDies

-----------------------------------------------------------------------------
LogTypeOK ==
  /\ buffer \in Seq(Entries) /\ disk \in Seq(Entries)
  /\ summary \in {"none", "part", "whole"}
  /\ exporter \in {"idle", "write", "rename", "remove", "ended"}
  /\ tmp \in {"none", "part", "whole"} /\ trace \in {"old", "part", "new"}

(* A log that is not whole does not replay, and no trace comes of it: the  *)
(* trace is the old one, or the complete new one of a complete mission.    *)
TraceIsWhole == trace # "old" => trace = "new" /\ disk = Whole
=============================================================================
