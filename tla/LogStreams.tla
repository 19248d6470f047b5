----------------------------- MODULE LogStreams -----------------------------
(***************************************************************************)
(* The logs of one sandbox: a thread per container follows its output and  *)
(* appends the lines to a LogBatchBuffer, which hands batches over to the  *)
(* event loop: from the thread that filled it, from a timer, and from the  *)
(* teardown that stops both.                                               *)
(*                                                                         *)
(* A thread takes a batch under the lock and hands it over outside.  A     *)
(* stream that breaks off (its container restarts) is read again from two  *)
(* seconds before the last line.                                           *)
(*                                                                         *)
(* Abstracted: levels, texts, ages (the timer may find the batch old       *)
(* enough at any time), the provisioner's own lines and flushes, which are *)
(* those of one more thread, and the publishing of a batch by the loop.    *)
(***************************************************************************)
EXTENDS Naturals, Sequences, SequencesExt, FiniteSets

CONSTANTS
  Streams,       \* containers that are followed
  MAX_LINES,     \* max_lines of the buffer
  MaxOutput,     \* bound: lines a container writes
  MaxTroubles    \* bound: streams that break off, hand-overs that raise

ASSUME LogAssumption ==
  /\ {"timer", "teardown"} \cap Streams = {}
  /\ MAX_LINES \in Nat \ {0}
  /\ MaxOutput \in Nat /\ MaxTroubles \in Nat

VARIABLES
  place,      \* where each thread is
  read,       \* the next line of each stream, minus one
  appended,   \* the last line of each stream that was appended
  lines,      \* _lines
  batch,      \* what a thread has taken and not yet handed over
  sent,       \* lines that were handed over
  refused,    \* lines of batches whose callback raised
  streamStop, \* the stop event of the stream threads
  stopping,   \* _stop_event of the buffer
  troubles

stops     == <<streamStop, stopping>>
outcomes  == <<sent, refused>>
logVars   == <<place, read, appended, lines, batch, outcomes, stops, troubles>>

Threads == Streams \cup {"timer", "teardown"}

LogInit ==
  /\ place = [t \in Threads |-> "idle"]
  /\ read = [w \in Streams |-> 0]
  /\ appended = [w \in Streams |-> 0]
  /\ lines = <<>>
  /\ batch = [t \in Threads |-> <<>>]
  /\ sent = {}
  /\ refused = {}
  /\ streamStop = FALSE
  /\ stopping = FALSE
  /\ troubles = 0

Turn(t, where) == place' = [place EXCEPT ![t] = where]

Trouble == troubles < MaxTroubles /\ troubles' = troubles + 1

-----------------------------------------------------------------------------
(* _stream_service_logs: a line is looked at only if the stop event is not *)
(* set, and appended after that.                                           *)
ReadLine(w) ==
  /\ place[w] = "idle"
  /\ read[w] < MaxOutput
  /\ IF streamStop THEN Turn(w, "ended") /\ UNCHANGED read
     ELSE Turn(w, "append") /\ read' = [read EXCEPT ![w] = @ + 1]
  /\ UNCHANGED <<appended, lines, batch, outcomes, stops, troubles>>

BreakOff(w) ==
  /\ place[w] = "idle"
  /\ IF streamStop THEN Turn(w, "ended") /\ UNCHANGED <<read, troubles>>
     ELSE /\ Trouble
          /\ \E n \in 0..read[w] : read' = [read EXCEPT ![w] = n]
          /\ UNCHANGED place
  /\ UNCHANGED <<appended, lines, batch, outcomes, stops>>

(* append: the thread that fills the batch flushes it. *)
AppendLine(w) ==
  /\ place[w] = "append"
  /\ lines' = lines \o << <<w, read[w]>> >>
  /\ appended' = [appended EXCEPT ![w] = IF @ < read[w] THEN read[w] ELSE @]
  /\ Turn(w, IF Len(lines') >= MAX_LINES THEN "flush" ELSE "idle")
  /\ UNCHANGED <<read, batch, outcomes, stops, troubles>>

TimerWakes ==
  /\ place["timer"] = "idle"
  /\ Turn("timer", IF stopping THEN "ended" ELSE "flush")
  /\ UNCHANGED <<read, appended, lines, batch, outcomes, stops, troubles>>

(* _teardown_sync: the streams are told, then the buffer is stopped. *)
StopStreams ==
  /\ place["teardown"] = "idle" /\ ~streamStop
  /\ streamStop' = TRUE
  /\ UNCHANGED <<place, read, appended, lines, batch, outcomes, stopping, troubles>>

(* Mutant: stop() ends the timer and flushes nothing. *)
StopBuffer_NoFlush ==
  /\ streamStop /\ ~stopping
  /\ stopping' = TRUE
  /\ Turn("teardown", "ended")
  /\ UNCHANGED <<read, appended, lines, batch, outcomes, streamStop, troubles>>

StopBuffer ==
  /\ streamStop /\ ~stopping
  /\ stopping' = TRUE
  /\ Turn("teardown", "flush")
  /\ UNCHANGED <<read, appended, lines, batch, outcomes, streamStop, troubles>>

-----------------------------------------------------------------------------
(* _do_flush: the batch is taken under the lock ... *)
AfterFlush(t) == IF t = "teardown" THEN "ended" ELSE "idle"

TakeBatch(t) ==
  /\ place[t] = "flush"
  /\ batch' = [batch EXCEPT ![t] = lines]
  /\ lines' = <<>>
  /\ Turn(t, IF lines = <<>> THEN AfterFlush(t) ELSE "hand")
  /\ UNCHANGED <<read, appended, outcomes, stops, troubles>>

(* Mutant: the list is emptied when the batch has been handed over. *)
HandOver_Clears(t) ==
  /\ place[t] = "hand"
  /\ sent' = sent \cup ToSet(batch[t])
  /\ lines' = <<>>
  /\ batch' = [batch EXCEPT ![t] = <<>>]
  /\ Turn(t, AfterFlush(t))
  /\ UNCHANGED <<read, appended, refused, stops, troubles>>

(* ... and handed over outside it.  What the callback raises is swallowed. *)
HandOver(t) ==
  /\ place[t] = "hand"
  /\ \/ sent' = sent \cup ToSet(batch[t]) /\ UNCHANGED <<refused, troubles>>
     \/ refused' = refused \cup ToSet(batch[t]) /\ Trouble /\ UNCHANGED sent
  /\ batch' = [batch EXCEPT ![t] = <<>>]
  /\ Turn(t, AfterFlush(t))
  /\ UNCHANGED <<read, appended, lines, stops>>

-----------------------------------------------------------------------------
Flush(t) == TakeBatch(t) \/ HandOver(t)

LogNext ==
  \/ \E w \in Streams : ReadLine(w) \/ BreakOff(w) \/ AppendLine(w)
  \/ TimerWakes \/ StopStreams \/ StopBuffer
  \/ \E t \in Threads : Flush(t)

LogSpec == LogInit /\ [][LogNext]_logVars

(* Threads run: the timer wakes up, and who has taken a batch hands it     *)
(* over.  The teardown stops the buffer right after the streams.           *)
FairLogSpec ==
  /\ LogSpec
  /\ WF_logVars(TimerWakes) /\ WF_logVars(StopBuffer)
  /\ \A t \in Threads : WF_logVars(Flush(t))

-----------------------------------------------------------------------------
(* Every line a stream has appended is in the buffer, in one batch on its  *)
(* way, or was handed over, or its callback raised: none falls between two *)
(* threads that flush and one that appends (log_buffer.py:83-125).         *)
Held == ToSet(lines) \cup UNION {ToSet(batch[t]) : t \in Threads}

LinesKept ==
  \A w \in Streams : \A n \in 1..appended[w] :
    <<w, n>> \in Held \cup sent \cup refused

(* "so no lines are lost during teardown" (provisioner.py:2611), for what  *)
(* was appended before the buffer was stopped.  A line whose thread passed *)
(* the look at the stop event may be appended later and stays.             *)
LinesArrive ==
  \A w \in Streams : \A n \in 1..MaxOutput :
    (n <= appended[w] /\ ~stopping) ~> <<w, n>> \in sent \cup refused
=============================================================================
