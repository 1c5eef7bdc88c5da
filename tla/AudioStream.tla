---------------------------- MODULE AudioStream ----------------------------
(***************************************************************************)
(* The sound of one desktop session, streamed both ways: handleAudio of    *)
(* the proxy with the buffer and the GStreamer pipelines of pkg/audio.     *)
(* One pipeline feeds what the desktop plays into a pipe, one takes what   *)
(* the viewer says out of another, one empties the microphone device. Six  *)
(* actors share them: the handler, the two goroutines that copy, the       *)
(* goroutine that restarts the recorder, the main loop that hands on what  *)
(* the pipelines report, and the thread that delivers samples.             *)
(*                                                                         *)
(* GStreamer, PulseAudio and the app are outside: a pipeline may report an *)
(* error, and a pipeline is stopped only when its callback has returned.   *)
(***************************************************************************)
EXTENDS Integers

CONSTANTS MaxAudioFaults,   \* bound: calls that fail and errors that are reported
          MaxRestarts       \* bound: times the recorder is started again

ASSUME AudioAssumption == MaxAudioFaults \in Nat /\ MaxRestarts \in Nat

VARIABLES peer,      \* the app's end of the connection is open
          open,      \* the proxy's end of it is open
          handler,   \* where handleAudio is
          copy,      \* copy["out"] to the connection, copy["in"] from it
          loop,      \* the main loop, and the report it waits to hand on
          reports,   \* reports of pipelines the main loop has not come to yet
          play,      \* the playback pipeline, its pipe, and its sample callback
          rec,       \* the recording pipeline, its writer and its mutex
          mic,       \* the pipeline that empties the microphone device
          closed,    \* the field closed of the buffer
          watch,     \* where watchRecPipeline is, and what it knows of wsize
          trouble    \* faults and restarts so far

audioVars == <<peer, open, handler, copy, loop, reports, play, rec, mic, closed, watch, trouble>>

Pipeline == {"none", "playing", "stopped"}
Way == {"out", "in"}
Closing == {"close", "closePlay", "closeRec", "closeMic"}

AudioTypeOK ==
    /\ {peer, open, closed} \subseteq BOOLEAN
    /\ handler \in {"none", "playback", "recording", "sink", "start", "status", "run", "looping", "close", "end"}
    /\ copy \in [Way -> {"off", "read", "reading", "write", "writing", "end"} \cup Closing]
    /\ loop \in [running : BOOLEAN, lost : BOOLEAN, sending : BOOLEAN]
    /\ reports \in 0..MaxAudioFaults + MaxRestarts
    /\ play \in [pipeline : Pipeline, pipe : BOOLEAN, full : BOOLEAN]
    /\ rec \in [pipeline : Pipeline, writer : {"nil", "open", "closed"}, mutex : {"free", "watch"}]
    /\ mic \in Pipeline
    /\ watch \in [at : {"off", "tick", "restart", "new", "end"}, moved : BOOLEAN, since : BOOLEAN]
    /\ trouble \in [faults : 0..MaxAudioFaults, restarts : 0..MaxRestarts]

(* A connection whose type is audio has been accepted. *)
AudioInit ==
    /\ peer = TRUE /\ open = TRUE /\ closed = FALSE
    /\ handler = "none"
    /\ copy = [w \in Way |-> "off"]
    /\ loop = [running |-> FALSE, lost |-> FALSE, sending |-> FALSE]
    /\ reports = 0
    /\ play = [pipeline |-> "none", pipe |-> FALSE, full |-> FALSE]
    /\ rec = [pipeline |-> "none", writer |-> "nil", mutex |-> "free"]
    /\ mic = "none"
    /\ watch = [at |-> "off", moved |-> FALSE, since |-> FALSE]
    /\ trouble = [faults |-> 0, restarts |-> 0]

Ends == <<peer, open>>
Pipelines == <<play, rec, mic>>
AudioFault == trouble.faults < MaxAudioFaults /\ trouble' = [trouble EXCEPT !.faults = @ + 1]

(* Quit has no effect on a loop that does not run yet. *)
Quit == loop' = [loop EXCEPT !.running = FALSE, !.lost = @ \/ handler = "run"]

CopyGoes(w, at) == copy' = [copy EXCEPT ![w] = at]

-----------------------------------------------------------------------------
(* handleAudio: NewBuffer and Start, which makes the three pipelines one   *)
(* by one. An error is written to the connection, which is then closed;    *)
(* nobody closes the buffer.                                               *)
HandleAudio ==
    /\ handler = "none"
    /\ handler' = "playback"
    /\ UNCHANGED <<Ends, copy, loop, reports, Pipelines, closed, watch, trouble>>

StartFails ==
    /\ handler \in {"playback", "recording", "sink", "start"}
    /\ AudioFault
    /\ handler' = "close"
    /\ UNCHANGED <<Ends, copy, loop, reports, Pipelines, closed, watch>>

StartPlayback ==
    /\ handler = "playback"
    /\ play' = [pipeline |-> "playing", pipe |-> TRUE, full |-> FALSE]
    /\ handler' = "recording"
    /\ UNCHANGED <<Ends, copy, loop, reports, rec, mic, closed, watch, trouble>>

StartRecording ==
    /\ handler = "recording"
    /\ rec' = [rec EXCEPT !.pipeline = "playing", !.writer = "open"]
    /\ handler' = "sink"
    /\ UNCHANGED <<Ends, copy, loop, reports, play, mic, closed, watch, trouble>>

StartWatch ==
    /\ handler = "sink"
    /\ handler' = "start"
    /\ watch' = [watch EXCEPT !.at = "tick"]
    /\ UNCHANGED <<Ends, copy, loop, reports, Pipelines, closed, trouble>>

StartSink ==
    /\ handler = "start"
    /\ mic' = "playing"
    /\ handler' = "status"
    /\ UNCHANGED <<Ends, copy, loop, reports, play, rec, closed, watch, trouble>>

(* WriteStatus, and the goroutines that copy; without a connection the     *)
(* handler returns, and nobody closes the buffer.                          *)
StartCopying ==
    /\ handler = "status"
    /\ \/ handler' = "run" /\ copy' = [w \in Way |-> "read"]
       \/ ~ peer /\ handler' = "close" /\ UNCHANGED copy
    /\ UNCHANGED <<Ends, loop, reports, Pipelines, closed, watch, trouble>>

RunLoop ==
    /\ handler = "run"
    /\ handler' = "looping"
    /\ loop' = [loop EXCEPT !.running = TRUE]
    /\ UNCHANGED <<Ends, copy, reports, Pipelines, closed, watch, trouble>>

(* The main loop was quit and is not inside a callback. *)
LoopReturns ==
    /\ handler = "looping" /\ ~ loop.running /\ ~ loop.sending
    /\ handler' = "close"
    /\ UNCHANGED <<Ends, copy, loop, reports, Pipelines, closed, watch, trouble>>

CloseAudioConn ==
    /\ handler = "close"
    /\ open' = FALSE
    /\ handler' = "end"
    /\ UNCHANGED <<peer, copy, loop, reports, Pipelines, closed, watch, trouble>>

(* The viewer leaves, or the app does. *)
PeerLeaves ==
    /\ peer /\ handler # "none"
    /\ peer' = FALSE
    /\ UNCHANGED <<open, handler, copy, loop, reports, Pipelines, closed, watch, trouble>>

-----------------------------------------------------------------------------
(* The main loop: the callback of AddWatch sends on errChan, which has no  *)
(* room, and the loop stands still until somebody receives.                *)

Reported ==
    /\ "playing" \in {play.pipeline, rec.pipeline, mic}
    /\ AudioFault
    /\ reports' = reports + 1
    /\ UNCHANGED <<Ends, handler, copy, loop, Pipelines, closed, watch>>

Dispatch ==
    /\ handler = "looping" /\ loop.running /\ ~ loop.sending /\ reports > 0
    /\ reports' = reports - 1
    /\ loop' = [loop EXCEPT !.sending = TRUE]
    /\ UNCHANGED <<Ends, handler, copy, Pipelines, closed, watch, trouble>>

(* Read and Write look at errChan first. What they find there they return, *)
(* and the deferred Close follows; otherwise they go on to the pipe.       *)
Select(w) ==
    /\ copy[w] = IF w = "out" THEN "read" ELSE "write"
    /\ IF loop.sending
       THEN /\ loop' = [loop EXCEPT !.sending = FALSE, !.running = FALSE]
            /\ CopyGoes(w, "close")
       ELSE /\ CopyGoes(w, IF w = "out" THEN "reading" ELSE "writing")
            /\ UNCHANGED loop
    /\ UNCHANGED <<Ends, handler, reports, Pipelines, closed, watch, trouble>>

-----------------------------------------------------------------------------
(* io.Copy(conn, audioBuffer)                                              *)

(* NewSampleFunc: the thread of the pipeline writes a sample to the pipe,  *)
(* and waits there until it is read or the pipe is closed.                 *)
Sample ==
    /\ play.pipeline = "playing" /\ ~ play.full /\ play.pipe
    /\ play' = [play EXCEPT !.full = TRUE]
    /\ UNCHANGED <<Ends, handler, copy, loop, reports, rec, mic, closed, watch, trouble>>

(* A pipe that is closed makes the read fail, and Read quits the loop. *)
ReadPipe ==
    /\ copy["out"] = "reading"
    /\ \/ /\ play.pipe /\ play.full
          /\ play' = [play EXCEPT !.full = FALSE]
          /\ CopyGoes("out", "write") /\ UNCHANGED loop
       \/ /\ ~ play.pipe
          /\ CopyGoes("out", "close") /\ Quit /\ UNCHANGED play
    /\ UNCHANGED <<Ends, handler, reports, rec, mic, closed, watch, trouble>>

WriteConn ==
    /\ copy["out"] = "write"
    /\ CopyGoes("out", IF peer /\ open THEN "read" ELSE "close")
    /\ UNCHANGED <<Ends, handler, loop, reports, Pipelines, closed, watch, trouble>>

-----------------------------------------------------------------------------
(* io.Copy(audioBuffer, conn)                                              *)

ReadConn ==
    /\ copy["in"] = "read" /\ peer /\ open
    /\ CopyGoes("in", "write")
    /\ UNCHANGED <<Ends, handler, loop, reports, Pipelines, closed, watch, trouble>>

ReadConnEnds ==
    /\ copy["in"] = "read" /\ ~ (peer /\ open)
    /\ CopyGoes("in", "close")
    /\ UNCHANGED <<Ends, handler, loop, reports, Pipelines, closed, watch, trouble>>

(* Write, under the mutex. A writer that was closed fails once its buffer  *)
(* is full.                                                                *)
WriteRecorder ==
    /\ copy["in"] = "writing" /\ rec.mutex = "free" /\ rec.writer # "nil"
    /\ \/ /\ CopyGoes("in", "read")
          /\ watch' = [watch EXCEPT !.moved = TRUE, !.since = TRUE]
          /\ UNCHANGED loop
       \/ /\ rec.writer = "closed"
          /\ CopyGoes("in", "close") /\ Quit
          /\ UNCHANGED watch
    /\ UNCHANGED <<Ends, handler, reports, Pipelines, closed, trouble>>

(* A call on a writer that a failed restart set to nil: the process ends,  *)
(* and everything in it.                                                   *)
NilWriter ==
    /\ rec.writer = "nil"
    /\ \/ copy["in"] = "writing" /\ rec.mutex = "free"
       \/ \E w \in Way : copy[w] = "closeRec"
    /\ open' = FALSE /\ handler' = "end"
    /\ copy' = [w \in Way |-> "end"]
    /\ loop' = [loop EXCEPT !.running = FALSE, !.sending = FALSE]
    /\ play' = [pipeline |-> "stopped", pipe |-> FALSE, full |-> FALSE]
    /\ rec' = [rec EXCEPT !.pipeline = "stopped", !.mutex = "free"]
    /\ mic' = "stopped"
    /\ watch' = [watch EXCEPT !.at = "end"]
    /\ reports' = 0
    /\ UNCHANGED <<peer, closed, trouble>>

-----------------------------------------------------------------------------
(* Close, by either goroutine when it ends, or by both at once.            *)

(* Broken: the main loop is left to notice by itself. *)
CloseStartOnly(w) ==
    /\ copy[w] = "close"
    /\ CopyGoes(w, IF closed THEN "end" ELSE "closePlay")
    /\ UNCHANGED <<Ends, handler, loop, reports, Pipelines, closed, watch, trouble>>

CloseStart(w) ==
    /\ copy[w] = "close"
    /\ IF closed THEN CopyGoes(w, "end") /\ UNCHANGED loop
                 ELSE CopyGoes(w, "closePlay") /\ Quit
    /\ UNCHANGED <<Ends, handler, reports, Pipelines, closed, watch, trouble>>

(* BlockSetState waits for the callback, and the callback for a reader. *)
ClosePlay(w) ==
    /\ copy[w] = "closePlay"
    /\ \/ /\ ~ play.full
          /\ play' = [play EXCEPT !.pipeline = "stopped", !.pipe = FALSE]
          /\ CopyGoes(w, "closeRec") /\ UNCHANGED trouble
       \/ /\ AudioFault
          /\ CopyGoes(w, "end") /\ UNCHANGED play
    /\ UNCHANGED <<Ends, handler, loop, reports, rec, mic, closed, watch>>

(* Broken: an error of the writer is taken for the end of all. *)
CloseRecLast(w) ==
    /\ copy[w] = "closeRec" /\ rec.writer # "nil"
    /\ rec' = [rec EXCEPT !.writer = "closed", !.pipeline = "stopped"]
    /\ CopyGoes(w, "end")
    /\ UNCHANGED <<Ends, handler, loop, reports, play, mic, closed, watch, trouble>>

(* A second Close of the writer is an error, which Close returns. *)
CloseRec(w) ==
    /\ copy[w] = "closeRec" /\ rec.writer # "nil"
    /\ IF rec.writer = "open"
       THEN /\ rec' = [rec EXCEPT !.writer = "closed", !.pipeline = "stopped"]
            /\ CopyGoes(w, "closeMic")
       ELSE CopyGoes(w, "end") /\ UNCHANGED rec
    /\ UNCHANGED <<Ends, handler, loop, reports, play, mic, closed, watch, trouble>>

CloseMic(w) ==
    /\ copy[w] = "closeMic"
    /\ mic' = "stopped" /\ closed' = TRUE
    /\ CopyGoes(w, "end")
    /\ UNCHANGED <<Ends, handler, loop, reports, play, rec, watch, trouble>>

-----------------------------------------------------------------------------
(* watchRecPipeline, once a second: the recorder is restarted when nothing *)
(* came since the last second, but something since the last restart.       *)

Tick ==
    /\ watch.at = "tick"
    /\ IF closed
       THEN watch' = [watch EXCEPT !.at = "end"]
       ELSE IF ~ watch.moved /\ watch.since
            THEN trouble.restarts < MaxRestarts /\ watch' = [watch EXCEPT !.at = "restart"]
            ELSE watch' = [watch EXCEPT !.moved = FALSE]
    /\ UNCHANGED <<Ends, handler, copy, loop, reports, Pipelines, closed, trouble>>

(* Broken: the error of closing the old writer is only logged. *)
RestartCloseAnyway ==
    /\ watch.at = "restart" /\ rec.mutex = "free"
    /\ rec' = [writer |-> "closed", pipeline |-> "stopped", mutex |-> "watch"]
    /\ watch' = [watch EXCEPT !.at = "new"]
    /\ trouble' = [trouble EXCEPT !.restarts = @ + 1]
    /\ UNCHANGED <<Ends, handler, copy, loop, reports, play, mic, closed>>

(* restartRecorder takes the mutex and closes the writer, whose pipeline   *)
(* may report the end of its stream ...                                    *)
RestartClose ==
    /\ watch.at = "restart" /\ rec.mutex = "free"
    /\ IF rec.writer = "open"
       THEN /\ rec' = [writer |-> "closed", pipeline |-> "stopped", mutex |-> "watch"]
            /\ watch' = [watch EXCEPT !.at = "new"]
            /\ reports' \in {reports, reports + 1}
       ELSE watch' = [watch EXCEPT !.at = "end"] /\ UNCHANGED <<rec, reports>>
    /\ trouble' = [trouble EXCEPT !.restarts = @ + 1]
    /\ UNCHANGED <<Ends, handler, copy, loop, play, mic, closed>>

(* ... and makes a new one; what was written meanwhile counts as old. *)
RestartNew ==
    /\ watch.at = "new"
    /\ \/ /\ rec' = [writer |-> "open", pipeline |-> "playing", mutex |-> "free"]
          /\ watch' = [at |-> "tick", moved |-> FALSE, since |-> FALSE]
          /\ UNCHANGED trouble
       \/ /\ AudioFault
          /\ rec' = [rec EXCEPT !.writer = "nil", !.mutex = "free"]
          /\ watch' = [watch EXCEPT !.at = "end"]
    /\ UNCHANGED <<Ends, handler, copy, loop, reports, play, mic, closed>>

-----------------------------------------------------------------------------

HandlerStep ==
    \/ StartPlayback \/ StartRecording \/ StartWatch \/ StartSink \/ StartCopying
    \/ RunLoop \/ LoopReturns \/ CloseAudioConn

CopyOut == ReadPipe \/ WriteConn
CopyIn == ReadConnEnds \/ WriteRecorder \/ NilWriter
Close(w) == CloseStart(w) \/ ClosePlay(w) \/ CloseRec(w) \/ CloseMic(w)
Watching == Tick \/ RestartClose \/ RestartNew

AudioNext ==
    \/ HandleAudio \/ HandlerStep \/ StartFails \/ PeerLeaves
    \/ Reported \/ Dispatch \/ Sample
    \/ CopyOut \/ ReadConn \/ CopyIn
    \/ \E w \in Way : Select(w) \/ Close(w)
    \/ Watching

(* Goroutines and the main loop run, and a pipeline that is playing has    *)
(* samples. The viewer need neither come, nor speak, nor leave.            *)
AudioFairness ==
    /\ WF_audioVars(HandlerStep) /\ WF_audioVars(Dispatch) /\ WF_audioVars(Sample)
    /\ WF_audioVars(CopyOut) /\ WF_audioVars(CopyIn) /\ WF_audioVars(Watching)
    /\ \A w \in Way : WF_audioVars(Select(w)) /\ WF_audioVars(Close(w))

AudioSpec == AudioInit /\ [][AudioNext]_audioVars /\ AudioFairness

-----------------------------------------------------------------------------
(* When the viewer leaves, the handler ends, except where the code lets it *)
(* wait for ever: Quit came before RunLoop, or the main loop hands a       *)
(* report to nobody.                                                       *)
AudioEnds == ~ peer ~> (handler = "end" \/ [](loop.lost \/ loop.sending))

(* After an undisturbed stream all pipelines are stopped in the end, but   *)
(* when the one thread that delivers a sample waits for a reader that is   *)
(* itself waiting, in Close, for the pipeline of that thread to stop.      *)
Undisturbed == trouble = [faults |-> 0, restarts |-> 0]

PipelinesStop ==
    (handler = "end" /\ copy["in"] # "off")
      ~> (~ Undisturbed \/ closed \/ [](play.full /\ \E w \in Way : copy[w] = "closePlay"))

(* A buffer that says it is closed has nothing running, though the recorder *)
(* may be restarted, and the other goroutine may close, at the same time.  *)
ClosedIsStopped ==
    closed => "playing" \notin {play.pipeline, rec.pipeline, mic}
=============================================================================
