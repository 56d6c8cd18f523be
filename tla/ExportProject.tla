--------------------------- MODULE ExportProject ---------------------------
(* A whole call of export_project (core/src/export/exporter.cpp): it opens   *)
(* the container, the encoders, the device with its pool of frames and the   *)
(* file one after the other, each failure giving back by hand what is held   *)
(* so far; then it encodes, in two threads (ExportPipeline) or in one loop,  *)
(* and closes everything.                                                    *)
EXTENDS ExportPipeline

VARIABLES
    settings,     \* what the job asks for, see Settings
    stage,        \* the next thing the call does
    held          \* what it has opened or allocated and not yet given back

projectVars == <<vars, settings, stage, held>>

\* gpu: the codec is a hardware codec that takes hardware frames; sound:
\* do_audio; file: the container wants a file opened (no AVFMT_NOFILE).
Settings == [gpu : BOOLEAN, sound : BOOLEAN, file : BOOLEAN]

Resources == {"oc", "vctx", "device", "pool", "actx", "pb", "converter", "a_src"}

SetUpStages == {"output", "codec", "pool", "encoder", "stream", "audio", "file",
                "header", "converter", "session"}

\* Without sound there is nothing to mix, in any pass.
ProjectInit ==
    /\ cancelled = FALSE /\ queue = <<>> /\ done = FALSE
    /\ prod = "exited" /\ f = 0 /\ inHand = <<>> /\ missed = {}
    /\ cons = "loop" /\ frame = 0 /\ toSend = <<>>
    /\ ended = FALSE /\ sent = <<>> /\ flushed = FALSE /\ ok = FALSE
    /\ settings \in Settings
    /\ audio = IF settings.sound THEN 0 ELSE AudioChunks
    /\ stage = "output" /\ held = {}
-----------------------------------------------------------------------------
(* Setting up. Every step may fail for a reason outside the program. *)

\* What a step that succeeds leaves: more is held, and the next step is due.
Proceed(next, more) ==
    /\ stage' = next /\ held' = held \cup more
    /\ UNCHANGED <<vars, settings>>

\* `return fail(...)` after the calls that give resources back.
GiveUp(freed) ==
    /\ stage' = "failed" /\ held' = held \ freed
    /\ cons' = "returned"
    /\ UNCHANGED <<cancelled, queue, done, producerVars, frame, toSend, audio, ended,
                   sent, flushed, ok, settings>>

\* The settings are looked at and the container context is allocated.
OpenOutput ==
    /\ stage = "output"
    /\ Proceed("codec", {"oc"}) \/ GiveUp({})

FindEncoder ==
    /\ stage = "codec"
    /\ Proceed("pool", {"vctx"}) \/ GiveUp({"oc"})

\* create_device_and_pool: the pool may fail after the device was created, and
\* the call then leaves the device in the pump.
CreatePool ==
    /\ stage = "pool"
    /\ \E got \in IF settings.gpu THEN {{}, {"device"}, {"device", "pool"}} ELSE {{}} :
          Proceed("encoder", got)

\* A codec that was set up for hardware frames does not open without a pool.
OpenEncoder ==
    /\ stage = "encoder"
    /\ \/ (settings.gpu => "pool" \in held) /\ Proceed("stream", {})
       \/ GiveUp({"pool", "device", "vctx", "oc"})

AddStream ==
    /\ stage = "stream"
    /\ Proceed("audio", {}) \/ GiveUp({"vctx", "oc"})

\* The audio encoder is allocated and opened, and gets a stream; failing, the
\* step also frees what it allocated itself.
OpenAudio ==
    /\ stage = "audio"
    /\ \/ Proceed("file", IF settings.sound THEN {"actx"} ELSE {})
       \/ settings.sound /\ GiveUp({"vctx", "oc"})

OpenFile ==
    /\ stage = "file"
    /\ \/ Proceed("header", IF settings.file THEN {"pb"} ELSE {})
       \/ settings.file /\ GiveUp({"actx", "vctx", "oc"})

\* Mutant: the file stays open when the header cannot be written.
WriteHeaderKeepsFile ==
    /\ stage = "header"
    /\ Proceed("converter", {}) \/ GiveUp({"actx", "vctx", "oc"})

WriteHeader ==
    /\ stage = "header"
    /\ Proceed("converter", {}) \/ GiveUp({"actx", "vctx", "pb", "oc"})

InitConverters ==
    /\ stage = "converter"
    /\ Proceed("session", {"converter"}) \/ GiveUp({"actx", "vctx", "pb", "oc"})

\* The frame for the sound is allocated, the render session begins (it refuses
\* only a picture without area, for which no encoder opens), and the call takes
\* one of its two branches: a producer thread if there are hardware frames to
\* fill, or the loop.
Begin ==
    /\ stage = "session"
    /\ held' = held \cup IF settings.sound THEN {"a_src"} ELSE {}
    /\ stage' = IF "pool" \in held THEN "threads" ELSE "alone"
    /\ prod' = IF "pool" \in held THEN "render" ELSE prod
    /\ UNCHANGED <<cancelled, queue, done, f, inHand, missed, consumerVars, settings>>

SetUp ==
    \/ OpenOutput \/ FindEncoder \/ CreatePool \/ OpenEncoder \/ AddStream \/ OpenAudio
    \/ OpenFile \/ WriteHeader \/ InitConverters \/ Begin
-----------------------------------------------------------------------------
(* The loop of a call that renders and encodes by turns. *)

AloneTest ==
    /\ stage = "alone" /\ cons = "loop"
    /\ cons' = IF ended \/ cancelled THEN "trailer" ELSE "encode"
    /\ UNCHANGED <<cancelled, queue, done, producerVars, frame, toSend, audio, ended,
                   sent, flushed, ok, settings, stage, held>>

\* One pass: render a frame while there are any, and send it unless produce()
\* came back without, mix sound, and flush both encoders once frames and sound
\* are through.
AlonePass ==
    /\ stage = "alone" /\ cons = "encode"
    /\ \/ frame < Total /\ sent' = Append(sent, frame) /\ missed' = missed
       \/ frame < Total /\ missed' = missed \cup {frame} /\ sent' = sent
       \/ frame >= Total /\ UNCHANGED <<sent, missed>>
    /\ frame' = frame + 1
    /\ audio' = IF audio < AudioChunks THEN audio + 1 ELSE audio
    /\ ended' = (frame' >= Total /\ audio' = AudioChunks)
    /\ flushed' = (flushed \/ ended')
    /\ cons' = "loop"
    /\ UNCHANGED <<cancelled, queue, done, prod, f, inHand, toSend, ok, settings, stage, held>>

\* The trailer is written, pump.teardown() and the rest give everything back.
Finish ==
    /\ stage \in {"threads", "alone"}
    /\ Return
    /\ stage' = "returned"
    /\ held' = held \ {"converter", "pool", "device", "a_src", "actx", "vctx", "pb", "oc"}
    /\ UNCHANGED settings

WithThreads(A) == stage = "threads" /\ A /\ UNCHANGED <<settings, stage, held>>

Encoding ==
    \/ WithThreads(LoopTest \/ Take \/ TakeWait \/ Encode \/ Join)
    \/ AloneTest \/ AlonePass \/ Finish

ProjectNext ==
    \/ SetUp \/ Encoding
    \/ WithThreads(Producer) \/ WithThreads(SpuriousWake)
    \/ Cancel /\ UNCHANGED <<settings, stage, held>>

\* The thread of the call and the producer run whenever they can.
Fairness == WF_projectVars(SetUp \/ Encoding) /\ WF_projectVars(WithThreads(Producer))

ProjectSpec == ProjectInit /\ [][ProjectNext]_projectVars /\ Fairness
-----------------------------------------------------------------------------
ProjectTypeOK ==
    /\ TypeOK
    /\ settings \in Settings
    /\ stage \in SetUpStages \cup {"threads", "alone", "returned", "failed"}
    /\ held \subseteq Resources

\* Whatever failed on the way, a call that has returned holds nothing: no open
\* file, no encoder. The device and its pool are the exception when the call
\* fails: what fails between the pool and the first frame forgets them.
Released ==
    /\ stage = "returned" => held = {}
    /\ stage = "failed" => held \subseteq {"device", "pool"}
=============================================================================
