------------------------------- MODULE BabyRelay -------------------------------
(***************************************************************************)
(* HttpHandler::generate_response() of src/http_server.babyEasy.           *)
(*                                                                         *)
(* The handler relays between a phone beside the baby and the phone of a   *)
(* parent.  The baby's phone sends recordings (url baby, listen 0) and     *)
(* asks what to do (baby, listen 1); the parent sends an instruction with  *)
(* a voice message (mother, listen 0) and asks how the baby is (mother,    *)
(* listen 1: only reads babyStatus, no action here).  Requests are served  *)
(* by several receivers (receiver_num = 4 in http.cfg), and the members    *)
(* of the handler have no lock: every access to a member is a step.        *)
(***************************************************************************)
EXTENDS Integers

CONSTANTS
    Listeners,   \* requests of the baby's phone for an instruction, at a time
    Voices,      \* recordings of the baby's phone, at a time
    Parents,     \* instructions of the parents in progress, at a time
    Instructions,\* what the parents say: some of "0" (nothing), "1", "3"
    Period,      \* seconds between two automatic instructions: 30
    MaxSends     \* bound on the instructions of the parent

Parental == {"1", "3"}            \* play a video, stop everything ("2": slides)
Commands == Parental \cup {"0"}

ASSUME BabyRelayAssumption ==
    Period \in Nat \ {0} /\ MaxSends \in Nat /\ Instructions \subseteq Commands

Moods == {"silent", "awake", "unclear", "blank"}
    \* what a recording holds; "unclear": bad frames, or no emotion stands out
Nothing == "none"
Sounds == Moods \cup {"torn"}

VARIABLES
    command, motherAudio,  \* motherAudio: the number of the message, 0 if blank
    babyStatus,            \* 0 unknown, 1 silent, 2 awake
    since,                 \* seconds since lastCommandTime, up to Period
    babyVoice,             \* the member that readint16toWav() gets a reference to
    wav,                   \* tmp/tmp.amr.wav
    lpc,                   \* per listener: its place in generate_response()
    vpc,                   \* per recording: its place
    own,                   \* what it holds, if no other has been served with it
    mpc,                   \* per instruction: its place
    sending, msg,          \* ... what it says, the number of its message
    sends,                 \* instructions sent so far
    heard,                 \* the messages that were handed out
    due                    \* the last instruction, if it was stored while nobody
                           \* listened and none else was stored, and has not been
                           \* handed out yet

relayVars == <<command, motherAudio, since, lpc, mpc, sending, msg, sends, heard, due>>
voiceVars == <<babyStatus, babyVoice, wav, vpc, own>>
vars == <<relayVars, voiceVars>>

TypeOK ==
    /\ command \in Commands /\ motherAudio \in 0..MaxSends
    /\ babyStatus \in 0..2 /\ since \in 0..Period
    /\ babyVoice \in Moods /\ wav \in Sounds
    /\ lpc \in [Listeners -> {"idle", "test", "status", "play", "pause",
                              "answer", "clearAudio", "clearCommand"}]
    /\ vpc \in [Voices -> {"idle", "wav", "sim"}]
    /\ own \in [Voices -> Moods]
    /\ mpc \in [Parents -> {"idle", "audio", "command"}]
    /\ sending \in [Parents -> Commands] /\ msg \in [Parents -> 0..MaxSends]
    /\ sends \in 0..MaxSends /\ heard \subseteq 1..MaxSends /\ due \in Commands \cup {Nothing}

Init ==
    /\ command = "0" /\ motherAudio = 0 /\ babyStatus = 0 /\ since = 0
    /\ babyVoice = "blank" /\ wav = "blank"
    /\ lpc = [l \in Listeners |-> "idle"]
    /\ vpc = [v \in Voices |-> "idle"] /\ own = [v \in Voices |-> "blank"]
    /\ mpc = [p \in Parents |-> "idle"] /\ sending = [p \in Parents |-> "0"]
    /\ msg = [p \in Parents |-> 0] /\ sends = 0 /\ heard = {} /\ due = Nothing

Tick == /\ since < Period /\ since' = since + 1
        /\ UNCHANGED <<command, motherAudio, lpc, mpc, sending, msg, sends, heard, due, voiceVars>>

-----------------------------------------------------------------------------
(***************************************************************************)
(* A parent sends an instruction.  The strings are shared without a lock:  *)
(* one that is read while it is assigned may read as anything, and of two  *)
(* that are assigned at once the later one stays.                          *)
(***************************************************************************)
Storing(p) == \E m \in Parents : mpc[m] = p
readCommand == IF Storing("command") THEN Commands ELSE {command}
Listening == \E l \in Listeners : lpc[l] # "idle"
Quiet == \A m \in Parents : mpc[m] = "idle"

MotherSend(m, c) ==
    /\ mpc[m] = "idle" /\ sends < MaxSends
    /\ mpc' = [mpc EXCEPT ![m] = "audio"] /\ sending' = [sending EXCEPT ![m] = c]
    /\ msg' = [msg EXCEPT ![m] = sends + 1] /\ sends' = sends + 1
    /\ due' = IF Listening \/ ~Quiet THEN Nothing ELSE c
    /\ UNCHANGED <<command, motherAudio, since, lpc, heard, voiceVars>>

SetAudio(m) ==
    /\ mpc[m] = "audio" /\ mpc' = [mpc EXCEPT ![m] = "command"]
    /\ motherAudio' = msg[m] /\ msg' = [msg EXCEPT ![m] = 0]
    /\ UNCHANGED <<command, since, lpc, sending, sends, heard, due, voiceVars>>

SetCommand(m) ==
    /\ mpc[m] = "command" /\ mpc' = [mpc EXCEPT ![m] = "idle"]
    /\ command' = sending[m] /\ sending' = [sending EXCEPT ![m] = "0"]
    /\ UNCHANGED <<motherAudio, since, lpc, msg, sends, heard, due, voiceVars>>

-----------------------------------------------------------------------------
(***************************************************************************)
(* The baby's phone asks for an instruction.                               *)
(***************************************************************************)
Goto(l, p) == lpc' = [lpc EXCEPT ![l] = p]

BabyListen(l) ==
    /\ lpc[l] = "idle" /\ Goto(l, "test")
    /\ due' = IF Quiet THEN due ELSE Nothing
    /\ UNCHANGED <<command, motherAudio, since, mpc, sending, msg, sends, heard, voiceVars>>

\* Variant: the state of the baby comes first.
TestCommand_StatusFirst(l) ==
    /\ lpc[l] = "test" /\ Goto(l, "status")
    /\ UNCHANGED <<command, motherAudio, since, mpc, sending, msg, sends, heard, due, voiceVars>>

\* An instruction of the parent stands above everything.
TestCommand(l) ==
    /\ lpc[l] = "test"
    /\ \E c \in readCommand : Goto(l, IF c \in Parental THEN "answer" ELSE "status")
    /\ UNCHANGED <<command, motherAudio, since, mpc, sending, msg, sends, heard, due, voiceVars>>

\* A baby that is awake is played a video, if the last one is long enough ago.
TestStatus(l) ==
    /\ lpc[l] = "status"
    /\ Goto(l, CASE babyStatus = 2 /\ since >= Period -> "play"
                 [] babyStatus = 2 /\ since < Period  -> "pause"
                 [] babyStatus = 1 -> "pause"
                 [] OTHER -> "answer")
    /\ UNCHANGED <<command, motherAudio, since, mpc, sending, msg, sends, heard, due, voiceVars>>

Play(l) ==
    /\ lpc[l] = "play" /\ Goto(l, "answer")
    /\ command' = "1" /\ since' = 0
    /\ UNCHANGED <<motherAudio, mpc, sending, msg, sends, heard, due, voiceVars>>

\* Variant: the time is taken with every decision.
Pause_Restarts(l) ==
    /\ lpc[l] = "pause" /\ Goto(l, "answer")
    /\ command' = "0" /\ since' = 0
    /\ UNCHANGED <<motherAudio, mpc, sending, msg, sends, heard, due, voiceVars>>

Pause(l) ==
    /\ lpc[l] = "pause" /\ Goto(l, "answer")
    /\ command' = "0"
    /\ UNCHANGED <<motherAudio, since, mpc, sending, msg, sends, heard, due, voiceVars>>

\* generate_json_result(): the answer is put together (with any message, if
\* it is being assigned) ...
Answer(l) ==
    /\ lpc[l] = "answer" /\ Goto(l, "clearAudio")
    /\ heard' = IF motherAudio = 0 \/ Storing("audio") THEN heard ELSE heard \cup {motherAudio}
    /\ due' = Nothing
    /\ UNCHANGED <<command, motherAudio, since, mpc, sending, msg, sends, voiceVars>>

\* Variant: the message is left in place.
ClearAudio_Missing(l) ==
    /\ lpc[l] = "clearAudio" /\ Goto(l, "clearCommand")
    /\ UNCHANGED <<command, motherAudio, since, mpc, sending, msg, sends, heard, due, voiceVars>>

\* ... and message and instruction are taken back.
ClearAudio(l) ==
    /\ lpc[l] = "clearAudio" /\ Goto(l, "clearCommand")
    /\ motherAudio' = 0
    /\ UNCHANGED <<command, since, mpc, sending, msg, sends, heard, due, voiceVars>>

ClearCommand(l) ==
    /\ lpc[l] = "clearCommand" /\ Goto(l, "idle")
    /\ command' = "0"
    /\ UNCHANGED <<motherAudio, since, mpc, sending, msg, sends, heard, due, voiceVars>>

Listen(l) ==
    \/ TestCommand(l) \/ TestStatus(l) \/ Play(l) \/ Pause(l)
    \/ Answer(l) \/ ClearAudio(l) \/ ClearCommand(l)

-----------------------------------------------------------------------------
(***************************************************************************)
(* The baby's phone sends a recording.  The member babyVoice and the file  *)
(* tmp/tmp.amr.wav are shared by all recordings in progress.               *)
(***************************************************************************)
Others(v) == {w \in Voices \ {v} : vpc[w] # "idle"}

\* A blank recording is refused, after babyVoice has been overwritten.
BabyVoice(v, m) ==
    /\ vpc[v] = "idle"
    /\ babyVoice' = m
    /\ own' = [w \in Voices |-> IF w = v /\ Others(v) = {} THEN m ELSE "blank"]
    /\ vpc' = [vpc EXCEPT ![v] = IF m = "blank" THEN "idle" ELSE "wav"]
    /\ UNCHANGED <<babyStatus, wav, relayVars>>

\* The recording v is done with.
Done(v) == /\ vpc' = [vpc EXCEPT ![v] = "idle"]
           /\ own' = [own EXCEPT ![v] = "blank"]

\* Variant: what an earlier recording has left in the file is kept.
ToWav_Keeps(v) ==
    /\ vpc[v] = "wav"
    /\ vpc' = [vpc EXCEPT ![v] = "sim"]
    /\ UNCHANGED <<babyStatus, babyVoice, wav, own, relayVars>>

\* readint16toWav(): the samples are written to tmp/tmp.amr.wav, up to the
\* first bad frame.
ToWav(v) ==
    /\ vpc[v] = "wav"
    /\ \E s \in {babyVoice} \cup {x \in {"torn"} : Others(v) # {}} :
            /\ wav' = s
            /\ \/ s \in {"unclear", "blank"} /\ Done(v)
               \/ s # "blank" /\ vpc' = [vpc EXCEPT ![v] = "sim"] /\ UNCHANGED own
    /\ UNCHANGED <<babyStatus, babyVoice, relayVars>>

StatusOf(m) == CASE m = "silent" -> 1
                 [] m = "awake"  -> 2
                 [] OTHER        -> babyStatus

\* CalSimilarity() reads the file; what it makes of a torn one is open.
Similarity(v) ==
    /\ vpc[v] = "sim"
    /\ Done(v)
    /\ \E m \in IF wav = "torn" \/ Others(v) # {} THEN Moods ELSE {wav} :
            babyStatus' = StatusOf(m)
    /\ UNCHANGED <<babyVoice, wav, relayVars>>

-----------------------------------------------------------------------------
Next ==
    \/ Tick
    \/ \E m \in Parents : SetAudio(m) \/ SetCommand(m) \/ \E c \in Instructions : MotherSend(m, c)
    \/ \E l \in Listeners : BabyListen(l) \/ Listen(l)
    \/ \E v \in Voices : ToWav(v) \/ Similarity(v) \/ \E m \in Moods : BabyVoice(v, m)

Spec == Init /\ [][Next]_vars

\* Time passes, receivers run, and the baby's phone goes on asking.
FairSpec == /\ Spec /\ WF_vars(Tick)
            /\ \A m \in Parents : WF_vars(SetAudio(m) \/ SetCommand(m))
            /\ \A l \in Listeners : WF_vars(BabyListen(l) \/ Listen(l))

-----------------------------------------------------------------------------
(* An instruction that a parent sends alone, while the baby's phone is not *)
(* being answered, stays in place, with its message, until the phone gets  *)
(* it: no automatic instruction of lines 285 to 303 and no recording that  *)
(* is analysed meanwhile replaces it ("0" is no instruction).              *)
InstructionKept ==
    due # Nothing /\ Quiet =>
        motherAudio = sends /\ (due \in Parental => command = due)

(* generate_json_result() hands out a message of the parent once, if the   *)
(* request is the only one that asks and the message is not being stored.  *)
MessageOnce ==
    \A l \in Listeners :
        /\ lpc[l] = "answer" /\ ~Storing("audio")
        /\ \A k \in Listeners \ {l} : lpc[k] = "idle"
        => motherAudio \notin heard

(* A recording that was served alone sets babyStatus to what it holds,     *)
(* whatever earlier recordings have left in babyVoice and in the files.    *)
StatusOfVoice ==
    [][\A v \in Voices :
         vpc[v] = "sim" /\ vpc'[v] = "idle" /\ own[v] # "blank" => babyStatus' = StatusOf(own[v])]_vars

(* A baby that stays awake gets an instruction in the end, the parent's or *)
(* an automatic one: the 30 seconds are not started anew by the requests   *)
(* that come meanwhile.                                                    *)
AwakeBabyGetsPlay ==
    []<>(babyStatus # 2 \/ \E l \in Listeners : lpc[l] = "answer" /\ command # "0")
=============================================================================
