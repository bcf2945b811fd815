---------------------------- MODULE BabyRelayProofs ----------------------------
(***************************************************************************)
(* For any number of requests at a time: the unlocked handler of babyEasy  *)
(* keeps an instruction that it stored while nobody asked, hands out a     *)
(* message once, and analyses a recording that was served alone.           *)
(***************************************************************************)
EXTENDS BabyRelay, TLAPS

Asking == {"status", "play", "pause"}

\* An instruction that nobody has been answered with yet: no request and no
\* other instruction was in progress when it was stored, and no request has
\* gone past its answer.
KeptInv ==
    due # Nothing =>
        /\ \A m \in Parents : mpc[m] # "idle" =>
              /\ due = sending[m]
              /\ mpc[m] = "audio" => msg[m] = sends
              /\ mpc[m] = "command" => motherAudio = sends
              /\ \A n \in Parents \ {m} : mpc[n] = "idle"
              /\ \A l \in Listeners : lpc[l] = "idle"
        /\ Quiet =>
              /\ motherAudio = sends
              /\ due \in Parental => command = due
              /\ \A l \in Listeners :
                    \/ lpc[l] \in {"idle", "test", "answer"}
                    \/ lpc[l] \in Asking /\ due \notin Parental

\* A message that has been handed out is about to be taken back; the ones
\* that are being stored are new.
OnceInv ==
    /\ motherAudio <= sends /\ heard \subseteq 1..sends
    /\ \A m \in Parents : mpc[m] = "audio" =>
          /\ msg[m] \in 1..sends /\ msg[m] \notin heard /\ msg[m] # motherAudio
          /\ \A n \in Parents \ {m} : mpc[n] = "audio" => msg[n] # msg[m]
    /\ motherAudio \notin heard \/ \E k \in Listeners : lpc[k] = "clearAudio"

\* A recording that is served alone has babyVoice and the file to itself.
AloneInv ==
    \A v \in Voices : own[v] # "blank" =>
        /\ Others(v) = {}
        /\ vpc[v] = "wav" => babyVoice = own[v]
        /\ vpc[v] = "sim" => wav = own[v]

RelayInv == TypeOK /\ KeptInv /\ OnceInv /\ AloneInv

USE BabyRelayAssumption DEF Commands, Parental, Nothing

LEMMA InitRelay == Init => RelayInv
  <1> SUFFICES ASSUME Init PROVE RelayInv
    OBVIOUS
  <1>1. TypeOK
    BY DEF Init, TypeOK, Moods, Sounds
  <1>2. KeptInv /\ OnceInv /\ AloneInv
    BY DEF Init, KeptInv, OnceInv, AloneInv, Quiet
  <1>3. QED
    BY <1>1, <1>2 DEF RelayInv

-----------------------------------------------------------------------------
(***************************************************************************)
(* The parent and the requests for an instruction.                         *)
(***************************************************************************)
\* A step of theirs leaves the recordings alone.
LEMMA VoiceSame ==
    ASSUME AloneInv, UNCHANGED voiceVars PROVE AloneInv'
  <1>1. \A v \in Voices : Others(v)' = Others(v)
    BY DEF Others, voiceVars
  <1>2. QED
    BY <1>1 DEF AloneInv, voiceVars

LEMMA TickKept == ASSUME RelayInv, Tick PROVE RelayInv'
  <1> USE DEF Tick, RelayInv
  <1>1. TypeOK'
    BY DEF TypeOK, voiceVars
  <1>2. KeptInv' /\ OnceInv'
    BY DEF KeptInv, OnceInv, Quiet
  <1>3. QED
    BY <1>1, <1>2, VoiceSame

LEMMA MotherKept ==
    ASSUME RelayInv, NEW m \in Parents,
           (\E c \in Instructions : MotherSend(m, c)) \/ SetAudio(m) \/ SetCommand(m)
    PROVE  RelayInv'
  <1>1. CASE \E c \in Instructions : MotherSend(m, c)
    <2>0. PICK c \in Commands : MotherSend(m, c)
      BY <1>1
    <2>1. TypeOK'
      BY <2>0 DEF RelayInv, TypeOK, MotherSend, voiceVars
    <2>2. KeptInv'
      BY <2>0 DEF RelayInv, TypeOK, KeptInv, MotherSend, Listening, Quiet
    <2>3. OnceInv'
      BY <2>0 DEF RelayInv, TypeOK, OnceInv, MotherSend
    <2>4. AloneInv'
      BY <2>0, VoiceSame DEF RelayInv, MotherSend
    <2>5. QED
      BY <2>1, <2>2, <2>3, <2>4 DEF RelayInv
  <1>2. CASE SetAudio(m)
    <2>1. TypeOK'
      BY <1>2 DEF RelayInv, TypeOK, SetAudio, voiceVars
    <2>2. KeptInv'
      BY <1>2 DEF RelayInv, TypeOK, KeptInv, SetAudio, Quiet
    <2>3. OnceInv'
      BY <1>2 DEF RelayInv, TypeOK, OnceInv, SetAudio
    <2>4. AloneInv'
      BY <1>2, VoiceSame DEF RelayInv, SetAudio
    <2>5. QED
      BY <2>1, <2>2, <2>3, <2>4 DEF RelayInv
  <1>3. CASE SetCommand(m)
    <2>1. TypeOK'
      BY <1>3 DEF RelayInv, TypeOK, SetCommand, voiceVars
    <2>2. KeptInv'
      BY <1>3 DEF RelayInv, TypeOK, KeptInv, SetCommand, Quiet
    <2>3. OnceInv'
      BY <1>3 DEF RelayInv, TypeOK, OnceInv, SetCommand
    <2>4. AloneInv'
      BY <1>3, VoiceSame DEF RelayInv, SetCommand
    <2>5. QED
      BY <2>1, <2>2, <2>3, <2>4 DEF RelayInv
  <1>4. QED
    BY <1>1, <1>2, <1>3

\* What a step of the request l changes: its place, and no other's.
LEMMA ListenKept ==
    ASSUME RelayInv, NEW l \in Listeners, BabyListen(l) \/ Listen(l) PROVE RelayInv'
  <1> USE DEF RelayInv
  <1>1. TypeOK'
    <2>1. CASE BabyListen(l) \/ TestCommand(l) \/ TestStatus(l) \/ Play(l) \/ Pause(l)
      BY <2>1 DEF TypeOK, BabyListen, TestCommand, TestStatus, Play, Pause, Goto, voiceVars
    <2>2. CASE ClearAudio(l)
      BY <2>2 DEF TypeOK, ClearAudio, Goto, voiceVars
    <2>3. CASE ClearCommand(l)
      BY <2>3 DEF TypeOK, ClearCommand, Goto, voiceVars
    <2>4. CASE Answer(l)
      <3>1. heard' = heard \/ (motherAudio # 0 /\ heard' = heard \cup {motherAudio})
        <4>1. CASE motherAudio = 0 \/ Storing("audio")
          BY <2>4, <4>1 DEF Answer
        <4>2. CASE ~(motherAudio = 0 \/ Storing("audio"))
          BY <2>4, <4>2 DEF Answer
        <4>3. QED
          BY <4>1, <4>2
      <3>2. ASSUME motherAudio # 0 PROVE motherAudio \in 1..MaxSends
        BY <3>2 DEF TypeOK
      <3>3. heard' \subseteq 1..MaxSends
        BY <3>1, <3>2 DEF TypeOK
      <3>4. QED
        BY <2>4, <3>3 DEF TypeOK, Answer, Goto, voiceVars
    <2>5. QED
      BY <2>1, <2>2, <2>3, <2>4 DEF Listen
  <1>2. KeptInv'
    <2>1. CASE BabyListen(l)
      BY <2>1 DEF TypeOK, KeptInv, BabyListen, Goto, Quiet
    <2>2. CASE TestCommand(l)
      BY <2>2 DEF TypeOK, KeptInv, TestCommand, Goto, readCommand, Storing, Quiet, Asking
    <2>3. CASE TestStatus(l)
      BY <2>3 DEF TypeOK, KeptInv, TestStatus, Goto, Quiet, Asking
    <2>4. CASE Play(l) \/ Pause(l)
      BY <2>4 DEF TypeOK, KeptInv, Play, Pause, Goto, Quiet, Asking
    <2>5. CASE Answer(l)
      BY <2>5 DEF KeptInv, Answer
    <2>6. CASE ClearAudio(l) \/ ClearCommand(l)
      BY <2>6 DEF TypeOK, KeptInv, ClearAudio, ClearCommand, Goto, Quiet, Asking
    <2>7. QED
      BY <2>1, <2>2, <2>3, <2>4, <2>5, <2>6 DEF Listen
  <1>3. OnceInv'
    <2>1. CASE BabyListen(l) \/ TestCommand(l) \/ TestStatus(l) \/ Play(l) \/ Pause(l) \/ ClearCommand(l)
      BY <2>1 DEF TypeOK, OnceInv, BabyListen, TestCommand, TestStatus, Play, Pause, ClearCommand, Goto
    <2>2. CASE Answer(l)
      BY <2>2 DEF TypeOK, OnceInv, Answer, Goto, Storing
    <2>3. CASE ClearAudio(l)
      BY <2>3 DEF TypeOK, OnceInv, ClearAudio, Goto
    <2>4. QED
      BY <2>1, <2>2, <2>3 DEF Listen
  <1>4. UNCHANGED voiceVars
    BY DEF Listen, BabyListen, TestCommand, TestStatus, Play, Pause, Answer, ClearAudio, ClearCommand
  <1>5. QED
    BY <1>1, <1>2, <1>3, <1>4, VoiceSame

-----------------------------------------------------------------------------
(***************************************************************************)
(* The recordings.                                                         *)
(***************************************************************************)
LEMMA RelaySame ==
    ASSUME KeptInv, OnceInv, UNCHANGED relayVars PROVE KeptInv' /\ OnceInv'
  BY DEF KeptInv, OnceInv, Quiet, relayVars

LEMMA BabyVoiceKept ==
    ASSUME RelayInv, NEW v \in Voices, NEW m \in Moods, BabyVoice(v, m) PROVE RelayInv'
  <1>1. TypeOK'
    BY DEF RelayInv, TypeOK, BabyVoice, relayVars, Moods
  <1>2. AloneInv'
    <2> SUFFICES ASSUME NEW w \in Voices, own'[w] # "blank"
                 PROVE  /\ Others(w)' = {}
                        /\ vpc'[w] = "wav" => babyVoice' = own'[w]
                        /\ vpc'[w] = "sim" => wav' = own'[w]
      BY DEF AloneInv
    <2>1. w = v /\ Others(v) = {} /\ own'[w] = m
      BY DEF BabyVoice
    <2>2. vpc'[v] \in {"idle", "wav"} /\ \A u \in Voices \ {v} : vpc'[u] = vpc[u]
      BY DEF RelayInv, TypeOK, BabyVoice
    <2>3. QED
      BY <2>1, <2>2 DEF BabyVoice, Others
  <1>3. QED
    BY <1>1, <1>2, RelaySame DEF RelayInv, BabyVoice

LEMMA ToWavKept == ASSUME RelayInv, NEW v \in Voices, ToWav(v) PROVE RelayInv'
  <1>1. TypeOK'
    BY DEF RelayInv, TypeOK, ToWav, Done, relayVars, Moods, Sounds
  <1>2. AloneInv'
    <2> SUFFICES ASSUME NEW w \in Voices, own'[w] # "blank"
                 PROVE  /\ Others(w)' = {}
                        /\ vpc'[w] = "wav" => babyVoice' = own'[w]
                        /\ vpc'[w] = "sim" => wav' = own'[w]
      BY DEF AloneInv
    <2>1. own[w] = own'[w]
      BY DEF RelayInv, TypeOK, ToWav, Done
    <2>2. w = v
      <3>1. Others(w) = {}
        BY <2>1 DEF RelayInv, AloneInv
      <3>2. QED
        BY <3>1 DEF Others, ToWav
    <2>3. Others(v) = {} /\ babyVoice = own[v] /\ vpc[v] = "wav"
      BY <2>1, <2>2 DEF RelayInv, AloneInv, ToWav
    <2>4. wav' = babyVoice /\ babyVoice' = babyVoice
      BY <2>3 DEF ToWav
    <2>5. \A u \in Voices \ {v} : vpc'[u] = vpc[u]
      BY DEF RelayInv, TypeOK, ToWav, Done
    <2>6. Others(v)' = {}
      BY <2>3, <2>5 DEF Others
    <2>7. QED
      BY <2>1, <2>2, <2>3, <2>4, <2>6
  <1>3. QED
    BY <1>1, <1>2, RelaySame DEF RelayInv, ToWav

LEMMA SimilarityKept == ASSUME RelayInv, NEW v \in Voices, Similarity(v) PROVE RelayInv'
  <1>1. TypeOK'
    BY DEF RelayInv, TypeOK, Similarity, StatusOf, Done, relayVars, Moods
  <1>2. AloneInv'
    <2> SUFFICES ASSUME NEW w \in Voices, own'[w] # "blank"
                 PROVE  FALSE
      BY DEF AloneInv
    <2>1. w # v /\ own[w] # "blank"
      BY DEF RelayInv, TypeOK, Similarity, Done
    <2>2. Others(w) = {}
      BY <2>1 DEF RelayInv, AloneInv
    <2>3. QED
      BY <2>1, <2>2 DEF Others, Similarity
  <1>3. QED
    BY <1>1, <1>2, RelaySame DEF RelayInv, Similarity

-----------------------------------------------------------------------------
(* The inductive invariant holds in every reachable state of the handler.  *)
THEOREM RelayInvariant == Spec => []RelayInv
  <1>1. RelayInv /\ [Next]_vars => RelayInv'
    <2> SUFFICES ASSUME RelayInv, [Next]_vars PROVE RelayInv'
      OBVIOUS
    <2>1. CASE UNCHANGED vars
      <3>1. TypeOK'
        BY <2>1 DEF RelayInv, TypeOK, vars, relayVars, voiceVars
      <3>2. QED
        BY <2>1, <3>1, RelaySame, VoiceSame DEF RelayInv, vars
    <2>2. CASE Next
      BY <2>2, TickKept, MotherKept, ListenKept, BabyVoiceKept, ToWavKept, SimilarityKept DEF Next
    <2>3. QED
      BY <2>1, <2>2
  <1>2. QED
    BY InitRelay, <1>1, PTL DEF Spec

(* Type correctness of the handler and the requests in progress.           *)
THEOREM RelayTypeCorrect == Spec => []TypeOK
  <1>1. RelayInv => TypeOK
    BY DEF RelayInv
  <1>2. QED
    BY RelayInvariant, <1>1, PTL

(* An instruction stored while nobody asks stays until it is handed out.   *)
THEOREM NeverReplaced == Spec => []InstructionKept
  <1>1. RelayInv => InstructionKept
    BY DEF RelayInv, KeptInv, InstructionKept
  <1>2. QED
    BY RelayInvariant, <1>1, PTL

(* generate_json_result() hands out a message of the parent once.          *)
THEOREM HeardOnce == Spec => []MessageOnce
  <1>1. RelayInv => MessageOnce
    <2> SUFFICES ASSUME RelayInv, NEW l \in Listeners, lpc[l] = "answer",
                        \A k \in Listeners \ {l} : lpc[k] = "idle"
                 PROVE  motherAudio \notin heard
      BY DEF MessageOnce
    <2>1. \A k \in Listeners : lpc[k] # "clearAudio"
      OBVIOUS
    <2>2. QED
      BY <2>1 DEF RelayInv, OnceInv
  <1>2. QED
    BY RelayInvariant, <1>1, PTL

(* A recording that was served alone sets babyStatus to what it holds.     *)
THEOREM OwnVoice == Spec => StatusOfVoice
  <1>1. ASSUME RelayInv, Next, NEW v \in Voices,
               vpc[v] = "sim", vpc'[v] = "idle", own[v] # "blank"
        PROVE  babyStatus' = StatusOf(own[v])
    <2>1. PICK w \in Voices : ToWav(w) \/ Similarity(w) \/ \E m \in Moods : BabyVoice(w, m)
      BY <1>1 DEF Next, Tick, MotherSend, SetAudio, SetCommand, BabyListen, Listen, TestCommand,
                  TestStatus, Play, Pause, Answer, ClearAudio, ClearCommand, voiceVars
    <2>2. w = v /\ Similarity(v)
      <3>1. Others(v) = {} /\ wav = own[v]
        BY <1>1 DEF RelayInv, AloneInv
      <3>2. CASE ToWav(w)
        BY <3>1, <3>2, <1>1 DEF ToWav, Others
      <3>3. CASE \E m \in Moods : BabyVoice(w, m)
        BY <3>3, <1>1 DEF BabyVoice, RelayInv, TypeOK
      <3>4. CASE Similarity(w)
        BY <3>1, <3>4 DEF Similarity, Others
      <3>5. QED
        BY <2>1, <3>2, <3>3, <3>4
    <2>3. Others(v) = {} /\ wav = own[v] /\ own[v] \in Moods
      BY <1>1 DEF RelayInv, TypeOK, AloneInv
    <2>4. QED
      BY <2>2, <2>3 DEF Similarity, StatusOf, Moods
  <1>2. RelayInv /\ [Next]_vars => [\A v \in Voices :
            vpc[v] = "sim" /\ vpc'[v] = "idle" /\ own[v] # "blank" => babyStatus' = StatusOf(own[v])]_vars
    BY <1>1
  <1>3. QED
    BY RelayInvariant, <1>2, PTL DEF Spec, StatusOfVoice
=============================================================================
