\* Two recordings and two instructions of the parents at a time, one request for an instruction at a time.
SPECIFICATION FairSpec
CONSTANTS
    Listeners = {l1}
    Voices = {v1, v2}
    Parents = {p1, p2}
    Instructions = {"3"}
    Period = 1
    MaxSends = 2
INVARIANT
    InstructionKept
    MessageOnce
PROPERTY
    StatusOfVoice
    AwakeBabyGetsPlay
