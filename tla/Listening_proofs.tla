-------------------------- MODULE Listening_proofs --------------------------
(***************************************************************************)
(* Proofs about the player and the mixer.  The player, for any song, ring, *)
(* word, chunks, loops and number of starts: a quantum that sounds is what *)
(* the plan says, what is fetched fits and the end is the end.  The mixer, *)
(* for any strips, levels, stored mixes and engines.                       *)
(***************************************************************************)
EXTENDS Listening, SequenceTheorems, WellFoundedInduction, TLAPS

USE DEF mainVars, loopVars, portVars, sharedVars, audioVars, playerVars

-----------------------------------------------------------------------------
(* Words and slots *)

LEMMA DivMod ==
  ASSUME NEW n \in Nat \ {0}, NEW x \in Int
  PROVE  x % n \in 0..n - 1 /\ x \div n \in Int /\ x = n * (x \div n) + (x % n)
  OBVIOUS

LEMMA NoMultiple ==
  ASSUME NEW n \in Nat \ {0}, NEW p \in Int, NEW q \in Int, NEW d \in Int,
         -n < d, d < n, n * p = n * q + d
  PROVE  d = 0
<1>1. n * (p - q) = d
  OBVIOUS
<1>2. CASE p - q >= 1
  <2>1. n * (p - q) >= n
    BY <1>2
  <2> QED
    BY <1>1, <2>1
<1>3. CASE p - q <= -1
  <2>1. n * (p - q) <= -n
    BY <1>3
  <2> QED
    BY <1>1, <2>1
<1>4. CASE p = q
  BY <1>4, <1>1
<1> QED
  BY <1>2, <1>3, <1>4

\* The remainder is the one number in its range at a multiple's distance.
LEMMA RemainderIs ==
  ASSUME NEW n \in Nat \ {0}, NEW x \in Int, NEW q \in Int, NEW r \in 0..n - 1, x = n * q + r
  PROVE  x % n = r
<1>1. PICK v \in Int, t \in 0..n - 1 : x = n * v + t /\ t = x % n
  BY DivMod
<1>2. n * v = n * q + (r - t)
  BY <1>1
<1>3. r - t = 0
  BY <1>2, NoMultiple
<1>4. r = t
  BY <1>3
<1> QED
  BY <1>1, <1>4, Zenon

LEMMA Shifted ==
  ASSUME NEW n \in Nat \ {0}, NEW x \in Int, NEW q \in Int
  PROVE  (x + n * q) % n = x % n
<1>1. PICK u \in Int, r \in 0..n - 1 : x = n * u + r /\ r = x % n
  BY DivMod
<1>2. x + n * q \in Int /\ x + n * q = n * (u + q) + r /\ u + q \in Int
  BY <1>1
<1>3. (x + n * q) % n = r
  BY <1>2, RemainderIs
<1> QED
  BY <1>1, <1>3

LEMMA Small ==
  ASSUME NEW n \in Nat \ {0}, NEW x \in 0..n - 1
  PROVE  x % n = x
  OBVIOUS

LEMMA OneBack ==
  ASSUME NEW n \in Nat \ {0}, NEW d \in (-n)..(-1)
  PROVE  d % n = d + n
<1>1. PICK q \in Int : q = -1
  OBVIOUS
<1>2. d = n * q + (d + n) /\ d + n \in 0..n - 1
  BY <1>1
<1> QED
  BY <1>2, RemainderIs

Words == (-WordHalf)..(WordHalf - 1)

LEMMA Sizes == WordHalf \in Nat /\ RingFrames \in Nat \ {0} /\ RingFrames < WordHalf /\ 2 * WordHalf \in Nat \ {0}
  BY PlayPlanAssumption

LEMMA WordIs ==
  ASSUME NEW x \in Int
  PROVE  Word(x) \in Words /\ \E q \in Int : Word(x) = x + 2 * WordHalf * q
<1>1. PICK v \in Int, t \in 0..2 * WordHalf - 1 :
        x + WordHalf = 2 * WordHalf * v + t /\ t = (x + WordHalf) % (2 * WordHalf)
  <2>1. x + WordHalf \in Int /\ 2 * WordHalf \in Nat \ {0}
    BY Sizes
  <2> QED
    BY <2>1, DivMod
<1>2. Word(x) = t - WordHalf
  BY <1>1 DEF Word
<1>3. t - WordHalf = x + 2 * WordHalf * (-v) /\ -v \in Int
  BY <1>1, Sizes
<1> QED
  BY <1>2, <1>3, Sizes DEF Words

\* Of the numbers that a word may stand for the word is the small one.
LEMMA WordOf ==
  ASSUME NEW x \in Int, NEW q \in Int, NEW y \in Words, y = x + 2 * WordHalf * q
  PROVE  Word(x) = y
<1>1. y + WordHalf \in 0..2 * WordHalf - 1 /\ x + WordHalf \in Int /\ 2 * WordHalf \in Nat \ {0}
  BY Sizes DEF Words
<1>2. x + WordHalf = 2 * WordHalf * (-q) + (y + WordHalf) /\ -q \in Int
  BY Sizes DEF Words
<1>3. (x + WordHalf) % (2 * WordHalf) = y + WordHalf
  BY <1>1, <1>2, RemainderIs
<1> QED
  BY <1>3, Sizes DEF Word, Words

LEMMA WordSame == ASSUME NEW x \in Words  PROVE  Word(x) = x
<1>1. x \in Int /\ x = x + 2 * WordHalf * 0
  BY Sizes DEF Words
<1> QED
  BY <1>1, WordOf

LEMMA WordDistance ==
  ASSUME NEW a \in Int, NEW b \in Int, a - b \in Words
  PROVE  Word(Word(a) - Word(b)) = a - b
<1>1. PICK p \in Int, q \in Int : /\ Word(a) = a + 2 * WordHalf * p /\ Word(b) = b + 2 * WordHalf * q
                                  /\ Word(a) \in Int /\ Word(b) \in Int
  <2>1. /\ Word(a) \in Words /\ \E p \in Int : Word(a) = a + 2 * WordHalf * p
        /\ Word(b) \in Words /\ \E q \in Int : Word(b) = b + 2 * WordHalf * q
    BY WordIs, Zenon
  <2> QED
    BY <2>1, Sizes DEF Words
<1>2. PICK x \in Int, r \in Int : x = Word(a) - Word(b) /\ r = q - p
  BY <1>1
<1>3. a - b = x + 2 * WordHalf * r
  BY <1>1, <1>2, Sizes
<1>4. Word(x) = a - b
  BY <1>3, WordOf
<1> QED
  BY <1>2, <1>4, Zenon

LEMMA WordPlus ==
  ASSUME NEW a \in Int, NEW b \in Int
  PROVE  Word(Word(a) + b) = Word(a + b)
<1>1. PICK p \in Int : Word(a) = a + 2 * WordHalf * p /\ Word(a) \in Int
  <2>1. Word(a) \in Words /\ \E p \in Int : Word(a) = a + 2 * WordHalf * p
    BY WordIs, Zenon
  <2> QED
    BY <2>1, Sizes DEF Words
<1>2. PICK q \in Int : Word(a + b) = a + b + 2 * WordHalf * q /\ Word(a + b) \in Words
  BY WordIs
<1>3. PICK x \in Int, r \in Int, y \in Words : x = Word(a) + b /\ r = q - p /\ y = Word(a + b)
  BY <1>1, <1>2
<1>4. y = x + 2 * WordHalf * r
  BY <1>1, <1>2, <1>3, Sizes
<1>5. Word(x) = y
  BY <1>4, WordOf
<1> QED
  BY <1>3, <1>5, Zenon

LEMMA SlotIn == ASSUME NEW p \in Int  PROVE  Slot(p) \in 0..RingFrames - 1
  BY Sizes, DivMod DEF Slot

\* A position and its word have one slot.
LEMMA SlotOfWord ==
  ASSUME NEW a \in Int, NEW k \in Int
  PROVE  Slot(Word(a) + k) = Slot(a + k)
<1>1. PICK q \in Int : Word(a) = a + 2 * WordHalf * q
  BY WordIs
<1>2. PICK m \in Int : 2 * WordHalf = RingFrames * m
  <2>1. (2 * WordHalf) % RingFrames = 0
    BY PlayPlanAssumption
  <2> QED
    BY <2>1, Sizes, DivMod
<1>3. PICK r \in Int : 2 * WordHalf * q = RingFrames * r
  <2>1. 2 * WordHalf * q = RingFrames * (m * q) /\ m * q \in Int
    BY <1>2, Sizes
  <2> QED
    BY <2>1
<1>4. PICK x \in Int : x = a + k
  OBVIOUS
<1>5. Word(a) + k = x + RingFrames * r
  BY <1>1, <1>3, <1>4, Sizes
<1>6. (x + RingFrames * r) % RingFrames = x % RingFrames
  BY Shifted, Sizes
<1> QED
  BY <1>4, <1>5, <1>6, Zenon DEF Slot

\* How far apart two slots are, going round.
LEMMA SlotDistance ==
  ASSUME NEW a \in Int, NEW b \in Int
  PROVE  (Slot(a) - Slot(b)) % RingFrames = (a - b) % RingFrames
<1>1. PICK u \in Int, v \in Int : a = RingFrames * u + Slot(a) /\ b = RingFrames * v + Slot(b)
  BY DivMod, Sizes DEF Slot
<1>2. Slot(a) \in Int /\ Slot(b) \in Int
  BY SlotIn
<1>3. PICK x \in Int, r \in Int : x = Slot(a) - Slot(b) /\ r = u - v
  BY <1>2
<1>4. a - b = x + RingFrames * r
  BY <1>1, <1>2, <1>3, Sizes
<1>5. (x + RingFrames * r) % RingFrames = x % RingFrames
  BY Shifted, Sizes
<1> QED
  BY <1>3, <1>4, <1>5, Zenon

-----------------------------------------------------------------------------
(* Plans *)

IsRange(loop) == loop.start \in 0..Total /\ loop.end \in 0..Total /\ loop.start < loop.end

IsPlan(p) ==
  /\ p.start \in 0..Total /\ p.prefix \in 0..Total /\ p.total = Total
  /\ \/ p.loop = NoLoop /\ p.prefix = Total - p.start /\ p.length = p.prefix
     \/ IsRange(p.loop) /\ p.prefix = p.loop.end - p.start /\ p.length = Endless

Fetches == {NoChunk, Busy} \cup [song : Nat, frames : 1..ChunkFrames]
Streamers == [on : BOOLEAN, pos : Nat, first : BOOLEAN, fetch : Fetches, eof : BOOLEAN]
ControlWords == [state : {"stopped", "priming", "playing"}, read : Words,
                 eof : {Endless} \cup 0..Total, ended : BOOLEAN]

\* What the ring rg of a streamer st holds, and what is fetched for it, is what
\* the plan p says of the frames from the consumed ones c on.
Fed(p, c, wr, rg, st) ==
  /\ st.on
  /\ wr = Word(st.pos) /\ c <= st.pos /\ st.pos <= c + RingFrames
  /\ \A i \in c..st.pos - 1 : rg[Slot(i)] = SongFrameAt(p, i)
  /\ st.fetch \notin {NoChunk, Busy} =>
       /\ st.pos + st.fetch.frames <= c + RingFrames
       /\ \A k \in 0..st.fetch.frames - 1 : st.fetch.song + k = SongFrameAt(p, st.pos + k)

\* A stream that was flushed and acknowledged: the words agree with the plan, a
\* quantum has its frames, and the end is announced at the end.
Streams(p, c, wd, au, wr, rg, str) ==
  /\ IsPlan(p) /\ wd.eof = p.length /\ wd.read = Word(c)
  /\ p.length # Endless => c <= p.length
  /\ wd.ended \/ au = Ending => p.length # Endless /\ c = p.length
  /\ au \notin {Silent, Ending} =>
       /\ au.read = wd.read
       /\ p.length # Endless => c + au.need <= p.length
       /\ \A s \in Stems : c + au.need <= str[s].pos
  /\ \A s \in Stems : Fed(p, c, wr[s], rg[s], str[s])

Flowing == pendingFlush = None /\ IsPlaying

\* The flushes in the two ports: the ones that the worklet has seen came first,
\* each is of its own start, and one whose timer runs is not among them.
InOrder ==
  /\ toMain \in Seq(1..generation) /\ toWorklet \in Seq(1..generation)
  /\ \A i, j \in 1..Len(toMain) : i < j => toMain[i] < toMain[j]
  /\ \A i, j \in 1..Len(toWorklet) : i < j => toWorklet[i] < toWorklet[j]
  /\ \A i \in 1..Len(toMain), j \in 1..Len(toWorklet) : toMain[i] < toWorklet[j]
  /\ \A i \in 1..Len(toMain) : toMain[i] \notin timers
  /\ \A i \in 1..Len(toWorklet) : toWorklet[i] \notin timers

MainTypes ==
  /\ state \in {"ready", "priming", "playing", "stopped", "ended", "error"}
  /\ generation \in Nat /\ pendingFlush \in 0..MaxStarts /\ anchor \in 0..Total
  /\ timers \subseteq 1..MaxStarts /\ timers \subseteq 1..generation /\ interval \in BOOLEAN
  /\ ctx \in {"running", "suspended", "resuming"} /\ faults \in 0..MaxFaults

LoopTypes ==
  /\ region = NoLoop \/ IsRange(region)
  /\ loopOn \in BOOLEAN /\ (loopOn => IsRange(region))

PlanTypes == plan = NoPlan \/ IsPlan(plan)

StreamTypes ==
  /\ stream \in [Stems -> Streamers]
  /\ word \in ControlWords /\ written \in [Stems -> Words]
  /\ ring \in [Stems -> [0..RingFrames - 1 -> Int]]

AudioTypes ==
  /\ audio \in [read : Words, need : Int] /\ (audio \notin {Silent, Ending} => audio.need >= 1)
  /\ consumed \in Nat

PlayerTypes == MainTypes /\ LoopTypes /\ PlanTypes /\ StreamTypes /\ AudioTypes

\* What the phases of a start have to do with each other.
Phases ==
  /\ word.state = IF Flowing THEN state ELSE "stopped"
  /\ interval => Flowing
  /\ pendingFlush # None => pendingFlush = generation /\ state = "priming"
  /\ ~Flowing => \A s \in Stems : ~stream[s].on /\ stream[s].fetch = NoChunk
  /\ pendingFlush # None /\ (\E i \in 1..Len(toMain) : toMain[i] = pendingFlush) =>
       audio = Silent /\ word.read = 0 /\ consumed = 0

\* The inductive invariant of the player.
PlayerIInv ==
  /\ PlayerTypes /\ InOrder /\ Phases
  /\ Flowing => toWorklet = <<>> /\ Streams(plan, consumed, word, audio, written, ring, stream)

LEMMA Songs == Total \in Nat \ {0} /\ Total < WordHalf /\ MinLoop \in Nat \ {0}
  BY PlayerAssumption, PlayPlanAssumption

LEMMA ClampIn == ASSUME NEW x \in Int  PROVE  Clamp(x, Total) \in 0..Total
  BY Songs DEF Clamp, Greatest, Least

LEMMA ValidLoopIs ==
  ASSUME NEW loop, loop.start \in Int, loop.end \in Int, ValidLoop(loop, Total) # NoLoop
  PROVE  IsRange(ValidLoop(loop, Total))
<1> DEFINE start == Clamp(loop.start, Total)
           end == Clamp(loop.end, Total)
<1>1. start \in 0..Total /\ end \in 0..Total
  BY ClampIn
<1>2. ~(end - start < MinLoop) /\ ValidLoop(loop, Total) = [start |-> start, end |-> end]
  BY DEF ValidLoop
<1> QED
  BY <1>1, <1>2, Songs DEF IsRange

LEMMA NewPlanIs ==
  ASSUME NEW frame \in Int, NEW loop, loop.start \in Int, loop.end \in Int
  PROVE  IsPlan(NewPlan(frame, Total, loop))
<1> DEFINE start == Clamp(frame, Total)
           valid == ValidLoop(loop, Total)
<1>1. start \in 0..Total
  BY ClampIn
<1>2. CASE valid # NoLoop /\ start < valid.end
  <2>1. IsRange(valid)
    BY <1>2, ValidLoopIs
  <2>2. NewPlan(frame, Total, loop) =
          [start |-> start, loop |-> valid, prefix |-> valid.end - start,
           length |-> Endless, total |-> Total]
    BY <1>2 DEF NewPlan
  <2> QED
    BY <1>1, <1>2, <2>1, <2>2, Songs DEF IsPlan, IsRange
<1>3. CASE ~(valid # NoLoop /\ start < valid.end)
  <2>1. NewPlan(frame, Total, loop) =
          [start |-> start, loop |-> NoLoop, prefix |-> Total - start,
           length |-> Total - start, total |-> Total]
    BY <1>3 DEF NewPlan
  <2> QED
    BY <1>1, <2>1, Songs DEF IsPlan
<1> QED
  BY <1>2, <1>3

\* A loop has frames and its offsets lie in it.
LEMMA LoopOffset ==
  ASSUME NEW p, IsRange(p.loop), NEW x \in Int
  PROVE  /\ LoopFrames(p) \in Nat \ {0} /\ LoopFrames(p) <= Total - p.loop.start
         /\ x % LoopFrames(p) \in 0..LoopFrames(p) - 1
<1>1. LoopFrames(p) \in Nat \ {0} /\ LoopFrames(p) <= Total - p.loop.start
  BY Songs DEF IsRange, LoopFrames
<1> QED
  BY <1>1, DivMod

LEMMA RangeIsLoop == ASSUME NEW p, IsRange(p.loop)  PROVE  p.loop # NoLoop
  BY DEF IsRange, NoLoop

LEMMA SongFrameIn ==
  ASSUME NEW p, IsPlan(p), NEW x \in Int
  PROVE  SongFrameAt(p, x) \in 0..Total
<1> DEFINE s == Greatest(0, x)
<1>1. s \in Nat
  BY DEF Greatest
<1>2. CASE s < p.prefix
  <2>1. SongFrameAt(p, x) = p.start + s
    BY <1>2 DEF SongFrameAt
  <2> QED
    BY <1>1, <1>2, <2>1, Songs DEF IsPlan, IsRange
<1>3. CASE ~(s < p.prefix) /\ p.loop = NoLoop
  <2>1. SongFrameAt(p, x) = p.total
    BY <1>3 DEF SongFrameAt
  <2> QED
    BY <2>1, Songs DEF IsPlan
<1>4. CASE ~(s < p.prefix) /\ p.loop # NoLoop
  <2>1. SongFrameAt(p, x) = p.loop.start + ((s - p.prefix) % LoopFrames(p))
    BY <1>4 DEF SongFrameAt
  <2>2. IsRange(p.loop) /\ p.prefix \in Int
    BY <1>4 DEF IsPlan
  <2>3. s - p.prefix \in Int
    BY <1>1, <2>2
  <2>4. LoopFrames(p) \in Nat \ {0} /\ LoopFrames(p) <= Total - p.loop.start
        /\ ((s - p.prefix) % LoopFrames(p)) \in 0..LoopFrames(p) - 1
    BY <2>2, <2>3, LoopOffset
  <2>5. p.loop.start \in 0..Total
    BY <2>2 DEF IsRange
  <2>6. PICK f \in Nat \ {0} : \E o \in 0..f - 1 :
          f = LoopFrames(p) /\ o = (s - p.prefix) % LoopFrames(p)
    BY <2>4
  <2> QED
    BY <2>1, <2>4, <2>5, <2>6, Songs
<1> QED
  BY <1>2, <1>3, <1>4

LEMMA SongFrameInLoop ==
  ASSUME NEW p, IsRange(p.loop), NEW x \in Nat, ~(x < p.prefix)
  PROVE  SongFrameAt(p, x) = p.loop.start + ((x - p.prefix) % LoopFrames(p))
<1>1. Greatest(0, x) = x
  BY DEF Greatest
<1> QED
  BY <1>1, RangeIsLoop DEF SongFrameAt

\* The next chunk is of frames that follow each other in the stream and in the
\* song, and there is one unless the stream is at its end.
LEMMA ChunkIs ==
  ASSUME NEW p, IsPlan(p), NEW pos \in Nat, NEW max \in Nat \ {0}
  PROVE  \/ NextChunk(p, pos, max) = NoChunk /\ p.length # Endless /\ pos >= p.length
         \/ /\ NextChunk(p, pos, max) \in [song : Nat, frames : 1..max]
            /\ \A k \in 0..NextChunk(p, pos, max).frames - 1 :
                 NextChunk(p, pos, max).song + k = SongFrameAt(p, pos + k)
<1>1. CASE p.length # Endless /\ pos >= p.length
  BY <1>1 DEF NextChunk
<1>2. CASE ~(p.length # Endless /\ pos >= p.length) /\ pos < p.prefix
  <2>1. NextChunk(p, pos, max) = [song |-> p.start + pos, frames |-> Least(max, p.prefix - pos)]
    BY <1>2 DEF NextChunk
  <2>2. p.start \in Nat /\ p.prefix \in Nat
    BY Songs DEF IsPlan
  <2>3. Least(max, p.prefix - pos) \in 1..max /\ Least(max, p.prefix - pos) <= p.prefix - pos
    BY <1>2, <2>2 DEF Least
  <2>4. ASSUME NEW k \in 0..Least(max, p.prefix - pos) - 1
        PROVE  p.start + pos + k = SongFrameAt(p, pos + k)
    <3>1. Greatest(0, pos + k) = pos + k /\ pos + k < p.prefix
      BY <2>2, <2>3 DEF Greatest
    <3> QED
      BY <3>1, <2>2 DEF SongFrameAt
  <2> QED
    BY <2>1, <2>2, <2>3, <2>4
<1>3. CASE ~(p.length # Endless /\ pos >= p.length) /\ ~(pos < p.prefix)
  <2>1. p.length = Endless /\ IsRange(p.loop) /\ p.prefix \in Nat
    BY <1>3, Songs DEF IsPlan, Endless
  <2> DEFINE o == (pos - p.prefix) % LoopFrames(p)
  <2>2. LoopFrames(p) \in Nat \ {0} /\ o \in 0..LoopFrames(p) - 1 /\ pos - p.prefix \in Int
    BY <2>1, LoopOffset
  <2>3. NextChunk(p, pos, max) = [song |-> p.loop.start + o, frames |-> Least(max, LoopFrames(p) - o)]
    BY <1>3 DEF NextChunk
  <2> HIDE DEF o
  <2>4. Least(max, LoopFrames(p) - o) \in 1..max /\ Least(max, LoopFrames(p) - o) <= LoopFrames(p) - o
    BY <2>2 DEF Least
  <2>5. p.loop.start \in Nat
    BY <2>1, Songs DEF IsRange
  <2>6. ASSUME NEW k \in 0..Least(max, LoopFrames(p) - o) - 1
        PROVE  p.loop.start + o + k = SongFrameAt(p, pos + k)
    <3>1. pos + k \in Nat /\ ~(pos + k < p.prefix)
      BY <1>3, <2>1, <2>4, <2>2
    <3>2. SongFrameAt(p, pos + k) = p.loop.start + ((pos + k - p.prefix) % LoopFrames(p))
      BY <3>1, <2>1, SongFrameInLoop
    <3>3. PICK q \in Int : pos - p.prefix = LoopFrames(p) * q + o
      BY <2>2, DivMod DEF o
    <3>4. pos + k - p.prefix \in Int /\ pos + k - p.prefix = LoopFrames(p) * q + (o + k)
          /\ o + k \in 0..LoopFrames(p) - 1
      BY <3>3, <2>1, <2>2, <2>4
    <3>5. (pos + k - p.prefix) % LoopFrames(p) = o + k
      BY <3>4, <2>2, RemainderIs
    <3> QED
      BY <3>2, <3>5, <2>2, <2>5
  <2> QED
    BY <2>2, <2>3, <2>4, <2>5, <2>6
<1> QED
  BY <1>1, <1>2, <1>3

-----------------------------------------------------------------------------
(* Streamers *)

LEMMA BufferedIs ==
  ASSUME NEW pos \in Nat, NEW c \in Nat, c <= pos, pos <= c + RingFrames
  PROVE  Word(Word(pos) - Word(c)) = pos - c
<1>1. pos - c \in Words
  BY Sizes DEF Words
<1> QED
  BY <1>1, WordDistance

LEMMA ChunkSizes == FirstChunk \in Nat \ {0} /\ ChunkFrames \in Nat \ {0} /\ FirstChunk <= ChunkFrames
  BY PlayerAssumption, PlayPlanAssumption

\* A tick of a streamer asks only for what fits, and for what the plan says.
LEMMA TickedFed ==
  ASSUME NEW p, IsPlan(p), NEW c \in Nat, NEW wd, wd.read = Word(c), NEW wr, NEW rg,
         NEW str, NEW s \in Stems, str[s] \in Streamers, Fed(p, c, wr[s], rg, str[s])
  PROVE  /\ Ticked(p, wd, wr, str, s) \in Streamers
         /\ Ticked(p, wd, wr, str, s).pos = str[s].pos
         /\ Fed(p, c, wr[s], rg, Ticked(p, wd, wr, str, s))
<1> DEFINE st == str[s]
           max == IF st.first THEN FirstChunk ELSE ChunkFrames
           chunk == NextChunk(p, st.pos, max)
           new == Ticked(p, wd, wr, str, s)
<1>1. st.pos \in Nat /\ max \in 1..ChunkFrames /\ max \in Nat \ {0} /\ st \in Streamers
  BY ChunkSizes DEF Streamers
<1>2. new = st \/ new = [st EXCEPT !.eof = TRUE]
      \/ /\ new = [st EXCEPT !.fetch = chunk] /\ chunk # NoChunk
         /\ ShouldFetch(Buffered(wd, wr, s), chunk.frames, Prefetch)
  BY DEF Ticked
<1>3. CASE new = st \/ new = [st EXCEPT !.eof = TRUE]
  BY <1>1, <1>3 DEF Streamers, Fed
<1>4. CASE /\ new = [st EXCEPT !.fetch = chunk] /\ chunk # NoChunk
           /\ ShouldFetch(Buffered(wd, wr, s), chunk.frames, Prefetch)
  <2>1. /\ chunk \in [song : Nat, frames : 1..max]
        /\ \A k \in 0..chunk.frames - 1 : chunk.song + k = SongFrameAt(p, st.pos + k)
    BY <1>1, <1>4, ChunkIs
  <2>2. Buffered(wd, wr, s) = st.pos - c
    BY <1>1, BufferedIs DEF Fed, Buffered
  <2> HIDE DEF chunk, max
  <2>3. chunk.frames \in 1..ChunkFrames /\ chunk \in Fetches
    BY <1>1, <2>1, ChunkSizes DEF Fetches
  <2>4. st.pos + chunk.frames <= c + RingFrames
    BY <1>1, <1>4, <2>2, <2>3, Sizes, ChunkSizes DEF ShouldFetch
  <2>5. new \in Streamers /\ new.pos = st.pos /\ new.on = st.on /\ new.fetch = chunk
    BY <1>1, <1>4, <2>3 DEF Streamers
  <2> QED
    BY <2>1, <2>4, <2>5, Zenon DEF Fed
<1> QED
  BY <1>2, <1>3, <1>4

LEMMA AbortedIs ==
  ASSUME NEW st \in Streamers
  PROVE  Aborted(st) \in Streamers /\ ~Aborted(st).on /\ Aborted(st).fetch = NoChunk
BY DEF Aborted, Streamers, Fetches

\* The tick of the engine: the stream goes on, or has come to its end.
LEMMA EngineTicks ==
  ASSUME NEW p, consumed \in Nat, generation \in Nat, state \in {"priming", "playing"},
         NEW wd \in ControlWords, wd.state = state, NEW wr, NEW rg, NEW str \in [Stems -> Streamers],
         Streams(p, consumed, wd, audio, wr, rg, str), EngineTick(p, wd, wr, str)
  PROVE  /\ word' \in ControlWords /\ stream' \in [Stems -> Streamers]
         /\ \/ /\ state' \in {"priming", "playing"} /\ word'.state = state'
               /\ generation' = generation /\ anchor' = anchor
               /\ Streams(p, consumed, word', audio, wr, rg, stream')
            \/ /\ state' = "ended" /\ word'.state = "stopped" /\ wd.ended
               /\ generation' = generation + 1 /\ anchor' = Total
               /\ \A s \in Stems : ~stream'[s].on /\ stream'[s].fetch = NoChunk
<1> DEFINE ticked == [s \in Stems |-> Ticked(p, wd, wr, str, s)]
<1>1. \A s \in Stems : /\ ticked[s] \in Streamers /\ ticked[s].pos = str[s].pos
                       /\ Fed(p, consumed, wr[s], rg[s], ticked[s])
  BY TickedFed DEF Streams
<1>2. ticked \in [Stems -> Streamers]
  BY <1>1
<1> HIDE DEF ticked
<1>3. PICK starts \in BOOLEAN, ends \in BOOLEAN :
        /\ ends => wd.ended
        /\ starts => state = "priming"
        /\ ends => state = "playing" \/ starts
        /\ state' = IF ends THEN "ended" ELSE IF starts THEN "playing" ELSE state
        /\ word' = [wd EXCEPT !.state = IF ends THEN "stopped" ELSE IF starts THEN "playing" ELSE @]
        /\ stream' = IF ends THEN [s \in Stems |-> Aborted(ticked[s])] ELSE ticked
        /\ generation' = IF ends THEN generation + 1 ELSE generation
        /\ anchor' = IF ends THEN Total ELSE anchor
  BY Zenon DEF EngineTick, EndHeard, ticked
<1>4. CASE ends
  <2>1. stream' = [s \in Stems |-> Aborted(ticked[s])]
    BY <1>3, <1>4
  <2>2. /\ \A s \in Stems : /\ stream'[s] \in Streamers
                            /\ ~stream'[s].on /\ stream'[s].fetch = NoChunk
        /\ stream' \in [Stems -> Streamers]
    BY <1>1, <2>1, AbortedIs
  <2>3. word' = [wd EXCEPT !.state = "stopped"]
    BY <1>3, <1>4
  <2>4. word' \in ControlWords /\ word'.state = "stopped"
    BY <2>3 DEF ControlWords
  <2> QED
    BY <1>3, <1>4, <2>2, <2>4
<1>5. CASE ~ends
  <2>1. stream' = ticked /\ state' \in {"priming", "playing"} /\ word' = [wd EXCEPT !.state = state']
        /\ generation' = generation /\ anchor' = anchor
    BY <1>3, <1>5
  <2>2. word' \in ControlWords /\ word'.state = state' /\ word'.read = wd.read
        /\ word'.eof = wd.eof /\ word'.ended = wd.ended
    BY <2>1 DEF ControlWords
  <2>3. Streams(p, consumed, word', audio, wr, rg, ticked)
    BY <1>1, <2>2, Zenon DEF Streams
  <2> QED
    BY <1>2, <2>1, <2>2, <2>3
<1> QED
  BY <1>4, <1>5

-----------------------------------------------------------------------------
(* Starts and ends of a stream *)

LEMMA Limits == MaxStarts \in Nat /\ MaxFaults \in Nat
  BY PlayerAssumption, FaultsAssumption

\* The ports keep their order while nothing is sent, whatever starts or ends.
LEMMA PortsRest ==
  ASSUME InOrder, generation \in Nat, UNCHANGED portVars,
         generation' \in {generation, generation + 1}, timers' \subseteq timers \cup {generation + 1}
  PROVE  InOrder'
<1>1. toMain' \in Seq(1..generation') /\ toWorklet' \in Seq(1..generation')
  <2>1. 1..generation \subseteq 1..generation'
    OBVIOUS
  <2>2. Seq(1..generation) \subseteq Seq(1..generation')
    BY <2>1
  <2> QED
    BY <2>2 DEF InOrder
<1>2. /\ \A i \in 1..Len(toMain) : toMain[i] \in 1..generation
      /\ \A i \in 1..Len(toWorklet) : toWorklet[i] \in 1..generation
  BY ElementOfSeq, Zenon DEF InOrder
<1> QED
  BY <1>1, <1>2 DEF InOrder

LEMMA CurrentFrameIn == ASSUME PlayerTypes  PROVE  CurrentFrame \in 0..Total
<1>1. word.read \in Int
  BY Sizes DEF PlayerTypes, StreamTypes, ControlWords, Words
<1>2. CASE IsPlaying /\ plan # NoPlan
  BY <1>1, <1>2, SongFrameIn DEF PlayerTypes, PlanTypes, CurrentFrame
<1>3. CASE ~(IsPlaying /\ plan # NoPlan)
  BY <1>3 DEF PlayerTypes, MainTypes, CurrentFrame
<1> QED
  BY <1>2, <1>3

LEMMA TypesRest ==
  /\ LoopTypes /\ UNCHANGED loopVars => LoopTypes'
  /\ PlanTypes /\ UNCHANGED plan => PlanTypes'
  /\ AudioTypes /\ UNCHANGED audioVars => AudioTypes'
<1>1. LoopTypes /\ UNCHANGED loopVars => LoopTypes'
  BY DEF LoopTypes, IsRange
<1>2. PlanTypes /\ UNCHANGED plan => PlanTypes'
  BY Zenon DEF PlanTypes, IsPlan, IsRange
<1>3. AudioTypes /\ UNCHANGED audioVars => AudioTypes'
  BY DEF AudioTypes
<1> QED
  BY <1>1, <1>2, <1>3

LEMMA HaltIs ==
  ASSUME PlayerTypes, Halt
  PROVE  /\ generation' = generation + 1 /\ generation \in Nat /\ interval' = FALSE
         /\ word' \in ControlWords /\ word'.state = "stopped" /\ word'.read = word.read
         /\ stream' \in [Stems -> Streamers]
         /\ \A s \in Stems : ~stream'[s].on /\ stream'[s].fetch = NoChunk
<1>1. word' \in ControlWords /\ word'.state = "stopped" /\ word'.read = word.read
  BY DEF PlayerTypes, StreamTypes, ControlWords, Halt
<1>2. stream' = [s \in Stems |-> Aborted(stream[s])] /\ stream \in [Stems -> Streamers]
  BY DEF PlayerTypes, StreamTypes, Halt
<1>3. /\ \A s \in Stems : stream'[s] \in Streamers /\ ~stream'[s].on /\ stream'[s].fetch = NoChunk
      /\ stream' \in [Stems -> Streamers]
  BY <1>2, AbortedIs
<1> QED
  BY <1>1, <1>3 DEF PlayerTypes, MainTypes, Halt

\* A start, with its loop, leaves a player that waits for its flush.
LEMMA StartIs ==
  ASSUME PlayerIInv, NEW frame \in 0..Total, StartFrom(frame),
         region' = NoLoop \/ IsRange(region)', loopOn' \in BOOLEAN, loopOn' => IsRange(region)'
  PROVE  PlayerIInv'
<1>1. PlayerTypes /\ InOrder
  BY DEF PlayerIInv
<1>2. /\ generation < MaxStarts /\ ctx' = Resumed /\ Halt
      /\ anchor' = frame /\ state' = "priming" /\ pendingFlush' = generation + 1
      /\ timers' = timers \cup {generation + 1}
      /\ UNCHANGED <<plan, portVars, written, ring, audioVars, faults>>
  BY DEF StartFrom
<1>3. /\ generation' = generation + 1 /\ generation \in Nat /\ interval' = FALSE
      /\ word' \in ControlWords /\ word'.state = "stopped" /\ word'.read = word.read
      /\ stream' \in [Stems -> Streamers]
      /\ \A s \in Stems : ~stream'[s].on /\ stream'[s].fetch = NoChunk
  BY <1>1, <1>2, HaltIs
<1>4. InOrder'
  BY <1>1, <1>2, <1>3, PortsRest
<1>5. ctx' \in {"running", "suspended", "resuming"}
  BY <1>1, <1>2 DEF Resumed, PlayerTypes, MainTypes
<1>6. timers' \subseteq 1..MaxStarts /\ timers' \subseteq 1..generation'
      /\ pendingFlush' \in 0..MaxStarts /\ pendingFlush' # None
  BY <1>1, <1>2, <1>3, Limits DEF PlayerTypes, MainTypes, None
<1>7. PlayerTypes'
  <2>1. MainTypes'
    <3>1. /\ state' \in {"ready", "priming", "playing", "stopped", "ended", "error"}
          /\ generation' \in Nat /\ pendingFlush' \in 0..MaxStarts /\ anchor' \in 0..Total
      BY <1>1, <1>2, <1>3, <1>5, <1>6 DEF PlayerTypes, MainTypes
    <3>2. timers' \subseteq 1..MaxStarts /\ timers' \subseteq 1..generation' /\ interval' \in BOOLEAN
      BY <1>1, <1>2, <1>3, <1>5, <1>6 DEF PlayerTypes, MainTypes
    <3>3. ctx' \in {"running", "suspended", "resuming"} /\ faults' \in 0..MaxFaults
      BY <1>1, <1>2, <1>3, <1>5, <1>6 DEF PlayerTypes, MainTypes
    <3> QED
      BY <3>1, <3>2, <3>3, Zenon DEF MainTypes
  <2>2. StreamTypes'
    BY <1>1, <1>2, <1>3, <1>5, <1>6 DEF PlayerTypes, StreamTypes
  <2>3. LoopTypes' /\ PlanTypes' /\ AudioTypes'
    BY <1>1, <1>2, TypesRest DEF LoopTypes, PlayerTypes
  <2> QED
    BY <2>1, <2>2, <2>3 DEF PlayerTypes
<1>8. ~Flowing'
  BY <1>6 DEF Flowing
<1>9. ~\E i \in 1..Len(toMain') : toMain'[i] = pendingFlush'
  BY <1>1, <1>2, <1>3 DEF InOrder
<1>10. Phases'
  BY <1>2, <1>3, <1>8, <1>9 DEF Phases
<1> QED
  BY <1>4, <1>7, <1>8, <1>10 DEF PlayerIInv

\* A stream that is halted for good leaves a player at rest.
LEMMA HaltEnds ==
  ASSUME PlayerIInv, Halt, state' \in {"stopped", "error"}, pendingFlush' = None,
         anchor' \in 0..Total, ctx' \in {"running", "suspended", "resuming"}, faults' \in 0..MaxFaults,
         UNCHANGED <<plan, timers, loopVars, portVars, written, ring, audioVars>>
  PROVE  PlayerIInv'
<1>1. PlayerTypes /\ InOrder
  BY DEF PlayerIInv
<1>2. /\ generation' = generation + 1 /\ generation \in Nat /\ interval' = FALSE
      /\ word' \in ControlWords /\ word'.state = "stopped" /\ word'.read = word.read
      /\ stream' \in [Stems -> Streamers]
      /\ \A s \in Stems : ~stream'[s].on /\ stream'[s].fetch = NoChunk
  BY <1>1, HaltIs
<1>3. InOrder'
  BY <1>1, <1>2, PortsRest
<1>4. timers' \subseteq 1..generation' /\ pendingFlush' \in 0..MaxStarts
  BY <1>1, <1>2, Limits DEF PlayerTypes, MainTypes, None
<1>5. PlayerTypes'
  <2>1. MainTypes'
    <3>1. /\ state' \in {"ready", "priming", "playing", "stopped", "ended", "error"}
          /\ generation' \in Nat /\ pendingFlush' \in 0..MaxStarts /\ anchor' \in 0..Total
      BY <1>1, <1>2, <1>4 DEF PlayerTypes, MainTypes
    <3>2. timers' \subseteq 1..MaxStarts /\ timers' \subseteq 1..generation' /\ interval' \in BOOLEAN
      BY <1>1, <1>2, <1>4 DEF PlayerTypes, MainTypes
    <3>3. ctx' \in {"running", "suspended", "resuming"} /\ faults' \in 0..MaxFaults
      BY <1>1, <1>2, <1>4 DEF PlayerTypes, MainTypes
    <3> QED
      BY <3>1, <3>2, <3>3, Zenon DEF MainTypes
  <2>2. StreamTypes'
    BY <1>1, <1>2, <1>4 DEF PlayerTypes, StreamTypes
  <2>3. LoopTypes' /\ PlanTypes' /\ AudioTypes'
    BY <1>1, TypesRest DEF PlayerTypes
  <2> QED
    BY <2>1, <2>2, <2>3 DEF PlayerTypes
<1>6. ~Flowing'
  BY DEF Flowing, IsPlaying
<1>7. Phases'
  BY <1>2, <1>6 DEF Phases
<1> QED
  BY <1>3, <1>5, <1>6, <1>7 DEF PlayerIInv

\* A loop that is set and changes nothing that plays.
LEMMA IdleKeeps ==
  ASSUME PlayerIInv, Idle,
         region' = NoLoop \/ IsRange(region)', loopOn' \in BOOLEAN, loopOn' => IsRange(region)'
  PROVE  PlayerIInv'
<1>1. PlayerTypes /\ InOrder /\ Phases
      /\ (Flowing => toWorklet = <<>> /\ Streams(plan, consumed, word, audio, written, ring, stream))
  BY DEF PlayerIInv
<1>2. UNCHANGED <<state, generation, pendingFlush, anchor, plan, timers, interval, stream, ctx,
                  toWorklet, toMain, word, written, ring, audio, consumed, faults>>
  BY DEF Idle
<1>3. PlayerTypes'
  <2>1. MainTypes'
    BY <1>1, <1>2 DEF PlayerTypes, MainTypes
  <2>2. StreamTypes'
    BY <1>1, <1>2 DEF PlayerTypes, StreamTypes
  <2>3. LoopTypes' /\ PlanTypes' /\ AudioTypes'
    BY <1>1, <1>2, TypesRest DEF LoopTypes, PlayerTypes
  <2> QED
    BY <2>1, <2>2, <2>3 DEF PlayerTypes
<1>4. InOrder' /\ Phases' /\ Flowing' = Flowing
  BY <1>1, <1>2 DEF InOrder, Phases, Flowing, IsPlaying
<1>5. Streams(plan, consumed, word, audio, written, ring, stream)'
      <=> Streams(plan, consumed, word, audio, written, ring, stream)
  BY <1>2, Zenon DEF Streams, Fed, IsPlan, IsRange
<1> QED
  BY <1>1, <1>2, <1>3, <1>4, <1>5 DEF PlayerIInv

-----------------------------------------------------------------------------
(* The user *)

LEMMA SeeksIn == Seeks \subseteq 0..Total
  BY PlayerAssumption

LEMMA PlayKeeps == ASSUME PlayerIInv, Play  PROVE  PlayerIInv'
<1> DEFINE frame == IF state = "ended" \/ anchor >= Total
                    THEN (IF loopOn THEN region.start ELSE 0) ELSE anchor
<1>1. MainTypes /\ LoopTypes
  BY DEF PlayerIInv, PlayerTypes
<1>2. frame \in 0..Total
  BY <1>1, Songs DEF MainTypes, LoopTypes, IsRange
<1>3. StartFrom(frame) /\ UNCHANGED loopVars
  BY DEF Play
<1>4. region' = NoLoop \/ IsRange(region)'
  BY <1>1, <1>3, TypesRest, Zenon DEF LoopTypes
<1>5. loopOn' \in BOOLEAN /\ (loopOn' => IsRange(region)')
  BY <1>1, <1>3, TypesRest, Zenon DEF LoopTypes
<1> QED
  BY <1>2, <1>3, <1>4, <1>5, StartIs

LEMMA StopKeeps == ASSUME PlayerIInv, Stop  PROVE  PlayerIInv'
<1>1. PlayerTypes /\ MainTypes
  BY DEF PlayerIInv, PlayerTypes
<1>2. anchor' \in 0..Total
  BY <1>1, CurrentFrameIn DEF Stop
<1> QED
  BY <1>1, <1>2, HaltEnds DEF Stop, MainTypes

LEMMA SeekKeeps == ASSUME PlayerIInv, NEW frame \in Seeks, Seek(frame)  PROVE  PlayerIInv'
<1>1. PlayerTypes /\ InOrder /\ Phases /\ MainTypes /\ LoopTypes /\ frame \in 0..Total
  BY SeeksIn DEF PlayerIInv, PlayerTypes
<1>2. UNCHANGED loopVars
  BY DEF Seek
<1>3. LoopTypes'
  BY <1>1, <1>2, TypesRest
<1>4. CASE IsPlaying
  <2>1. StartFrom(frame)
    BY <1>4 DEF Seek
  <2> QED
    BY <1>1, <1>3, <2>1, StartIs DEF LoopTypes
<1>5. CASE ~IsPlaying
  <2>1. /\ anchor' = frame /\ state' = IF state = "ended" THEN "stopped" ELSE state
        /\ UNCHANGED <<generation, pendingFlush, plan, timers, interval, stream, ctx,
                       toWorklet, toMain, word, written, ring, audioVars, faults>>
    BY <1>5 DEF Seek
  <2>2. MainTypes'
    BY <1>1, <2>1 DEF MainTypes
  <2>3. StreamTypes'
    BY <1>1, <2>1 DEF StreamTypes, PlayerTypes
  <2>4. PlanTypes' /\ AudioTypes'
    BY <1>1, <2>1, TypesRest DEF PlayerTypes
  <2>5. InOrder'
    BY <1>1, <2>1 DEF InOrder
  <2>6. ~Flowing /\ ~Flowing'
    BY <1>5, <2>1 DEF Flowing, IsPlaying
  <2>7. Phases'
    BY <1>1, <1>5, <2>1, <2>6 DEF Phases, IsPlaying
  <2> QED
    BY <1>3, <2>2, <2>3, <2>4, <2>5, <2>6, <2>7 DEF PlayerIInv, PlayerTypes
<1> QED
  BY <1>4, <1>5

LEMMA ReplanKeeps ==
  ASSUME PlayerIInv, Replan,
         region' = NoLoop \/ IsRange(region)', loopOn' \in BOOLEAN, loopOn' => IsRange(region)'
  PROVE  PlayerIInv'
<1>1. PlayerTypes
  BY DEF PlayerIInv
<1>2. CASE IsPlaying
  BY <1>1, <1>2, CurrentFrameIn, StartIs DEF Replan
<1>3. CASE ~IsPlaying
  BY <1>3, IdleKeeps DEF Replan
<1> QED
  BY <1>2, <1>3

LEMMA SetLoopRegionKeeps ==
  ASSUME PlayerIInv, NEW r \in Regions, SetLoopRegion(r)
  PROVE  PlayerIInv'
<1>1. IsRange(ValidLoop(r, Total))
  BY ValidLoopIs, PlayerAssumption DEF SetLoopRegion
<1>2. region' = ValidLoop(r, Total) /\ loopOn' = loopOn /\ (Replan \/ Idle)
  BY DEF SetLoopRegion
<1>3. IsRange(region)' /\ loopOn' \in BOOLEAN
  BY <1>1, <1>2 DEF PlayerIInv, PlayerTypes, LoopTypes, IsRange
<1> QED
  BY <1>2, <1>3, ReplanKeeps, IdleKeeps

LEMMA SetLoopEnabledKeeps ==
  ASSUME PlayerIInv, NEW on \in BOOLEAN, SetLoopEnabled(on)
  PROVE  PlayerIInv'
<1>1. LoopTypes
  BY DEF PlayerIInv, PlayerTypes
<1>2. loopOn' = (on /\ region # NoLoop) /\ region' = region /\ Replan
  BY DEF SetLoopEnabled
<1>3. (region' = NoLoop \/ IsRange(region)') /\ loopOn' \in BOOLEAN /\ (loopOn' => IsRange(region)')
  BY <1>1, <1>2 DEF LoopTypes, IsRange
<1> QED
  BY <1>2, <1>3, ReplanKeeps

LEMMA ClearLoopKeeps == ASSUME PlayerIInv, ClearLoop  PROVE  PlayerIInv'
  BY ReplanKeeps DEF ClearLoop

-----------------------------------------------------------------------------
(* Flushes and ticks *)

LEMMA FlushTimerKeeps ==
  ASSUME PlayerIInv, NEW g \in timers, FlushTimer(g)
  PROVE  PlayerIInv'
<1>1. PlayerTypes /\ InOrder /\ Phases /\ MainTypes
      /\ (Flowing => toWorklet = <<>> /\ Streams(plan, consumed, word, audio, written, ring, stream))
  BY DEF PlayerIInv, PlayerTypes
<1>2. /\ timers' = timers \ {g}
      /\ toWorklet' = IF pendingFlush = g THEN Append(toWorklet, g) ELSE toWorklet
      /\ UNCHANGED <<state, generation, pendingFlush, anchor, plan, interval, loopVars, stream,
                     ctx, toMain, word, written, ring, audioVars, faults>>
  BY DEF FlushTimer
<1>3. MainTypes'
  BY <1>1, <1>2 DEF MainTypes
<1>4. StreamTypes'
  BY <1>1, <1>2 DEF PlayerTypes, StreamTypes
<1>5. LoopTypes' /\ PlanTypes' /\ AudioTypes'
  BY <1>1, <1>2, TypesRest DEF PlayerTypes
<1>6. Flowing' = Flowing /\ Phases'
  BY <1>1, <1>2 DEF Flowing, IsPlaying, Phases
<1>7. /\ \A i \in 1..Len(toMain) : toMain[i] \in 1..generation
      /\ \A i \in 1..Len(toWorklet) : toWorklet[i] \in 1..generation
      /\ generation \in Nat /\ g \in 1..generation
  BY <1>1, ElementOfSeq DEF InOrder, MainTypes
<1>8. CASE pendingFlush = g
  <2>1. generation = g /\ toWorklet' = Append(toWorklet, g)
    BY <1>1, <1>2, <1>7, <1>8 DEF Phases, None
  <2>2. /\ toWorklet' \in Seq(1..generation) /\ Len(toWorklet') = Len(toWorklet) + 1
        /\ \A i \in 1..Len(toWorklet) : toWorklet'[i] = toWorklet[i]
        /\ toWorklet'[Len(toWorklet) + 1] = g /\ Len(toWorklet) \in Nat
    BY <1>1, <1>7, <2>1 DEF InOrder
  <2>3. \A i \in 1..Len(toMain) : toMain[i] < g
    BY <1>1, <1>7, <2>1 DEF InOrder
  <2>4. \A i \in 1..Len(toWorklet) : toWorklet[i] < g
    BY <1>1, <1>7, <2>1 DEF InOrder
  <2>5. InOrder'
    <3>1. ASSUME NEW i \in 1..Len(toWorklet'), NEW j \in 1..Len(toWorklet'), i < j
          PROVE  toWorklet'[i] < toWorklet'[j]
      <4>1. i \in 1..Len(toWorklet) /\ (j \in 1..Len(toWorklet) \/ j = Len(toWorklet) + 1)
        BY <2>2, <3>1
      <4>2. toWorklet'[i] = toWorklet[i] /\ toWorklet[i] < g
        BY <2>2, <2>4, <4>1
      <4>3. CASE j \in 1..Len(toWorklet)
        BY <1>1, <2>2, <3>1, <4>1, <4>2, <4>3 DEF InOrder
      <4>4. CASE j = Len(toWorklet) + 1
        BY <2>2, <4>2, <4>4
      <4> QED
        BY <4>1, <4>3, <4>4
    <3>2. ASSUME NEW i \in 1..Len(toMain'), NEW j \in 1..Len(toWorklet')
          PROVE  toMain'[i] < toWorklet'[j]
      <4>1. i \in 1..Len(toMain) /\ toMain'[i] = toMain[i]
            /\ (j \in 1..Len(toWorklet) \/ j = Len(toWorklet) + 1)
        BY <1>2, <2>2
      <4>2. CASE j \in 1..Len(toWorklet)
        BY <1>1, <2>2, <4>1, <4>2 DEF InOrder
      <4>3. CASE j = Len(toWorklet) + 1
        BY <2>2, <2>3, <4>1, <4>3
      <4> QED
        BY <4>1, <4>2, <4>3
    <3>3. \A i \in 1..Len(toWorklet') : toWorklet'[i] \notin timers'
      BY <1>1, <1>2, <2>2 DEF InOrder
    <3> QED
      BY <1>1, <1>2, <2>2, <3>1, <3>2, <3>3 DEF InOrder
  <2>6. ~Flowing
    BY <1>7, <1>8 DEF Flowing, None
  <2> QED
    BY <1>3, <1>4, <1>5, <1>6, <2>5, <2>6 DEF PlayerIInv, PlayerTypes
<1>9. CASE pendingFlush # g
  <2>1. InOrder' /\ UNCHANGED toWorklet
    BY <1>1, <1>2, <1>9 DEF InOrder
  <2>2. Streams(plan, consumed, word, audio, written, ring, stream)
        => Streams(plan, consumed, word, audio, written, ring, stream)'
    BY <1>2, Zenon DEF Streams, Fed, IsPlan, IsRange
  <2> QED
    BY <1>1, <1>3, <1>4, <1>5, <1>6, <2>1, <2>2 DEF PlayerIInv, PlayerTypes
<1> QED
  BY <1>8, <1>9

\* A tick that finds a stream that flows leaves one, or the end of it.
LEMMA TickIs ==
  ASSUME PlayerIInv, Flowing, NEW str \in [Stems -> Streamers],
         EngineTick(plan, word, written', str), EndsInterval,
         Streams(plan, consumed, word, audio, written', ring', str),
         written' \in [Stems -> Words], ring' \in [Stems -> [0..RingFrames - 1 -> Int]],
         UNCHANGED <<pendingFlush, plan, timers, loopVars, ctx, portVars, audioVars, faults>>
  PROVE  PlayerIInv' /\ (state' = "ended" => plan.length # Endless /\ consumed = plan.length)
<1>1. PlayerTypes /\ InOrder /\ Phases /\ MainTypes /\ toWorklet = <<>>
  BY DEF PlayerIInv, PlayerTypes
<1>2. /\ consumed \in Nat /\ generation \in Nat /\ state \in {"priming", "playing"}
      /\ word \in ControlWords /\ word.state = state
  BY <1>1 DEF PlayerTypes, MainTypes, StreamTypes, AudioTypes, Phases, Flowing, IsPlaying
<1>3. /\ word' \in ControlWords /\ stream' \in [Stems -> Streamers]
      /\ \/ /\ state' \in {"priming", "playing"} /\ word'.state = state'
            /\ generation' = generation /\ anchor' = anchor
            /\ Streams(plan, consumed, word', audio, written', ring', stream')
         \/ /\ state' = "ended" /\ word'.state = "stopped" /\ word.ended
            /\ generation' = generation + 1 /\ anchor' = Total
            /\ \A s \in Stems : ~stream'[s].on /\ stream'[s].fetch = NoChunk
  BY <1>2, EngineTicks
<1>4. generation' \in {generation, generation + 1} /\ UNCHANGED <<timers, toMain, toWorklet>>
  BY <1>3
<1>5. InOrder'
  BY <1>1, <1>2, <1>4, PortsRest
<1>6. MainTypes'
  <2>1. state' \in {"ready", "priming", "playing", "stopped", "ended", "error"}
        /\ generation' \in Nat /\ anchor' \in 0..Total
    BY <1>1, <1>2, <1>3, Songs DEF MainTypes
  <2>2. timers' \subseteq 1..generation' /\ timers' \subseteq 1..MaxStarts
    BY <1>1, <1>2, <1>4 DEF MainTypes
  <2>3. interval' \in BOOLEAN
    BY DEF EndsInterval
  <2> QED
    BY <1>1, <2>1, <2>2, <2>3 DEF MainTypes
<1>7. StreamTypes'
  BY <1>3 DEF StreamTypes
<1>8. LoopTypes' /\ PlanTypes' /\ AudioTypes'
  BY <1>1, TypesRest DEF PlayerTypes
<1>9. CASE state' \in {"priming", "playing"}
  <2>1. Streams(plan, consumed, word', audio, written', ring', stream') /\ word'.state = state'
    BY <1>3, <1>9
  <2>2. Streams(plan, consumed, word, audio, written, ring, stream)'
    BY <2>1, Zenon DEF Streams, Fed, IsPlan, IsRange
  <2>3. Flowing' /\ pendingFlush' = None
    BY <1>9 DEF Flowing, IsPlaying
  <2>4. Phases'
    BY <2>1, <2>3 DEF Phases
  <2> QED
    BY <1>1, <1>4, <1>5, <1>6, <1>7, <1>8, <1>9, <2>2, <2>4 DEF PlayerIInv, PlayerTypes
<1>10. CASE state' = "ended"
  <2>1. word'.state = "stopped" /\ word.ended
        /\ \A s \in Stems : ~stream'[s].on /\ stream'[s].fetch = NoChunk
    BY <1>3, <1>10
  <2>2. plan.length # Endless /\ consumed = plan.length
    BY <2>1 DEF Streams
  <2>3. ~Flowing' /\ pendingFlush' = None
    BY <1>10 DEF Flowing, IsPlaying
  <2>4. interval' = FALSE
    BY <1>10 DEF EndsInterval
  <2>5. Phases'
    BY <2>1, <2>3, <2>4 DEF Phases
  <2> QED
    BY <1>5, <1>6, <1>7, <1>8, <2>2, <2>3, <2>5 DEF PlayerIInv, PlayerTypes
<1> QED
  BY <1>3, <1>9, <1>10

LEMMA TickKeeps ==
  ASSUME PlayerIInv, Tick
  PROVE  PlayerIInv' /\ (state' = "ended" => plan.length # Endless /\ consumed = plan.length)
<1>1. Flowing /\ stream \in [Stems -> Streamers] /\ written \in [Stems -> Words]
      /\ ring \in [Stems -> [0..RingFrames - 1 -> Int]]
  BY DEF PlayerIInv, PlayerTypes, StreamTypes, Phases, Tick
<1>2. Streams(plan, consumed, word, audio, written, ring, stream)
  BY <1>1 DEF PlayerIInv
<1>3. /\ written' = written /\ ring' = ring /\ EndsInterval
      /\ EngineTick(plan, word, written, stream)
      /\ UNCHANGED <<pendingFlush, plan, timers, loopVars, ctx, portVars, audioVars, faults>>
  BY DEF Tick
<1>4. /\ EngineTick(plan, word, written', stream)
      /\ Streams(plan, consumed, word, audio, written', ring', stream)
      /\ written' \in [Stems -> Words] /\ ring' \in [Stems -> [0..RingFrames - 1 -> Int]]
  BY <1>1, <1>2, <1>3, Zenon
<1> QED
  BY <1>1, <1>3, <1>4, TickIs

LEMMA TailOfMain ==
  ASSUME InOrder, generation \in Nat, toMain # <<>>
  PROVE  /\ Head(toMain) = toMain[1] /\ Len(toMain) \in Nat \ {0}
         /\ Tail(toMain) \in Seq(1..generation) /\ Len(Tail(toMain)) = Len(toMain) - 1
         /\ \A i \in 1..Len(Tail(toMain)) : Tail(toMain)[i] = toMain[i + 1] /\ i + 1 \in 1..Len(toMain)
         /\ \A i \in 1..Len(toMain) : toMain[i] \in 1..generation
<1>1. toMain \in Seq(1..generation)
  BY DEF InOrder
<1>2. \A i \in 1..Len(toMain) : toMain[i] \in 1..generation
  BY <1>1, ElementOfSeq
<1>3. /\ Head(toMain) = toMain[1] /\ Len(toMain) \in Nat \ {0}
      /\ Tail(toMain) \in Seq(1..generation) /\ Len(Tail(toMain)) = Len(toMain) - 1
  BY <1>1
<1>4. \A i \in 1..Len(Tail(toMain)) : Tail(toMain)[i] = toMain[i + 1] /\ i + 1 \in 1..Len(toMain)
  BY <1>1, <1>3
<1> QED
  BY <1>2, <1>3, <1>4

LEMMA FlushedStarts ==
  ASSUME PlayerIInv, Flushed, Settled(Head(toMain))
  PROVE  PlayerIInv' /\ state' # "ended"
<1>1. PlayerTypes /\ InOrder /\ Phases /\ MainTypes /\ LoopTypes /\ toMain # <<>> /\ generation \in Nat
  BY DEF PlayerIInv, PlayerTypes, MainTypes, Flushed
<1>2. /\ toMain' = Tail(toMain)
      /\ plan' = NewPlan(anchor, Total, LoopRange) /\ pendingFlush' = None /\ interval' = TRUE
      /\ written' = [s \in Stems |-> 0]
      /\ EngineTick(plan', [word EXCEPT !.state = "priming", !.eof = plan'.length, !.ended = FALSE],
                    written', [s \in Stems |-> [Off EXCEPT !.on = TRUE]])
      /\ UNCHANGED <<timers, loopVars, ctx, toWorklet, ring, audioVars, faults>>
  BY DEF Flushed
<1>3. pendingFlush = toMain[1] /\ generation = toMain[1] /\ 1 \in 1..Len(toMain) /\ pendingFlush # None
  BY <1>1, TailOfMain DEF Settled, None
<1>4. audio = Silent /\ word.read = 0 /\ consumed = 0 /\ state = "priming"
  BY <1>1, <1>3 DEF Phases
<1>5. toMain' = <<>> /\ toWorklet = <<>>
  <2>1. ~\E i \in 1..Len(toMain) : i > 1
    BY <1>1, <1>3, TailOfMain DEF InOrder
  <2>2. Len(Tail(toMain)) = 0 /\ Tail(toMain) \in Seq(1..generation)
    BY <1>1, <2>1, TailOfMain
  <2>3. \A j \in 1..Len(toWorklet) : toWorklet[j] \in 1..generation /\ toMain[1] < toWorklet[j]
    BY <1>1, <1>3, ElementOfSeq DEF InOrder
  <2>4. Len(toWorklet) = 0 /\ toWorklet \in Seq(1..generation)
    <3>1. Len(toWorklet) \in Nat /\ toWorklet \in Seq(1..generation)
      BY <1>1 DEF InOrder
    <3>2. ~(1 \in 1..Len(toWorklet))
      BY <1>1, <1>3, <2>3
    <3> QED
      BY <3>1, <3>2
  <2> QED
    BY <1>2, <2>2, <2>4, EmptySeq
<1>6. IsPlan(plan')
  <2>1. anchor \in Int /\ LoopRange.start \in Int /\ LoopRange.end \in Int
    BY <1>1, Songs DEF MainTypes, LoopTypes, LoopRange, NoLoop, IsRange
  <2> QED
    BY <1>2, <2>1, NewPlanIs
<1> DEFINE wd == [word EXCEPT !.state = "priming", !.eof = plan'.length, !.ended = FALSE]
           str == [s \in Stems |-> [Off EXCEPT !.on = TRUE]]
<1>7. wd \in ControlWords /\ wd.state = state /\ wd.eof = plan'.length /\ wd.read = 0 /\ ~wd.ended
  <2>1. plan'.length \in {Endless} \cup 0..Total
    BY <1>6 DEF IsPlan
  <2>2. word \in ControlWords
    BY <1>1 DEF PlayerTypes, StreamTypes
  <2> QED
    BY <1>4, <2>1, <2>2 DEF ControlWords
<1>8. /\ str \in [Stems -> Streamers]
      /\ \A s \in Stems : str[s].on /\ str[s].pos = 0 /\ str[s].fetch = NoChunk
  BY DEF Streamers, Fetches, Off
<1>9. Word(0) = 0
  BY Sizes, WordSame DEF Words
<1>10. Streams(plan', consumed, wd, audio, written', ring', str)
  <2>1. plan'.length # Endless => 0 <= plan'.length
    BY <1>6, Songs DEF IsPlan
  <2>2. audio # Ending
    BY <1>4 DEF Silent, Ending
  <2>3. ASSUME NEW s \in Stems
        PROVE  Fed(plan', 0, written'[s], ring'[s], str[s])
    <3> HIDE DEF str
    <3>1. written'[s] = 0 /\ str[s].on /\ str[s].pos = 0 /\ str[s].fetch \in {NoChunk, Busy}
      BY <1>2, <1>8
    <3>2. ~\E i \in 0..0 - 1 : TRUE
      OBVIOUS
    <3> QED
      BY <1>9, <3>1, <3>2, Sizes DEF Fed
  <2> QED
    BY <1>4, <1>6, <1>7, <1>9, <2>1, <2>2, <2>3 DEF Streams
<1> HIDE DEF wd, str
<1>11. EngineTick(plan', wd, written', str)
  BY <1>2 DEF wd, str
<1>12. /\ word' \in ControlWords /\ stream' \in [Stems -> Streamers]
       /\ state' \in {"priming", "playing"} /\ word'.state = state'
       /\ generation' = generation /\ anchor' = anchor
       /\ Streams(plan', consumed, word', audio, written', ring', stream')
  <2>1. consumed \in Nat /\ state \in {"priming", "playing"}
    BY <1>4
  <2> QED
    BY <1>1, <1>7, <1>8, <1>10, <1>11, <2>1, EngineTicks
<1>13. MainTypes'
  BY <1>1, <1>2, <1>12, Limits DEF MainTypes, None
<1>14. StreamTypes'
  <2>1. 0 \in Words
    BY Sizes DEF Words
  <2>2. written' \in [Stems -> Words] /\ ring' \in [Stems -> [0..RingFrames - 1 -> Int]]
    BY <1>1, <1>2, <2>1 DEF PlayerTypes, StreamTypes
  <2> QED
    BY <1>12, <2>2 DEF StreamTypes
<1>15. LoopTypes' /\ PlanTypes' /\ AudioTypes'
  <2>1. PlanTypes'
    BY <1>6 DEF PlanTypes, IsPlan, IsRange
  <2> QED
    BY <1>1, <1>2, <2>1, TypesRest DEF PlayerTypes
<1>16. InOrder'
  <2>1. toMain' = <<>> /\ toWorklet' = <<>>
    BY <1>2, <1>5
  <2>2. <<>> \in Seq(1..generation') /\ Len(<<>>) = 0 /\ ~\E i \in 1..0 : TRUE
    OBVIOUS
  <2> QED
    BY <2>1, <2>2 DEF InOrder
<1>17. Flowing'
  BY <1>2, <1>12 DEF Flowing, IsPlaying
<1>18. Phases'
  BY <1>2, <1>12, <1>17 DEF Phases
<1>19. Streams(plan, consumed, word, audio, written, ring, stream)'
  BY <1>2, <1>12, Zenon DEF Streams, Fed, IsPlan, IsRange
<1> QED
  BY <1>2, <1>5, <1>12, <1>13, <1>14, <1>15, <1>16, <1>18, <1>19 DEF PlayerIInv, PlayerTypes

\* The acknowledgement of the last flush: nothing of the old stream is under way,
\* and the new one starts from nothing.  An older one is nothing to the engine.
LEMMA FlushedKeeps ==
  ASSUME PlayerIInv, Flushed
  PROVE  PlayerIInv' /\ (state' = "ended" => state = "ended")
<1>1. CASE Settled(Head(toMain))
  BY <1>1, FlushedStarts
<1>2. CASE ~Settled(Head(toMain))
  <2>1. PlayerTypes /\ InOrder /\ Phases /\ MainTypes /\ toMain # <<>> /\ generation \in Nat
        /\ (Flowing => toWorklet = <<>> /\ Streams(plan, consumed, word, audio, written, ring, stream))
    BY DEF PlayerIInv, PlayerTypes, MainTypes, Flushed
  <2>2. toMain' = Tail(toMain)
        /\ UNCHANGED <<state, generation, pendingFlush, anchor, plan, timers, interval, loopVars, stream,
                       ctx, toWorklet, word, written, ring, audioVars, faults>>
    BY <1>2 DEF Flushed
  <2>3. MainTypes'
    BY <2>1, <2>2 DEF MainTypes
  <2>4. StreamTypes'
    BY <2>1, <2>2 DEF PlayerTypes, StreamTypes
  <2>5. LoopTypes' /\ PlanTypes' /\ AudioTypes'
    BY <2>1, <2>2, TypesRest DEF PlayerTypes
  <2>6. Flowing' = Flowing
    BY <2>2 DEF Flowing, IsPlaying
  <2>7. /\ toMain' \in Seq(1..generation) /\ Len(toMain') = Len(toMain) - 1 /\ Len(toMain) \in Nat
        /\ \A i \in 1..Len(toMain') : toMain'[i] = toMain[i + 1] /\ i + 1 \in 1..Len(toMain)
    BY <2>1, <2>2, TailOfMain
  <2>8. InOrder'
    BY <2>1, <2>2, <2>7 DEF InOrder
  <2>9. Phases'
    BY <2>1, <2>2, <2>6, <2>7 DEF Phases
  <2>10. Streams(plan, consumed, word, audio, written, ring, stream)
         => Streams(plan, consumed, word, audio, written, ring, stream)'
    BY <2>2, Zenon DEF Streams, Fed, IsPlan, IsRange
  <2> QED
    BY <2>1, <2>2, <2>3, <2>4, <2>5, <2>6, <2>8, <2>9, <2>10 DEF PlayerIInv, PlayerTypes
<1> QED
  BY <1>1, <1>2

-----------------------------------------------------------------------------
(* Fetches *)

\* The ring rg is the ring r with frames of the song from the position pos on,
\* and what is not consumed in front of it.
Extended(rg, r, c, pos, song, frames) ==
  /\ rg \in [0..RingFrames - 1 -> Int]
  /\ \A i \in c..pos - 1 : rg[Slot(i)] = r[Slot(i)]
  /\ \A k \in 0..frames - 1 : rg[Slot(pos + k)] = song + k

\* What is written behind the position is there, and what was not yet consumed
\* is not overwritten, across the end of the ring and of the words.
LEMMA FilledIs ==
  ASSUME NEW r \in [0..RingFrames - 1 -> Int], NEW pos \in Nat, NEW c \in Nat, c <= pos,
         NEW song \in Int, NEW frames \in Nat \ {0}, pos + frames <= c + RingFrames,
         NEW filled, filled = Filled(r, Slot(Word(pos)), song, frames)
  PROVE  Extended(filled, r, c, pos, song, frames)
<1> DEFINE at(i) == (i - Slot(pos)) % RingFrames
<1>1. Slot(Word(pos)) = Slot(pos)
  <2>1. Slot(Word(pos) + 0) = Slot(pos + 0)
    BY SlotOfWord
  <2>2. Word(pos) + 0 = Word(pos) /\ pos + 0 = pos
    BY WordIs, Sizes DEF Words
  <2> QED
    BY <2>1, <2>2
<1>2. filled = [i \in 0..RingFrames - 1 |-> IF at(i) < frames THEN song + at(i) ELSE r[i]]
  BY <1>1, Zenon DEF Filled
<1>3. \A i \in Int : at(i) \in 0..RingFrames - 1
  <2> TAKE i \in Int
  <2>1. i - Slot(pos) \in Int
    BY SlotIn
  <2> QED
    BY <2>1, Sizes, DivMod
<1>4. \A x \in Int : Slot(x) \in 0..RingFrames - 1 /\ at(Slot(x)) = (x - pos) % RingFrames
  <2> TAKE x \in Int
  <2>1. pos \in Int
    OBVIOUS
  <2> QED
    BY <2>1, SlotIn, SlotDistance, Zenon
<1> HIDE DEF at
<1>5. filled \in [0..RingFrames - 1 -> Int]
  BY <1>2, <1>3, Sizes
<1>6. ASSUME NEW i \in c..pos - 1
      PROVE  filled[Slot(i)] = r[Slot(i)]
  <2>1. PICK d \in Int : d = i - pos
    OBVIOUS
  <2>2. d \in (-RingFrames)..(-1) /\ ~(d + RingFrames < frames)
    BY <2>1, Sizes
  <2>3. d % RingFrames = d + RingFrames
    BY <2>2, OneBack, Sizes
  <2>4. at(Slot(i)) = d + RingFrames /\ Slot(i) \in 0..RingFrames - 1
    <3>1. i \in Int
      OBVIOUS
    <3>2. at(Slot(i)) = (i - pos) % RingFrames /\ Slot(i) \in 0..RingFrames - 1
      BY <1>4, <3>1, Zenon
    <3> QED
      BY <2>1, <2>3, <3>2, Zenon
  <2> QED
    BY <1>2, <2>2, <2>4
<1>7. ASSUME NEW k \in 0..frames - 1
      PROVE  filled[Slot(pos + k)] = song + k
  <2>1. k \in 0..RingFrames - 1 /\ pos + k \in Int /\ pos + k - pos = k
    BY Sizes
  <2>2. k % RingFrames = k
    BY <2>1, Small, Sizes
  <2>3. at(Slot(pos + k)) = k /\ Slot(pos + k) \in 0..RingFrames - 1
    <3>1. PICK x \in Int, d \in Int : x = pos + k /\ d = x - pos /\ d = k
      BY <2>1
    <3>2. at(Slot(x)) = (x - pos) % RingFrames /\ Slot(x) \in 0..RingFrames - 1
      BY <1>4, Zenon
    <3> QED
      BY <2>2, <3>1, <3>2, Zenon
  <2> QED
    BY <1>2, <2>3
<1> QED
  BY <1>5, <1>6, <1>7 DEF Extended

\* A fetch that has come is what the plan goes on with.
LEMMA FetchedFed ==
  ASSUME NEW p, NEW c \in Nat, NEW st \in Streamers, NEW wr, NEW r \in [0..RingFrames - 1 -> Int],
         Fed(p, c, wr, r, st), st.fetch \notin {NoChunk, Busy},
         NEW new, new = [st EXCEPT !.pos = @ + st.fetch.frames, !.first = FALSE, !.fetch = Busy]
  PROVE  LET rg == Filled(r, Slot(wr), st.fetch.song, st.fetch.frames) IN
         /\ new \in Streamers /\ new.pos >= st.pos
         /\ Word(wr + st.fetch.frames) \in Words /\ rg \in [0..RingFrames - 1 -> Int]
         /\ Fed(p, c, Word(wr + st.fetch.frames), rg, new)
<1> DEFINE rg == Filled(r, Slot(wr), st.fetch.song, st.fetch.frames)
<1>1. st.pos \in Nat /\ st.fetch.frames \in Nat \ {0} /\ st.fetch.song \in Int
  BY ChunkSizes DEF Streamers, Fetches
<1>2. PICK pos \in Nat, frames \in Nat \ {0}, song \in Int :
        pos = st.pos /\ frames = st.fetch.frames /\ song = st.fetch.song
  BY <1>1
<1>3. /\ wr = Word(pos) /\ c <= pos /\ pos <= c + RingFrames /\ pos + frames <= c + RingFrames
      /\ \A i \in c..pos - 1 : r[Slot(i)] = SongFrameAt(p, i)
      /\ \A k \in 0..frames - 1 : song + k = SongFrameAt(p, pos + k)
      /\ st.on
  BY <1>2 DEF Fed
<1>4. /\ new \in Streamers /\ new.on /\ new.pos = pos + frames /\ new.fetch \in {NoChunk, Busy}
  <2>1. new = [st EXCEPT !.pos = pos + frames, !.first = FALSE, !.fetch = Busy]
    BY <1>2 DEF Streamers
  <2>2. pos + frames \in Nat /\ Busy \in Fetches
    BY DEF Fetches
  <2> QED
    BY <1>3, <2>1, <2>2 DEF Streamers
<1>5. Extended(rg, r, c, pos, song, frames)
  <2>1. rg = Filled(r, Slot(Word(pos)), song, frames)
    BY <1>2, <1>3, Zenon
  <2> HIDE DEF rg
  <2>2. /\ pos \in Nat /\ frames \in Nat \ {0} /\ song \in Int
        /\ c <= pos /\ pos + frames <= c + RingFrames
    BY <1>2, <1>3
  <2> QED
    BY <2>1, <2>2, FilledIs, Zenon
<1> HIDE DEF rg
<1>6. Word(wr + frames) = Word(pos + frames) /\ Word(pos + frames) \in Words
  <2>1. pos \in Int /\ frames \in Int /\ pos + frames \in Int
    OBVIOUS
  <2>2. Word(Word(pos) + frames) = Word(pos + frames) /\ Word(pos + frames) \in Words
    BY <2>1, WordPlus, WordIs, Zenon
  <2> QED
    BY <1>3, <2>2, Zenon
<1>7. \A i \in c..pos + frames - 1 : rg[Slot(i)] = SongFrameAt(p, i)
  <2> TAKE i \in c..pos + frames - 1
  <2>1. CASE i < pos
    BY <1>3, <1>5, <2>1 DEF Extended
  <2>2. CASE i >= pos
    <3>1. PICK k \in 0..frames - 1 : i = pos + k
      <4>1. i - pos \in 0..frames - 1 /\ i = pos + (i - pos)
        BY <2>2
      <4> QED
        BY <4>1
    <3> QED
      BY <1>3, <1>5, <3>1 DEF Extended
  <2> QED
    BY <2>1, <2>2
<1>8. c <= pos + frames
  BY <1>3
<1>9. Fed(p, c, Word(pos + frames), rg, new)
  BY <1>3, <1>4, <1>7, <1>8 DEF Fed
<1> QED
  BY <1>2, <1>4, <1>5, <1>6, <1>9 DEF rg, Extended

\* A fetch is under way in a stream that flows, and fits its ring.
LEMMA FetchingFlows ==
  ASSUME PlayerIInv, NEW s \in Stems, stream[s].fetch # NoChunk
  PROVE  /\ Flowing /\ Streams(plan, consumed, word, audio, written, ring, stream)
         /\ stream[s].fetch \notin {NoChunk, Busy} => HasRoom(s, stream[s].fetch.frames)
<1>1. Flowing
  BY DEF PlayerIInv, Phases
<1>2. Streams(plan, consumed, word, audio, written, ring, stream)
  BY <1>1 DEF PlayerIInv
<1>3. /\ word.read = Word(consumed) /\ written[s] = Word(stream[s].pos)
      /\ consumed \in Nat /\ stream[s].pos \in Nat
      /\ consumed <= stream[s].pos /\ stream[s].pos <= consumed + RingFrames
  BY <1>2 DEF Streams, Fed, PlayerIInv, PlayerTypes, StreamTypes, AudioTypes, Streamers
<1>4. Buffered(word, written, s) = stream[s].pos - consumed
  BY <1>3, BufferedIs DEF Buffered
<1>5. ASSUME stream[s].fetch \notin {NoChunk, Busy}
      PROVE  HasRoom(s, stream[s].fetch.frames)
  <2>1. stream[s].pos + stream[s].fetch.frames <= consumed + RingFrames
    BY <1>2, <1>5 DEF Streams, Fed
  <2>2. stream[s].fetch.frames \in Nat
    BY <1>5, ChunkSizes DEF PlayerIInv, PlayerTypes, StreamTypes, Streamers, Fetches
  <2> QED
    BY <1>3, <1>4, <2>1, <2>2, Sizes DEF HasRoom
<1> QED
  BY <1>1, <1>2, <1>5

LEMMA FetchDoneKeeps ==
  ASSUME PlayerIInv, NEW s \in Stems, FetchDone(s)
  PROVE  PlayerIInv' /\ (state' = "ended" => plan.length # Endless /\ consumed = plan.length)
<1> DEFINE st == stream[s]
           chunk == stream[s].fetch
           new == [st EXCEPT !.pos = @ + st.fetch.frames, !.first = FALSE, !.fetch = Busy]
           str == [stream EXCEPT ![s] = new]
<1>1. chunk \notin {NoChunk, Busy} /\ chunk # NoChunk /\ EndsInterval
      /\ UNCHANGED <<pendingFlush, plan, timers, loopVars, ctx, portVars, audioVars, faults>>
  BY DEF FetchDone
<1>2. Flowing /\ Streams(plan, consumed, word, audio, written, ring, stream)
  BY <1>1, FetchingFlows
<1>3. /\ stream \in [Stems -> Streamers] /\ written \in [Stems -> Words]
      /\ ring \in [Stems -> [0..RingFrames - 1 -> Int]] /\ consumed \in Nat
      /\ st \in Streamers /\ st.pos \in Nat
  BY DEF PlayerIInv, PlayerTypes, StreamTypes, AudioTypes, Streamers
<1>4. str = [[stream EXCEPT ![s].pos = @ + chunk.frames, ![s].first = FALSE] EXCEPT ![s].fetch = Busy]
  BY <1>3 DEF Streamers
<1>5. /\ written' = [written EXCEPT ![s] = Word(written[s] + chunk.frames)]
      /\ ring' = [ring EXCEPT ![s] = Filled(ring[s], Slot(written[s]), chunk.song, chunk.frames)]
      /\ EngineTick(plan, word, written', str)
  BY <1>4 DEF FetchDone
<1>6. /\ new \in Streamers /\ new.pos >= st.pos
      /\ Word(written[s] + chunk.frames) \in Words
      /\ Filled(ring[s], Slot(written[s]), chunk.song, chunk.frames) \in [0..RingFrames - 1 -> Int]
      /\ Fed(plan, consumed, Word(written[s] + chunk.frames),
             Filled(ring[s], Slot(written[s]), chunk.song, chunk.frames), new)
  <2>1. Fed(plan, consumed, written[s], ring[s], st) /\ ring[s] \in [0..RingFrames - 1 -> Int]
    BY <1>2, <1>3 DEF Streams
  <2> QED
    BY <1>1, <1>3, <2>1, FetchedFed
<1> HIDE DEF new
<1>7. /\ str \in [Stems -> Streamers] /\ written' \in [Stems -> Words]
      /\ ring' \in [Stems -> [0..RingFrames - 1 -> Int]]
  BY <1>3, <1>5, <1>6
<1>8. str[s] = new /\ \A t \in Stems \ {s} : str[t] = stream[t]
  BY <1>3
<1>9. /\ written'[s] = Word(written[s] + chunk.frames)
      /\ ring'[s] = Filled(ring[s], Slot(written[s]), chunk.song, chunk.frames)
      /\ \A t \in Stems \ {s} : written'[t] = written[t] /\ ring'[t] = ring[t]
  BY <1>3, <1>5
<1> HIDE DEF str
<1>10. Streams(plan, consumed, word, audio, written', ring', str)
  <2>1. ASSUME NEW t \in Stems
        PROVE  Fed(plan, consumed, written'[t], ring'[t], str[t]) /\ str[t].pos >= stream[t].pos
    <3>1. CASE t = s
      BY <1>6, <1>8, <1>9, <3>1
    <3>2. CASE t # s
      <4>1. Fed(plan, consumed, written[t], ring[t], stream[t]) /\ stream[t].pos \in Nat
        BY <1>2, <1>3 DEF Streams, Streamers
      <4> QED
        BY <1>8, <1>9, <3>2, <4>1
    <3> QED
      BY <3>1, <3>2
  <2>2. ASSUME audio \notin {Silent, Ending}, NEW t \in Stems
        PROVE  consumed + audio.need <= str[t].pos
    <3>1. consumed + audio.need <= stream[t].pos
      BY <1>2, <2>2 DEF Streams
    <3>2. consumed + audio.need \in Int /\ stream[t].pos \in Int /\ str[t].pos \in Int
      BY <1>3, <1>7 DEF PlayerIInv, PlayerTypes, AudioTypes, Streamers
    <3> QED
      BY <2>1, <3>1, <3>2
  <2> QED
    BY <1>2, <2>1, <2>2 DEF Streams
<1> QED
  BY <1>1, <1>2, <1>5, <1>7, <1>10, TickIs

\* Steps that leave the main thread, the ports and the shared words as they are.
LEMMA FetchSettlesKeeps ==
  ASSUME PlayerIInv, NEW s \in Stems, FetchSettles(s)
  PROVE  PlayerIInv' /\ UNCHANGED state
<1>1. PlayerTypes /\ InOrder /\ Phases /\ MainTypes
  BY DEF PlayerIInv, PlayerTypes
<1>2. /\ stream[s].fetch = Busy /\ stream' = [stream EXCEPT ![s].fetch = NoChunk]
      /\ UNCHANGED <<state, generation, pendingFlush, anchor, plan, timers, interval, loopVars, ctx,
                     toWorklet, toMain, word, written, ring, audioVars, faults>>
  BY DEF FetchSettles
<1>3. Flowing /\ Streams(plan, consumed, word, audio, written, ring, stream) /\ toWorklet = <<>>
  <2>1. Busy # NoChunk
    BY DEF Busy, NoChunk
  <2> QED
    BY <1>2, <2>1, FetchingFlows DEF PlayerIInv
<1>4. stream \in [Stems -> Streamers]
  BY <1>1 DEF PlayerTypes, StreamTypes
<1>5. /\ stream' \in [Stems -> Streamers]
      /\ \A t \in Stems : /\ stream'[t].on = stream[t].on /\ stream'[t].pos = stream[t].pos
                          /\ stream'[t].fetch \notin {NoChunk, Busy} => stream'[t].fetch = stream[t].fetch
  BY <1>2, <1>4 DEF Streamers, Fetches
<1>6. MainTypes'
  BY <1>1, <1>2 DEF MainTypes
<1>7. StreamTypes'
  BY <1>1, <1>2, <1>5 DEF PlayerTypes, StreamTypes
<1>8. LoopTypes' /\ PlanTypes' /\ AudioTypes'
  BY <1>1, <1>2, TypesRest DEF PlayerTypes
<1>9. InOrder' /\ Flowing'
  BY <1>1, <1>2, <1>3 DEF InOrder, Flowing, IsPlaying
<1>10. Phases'
  BY <1>1, <1>2, <1>3, <1>9 DEF Phases, Flowing
<1>11. Streams(plan, consumed, word, audio, written, ring, stream')
  <2>1. ASSUME NEW t \in Stems
        PROVE  Fed(plan, consumed, written[t], ring[t], stream'[t])
    <3>1. Fed(plan, consumed, written[t], ring[t], stream[t])
      BY <1>3 DEF Streams
    <3> QED
      BY <1>5, <3>1 DEF Fed
  <2> QED
    BY <1>3, <1>5, <2>1, Zenon DEF Streams
<1>12. Streams(plan, consumed, word, audio, written, ring, stream)'
  <2>1. UNCHANGED <<plan, consumed, word, audio, written, ring>>
    BY <1>2
  <2> QED
    BY <1>11, <2>1, Zenon DEF Streams, Fed, IsPlan, IsRange
<1> QED
  BY <1>2, <1>3, <1>6, <1>7, <1>8, <1>9, <1>10, <1>12 DEF PlayerIInv, PlayerTypes

LEMMA FaultIn == ASSUME faults \in 0..MaxFaults, NEW kind, Fault(kind)  PROVE  faults' \in 0..MaxFaults
  BY Limits DEF Fault

LEMMA FetchFailsKeeps ==
  ASSUME PlayerIInv, NEW s \in Stems, FetchFails(s)
  PROVE  PlayerIInv' /\ state' = "error"
<1>1. MainTypes
  BY DEF PlayerIInv, PlayerTypes
<1>2. Fail /\ UNCHANGED ctx /\ (Fault("fetch") \/ UNCHANGED faults)
  BY DEF FetchFails
<1>3. faults' \in 0..MaxFaults
  BY <1>1, <1>2, FaultIn DEF MainTypes
<1> QED
  BY <1>1, <1>2, <1>3, HaltEnds DEF Fail, MainTypes

LEMMA ContextKeeps ==
  ASSUME PlayerIInv, Suspends \/ Resumes \/ ResumeFails
  PROVE  PlayerIInv' /\ state' \in {state, "error"}
<1>1. PlayerTypes /\ InOrder /\ Phases /\ MainTypes
      /\ (Flowing => toWorklet = <<>> /\ Streams(plan, consumed, word, audio, written, ring, stream))
  BY DEF PlayerIInv, PlayerTypes
<1>2. ctx' \in {"running", "suspended", "resuming"} /\ (Fault("suspend") \/ UNCHANGED faults)
  BY DEF Suspends, Resumes, ResumeFails
<1>3. faults' \in 0..MaxFaults
  BY <1>1, <1>2, FaultIn DEF MainTypes
<1>4. CASE UNCHANGED <<mainVars, loopVars, stream, portVars, sharedVars, audioVars>>
  <2>1. MainTypes'
    BY <1>1, <1>2, <1>3, <1>4 DEF MainTypes
  <2>2. StreamTypes'
    BY <1>1, <1>4 DEF PlayerTypes, StreamTypes
  <2>3. LoopTypes' /\ PlanTypes' /\ AudioTypes'
    BY <1>1, <1>4, TypesRest DEF PlayerTypes
  <2>4. InOrder' /\ Phases' /\ Flowing' = Flowing
    BY <1>1, <1>4 DEF InOrder, Phases, Flowing, IsPlaying
  <2>5. Streams(plan, consumed, word, audio, written, ring, stream)
        => Streams(plan, consumed, word, audio, written, ring, stream)'
    BY <1>4, Zenon DEF Streams, Fed, IsPlan, IsRange
  <2> QED
    BY <1>1, <1>4, <2>1, <2>2, <2>3, <2>4, <2>5 DEF PlayerIInv, PlayerTypes
<1>5. CASE ~UNCHANGED <<mainVars, loopVars, stream, portVars, sharedVars, audioVars>>
  <2>1. Fail
    BY <1>5 DEF Suspends, Resumes, ResumeFails
  <2> QED
    BY <1>1, <1>2, <1>3, <2>1, HaltEnds DEF Fail, MainTypes
<1> QED
  BY <1>4, <1>5

-----------------------------------------------------------------------------
(* The audio thread *)

LEMMA AudioFlushKeeps == ASSUME PlayerIInv, AudioFlush  PROVE  PlayerIInv' /\ UNCHANGED state
<1>1. PlayerTypes /\ InOrder /\ Phases /\ MainTypes /\ generation \in Nat
  BY DEF PlayerIInv, PlayerTypes, MainTypes
<1>2. /\ audio = Silent /\ toWorklet # <<>> /\ toWorklet' = Tail(toWorklet)
      /\ toMain' = Append(toMain, Head(toWorklet))
      /\ word' = [word EXCEPT !.read = 0, !.ended = FALSE] /\ consumed' = 0
      /\ UNCHANGED <<mainVars, loopVars, stream, ctx, written, ring, audio, faults>>
  BY DEF AudioFlush, Consuming
<1>3. ~Flowing /\ ~Flowing'
  BY <1>2 DEF PlayerIInv, Flowing, IsPlaying
<1>4. /\ toWorklet \in Seq(1..generation) /\ toMain \in Seq(1..generation)
      /\ \A i \in 1..Len(toWorklet) : toWorklet[i] \in 1..generation
      /\ \A i \in 1..Len(toMain) : toMain[i] \in 1..generation
  BY <1>1, ElementOfSeq DEF InOrder
<1>5. /\ Len(toWorklet) \in Nat \ {0} /\ Head(toWorklet) = toWorklet[1] /\ 1 \in 1..Len(toWorklet)
      /\ toWorklet' \in Seq(1..generation) /\ Len(toWorklet') = Len(toWorklet) - 1
  BY <1>2, <1>4
<1>6. \A i \in 1..Len(toWorklet') : toWorklet'[i] = toWorklet[i + 1] /\ i + 1 \in 1..Len(toWorklet)
  BY <1>2, <1>4, <1>5
<1>7. /\ toMain' \in Seq(1..generation) /\ Len(toMain') = Len(toMain) + 1 /\ Len(toMain) \in Nat
      /\ \A i \in 1..Len(toMain) : toMain'[i] = toMain[i]
      /\ toMain'[Len(toMain) + 1] = toWorklet[1]
  BY <1>2, <1>4, <1>5
<1>8. InOrder'
  <2>1. ASSUME NEW i \in 1..Len(toMain'), NEW j \in 1..Len(toMain'), i < j
        PROVE  toMain'[i] < toMain'[j]
    <3>1. i \in 1..Len(toMain) /\ toMain'[i] = toMain[i]
      BY <1>7, <2>1
    <3>2. CASE j \in 1..Len(toMain)
      BY <1>1, <1>7, <2>1, <3>1, <3>2 DEF InOrder
    <3>3. CASE j = Len(toMain) + 1
      BY <1>1, <1>5, <1>7, <3>1, <3>3 DEF InOrder
    <3> QED
      BY <1>7, <3>2, <3>3
  <2>2. ASSUME NEW i \in 1..Len(toWorklet'), NEW j \in 1..Len(toWorklet'), i < j
        PROVE  toWorklet'[i] < toWorklet'[j]
    <3>1. i + 1 \in 1..Len(toWorklet) /\ j + 1 \in 1..Len(toWorklet) /\ i + 1 < j + 1
      BY <1>6, <2>2
    <3>2. toWorklet[i + 1] < toWorklet[j + 1]
      BY <1>1, <3>1 DEF InOrder
    <3> QED
      BY <1>6, <3>2
  <2>3. ASSUME NEW i \in 1..Len(toMain'), NEW j \in 1..Len(toWorklet')
        PROVE  toMain'[i] < toWorklet'[j]
    <3>1. j + 1 \in 1..Len(toWorklet) /\ 1 < j + 1 /\ toWorklet'[j] = toWorklet[j + 1]
      BY <1>6
    <3>2. CASE i \in 1..Len(toMain)
      BY <1>1, <1>7, <3>1, <3>2 DEF InOrder
    <3>3. CASE i = Len(toMain) + 1
      BY <1>1, <1>5, <1>7, <3>1, <3>3 DEF InOrder
    <3> QED
      BY <1>7, <3>2, <3>3
  <2>4. \A i \in 1..Len(toMain') : toMain'[i] \notin timers
    <3> TAKE i \in 1..Len(toMain')
    <3>1. CASE i \in 1..Len(toMain)
      BY <1>1, <1>7, <3>1 DEF InOrder
    <3>2. CASE i = Len(toMain) + 1
      BY <1>1, <1>5, <1>7, <3>2 DEF InOrder
    <3> QED
      BY <1>7, <3>1, <3>2
  <2>5. \A i \in 1..Len(toWorklet') : toWorklet'[i] \notin timers
    BY <1>1, <1>6 DEF InOrder
  <2>6. timers' = timers /\ generation' = generation
    BY <1>2
  <2> QED
    BY <1>5, <1>7, <2>1, <2>2, <2>3, <2>4, <2>5, <2>6 DEF InOrder
<1>9. MainTypes'
  BY <1>1, <1>2 DEF MainTypes
<1>10. 0 \in Words
  BY Sizes DEF Words
<1>11. word' \in ControlWords /\ word'.read = 0 /\ word'.state = word.state
  BY <1>1, <1>2, <1>10 DEF PlayerTypes, StreamTypes, ControlWords
<1>12. StreamTypes'
  BY <1>1, <1>2, <1>11 DEF PlayerTypes, StreamTypes
<1>13. LoopTypes' /\ PlanTypes' /\ AudioTypes'
  <2>1. AudioTypes'
    BY <1>1, <1>2 DEF PlayerTypes, AudioTypes
  <2> QED
    BY <1>1, <1>2, <2>1, TypesRest DEF PlayerTypes
<1>14. Phases'
  BY <1>1, <1>2, <1>3, <1>11 DEF Phases
<1> QED
  BY <1>2, <1>3, <1>8, <1>9, <1>12, <1>13, <1>14 DEF PlayerIInv, PlayerTypes

\* What a flowing stream has left, and how much the next quantum takes of it.
LEMMA NeedIs ==
  ASSUME PlayerTypes, Streams(plan, consumed, word, audio, written, ring, stream)
  PROVE  /\ word.eof # Endless => word.eof = plan.length /\ plan.length # Endless
                                  /\ Left = plan.length - consumed /\ Left \in Nat
         /\ ~(word.eof # Endless /\ Left <= 0) =>
              Need \in Nat \ {0} /\ (plan.length # Endless => consumed + Need <= plan.length)
<1>1. /\ IsPlan(plan) /\ word.eof = plan.length /\ word.read = Word(consumed) /\ consumed \in Nat
      /\ plan.length # Endless => consumed <= plan.length
  BY DEF Streams, PlayerTypes, AudioTypes
<1>2. plan.length = Endless \/ plan.length \in 0..Total
  BY <1>1 DEF IsPlan
<1>3. ASSUME plan.length # Endless
      PROVE  Left = plan.length - consumed /\ Left \in Nat
  <2>1. plan.length \in 0..Total /\ consumed \in 0..Total /\ plan.length - consumed \in 0..Total
    BY <1>1, <1>2, <1>3, Songs
  <2>2. 0..Total \subseteq Words
    BY Songs, Sizes DEF Words
  <2>3. Word(consumed) = consumed /\ Word(plan.length - consumed) = plan.length - consumed
    BY <2>1, <2>2, WordSame
  <2>4. Left = Word(plan.length - consumed)
    BY <1>1, <2>3, Zenon DEF Left
  <2> QED
    BY <2>1, <2>3, <2>4
<1>4. Quantum \in Nat \ {0}
  BY PlayerAssumption
<1>5. ASSUME ~(word.eof # Endless /\ Left <= 0)
      PROVE  Need \in Nat \ {0} /\ (plan.length # Endless => consumed + Need <= plan.length)
  <2>1. CASE plan.length = Endless
    BY <1>1, <1>4, <2>1 DEF Need
  <2>2. CASE plan.length # Endless
    <3>1. Need = Least(Quantum, Left) /\ Left = plan.length - consumed /\ Left \in Nat /\ ~(Left <= 0)
      BY <1>1, <1>3, <1>5, <2>2 DEF Need
    <3>2. Need \in Nat \ {0} /\ Need <= Left
      BY <1>4, <3>1 DEF Least
    <3>3. plan.length \in Nat
      BY <1>2, <2>2, Songs
    <3> QED
      BY <1>1, <3>1, <3>2, <3>3
  <2> QED
    BY <2>1, <2>2
<1> QED
  BY <1>1, <1>3, <1>5

LEMMA AudioBeginKeeps == ASSUME PlayerIInv, AudioBegin  PROVE  PlayerIInv' /\ UNCHANGED state
<1>1. PlayerTypes /\ InOrder /\ Phases /\ MainTypes
  BY DEF PlayerIInv, PlayerTypes
<1>2. /\ audio = Silent /\ word.state = "playing"
      /\ UNCHANGED <<state, generation, pendingFlush, anchor, plan, timers, interval, loopVars, stream,
                     ctx, toWorklet, toMain, word, written, ring, consumed, faults>>
  BY DEF AudioBegin, Consuming
<1>3. Flowing /\ Flowing'
  BY <1>1, <1>2 DEF Phases, Flowing, IsPlaying
<1>4. Streams(plan, consumed, word, audio, written, ring, stream) /\ toWorklet = <<>>
  BY <1>3 DEF PlayerIInv
<1>5. AudioTypes' /\ Streams(plan, consumed, word, audio', written, ring, stream)
  <2>1. CASE word.eof # Endless /\ Left <= 0
    <3>1. audio' = Ending /\ plan.length # Endless /\ consumed = plan.length
      <4>1. plan.length # Endless /\ Left = plan.length - consumed /\ Left \in Nat /\ word.eof = plan.length
        BY <1>1, <1>4, <2>1, NeedIs
      <4>2. plan.length \in Int /\ consumed \in Int
        BY <1>1, <1>4, <4>1, Songs DEF Streams, IsPlan, PlayerTypes, AudioTypes
      <4> QED
        BY <2>1, <4>1, <4>2 DEF AudioBegin
    <3>2. Ending \in [read : Words, need : Int]
      BY Sizes DEF Ending, Words
    <3> QED
      BY <1>1, <1>2, <1>4, <3>1, <3>2 DEF PlayerTypes, AudioTypes, Streams
  <2>2. CASE ~(word.eof # Endless /\ Left <= 0)
    <3>1. /\ audio' = [read |-> word.read, need |-> Need]
          /\ \A s \in Stems : Word(written[s] - word.read) >= Need
      BY <2>2 DEF AudioBegin
    <3>2. Need \in Nat \ {0} /\ (plan.length # Endless => consumed + Need <= plan.length)
      BY <1>1, <1>4, <2>2, NeedIs
    <3>3. ASSUME NEW s \in Stems
          PROVE  consumed + Need <= stream[s].pos
      <4>1. /\ word.read = Word(consumed) /\ written[s] = Word(stream[s].pos)
            /\ consumed \in Nat /\ stream[s].pos \in Nat
            /\ consumed <= stream[s].pos /\ stream[s].pos <= consumed + RingFrames
        BY <1>1, <1>4 DEF Streams, Fed, PlayerTypes, StreamTypes, AudioTypes, Streamers
      <4>2. Word(written[s] - word.read) = stream[s].pos - consumed
        BY <4>1, BufferedIs
      <4> QED
        BY <3>1, <3>2, <4>1, <4>2
    <3> HIDE DEF Need
    <3>4. AudioTypes' /\ audio' # Ending /\ audio'.read = word.read /\ audio'.need = Need
      <4>1. word.read \in Words /\ consumed \in Nat
        BY <1>1 DEF PlayerTypes, StreamTypes, AudioTypes, ControlWords
      <4> QED
        BY <1>2, <3>1, <3>2, <4>1 DEF AudioTypes, Ending
    <3>5. Streams(plan, consumed, word, audio', written, ring, stream)
      BY <1>4, <3>2, <3>3, <3>4, Zenon DEF Streams
    <3> QED
      BY <3>4, <3>5
  <2> QED
    BY <2>1, <2>2
<1>6. MainTypes'
  BY <1>1, <1>2 DEF MainTypes
<1>7. StreamTypes'
  BY <1>1, <1>2 DEF PlayerTypes, StreamTypes
<1>8. LoopTypes' /\ PlanTypes'
  BY <1>1, <1>2, TypesRest DEF PlayerTypes
<1>9. InOrder'
  BY <1>1, <1>2 DEF InOrder
<1>10. Phases'
  BY <1>1, <1>2, <1>3 DEF Phases, Flowing
<1>11. Streams(plan, consumed, word, audio, written, ring, stream)'
  <2>1. UNCHANGED <<plan, consumed, word, written, ring, stream>>
    BY <1>2
  <2> QED
    BY <1>5, <2>1, Zenon DEF Streams, Fed, IsPlan, IsRange
<1> QED
  BY <1>2, <1>3, <1>4, <1>5, <1>6, <1>7, <1>8, <1>9, <1>10, <1>11 DEF PlayerIInv, PlayerTypes

LEMMA AudioEndsKeeps == ASSUME PlayerIInv, AudioEnds  PROVE  PlayerIInv' /\ UNCHANGED state
<1>1. PlayerTypes /\ InOrder /\ Phases /\ MainTypes
      /\ (Flowing => toWorklet = <<>> /\ Streams(plan, consumed, word, audio, written, ring, stream))
  BY DEF PlayerIInv, PlayerTypes
<1>2. /\ audio = Ending /\ word' = [word EXCEPT !.ended = TRUE] /\ audio' = Silent
      /\ UNCHANGED <<state, generation, pendingFlush, anchor, plan, timers, interval, loopVars, stream,
                     ctx, toWorklet, toMain, written, ring, consumed, faults>>
  BY DEF AudioEnds
<1>3. /\ word' \in ControlWords /\ word'.read = word.read /\ word'.state = word.state
      /\ word'.eof = word.eof
  BY <1>1, <1>2 DEF PlayerTypes, StreamTypes, ControlWords
<1>4. AudioTypes' /\ Silent # Ending
  BY <1>1, <1>2, Sizes DEF PlayerTypes, AudioTypes, Silent, Ending, Words
<1>5. MainTypes'
  BY <1>1, <1>2 DEF MainTypes
<1>6. StreamTypes'
  BY <1>1, <1>2, <1>3 DEF PlayerTypes, StreamTypes
<1>7. LoopTypes' /\ PlanTypes'
  BY <1>1, <1>2, TypesRest DEF PlayerTypes
<1>8. InOrder' /\ Flowing' = Flowing
  BY <1>1, <1>2 DEF InOrder, Flowing, IsPlaying
<1>9. Phases'
  BY <1>1, <1>2, <1>3, <1>4, <1>8 DEF Phases
<1>10. ASSUME Flowing
       PROVE  Streams(plan, consumed, word, audio, written, ring, stream)'
  <2>1. Streams(plan, consumed, word, audio, written, ring, stream)
    BY <1>1, <1>10
  <2>2. Streams(plan, consumed, word', Silent, written, ring, stream)
    BY <1>2, <1>3, <1>4, <2>1, Zenon DEF Streams
  <2>3. UNCHANGED <<plan, consumed, written, ring, stream>> /\ audio' = Silent
    BY <1>2
  <2> QED
    BY <2>2, <2>3, Zenon DEF Streams, Fed, IsPlan, IsRange
<1> QED
  BY <1>1, <1>2, <1>4, <1>5, <1>6, <1>7, <1>8, <1>9, <1>10 DEF PlayerIInv, PlayerTypes

LEMMA AudioCopiedKeeps == ASSUME PlayerIInv, AudioCopied  PROVE  PlayerIInv' /\ UNCHANGED state
<1>1. PlayerTypes /\ InOrder /\ Phases /\ MainTypes
      /\ (Flowing => toWorklet = <<>> /\ Streams(plan, consumed, word, audio, written, ring, stream))
  BY DEF PlayerIInv, PlayerTypes
<1>2. /\ audio \notin {Silent, Ending} /\ word' = [word EXCEPT !.read = Word(audio.read + audio.need)]
      /\ consumed' = consumed + audio.need /\ audio' = Silent
      /\ UNCHANGED <<state, generation, pendingFlush, anchor, plan, timers, interval, loopVars, stream,
                     ctx, toWorklet, toMain, written, ring, faults>>
  BY DEF AudioCopied
<1>3. audio.need \in Nat \ {0} /\ audio.read \in Int /\ consumed \in Nat
  BY <1>1, <1>2, Sizes DEF PlayerTypes, AudioTypes, Words
<1>4. /\ word' \in ControlWords /\ word'.read = Word(audio.read + audio.need)
      /\ word'.state = word.state /\ word'.eof = word.eof /\ word'.ended = word.ended
  <2>1. Word(audio.read + audio.need) \in Words
    BY <1>3, WordIs
  <2> QED
    BY <1>1, <1>2, <2>1 DEF PlayerTypes, StreamTypes, ControlWords
<1>5. AudioTypes' /\ Silent # Ending
  BY <1>2, <1>3, Sizes DEF AudioTypes, Silent, Ending, Words
<1>6. MainTypes'
  BY <1>1, <1>2 DEF MainTypes
<1>7. StreamTypes'
  BY <1>1, <1>2, <1>4 DEF PlayerTypes, StreamTypes
<1>8. LoopTypes' /\ PlanTypes'
  BY <1>1, <1>2, TypesRest DEF PlayerTypes
<1>9. InOrder' /\ Flowing' = Flowing
  BY <1>1, <1>2 DEF InOrder, Flowing, IsPlaying
<1>10. Phases'
  BY <1>1, <1>2, <1>4, <1>9 DEF Phases
<1>11. ASSUME Flowing
       PROVE  Streams(plan, consumed, word, audio, written, ring, stream)'
  <2>1. Streams(plan, consumed, word, audio, written, ring, stream)
    BY <1>1, <1>11
  <2>2. PICK c \in Nat, n \in Nat \ {0} : c = consumed /\ n = audio.need
    BY <1>3
  <2>3. /\ IsPlan(plan) /\ word.eof = plan.length
        /\ word.ended => plan.length # Endless /\ c = plan.length
        /\ audio.read = Word(c)
        /\ plan.length # Endless => c + n <= plan.length
        /\ \A s \in Stems : c + n <= stream[s].pos
        /\ \A s \in Stems : Fed(plan, c, written[s], ring[s], stream[s])
    BY <1>2, <2>1, <2>2, Zenon DEF Streams
  <2>4. word'.read = Word(c + n)
    <3>1. c \in Int /\ n \in Int
      BY <2>2
    <3>2. Word(Word(c) + n) = Word(c + n)
      BY <3>1, WordPlus
    <3> QED
      BY <1>4, <2>2, <2>3, <3>2, Zenon
  <2>5. ~word'.ended
    BY <1>4, <2>2, <2>3
  <2>6. ASSUME NEW s \in Stems
        PROVE  Fed(plan, c + n, written[s], ring[s], stream[s])
    <3>1. stream[s] \in Streamers /\ stream[s].pos \in Nat
      BY <1>1 DEF PlayerTypes, StreamTypes, Streamers
    <3>2. Fed(plan, c, written[s], ring[s], stream[s]) /\ c + n <= stream[s].pos
      BY <2>3
    <3>3. stream[s].pos <= c + n + RingFrames
      BY <2>2, <3>1, <3>2, Sizes DEF Fed
    <3>4. \A i \in c + n..stream[s].pos - 1 : i \in c..stream[s].pos - 1
      BY <2>2, <3>1
    <3>5. stream[s].fetch \notin {NoChunk, Busy} =>
            stream[s].pos + stream[s].fetch.frames <= c + n + RingFrames
      <4>1. stream[s].fetch \notin {NoChunk, Busy} => stream[s].fetch.frames \in Nat
        BY <3>1, ChunkSizes DEF Streamers, Fetches
      <4> QED
        BY <2>2, <3>1, <3>2, <4>1, Sizes DEF Fed
    <3> QED
      BY <3>2, <3>3, <3>4, <3>5, Zenon DEF Fed
  <2>7. Streams(plan, c + n, word', Silent, written, ring, stream)
    BY <1>4, <1>5, <2>3, <2>4, <2>5, <2>6, Zenon DEF Streams
  <2>8. UNCHANGED <<plan, written, ring, stream>> /\ audio' = Silent /\ consumed' = c + n
    BY <1>2, <2>2
  <2> QED
    BY <2>7, <2>8, Zenon DEF Streams, Fed, IsPlan, IsRange
<1> QED
  BY <1>1, <1>2, <1>4, <1>5, <1>6, <1>7, <1>8, <1>9, <1>10, <1>11 DEF PlayerIInv, PlayerTypes

-----------------------------------------------------------------------------
(* The player *)

LEMMA PlayerStarts == ASSUME PlayerInit  PROVE  PlayerIInv
<1>1. MainTypes
  <2>1. /\ state = "ready" /\ generation = 0 /\ pendingFlush = 0 /\ anchor = 0 /\ timers = {}
        /\ interval = FALSE /\ ctx = "running" /\ faults = 0
    BY DEF PlayerInit, None
  <2>2. 0 \in 0..MaxStarts /\ 0 \in 0..Total /\ 0 \in 0..MaxFaults
    BY Songs, Limits
  <2> QED
    BY <2>1, <2>2 DEF MainTypes
<1>2. LoopTypes /\ PlanTypes
  BY DEF PlayerInit, LoopTypes, PlanTypes
<1>3. StreamTypes
  <2>1. 0 \in Words
    BY Sizes DEF Words
  <2>2. Off \in Streamers
    BY DEF Off, Streamers, Fetches
  <2>3. word \in ControlWords
    BY <2>1 DEF PlayerInit, ControlWords
  <2> QED
    BY <2>1, <2>2, <2>3 DEF PlayerInit, StreamTypes
<1>4. AudioTypes
  BY Sizes DEF PlayerInit, AudioTypes, Silent, Words
<1>5. InOrder
  <2>1. toMain = <<>> /\ toWorklet = <<>>
    BY DEF PlayerInit
  <2>2. <<>> \in Seq(1..generation) /\ Len(<<>>) = 0 /\ ~\E i \in 1..0 : TRUE
    OBVIOUS
  <2> QED
    BY <2>1, <2>2 DEF InOrder
<1>6. ~Flowing /\ Phases
  BY DEF PlayerInit, Flowing, IsPlaying, Phases, Off
<1> QED
  BY <1>1, <1>2, <1>3, <1>4, <1>5, <1>6 DEF PlayerIInv, PlayerTypes

LEMMA PlayerSteps ==
  ASSUME PlayerIInv, PlayerNext
  PROVE  /\ PlayerIInv'
         /\ state' = "ended" /\ state # "ended" => plan.length # Endless /\ consumed = plan.length
<1>1. CASE User
  <2>1. PlayerIInv'
    BY <1>1, PlayKeeps, StopKeeps, ClearLoopKeeps, SeekKeeps, SetLoopRegionKeeps,
       SetLoopEnabledKeeps, Zenon DEF User
  <2>2. state' # "ended" \/ state' = state
    BY <1>1 DEF User, Play, Stop, ClearLoop, Seek, SetLoopRegion, SetLoopEnabled, Replan, Idle, StartFrom
  <2> QED
    BY <2>1, <2>2
<1>2. CASE \E g \in timers : FlushTimer(g)
  <2>1. PlayerIInv'
    BY <1>2, FlushTimerKeeps
  <2>2. state' = state
    BY <1>2 DEF FlushTimer
  <2> QED
    BY <2>1, <2>2
<1>3. CASE Flushed
  BY <1>3, FlushedKeeps
<1>4. CASE Tick
  BY <1>4, TickKeeps
<1>5. CASE \E s \in Stems : FetchDone(s) \/ FetchSettles(s) \/ FetchFails(s)
  BY <1>5, FetchDoneKeeps, FetchSettlesKeeps, FetchFailsKeeps
<1>6. CASE Suspends \/ Resumes \/ ResumeFails
  BY <1>6, ContextKeeps
<1>7. CASE AudioStep
  BY <1>7, AudioFlushKeeps, AudioBeginKeeps, AudioEndsKeeps, AudioCopiedKeeps DEF AudioStep
<1> QED
  BY <1>1, <1>2, <1>3, <1>4, <1>5, <1>6, <1>7 DEF PlayerNext

LEMMA PlayerRests ==
  ASSUME PlayerIInv, faults' \in 0..MaxFaults,
         UNCHANGED <<mainVars, loopVars, stream, ctx, portVars, sharedVars, audioVars>>
  PROVE  PlayerIInv' /\ UNCHANGED state
<1>1. PlayerTypes /\ InOrder /\ Phases /\ MainTypes
      /\ (Flowing => toWorklet = <<>> /\ Streams(plan, consumed, word, audio, written, ring, stream))
  BY DEF PlayerIInv, PlayerTypes
<1>2. MainTypes'
  BY <1>1 DEF MainTypes
<1>3. StreamTypes'
  BY <1>1 DEF PlayerTypes, StreamTypes
<1>4. LoopTypes' /\ PlanTypes' /\ AudioTypes'
  BY <1>1, TypesRest DEF PlayerTypes
<1>5. InOrder' /\ Phases' /\ Flowing' = Flowing
  BY <1>1 DEF InOrder, Phases, Flowing, IsPlaying
<1>6. UNCHANGED <<plan, consumed, word, audio, written, ring, stream, toWorklet, state>>
  OBVIOUS
<1>7. Streams(plan, consumed, word, audio, written, ring, stream)
      => Streams(plan, consumed, word, audio, written, ring, stream)'
  BY <1>6, Zenon DEF Streams, Fed, IsPlan, IsRange
<1> QED
  BY <1>1, <1>2, <1>3, <1>4, <1>5, <1>6, <1>7 DEF PlayerIInv, PlayerTypes

\* A quantum of the current stream has been fetched, is what the plan says, and
\* was not overwritten.
LEMMA HeardAsPlanned == ASSUME PlayerIInv  PROVE  HeardIsPlanned
<1> SUFFICES ASSUME audio \notin {Silent, Ending}, word.state = "playing",
                    NEW s \in Stems, NEW k \in 0..audio.need - 1
             PROVE  ring[s][Slot(audio.read + k)] = SongFrameAt(plan, consumed + k)
  BY DEF HeardIsPlanned
<1>1. Flowing
  BY DEF PlayerIInv, Phases
<1>2. Streams(plan, consumed, word, audio, written, ring, stream)
  BY <1>1 DEF PlayerIInv
<1>3. /\ audio.read = Word(consumed) /\ consumed + audio.need <= stream[s].pos
      /\ \A i \in consumed..stream[s].pos - 1 : ring[s][Slot(i)] = SongFrameAt(plan, i)
  BY <1>2 DEF Streams, Fed
<1>4. consumed \in Nat /\ audio.need \in Int /\ stream[s].pos \in Nat
  BY DEF PlayerIInv, PlayerTypes, AudioTypes, StreamTypes, Streamers
<1>5. consumed + k \in consumed..stream[s].pos - 1 /\ consumed \in Int /\ k \in Int
  BY <1>3, <1>4
<1>6. Slot(Word(consumed) + k) = Slot(consumed + k)
  BY <1>5, SlotOfWord
<1> QED
  BY <1>3, <1>5, <1>6, Zenon

LEMMA PlayerIsSafe == ASSUME PlayerIInv  PROVE  PlayerInv
<1>1. PlayerTypeOK
  BY DEF PlayerIInv, PlayerTypes, MainTypes, LoopTypes, StreamTypes, AudioTypes, PlayerTypeOK,
         Streamers, ControlWords, Words
<1>2. FetchesFit
  <2>1. ASSUME NEW s \in Stems, stream[s].fetch \notin {NoChunk, Busy}
        PROVE  HasRoom(s, stream[s].fetch.frames)
    BY <2>1, FetchingFlows
  <2> QED
    BY <2>1 DEF FetchesFit
<1> QED
  BY <1>1, <1>2, HeardAsPlanned DEF PlayerInv

\* What sounds is what the plan says, frame by frame and in every stem, and no
\* ring is overrun, whatever is pressed and whenever the three threads run.
THEOREM PlayerCorrect == PlayerSpec => []PlayerInv
<1>1. PlayerInit => PlayerIInv
  BY PlayerStarts
<1>2. PlayerIInv /\ [PlayerNext]_playerVars => PlayerIInv'
  <2> SUFFICES ASSUME PlayerIInv, [PlayerNext]_playerVars  PROVE PlayerIInv'
    OBVIOUS
  <2>1. CASE PlayerNext
    BY <2>1, PlayerSteps
  <2>2. CASE UNCHANGED playerVars
    <3>1. faults' \in 0..MaxFaults
      BY <2>2 DEF PlayerIInv, PlayerTypes, MainTypes
    <3> QED
      BY <2>2, <3>1, PlayerRests
  <2> QED
    BY <2>1, <2>2
<1>3. PlayerIInv => PlayerInv
  BY PlayerIsSafe
<1> QED
  BY <1>1, <1>2, <1>3, PTL DEF PlayerSpec

\* The player says that a song has ended only when all of it was heard.
THEOREM EndsAreReached == PlayerSpec => EndIsReached
<1>1. PlayerInit => PlayerIInv
  BY PlayerStarts
<1>2. PlayerIInv /\ [PlayerNext]_playerVars =>
        PlayerIInv'
        /\ [state' = "ended" /\ state # "ended" => plan.length # Endless /\ consumed = plan.length]_playerVars
  <2> SUFFICES ASSUME PlayerIInv, [PlayerNext]_playerVars
               PROVE  PlayerIInv'
                      /\ [state' = "ended" /\ state # "ended" =>
                            plan.length # Endless /\ consumed = plan.length]_playerVars
    OBVIOUS
  <2>1. CASE PlayerNext
    BY <2>1, PlayerSteps
  <2>2. CASE UNCHANGED playerVars
    <3>1. faults' \in 0..MaxFaults
      BY <2>2 DEF PlayerIInv, PlayerTypes, MainTypes
    <3> QED
      BY <2>2, <3>1, PlayerRests
  <2> QED
    BY <2>1, <2>2
<1> QED
  BY <1>1, <1>2, PTL DEF PlayerSpec, EndIsReached

-----------------------------------------------------------------------------
(* Mixes *)

NoneOr == Strips \cup {Nobody}
Ranges == [start : Int, end : Int]
Mixes == [stems : [Strips -> StemMixes], solo : NoneOr, loop : Ranges, loopEnabled : BOOLEAN,
          selected : NoneOr, master : Levels]

\* A mix that is in shape: its loop is none or a range of the song.
InShape(m) ==
  /\ m \in Mixes
  /\ m.loop = NoRange \/ (0 <= m.loop.start /\ m.loop.start < m.loop.end)
  /\ m.loopEnabled => m.loop # NoRange

LEMMA Faders == TopLevel \in Nat /\ 0 \in Levels /\ Unity \in Levels
  BY MixerAssumption DEF Levels

LEMMA BoundedIn ==
  ASSUME NEW x \in Int, NEW low \in Int, NEW high \in Int
  PROVE  /\ Bounded(x, low, high) \in Int /\ Bounded(x, low, high) >= low
         /\ low <= high => Bounded(x, low, high) <= high
         /\ low <= x /\ x <= high => Bounded(x, low, high) = x
BY DEF Bounded, AtLeast, AtMost

LEMMA BoundedLevel ==
  ASSUME NEW x \in Int
  PROVE  Bounded(x, 0, TopLevel) \in Levels /\ (x \in Levels => Bounded(x, 0, TopLevel) = x)
BY Faders, BoundedIn DEF Levels

LEMMA InitialInShape == InShape(InitialMix)
  BY Faders DEF InitialMix, InShape, Mixes, StemMixes, NoneOr, Ranges, NoRange

LEMMA ShapeIsStored == ASSUME NEW m \in Mixes  PROVE  StoredShape(m)
  BY Faders DEF Mixes, StemMixes, Ranges, StoredShape, Levels

\* What sanitize makes of anything has the shape, but for a loop that ends
\* before the song begins.
LEMMA SanitizedIs ==
  ASSUME NEW raw, StoredShape(raw)
  PROVE  /\ Sanitized(raw) \in Mixes
         /\ Sanitized(raw).loop = NoRange \/ Sanitized(raw).loop.start >= 0
         /\ Sanitized(raw).loopEnabled => Sanitized(raw).loop # NoRange
<1> DEFINE loop == IF raw.loop.end > raw.loop.start
                   THEN [start |-> AtLeast(raw.loop.start, 0), end |-> raw.loop.end] ELSE NoRange
           stem(s) == IF s \in DOMAIN raw.stems
                      THEN [position |-> Bounded(raw.stems[s].position, 0, TopLevel),
                            muted |-> raw.stems[s].muted]
                      ELSE InitialMix.stems[s]
           known(s) == IF s \in Strips THEN s ELSE Nobody
<1>1. loop \in Ranges /\ (loop = NoRange \/ loop.start >= 0)
  BY DEF StoredShape, Ranges, AtLeast, NoRange
<1>2. \A s \in Strips : stem(s) \in StemMixes
  <2> TAKE s \in Strips
  <2>1. CASE s \in DOMAIN raw.stems
    <3>1. Bounded(raw.stems[s].position, 0, TopLevel) \in Levels /\ raw.stems[s].muted \in BOOLEAN
      BY <2>1, BoundedLevel DEF StoredShape
    <3> QED
      BY <2>1, <3>1 DEF StemMixes
  <2>2. CASE s \notin DOMAIN raw.stems
    BY <2>2, Faders DEF InitialMix, StemMixes
  <2> QED
    BY <2>1, <2>2
<1>3. known(raw.solo) \in NoneOr /\ known(raw.selected) \in NoneOr
  BY DEF NoneOr
<1>4. Bounded(raw.master, 0, TopLevel) \in Levels
  BY BoundedLevel DEF StoredShape
<1>5. (raw.loopEnabled /\ loop # NoRange) \in BOOLEAN
  OBVIOUS
<1>6. Sanitized(raw) =
        [stems |-> [s \in Strips |-> stem(s)], solo |-> known(raw.solo), loop |-> loop,
         loopEnabled |-> raw.loopEnabled /\ loop # NoRange, selected |-> known(raw.selected),
         master |-> Bounded(raw.master, 0, TopLevel)]
  BY Zenon DEF Sanitized
<1> HIDE DEF loop, stem, known
<1>7. [s \in Strips |-> stem(s)] \in [Strips -> StemMixes]
  BY <1>2
<1>8. PICK enabled \in BOOLEAN : enabled = (raw.loopEnabled /\ loop # NoRange)
  BY <1>5
<1>9. Sanitized(raw) =
        [stems |-> [s \in Strips |-> stem(s)], solo |-> known(raw.solo), loop |-> loop,
         loopEnabled |-> enabled, selected |-> known(raw.selected),
         master |-> Bounded(raw.master, 0, TopLevel)]
  BY <1>6, <1>8, Zenon
<1>10. Sanitized(raw) \in Mixes
  BY <1>1, <1>3, <1>4, <1>7, <1>9 DEF Mixes
<1>11. Sanitized(raw).loop = loop /\ Sanitized(raw).loopEnabled = enabled
  BY <1>9
<1> QED
  BY <1>1, <1>8, <1>10, <1>11

\* A mix in shape is what sanitize makes of it.
LEMMA ShapeStays == ASSUME NEW m, InShape(m)  PROVE  Sanitized(m) = m
<1>1. /\ m \in Mixes /\ m.stems \in [Strips -> StemMixes] /\ m.solo \in NoneOr /\ m.selected \in NoneOr
      /\ m.loop \in Ranges /\ m.loopEnabled \in BOOLEAN /\ m.master \in Levels
  BY DEF InShape, Mixes
<1>2. m = [stems |-> m.stems, solo |-> m.solo, loop |-> m.loop, loopEnabled |-> m.loopEnabled,
           selected |-> m.selected, master |-> m.master]
  BY <1>1 DEF Mixes
<1> DEFINE loop == IF m.loop.end > m.loop.start
                   THEN [start |-> AtLeast(m.loop.start, 0), end |-> m.loop.end] ELSE NoRange
           stem(s) == IF s \in DOMAIN m.stems
                      THEN [position |-> Bounded(m.stems[s].position, 0, TopLevel),
                            muted |-> m.stems[s].muted]
                      ELSE InitialMix.stems[s]
           known(s) == IF s \in Strips THEN s ELSE Nobody
<1>3. loop = m.loop
  <2>1. m.loop = [start |-> m.loop.start, end |-> m.loop.end]
        /\ m.loop.start \in Int /\ m.loop.end \in Int
    BY <1>1 DEF Ranges
  <2>2. CASE m.loop = NoRange
    BY <2>2 DEF NoRange
  <2>3. CASE 0 <= m.loop.start /\ m.loop.start < m.loop.end
    BY <2>1, <2>3 DEF AtLeast
  <2> QED
    BY <2>2, <2>3 DEF InShape
<1>4. [s \in Strips |-> stem(s)] = m.stems
  <2>1. ASSUME NEW s \in Strips  PROVE  stem(s) = m.stems[s]
    <3>1. m.stems[s] \in StemMixes /\ s \in DOMAIN m.stems
      BY <1>1
    <3>2. m.stems[s].position \in Levels /\ m.stems[s].position \in Int
          /\ m.stems[s] = [position |-> m.stems[s].position, muted |-> m.stems[s].muted]
      BY <3>1, Faders DEF StemMixes, Levels
    <3>3. Bounded(m.stems[s].position, 0, TopLevel) = m.stems[s].position
      BY <3>2, BoundedLevel
    <3> QED
      BY <3>1, <3>2, <3>3
  <2> HIDE DEF stem
  <2> QED
    BY <1>1, <2>1
<1>5. known(m.solo) = m.solo /\ known(m.selected) = m.selected
  BY <1>1 DEF NoneOr
<1>6. Bounded(m.master, 0, TopLevel) = m.master
  BY <1>1, Faders, BoundedLevel DEF Levels
<1>7. (m.loopEnabled /\ loop # NoRange) = m.loopEnabled
  BY <1>1, <1>3 DEF InShape
<1>8. Sanitized(m) =
        [stems |-> [s \in Strips |-> stem(s)], solo |-> known(m.solo), loop |-> loop,
         loopEnabled |-> m.loopEnabled /\ loop # NoRange, selected |-> known(m.selected),
         master |-> Bounded(m.master, 0, TopLevel)]
  BY Zenon DEF Sanitized
<1> HIDE DEF loop, stem, known
<1> QED
  BY <1>2, <1>3, <1>4, <1>5, <1>6, <1>7, <1>8

\* Whatever was stored, the loaded mix is in shape, and loading it again is
\* loading it once.
LEMMA LoadedIs ==
  ASSUME NEW raw, StoredShape(raw)
  PROVE  InShape(Loaded(raw)) /\ Loaded(Loaded(raw)) = Loaded(raw)
<1> DEFINE once == Sanitized(raw)
           twice == Sanitized(once)
<1>1. once \in Mixes /\ (once.loop = NoRange \/ once.loop.start >= 0)
  BY SanitizedIs
<1> HIDE DEF once
<1>2. /\ twice \in Mixes
      /\ twice.loopEnabled => twice.loop # NoRange
  BY <1>1, ShapeIsStored, SanitizedIs
<1>3. twice.loop = IF once.loop.end > once.loop.start
                   THEN [start |-> AtLeast(once.loop.start, 0), end |-> once.loop.end] ELSE NoRange
  BY Zenon DEF Sanitized
<1> HIDE DEF twice
<1>4. twice.loop = NoRange \/ (0 <= twice.loop.start /\ twice.loop.start < twice.loop.end)
  <2>1. CASE once.loop.end > once.loop.start
    <3>1. once.loop # NoRange /\ once.loop.start \in Int /\ once.loop.end \in Int
      BY <1>1, <2>1 DEF NoRange, Mixes, Ranges
    <3> QED
      BY <1>1, <1>3, <2>1, <3>1 DEF AtLeast
  <2>2. CASE ~(once.loop.end > once.loop.start)
    BY <1>3, <2>2
  <2> QED
    BY <2>1, <2>2
<1>5. InShape(twice)
  BY <1>2, <1>4 DEF InShape
<1>6. Sanitized(twice) = twice
  BY <1>5, ShapeStays
<1> QED
  BY <1>5, <1>6 DEF Loaded, twice, once

-----------------------------------------------------------------------------
(* The invariant of the mixer *)

Engines ==
  [phase : {"none", "probing", "init", "live", "failed", "closed"},
   state : {"idle", "playing", "stopped", "ended"}, mix : Mixes, position : 0..Duration]

ShownStates ==
  [state : {"idle", "playing", "stopped", "ended", "error"}, starting : BOOLEAN]

MixTypes ==
  /\ InShape(mix) /\ loaded \in {"reading", "yes"} /\ timer \in BOOLEAN
  /\ puts \in Seq(Mixes) /\ StoredShape(stored) /\ StoredShape(first)
  /\ mounted \in BOOLEAN /\ hasty \in BOOLEAN /\ changes \in Nat /\ seeks \in Nat
  /\ faults \in 0..MaxFaults

EngineTypes ==
  /\ engines \in [1..MaxEngines -> Engines] /\ engineRef \in 0..MaxEngines
  /\ shown \in ShownStates /\ position \in 0..Duration

\* Until the user changes something, and unless something fails, only what was
\* loaded is saved, and never before it is loaded.
Quiet ==
  /\ timer => loaded = "yes"
  /\ changes = 0 /\ faults = 0 =>
       /\ stored \in {first, Loaded(first)}
       /\ \A i \in 1..Len(puts) : puts[i] = Loaded(first)
       /\ loaded = "yes" => mix = Loaded(first)

\* One engine starts at a time, with the mix of now, and none plays but the
\* current one, which has the mix.
Follows ==
  /\ engineRef # 0 => engines[engineRef].phase = "live"
  /\ ~hasty =>
       /\ \A n, k \in 1..MaxEngines : Starting(n) /\ Starting(k) => n = k
       /\ \A n \in 1..MaxEngines : Starting(n) => engineRef = 0
       /\ \A n \in 1..MaxEngines : engines[n].phase = "init" => engines[n].mix = mix
       /\ \A n \in 1..MaxEngines : engines[n].state = "playing" => n = engineRef
       /\ engineRef # 0 => engines[engineRef].mix = mix

\* The inductive invariant of the mixer.
MixerIInv == MixTypes /\ EngineTypes /\ Quiet /\ Follows

LEMMA MixLimits == MaxEngines \in Nat /\ Duration \in Nat /\ MaxFaults \in Nat
  BY MixerAssumption, FaultsAssumption

LEMMA NoEngineIs == NoEngine \in Engines /\ [NoEngine EXCEPT !.phase = "probing"] \in Engines
  BY InitialInShape, MixLimits DEF NoEngine, Engines, InShape

\* A rendered mix reaches the current engine, and no other one is to hear it.
LEMMA EnginesTold ==
  ASSUME MixerIInv, NEW m \in Mixes, mix' = m,
         engines' = [n \in 1..MaxEngines |-> IF Current(n) THEN Applied(engines[n], m) ELSE engines[n]],
         hasty' = (hasty \/ Deaf), UNCHANGED <<engineRef, shown, position>>
  PROVE  EngineTypes' /\ Follows'
<1>1. EngineTypes /\ Follows /\ engines \in [1..MaxEngines -> Engines]
  BY DEF MixerIInv, EngineTypes
<1>2. ASSUME NEW n \in 1..MaxEngines
      PROVE  /\ engines'[n] \in Engines /\ engines'[n].phase = engines[n].phase
             /\ engines'[n].state = engines[n].state
             /\ n = engineRef => engines'[n].mix = m
             /\ n # engineRef => engines'[n] = engines[n]
  BY <1>1 DEF Applied, Current, Engines
<1>3. engines' \in [1..MaxEngines -> Engines]
  BY <1>2
<1>4. EngineTypes'
  BY <1>1, <1>3 DEF EngineTypes
<1>5. engineRef # 0 => engineRef \in 1..MaxEngines
  BY <1>1, MixLimits DEF EngineTypes
<1>6. engineRef' # 0 => engines'[engineRef'].phase = "live"
  BY <1>1, <1>2, <1>5 DEF Follows
<1>7. ASSUME ~hasty'
      PROVE  /\ \A n, k \in 1..MaxEngines : Starting(n)' /\ Starting(k)' => n = k
             /\ \A n \in 1..MaxEngines : Starting(n)' => engineRef' = 0
             /\ \A n \in 1..MaxEngines : engines'[n].phase = "init" => engines'[n].mix = mix'
             /\ \A n \in 1..MaxEngines : engines'[n].state = "playing" => n = engineRef'
             /\ engineRef' # 0 => engines'[engineRef'].mix = mix'
  <2>1. ~hasty /\ \A n \in 1..MaxEngines : engines[n].phase # "init"
    BY <1>7 DEF Deaf
  <2>2. \A n \in 1..MaxEngines : engines'[n].phase # "init"
    BY <1>2, <2>1
  <2>3. \A n \in 1..MaxEngines : Starting(n)' <=> Starting(n)
    BY <1>2 DEF Starting
  <2> QED
    BY <1>1, <1>2, <1>5, <2>1, <2>2, <2>3 DEF Follows
<1> QED
  BY <1>4, <1>6, <1>7 DEF Follows

-----------------------------------------------------------------------------
(* The controls *)

LEMMA ChangeKeeps == ASSUME MixerIInv, NEW m, InShape(m), Change(m)  PROVE  MixerIInv'
<1>1. MixTypes /\ EngineTypes /\ Quiet /\ Follows /\ m \in Mixes
  BY DEF MixerIInv, InShape
<1>2. /\ mix' = m /\ changes' = changes + 1 /\ hasty' = (hasty \/ Deaf)
      /\ engines' = [n \in 1..MaxEngines |-> IF Current(n) THEN Applied(engines[n], m) ELSE engines[n]]
      /\ timer' = (timer \/ (m # mix /\ Saves(loaded)))
      /\ UNCHANGED <<puts, stored, first, engineRef, shown, loaded, position, mounted, seeks, faults>>
  BY DEF Change, Rendered
<1>3. EngineTypes' /\ Follows'
  BY <1>1, <1>2, EnginesTold
<1>4. MixTypes'
  <2>1. InShape(mix)'
    BY <1>2, Zenon DEF InShape
  <2>2. timer' \in BOOLEAN /\ hasty' \in BOOLEAN /\ changes' \in Nat
    BY <1>1, <1>2 DEF MixTypes
  <2> QED
    BY <1>1, <1>2, <2>1, <2>2 DEF MixTypes, StoredShape
<1>5. Quiet'
  <2>1. timer' => loaded' = "yes"
    BY <1>1, <1>2 DEF Quiet, Saves
  <2>2. changes' # 0
    BY <1>1, <1>2 DEF MixTypes
  <2> QED
    BY <2>1, <2>2 DEF Quiet
<1> QED
  BY <1>3, <1>4, <1>5 DEF MixerIInv

LEMMA MasterShapes ==
  ASSUME NEW m, InShape(m), NEW p \in Levels
  PROVE  InShape(WithMaster(m, p))
<1>1. Bounded(p, 0, TopLevel) \in Levels
  BY Faders, BoundedLevel DEF Levels
<1> QED
  BY <1>1 DEF WithMaster, InShape, Mixes

LEMMA FaderShapes ==
  ASSUME NEW m, InShape(m), NEW s \in Strips, NEW p \in Levels, NEW on \in BOOLEAN
  PROVE  InShape(WithGain(m, s, p)) /\ InShape(WithMute(m, s, on))
<1>1. m \in Mixes /\ m.stems \in [Strips -> StemMixes] /\ m.stems[s] \in StemMixes
  BY DEF InShape, Mixes
<1>2. p \in Int
  BY Faders DEF Levels
<1>3. Bounded(p, 0, TopLevel) \in Levels
  BY <1>2, BoundedLevel
<1>5. PICK l \in Levels : l = Bounded(p, 0, TopLevel)
  BY <1>3
<1>6. ASSUME NEW f \in [Strips -> StemMixes]
      PROVE  InShape([m EXCEPT !.stems = f])
  BY <1>1 DEF InShape, Mixes
<1>7. /\ [m.stems EXCEPT ![s].position = l] \in [Strips -> StemMixes]
      /\ [m.stems EXCEPT ![s].muted = on] \in [Strips -> StemMixes]
  BY <1>1 DEF StemMixes
<1>8. /\ WithGain(m, s, p) = [m EXCEPT !.stems = [m.stems EXCEPT ![s].position = l]]
      /\ WithMute(m, s, on) = [m EXCEPT !.stems = [m.stems EXCEPT ![s].muted = on]]
  BY <1>1, <1>5 DEF WithGain, WithMute, Mixes
<1> QED
  BY <1>6, <1>7, <1>8

LEMMA SoloShapes ==
  ASSUME NEW m, InShape(m), NEW s \in NoneOr
  PROVE  InShape(WithSolo(m, s)) /\ InShape(WithSelected(m, s))
BY DEF WithSolo, WithSelected, InShape, Mixes, NoneOr

LEMMA LoopShapes ==
  ASSUME NEW m, InShape(m), NEW l \in Ranges, l.start >= 0, NEW on \in BOOLEAN
  PROVE  /\ InShape(WithLoop(m, l)) /\ InShape(WithLoopEnabled(m, on))
         /\ InShape(WithLoopEnabled(WithLoop(m, l), on))
<1>1. ASSUME NEW k, InShape(k)
      PROVE  InShape(WithLoopEnabled(k, on))
  BY <1>1 DEF WithLoopEnabled, InShape, Mixes
<1>2. InShape(WithLoop(m, l))
  <2>1. CASE l.end <= l.start
    BY <2>1 DEF WithLoop
  <2>2. CASE ~(l.end <= l.start)
    <3>1. 0 <= l.start /\ l.start < l.end /\ l # NoRange
      BY <2>2 DEF Ranges, NoRange
    <3>2. WithLoop(m, l) = [m EXCEPT !.loop = l]
      BY <2>2 DEF WithLoop
    <3> QED
      BY <3>1, <3>2 DEF InShape, Mixes
  <2> QED
    BY <2>1, <2>2
<1> QED
  BY <1>1, <1>2

\* What a step leaves when it touches neither the mix nor what is saved.
LEMMA SavesKeep ==
  ASSUME MixerIInv, UNCHANGED <<mix, loaded, puts, stored, first, changes>>,
         timer' \in BOOLEAN, timer' => timer, mounted' \in BOOLEAN, hasty' \in BOOLEAN,
         seeks' \in Nat, faults' \in 0..MaxFaults, faults' >= faults
  PROVE  MixTypes' /\ Quiet'
<1>1. MixTypes /\ Quiet
  BY DEF MixerIInv
<1>2. faults' = 0 => faults = 0
  BY <1>1, MixLimits DEF MixTypes
<1>3. InShape(mix)' /\ StoredShape(stored)' /\ StoredShape(first)'
  BY <1>1, Zenon DEF MixTypes, InShape, StoredShape
<1>4. MixTypes'
  BY <1>1, <1>3 DEF MixTypes
<1>5. Quiet'
  BY <1>1, <1>2 DEF Quiet
<1> QED
  BY <1>4, <1>5

LEMMA EnginesKeep ==
  ASSUME MixerIInv, UNCHANGED <<mix, engineVars, position, hasty>>
  PROVE  EngineTypes' /\ Follows'
BY DEF MixerIInv, engineVars, EngineTypes, Follows, Starting

\* A fault is one more of the faults.
LEMMA FaultCounts ==
  ASSUME MixerIInv, NEW kind, Fault(kind)
  PROVE  faults' \in 0..MaxFaults /\ faults' > faults /\ faults' # 0
BY MixLimits DEF MixerIInv, MixTypes, Fault

LEMMA StripMoves ==
  ASSUME MixerIInv, NEW s \in Strips,
         \/ ToggleMute(s) \/ ToggleSolo(s) \/ Select(s)
         \/ \E p \in Levels : MoveFader(s, p)
  PROVE  MixerIInv'
<1>1. InShape(mix)
  BY DEF MixerIInv, MixTypes
<1>2. CASE ToggleMute(s)
  <2>1. (~mix.stems[s].muted) \in BOOLEAN
    OBVIOUS
  <2>2. PICK on \in BOOLEAN : on = ~mix.stems[s].muted
    BY <2>1
  <2>3. Change(WithMute(mix, s, on))
    BY <1>2, <2>2, Zenon DEF ToggleMute
  <2>4. 0 \in Levels
    BY Faders
  <2>5. InShape(WithMute(mix, s, on))
    BY <1>1, <2>2, <2>4, FaderShapes, Zenon
  <2> QED
    BY <2>3, <2>5, ChangeKeeps, Zenon
<1>3. CASE ToggleSolo(s)
  <2>1. PICK k \in NoneOr : k = IF mix.solo = s THEN Nobody ELSE s
    BY DEF NoneOr
  <2>2. Change(WithSolo(mix, k))
    BY <1>3, <2>1, Zenon DEF ToggleSolo
  <2>3. InShape(WithSolo(mix, k))
    BY <1>1, <2>1, SoloShapes, Zenon
  <2> QED
    BY <2>2, <2>3, ChangeKeeps, Zenon
<1>4. CASE Select(s)
  <2>1. s \in NoneOr
    BY DEF NoneOr
  <2>2. InShape(WithSelected(mix, s))
    BY <1>1, <2>1, SoloShapes, Zenon
  <2> QED
    BY <1>4, <2>2, ChangeKeeps, Zenon DEF Select
<1>5. ASSUME NEW p \in Levels, MoveFader(s, p)
      PROVE  MixerIInv'
  <2>1. TRUE \in BOOLEAN
    OBVIOUS
  <2>2. InShape(WithGain(mix, s, p))
    BY <1>1, <2>1, FaderShapes, Zenon
  <2> QED
    BY <1>5, <2>2, ChangeKeeps, Zenon DEF MoveFader
<1> QED
  BY <1>2, <1>3, <1>4, <1>5

LEMMA MasterMoves ==
  ASSUME MixerIInv, (\E p \in Levels : MoveMaster(p)) \/ ClearSolo
  PROVE  MixerIInv'
<1>1. InShape(mix)
  BY DEF MixerIInv, MixTypes
<1>2. ASSUME NEW p \in Levels, MoveMaster(p)
      PROVE  MixerIInv'
  <2>1. InShape(WithMaster(mix, p))
    BY <1>1, MasterShapes, Zenon
  <2> QED
    BY <1>2, <2>1, ChangeKeeps, Zenon DEF MoveMaster
<1>3. CASE ClearSolo
  <2>1. Nobody \in NoneOr
    BY DEF NoneOr
  <2>2. InShape(WithSolo(mix, Nobody))
    BY <1>1, <2>1, SoloShapes, Zenon
  <2> QED
    BY <1>3, <2>2, ChangeKeeps, Zenon DEF ClearSolo
<1> QED
  BY <1>2, <1>3

\* Where the user hears it is a place of the song.
LEMMA PlayheadIn == ASSUME MixerIInv  PROVE  Playhead \in 0..Duration
<1>1. EngineTypes
  BY DEF MixerIInv
<1>2. engineRef # 0 => engineRef \in 1..MaxEngines /\ engines[engineRef] \in Engines
  BY <1>1, MixLimits DEF EngineTypes
<1> QED
  BY <1>1, <1>2 DEF Playhead, EngineTypes, Engines

LEMMA LoopMoves ==
  ASSUME MixerIInv,
         ToggleLoop \/ \E t \in 0..Duration : DragLoopStart(t) \/ DragLoopEnd(t)
  PROVE  MixerIInv'
<1>1. /\ InShape(mix) /\ mix.loop \in Ranges /\ mix.loopEnabled \in BOOLEAN
      /\ mix.loop.start \in Int /\ mix.loop.end \in Int
      /\ mix.loop # NoRange => mix.loop.start >= 0
  BY DEF MixerIInv, MixTypes, InShape, Mixes, Ranges
<1>2. /\ Duration \in Nat /\ MinLoopSeconds \in Nat /\ DefaultLoop \in Nat
  BY MixerAssumption
<1>3. ASSUME NEW t \in 0..Duration, DragLoopStart(t)
      PROVE  MixerIInv'
  <2>0. PICK high \in Int : high = mix.loop.end - MinLoopSeconds
    BY <1>1, <1>2
  <2>1. PICK b \in Int : b = Bounded(t, 0, mix.loop.end - MinLoopSeconds) /\ b >= 0
    <3>1. t \in Int /\ 0 \in Int
      BY <1>2
    <3>2. Bounded(t, 0, high) \in Int /\ Bounded(t, 0, high) >= 0
      BY <2>0, <3>1 DEF Bounded, AtLeast, AtMost
    <3> QED
      BY <2>0, <3>2
  <2>2. PICK l \in Ranges : l = [mix.loop EXCEPT !.start = b] /\ l.start >= 0
    <3>1. [mix.loop EXCEPT !.start = b] \in Ranges /\ [mix.loop EXCEPT !.start = b].start >= 0
      BY <1>1, <2>1 DEF Ranges
    <3> QED
      BY <3>1
  <2>3. Change(WithLoop(mix, l))
    BY <1>3, <2>1, <2>2, Zenon DEF DragLoopStart
  <2>4. TRUE \in BOOLEAN
    OBVIOUS
  <2>5. InShape(WithLoop(mix, l))
    BY <1>1, <2>2, <2>4, LoopShapes, Zenon
  <2> QED
    BY <2>3, <2>5, ChangeKeeps, Zenon
<1>4. ASSUME NEW t \in 0..Duration, DragLoopEnd(t)
      PROVE  MixerIInv'
  <2>1. PICK b \in Int : b = AtMost(AtLeast(t, mix.loop.start + MinLoopSeconds), Duration)
    BY <1>1, <1>2 DEF AtMost, AtLeast
  <2>2. PICK l \in Ranges : l = [mix.loop EXCEPT !.end = b] /\ l.start >= 0
    BY <1>1, <1>4, <2>1 DEF Ranges, DragLoopEnd
  <2>3. Change(WithLoop(mix, l))
    BY <1>4, <2>1, <2>2, Zenon DEF DragLoopEnd
  <2>4. TRUE \in BOOLEAN
    OBVIOUS
  <2>5. InShape(WithLoop(mix, l))
    BY <1>1, <2>2, <2>4, LoopShapes, Zenon
  <2> QED
    BY <2>3, <2>5, ChangeKeeps, Zenon
<1>5. CASE ToggleLoop
  <2>1. Playhead \in Int /\ AtMost(DefaultLoop, Duration) \in Int
    BY <1>2, PlayheadIn DEF AtMost
  <2>2. PICK b \in Int : b = Bounded(Playhead, 0, Duration - AtMost(DefaultLoop, Duration)) /\ b >= 0
    <3>1. PICK high \in Int : high = Duration - AtMost(DefaultLoop, Duration)
      BY <1>2, <2>1
    <3>2. Bounded(Playhead, 0, high) \in Int /\ Bounded(Playhead, 0, high) >= 0
      BY <2>1, <3>1 DEF Bounded, AtLeast, AtMost
    <3> QED
      BY <3>1, <3>2
  <2>3. PICK l \in Ranges : l = [start |-> b, end |-> AtMost(b + DefaultLoop, Duration)] /\ l.start >= 0
    <3>1. AtMost(b + DefaultLoop, Duration) \in Int
      BY <1>2, <2>2 DEF AtMost
    <3> DEFINE range == [start |-> b, end |-> AtMost(b + DefaultLoop, Duration)]
    <3>2. range \in Ranges /\ range.start >= 0
      BY <2>2, <3>1 DEF Ranges
    <3> QED
      BY <3>2
  <2>4. \/ Change(WithLoopEnabled(WithLoop(mix, l), TRUE))
        \/ Change(WithLoopEnabled(mix, ~mix.loopEnabled))
    BY <1>5, <2>2, <2>3, Zenon DEF ToggleLoop
  <2>5. PICK on \in BOOLEAN : on = ~mix.loopEnabled
    OBVIOUS
  <2>6. InShape(WithLoopEnabled(mix, on))
    BY <1>1, <2>3, <2>5, LoopShapes, Zenon
  <2>7. TRUE \in BOOLEAN
    OBVIOUS
  <2>8. InShape(WithLoopEnabled(WithLoop(mix, l), TRUE))
    BY <1>1, <2>3, <2>7, LoopShapes, Zenon
  <2> QED
    BY <2>4, <2>5, <2>6, <2>8, ChangeKeeps, Zenon
<1> QED
  BY <1>3, <1>4, <1>5

-----------------------------------------------------------------------------
(* Loading and saving *)

LEMMA MixLoads == ASSUME MixerIInv, LoadMix  PROVE  MixerIInv'
<1>1. MixTypes /\ EngineTypes /\ Quiet /\ Follows
  BY DEF MixerIInv
<1>2. /\ mix' = Loaded(stored) /\ loaded' = "yes" /\ timer' = Saves("yes") /\ hasty' = (hasty \/ Deaf)
      /\ engines' = [n \in 1..MaxEngines |-> IF Current(n) THEN Applied(engines[n], mix') ELSE engines[n]]
      /\ UNCHANGED <<puts, stored, first, engineRef, shown, position, mounted, changes, seeks, faults>>
  BY DEF LoadMix
<1>3. StoredShape(stored) /\ StoredShape(first)
  BY <1>1 DEF MixTypes
<1>4. InShape(Loaded(stored)) /\ Loaded(Loaded(first)) = Loaded(first)
  BY <1>3, LoadedIs
<1>5. PICK m \in Mixes : m = Loaded(stored) /\ InShape(m)
  BY <1>4 DEF InShape
<1>6. engines' = [n \in 1..MaxEngines |-> IF Current(n) THEN Applied(engines[n], m) ELSE engines[n]]
      /\ mix' = m
  BY <1>2, <1>5
<1>7. EngineTypes' /\ Follows'
  BY <1>2, <1>6, EnginesTold
<1>8. MixTypes'
  <2>1. InShape(mix)' /\ StoredShape(stored)' /\ StoredShape(first)'
    BY <1>2, <1>3, <1>5, <1>6, Zenon DEF InShape, StoredShape
  <2>2. timer' \in BOOLEAN /\ hasty' \in BOOLEAN
    BY <1>1, <1>2 DEF MixTypes, Saves
  <2> QED
    BY <1>1, <1>2, <2>1, <2>2 DEF MixTypes
<1>9. Quiet'
  BY <1>1, <1>2, <1>4 DEF Quiet
<1> QED
  BY <1>7, <1>8, <1>9 DEF MixerIInv

LEMMA SavesMove ==
  ASSUME MixerIInv, LoadMixFails \/ Persist \/ PutFails \/ \E i \in 1..Len(puts) : PutArrives(i)
  PROVE  MixerIInv'
<1>1. MixTypes /\ Quiet /\ puts \in Seq(Mixes) /\ mix \in Mixes
  BY DEF MixerIInv, MixTypes, InShape
<1>2. UNCHANGED <<mix, first, engineVars, inputVars>>
  BY DEF LoadMixFails, Persist, PutFails, PutArrives
<1>3. EngineTypes' /\ Follows'
  BY <1>2, EnginesKeep DEF inputVars
<1>4. InShape(mix)' /\ StoredShape(first)'
  BY <1>1, <1>2, Zenon DEF MixTypes, InShape, StoredShape
<1>5. UNCHANGED <<position, mounted, changes, seeks, hasty>>
  BY <1>2 DEF inputVars
<1>6. CASE LoadMixFails
  <2>1. /\ loaded' = "yes" /\ timer' \in BOOLEAN /\ UNCHANGED <<puts, stored>>
        /\ faults' \in 0..MaxFaults /\ faults' # 0
    BY <1>6, FaultCounts DEF LoadMixFails, Saves
  <2>2. StoredShape(stored)'
    BY <1>1, <2>1, Zenon DEF MixTypes, StoredShape
  <2>3. MixTypes'
    BY <1>1, <1>4, <1>5, <2>1, <2>2 DEF MixTypes
  <2>4. Quiet'
    BY <2>1 DEF Quiet
  <2> QED
    BY <1>3, <2>3, <2>4 DEF MixerIInv
<1>7. CASE Persist
  <2>1. /\ timer /\ timer' = FALSE /\ puts' = Append(puts, mix) /\ UNCHANGED <<loaded, stored, faults>>
    BY <1>7 DEF Persist
  <2>2. StoredShape(stored)'
    BY <1>1, <2>1, Zenon DEF MixTypes, StoredShape
  <2>3. puts' \in Seq(Mixes)
    BY <1>1, <2>1
  <2>4. MixTypes'
    BY <1>1, <1>4, <1>5, <2>1, <2>2, <2>3 DEF MixTypes
  <2>5. loaded = "yes"
    BY <1>1, <2>1 DEF Quiet
  <2>6. ASSUME changes = 0, faults = 0, NEW i \in 1..Len(puts')
        PROVE  puts'[i] = Loaded(first)
    <3>1. mix = Loaded(first) /\ \A k \in 1..Len(puts) : puts[k] = Loaded(first)
      BY <1>1, <2>5, <2>6 DEF Quiet
    <3> QED
      BY <1>1, <2>1, <2>6, <3>1
  <2>7. Quiet'
    BY <1>1, <1>2, <1>5, <2>1, <2>6 DEF Quiet
  <2> QED
    BY <1>3, <2>4, <2>7 DEF MixerIInv
<1>8. CASE PutFails
  <2>1. /\ puts # <<>> /\ puts' = Tail(puts) /\ UNCHANGED <<loaded, timer, stored>>
        /\ faults' \in 0..MaxFaults /\ faults' # 0
    BY <1>8, FaultCounts DEF PutFails
  <2>2. StoredShape(stored)'
    BY <1>1, <2>1, Zenon DEF MixTypes, StoredShape
  <2>3. puts' \in Seq(Mixes)
    BY <1>1, <2>1
  <2>4. MixTypes'
    BY <1>1, <1>4, <1>5, <2>1, <2>2, <2>3 DEF MixTypes
  <2>5. Quiet'
    BY <1>1, <2>1 DEF Quiet
  <2> QED
    BY <1>3, <2>4, <2>5 DEF MixerIInv
<1>9. ASSUME NEW i \in 1..Len(puts), PutArrives(i)
      PROVE  MixerIInv'
  <2>1. /\ stored' = puts[i] /\ puts' = SubSeq(puts, 1, i - 1) \o SubSeq(puts, i + 1, Len(puts))
        /\ UNCHANGED <<loaded, timer>>
    BY <1>9 DEF PutArrives, RemoveAt
  <2>2. puts[i] \in Mixes
    BY <1>1
  <2>3. StoredShape(stored)'
    BY <2>1, <2>2, ShapeIsStored DEF StoredShape
  <2>4. /\ puts' \in Seq(Mixes)
        /\ \A k \in 1..Len(puts') : \E j \in 1..Len(puts) : puts'[k] = puts[j]
    <3> DEFINE a == SubSeq(puts, 1, i - 1)
               b == SubSeq(puts, i + 1, Len(puts))
    <3>1. /\ a \in Seq(Mixes) /\ Len(a) = i - 1 /\ \A k \in 1..i - 1 : a[k] = puts[k]
      BY <1>1
    <3>2. /\ b \in Seq(Mixes) /\ Len(b) = Len(puts) - i /\ \A k \in 1..Len(puts) - i : b[k] = puts[i + k]
      BY <1>1
    <3> HIDE DEF a, b
    <3>3. puts' = a \o b
      BY <2>1 DEF a, b
    <3>4. a \o b \in Seq(Mixes) /\ Len(a \o b) = Len(puts) - 1
      <4>1. Len(puts) \in Nat
        BY <1>1
      <4>2. Len(a \o b) = Len(a) + Len(b)
        BY <3>1, <3>2, ConcatProperties, Zenon
      <4>3. Len(a \o b) = Len(puts) - 1
        BY <3>1, <3>2, <4>1, <4>2
      <4>4. a \o b \in Seq(Mixes)
        BY <3>1, <3>2, ConcatProperties, Zenon
      <4> QED
        BY <4>3, <4>4
    <3>5. ASSUME NEW k \in 1..Len(puts) - 1
          PROVE  \E j \in 1..Len(puts) : (a \o b)[k] = puts[j]
      <4>1. CASE k <= i - 1
        <5>1. (a \o b)[k] = puts[k] /\ k \in 1..Len(puts)
          BY <1>1, <3>1, <3>2, <4>1
        <5> QED
          BY <5>1
      <4>2. CASE ~(k <= i - 1)
        <5>1. k - (i - 1) \in 1..Len(puts) - i /\ k + 1 \in 1..Len(puts) /\ i + (k - (i - 1)) = k + 1
          BY <1>1, <4>2
        <5>2. (a \o b)[k] = b[k - (i - 1)]
          BY <1>1, <3>1, <3>2, <4>2
        <5>3. b[k - (i - 1)] = puts[k + 1]
          BY <3>2, <5>1
        <5> QED
          BY <5>1, <5>2, <5>3
      <4> QED
        BY <4>1, <4>2
    <3> QED
      BY <3>3, <3>4, <3>5
  <2>5. faults' \in 0..MaxFaults /\ (faults' = 0 => faults = 0)
    <3>1. CASE i = 1
      BY <1>1, <1>9, <3>1 DEF PutArrives, MixTypes
    <3>2. CASE i # 1
      BY <1>9, <3>2, FaultCounts DEF PutArrives
    <3> QED
      BY <3>1, <3>2
  <2>6. MixTypes'
    BY <1>1, <1>4, <1>5, <2>1, <2>3, <2>4, <2>5 DEF MixTypes
  <2>7. Quiet'
    BY <1>1, <1>2, <1>5, <2>1, <2>4, <2>5 DEF Quiet
  <2> QED
    BY <1>3, <2>6, <2>7 DEF MixerIInv
<1> QED
  BY <1>6, <1>7, <1>8, <1>9

-----------------------------------------------------------------------------
(* Transport *)

\* A step at the engines while nothing is loaded, saved or changed.
LEMMA TransportKeeps ==
  ASSUME MixerIInv, UNCHANGED <<mix, saveVars, mounted, changes, faults>>,
         seeks' \in Nat, hasty' \in BOOLEAN, EngineTypes', Follows'
  PROVE  MixerIInv'
<1>1. timer \in BOOLEAN /\ mounted \in BOOLEAN /\ faults \in 0..MaxFaults
  BY DEF MixerIInv, MixTypes
<1>2. MixTypes' /\ Quiet'
  BY <1>1, MixLimits, SavesKeep DEF saveVars
<1> QED
  BY <1>2 DEF MixerIInv

LEMMA MixerSeeks == ASSUME MixerIInv, NEW t \in Int, SeekTo(t)  PROVE  MixerIInv'
<1>1. MixTypes /\ EngineTypes /\ Follows /\ engines \in [1..MaxEngines -> Engines]
  BY DEF MixerIInv, EngineTypes
<1>2. /\ seeks' = seeks + 1 /\ position' = Bounded(t, 0, Duration) /\ hasty' = (hasty \/ Deaf)
      /\ engines' = [n \in 1..MaxEngines |->
                      IF Current(n) THEN [engines[n] EXCEPT !.position = position',
                                            !.state = IF @ = "ended" THEN "stopped" ELSE @]
                      ELSE engines[n]]
      /\ shown' = IF engineRef # 0 THEN [shown EXCEPT !.state = engines'[engineRef].state] ELSE shown
      /\ UNCHANGED <<mix, saveVars, engineRef, mounted, changes, faults>>
  BY DEF SeekTo
<1>3. position' \in 0..Duration
  <2>1. Bounded(t, 0, Duration) \in 0..Duration
    BY MixLimits DEF Bounded, AtLeast, AtMost
  <2> QED
    BY <1>2, <2>1
<1>4. ASSUME NEW n \in 1..MaxEngines
      PROVE  /\ engines'[n] \in Engines /\ engines'[n].phase = engines[n].phase
             /\ engines'[n].mix = engines[n].mix
             /\ engines'[n].state = "playing" => engines[n].state = "playing"
  BY <1>1, <1>2, <1>3 DEF Engines
<1>5. engineRef # 0 => engineRef \in 1..MaxEngines
  BY <1>1, MixLimits DEF EngineTypes
<1>6. EngineTypes'
  <2>1. engines' \in [1..MaxEngines -> Engines]
    BY <1>2, <1>4
  <2>2. shown' \in ShownStates
    <3>1. CASE engineRef # 0
      <4>1. engines'[engineRef].state \in {"idle", "playing", "stopped", "ended"}
        BY <1>4, <1>5, <3>1 DEF Engines
      <4> QED
        BY <1>1, <1>2, <3>1, <4>1 DEF EngineTypes, ShownStates
    <3>2. CASE engineRef = 0
      BY <1>1, <1>2, <3>2 DEF EngineTypes
    <3> QED
      BY <3>1, <3>2
  <2> QED
    BY <1>1, <1>2, <1>3, <2>1, <2>2 DEF EngineTypes
<1>7. Follows'
  <2>1. \A n \in 1..MaxEngines : Starting(n)' <=> Starting(n)
    BY <1>4 DEF Starting
  <2> QED
    BY <1>1, <1>2, <1>4, <1>5, <2>1 DEF Follows
<1> QED
  <2>0. seeks' = seeks + 1 /\ seeks \in Nat
    BY <1>1, <1>2, Zenon DEF MixTypes
  <2>1. seeks' \in Nat
    BY <2>0
  <2>2. hasty' \in BOOLEAN
    BY <1>2
  <2> QED
    BY <1>2, <1>6, <1>7, <2>1, <2>2, TransportKeeps

LEMMA SeeksMove ==
  ASSUME MixerIInv,
         ReturnToStart \/ (\E t \in 0..Duration : SeekTo(t)) \/ \E by \in {-1, 1} : Nudge(by)
  PROVE  MixerIInv'
<1>1. mix.loop.start \in Int /\ Duration \in Nat
  BY MixLimits DEF MixerIInv, MixTypes, InShape, Mixes, Ranges
<1>2. CASE ReturnToStart
  <2>1. PICK t \in Int : t = IF mix.loopEnabled THEN mix.loop.start ELSE 0
    BY <1>1
  <2> QED
    BY <1>2, <2>1, MixerSeeks, Zenon DEF ReturnToStart
<1>3. ASSUME NEW t \in 0..Duration, SeekTo(t)
      PROVE  MixerIInv'
  <2>1. t \in Int
    BY <1>1
  <2> QED
    BY <1>3, <2>1, MixerSeeks, Zenon
<1>4. ASSUME NEW by \in {-1, 1}, Nudge(by)
      PROVE  MixerIInv'
  <2>1. PICK t \in Int : t = Playhead + by
    BY PlayheadIn, <1>1
  <2> QED
    BY <1>4, <2>1, MixerSeeks, Zenon DEF Nudge
<1> QED
  BY <1>2, <1>3, <1>4

\* A set of numbers that is not empty has a least one.
LEMMA LeastOne ==
  ASSUME NEW S, S \subseteq Nat, S # {}
  PROVE  \E n \in S : \A k \in S : n <= k
<1>1. PICK n \in S : \A k \in S : ~(<<k, n>> \in OpToRel(<, Nat))
  BY NatLessThanWellFounded, WFMin
<1>2. \A k \in S : ~(k < n)
  BY <1>1 DEF OpToRel
<1> QED
  BY <1>2

LEMMA PlaysIs ==
  ASSUME NEW e \in Engines
  PROVE  /\ Plays(e) \in Engines /\ Plays(e).phase = e.phase /\ Plays(e).mix = e.mix
         /\ Plays(e).state = "playing"
<1>1. PICK p \in 0..Duration : p = IF e.state = "ended" THEN 0 ELSE e.position
  BY MixLimits DEF Engines
<1>2. Plays(e) = [e EXCEPT !.state = "playing", !.position = p]
  BY <1>1 DEF Plays
<1> QED
  BY <1>2 DEF Engines

LEMMA MixerPlays == ASSUME MixerIInv, PressPlay  PROVE  MixerIInv'
<1>1. MixTypes /\ EngineTypes /\ Follows /\ engines \in [1..MaxEngines -> Engines]
  BY DEF MixerIInv, EngineTypes
<1>2. UNCHANGED <<mix, saveVars, engineRef, position, mounted, changes, seeks, faults>>
  BY DEF PressPlay
<1>3. CASE HasEngine
  <2>1. engineRef \in 1..MaxEngines /\ engineRef # 0
    BY <1>1, <1>3, MixLimits DEF EngineTypes, HasEngine
  <2>2. /\ engines' = [engines EXCEPT ![engineRef] = Plays(engines[engineRef])]
        /\ shown' = [shown EXCEPT !.state = "playing"] /\ hasty' = hasty
    BY <1>3 DEF PressPlay
  <2>3. PICK e \in Engines : /\ e = Plays(engines[engineRef]) /\ e.phase = engines[engineRef].phase
                             /\ e.mix = engines[engineRef].mix
    <3>1. engines[engineRef] \in Engines
      BY <1>1, <2>1
    <3> QED
      BY <3>1, PlaysIs
  <2>4. engines' = [engines EXCEPT ![engineRef] = e]
    BY <2>2, <2>3
  <2>5. ASSUME NEW n \in 1..MaxEngines
        PROVE  /\ engines'[n].phase = engines[n].phase /\ engines'[n].mix = engines[n].mix
               /\ n # engineRef => engines'[n] = engines[n]
    BY <1>1, <2>1, <2>3, <2>4
  <2>6. EngineTypes'
    BY <1>1, <1>2, <2>1, <2>2, <2>4 DEF EngineTypes, ShownStates
  <2>7. Follows'
    <3>1. \A n \in 1..MaxEngines : Starting(n)' <=> Starting(n)
      BY <2>5 DEF Starting
    <3> QED
      BY <1>1, <1>2, <2>1, <2>2, <2>5, <3>1 DEF Follows
  <2> QED
    BY <1>1, <1>2, <2>2, <2>6, <2>7, TransportKeeps DEF MixTypes
<1>4. CASE ~HasEngine
  <2>1. PICK n \in 1..MaxEngines :
          /\ engines[n].phase = "none"
          /\ engines' = [engines EXCEPT ![n] = [NoEngine EXCEPT !.phase = "probing"]]
    <3>1. PICK n \in Free : \A k \in Free : n <= k
      <4>1. Free # {} /\ Free \subseteq Nat
        BY <1>4, MixLimits DEF PressPlay, Free
      <4> QED
        BY <4>1, LeastOne
    <3> DEFINE least == CHOOSE i \in Free : \A k \in Free : i <= k
    <3>2. least \in Free
      BY <3>1
    <3>3. engines' = [engines EXCEPT ![least] = [NoEngine EXCEPT !.phase = "probing"]]
      BY <1>4 DEF PressPlay
    <3> HIDE DEF least
    <3> QED
      BY <3>2, <3>3 DEF Free
  <2>2. /\ shown' = [shown EXCEPT !.starting = TRUE]
        /\ hasty' = (hasty \/ \E k \in 1..MaxEngines : Starting(k))
        /\ engineRef = 0
    BY <1>4 DEF PressPlay, HasEngine
  <2>3. PICK e \in Engines : e = [NoEngine EXCEPT !.phase = "probing"]
    BY NoEngineIs
  <2>4. e.phase = "probing" /\ e.state = "idle"
    BY <2>3 DEF NoEngine
  <2>5. engines' = [engines EXCEPT ![n] = e]
    BY <2>1, <2>3
  <2>6. EngineTypes'
    BY <1>1, <1>2, <2>2, <2>5 DEF EngineTypes, ShownStates
  <2>7. Follows'
    <3>1. \A k \in 1..MaxEngines : engines'[k] = IF k = n THEN e ELSE engines[k]
      BY <1>1, <2>5
    <3>2. ASSUME ~hasty'
          PROVE  \A k \in 1..MaxEngines : Starting(k)' <=> k = n
      BY <2>2, <2>4, <3>1, <3>2 DEF Starting
    <3> QED
      BY <1>1, <1>2, <2>2, <2>4, <3>1, <3>2 DEF Follows
  <2> QED
    BY <1>1, <1>2, <2>2, <2>6, <2>7, TransportKeeps DEF MixTypes
<1> QED
  BY <1>3, <1>4

LEMMA MixerStops == ASSUME MixerIInv, PressStop  PROVE  MixerIInv'
<1>1. MixTypes /\ EngineTypes /\ Follows /\ engines \in [1..MaxEngines -> Engines]
  BY DEF MixerIInv, EngineTypes
<1>2. /\ engineRef # 0 /\ engines' = [engines EXCEPT ![engineRef].state = "stopped"]
      /\ shown' = [shown EXCEPT !.state = "stopped"]
      /\ UNCHANGED <<mix, saveVars, engineRef, inputVars, faults>>
  BY DEF PressStop
<1>3. engineRef \in 1..MaxEngines
  BY <1>1, <1>2, MixLimits DEF EngineTypes
<1>4. ASSUME NEW n \in 1..MaxEngines
      PROVE  /\ engines'[n] \in Engines /\ engines'[n].phase = engines[n].phase
             /\ engines'[n].mix = engines[n].mix
             /\ engines'[n].state = "playing" => engines[n].state = "playing"
  BY <1>1, <1>2, <1>3 DEF Engines
<1>5. EngineTypes'
  <2>1. engines' \in [1..MaxEngines -> Engines]
    BY <1>1, <1>2, <1>4
  <2> QED
    BY <1>1, <1>2, <2>1 DEF EngineTypes, ShownStates, inputVars
<1>6. Follows'
  <2>1. \A n \in 1..MaxEngines : Starting(n)' <=> Starting(n)
    BY <1>4 DEF Starting
  <2> QED
    BY <1>1, <1>2, <1>3, <1>4, <2>1 DEF Follows, inputVars
<1> QED
  BY <1>1, <1>2, <1>5, <1>6, TransportKeeps DEF MixTypes, inputVars

LEMMA UnmountKeeps == ASSUME MixerIInv, Unmount  PROVE  MixerIInv'
<1>1. MixTypes /\ EngineTypes /\ Follows /\ engines \in [1..MaxEngines -> Engines]
  BY DEF MixerIInv, EngineTypes
<1>2. /\ mounted' = FALSE /\ timer' = FALSE /\ engineRef' = 0
      /\ engines' = [n \in 1..MaxEngines |-> IF Current(n) THEN Closed(engines[n]) ELSE engines[n]]
      /\ hasty' = (hasty \/ \E n \in 1..MaxEngines : Starting(n))
      /\ UNCHANGED <<mix, loaded, puts, stored, first, shown, position, changes, seeks, faults>>
  BY DEF Unmount
<1>3. ASSUME NEW n \in 1..MaxEngines
      PROVE  /\ engines'[n] \in Engines
             /\ n # engineRef => engines'[n] = engines[n]
             /\ n = engineRef => engines'[n].phase = "closed" /\ engines'[n].state = "idle"
  BY <1>1, <1>2 DEF Current, Closed, Engines
<1>4. EngineTypes'
  <2>1. engines' \in [1..MaxEngines -> Engines]
    BY <1>2, <1>3
  <2> QED
    BY <1>1, <1>2, <2>1, MixLimits DEF EngineTypes
<1>5. Follows'
  <2>1. ASSUME ~hasty'
        PROVE  /\ \A n \in 1..MaxEngines : ~Starting(n)'
               /\ \A n \in 1..MaxEngines : engines'[n].phase # "init" /\ engines'[n].state # "playing"
    BY <1>1, <1>2, <1>3, <2>1, ZenonT(60) DEF Follows, Starting
  <2> QED
    BY <1>2, <2>1 DEF Follows
<1>6. timer' \in BOOLEAN /\ mounted' \in BOOLEAN /\ hasty' \in BOOLEAN /\ ~timer'
  BY <1>2
<1>7. MixTypes' /\ Quiet'
  <2>1. seeks' \in Nat /\ faults' \in 0..MaxFaults /\ faults' >= faults
    BY <1>1, <1>2, MixLimits DEF MixTypes
  <2> QED
    BY <1>2, <1>6, <2>1, SavesKeep
<1> QED
  BY <1>4, <1>5, <1>7 DEF MixerIInv

LEMMA StartsMove ==
  ASSUME MixerIInv, NEW n \in 1..MaxEngines,
         Probed(n) \/ Started(n) \/ StreamEnds(n) \/ StartFails(n)
  PROVE  MixerIInv'
<1>1. MixTypes /\ EngineTypes /\ Quiet /\ Follows /\ engines \in [1..MaxEngines -> Engines]
  BY DEF MixerIInv, EngineTypes
<1>2. engines[n] \in Engines /\ mix \in Mixes /\ position \in 0..Duration
  BY <1>1 DEF EngineTypes, MixTypes, InShape
<1>3. UNCHANGED <<mix, saveVars, inputVars>>
  BY DEF Probed, Started, StreamEnds, StartFails
<1>4. UNCHANGED <<mix, loaded, timer, puts, stored, first, position, mounted, changes, seeks, hasty>>
  BY <1>3 DEF saveVars, inputVars
<1>5. seeks' \in Nat /\ hasty' \in BOOLEAN /\ timer' \in BOOLEAN /\ mounted' \in BOOLEAN
  BY <1>1, <1>4 DEF MixTypes
<1>6. CASE Probed(n)
  <2>1. PICK e \in Engines : e = [engines[n] EXCEPT !.phase = "init", !.mix = mix, !.position = position]
    BY <1>2 DEF Engines
  <2>2. e.phase = "init" /\ e.mix = mix /\ e.state = engines[n].state
    BY <1>2, <2>1 DEF Engines
  <2>3. /\ engines[n].phase = "probing" /\ engines' = [engines EXCEPT ![n] = e]
        /\ UNCHANGED <<engineRef, shown, faults>>
    BY <1>6, <2>1 DEF Probed
  <2>4. EngineTypes'
    BY <1>1, <1>4, <2>3 DEF EngineTypes
  <2>5. \A k \in 1..MaxEngines : engines'[k] = IF k = n THEN e ELSE engines[k]
    BY <1>1, <2>3
  <2>6. \A k \in 1..MaxEngines : Starting(k)' <=> Starting(k)
    BY <2>2, <2>3, <2>5 DEF Starting
  <2>7. engineRef # 0 => engineRef \in 1..MaxEngines /\ engineRef # n
    BY <1>1, <2>3, MixLimits DEF EngineTypes, Follows
  <2>8. Follows'
    BY <1>1, <1>4, <2>2, <2>3, <2>5, <2>6, <2>7 DEF Follows
  <2> QED
    BY <1>3, <1>4, <1>5, <2>3, <2>4, <2>8, TransportKeeps
<1>7. CASE Started(n)
  <2>1. PICK e \in Engines : e = [engines[n] EXCEPT !.phase = "live"] /\ e.mix = engines[n].mix /\ e.phase = "live"
    <3> DEFINE live == [engines[n] EXCEPT !.phase = "live"]
    <3>1. live \in Engines /\ live.mix = engines[n].mix /\ live.phase = "live"
      BY <1>2 DEF Engines
    <3> QED
      BY <3>1
  <2>2. PICK p \in Engines : p = Plays(e) /\ p.phase = "live" /\ p.mix = engines[n].mix /\ p.state = "playing"
    <3>1. Plays(e) \in Engines /\ Plays(e).phase = "live" /\ Plays(e).mix = engines[n].mix /\ Plays(e).state = "playing"
      BY <2>1, PlaysIs
    <3> QED
      BY <3>1
  <2>3. /\ engines[n].phase = "init" /\ engineRef' = n /\ engines' = [engines EXCEPT ![n] = p]
        /\ shown' = [state |-> "playing", starting |-> FALSE] /\ UNCHANGED faults
    BY <1>7, <2>1, <2>2 DEF Started
  <2>4. EngineTypes'
    BY <1>1, <1>4, <2>3, MixLimits DEF EngineTypes, ShownStates
  <2>5. \A k \in 1..MaxEngines : engines'[k] = IF k = n THEN p ELSE engines[k]
    BY <1>1, <2>3
  <2>6. n # 0
    BY MixLimits
  <2>7. ASSUME ~hasty
        PROVE  /\ \A k \in 1..MaxEngines : ~Starting(k)'
               /\ \A k \in 1..MaxEngines : engines'[k].phase # "init"
               /\ \A k \in 1..MaxEngines : engines'[k].state = "playing" => k = n
               /\ engines'[n].mix = mix
    <3>1. Starting(n) /\ engineRef = 0 /\ engines[n].mix = mix
      BY <1>1, <2>3, <2>7 DEF Follows, Starting
    <3>2. \A k \in 1..MaxEngines : k # n => ~Starting(k) /\ engines[k].state # "playing"
      BY <1>1, <2>7, <3>1, MixLimits DEF Follows
    <3> QED
      BY <2>2, <2>5, <3>1, <3>2 DEF Starting
  <2>8. Follows'
    BY <1>4, <2>2, <2>3, <2>5, <2>6, <2>7 DEF Follows
  <2> QED
    BY <1>3, <1>4, <1>5, <2>3, <2>4, <2>8, TransportKeeps
<1>8. CASE StreamEnds(n)
  <2>1. PICK e \in Engines : /\ e = [engines[n] EXCEPT !.state = "ended", !.position = Duration]
                             /\ e.phase = engines[n].phase /\ e.mix = engines[n].mix /\ e.state = "ended"
    <3> DEFINE ended == [engines[n] EXCEPT !.state = "ended", !.position = Duration]
    <3>1. /\ ended \in Engines /\ ended.phase = engines[n].phase /\ ended.mix = engines[n].mix
          /\ ended.state = "ended"
      <4>1. Duration \in 0..Duration
        BY MixLimits
      <4> QED
        BY <1>2, <4>1 DEF Engines
    <3> QED
      BY <3>1
  <2>2. /\ engines' = [engines EXCEPT ![n] = e] /\ shown' = [shown EXCEPT !.state = "ended"]
        /\ UNCHANGED <<engineRef, faults>>
    BY <1>1, <1>8, <2>1 DEF StreamEnds
  <2>3. EngineTypes'
    BY <1>1, <1>4, <2>2 DEF EngineTypes, ShownStates
  <2>4. \A k \in 1..MaxEngines : engines'[k] = IF k = n THEN e ELSE engines[k]
    BY <1>1, <2>2
  <2>5. \A k \in 1..MaxEngines :
          /\ engines'[k].phase = engines[k].phase /\ engines'[k].mix = engines[k].mix
          /\ engines'[k].state = "playing" => engines[k].state = "playing"
    BY <2>1, <2>4
  <2>6. \A k \in 1..MaxEngines : Starting(k)' <=> Starting(k)
    BY <2>5 DEF Starting
  <2>7. engineRef # 0 => engineRef \in 1..MaxEngines
    BY <1>1, MixLimits DEF EngineTypes
  <2>8. Follows'
    BY <1>1, <1>4, <2>2, <2>5, <2>6, <2>7 DEF Follows
  <2> QED
    BY <1>3, <1>4, <1>5, <2>2, <2>3, <2>8, TransportKeeps
<1>9. CASE StartFails(n)
  <2>1. PICK e \in Engines : /\ e = [engines[n] EXCEPT !.phase = "failed"]
                             /\ e.phase = "failed" /\ e.mix = engines[n].mix /\ e.state = engines[n].state
    <3> DEFINE failed == [engines[n] EXCEPT !.phase = "failed"]
    <3>1. /\ failed \in Engines /\ failed.phase = "failed" /\ failed.mix = engines[n].mix
          /\ failed.state = engines[n].state
      BY <1>2 DEF Engines
    <3> QED
      BY <3>1
  <2>2. /\ Starting(n) /\ engines' = [engines EXCEPT ![n] = e] /\ UNCHANGED engineRef
        /\ shown' = [state |-> "error", starting |-> FALSE]
    BY <1>1, <1>9, <2>1 DEF StartFails
  <2>3. faults' \in 0..MaxFaults /\ faults' >= faults
    BY <1>9, FaultCounts, MixLimits, <1>1 DEF StartFails, Fault, MixTypes
  <2>4. EngineTypes'
    BY <1>1, <1>4, <2>2 DEF EngineTypes, ShownStates
  <2>5. \A k \in 1..MaxEngines : engines'[k] = IF k = n THEN e ELSE engines[k]
    BY <1>1, <2>2
  <2>6. \A k \in 1..MaxEngines : Starting(k)' => Starting(k)
    BY <2>1, <2>5 DEF Starting
  <2>7. engineRef # 0 => engineRef \in 1..MaxEngines /\ engineRef # n
    BY <1>1, <2>2, MixLimits DEF EngineTypes, Follows, Starting
  <2>8. Follows'
    BY <1>1, <1>4, <2>1, <2>2, <2>5, <2>6, <2>7 DEF Follows
  <2>9. MixTypes' /\ Quiet'
    BY <1>4, <1>5, <2>3, SavesKeep
  <2> QED
    BY <2>4, <2>8, <2>9 DEF MixerIInv
<1> QED
  BY <1>6, <1>7, <1>8, <1>9

-----------------------------------------------------------------------------
(* What the mixer promises *)

LEMMA MixerStarts == ASSUME MixerInit  PROVE  MixerIInv
<1>1. /\ mix = InitialMix /\ loaded = "reading" /\ timer = Saves("reading") /\ puts = <<>>
      /\ stored \in RawMixes /\ first = stored /\ engines = [n \in 1..MaxEngines |-> NoEngine]
      /\ engineRef = 0 /\ shown = [state |-> "idle", starting |-> FALSE] /\ position = 0
      /\ mounted \in BOOLEAN /\ changes = 0 /\ seeks = 0 /\ hasty = FALSE /\ faults = 0
  BY DEF MixerInit
<1>2. InShape(mix)
  BY <1>1, InitialInShape
<1>3. StoredShape(stored) /\ StoredShape(first)
  BY <1>1, MixerAssumption
<1>4. timer = FALSE
  BY <1>1 DEF Saves
<1>5. puts \in Seq(Mixes) /\ Len(puts) = 0
  BY <1>1
<1>6. MixTypes
  <2>1. changes \in Nat /\ seeks \in Nat /\ faults \in 0..MaxFaults
    BY <1>1, MixLimits
  <2>2. loaded \in {"reading", "yes"} /\ mounted \in BOOLEAN /\ timer \in BOOLEAN /\ hasty \in BOOLEAN
    BY <1>1, <1>4, Zenon
  <2> QED
    BY <1>2, <1>3, <1>5, <2>1, <2>2, Zenon DEF MixTypes
<1>7. EngineTypes
  BY <1>1, NoEngineIs, MixLimits DEF EngineTypes, ShownStates
<1>8. Quiet
  BY <1>1, <1>4, <1>5 DEF Quiet
<1>9. Follows
  BY <1>1 DEF Follows, Starting, NoEngine
<1> QED
  BY <1>6, <1>7, <1>8, <1>9 DEF MixerIInv

LEMMA MixerSteps == ASSUME MixerIInv, MixerNext  PROVE  MixerIInv'
<1>1. CASE Console
  <2>1. ASSUME NEW s \in Strips,
               \/ ToggleMute(s) \/ ToggleSolo(s) \/ Select(s)
               \/ \E p \in Levels : MoveFader(s, p)
        PROVE  MixerIInv'
    BY <2>1, StripMoves
  <2>2. ASSUME (\E p \in Levels : MoveMaster(p)) \/ ClearSolo
        PROVE  MixerIInv'
    BY <2>2, MasterMoves
  <2>3. CASE ToggleLoop \/ \E t \in 0..Duration : DragLoopStart(t) \/ DragLoopEnd(t)
    BY <2>3, LoopMoves
  <2>4. CASE ReturnToStart \/ (\E t \in 0..Duration : SeekTo(t)) \/ \E by \in {-1, 1} : Nudge(by)
    BY <2>4, SeeksMove
  <2> QED
    BY <1>1, <2>1, <2>2, <2>3, <2>4, MixerPlays, MixerStops, Zenon DEF Console
<1>2. CASE LoadMix \/ Unmount
  BY <1>2, MixLoads, UnmountKeeps
<1>3. CASE LoadMixFails \/ Persist \/ PutFails \/ \E i \in 1..Len(puts) : PutArrives(i)
  BY <1>3, SavesMove
<1>4. CASE \E n \in 1..MaxEngines : Probed(n) \/ Started(n) \/ StartFails(n) \/ StreamEnds(n)
  BY <1>4, StartsMove, Zenon
<1> QED
  BY <1>1, <1>2, <1>3, <1>4, Zenon DEF MixerNext

\* A mixer at rest, while something fails elsewhere.
LEMMA MixerRests ==
  ASSUME MixerIInv, UNCHANGED <<mix, saveVars, engineVars, inputVars>>,
         faults' \in 0..MaxFaults, faults' >= faults
  PROVE  MixerIInv'
<1>1. EngineTypes' /\ Follows'
  BY EnginesKeep DEF inputVars
<1>2. MixTypes' /\ Quiet'
  <2>1. seeks \in Nat /\ timer \in BOOLEAN /\ mounted \in BOOLEAN /\ hasty \in BOOLEAN
    BY DEF MixerIInv, MixTypes
  <2> QED
    BY <2>1, SavesKeep DEF saveVars, inputVars
<1> QED
  BY <1>1, <1>2 DEF MixerIInv

LEMMA MixerIsSafe == ASSUME MixerIInv  PROVE  MixInv /\ EngineFollows
<1>1. MixTypes /\ EngineTypes /\ Quiet /\ Follows /\ InShape(mix) /\ mix \in Mixes
  BY DEF MixerIInv, MixTypes, InShape
<1>2. MixerTypeOK
  <2>1. /\ \A s \in Strips : mix.stems[s] \in StemMixes
        /\ mix.selected \in Strips \cup {Nobody} /\ mix.master \in Levels
    BY <1>1 DEF Mixes, NoneOr
  <2>2. \A n \in 1..MaxEngines :
          /\ engines[n].phase \in {"none", "probing", "init", "live", "failed", "closed"}
          /\ engines[n].state \in {"idle", "playing", "stopped", "ended"}
    BY <1>1 DEF EngineTypes, Engines
  <2> QED
    BY <1>1, <2>1, <2>2 DEF MixerTypeOK, MixTypes, EngineTypes, ShownStates
<1>3. SoundMix
  BY <1>1 DEF SoundMix, InShape, Mixes, NoneOr
<1>4. OpeningKeepsTheMix
  <2>1. Loaded(Loaded(first)) = Loaded(first)
    BY <1>1, LoadedIs DEF MixTypes
  <2> QED
    BY <1>1, <2>1 DEF OpeningKeepsTheMix, Quiet
<1>5. OneEngineSounds
  BY <1>1 DEF OneEngineSounds, Sounding, Follows
<1>6. HeardAsShown
  BY <1>1 DEF HeardAsShown, Follows, Agrees, Effective, StripLevel
<1> QED
  BY <1>2, <1>3, <1>4, <1>5, <1>6 DEF MixInv, EngineFollows

LEMMA MixerHolds == MixerSpec => []MixerIInv
<1>1. MixerInit => MixerIInv
  BY MixerStarts
<1>2. MixerIInv /\ [MixerNext]_mixerVars => MixerIInv'
  <2> SUFFICES ASSUME MixerIInv, [MixerNext]_mixerVars  PROVE  MixerIInv'
    OBVIOUS
  <2>1. CASE UNCHANGED mixerVars
    <3>1. UNCHANGED <<mix, saveVars, engineVars, inputVars, faults>> /\ faults' \in 0..MaxFaults /\ faults' >= faults
      BY <2>1, MixLimits DEF mixerVars, MixerIInv, MixTypes
    <3> QED
      BY <3>1, MixerRests
  <2> QED
    BY <2>1, MixerSteps
<1> QED
  BY <1>1, <1>2, PTL DEF MixerSpec

\* Whatever was stored for the job, by whatever version of the page, the mix of
\* the mixer is sound, and opening a page and loading it does not change what is
\* stored: at most its normal form is written back (use-mixer.ts, mix-state.ts).
THEOREM MixerCorrect == MixerSpec => []MixInv
<1>1. MixerIInv => MixInv
  BY MixerIsSafe
<1> QED
  BY <1>1, MixerHolds, PTL

\* Through loading, changes, restarts and failures of engines, one engine at
\* most is heard, the one the controls reach, and it plays what the strips show,
\* unless something was pressed while an engine was starting (use-mixer.ts).
THEOREM EngineIsFollowed == MixerSpec => []EngineFollows
<1>1. MixerIInv => EngineFollows
  BY MixerIsSafe
<1> QED
  BY <1>1, MixerHolds, PTL

-----------------------------------------------------------------------------
(* The page *)

\* While the player is at work, the mixer has not loaded or saved anything.
AtRest == hearing = "player" => loaded = "reading" /\ puts = <<>> /\ stored = first

ListeningIInv == PlayerIInv /\ MixerIInv /\ AtRest

\* Player and mixer on one page, under the same bound of faults: what is sent,
\* heard and shown stays right whichever of them is at work (Listening).
THEOREM ListeningCorrect ==
  FairListeningSpec => [](PlayerInv /\ MixInv /\ EngineFollows) /\ EndIsReached
<1> DEFINE Reached == state' = "ended" /\ state # "ended" => plan.length # Endless /\ consumed = plan.length
<1>1. ListeningInit => ListeningIInv
  <2> SUFFICES ASSUME ListeningInit  PROVE  ListeningIInv
    OBVIOUS
  <2>1. PlayerInit /\ MixerInit
    BY DEF ListeningInit
  <2>2. AtRest
    BY <2>1 DEF MixerInit, AtRest
  <2> QED
    BY <2>1, <2>2, PlayerStarts, MixerStarts DEF ListeningIInv
<1>2. ListeningIInv /\ [ListeningNext]_listeningVars => ListeningIInv' /\ [Reached]_playerVars
  <2> SUFFICES ASSUME ListeningIInv, [ListeningNext]_listeningVars
               PROVE  ListeningIInv' /\ [Reached]_playerVars
    OBVIOUS
  <2>1. PlayerIInv /\ MixerIInv /\ AtRest
    BY DEF ListeningIInv
  <2>2. ASSUME hearing = "player", UNCHANGED hearing, PlayerNext,
               UNCHANGED <<mix, saveVars, engineVars, inputVars>>
        PROVE  ListeningIInv' /\ [Reached]_playerVars
    <3>1. PlayerIInv' /\ Reached
      BY <2>1, <2>2, PlayerSteps
    <3>2. faults' \in 0..MaxFaults
      BY <3>1 DEF PlayerIInv, PlayerTypes, MainTypes
    <3>3. AtRest'
      BY <2>1, <2>2 DEF AtRest, saveVars
    <3>4. EngineTypes' /\ Follows'
      BY <2>1, <2>2, EnginesKeep DEF inputVars
    <3>5. MixTypes'
      <4>1. UNCHANGED <<mix, loaded, timer, puts, stored, first, mounted, hasty, changes, seeks>>
        BY <2>2 DEF saveVars, inputVars
      <4>2. MixTypes
        BY <2>1 DEF MixerIInv
      <4>3. InShape(mix)' /\ StoredShape(stored)' /\ StoredShape(first)'
        BY <4>1, <4>2, Zenon DEF MixTypes, InShape, StoredShape
      <4> QED
        BY <3>2, <4>1, <4>2, <4>3, Zenon DEF MixTypes
    <3>6. Quiet'
      <4>1. /\ loaded' = "reading" /\ puts' = <<>> /\ stored' = first' /\ timer' = timer
            /\ loaded = "reading"
        BY <2>1, <2>2 DEF AtRest, saveVars
      <4>2. ~timer
        BY <2>1, <4>1 DEF MixerIInv, Quiet
      <4> QED
        BY <4>1, <4>2 DEF Quiet
    <3> QED
      BY <3>1, <3>3, <3>4, <3>5, <3>6 DEF ListeningIInv, MixerIInv
  <2>3. ASSUME hearing = "mixer", UNCHANGED hearing, MixerNext,
               UNCHANGED <<mainVars, loopVars, stream, ctx, portVars, sharedVars, audioVars>>
        PROVE  ListeningIInv' /\ [Reached]_playerVars
    <3>1. MixerIInv'
      BY <2>1, <2>3, MixerSteps
    <3>2. faults' \in 0..MaxFaults
      BY <3>1 DEF MixerIInv, MixTypes
    <3>3. PlayerIInv' /\ Reached
      BY <2>1, <2>3, <3>2, PlayerRests
    <3>4. AtRest'
      BY <2>3 DEF AtRest
    <3> QED
      BY <3>1, <3>3, <3>4 DEF ListeningIInv
  <2>4. CASE UNCHANGED listeningVars
    <3>1. UNCHANGED <<hearing, mix, saveVars, engineVars, inputVars, faults,
                      mainVars, loopVars, stream, ctx, portVars, sharedVars, audioVars>>
      BY <2>4 DEF listeningVars, playerVars, mixerVars
    <3>2. faults' \in 0..MaxFaults /\ faults' >= faults
      BY <2>1, <3>1, MixLimits DEF MixerIInv, MixTypes
    <3>3. PlayerIInv' /\ MixerIInv' /\ Reached
      BY <2>1, <3>1, <3>2, PlayerRests, MixerRests
    <3>4. AtRest'
      BY <2>1, <3>1 DEF AtRest, saveVars
    <3> QED
      BY <3>3, <3>4 DEF ListeningIInv
  <2> QED
    BY <2>2, <2>3, <2>4 DEF ListeningNext
<1>3. ListeningIInv => PlayerInv /\ MixInv /\ EngineFollows
  BY PlayerIsSafe, MixerIsSafe DEF ListeningIInv
<1> QED
  BY <1>1, <1>2, <1>3, PTL DEF FairListeningSpec, EndIsReached
=============================================================================
